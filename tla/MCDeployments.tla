---------------------------- MODULE MCDeployments ---------------------------
(* Small instances of Deployments. *)
EXTENDS Deployments, TLC

CONSTANTS p1, p2, n1, q1, q2

OneProject == {p1}
TwoProjects == {p1, p2}
OneWorker == {n1}
OneReq == {q1}
TwoReqs == {q1, q2}

Symmetry == Permutations(Req)
=============================================================================
