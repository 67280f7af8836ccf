----------------------------- MODULE KeyedMutex -----------------------------
(***************************************************************************)
(* What withAgentLifecycleLock (src/server/services/agent-lifecycle.ts)    *)
(* promises its callers: one first-come-first-served lock per key.  An     *)
(* operation queues for a key, is granted the key when it is the oldest in *)
(* the queue, and gives all its keys back in one step.                     *)
(***************************************************************************)
EXTENDS Naturals, Sequences

CONSTANTS Op,   \* the operations (one call of withAgentLifecycleLock each)
          Key   \* the keys

VARIABLES queue,   \* queue[k]: the operations that asked for k, oldest first
          holds    \* holds[p]: the keys p has been granted

vars == <<queue, holds>>

TypeOK == /\ queue \in [Key -> Seq(Op)]
          /\ holds \in [Op -> SUBSET Key]

InQueue(p, k) == \E i \in 1..Len(queue[k]) : queue[k][i] = p

Init == /\ queue = [k \in Key |-> <<>>]
        /\ holds = [p \in Op |-> {}]

Join(p, k) == /\ ~InQueue(p, k)
              /\ queue' = [queue EXCEPT ![k] = Append(@, p)]
              /\ UNCHANGED holds

Grant(p, k) == /\ queue[k] # <<>>
               /\ Head(queue[k]) = p
               /\ k \notin holds[p]
               /\ holds' = [holds EXCEPT ![p] = @ \cup {k}]
               /\ UNCHANGED queue

Leave(p) == /\ holds[p] # {}
            /\ queue' = [k \in Key |-> IF k \in holds[p] THEN Tail(queue[k])
                                                         ELSE queue[k]]
            /\ holds' = [holds EXCEPT ![p] = {}]

Next == \E p \in Op : Leave(p) \/ \E k \in Key : Join(p, k) \/ Grant(p, k)

Spec == Init /\ [][Next]_vars

(* No key is held by two operations. *)
Exclusive == \A p, q \in Op : p # q => holds[p] \cap holds[q] = {}
=============================================================================
