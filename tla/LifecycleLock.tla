--------------------------- MODULE LifecycleLock ---------------------------
(***************************************************************************)
(* The keyed lock of src/server/services/agent-lifecycle.ts.  Every start, *)
(* commit, push, cleanup, archive and delete of an agent task runs under   *)
(* withAgentLifecycleLock(["project:p", "task:t"], operation); deleting a  *)
(* project takes the project's key alone.                                  *)
(*                                                                         *)
(* The lock is a chain of promises per key.  lifecycleTails maps a key to  *)
(* the promise of the last operation in line; an operation waits for the   *)
(* promise it found there (its predecessor) and leaves its own.  A promise *)
(* is named here by the operation that made it.  The process is single     *)
(* threaded: what runs between two awaits is one step.  Keys are numbers,  *)
(* compared as sort() compares the strings.                                *)
(***************************************************************************)
EXTENDS Naturals, Sequences

CONSTANTS Op,        \* operations that may be in progress at the same time
          Key,       \* lock keys
          KeySets,   \* the sets of keys an operation may ask for
          NoOp,      \* no promise
          NoKey      \* not waiting

ASSUME KeysAssumption == Key \subseteq Nat /\ NoKey \notin Key
ASSUME OpAssumption == NoOp \notin Op
ASSUME KeySetsAssumption == KeySets \subseteq ((SUBSET Key) \ {{}})

VARIABLES tails,     \* lifecycleTails
          pc,        \* where each operation stands
          want,      \* new Set(keys)
          got,       \* the keys whose release function it has pushed
          waitKey,   \* the key whose previous promise it awaits
          prev,      \* that promise; NoOp once it has resolved
          line       \* history: who is in line for each key, oldest first

vars == <<tails, pc, want, got, waitKey, prev, line>>

InLine(p, k) == k \in got[p] \/ waitKey[p] = k

Init == /\ tails = [k \in Key |-> NoOp]
        /\ pc = [p \in Op |-> "idle"]
        /\ want = [p \in Op |-> {}]
        /\ got = [p \in Op |-> {}]
        /\ waitKey = [p \in Op |-> NoKey]
        /\ prev = [p \in Op |-> NoOp]
        /\ line = [k \in Key |-> <<>>]

(***************************************************************************)
(* Seeded faults: each is a plausible slip in the operator it is named     *)
(* after, and shows that a property notices it.                            *)
(***************************************************************************)
Previous_Ignored(p, k) == NoOp
PrevAfterRelease_WakeNone(p, q) == prev[q]

(* new Set(keys) in ascending order: the next key to ask for. *)
FirstOf(S) == CHOOSE k \in S : \A j \in S : k <= j

(* lifecycleTails.get(key) ?? Promise.resolve() *)
Previous(p, k) == tails[k]

(* What release() leaves in lifecycleTails under k. *)
TailAfterRelease(p, k) == IF tails[k] = p THEN NoOp ELSE tails[k]

(* What q still awaits once p has resolved the promises it held. *)
PrevAfterRelease(p, q) == IF prev[q] = p THEN NoOp ELSE prev[q]

AllHeld(p) == got[p] = want[p]

Call(p) == /\ pc[p] = "idle"
           /\ \E K \in KeySets : want' = [want EXCEPT ![p] = K]
           /\ pc' = [pc EXCEPT ![p] = "acquiring"]
           /\ UNCHANGED <<tails, got, waitKey, prev, line>>

(* acquireLifecycleLock up to its await *)
Enqueue(p) ==
  /\ pc[p] = "acquiring"
  /\ waitKey[p] = NoKey
  /\ ~AllHeld(p)
  /\ LET k == FirstOf(want[p] \ got[p])
     IN  /\ prev' = [prev EXCEPT ![p] = Previous(p, k)]
         /\ tails' = [tails EXCEPT ![k] = p]
         /\ waitKey' = [waitKey EXCEPT ![p] = k]
         /\ line' = [line EXCEPT ![k] = Append(@, p)]
  /\ UNCHANGED <<pc, want, got>>

(* The await returns: previous has resolved. *)
Resume(p) ==
  /\ waitKey[p] # NoKey
  /\ prev[p] = NoOp
  /\ got' = [got EXCEPT ![p] = @ \cup {waitKey[p]}]
  /\ waitKey' = [waitKey EXCEPT ![p] = NoKey]
  /\ UNCHANGED <<tails, pc, want, prev, line>>

(* Every key is held: operation() starts. *)
Enter(p) == /\ pc[p] = "acquiring"
            /\ AllHeld(p)
            /\ pc' = [pc EXCEPT ![p] = "running"]
            /\ UNCHANGED <<tails, want, got, waitKey, prev, line>>

(* operation() returned or threw: the finally block releases every key. *)
Finish(p) ==
  /\ pc[p] = "running"
  /\ tails' = [k \in Key |-> IF k \in got[p] THEN TailAfterRelease(p, k) ELSE tails[k]]
  /\ prev' = [q \in Op |-> IF waitKey[q] \in got[p] THEN PrevAfterRelease(p, q) ELSE prev[q]]
  /\ line' = [k \in Key |-> IF k \in got[p] THEN Tail(line[k]) ELSE line[k]]
  /\ pc' = [pc EXCEPT ![p] = "idle"]
  /\ want' = [want EXCEPT ![p] = {}]
  /\ got' = [got EXCEPT ![p] = {}]
  /\ UNCHANGED waitKey

Next == \E p \in Op : Call(p) \/ Enqueue(p) \/ Resume(p) \/ Enter(p) \/ Finish(p)

Spec == Init /\ [][Next]_vars

(* A ready continuation of the single process is run sooner or later, and  *)
(* an operation ends: each is a bounded list of git and database calls.    *)
Fairness == \A p \in Op : WF_vars(Enqueue(p)) /\ WF_vars(Resume(p))
                          /\ WF_vars(Enter(p)) /\ WF_vars(Finish(p))

FairSpec == Spec /\ Fairness
-----------------------------------------------------------------------------
(* Types, and the facts of control flow the other formulas lean on: only   *)
(* an acquiring operation waits, it waits for a wanted key it does not     *)
(* hold, an idle one holds nothing and a running one all it asked for.     *)
TypeOK ==
  /\ tails \in [Key -> Op \cup {NoOp}]
  /\ pc \in [Op -> {"idle", "acquiring", "running"}]
  /\ want \in [Op -> SUBSET Key]
  /\ got \in [Op -> SUBSET Key]
  /\ waitKey \in [Op -> Key \cup {NoKey}]
  /\ prev \in [Op -> Op \cup {NoOp}]
  /\ line \in [Key -> Seq(Op)]
  /\ \A p \in Op :
       /\ got[p] \subseteq want[p]
       /\ waitKey[p] # NoKey => /\ pc[p] = "acquiring"
                                /\ waitKey[p] \in want[p] \ got[p]
       /\ pc[p] = "idle" => want[p] = {}
       /\ pc[p] # "idle" => want[p] # {}
       /\ pc[p] = "running" => got[p] = want[p]

(* Two operations that share a key never run at the same time.  (start     *)
(* admission and worktree removal are kept apart by nothing else.)         *)
MutualExclusion ==
  \A p, q \in Op : p # q /\ pc[p] = "running" /\ pc[q] = "running"
                     => want[p] \cap want[q] = {}

(* lifecycleTails has an entry exactly while somebody is in line: entries  *)
(* of deleted tasks do not pile up, and a newcomer never overtakes.        *)
EntryIffInLine ==
  \A k \in Key : tails[k] # NoOp <=> \E p \in Op : InLine(p, k)

(* Keys are taken in one global order, so nobody waits in a cycle. *)
AscendingOrder ==
  \A p \in Op : waitKey[p] # NoKey => \A k \in got[p] : k < waitKey[p]

(* First come, first served: the chain of promises implements the queue. *)
Abstract == INSTANCE KeyedMutex WITH queue <- line, holds <- got
ImplementsKeyedMutex == Abstract!Spec

(* An operation that asks for the lock eventually runs. *)
Served == \A p \in Op : pc[p] = "acquiring" ~> pc[p] = "running"
-----------------------------------------------------------------------------
(* The inductive invariant: line is the real order, tails its last element *)
(* and prev the neighbour in front.                                        *)
LineAt(k) ==
  /\ \A i, j \in 1..Len(line[k]) : line[k][i] = line[k][j] => i = j
  /\ \A p \in Op : InLine(p, k) <=> \E i \in 1..Len(line[k]) : line[k][i] = p
  /\ tails[k] = IF line[k] = <<>> THEN NoOp ELSE line[k][Len(line[k])]
  /\ \A i \in 1..Len(line[k]) :
       /\ k \in got[line[k][i]] => i = 1
       /\ waitKey[line[k][i]] = k =>
            prev[line[k][i]] = IF i = 1 THEN NoOp ELSE line[k][i - 1]

LineIsFaithful == \A k \in Key : LineAt(k)

IInv == TypeOK /\ LineIsFaithful
=============================================================================
