------------------------- MODULE LifecycleLockProofs -------------------------
(***************************************************************************)
(* Proofs about LifecycleLock for any number of operations and keys.       *)
(***************************************************************************)
EXTENDS LifecycleLock, SequenceTheorems, WellFoundedInduction, TLAPS

(* The key asked for next exists and is the smallest of those missing. *)
LEMMA FirstOfExists ==
  ASSUME NEW S \in SUBSET Key, S # {}
  PROVE  FirstOf(S) \in S /\ \A j \in S : FirstOf(S) <= j
<1>1. S \subseteq Nat
  BY KeysAssumption
<1>2. PICK k \in S : \A j \in S : ~(<<j, k>> \in OpToRel(<, Nat))
  BY <1>1, NatLessThanWellFounded, WFMin
<1>3. \A i, j \in Nat : i < j => <<i, j>> \in OpToRel(<, Nat)
  BY DEF OpToRel
<1>4. \A j \in S : ~(j < k)
  BY <1>1, <1>2, <1>3
<1>5. \A j \in S : k <= j
  BY <1>1, <1>4
<1>. QED  BY <1>5 DEF FirstOf

(* The key an operation asks for next is one it wants and lacks.           *)
LEMMA MissingKey ==
  ASSUME TypeOK, NEW p \in Op, Enqueue(p)
  PROVE  /\ FirstOf(want[p] \ got[p]) \in Key
         /\ FirstOf(want[p] \ got[p]) \in want[p] \ got[p]
<1>1. want[p] \ got[p] \in SUBSET Key
  BY DEF TypeOK
<1>2. got[p] \subseteq want[p] /\ got[p] # want[p]
  BY DEF TypeOK, Enqueue, AllHeld
<1>3. want[p] \ got[p] # {}
  BY <1>2
<1>. QED  BY <1>1, <1>3, FirstOfExists

(* Types and control flow. *)
LEMMA TypeInit == Init => TypeOK
BY KeysAssumption, OpAssumption DEF Init, TypeOK

(* Every step keeps the types.                                             *)
LEMMA TypeStep == IInv /\ [Next]_vars => TypeOK'
<1> SUFFICES ASSUME IInv, [Next]_vars PROVE TypeOK'
  OBVIOUS
<1> USE DEF IInv, TypeOK
<1>1. ASSUME NEW p \in Op, Call(p) PROVE TypeOK'
  <2>1. PICK K \in KeySets : want' = [want EXCEPT ![p] = K]
    BY <1>1 DEF Call
  <2>2. K \in SUBSET Key /\ K # {}
    BY KeySetsAssumption
  <2>. QED  BY <1>1, <2>1, <2>2 DEF Call
<1>2. ASSUME NEW p \in Op, Enqueue(p) PROVE TypeOK'
  <2> DEFINE k == FirstOf(want[p] \ got[p])
  <2>1. k \in want[p] \ got[p] /\ k \in Key
    BY <1>2, MissingKey
  <2> HIDE DEF k
  <2>2. /\ prev' = [prev EXCEPT ![p] = tails[k]]
        /\ tails' = [tails EXCEPT ![k] = p]
        /\ waitKey' = [waitKey EXCEPT ![p] = k]
        /\ line' = [line EXCEPT ![k] = Append(@, p)]
        /\ pc[p] = "acquiring"
        /\ UNCHANGED <<pc, want, got>>
    BY <1>2 DEF Enqueue, Previous, k
  <2>3. line' \in [Key -> Seq(Op)]
    BY <2>1, <2>2, AppendProperties
  <2>. QED  BY <2>1, <2>2, <2>3
<1>3. ASSUME NEW p \in Op, Resume(p) PROVE TypeOK'
  BY <1>3 DEF Resume
<1>4. ASSUME NEW p \in Op, Enter(p) PROVE TypeOK'
  BY <1>4 DEF Enter, AllHeld
<1>5. ASSUME NEW p \in Op, Finish(p) PROVE TypeOK'
  <2>1. \A k \in got[p] : k \in Key /\ line[k] # <<>>
    <3>. SUFFICES ASSUME NEW k \in got[p] PROVE k \in Key /\ line[k] # <<>>
      OBVIOUS
    <3>1. k \in Key
      OBVIOUS
    <3>2. \E i \in 1..Len(line[k]) : line[k][i] = p
      BY <3>1 DEF LineIsFaithful, LineAt, InLine
    <3>. QED  BY <3>1, <3>2
  <2>2. line' \in [Key -> Seq(Op)]
    BY <1>5, <2>1, HeadTailProperties DEF Finish
  <2>3. tails' \in [Key -> Op \cup {NoOp}] /\ prev' \in [Op -> Op \cup {NoOp}]
    BY <1>5 DEF Finish, TailAfterRelease, PrevAfterRelease
  <2>. QED  BY <1>5, <2>2, <2>3 DEF Finish
<1>6. CASE UNCHANGED vars
  BY <1>6 DEF vars
<1>. QED  BY <1>1, <1>2, <1>3, <1>4, <1>5, <1>6 DEF Next
(***************************************************************************)
(* The line is the real order of arrival.                                  *)
(***************************************************************************)
LEMMA LineInit == Init => LineIsFaithful
BY OpAssumption, KeysAssumption DEF Init, LineIsFaithful, LineAt, InLine

(* Empty sequences are those of length 0.                                  *)
LEMMA EmptyLen ==
  ASSUME NEW s \in Seq(Op)
  PROVE  s = <<>> <=> Len(s) = 0
BY EmptySeq

(* A step that disturbs nothing about key k keeps its line faithful. *)
LEMMA LineFrame ==
  ASSUME TypeOK, NEW k \in Key, LineAt(k),
         line'[k] = line[k], tails'[k] = tails[k],
         \A q \in Op : /\ k \in got'[q] <=> k \in got[q]
                       /\ waitKey'[q] = k <=> waitKey[q] = k
                       /\ waitKey[q] = k => prev'[q] = prev[q]
  PROVE  LineAt(k)'
<1>1. \A i \in 1..Len(line[k]) : line[k][i] \in Op
  BY ElementOfSeq DEF TypeOK
<1>. QED  BY <1>1 DEF LineAt, InLine

(* A new caller joins the tail, a release wakes its successor only.        *)
LEMMA LineStep == IInv /\ [Next]_vars => LineIsFaithful'
<1> SUFFICES ASSUME IInv, [Next]_vars PROVE LineIsFaithful'
  OBVIOUS
<1> USE DEF IInv
<1>0. TypeOK /\ TypeOK'
  BY TypeStep
<1>1. ASSUME NEW p \in Op, Call(p) PROVE LineIsFaithful'
  <2>1. /\ UNCHANGED <<tails, prev, line>>
        /\ \A q \in Op : got'[q] = got[q] /\ waitKey'[q] = waitKey[q]
    BY <1>1 DEF Call
  <2>. QED  BY <1>0, <2>1, LineFrame DEF LineIsFaithful
<1>2. ASSUME NEW p \in Op, Enqueue(p) PROVE LineIsFaithful'
  <2>0. PICK k \in Key : k = FirstOf(want[p] \ got[p])
    BY <1>0, <1>2, MissingKey
  <2>1. k \in want[p] \ got[p] /\ k \in Key
    BY <1>0, <1>2, <2>0, MissingKey
  <2>2. /\ prev' = [prev EXCEPT ![p] = tails[k]]
        /\ tails' = [tails EXCEPT ![k] = p]
        /\ waitKey' = [waitKey EXCEPT ![p] = k]
        /\ line' = [line EXCEPT ![k] = Append(@, p)]
        /\ waitKey[p] = NoKey
        /\ UNCHANGED <<pc, want, got>>
    BY <1>2, <2>0 DEF Enqueue, Previous
  <2> DEFINE n == Len(line[k])
  <2>3. /\ line[k] \in Seq(Op)
        /\ n \in Nat
        /\ Len(line'[k]) = n + 1
        /\ \A i \in 1..n : line'[k][i] = line[k][i] /\ line[k][i] \in Op
        /\ line'[k][n + 1] = p
        /\ line'[k] # <<>>
    BY <1>0, <2>1, <2>2, AppendProperties, LenProperties, ElementOfSeq DEF TypeOK
  <2>4. ~InLine(p, k)
    BY <1>0, <2>1, <2>2, KeysAssumption DEF TypeOK, InLine
  <2>5. \A i \in 1..n : line[k][i] # p
    BY <2>1, <2>4 DEF LineIsFaithful, LineAt
  <2>6. n = 0 <=> line[k] = <<>>
    BY <2>3, EmptyLen
  <2> HIDE DEF n
  <2>7. /\ prev[p]' = IF n = 0 THEN NoOp ELSE line[k][n]
        /\ tails' = [tails EXCEPT ![k] = p]
    BY <1>0, <2>1, <2>2, <2>6 DEF TypeOK, LineIsFaithful, LineAt, n
  <2>8. ASSUME NEW j \in Key, j # k PROVE LineAt(j)'
    <3>1. line'[j] = line[j] /\ tails'[j] = tails[j] /\ LineAt(j)
      BY <1>0, <2>1, <2>2, <2>8 DEF TypeOK, LineIsFaithful
    <3>2. \A q \in Op : /\ j \in got'[q] <=> j \in got[q]
                        /\ waitKey'[q] = j <=> waitKey[q] = j
                        /\ waitKey[q] = j => prev'[q] = prev[q]
      BY <1>0, <2>1, <2>2, <2>8, KeysAssumption DEF TypeOK
    <3>. QED  BY <1>0, <3>1, <3>2, LineFrame
  <2>9. LineAt(k)'
    <3>1. \A q \in Op : InLine(q, k)' <=> (InLine(q, k) \/ q = p)
      BY <1>0, <2>1, <2>2 DEF TypeOK, InLine
    <3>2. \A q \in Op : q # p => waitKey'[q] = waitKey[q] /\ prev'[q] = prev[q]
      BY <1>0, <2>1, <2>2 DEF TypeOK
    <3>3. LineAt(k)
      BY <2>1 DEF LineIsFaithful
    <3>4. \A i, j \in 1..(n + 1) : line'[k][i] = line'[k][j] => i = j
      <4>1. \A i, j \in 1..n : line[k][i] = line[k][j] => i = j
        BY <3>3 DEF LineAt, n
      <4>2. \A i \in 1..n : line'[k][i] = line[k][i] /\ line'[k][i] # p
        BY <2>3, <2>5
      <4>3. \A i \in 1..(n + 1) : i \in 1..n \/ i = n + 1
        BY <2>3
      <4>. QED  BY <2>3, <4>1, <4>2, <4>3
    <3>5. ASSUME NEW q \in Op
          PROVE  InLine(q, k)' <=> \E i \in 1..(n + 1) : line'[k][i] = q
      <4>1. n + 1 \in 1..(n + 1) /\ \A i \in 1..n : i \in 1..(n + 1)
        BY <2>3
      <4>2. InLine(q, k) <=> \E i \in 1..n : line[k][i] = q
        BY <3>3 DEF LineAt, n
      <4>3. (\E i \in 1..(n + 1) : line'[k][i] = q)
              <=> (q = p \/ \E i \in 1..n : line[k][i] = q)
        <5>1. \A i \in 1..(n + 1) : i \in 1..n \/ i = n + 1
          BY <2>3
        <5>. QED  BY <2>3, <4>1, <5>1
      <4>. QED  BY <3>1, <4>2, <4>3
    <3>6. tails'[k] = line'[k][n + 1]
      BY <1>0, <2>1, <2>2, <2>3 DEF TypeOK
    <3>7. ASSUME NEW i \in 1..(n + 1)
          PROVE  /\ k \in got'[line'[k][i]] => i = 1
                 /\ waitKey'[line'[k][i]] = k =>
                      prev'[line'[k][i]] = IF i = 1 THEN NoOp ELSE line'[k][i - 1]
      <4>1. CASE i \in 1..n
        <5>1. line'[k][i] = line[k][i] /\ line[k][i] # p /\ line[k][i] \in Op
          BY <2>3, <2>5, <4>1
        <5>2. i # 1 => line'[k][i - 1] = line[k][i - 1]
          BY <2>3, <4>1
        <5>. QED  BY <2>2, <3>2, <3>3, <4>1, <5>1, <5>2 DEF LineAt, n
      <4>2. CASE i = n + 1
        <5>1. line'[k][i] = p /\ (i = 1 <=> n = 0) /\ (n # 0 => line'[k][i - 1] = line[k][n])
          BY <2>3, <4>2
        <5>2. k \notin got'[p]
          BY <2>2, <2>4 DEF InLine
        <5>. QED  BY <2>7, <5>1, <5>2
      <4>. QED  BY <2>3, <4>1, <4>2
    <3>. QED  BY <2>3, <3>4, <3>5, <3>6, <3>7 DEF LineAt
  <2>. QED  BY <2>8, <2>9 DEF LineIsFaithful
<1>3. ASSUME NEW p \in Op, Resume(p) PROVE LineIsFaithful'
  <2>1. /\ waitKey[p] \in Key
        /\ got' = [got EXCEPT ![p] = @ \cup {waitKey[p]}]
        /\ waitKey' = [waitKey EXCEPT ![p] = NoKey]
        /\ prev[p] = NoOp
        /\ UNCHANGED <<tails, prev, line>>
    BY <1>0, <1>3 DEF Resume, TypeOK
  <2>2. \A q \in Op, k \in Key : InLine(q, k)' <=> InLine(q, k)
    BY <1>0, <2>1, KeysAssumption DEF TypeOK, InLine
  <2>3. ASSUME NEW k \in Key, NEW i \in 1..Len(line[k]), k \in got'[line[k][i]]
        PROVE  i = 1
    <3>1. line[k][i] \in Op
      BY <1>0, ElementOfSeq DEF TypeOK
    <3>2. CASE k \in got[line[k][i]]
      BY <3>2 DEF LineIsFaithful, LineAt
    <3>3. CASE line[k][i] = p /\ waitKey[p] = k
      <4>1. i - 1 \in 1..Len(line[k]) => line[k][i - 1] \in Op
        BY <1>0, ElementOfSeq DEF TypeOK
      <4>. QED  BY <2>1, <3>3, <4>1, OpAssumption DEF LineIsFaithful, LineAt
    <3>. QED  BY <1>0, <2>1, <2>3, <3>1, <3>2, <3>3 DEF TypeOK
  <2>4. ASSUME NEW k \in Key, NEW i \in 1..Len(line[k]), waitKey'[line[k][i]] = k
        PROVE  prev[line[k][i]] = IF i = 1 THEN NoOp ELSE line[k][i - 1]
    <3>1. line[k][i] \in Op
      BY <1>0, ElementOfSeq DEF TypeOK
    <3>. QED  BY <1>0, <2>1, <2>4, <3>1, KeysAssumption DEF TypeOK, LineIsFaithful, LineAt
  <2>. QED  BY <2>1, <2>2, <2>3, <2>4 DEF LineIsFaithful, LineAt
<1>4. ASSUME NEW p \in Op, Enter(p) PROVE LineIsFaithful'
  BY <1>4 DEF Enter, LineIsFaithful, LineAt, InLine
<1>5. ASSUME NEW p \in Op, Finish(p) PROVE LineIsFaithful'
  <2>1. SUFFICES ASSUME NEW k \in Key PROVE LineAt(k)'
    BY DEF LineIsFaithful
  <2>2. LineAt(k) /\ waitKey' = waitKey /\ waitKey[p] = NoKey
    BY <1>0, <1>5 DEF LineIsFaithful, Finish, TypeOK
  <2>3. \A q \in Op : got'[q] = IF q = p THEN {} ELSE got[q]
    BY <1>0, <1>5 DEF Finish, TypeOK
  <2>4. CASE k \notin got[p]
    <3>1. line'[k] = line[k] /\ tails'[k] = tails[k]
      BY <1>5, <2>4 DEF Finish
    <3>2. \A q \in Op : waitKey[q] = k => prev'[q] = prev[q]
      BY <1>5, <2>4 DEF Finish
    <3>. QED  BY <1>0, <2>2, <2>3, <2>4, <3>1, <3>2, LineFrame
  <2>5. CASE k \in got[p]
    <3> DEFINE n == Len(line[k])
    <3>1. /\ line'[k] = Tail(line[k])
          /\ tails'[k] = IF tails[k] = p THEN NoOp ELSE tails[k]
          /\ \A q \in Op : waitKey[q] = k => prev'[q] = IF prev[q] = p THEN NoOp ELSE prev[q]
      BY <1>5, <2>5 DEF Finish, TailAfterRelease, PrevAfterRelease
    <3>2. line[k] \in Seq(Op) /\ n \in Nat /\ \A i \in 1..n : line[k][i] \in Op
      BY <1>0, LenProperties, ElementOfSeq DEF TypeOK
    <3>3. PICK i0 \in 1..n : line[k][i0] = p
      BY <2>2, <2>5 DEF LineAt, InLine
    <3>4. i0 = 1 /\ n >= 1 /\ line[k][1] = p /\ line[k] # <<>>
      BY <2>2, <2>5, <3>2, <3>3, EmptySeq DEF LineAt
    <3>5. /\ line'[k] \in Seq(Op)
          /\ Len(line'[k]) = n - 1
          /\ \A i \in 1..(n - 1) : line'[k][i] = line[k][i + 1]
      BY <3>1, <3>2, <3>4, HeadTailProperties
    <3>6. line'[k] = <<>> <=> n = 1
      <4>1. Len(line'[k]) = 0 <=> n = 1
        BY <3>2, <3>4, <3>5
      <4>. QED  BY <3>5, <4>1, EmptyLen
    <3>7. tails[k] = line[k][n]
      BY <2>2, <3>4 DEF LineAt
    <3> HIDE DEF n
    <3>70. \A i, j \in 1..n : line[k][i] = line[k][j] => i = j
      BY <2>2 DEF LineAt, n
    <3>8. \A i, j \in 1..(n - 1) : line'[k][i] = line'[k][j] => i = j
      BY <2>2, <3>2, <3>5 DEF LineAt, n
    <3>9. \A q \in Op : InLine(q, k)' <=> (InLine(q, k) /\ q # p)
      BY <1>0, <2>2, <2>3, KeysAssumption DEF TypeOK, InLine
    <3>10. ASSUME NEW q \in Op
           PROVE  InLine(q, k)' <=> \E i \in 1..(n - 1) : line'[k][i] = q
      <4>1. ASSUME InLine(q, k)' PROVE \E i \in 1..(n - 1) : line'[k][i] = q
        <5>1. PICK i \in 1..n : line[k][i] = q
          BY <2>2, <3>9, <4>1 DEF LineAt, n
        <5>2. i # 1 /\ i - 1 \in 1..(n - 1) /\ line'[k][i - 1] = q
          BY <3>2, <3>4, <3>5, <3>9, <4>1, <5>1
        <5>. QED  BY <5>2
      <4>2. ASSUME NEW i \in 1..(n - 1), line'[k][i] = q PROVE InLine(q, k)'
        <5>1. i + 1 \in 1..n /\ line[k][i + 1] = q /\ i + 1 # 1
          BY <3>2, <3>5, <4>2
        <5>2. q # p
          BY <2>2, <3>2, <3>4, <5>1 DEF LineAt, n
        <5>. QED  BY <2>2, <3>9, <5>1, <5>2 DEF LineAt, n
      <4>. QED  BY <4>1, <4>2
    <3>11. tails'[k] = IF line'[k] = <<>> THEN NoOp ELSE line'[k][n - 1]
      <4>1. CASE n = 1
        BY <3>1, <3>4, <3>6, <3>7, <4>1
      <4>2. CASE n # 1
        <5>1. line[k][n] # p
          BY <3>2, <3>4, <3>70, <4>2
        <5>. QED  BY <3>1, <3>2, <3>4, <3>5, <3>6, <3>7, <4>2, <5>1
      <4>. QED  BY <4>1, <4>2
    <3>12. ASSUME NEW i \in 1..(n - 1)
           PROVE  /\ k \in got'[line'[k][i]] => i = 1
                  /\ waitKey'[line'[k][i]] = k =>
                       prev'[line'[k][i]] = IF i = 1 THEN NoOp ELSE line'[k][i - 1]
      <4>1. i + 1 \in 1..n /\ line'[k][i] = line[k][i + 1] /\ line[k][i + 1] \in Op
        BY <3>2, <3>5
      <4>2. k \notin got'[line'[k][i]]
        BY <2>2, <2>3, <3>2, <4>1 DEF LineAt, n
      <4>3. ASSUME waitKey[line[k][i + 1]] = k
            PROVE  prev'[line[k][i + 1]] = IF i = 1 THEN NoOp ELSE line'[k][i - 1]
        <5>1. prev[line[k][i + 1]] = line[k][i]
          BY <2>2, <3>2, <4>1, <4>3 DEF LineAt, n
        <5>2. line[k][i] = p <=> i = 1
          BY <2>2, <3>2, <3>4 DEF LineAt, n
        <5>3. i # 1 => line'[k][i - 1] = line[k][i]
          BY <3>2, <3>5
        <5>. QED  BY <3>1, <4>1, <4>3, <5>1, <5>2, <5>3
      <4>. QED  BY <2>2, <4>1, <4>2, <4>3
    <3>. QED  BY <3>5, <3>8, <3>10, <3>11, <3>12 DEF LineAt
  <2>. QED  BY <2>4, <2>5
<1>6. CASE UNCHANGED vars
  BY <1>6 DEF vars, LineIsFaithful, LineAt, InLine
<1>. QED  BY <1>1, <1>2, <1>3, <1>4, <1>5, <1>6 DEF Next

(* At every moment the chain of promises records the true order of arrival *)
(* of every operation (agent-lifecycle.ts:3-14).                           *)
THEOREM LineCorrect == Spec => []IInv
<1>1. Init => IInv
  BY TypeInit, LineInit DEF IInv
<1>2. IInv /\ [Next]_vars => IInv'
  BY TypeStep, LineStep DEF IInv
<1>. QED  BY <1>1, <1>2, PTL DEF Spec

(* Types are respected (the first conjunct of IInv). *)
THEOREM TypeCorrect == Spec => []TypeOK
<1>1. IInv => TypeOK
  BY DEF IInv
<1>. QED  BY <1>1, LineCorrect, PTL

(* A key is granted only to the operation at the front of its line. *)
LEMMA HeldByFront ==
  ASSUME IInv, NEW p \in Op, NEW k \in got[p]
  PROVE  k \in Key /\ line[k] # <<>> /\ line[k][1] = p
<1>1. k \in Key /\ LineAt(k) /\ line[k] \in Seq(Op)
  BY DEF IInv, TypeOK, LineIsFaithful
<1>2. PICK i \in 1..Len(line[k]) : line[k][i] = p
  BY <1>1 DEF LineAt, InLine
<1>3. i = 1
  BY <1>1, <1>2 DEF LineAt
<1>. QED  BY <1>1, <1>2, <1>3, EmptyLen

(* Two operations that share a key never run at the same time: admission   *)
(* of a run is kept apart from commit, push, cleanup and delete.           *)
THEOREM MutualExclusionHolds == Spec => []MutualExclusion
<1>1. IInv => MutualExclusion
  <2>. SUFFICES ASSUME IInv, NEW p \in Op, NEW q \in Op, p # q,
                       pc[p] = "running", pc[q] = "running",
                       NEW k \in want[p] \cap want[q]
                PROVE  FALSE
    BY DEF MutualExclusion
  <2>1. k \in got[p] /\ k \in got[q]
    BY DEF IInv, TypeOK
  <2>. QED  BY <2>1, HeldByFront
<1>. QED  BY <1>1, LineCorrect, PTL

(* lifecycleTails holds an entry exactly for the keys somebody is in line  *)
(* for: nothing leaks and no newcomer misses the operation in front.       *)
THEOREM EntryIffInLineHolds == Spec => []EntryIffInLine
<1>1. IInv => EntryIffInLine
  <2>. SUFFICES ASSUME IInv, NEW k \in Key
                PROVE  tails[k] # NoOp <=> \E p \in Op : InLine(p, k)
    BY DEF EntryIffInLine
  <2>1. LineAt(k) /\ line[k] \in Seq(Op)
    BY DEF IInv, TypeOK, LineIsFaithful
  <2>2. CASE line[k] = <<>>
    BY <2>1, <2>2, EmptyLen DEF LineAt
  <2>3. CASE line[k] # <<>>
    <3>1. Len(line[k]) \in 1..Len(line[k])
      BY <2>1, <2>3, EmptySeq
    <3>2. line[k][Len(line[k])] \in Op
      BY <2>1, <3>1, ElementOfSeq
    <3>. QED  BY <2>1, <2>3, <3>1, <3>2, OpAssumption DEF LineAt
  <2>. QED  BY <2>2, <2>3
<1>. QED  BY <1>1, LineCorrect, PTL
-----------------------------------------------------------------------------
(* Keys are taken in ascending order, whatever the caller listed first. *)
SortedSoFar ==
  \A p \in Op : /\ \A j \in got[p], m \in want[p] \ got[p] : j < m
                /\ waitKey[p] # NoKey => \A m \in want[p] \ got[p] : waitKey[p] <= m

(* Keys are asked for in ascending order.                                  *)
LEMMA SortedStep == IInv /\ SortedSoFar /\ [Next]_vars => SortedSoFar'
<1> SUFFICES ASSUME IInv, SortedSoFar, [Next]_vars PROVE SortedSoFar'
  OBVIOUS
<1>0. TypeOK /\ Key \subseteq Nat
  BY KeysAssumption DEF IInv
<1>1. ASSUME NEW p \in Op, Call(p) PROVE SortedSoFar'
  BY <1>0, <1>1 DEF Call, SortedSoFar, TypeOK
<1>2. ASSUME NEW p \in Op, Enqueue(p) PROVE SortedSoFar'
  <2>1. PICK k \in Key : k = FirstOf(want[p] \ got[p])
    BY <1>0, <1>2, MissingKey
  <2>2. \A m \in want[p] \ got[p] : k <= m
    <3>1. want[p] \ got[p] \in SUBSET Key /\ want[p] \ got[p] # {}
      BY <1>0, <1>2, MissingKey DEF TypeOK
    <3>. QED  BY <2>1, <3>1, FirstOfExists
  <2>3. waitKey' = [waitKey EXCEPT ![p] = k] /\ UNCHANGED <<want, got>>
    BY <1>2, <2>1 DEF Enqueue
  <2>. QED  BY <1>0, <2>2, <2>3 DEF SortedSoFar, TypeOK
<1>3. ASSUME NEW p \in Op, Resume(p) PROVE SortedSoFar'
  <2>1. /\ waitKey[p] \in want[p] \ got[p]
        /\ got' = [got EXCEPT ![p] = @ \cup {waitKey[p]}]
        /\ waitKey' = [waitKey EXCEPT ![p] = NoKey]
        /\ want' = want
    BY <1>0, <1>3 DEF Resume, TypeOK
  <2>2. ASSUME NEW m \in want[p] \ got'[p] PROVE waitKey[p] < m
    <3>1. m \in want[p] \ got[p] /\ m # waitKey[p]
      BY <1>0, <2>1 DEF TypeOK
    <3>2. waitKey[p] <= m
      BY <1>3, <3>1 DEF Resume, SortedSoFar
    <3>3. m \in Nat /\ waitKey[p] \in Nat
      BY <1>0, <2>1, <3>1 DEF TypeOK
    <3>. QED  BY <3>1, <3>2, <3>3
  <2>. QED  BY <1>0, <2>1, <2>2 DEF SortedSoFar, TypeOK
<1>4. ASSUME NEW p \in Op, Enter(p) PROVE SortedSoFar'
  BY <1>4 DEF Enter, SortedSoFar
<1>5. ASSUME NEW p \in Op, Finish(p) PROVE SortedSoFar'
  BY <1>0, <1>5 DEF Finish, SortedSoFar, TypeOK
<1>6. CASE UNCHANGED vars
  BY <1>6 DEF vars, SortedSoFar
<1>. QED  BY <1>1, <1>2, <1>3, <1>4, <1>5, <1>6 DEF Next

(* No operation waits for a key below one it holds, so no two operations   *)
(* can wait for each other (agent-lifecycle.ts:28).                        *)
THEOREM AscendingOrderHolds == Spec => []AscendingOrder
<1>1. Init => SortedSoFar
  BY DEF Init, SortedSoFar
<1>2. TypeOK /\ SortedSoFar => AscendingOrder
  BY DEF TypeOK, SortedSoFar, AscendingOrder
<1>. QED  BY <1>1, <1>2, SortedStep, LineCorrect, TypeCorrect, PTL DEF Spec
-----------------------------------------------------------------------------
(***************************************************************************)
(* Refinement: line and got behave as the queues and grants of KeyedMutex. *)
(***************************************************************************)
LEMMA StepRefines == IInv /\ [Next]_vars => [Abstract!Next]_Abstract!vars
<1> SUFFICES ASSUME IInv, [Next]_vars PROVE [Abstract!Next]_Abstract!vars
  OBVIOUS
<1>0. TypeOK
  BY DEF IInv
<1>1. ASSUME NEW p \in Op, Call(p) \/ Enter(p) PROVE UNCHANGED Abstract!vars
  BY <1>1 DEF Call, Enter, Abstract!vars
<1>2. ASSUME NEW p \in Op, Enqueue(p) PROVE \E k \in Key : Abstract!Join(p, k)
  <2>1. PICK k \in Key : k = FirstOf(want[p] \ got[p])
    BY <1>0, <1>2, MissingKey
  <2>2. ~InLine(p, k)
    BY <1>0, <1>2, <2>1, MissingKey, KeysAssumption DEF InLine, Enqueue
  <2>3. ~Abstract!InQueue(p, k)
    BY <2>2 DEF Abstract!InQueue, IInv, LineIsFaithful, LineAt
  <2>. QED  BY <1>2, <2>1, <2>3 DEF Enqueue, Abstract!Join
<1>3. ASSUME NEW p \in Op, Resume(p) PROVE \E k \in Key : Abstract!Grant(p, k)
  <2>1. waitKey[p] \in Key /\ waitKey[p] \notin got[p] /\ prev[p] = NoOp
    BY <1>0, <1>3 DEF Resume, TypeOK
  <2>2. PICK k \in Key : k = waitKey[p]
    BY <2>1
  <2>3. PICK i \in 1..Len(line[k]) : line[k][i] = p
    BY <2>2 DEF IInv, LineIsFaithful, LineAt, InLine
  <2>4. line[k] \in Seq(Op) /\ LineAt(k)
    BY <1>0 DEF TypeOK, IInv, LineIsFaithful
  <2>5. i = 1
    <3>1. i # 1 => line[k][i - 1] \in Op
      BY <2>3, <2>4, ElementOfSeq
    <3>. QED  BY <2>1, <2>2, <2>3, <2>4, <3>1, OpAssumption DEF LineAt
  <2>6. line[k] # <<>> /\ Head(line[k]) = p
    BY <2>3, <2>4, <2>5, EmptyLen
  <2>. QED  BY <1>3, <2>1, <2>2, <2>6 DEF Resume, Abstract!Grant
<1>4. ASSUME NEW p \in Op, Finish(p) PROVE Abstract!Leave(p)
  BY <1>0, <1>4 DEF Finish, Abstract!Leave, TypeOK
<1>5. CASE UNCHANGED vars
  BY <1>5 DEF vars, Abstract!vars
<1>. QED  BY <1>1, <1>2, <1>3, <1>4, <1>5 DEF Next, Abstract!Next

(* The promise chains implement first-come-first-served locks: a caller is *)
(* granted a key only when everybody who asked before has given it back.   *)
THEOREM ImplementsQueue == Spec => ImplementsKeyedMutex
<1>1. Init => Abstract!Init
  BY DEF Init, Abstract!Init
<1>. QED  BY <1>1, StepRefines, LineCorrect, PTL DEF Spec, ImplementsKeyedMutex, Abstract!Spec
=============================================================================
