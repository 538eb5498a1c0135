-------------------------- MODULE RequestGateProofs --------------------------
(***************************************************************************)
(* Safety of the retrieval gate for any number of recalls and commits.     *)
(***************************************************************************)
EXTENDS RequestGate, FiniteSetTheorems, TLAPS

Holding == Draining \cup Swapping

CountsRight == /\ active = Cardinality(Inside)
               /\ queued = Cardinality(Waiting)
               /\ blocked = (Holding # {})

(* CommitAlone alone is not inductive: the drain trusts the counter and a    *)
(* commit trusts the flag, so both must be right about the threads.          *)
IInv == TypeOK /\ CountsRight /\ CommitAlone /\ NoSleeperMissed

-----------------------------------------------------------------------------
(* Adding a thread to, or taking it from, a set of threads counts one.       *)
LEMMA CountOne ==
  ASSUME NEW S \in SUBSET Requests, NEW r \in Requests
  PROVE  /\ Cardinality(S) \in Nat
         /\ r \notin S => Cardinality(S \cup {r}) = Cardinality(S) + 1
         /\ r \in S => /\ Cardinality(S \ {r}) = Cardinality(S) - 1
                       /\ Cardinality(S) > 0
         /\ Cardinality(S) = 0 <=> S = {}
<1>1. IsFiniteSet(S)
  BY FS_Subset, GateAssumption
<1>2. Cardinality(S) \in Nat
  BY <1>1, FS_CardinalityType
<1>3. r \notin S => Cardinality(S \cup {r}) = Cardinality(S) + 1
  BY <1>1, FS_AddElement
<1>4. r \in S => Cardinality(S \ {r}) = Cardinality(S) - 1
  BY <1>1, FS_RemoveElement
<1>5. Cardinality(S) = 0 <=> S = {}
  BY <1>1, FS_EmptySet
<1> QED
  BY <1>2, <1>3, <1>4, <1>5

(* Waking the sleepers of a group changes no thread's role: who is inside,   *)
(* who waits and who holds the gate stay the same.                           *)
LEMMA NotifyReq ==
  ASSUME NEW f \in [Requests -> ReqState]
  PROVE  /\ NotifyAll(f) \in [Requests -> ReqState]
         /\ \A r \in Requests : /\ NotifyAll(f)[r] # "asleep"
                                /\ NotifyAll(f)[r] = "inside" <=> f[r] = "inside"
                                /\ NotifyAll(f)[r] \in {"asleep", "woken"}
                                     <=> f[r] \in {"asleep", "woken"}
  BY DEF NotifyAll, ReqState

LEMMA NotifyCom ==
  ASSUME NEW f \in [Commits -> ComState]
  PROVE  /\ NotifyAll(f) \in [Commits -> ComState]
         /\ \A c \in Commits : /\ NotifyAll(f)[c] # "asleep"
                               /\ NotifyAll(f)[c] = "exclusive" <=> f[c] = "exclusive"
                               /\ NotifyAll(f)[c] \in {"asleep", "woken", "expired"}
                                    <=> f[c] \in {"asleep", "woken", "expired"}
  BY DEF NotifyAll, ComState

(* The commit that held the gate alone gives it back: nobody holds it.       *)
LEMMA LetGo ==
  ASSUME TypeOK, NEW c \in Commits, Draining \cup Swapping = {c},
         NEW st \in {"idle", "raised"},
         com' = NotifyAll([com EXCEPT ![c] = st])
  PROVE  Draining' = {} /\ Swapping' = {}
<1> DEFINE moved == [com EXCEPT ![c] = st]
<1>1. moved \in [Commits -> ComState]
  BY DEF TypeOK, ComState
<1>2. \A d \in Commits : /\ moved[d] # "exclusive"
                         /\ moved[d] \notin {"asleep", "woken", "expired"}
  BY DEF TypeOK, Draining, Swapping
<1>3. \A d \in Commits : /\ com'[d] # "exclusive"
                         /\ com'[d] \notin {"asleep", "woken", "expired"}
  BY <1>1, <1>2, NotifyCom
<1> QED
  BY <1>3 DEF Draining, Swapping

(* A step that changes neither who is in nor who waits leaves the counts.    *)
LEMMA SameCounts ==
  ASSUME IInv, Inside' = Inside, Waiting' = Waiting,
         UNCHANGED <<active, queued>>
  PROVE  active' = Cardinality(Inside') /\ queued' = Cardinality(Waiting')
  BY DEF IInv, CountsRight

-----------------------------------------------------------------------------
LEMMA InitInv == Init => IInv
<1> SUFFICES ASSUME Init PROVE IInv
  OBVIOUS
<1>1. Inside = {} /\ Waiting = {} /\ Draining = {} /\ Swapping = {}
  BY DEF Init, Inside, Waiting, Draining, Swapping
<1>2. TypeOK
  <2>1. 0 \in 0..MaxGeneration
    BY GateAssumption
  <2>2. blocked \in BOOLEAN /\ active \in Nat /\ queued \in Nat
    BY DEF Init
  <2>3. req \in [Requests -> ReqState] /\ com \in [Commits -> ComState]
    BY DEF Init, ReqState, ComState
  <2> QED
    BY <2>1, <2>2, <2>3 DEF Init, TypeOK
<1>3. Cardinality({}) = 0
  BY FS_EmptySet
<1> QED
  BY <1>1, <1>2, <1>3
  DEF Init, IInv, CountsRight, CommitAlone, NoSleeperMissed, Holding

LEMMA EnterInv ==
  ASSUME IInv, NEW r \in Requests, Enter(r)
  PROVE  IInv'
<1> USE DEF IInv
<1>0. TypeOK'
  BY DEF Enter, TypeOK, ReqState
<1>1. Draining' = Draining /\ Swapping' = Swapping
  BY DEF Enter, Draining, Swapping
<1>2. r \notin Inside /\ r \notin Waiting
  BY DEF Enter, Inside, Waiting
<1>3. CASE blocked
  <2>1. Inside' = Inside /\ Waiting' = Waiting \cup {r}
    BY <1>3 DEF Enter, Inside, Waiting, TypeOK, ReqState
  <2>2. queued' = Cardinality(Waiting') /\ active' = Cardinality(Inside')
    BY <2>1, <1>2, <1>3, CountOne DEF Enter, CountsRight, Waiting
  <2> QED
    BY <1>0, <1>1, <1>3, <2>1, <2>2
    DEF Enter, CountsRight, CommitAlone, NoSleeperMissed, Holding, TypeOK
<1>4. CASE ~blocked
  <2>1. Inside' = Inside \cup {r} /\ Waiting' = Waiting
    BY <1>4 DEF Enter, Inside, Waiting, TypeOK, ReqState
  <2>2. queued' = Cardinality(Waiting') /\ active' = Cardinality(Inside')
    BY <2>1, <1>2, <1>4, CountOne DEF Enter, CountsRight, Inside
  <2>3. Holding = {}
    BY <1>4 DEF CountsRight
  <2> QED
    BY <1>0, <1>1, <1>4, <2>1, <2>2, <2>3
    DEF Enter, CountsRight, CommitAlone, NoSleeperMissed, Holding, TypeOK
<1> QED
  BY <1>3, <1>4

LEMMA ResumeInv ==
  ASSUME IInv, NEW r \in Requests, Resume(r)
  PROVE  IInv'
<1> USE DEF IInv
<1>1. Draining' = Draining /\ Swapping' = Swapping
  BY DEF Resume, Draining, Swapping
<1>2. r \notin Inside /\ r \in Waiting
  BY DEF Resume, Inside, Waiting
<1>3. CASE blocked
  <2>1. Inside' = Inside /\ Waiting' = Waiting
    BY <1>3 DEF Resume, Inside, Waiting, TypeOK, ReqState
  <2>2. TypeOK'
    BY <1>3 DEF Resume, TypeOK, ReqState
  <2> QED
    BY <1>1, <1>3, <2>1, <2>2, SameCounts
    DEF Resume, CountsRight, CommitAlone, NoSleeperMissed, Holding, TypeOK
<1>4. CASE ~blocked
  <2>1. Inside' = Inside \cup {r} /\ Waiting' = Waiting \ {r}
    BY <1>4 DEF Resume, Inside, Waiting, TypeOK, ReqState
  <2>2. active' = Cardinality(Inside')
    BY <2>1, <1>2, <1>4, CountOne DEF Resume, CountsRight, Inside
  <2>3. queued' = Cardinality(Waiting') /\ queued > 0
    BY <2>1, <1>2, <1>4, CountOne DEF Resume, CountsRight, Waiting
  <2>4. TypeOK'
    BY <1>4, <2>3 DEF Resume, TypeOK, ReqState
  <2>5. Holding = {}
    BY <1>4 DEF CountsRight
  <2> QED
    BY <1>1, <1>4, <2>1, <2>2, <2>3, <2>4, <2>5
    DEF Resume, CountsRight, CommitAlone, NoSleeperMissed, Holding, TypeOK
<1> QED
  BY <1>3, <1>4

LEMMA LeaveInv ==
  ASSUME IInv, NEW r \in Requests, Leave(r)
  PROVE  IInv'
<1> USE DEF IInv
<1> DEFINE left == [req EXCEPT ![r] = "idle"]
<1>1. left \in [Requests -> ReqState] /\ com \in [Commits -> ComState]
  BY DEF TypeOK, ReqState
<1>2. \/ active = 1 /\ req' = NotifyAll(left) /\ com' = NotifyAll(com)
      \/ active # 1 /\ req' = left /\ com' = com
  BY DEF Leave
<1>3. Inside' = Inside \ {r} /\ Waiting' = Waiting
  <2>1. \A q \in Requests : /\ req'[q] = "inside" <=> left[q] = "inside"
                            /\ req'[q] \in {"asleep", "woken"}
                                 <=> left[q] \in {"asleep", "woken"}
    BY <1>1, <1>2, NotifyReq
  <2>2. \A q \in Requests : left[q] = IF q = r THEN "idle" ELSE req[q]
    BY DEF TypeOK
  <2> QED
    BY <2>1, <2>2 DEF Leave, Inside, Waiting
<1>4. Draining' = Draining /\ Swapping' = Swapping
  BY <1>1, <1>2, NotifyCom DEF Draining, Swapping
<1>5. r \in Inside
  BY DEF Leave, Inside
<1>6. active' = Cardinality(Inside') /\ active > 0
  BY <1>3, <1>5, CountOne DEF Leave, CountsRight, Inside
<1>a. /\ NotifyAll(left) \in [Requests -> ReqState]
      /\ \A q \in Requests : NotifyAll(left)[q] # "asleep"
  BY <1>1, NotifyReq
<1>b. /\ NotifyAll(com) \in [Commits -> ComState]
      /\ \A c \in Commits : NotifyAll(com)[c] # "asleep"
  BY <1>1, NotifyCom
<1>7. TypeOK'
  <2>1. req' \in [Requests -> ReqState] /\ com' \in [Commits -> ComState]
    BY <1>1, <1>2, <1>a, <1>b
  <2>2. active' \in Nat
    BY <1>6 DEF Leave, TypeOK
  <2> QED
    BY <2>1, <2>2 DEF Leave, TypeOK
<1>8. NoSleeperMissed'
  <2>1. CASE active = 1
    <3>1. req' = NotifyAll(left) /\ com' = NotifyAll(com)
      BY <2>1, <1>2
    <3> QED
      BY <3>1, <1>a, <1>b DEF NoSleeperMissed
  <2>2. CASE active # 1
    BY <2>2, <1>2, <1>6 DEF NoSleeperMissed, Leave, TypeOK, ReqState
  <2> QED
    BY <2>1, <2>2
<1> QED
  BY <1>3, <1>4, <1>6, <1>7, <1>8
  DEF Leave, CountsRight, CommitAlone, Holding, TypeOK

LEMMA CloseInv ==
  ASSUME IInv, NEW c \in Commits, Close(c)
  PROVE  IInv'
<1> USE DEF IInv
<1>1. Inside' = Inside /\ Waiting' = Waiting
  BY DEF Close, Inside, Waiting
<1>2. TypeOK'
  <2>1. com' \in [Commits -> ComState]
    BY DEF Close, TypeOK, ComState
  <2>2. blocked' \in BOOLEAN
    BY Zenon DEF Close, TypeOK
  <2>3. generation' \in 0..MaxGeneration
    <3>1. \/ generation' = generation
          \/ generation < MaxGeneration /\ generation' = generation + 1
      BY DEF Close
    <3>2. generation \in 0..MaxGeneration
      BY DEF TypeOK
    <3> QED
      BY <3>1, <3>2, GateAssumption
  <2> QED
    BY <2>1, <2>2, <2>3 DEF Close, TypeOK
<1>3. CASE blocked
  <2>1. Draining' = Draining /\ Swapping' = Swapping
    BY <1>3 DEF Close, Draining, Swapping, TypeOK, ComState
  <2>2. NoSleeperMissed'
    BY <1>3 DEF Close, NoSleeperMissed, TypeOK, ComState
  <2>3. CountsRight'
    BY <1>1, <1>3, <2>1, SameCounts DEF Close, CountsRight, Holding
  <2> QED
    BY <1>1, <1>2, <2>1, <2>2, <2>3 DEF CommitAlone
<1>4. CASE ~blocked
  <2>1. Draining = {} /\ Swapping = {}
    BY <1>4 DEF CountsRight, Holding
  <2>2. \/ active = 0 /\ Draining' = {} /\ Swapping' = {c}
        \/ active # 0 /\ Draining' = {c} /\ Swapping' = {}
    BY <1>4, <2>1 DEF Close, Draining, Swapping, TypeOK, ComState
  <2>3. active = 0 => Inside = {}
    BY CountOne DEF CountsRight, Inside
  <2>4. CommitAlone'
    BY <1>1, <2>2, <2>3 DEF CommitAlone
  <2>5. NoSleeperMissed'
    BY <1>4, <2>1 DEF Close, NoSleeperMissed, Draining, TypeOK, ComState
  <2> QED
    BY <1>1, <1>2, <1>4, <2>2, <2>4, <2>5, SameCounts
    DEF Close, CountsRight, Holding
<1> QED
  BY <1>3, <1>4

LEMMA TimerFiresInv ==
  ASSUME IInv, NEW c \in Commits, TimerFires(c)
  PROVE  IInv'
<1> USE DEF IInv
<1>1. Inside' = Inside /\ Waiting' = Waiting
  BY DEF TimerFires, Inside, Waiting
<1>2. Draining' = Draining /\ Swapping' = Swapping
  BY DEF TimerFires, Draining, Swapping, TypeOK, ComState
<1>3. TypeOK'
  BY DEF TimerFires, TypeOK, ComState
<1> QED
  BY <1>1, <1>2, <1>3, SameCounts
  DEF TimerFires, CountsRight, CommitAlone, NoSleeperMissed, Holding, TypeOK

LEMMA RecheckDrainInv ==
  ASSUME IInv, NEW c \in Commits, RecheckDrain(c)
  PROVE  IInv'
<1> USE DEF IInv
<1> DEFINE moved == [com EXCEPT ![c] = AfterWait(c)]
<1>0. AfterWait(c) \in {"exclusive", "raised", "asleep"} /\ active \in Nat
  BY DEF AfterWait, TypeOK
<1>1. moved \in [Commits -> ComState] /\ req \in [Requests -> ReqState]
  BY <1>0 DEF TypeOK, ComState
<1>2. c \in Draining /\ blocked
  BY DEF RecheckDrain, Draining, CountsRight, Holding
<1>3. Draining = {c} /\ Swapping = {}
  BY <1>2 DEF CommitAlone, Draining, Swapping
<1>4. CASE active = 0
  <2>1. com' = [com EXCEPT ![c] = "exclusive"] /\ UNCHANGED <<blocked, req>>
    BY <1>4 DEF RecheckDrain, AfterWait
  <2>2. Draining' = {} /\ Swapping' = {c}
    BY <1>3, <2>1 DEF Draining, Swapping, TypeOK, ComState
  <2>3. Inside' = Inside /\ Waiting' = Waiting
    BY <2>1 DEF Inside, Waiting
  <2>4. Inside = {}
    BY <1>4, CountOne DEF CountsRight, Inside
  <2>5. NoSleeperMissed'
    <3>1. \A d \in Commits : com'[d] # "asleep"
      BY <2>2 DEF Draining
    <3> QED
      BY <2>1, <3>1, <1>2 DEF NoSleeperMissed
  <2>6. TypeOK'
    BY <2>1 DEF RecheckDrain, TypeOK, ComState
  <2> QED
    BY <1>2, <2>1, <2>2, <2>3, <2>4, <2>5, <2>6, SameCounts
    DEF RecheckDrain, CountsRight, CommitAlone, Holding
<1>5. CASE active # 0 /\ com[c] = "expired"
  <2>1. /\ moved = [com EXCEPT ![c] = "raised"]
        /\ blocked' = FALSE /\ com' = NotifyAll(moved) /\ req' = NotifyAll(req)
    BY <1>5 DEF RecheckDrain, AfterWait
  <2>2. Draining' = {} /\ Swapping' = {}
    BY <1>3, <2>1, LetGo
  <2>3. Inside' = Inside /\ Waiting' = Waiting
    BY <1>1, <2>1, NotifyReq DEF Inside, Waiting
  <2>4. NoSleeperMissed'
    BY <1>1, <2>1, NotifyReq, NotifyCom DEF NoSleeperMissed
  <2>5. TypeOK'
    BY <1>1, <2>1, NotifyReq, NotifyCom DEF RecheckDrain, TypeOK
  <2> QED
    BY <2>1, <2>2, <2>3, <2>4, <2>5, SameCounts
    DEF RecheckDrain, CountsRight, CommitAlone, Holding
<1>6. CASE active # 0 /\ com[c] # "expired"
  <2>1. com' = [com EXCEPT ![c] = "asleep"] /\ UNCHANGED <<blocked, req>>
    BY <1>6 DEF RecheckDrain, AfterWait
  <2>2. Draining' = Draining /\ Swapping' = Swapping
    BY <1>2, <1>3, <2>1 DEF Draining, Swapping, TypeOK, ComState
  <2>3. Inside' = Inside /\ Waiting' = Waiting
    BY <2>1 DEF Inside, Waiting
  <2>4. NoSleeperMissed'
    BY <1>0, <1>2, <1>6, <2>1 DEF RecheckDrain, NoSleeperMissed, TypeOK, ComState
  <2>5. TypeOK'
    BY <2>1 DEF RecheckDrain, TypeOK, ComState
  <2> QED
    BY <2>1, <2>2, <2>3, <2>4, <2>5, SameCounts
    DEF RecheckDrain, CountsRight, CommitAlone, Holding
<1> QED
  BY <1>4, <1>5, <1>6

LEMMA OpenInv ==
  ASSUME IInv, NEW c \in Commits, Open(c)
  PROVE  IInv'
<1> USE DEF IInv
<1> DEFINE moved == [com EXCEPT ![c] = "idle"]
<1>1. moved \in [Commits -> ComState] /\ req \in [Requests -> ReqState]
  BY DEF TypeOK, ComState
<1>2. Draining = {} /\ Swapping = {c}
  BY DEF Open, CommitAlone, Draining, Swapping
<1>3. Draining' = {} /\ Swapping' = {}
  BY <1>2, LetGo DEF Open
<1>4. Inside' = Inside /\ Waiting' = Waiting
  BY <1>1, NotifyReq DEF Open, Inside, Waiting
<1>5. NoSleeperMissed'
  <2>1. \A q \in Requests : NotifyAll(req)[q] # "asleep"
    BY <1>1, NotifyReq
  <2>2. \A d \in Commits : NotifyAll(moved)[d] # "asleep"
    BY <1>1, NotifyCom
  <2>3. req' = NotifyAll(req) /\ com' = NotifyAll(moved)
    BY DEF Open
  <2> QED
    BY <2>1, <2>2, <2>3 DEF NoSleeperMissed
<1>6. TypeOK'
  BY <1>1, NotifyReq, NotifyCom DEF Open, TypeOK
<1> QED
  BY <1>3, <1>4, <1>5, <1>6, SameCounts
  DEF Open, CountsRight, CommitAlone, Holding

LEMMA RetryInv ==
  ASSUME IInv, NEW c \in Commits, Retry(c)
  PROVE  IInv'
<1> USE DEF IInv
<1>1. Inside' = Inside /\ Waiting' = Waiting
  BY DEF Retry, Inside, Waiting
<1>2. Draining' = Draining /\ Swapping' = Swapping
  BY DEF Retry, Draining, Swapping, TypeOK, ComState
<1>3. TypeOK'
  BY DEF Retry, TypeOK, ComState
<1> QED
  BY <1>1, <1>2, <1>3, SameCounts
  DEF Retry, CountsRight, CommitAlone, NoSleeperMissed, Holding, TypeOK

LEMMA NextInv == IInv /\ [Next]_vars => IInv'
<1> SUFFICES ASSUME IInv, [Next]_vars PROVE IInv'
  OBVIOUS
<1>1. ASSUME NEW r \in Requests, Enter(r) \/ Resume(r) \/ Leave(r)
      PROVE  IInv'
  BY <1>1, EnterInv, ResumeInv, LeaveInv
<1>2. ASSUME NEW c \in Commits,
             Close(c) \/ TimerFires(c) \/ RecheckDrain(c) \/ Open(c) \/ Retry(c)
      PROVE  IInv'
  BY <1>2, CloseInv, TimerFiresInv, RecheckDrainInv, OpenInv, RetryInv
<1>3. CASE UNCHANGED vars
  BY <1>3 DEF vars, IInv, TypeOK, CountsRight, CommitAlone, NoSleeperMissed,
              Holding, Inside, Waiting, Draining, Swapping
<1> QED
  BY <1>1, <1>2, <1>3 DEF Next

(* The strengthened invariant holds in every reachable state of the gate.    *)
THEOREM GateInvariant == Spec => []IInv
<1> QED
  BY InitInv, NextInv, PTL DEF Spec

(* An index swap never overlaps a recall or another swap, however many       *)
(* recalls and commits there are and however the waits and timeouts fall.    *)
THEOREM GateCommitAlone == Spec => []CommitAlone
<1>1. IInv => CommitAlone
  BY DEF IInv
<1> QED
  BY <1>1, GateInvariant, PTL

(* The counters that snapshot() reports are the numbers of recalls inside    *)
(* and waiting, and its flag says whether a commit holds the gate.           *)
THEOREM GateSnapshotCounts == Spec => []SnapshotCounts
<1>1. IInv => SnapshotCounts
  BY DEF IInv, CountsRight, SnapshotCounts, Snapshot, Holding
<1> QED
  BY <1>1, GateInvariant, PTL

(* Nobody sleeps on the condition without someone left who will notify.      *)
THEOREM GateNoSleeperMissed == Spec => []NoSleeperMissed
<1>1. IInv => NoSleeperMissed
  BY DEF IInv
<1> QED
  BY <1>1, GateInvariant, PTL

-----------------------------------------------------------------------------
(* Refinement: who is inside, who drains and who swaps, and nothing else, is *)
(* what the abstract section sees of a step of the gate.                     *)
LEMMA RequestStepMaps ==
  ASSUME IInv, NEW r \in Requests, Enter(r) \/ Resume(r) \/ Leave(r)
  PROVE  Section!BeginRead(r) \/ Section!EndRead(r) \/ UNCHANGED Section!vars
<1> USE DEF IInv
<1>1. blocked = (Section!Closed)
  BY DEF CountsRight, Holding, Section!Closed
<1>2. CASE Enter(r)
  <2>1. Draining' = Draining /\ Swapping' = Swapping
    BY <1>2 DEF Enter, Draining, Swapping
  <2>2. r \notin Inside
    BY <1>2 DEF Enter, Inside
  <2>3. Inside' = IF blocked THEN Inside ELSE Inside \cup {r}
    BY <1>2 DEF Enter, Inside, TypeOK, ReqState
  <2> QED
    BY <1>1, <2>1, <2>2, <2>3 DEF Section!BeginRead, Section!vars
<1>3. CASE Resume(r)
  <2>1. Draining' = Draining /\ Swapping' = Swapping
    BY <1>3 DEF Resume, Draining, Swapping
  <2>2. r \notin Inside
    BY <1>3 DEF Resume, Inside
  <2>3. Inside' = IF blocked THEN Inside ELSE Inside \cup {r}
    BY <1>3 DEF Resume, Inside, TypeOK, ReqState
  <2> QED
    BY <1>1, <2>1, <2>2, <2>3 DEF Section!BeginRead, Section!vars
<1>4. CASE Leave(r)
  <2> DEFINE left == [req EXCEPT ![r] = "idle"]
  <2>1. left \in [Requests -> ReqState] /\ com \in [Commits -> ComState]
    BY DEF TypeOK, ReqState
  <2>2. /\ req' = NotifyAll(left) \/ req' = left
        /\ com' = NotifyAll(com) \/ com' = com
    BY <1>4 DEF Leave
  <2>3. Draining' = Draining /\ Swapping' = Swapping
    BY <2>1, <2>2, NotifyCom DEF Draining, Swapping
  <2>4. \A q \in Requests : req'[q] = "inside" <=> left[q] = "inside"
    BY <2>1, <2>2, NotifyReq
  <2>5. \A q \in Requests : left[q] = IF q = r THEN "idle" ELSE req[q]
    BY DEF TypeOK
  <2>6. Inside' = Inside \ {r} /\ r \in Inside
    BY <1>4, <2>4, <2>5 DEF Leave, Inside
  <2> QED
    BY <2>3, <2>6 DEF Section!EndRead
<1> QED
  BY <1>2, <1>3, <1>4

LEMMA CommitStepMaps ==
  ASSUME IInv, NEW c \in Commits,
         Close(c) \/ TimerFires(c) \/ RecheckDrain(c) \/ Open(c) \/ Retry(c)
  PROVE  \/ Section!Announce(c) \/ Section!GiveUp(c) \/ Section!BeginWrite(c)
         \/ Section!EndWrite(c) \/ UNCHANGED Section!vars
<1> USE DEF IInv
<1>1. blocked = (Section!Closed)
  BY DEF CountsRight, Holding, Section!Closed
<1>2. active = 0 => Inside = {}
  BY CountOne DEF CountsRight, Inside
<1>3. UNCHANGED req => Inside' = Inside
  BY DEF Inside
<1>4. req' = NotifyAll(req) => Inside' = Inside
  BY NotifyReq DEF Inside, TypeOK
<1>5. CASE Close(c)
  <2>1. UNCHANGED req
    BY <1>5 DEF Close
  <2>2. CASE blocked
    <3>1. Draining' = Draining /\ Swapping' = Swapping
      BY <1>5, <2>2 DEF Close, Draining, Swapping, TypeOK, ComState
    <3> QED
      BY <2>1, <3>1, <1>3 DEF Section!vars
  <2>3. CASE ~blocked
    <3>1. Draining = {} /\ Swapping = {}
      BY <2>3 DEF CountsRight, Holding
    <3>2. \/ active = 0 /\ Draining' = {} /\ Swapping' = {c}
          \/ active # 0 /\ Draining' = {c} /\ Swapping' = {}
      BY <1>5, <2>3, <3>1 DEF Close, Draining, Swapping, TypeOK, ComState
    <3> QED
      BY <1>1, <1>2, <1>3, <2>1, <2>3, <3>1, <3>2
      DEF Section!Announce, Section!BeginWrite
  <2> QED
    BY <2>2, <2>3
<1>6. CASE TimerFires(c)
  <2>1. UNCHANGED req
    BY <1>6 DEF TimerFires
  <2>2. Draining' = Draining /\ Swapping' = Swapping
    BY <1>6 DEF TimerFires, Draining, Swapping, TypeOK, ComState
  <2> QED
    BY <1>3, <2>1, <2>2 DEF Section!vars
<1>7. CASE RecheckDrain(c)
  <2>1. c \in Draining
    BY <1>7 DEF RecheckDrain, Draining
  <2>2. Draining = {c} /\ Swapping = {}
    BY <2>1 DEF CommitAlone, Draining, Swapping
  <2>3. CASE active = 0
    <3>1. com' = [com EXCEPT ![c] = "exclusive"] /\ UNCHANGED req
      BY <1>7, <2>3 DEF RecheckDrain, AfterWait
    <3>2. Draining' = {} /\ Swapping' = {c}
      BY <2>2, <3>1 DEF Draining, Swapping, TypeOK, ComState
    <3> QED
      BY <1>2, <1>3, <2>2, <2>3, <3>1, <3>2 DEF Section!BeginWrite
  <2>4. CASE active # 0 /\ com[c] = "expired"
    <3>1. /\ com' = NotifyAll([com EXCEPT ![c] = "raised"])
          /\ req' = NotifyAll(req)
      BY <1>7, <2>4 DEF RecheckDrain, AfterWait
    <3>2. Draining' = {} /\ Swapping' = {}
      BY <2>2, <3>1, LetGo
    <3> QED
      BY <1>4, <2>1, <2>2, <3>1, <3>2 DEF Section!GiveUp
  <2>5. CASE active # 0 /\ com[c] # "expired"
    <3>1. com' = [com EXCEPT ![c] = "asleep"] /\ UNCHANGED req
      BY <1>7, <2>5 DEF RecheckDrain, AfterWait
    <3>2. Draining' = Draining /\ Swapping' = Swapping
      BY <2>1, <2>2, <3>1 DEF Draining, Swapping, TypeOK, ComState
    <3> QED
      BY <1>3, <3>1, <3>2 DEF Section!vars
  <2> QED
    BY <2>3, <2>4, <2>5
<1>8. CASE Open(c)
  <2>1. Draining = {} /\ Swapping = {c}
    BY <1>8 DEF Open, CommitAlone, Draining, Swapping
  <2>2. Draining' = {} /\ Swapping' = {} /\ req' = NotifyAll(req)
    BY <1>8, <2>1, LetGo DEF Open
  <2> QED
    BY <1>4, <2>1, <2>2 DEF Section!EndWrite
<1>9. CASE Retry(c)
  <2>1. UNCHANGED req
    BY <1>9 DEF Retry
  <2>2. Draining' = Draining /\ Swapping' = Swapping
    BY <1>9 DEF Retry, Draining, Swapping, TypeOK, ComState
  <2> QED
    BY <1>3, <2>1, <2>2 DEF Section!vars
<1> QED
  BY <1>5, <1>6, <1>7, <1>8, <1>9

(* The gate implements the exclusive section: once a commit has announced    *)
(* itself no recall begins, and the swap starts only when the last one left. *)
THEOREM GateImplementsSection == Spec => ImplementsSection
<1>1. Init => Section!Init
  BY DEF Init, Section!Init, Inside, Draining, Swapping
<1>2. IInv /\ [Next]_vars => [Section!Next]_(Section!vars)
  <2> SUFFICES ASSUME IInv, [Next]_vars
               PROVE  Section!Next \/ UNCHANGED Section!vars
    OBVIOUS
  <2>1. ASSUME NEW r \in Requests, Enter(r) \/ Resume(r) \/ Leave(r)
        PROVE  Section!Next \/ UNCHANGED Section!vars
    BY <2>1, RequestStepMaps DEF Section!Next
  <2>2. ASSUME NEW c \in Commits,
               Close(c) \/ TimerFires(c) \/ RecheckDrain(c) \/ Open(c) \/ Retry(c)
        PROVE  Section!Next \/ UNCHANGED Section!vars
    BY <2>2, CommitStepMaps DEF Section!Next
  <2>3. CASE UNCHANGED vars
    BY <2>3 DEF vars, Section!vars, Inside, Draining, Swapping
  <2> QED
    BY <2>1, <2>2, <2>3 DEF Next
<1> QED
  BY <1>1, <1>2, GateInvariant, PTL DEF Spec, ImplementsSection, Section!Spec
=============================================================================
