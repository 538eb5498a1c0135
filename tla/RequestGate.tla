---------------------------- MODULE RequestGate ----------------------------
(***************************************************************************)
(* RetrievalRequestGate of app/document_commit.py: one condition variable, *)
(* a flag and three counters keep recalls (request()) away from an index   *)
(* swap (exclusive()).  A step is one critical section of the condition's  *)
(* lock.  A thread in Condition.wait() is "asleep" until notify_all makes  *)
(* it "woken" or, for the drain, its timeout makes it "expired"; it then   *)
(* has to take the lock again, and other threads may take it first.        *)
(***************************************************************************)
EXTENDS Integers, FiniteSets

CONSTANTS Requests,       \* threads that run request()
          Commits,        \* threads that run exclusive()
          MaxGeneration   \* bound: how often the gate is ever closed

ASSUME GateAssumption == IsFiniteSet(Requests) /\ MaxGeneration \in Nat

VARIABLES blocked, active, queued, generation,
          req,    \* where each recall is in request()
          com     \* where each commit is in exclusive()

vars == <<blocked, active, queued, generation, req, com>>

ReqState == {"idle", "asleep", "woken", "inside"}
ComState == {"idle", "asleep", "woken", "expired", "exclusive", "raised"}

TypeOK == /\ blocked \in BOOLEAN
          /\ active \in Nat /\ queued \in Nat /\ generation \in 0..MaxGeneration
          /\ req \in [Requests -> ReqState]
          /\ com \in [Commits -> ComState]

Inside   == {r \in Requests : req[r] = "inside"}
Waiting  == {r \in Requests : req[r] \in {"asleep", "woken"}}
Draining == {c \in Commits : com[c] \in {"asleep", "woken", "expired"}}
Swapping == {c \in Commits : com[c] = "exclusive"}

Snapshot == [blocked |-> blocked, active_requests |-> active,
             queued_requests |-> queued, generation |-> generation]

Init == /\ blocked = FALSE
        /\ active = 0 /\ queued = 0 /\ generation = 0
        /\ req = [r \in Requests |-> "idle"]
        /\ com = [c \in Commits |-> "idle"]

-----------------------------------------------------------------------------
\* Condition.notify_all() over one group of threads.
NotifyNobody(st) == st
NotifyOneThread(st) ==
    LET asleep == {t \in DOMAIN st : st[t] = "asleep"}
    IN  IF asleep = {} THEN st
        ELSE [st EXCEPT ![CHOOSE t \in asleep : TRUE] = "woken"]
NotifyAll(st) == [t \in DOMAIN st |-> IF st[t] = "asleep" THEN "woken" ELSE st[t]]

\* request(): the first critical section.
Enter(r) ==
    /\ req[r] = "idle"
    /\ IF blocked THEN /\ queued' = queued + 1
                       /\ req' = [req EXCEPT ![r] = "asleep"]
                       /\ UNCHANGED active
                  ELSE /\ active' = active + 1
                       /\ req' = [req EXCEPT ![r] = "inside"]
                       /\ UNCHANGED queued
    /\ UNCHANGED <<blocked, generation, com>>

\* request(): a waiter has the lock again and tests the flag once more.
ResumeUnchecked(r) ==
    /\ req[r] = "woken"
    /\ req' = [req EXCEPT ![r] = "inside"]
    /\ active' = active + 1 /\ queued' = queued - 1
    /\ UNCHANGED <<blocked, generation, com>>
Resume(r) ==
    /\ req[r] = "woken"
    /\ IF blocked THEN /\ req' = [req EXCEPT ![r] = "asleep"]
                       /\ UNCHANGED <<active, queued>>
                  ELSE /\ req' = [req EXCEPT ![r] = "inside"]
                       /\ active' = active + 1 /\ queued' = queued - 1
    /\ UNCHANGED <<blocked, generation, com>>

\* request(): the finally block after the recall; the last one out notifies.
Leave(r) ==
    /\ req[r] = "inside"
    /\ active' = active - 1
    /\ LET left == [req EXCEPT ![r] = "idle"]
       IN  IF active = 1 THEN req' = NotifyAll(left) /\ com' = NotifyAll(com)
                         ELSE req' = left /\ UNCHANGED com
    /\ UNCHANGED <<blocked, queued, generation>>

\* _close_and_drain(): refuse a second commit, shut the gate, look at the recalls.
Close(c) ==
    /\ com[c] = "idle"
    /\ IF blocked
       THEN com' = [com EXCEPT ![c] = "raised"] /\ UNCHANGED <<blocked, generation>>
       ELSE /\ generation < MaxGeneration
            /\ blocked' = TRUE /\ generation' = generation + 1
            /\ com' = [com EXCEPT ![c] = IF active = 0 THEN "exclusive" ELSE "asleep"]
    /\ UNCHANGED <<active, queued, req>>

\* wait(timeout=remaining) returns without a notification.
TimerFires(c) ==
    /\ com[c] = "asleep"
    /\ com' = [com EXCEPT ![c] = "expired"]
    /\ UNCHANGED <<blocked, active, queued, generation, req>>

\* What the drain loop does once it has the lock again.
TimeoutIgnored(c) == "exclusive"
WaitsForEver(c) == IF active = 0 THEN "exclusive" ELSE "asleep"
AfterWait(c) == IF active = 0 THEN "exclusive"
                ELSE IF com[c] = "expired" THEN "raised" ELSE "asleep"

RecheckDrain(c) ==
    /\ com[c] \in {"woken", "expired"}
    /\ LET verdict == AfterWait(c)
           moved   == [com EXCEPT ![c] = verdict]
       IN  IF verdict = "raised"
           THEN blocked' = FALSE /\ com' = NotifyAll(moved) /\ req' = NotifyAll(req)
           ELSE com' = moved /\ UNCHANGED <<blocked, req>>
    /\ UNCHANGED <<active, queued, generation>>

\* exclusive(): _open() runs whether the body returned or raised.
Open(c) ==
    /\ com[c] = "exclusive"
    /\ blocked' = FALSE
    /\ com' = NotifyAll([com EXCEPT ![c] = "idle"])
    /\ req' = NotifyAll(req)
    /\ UNCHANGED <<active, queued, generation>>

\* The endpoint answered 409; the indexer may send another commit.
Retry(c) ==
    /\ com[c] = "raised"
    /\ com' = [com EXCEPT ![c] = "idle"]
    /\ UNCHANGED <<blocked, active, queued, generation, req>>

Next == \/ \E r \in Requests : Enter(r) \/ Resume(r) \/ Leave(r)
        \/ \E c \in Commits : \/ Close(c) \/ TimerFires(c) \/ RecheckDrain(c)
                              \/ Open(c) \/ Retry(c)

Spec == Init /\ [][Next]_vars

\* A woken thread gets the lock, a timer fires, and a commit ends; nothing is
\* assumed of recalls: whether one ever leaves is up to the model server.
Fairness == /\ \A r \in Requests : WF_vars(Resume(r))
            /\ \A c \in Commits : /\ WF_vars(TimerFires(c))
                                  /\ WF_vars(RecheckDrain(c))
                                  /\ WF_vars(Open(c))

FairSpec == Spec /\ Fairness

-----------------------------------------------------------------------------
\* No recall is between the request() brackets while an index swap runs, and two
\* swaps never overlap, drained or not.
CommitAlone ==
    /\ Swapping # {} => Inside = {}
    /\ \A c, d \in Draining \cup Swapping : c = d

\* snapshot(), which /health reports, counts the recalls that are really in and
\* the recalls that are really waiting, through every wait, wakeup and timeout.
SnapshotCounts == /\ Snapshot.active_requests = Cardinality(Inside)
                  /\ Snapshot.queued_requests = Cardinality(Waiting)
                  /\ Snapshot.blocked = (Draining \cup Swapping # {})

\* No wakeup is lost: a recall sleeps only behind a closed gate, and the drain
\* only while some recall is in that will notify it on its way out.
NoSleeperMissed ==
    /\ \A r \in Requests : req[r] = "asleep" => blocked
    /\ \A c \in Commits : com[c] = "asleep" => blocked /\ active > 0

\* A drain ends, with the gate to itself or by its timeout, even when no recall
\* ever leaves.
DrainEnds == \A c \in Commits : c \in Draining ~> com[c] \in {"exclusive", "raised"}

\* A queued recall gets in after the swaps, whether they succeed, raise or time out.
QueuedServed == \A r \in Requests : r \in Waiting ~> r \in Inside

\* The gate implements the exclusive section.
Section == INSTANCE ExclusiveSection
             WITH reading <- Inside, pending <- Draining, writing <- Swapping
ImplementsSection == Section!Spec
=============================================================================
