---------------------------- MODULE RerankerPool ----------------------------
(***************************************************************************)
(* The reranker replicas as main sees them.  Requests take a replica in    *)
(* turn and go on to another when one fails (Reranker.rerank over the      *)
(* registry of model_actors.py); the health loop of component_health.py    *)
(* probes all replicas side by side (_probe_reranker_component), marks the *)
(* ones that did not answer, and degrades the component.  A replica that   *)
(* is up but not ready is sent a warm-up, at most one a minute, which may  *)
(* fail and is refused for good once the model is on the CPU.              *)
(*                                                                         *)
(* Ray actors are external: one runs one call at a time, restarts cold,    *)
(* and keeps its handle, so the registry of handles is left out.           *)
(***************************************************************************)
EXTENDS Integers, FiniteSets, Sequences, SequencesExt

CONSTANTS NReplicas,         \* ray_reranker_actor_replicas
          Requests,          \* requests of main at the same time
          FailureThreshold,  \* failed probes in a row that degrade (2 in the code)
          RecoveryThreshold, \* good probes in a row that recover (2 in the code)
          Period,            \* the round-robin index counts modulo Period
          MaxStops,          \* bound: replicas that crash, each of them once
          MaxMishaps         \* bound: models that move to the CPU, and warm-ups that fail elsewhere

Replicas == 1..NReplicas

\* Period is a multiple of every list length, so counting modulo it changes no choice.
ASSUME PoolAssumption == /\ NReplicas \in Nat \ {0} /\ MaxStops \in Nat /\ MaxMishaps \in Nat
                         /\ FailureThreshold \in Nat \ {0} /\ RecoveryThreshold \in Nat \ {0}
                         /\ Period \in Nat \ {0} /\ \A n \in Replicas : Period % n = 0

VARIABLES status,       \* each replica: "warm" (ready), "cold" (up, no finished warm-up) or "down"
          model,        \* where its model is: "none", "cuda" or "cpu"
          warming,      \* replicas with a recovery warm-up under way
          pausing,      \* those that were sent one in the last 60 seconds
          unavailable,  \* _unavailable_actor_names
          turn,         \* _reranker_round_robin_index
          req,          \* requests: where, replicas attempted, replica called
          pending,      \* probe: replicas that have not answered ({}: asleep)
          degraded, failedProbes, goodProbes,  \* ComponentHealthState
          results,      \* last results of the probe, newest last
          stopped,      \* replicas that ever stopped
          mishaps       \* such moves and warm-ups so far

warmups == <<warming, pausing, mishaps>>
fleet   == <<status, model, warmups, stopped>>
pool    == <<unavailable, turn>>
health  == <<degraded, failedProbes, goodProbes, results>>
poolVars == <<fleet, pool, req, pending, health>>

Idle == [pc |-> "idle", tried |-> {}, at |-> 0]
Longest == IF FailureThreshold > RecoveryThreshold THEN FailureThreshold ELSE RecoveryThreshold
Calling(r) == {q \in Requests : req[q].pc = "call" /\ req[q].at = r}

PoolTypeOK ==
    /\ status \in [Replicas -> {"warm", "cold", "down"}]
    /\ model \in [Replicas -> {"none", "cuda", "cpu"}]
    /\ warming \subseteq pausing /\ pausing \subseteq Replicas /\ mishaps \in 0..MaxMishaps
    /\ unavailable \subseteq Replicas
    /\ turn \in 0..(Period - 1)
    /\ \A q \in Requests :
         /\ req[q] \in [pc : {"idle", "select", "call"}, tried : SUBSET Replicas, at : 0..NReplicas]
         /\ req[q].pc = "call" => req[q].at \in req[q].tried
         /\ req[q].pc = "idle" => req[q] = Idle
    /\ pending \subseteq Replicas
    /\ degraded \in BOOLEAN
    /\ failedProbes \in 0..FailureThreshold /\ goodProbes \in 0..RecoveryThreshold
    /\ failedProbes = 0 \/ goodProbes = 0
    /\ results \in BoundedSeq({"ok", "failed"}, Longest)
    /\ stopped \subseteq Replicas

\* lifespan: main starts only after every replica was warmed up.
PoolInit ==
    /\ status = [r \in Replicas |-> "warm"] /\ model = [r \in Replicas |-> "cuda"]
    /\ warming = {} /\ pausing = {} /\ mishaps = 0
    /\ unavailable = {} /\ turn = 0
    /\ req = [q \in Requests |-> Idle]
    /\ pending = {}
    /\ degraded = FALSE /\ failedProbes = 0 /\ goodProbes = 0 /\ results = <<>>
    /\ stopped = {}

-----------------------------------------------------------------------------
\* RAGPipeline: a degraded reranker is not asked at all, the answer keeps the RRF order.
Start(q) ==
    /\ req[q].pc = "idle" /\ ~degraded
    /\ req' = [req EXCEPT ![q].pc = "select"]
    /\ UNCHANGED <<fleet, pool, pending, health>>

\* get_reranker_actor_for_request, one critical section of _ray_lock: the available
\* replicas in their order, without those the request has attempted.  With none left
\* rerank() raises and the answer keeps the RRF order, too.
AllAvailable(q) == SetToSortSeq(Replicas \ unavailable, <)
Candidates(q) == SetToSortSeq(Replicas \ (unavailable \cup req[q].tried), <)
Select(q) ==
    /\ req[q].pc = "select"
    /\ LET actors == Candidates(q)
           r == actors[(turn % Len(actors)) + 1]
       IN  IF actors = <<>>
           THEN req' = [req EXCEPT ![q] = Idle] /\ UNCHANGED turn
           ELSE /\ req' = [req EXCEPT ![q] = [pc |-> "call", tried |-> @.tried \cup {r}, at |-> r]]
                /\ turn' = (turn + 1) % Period
    /\ UNCHANGED <<fleet, unavailable, pending, health>>

\* Reranker.model loads the model when it is first used, on the CPU if CUDA refuses it;
\* _rerank_documents moves it there when an inference on CUDA fails.  It never comes back.
Device(r) == IF model[r] = "cpu" THEN {"cpu"} ELSE {"cuda", "cpu"}

Costs(mishap) ==
    /\ mishap => mishaps < MaxMishaps
    /\ mishaps' = IF mishap THEN mishaps + 1 ELSE mishaps
Uses(r, devices) ==
    \E d \in devices : /\ model' = [model EXCEPT ![r] = d]
                       /\ Costs(d = "cpu" /\ model[r] # "cpu")

\* The call returns, and the request has its reranked contexts.
CallReturns(q) ==
    LET r == req[q].at
    IN  /\ req[q].pc = "call" /\ status[r] # "down"
        /\ req' = [req EXCEPT ![q] = Idle]
        /\ Uses(r, Device(r))
        /\ UNCHANGED <<status, warming, pausing, stopped, pool, pending, health>>

\* The call raises, or times out: any exception marks the replica.
CallFails(q) ==
    LET r == req[q].at
    IN  /\ req[q].pc = "call"
        /\ unavailable' = unavailable \cup {r}
        /\ req' = [req EXCEPT ![q] = IF Cardinality(@.tried) >= NReplicas THEN Idle
                                     ELSE [@ EXCEPT !.pc = "select", !.at = 0]]
        /\ Uses(r, {model[r]} \cup IF status[r] = "down" THEN {} ELSE Device(r))
        /\ UNCHANGED <<status, warming, pausing, stopped, turn, pending, health>>

-----------------------------------------------------------------------------
\* ComponentHealthState: the counters matter up to their thresholds only.
UpTo(n, limit) == IF n > limit THEN limit ELSE n
Remember(result) == results' = (IF Len(results) < Longest THEN results ELSE Tail(results)) \o <<result>>

RecordSuccessRestarts ==
    /\ failedProbes' = 0 /\ goodProbes' = 1
    /\ degraded' = (degraded /\ 1 < RecoveryThreshold)
    /\ Remember("ok")
RecordSuccess ==
    /\ failedProbes' = 0
    /\ goodProbes' = UpTo(goodProbes + 1, RecoveryThreshold)
    /\ degraded' = (degraded /\ goodProbes + 1 < RecoveryThreshold)
    /\ Remember("ok")
RecordFailureKeeps ==
    /\ UNCHANGED goodProbes
    /\ failedProbes' = UpTo(failedProbes + 1, FailureThreshold)
    /\ degraded' = (degraded \/ failedProbes + 1 >= FailureThreshold)
    /\ Remember("failed")
RecordFailure ==
    /\ goodProbes' = 0
    /\ failedProbes' = UpTo(failedProbes + 1, FailureThreshold)
    /\ degraded' = (degraded \/ failedProbes + 1 >= FailureThreshold)
    /\ Remember("failed")

\* The loop wakes: get_reranker_actors(retry_unavailable) forgets all marks, and the
\* health call of every replica is sent.
StartProbe ==
    /\ pending = {}
    /\ unavailable' = {} /\ pending' = Replicas
    /\ UNCHANGED <<fleet, turn, req, health>>

\* One return of wait(): some of the outstanding health calls are done.  A warm
\* replica answers between two calls of its own; one that is down, cold or busy
\* gives an error or times out.  The results are looked at in no order: each error
\* marks its replica, and sends one that says it is not warmed up a warm-up if its last
\* is a minute ago, until the first good answer ends the probe and marks every replica
\* that has not answered yet.  A probe without a good answer has failed.
Healthy(r) == status[r] = "warm" /\ Calling(r) = {}
Unhealthy(r) == status[r] # "warm" \/ Calling(r) # {}

ColdOnes(seen) == {r \in seen \ pausing : status[r] = "cold" /\ Calling(r) = {}}

CollectAnswers ==
    \E good \in SUBSET {r \in pending : Healthy(r)}, bad \in SUBSET {r \in pending : Unhealthy(r)} :
        /\ good \cup bad # {}
        /\ \E seen \in IF good = {} THEN {bad} ELSE SUBSET bad :
             /\ warming' = warming \cup ColdOnes(seen) /\ pausing' = pausing \cup ColdOnes(seen)
             /\ IF good # {}
                THEN /\ unavailable' = unavailable \cup seen \cup (pending \ (good \cup bad))
                     /\ pending' = {} /\ RecordSuccess
                ELSE /\ unavailable' = unavailable \cup bad
                     /\ pending' = pending \ bad
                     /\ IF pending = bad THEN RecordFailure ELSE UNCHANGED health
        /\ UNCHANGED <<status, model, mishaps, stopped, turn, req>>

-----------------------------------------------------------------------------
\* A replica stops; Ray restarts it without its model.
Stop(r) ==
    /\ r \notin stopped /\ Cardinality(stopped) < MaxStops
    /\ stopped' = stopped \cup {r}
    /\ status' = [status EXCEPT ![r] = "down"] /\ model' = [model EXCEPT ![r] = "none"]
    /\ warming' = warming \ {r}
    /\ UNCHANGED <<pausing, mishaps, pool, req, pending, health>>
Comeback(r) ==
    /\ status[r] = "down"
    /\ status' = [status EXCEPT ![r] = "cold"]
    /\ UNCHANGED <<model, warmups, stopped, pool, req, pending, health>>

\* RerankerActor.warmup loads a model that is not loaded, needs it on CUDA, and runs it.
\* Any of the three may fail: the replica stays up and not ready.  Nothing moves a loaded
\* model here: once it is on the CPU every warm-up fails.
LoadedOn(r) == IF model[r] = "none" THEN {"none", "cuda", "cpu"} ELSE {model[r]}
WarmUp(r) ==
    /\ r \in warming /\ status[r] = "cold"
    /\ warming' = warming \ {r}
    /\ \E d \in LoadedOn(r) :
         /\ model' = [model EXCEPT ![r] = d]
         /\ \/ d = "cuda" /\ status' = [status EXCEPT ![r] = "warm"] /\ Costs(FALSE)
            \/ Costs(model[r] # "cpu") /\ UNCHANGED status
    /\ UNCHANGED <<pausing, stopped, pool, req, pending, health>>

\* The minute after a warm-up was sent is over: it is assumed to be longer than one.
PauseEnds(r) ==
    /\ r \in pausing \ warming
    /\ pausing' = pausing \ {r}
    /\ UNCHANGED <<status, model, warming, mishaps, stopped, pool, req, pending, health>>

Progress(q) == Select(q) \/ CallReturns(q) \/ CallFails(q)
ProbeStep == StartProbe \/ CollectAnswers
PoolNext == \/ \E q \in Requests : Start(q) \/ Progress(q)
        \/ ProbeStep
        \/ \E r \in Replicas : Stop(r) \/ Comeback(r) \/ WarmUp(r) \/ PauseEnds(r)

PoolSpec == PoolInit /\ [][PoolNext]_poolVars

\* Calls return or time out, the health loop goes on, a warm-up that was sent ends, well
\* or not, and so does the minute after it.
\* Nothing is assumed of restarts.
PoolFairness == /\ \A q \in Requests : WF_poolVars(Progress(q))
                /\ WF_poolVars(ProbeStep)
                /\ \A r \in Replicas : WF_poolVars(WarmUp(r)) /\ WF_poolVars(PauseEnds(r))
PoolFairSpec == PoolSpec /\ PoolFairness

-----------------------------------------------------------------------------
LastAll(n, result) == Len(results') >= n /\ \A i \in (Len(results') - n + 1)..Len(results') : results'[i] = result

\* The component changes its state only after the configured number of equal results
\* in a row: an error between two good probes starts the count again.
Hysteresis ==
    [][/\ ~degraded /\ degraded' => LastAll(FailureThreshold, "failed")
       /\ degraded /\ ~degraded' => LastAll(RecoveryThreshold, "ok")]_poolVars

\* A request ends, reranked or not, though the probe forgets the marks it sets.
RequestEnds == \A q \in Requests : req[q].pc # "idle" ~> req[q].pc = "idle"

\* With one replica that stays up, the component is not degraded for ever, whatever
\* the other replicas do, though requests may keep it too busy to answer and its warm-ups
\* may fail: unless a failure has left its model on the CPU, where no warm-up accepts it.
CanServe(r) == status[r] = "warm" \/ (status[r] = "cold" /\ model[r] # "cpu")
PoolRecovers == \A r \in Replicas : <>[]CanServe(r) => []<>~degraded

\* A replica that stays warm is offered to requests again and again.
WarmReplicaOffered == \A r \in Replicas : <>[](status[r] = "warm") => []<>(r \notin unavailable)

\* "If one reranker replica fails during a request, the request retries another
\* replica before falling back": one that gives up has tried every replica that never stopped.
RetriesAnother ==
    [][\A q \in Requests :
         req[q].pc = "select" /\ req'[q].pc = "idle" /\ req[q].tried # {} =>
           Replicas \ stopped \subseteq req[q].tried]_poolVars
=============================================================================
