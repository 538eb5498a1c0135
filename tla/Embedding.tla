----------------------------- MODULE Embedding -----------------------------
(***************************************************************************)
(* The document embedding actor of app/model_actors.py, as main uses it.    *)
(* Single texts queue up by what they are embedded for and are embedded in  *)
(* batches, lists go alone, and an asyncio lock, which is first come first  *)
(* served, lets one inference run at a time.  The health probe of           *)
(* app/main.py starts a warm-up when it finds the actor not ready; the      *)
(* warm-up embeds through the same queues as the requests.                  *)
(*                                                                         *)
(* Steps are the turns of the actor's event loop.  Ray is external: it      *)
(* restarts a dead actor for ever and fails the calls in flight.  Main does *)
(* not start without a warm actor and keeps its handle, so the mark a       *)
(* failing call leaves (mark_ray_unavailable) is never looked at.           *)
(***************************************************************************)
EXTENDS Naturals, Sequences, FiniteSets

CONSTANTS Callers,     \* threads of main that embed
          Keys,        \* (normalize, task, prompt) of single texts
          WarmKey,     \* the one the warm-up uses
          Warmer,      \* the warm-up, as a caller
          MaxBatch,    \* embedding_dynamic_batch_max_size
          Rounds,      \* embedding_warmup_rounds
          MaxCalls, MaxRestarts, MaxFailures   \* bounds

ASSUME EmbeddingAssumption ==
    /\ WarmKey \in Keys /\ Warmer \notin Callers
    /\ "list" \notin Keys /\ "capacity" \notin Keys
    /\ MaxBatch \in Nat \ {0} /\ Rounds \in Nat \ {0}
    /\ MaxCalls \in Nat /\ MaxRestarts \in Nat /\ MaxFailures \in Nat

VARIABLES
    state,     \* _warmup_state: "cold", "warming" (any of its stages), "failed", "ready"
    device,    \* where the model is: "none", "cuda" or "cpu"
    queue,     \* _batch_queues
    batch,     \* the batch each queue's task is collecting; <<>>: none
    jobs,      \* inferences, the one that holds the lock first
    warm,      \* the warm-up under way
    call,      \* the last call of each caller
    recent,    \* a warm-up was started in the last 60 seconds
    healthy,   \* the result of the last probe
    calls,     \* calls so far
    restarts, failures

bounds == <<calls, restarts, failures>>
actor  == <<queue, batch, jobs>>
vars   == <<state, device, actor, warm, call, recent, healthy, bounds>>

Smaller(a, b) == IF a < b THEN a ELSE b
NoWarmup  == [pc |-> "idle", n |-> 0, left |-> 0, rounds |-> 0]
NoBatches == [k \in Keys |-> <<>>]

\* main's lifespan has run warmup_model_actors: load, capacity, performance.
Init ==
    /\ state = "ready" /\ device = "cuda"
    /\ queue = NoBatches /\ batch = NoBatches /\ jobs = <<>>
    /\ warm = NoWarmup
    /\ call = [c \in Callers |-> [pc |-> "idle", n |-> 0, for |-> WarmKey, row |-> <<>>]]
    /\ recent = FALSE /\ healthy = TRUE
    /\ calls = 0 /\ restarts = 0 /\ failures = 0

-----------------------------------------------------------------------------
\* encode_matrix: a single text joins the queue of its kind, a list the lock.
Send(c) ==
    /\ call[c].pc # "sent" /\ calls < MaxCalls
    /\ calls' = calls + 1
    /\ \E for \in Keys \cup {"list"} :
         LET r == [by |-> c, n |-> calls + 1, for |-> for] IN
         /\ call' = [call EXCEPT ![c] = [pc |-> "sent", n |-> r.n, for |-> for, row |-> <<>>]]
         /\ IF for = "list"
            THEN jobs' = Append(jobs, [for |-> for, texts |-> <<r>>]) /\ UNCHANGED queue
            ELSE queue' = [queue EXCEPT ![for] = Append(@, r)] /\ UNCHANGED jobs
    /\ UNCHANGED <<state, device, batch, warm, recent, healthy, restarts, failures>>

\* ray_get gives up waiting; the text stays where it is.
GiveUp(c) ==
    /\ call[c].pc = "sent"
    /\ call' = [call EXCEPT ![c].pc = "failed"]
    /\ UNCHANGED <<state, device, actor, warm, recent, healthy, bounds>>

-----------------------------------------------------------------------------
\* _run_batch_queue: while its last batch is embedded the task takes nothing.
Busy(k) == \E i \in DOMAIN jobs : jobs[i].for = k
Close(k, texts) == jobs' = Append(jobs, [for |-> k, texts |-> texts])

\* The first text, or those that came since: a full batch closes at once ...
Collect(k) ==
    /\ ~Busy(k) /\ queue[k] # <<>>
    /\ LET n == Smaller(MaxBatch - Len(batch[k]), Len(queue[k]))
           b == batch[k] \o SubSeq(queue[k], 1, n) IN
       /\ queue' = [queue EXCEPT ![k] = SubSeq(@, n + 1, Len(@))]
       /\ IF Len(b) = MaxBatch
          THEN batch' = [batch EXCEPT ![k] = <<>>] /\ Close(k, b)
          ELSE batch' = [batch EXCEPT ![k] = b] /\ UNCHANGED jobs
    /\ UNCHANGED <<state, device, warm, call, recent, healthy, bounds>>

\* ... another one when its time is over.
Deadline(k) ==
    /\ batch[k] # <<>>
    /\ batch' = [batch EXCEPT ![k] = <<>>] /\ Close(k, batch[k])
    /\ UNCHANGED <<state, device, queue, warm, call, recent, healthy, bounds>>

-----------------------------------------------------------------------------
\* The model, loaded when it is first used: on CPU if CUDA fails.
Loaded == IF device = "none" THEN {"cuda", "cpu"} ELSE {device}

\* VectorStore._encode_matrix: a failure on CUDA, or a value that is not finite, moves
\* the model to the CPU for good and tries again; it may also fail there or elsewhere.
\* The strict form of the capacity probe does not try again.
Outcomes(strict) ==
    {o \in [ok : BOOLEAN, device : {"cuda", "cpu"}] :
       \/ o.device \in Loaded
       \/ ~strict /\ o.device = "cpu"}
Mishap(o) == ~o.ok \/ (o.device = "cpu" /\ device # "cpu")
Charge(o) ==
    /\ Mishap(o) => failures < MaxFailures
    /\ failures' = IF Mishap(o) THEN failures + 1 ELSE failures
    /\ device' = o.device

\* Rows come back in the order of the texts, one for each.
NextRow(texts, i) == texts[(i % Len(texts)) + 1]
Row(texts, i) == texts[i]

\* The result, or the error, goes to every request of the batch that is waited for.
FirstIfFailed(texts, ok) == IF ok THEN texts ELSE <<Head(texts)>>
Told(texts, ok) == texts

Waits(c, r) == r.by = c /\ call[c].pc = "sent" /\ call[c].n = r.n
Answer(job, ok) ==
    LET told == Told(job.texts, ok) IN
    call' = [c \in Callers |->
      IF \E i \in DOMAIN told : Waits(c, told[i])
      THEN LET i == CHOOSE i \in DOMAIN told : Waits(c, told[i]) IN
           IF ok THEN [call[c] EXCEPT !.pc = "answered",
                                      !.row = <<Row(job.texts, i), job.for>>]
           ELSE [call[c] EXCEPT !.pc = "failed"]
      ELSE call[c]]

\* The texts of the warm-up's current round in a batch.
OfWarmup(texts) == {i \in DOMAIN texts :
    warm.pc = "round" /\ texts[i].by = Warmer /\ texts[i].n = warm.n}

\* _record_warmup_failure
WarmupFails == state' = "failed" /\ warm' = [warm EXCEPT !.pc = "idle"]

\* An inference of texts ends, and gives the lock to the next one.
EncodeTexts ==
    /\ jobs # <<>> /\ Head(jobs).for # "capacity"
    /\ LET job == Head(jobs) IN
       \E o \in Outcomes(FALSE) :
         /\ Charge(o)
         /\ Answer(job, o.ok)
         /\ IF OfWarmup(job.texts) = {} THEN UNCHANGED <<state, warm>>
            ELSE IF o.ok
            THEN warm' = [warm EXCEPT !.left = @ - Cardinality(OfWarmup(job.texts))] /\ UNCHANGED state
            ELSE WarmupFails
    /\ jobs' = Tail(jobs)
    /\ UNCHANGED <<queue, batch, recent, healthy, calls, restarts>>

-----------------------------------------------------------------------------
\* warmup: load_model, which needs no lock ...
LoadModel ==
    /\ warm.pc = "load"
    /\ \E o \in Outcomes(FALSE) :
         /\ Charge(o)
         /\ IF o.ok /\ o.device = "cuda"
            THEN /\ warm' = [warm EXCEPT !.pc = "capacity"]
                 /\ jobs' = Append(jobs, [for |-> "capacity", texts |-> <<>>])
                 /\ UNCHANGED state
            ELSE WarmupFails /\ UNCHANGED jobs
    /\ UNCHANGED <<queue, batch, call, recent, healthy, calls, restarts>>

\* ... performance_warmup: a round is a full batch of single texts.
Round(rounds) ==
    LET n == warm.n + 1 IN
    /\ warm' = [pc |-> "round", n |-> n, left |-> MaxBatch, rounds |-> rounds]
    /\ queue' = [queue EXCEPT ![WarmKey] =
                   @ \o [i \in 1..MaxBatch |-> [by |-> Warmer, n |-> n, for |-> WarmKey]]]

\* ... capacity_probe: one inference; the model has to be on CUDA before and after.
CapacityProbe ==
    /\ jobs # <<>> /\ Head(jobs).for = "capacity"
    /\ jobs' = Tail(jobs)
    /\ \E o \in Outcomes(TRUE) :
         /\ Charge(o)
         /\ IF o.ok /\ o.device = "cuda"
            THEN Round(Rounds) /\ UNCHANGED state
            ELSE WarmupFails /\ UNCHANGED queue
    /\ UNCHANGED <<batch, call, recent, healthy, calls, restarts>>

RoundEnds ==
    /\ warm.pc = "round" /\ warm.left = 0
    /\ IF warm.rounds > 1 THEN Round(warm.rounds - 1) /\ UNCHANGED state
       ELSE /\ UNCHANGED queue
            /\ IF device = "cuda" THEN state' = "ready" /\ warm' = [warm EXCEPT !.pc = "idle"]
               ELSE WarmupFails
    /\ UNCHANGED <<device, batch, jobs, call, recent, healthy, bounds>>

-----------------------------------------------------------------------------
\* health: anything but a finished warm-up is an error, "not warmed up".
OnlyCold == state = "cold"
NotWarmedUp == state # "ready"

\* _probe_embedding_component and _schedule_actor_recovery_warmup.
Probe ==
    /\ healthy' = (state = "ready")
    /\ IF NotWarmedUp /\ ~recent
       THEN /\ recent' = TRUE /\ state' = "warming"
            /\ warm' = [warm EXCEPT !.pc = "load"]
       ELSE UNCHANGED <<recent, state, warm>>
    /\ UNCHANGED <<device, actor, call, bounds>>

\* The actor does not answer in time.
ProbeLost ==
    /\ failures < MaxFailures /\ failures' = failures + 1
    /\ healthy' = FALSE
    /\ UNCHANGED <<state, device, actor, warm, call, recent, calls, restarts>>

\* The 60 seconds are over: they are assumed to be longer than a warm-up.
IntervalPasses ==
    /\ recent /\ warm.pc = "idle"
    /\ recent' = FALSE
    /\ UNCHANGED <<state, device, actor, warm, call, healthy, bounds>>

\* The actor's process dies and Ray starts it again.
Restart ==
    /\ restarts < MaxRestarts /\ restarts' = restarts + 1
    /\ state' = "cold" /\ device' = "none"
    /\ queue' = NoBatches /\ batch' = NoBatches /\ jobs' = <<>>
    /\ warm' = [warm EXCEPT !.pc = "idle"]
    /\ call' = [c \in Callers |-> IF call[c].pc = "sent" THEN [call[c] EXCEPT !.pc = "failed"]
                                  ELSE call[c]]
    /\ UNCHANGED <<recent, healthy, calls, failures>>

-----------------------------------------------------------------------------
Next ==
    \/ \E c \in Callers : Send(c) \/ GiveUp(c)
    \/ \E k \in Keys : Collect(k) \/ Deadline(k)
    \/ EncodeTexts \/ LoadModel \/ CapacityProbe \/ RoundEnds
    \/ Probe \/ ProbeLost \/ IntervalPasses \/ Restart

Spec == Init /\ [][Next]_vars

\* The event loop and the inference thread go on, and probes are repeated.
Fairness ==
    /\ \A k \in Keys : WF_vars(Collect(k)) /\ WF_vars(Deadline(k))
    /\ WF_vars(EncodeTexts) /\ WF_vars(LoadModel) /\ WF_vars(CapacityProbe)
    /\ WF_vars(RoundEnds) /\ WF_vars(Probe) /\ WF_vars(IntervalPasses)

FairSpec == Spec /\ Fairness

-----------------------------------------------------------------------------
Texts == [by : Callers \cup {Warmer}, n : Nat, for : Keys \cup {"list"}]

TypeOK ==
    /\ state \in {"cold", "warming", "failed", "ready"}
    /\ device \in {"none", "cuda", "cpu"}
    /\ queue \in [Keys -> Seq(Texts)] /\ batch \in [Keys -> Seq(Texts)]
    /\ jobs \in Seq([for : Keys \cup {"list", "capacity"}, texts : Seq(Texts)])
    /\ warm \in [pc : {"idle", "load", "capacity", "round"}, n : Nat, left : Nat, rounds : Nat]
    /\ \A c \in Callers : call[c].pc \in {"idle", "sent", "answered", "failed"}
    /\ recent \in BOOLEAN /\ healthy \in BOOLEAN
    /\ calls \in 0..MaxCalls /\ restarts \in 0..MaxRestarts /\ failures \in 0..MaxFailures

\* A caller gets the row of the text it sent last, embedded for what it asked for, though
\* its text may share a batch with those of other callers, of the warm-up, and with one it
\* has given up waiting for.
OwnRow ==
    \A c \in Callers : call[c].pc = "answered" =>
      call[c].row = <<[by |-> c, n |-> call[c].n, for |-> call[c].for], call[c].for>>

\* Every call ends without its timeout, whatever fails in its batch and in those before.
CallsEnd == \A c \in Callers : call[c].pc = "sent" ~> call[c].pc # "sent"

\* After the last restart and the last failure the component becomes healthy and stays it,
\* unless a failure has moved the model to the CPU, where no warm-up accepts it.
Recovers == <>[](healthy \/ device = "cpu")
=============================================================================
