---------------------------- MODULE ActorProofs ----------------------------
(***************************************************************************)
(* The model actors.  Embedding: every caller gets its own row, for any    *)
(* callers, kinds of texts, batch size, restarts and failures.  Reranker:  *)
(* the component changes its state only after enough equal results in a    *)
(* row, for any thresholds, replicas, requests and crashes.                *)
(***************************************************************************)
EXTENDS Embedding, RerankerPool, SequenceTheorems, FiniteSetTheorems, TLAPS

Kinds == Keys \cup {"list"}

(* What may be in a queue, a batch or an inference of kind k: texts of that kind, *)
(* numbered no higher than the last call, and the latest of its caller is of the  *)
(* kind that call asked for.                                                      *)
Timely(r) == r.by \in Callers =>
               r.n <= calls /\ (r.n = call[r.by].n => r.for = call[r.by].for)
Proper(k) == {r \in Texts : r.for = k /\ Timely(r)}
Jobs == {j \in [for : Kinds \cup {"capacity"}, texts : Seq(Texts)] : j.texts \in Seq(Proper(j.for))}

CallsTyped ==
    /\ calls \in Nat
    /\ call \in [Callers -> [pc : {"idle", "sent", "answered", "failed"}, n : Nat, for : Kinds,
                             row : {<<>>} \cup (Texts \X (Kinds \cup {"capacity"}))]]
    /\ \A c \in Callers : call[c].n <= calls
WarmTyped == warm \in [pc : {"idle", "load", "capacity", "round"}, n : Nat, left : Int, rounds : Int]
QueuesProper ==
    /\ queue \in [Keys -> Seq(Texts)] /\ batch \in [Keys -> Seq(Texts)]
    /\ \A k \in Keys : queue[k] \in Seq(Proper(k)) /\ batch[k] \in Seq(Proper(k))
    /\ \A k \in Keys : Len(batch[k]) < MaxBatch

(* OwnRow is not inductive: a row is right because its text stood in a batch of its *)
(* own kind, and the caller had not asked for something else under that number.     *)
IInv == CallsTyped /\ WarmTyped /\ QueuesProper /\ jobs \in Seq(Jobs) /\ OwnRow
-----------------------------------------------------------------------------
LEMMA SeqMonotone ==
  ASSUME NEW S, NEW T, S \subseteq T, NEW s \in Seq(S)
  PROVE  s \in Seq(T)
<1>1. s \in [1..Len(s) -> S] /\ Len(s) \in Nat
  BY LenProperties
<1>2. s \in [1..Len(s) -> T]
  BY <1>1
<1> QED
  BY <1>1, <1>2

(* A step that numbers no new call and leaves what the callers asked for alone keeps *)
(* every text proper, and so does one whose new call has a number of its own.        *)
LEMMA StaysProper ==
  ASSUME CallsTyped, calls' \in Nat, calls <= calls',
         NEW k,
         \A c \in Callers : \/ call'[c].n = call[c].n /\ call'[c].for = call[c].for
                            \/ call'[c].n > calls
  PROVE  Proper(k) \subseteq Proper(k)'
<1> SUFFICES ASSUME NEW r \in Texts, r.for = k, Timely(r) PROVE Timely(r)'
  BY DEF Proper, Texts
<1>1. r.n \in Nat /\ r.by \in Callers \cup {Warmer}
  BY DEF Texts
<1> SUFFICES ASSUME r.by \in Callers
             PROVE  r.n <= calls' /\ (r.n = call'[r.by].n => r.for = call'[r.by].for)
  BY DEF Timely
<1>2. r.n <= calls /\ (r.n = call[r.by].n => r.for = call[r.by].for)
  BY DEF Timely
<1>3. calls \in Nat
  BY DEF CallsTyped
<1>4. r.n <= calls'
  BY <1>1, <1>2, <1>3
<1>5. CASE call'[r.by].n = call[r.by].n /\ call'[r.by].for = call[r.by].for
  BY <1>2, <1>4, <1>5
<1>6. CASE call'[r.by].n > calls
  BY <1>1, <1>2, <1>3, <1>4, <1>6
<1> QED
  BY <1>5, <1>6

LEMMA QueuesStayProper ==
  ASSUME \A k \in Kinds \cup {"capacity"} : Proper(k) \subseteq Proper(k)'
  PROVE  /\ Jobs \subseteq Jobs'
         /\ jobs \in Seq(Jobs) => jobs \in Seq(Jobs')
         /\ \A k \in Keys : /\ queue[k] \in Seq(Proper(k)) => queue[k] \in Seq(Proper(k)')
                            /\ batch[k] \in Seq(Proper(k)) => batch[k] \in Seq(Proper(k)')
<1>1. ASSUME NEW j \in Jobs PROVE j \in Jobs'
  <2>1. j \in [for : Kinds \cup {"capacity"}, texts : Seq(Texts)] /\ j.texts \in Seq(Proper(j.for))
    BY <1>1 DEF Jobs
  <2>2. j.for \in Kinds \cup {"capacity"}
    BY <2>1
  <2>3. j.texts \in Seq(Proper(j.for)')
    BY <2>1, <2>2, SeqMonotone
  <2> QED
    BY <2>1, <2>3 DEF Jobs, Texts, Kinds
<1>2. Jobs \subseteq Jobs'
  BY <1>1
<1>3. jobs \in Seq(Jobs) => jobs \in Seq(Jobs')
  BY <1>2, SeqMonotone
<1>4. ASSUME NEW k \in Keys, NEW s \in Seq(Proper(k)) PROVE s \in Seq(Proper(k)')
  BY <1>4, SeqMonotone DEF Kinds
<1> QED
  BY <1>2, <1>3, <1>4

-----------------------------------------------------------------------------
(* Nothing is queued at the start. *)
THEOREM InitIInv == Init => IInv
<1> SUFFICES ASSUME Init PROVE IInv
  OBVIOUS
<1> USE EmbeddingAssumption DEF Init
<1>1. CallsTyped
  BY DEF CallsTyped, Kinds
<1>2. WarmTyped
  BY DEF WarmTyped, NoWarmup
<1>3. QueuesProper
  BY EmptySeq DEF QueuesProper, NoBatches
<1>4. jobs \in Seq(Jobs)
  BY EmptySeq
<1>5. OwnRow
  BY DEF OwnRow
<1> QED
  BY <1>1, <1>2, <1>3, <1>4, <1>5 DEF IInv

LEMMA SendKeeps == ASSUME IInv, NEW c \in Callers, Send(c) PROVE IInv'
<1>1. PICK for \in Kinds :
        LET r == [by |-> c, n |-> calls + 1, for |-> for] IN
        /\ call' = [call EXCEPT ![c] = [pc |-> "sent", n |-> r.n, for |-> for, row |-> <<>>]]
        /\ IF for = "list"
           THEN jobs' = Append(jobs, [for |-> for, texts |-> <<r>>]) /\ UNCHANGED queue
           ELSE queue' = [queue EXCEPT ![for] = Append(@, r)] /\ UNCHANGED jobs
  BY DEF Send, Kinds
<1> DEFINE r == [by |-> c, n |-> calls + 1, for |-> for]
<1>2. calls' = calls + 1 /\ calls \in Nat /\ UNCHANGED <<batch, warm>>
  BY DEF Send, IInv, CallsTyped
<1>3. call' = [call EXCEPT ![c] = [pc |-> "sent", n |-> calls + 1, for |-> for, row |-> <<>>]]
  BY <1>1
<1>4. CallsTyped'
  BY <1>2, <1>3 DEF IInv, CallsTyped
<1>5. \A k \in Kinds \cup {"capacity"} : Proper(k) \subseteq Proper(k)'
  <2> TAKE k \in Kinds \cup {"capacity"}
  <2>1. \A d \in Callers : \/ call'[d].n = call[d].n /\ call'[d].for = call[d].for
                           \/ call'[d].n > calls
    BY <1>2, <1>3 DEF IInv, CallsTyped
  <2> QED
    BY <1>2, <2>1, StaysProper DEF IInv
<1>6. r \in Texts /\ r \in Proper(for)'
  BY <1>2, <1>3 DEF Proper, Texts, Timely, Kinds, IInv, CallsTyped
<1>7. QueuesProper'
  <2>1. CASE for = "list"
    <3>1. UNCHANGED <<queue, batch>>
      BY <1>1, <1>2, <2>1
    <3> QED
      BY <1>5, <3>1, QueuesStayProper DEF QueuesProper, IInv
  <2>2. CASE for # "list"
    <3>1. for \in Keys /\ queue' = [queue EXCEPT ![for] = Append(@, r)] /\ UNCHANGED batch
      BY <1>1, <1>2, <2>2 DEF Kinds
    <3>2. Append(queue[for], r) \in Seq(Texts) /\ Append(queue[for], r) \in Seq(Proper(for)')
      BY <1>5, <1>6, <3>1, QueuesStayProper, AppendProperties DEF QueuesProper, IInv
    <3> QED
      BY <1>5, <3>1, <3>2, QueuesStayProper DEF QueuesProper, IInv
  <2> QED
    BY <2>1, <2>2
<1>8. jobs' \in Seq(Jobs')
  <2>1. CASE for = "list"
    <3>1. <<r>> \in Seq(Texts) /\ <<r>> \in Seq(Proper(for)')
      BY <1>6
    <3>2. [for |-> for, texts |-> <<r>>] \in Jobs'
      BY <3>1 DEF Jobs, Texts, Kinds
    <3>3. jobs' = Append(jobs, [for |-> for, texts |-> <<r>>])
      BY <1>1, <2>1
    <3> QED
      BY <1>5, <3>2, <3>3, QueuesStayProper, AppendProperties DEF IInv
  <2>2. CASE for # "list"
    BY <1>1, <1>5, <2>2, QueuesStayProper DEF IInv
  <2> QED
    BY <2>1, <2>2
<1>9. OwnRow' /\ WarmTyped'
  BY <1>2, <1>3 DEF OwnRow, WarmTyped, IInv, CallsTyped
<1> QED
  BY <1>4, <1>7, <1>8, <1>9 DEF IInv

(* Steps that touch neither what the callers asked for nor the calls. *)
LEMMA SameCalls ==
  ASSUME IInv, UNCHANGED calls,
         \A c \in Callers : call'[c].n = call[c].n /\ call'[c].for = call[c].for
  PROVE  /\ \A k : Proper(k) = Proper(k)'
         /\ Jobs = Jobs'
<1>1. \A k : Proper(k) = Proper(k)'
  BY DEF Proper, Timely, Texts
<1> QED
  BY <1>1 DEF Jobs, Texts, Kinds

LEMMA MinBound ==
  ASSUME NEW x \in Nat, NEW y \in Nat
  PROVE  Smaller(x, y) \in Nat /\ Smaller(x, y) <= x /\ Smaller(x, y) <= y
BY DEF Smaller

LEMMA CollectKeeps == ASSUME IInv, NEW k \in Keys, Collect(k) PROVE IInv'
<1> DEFINE n == Smaller(MaxBatch - Len(batch[k]), Len(queue[k]))
           b == batch[k] \o SubSeq(queue[k], 1, n)
           rest == SubSeq(queue[k], n + 1, Len(queue[k]))
<1>1. /\ queue' = [queue EXCEPT ![k] = rest]
      /\ \/ batch' = [batch EXCEPT ![k] = <<>>] /\ jobs' = Append(jobs, [for |-> k, texts |-> b])
         \/ batch' = [batch EXCEPT ![k] = b] /\ UNCHANGED jobs /\ Len(b) # MaxBatch
      /\ UNCHANGED <<warm, call, calls>>
  BY DEF Collect, Close, bounds, IInv, QueuesProper
<1>2. /\ queue[k] \in Seq(Proper(k)) /\ batch[k] \in Seq(Proper(k))
      /\ Proper(k) \subseteq Texts
      /\ Len(queue[k]) \in Nat /\ Len(batch[k]) \in Nat /\ Len(batch[k]) < MaxBatch
  BY LenProperties DEF IInv, QueuesProper, Proper
<1>3. n \in Nat /\ n <= Len(queue[k]) /\ n <= MaxBatch - Len(batch[k])
  <2>1. MaxBatch - Len(batch[k]) \in Nat
    BY <1>2, EmbeddingAssumption
  <2> QED
    BY <1>2, <2>1, MinBound
<1>4. /\ rest \in Seq(Proper(k)) /\ b \in Seq(Proper(k))
      /\ Len(b) = Len(batch[k]) + n
  <2>1. \A i \in 1..Len(queue[k]) : queue[k][i] \in Proper(k)
    BY <1>2, ElementOfSeq
  <2>2. \A i \in n + 1 .. Len(queue[k]) : queue[k][i] \in Proper(k)
    BY <1>2, <1>3, <2>1
  <2>3. \A i \in 1 .. n : queue[k][i] \in Proper(k)
    BY <1>2, <1>3, <2>1
  <2>4. rest \in Seq(Proper(k))
    BY <1>2, <1>3, <2>2, SubSeqProperties
  <2>5. SubSeq(queue[k], 1, n) \in Seq(Proper(k)) /\ Len(SubSeq(queue[k], 1, n)) = n
    BY <1>3, <2>3, SubSeqProperties
  <2> HIDE DEF n, rest
  <2> QED
    BY <1>2, <2>4, <2>5, ConcatProperties
<1>5. rest \in Seq(Texts) /\ b \in Seq(Texts)
  BY <1>2, <1>4, SeqMonotone
<1> HIDE DEF n, b, rest
<1>6. Len(b) # MaxBatch => Len(b) < MaxBatch
  <2>1. \A x, y, m \in Nat : y <= m - x /\ x + y # m => x + y < m
    OBVIOUS
  <2>2. Len(batch[k]) \in Nat /\ n \in Nat /\ MaxBatch \in Nat
    BY <1>2, <1>3, EmbeddingAssumption
  <2> QED
    BY <1>3, <1>4, <2>1, <2>2, Zenon
<1>7. Jobs' = Jobs /\ \A l : Proper(l) = Proper(l)'
  BY <1>1, SameCalls
<1>8. QueuesProper'
  <2>1. /\ queue' \in [Keys -> Seq(Texts)] /\ \A l \in Keys : queue'[l] \in Seq(Proper(l))
    BY <1>1, <1>4, <1>5 DEF QueuesProper, IInv
  <2>2. PICK e \in {<<>>, b} : batch' = [batch EXCEPT ![k] = e] /\ Len(e) < MaxBatch
    <3>1. Len(<<>>) < MaxBatch
      BY EmptySeq, EmbeddingAssumption
    <3> QED
      BY <1>1, <1>6, <3>1
  <2>3. e \in Seq(Texts) /\ e \in Seq(Proper(k))
    BY <1>4, <1>5, <2>2, EmptySeq
  <2>4. /\ batch' \in [Keys -> Seq(Texts)]
        /\ \A l \in Keys : batch'[l] \in Seq(Proper(l)) /\ Len(batch'[l]) < MaxBatch
    BY <2>2, <2>3 DEF QueuesProper, IInv
  <2> QED
    BY <1>7, <2>1, <2>4 DEF QueuesProper, Texts
<1>9. [for |-> k, texts |-> b] \in Jobs
  BY <1>4, <1>5 DEF Jobs, Kinds
<1>10. jobs' \in Seq(Jobs')
  BY <1>1, <1>7, <1>9, AppendProperties DEF IInv
<1>11. CallsTyped' /\ WarmTyped' /\ OwnRow'
  BY <1>1 DEF IInv, CallsTyped, WarmTyped, OwnRow
<1> QED
  BY <1>8, <1>10, <1>11 DEF IInv

LEMMA DeadlineKeeps == ASSUME IInv, NEW k \in Keys, Deadline(k) PROVE IInv'
<1>1. /\ batch' = [batch EXCEPT ![k] = <<>>]
      /\ jobs' = Append(jobs, [for |-> k, texts |-> batch[k]])
      /\ UNCHANGED <<queue, warm, call, calls>>
  BY DEF Deadline, Close, bounds
<1>2. Jobs' = Jobs /\ \A l : Proper(l) = Proper(l)'
  BY <1>1, SameCalls
<1>3. QueuesProper'
  BY <1>1, <1>2, EmptySeq, EmbeddingAssumption DEF QueuesProper, IInv
<1>4. [for |-> k, texts |-> batch[k]] \in Jobs
  BY DEF Jobs, Kinds, IInv, QueuesProper
<1>5. jobs' \in Seq(Jobs')
  BY <1>1, <1>2, <1>4, AppendProperties DEF IInv
<1>6. CallsTyped' /\ WarmTyped' /\ OwnRow'
  BY <1>1 DEF IInv, CallsTyped, WarmTyped, OwnRow
<1> QED
  BY <1>3, <1>5, <1>6 DEF IInv

(* What steps that send nothing and end calls have in common. *)
LEMMA SameQueues ==
  ASSUME IInv, UNCHANGED <<calls, queue, batch>>,
         \A c \in Callers : call'[c].n = call[c].n /\ call'[c].for = call[c].for
  PROVE  QueuesProper' /\ Jobs' = Jobs
BY SameCalls DEF QueuesProper, IInv, Texts

LEMMA GiveUpKeeps == ASSUME IInv, NEW c \in Callers, GiveUp(c) PROVE IInv'
<1>1. call' = [call EXCEPT ![c].pc = "failed"] /\ UNCHANGED <<queue, batch, jobs, warm, calls>>
  BY DEF GiveUp, actor, bounds
<1>2. CallsTyped' /\ OwnRow'
  BY <1>1 DEF IInv, CallsTyped, OwnRow
<1>3. \A d \in Callers : call'[d].n = call[d].n /\ call'[d].for = call[d].for
  BY <1>1 DEF IInv, CallsTyped
<1>4. QueuesProper' /\ Jobs' = Jobs
  BY <1>1, <1>3, SameQueues
<1> QED
  BY <1>1, <1>2, <1>4 DEF IInv, WarmTyped

-----------------------------------------------------------------------------
(* The rows of an inference: each caller that waits for one of its texts gets the *)
(* row of that text, and the text is the last one it sent.                        *)
LEMMA AnswerIsOwn ==
  ASSUME IInv, NEW job \in Jobs, NEW ok \in BOOLEAN, Answer(job, ok), UNCHANGED calls
  PROVE  /\ CallsTyped' /\ OwnRow'
         /\ \A c \in Callers : call'[c].n = call[c].n /\ call'[c].for = call[c].for
<1>1. job.for \in Kinds \cup {"capacity"} /\ job.texts \in Seq(Proper(job.for))
  BY DEF Jobs
<1>2. \A i \in DOMAIN job.texts : job.texts[i] \in Proper(job.for)
  BY <1>1, ElementOfSeq, LenProperties
<1>3. call' = [c \in Callers |-> 
        IF \E i \in DOMAIN job.texts : Waits(c, job.texts[i])
        THEN LET i == CHOOSE i \in DOMAIN job.texts : Waits(c, job.texts[i]) IN
             IF ok THEN [call[c] EXCEPT !.pc = "answered", !.row = <<job.texts[i], job.for>>]
             ELSE [call[c] EXCEPT !.pc = "failed"]
        ELSE call[c]]
  BY DEF Answer, Told, Row
<1>4. ASSUME NEW c \in Callers
      PROVE  \/ call'[c] = call[c]
             \/ call'[c] = [call[c] EXCEPT !.pc = "failed"]
             \/ \E r \in Proper(job.for) :
                  /\ call'[c] = [call[c] EXCEPT !.pc = "answered", !.row = <<r, job.for>>]
                  /\ Waits(c, r)
  <2>1. CASE ~\E i \in DOMAIN job.texts : Waits(c, job.texts[i])
    BY <1>3, <2>1
  <2>2. CASE \E i \in DOMAIN job.texts : Waits(c, job.texts[i])
    <3> DEFINE i == CHOOSE i \in DOMAIN job.texts : Waits(c, job.texts[i])
    <3>1. i \in DOMAIN job.texts /\ Waits(c, job.texts[i])
      BY <2>2
    <3>2. call'[c] = IF ok THEN [call[c] EXCEPT !.pc = "answered", !.row = <<job.texts[i], job.for>>]
                     ELSE [call[c] EXCEPT !.pc = "failed"]
      BY <1>3, <2>2
    <3> HIDE DEF i
    <3> QED
      BY <1>2, <3>1, <3>2
  <2> QED
    BY <2>1, <2>2
<1>5. call \in [Callers -> [pc : {"idle", "sent", "answered", "failed"}, n : Nat, for : Kinds,
                            row : {<<>>} \cup (Texts \X (Kinds \cup {"capacity"}))]]
  BY DEF IInv, CallsTyped
<1>6. ASSUME NEW c \in Callers, NEW r \in Proper(job.for), Waits(c, r)
      PROVE  r = [by |-> c, n |-> call[c].n, for |-> call[c].for] /\ job.for = call[c].for
  BY <1>6, <1>5 DEF Proper, Timely, Waits, Texts
<1>7. ASSUME NEW c \in Callers
      PROVE  /\ call'[c].n = call[c].n /\ call'[c].for = call[c].for
             /\ call'[c] \in [pc : {"idle", "sent", "answered", "failed"}, n : Nat, for : Kinds,
                              row : {<<>>} \cup (Texts \X (Kinds \cup {"capacity"}))]
             /\ call'[c].pc = "answered" =>
                  call'[c].row = <<[by |-> c, n |-> call'[c].n, for |-> call'[c].for], call'[c].for>>
  <2>1. CASE call'[c] = call[c]
    BY <1>5, <2>1 DEF IInv, OwnRow
  <2>2. CASE call'[c] = [call[c] EXCEPT !.pc = "failed"]
    BY <1>5, <2>2
  <2>3. CASE \E r \in Proper(job.for) :
                  /\ call'[c] = [call[c] EXCEPT !.pc = "answered", !.row = <<r, job.for>>]
                  /\ Waits(c, r)
    <3>1. PICK r \in Proper(job.for) :
                  /\ call'[c] = [call[c] EXCEPT !.pc = "answered", !.row = <<r, job.for>>]
                  /\ Waits(c, r)
      BY <2>3
    <3>2. r \in Texts /\ r = [by |-> c, n |-> call[c].n, for |-> call[c].for]
          /\ job.for = call[c].for
      BY <1>6, <3>1 DEF Proper
    <3>3. <<r, job.for>> \in Texts \X (Kinds \cup {"capacity"})
      BY <1>1, <3>2
    <3>4. call[c] \in [pc : {"idle", "sent", "answered", "failed"}, n : Nat, for : Kinds,
                       row : {<<>>} \cup (Texts \X (Kinds \cup {"capacity"}))]
      BY <1>5
    <3> DEFINE x == <<r, job.for>>
    <3>5. x = <<[by |-> c, n |-> call[c].n, for |-> call[c].for], call[c].for>>
      BY <3>2
    <3>6. x \in {<<>>} \cup (Texts \X (Kinds \cup {"capacity"}))
      BY <3>3
    <3>7. call'[c] = [call[c] EXCEPT !.pc = "answered", !.row = x]
      BY <3>1
    <3> HIDE DEF x
    <3> QED
      BY <3>4, <3>5, <3>6, <3>7
  <2> QED
    BY <1>4, <2>1, <2>2, <2>3
<1>8. call' \in [Callers -> [pc : {"idle", "sent", "answered", "failed"}, n : Nat, for : Kinds,
                             row : {<<>>} \cup (Texts \X (Kinds \cup {"capacity"}))]]
  <2>1. call' = [c \in Callers |-> call'[c]]
    BY <1>3
  <2> QED
    BY <1>7, <2>1
<1> QED
  BY <1>7, <1>8 DEF IInv, CallsTyped, OwnRow

LEMMA EncodeTextsKeeps == ASSUME IInv, EncodeTexts PROVE IInv'
<1> DEFINE job == Head(jobs)
<1>1. PICK ok \in BOOLEAN :
        /\ Answer(job, ok)
        /\ \/ UNCHANGED warm
           \/ warm' = [warm EXCEPT !.left = @ - Cardinality(OfWarmup(job.texts))]
           \/ warm' = [warm EXCEPT !.pc = "idle"]
  BY DEF EncodeTexts, WarmupFails, Outcomes
<1>2. jobs # <<>> /\ jobs' = Tail(jobs) /\ UNCHANGED <<queue, batch, calls>>
  BY DEF EncodeTexts
<1>3. job \in Jobs /\ Tail(jobs) \in Seq(Jobs)
  BY <1>2, HeadTailProperties DEF IInv
<1> HIDE DEF job
<1>4. /\ CallsTyped' /\ OwnRow'
      /\ \A c \in Callers : call'[c].n = call[c].n /\ call'[c].for = call[c].for
  BY <1>1, <1>2, <1>3, AnswerIsOwn
<1>5. QueuesProper' /\ Jobs' = Jobs
  BY <1>2, <1>4, SameQueues
<1>6. Cardinality(OfWarmup(job.texts)) \in Nat
  <2>1. job.texts \in Seq(Texts)
    BY <1>3 DEF Jobs
  <2>2. IsFiniteSet(1..Len(job.texts))
    BY <2>1, LenProperties, FS_Interval
  <2>3. OfWarmup(job.texts) \subseteq 1..Len(job.texts)
    BY <2>1, LenProperties DEF OfWarmup
  <2> QED
    BY <2>2, <2>3, FS_Subset, FS_CardinalityType
<1>7. WarmTyped'
  BY <1>1, <1>6 DEF WarmTyped, IInv
<1> QED
  BY <1>2, <1>3, <1>4, <1>5, <1>7 DEF IInv

-----------------------------------------------------------------------------
LEMMA LoadModelKeeps == ASSUME IInv, LoadModel PROVE IInv'
<1>1. /\ warm' = [warm EXCEPT !.pc = "capacity"] \/ warm' = [warm EXCEPT !.pc = "idle"]
      /\ jobs' = Append(jobs, [for |-> "capacity", texts |-> <<>>]) \/ UNCHANGED jobs
      /\ UNCHANGED <<queue, batch, call, calls>>
  BY DEF LoadModel, WarmupFails
<1>2. QueuesProper' /\ Jobs' = Jobs
  BY <1>1, SameQueues
<1>3. [for |-> "capacity", texts |-> <<>>] \in Jobs
  BY EmptySeq DEF Jobs
<1>4. jobs' \in Seq(Jobs')
  BY <1>1, <1>2, <1>3, AppendProperties DEF IInv
<1>5. CallsTyped' /\ WarmTyped' /\ OwnRow'
  BY <1>1 DEF IInv, CallsTyped, WarmTyped, OwnRow
<1> QED
  BY <1>2, <1>4, <1>5 DEF IInv

(* The texts of a round are the warm-up's own, so they are proper whatever their number. *)
LEMMA RoundKeeps ==
  ASSUME IInv, NEW rounds \in Int, Round(rounds), UNCHANGED <<batch, call, calls>>
  PROVE  QueuesProper' /\ WarmTyped' /\ CallsTyped' /\ OwnRow' /\ Jobs' = Jobs
<1> DEFINE texts == [i \in 1..MaxBatch |-> [by |-> Warmer, n |-> warm.n + 1, for |-> WarmKey]]
<1>1. /\ warm' = [pc |-> "round", n |-> warm.n + 1, left |-> MaxBatch, rounds |-> rounds]
      /\ queue' = [queue EXCEPT ![WarmKey] = @ \o texts]
  BY DEF Round
<1>2. warm.n + 1 \in Nat /\ MaxBatch \in Nat /\ WarmKey \in Keys /\ Warmer \notin Callers
  BY EmbeddingAssumption DEF IInv, WarmTyped
<1>3. WarmTyped'
  BY <1>1, <1>2 DEF WarmTyped
<1>4. [by |-> Warmer, n |-> warm.n + 1, for |-> WarmKey] \in Proper(WarmKey)
  BY <1>2 DEF Proper, Texts, Timely
<1>5. texts \in Seq(Proper(WarmKey)) /\ texts \in Seq(Texts)
  BY <1>2, <1>4 DEF Proper
<1> HIDE DEF texts
<1>6. /\ queue[WarmKey] \o texts \in Seq(Proper(WarmKey))
      /\ queue[WarmKey] \o texts \in Seq(Texts)
  BY <1>2, <1>5, ConcatProperties DEF IInv, QueuesProper
<1>7. Jobs' = Jobs /\ \A l : Proper(l) = Proper(l)'
  BY SameCalls
<1>8. QueuesProper'
  <2>1. /\ queue' \in [Keys -> Seq(Texts)] /\ \A l \in Keys : queue'[l] \in Seq(Proper(l))
    BY <1>1, <1>2, <1>6 DEF IInv, QueuesProper
  <2> QED
    BY <1>7, <2>1 DEF IInv, QueuesProper, Texts
<1>9. CallsTyped' /\ OwnRow'
  BY DEF IInv, CallsTyped, OwnRow
<1> QED
  BY <1>3, <1>7, <1>8, <1>9

(* A step of the warm-up or of the health probe that sends nothing. *)
LEMMA QuietKeeps ==
  ASSUME IInv, UNCHANGED <<queue, batch, call, calls>>,
         jobs' = jobs \/ (jobs # <<>> /\ jobs' = Tail(jobs)),
         UNCHANGED warm \/ (\E pc \in {"idle", "load"} : warm' = [warm EXCEPT !.pc = pc])
  PROVE  IInv'
<1>1. QueuesProper' /\ Jobs' = Jobs
  BY SameQueues
<1>2. jobs' \in Seq(Jobs')
  BY <1>1, HeadTailProperties DEF IInv
<1>3. CallsTyped' /\ WarmTyped' /\ OwnRow'
  BY DEF IInv, CallsTyped, WarmTyped, OwnRow
<1> QED
  BY <1>1, <1>2, <1>3 DEF IInv

LEMMA CapacityProbeKeeps == ASSUME IInv, CapacityProbe PROVE IInv'
<1>1. /\ jobs # <<>> /\ jobs' = Tail(jobs) /\ UNCHANGED <<batch, call, calls>>
      /\ Round(Rounds) \/ (WarmupFails /\ UNCHANGED queue)
  BY DEF CapacityProbe
<1>2. CASE Round(Rounds)
  <2>1. QueuesProper' /\ WarmTyped' /\ CallsTyped' /\ OwnRow' /\ Jobs' = Jobs
    BY <1>1, <1>2, RoundKeeps, EmbeddingAssumption
  <2>2. jobs' \in Seq(Jobs)
    BY <1>1, HeadTailProperties DEF IInv
  <2> QED
    BY <2>1, <2>2 DEF IInv
<1>3. CASE WarmupFails /\ UNCHANGED queue
  BY <1>1, <1>3, QuietKeeps DEF WarmupFails
<1> QED
  BY <1>1, <1>2, <1>3

LEMMA RoundEndsKeeps == ASSUME IInv, RoundEnds PROVE IInv'
<1>1. UNCHANGED <<batch, jobs, call, calls>>
  BY DEF RoundEnds, bounds
<1>2. CASE Round(warm.rounds - 1)
  <2>1. warm.rounds - 1 \in Int
    BY DEF IInv, WarmTyped
  <2> QED
    BY <1>1, <1>2, <2>1, RoundKeeps DEF IInv
<1>3. CASE ~Round(warm.rounds - 1)
  <2>1. UNCHANGED queue /\ warm' = [warm EXCEPT !.pc = "idle"]
    BY <1>3 DEF RoundEnds, WarmupFails
  <2> QED
    BY <1>1, <2>1, QuietKeeps
<1> QED
  BY <1>2, <1>3

LEMMA RestartKeeps == ASSUME IInv, Restart PROVE IInv'
<1>1. /\ queue' = NoBatches /\ batch' = NoBatches /\ jobs' = <<>>
      /\ warm' = [warm EXCEPT !.pc = "idle"] /\ UNCHANGED calls
      /\ call' = [c \in Callers |-> IF call[c].pc = "sent" THEN [call[c] EXCEPT !.pc = "failed"]
                                    ELSE call[c]]
  BY DEF Restart
<1>2. ASSUME NEW c \in Callers
      PROVE  call'[c] = [call[c] EXCEPT !.pc = "failed"] \/ call'[c] = call[c]
  BY <1>1
<1>3. call' = [c \in Callers |-> call'[c]]
  BY <1>1
<1>4. CallsTyped'
  <2> DEFINE Record == [pc : {"idle", "sent", "answered", "failed"}, n : Nat, for : Kinds,
                        row : {<<>>} \cup (Texts \X (Kinds \cup {"capacity"}))]
  <2>1. \A c \in Callers : call[c] \in Record
    BY DEF IInv, CallsTyped
  <2>2. ASSUME NEW c \in Callers PROVE call'[c] \in Record /\ call'[c].n = call[c].n
    <3>1. CASE call'[c] = [call[c] EXCEPT !.pc = "failed"]
      BY <2>1, <3>1
    <3>2. CASE call'[c] = call[c]
      BY <2>1, <3>2
    <3> QED
      BY <1>2, <3>1, <3>2
  <2> HIDE DEF Record
  <2>3. call' \in [Callers -> Record] /\ \A c \in Callers : call'[c].n <= calls'
    BY <1>1, <1>3, <2>2 DEF IInv, CallsTyped
  <2> QED
    BY <1>1, <2>3 DEF IInv, CallsTyped, Record, Texts, Kinds
<1>5. OwnRow'
  BY <1>2 DEF IInv, CallsTyped, OwnRow
<1>6. QueuesProper'
  BY <1>1, EmptySeq, EmbeddingAssumption DEF QueuesProper, NoBatches
<1>7. jobs' \in Seq(Jobs')
  BY <1>1, EmptySeq
<1> QED
  BY <1>1, <1>4, <1>5, <1>6, <1>7 DEF IInv, WarmTyped

-----------------------------------------------------------------------------
(* Every step of callers, batches, inference, warm-up and restarts keeps each text with *)
(* its kind and its caller.                                                             *)
THEOREM NextKeepsIInv == IInv /\ [Next]_vars => IInv'
<1> SUFFICES ASSUME IInv, [Next]_vars PROVE IInv'
  OBVIOUS
<1>1. ASSUME NEW c \in Callers, Send(c) PROVE IInv'
  BY <1>1, SendKeeps
<1>2. ASSUME NEW c \in Callers, GiveUp(c) PROVE IInv'
  BY <1>2, GiveUpKeeps
<1>3. ASSUME NEW k \in Keys, Collect(k) PROVE IInv'
  BY <1>3, CollectKeeps
<1>4. ASSUME NEW k \in Keys, Deadline(k) PROVE IInv'
  BY <1>4, DeadlineKeeps
<1>5. CASE EncodeTexts
  BY <1>5, EncodeTextsKeeps
<1>6. CASE LoadModel
  BY <1>6, LoadModelKeeps
<1>7. CASE CapacityProbe
  BY <1>7, CapacityProbeKeeps
<1>8. CASE RoundEnds
  BY <1>8, RoundEndsKeeps
<1>9. CASE Probe \/ ProbeLost \/ IntervalPasses
  <2>1. /\ UNCHANGED <<queue, batch, jobs, call, calls>>
        /\ UNCHANGED warm \/ warm' = [warm EXCEPT !.pc = "load"]
    BY <1>9 DEF Probe, ProbeLost, IntervalPasses, actor, bounds
  <2> QED
    BY <2>1, QuietKeeps
<1>10. CASE Restart
  BY <1>10, RestartKeeps
<1>11. CASE UNCHANGED vars
  <2>1. UNCHANGED <<queue, batch, jobs, call, calls, warm>>
    BY <1>11 DEF vars, actor, bounds
  <2> QED
    BY <2>1, QuietKeeps
<1> QED
  BY <1>1, <1>2, <1>3, <1>4, <1>5, <1>6, <1>7, <1>8, <1>9, <1>10, <1>11 DEF Next

(* A caller gets the row of the text it sent last, embedded for what it asked for: *)
(* whatever shares its batch, however late the inference, across restarts.         *)
THEOREM EmbeddingOwnRow == Spec => []OwnRow
<1>1. IInv => OwnRow
  BY DEF IInv
<1> QED
  BY InitIInv, NextKeepsIInv, <1>1, PTL DEF Spec

-----------------------------------------------------------------------------
(* The reranker replicas. *)
(* The n newest members of s are all x. *)
Newest(s, n, x) == n <= Len(s) /\ \A i \in (Len(s) - n + 1)..Len(s) : s[i] = x

(* The counters say how long the row of equal results is, and as many results as a  *)
(* threshold can ask for are remembered.                                            *)
HInv ==
    /\ results \in Seq({"ok", "failed"}) /\ Len(results) <= Longest
    /\ failedProbes \in Nat /\ goodProbes \in Nat
    /\ Newest(results, failedProbes, "failed") /\ failedProbes <= FailureThreshold
    /\ Newest(results, goodProbes, "ok") /\ goodProbes <= RecoveryThreshold

Justified == /\ ~degraded /\ degraded' => LastAll(FailureThreshold, "failed")
             /\ degraded /\ ~degraded' => LastAll(RecoveryThreshold, "ok")
-----------------------------------------------------------------------------
LEMMA ThresholdBounds ==
  /\ FailureThreshold \in Nat /\ FailureThreshold > 0 /\ FailureThreshold <= Longest
  /\ RecoveryThreshold \in Nat /\ RecoveryThreshold > 0 /\ RecoveryThreshold <= Longest
  /\ Longest \in Nat /\ Longest > 0
BY PoolAssumption DEF Longest

(* Another result x makes a row of x one longer, as far as results are remembered. *)
LEMMA RememberExtends ==
  ASSUME NEW x \in {"ok", "failed"}, NEW n \in Nat, NEW m \in Nat,
         results \in Seq({"ok", "failed"}), Len(results) <= Longest,
         Newest(results, n, x), Remember(x), m <= n + 1, m <= Longest
  PROVE  results' \in Seq({"ok", "failed"}) /\ Len(results') <= Longest /\ Newest(results', m, x)
<1>1. Len(results) \in Nat /\ Longest \in Nat /\ Longest > 0
  BY ThresholdBounds, LenProperties
<1>2. <<x>> \in Seq({"ok", "failed"}) /\ Len(<<x>>) = 1 /\ <<x>>[1] = x
  OBVIOUS
<1>3. CASE Len(results) < Longest
  <2>1. results' = results \o <<x>>
    BY <1>3 DEF Remember
  <2>2. /\ results' \in Seq({"ok", "failed"}) /\ Len(results') = Len(results) + 1
        /\ \A i \in 1..Len(results) : results'[i] = results[i]
        /\ results'[Len(results) + 1] = x
    BY <1>1, <1>2, <2>1, ConcatProperties
  <2>3. ASSUME NEW i \in (Len(results') - m + 1)..Len(results') PROVE results'[i] = x
    <3>1. i = Len(results) + 1 \/ i \in (Len(results) - n + 1)..Len(results)
      BY <1>1, <2>2
    <3>2. n <= Len(results)
      BY DEF Newest
    <3>3. i \in (Len(results) - n + 1)..Len(results) => i \in 1..Len(results) /\ results[i] = x
      BY <1>1, <3>2 DEF Newest
    <3> QED
      BY <2>2, <3>1, <3>3
  <2> QED
    BY <1>1, <1>3, <2>2, <2>3 DEF Newest
<1>4. CASE ~(Len(results) < Longest)
  <2>1. results' = Tail(results) \o <<x>>
    BY <1>4 DEF Remember
  <2>2. Len(results) = Longest /\ results # <<>>
    BY <1>1, <1>4
  <2>3. /\ Tail(results) \in Seq({"ok", "failed"}) /\ Len(Tail(results)) = Len(results) - 1
        /\ \A i \in 1..(Len(results) - 1) : Tail(results)[i] = results[i + 1]
    BY <1>1, <2>2, HeadTailProperties
  <2>4. /\ results' \in Seq({"ok", "failed"}) /\ Len(results') = Len(results)
        /\ \A i \in 1..(Len(results) - 1) : results'[i] = results[i + 1]
        /\ results'[Len(results)] = x
    BY <1>1, <1>2, <2>1, <2>2, <2>3, ConcatProperties
  <2>5. ASSUME NEW i \in (Len(results') - m + 1)..Len(results') PROVE results'[i] = x
    <3>1. i = Len(results) \/ (i \in 1..(Len(results) - 1) /\ i + 1 \in (Len(results) - n + 1)..Len(results))
      BY <1>1, <2>2, <2>4
    <3> QED
      BY <2>4, <3>1 DEF Newest
  <2> QED
    BY <1>1, <2>2, <2>4, <2>5 DEF Newest
<1> QED
  BY <1>3, <1>4

(* A row of no results is one of any kind. *)
LEMMA NoneNewest == ASSUME NEW s \in Seq({"ok", "failed"}), NEW x PROVE Newest(s, 0, x)
BY LenProperties DEF Newest

LEMMA UpToBound ==
  ASSUME NEW n \in Nat, NEW limit \in Nat, n <= limit, limit > 0
  PROVE  /\ UpTo(n + 1, limit) \in Nat /\ UpTo(n + 1, limit) <= limit /\ UpTo(n + 1, limit) <= n + 1
         /\ n + 1 >= limit => UpTo(n + 1, limit) = limit
BY DEF UpTo

LEMMA SuccessKeeps == ASSUME HInv, RecordSuccess PROVE HInv' /\ Justified
<1>1. /\ goodProbes \in Nat /\ goodProbes <= RecoveryThreshold /\ Newest(results, goodProbes, "ok")
      /\ results \in Seq({"ok", "failed"}) /\ Len(results) <= Longest
  BY DEF HInv
<1>2. /\ failedProbes' = 0 /\ goodProbes' = UpTo(goodProbes + 1, RecoveryThreshold)
      /\ degraded' = (degraded /\ goodProbes + 1 < RecoveryThreshold) /\ Remember("ok")
  BY DEF RecordSuccess
<1>3. /\ goodProbes' \in Nat /\ goodProbes' <= RecoveryThreshold /\ goodProbes' <= goodProbes + 1
      /\ goodProbes + 1 >= RecoveryThreshold => goodProbes' = RecoveryThreshold
  BY <1>1, <1>2, UpToBound, ThresholdBounds
<1>4. /\ results' \in Seq({"ok", "failed"}) /\ Len(results') <= Longest
      /\ Newest(results', goodProbes', "ok")
  <2>1. goodProbes' <= Longest
    BY <1>3, ThresholdBounds
  <2> QED
    BY <1>1, <1>2, <1>3, <2>1, RememberExtends
<1>5. HInv'
  BY <1>2, <1>3, <1>4, NoneNewest, ThresholdBounds DEF HInv
<1>6. degraded /\ ~degraded' => goodProbes' = RecoveryThreshold
  <2>1. ~(goodProbes + 1 < RecoveryThreshold) => goodProbes + 1 >= RecoveryThreshold
    BY <1>1, ThresholdBounds
  <2> QED
    BY <1>2, <1>3, <2>1, Zenon
<1>7. ~degraded => ~degraded'
  BY <1>2
<1> QED
  BY <1>4, <1>5, <1>6, <1>7 DEF Justified, LastAll, Newest

LEMMA FailureKeeps == ASSUME HInv, RecordFailure PROVE HInv' /\ Justified
<1>1. /\ failedProbes \in Nat /\ failedProbes <= FailureThreshold /\ Newest(results, failedProbes, "failed")
      /\ results \in Seq({"ok", "failed"}) /\ Len(results) <= Longest
  BY DEF HInv
<1>2. /\ goodProbes' = 0 /\ failedProbes' = UpTo(failedProbes + 1, FailureThreshold)
      /\ degraded' = (degraded \/ failedProbes + 1 >= FailureThreshold) /\ Remember("failed")
  BY DEF RecordFailure
<1>3. /\ failedProbes' \in Nat /\ failedProbes' <= FailureThreshold /\ failedProbes' <= failedProbes + 1
      /\ failedProbes + 1 >= FailureThreshold => failedProbes' = FailureThreshold
  BY <1>1, <1>2, UpToBound, ThresholdBounds
<1>4. /\ results' \in Seq({"ok", "failed"}) /\ Len(results') <= Longest
      /\ Newest(results', failedProbes', "failed")
  <2>1. failedProbes' <= Longest
    BY <1>3, ThresholdBounds
  <2> QED
    BY <1>1, <1>2, <1>3, <2>1, RememberExtends
<1>5. HInv'
  BY <1>2, <1>3, <1>4, NoneNewest, ThresholdBounds DEF HInv
<1>6. ~degraded /\ degraded' => failedProbes' = FailureThreshold
  BY <1>2, <1>3, Zenon
<1>7. degraded => degraded'
  BY <1>2
<1> QED
  BY <1>4, <1>5, <1>6, <1>7 DEF Justified, LastAll, Newest
-----------------------------------------------------------------------------
(* The component starts healthy, with nothing counted. *)
THEOREM InitHInv == PoolInit => HInv
<1> SUFFICES ASSUME PoolInit PROVE HInv
  OBVIOUS
<1>1. results = <<>> /\ failedProbes = 0 /\ goodProbes = 0
  BY DEF PoolInit
<1>2. results \in Seq({"ok", "failed"}) /\ Len(results) = 0
  BY <1>1
<1>3. Newest(results, 0, "failed") /\ Newest(results, 0, "ok")
  BY <1>2, NoneNewest
<1>4. Newest(results, failedProbes, "failed") /\ Newest(results, goodProbes, "ok")
  BY <1>1, <1>3
<1>5. /\ Len(results) <= Longest /\ failedProbes \in Nat /\ goodProbes \in Nat
      /\ failedProbes <= FailureThreshold /\ goodProbes <= RecoveryThreshold
  BY <1>1, <1>2, ThresholdBounds
<1> QED
  BY <1>2, <1>4, <1>5 DEF HInv

(* Only the end of a probe writes what the health component counts. *)
THEOREM NextKeepsHInv == HInv /\ [PoolNext]_poolVars => HInv' /\ (UNCHANGED health \/ Justified)
<1> SUFFICES ASSUME HInv, [PoolNext]_poolVars PROVE HInv' /\ (UNCHANGED health \/ Justified)
  OBVIOUS
<1>1. CASE UNCHANGED health
  BY <1>1 DEF HInv, health, Newest
<1>2. CASE RecordSuccess
  BY <1>2, SuccessKeeps
<1>3. CASE RecordFailure
  BY <1>3, FailureKeeps
<1>4. ASSUME NEW q \in Requests, Start(q) \/ Progress(q) PROVE UNCHANGED health
  BY <1>4 DEF Progress, Start, Select, CallReturns, CallFails
<1>5. ASSUME NEW r \in Replicas, Stop(r) \/ Comeback(r) \/ WarmUp(r) \/ PauseEnds(r) PROVE UNCHANGED health
  BY <1>5 DEF Stop, Comeback, WarmUp, PauseEnds
<1>6. StartProbe => UNCHANGED health
  BY DEF StartProbe
<1>7. CollectAnswers => UNCHANGED health \/ RecordSuccess \/ RecordFailure
  BY DEF CollectAnswers
<1>8. UNCHANGED poolVars => UNCHANGED health
  BY DEF poolVars
<1> QED
  BY <1>1, <1>2, <1>3, <1>4, <1>5, <1>6, <1>7, <1>8 DEF PoolNext, ProbeStep

(* The component is degraded only by FailureThreshold failed probes in a row and     *)
(* recovers only by RecoveryThreshold good ones: whatever the replicas and requests  *)
(* do, an error between two good probes starts the count again.                      *)
THEOREM PoolHysteresis == PoolSpec => Hysteresis
<1>1. PoolInit => HInv
  BY InitHInv
<1>2. HInv /\ [PoolNext]_poolVars => HInv'
  BY NextKeepsHInv
<1>3. HInv /\ [PoolNext]_poolVars =>
        [/\ ~degraded /\ degraded' => LastAll(FailureThreshold, "failed")
         /\ degraded /\ ~degraded' => LastAll(RecoveryThreshold, "ok")]_poolVars
  <2> SUFFICES ASSUME HInv, [PoolNext]_poolVars
               PROVE  /\ ~degraded /\ degraded' => LastAll(FailureThreshold, "failed")
                      /\ degraded /\ ~degraded' => LastAll(RecoveryThreshold, "ok")
    OBVIOUS
  <2>1. CASE UNCHANGED health
    <3>1. degraded' = degraded
      BY <2>1 DEF health
    <3> QED
      BY <3>1
  <2>2. CASE Justified
    BY <2>2 DEF Justified
  <2> QED
    BY <2>1, <2>2, NextKeepsHInv
<1> QED
  BY <1>1, <1>2, <1>3, PTL DEF PoolSpec, Hysteresis
=============================================================================
