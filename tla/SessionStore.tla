---------------------------- MODULE SessionStore ----------------------------
(***************************************************************************)
(* One chat session on its two stores: the Redis hot path of               *)
(* app/redis_session_store.py and the PostgreSQL archive that              *)
(* app/session_archive.py feeds through app/session_store.py.              *)
(*                                                                         *)
(* A step is one round trip: one Redis command or MULTI, one PostgreSQL    *)
(* statement or transaction.  Exchanges (a question and its answer) are    *)
(* numbered in the order Redis commits them; an exchange's payload is      *)
(* reduced to the session_seq of its messages.                             *)
(***************************************************************************)
EXTENDS Integers, FiniteSets, Sequences, SequencesExt

CONSTANTS Requests,       \* main's requests on the session
          Workers,        \* session-archiver processes
          Nobody,         \* holder of a free lock
          MaxExchanges,   \* bound: exchanges committed to the session
          MaxFailures,    \* bound: lost replies, evictions, expired locks, crashes
          Span,           \* sequence numbers of one millisecond (1000 in the code)
          Ticks           \* milliseconds that may pass between two commits

ASSUME StoreAssumption == /\ Nobody \notin Requests
                          /\ MaxExchanges \in Nat /\ MaxFailures \in Nat
                          /\ Span \in Nat \ {0} /\ Ticks \in SUBSET Nat

Exchanges == 1..MaxExchanges
NoMeta == [cached |-> FALSE, last |-> 0]

VARIABLES
    \* PostgreSQL
    pgSession,    \* the chat_sessions row exists
    pgMsgs,       \* exchanges whose rows are in chat_messages
    pgState,      \* [exchange, archive_seq] of the last session state applied
    \* Redis
    meta,         \* the session hash: whether it exists, and its last_seq
    msgs,         \* the messages list
    pending,      \* the Pending hash
    stream,       \* archive stream entries
    delivered,    \* entries in the group's pending-entries list
    lock,         \* holder of the session lock
    \* what was written, whoever asks
    committed,    \* number of exchanges whose MULTI ran
    seqOf,        \* their session_seq
    clock,        \* floor of the sequence numbers of the current millisecond
    \* the processes
    circuit,      \* main's _redis_unavailable flag
    thr,          \* requests in main
    wrk,          \* archiver processes
    deleting,     \* delete_chat_session: "no", "pg" (row deleted), "done"
    failures      \* failures so far

pg    == <<pgSession, pgMsgs, pgState>>
redis == <<meta, msgs, pending, stream, delivered, lock>>
log   == <<committed, seqOf, clock>>
vars  == <<pg, redis, log, circuit, thr, wrk, deleting, failures>>

IdleThread == [pc |-> "idle", op |-> "read", snap |-> {}, pend |-> {},
               last |-> 0, expect |-> {}]
IdleWorker == [pc |-> "idle", batch |-> {}]

ThreadState == [pc : {"idle", "session", "messages", "pending", "fill", "hit", "lock",
                      "enter", "commit", "release"},
                op : {"append", "read", "open"},
                snap : SUBSET Exchanges, pend : SUBSET Exchanges,
                last : Nat, expect : SUBSET Exchanges]
WorkerState == [pc : {"idle", "fetch", "archive", "clean"}, batch : SUBSET Exchanges]

StoresOK == /\ pgSession \in BOOLEAN
            /\ pgMsgs \subseteq Exchanges
            /\ pgState \in [exchange : 0..MaxExchanges, archive_seq : Nat]
            /\ meta \in [cached : BOOLEAN, last : Nat]
            /\ pending \subseteq Exchanges
            /\ stream \subseteq Exchanges /\ delivered \subseteq stream
            /\ committed \in 0..MaxExchanges
            /\ seqOf \in [Exchanges -> Nat] /\ clock \in Nat
            /\ thr \in [Requests -> ThreadState]
            /\ wrk \in [Workers -> WorkerState]
            /\ deleting \in {"no", "pg", "done"}

TypeOK == /\ StoresOK
          /\ msgs \in Seq(Exchanges)
          /\ lock \in Requests \cup {Nobody}
          /\ circuit \in BOOLEAN
          /\ failures \in 0..MaxFailures

Done == 1..committed

\* The session has just been created, so it is in both stores.
Init ==
    /\ pgSession = TRUE /\ pgMsgs = {}
    /\ pgState = [exchange |-> 0, archive_seq |-> 0]
    /\ meta = [cached |-> TRUE, last |-> 0] /\ msgs = <<>>
    /\ pending = {} /\ stream = {} /\ delivered = {}
    /\ lock = Nobody
    /\ committed = 0 /\ seqOf = [e \in Exchanges |-> 0] /\ clock = Span
    /\ circuit = FALSE
    /\ thr = [t \in Requests |-> IdleThread]
    /\ wrk = [a \in Workers |-> IdleWorker]
    /\ deleting = "no" /\ failures = 0

-----------------------------------------------------------------------------
\* What adding a batch in order to S adds, an event id or a session_seq that is
\* there already being skipped: _merge_pending's by_event and by_seq, and the
\* unique indexes behind INSERT ... ON CONFLICT DO NOTHING.
AllNew(S, batch) == batch
Unseen(S, batch) ==
    {e \in batch : \A f \in S \cup {g \in batch : g < e} : seqOf[f] # seqOf[e]}

\* _merge_pending: PostgreSQL rows and pending messages, sorted by session_seq; there
\* is one such list.
BySeq(e, f) == seqOf[e] < seqOf[f] \/ (seqOf[e] = seqOf[f] /\ e < f)
Sorted(S) == {s \in SetToSeqs(S) : \A i, j \in DOMAIN s : i < j => BySeq(s[i], s[j])}
ConcatPending(snap, pend) == {s \o t : s \in Sorted(snap), t \in Sorted(pend)}
MergePending(snap, pend) == Sorted(snap \cup Unseen(snap, pend))

\* next_session_seq: past last_seq, and not below the millisecond's floor.
NextSeq(last, now) == IF last + 1 > now THEN last + 1 ELSE now

-----------------------------------------------------------------------------
Goto(t, label) == thr' = [thr EXCEPT ![t].pc = label]
Finish(t) == thr' = [thr EXCEPT ![t] = IdleThread]
CanFail == failures < MaxFailures
Fail == failures' = failures + 1

\* Every operation starts behind the circuit breaker and looks at the meta hash.
Begin(t, op) ==
    /\ thr[t].pc = "idle" /\ ~circuit
    /\ op = "append" => committed < MaxExchanges
    /\ thr' = [thr EXCEPT ![t] =
         [IdleThread EXCEPT
            !.op = op,
            !.expect = IF meta.cached THEN {} ELSE Done,
            !.pc = CASE meta.cached /\ op = "append" -> "lock"
                     [] meta.cached /\ op = "read"   -> "hit"
                     [] meta.cached /\ op = "open"   -> "idle"
                     [] ~meta.cached /\ op = "read"  -> "messages"
                     [] OTHER                        -> "session"]]
    /\ UNCHANGED <<pg, redis, log, circuit, wrk, deleting, failures>>

\* list_messages, warm: LRANGE in a second round trip.
ReadHit(t) ==
    /\ thr[t].pc = "hit"
    /\ Finish(t)
    /\ UNCHANGED <<pg, redis, log, circuit, wrk, deleting, failures>>

\* Cold load: the session row.  Without one append and open stop, and
\* list_messages returns the messages it has, uncached.
LoadSession(t) ==
    /\ thr[t].pc = "session"
    /\ IF ~pgSession THEN Finish(t)
       ELSE Goto(t, IF thr[t].op = "read" THEN "pending" ELSE "messages")
    /\ UNCHANGED <<pg, redis, log, circuit, wrk, deleting, failures>>

\* Cold load: the archived messages.
LoadMessages(t) ==
    /\ thr[t].pc = "messages"
    /\ thr' = [thr EXCEPT ![t].snap = pgMsgs,
                          ![t].pc = IF thr[t].op = "read" THEN "session" ELSE "pending"]
    /\ UNCHANGED <<pg, redis, log, circuit, wrk, deleting, failures>>

\* Cold load: HVALS of the Pending hash, after PostgreSQL was read.
LoadPending(t) ==
    /\ thr[t].pc = "pending"
    /\ thr' = [thr EXCEPT ![t].pend = pending, ![t].pc = "fill"]
    /\ UNCHANGED <<pg, redis, log, circuit, wrk, deleting, failures>>

\* Cold load: one MULTI replaces the list and the hash.
FillCache(t) ==
    /\ thr[t].pc = "fill"
    /\ LET merged == thr[t].snap \cup Unseen(thr[t].snap, thr[t].pend)
       IN  \E top \in {0} \cup {seqOf[e] : e \in merged} :
             /\ \A e \in merged : seqOf[e] <= top
             /\ meta' = [cached |-> TRUE, last |-> top]
    /\ msgs' \in MergePending(thr[t].snap, thr[t].pend)
    /\ IF thr[t].op = "append"
       THEN thr' = [thr EXCEPT ![t] = [IdleThread EXCEPT !.op = "append", !.pc = "lock"]]
       ELSE Finish(t)
    /\ UNCHANGED <<pg, pending, stream, delivered, lock, log, circuit, wrk, deleting, failures>>

-----------------------------------------------------------------------------
\* append_exchange: lock.acquire(), or two seconds of trying and a 503.
Acquire(t) ==
    /\ thr[t].pc = "lock"
    /\ IF lock = Nobody
       THEN lock' = t /\ Goto(t, "enter") /\ UNCHANGED circuit
       ELSE Finish(t) /\ circuit' = TRUE /\ UNCHANGED lock
    /\ UNCHANGED <<pg, meta, msgs, pending, stream, delivered, log, wrk, deleting, failures>>

\* _append_exchange_redis reads the hash again; if it went away, 503.
EnterLocked(t) ==
    /\ thr[t].pc = "enter"
    /\ IF meta.cached
       THEN thr' = [thr EXCEPT ![t].pc = "commit", ![t].last = meta.last] /\ UNCHANGED circuit
       ELSE Goto(t, "release") /\ circuit' = TRUE
    /\ UNCHANGED <<pg, redis, log, wrk, deleting, failures>>

\* The MULTI of _append_exchange_redis: list, hash, Pending payload and stream
\* reference in one transaction.
CommitUnreferenced(t, seq) ==
    /\ msgs' = Append(msgs, committed + 1)
    /\ meta' = [cached |-> TRUE, last |-> seq]
    /\ pending' = pending \cup {committed + 1}
    /\ UNCHANGED stream
CommitMulti(t, seq) ==
    /\ msgs' = Append(msgs, committed + 1)
    /\ meta' = [cached |-> TRUE, last |-> seq]
    /\ pending' = pending \cup {committed + 1}
    /\ stream' = stream \cup {committed + 1}

Commit(t) ==
    /\ thr[t].pc = "commit" /\ committed < MaxExchanges
    /\ \E tick \in Ticks :
         LET now == clock + tick * Span
             seq == NextSeq(thr[t].last, now)
         IN  /\ CommitMulti(t, seq) /\ clock' = now
             /\ seqOf' = [seqOf EXCEPT ![committed + 1] = seq]
    /\ committed' = committed + 1
    /\ Goto(t, "release")
    \* the reply may be lost: the client gets a 503 for a committed exchange
    /\ \/ UNCHANGED <<circuit, failures>>
       \/ CanFail /\ Fail /\ circuit' = TRUE
    /\ UNCHANGED <<pg, delivered, lock, wrk, deleting>>

\* The request was lost, or the bound on exchanges is reached: nothing is written.
CommitLost(t) ==
    /\ thr[t].pc = "commit"
    /\ committed = MaxExchanges \/ CanFail
    /\ failures' = IF CanFail THEN failures + 1 ELSE failures
    /\ circuit' = TRUE /\ Goto(t, "release")
    /\ UNCHANGED <<pg, redis, log, wrk, deleting>>

\* lock.release(): a lock that expired meanwhile is an error, and a 503.
Release(t) ==
    /\ thr[t].pc = "release"
    /\ Finish(t)
    /\ IF lock = t THEN lock' = Nobody /\ UNCHANGED circuit
                   ELSE circuit' = TRUE /\ UNCHANGED lock
    /\ UNCHANGED <<pg, meta, msgs, pending, stream, delivered, log, wrk, deleting, failures>>

LockExpires ==
    /\ lock # Nobody /\ CanFail /\ Fail
    /\ lock' = Nobody
    /\ UNCHANGED <<pg, meta, msgs, pending, stream, delivered, log, circuit, thr, wrk, deleting>>

\* ping() of the health supervisor closes the circuit again.
Ping ==
    /\ circuit /\ circuit' = FALSE
    /\ UNCHANGED <<pg, redis, log, thr, wrk, deleting, failures>>

\* The hash and the list have a TTL, so volatile-lru may evict either alone.
EvictMeta ==
    /\ meta.cached /\ CanFail /\ Fail
    /\ meta' = NoMeta
    /\ UNCHANGED <<pg, msgs, pending, stream, delivered, lock, log, circuit, thr, wrk, deleting>>
EvictMessages ==
    /\ msgs # <<>> /\ CanFail /\ Fail
    /\ msgs' = <<>>
    /\ UNCHANGED <<pg, meta, pending, stream, delivered, lock, log, circuit, thr, wrk, deleting>>

-----------------------------------------------------------------------------
\* delete_chat_session: PostgreSQL (rows cascade), then the cache keys.
DeleteRow ==
    /\ deleting = "no" /\ ~circuit
    /\ deleting' = "pg"
    /\ pgSession' = FALSE /\ pgMsgs' = {}
    /\ pgState' = [exchange |-> 0, archive_seq |-> 0]
    /\ UNCHANGED <<redis, log, circuit, thr, wrk, failures>>
DeleteKeys ==
    /\ deleting = "pg"
    /\ deleting' = "done"
    /\ meta' = NoMeta /\ msgs' = <<>> /\ pending' = {}
    /\ UNCHANGED <<pg, stream, delivered, lock, log, circuit, thr, wrk, failures>>
\* Redis fails in between, or the user's index has lost the session: keys stay.
DeleteKeysLost ==
    /\ deleting = "pg" /\ CanFail /\ Fail
    /\ deleting' = "done" /\ circuit' = TRUE
    /\ UNCHANGED <<pg, redis, log, thr, wrk>>

-----------------------------------------------------------------------------
\* XAUTOCLAIM of entries idle too long, whoever they were delivered to, and only
\* when there are none XREADGROUP of new ones.
Claim(a) ==
    /\ wrk[a].pc = "idle"
    /\ \E batch \in SUBSET delivered \ {{}} :
         wrk' = [wrk EXCEPT ![a] = [pc |-> "fetch", batch |-> batch]]
    /\ UNCHANGED <<pg, redis, log, circuit, thr, deleting, failures>>
ReadNew(a) ==
    /\ wrk[a].pc = "idle" /\ stream \ delivered # {}
    /\ wrk' = [wrk EXCEPT ![a] = [pc |-> "fetch", batch |-> stream \ delivered]]
    /\ delivered' = stream
    /\ UNCHANGED <<pg, meta, msgs, pending, stream, lock, log, circuit, thr, deleting, failures>>

\* _archive_entries: load the payloads; acknowledge and drop the references that
\* have none any more.
FetchKeepsDangling(a) ==
    /\ wrk[a].pc = "fetch"
    /\ LET valid == wrk[a].batch \cap pending
       IN  /\ UNCHANGED <<stream, delivered>>
           /\ wrk' = [wrk EXCEPT ![a] =
                IF valid = {} THEN IdleWorker ELSE [pc |-> "archive", batch |-> valid]]
    /\ UNCHANGED <<pg, meta, msgs, pending, lock, log, circuit, thr, deleting, failures>>
FetchPayloads(a) ==
    /\ wrk[a].pc = "fetch"
    /\ LET valid == wrk[a].batch \cap pending
           dropped == wrk[a].batch \ pending
       IN  /\ stream' = stream \ dropped /\ delivered' = delivered \ dropped
           /\ wrk' = [wrk EXCEPT ![a] =
                IF valid = {} THEN IdleWorker ELSE [pc |-> "archive", batch |-> valid]]
    /\ UNCHANGED <<pg, meta, msgs, pending, lock, log, circuit, thr, deleting, failures>>

\* archive_session_events, one transaction: the rows that are new, and the session
\* state of the newest exchange if it is newer than the row's archive_seq.
Newest(e, batch) == \A f \in batch : \/ seqOf[f] < seqOf[e]
                                      \/ (seqOf[f] = seqOf[e] /\ e <= f)
IsAlwaysNewer(e) == TRUE
IsNewer(e) == seqOf[e] > pgState.archive_seq

NeverMissing == FALSE
NoRow == ~pgSession

ArchiveEvents(a) ==
    /\ wrk[a].pc = "archive"
    /\ IF NoRow THEN UNCHANGED <<pgMsgs, pgState>>
       ELSE /\ pgMsgs' = pgMsgs \cup Unseen(pgMsgs, wrk[a].batch)
            /\ \E e \in wrk[a].batch :
                 /\ Newest(e, wrk[a].batch)
                 /\ pgState' = IF IsNewer(e)
                               THEN [exchange |-> e, archive_seq |-> seqOf[e]]
                               ELSE pgState
    /\ wrk' = [wrk EXCEPT ![a].pc = "clean"]
    /\ UNCHANGED <<pgSession, redis, log, circuit, thr, deleting, failures>>

\* One MULTI after the PostgreSQL commit: HDEL, XACK, XDEL.
Acknowledge(a) ==
    /\ wrk[a].pc = "clean"
    /\ pending' = pending \ wrk[a].batch
    /\ stream' = stream \ wrk[a].batch /\ delivered' = delivered \ wrk[a].batch
    /\ wrk' = [wrk EXCEPT ![a] = IdleWorker]
    /\ UNCHANGED <<pg, meta, msgs, lock, log, circuit, thr, deleting, failures>>

\* A crash, or an exception and its sleep(1): the entries stay delivered.
WorkerFails(a) ==
    /\ wrk[a].pc # "idle" /\ CanFail /\ Fail
    /\ wrk' = [wrk EXCEPT ![a] = IdleWorker]
    /\ UNCHANGED <<pg, redis, log, circuit, thr, deleting>>

-----------------------------------------------------------------------------
LoadStep(t) ==   \/ ReadHit(t) \/ LoadSession(t) \/ LoadMessages(t)
                 \/ LoadPending(t) \/ FillCache(t)
AppendStep(t) == \/ Acquire(t) \/ EnterLocked(t) \/ Commit(t) \/ CommitLost(t)
                 \/ Release(t)
WorkerStep(a) == \/ Claim(a) \/ ReadNew(a) \/ FetchPayloads(a)
                 \/ ArchiveEvents(a) \/ Acknowledge(a)

Next == \/ \E t \in Requests : \/ \E op \in {"append", "read", "open"} : Begin(t, op)
                               \/ LoadStep(t) \/ AppendStep(t)
        \/ \E a \in Workers : WorkerStep(a) \/ WorkerFails(a)
        \/ LockExpires \/ Ping \/ EvictMeta \/ EvictMessages
        \/ DeleteRow \/ DeleteKeys \/ DeleteKeysLost

Spec == Init /\ [][Next]_vars

\* The archivers keep running; nothing is assumed of the requests.
Fairness == \A a \in Workers : WF_vars(WorkerStep(a))
FairSpec == Spec /\ Fairness

-----------------------------------------------------------------------------
Collided(e) == \E f \in pgMsgs : f # e /\ seqOf[f] = seqOf[e]
Archived(e) == e \in pgMsgs \/ Collided(e)

\* A committed exchange of a live session whose number is its own is never in neither
\* store: it is in PostgreSQL, or Redis still has both its payload and the stream entry
\* that will bring an archiver to it, across lost replies, evictions, expired locks, and
\* archivers that crash, stall and process one entry twice.  An exchange whose number
\* another one took in PostgreSQL is exempt: the archiver drops it as a repetition, and
\* the code does not prevent that (NumbersUnique).
ExchangeKept ==
    pgSession =>
        \A e \in Done : e \in pgMsgs \/ e \in pending \cap stream \/ Collided(e)

\* Both stores together are the log of SessionLog: whatever is lost, repeated, evicted
\* or overtaken, an exchange waits in Redis until PostgreSQL has it, what PostgreSQL has
\* stays, and nothing comes back after the delete.
Log == INSTANCE SessionLog
         WITH size <- committed, waiting <- pending \cap stream,
              archived <- {e \in Done : Archived(e)}, live <- pgSession
ImplementsLog == Log!Spec

\* The archived summary and count are those of the newest archived exchange, even
\* when a stalled archiver writes an older batch last.
StateNotBehind ==
    /\ \A e \in pgMsgs : seqOf[e] <= pgState.archive_seq
    /\ pgState.exchange # 0 => seqOf[pgState.exchange] = pgState.archive_seq

\* A cold load never shows an exchange twice, though PostgreSQL and Pending both
\* have it between an archiver's commit and its acknowledgement.
NoDuplicates == \A i, j \in 1..Len(msgs) : msgs[i] = msgs[j] => i = j

\* The archiver does not bring rows of a deleted session back.
DeletedStaysDeleted == ~pgSession => pgMsgs = {} /\ pgState.exchange = 0

\* The archive stream drains: every entry is archived or dropped in the end.
StreamDrains == \A e \in Exchanges : e \in stream ~> e \notin stream

\* What a cold load is about to cache and return has every exchange committed
\* before it began ("a cache miss rebuilds from PG plus any still-pending exchange").
ColdLoadComplete ==
    \A t \in Requests :
        thr[t].pc = "fill" /\ pgSession =>
            \A e \in thr[t].expect : e \in thr[t].snap \cup thr[t].pend \/ Collided(e)

\* Two committed exchanges never have the same number.  The code does not see to it:
\* two appends may both have read the last number when the lock of the first expired,
\* and a cold load may write back one from before an append.  No run checks this
\* formula; TLC refutes it under MCSessionStore.cfg.
NumbersUnique == \A e, f \in Done : seqOf[e] = seqOf[f] => e = f
=============================================================================
