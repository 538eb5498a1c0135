------------------------- MODULE SessionStoreProofs -------------------------
(***************************************************************************)
(* Durability of the exchanges of a session, for any number of requests,   *)
(* archivers, exchanges and failures.                                      *)
(***************************************************************************)
EXTENDS SessionStore, FiniteSetTheorems, WellFoundedInduction, TLAPS

(* What every set of exchange numbers is about, and what an archiver about   *)
(* to acknowledge has achieved.                                              *)
OnlyCommitted == /\ pgState.exchange \in {0} \cup Done
                 /\ pgMsgs \subseteq Done /\ pending \subseteq Done /\ stream \subseteq Done
                 /\ \A a \in Workers : wrk[a].batch \subseteq Done

CleanArchived == \A a \in Workers : wrk[a].pc = "clean" /\ pgSession =>
                     \A e \in wrk[a].batch : Archived(e)

(* ExchangeKept is not inductive: that an acknowledgement loses nothing      *)
(* depends on what the archiver did before.                                  *)
IInv == /\ StoresOK /\ OnlyCommitted /\ CleanArchived
        /\ pgSession = (deleting = "no")
        /\ ExchangeKept /\ StateNotBehind /\ DeletedStaysDeleted

durable == <<pg, pending, stream, committed, seqOf, wrk, deleting>>
-----------------------------------------------------------------------------
LEMMA LeastNumber ==
  ASSUME NEW T \in SUBSET Nat, T # {}
  PROVE  \E m \in T : \A n \in T : m <= n
<1> DEFINE R == OpToRel(<, Nat)
<1>1. IsWellFoundedOn(R, Nat)
  BY NatLessThanWellFounded
<1>2. PICK m \in T : \A n \in T : ~ (<<n, m>> \in R)
  <2> HIDE DEF R
  <2> QED
    BY <1>1, WFMin
<1>3. \A n, k \in Nat : n < k => <<n, k>> \in R
  BY DEF OpToRel
<1> HIDE DEF R
<1>4. ASSUME NEW n \in T PROVE m <= n
  <2>1. ~ (n < m)
    BY <1>2, <1>3, Zenon
  <2>2. n \in Nat /\ m \in Nat
    OBVIOUS
  <2> QED
    BY <2>1, <2>2
<1> QED
  BY <1>4

(* A batch added to S leaves every member there, or another under its number. *)
LEMMA UnseenCovers ==
  ASSUME NEW S \in SUBSET Exchanges, NEW batch \in SUBSET Exchanges, NEW e \in batch,
         seqOf \in [Exchanges -> Nat]
  PROVE  \E f \in S \cup Unseen(S, batch) : seqOf[f] = seqOf[e]
<1> DEFINE T == {g \in batch : seqOf[g] = seqOf[e]}
<1>1. Exchanges \subseteq Nat
  BY StoreAssumption DEF Exchanges
<1>a. T \in SUBSET Nat /\ e \in T
  BY <1>1
<1>b. T # {}
  BY <1>a
<1>2. PICK m \in T : \A n \in T : m <= n
  BY <1>a, <1>b, LeastNumber
<1>3. CASE \E f \in S : seqOf[f] = seqOf[m]
  BY <1>3
<1>4. CASE ~ \E f \in S : seqOf[f] = seqOf[m]
  <2>1. \A g \in batch : g < m => seqOf[g] # seqOf[m]
    BY <1>1, <1>2
  <2>2. m \in Unseen(S, batch)
    BY <1>2, <1>4, <2>1 DEF Unseen
  <2> QED
    BY <2>2, <1>2
<1> QED
  BY <1>3, <1>4

(* A step that writes neither store's durable part keeps the invariant.      *)
LEMMA DurableUnchanged ==
  ASSUME IInv, StoresOK', UNCHANGED durable
  PROVE  IInv'
  BY DEF IInv, durable, pg, OnlyCommitted, CleanArchived, Archived, ExchangeKept,
         StateNotBehind, DeletedStaysDeleted, Collided, Done

LEMMA InitInv == Init => IInv
<1> SUFFICES ASSUME Init PROVE IInv
  OBVIOUS
<1>1. committed = 0 /\ 0 \in 0..MaxExchanges /\ Done = {}
  BY StoreAssumption DEF Init, Done
<1>2. thr \in [Requests -> ThreadState]
  BY DEF Init, IdleThread, ThreadState
<1>3. wrk \in [Workers -> WorkerState]
  BY DEF Init, IdleWorker, WorkerState
<1>4. StoresOK
  BY <1>1, <1>2, <1>3, StoreAssumption DEF Init, StoresOK
<1> QED
  BY <1>1, <1>4 DEF Init, IInv, OnlyCommitted, CleanArchived, IdleWorker, ExchangeKept,
     StateNotBehind, DeletedStaysDeleted
-----------------------------------------------------------------------------
(* Steps of a request that write nothing durable.                            *)
LEMMA RequestDurable ==
  ASSUME IInv, NEW t \in Requests,
         \/ \E op \in {"append", "read", "open"} : Begin(t, op)
         \/ LoadStep(t) \/ Acquire(t) \/ EnterLocked(t) \/ CommitLost(t) \/ Release(t)
  PROVE  UNCHANGED durable /\ StoresOK'
<1> USE DEF IInv
<1>0. /\ thr \in [Requests -> ThreadState] /\ thr[t] \in ThreadState
      /\ IdleThread \in ThreadState
      /\ Done \in SUBSET Exchanges
  BY StoreAssumption DEF StoresOK, ThreadState, IdleThread, Done, Exchanges
<1>1. ASSUME NEW op \in {"append", "read", "open"}, Begin(t, op)
      PROVE  UNCHANGED durable /\ StoresOK'
  <2> DEFINE label == CASE meta.cached /\ op = "append" -> "lock"
                        [] meta.cached /\ op = "read"   -> "hit"
                        [] meta.cached /\ op = "open"   -> "idle"
                        [] ~meta.cached /\ op = "read"  -> "messages"
                        [] OTHER                        -> "session"
             seen == IF meta.cached THEN {} ELSE Done
  <2>1. label \in {"lock", "hit", "idle", "messages", "session"}
    BY <1>1
  <2>2. seen \in SUBSET Exchanges
    BY <1>0
  <2>3. [IdleThread EXCEPT !.op = op, !.expect = seen, !.pc = label] \in ThreadState
    BY <2>1, <2>2 DEF IdleThread, ThreadState
  <2>4. thr' \in [Requests -> ThreadState]
    BY <1>0, <1>1, <2>3 DEF Begin
  <2> QED
    BY <1>1, <2>4 DEF Begin, durable, pg, redis, log, StoresOK
<1>2. ASSUME ReadHit(t) PROVE UNCHANGED durable /\ StoresOK'
  BY <1>0, <1>2 DEF ReadHit, Finish, durable, pg, redis, log, StoresOK
<1>3. ASSUME LoadSession(t) PROVE UNCHANGED durable /\ StoresOK'
  <2>1. thr' \in [Requests -> ThreadState]
    BY <1>0, <1>3 DEF LoadSession, Finish, Goto, ThreadState
  <2> QED
    BY <1>3, <2>1 DEF LoadSession, durable, pg, redis, log, StoresOK
<1>4. ASSUME LoadMessages(t) PROVE UNCHANGED durable /\ StoresOK'
  <2>1. thr' \in [Requests -> ThreadState]
    BY <1>0, <1>4 DEF LoadMessages, ThreadState, StoresOK
  <2> QED
    BY <1>4, <2>1 DEF LoadMessages, durable, pg, redis, log, StoresOK
<1>5. ASSUME LoadPending(t) PROVE UNCHANGED durable /\ StoresOK'
  <2>1. thr' \in [Requests -> ThreadState]
    BY <1>0, <1>5 DEF LoadPending, ThreadState, StoresOK
  <2> QED
    BY <1>5, <2>1 DEF LoadPending, durable, pg, redis, log, StoresOK
<1>6. ASSUME FillCache(t) PROVE UNCHANGED durable /\ StoresOK'
  <2>1. thr' \in [Requests -> ThreadState]
    <3>1. [IdleThread EXCEPT !.op = "append", !.pc = "lock"] \in ThreadState
      BY DEF IdleThread, ThreadState
    <3>2. \/ thr' = [thr EXCEPT ![t] = [IdleThread EXCEPT !.op = "append", !.pc = "lock"]]
          \/ thr' = [thr EXCEPT ![t] = IdleThread]
      BY <1>6 DEF FillCache, Finish
    <3> QED
      BY <1>0, <3>1, <3>2
  <2>2. meta' \in [cached : BOOLEAN, last : Nat]
    <3>1. PICK top \in {0} \cup {seqOf[e] : e \in thr[t].snap
                                    \cup Unseen(thr[t].snap, thr[t].pend)} :
            meta' = [cached |-> TRUE, last |-> top]
      BY <1>6 DEF FillCache
    <3>2. thr[t].snap \cup Unseen(thr[t].snap, thr[t].pend) \subseteq Exchanges
      BY <1>0 DEF Unseen, ThreadState
    <3>3. top \in Nat
      BY <3>1, <3>2 DEF StoresOK
    <3> QED
      BY <3>1, <3>3
  <2> QED
    BY <1>6, <2>1, <2>2 DEF FillCache, durable, pg, log, StoresOK
<1>7. ASSUME Acquire(t) PROVE UNCHANGED durable /\ StoresOK'
  <2>1. thr' \in [Requests -> ThreadState]
    BY <1>0, <1>7 DEF Acquire, Finish, Goto, ThreadState
  <2> QED
    BY <1>7, <2>1 DEF Acquire, durable, pg, log, StoresOK
<1>8. ASSUME EnterLocked(t) PROVE UNCHANGED durable /\ StoresOK'
  <2>1. thr' \in [Requests -> ThreadState]
    BY <1>0, <1>8 DEF EnterLocked, Goto, ThreadState, StoresOK
  <2> QED
    BY <1>8, <2>1 DEF EnterLocked, durable, pg, redis, log, StoresOK
<1>9. ASSUME CommitLost(t) PROVE UNCHANGED durable /\ StoresOK'
  <2>1. thr' \in [Requests -> ThreadState]
    BY <1>0, <1>9 DEF CommitLost, Goto, ThreadState
  <2> QED
    BY <1>9, <2>1 DEF CommitLost, durable, pg, redis, log, StoresOK
<1>10. ASSUME Release(t) PROVE UNCHANGED durable /\ StoresOK'
  <2>1. thr' \in [Requests -> ThreadState]
    BY <1>0, <1>10 DEF Release, Finish
  <2> QED
    BY <1>10, <2>1 DEF Release, durable, pg, log, StoresOK
<1> QED
  BY <1>1, <1>2, <1>3, <1>4, <1>5, <1>6, <1>7, <1>8, <1>9, <1>10 DEF LoadStep

(* The MULTI: payload and stream reference appear together.                  *)
LEMMA CommitInv ==
  ASSUME IInv, NEW t \in Requests, Commit(t)
  PROVE  IInv'
<1> USE DEF IInv
<1> DEFINE e == committed + 1
<1>1. PICK seq, now : /\ CommitMulti(t, seq) /\ clock' = now
                      /\ seqOf' = [seqOf EXCEPT ![e] = seq]
                      /\ \E tick \in Ticks : /\ now = clock + tick * Span
                                             /\ seq = NextSeq(thr[t].last, now)
  BY DEF Commit
<1>2. now \in Nat /\ seq \in Nat
  BY <1>1, StoreAssumption DEF StoresOK, ThreadState, NextSeq
<1>3. /\ e \in Exchanges /\ e \notin Done /\ committed' = e
      /\ Done' = Done \cup {e} /\ Done' \subseteq Exchanges
  BY StoreAssumption DEF Commit, StoresOK, Exchanges, Done
<1>4. \A f \in Done : seqOf'[f] = seqOf[f]
  BY <1>1, <1>3 DEF StoresOK
<1>5. pending' = pending \cup {e} /\ stream' = stream \cup {e}
  BY <1>1 DEF CommitMulti
<1>6. UNCHANGED <<pg, wrk, deleting, delivered>>
  BY DEF Commit
<1>7. StoresOK'
  <2>1. thr' \in [Requests -> ThreadState]
    BY DEF Commit, Goto, StoresOK, ThreadState
  <2>2. seqOf' \in [Exchanges -> Nat] /\ clock' \in Nat
    BY <1>1, <1>2, <1>3 DEF StoresOK
  <2>3. meta' \in [cached : BOOLEAN, last : Nat]
    BY <1>1, <1>2 DEF CommitMulti
  <2>4. committed' \in 0..MaxExchanges
    BY <1>3, StoreAssumption DEF Exchanges
  <2> QED
    BY <1>3, <1>5, <1>6, <2>1, <2>2, <2>3, <2>4 DEF StoresOK, pg
<1>8. OnlyCommitted'
  BY <1>3, <1>5, <1>6 DEF OnlyCommitted, pg
<1>9. \A f \in Done : Archived(f) => Archived(f)'
  BY <1>4, <1>6 DEF Archived, Collided, OnlyCommitted, pg
<1>10. CleanArchived'
  BY <1>6, <1>9 DEF CleanArchived, OnlyCommitted, pg
<1>11. ExchangeKept'
  BY <1>3, <1>5, <1>6, <1>9 DEF ExchangeKept, Archived, pg
<1>12. StateNotBehind'
  <2>1. \A f \in pgMsgs : seqOf'[f] = seqOf[f]
    BY <1>4 DEF OnlyCommitted
  <2>2. pgState.exchange # 0 => seqOf'[pgState.exchange] = seqOf[pgState.exchange]
    BY <1>4 DEF OnlyCommitted
  <2> QED
    BY <1>6, <2>1, <2>2 DEF StateNotBehind, pg
<1> QED
  BY <1>6, <1>7, <1>8, <1>10, <1>11, <1>12 DEF DeletedStaysDeleted, pg

-----------------------------------------------------------------------------
(* Deleting the session, in either of its two steps, and however it fails.   *)
LEMMA DeleteInv ==
  ASSUME IInv, DeleteRow \/ DeleteKeys \/ DeleteKeysLost
  PROVE  IInv'
<1> USE DEF IInv
<1>1. CASE DeleteRow
  <2>1. /\ pgSession' = FALSE /\ deleting' = "pg" /\ pgMsgs' = {}
        /\ pgState' = [exchange |-> 0, archive_seq |-> 0]
        /\ UNCHANGED <<redis, log, thr, wrk>>
    BY <1>1 DEF DeleteRow
  <2>2. pgState' \in [exchange : 0..MaxExchanges, archive_seq : Nat]
    BY <2>1, StoreAssumption
  <2>3. StoresOK'
    BY <2>1, <2>2 DEF StoresOK, redis, log
  <2> QED
    BY <2>1, <2>3 DEF redis, log, OnlyCommitted, CleanArchived, ExchangeKept,
       StateNotBehind, DeletedStaysDeleted, Done
<1>2. CASE DeleteKeys
  <2>1. /\ deleting = "pg" /\ deleting' = "done" /\ pending' = {}
        /\ meta' = [cached |-> FALSE, last |-> 0]
        /\ UNCHANGED <<pg, stream, delivered, log, thr, wrk>>
    BY <1>2 DEF DeleteKeys, NoMeta
  <2>2. StoresOK'
    BY <2>1 DEF StoresOK, pg, log
  <2> QED
    BY <2>1, <2>2 DEF pg, log, OnlyCommitted, CleanArchived, ExchangeKept,
       StateNotBehind, DeletedStaysDeleted, Done
<1>3. CASE DeleteKeysLost
  <2>1. /\ deleting = "pg" /\ deleting' = "done"
        /\ UNCHANGED <<pg, redis, log, thr, wrk>>
    BY <1>3 DEF DeleteKeysLost
  <2>2. StoresOK'
    BY <2>1 DEF StoresOK, pg, redis, log
  <2> QED
    BY <2>1, <2>2 DEF pg, redis, log, OnlyCommitted, CleanArchived, ExchangeKept,
       StateNotBehind, DeletedStaysDeleted, Done
<1> QED
  BY <1>1, <1>2, <1>3

(* Steps of the environment that touch nothing durable.                      *)
LEMMA EnvironmentInv ==
  ASSUME IInv, LockExpires \/ Ping \/ EvictMeta \/ EvictMessages
  PROVE  IInv'
<1>1. UNCHANGED durable /\ UNCHANGED <<delivered, clock, thr>>
  BY DEF LockExpires, Ping, EvictMeta, EvictMessages, durable, pg, redis, log
<1>2. meta' \in [cached : BOOLEAN, last : Nat]
  <2>1. meta' = meta \/ meta' = [cached |-> FALSE, last |-> 0]
    BY DEF LockExpires, Ping, EvictMeta, EvictMessages, redis, NoMeta
  <2>2. meta \in [cached : BOOLEAN, last : Nat]
    BY DEF IInv, StoresOK
  <2>3. [cached |-> FALSE, last |-> 0] \in [cached : BOOLEAN, last : Nat]
    OBVIOUS
  <2> QED
    BY <2>1, <2>2, <2>3
<1>3. StoresOK'
  BY <1>1, <1>2 DEF IInv, StoresOK, durable, pg
<1> QED
  BY <1>1, <1>3, DurableUnchanged
-----------------------------------------------------------------------------
(* What an archiver writes into its own state is made of committed exchanges. *)
LEMMA WorkerMoves ==
  ASSUME IInv, NEW a \in Workers, NEW st \in WorkerState, st.batch \subseteq Done,
         wrk' = [wrk EXCEPT ![a] = st], UNCHANGED committed
  PROVE  /\ wrk' \in [Workers -> WorkerState]
         /\ \A b \in Workers : wrk'[b].batch \subseteq Done'
  BY DEF IInv, StoresOK, OnlyCommitted, Done

(* Taking entries from the stream writes nothing but the group's lists.      *)
LEMMA TakeInv ==
  ASSUME IInv, NEW a \in Workers, Claim(a) \/ ReadNew(a) \/ WorkerFails(a)
  PROVE  IInv'
<1> USE DEF IInv
<1>1. PICK st \in WorkerState : /\ wrk' = [wrk EXCEPT ![a] = st]
                                /\ st.batch \subseteq Done /\ st.pc # "clean"
  <2>1. CASE Claim(a)
    <3>1. PICK batch \in SUBSET delivered :
             wrk' = [wrk EXCEPT ![a] = [pc |-> "fetch", batch |-> batch]]
      BY <2>1 DEF Claim
    <3> DEFINE st == [pc |-> "fetch", batch |-> batch]
    <3>2. st \in WorkerState /\ st.batch \subseteq Done /\ st.pc # "clean"
      BY DEF WorkerState, StoresOK, OnlyCommitted
    <3> QED
      BY <3>1, <3>2
  <2>2. CASE ReadNew(a)
    <3> DEFINE st == [pc |-> "fetch", batch |-> stream \ delivered]
    <3>1. st \in WorkerState /\ st.batch \subseteq Done /\ st.pc # "clean"
      BY DEF WorkerState, StoresOK, OnlyCommitted
    <3>2. wrk' = [wrk EXCEPT ![a] = st]
      BY <2>2 DEF ReadNew
    <3> QED
      BY <3>1, <3>2
  <2>3. CASE WorkerFails(a)
    <3>1. /\ IdleWorker \in WorkerState /\ IdleWorker.batch \subseteq Done
          /\ IdleWorker.pc # "clean"
      BY DEF IdleWorker, WorkerState
    <3>2. wrk' = [wrk EXCEPT ![a] = IdleWorker]
      BY <2>3 DEF WorkerFails
    <3> QED
      BY <3>1, <3>2
  <2> QED
    BY <2>1, <2>2, <2>3
<1>2. UNCHANGED <<pg, meta, pending, stream, log, thr, deleting>>
  BY DEF Claim, ReadNew, WorkerFails, redis
<1>3. delivered' \subseteq stream'
  BY DEF Claim, ReadNew, WorkerFails, redis, StoresOK
<1>4. StoresOK' /\ OnlyCommitted'
  BY <1>1, <1>2, <1>3, WorkerMoves DEF StoresOK, OnlyCommitted, pg, log, Done
<1>5. CleanArchived'
  BY <1>1, <1>2 DEF CleanArchived, StoresOK, Archived, Collided, pg, log
<1> QED
  BY <1>2, <1>4, <1>5
  DEF pg, log, ExchangeKept, StateNotBehind, DeletedStaysDeleted, Collided, Done

(* A reference without payload is dropped: its exchange was archived before, *)
(* or its session was deleted.                                               *)
LEMMA FetchInv ==
  ASSUME IInv, NEW a \in Workers, FetchPayloads(a)
  PROVE  IInv'
<1> USE DEF IInv
<1> DEFINE valid == wrk[a].batch \cap pending
           dropped == wrk[a].batch \ pending
<1>1. PICK st \in WorkerState : /\ wrk' = [wrk EXCEPT ![a] = st]
                                /\ st.batch \subseteq Done /\ st.pc # "clean"
  <2>1. [pc |-> "archive", batch |-> valid] \in WorkerState
    BY DEF WorkerState, StoresOK
  <2>2. IdleWorker \in WorkerState
    BY DEF WorkerState, IdleWorker
  <2> QED
    BY <2>1, <2>2 DEF FetchPayloads, IdleWorker, OnlyCommitted
<1>2. /\ UNCHANGED <<pg, meta, pending, log, thr, deleting>>
      /\ stream' = stream \ dropped /\ delivered' = delivered \ dropped
  BY DEF FetchPayloads
<1>3. StoresOK' /\ OnlyCommitted'
  BY <1>1, <1>2, WorkerMoves DEF StoresOK, OnlyCommitted, pg, log, Done
<1>4. CleanArchived'
  BY <1>1, <1>2 DEF CleanArchived, StoresOK, Archived, Collided, pg, log
<1>5. ExchangeKept'
  BY <1>2 DEF ExchangeKept, Collided, Done, pg, log
<1> QED
  BY <1>2, <1>3, <1>4, <1>5 DEF pg, log, StateNotBehind, DeletedStaysDeleted

(* The PostgreSQL transaction: afterwards the whole batch is archived.       *)
LEMMA ArchiveInv ==
  ASSUME IInv, NEW a \in Workers, ArchiveEvents(a)
  PROVE  IInv'
<1> USE DEF IInv
<1> DEFINE batch == wrk[a].batch
<1>1. /\ UNCHANGED <<pgSession, redis, log, thr, deleting>>
      /\ wrk' = [wrk EXCEPT ![a].pc = "clean"]
  BY DEF ArchiveEvents
<1>2. batch \in SUBSET Exchanges /\ batch \subseteq Done /\ Exchanges \subseteq Nat
  BY StoreAssumption DEF StoresOK, WorkerState, OnlyCommitted, Exchanges
<1>3. /\ wrk' \in [Workers -> WorkerState]
      /\ \A b \in Workers : wrk'[b].batch = wrk[b].batch
      /\ \A b \in Workers : b # a => wrk'[b].pc = wrk[b].pc
  BY <1>1 DEF StoresOK, WorkerState
<1>4. CASE ~pgSession
  <2>1. UNCHANGED <<pgMsgs, pgState>>
    BY <1>4 DEF ArchiveEvents, NoRow
  <2> QED
    BY <1>1, <1>3, <1>4, <2>1
    DEF StoresOK, OnlyCommitted, CleanArchived, ExchangeKept, StateNotBehind,
        DeletedStaysDeleted, Done, redis, log
<1>5. CASE pgSession
  <2>1. pgMsgs' = pgMsgs \cup Unseen(pgMsgs, batch)
    BY <1>5 DEF ArchiveEvents, NoRow
  <2>2. PICK e \in batch : /\ Newest(e, batch)
                           /\ pgState' = IF IsNewer(e)
                                         THEN [exchange |-> e, archive_seq |-> seqOf[e]]
                                         ELSE pgState
    BY <1>5 DEF ArchiveEvents, NoRow
  <2>3. Unseen(pgMsgs, batch) \subseteq batch
    BY DEF Unseen
  <2>4. pgState' \in [exchange : 0..MaxExchanges, archive_seq : Nat]
    BY <1>2, <2>2, StoreAssumption DEF StoresOK, Exchanges
  <2>5. StoresOK'
    BY <1>1, <1>2, <1>3, <2>1, <2>3, <2>4 DEF StoresOK, redis, log
  <2>6. OnlyCommitted'
    BY <1>1, <1>2, <1>3, <2>1, <2>2, <2>3 DEF OnlyCommitted, redis, log, Done
  <2>7. \A f \in Done : Archived(f) => Archived(f)'
    BY <1>1, <2>1 DEF Archived, Collided, log
  <2>8. \A f \in batch : Archived(f)'
    <3> SUFFICES ASSUME NEW f \in batch PROVE Archived(f)'
      OBVIOUS
    <3>a. pgMsgs \in SUBSET Exchanges /\ seqOf \in [Exchanges -> Nat]
      BY DEF StoresOK
    <3>b. \E g \in pgMsgs \cup Unseen(pgMsgs, batch) : seqOf[g] = seqOf[f]
      <4> HIDE DEF batch
      <4> QED
        BY <3>a, <1>2, UnseenCovers
    <3>1. PICK g \in pgMsgs \cup Unseen(pgMsgs, batch) : seqOf[g] = seqOf[f]
      BY <3>b
    <3> QED
      BY <1>1, <2>1, <3>1 DEF Archived, Collided, log
  <2>9. CleanArchived'
    <3> SUFFICES ASSUME NEW b \in Workers, (wrk[b].pc = "clean")', NEW f \in wrk[b].batch'
                 PROVE  Archived(f)'
      BY DEF CleanArchived
    <3>1. CASE b = a
      BY <1>3, <2>8, <3>1
    <3>2. CASE b # a
      BY <1>3, <1>5, <2>7, <3>2 DEF CleanArchived, OnlyCommitted
    <3> QED
      BY <3>1, <3>2
  <2>10. ExchangeKept'
    BY <1>1, <1>5, <2>7 DEF ExchangeKept, Archived, redis, log, Done
  <2>11. StateNotBehind'
    <3>1. seqOf \in [Exchanges -> Nat] /\ pgState.archive_seq \in Nat
      BY DEF StoresOK
    <3>0. \A f \in batch : seqOf[f] \in Nat
      BY <1>2, <3>1
    <3>2. \A f \in batch : seqOf[f] <= seqOf[e]
      <4> HIDE DEF batch
      <4> QED
        BY <2>2, <3>0 DEF Newest
    <3>3. \A f \in pgMsgs : seqOf[f] \in Nat /\ seqOf[f] <= pgState.archive_seq
      BY <1>2, <3>1 DEF StateNotBehind, StoresOK
    <3>4. CASE IsNewer(e)
      <4>1. pgState' = [exchange |-> e, archive_seq |-> seqOf[e]]
            /\ seqOf[e] > pgState.archive_seq /\ seqOf[e] \in Nat
        BY <2>2, <3>0, <3>4 DEF IsNewer
      <4>2. \A f \in pgMsgs' : seqOf[f] <= seqOf[e]
        <5> HIDE DEF batch
        <5>1. \A f \in pgMsgs : seqOf[f] <= seqOf[e]
          BY <3>1, <3>3, <4>1
        <5> QED
          BY <2>1, <2>3, <3>2, <5>1
      <4>3. pgState'.archive_seq = seqOf[e] /\ pgState'.exchange = e /\ seqOf' = seqOf
        BY <1>1, <4>1 DEF log
      <4> QED
        BY <4>2, <4>3 DEF StateNotBehind
    <3>5. CASE ~IsNewer(e)
      <4>1. pgState' = pgState /\ seqOf[e] <= pgState.archive_seq /\ seqOf[e] \in Nat
        <5> HIDE DEF batch
        <5> QED
          BY <2>2, <3>0, <3>1, <3>5 DEF IsNewer
      <4>2. \A f \in batch : seqOf[f] <= pgState.archive_seq
        <5> HIDE DEF batch
        <5> QED
          BY <3>0, <3>1, <3>2, <4>1
      <4>3. \A f \in pgMsgs' : seqOf[f] <= pgState.archive_seq
        BY <2>1, <2>3, <3>3, <4>2
      <4>4. seqOf' = seqOf
        BY <1>1 DEF log
      <4> QED
        BY <4>1, <4>3, <4>4 DEF StateNotBehind
    <3> QED
      BY <3>4, <3>5
  <2> QED
    BY <1>1, <1>5, <2>5, <2>6, <2>9, <2>10, <2>11 DEF DeletedStaysDeleted
<1> QED
  BY <1>4, <1>5 DEF StoresOK

(* The acknowledgement removes only what PostgreSQL has.                     *)
LEMMA AcknowledgeInv ==
  ASSUME IInv, NEW a \in Workers, Acknowledge(a)
  PROVE  IInv'
<1> USE DEF IInv
<1>1. /\ wrk' = [wrk EXCEPT ![a] = IdleWorker] /\ wrk[a].pc = "clean"
      /\ UNCHANGED <<pg, meta, log, thr, deleting>>
      /\ pending' = pending \ wrk[a].batch
      /\ stream' = stream \ wrk[a].batch /\ delivered' = delivered \ wrk[a].batch
  BY DEF Acknowledge
<1>2. IdleWorker \in WorkerState /\ IdleWorker.batch = {} /\ IdleWorker.pc # "clean"
  BY DEF WorkerState, IdleWorker
<1>3. StoresOK' /\ OnlyCommitted'
  BY <1>1, <1>2, WorkerMoves DEF StoresOK, OnlyCommitted, pg, log, Done
<1>4. CleanArchived'
  BY <1>1, <1>2 DEF CleanArchived, StoresOK, Archived, Collided, pg, log
<1>5. ExchangeKept'
  BY <1>1 DEF ExchangeKept, CleanArchived, Archived, Collided, Done, pg, log
<1> QED
  BY <1>1, <1>3, <1>4, <1>5 DEF pg, log, StateNotBehind, DeletedStaysDeleted

LEMMA NextInv == IInv /\ [Next]_vars => IInv'
<1> SUFFICES ASSUME IInv, [Next]_vars PROVE IInv'
  OBVIOUS
<1>1. ASSUME NEW t \in Requests, \/ \E op \in {"append", "read", "open"} : Begin(t, op)
                                 \/ LoadStep(t) \/ AppendStep(t)
      PROVE  IInv'
  BY <1>1, RequestDurable, DurableUnchanged, CommitInv DEF AppendStep
<1>2. ASSUME NEW a \in Workers, WorkerStep(a) \/ WorkerFails(a)
      PROVE  IInv'
  BY <1>2, TakeInv, FetchInv, ArchiveInv, AcknowledgeInv DEF WorkerStep
<1>3. CASE UNCHANGED vars
  <2>1. StoresOK' /\ UNCHANGED durable
    BY <1>3 DEF vars, IInv, StoresOK, durable, pg, redis, log
  <2> QED
    BY <2>1, DurableUnchanged
<1> QED
  BY <1>1, <1>2, <1>3, DeleteInv, EnvironmentInv DEF Next

(* The strengthened invariant of the two stores.                             *)
THEOREM StoreInvariant == Spec => []IInv
<1> QED
  BY InitInv, NextInv, PTL DEF Spec

(* No committed exchange of a live session is ever in neither store, for any *)
(* number of requests, archivers, exchanges, crashes and evictions.          *)
THEOREM StoreKeepsExchanges == Spec => []ExchangeKept
<1>1. IInv => ExchangeKept
  BY DEF IInv
<1> QED
  BY <1>1, StoreInvariant, PTL

(* The archived session state is that of the newest archived exchange,       *)
(* however batches are delayed, repeated and overtaken.                      *)
THEOREM StoreStateNotBehind == Spec => []StateNotBehind
<1>1. IInv => StateNotBehind
  BY DEF IInv
<1> QED
  BY <1>1, StoreInvariant, PTL

(* A deleted session gets no rows back from archivers that hold its events.  *)
THEOREM StoreDeletedStaysDeleted == Spec => []DeletedStaysDeleted
<1>1. IInv => DeletedStaysDeleted
  BY DEF IInv
<1> QED
  BY <1>1, StoreInvariant, PTL
-----------------------------------------------------------------------------
(* The cached list.  A request holds only committed exchanges, so an append  *)
(* adds one that no list has yet, and a merge is in order and so injective.  *)
HoldsCommitted == \A t \in Requests : thr[t].snap \cup thr[t].pend \subseteq Done
CacheInv == /\ msgs \in Seq(Done) /\ NoDuplicates
            /\ HoldsCommitted
ListInv == IInv /\ CacheInv

(* A sorted list of committed exchanges has each of them once.               *)
LEMMA SortedOnce ==
  ASSUME NEW S \in SUBSET Done, NEW s \in Sorted(S), committed \in Nat
  PROVE  s \in Seq(S) /\ \A i, j \in 1..Len(s) : s[i] = s[j] => i = j
<1>1. IsFiniteSet(Done)
  BY FS_Interval DEF Done
<1>2. Cardinality(S) \in Nat
  BY <1>1, FS_Subset, FS_CardinalityType
<1>3. /\ s \in [1..Cardinality(S) -> S]
      /\ \A i, j \in 1..Cardinality(S) : i # j => s[i] # s[j]
  BY DEF Sorted, SetToSeqs
<1> QED
  BY <1>2, <1>3

(* Only an append and a merge write the list; the rest of its life is loss.  *)
LEMMA CacheKept ==
  ASSUME CacheInv, Done \subseteq Done', msgs' = msgs \/ msgs' = <<>>,
         \A t \in Requests : thr'[t].snap \cup thr'[t].pend \subseteq Done'
  PROVE  CacheInv'
<1>1. \A S, T : S \subseteq T => Seq(S) \subseteq Seq(T)
  OBVIOUS
<1>2. msgs \in Seq(Done') /\ <<>> \in Seq(Done')
  BY <1>1 DEF CacheInv
<1>3. NoDuplicates'
  <2>1. CASE msgs' = msgs
    BY <2>1 DEF CacheInv, NoDuplicates
  <2>2. CASE msgs' = <<>>
    BY <2>2 DEF NoDuplicates
  <2> QED
    BY <2>1, <2>2
<1> QED
  BY <1>2, <1>3 DEF CacheInv, HoldsCommitted

LEMMA InitCache == Init => CacheInv
<1> SUFFICES ASSUME Init PROVE CacheInv
  OBVIOUS
<1>1. msgs = <<>> /\ \A t \in Requests : thr[t] = IdleThread
  BY DEF Init
<1> QED
  BY <1>1 DEF CacheInv, NoDuplicates, HoldsCommitted, IdleThread

LEMMA FillCacheKeeps ==
  ASSUME ListInv, NEW t \in Requests, FillCache(t)
  PROVE  CacheInv'
<1> DEFINE merged == thr[t].snap \cup Unseen(thr[t].snap, thr[t].pend)
<1>1. merged \subseteq Done
  BY DEF ListInv, CacheInv, HoldsCommitted, Unseen
<1>2. msgs' \in Sorted(merged) /\ committed' = committed /\ committed \in Nat
  BY DEF FillCache, MergePending, log, ListInv, IInv, StoresOK
<1> HIDE DEF merged
<1>3. msgs' \in Seq(merged) /\ \A i, j \in 1..Len(msgs') : msgs'[i] = msgs'[j] => i = j
  BY <1>1, <1>2, SortedOnce
<1>4. msgs' \in Seq(Done')
  <2>1. merged \subseteq Done'
    BY <1>1, <1>2 DEF Done
  <2>2. \A S, T : S \subseteq T => Seq(S) \subseteq Seq(T)
    OBVIOUS
  <2> QED
    BY <1>3, <2>1, <2>2
<1>5. NoDuplicates'
  BY <1>3 DEF NoDuplicates
<1>6. HoldsCommitted'
  <2>1. \/ thr' = [thr EXCEPT ![t] = [IdleThread EXCEPT !.op = "append", !.pc = "lock"]]
        \/ thr' = [thr EXCEPT ![t] = IdleThread]
    BY DEF FillCache, Finish
  <2>2. thr \in [Requests -> ThreadState]
    BY DEF ListInv, IInv, StoresOK
  <2>3. PICK st : thr' = [thr EXCEPT ![t] = st] /\ st.snap = {} /\ st.pend = {}
    <3> DEFINE retry == [IdleThread EXCEPT !.op = "append", !.pc = "lock"]
    <3>1. /\ retry.snap = {} /\ retry.pend = {}
          /\ IdleThread.snap = {} /\ IdleThread.pend = {}
      BY DEF IdleThread
    <3>2. thr' = [thr EXCEPT ![t] = retry] \/ thr' = [thr EXCEPT ![t] = IdleThread]
      BY <2>1
    <3> HIDE DEF retry
    <3> QED
      BY <3>1, <3>2
  <2>4. \A q \in Requests : thr[q].snap \cup thr[q].pend \subseteq Done
    BY DEF ListInv, CacheInv, HoldsCommitted
  <2>5. \A q \in Requests : thr'[q].snap \cup thr'[q].pend \subseteq Done
    BY <2>2, <2>3, <2>4
  <2> QED
    BY <1>2, <2>5 DEF HoldsCommitted, Done
<1> QED
  BY <1>4, <1>5, <1>6 DEF CacheInv

LEMMA CommitKeeps ==
  ASSUME ListInv, NEW t \in Requests, Commit(t)
  PROVE  CacheInv'
<1>1. /\ msgs' = Append(msgs, committed + 1) /\ committed' = committed + 1
      /\ committed \in Nat /\ msgs \in Seq(Done)
  BY DEF Commit, CommitMulti, ListInv, CacheInv, IInv, StoresOK
<1>2. Done' = Done \cup {committed + 1} /\ committed + 1 \notin Done
  BY <1>1 DEF Done
<1>3. msgs' \in Seq(Done')
  BY <1>1, <1>2
<1>4. NoDuplicates'
  <2>1. /\ Len(msgs') = Len(msgs) + 1 /\ msgs'[Len(msgs) + 1] = committed + 1
        /\ \A i \in 1..Len(msgs) : msgs'[i] = msgs[i] /\ msgs[i] # committed + 1
        /\ Len(msgs) \in Nat
    BY <1>1, <1>2
  <2>2. \A i, j \in 1..Len(msgs) : msgs[i] = msgs[j] => i = j
    BY DEF ListInv, CacheInv, NoDuplicates
  <2>3. ASSUME NEW i \in 1..Len(msgs'), NEW j \in 1..Len(msgs'), msgs'[i] = msgs'[j]
        PROVE  i = j
    <3>1. i \in 1..Len(msgs) \/ i = Len(msgs) + 1
      BY <2>1
    <3>2. j \in 1..Len(msgs) \/ j = Len(msgs) + 1
      BY <2>1
    <3> QED
      BY <2>1, <2>2, <2>3, <3>1, <3>2
  <2> QED
    BY <2>3 DEF NoDuplicates
<1>5. HoldsCommitted'
  <2>1. thr' = [thr EXCEPT ![t].pc = "release"] /\ thr \in [Requests -> ThreadState]
    BY DEF Commit, Goto, ListInv, IInv, StoresOK
  <2>2. \A q \in Requests : thr'[q].snap = thr[q].snap /\ thr'[q].pend = thr[q].pend
    BY <2>1 DEF ThreadState
  <2> QED
    BY <1>2, <2>2 DEF HoldsCommitted, ListInv, CacheInv
<1> QED
  BY <1>3, <1>4, <1>5 DEF CacheInv

LEMMA RequestKeeps ==
  ASSUME ListInv, NEW t \in Requests,
         \/ \E op \in {"append", "read", "open"} : Begin(t, op)
         \/ LoadStep(t) \/ AppendStep(t)
  PROVE  CacheInv'
<1>1. /\ thr \in [Requests -> ThreadState] /\ HoldsCommitted
      /\ pgMsgs \subseteq Done /\ pending \subseteq Done
  BY DEF ListInv, IInv, StoresOK, CacheInv, OnlyCommitted
<1>2. CASE FillCache(t)
  BY <1>2, FillCacheKeeps
<1>3. CASE Commit(t)
  BY <1>3, CommitKeeps
<1> DEFINE Holds(q) == thr'[q].snap \cup thr'[q].pend \subseteq Done
<1>4. ASSUME msgs' = msgs, committed' = committed, \A q \in Requests : Holds(q)
      PROVE  CacheInv'
  BY <1>4, CacheKept DEF ListInv, Done
<1>5. ASSUME NEW st, thr' = [thr EXCEPT ![t] = st], st.snap \subseteq Done, st.pend \subseteq Done
      PROVE  \A q \in Requests : Holds(q)
  BY <1>1, <1>5 DEF HoldsCommitted
<1>6. ASSUME NEW label, Goto(t, label) PROVE \A q \in Requests : Holds(q)
  BY <1>1, <1>6 DEF Goto, HoldsCommitted, ThreadState
<1>7. ASSUME Finish(t) PROVE \A q \in Requests : Holds(q)
  <2>1. thr' = [thr EXCEPT ![t] = IdleThread] /\ IdleThread.snap = {} /\ IdleThread.pend = {}
    BY <1>7 DEF Finish, IdleThread
  <2> QED
    BY <2>1, <1>5
<1>8. ASSUME NEW op \in {"append", "read", "open"}, Begin(t, op) PROVE CacheInv'
  <2>1. PICK label, seen :
          thr' = [thr EXCEPT ![t] = [IdleThread EXCEPT !.op = op, !.expect = seen, !.pc = label]]
    BY <1>8 DEF Begin
  <2> DEFINE st == [IdleThread EXCEPT !.op = op, !.expect = seen, !.pc = label]
  <2>2. st.snap = {} /\ st.pend = {}
    BY DEF IdleThread
  <2>3. \A q \in Requests : Holds(q)
    <3> HIDE DEF st
    <3>1. thr' = [thr EXCEPT ![t] = st]
      BY <2>1 DEF st
    <3> QED
      BY <3>1, <2>2, <1>5
  <2> QED
    BY <1>4, <1>8, <2>3 DEF Begin, redis, log
<1>9. CASE ReadHit(t)
  BY <1>4, <1>7, <1>9 DEF ReadHit, redis, log
<1>10. CASE LoadSession(t)
  BY <1>4, <1>6, <1>7, <1>10 DEF LoadSession, redis, log
<1>11. CASE LoadMessages(t)
  <2>1. \A q \in Requests : Holds(q)
    BY <1>1, <1>11 DEF LoadMessages, HoldsCommitted, ThreadState
  <2> QED
    BY <1>4, <1>11, <2>1 DEF LoadMessages, redis, log
<1>12. CASE LoadPending(t)
  <2>1. \A q \in Requests : Holds(q)
    BY <1>1, <1>12 DEF LoadPending, HoldsCommitted, ThreadState
  <2> QED
    BY <1>4, <1>12, <2>1 DEF LoadPending, redis, log
<1>13. CASE Acquire(t)
  BY <1>4, <1>6, <1>7, <1>13 DEF Acquire, log
<1>14. CASE EnterLocked(t)
  <2>1. \A q \in Requests : Holds(q)
    BY <1>1, <1>6, <1>14 DEF EnterLocked, HoldsCommitted, ThreadState
  <2> QED
    BY <1>4, <1>14, <2>1 DEF EnterLocked, redis, log
<1>15. CASE CommitLost(t)
  BY <1>4, <1>6, <1>15 DEF CommitLost, redis, log
<1>16. CASE Release(t)
  BY <1>4, <1>7, <1>16 DEF Release, log
<1> QED
  BY <1>2, <1>3, <1>8, <1>9, <1>10, <1>11, <1>12, <1>13, <1>14, <1>15, <1>16
  DEF LoadStep, AppendStep

LEMMA NextCache == ListInv /\ [Next]_vars => ListInv'
<1> SUFFICES ASSUME ListInv, [Next]_vars PROVE ListInv'
  OBVIOUS
<1>1. IInv'
  BY NextInv DEF ListInv
<1>2. ASSUME NEW t \in Requests, \/ \E op \in {"append", "read", "open"} : Begin(t, op)
                                 \/ LoadStep(t) \/ AppendStep(t)
      PROVE  CacheInv'
  BY <1>2, RequestKeeps
<1>3. ASSUME UNCHANGED <<committed, thr>>, msgs' = msgs \/ msgs' = <<>> PROVE CacheInv'
  BY <1>3, CacheKept DEF ListInv, CacheInv, HoldsCommitted, Done
<1>4. ASSUME NEW a \in Workers, WorkerStep(a) \/ WorkerFails(a) PROVE CacheInv'
  <2>1. UNCHANGED <<committed, thr, msgs>>
    BY <1>4 DEF WorkerStep, WorkerFails, Claim, ReadNew, FetchPayloads, ArchiveEvents,
       Acknowledge, redis, log
  <2> QED
    BY <1>3, <2>1
<1>5. CASE LockExpires \/ Ping \/ EvictMeta \/ EvictMessages
  BY <1>1, <1>3, <1>5 DEF ListInv, LockExpires, Ping, EvictMeta, EvictMessages, redis, log
<1>6. CASE DeleteRow \/ DeleteKeys \/ DeleteKeysLost
  BY <1>1, <1>3, <1>6 DEF ListInv, DeleteRow, DeleteKeys, DeleteKeysLost, redis, log
<1>7. CASE UNCHANGED vars
  BY <1>1, <1>3, <1>7 DEF ListInv, vars, redis, log
<1> QED
  BY <1>1, <1>2, <1>4, <1>5, <1>6, <1>7 DEF Next, ListInv

(* The cached list shows no exchange twice, though appends overlap, locks    *)
(* expire, and PostgreSQL and Pending both have the same exchange.           *)
THEOREM StoreNoDuplicates == Spec => []NoDuplicates
<1>1. Init => ListInv
  BY InitInv, InitCache DEF ListInv
<1>2. ListInv => NoDuplicates
  BY DEF ListInv, CacheInv
<1> QED
  BY <1>1, <1>2, NextCache, PTL DEF Spec
-----------------------------------------------------------------------------
(* Refinement: what is waiting, what is archived and whether the session     *)
(* lives, and nothing else, is what the abstract log sees of a step.         *)
InArchive == {e \in Done : Archived(e)}

LEMMA SameLog ==
  ASSUME UNCHANGED <<pgSession, pgMsgs, committed, seqOf>>,
         (pending \cap stream)' = pending \cap stream
  PROVE  UNCHANGED Log!vars
BY DEF Log!vars, Archived, Collided, Done

LEMMA CommitAppends ==
  ASSUME IInv, NEW t \in Requests, Commit(t)
  PROVE  Log!Append
<1> USE DEF IInv
<1>0. PICK e : e = committed + 1
  OBVIOUS
<1>1. PICK seq : CommitMulti(t, seq) /\ seqOf' = [seqOf EXCEPT ![e] = seq]
  BY <1>0 DEF Commit
<1>2. /\ committed' = e /\ Done' = Done \cup {e} /\ e \notin Done /\ Done \subseteq Exchanges
      /\ UNCHANGED <<pgSession, pgMsgs>>
  BY <1>0, StoreAssumption DEF Commit, StoresOK, Exchanges, Done, pg
<1>3. pending' = pending \cup {e} /\ stream' = stream \cup {e}
  BY <1>0, <1>1 DEF CommitMulti
<1>4. \A f \in Done : seqOf'[f] = seqOf[f]
  BY <1>1, <1>2 DEF StoresOK
<1>5. \A f \in Done : Archived(f)' <=> Archived(f)
  BY <1>2, <1>4 DEF Archived, Collided, OnlyCommitted
<1>6. Archived(e)' => pgSession
  BY <1>2 DEF Archived, Collided, DeletedStaysDeleted
<1>7. \/ InArchive' = InArchive
      \/ pgSession /\ InArchive' = InArchive \cup {e}
  <2>1. InArchive' = {f \in Done' : Archived(f)'}
    BY DEF InArchive
  <2>2. CASE Archived(e)'
    BY <1>2, <1>5, <1>6, <2>1, <2>2 DEF InArchive
  <2>3. CASE ~Archived(e)'
    BY <1>2, <1>5, <2>1, <2>3 DEF InArchive
  <2> QED
    BY <2>2, <2>3
<1> QED
  BY <1>0, <1>2, <1>3, <1>7 DEF Log!Append, InArchive

LEMMA DeleteMaps ==
  ASSUME IInv, DeleteRow \/ DeleteKeys \/ DeleteKeysLost
  PROVE  Log!Delete \/ Log!Settle \/ UNCHANGED Log!vars
<1> USE DEF IInv
<1>1. CASE DeleteRow
  <2>1. /\ pgSession /\ pgSession' = FALSE /\ pgMsgs' = {}
        /\ UNCHANGED <<committed, pending, stream>>
    BY <1>1 DEF DeleteRow, redis, log
  <2>2. {f \in Done : Archived(f)}' = {}
    BY <2>1 DEF Archived, Collided
  <2> QED
    BY <2>1, <2>2 DEF Log!Delete
<1>2. CASE DeleteKeys
  <2>1. /\ ~pgSession /\ pending' = {}
        /\ UNCHANGED <<pgSession, pgMsgs, committed, seqOf, stream>>
    BY <1>2 DEF DeleteKeys, pg, log
  <2>2. {f \in Done : Archived(f)}' = {f \in Done : Archived(f)}
    BY <2>1 DEF Archived, Collided, Done
  <2> QED
    BY <2>1, <2>2 DEF Log!Settle
<1>3. CASE DeleteKeysLost
  <2>1. UNCHANGED <<pgSession, pgMsgs, committed, seqOf, pending, stream>>
    BY <1>3 DEF DeleteKeysLost, pg, redis, log
  <2> QED
    BY <2>1, SameLog
<1> QED
  BY <1>1, <1>2, <1>3

LEMMA WorkerMaps ==
  ASSUME IInv, NEW a \in Workers, WorkerStep(a) \/ WorkerFails(a)
  PROVE  Log!Archive \/ Log!Settle \/ UNCHANGED Log!vars
<1> USE DEF IInv
<1>1. CASE Claim(a) \/ ReadNew(a) \/ WorkerFails(a)
  <2>1. UNCHANGED <<pgSession, pgMsgs, committed, seqOf, pending, stream>>
    BY <1>1 DEF Claim, ReadNew, WorkerFails, pg, redis, log
  <2> QED
    BY <2>1, SameLog
<1>2. CASE FetchPayloads(a)
  <2>1. /\ UNCHANGED <<pgSession, pgMsgs, committed, seqOf, pending>>
        /\ stream' = stream \ (wrk[a].batch \ pending)
    BY <1>2 DEF FetchPayloads, pg, log
  <2> QED
    BY <2>1, SameLog
<1>3. CASE ArchiveEvents(a)
  <2>1. UNCHANGED <<pgSession, committed, seqOf, pending, stream>>
    BY <1>3 DEF ArchiveEvents, redis, log
  <2>2. CASE ~pgSession
    <3>1. UNCHANGED pgMsgs
      BY <1>3, <2>2 DEF ArchiveEvents, NoRow
    <3> QED
      BY <2>1, <3>1, SameLog
  <2>3. CASE pgSession
    <3>1. pgMsgs \subseteq pgMsgs'
      BY <1>3, <2>3 DEF ArchiveEvents, NoRow
    <3>2. \A f \in Done : Archived(f) => Archived(f)'
      BY <2>1, <3>1 DEF Archived, Collided
    <3>3. \A f \in Done : Archived(f) \/ f \in pending \cap stream
      BY <2>3 DEF ExchangeKept, Archived
    <3> DEFINE batch == {f \in pending \cap stream : Archived(f)'}
    <3>4. pending \cap stream \subseteq Done /\ Done' = Done
      BY <2>1 DEF OnlyCommitted, Done
    <3>5. {f \in Done : Archived(f)}' = {f \in Done : Archived(f)} \cup batch
      BY <3>2, <3>3, <3>4
    <3>6. batch \in SUBSET (pending \cap stream)
      OBVIOUS
    <3> HIDE DEF batch
    <3> QED
      BY <2>1, <2>3, <3>5, <3>6 DEF Log!Archive
  <2> QED
    BY <2>2, <2>3
<1>4. CASE Acknowledge(a)
  <2> DEFINE done == wrk[a].batch \cap (pending \cap stream)
  <2>1. /\ UNCHANGED <<pgSession, pgMsgs, committed, seqOf>> /\ wrk[a].pc = "clean"
        /\ pending' = pending \ wrk[a].batch /\ stream' = stream \ wrk[a].batch
    BY <1>4 DEF Acknowledge, pg, log
  <2>2. pgSession => done \subseteq {f \in Done : Archived(f)}
    BY <2>1 DEF CleanArchived, OnlyCommitted
  <2>3. (pending \cap stream)' = (pending \cap stream) \ done
    BY <2>1
  <2>4. {f \in Done : Archived(f)}' = {f \in Done : Archived(f)}
    BY <2>1 DEF Archived, Collided, Done
  <2>5. done \in SUBSET (pending \cap stream)
    OBVIOUS
  <2> HIDE DEF done
  <2> QED
    BY <2>1, <2>2, <2>3, <2>4, <2>5 DEF Log!Settle
<1> QED
  BY <1>1, <1>2, <1>3, <1>4 DEF WorkerStep

(* The stores implement the abstract log: each step appends, archives,       *)
(* settles or deletes, or changes nothing of it.                             *)
THEOREM StoreImplementsLog == Spec => ImplementsLog
<1>1. Init => Log!Init
  BY StoreAssumption DEF Init, Log!Init, Done
<1>2. IInv /\ [Next]_vars => [Log!Next]_(Log!vars)
  <2> SUFFICES ASSUME IInv, [Next]_vars PROVE Log!Next \/ UNCHANGED Log!vars
    OBVIOUS
  <2>1. ASSUME UNCHANGED durable PROVE UNCHANGED Log!vars
    BY <2>1, SameLog DEF durable, pg
  <2>2. ASSUME NEW t \in Requests, \/ \E op \in {"append", "read", "open"} : Begin(t, op)
                                   \/ LoadStep(t) \/ AppendStep(t)
        PROVE  Log!Next \/ UNCHANGED Log!vars
    <3>1. CASE Commit(t)
      BY <3>1, CommitAppends DEF Log!Next
    <3> QED
      BY <2>1, <2>2, <3>1, RequestDurable DEF AppendStep
  <2>3. ASSUME NEW a \in Workers, WorkerStep(a) \/ WorkerFails(a)
        PROVE  Log!Next \/ UNCHANGED Log!vars
    BY <2>3, WorkerMaps DEF Log!Next
  <2>4. CASE LockExpires \/ Ping \/ EvictMeta \/ EvictMessages
    <3>1. UNCHANGED durable
      BY <2>4 DEF LockExpires, Ping, EvictMeta, EvictMessages, durable, pg, redis, log
    <3> QED
      BY <2>1, <3>1
  <2>5. CASE DeleteRow \/ DeleteKeys \/ DeleteKeysLost
    BY <2>5, DeleteMaps DEF Log!Next
  <2>6. CASE UNCHANGED vars
    <3>1. UNCHANGED durable
      BY <2>6 DEF vars, durable, pg, redis, log
    <3> QED
      BY <2>1, <3>1
  <2> QED
    BY <2>2, <2>3, <2>4, <2>5, <2>6 DEF Next
<1> QED
  BY <1>1, <1>2, StoreInvariant, PTL DEF Spec, ImplementsLog, Log!Spec
=============================================================================
