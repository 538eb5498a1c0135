------------------------------ MODULE ChatMemory ------------------------------
(***************************************************************************)
(* What a chat session remembers.  A /rag request reads the session, then  *)
(* its messages, may compact the older ones into the rolling summary, asks *)
(* the LLM, and appends the exchange with the new summary and the number   *)
(* of messages it compacted.  No lock is held from the read to the append. *)
(*                                                                         *)
(* Messages are their positions 1..last, a summary is the set of positions *)
(* merged into it.  Redis caches the session twice, as a meta hash and as  *)
(* a list of messages; either may be evicted without the other.  A request *)
(* that misses the meta hash loads PostgreSQL and Pending and writes both  *)
(* back, beneath the other requests.  The session lock is assumed to hold  *)
(* for one append: SessionStore lets it expire.                            *)
(***************************************************************************)
EXTENDS Integers, FiniteSets, Sequences, SequencesExt

CONSTANTS Requests,      \* /rag requests of one session at the same time
          RecentTurns,   \* history_recent_turns: the turns never compacted
          HistoryMax,    \* history_max_messages; 0: no limit
          MaxMessages,   \* bound on the messages of the session
          MayBeBlank,    \* bound on its blank messages: their positions
          MaxEvictions   \* bound on the evictions of a key

ASSUME MemoryAssumption == RecentTurns \in Nat /\ HistoryMax \in Nat /\ MaxMessages \in Nat
                           /\ MaxEvictions \in Nat

VARIABLES last,      \* the session's messages are 1..last
          blank,     \* positions whose content is only whitespace
          pending,   \* session states of the exchanges not archived yet, oldest first
          archived,  \* the session state in PostgreSQL
          cached,    \* is the meta hash in Redis?
          meta,      \* what it says: session state and last_seq
          list,      \* the message list in Redis, in the order of the positions
          evictions, \* how often Redis has evicted a key
          req,       \* the requests
          faults     \* what has happened to the session (history variable, see below)
vars == <<last, blank, pending, archived, cached, meta, list, evictions, req, faults>>
stored == <<last, blank, pending, archived, evictions, faults>>

Positions == 1..MaxMessages
SessionState == [count : Nat, summary : SUBSET Positions]
Meta == [state : SessionState, upto : 0..MaxMessages]
\* A cold load: the session state, last_seq and messages it has read so far.
ColdLoad == [merged : BOOLEAN, state : SessionState, upto : 0..MaxMessages,
             list : SUBSET Positions]
RequestState == [pc : {"idle", "open", "opened", "load", "loaded", "asked", "fill", "append"},
                 read : SessionState, upto : 0..MaxMessages, history : SUBSET Positions,
                 missed : BOOLEAN, summary : SUBSET Positions, delta : 0..MaxMessages,
                 cold : ColdLoad]
NoState == [count |-> 0, summary |-> {}]
NoMeta == [state |-> NoState, upto |-> 0]
NoLoad == [merged |-> FALSE, state |-> NoState, upto |-> 0, list |-> {}]
Idle == [pc |-> "idle", read |-> NoState, upto |-> 0, history |-> {}, missed |-> FALSE,
         summary |-> {}, delta |-> 0, cold |-> NoLoad]

\* The state of the newest exchange.
Current == IF pending = <<>> THEN archived ELSE Last(pending)

\* "overtaken": an exchange was appended by a request whose session state was not the
\* current one, or on a meta hash that was not.  "missed": a request compacted a history
\* that was not all of the conversation after its count.
Faults == {"overtaken", "missed"}

TypeOK ==
    /\ last \in 0..MaxMessages /\ blank \subseteq 1..last
    /\ pending \in Seq(SessionState) /\ 2 * Len(pending) <= last
    /\ archived \in SessionState
    /\ cached \in BOOLEAN /\ meta \in Meta /\ list \subseteq 1..last
    /\ evictions \in Nat /\ req \in [Requests -> RequestState]
    /\ faults \subseteq Faults

Init == /\ last = 0 /\ blank = {}
        /\ pending = <<>> /\ archived = NoState
        /\ cached = TRUE /\ meta = NoMeta /\ list = {}
        /\ evictions = 0 /\ req = [q \in Requests |-> Idle]
        /\ faults = {}

-----------------------------------------------------------------------------
\* _cache_from_pg, first part: the session row and the messages of PostgreSQL.
InPostgres == [merged |-> FALSE, state |-> archived, upto |-> last - 2 * Len(pending),
               list |-> 1..(last - 2 * Len(pending))]

\* _cache_session: what waits in Pending by now is added, and the newest pending state
\* replaces the row's.  HVALS has no order and list_messages returns the merged messages
\* as they came, so with several exchanges pending a history loaded cold may be in disorder.
MergePending(q) ==
    /\ req[q].pc \in {"open", "load", "fill"} /\ ~req[q].cold.merged
    /\ LET cold == req[q].cold
           waiting == (last - 2 * Len(pending) + 1)..last
       IN req' = [req EXCEPT
            ![q].cold = [merged |-> TRUE,
                         state |-> IF pending = <<>> THEN cold.state ELSE Last(pending),
                         upto |-> IF pending = <<>> THEN cold.upto ELSE last,
                         list |-> cold.list \cup waiting],
            ![q].missed = @ \/ (req[q].pc = "load" /\ Len(pending) > 1)]
    /\ UNCHANGED <<stored, cached, meta, list>>

\* Then one MULTI replaces both keys, whatever was appended meanwhile.
WriteCache(q) ==
    /\ req[q].cold.merged
    /\ cached' = TRUE
    /\ meta' = [state |-> req[q].cold.state, upto |-> req[q].cold.upto]
    /\ list' = req[q].cold.list
    /\ UNCHANGED stored

\* get_chat_session.  A miss returns the row of PostgreSQL.
Open(q) ==
    /\ req[q].pc = "idle" /\ cached
    /\ req' = [req EXCEPT ![q] = [Idle EXCEPT !.pc = "opened", !.upto = last,
                                              !.read = meta.state]]
    /\ UNCHANGED <<stored, cached, meta, list>>
OpenCold(q) ==
    /\ req[q].pc = "idle" /\ ~cached
    /\ req' = [req EXCEPT ![q] = [Idle EXCEPT !.pc = "open", !.upto = last,
                                              !.read = archived, !.cold = InPostgres]]
    /\ UNCHANGED <<stored, cached, meta, list>>
Opened(q) ==
    /\ req[q].pc = "open" /\ WriteCache(q)
    /\ req' = [req EXCEPT ![q].pc = "opened", ![q].cold = NoLoad]

-----------------------------------------------------------------------------
\* prompt_history: the count that was read is an offset into the list that was loaded,
\* whichever messages are in it.
AfterOffByOne(messages, count) ==
    {i \in messages : Cardinality({j \in messages : j < i}) > count}
After(messages, count) ==
    {i \in messages : Cardinality({j \in messages : j < i}) >= count}

\* _normalize_history: the newest HistoryMax messages.
Newest(history) ==
    IF HistoryMax = 0 THEN history
    ELSE {i \in history : Cardinality({j \in history : j > i}) < HistoryMax}

\* No message there was when the session was read is missing between the count and the
\* end of the list.
Complete(messages, q) ==
    /\ \E k \in req[q].upto..last : messages = 1..k
    /\ Newest(After(messages, req[q].read.count)) = After(messages, req[q].read.count)

\* Blank messages are dropped after the cut.
Load(q, messages) ==
    req' = [req EXCEPT ![q].pc = "loaded", ![q].cold = NoLoad,
                       ![q].history = Newest(After(messages, req[q].read.count)) \ blank,
                       ![q].missed = @ \/ ~Complete(messages, q)]

\* list_messages.  The meta hash says messages_cached even when the list's key is gone.
LoadHistory(q) ==
    /\ req[q].pc = "opened" /\ cached
    /\ Load(q, list)
    /\ UNCHANGED <<stored, cached, meta, list>>
LoadCold(q) ==
    /\ req[q].pc = "opened" /\ ~cached
    /\ req' = [req EXCEPT ![q].pc = "load", ![q].cold = InPostgres]
    /\ UNCHANGED <<stored, cached, meta, list>>
Loaded(q) ==
    /\ req[q].pc = "load" /\ WriteCache(q)
    /\ Load(q, req[q].cold.list)

\* history[:-recent_limit]: all but the newest messages.
OlderEverything(history) == history
Older(history) == {i \in history : Cardinality({j \in history : j > i}) >= 2 * RecentTurns}

\* _compact_history.  Whether the history exceeds the token budget is left open; a
\* summary the LLM does not write falls back to the text of the older messages.
CompactForgets(q) ==
    /\ req[q].pc = "loaded"
    /\ \E older \in {{}} \cup (IF RecentTurns = 0 THEN {} ELSE {Older(req[q].history)}) :
         req' = [req EXCEPT ![q].pc = "asked", ![q].history = @ \ older,
                            ![q].summary = IF older = {} THEN req[q].read.summary ELSE older,
                            ![q].delta = Cardinality(older)]
    /\ UNCHANGED <<stored, cached, meta, list>>
Compact(q) ==
    /\ req[q].pc = "loaded"
    /\ \E older \in {{}} \cup (IF RecentTurns = 0 THEN {} ELSE {Older(req[q].history)}) :
         req' = [req EXCEPT ![q].pc = "asked", ![q].history = @ \ older,
                            ![q].summary = req[q].read.summary \cup older,
                            ![q].delta = Cardinality(older)]
    /\ UNCHANGED <<stored, cached, meta, list>>

\* A code search of the session loads no history; it appends its exchange with the summary
\* that was read and a delta of 0.
SearchCode(q) ==
    /\ req[q].pc = "opened"
    /\ req' = [req EXCEPT ![q].pc = "asked", ![q].missed = TRUE,
                          ![q].summary = req[q].read.summary, ![q].delta = 0]
    /\ UNCHANGED <<stored, cached, meta, list>>

-----------------------------------------------------------------------------
\* append_exchange loads a session that is not cached before it takes the
\* lock.  The prompt is no longer needed.
CheckMeta(q) ==
    /\ req[q].pc = "asked"
    /\ req' = [req EXCEPT ![q].pc = IF cached THEN "append" ELSE "fill",
                          ![q].cold = IF cached THEN NoLoad ELSE InPostgres,
                          ![q].upto = 0, ![q].history = {}]
    /\ UNCHANGED <<stored, cached, meta, list>>
Filled(q) ==
    /\ req[q].pc = "fill" /\ WriteCache(q)
    /\ req' = [req EXCEPT ![q].pc = "append", ![q].cold = NoLoad]

\* Under the lock, one MULTI: two messages, the summary of the request, and its delta on
\* top of the count that meta has now.  The reply may be lost (503 after the commit); a
\* client that asks again is a new request.
AppendState(q) == [count |-> meta.state.count + req[q].delta, summary |-> req[q].summary]
Overtaken(q) == req[q].read # Current \/ meta # [state |-> Current, upto |-> last]
AppendExchange(q) ==
    /\ req[q].pc = "append" /\ cached /\ last + 2 <= MaxMessages
    /\ \E empty \in SUBSET ({last + 1, last + 2} \cap MayBeBlank) : blank' = blank \cup empty
    /\ last' = last + 2
    /\ pending' = Append(pending, AppendState(q))
    /\ meta' = [state |-> AppendState(q), upto |-> last + 2]
    /\ list' = list \cup {last + 1, last + 2}
    /\ req' = [req EXCEPT ![q] = Idle]
    /\ faults' = faults \cup (IF Overtaken(q) THEN {"overtaken"} ELSE {})
                        \cup (IF req[q].missed /\ req[q].delta > 0 THEN {"missed"} ELSE {})
    /\ UNCHANGED <<archived, cached, evictions>>

\* The LLM or retrieval fails (502, 500), or the store refuses or has lost meta again
\* under the lock (503): nothing is kept.
Fail(q) ==
    /\ req[q].pc # "idle"
    /\ req' = [req EXCEPT ![q] = Idle]
    /\ UNCHANGED <<stored, cached, meta, list>>

-----------------------------------------------------------------------------
\* The archiver moves a batch of the oldest exchanges to PostgreSQL.
Archive ==
    \E n \in 1..Len(pending) :
        /\ archived' = pending[n]
        /\ pending' = SubSeq(pending, n + 1, Len(pending))
        /\ UNCHANGED <<last, blank, cached, meta, list, evictions, req, faults>>

\* Both keys have a TTL, and volatile-lru may evict either earlier.  Without meta the list
\* is not read before a cold load replaces it.
Evict ==
    /\ cached /\ evictions < MaxEvictions /\ evictions' = evictions + 1
    /\ list' = {}
    /\ UNCHANGED <<last, blank, pending, archived, req, faults>>
EvictMeta == Evict /\ cached' = FALSE /\ meta' = NoMeta
EvictList == Evict /\ cached' = TRUE /\ meta' = meta

Next == \/ \E q \in Requests :
             \/ Open(q) \/ OpenCold(q) \/ Opened(q)
             \/ LoadHistory(q) \/ LoadCold(q) \/ Loaded(q)
             \/ MergePending(q) \/ Compact(q) \/ SearchCode(q) \/ CheckMeta(q) \/ Filled(q)
             \/ AppendExchange(q) \/ Fail(q)
        \/ Archive \/ EvictMeta \/ EvictList

Spec == Init /\ [][Next]_vars

-----------------------------------------------------------------------------
\* "messages older than the latest turns are merged into the rolling summary; ...
\* compacted_message_count excludes them from subsequent prompt loading": what the
\* count excludes is in the summary.  The code keeps it unless a request was overtaken or
\* compacted an incomplete history, and nothing else loses a message.
ExcludedRemembered ==
    faults = {} => \A i \in 1..Current.count : i \in Current.summary \cup blank

\* The prompt of a request holds every message there was when the session was read, in
\* its summary or in its history, unless its own load was incomplete: also beside other
\* requests, with a state of the session that is no longer current, and after evictions.
PromptComplete ==
    \A q \in Requests :
        req[q].pc = "asked" /\ ~req[q].missed /\ faults = {} =>
            1..req[q].upto \subseteq req[q].summary \cup req[q].history \cup blank

\* The latest turns are loaded in full by the next request, however short the lists that
\* were compacted: only an overtaken request may add its delta to another's count.
RecentKept ==
    "overtaken" \notin faults /\ Current.count > 0 => Current.count + 2 * RecentTurns < last
=============================================================================
