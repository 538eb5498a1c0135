# TLA+ models of the Knowledge Base Assistant

This directory keeps TLA+ specifications of the parts of the assistant that are hard to
test: what happens when requests, background workers, index commits, crashes and lost
replies interleave. TLC checks the specifications on small instances; TLAPS proves the
theorems in the `*Proofs` modules for every instance. Paths such as `app/main.py` are
relative to the repository's root.

    tlc -workers 2 -config MCRequestGate.cfg MCRequestGate     # one run
    tlapm RequestGateProofs.tla                                # one module of proofs

`PROJECT.json` lists the components, the runs with their properties, for every property a
fault that breaks it, the lines of code every definition stands for, the hazards the
properties are for, and the theorems.

Contents: 1 the system, 2 the modules, 3 the runs and their bounds, 4 fairness, 5 where
the code and its documentation disagree, 6 the proofs, 7 plan, 8 what is not modelled.

## 1. The system

| Component | State | Operations | Talks to |
|---|---|---|---|
| Chat requests, `main.py` `rag()`, `rag.py` | none of its own | read the session, load and compact the history, route, retrieve, ask the LLM, append the exchange | session store, retrieval, reranker, LLM |
| Session store on Redis, `redis_session_store.py` | meta hash, message list, Pending hash, archive stream, lock, auth cache, circuit breaker | append, list, open, rename, delete, cold load, invalidate | PostgreSQL, archiver |
| Session archiver, `session_archive.py` | a batch in hand | claim stalled entries, read new ones, fetch payloads, archive, acknowledge | Redis stream, PostgreSQL |
| Session store on PostgreSQL, `session_store.py` | sessions, messages, settings | archive events, load, delete | Redis store, archiver |
| Accounts and logins, `session_store.py`, `redis_session_store.py`, `main.py` | users, roles and login tokens in PostgreSQL, copies of rights and their index in Redis | log in and out, create and delete users, change roles and passwords, invalidate | every request with a token |
| Retrieval gate, `document_commit.py` | flag, counters, condition variable | `request()`, `exclusive()`, `snapshot()` | recalls, commits |
| Document index versions, `s3_documents.py`, `vector_store.py` | Qdrant collections and alias, S3 manifests, BM25S index and candidate | ingest, prepare, commit, discard, prune, reconcile | main over HTTP, Qdrant, S3 |
| Reranker replicas, `model_actors.py`, `reranker.py` | registry, unavailable marks, round-robin index | select, call, retry, fall back, mark | Ray actors, health loop |
| Component health, `component_health.py` | hysteresis counters per component | probe, record, report | actors, Qdrant, Redis |
| Embedding actor, `model_actors.py`, `vector_store.py` | queues per key, one inference lock, the model's device, warm-up state | batch, encode, fan out, warm up, report | vector store, health loop |
| Retrieval, `rag.py`, `vector_store.py` | BM25S index in memory with the signature of its documents | recall by keywords and by vector, fuse ranks, rerank, fall back | Qdrant, S3, embedding and reranker actors |
| Chunking, `vector_store.py` | none | split Markdown into chunks of a token budget | ingest |
| Code index, `code_indexer.py`, `main.py`, `scripts/index_code.py` | rows of files, functions and calls in PostgreSQL, two Qdrant collections | index, rebuild, recreate | code search |
| Code search and call graph, `code_retrieval.py`, `call_graph.py` | none of its own | search, merge, hydrate, build a graph or a chain | both stores of the code index |
| Startup pipeline, `scripts/startup_pipeline_state.py`, `docker/entrypoint.sh`, `compose.yaml` | run-id, ready and failed markers | begin, ready, fail, wait | containers |
| Frontend, configuration and LLM client, evaluation scripts | browser state, settings | views, HTTP calls, batch jobs | all of the above |

How they interact. A `/rag` request runs in a thread of main. It reads the session from
Redis, or from PostgreSQL and Pending when the cache misses; passes the gate for its
recall; asks one reranker replica after another; and appends its exchange in one MULTI that
also leaves a payload in Pending and a reference in a stream. The archiver moves payloads to
PostgreSQL and then acknowledges them. Meanwhile the indexer, another process, builds a
new collection and asks main over HTTP to prepare a BM25S candidate and to commit, which
closes the gate, waits for the recalls inside, and swaps the alias, the manifest and the index.

What makes each part correct, and what is hard about it:

- *Session store and archiver*: no committed exchange is lost, shown twice, or resurrected;
  the archived state does not go back. Hard: each operation is several round trips to two
  stores without a common transaction; locks expire, keys are evicted, replies are lost,
  archivers crash after the commit and before the acknowledgement, or stall and overlap the
  one that claimed their batch.
- *Chat requests*: what compaction takes out of the prompt is in the summary. Hard: nothing
  is locked between the read and the append, and the state comes from three places.
- *Gate*: a swap is alone; recalls are not starved. Hard: one condition variable for two
  kinds of waiters, a timeout that races the last recall, and wakeups overtaken by the next
  commit.
- *Index versions*: alias, manifest and BM25S index are one version whenever recalls are let
  in. Hard: three stores and two processes, retries that overlap their predecessors, a
  rollback in the middle, and a restart that has to find out what was done.
- *Reranker and health*: a request ends and uses a replica that can serve it; health neither
  flaps nor sticks. Hard: the probe and the requests set and clear the same marks.
- *Accounts*: the superuser stays, and stays an administrator; who lost a right does not keep it. Hard: a
  check and the write it protects are separate statements, and the copy of a user's rights in
  Redis is found through an index that is written and deleted by other requests.
- *Code index*: after a run both stores agree; a search shows only what it has read. Hard:
  one store has transactions and the other has none, the API and a script share no lock, and
  a question looks into both stores several times.
- *Retrieval*: a recall does not use an index older than the documents; what fails is left
  out and reported, and nothing else. Hard: the index is rebuilt by whichever recall notices,
  from a source that changes meanwhile, and each search fails on its own.
- *Chunking*: no text is lost and no chunk exceeds its budget, for the check that guards it
  stops the whole ingest. Hard: the same text is split, packed and lent to its neighbours.
- *Embedding*: a caller gets the row of its own text, and an actor that failed comes back.
  Hard: texts of several callers, of those that gave up and of the warm-up share batches.

## 2. Modules

| Module | Models | State | Properties |
|---|---|---|---|
| `ExclusiveSection` | abstract: readers and one writer that announces itself | who reads, who is announced, who writes | specification only |
| `SessionLog` | abstract: a log whose exchanges wait for the archive until it has them | exchanges appended, waiting, archived, session alive | specification only |
| `RequestGate` | `RetrievalRequestGate` | the four fields, and where each thread is | implements `ExclusiveSection`, safety, liveness |
| `SessionStore` | one session in Redis and PostgreSQL, requests, archivers | both stores, the lock, each thread's local copy | implements `SessionLog`, safety, drain of the stream |
| `ChatMemory` | count and summary of one session through `/rag` requests | current, pending and archived session state, each request's copy | safety |
| `DocCommit` | ingest, prepare, commit, rollback, restart | Qdrant, S3, main's memory, jobs, calls | safety, liveness |
| `RerankerPool` | choice of replicas, retries, probe, warm-up | replicas, marks, requests, health counters | hysteresis, liveness |
| `Accounts` | users, roles, logins and the cached copies of rights | PostgreSQL, Redis, the circuit breaker, requests | safety, liveness |
| `CodeIndex` | runs of the API and of the script over the code index | files, rows, points, the lock, runs | safety |
| `CodeSearch` | extends `CodeIndex`: searches and call chains beside the runs | the question being answered | safety |
| `Retrieval` | recall, fusion, reranking and fallbacks of a question | documents, Qdrant, S3, the keyword index and its lock, recalls | safety |
| `Chunking` | Markdown to chunks | what has been read, the group, cores and chunks | safety |
| `Embedding` | batches, warm-up, device and probe of the document embedding actor | queues, batches, jobs, the model, calls | safety, liveness |
| `RequestGateProofs`, `SessionStoreProofs`, `DocCommitProofs`, `AccountsProofs`, `RetrievalProofs`, `ActorProofs` (`Embedding`, `RerankerPool`), `CodeSearchProofs` (`CodeIndex`, `CodeSearch`), `TextProofs` (`ChatMemory`, `Chunking`) | theorems | | section 6 |

`MC*` modules extend one specification each; the `.cfg` files give its constants values.
Some definitions, placed just before an action or helper, are that definition with one fault
(`ResumeUnchecked` before `Resume`). No action uses them. They are
the bugs the properties must catch: with the definition replaced by the faulty one, TLC finds
the property violated.

### RequestGate

A step is one critical section of the condition's lock. `Enter`, `Resume` and `Leave` are
the three sections of `request()`; `Close`, `RecheckDrain` and `Open` those of
`exclusive()`; `TimerFires` is the return of a timed wait. A thread inside
`Condition.wait()` is asleep, then woken (by `notify_all`) or expired, and must win the
lock again, so that other threads can overtake it. `Retry` is the indexer that asks again
after a 409. `MaxGeneration` bounds how often the gate closes.

### SessionStore

A step is one round trip: a Redis command or MULTI, a PostgreSQL statement or transaction.
An exchange is reduced to the sequence number of its messages, so a colliding number, which
`ON CONFLICT DO NOTHING` silently drops, can be told from a new one. `Begin` starts an
append, a read of the messages or an open; `LoadSession`, `LoadMessages`,
`LoadPending` and `FillCache` are the cold load; `Acquire` to `Release` the append
under the lock. Lost replies, an expired lock, evictions, a Redis failure in the middle of a
delete and worker crashes are actions that draw on the bound `MaxFailures`. The backlog check
only refuses an append before it starts and is left out, as are rename and titles; summary and
count are the subject of `ChatMemory`.

Both stores together implement `SessionLog`: its size is the number of exchanges committed,
an exchange waits while its payload is in Pending and its reference in the stream, it is
archived when PostgreSQL has it or a message with its number, and the session is alive while its
row exists. Everything else (the list, the meta hash, locks, caches, retries) is detail of
the implementation, and its steps are stutters.

### ChatMemory

Messages are positions, a summary is the set of positions merged into it, and the session's
state is the pair (count, summary). Redis has the state and `last_seq` in the meta hash (`meta`)
and the messages in a list (`list`); `EvictMeta` and `EvictList` take one of them. `Open` returns
what `get_chat_session` returns: the meta hash, or after a miss (`OpenCold`) the PostgreSQL row,
although the cache is filled with the newest pending state. `LoadHistory` takes the list as it
is, for the meta hash says `messages_cached` when its key is gone, too; `LoadCold` loads it anew.
A cold load is `InPostgres`, `MergePending`, `WriteCache`, three steps between which others append
and archive. `Load` counts the offset in the list that came, cuts it to `HistoryMax` messages and
drops blank ones as `_normalize_history` does; `Compact` decides freely whether the token budget is
exceeded; `SearchCode` is a code search, which appends to the session without a history.
`AppendExchange` adds the delta to the count that is current then, and replaces the summary.

`faults` is a history variable for what the code does not prevent: a request was *overtaken* if the
state it read, or the meta hash it appends to, was not the current one any more; something was
*missed* if a request compacted a history that was not all that follows the count.

What the LLM makes of a summary, and the trimming of a long one, are not modelled: the
properties are about which messages are handed to it at all. The PostgreSQL reads of a cold load are one
step here and so are commit and acknowledgement of the archiver, because `SessionStore` takes them
apart; the session lock lasts for one append, because `SessionStore` lets it expire. A list is a
set of positions: after an overtaken append its numbers may collide, and nothing is claimed then.

### DocCommit

A version's number also names its collection and manifest. `Ingest` to
`PruneAfter` are the indexer, one action per call that can fail; `Send`,
`Reply` and `AttemptFails` the HTTP committer with its retries; `StartJob` to
`UndoManifest` the two threads of main. Every attempt is a job that runs on when nobody
waits for it. A failing write may have taken effect or not. `MainDies`, `Restart` and
`IndexerDies` are the crashes. The reads at the start of an ingest and the checks of a commit
are one step each. The commit without HTTP, the retention of S3 objects and the
chunks themselves are not modelled; the recalls behind the gate are `Drain`, because the
gate has its own module. `CannotGoBack` is a rollback whose previous collection retention has
meanwhile dropped; `RollbackFails` allows the calls of a rollback to fail (section 5).

### RerankerPool

`Start`, `Select`, `CallReturns` and `CallFails` are a request in `_retrieve_contexts` and
`Reranker.rerank`. `StartProbe` clears the marks; `CollectAnswers` is one return of `wait()`: errors
are looked at until the first good answer, which ends the probe and marks the replicas that are still
outstanding. A replica runs one call at a time, so a busy one does not answer the probe in time; a
call that timed out is taken to be over in the actor too. `RecordSuccess` and `RecordFailure`
are the counters, cut off at their thresholds, which is all the code compares them with; the
round-robin index counts modulo `Period`. `Stop` and `Comeback` are Ray. The handles of the actors
are left out: Ray keeps them across restarts.

`model` is the device a replica's model is on. A call may move it to the CPU (`Uses`), and so may
loading it; it stays there until the actor restarts. `ColdOnes` are the replicas a probe sends a
warm-up: they say that they are not warmed up, and their last one was sent more than a minute ago
(`pausing`, `PauseEnds`). `WarmUp` may fail and leave the replica cold, and fails for certain once the
model is on the CPU, as `_require_expected_device` demands where CUDA is expected, which is the
deployment. The minute is assumed to be longer than a warm-up.

### Accounts

A step is one PostgreSQL statement (READ COMMITTED) or one Redis command or MULTI. `Call`,
`ReadCache`, `ReadRow` and `Fill` are a request's look at its token
(`get_user_by_token`); the handlers take over in `Accept`, which lets a request do only what
its dependencies permit. `StartLogin` and `IssueToken` are the login, `DropLogin` and `DropCopy`
the logout, `Verify` the check of the old password. `CheckRole` and `CountAdmins` are the
checks before `Write`, each a query of its own, without a lock. `GiveUp`, `Members`, `DeleteCopies` and
`DeleteIndex` are the invalidation. `ExpireCopy`, `EvictIndex` and `ExpireLogin` are
the TTLs and the eviction. `Restart` is main coming up, perhaps with another default administrator
or with none (`Bootstrap`, `AUTH_DEFAULT_ADMIN_ENABLED=0`), and its requests are gone.
`ArchiverStart` is an archiver coming up: it runs `init_db` too, with the default administrator of
its own environment, while main goes on. An instance may start with a superuser or, made by
configurations that ensured none, without (`Init`).

Two history variables say what is claimed. `settled`: a start has made a superuser, and no request
had by then passed the checks that now protect it. `excused`: the tokens whose copy the code does
not find, and the definitions that add to it say why: the lookup overlapped the change, Redis failed,
the index was lost, the login ran out, main restarted, an archiver's start changed the role.
Hashing is external.

### CodeIndex and CodeSearch

A step is a statement or a Qdrant call. A file is its content's number, which determines
its functions and calls. `Request`, `Acquire` and `StartScript` begin a run; `ListCollections`,
`DropCollection`, `CreateCollection`, `Truncate` and `WipePoints` prepare the stores for a
normal run, a rebuild or `--recreate`; `StartDelete`, `DeleteRow`, `Unindex` and `WriteFile`
are the transaction, row by row, with the row locks that let two runs wait for each other
or deadlock (`Deadlock`, one of them is aborted); `Commit` publishes it; `StorePoints` follows
it. `Fail` is an error or the death of a process; `CollectionError` the refusal to create a
collection that another run has just created. `Edit` changes a file.

`CodeSearch` adds one question at a time. A search looks for files, for their functions, for
functions of the whole repository and for the text in PostgreSQL, merges and hydrates what it
found, and reads the nodes and then the edges of a graph around it; a chain starts with
the nodes. A limited search of Qdrant returns any points of that number, because scores are not
modelled; a search of the text any rows that match, and those of the name asked for match if it makes a
token (`Searchable`: two characters or more). `ScoreCandidates` may fail, which the code logs
and passes over: the matches of the text are gone then. Three fields of a question
are history: `steady`, the functions of that name that have been in both stores since its first
look; `quiet`, whether no run was active meanwhile; `lost`, whether text matches were cut off
by the limit or could not be scored.

A function is known by its file and its name. The code's id is made of its kind and lines
too (`code_indexer.py:932-937`), so a function that has moved in its file is another row and
another point, and overlapping runs may leave both. The properties do not suffer from it: whichever run
commits last still stores the points of its own version afterwards, and a function that keeps its
id throughout a search is also `steady` here.

### Retrieval

The documents are files that change one by one (`EditFile`) or a version in S3 that the ingest
script switches (`BeginIngest` to `WriteManifest`, `RollbackAlias`, `ScriptDies`). A question's
two searches run side by side. Keywords: `Sign` takes the signature of the documents, file by
file; `CheckIndex` compares it with that of the index, `LockIndex` again under the lock;
`BuildFromFiles`, `BuildFromManifest` or `ScrollQdrant` build, `Publish` replaces the index.
Vectors: `SearchVector`. `RecallHybrid`, `RecallKeywords`, `RecallVector` and `RecallFails` join
what came back, with the list `RrfFuse` sorts by sums of fractions; `AnswerReranked` and
`AnswerUnranked` end the question. The lists a search returns are arbitrary: scores are not
modelled. This is the way past the retrieval gate: what goes through it is in `DocCommit`.

### Chunking

Tokens are numbered, a text is an interval of them. `AddHeading` and `AddBlock` read the
document; `ExpandBlock` splits a block above the budget, `PackGroup` packs the parts of one
section and kind; `EndDocument`, `AddChunk` and `EndChunks` lend sentences to the neighbours.
Loops over units and parts are recursive functions of the number of rounds, whose body is one
round of the loop (`EndUnit`, `AddUnit`, `AddPart`); `SentenceOverlap` takes the most sentences
that fit the budget such that all but the last are below the target. The tokenizer is assumed
to count a joined text as its parts and the separators. A block whose wrapper leaves no room
is refused, as in the code; the two checks that stop an ingest when a core or a chunk exceeds its
budget are the property `WithinBudget`.

### Embedding

Steps are turns of the actor's event loop. `Send` and `GiveUp` are the callers; `Collect` and
`Deadline` fill and close the batch of a key; `EncodeTexts` is the inference of the job
whose turn it is, first come first served; `LoadModel`, `CapacityProbe` and `RoundEnds` are the
warm-up, which sends its own texts through the same queues. `Outcomes` lets an inference fail
or move the model to the CPU. `Probe`, `ProbeLost` and `IntervalPasses` are the health loop of
main, `Restart` is Ray.

## 3. Runs

| Run | Instance | Shows |
|---|---|---|
| `gate` | 3 recalls, 2 commits, the gate closes 3 times | a swap is alone (`CommitAlone`), nobody sleeps through its wakeup (`NoSleeperMissed`), drains end (`DrainEnds`), queued recalls are served (`QueuedServed`), the gate implements `ExclusiveSection` (`ImplementsSection`) |
| `session_store` | 2 requests, 1 archiver, 2 exchanges, 2 failures | no committed exchange is lost unless another one has its number (`ExchangeKept`), none is shown twice (`NoDuplicates`) |
| `session_archive` | 1 request, 2 archivers, 2 exchanges, 1 failure | the archived state is never older than the newest archived exchange (`StateNotBehind`), the stream drains (`StreamDrains`), the two stores implement `SessionLog` (`ImplementsLog`) |
| `doc_commit` | 3 versions, 2 attempts per call, 2 failures | one version is served (`OneVersionServed`), an acknowledged commit is visible (`CommitAcknowledged`), no switch under recalls (`NoSwitchUnderRecalls`), every ingest ends (`IngestEnds`), the gate reopens (`GateReopens`) |
| `reranker_pool` | 2 replicas, 1 request at a time, thresholds 2, each replica may stop once, 1 move to the CPU or failed warm-up | health changes only after two equal results in a row (`Hysteresis`); requests end (`RequestEnds`); the pool recovers while a replica can serve (`PoolRecovers`) |
| `chat_memory` | 2 requests at a time, 4 exchanges, 1 recent turn, a history of at most 4 messages, 1 eviction | only overtaken requests and compactions of an incomplete history forget what is excluded (`ExcludedRemembered`), until then prompts cover the conversation (`PromptComplete`), the last turns stay (`RecentKept`) |
| `accounts` | 2 users, 2 tokens, 2 requests at a time, 2 calls, 1 failure | there is never a second superuser, and the one a start has made stays an administrator (`SuperuserKept`), an outdated copy of rights is about to be removed or its case is known (`StaleIsKnown`), in the end copies agree (`EventuallyCurrent`) |
| `code_index` | 2 files of 2 contents, 2 API requests, 1 script, 3 runs, 1 edit, 1 failure | foreign keys (`TypeOK`), what is indexed can be found (`IndexedIsFindable`), a run that nothing overlapped repairs what was left (`RunRepairs`) |
| `code_search` | 1 file of 2 contents, 3 functions, 2 runs, 1 question | a search by name shows a function that is there all the while, or its list is full (`NamedIsFound`), a graph joins only functions it has read (`GraphIsClosed`) |
| `retrieval` | 2 documents, 2 recalls, 1 change, 1 failure (directory) or 2 (S3) | keywords are not older than the documents (`KeywordsFresh`), what both searches found within their first 61 comes before what only one found (`AgreedFirst`), nothing is shown twice (`ShownOnce`), degradation is reported exactly (`DegradationReported`) |
| `chunking` | documents of up to 4 blocks and headings, budgets of 3 to 6 tokens | every token is in one core (`NothingLost`), budgets hold (`WithinBudget`), a chunk is a passage (`ChunkIsPassage`), headings are the open ones (`HeadingsAreOpen`) |
| `embedding` | 2 callers, 2 keys, 2 calls, batches of 2, 1 restart, 1 failure | a caller gets its own row (`OwnRow`), calls end (`CallsEnd`), the component recovers (`Recovers`) |

### Why the bounds are enough

- *Gate*: two commits are needed for one to find the gate closed; three recalls for one
  inside, one asleep and one arriving; the third closing is the one that overtakes a recall
  woken by the end of the first or second.
- *Sessions*: two requests give a load that overlaps an append, and, after a lock expired,
  two appends. Two exchanges give an order to get wrong and a number to collide; `Ticks`
  lets the second one fall in the same millisecond or a later one. Two failures cover a lost reply
  followed by a crash. Two archivers with one failure cover a stalled archiver that commits
  after the one that claimed its batch.
- *Document commits*: two versions after the first are the smallest history with a previous
  version, an active one and a candidate. Two attempts give one retry that overlaps its
  predecessor; two failures a crash after a lost reply. With `RetainBusy = 3` and
  `RetainStable = 2`, as in the code, pruning takes place. The situation that
  `OneVersionServed` exempts (`CannotGoBack`, section 5) takes three failures, so in the run the
  exemption is never used; `DocCommitProofs` covers all bounds.
- *Reranker*: two replicas is the deployment. Each of them crashes at most once, so what is shown about
  recovery is after the last crash, which is what the leads-to properties ask for anyway. The one
  mishap is a warm-up that fails, or a model that moves to the CPU. Requests meet each other only
  at the round-robin index and the marks, which one request and the probe already change under
  each other; an instance with two requests and one crash was searched completely apart from the
  run (549,986 states).
- *Chat memory*: with one recent turn, compaction becomes possible at the second exchange and
  takes place up to twice over the result of the one before; the other request can overtake each of
  them. Four messages are where the limit starts to cut, one eviction takes either key. The
  same instance with 3 exchanges and 2 evictions was searched completely (7.2 million states).
- *Accounts*: two requests are a lookup or a check and the change that overlaps it; two users
  are the default administrator and the one it is replaced by; with one user per token a
  copy of the one can be outdated while the other's is not. The one failure is also the one start of
  main or of an archiver.
- *Code index*: two API requests and a script give the overlap that the lock prevents and the
  one it does not; the third run is the one that repairs. `code_search` takes one file, because
  its questions multiply the states; two runs give one under way and one before. Its limits are
  one and two, the wide ones included, which the code makes ten times the final one: so few
  leftovers of an earlier version are enough to fill a list.
- *Retrieval*: two recalls share one index; two documents give a signature that is read in two
  steps and two ranks to confuse; S3 takes two failures, one at the signature and one at the build.
- *Chunking*: four items are a heading, a section of two blocks that are packed or lent to each
  other, and the next section. The budgets are the smallest at which every branch is taken:
  a block is above, at and below each of them.
- *Embedding*: two callers and the warm-up share a batch of two or its successor.

Beyond these bounds TLC has searched with random behaviours, without a violation: `Accounts`
with 3 users, 3 tokens, 3 requests, 4 calls and 2 failures; `CodeIndex` with 5 runs, 3 edits and
3 failures; `CodeSearch` with 4 runs, 2 edits, 2 failures and 3 questions; `Retrieval` with 4 recalls
and 3 changes; `SessionStore` with 4 exchanges, 5 failures and 2 archivers; `ChatMemory` with 3
requests, 8 exchanges, 2 recent turns, a history of 8 messages and 3 evictions; `Chunking` with 6
items; 1 to 134 million states each. `DocCommit` was
searched completely with 3 failures, with 4 failures and 1 attempt, with 4 versions, 3
failures and 1 attempt, and with 2 versions, 4 failures and 3 attempts.

### Deadlock

`CHECK_DEADLOCK FALSE` is set where the bounds (exchanges, versions, calls, runs, edits,
failures) let a behaviour run out of things to do, and for `Chunking`, which ends: in the runs
of `SessionStore`, `DocCommit`, `Accounts`, `CodeIndex`, `CodeSearch`, `Retrieval`, `Chunking` and
`Embedding`. The runs of the gate, the reranker and the chat memory check it.

## 4. Fairness

- *Gate*: weak fairness of a woken recall, of the drain timer and recheck, and of the end of
  a swap: the operating system gives a thread the lock, and the commit's own calls have
  timeouts. Nothing is assumed of recalls; a recall may stay inside for ever, and the drain still ends.
  `QueuedServed` also uses that commits are finitely many (`MaxGeneration`): the code has no
  fairness against an endless series of commits.
- *Archiver*: a worker keeps running (`run()` loops and catches every exception). Nothing
  is assumed of requests.
- *Document commits*: threads and processes take their next step, main is restarted (compose
  restarts it), and HTTP attempts end by answer or timeout. The indexer's next ingest is not assumed.
- *Reranker*: a call returns or times out, the health loop goes on, a warm-up that was sent
  ends, well or not, and so does the minute after it. Nothing is assumed of restarts: `PoolRecovers`
  has as its premise that a replica stays up and, if it is not warm, its model is not on the CPU
  (`CanServe`), where every warm-up is refused until the actor restarts: a component whose
  replicas all end there stays degraded. That a warm-up succeeds is not assumed; failures are
  bounded by `MaxMishaps`. `PoolRecovers` holds although requests may keep a replica busy at every
  probe, because a degraded pool gets no requests.
- *Accounts*: only that a cached copy expires (`ExpireCopy`), which is Redis's TTL. Requests may
  stop anywhere, and the supervisor may never close the circuit.
- *Embedding*: the event loop and the inference thread go on, so batches close and are embedded
  (`Collect`, `Deadline`, `EncodeTexts`) and a warm-up takes its steps; the health loop repeats its
  probe and its interval passes. Nothing is assumed of callers, of their timeouts (`CallsEnd`
  does not need `GiveUp`) or of restarts. A warm-up is taken to be shorter than the 60
  seconds between two of them. `Recovers` excepts `device = "cpu"`: once a CUDA failure has moved the
  model to the CPU, `_require_expected_device` refuses every later warm-up until the actor restarts.

## 5. Where the code and its documentation disagree

These are behaviours of the code that TLC shows under other parameters or formulas than those of
the runs, and that the documentation (`readme.md`) says do not occur. The runs check what holds outside
them: the properties name each as an exception, or the bounds exclude it.

1. *Cold load against archiver.* `readme.md:891`: "A cache miss rebuilds from PG plus any
   still-pending exchange." A cold load reads PostgreSQL first and Pending second. An archiver
   that commits after the first read and acknowledges before the second moves an exchange past
   both; the loaded history, cached for everyone, lacks it. To see it: `MCSessionStore.cfg`
   with `MaxExchanges = 1`, `MaxFailures = 1`, `Ticks = {1}` and `INVARIANT ColdLoadComplete`.
2. *Retried commit.* `readme.md:1572`: "A failure before commit discards only candidates; a
   commit failure attempts to restore the previous alias/manifest before reopening the gate."
   The reply of a commit is lost; the retry is refused because the first attempt still holds
   the gate; the indexer does not see the commit yet, takes it for failed and deletes the
   collection, which the first attempt has meanwhile put behind the alias. To see it:
   `MCDocCommit.cfg` with `MaxVersion = 2`, `MaxFailures = 1`, `SPECIFICATION Spec` and
   `PROPERTY ActiveIndexKept`.
3. *Early end of the probe.* `readme.md:924-926`: "If one reranker replica fails during a request,
   the request retries another replica before falling back." The first good answer ends the
   probe and marks the other replica as timed out. If the replica that answered stops, a request
   has no other to retry. To see it: `MCRerankerPool.cfg` with `SPECIFICATION PoolSpec` and
   `PROPERTY RetriesAnother`.
4. *Overlapping requests.* `readme.md:797-800`: older messages "are merged into the rolling
   summary". The append adds its delta to the current count but writes the summary it built
   from an older one, so the compaction of the request that finished first is counted and
   forgotten. A code search is such a request too. To see it: `ExcludedRemembered` without its
   premise, in `MCChatMemory.cfg` with `MaxEvictions = 0` and `HistoryMax = 0`.
5. *Cold open.* `readme.md:891-895`: reads "never return a potentially stale PG-only history".
   After a miss `get_chat_session` returns the PostgreSQL row and not the pending state it has just
   cached; the next append puts the older summary on top of the newer count. It takes an eviction of
   the meta hash while an exchange waits for the archiver. To see it: `ExcludedRemembered` with the
   premise `"missed" \notin faults`, in `MCChatMemory.cfg` with `Requests = {q1}` and `HistoryMax = 0`.
6. *Rollback against retention.* `readme.md:1571`: "Old physical collections and S3 object versions
   remain available for rollback." An indexer dies after it created a collection; the next ingest's
   only commit attempt times out while main still runs it; the indexer sees the alias switched,
   takes the commit for done and prunes the previous collection; then a later write of that
   commit fails, and the rollback has nothing to go back to. The gate reopens with alias and
   manifest new and the keyword index old. To see it: `OneVersionServed` without `~CannotGoBack`,
   with `MaxVersion = 3`, `MaxFailures = 3`, `Attempts = 1`.
7. *Rollback that fails itself.* The code logs it and reopens the gate. `RollbackFails = TRUE`
   with `MaxVersion = 2` refutes `OneVersionServed`.
8. *Histories that are not whole.* `readme.md:797-800` again. The count is an offset into whatever
   list is loaded, and a compaction adds to it the number of messages it took from that list.
   Redis may evict the list's key alone, and `messages_cached` in the meta hash still lets the short
   list pass (`redis_session_store.py:320-324`): the offset then skips messages, and a compaction
   counts those that are left as if they were the oldest. To see it: `ExcludedRemembered` with
   the premise `"overtaken" \notin faults`, in `MCChatMemory.cfg` with `Requests = {q1}` and
   `HistoryMax = 0`. With `HISTORY_MAX_MESSAGES` above 0 the cut at `rag.py:662-664` takes the oldest
   messages away before the compaction, which counts as many others: the same without evictions,
   `HistoryMax = 4` and `MaxEvictions = 0`. And several exchanges that a cold read merges from Pending
   come in the order of `HVALS` (`redis_session_store.py:326-335, 668`), so compaction
   may take newer ones for older.

Observations of the same kind, about which no document says anything:

- Two exchanges may get the same sequence numbers: an append whose lock expired and the one that
  took the lock next both count from the same last number, or a cold load puts back a last number
  from before an append. The archiver's `ON CONFLICT DO NOTHING` then drops the one it comes to second, and
  after the cache has gone its messages are in neither store. To see it: `MCSessionStore.cfg` with
  `INVARIANT NumbersUnique`. `ExchangeKept` says that nothing else loses an exchange.
- An archiver's start ensures a default administrator as main's does, but compose gives it none of
  `AUTH_DEFAULT_ADMIN_*` (`compose.yaml:134-148`, against 950-952 for main): where main has
  another name configured, the archiver raises or creates the user of the default name and
  takes the rank of superuser from main's administrator, until main starts again. Main's cached
  copies say otherwise for their TTL.
- Where no start ensures an administrator (`AUTH_DEFAULT_ADMIN_ENABLED=0`), only the check of the
  last administrator keeps one, and two administrators can demote each other between their
  checks and writes: `MCAccounts.cfg` with `SPECIFICATION Spec`, `MaxFailures = 0` and `INVARIANT
  AdministratorKept`. The same gap is open for a user whom a start raises while a request that has
  passed its checks is about to demote or delete that user: the exception of `SuperuserKept`.
- A code-index run of the API that overlaps one of the script, with a file edited in
  between, may leave the row of a function without its point; a failed run leaves files
  that a search does not find until the next run. `IndexedIsFindable` and `RunRepairs` say what holds.
- A copy of rights is not found by an invalidation if its lookup stored it between the read
  of the index and its deletion; it lives for its TTL. So do the copies of before a restart or an
  archiver's start that changes the default administrator. `StaleIsKnown` names these cases.
- Reciprocal ranks prefer what both searches found only near the top: with lists of 100, as
  configured, a chunk at rank 62 or below in both may come after one that only one search found.
- If S3 fails when a recall takes its signature, the signature is Qdrant's and the index may be
  older or newer than it says: `KeywordsFresh` is about signatures of the directory or of S3.

## 6. Proofs

Every invariant that a run checks is a theorem too, and so are both refinements and the action
properties (`NoSwitchUnderRecalls`, `Hysteresis`): the run shows it on a small instance, the
theorem for all values of the constants. Each rests on an inductive invariant, which TLC
checked before it was proved. Assumptions on constants are the `ASSUME`s of the modules, which
TLC evaluates in the runs, and the ones named here.

`RequestGateProofs` (any finite set of recalls, any set of commits, any bound):
`GateInvariant` is the inductive invariant. `CommitAlone` alone is not inductive: a drain
that sees `active = 0` must know that the counter is the number of recalls inside, so the
invariant ties both counters to the threads' places, says that a commit holds the
gate exactly while the flag is set, that no two do, and that a thread sleeps only when its
condition does not hold. `GateCommitAlone`, `GateSnapshotCounts`,
`GateNoSleeperMissed` follow from it. `GateImplementsSection` shows that each step maps
to a step of `ExclusiveSection` or a stutter under reading = inside, pending = draining,
writing = exclusive. The only assumption is that the recalls are finitely many.

`SessionStoreProofs` (any requests, archivers, exchanges and failures): `StoreInvariant`,
then `StoreKeepsExchanges`, `StoreStateNotBehind`, `StoreDeletedStaysDeleted`.
What an archiver acknowledges must already be in PostgreSQL, so the invariant says of a
worker between commit and acknowledgement that its batch is archived, or collides, or the
session is gone; that payloads and references are only of committed exchanges; and that
the row's `archive_seq` bounds the numbers archived. `StoreKeepsExchanges` exempts an exchange whose
number another one has in PostgreSQL; that numbers are unique is not a theorem, for it is false
(section 5). `StoreNoDuplicates` adds that a request's
copies hold only committed exchanges: an append then adds one that no list has, and a merge,
sorted by exchange, has each of them once. `StoreImplementsLog` maps every step to one of
`SessionLog`. What makes it hold is again the clean batch: an acknowledgement settles exchanges
the archive already has. That a number collides is decided by the append, which may therefore
append and archive in one step.

`TextProofs`, `ChatMemory` (any requests, messages, evictions, recent turns and history limit):
`MemoryKeepsExcluded`, `MemoryKeepsPrompt` and `MemoryKeepsRecent`. Requests overlap, keys are evicted and
cold loads write back what is outdated; the theorems say which two faults it takes to lose
something, and section 5 shows that each of them does. The invariant `MemInv` therefore speaks of
every state a request may still come to read, not only of the current one: until a fault has happened the
meta hash, the PostgreSQL row, each pending state and the copies of requests and cold loads are covered by
their own summaries (`Covers`), though some are older than others. Of a request it says that its
history fits behind the count it read with and, unless it is marked as missing something, is the whole of
what follows it (`HistoryInv`), and that what it adds to the count leaves the latest turns
(`SparesInv`). The last part rests on the lemma `OlderIsPrefix`: the messages taken by compaction
are the oldest of the history, so that counting them, blank ones left out, identifies them.

`TextProofs`, `Chunking` (any blocks, headings and budgets that `ChunkingAssumption` admits, any
length of the document): `ChunkNothingLost`, `ChunkWithinBudget`, `ChunkPassage`,
`ChunkHeadingsOpen`. A run is a sequence of texts, each beginning where the one before it ends. Every
step of the chunker turns a run into runs over the same tokens: ends of units, packing, cuts by
tokens, cores, and what is lent to a neighbour. `ChunkInv` says that the cores and the open group
are one run over all tokens read (`Covered`), that a group is of one kind and within one section
(`Grouping`), and that a chunk borrows from neighbours of its own section, next to its core and
within the budget (`Lent`). A loop is a recursive function of the round; `RunExists` shows that
values satisfying the recursion exist, and `NatInd` is the induction over the round. For the
headings, `HeadingsInv` says that the stack holds the items read that no later one closed.

`DocCommitProofs` (any number of versions, attempts and failures, any retention; assumption
`~RollbackFails`): `DocOneVersionServed`, `DocNoSwitchUnderRecalls`,
`DocCommitAcknowledged`. `OneVersionServed` says nothing of the moment in which the gate is
shut, so the invariant `DInv` describes it: at most one job holds the gate (`OneHolds`), and
where that job stands says which of alias, manifest and keyword index are already the new
version's (`Phase`); what the indexer, the queue and the jobs know of versions is in
`IngestKnown`, `QueueKnown` and `JobsKnown`. For the acknowledgement, `AckInv` adds that the
previous collection is kept until the commit is known to be done, and that once a commit
is answered nothing left of its other attempts can undo it (`Settled`).

`AccountsProofs` (any users, tokens, requests, calls and failures, a finite set of users):
`AccountsSuperuserKept` and `AccountsStaleIsKnown`. For the first, `SInv` says that there is no second
superuser and that, while `settled`, there is one and what a request has checked of its target is
still true when it writes: only a start makes another superuser, and the start of main ends every request,
while an archiver's leaves requests alone and settles nothing if one of them is past its checks of
the user who is raised. Up to that case checks without a lock suffice. For the second, `CInv` says of every copy that nothing
excuses that it is in the index of its user, among the keys of each invalidation of that
user that has read the index, not of a user whose index is about to be deleted, and, if
outdated, about to be removed. Each step of the invalidation needs the part before it.

`RetrievalProofs` (any recalls, documents, changes and failures): `RetrievalKeywordsFresh`, and
`RetrievalLockInUse`, that no failure leaves the lock of the index behind. `RInv` says that a
signature lies between the documents at the beginning of the recall and those of now, that a
text being built is no older than the signature it is built for, and that the index
is no older than its own signature. A build replaces the index under the feet of recalls that
have just found it good, so its text must also be no older than the index it replaces and
than what any of them expects; only the holder of the lock builds.
`RetrievalAgreedFirst`, `RetrievalShownOnce` and `RetrievalDegradationReported` follow from
`AnswerInv`, which says at each stage what the answer owes: lists without repetition, the flags
of exactly what was left out, a fused list that was fused of the two hits. That agreement
wins is arithmetic (`AgreedIsAbove`): two shares of at least 1/121 exceed one of at most 1/61.

`CodeSearchProofs` (any finite sets of files and names, any requests, scripts, runs, edits,
failures and questions): `IndexTyped`, `IndexFindable`, `LoneRunRepairs` of `CodeIndex`,
`GraphClosed`, `NamedFound` of `CodeSearch`. PostgreSQL and Qdrant differ most of the time, so
`IndexInv` says who makes up for it: what has a row and no point is owed by a run that has not
ended (`Owed`), and where a run stands says what it owes. For the repair, `Lone` says at every
step of a run that nothing overlapped what it has made of both stores so far. `Whole` is the
foreign key seen from the other side: a row has all the functions of its content. `SearchInv` adds
what a question carries from one look to the next: the functions that have been in both stores all the
while are among its hits up to the list it shows, or that list is full; and while nothing
was indexed, those are all that are indexed.

`ActorProofs`: `EmbeddingOwnRow` (any callers, keys, batch sizes, calls, failures and restarts).
A row is right because its text stood in a batch of its kind: the invariant
says so of every queue, open batch and job, and that a text that carries the number of its
caller's last call is of the kind that call asked for, though the caller may have given up.
`PoolHysteresis` (any replicas, requests and thresholds): the counters of the component are the
length of the row of equal results that ends the history of results.

Only model-checked is every liveness property, for the proof system does not reason here about
fairness and ENABLED: `DrainEnds`, `QueuedServed`, `StreamDrains`, `IngestEnds`, `GateReopens`,
`RequestEnds`, `PoolRecovers`, `EventuallyCurrent`, `CallsEnd` and `Recovers`. Some definitions are
sets of results (`Sorted` in `SessionStore` and `Retrieval` is the set of sorted lists, which has
one member): the theorems say what holds of every result, and that there is one is left to the runs,
because it takes induction over data.

## 7. Plan

Modelled so far, in the order of importance: gate, sessions, chat memory, document commits,
reranker and health; then accounts, embedding, retrieval, chunking, code index and search.
What a continuation would take up:

1. Abstract specifications beside the two there are: one version of the documents that
   switches at once, implemented by `DocCommit`; rights that a change reaches, by `Accounts`.
2. The startup pipeline (section 8), as soon as its markers carry a run's id, so that there is
   something to check.
3. A composition of `ChatMemory` with the round trips of `SessionStore`, in which the sequence
   numbers of an overtaken append are followed further, if it stays within reach of TLC.
4. The prompt budget and intent routing, as pure functions.

## 8. Not modelled

- *Startup pipeline* (`scripts/startup_pipeline_state.py`, `docker/entrypoint.sh`,
  `compose.yaml`): files on a shared volume, written by shell and Python steps in the order of
  the compose file. Reading it shows what a model would start from: `wait_until_ready` takes
  a missing run id and a missing failed marker for equal, both empty, and ends at once
  (`startup_pipeline_state.py:61`); the health check only asks that the run id is not empty, so
  that of the last start will do; and a service started alone reads a stale run id.
- *Frontend*: views over the API; a late answer after a session switch is its hard case.
- *Configuration, LLM client, evaluation*: no state of their own. LLM settings are one row that
  is read and written whole: two administrators may lose an update.
- *Sessions*: rename, titles and the session list; the mode without Redis.
- *Accounts*: `AUTH_BOOTSTRAP_USERS`, which adds ordinary users at a start; `is_active`, which no
  handler clears.
- *Documents*: retention of S3 objects, the sync of a directory to S3, the payload of chunks.
- *Retrieval*: scores, tokenisation, metadata filters, a wrong vector size, a file deleted from
  the directory, the path of `hybrid_search` without the pipeline, the prompt budget, intent
  routing.
- *Chunking*: tables of fewer than three lines, code without a fence and empty fences.
- *Embedding and reranking*: the actor of the code index and that of an offline ingest, Ray's
  `max_concurrency`, local models instead of actors (off in the deployment), actor handles. Main
  keeps the handle it got, so the mark a failing embedding call leaves is never looked at.
- *Health*: the probes of Qdrant and Redis, which share the counters checked in `RerankerPool`; a
  probe thread that outlives its timeout.
- *Code index*: parsing; several repositories are indexed one after the other, each the same
  way; the list of callers and the files shown beside a search.
