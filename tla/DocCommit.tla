----------------------------- MODULE DocCommit -----------------------------
(***************************************************************************)
(* A document index version from its ingest to the moment recalls use it.  *)
(* The indexer process (VersionedS3DocumentIndexer.ingest with an HTTP     *)
(* committer) builds a Qdrant collection beside the live one and asks main *)
(* twice: to prepare the BM25S candidate, and to commit.  Main does both   *)
(* in a pool of two threads, the commit behind the retrieval gate.         *)
(*                                                                         *)
(* A version's number also names its collection and its S3 manifest; 0 is  *)
(* none.  Every attempt of an HTTP call is a job of its own in main, which *)
(* runs on when the indexer has stopped waiting for it.                    *)
(***************************************************************************)
EXTENDS Integers, FiniteSets, Sequences

CONSTANTS MaxVersion,   \* bound: versions ingested
          MaxFailures,  \* bound: lost replies, failing calls, crashes
          Attempts,     \* HTTPDocumentIndexCommitter.attempts (3 in the code)
          RetainBusy,   \* collections kept during an ingest (3 in the code)
          RollbackFails,\* whether the calls that undo a commit may fail as well
          RetainStable  \* collections kept after it (2 in the code)

ASSUME DocAssumption == /\ MaxVersion \in Nat \ {0} /\ MaxFailures \in Nat
                        /\ Attempts \in Nat \ {0}
                        /\ RollbackFails \in BOOLEAN
                        /\ RetainBusy \in Nat \ {0} /\ RetainStable \in Nat \ {0}

Versions == 1..MaxVersion
Kinds == {"prepare", "commit"}
Jobs == Versions \X Kinds \X (1..Attempts)

VARIABLES
    \* Qdrant and S3
    alias,        \* collection behind the stable alias
    collections,  \* version collections that exist
    manifest,     \* status in each version manifest
    active,       \* version in the active manifest
    \* main
    up,           \* the process runs
    bm25,         \* version of the BM25S index in memory
    candidate,    \* version of the prepared BM25S candidate
    shut,         \* the retrieval gate is closed
    queue,        \* jobs waiting for one of the two threads
    job,          \* state of every job
    \* the indexer
    ing,          \* the ingest in progress
    call,         \* its two HTTP calls: attempt and outcome
    failures      \* failures so far

stores  == <<alias, collections, manifest, active>>
index   == <<bm25, candidate>>
main    == <<up, index, shut, queue, job>>
indexer == <<ing, call>>
vars    == <<stores, main, indexer, failures>>

NoJob == [pc |-> "none", prev |-> 0, saved |-> 0]
NoCall == [k |-> 1, state |-> "none"]
Idle == [pc |-> "idle", version |-> 0, prev |-> 0]
Ended == {"ok", "refused", "lost"}

TypeOK ==
    /\ alias \in 0..MaxVersion /\ active \in 0..MaxVersion
    /\ collections \subseteq Versions
    /\ manifest \in [Versions -> {"none", "processing", "candidate", "active", "failed"}]
    /\ up \in BOOLEAN /\ shut \in BOOLEAN
    /\ bm25 \in 0..MaxVersion /\ candidate \in 0..MaxVersion
    /\ queue \in Seq(Jobs)
    /\ job \in [Jobs -> [pc : {"none", "queued", "build", "drain", "check", "switch",
                               "manifest", "verify", "version", "activate",
                               "undoAlias", "undoManifest"} \cup Ended,
                         prev : 0..MaxVersion, saved : 0..MaxVersion]]
    /\ ing \in [pc : {"idle", "prune", "create", "embed", "prepared", "commit", "check",
                      "discard", "fail", "delete", "cleanup"},
                version : 0..MaxVersion, prev : 0..MaxVersion]
    /\ call \in [Kinds -> [k : 1..Attempts, state : {"none", "sent", "ok", "failed"}]]
    /\ failures \in 0..MaxFailures

\* No document was ever indexed, or version 1 is live.
Init ==
    \E first \in {0, 1} :
        /\ alias = first /\ active = first /\ bm25 = first
        /\ collections = {first} \ {0}
        /\ manifest = [v \in Versions |-> IF v = first THEN "active" ELSE "none"]
        /\ up = TRUE /\ candidate = 0 /\ shut = FALSE
        /\ queue = <<>> /\ job = [j \in Jobs |-> NoJob]
        /\ ing = Idle /\ call = [kind \in Kinds |-> NoCall]
        /\ failures = 0

CanFail == failures < MaxFailures
Fail == failures' = failures + 1
\* A step goes well, or goes wrong and takes the other way.
Either(good, bad) == \/ good /\ UNCHANGED failures
                     \/ bad /\ CanFail /\ Fail

-----------------------------------------------------------------------------
\* HTTPDocumentIndexCommitter._post

\* A request reaches main's pool, or finds no main.
Send(kind, k, version, prev) ==
    LET j == <<version, kind, k>>
    IN  /\ call' = [call EXCEPT ![kind] = [k |-> k, state |-> "sent"]]
        /\ job' = [job EXCEPT ![j] = [pc |-> IF up THEN "queued" ELSE "lost",
                                      prev |-> prev, saved |-> 0]]
        /\ queue' = IF up THEN Append(queue, j) ELSE queue

Outcome(kind) == job[<<ing.version, kind, call[kind].k>>].pc

\* An answer: 200, or the 409 that is not retried.
ReplyOnlyOK(kind) ==
    /\ call[kind].state = "sent" /\ Outcome(kind) = "ok"
    /\ call' = [call EXCEPT ![kind].state = "ok"]
    /\ UNCHANGED <<stores, main, ing, failures>>
Reply(kind) ==
    /\ call[kind].state = "sent" /\ Outcome(kind) \in {"ok", "refused"}
    /\ call' = [call EXCEPT ![kind].state = IF Outcome(kind) = "ok" THEN "ok" ELSE "failed"]
    /\ UNCHANGED <<stores, main, ing, failures>>

\* A timeout or a broken connection: the next attempt, or the last one has failed.
\* The job it was about goes on if main lives.
AttemptFails(kind) ==
    /\ call[kind].state = "sent"
    /\ \/ Outcome(kind) = "lost" /\ UNCHANGED failures
       \/ CanFail /\ Fail
    /\ IF call[kind].k < Attempts
       THEN Send(kind, call[kind].k + 1, ing.version, ing.prev)
       ELSE /\ call' = [call EXCEPT ![kind].state = "failed"]
            /\ UNCHANGED <<queue, job>>
    /\ UNCHANGED <<stores, up, index, shut, ing>>

-----------------------------------------------------------------------------
\* The indexer

At(label) == ing' = [ing EXCEPT !.pc = label] /\ UNCHANGED call
EndRun == ing' = Idle /\ call' = [kind \in Kinds |-> NoCall]

\* The scan found changes: a processing manifest, and the prepare call in its thread.
\* The reads of the alias and the active manifest, and the first write, are one step.
Ingest ==
    /\ ing.pc = "idle"
    /\ \E v \in Versions :
         /\ manifest[v] = "none" /\ \A u \in 1..(v - 1) : manifest[u] # "none"
         /\ manifest' = [manifest EXCEPT ![v] = "processing"]
         /\ ing' = [pc |-> "prune", version |-> v, prev |-> alias]
         /\ Send("prepare", 1, v, alias)
    /\ UNCHANGED <<alias, collections, active, up, index, shut, failures>>

\* Qdrant drops the aliases of a collection it deletes.
DropCollections(dropped) ==
    /\ collections' = collections \ dropped
    /\ alias' = IF alias \in dropped THEN 0 ELSE alias

\* _prune_qdrant_versions: the newest collections, counting the active one.
Prune(retain, kept) ==
    LET room(c) == Cardinality({kept} \ {0}) + Cardinality({d \in collections \ {kept} : d > c})
    IN  DropCollections({c \in collections \ {kept} : room(c) >= retain})

\* Retention during the ingest.  Outside the try block: an error ends the run.
PruneBefore ==
    /\ ing.pc = "prune"
    /\ Either(Prune(RetainBusy, ing.prev) /\ At("create"),
              UNCHANGED <<collections, alias>> /\ EndRun)
    /\ UNCHANGED <<manifest, active, main>>

CreateCollection ==
    /\ ing.pc = "create"
    /\ Either(collections' = collections \cup {ing.version} /\ At("embed"),
              UNCHANGED collections /\ At("check"))
    /\ UNCHANGED <<alias, manifest, active, main>>

\* Copy, embed, compare the chunk counts, and write the candidate manifest.
Embed ==
    /\ ing.pc = "embed"
    /\ Either(manifest' = [manifest EXCEPT ![ing.version] = "candidate"] /\ At("prepared"),
              UNCHANGED manifest /\ At("check"))
    /\ UNCHANGED <<alias, collections, active, main>>

\* bm25_future.result(), then committer.commit().
AwaitPrepare ==
    /\ ing.pc = "prepared" /\ call["prepare"].state \in {"ok", "failed"}
    /\ IF call["prepare"].state = "ok"
       THEN ing' = [ing EXCEPT !.pc = "commit"] /\ Send("commit", 1, ing.version, ing.prev)
       ELSE At("check") /\ UNCHANGED <<queue, job>>
    /\ UNCHANGED <<stores, up, index, shut, failures>>

AwaitCommit ==
    /\ ing.pc = "commit" /\ call["commit"].state \in {"ok", "failed"}
    /\ At(IF call["commit"].state = "ok" THEN "cleanup" ELSE "check")
    /\ UNCHANGED <<stores, main, failures>>

\* The except branch: was the commit made although no answer says so?
CommitVisible == alias = ing.version /\ active = ing.version
CheckVisible ==
    /\ ing.pc = "check"
    /\ At(IF CommitVisible THEN "cleanup" ELSE "discard")
    /\ UNCHANGED <<stores, main, failures>>

\* Wait for the prepare call, then discard the candidate (or log that it failed).
Discard ==
    /\ ing.pc = "discard" /\ call["prepare"].state \in {"ok", "failed"}
    /\ IF up THEN Either(candidate' = IF candidate = ing.version THEN 0 ELSE candidate,
                         UNCHANGED candidate)
             ELSE UNCHANGED <<candidate, failures>>
    /\ At("fail")
    /\ UNCHANGED <<stores, up, bm25, shut, queue, job>>

MarkFailed ==
    /\ ing.pc = "fail"
    /\ manifest' = [manifest EXCEPT ![ing.version] = "failed"]
    /\ At("delete")
    /\ UNCHANGED <<alias, collections, active, main, failures>>

\* The new collection goes, and the run ends with the exception.
DeleteCandidate ==
    /\ ing.pc = "delete"
    /\ DropCollections({ing.version})
    /\ EndRun
    /\ UNCHANGED <<manifest, active, main, failures>>

\* Retention after the commit; an error is only logged.
PruneAfter ==
    /\ ing.pc = "cleanup"
    /\ Either(Prune(RetainStable, ing.version), UNCHANGED <<collections, alias>>)
    /\ EndRun
    /\ UNCHANGED <<manifest, active, main>>

\* The process is killed; what it asked of main goes on.
IndexerDies ==
    /\ ing.pc # "idle" /\ CanFail /\ Fail
    /\ EndRun
    /\ UNCHANGED <<stores, main>>

-----------------------------------------------------------------------------
\* main: the two threads of document_commit_executor

Step(j, label) == job' = [job EXCEPT ![j].pc = label]
Running == {j \in Jobs : job[j].pc \notin {"none", "queued"} \cup Ended}

\* A free thread takes the oldest job; a commit that finds the gate closed is refused.
StartJob ==
    /\ queue # <<>> /\ Cardinality(Running) < 2
    /\ LET j == Head(queue)
       IN  CASE j[2] = "prepare" -> Step(j, "build") /\ UNCHANGED shut
             [] j[2] = "commit" /\ shut -> Step(j, "refused") /\ UNCHANGED shut
             [] OTHER -> Step(j, "drain") /\ shut' = TRUE
    /\ queue' = Tail(queue)
    /\ UNCHANGED <<stores, up, index, indexer, failures>>

\* prepare_bm25_candidate: build from the version manifest, then take the only place.
PrepareCandidate(j) ==
    /\ job[j].pc = "build"
    /\ Either(IF candidate \in {0, j[1]} THEN candidate' = j[1] /\ Step(j, "ok")
                                         ELSE UNCHANGED candidate /\ Step(j, "refused"),
              UNCHANGED candidate /\ Step(j, "refused"))
    /\ UNCHANGED <<stores, up, bm25, shut, queue, indexer>>

\* RetrievalRequestGate: the recalls leave, or the drain times out and it reopens.
DrainOverrun(j) ==
    /\ job[j].pc = "drain"
    /\ Step(j, "check")
    /\ Either(UNCHANGED shut, shut' = FALSE)
    /\ UNCHANGED <<stores, up, index, queue, indexer>>
Drain(j) ==
    /\ job[j].pc = "drain"
    /\ Either(Step(j, "check") /\ UNCHANGED shut, Step(j, "refused") /\ shut' = FALSE)
    /\ UNCHANGED <<stores, up, index, queue, indexer>>

\* commit_prepared_version, under the gate.  The checks; a version already served
\* is answered at once; and the manifest to restore is looked up.
Acceptable(j) == /\ manifest[j[1]] \in {"candidate", "active"}
                 /\ j[1] \in collections
                 /\ alias \in {job[j].prev, j[1]}
Previous(prev) == IF active = prev \/ (prev # 0 /\ manifest[prev] # "none") THEN prev ELSE 0
CheckLeavesShut(j) ==
    /\ job[j].pc = "check"
    /\ IF Acceptable(j)
       THEN IF alias = j[1] /\ bm25 = j[1]
            THEN Step(j, "ok") /\ UNCHANGED shut
            ELSE /\ job' = [job EXCEPT ![j].pc = "switch",
                                       ![j].saved = Previous(job[j].prev)]
                 /\ UNCHANGED shut
       ELSE Step(j, "refused") /\ UNCHANGED shut
    /\ UNCHANGED <<stores, up, index, queue, indexer, failures>>
Check(j) ==
    /\ job[j].pc = "check"
    /\ IF Acceptable(j)
       THEN IF alias = j[1] /\ bm25 = j[1]
            THEN Step(j, "ok") /\ shut' = FALSE
            ELSE /\ job' = [job EXCEPT ![j].pc = "switch",
                                       ![j].saved = Previous(job[j].prev)]
                 /\ UNCHANGED shut
       ELSE Step(j, "refused") /\ shut' = FALSE
    /\ UNCHANGED <<stores, up, index, queue, indexer, failures>>

\* A write of the commit: done; failed; or done although the caller saw it fail.
Write(j, write, skip, next) ==
    \/ write /\ Step(j, next) /\ UNCHANGED failures
    \/ (write \/ skip) /\ Step(j, "undoAlias") /\ CanFail /\ Fail

\* _switch_alias: an alias cannot be created for a collection that is gone.
SwitchAlias(j) ==
    /\ job[j].pc = "switch"
    /\ IF j[1] \in collections
       THEN Write(j, alias' = j[1], UNCHANGED alias, "manifest")
       ELSE Step(j, "undoAlias") /\ UNCHANGED <<alias, failures>>
    /\ UNCHANGED <<collections, manifest, active, up, index, shut, queue, indexer>>

WriteActive(j) ==
    /\ job[j].pc = "manifest"
    /\ Write(j, active' = j[1], UNCHANGED active, "verify")
    /\ UNCHANGED <<alias, collections, manifest, up, index, shut, queue, indexer>>

Verify(j) ==
    /\ job[j].pc = "verify"
    /\ Step(j, IF alias = j[1] /\ active = j[1] THEN "version" ELSE "undoAlias")
    /\ UNCHANGED <<stores, up, index, shut, queue, indexer, failures>>

WriteVersion(j) ==
    /\ job[j].pc = "version"
    /\ Write(j, manifest' = [manifest EXCEPT ![j[1]] = "active"], UNCHANGED manifest,
             "activate")
    /\ UNCHANGED <<alias, collections, active, up, index, shut, queue, indexer>>

\* activate_bm25_candidate, and the gate reopens.
Activate(j) ==
    /\ job[j].pc = "activate"
    /\ IF j[1] \in {bm25, candidate}
       THEN /\ Step(j, "ok") /\ shut' = FALSE
            /\ IF bm25 = j[1] THEN UNCHANGED index ELSE bm25' = j[1] /\ candidate' = 0
       ELSE Step(j, "undoAlias") /\ UNCHANGED <<index, shut>>
    /\ UNCHANGED <<stores, up, queue, indexer, failures>>

\* The except branch: the alias, if it is this version's, goes back ...
UndoAlias(j) ==
    /\ job[j].pc = "undoAlias"
    /\ IF alias = j[1] /\ (job[j].prev # 0 => job[j].prev \in collections)
       THEN \/ alias' = job[j].prev /\ Step(j, "undoManifest") /\ UNCHANGED <<shut, failures>>
            \/ /\ RollbackFails /\ CanFail /\ Fail /\ Step(j, "refused") /\ shut' = FALSE /\ UNCHANGED alias
       ELSE /\ UNCHANGED <<alias, failures>>
            /\ IF alias # j[1] THEN Step(j, "undoManifest") /\ UNCHANGED shut
                               ELSE Step(j, "refused") /\ shut' = FALSE
    /\ UNCHANGED <<collections, manifest, active, up, index, queue, indexer>>

\* ... and so does the active manifest.
UndoNothing(j) ==
    /\ job[j].pc = "undoManifest"
    /\ Step(j, "refused") /\ shut' = FALSE
    /\ UNCHANGED <<stores, up, index, queue, indexer, failures>>
UndoSwallowed(j) ==
    /\ job[j].pc = "undoManifest"
    /\ Step(j, "ok") /\ shut' = FALSE /\ active' = job[j].saved
    /\ UNCHANGED <<alias, collections, manifest, up, index, queue, indexer, failures>>
UndoManifest(j) ==
    /\ job[j].pc = "undoManifest"
    /\ Step(j, "refused") /\ shut' = FALSE
    /\ Either(active' = job[j].saved, RollbackFails /\ UNCHANGED active)
    /\ UNCHANGED <<alias, collections, manifest, up, index, queue, indexer>>

\* main dies with its index, its candidate, its gate and its jobs ...
MainDies ==
    /\ up /\ CanFail /\ Fail
    /\ up' = FALSE /\ bm25' = 0 /\ candidate' = 0 /\ shut' = FALSE /\ queue' = <<>>
    /\ job' = [j \in Jobs |-> IF job[j].pc \in {"none"} \cup Ended THEN job[j]
                              ELSE [job[j] EXCEPT !.pc = "lost"]]
    /\ UNCHANGED <<stores, indexer>>

\* ... and starts again: reconcile_active_manifest makes the manifest follow the
\* alias, and rebuild_bm25_index builds the index before requests are served.
Reconciled == IF alias = 0 THEN active ELSE alias
Restart ==
    /\ ~up /\ up' = TRUE
    /\ active' = Reconciled
    /\ manifest' = IF active' = active THEN manifest
                   ELSE [manifest EXCEPT ![active'] = "active"]
    /\ bm25' = IF alias = 0 THEN 0 ELSE active'
    /\ UNCHANGED <<alias, collections, candidate, shut, queue, job, indexer, failures>>

\* A recall finds the index in memory is not the active manifest's, and rebuilds it
\* (_ensure_bm25_index).
Recall ==
    /\ up /\ ~shut /\ active \notin {0, bm25}
    /\ bm25' = active
    /\ UNCHANGED <<stores, up, candidate, shut, queue, job, indexer, failures>>

-----------------------------------------------------------------------------
JobStep(j) == \/ PrepareCandidate(j) \/ Drain(j) \/ Check(j) \/ SwitchAlias(j)
              \/ WriteActive(j) \/ Verify(j) \/ WriteVersion(j) \/ Activate(j)
              \/ UndoAlias(j) \/ UndoManifest(j)
ClientStep == \E kind \in Kinds : Reply(kind) \/ AttemptFails(kind)
IngestStep == \/ PruneBefore \/ CreateCollection \/ Embed \/ AwaitPrepare \/ AwaitCommit
              \/ CheckVisible \/ Discard \/ MarkFailed \/ DeleteCandidate \/ PruneAfter

Next == \/ Ingest \/ IngestStep \/ IndexerDies \/ ClientStep
        \/ StartJob \/ (\E j \in Jobs : JobStep(j))
        \/ MainDies \/ Restart \/ Recall

Spec == Init /\ [][Next]_vars

\* Threads and processes keep running, main's container is restarted, and recalls
\* end (the gate is a module of its own).
Fairness == /\ WF_vars(IngestStep) /\ WF_vars(ClientStep)
            /\ WF_vars(StartJob) /\ \A j \in Jobs : WF_vars(JobStep(j))
            /\ WF_vars(Restart)
FairSpec == Spec /\ Fairness

-----------------------------------------------------------------------------
\* A commit failed after the switch, and retention has meanwhile taken the collection
\* that its rollback would have gone back to: the alias stays where it is.
CannotGoBack == \E j \in Jobs : /\ job[j].pc = "refused" /\ job[j].saved # 0
                                /\ alias = j[1] /\ job[j].prev \notin collections

\* What a recall that is let in combines is one version: the collection behind the
\* alias, the active manifest and the BM25S index in memory, whichever commit was
\* cut short by a failing write, a crash of main or a retried request before, as
\* long as there is a collection to go back to.
OneVersionServed ==
    up /\ ~shut /\ alias # 0 /\ ~CannotGoBack => active = alias /\ bm25 = alias

\* While the gate is open nobody replaces the index under the recalls.
NoSwitchUnderRecalls ==
    [][up /\ ~shut /\ up' /\ ~shut' => alias' \in {alias, 0} /\ (bm25' # bm25 => bm25' = active)]_vars

\* An answer 200 to the commit is final: main serves the new version when the
\* indexer reads it, however many attempts are still under way.
CommitAcknowledged ==
    call["commit"].state = "ok" => alias = ing.version /\ active = ing.version

\* Every ingest ends, whatever is lost, and the gate reopens.
IngestEnds == ing.pc # "idle" ~> ing.pc = "idle"
GateReopens == shut ~> ~shut

\* The active alias target is among the collections that are kept: no step of an
\* ingest takes the collection away that recalls are served from.
ActiveIndexKept == [][alias # 0 => alias \in collections']_vars
=============================================================================
