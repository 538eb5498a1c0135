-------------------------- MODULE DocCommitProofs --------------------------
(***************************************************************************)
(* Recalls that are let in are served one version, nothing is switched     *)
(* under them, and an answer 200 to a commit is final: for any number of   *)
(* versions, attempts, kept collections, crashes and failing calls, as     *)
(* long as the calls of a rollback succeed.                                *)
(***************************************************************************)
EXTENDS DocCommit, TLAPS

JobPCs == {"none", "queued", "build", "drain", "check", "switch", "manifest", "verify",
           "version", "activate", "undoAlias", "undoManifest"} \cup Ended
JobRecords == [pc : JobPCs, prev : 0..MaxVersion, saved : 0..MaxVersion]
IngestPCs == {"idle", "prune", "create", "embed", "prepared", "commit", "check",
              "discard", "fail", "delete", "cleanup"}
IngestRecords == [pc : IngestPCs, version : 0..MaxVersion, prev : 0..MaxVersion]
CallRecords == [k : 1..Attempts, state : {"none", "sent", "ok", "failed"}]

(* The phases of a commit that holds the gate: before its first write, while what is *)
(* served may be a mixture, and the two steps of its rollback.                        *)
Waiting == {"drain", "check"}
Forward == {"switch", "manifest", "verify", "version", "activate"}
Writing == Forward \cup {"undoAlias", "undoManifest"}
Holding == Waiting \cup Writing
Asked(j) == job[j].pc # "none"
Known(v) == v # 0 => manifest[v] # "none"

(* Who was asked for what.  An attempt that was not sent yet is not a job, all       *)
(* attempts for a version go back to the same previous one, and that one existed      *)
(* before the version was ingested, so that no ingest creates its collection again.   *)
SentOf(kind) == IF call[kind].state = "none" THEN 0 ELSE call[kind].k
JobsKnown ==
    \A j \in Jobs : Asked(j) =>
        /\ manifest[j[1]] # "none" /\ Known(job[j].prev)
        /\ job[j].prev # j[1]
        /\ \A i \in Jobs : Asked(i) /\ i[1] = j[1] => job[i].prev = job[j].prev
IngestKnown ==
    IF ing.pc = "idle" THEN \A kind \in Kinds : call[kind].state = "none"
    ELSE /\ ing.version \in Versions /\ manifest[ing.version] # "none"
         /\ Known(ing.prev) /\ ing.prev # ing.version
         /\ ing.pc \in {"prune", "create", "embed", "prepared"} => call["commit"].state = "none"
         /\ \A j \in Jobs :
              /\ Asked(j) => job[j].prev # ing.version
              /\ Asked(j) /\ j[1] = ing.version => job[j].prev = ing.prev
              /\ j[1] = ing.version /\ j[3] > SentOf(j[2]) => ~Asked(j)
StoresKnown == Known(alias) /\ (alias # 0 => alias \in collections)
QueueKnown ==
    /\ ~up => queue = <<>>
    /\ \A a \in 1..Len(queue) :
         /\ job[queue[a]].pc = "queued"
         /\ \A b \in 1..Len(queue) : queue[a] = queue[b] => a = b

(* Only one job holds the gate, and the gate stays shut for it. *)
OneHolds ==
    \A j \in Jobs : job[j].pc \in Holding =>
        /\ up /\ shut
        /\ \A i \in Jobs : job[i].pc \in Holding => i = j

(* The versions whose rollback is impossible, and what OneVersionServed says. *)
Stuck == {v \in Versions : \E i \in Jobs : /\ job[i].pc = "refused" /\ job[i].saved # 0
                                           /\ v = i[1] /\ job[i].prev \notin collections}
OneVersion == alias # 0 /\ alias \notin Stuck => active = alias /\ bm25 = alias

(* What a commit of v that came from p can go back to. *)
Back(v, p) == p # 0 => bm25 = p \/ p \in Stuck \/ v \in Stuck
Phase(j) ==
    LET v == j[1]  p == job[j].prev  pc == job[j].pc
    IN  pc \in Writing =>
          /\ job[j].saved = p /\ Back(v, p)
          /\ pc \in {"switch", "undoAlias"} => alias \in {0, p, v}
          /\ pc \in {"manifest", "verify", "version", "activate"} => alias \in {0, v}
          /\ pc \in {"version", "activate"} => active = v
          /\ pc = "undoManifest" => alias \in {0, p}
DInv ==
    /\ TypeOK
    /\ JobsKnown /\ IngestKnown /\ StoresKnown /\ QueueKnown /\ OneHolds
    /\ \A j \in Jobs : Phase(j)
    /\ up /\ (\A j \in Jobs : job[j].pc \notin Writing) => OneVersion
-----------------------------------------------------------------------------
(* Types                                                                     *)
LEMMA JobParts ==
  /\ \A j \in Jobs : j[1] \in Versions /\ j[2] \in Kinds /\ j[3] \in 1..Attempts
                     /\ j[1] # 0 /\ j[1] \in 0..MaxVersion
  /\ \A v \in Versions, kind \in Kinds, k \in 1..Attempts :
       LET j == <<v, kind, k>> IN j \in Jobs /\ j[1] = v /\ j[2] = kind /\ j[3] = k
<1> USE DocAssumption
<1>1. \A v \in Versions : v # 0 /\ v \in 0..MaxVersion
  BY DEF Versions
<1> QED
  BY <1>1 DEF Jobs

LEMMA StepFacts ==
  ASSUME job \in [Jobs -> JobRecords], NEW j \in Jobs, NEW label \in JobPCs,
         job' = [job EXCEPT ![j].pc = label]
  PROVE  /\ job' \in [Jobs -> JobRecords]
         /\ job'[j].pc = label /\ job'[j].prev = job[j].prev /\ job'[j].saved = job[j].saved
         /\ \A i \in Jobs : i # j => job'[i] = job[i]
<1>1. [job[j] EXCEPT !.pc = label] \in JobRecords
  BY DEF JobRecords
<1>2. job' = [job EXCEPT ![j] = [job[j] EXCEPT !.pc = label]]
  OBVIOUS
<1> HIDE DEF JobRecords
<1>3. job' \in [Jobs -> JobRecords] /\ \A i \in Jobs : i # j => job'[i] = job[i]
  BY <1>1, <1>2
<1>4. job'[j] = [job[j] EXCEPT !.pc = label]
  BY <1>2
<1>5. job[j] \in JobRecords
  OBVIOUS
<1> QED
  BY <1>3, <1>4, <1>5 DEF JobRecords

LEMMA SendFacts ==
  ASSUME TypeOK, NEW kind \in Kinds, NEW k \in 1..Attempts, NEW v \in Versions,
         NEW prev \in 0..MaxVersion,
         call' = [call EXCEPT ![kind] = [k |-> k, state |-> "sent"]],
         job' = [job EXCEPT ![<<v, kind, k>>] = [pc |-> IF up THEN "queued" ELSE "lost",
                                                 prev |-> prev, saved |-> 0]]
  PROVE  LET j == <<v, kind, k>> IN
         /\ j \in Jobs /\ j[1] = v /\ j[2] = kind /\ j[3] = k
         /\ job' \in [Jobs -> JobRecords] /\ call' \in [Kinds -> CallRecords]
         /\ job'[j].pc = (IF up THEN "queued" ELSE "lost")
         /\ job'[j].prev = prev /\ job'[j].saved = 0
         /\ \A i \in Jobs : i # j => job'[i] = job[i]
         /\ call'[kind].k = k /\ call'[kind].state = "sent"
         /\ \A other \in Kinds : other # kind => call'[other] = call[other]
<1> USE DocAssumption
<1> DEFINE j == <<v, kind, k>>
           r == [pc |-> IF up THEN "queued" ELSE "lost", prev |-> prev, saved |-> 0]
           c == [k |-> k, state |-> "sent"]
<1>1. j \in Jobs
  BY JobParts
<1>8. j[1] = v /\ j[2] = kind /\ j[3] = k
  OBVIOUS
<1>2. r \in JobRecords /\ c \in CallRecords
  BY DEF JobRecords, JobPCs, Ended, CallRecords
<1>3. job' = [job EXCEPT ![j] = r] /\ call' = [call EXCEPT ![kind] = c]
  OBVIOUS
<1>4. job \in [Jobs -> JobRecords] /\ call \in [Kinds -> CallRecords]
  BY DEF TypeOK, JobRecords, JobPCs, CallRecords
<1>5. r.pc = (IF up THEN "queued" ELSE "lost") /\ r.prev = prev /\ r.saved = 0
      /\ c.k = k /\ c.state = "sent"
  OBVIOUS
<1> HIDE DEF r, c, j
<1>6. job' \in [Jobs -> JobRecords] /\ job'[j] = r /\ \A i \in Jobs : i # j => job'[i] = job[i]
  BY <1>1, <1>2, <1>3, <1>4
<1>7. call' \in [Kinds -> CallRecords] /\ call'[kind] = c
      /\ \A other \in Kinds : other # kind => call'[other] = call[other]
  BY <1>2, <1>3, <1>4
<1> QED
  BY <1>1, <1>5, <1>6, <1>7, <1>8, Zenon DEF j

LEMMA AtFacts ==
  ASSUME ing \in IngestRecords, NEW label \in IngestPCs, ing' = [ing EXCEPT !.pc = label]
  PROVE  /\ ing' \in IngestRecords
         /\ ing'.pc = label /\ ing'.version = ing.version /\ ing'.prev = ing.prev
BY DEF IngestRecords

LEMMA EndRunFacts ==
  ASSUME EndRun
  PROVE  /\ ing' \in IngestRecords /\ call' \in [Kinds -> CallRecords]
         /\ ing'.pc = "idle" /\ \A kind \in Kinds : call'[kind].state = "none"
<1> USE DocAssumption
<1>1. NoCall \in CallRecords /\ NoCall.state = "none"
  BY DEF NoCall, CallRecords
<1> QED
  BY <1>1 DEF EndRun, Idle, IngestRecords, IngestPCs

LEMMA DropFacts ==
  ASSUME TypeOK, NEW dropped, collections' = collections \ dropped,
         alias' = IF alias \in dropped THEN 0 ELSE alias
  PROVE  /\ collections' \subseteq collections /\ alias' \in 0..MaxVersion
         /\ alias' \in {0, alias}
         /\ (alias # 0 => alias \in collections) => (alias' # 0 => alias' \in collections')
BY DocAssumption DEF TypeOK

(* TypeOK with its record sets named. *)
Typed ==
    /\ alias \in 0..MaxVersion /\ active \in 0..MaxVersion
    /\ collections \subseteq Versions
    /\ manifest \in [Versions -> {"none", "processing", "candidate", "active", "failed"}]
    /\ up \in BOOLEAN /\ shut \in BOOLEAN
    /\ bm25 \in 0..MaxVersion /\ candidate \in 0..MaxVersion
    /\ queue \in Seq(Jobs) /\ job \in [Jobs -> JobRecords]
    /\ ing \in IngestRecords /\ call \in [Kinds -> CallRecords]
    /\ failures \in 0..MaxFailures

LEMMA TypedIsTypeOK == (Typed <=> TypeOK) /\ (Typed' <=> TypeOK')
<1>1. Typed <=> TypeOK
  BY DEF Typed, TypeOK, JobRecords, JobPCs, IngestRecords, IngestPCs, CallRecords
<1>2. Typed' <=> TypeOK'
  BY DEF Typed, TypeOK, JobRecords, JobPCs, IngestRecords, IngestPCs, CallRecords
<1> QED
  BY <1>1, <1>2

(* The first index version is of the types the variables keep. *)
THEOREM InitTypeOK == Init => TypeOK
<1> SUFFICES ASSUME Init PROVE Typed
  BY TypedIsTypeOK
<1> USE DocAssumption
<1>1. PICK first \in {0, 1} :
        /\ alias = first /\ active = first /\ bm25 = first /\ collections = {first} \ {0}
        /\ manifest = [v \in Versions |-> IF v = first THEN "active" ELSE "none"]
        /\ up = TRUE /\ candidate = 0 /\ shut = FALSE /\ queue = <<>>
        /\ job = [j \in Jobs |-> NoJob] /\ ing = Idle
        /\ call = [kind \in Kinds |-> NoCall] /\ failures = 0
  BY DEF Init
<1>2. job \in [Jobs -> JobRecords] /\ call \in [Kinds -> CallRecords] /\ ing \in IngestRecords
  <2>1. NoJob \in JobRecords /\ NoCall \in CallRecords /\ Idle \in IngestRecords
    BY DEF NoJob, NoCall, Idle, JobRecords, JobPCs, CallRecords, IngestRecords, IngestPCs
  <2> QED
    BY <1>1, <2>1
<1>3. queue \in Seq(Jobs)
  BY <1>1
<1>4. alias \in 0..MaxVersion /\ collections \subseteq Versions
      /\ manifest \in [Versions -> {"none", "processing", "candidate", "active", "failed"}]
  BY <1>1 DEF Versions
<1>5. active \in 0..MaxVersion /\ bm25 \in 0..MaxVersion /\ candidate \in 0..MaxVersion
  BY <1>1
<1>6. up \in BOOLEAN /\ shut \in BOOLEAN
  BY <1>1, Zenon
<1>7. failures \in 0..MaxFailures
  BY <1>1
<1> QED
  BY <1>2, <1>3, <1>4, <1>5, <1>6, <1>7 DEF Typed

-----------------------------------------------------------------------------
(* The indexer                                                               *)
ManifestGrows == \A v \in Versions : manifest[v] # "none" => manifest'[v] # "none"

LEMMA StaysKnown ==
  ASSUME ManifestGrows, NEW v \in 0..MaxVersion, Known(v)
  PROVE  v # 0 => manifest'[v] # "none"
BY DocAssumption DEF ManifestGrows, Known, Versions

LEMMA JobTyped ==
  ASSUME TypeOK, NEW j \in Jobs
  PROVE  job[j].prev \in 0..MaxVersion /\ job[j].saved \in 0..MaxVersion /\ job[j].pc \in JobPCs
<1>1. job[j] \in JobRecords
  BY TypedIsTypeOK DEF Typed
<1> QED
  BY <1>1 DEF JobRecords

LEMMA AskedStaysKnown ==
  ASSUME TypeOK, JobsKnown, ManifestGrows, NEW j \in Jobs, Asked(j)
  PROVE  manifest'[j[1]] # "none" /\ (job[j].prev # 0 => manifest'[job[j].prev] # "none")
BY JobParts, JobTyped, StaysKnown DEF JobsKnown, ManifestGrows

(* No step of the indexer makes a rollback possible again: it creates no collection *)
(* that a commit would go back to.                                                    *)
LEMMA IndexerMoves ==
  ASSUME DInv, UNCHANGED <<active, up, bm25, shut, queue, job>>, TypeOK', IngestKnown',
         ManifestGrows, alias' \in {0, alias}, alias' # 0 => alias' \in collections',
         \A c \in collections' : c \in collections \/ (ing.pc # "idle" /\ c = ing.version)
  PROVE  DInv'
<1>1. Stuck \subseteq Stuck'
  <2> SUFFICES ASSUME NEW v \in Versions, NEW i \in Jobs,
                      job[i].pc = "refused", job[i].saved # 0, v = i[1],
                      job[i].prev \notin collections
               PROVE  job[i].prev \notin collections'
    BY DEF Stuck
  <2> QED
    BY DEF DInv, IngestKnown, Asked
<1>2. JobsKnown'
  BY AskedStaysKnown DEF DInv, JobsKnown, Asked, Known
<1>3. StoresKnown'
  BY DEF DInv, TypeOK, StoresKnown, Known, ManifestGrows, Versions
<1>4. QueueKnown' /\ OneHolds'
  BY DEF DInv, QueueKnown, OneHolds
<1>5. ASSUME NEW j \in Jobs PROVE Phase(j)'
  <2>1. Phase(j)
    BY DEF DInv
  <2> QED
    BY <1>1, <2>1 DEF Phase, Back
<1>6. up' /\ (\A j \in Jobs : job'[j].pc \notin Writing) => OneVersion'
  BY <1>1 DEF DInv, OneVersion
<1> QED
  BY <1>2, <1>3, <1>4, <1>5, <1>6 DEF DInv

Early == {"prune", "create", "embed", "prepared"}
LEMMA IngestMoves ==
  ASSUME TypeOK, IngestKnown, ing.pc # "idle", job' = job, ManifestGrows,
         ing'.version = ing.version, ing'.prev = ing.prev, ing'.pc # "idle",
         ing'.pc \in Early => ing.pc \in Early,
         \A kind \in Kinds : /\ call'[kind].k = call[kind].k
                             /\ call'[kind].state = "none" <=> call[kind].state = "none"
  PROVE  IngestKnown'
<1>1. "commit" \in Kinds /\ \A j \in Jobs : j[2] \in Kinds
  BY JobParts DEF Kinds
<1>2. \A kind \in Kinds : SentOf(kind)' = SentOf(kind)
  BY DEF SentOf
<1>3. ing.version \in Versions /\ manifest'[ing.version] # "none" /\ Known(ing.prev)'
  BY DEF TypeOK, IngestKnown, Known, ManifestGrows, Versions
<1> QED
  BY <1>1, <1>2, <1>3 DEF IngestKnown, Known, Early, Asked

LEMMA RunEnds ==
  ASSUME EndRun PROVE IngestKnown'
BY EndRunFacts DEF IngestKnown
Manifests == [Versions -> {"none", "processing", "candidate", "active", "failed"}]

(* A step of the indexer that asks main for nothing: its next step ... *)
LEMMA IndexerAt ==
  ASSUME DInv, NEW label \in IngestPCs, label # "idle", label \in Early => ing.pc \in Early,
         ing.pc # "idle", ing' = [ing EXCEPT !.pc = label], call' = call,
         UNCHANGED <<active, up, bm25, shut, queue, job>>,
         failures' \in 0..MaxFailures, candidate' \in 0..MaxVersion,
         manifest' \in Manifests, ManifestGrows, collections' \subseteq collections \cup {ing.version},
         alias' \in {0, alias}, alias' # 0 => alias' \in collections'
  PROVE  DInv'
<1>1. TypeOK /\ Typed /\ IngestKnown
  BY TypedIsTypeOK DEF DInv
<1>2. /\ ing' \in IngestRecords /\ ing'.pc = label
      /\ ing'.version = ing.version /\ ing'.prev = ing.prev
  BY <1>1, AtFacts DEF Typed
<1>3. IngestKnown'
  BY <1>1, <1>2, IngestMoves
<1>4. collections' \subseteq Versions /\ alias' \in 0..MaxVersion
  BY <1>1, DocAssumption DEF Typed, IngestKnown
<1>5. TypeOK'
  BY <1>1, <1>2, <1>4, TypedIsTypeOK DEF Typed, Manifests
<1> QED
  BY <1>3, <1>5, IndexerMoves

(* ... or the end of the run. *)
LEMMA IndexerEnds ==
  ASSUME DInv, EndRun, UNCHANGED <<active, up, bm25, shut, queue, job, manifest, candidate>>,
         failures' \in 0..MaxFailures, collections' \subseteq collections,
         alias' \in {0, alias}, alias' # 0 => alias' \in collections'
  PROVE  DInv'
<1>1. TypeOK /\ Typed
  BY TypedIsTypeOK DEF DInv
<1>2. collections' \subseteq Versions /\ alias' \in 0..MaxVersion
  BY <1>1, DocAssumption DEF Typed
<1>3. TypeOK'
  BY <1>1, <1>2, EndRunFacts, TypedIsTypeOK DEF Typed
<1>4. IngestKnown' /\ ManifestGrows
  BY RunEnds DEF ManifestGrows
<1> QED
  BY <1>3, <1>4, IndexerMoves

LEMMA IndexerKeepsDInv ==
  ASSUME DInv,
         \/ PruneBefore \/ CreateCollection \/ Embed \/ AwaitCommit \/ CheckVisible
         \/ Discard \/ MarkFailed \/ DeleteCandidate \/ PruneAfter \/ IndexerDies
  PROVE  DInv'
<1> USE DocAssumption
<1>1. TypeOK /\ Typed /\ IngestKnown /\ (alias # 0 => alias \in collections)
      /\ manifest \in Manifests
  BY TypedIsTypeOK DEF DInv, StoresKnown, Typed, Manifests
<1>2. UNCHANGED manifest => ManifestGrows
  BY DEF ManifestGrows
<1>3. ASSUME NEW v \in Versions, NEW s \in {"candidate", "failed"},
             manifest' = [manifest EXCEPT ![v] = s]
      PROVE  manifest' \in Manifests /\ ManifestGrows
  BY <1>1, <1>3 DEF Manifests, ManifestGrows
<1>4. \A dropped : collections' = collections \ dropped
                   /\ alias' = (IF alias \in dropped THEN 0 ELSE alias)
                   => /\ collections' \subseteq collections /\ alias' \in {0, alias}
                      /\ (alias' # 0 => alias' \in collections')
  BY <1>1, DropFacts
<1>5. (failures' = failures \/ (failures < MaxFailures /\ failures' = failures + 1))
      => failures' \in 0..MaxFailures
  BY <1>1 DEF Typed
<1>6. candidate \in 0..MaxVersion /\ failures \in 0..MaxFailures
  BY <1>1 DEF Typed
<1>7. CASE PruneBefore
  <2>1. CASE Prune(RetainBusy, ing.prev) /\ At("create") /\ UNCHANGED failures
    BY <1>1, <1>2, <1>4, <1>5, <1>6, <1>7, <2>1, IndexerAt
    DEF PruneBefore, Prune, DropCollections, At, Early, IngestPCs, main, index
  <2>2. CASE UNCHANGED <<collections, alias>> /\ EndRun /\ failures < MaxFailures
             /\ failures' = failures + 1
    BY <1>1, <1>5, <1>7, <2>2, IndexerEnds DEF PruneBefore, main, index
  <2> QED
    BY <1>7, <2>1, <2>2 DEF PruneBefore, Either, CanFail, Fail
<1>8. CASE CreateCollection
  <2>1. CASE collections' = collections \cup {ing.version} /\ At("embed") /\ UNCHANGED failures
    BY <1>1, <1>2, <1>5, <1>6, <1>8, <2>1, IndexerAt
    DEF CreateCollection, At, Early, IngestPCs, main, index
  <2>2. CASE UNCHANGED collections /\ At("check") /\ failures < MaxFailures
             /\ failures' = failures + 1
    BY <1>1, <1>2, <1>5, <1>6, <1>8, <2>2, IndexerAt
    DEF CreateCollection, At, Early, IngestPCs, main, index
  <2> QED
    BY <1>8, <2>1, <2>2 DEF CreateCollection, Either, CanFail, Fail
<1>9. CASE Embed
  <2>1. CASE manifest' = [manifest EXCEPT ![ing.version] = "candidate"] /\ At("prepared")
             /\ UNCHANGED failures
    BY <1>1, <1>3, <1>5, <1>6, <1>9, <2>1, IndexerAt
    DEF Embed, At, Early, IngestPCs, IngestKnown, main, index
  <2>2. CASE UNCHANGED manifest /\ At("check") /\ failures < MaxFailures
             /\ failures' = failures + 1
    BY <1>1, <1>2, <1>5, <1>6, <1>9, <2>2, IndexerAt
    DEF Embed, At, Early, IngestPCs, main, index
  <2> QED
    BY <1>9, <2>1, <2>2 DEF Embed, Either, CanFail, Fail
<1>10. CASE AwaitCommit
  <2>1. PICK label \in {"cleanup", "check"} : At(label)
    BY <1>10 DEF AwaitCommit
  <2> QED
    BY <1>1, <1>2, <1>6, <1>10, <2>1, IndexerAt
    DEF AwaitCommit, At, Early, IngestPCs, stores, main, index
<1>11. CASE CheckVisible
  <2>1. PICK label \in {"cleanup", "discard"} : At(label)
    BY <1>11 DEF CheckVisible
  <2> QED
    BY <1>1, <1>2, <1>6, <1>11, <2>1, IndexerAt
    DEF CheckVisible, At, Early, IngestPCs, stores, main, index
<1>12. CASE Discard
  <2>1. candidate' = candidate \/ candidate' = 0
    BY <1>12 DEF Discard, Either, At
  <2>2. failures' \in 0..MaxFailures
    <3>1. failures' = failures \/ (failures < MaxFailures /\ failures' = failures + 1)
      BY <1>12, Zenon DEF Discard, Either, CanFail, Fail
    <3> QED
      BY <1>6, <3>1
  <2> QED
    BY <1>1, <1>2, <1>6, <1>12, <2>1, <2>2, IndexerAt
    DEF Discard, At, Early, IngestPCs, stores
<1>13. CASE MarkFailed
  BY <1>1, <1>3, <1>6, <1>13, IndexerAt
  DEF MarkFailed, At, Early, IngestPCs, IngestKnown, main, index
<1>14. CASE DeleteCandidate
  <2>1. DropCollections({ing.version})
    BY <1>14 DEF DeleteCandidate
  <2> QED
    BY <1>4, <1>6, <1>14, <2>1, IndexerEnds DEF DeleteCandidate, DropCollections, main, index
<1>15. CASE PruneAfter
  <2>1. failures' \in 0..MaxFailures
    <3>1. failures' = failures \/ (failures < MaxFailures /\ failures' = failures + 1)
      BY <1>15, Zenon DEF PruneAfter, Either, CanFail, Fail
    <3> QED
      BY <1>6, <3>1
  <2>2. collections' \subseteq collections /\ alias' \in {0, alias}
        /\ (alias' # 0 => alias' \in collections')
    BY <1>1, <1>4, <1>15 DEF PruneAfter, Either, Prune, DropCollections
  <2> QED
    BY <1>6, <1>15, <2>1, <2>2, IndexerEnds DEF PruneAfter, main, index
<1>16. CASE IndexerDies
  BY <1>1, <1>5, <1>16, IndexerEnds DEF IndexerDies, CanFail, Fail, stores, main, index
<1> QED
  BY <1>7, <1>8, <1>9, <1>10, <1>11, <1>12, <1>13, <1>14, <1>15, <1>16

(* A request to main: a job nobody asked for before. *)
LEMMA SendKeepsDInv ==
  ASSUME DInv, NEW kind \in Kinds, NEW k \in 1..Attempts, NEW v \in Versions,
         NEW prev \in 0..MaxVersion,
         NEW j \in Jobs, j[1] = v, j[2] = kind, j[3] = k,
         job' \in [Jobs -> JobRecords], call' \in [Kinds -> CallRecords],
         job'[j].pc = (IF up THEN "queued" ELSE "lost"),
         job'[j].prev = prev, job'[j].saved = 0,
         \A i \in Jobs : i # j => job'[i] = job[i],
         call'[kind].k = k, call'[kind].state = "sent",
         \A other \in Kinds : other # kind => call'[other] = call[other],
         queue' = IF up THEN Append(queue, j) ELSE queue,
         UNCHANGED <<alias, collections, active, up, bm25, shut, candidate>>,
         failures' \in 0..MaxFailures, manifest' \in Manifests, ManifestGrows,
         ing' \in IngestRecords, ing'.pc # "idle", ing'.version = v, ing'.prev = prev,
         manifest'[v] # "none", prev # 0 => manifest'[prev] # "none", prev # v,
         ~Asked(j),
         \A i \in Jobs : Asked(i) => job[i].prev # v /\ (i[1] = v => job[i].prev = prev),
         \A i \in Jobs : i[1] = v /\ i[3] > (IF i[2] = kind THEN k ELSE SentOf(i[2])) => ~Asked(i),
         ing'.pc \in Early => kind # "commit" /\ call["commit"].state = "none"
  PROVE  DInv'
<1>1. TypeOK /\ Typed
  BY TypedIsTypeOK DEF DInv
<1>6. TypeOK'
  <2>1. queue \in Seq(Jobs) /\ Append(queue, j) \in Seq(Jobs)
    BY <1>1 DEF Typed
  <2>2. queue' \in Seq(Jobs)
    BY <2>1
  <2> QED
    BY <1>1, <2>2, TypedIsTypeOK DEF Typed, Manifests
<1>7. Stuck \subseteq Stuck'
  BY DEF Stuck, Asked
<1>8. job'[j].pc \notin Holding /\ job'[j].pc # "none"
  BY DEF Holding, Waiting, Writing, Forward
<1>9. JobsKnown'
  <2> SUFFICES ASSUME NEW i \in Jobs, Asked(i)'
               PROVE  /\ manifest'[i[1]] # "none" /\ Known(job[i].prev)' /\ job'[i].prev # i[1]
                      /\ \A h \in Jobs : Asked(h)' /\ h[1] = i[1] => job'[h].prev = job'[i].prev
    BY DEF JobsKnown
  <2>1. CASE i = j
    BY <2>1 DEF Known, Asked
  <2>2. CASE i # j
    <3>1. Asked(i) /\ job'[i] = job[i]
      BY <2>2 DEF Asked
    <3>2. manifest'[i[1]] # "none" /\ (job[i].prev # 0 => manifest'[job[i].prev] # "none")
      BY <1>1, <3>1, AskedStaysKnown DEF DInv
    <3>3. ASSUME NEW h \in Jobs, Asked(h)', h[1] = i[1]
          PROVE  job'[h].prev = job'[i].prev
      BY <3>1, <3>3 DEF DInv, JobsKnown, Asked
    <3> QED
      BY <3>1, <3>2, <3>3 DEF DInv, JobsKnown, Known
  <2> QED
    BY <2>1, <2>2
<1>10. IngestKnown'
  <2>1. \A other \in Kinds : SentOf(other)' = IF other = kind THEN k ELSE SentOf(other)
    BY DEF SentOf
  <2>2. ASSUME NEW i \in Jobs
        PROVE  /\ Asked(i)' => job'[i].prev # v
               /\ Asked(i)' /\ i[1] = v => job'[i].prev = prev
               /\ i[1] = v /\ i[3] > SentOf(i[2])' => ~Asked(i)'
    <3>1. i[2] \in Kinds
      BY JobParts
    <3>2. CASE i = j
      BY <1>1, <2>1, <3>1, <3>2
    <3>3. CASE i # j
      BY <2>1, <3>1, <3>3 DEF Asked
    <3> QED
      BY <3>2, <3>3
  <2>3. ing'.pc \in {"prune", "create", "embed", "prepared"} => call'["commit"].state = "none"
    BY DEF Early, Kinds
  <2> QED
    BY <2>2, <2>3 DEF IngestKnown, Known
<1>11. QueueKnown'
  <2>1. CASE ~up
    BY <2>1 DEF DInv, QueueKnown
  <2>2. CASE up
    <3>0. queue \in Seq(Jobs) /\ j \in Jobs /\ queue' = Append(queue, j)
      <4>1. queue' = Append(queue, j)
        BY <2>2, Zenon
      <4> QED
        BY <1>1, <4>1 DEF Typed
    <3>a. /\ Len(queue') = Len(queue) + 1 /\ Len(queue) \in Nat
          /\ queue'[Len(queue) + 1] = j
      BY <3>0
    <3>b. \A a \in 1..Len(queue) : queue'[a] = queue[a]
      BY <3>0
    <3>c. \A a \in 1..Len(queue) : queue[a] \in Jobs
      BY <3>0
    <3>1. /\ Len(queue') = Len(queue) + 1 /\ Len(queue) \in Nat
          /\ queue'[Len(queue) + 1] = j
          /\ \A a \in 1..Len(queue) : queue'[a] = queue[a] /\ queue[a] \in Jobs
      BY <3>a, <3>b, <3>c
    <3>2. \A a \in 1..Len(queue) : queue'[a] # j /\ job'[queue'[a]].pc = "queued"
      BY <3>1 DEF DInv, QueueKnown, Asked
    <3>3. job'[j].pc = "queued"
      BY <2>2
    <3>4. \A a \in 1..Len(queue') : a \in 1..Len(queue) \/ a = Len(queue) + 1
      BY <3>1
    <3>5. \A a, b \in 1..Len(queue) : queue[a] = queue[b] => a = b
      BY DEF DInv, QueueKnown
    <3>6. \A a \in 1..Len(queue') : /\ job'[queue'[a]].pc = "queued"
                                    /\ \A b \in 1..Len(queue') : queue'[a] = queue'[b] => a = b
      <4>1. \A a \in 1..Len(queue') : job'[queue'[a]].pc = "queued"
        BY <3>1, <3>2, <3>3, <3>4
      <4>2. ASSUME NEW a \in 1..Len(queue'), NEW b \in 1..Len(queue'), queue'[a] = queue'[b]
            PROVE  a = b
        <5>1. CASE a = Len(queue) + 1 \/ b = Len(queue) + 1
          BY <3>1, <3>2, <3>4, <4>2, <5>1
        <5>2. CASE a \in 1..Len(queue) /\ b \in 1..Len(queue)
          BY <3>1, <3>5, <4>2, <5>2
        <5> QED
          BY <3>4, <5>1, <5>2
      <4> QED
        BY <4>1, <4>2
    <3> QED
      BY <2>2, <3>6, Zenon DEF QueueKnown
  <2> QED
    BY <2>1, <2>2
<1>12. OneHolds'
  BY <1>8 DEF DInv, OneHolds
<1>13. ASSUME NEW i \in Jobs PROVE Phase(i)'
  <2>1. CASE i = j
    BY <1>8, <2>1 DEF Phase, Holding
  <2>2. CASE i # j
    BY <1>7, <2>2 DEF DInv, Phase, Back
  <2> QED
    BY <2>1, <2>2
<1>14. up' /\ (\A i \in Jobs : job'[i].pc \notin Writing) => OneVersion'
  <2>1. (\A i \in Jobs : job'[i].pc \notin Writing) => \A i \in Jobs : job[i].pc \notin Writing
    BY DEF Asked, Writing, Forward
  <2> QED
    BY <1>7, <2>1 DEF DInv, OneVersion
<1>15. StoresKnown'
  BY <1>1, StaysKnown DEF DInv, StoresKnown, Known, Typed
<1> QED
  BY <1>6, <1>9, <1>10, <1>11, <1>12, <1>13, <1>14, <1>15 DEF DInv

LEMMA IngestKeepsDInv == ASSUME DInv, Ingest PROVE DInv'
<1> USE DocAssumption
<1>1. TypeOK /\ Typed /\ IngestKnown /\ StoresKnown /\ JobsKnown
  BY TypedIsTypeOK DEF DInv
<1>2. PICK v \in Versions :
        /\ manifest[v] = "none" /\ manifest' = [manifest EXCEPT ![v] = "processing"]
        /\ ing' = [pc |-> "prune", version |-> v, prev |-> alias]
        /\ Send("prepare", 1, v, alias)
  BY DEF Ingest
<1>3. UNCHANGED <<alias, collections, active, up, bm25, candidate, shut, failures>>
  BY DEF Ingest, index
<1>4. \A kind \in Kinds : SentOf(kind) = 0
  BY DEF Ingest, IngestKnown, SentOf, DInv
<1>5. manifest' \in Manifests /\ ManifestGrows /\ manifest'[v] # "none"
  BY <1>1, <1>2 DEF Typed, Manifests, ManifestGrows
<1>6. alias \in 0..MaxVersion /\ (alias # 0 => manifest'[alias] # "none") /\ alias # v
      /\ v \in 0..MaxVersion /\ v # 0
  BY <1>1, <1>2, <1>5, StaysKnown DEF Typed, StoresKnown, Known, Versions
<1>7. ASSUME NEW i \in Jobs
      PROVE  (i[1] = v => ~Asked(i)) /\ (Asked(i) => job[i].prev # v)
  BY <1>1, <1>2, <1>6 DEF JobsKnown, Known
<1>8. ing' \in IngestRecords /\ ing'.pc = "prune" /\ ing'.version = v /\ ing'.prev = alias
  BY <1>2, <1>6 DEF IngestRecords, IngestPCs
<1>9. "prepare" \in Kinds /\ 1 \in 1..Attempts /\ failures' \in 0..MaxFailures
  BY <1>1, <1>3 DEF Kinds, Typed
<1>10. call["commit"].state = "none"
  BY DEF Ingest, IngestKnown, DInv, Kinds
<1> DEFINE j == <<v, "prepare", 1>>
<1>11. /\ j \in Jobs /\ j[1] = v /\ j[2] = "prepare" /\ j[3] = 1
       /\ job' \in [Jobs -> JobRecords] /\ call' \in [Kinds -> CallRecords]
       /\ job'[j].pc = (IF up THEN "queued" ELSE "lost")
       /\ job'[j].prev = alias /\ job'[j].saved = 0
       /\ \A i \in Jobs : i # j => job'[i] = job[i]
       /\ call'["prepare"].k = 1 /\ call'["prepare"].state = "sent"
       /\ \A other \in Kinds : other # "prepare" => call'[other] = call[other]
  BY <1>1, <1>2, <1>6, <1>9, SendFacts DEF Send
<1>12. queue' = IF up THEN Append(queue, j) ELSE queue
  BY <1>2 DEF Send
<1> HIDE DEF j
<1>13. ~Asked(j)
  BY <1>7, <1>11
<1> QED
  BY <1>3, <1>5, <1>6, <1>7, <1>8, <1>9, <1>10, <1>11, <1>12, <1>13, SendKeepsDInv

(* A request of the ingest under way. *)
LEMMA RequestKeepsDInv ==
  ASSUME DInv, NEW kind \in Kinds, NEW k \in 1..Attempts, k = SentOf(kind) + 1,
         Send(kind, k, ing.version, ing.prev), ing.pc # "idle",
         UNCHANGED <<stores, up, index, shut>>, failures' \in 0..MaxFailures,
         ing' \in IngestRecords, ing'.pc # "idle", ing'.pc \in Early => ing.pc \in Early,
         ing'.version = ing.version, ing'.prev = ing.prev,
         ing'.pc \in Early => kind # "commit"
  PROVE  DInv'
<1> USE DocAssumption
<1>1. TypeOK /\ Typed /\ IngestKnown /\ JobsKnown
  BY TypedIsTypeOK DEF DInv
<1>v. PICK v \in Versions : v = ing.version
  BY <1>1 DEF IngestKnown
<1>p. PICK prev \in 0..MaxVersion : prev = ing.prev
  BY <1>1 DEF Typed, IngestRecords
<1> DEFINE j == <<v, kind, k>>
<1>2. v \in Versions /\ prev \in 0..MaxVersion /\ manifest[v] # "none" /\ prev # v
      /\ (prev # 0 => manifest[prev] # "none")
      /\ (ing.pc \in Early => call["commit"].state = "none")
  BY <1>1, <1>v, <1>p DEF IngestKnown, Known, Early
<1>3. \A i \in Jobs : /\ Asked(i) => job[i].prev # v /\ (i[1] = v => job[i].prev = prev)
                      /\ i[1] = v /\ i[3] > SentOf(i[2]) => ~Asked(i)
  BY <1>1, <1>v, <1>p DEF IngestKnown
<1>a. /\ call' = [call EXCEPT ![kind] = [k |-> k, state |-> "sent"]]
      /\ job' = [job EXCEPT ![j] = [pc |-> IF up THEN "queued" ELSE "lost",
                                    prev |-> prev, saved |-> 0]]
      /\ queue' = IF up THEN Append(queue, j) ELSE queue
  BY <1>v, <1>p DEF Send
<1>4. /\ j \in Jobs /\ j[1] = v /\ j[2] = kind /\ j[3] = k
      /\ job' \in [Jobs -> JobRecords] /\ call' \in [Kinds -> CallRecords]
      /\ job'[j].pc = (IF up THEN "queued" ELSE "lost")
      /\ job'[j].prev = prev /\ job'[j].saved = 0
      /\ \A i \in Jobs : i # j => job'[i] = job[i]
      /\ call'[kind].k = k /\ call'[kind].state = "sent"
      /\ \A other \in Kinds : other # kind => call'[other] = call[other]
  <2>1. job' \in [Jobs -> JobRecords] /\ call' \in [Kinds -> CallRecords]
    BY <1>1, <1>2, <1>a, SendFacts
  <2>2. job'[j].pc = (IF up THEN "queued" ELSE "lost")
    BY <1>1, <1>2, <1>a, SendFacts
  <2>3. job'[j].prev = prev /\ job'[j].saved = 0
    BY <1>1, <1>2, <1>a, SendFacts
  <2>4. \A i \in Jobs : i # j => job'[i] = job[i]
    BY <1>1, <1>2, <1>a, SendFacts
  <2>5. /\ call'[kind].k = k /\ call'[kind].state = "sent"
        /\ \A other \in Kinds : other # kind => call'[other] = call[other]
    <3>1. call \in [Kinds -> CallRecords]
      BY <1>1 DEF Typed
    <3> QED
      BY <1>a, <3>1
  <2>6. j \in Jobs /\ j[1] = v /\ j[2] = kind /\ j[3] = k
    BY JobParts, Zenon
  <2> QED
    BY <2>1, <2>2, <2>3, <2>4, <2>5, <2>6
<1>5. queue' = IF up THEN Append(queue, j) ELSE queue
  BY <1>a
<1>6. manifest' \in Manifests /\ ManifestGrows /\ UNCHANGED manifest
  BY <1>1 DEF stores, Typed, Manifests, ManifestGrows
<1>7. SentOf(kind) \in Nat
  BY <1>1 DEF SentOf, Typed, CallRecords
<1> HIDE DEF j
<1>8. ~Asked(j)
  BY <1>3, <1>4, <1>7
<1>9. \A i \in Jobs : i[3] \in Nat /\ i[2] \in Kinds
  BY JobParts
<1>10. \A i \in Jobs : i[1] = v /\ i[3] > (IF i[2] = kind THEN k ELSE SentOf(i[2])) => ~Asked(i)
  BY <1>3, <1>7, <1>9
<1>11. UNCHANGED <<alias, collections, active, up, bm25, shut, candidate>>
  BY DEF stores, index
<1>12. ing'.version = v /\ ing'.prev = prev
  BY <1>v, <1>p
<1> QED
  BY <1>2, <1>3, <1>4, <1>5, <1>6, <1>8, <1>10, <1>11, <1>12, SendKeepsDInv

LEMMA CallsKeepDInv == ASSUME DInv, AwaitPrepare \/ ClientStep PROVE DInv'
<1> USE DocAssumption
<1>1. TypeOK /\ Typed /\ IngestKnown /\ (alias # 0 => alias \in collections)
      /\ manifest \in Manifests
  BY TypedIsTypeOK DEF DInv, StoresKnown, Typed, Manifests
<1>2. CASE AwaitPrepare
  <2>1. CASE ing' = [ing EXCEPT !.pc = "commit"] /\ Send("commit", 1, ing.version, ing.prev)
    <3>1. call["commit"].state = "none" /\ ing.pc = "prepared"
      BY <1>1, <1>2 DEF AwaitPrepare, IngestKnown
    <3>2. "commit" \in Kinds /\ 1 \in 1..Attempts /\ 1 = SentOf("commit") + 1
      BY <3>1 DEF Kinds, SentOf
    <3>3. /\ ing' \in IngestRecords /\ ing'.pc = "commit"
          /\ ing'.version = ing.version /\ ing'.prev = ing.prev
      BY <1>1, <2>1, AtFacts DEF Typed, IngestPCs
    <3>4. UNCHANGED <<stores, up, index, shut>> /\ failures' \in 0..MaxFailures
      BY <1>1, <1>2 DEF AwaitPrepare, Typed
    <3> QED
      BY <2>1, <3>1, <3>2, <3>3, <3>4, RequestKeepsDInv DEF Early, Send
  <2>2. CASE At("check") /\ UNCHANGED <<queue, job>>
    BY <1>1, <1>2, <2>2, IndexerAt
    DEF AwaitPrepare, At, Early, IngestPCs, stores, index, ManifestGrows, Typed
  <2> QED
    BY <1>2, <2>1, <2>2 DEF AwaitPrepare
<1>3. ASSUME NEW kind \in Kinds, Reply(kind) PROVE DInv'
  <2>1. /\ call[kind].state = "sent"
        /\ \E s \in {"ok", "failed"} : call' = [call EXCEPT ![kind].state = s]
        /\ UNCHANGED <<stores, main, ing, failures>>
    BY <1>3 DEF Reply
  <2>2. /\ call' \in [Kinds -> CallRecords] /\ call'[kind].state # "none"
        /\ \A other \in Kinds : /\ call'[other].k = call[other].k
                                /\ other # kind => call'[other] = call[other]
    BY <1>1, <2>1 DEF Typed, CallRecords
  <2>3. ing.pc # "idle"
    BY <1>1, <2>1 DEF IngestKnown
  <2>4. TypeOK' /\ ManifestGrows
    BY <1>1, <2>1, <2>2, TypedIsTypeOK DEF Typed, stores, main, index, ManifestGrows
  <2>5. IngestKnown'
    BY <1>1, <2>1, <2>2, <2>3, <2>4, IngestMoves DEF main
  <2> QED
    BY <1>1, <2>1, <2>4, <2>5, IndexerMoves DEF stores, main, index
<1>4. ASSUME NEW kind \in Kinds, AttemptFails(kind) PROVE DInv'
  <2>1. /\ call[kind].state = "sent" /\ UNCHANGED <<stores, up, index, shut, ing>>
        /\ failures' \in 0..MaxFailures
    BY <1>1, <1>4 DEF AttemptFails, CanFail, Fail, Typed
  <2>2. ing.pc # "idle" /\ SentOf(kind) = call[kind].k /\ call[kind].k \in 1..Attempts
        /\ (kind = "commit" => ing.pc \notin Early)
    BY <1>1, <2>1 DEF IngestKnown, SentOf, Typed, CallRecords, Early
  <2>3. CASE call[kind].k < Attempts /\ Send(kind, call[kind].k + 1, ing.version, ing.prev)
    <3>1. call[kind].k + 1 \in 1..Attempts
      BY <2>2, <2>3
    <3>2. ing' = ing /\ ing' \in IngestRecords
      BY <1>1, <2>1 DEF Typed
    <3> QED
      BY <2>1, <2>2, <2>3, <3>1, <3>2, RequestKeepsDInv DEF Send
  <2>4. CASE call' = [call EXCEPT ![kind].state = "failed"] /\ UNCHANGED <<queue, job>>
    <3>1. /\ call' \in [Kinds -> CallRecords] /\ call'[kind].state # "none"
          /\ \A other \in Kinds : /\ call'[other].k = call[other].k
                                  /\ other # kind => call'[other] = call[other]
      BY <1>1, <2>4 DEF Typed, CallRecords
    <3>2. TypeOK' /\ ManifestGrows
      BY <1>1, <2>1, <2>4, <3>1, TypedIsTypeOK DEF Typed, stores, index, ManifestGrows
    <3>3. IngestKnown'
      BY <1>1, <2>1, <2>2, <2>4, <3>1, <3>2, IngestMoves
    <3> QED
      BY <1>1, <2>1, <2>4, <3>2, <3>3, IndexerMoves DEF stores, index
  <2> QED
    BY <1>4, <2>3, <2>4 DEF AttemptFails
<1> QED
  BY <1>2, <1>3, <1>4 DEF ClientStep
-----------------------------------------------------------------------------
(* main                                                                      *)
LEMMA StuckStays ==
  ASSUME NEW j \in Jobs, job[j].pc # "refused", collections' = collections,
         \A i \in Jobs : i # j => job'[i] = job[i]
  PROVE  Stuck \subseteq Stuck'
BY DEF Stuck

(* A step that asks main for nothing leaves who was asked for what. *)
LEMMA JobsStayKnown ==
  ASSUME DInv, \A i \in Jobs : (Asked(i)' <=> Asked(i)) /\ job'[i].prev = job[i].prev,
         UNCHANGED <<ing, call>>, ManifestGrows
  PROVE  JobsKnown' /\ IngestKnown'
<1>1. TypeOK /\ Typed /\ JobsKnown /\ IngestKnown
  BY TypedIsTypeOK DEF DInv
<1>2. JobsKnown'
  BY <1>1, AskedStaysKnown DEF JobsKnown, Known
<1>3. IngestKnown'
  <2>1. CASE ing.pc = "idle"
    BY <1>1, <2>1 DEF IngestKnown
  <2>2. CASE ing.pc # "idle"
    <3>1. \A kind \in Kinds : SentOf(kind)' = SentOf(kind)
      BY DEF SentOf
    <3>2. ing.version \in Versions /\ manifest'[ing.version] # "none" /\ Known(ing.prev)'
      BY <1>1, <2>2, StaysKnown DEF IngestKnown, Typed, IngestRecords, ManifestGrows, Known
    <3>3. \A i \in Jobs : i[2] \in Kinds
      BY JobParts
    <3> QED
      BY <1>1, <2>2, <3>1, <3>2, <3>3 DEF IngestKnown
  <2> QED
    BY <2>1, <2>2
<1> QED
  BY <1>2, <1>3

(* So does a step of one job that is not in the queue, and the queue stays. *)
LEMMA StepsStayKnown ==
  ASSUME DInv, NEW j \in Jobs, Asked(j), job[j].pc # "queued",
         job'[j].prev = job[j].prev, job'[j].pc # "none",
         \A i \in Jobs : i # j => job'[i] = job[i],
         UNCHANGED <<queue, up, ing, call>>, ManifestGrows
  PROVE  JobsKnown' /\ IngestKnown' /\ QueueKnown'
<1>1. Typed /\ QueueKnown
  BY TypedIsTypeOK DEF DInv
<1>2. \A i \in Jobs : (Asked(i)' <=> Asked(i)) /\ job'[i].prev = job[i].prev
  BY DEF Asked
<1>3. JobsKnown' /\ IngestKnown'
  BY <1>2, JobsStayKnown
<1>4. \A a \in 1..Len(queue) : queue[a] \in Jobs
  BY <1>1 DEF Typed
<1>5. \A a \in 1..Len(queue) : queue[a] # j
  BY <1>1 DEF QueueKnown
<1>6. QueueKnown'
  BY <1>1, <1>4, <1>5 DEF QueueKnown
<1> QED
  BY <1>3, <1>6

(* A step of the job that holds the gate. *)
LEMMA HolderKeepsDInv ==
  ASSUME DInv, NEW j \in Jobs, job[j].pc \in Holding,
         job' \in [Jobs -> JobRecords], job'[j].prev = job[j].prev,
         job'[j].pc \notin {"none", "queued"},
         \A i \in Jobs : i # j => job'[i] = job[i],
         UNCHANGED <<collections, up, queue, ing, call>>,
         alias' \in 0..MaxVersion, active' \in 0..MaxVersion, bm25' \in 0..MaxVersion,
         candidate' \in 0..MaxVersion, failures' \in 0..MaxFailures,
         manifest' \in Manifests, ManifestGrows,
         shut' = shut \/ (shut' = FALSE /\ job'[j].pc \notin Holding),
         StoresKnown', Phase(j)', job'[j].pc \notin Writing => OneVersion'
  PROVE  DInv'
<1>1. TypeOK /\ Typed
  BY TypedIsTypeOK DEF DInv
<1>2. TypeOK'
  <2>1. shut' \in BOOLEAN
    BY <1>1 DEF Typed
  <2> QED
    BY <1>1, <2>1, TypedIsTypeOK DEF Typed, Manifests
<1>3. JobsKnown' /\ IngestKnown' /\ QueueKnown'
  <2>1. Asked(j) /\ job[j].pc # "queued"
    BY DEF Asked, Holding, Waiting, Writing, Forward
  <2> QED
    BY <2>1, StepsStayKnown
<1>4. \A i \in Jobs : i # j => job'[i].pc \notin Holding
  BY DEF DInv, OneHolds
<1>5. OneHolds'
  BY <1>4 DEF DInv, OneHolds
<1>6. ASSUME NEW i \in Jobs PROVE Phase(i)'
  BY <1>4 DEF Phase, Holding
<1> QED
  BY <1>2, <1>3, <1>5, <1>6 DEF DInv

(* What is known while a job holds the gate. *)
LEMMA HolderFacts ==
  ASSUME DInv, NEW j \in Jobs, job[j].pc \in Holding
  PROVE  /\ TypeOK /\ Typed /\ StoresKnown /\ Phase(j) /\ up /\ shut
         /\ Asked(j) /\ job[j].pc \notin {"none", "queued", "refused"}
         /\ job[j].prev \in 0..MaxVersion /\ j[1] \in Versions /\ j[1] # 0 /\ j[1] \in 0..MaxVersion
         /\ manifest[j[1]] # "none" /\ job[j].prev # j[1]
         /\ (job[j].prev # 0 => manifest[job[j].prev] # "none")
         /\ \A i \in Jobs : i # j => job[i].pc \notin Holding
         /\ (job[j].pc \in Waiting => OneVersion)
<1>1. TypeOK /\ Typed /\ StoresKnown /\ Phase(j) /\ up /\ shut
      /\ \A i \in Jobs : i # j => job[i].pc \notin Holding
  BY TypedIsTypeOK DEF DInv, OneHolds
<1>2. Asked(j) /\ job[j].pc \notin {"none", "queued", "refused"}
  BY DEF Asked, Holding, Waiting, Writing, Forward
<1>3. job[j].pc \in Waiting => \A i \in Jobs : job[i].pc \notin Writing
  BY <1>1 DEF Waiting, Writing, Forward, Holding
<1>4. job[j].pc \in Waiting => OneVersion
  BY <1>1, <1>3 DEF DInv
<1>5. j[1] \in Versions /\ j[1] # 0 /\ j[1] \in 0..MaxVersion
  BY JobParts
<1> QED
  BY <1>1, <1>2, <1>4, <1>5, JobTyped DEF DInv, JobsKnown, Known

LEMMA HolderSteps ==
  ASSUME DInv, NEW j \in Jobs, job[j].pc \in Holding, collections' = collections,
         NEW label \in JobPCs, job' = [job EXCEPT ![j].pc = label]
  PROVE  /\ job' \in [Jobs -> JobRecords]
         /\ job'[j].pc = label /\ job'[j].prev = job[j].prev /\ job'[j].saved = job[j].saved
         /\ \A i \in Jobs : i # j => job'[i] = job[i]
         /\ Stuck \subseteq Stuck'
<1>1. Typed /\ job[j].pc # "refused"
  BY HolderFacts
<1>2. /\ job' \in [Jobs -> JobRecords]
      /\ job'[j].pc = label /\ job'[j].prev = job[j].prev /\ job'[j].saved = job[j].saved
      /\ \A i \in Jobs : i # j => job'[i] = job[i]
  BY <1>1, StepFacts DEF Typed
<1> QED
  BY <1>1, <1>2, StuckStays

(* A step that changes nothing but where the job is, and who holds the gate. *)
LEMMA HolderOnlyMoves ==
  ASSUME DInv, NEW j \in Jobs, job[j].pc \in Holding, UNCHANGED <<stores, index, up, queue, indexer>>,
         failures' \in 0..MaxFailures,
         NEW label \in JobPCs \ {"none", "queued"}, job' = [job EXCEPT ![j].pc = label],
         shut' = shut \/ (shut' = FALSE /\ label \notin Holding),
         Phase(j)', label \notin Writing => OneVersion
  PROVE  DInv'
<1>1. TypeOK /\ Typed /\ StoresKnown
  BY HolderFacts
<1>2. /\ job' \in [Jobs -> JobRecords]
      /\ job'[j].pc = label /\ job'[j].prev = job[j].prev
      /\ \A i \in Jobs : i # j => job'[i] = job[i]
      /\ Stuck \subseteq Stuck'
  BY HolderSteps DEF stores
<1>3. label \notin Writing => OneVersion'
  BY <1>2 DEF OneVersion, stores, index
<1>4. StoresKnown' /\ manifest' \in Manifests /\ ManifestGrows
  BY <1>1 DEF StoresKnown, Known, stores, Typed, Manifests, ManifestGrows
<1>5. alias' \in 0..MaxVersion /\ active' \in 0..MaxVersion /\ bm25' \in 0..MaxVersion
      /\ candidate' \in 0..MaxVersion
  BY <1>1 DEF Typed, stores, index
<1> QED
  BY <1>2, <1>3, <1>4, <1>5, HolderKeepsDInv DEF stores, indexer

LEMMA DrainKeepsDInv == ASSUME DInv, NEW j \in Jobs, Drain(j) PROVE DInv'
<1>1. job[j].pc = "drain" /\ UNCHANGED <<stores, index, up, queue, indexer>>
  BY DEF Drain
<1>2. job[j].pc \in Holding /\ job[j].pc \in Waiting
  BY <1>1 DEF Holding, Waiting
<1>3. Typed /\ OneVersion
  BY <1>2, HolderFacts
<1>4. CASE job' = [job EXCEPT ![j].pc = "check"] /\ UNCHANGED shut /\ UNCHANGED failures
  <2>1. job'[j].pc = "check"
    BY <1>1, <1>2, <1>4, HolderSteps DEF stores, JobPCs
  <2>2. Phase(j)'
    BY <2>1 DEF Phase, Writing, Forward
  <2> QED
    BY <1>1, <1>2, <1>3, <1>4, <2>2, HolderOnlyMoves DEF JobPCs, Typed
<1>5. CASE job' = [job EXCEPT ![j].pc = "refused"] /\ shut' = FALSE /\ CanFail /\ Fail
  <2>1. job'[j].pc = "refused"
    BY <1>1, <1>2, <1>5, HolderSteps DEF stores, JobPCs, Ended
  <2>2. Phase(j)'
    BY <2>1 DEF Phase, Writing, Forward
  <2>3. failures' \in 0..MaxFailures
    BY <1>3, <1>5, DocAssumption DEF CanFail, Fail, Typed
  <2>4. "refused" \notin Holding
    BY DEF Holding, Waiting, Writing, Forward
  <2> QED
    BY <1>1, <1>2, <1>3, <1>5, <2>2, <2>3, <2>4, HolderOnlyMoves DEF JobPCs, Ended
<1> QED
  BY <1>4, <1>5 DEF Drain, Either, Step

LEMMA CheckKeepsDInv == ASSUME DInv, NEW j \in Jobs, Check(j) PROVE DInv'
<1> DEFINE v == j[1]
           p == job[j].prev
<1>1. job[j].pc = "check" /\ UNCHANGED <<stores, index, up, queue, indexer, failures>>
  BY DEF Check
<1>2. job[j].pc \in Holding /\ job[j].pc \in Waiting
  BY <1>1 DEF Holding, Waiting
<1>3. TypeOK /\ Typed /\ OneVersion /\ StoresKnown
  BY <1>2, HolderFacts
<1>4. /\ p \in 0..MaxVersion /\ v \in 0..MaxVersion /\ v # 0 /\ p # v
      /\ (p # 0 => manifest[p] # "none")
      /\ job[j].pc \notin {"none", "queued", "refused"}
  BY <1>2, HolderFacts
<1>5. ASSUME NEW label \in {"ok", "refused"}, job' = [job EXCEPT ![j].pc = label], shut' = FALSE
      PROVE  DInv'
  <2>1. job'[j].pc = label
    BY <1>1, <1>2, <1>5, HolderSteps DEF stores, JobPCs, Ended
  <2>2. Phase(j)'
    BY <2>1 DEF Phase, Writing, Forward
  <2>3. label \notin Holding
    BY DEF Holding, Waiting, Writing, Forward
  <2> QED
    BY <1>1, <1>2, <1>3, <1>5, <2>2, <2>3, HolderOnlyMoves DEF JobPCs, Ended, Typed
<1>6. CASE /\ Acceptable(j) /\ ~(alias = v /\ bm25 = v)
           /\ job' = [job EXCEPT ![j].pc = "switch", ![j].saved = Previous(p)] /\ UNCHANGED shut
  <2>1. Previous(p) = p
    BY <1>4 DEF Previous
  <2>2. /\ job' \in [Jobs -> JobRecords]
        /\ job'[j].pc = "switch" /\ job'[j].prev = p /\ job'[j].saved = p
        /\ \A i \in Jobs : i # j => job'[i] = job[i]
    <3>1. job \in [Jobs -> JobRecords]
      BY <1>3 DEF Typed
    <3>2. job' = [job EXCEPT ![j] = [job[j] EXCEPT !.pc = "switch", !.saved = p]]
      BY <1>6, <2>1
    <3>3. /\ [job[j] EXCEPT !.pc = "switch", !.saved = p] \in JobRecords
          /\ [job[j] EXCEPT !.pc = "switch", !.saved = p].prev = p
      BY <1>4, <3>1 DEF JobRecords, JobPCs
    <3>4. /\ [job[j] EXCEPT !.pc = "switch", !.saved = p].pc = "switch"
          /\ [job[j] EXCEPT !.pc = "switch", !.saved = p].saved = p
      BY <3>1 DEF JobRecords
    <3> QED
      BY <3>1, <3>2, <3>3, <3>4
  <2>3. Stuck \subseteq Stuck'
    BY <1>1, <1>4, <2>2, StuckStays DEF stores
  <2>4. alias \in {p, v}
    BY <1>6 DEF Acceptable
  <2>5. p # 0 => bm25 = p \/ p \in Stuck \/ v \in Stuck
    BY <1>3, <1>4, <1>6, <2>4 DEF OneVersion
  <2>6. Phase(j)'
    BY <1>1, <2>2, <2>3, <2>4, <2>5 DEF Phase, Back, Writing, Forward, stores, index
  <2>7. "switch" \in Writing /\ "switch" \in Holding
    BY DEF Writing, Forward, Holding
  <2>8. StoresKnown' /\ manifest' \in Manifests /\ ManifestGrows
    BY <1>1, <1>3 DEF StoresKnown, Known, stores, Typed, Manifests, ManifestGrows
  <2>9. alias' \in 0..MaxVersion /\ active' \in 0..MaxVersion /\ bm25' \in 0..MaxVersion
        /\ candidate' \in 0..MaxVersion /\ failures' \in 0..MaxFailures
    BY <1>1, <1>3 DEF Typed, stores, index
  <2> QED
    BY <1>1, <1>2, <1>6, <2>2, <2>6, <2>7, <2>8, <2>9, HolderKeepsDInv DEF stores, indexer
<1> QED
  BY <1>5, <1>6 DEF Check, Step

(* A step of the commit that writes at most one store. *)
LEMMA WriterKeepsDInv ==
  ASSUME DInv, NEW j \in Jobs, job[j].pc \in Writing,
         UNCHANGED <<collections, index, up, shut, queue, indexer>>,
         NEW label \in Writing, job' = [job EXCEPT ![j].pc = label],
         alias' \in {alias, j[1]}, alias' # 0 => alias' \in collections,
         active' \in {active, j[1]}, failures' \in 0..MaxFailures,
         manifest' = manifest \/ manifest' = [manifest EXCEPT ![j[1]] = "active"],
         label \in {"switch", "undoAlias"} => alias' \in {0, job[j].prev, j[1]},
         label \in {"manifest", "verify", "version", "activate"} => alias' \in {0, j[1]},
         label \in {"version", "activate"} => active' = j[1],
         label = "undoManifest" => alias' \in {0, job[j].prev}
  PROVE  DInv'
<1> DEFINE v == j[1]
           p == job[j].prev
<1>1. job[j].pc \in Holding /\ label \in JobPCs \ {"none", "queued"} /\ label \in Holding
  BY DEF Holding, Writing, Forward, JobPCs
<1>2. /\ Typed /\ StoresKnown /\ Phase(j) /\ v \in 0..MaxVersion /\ v \in Versions
      /\ manifest[v] # "none"
  BY <1>1, HolderFacts
<1>3. /\ job' \in [Jobs -> JobRecords]
      /\ job'[j].pc = label /\ job'[j].prev = p /\ job'[j].saved = job[j].saved
      /\ \A i \in Jobs : i # j => job'[i] = job[i]
      /\ Stuck \subseteq Stuck'
  BY <1>1, HolderSteps
<1>4. manifest' \in Manifests /\ ManifestGrows
  BY <1>2 DEF Typed, Manifests, ManifestGrows
<1>5. alias' \in 0..MaxVersion /\ active' \in 0..MaxVersion /\ bm25' \in 0..MaxVersion
      /\ candidate' \in 0..MaxVersion
  BY <1>2 DEF Typed, index
<1>6. StoresKnown'
  BY <1>2, <1>4, <1>5 DEF StoresKnown, Known, ManifestGrows, Typed, Versions
<1>7. Phase(j)'
  BY <1>2, <1>3 DEF Phase, Back, index
<1> QED
  BY <1>1, <1>3, <1>4, <1>5, <1>6, <1>7, HolderKeepsDInv DEF index, indexer

LEMMA WritesKeepDInv ==
  ASSUME DInv, NEW j \in Jobs,
         SwitchAlias(j) \/ WriteActive(j) \/ Verify(j) \/ WriteVersion(j)
  PROVE  DInv'
<1> USE DocAssumption
<1>1. {"manifest", "verify", "version", "activate", "undoAlias"} \subseteq Writing
      /\ {"switch", "manifest", "verify", "version"} \subseteq Writing
  BY DEF Writing, Forward
<1>2. job[j].pc \in Writing
  BY <1>1 DEF SwitchAlias, WriteActive, Verify, WriteVersion
<1>3. Typed /\ StoresKnown /\ Phase(j)
  BY <1>2, HolderFacts DEF Holding
<1>4. failures \in 0..MaxFailures /\ (CanFail /\ Fail => failures' \in 0..MaxFailures)
  BY <1>3 DEF Typed, CanFail, Fail
<1>5. alias # 0 => alias \in collections
  BY <1>3 DEF StoresKnown
<1>6. CASE SwitchAlias(j)
  <2>1. alias \in {0, job[j].prev, j[1]}
    BY <1>1, <1>3, <1>6 DEF Phase, SwitchAlias
  <2>2. CASE j[1] \in collections /\ alias' = j[1] /\ Step(j, "manifest") /\ UNCHANGED failures
    BY <1>1, <1>2, <1>4, <1>6, <2>2, WriterKeepsDInv DEF SwitchAlias, Step
  <2>3. CASE /\ j[1] \in collections /\ (alias' = j[1] \/ UNCHANGED alias)
             /\ Step(j, "undoAlias") /\ CanFail /\ Fail
    BY <1>1, <1>2, <1>4, <1>5, <1>6, <2>1, <2>3, WriterKeepsDInv DEF SwitchAlias, Step
  <2>4. CASE Step(j, "undoAlias") /\ UNCHANGED <<alias, failures>>
    BY <1>1, <1>2, <1>4, <1>5, <1>6, <2>1, <2>4, WriterKeepsDInv DEF SwitchAlias, Step
  <2> QED
    BY <1>6, <2>2, <2>3, <2>4 DEF SwitchAlias, Write
<1>7. CASE WriteActive(j)
  <2>1. alias \in {0, j[1]}
    BY <1>1, <1>3, <1>7 DEF Phase, WriteActive
  <2>2. CASE active' = j[1] /\ Step(j, "verify") /\ UNCHANGED failures
    BY <1>1, <1>2, <1>4, <1>5, <1>7, <2>1, <2>2, WriterKeepsDInv DEF WriteActive, Step
  <2>3. CASE (active' = j[1] \/ UNCHANGED active) /\ Step(j, "undoAlias") /\ CanFail /\ Fail
    BY <1>1, <1>2, <1>4, <1>5, <1>7, <2>1, <2>3, WriterKeepsDInv DEF WriteActive, Step
  <2> QED
    BY <1>7, <2>2, <2>3 DEF WriteActive, Write
<1>8. CASE Verify(j)
  <2>1. alias \in {0, j[1]}
    BY <1>1, <1>3, <1>8 DEF Phase, Verify
  <2>2. CASE alias = j[1] /\ active = j[1] /\ Step(j, "version")
    BY <1>1, <1>2, <1>4, <1>5, <1>8, <2>1, <2>2, WriterKeepsDInv DEF Verify, Step, stores
  <2>3. CASE Step(j, "undoAlias")
    BY <1>1, <1>2, <1>4, <1>5, <1>8, <2>1, <2>3, WriterKeepsDInv DEF Verify, Step, stores
  <2> QED
    BY <1>8, <2>2, <2>3 DEF Verify
<1>9. CASE WriteVersion(j)
  <2>1. alias \in {0, j[1]} /\ active = j[1]
    BY <1>1, <1>3, <1>9 DEF Phase, WriteVersion
  <2>2. CASE /\ manifest' = [manifest EXCEPT ![j[1]] = "active"] /\ Step(j, "activate")
             /\ UNCHANGED failures
    BY <1>1, <1>2, <1>4, <1>5, <1>9, <2>1, <2>2, WriterKeepsDInv DEF WriteVersion, Step
  <2>3. CASE /\ (manifest' = [manifest EXCEPT ![j[1]] = "active"] \/ UNCHANGED manifest)
             /\ Step(j, "undoAlias") /\ CanFail /\ Fail
    BY <1>1, <1>2, <1>4, <1>5, <1>9, <2>1, <2>3, WriterKeepsDInv DEF WriteVersion, Step
  <2> QED
    BY <1>9, <2>2, <2>3 DEF WriteVersion, Write
<1> QED
  BY <1>6, <1>7, <1>8, <1>9

(* The index is activated, and the gate reopens. *)
LEMMA ActivateKeepsDInv == ASSUME DInv, NEW j \in Jobs, Activate(j) PROVE DInv'
<1> DEFINE v == j[1]
<1>1. job[j].pc = "activate" /\ UNCHANGED <<stores, up, queue, indexer, failures>>
  BY DEF Activate
<1>2. job[j].pc \in Writing /\ job[j].pc \in Holding
  BY <1>1 DEF Writing, Forward, Holding
<1>3. Typed /\ StoresKnown /\ Phase(j) /\ v \in 0..MaxVersion
  BY <1>2, HolderFacts
<1>4. alias \in {0, v} /\ active = v
  BY <1>1, <1>2, <1>3 DEF Phase
<1>5. CASE job' = [job EXCEPT ![j].pc = "undoAlias"] /\ UNCHANGED <<index, shut>>
  <2>1. "undoAlias" \in Writing /\ (alias # 0 => alias \in collections)
    BY <1>3 DEF Writing, StoresKnown
  <2>2. failures' \in 0..MaxFailures
    BY <1>1, <1>3 DEF Typed
  <2> QED
    BY <1>1, <1>2, <1>4, <1>5, <2>1, <2>2, WriterKeepsDInv DEF stores
<1>6. CASE /\ job' = [job EXCEPT ![j].pc = "ok"] /\ shut' = FALSE /\ bm25' = v
           /\ candidate' \in {0, candidate}
  <2>1. /\ job' \in [Jobs -> JobRecords]
        /\ job'[j].pc = "ok" /\ job'[j].prev = job[j].prev
        /\ \A i \in Jobs : i # j => job'[i] = job[i]
    BY <1>1, <1>2, <1>6, HolderSteps DEF stores, JobPCs, Ended
  <2>2. "ok" \notin Holding /\ Phase(j)'
    BY <2>1 DEF Holding, Waiting, Writing, Forward, Phase
  <2>3. OneVersion'
    BY <1>1, <1>4, <1>6 DEF OneVersion, stores
  <2>4. StoresKnown' /\ manifest' \in Manifests /\ ManifestGrows
    BY <1>1, <1>3 DEF StoresKnown, Known, stores, Typed, Manifests, ManifestGrows
  <2>5. alias' \in 0..MaxVersion /\ active' \in 0..MaxVersion /\ bm25' \in 0..MaxVersion
        /\ candidate' \in 0..MaxVersion /\ failures' \in 0..MaxFailures
    BY <1>1, <1>3, <1>6, DocAssumption DEF Typed, stores
  <2> QED
    BY <1>1, <1>2, <1>6, <2>1, <2>2, <2>3, <2>4, <2>5, HolderKeepsDInv DEF stores, indexer
<1>7. v \in {bm25, candidate} \/ v \notin {bm25, candidate}
  OBVIOUS
<1> QED
  BY <1>5, <1>6, <1>7 DEF Activate, Step, index

(* The rollback: either it reaches what was served before, or the version is stuck. *)
LEMMA SameOrigin ==
  ASSUME DInv, NEW j \in Jobs, Asked(j), j[1] \in Stuck
  PROVE  job[j].prev \notin collections
<1>1. PICK i \in Jobs : job[i].pc = "refused" /\ j[1] = i[1] /\ job[i].prev \notin collections
  BY DEF Stuck
<1> QED
  BY <1>1 DEF DInv, JobsKnown, Asked

LEMMA UndoAliasKeepsDInv ==
  ASSUME DInv, ~RollbackFails, NEW j \in Jobs, UndoAlias(j) PROVE DInv'
<1> DEFINE v == j[1]
           p == job[j].prev
<1>1. /\ job[j].pc = "undoAlias"
      /\ UNCHANGED <<collections, manifest, active, up, index, queue, indexer>>
  BY DEF UndoAlias
<1>2. job[j].pc \in Writing /\ job[j].pc \in Holding /\ "undoManifest" \in Writing
      /\ "undoManifest" \in Holding /\ "undoManifest" \in JobPCs
  BY <1>1 DEF Writing, Forward, Holding, JobPCs
<1>3. /\ Typed /\ StoresKnown /\ Phase(j) /\ v \in 0..MaxVersion /\ v \in Versions
      /\ p \in 0..MaxVersion /\ p # v /\ (p # 0 => manifest[p] # "none")
      /\ job[j].pc # "refused"
  BY <1>2, HolderFacts
<1>4. job[j].saved = p /\ Back(v, p) /\ alias \in {0, p, v}
  BY <1>1, <1>2, <1>3 DEF Phase
<1>5. CASE /\ alias = v /\ (p # 0 => p \in collections) /\ alias' = p
           /\ job' = [job EXCEPT ![j].pc = "undoManifest"] /\ UNCHANGED <<shut, failures>>
  <2>1. /\ job' \in [Jobs -> JobRecords]
        /\ job'[j].pc = "undoManifest" /\ job'[j].prev = p /\ job'[j].saved = p
        /\ \A i \in Jobs : i # j => job'[i] = job[i]
        /\ Stuck \subseteq Stuck'
    BY <1>1, <1>2, <1>4, <1>5, HolderSteps
  <2>2. Phase(j)'
    BY <1>1, <1>4, <1>5, <2>1 DEF Phase, Back, index
  <2>3. StoresKnown' /\ manifest' \in Manifests /\ ManifestGrows
    BY <1>1, <1>3, <1>5 DEF StoresKnown, Known, Typed, Manifests, ManifestGrows
  <2>4. alias' \in 0..MaxVersion /\ active' \in 0..MaxVersion /\ bm25' \in 0..MaxVersion
        /\ candidate' \in 0..MaxVersion /\ failures' \in 0..MaxFailures
    BY <1>1, <1>3, <1>5 DEF Typed, index
  <2> QED
    BY <1>1, <1>2, <1>5, <2>1, <2>2, <2>3, <2>4, HolderKeepsDInv DEF indexer
<1>6. CASE /\ alias # v /\ job' = [job EXCEPT ![j].pc = "undoManifest"]
           /\ UNCHANGED <<alias, failures, shut>>
  <2>1. failures' \in 0..MaxFailures /\ (alias # 0 => alias \in collections)
    BY <1>3, <1>6 DEF Typed, StoresKnown
  <2> QED
    BY <1>1, <1>2, <1>4, <1>6, <2>1, WriterKeepsDInv
<1>7. CASE /\ alias = v /\ p # 0 /\ p \notin collections
           /\ job' = [job EXCEPT ![j].pc = "refused"] /\ shut' = FALSE
           /\ UNCHANGED <<alias, failures>>
  <2>1. /\ job' \in [Jobs -> JobRecords]
        /\ job'[j].pc = "refused" /\ job'[j].prev = p /\ job'[j].saved = p
        /\ \A i \in Jobs : i # j => job'[i] = job[i]
    BY <1>1, <1>2, <1>4, <1>7, HolderSteps DEF JobPCs, Ended
  <2>2. v \in Stuck'
    BY <1>1, <1>3, <1>7, <2>1 DEF Stuck
  <2>3. OneVersion'
    BY <1>7, <2>2 DEF OneVersion
  <2>4. "refused" \notin Holding /\ Phase(j)'
    BY <2>1 DEF Holding, Waiting, Writing, Forward, Phase
  <2>5. StoresKnown' /\ manifest' \in Manifests /\ ManifestGrows
    BY <1>1, <1>3, <1>7 DEF StoresKnown, Known, Typed, Manifests, ManifestGrows
  <2>6. alias' \in 0..MaxVersion /\ active' \in 0..MaxVersion /\ bm25' \in 0..MaxVersion
        /\ candidate' \in 0..MaxVersion /\ failures' \in 0..MaxFailures
    BY <1>1, <1>3, <1>7 DEF Typed, index
  <2> QED
    BY <1>1, <1>2, <1>7, <2>1, <2>3, <2>4, <2>5, <2>6, HolderKeepsDInv DEF indexer
<1> QED
  BY <1>5, <1>6, <1>7 DEF UndoAlias, Step

LEMMA UndoManifestKeepsDInv ==
  ASSUME DInv, ~RollbackFails, NEW j \in Jobs, UndoManifest(j) PROVE DInv'
<1> DEFINE v == j[1]
           p == job[j].prev
<1>1. /\ job[j].pc = "undoManifest" /\ job' = [job EXCEPT ![j].pc = "refused"] /\ shut' = FALSE
      /\ UNCHANGED <<alias, collections, manifest, up, index, queue, indexer>>
  BY DEF UndoManifest, Step
<1>2. active' = job[j].saved /\ UNCHANGED failures
  BY DEF UndoManifest, Either
<1>3. job[j].pc \in Writing /\ job[j].pc \in Holding
  BY <1>1 DEF Writing, Forward, Holding
<1>4. /\ Typed /\ StoresKnown /\ Phase(j) /\ v \in 0..MaxVersion /\ v # 0
      /\ p \in 0..MaxVersion /\ Asked(j)
  BY <1>3, HolderFacts
<1>5. job[j].saved = p /\ Back(v, p) /\ alias \in {0, p}
  BY <1>1, <1>3, <1>4 DEF Phase
<1>6. /\ job' \in [Jobs -> JobRecords]
      /\ job'[j].pc = "refused" /\ job'[j].prev = p
      /\ \A i \in Jobs : i # j => job'[i] = job[i]
      /\ Stuck \subseteq Stuck'
  BY <1>1, <1>3, HolderSteps DEF JobPCs, Ended
<1>7. OneVersion'
  <2>1. alias = 0 \/ (alias = p /\ p \in collections)
    BY <1>4, <1>5 DEF StoresKnown
  <2>2. alias # 0 => v \notin Stuck
    BY <1>4, <2>1, SameOrigin
  <2> QED
    BY <1>1, <1>2, <1>5, <1>6, <2>1, <2>2 DEF OneVersion, Back, index
<1>8. "refused" \notin Holding /\ Phase(j)'
  BY <1>6 DEF Holding, Waiting, Writing, Forward, Phase
<1>9. StoresKnown' /\ manifest' \in Manifests /\ ManifestGrows
  BY <1>1, <1>4 DEF StoresKnown, Known, Typed, Manifests, ManifestGrows
<1>10. alias' \in 0..MaxVersion /\ active' \in 0..MaxVersion /\ bm25' \in 0..MaxVersion
       /\ candidate' \in 0..MaxVersion /\ failures' \in 0..MaxFailures
  BY <1>1, <1>2, <1>4, <1>5 DEF Typed, index
<1> QED
  BY <1>1, <1>3, <1>6, <1>7, <1>8, <1>9, <1>10, HolderKeepsDInv DEF indexer

(* A step of a job that holds nothing, before and after. *)
LEMMA OutsiderKeepsDInv ==
  ASSUME DInv, NEW j \in Jobs, TypeOK', job[j].pc \notin Holding \cup {"refused"},
         job'[j].pc \notin Holding,
         \A i \in Jobs : i # j => job'[i] = job[i],
         UNCHANGED <<stores, up, shut, bm25>>, JobsKnown', IngestKnown', QueueKnown'
  PROVE  DInv'
<1>1. Stuck \subseteq Stuck'
  BY StuckStays DEF stores
<1>2. \A i \in Jobs : job'[i].pc \in Holding => i # j /\ job'[i] = job[i]
  OBVIOUS
<1>3. OneHolds'
  BY <1>2 DEF DInv, OneHolds
<1>4. ASSUME NEW i \in Jobs PROVE Phase(i)'
  <2>1. CASE job'[i].pc \notin Holding
    BY <2>1 DEF Phase, Holding
  <2>2. CASE job'[i].pc \in Holding
    <3>1. job'[i] = job[i] /\ Phase(i)
      BY <1>2, <2>2 DEF DInv
    <3> QED
      BY <1>1, <3>1 DEF Phase, Back, stores
  <2> QED
    BY <2>1, <2>2
<1>5. (\A i \in Jobs : job'[i].pc \notin Writing) => \A i \in Jobs : job[i].pc \notin Writing
  BY DEF Holding
<1>6. up' /\ (\A i \in Jobs : job'[i].pc \notin Writing) => OneVersion'
  BY <1>1, <1>5 DEF DInv, OneVersion, stores
<1>7. StoresKnown'
  BY DEF DInv, StoresKnown, Known, stores
<1> QED
  BY <1>3, <1>4, <1>6, <1>7 DEF DInv

LEMMA PrepareKeepsDInv == ASSUME DInv, NEW j \in Jobs, PrepareCandidate(j) PROVE DInv'
<1>1. job[j].pc = "build" /\ UNCHANGED <<stores, up, bm25, shut, queue, indexer>>
  BY DEF PrepareCandidate
<1>2. PICK label \in {"ok", "refused"} : job' = [job EXCEPT ![j].pc = label]
  BY DEF PrepareCandidate, Either, Step
<1>3. candidate' = candidate \/ candidate' = j[1]
  BY Zenon DEF PrepareCandidate, Either
<1>4. failures' = failures \/ (failures < MaxFailures /\ failures' = failures + 1)
  BY Zenon DEF PrepareCandidate, Either, CanFail, Fail
<1>5. TypeOK /\ Typed /\ j[1] \in 0..MaxVersion
  BY TypedIsTypeOK, JobParts DEF DInv
<1>6. /\ job' \in [Jobs -> JobRecords]
      /\ job'[j].pc = label /\ job'[j].prev = job[j].prev
      /\ \A i \in Jobs : i # j => job'[i] = job[i]
  BY <1>2, <1>5, StepFacts DEF Typed, JobPCs, Ended
<1>7. candidate' \in 0..MaxVersion /\ failures' \in 0..MaxFailures
  BY <1>3, <1>4, <1>5, DocAssumption DEF Typed
<1>8. TypeOK'
  BY <1>1, <1>5, <1>6, <1>7, TypedIsTypeOK DEF Typed, stores, indexer
<1>9. JobsKnown' /\ IngestKnown' /\ QueueKnown'
  BY <1>1, <1>6, StepsStayKnown DEF Asked, stores, indexer, ManifestGrows
<1> QED
  BY <1>1, <1>6, <1>8, <1>9, OutsiderKeepsDInv DEF Holding, Waiting, Writing, Forward

LEMMA StartKeepsDInv == ASSUME DInv, StartJob PROVE DInv'
<1> DEFINE j == Head(queue)
<1>1. queue # <<>> /\ queue' = Tail(queue) /\ UNCHANGED <<stores, up, index, indexer, failures>>
  BY DEF StartJob
<1>2. TypeOK /\ Typed /\ QueueKnown /\ queue \in Seq(Jobs)
  BY TypedIsTypeOK DEF DInv, Typed
<1>3. /\ j = queue[1] /\ j \in Jobs /\ Len(queue) \in Nat \ {0} /\ Tail(queue) \in Seq(Jobs)
      /\ Len(Tail(queue)) = Len(queue) - 1
  BY <1>1, <1>2
<1>4. \A a \in 1..Len(Tail(queue)) : Tail(queue)[a] = queue[a + 1] /\ queue[a + 1] \in Jobs
  BY <1>1, <1>2
<1>5. j[2] \in Kinds
  BY <1>3, JobParts
<1>6. PICK label \in {"build", "refused", "drain"} :
        /\ job' = [job EXCEPT ![j].pc = label]
        /\ IF label = "drain" THEN ~shut /\ shut' = TRUE ELSE UNCHANGED shut
  BY <1>5 DEF StartJob, Step, Kinds
<1> HIDE DEF j
<1>7. /\ job' \in [Jobs -> JobRecords]
      /\ job'[j].pc = label /\ job'[j].prev = job[j].prev
      /\ \A i \in Jobs : i # j => job'[i] = job[i]
  BY <1>2, <1>3, <1>6, StepFacts DEF Typed, JobPCs, Ended
<1>8. job[j].pc = "queued" /\ up
  BY <1>1, <1>2, <1>3 DEF QueueKnown
<1>9. TypeOK'
  <2>1. shut' \in BOOLEAN
    BY <1>2, <1>6 DEF Typed
  <2> QED
    BY <1>1, <1>2, <1>3, <1>7, <2>1, TypedIsTypeOK DEF Typed, stores, index, indexer
<1>10. JobsKnown' /\ IngestKnown'
  BY <1>1, <1>7, <1>8, JobsStayKnown DEF Asked, stores, indexer, ManifestGrows
<1>11. QueueKnown'
  <2>1. ASSUME NEW a \in 1..Len(Tail(queue))
        PROVE  /\ a + 1 \in 1..Len(queue)
               /\ Tail(queue)[a] # j /\ job'[Tail(queue)[a]].pc = "queued"
    <3>1. a + 1 \in 1..Len(queue) /\ 1 \in 1..Len(queue) /\ a + 1 # 1
      BY <1>3
    <3>2. queue[a + 1] # queue[1] /\ job[queue[a + 1]].pc = "queued"
      BY <1>2, <3>1 DEF QueueKnown
    <3> QED
      BY <1>3, <1>4, <1>7, <3>1, <3>2
  <2>2. ASSUME NEW a \in 1..Len(Tail(queue)), NEW b \in 1..Len(Tail(queue)),
               Tail(queue)[a] = Tail(queue)[b]
        PROVE  a = b
    <3>1. queue[a + 1] = queue[b + 1] /\ a + 1 \in 1..Len(queue) /\ b + 1 \in 1..Len(queue)
      BY <1>4, <2>1, <2>2
    <3>2. a + 1 = b + 1
      BY <1>2, <3>1 DEF QueueKnown
    <3> QED
      BY <1>3, <3>2
  <2>3. up'
    BY <1>1, <1>8
  <2> QED
    BY <1>1, <2>1, <2>2, <2>3 DEF QueueKnown
<1>12. CASE label # "drain"
  BY <1>1, <1>3, <1>6, <1>7, <1>8, <1>9, <1>10, <1>11, <1>12, OutsiderKeepsDInv
  DEF Holding, Waiting, Writing, Forward, index
<1>13. CASE label = "drain"
  <2>1. \A i \in Jobs : job[i].pc \notin Holding
    BY <1>6, <1>13 DEF DInv, OneHolds
  <2>2. \A i \in Jobs : job'[i].pc \in Holding => i = j
    BY <1>7, <2>1
  <2>3. "drain" \notin Writing
    BY DEF Writing, Forward
  <2>4. OneHolds'
    BY <1>1, <1>6, <1>8, <1>13, <2>2 DEF OneHolds
  <2>5. ASSUME NEW i \in Jobs PROVE Phase(i)'
    BY <1>7, <1>13, <2>2, <2>3 DEF Phase, Holding
  <2>6. OneVersion'
    <3>1. OneVersion
      BY <1>8, <2>1 DEF DInv, Holding
    <3>2. Stuck \subseteq Stuck'
      BY <1>1, <1>3, <1>7, <1>8, StuckStays DEF stores
    <3> QED
      BY <1>1, <3>1, <3>2 DEF OneVersion, stores, index
  <2>7. StoresKnown'
    BY <1>1 DEF DInv, StoresKnown, Known, stores
  <2> QED
    BY <1>9, <1>10, <1>11, <2>4, <2>5, <2>6, <2>7 DEF DInv
<1> QED
  BY <1>12, <1>13

(* main dies with its jobs and its index, and comes back with what the alias says. *)
LEMMA MainDiesKeepsDInv == ASSUME DInv, MainDies PROVE DInv'
<1>1. TypeOK /\ Typed /\ StoresKnown
  BY TypedIsTypeOK DEF DInv
<1>2. ASSUME NEW i \in Jobs
      PROVE  /\ job'[i] \in JobRecords /\ job'[i].prev = job[i].prev
             /\ job'[i].pc \in {"none"} \cup Ended
             /\ job'[i].pc = "none" <=> job[i].pc = "none"
  <2>1. job[i] \in JobRecords
    BY <1>1 DEF Typed
  <2>2. job'[i] = IF job[i].pc \in {"none"} \cup Ended THEN job[i]
                  ELSE [job[i] EXCEPT !.pc = "lost"]
    BY DEF MainDies
  <2>3. CASE job[i].pc \in {"none"} \cup Ended
    BY <2>1, <2>2, <2>3
  <2>4. CASE job[i].pc \notin {"none"} \cup Ended
    <3>1. job'[i] = [job[i] EXCEPT !.pc = "lost"]
      BY <2>2, <2>4
    <3> QED
      BY <2>1, <2>4, <3>1 DEF JobRecords, JobPCs, Ended
  <2> QED
    BY <2>3, <2>4
<1>3. job' \in [Jobs -> JobRecords]
  BY <1>2 DEF MainDies
<1>4. /\ UNCHANGED <<stores, indexer>> /\ up' = FALSE /\ shut' = FALSE /\ queue' = <<>>
      /\ bm25' = 0 /\ candidate' = 0 /\ failures < MaxFailures /\ failures' = failures + 1
  BY DEF MainDies, CanFail, Fail
<1>5. TypeOK'
  <2>1. queue' \in Seq(Jobs) /\ failures' \in 0..MaxFailures
        /\ bm25' \in 0..MaxVersion /\ candidate' \in 0..MaxVersion
    BY <1>1, <1>4, DocAssumption DEF Typed
  <2>2. up' \in BOOLEAN /\ shut' \in BOOLEAN
    BY <1>4, Zenon
  <2> QED
    BY <1>1, <1>3, <1>4, <2>1, <2>2, TypedIsTypeOK DEF Typed, stores, indexer
<1>6. JobsKnown' /\ IngestKnown'
  BY <1>2, <1>4, JobsStayKnown DEF Asked, stores, indexer, ManifestGrows
<1>7. QueueKnown'
  BY <1>4 DEF QueueKnown
<1>8. \A i \in Jobs : job'[i].pc \notin Holding
  BY <1>2 DEF Holding, Waiting, Writing, Forward, Ended
<1>9. OneHolds' /\ \A i \in Jobs : Phase(i)'
  BY <1>8 DEF OneHolds, Phase, Holding
<1>10. StoresKnown'
  BY <1>1, <1>4 DEF StoresKnown, Known, stores
<1> QED
  BY <1>4, <1>5, <1>6, <1>7, <1>9, <1>10 DEF DInv

LEMMA RestartKeepsDInv == ASSUME DInv, Restart PROVE DInv'
<1>1. TypeOK /\ Typed /\ StoresKnown /\ QueueKnown
  BY TypedIsTypeOK DEF DInv
<1>2. /\ ~up /\ up' = TRUE /\ active' = (IF alias = 0 THEN active ELSE alias)
      /\ manifest' = IF active' = active THEN manifest ELSE [manifest EXCEPT ![active'] = "active"]
      /\ bm25' = IF alias = 0 THEN 0 ELSE active'
      /\ UNCHANGED <<alias, collections, candidate, shut, queue, job, indexer, failures>>
  BY DEF Restart, Reconciled
<1>3. \A i \in Jobs : job[i].pc \notin Holding
  BY <1>2 DEF DInv, OneHolds
<1>4. manifest' \in Manifests /\ ManifestGrows
  <2>1. manifest' = manifest \/ (alias # 0 /\ manifest' = [manifest EXCEPT ![alias] = "active"])
    BY <1>2
  <2>2. alias # 0 => alias \in Versions
    BY <1>1 DEF Typed, Versions
  <2> QED
    BY <1>1, <2>1, <2>2 DEF Typed, Manifests, ManifestGrows
<1>5. TypeOK'
  <2>1. active' \in 0..MaxVersion /\ bm25' \in 0..MaxVersion
    BY <1>1, <1>2, DocAssumption DEF Typed
  <2>2. up' \in BOOLEAN
    BY <1>2, Zenon
  <2> QED
    BY <1>1, <1>2, <1>4, <2>1, <2>2, TypedIsTypeOK DEF Typed, Manifests, indexer
<1>6. JobsKnown' /\ IngestKnown'
  BY <1>2, <1>4, JobsStayKnown DEF Asked, indexer
<1>7. QueueKnown'
  BY <1>1, <1>2 DEF QueueKnown
<1>8. OneHolds' /\ \A i \in Jobs : Phase(i)'
  BY <1>2, <1>3 DEF OneHolds, Phase, Holding
<1>9. OneVersion'
  BY <1>2 DEF OneVersion
<1>10. StoresKnown'
  BY <1>1, <1>2, <1>4, StaysKnown DEF StoresKnown, Known, Typed
<1> QED
  BY <1>5, <1>6, <1>7, <1>8, <1>9, <1>10 DEF DInv

LEMMA RecallKeepsDInv == ASSUME DInv, Recall PROVE DInv'
<1>1. TypeOK /\ Typed /\ StoresKnown /\ QueueKnown
  BY TypedIsTypeOK DEF DInv
<1>2. /\ up /\ ~shut /\ bm25' = active
      /\ UNCHANGED <<stores, up, candidate, shut, queue, job, indexer, failures>>
  BY DEF Recall
<1>3. \A i \in Jobs : job[i].pc \notin Holding
  BY <1>2 DEF DInv, OneHolds
<1>4. TypeOK'
  BY <1>1, <1>2, TypedIsTypeOK DEF Typed, stores, indexer
<1>5. JobsKnown' /\ IngestKnown'
  BY <1>2, JobsStayKnown DEF Asked, stores, indexer, ManifestGrows
<1>6. QueueKnown' /\ StoresKnown'
  BY <1>1, <1>2 DEF QueueKnown, StoresKnown, Known, stores
<1>7. OneHolds' /\ \A i \in Jobs : Phase(i)'
  BY <1>2, <1>3 DEF OneHolds, Phase, Holding
<1>8. OneVersion'
  <2>1. OneVersion /\ Stuck' = Stuck
    BY <1>2, <1>3 DEF DInv, Holding, Stuck, stores
  <2> QED
    BY <1>2, <2>1 DEF OneVersion, stores
<1> QED
  BY <1>4, <1>5, <1>6, <1>7, <1>8 DEF DInv
-----------------------------------------------------------------------------
(* At the start one version is in the alias, the manifest and the keyword index. *)
THEOREM InitDInv == Init => DInv
<1> SUFFICES ASSUME Init PROVE DInv
  OBVIOUS
<1> USE DocAssumption
<1>1. TypeOK /\ Typed
  BY InitTypeOK, TypedIsTypeOK
<1>2. /\ alias = active /\ bm25 = alias /\ collections = {alias} \ {0}
      /\ manifest = [v \in Versions |-> IF v = alias THEN "active" ELSE "none"]
      /\ queue = <<>> /\ job = [j \in Jobs |-> NoJob]
      /\ ing = Idle /\ call = [kind \in Kinds |-> NoCall]
  BY DEF Init
<1>3. \A j \in Jobs : job[j].pc = "none"
  BY <1>2 DEF NoJob
<1>4. JobsKnown /\ OneHolds /\ \A j \in Jobs : Phase(j)
  BY <1>3 DEF JobsKnown, Asked, OneHolds, Phase, Holding, Waiting, Writing, Forward
<1>5. IngestKnown
  BY <1>2 DEF IngestKnown, Idle, NoCall
<1>6. StoresKnown
  BY <1>1, <1>2 DEF StoresKnown, Known, Typed, Versions
<1>7. QueueKnown
  BY <1>2 DEF QueueKnown
<1>8. OneVersion
  BY <1>2 DEF OneVersion
<1> QED
  BY <1>1, <1>4, <1>5, <1>6, <1>7, <1>8 DEF DInv

(* Every step of the indexer, of main's commit jobs, of S3 and Qdrant keeps what the  *)
(* stores, the gate, the queue of jobs and the progress of an ingest say of each other. *)
THEOREM NextKeepsDInv ==
  ASSUME ~RollbackFails PROVE DInv /\ [Next]_vars => DInv'
<1> SUFFICES ASSUME DInv, [Next]_vars PROVE DInv'
  OBVIOUS
<1>1. CASE Ingest
  BY <1>1, IngestKeepsDInv
<1>2. CASE IngestStep \/ IndexerDies
  BY <1>2, IndexerKeepsDInv, CallsKeepDInv DEF IngestStep
<1>3. CASE ClientStep
  BY <1>3, CallsKeepDInv
<1>4. CASE StartJob
  BY <1>4, StartKeepsDInv
<1>5. ASSUME NEW j \in Jobs, JobStep(j) PROVE DInv'
  BY <1>5, PrepareKeepsDInv, DrainKeepsDInv, CheckKeepsDInv, WritesKeepDInv, ActivateKeepsDInv,
     UndoAliasKeepsDInv, UndoManifestKeepsDInv
  DEF JobStep
<1>6. CASE MainDies
  BY <1>6, MainDiesKeepsDInv
<1>7. CASE Restart
  BY <1>7, RestartKeepsDInv
<1>8. CASE Recall
  BY <1>8, RecallKeepsDInv
<1>9. CASE UNCHANGED vars
  <2>1. TypeOK' /\ StoresKnown' /\ QueueKnown' /\ JobsKnown' /\ IngestKnown' /\ OneHolds'
    BY <1>9 DEF DInv, TypeOK, StoresKnown, Known, QueueKnown, JobsKnown, Asked, IngestKnown,
      SentOf, OneHolds, vars, stores, main, index, indexer
  <2>2. Stuck' = Stuck
    BY <1>9 DEF Stuck, vars, stores, main
  <2>3. (\A j \in Jobs : Phase(j)')
        /\ (up' /\ (\A j \in Jobs : job'[j].pc \notin Writing) => OneVersion')
    BY <1>9, <2>2 DEF DInv, Phase, Back, OneVersion, vars, stores, main, index
  <2> QED
    BY <2>1, <2>3 DEF DInv
<1> QED
  BY <1>1, <1>2, <1>3, <1>4, <1>5, <1>6, <1>7, <1>8, <1>9 DEF Next

LEMMA Served == DInv => OneVersionServed
<1> SUFFICES ASSUME DInv, up, ~shut, alias # 0, ~CannotGoBack
             PROVE  active = alias /\ bm25 = alias
  BY DEF OneVersionServed
<1>1. \A j \in Jobs : job[j].pc \notin Writing
  BY DEF DInv, OneHolds, Holding
<1>2. alias \notin Stuck
  BY DEF Stuck, CannotGoBack
<1> QED
  BY <1>1, <1>2 DEF DInv, OneVersion

(* commit_prepared_version, its rollback, the restart and the rebuild of a stale       *)
(* index: a recall that is let in sees one version behind the alias, in the active     *)
(* manifest and in memory, unless retention has taken the way back.                    *)
THEOREM DocOneVersionServed ==
  ASSUME ~RollbackFails PROVE Spec => []OneVersionServed
<1>1. DInv /\ [Next]_vars => DInv'
  BY NextKeepsDInv
<1> QED
  BY <1>1, InitDInv, Served, PTL DEF Spec

(* What is behind the alias and in memory changes only with the gate closed, but for   *)
(* a collection that is dropped and an index that was already stale.                   *)
LEMMA OpenGate ==
  ASSUME DInv, [Next]_vars
  PROVE  up /\ ~shut /\ up' /\ ~shut' =>
           alias' \in {alias, 0} /\ (bm25' # bm25 => bm25' = active)
<1> SUFFICES ASSUME up, ~shut, up', ~shut'
             PROVE  alias' \in {alias, 0} /\ (bm25' # bm25 => bm25' = active)
  OBVIOUS
<1>1. \A j \in Jobs : job[j].pc \notin Holding
  BY DEF DInv, OneHolds
<1>2. CASE Ingest \/ ClientStep \/ IndexerDies \/ StartJob
  BY <1>2 DEF Ingest, ClientStep, Reply, AttemptFails, IndexerDies, StartJob, stores, index, main
<1>3. CASE IngestStep
  BY <1>3 DEF IngestStep, PruneBefore, CreateCollection, Embed, AwaitPrepare, AwaitCommit,
    CheckVisible, Discard, MarkFailed, DeleteCandidate, PruneAfter, Either, Prune,
    DropCollections, stores, index, main
<1>4. ASSUME NEW j \in Jobs, JobStep(j)
      PROVE  alias' = alias /\ bm25' = bm25
  <2>1. PrepareCandidate(j)
    BY <1>1, <1>4 DEF JobStep, Drain, Check, SwitchAlias, WriteActive, Verify, WriteVersion,
      Activate, UndoAlias, UndoManifest, Holding, Waiting, Writing, Forward
  <2> QED
    BY <2>1 DEF PrepareCandidate, stores
<1>5. CASE MainDies \/ Restart \/ Recall
  BY <1>5 DEF MainDies, Restart, Recall, stores
<1>6. CASE UNCHANGED vars
  BY <1>6 DEF vars, stores, main, index
<1> QED
  BY <1>2, <1>3, <1>4, <1>5, <1>6 DEF Next

(* While the gate lets recalls in, no step of main, the indexer or the stores points the *)
(* alias to another collection or activates a keyword index that is not the active       *)
(* version's; a restart of main has no recalls to disturb.                               *)
THEOREM DocNoSwitchUnderRecalls ==
  ASSUME ~RollbackFails PROVE Spec => NoSwitchUnderRecalls
<1>1. DInv /\ [Next]_vars => DInv'
  BY NextKeepsDInv
<1>2. DInv /\ [Next]_vars =>
        [up /\ ~shut /\ up' /\ ~shut' =>
           alias' \in {alias, 0} /\ (bm25' # bm25 => bm25' = active)]_vars
  BY OpenGate
<1> QED
  BY <1>1, <1>2, InitDInv, PTL DEF Spec, NoSwitchUnderRecalls
-----------------------------------------------------------------------------
(* The answer may be of an attempt that has long been given up, while later attempts  *)
(* are still at work.                                                                *)

(* An ingest that has asked for its commit, or is about to, still has the collection *)
(* its commit would go back to.                                                       *)
Towards == {"prune", "create", "embed", "prepared", "commit"}
PreviousKept == ing.pc \in Towards /\ ing.prev # 0 => ing.prev \in collections

(* A job that builds a candidate is a prepare, and the jobs behind the gate are commits. *)
KindsKept == \A j \in Jobs : /\ job[j].pc = "build" => j[2] = "prepare"
                             /\ job[j].pc \in Holding => j[2] = "commit"

(* A commit goes back to the version it came from, or to none. *)
SavedKept == \A j \in Jobs : job[j].saved \in {0, job[j].prev}

(* Nobody takes the alias from the commit that the indexer waits for. *)
Switched == {"manifest", "verify", "version", "activate"}
AliasKept == ing.pc = "commit" =>
    \A j \in Jobs : j[1] = ing.version /\ job[j].pc \in Switched => alias = j[1]

(* What an answer 200 means: the version is served, and no job is writing. *)
Settled == /\ alias = ing.version /\ active = ing.version /\ (up => bm25 = ing.version)
           /\ \A j \in Jobs : job[j].pc \notin Writing
Done == \E j \in Jobs : j[1] = ing.version /\ j[2] = "commit" /\ job[j].pc = "ok"
AnswerKept ==
    /\ call["commit"].state = "sent" => ing.pc = "commit"
    /\ ing.pc = "commit" /\ Done => Settled
    /\ call["commit"].state = "ok" => ing.pc \in {"commit", "cleanup"} /\ Settled

AckInv == DInv /\ PreviousKept /\ KindsKept /\ SavedKept /\ AliasKept /\ AnswerKept
-----------------------------------------------------------------------------
(* The indexer and its calls                                                 *)
LEMMA RunEndKeepsAck ==
  ASSUME AckInv, DInv', EndRun, job' = job PROVE AckInv'
<1>1. ing'.pc = "idle" /\ call'["commit"].state = "none"
  BY EndRunFacts DEF Kinds
<1>2. KindsKept' /\ SavedKept'
  BY DEF AckInv, KindsKept, SavedKept
<1> QED
  BY <1>1, <1>2 DEF AckInv, PreviousKept, Towards, AliasKept, AnswerKept

LEMMA IndexerKeepsAck ==
  ASSUME AckInv, DInv', UNCHANGED <<job, call, active, up, bm25>>,
         ing'.version = ing.version, ing'.prev = ing.prev, ing'.pc # "commit",
         ing'.pc \in Towards => ing.pc \in Towards /\ (ing.prev # 0 => ing.prev \in collections'),
         call["commit"].state # "sent",
         call["commit"].state = "ok" => ing'.pc = "cleanup" /\ alias' = alias
  PROVE  AckInv'
<1>1. PreviousKept' /\ AliasKept'
  BY DEF PreviousKept, AliasKept
<1>2. KindsKept' /\ SavedKept'
  BY DEF AckInv, KindsKept, SavedKept
<1>3. AnswerKept'
  BY DEF AckInv, AnswerKept, Settled
<1> QED
  BY <1>1, <1>2, <1>3 DEF AckInv

LEMMA IndexerStepsKeepAck ==
  ASSUME AckInv, DInv',
         \/ PruneBefore \/ CreateCollection \/ Embed \/ AwaitCommit \/ CheckVisible
         \/ Discard \/ MarkFailed \/ DeleteCandidate \/ PruneAfter \/ IndexerDies
  PROVE  AckInv'
<1>1. ing \in IngestRecords /\ IngestKnown
  BY TypedIsTypeOK DEF AckInv, DInv, Typed
<1>2. /\ call["commit"].state = "sent" => ing.pc = "commit"
      /\ call["commit"].state = "ok" => ing.pc \in {"commit", "cleanup"}
  BY DEF AckInv, AnswerKept
<1>3. ASSUME NEW label \in IngestPCs, At(label)
      PROVE  /\ ing'.pc = label /\ ing'.version = ing.version /\ ing'.prev = ing.prev
             /\ call' = call
  BY <1>1, <1>3, AtFacts DEF At
<1>4. CASE PruneBefore
  <2>1. CASE Prune(RetainBusy, ing.prev) /\ At("create")
    <3>1. ing.prev \in collections => ing.prev \in collections'
      BY <2>1 DEF Prune, DropCollections
    <3>2. UNCHANGED <<job, active, up, bm25>> /\ ing.pc = "prune"
      BY <1>4 DEF PruneBefore, main, index
    <3>3. ing'.pc = "create" /\ ing'.version = ing.version /\ ing'.prev = ing.prev /\ call' = call
      BY <1>3, <2>1 DEF IngestPCs
    <3> QED
      BY <1>2, <3>1, <3>2, <3>3, IndexerKeepsAck DEF AckInv, PreviousKept, Towards
  <2>2. CASE EndRun
    BY <1>4, <2>2, RunEndKeepsAck DEF PruneBefore, main
  <2> QED
    BY <1>4, <2>1, <2>2 DEF PruneBefore, Either
<1>5. CASE CreateCollection \/ Embed
  <2>1. PICK label \in {"embed", "prepared", "check"} : At(label)
    BY <1>5 DEF CreateCollection, Embed, Either
  <2>2. collections \subseteq collections' /\ ing.pc \in {"create", "embed"}
        /\ UNCHANGED <<job, active, up, bm25>>
    BY <1>5 DEF CreateCollection, Embed, Either, main, index
  <2>3. ing'.pc = label /\ ing'.version = ing.version /\ ing'.prev = ing.prev /\ call' = call
    BY <1>3, <2>1 DEF IngestPCs
  <2> QED
    BY <1>2, <2>2, <2>3, IndexerKeepsAck DEF AckInv, PreviousKept, Towards
<1>6. CASE AwaitCommit
  <2>1. PICK label \in {"cleanup", "check"} :
          At(label) /\ (call["commit"].state = "ok" => label = "cleanup")
    BY <1>6 DEF AwaitCommit
  <2>2. UNCHANGED <<job, alias, active, up, bm25>> /\ call["commit"].state \in {"ok", "failed"}
    BY <1>6 DEF AwaitCommit, stores, main, index
  <2>3. ing'.pc = label /\ ing'.version = ing.version /\ ing'.prev = ing.prev /\ call' = call
    BY <1>3, <2>1 DEF IngestPCs
  <2> QED
    BY <2>1, <2>2, <2>3, IndexerKeepsAck DEF Towards
<1>7. CASE CheckVisible \/ Discard \/ MarkFailed
  <2>1. PICK label \in {"cleanup", "discard", "fail", "delete"} : At(label)
    BY <1>7 DEF CheckVisible, Discard, MarkFailed
  <2>2. ing.pc \in {"check", "discard", "fail"} /\ UNCHANGED <<job, active, up, bm25>>
    BY <1>7 DEF CheckVisible, Discard, MarkFailed, stores, main, index
  <2>3. ing'.pc = label /\ ing'.version = ing.version /\ ing'.prev = ing.prev /\ call' = call
    BY <1>3, <2>1 DEF IngestPCs
  <2> QED
    BY <1>2, <2>2, <2>3, IndexerKeepsAck DEF Towards
<1>8. CASE DeleteCandidate \/ PruneAfter \/ IndexerDies
  BY <1>8, RunEndKeepsAck DEF DeleteCandidate, PruneAfter, IndexerDies, main
<1> QED
  BY <1>4, <1>5, <1>6, <1>7, <1>8

(* A new attempt is in the queue, or lost. *)
LEMMA SendMoves ==
  ASSUME job \in [Jobs -> JobRecords], NEW kind \in Kinds, NEW k, NEW v, NEW prev,
         call \in [Kinds -> CallRecords], Send(kind, k, v, prev)
  PROVE  /\ \A i \in Jobs : job'[i] = job[i] \/ (job'[i].pc \in {"queued", "lost"} /\ job'[i].saved = 0)
         /\ call'[kind].state = "sent"
         /\ \A other \in Kinds : other # kind => call'[other] = call[other]
BY DEF Send

LEMMA SendKeepsAck ==
  ASSUME AckInv,
         \A i \in Jobs : job'[i] = job[i] \/ (job'[i].pc \in {"queued", "lost"} /\ job'[i].saved = 0)
  PROVE  /\ KindsKept' /\ SavedKept'
         /\ \A i \in Jobs : /\ job'[i].pc \in Writing => job[i].pc \in Writing
                            /\ job'[i].pc \in Switched => job[i].pc \in Switched
                            /\ job'[i].pc = "ok" => job[i].pc = "ok"
BY DEF AckInv, KindsKept, SavedKept, Writing, Forward, Switched, Holding, Waiting

LEMMA IngestKeepsAck == ASSUME AckInv, DInv', Ingest PROVE AckInv'
<1>1. Typed /\ IngestKnown /\ StoresKnown
  BY TypedIsTypeOK DEF AckInv, DInv
<1>2. PICK v \in Versions : /\ ing' = [pc |-> "prune", version |-> v, prev |-> alias]
                            /\ Send("prepare", 1, v, alias)
  BY DEF Ingest
<1>3. "prepare" \in Kinds /\ "commit" \in Kinds
  BY DEF Kinds
<1>4. /\ \A i \in Jobs : job'[i] = job[i] \/ (job'[i].pc \in {"queued", "lost"} /\ job'[i].saved = 0)
      /\ call'["commit"] = call["commit"]
  BY <1>1, <1>2, <1>3, SendMoves DEF Typed
<1>5. call["commit"].state = "none"
  BY <1>1, <1>3 DEF IngestKnown, Ingest
<1>6. ing'.pc = "prune" /\ ing'.prev = alias /\ collections' = collections
  BY <1>2 DEF Ingest
<1>7. KindsKept' /\ SavedKept'
  BY <1>4, SendKeepsAck
<1> QED
  BY <1>1, <1>4, <1>5, <1>6, <1>7
  DEF AckInv, PreviousKept, AliasKept, AnswerKept, StoresKnown

LEMMA CallsKeepAck == ASSUME AckInv, DInv', AwaitPrepare \/ ClientStep PROVE AckInv'
<1>1. Typed /\ IngestKnown /\ ing \in IngestRecords
  BY TypedIsTypeOK DEF AckInv, DInv, Typed
<1>2. "prepare" \in Kinds /\ "commit" \in Kinds
  BY DEF Kinds
<1>3. CASE AwaitPrepare
  <2>1. CASE ing' = [ing EXCEPT !.pc = "commit"] /\ Send("commit", 1, ing.version, ing.prev)
    <3>1. call["commit"].state = "none" /\ ing.pc = "prepared"
      BY <1>1, <1>3 DEF AwaitPrepare, IngestKnown
    <3>2. /\ \A i \in Jobs : job'[i] = job[i] \/ (job'[i].pc \in {"queued", "lost"} /\ job'[i].saved = 0)
          /\ call'["commit"].state = "sent"
      BY <1>1, <1>2, <2>1, SendMoves DEF Typed
    <3>3. ing'.pc = "commit" /\ ing'.version = ing.version /\ ing'.prev = ing.prev
      BY <1>1, <2>1, AtFacts DEF IngestPCs
    <3>4. \A i \in Jobs : i[1] = ing.version /\ i[2] = "commit" => job[i].pc = "none"
      BY <1>1, <3>1, JobParts DEF IngestKnown, SentOf, Asked
    <3>5. \A i \in Jobs : i[1] = ing.version /\ i[2] = "commit"
                          => job'[i].pc \notin Switched \cup {"ok"}
      BY <3>2, <3>4 DEF Switched
    <3>6. KindsKept' /\ SavedKept'
      BY <3>2, SendKeepsAck
    <3>7. AliasKept' /\ AnswerKept'
      BY <3>2, <3>3, <3>5, <3>6
      DEF AliasKept, AnswerKept, Done, KindsKept, Switched, Holding, Writing, Forward
    <3>8. PreviousKept'
      BY <1>3, <3>1, <3>3 DEF AckInv, PreviousKept, Towards, AwaitPrepare, stores
    <3> QED
      BY <3>6, <3>7, <3>8 DEF AckInv
  <2>2. CASE At("check") /\ UNCHANGED <<queue, job>>
    <3>1. ing'.pc = "check" /\ ing'.version = ing.version /\ ing'.prev = ing.prev /\ call' = call
      BY <1>1, <2>2, AtFacts DEF At, IngestPCs
    <3>2. call["commit"].state = "none"
      BY <1>1, <1>3 DEF AwaitPrepare, IngestKnown
    <3> QED
      BY <1>3, <2>2, <3>1, <3>2, IndexerKeepsAck DEF AwaitPrepare, stores, index, Towards
  <2> QED
    BY <1>3, <2>1, <2>2 DEF AwaitPrepare
<1>4. ASSUME NEW kind \in Kinds, Reply(kind) PROVE AckInv'
  <2>1. UNCHANGED <<stores, main, ing>> /\ call[kind].state = "sent"
    BY <1>4 DEF Reply
  <2>2. /\ KindsKept' /\ SavedKept' /\ PreviousKept' /\ AliasKept'
        /\ (Done' <=> Done) /\ (Settled' <=> Settled)
    BY <2>1 DEF AckInv, KindsKept, SavedKept, PreviousKept, AliasKept, Done, Settled, stores, main,
      index
  <2>3. CASE kind = "commit"
    <3>1. ing.pc = "commit"
      BY <2>1, <2>3 DEF AckInv, AnswerKept
    <3>2. call'["commit"].state = IF Outcome("commit") = "ok" THEN "ok" ELSE "failed"
      BY <1>1, <1>2, <1>4, <2>3 DEF Reply, Typed, CallRecords
    <3>3. Outcome("commit") = "ok" => Done
      <4> DEFINE j == <<ing.version, "commit", call["commit"].k>>
      <4>1. j \in Jobs /\ j[1] = ing.version /\ j[2] = "commit"
        BY <1>1, <1>2, <3>1, JobParts DEF IngestKnown, Typed, CallRecords
      <4>2. Outcome("commit") = job[j].pc
        BY DEF Outcome
      <4> HIDE DEF j
      <4> QED
        BY <4>1, <4>2 DEF Done
    <3> QED
      BY <2>1, <2>2, <3>1, <3>2, <3>3 DEF AckInv, AnswerKept
  <2>4. CASE kind # "commit"
    <3>1. call'["commit"] = call["commit"]
      BY <1>1, <1>2, <1>4, <2>4 DEF Reply, Typed, CallRecords
    <3> QED
      BY <2>1, <2>2, <3>1 DEF AckInv, AnswerKept
  <2> QED
    BY <2>3, <2>4
<1>5. ASSUME NEW kind \in Kinds, AttemptFails(kind) PROVE AckInv'
  <2>1. UNCHANGED <<stores, up, index, ing>> /\ call[kind].state = "sent"
    BY <1>5 DEF AttemptFails
  <2>2. /\ \A i \in Jobs : job'[i] = job[i] \/ (job'[i].pc \in {"queued", "lost"} /\ job'[i].saved = 0)
        /\ call'[kind].state \in {"sent", "failed"}
        /\ \A other \in Kinds : other # kind => call'[other] = call[other]
    <3>1. CASE Send(kind, call[kind].k + 1, ing.version, ing.prev)
      BY <1>1, <3>1, SendMoves DEF Typed
    <3>2. CASE call' = [call EXCEPT ![kind].state = "failed"] /\ UNCHANGED <<queue, job>>
      BY <1>1, <3>2 DEF Typed, CallRecords
    <3> QED
      BY <1>5, <3>1, <3>2 DEF AttemptFails
  <2>3. /\ KindsKept' /\ SavedKept'
        /\ \A i \in Jobs : /\ job'[i].pc \in Writing => job[i].pc \in Writing
                           /\ job'[i].pc \in Switched => job[i].pc \in Switched
                           /\ job'[i].pc = "ok" => job[i].pc = "ok"
    BY <2>2, SendKeepsAck
  <2>4. PreviousKept' /\ AliasKept' /\ (Done' => Done) /\ (Settled => Settled')
    BY <2>1, <2>3 DEF AckInv, PreviousKept, AliasKept, Done, Settled, stores, index
  <2>5. /\ call'["commit"].state = "ok" => call["commit"].state = "ok"
        /\ call'["commit"].state = "sent" => call["commit"].state = "sent"
    BY <1>2, <2>1, <2>2
  <2> QED
    BY <2>1, <2>3, <2>4, <2>5 DEF AckInv, AnswerKept
<1> QED
  BY <1>3, <1>4, <1>5 DEF ClientStep
-----------------------------------------------------------------------------
(* main                                                                      *)
(* A step of one job that writes nothing, and does not end a commit well. *)
LEMMA QuietKeepsAck ==
  ASSUME AckInv, DInv', NEW j \in Jobs, \A i \in Jobs : i # j => job'[i] = job[i],
         job'[j].saved = job[j].saved, job'[j].prev = job[j].prev,
         job'[j].pc \notin Writing, job'[j].pc = "ok" => j[2] = "prepare",
         job'[j].pc = "build" => j[2] = "prepare", job'[j].pc \in Holding => j[2] = "commit",
         UNCHANGED <<alias, collections, active, up, bm25, ing, call>>
  PROVE  AckInv'
<1>1. PreviousKept' /\ KindsKept' /\ SavedKept'
  BY DEF AckInv, PreviousKept, KindsKept, SavedKept
<1>2. AliasKept'
  BY DEF AckInv, AliasKept, Switched, Writing, Forward
<1>3. (Done' => Done) /\ (Settled => Settled')
  BY DEF Done, Settled
<1> QED
  BY <1>1, <1>2, <1>3 DEF AckInv, AnswerKept

(* While a job is writing no answer stands: its steps can break none. *)
LEMMA WritingKeepsAck ==
  ASSUME AckInv, DInv', NEW j \in Jobs, \A i \in Jobs : i # j => job'[i] = job[i],
         job'[j].saved = job[j].saved, job'[j].prev = job[j].prev,
         job[j].pc \in Writing, job'[j].pc \in Writing \cup {"refused"},
         ing.pc = "commit" /\ j[1] = ing.version /\ job'[j].pc \in Switched => alias' = j[1],
         UNCHANGED <<collections, ing, call>>
  PROVE  AckInv'
<1>1. PreviousKept' /\ SavedKept'
  BY DEF AckInv, PreviousKept, SavedKept
<1>2. KindsKept'
  BY DEF AckInv, KindsKept, Holding, Waiting, Writing, Forward
<1>3. \A i \in Jobs : i # j => job[i].pc \notin Switched
  BY DEF AckInv, DInv, OneHolds, Holding, Writing, Forward, Switched
<1>4. AliasKept'
  BY <1>3 DEF AliasKept
<1>5. ~Settled /\ (Done' => Done)
  BY DEF Settled, Done, Writing, Forward
<1> QED
  BY <1>1, <1>2, <1>4, <1>5 DEF AckInv, AnswerKept

LEMMA JobMoves ==
  ASSUME AckInv, NEW j \in Jobs, NEW label \in JobPCs, Step(j, label)
  PROVE  /\ job'[j].pc = label /\ \A i \in Jobs : i # j => job'[i] = job[i]
         /\ job'[j].saved = job[j].saved /\ job'[j].prev = job[j].prev
<1>1. job \in [Jobs -> JobRecords]
  BY TypedIsTypeOK DEF AckInv, DInv, Typed
<1> QED
  BY <1>1, StepFacts DEF Step

LEMMA StartKeepsAck == ASSUME AckInv, DInv', StartJob PROVE AckInv'
<1>1. queue # <<>> /\ queue \in Seq(Jobs)
  BY TypedIsTypeOK DEF AckInv, DInv, Typed, StartJob
<1> DEFINE j == Head(queue)
<1>2. j \in Jobs /\ j[2] \in Kinds
  BY <1>1, JobParts
<1>3. \/ j[2] = "prepare" /\ Step(j, "build")
      \/ j[2] = "commit" /\ (Step(j, "refused") \/ Step(j, "drain"))
  BY <1>2 DEF StartJob, Kinds
<1>4. UNCHANGED <<alias, collections, active, up, bm25, ing, call>>
  BY DEF StartJob, stores, index, indexer
<1> HIDE DEF j
<1>5. PICK label \in {"build", "refused", "drain"} :
        /\ Step(j, label) /\ (label = "build" => j[2] = "prepare")
        /\ (label = "drain" => j[2] = "commit")
  BY <1>3
<1>6. /\ job'[j].pc = label /\ \A i \in Jobs : i # j => job'[i] = job[i]
     /\ job'[j].saved = job[j].saved /\ job'[j].prev = job[j].prev
  BY <1>2, <1>5, JobMoves DEF JobPCs, Ended
<1> QED
  BY <1>2, <1>4, <1>5, <1>6, QuietKeepsAck DEF Writing, Forward, Holding, Waiting

LEMMA QuietStepsKeepAck ==
  ASSUME AckInv, DInv', NEW j \in Jobs, PrepareCandidate(j) \/ Drain(j) PROVE AckInv'
<1>1. CASE PrepareCandidate(j)
  <2>1. PICK label \in {"ok", "refused"} : Step(j, label)
    BY <1>1 DEF PrepareCandidate, Either
  <2>2. j[2] = "prepare"
    BY <1>1 DEF PrepareCandidate, AckInv, KindsKept
  <2>3. /\ job'[j].pc = label /\ \A i \in Jobs : i # j => job'[i] = job[i]
       /\ job'[j].saved = job[j].saved /\ job'[j].prev = job[j].prev
    BY <2>1, JobMoves DEF JobPCs, Ended
  <2> QED
    BY <1>1, <2>2, <2>3, QuietKeepsAck
    DEF PrepareCandidate, Writing, Forward, Holding, Waiting, stores, indexer
<1>2. CASE Drain(j)
  <2>1. PICK label \in {"check", "refused"} : Step(j, label)
    BY <1>2 DEF Drain, Either
  <2>2. j[2] = "commit"
    BY <1>2 DEF Drain, AckInv, KindsKept, Holding, Waiting
  <2>3. /\ job'[j].pc = label /\ \A i \in Jobs : i # j => job'[i] = job[i]
       /\ job'[j].saved = job[j].saved /\ job'[j].prev = job[j].prev
    BY <2>1, JobMoves DEF JobPCs, Ended
  <2> QED
    BY <1>2, <2>2, <2>3, QuietKeepsAck
    DEF Drain, Writing, Forward, Holding, Waiting, stores, index, indexer
<1> QED
  BY <1>1, <1>2

(* The check answers at once only what is served, and lets no commit pass that would *)
(* disturb an answer: not a retry, and not one of another version.                    *)
LEMMA CheckKeepsAck == ASSUME AckInv, DInv', NEW j \in Jobs, Check(j) PROVE AckInv'
<1>1. TypeOK /\ IngestKnown /\ OneHolds /\ job \in [Jobs -> JobRecords]
  BY TypedIsTypeOK DEF AckInv, DInv, Typed
<1>2. /\ job[j].pc = "check" /\ up /\ j[2] = "commit" /\ Asked(j)
      /\ \A i \in Jobs : job[i].pc \notin Writing
  BY <1>1 DEF Check, OneHolds, AckInv, KindsKept, Holding, Waiting, Writing, Forward, Asked
<1>3. UNCHANGED <<alias, collections, active, up, bm25, ing, call>>
  BY DEF Check, stores, index, indexer
<1>4. CASE Step(j, "refused")
  <2>1. /\ job'[j].pc = "refused" /\ \A i \in Jobs : i # j => job'[i] = job[i]
       /\ job'[j].saved = job[j].saved /\ job'[j].prev = job[j].prev
    BY <1>4, JobMoves DEF JobPCs, Ended
  <2> QED
    BY <1>2, <1>3, <2>1, QuietKeepsAck DEF Writing, Forward, Holding, Waiting
<1>5. CASE Step(j, "ok") /\ alias = j[1] /\ bm25 = j[1]
  <2>1. /\ job'[j].pc = "ok" /\ \A i \in Jobs : i # j => job'[i] = job[i]
       /\ job'[j].saved = job[j].saved /\ job'[j].prev = job[j].prev
    BY <1>5, JobMoves DEF JobPCs, Ended
  <2>2. PreviousKept' /\ KindsKept' /\ SavedKept' /\ AliasKept'
    BY <1>3, <2>1 DEF AckInv, PreviousKept, KindsKept, SavedKept, AliasKept, Holding, Waiting, Writing,
      Forward, Switched
  <2>3. Settled => Settled'
    BY <1>3, <2>1 DEF Settled, Writing, Forward
  <2>4. CASE j[1] # ing.version
    <3>1. Done' => Done
      BY <1>3, <2>1, <2>4 DEF Done
    <3> QED
      BY <1>3, <2>2, <2>3, <3>1 DEF AckInv, AnswerKept
  <2>5. CASE j[1] = ing.version
    <3>1. ing.pc = "commit" => j[1] \notin Stuck
      <4> SUFFICES ASSUME ing.pc = "commit", NEW i \in Jobs, job[i].pc = "refused",
                          job[i].saved # 0, j[1] = i[1], job[i].prev \notin collections
                   PROVE  FALSE
        BY DEF Stuck
      <4>1. job[i].prev = ing.prev
        BY <1>1, <2>5 DEF IngestKnown, Asked
      <4>2. ing.prev = 0
        BY <4>1 DEF AckInv, PreviousKept, Towards
      <4> QED
        BY <4>1, <4>2 DEF AckInv, SavedKept
    <3>2. j[1] # 0
      BY JobParts
    <3>3. ing.pc = "commit" => active = j[1]
      BY <1>2, <1>5, <3>1, <3>2 DEF AckInv, DInv, OneVersion
    <3>4. ing.pc = "commit" => Settled'
      BY <1>2, <1>3, <1>5, <2>1, <2>5, <3>3 DEF Settled, Writing, Forward
    <3> QED
      BY <1>3, <2>2, <2>3, <3>4 DEF AckInv, AnswerKept
  <2> QED
    BY <2>4, <2>5
<1>6. CASE /\ Acceptable(j) /\ ~(alias = j[1] /\ bm25 = j[1])
           /\ job' = [job EXCEPT ![j].pc = "switch", ![j].saved = Previous(job[j].prev)]
  <2>1. /\ job'[j].pc = "switch" /\ \A i \in Jobs : i # j => job'[i] = job[i]
        /\ job'[j].prev = job[j].prev /\ job'[j].saved \in {0, job[j].prev}
    BY <1>1, <1>6 DEF JobRecords, Previous
  <2>2. PreviousKept' /\ KindsKept' /\ SavedKept' /\ AliasKept'
    BY <1>2, <1>3, <2>1 DEF AckInv, PreviousKept, KindsKept, SavedKept, AliasKept, Holding, Waiting,
      Writing, Forward, Switched
  <2>3. ing.pc # "idle" => ~Settled
    <3> SUFFICES ASSUME ing.pc # "idle", Settled PROVE FALSE
      OBVIOUS
    <3>1. alias = ing.version /\ bm25 = ing.version
      BY <1>2 DEF Settled
    <3>2. job[j].prev # ing.version
      BY <1>1, <1>2 DEF IngestKnown
    <3> QED
      BY <1>6, <3>1, <3>2 DEF Acceptable
  <2>4. Done' => Done
    BY <1>3, <2>1 DEF Done
  <2> QED
    BY <1>3, <2>2, <2>3, <2>4 DEF AckInv, AnswerKept
<1> QED
  BY <1>4, <1>5, <1>6 DEF Check

LEMMA WritesKeepAck ==
  ASSUME AckInv, DInv', NEW j \in Jobs,
         \/ SwitchAlias(j) \/ WriteActive(j) \/ Verify(j) \/ WriteVersion(j)
         \/ UndoAlias(j) \/ UndoManifest(j)
  PROVE  AckInv'
<1>1. UNCHANGED <<collections, ing, call>> /\ job[j].pc \in Writing
  BY DEF SwitchAlias, WriteActive, Verify, WriteVersion, UndoAlias, UndoManifest, Write,
    Writing, Forward, stores, indexer
<1>2. PICK label \in Writing \cup {"refused"} :
        /\ Step(j, label)
        /\ ing.pc = "commit" /\ j[1] = ing.version /\ label \in Switched => alias' = j[1]
  <2>1. CASE SwitchAlias(j)
    BY <2>1 DEF SwitchAlias, Write, Writing, Forward, Switched
  <2>2. CASE WriteActive(j) \/ Verify(j) \/ WriteVersion(j)
    <3>1. PICK label \in {"verify", "version", "activate", "undoAlias"} : Step(j, label)
      BY <2>2 DEF WriteActive, Verify, WriteVersion, Write
    <3>2. alias' = alias
      BY <2>2 DEF WriteActive, Verify, WriteVersion, stores
    <3>3. ing.pc = "commit" /\ j[1] = ing.version => alias = j[1]
      BY <2>2 DEF AckInv, AliasKept, WriteActive, Verify, WriteVersion, Switched
    <3> QED
      BY <3>1, <3>2, <3>3 DEF Writing, Forward
  <2>3. CASE UndoAlias(j) \/ UndoManifest(j)
    BY <2>3 DEF UndoAlias, UndoManifest, Writing, Switched
  <2> QED
    BY <2>1, <2>2, <2>3
<1>3. /\ job'[j].pc = label /\ \A i \in Jobs : i # j => job'[i] = job[i]
      /\ job'[j].saved = job[j].saved /\ job'[j].prev = job[j].prev
  BY <1>2, JobMoves DEF JobPCs, Ended, Writing, Forward
<1> QED
  BY <1>1, <1>2, <1>3, WritingKeepsAck

(* The last step of a commit: what it answers is what it has made. *)
LEMMA ActivateKeepsAck == ASSUME AckInv, DInv', NEW j \in Jobs, Activate(j) PROVE AckInv'
<1>1. /\ job[j].pc = "activate" /\ Phase(j)
      /\ \A i \in Jobs : i # j => job[i].pc \notin Holding
  BY DEF Activate, AckInv, DInv, OneHolds, Holding, Writing, Forward
<1>2. UNCHANGED <<alias, collections, active, up, ing, call>>
  BY DEF Activate, stores, indexer
<1>3. CASE Step(j, "undoAlias")
  <2>1. /\ job'[j].pc = "undoAlias" /\ \A i \in Jobs : i # j => job'[i] = job[i]
        /\ job'[j].saved = job[j].saved /\ job'[j].prev = job[j].prev
    BY <1>3, JobMoves DEF JobPCs
  <2> QED
    BY <1>1, <1>2, <2>1, WritingKeepsAck DEF Writing, Forward, Switched
<1>4. CASE Step(j, "ok") /\ bm25' = j[1]
  <2>1. /\ job'[j].pc = "ok" /\ \A i \in Jobs : i # j => job'[i] = job[i]
        /\ job'[j].saved = job[j].saved /\ job'[j].prev = job[j].prev
    BY <1>4, JobMoves DEF JobPCs, Ended
  <2>2. \A i \in Jobs : job'[i].pc \notin Holding
    BY <1>1, <2>1 DEF Holding, Waiting, Writing, Forward
  <2>3. PreviousKept' /\ KindsKept' /\ SavedKept' /\ AliasKept'
    BY <1>2, <2>1, <2>2 DEF AckInv, PreviousKept, KindsKept, SavedKept, AliasKept, Holding,
      Writing, Forward, Switched
  <2>4. ~Settled
    BY <1>1 DEF Settled, Writing, Forward
  <2>5. CASE j[1] # ing.version
    <3>1. Done' => Done
      BY <1>2, <2>1, <2>5 DEF Done
    <3> QED
      BY <1>2, <2>3, <2>4, <3>1 DEF AckInv, AnswerKept
  <2>6. CASE j[1] = ing.version
    <3>1. active = j[1]
      BY <1>1 DEF Phase, Writing, Forward
    <3>2. ing.pc = "commit" => alias = j[1]
      BY <1>1, <2>6 DEF AckInv, AliasKept, Switched
    <3>3. ing.pc = "commit" => Settled'
      BY <1>2, <1>4, <2>2, <2>6, <3>1, <3>2 DEF Settled, Holding
    <3> QED
      BY <1>2, <2>3, <2>4, <3>3 DEF AckInv, AnswerKept
  <2> QED
    BY <2>5, <2>6
<1>5. bm25 = j[1] /\ UNCHANGED index => bm25' = j[1]
  BY DEF index
<1> QED
  BY <1>3, <1>4, <1>5 DEF Activate

(* A crash, a restart and a recall's rebuild change no job for the better. *)
LEMMA MainKeepsAck ==
  ASSUME AckInv, DInv', UNCHANGED <<alias, collections, ing, call>>,
         \A i \in Jobs : job'[i] = job[i] \/ (/\ job'[i].pc = "lost" /\ job'[i].prev = job[i].prev
                                              /\ job'[i].saved = job[i].saved),
         Settled /\ ing.pc # "idle" => active' = active /\ (up' => bm25' = alias)
  PROVE  AckInv'
<1>1. PreviousKept'
  BY DEF AckInv, PreviousKept
<1>2. KindsKept' /\ SavedKept' /\ AliasKept'
  BY DEF AckInv, KindsKept, SavedKept, AliasKept, Holding, Waiting, Writing, Forward, Switched
<1>3. (Done' => Done) /\ (Settled /\ ing.pc # "idle" => Settled')
  BY DEF Done, Settled, Writing, Forward
<1> QED
  BY <1>1, <1>2, <1>3 DEF AckInv, AnswerKept

LEMMA CrashesKeepAck ==
  ASSUME AckInv, DInv', MainDies \/ Restart \/ Recall PROVE AckInv'
<1>1. Typed /\ IngestKnown /\ job \in [Jobs -> JobRecords]
  BY TypedIsTypeOK DEF AckInv, DInv, Typed
<1>2. CASE MainDies
  <2>1. UNCHANGED <<alias, collections, active, ing, call>> /\ ~up'
    BY <1>2 DEF MainDies, stores, indexer
  <2>2. \A i \in Jobs : job'[i] = job[i] \/ (/\ job'[i].pc = "lost" /\ job'[i].prev = job[i].prev
                                             /\ job'[i].saved = job[i].saved)
    BY <1>1, <1>2 DEF MainDies, JobRecords
  <2> QED
    BY <2>1, <2>2, MainKeepsAck
<1>3. CASE Restart
  <2>1. UNCHANGED <<alias, collections, ing, call, job>>
    BY <1>3 DEF Restart, indexer
  <2>2. Settled /\ ing.pc # "idle" => active' = active /\ bm25' = alias
    <3>1. ing.pc # "idle" => ing.version # 0
      BY <1>1, DocAssumption DEF IngestKnown, Versions
    <3> QED
      BY <1>3, <3>1 DEF Settled, Restart, Reconciled
  <2> QED
    BY <2>1, <2>2, MainKeepsAck
<1>4. CASE Recall
  BY <1>4, MainKeepsAck DEF Recall, Settled, stores, indexer
<1> QED
  BY <1>2, <1>3, <1>4
-----------------------------------------------------------------------------
(* At the start no commit has been asked for or answered. *)
THEOREM InitAckInv == Init => AckInv
<1> SUFFICES ASSUME Init PROVE AckInv
  OBVIOUS
<1>1. ing.pc = "idle" /\ call["commit"].state = "none" /\ \A j \in Jobs : job[j] = NoJob
  BY DEF Init, Idle, NoCall, Kinds
<1>2. \A j \in Jobs : job[j].pc = "none" /\ job[j].saved = 0
  BY <1>1 DEF NoJob
<1>3. PreviousKept /\ KindsKept /\ SavedKept /\ AliasKept /\ AnswerKept
  BY <1>1, <1>2 DEF PreviousKept, Towards, KindsKept, SavedKept, AliasKept, AnswerKept,
    Holding, Waiting, Writing, Forward
<1> QED
  BY <1>3, InitDInv DEF AckInv

(* Every step keeps the previous collection until its successor is committed, and a  *)
(* done commit settled.                                                              *)
THEOREM NextKeepsAckInv ==
  ASSUME ~RollbackFails PROVE AckInv /\ [Next]_vars => AckInv'
<1> SUFFICES ASSUME AckInv, [Next]_vars PROVE AckInv'
  OBVIOUS
<1>1. DInv'
  BY NextKeepsDInv DEF AckInv
<1>2. CASE Ingest
  BY <1>1, <1>2, IngestKeepsAck
<1>3. CASE IngestStep \/ IndexerDies
  BY <1>1, <1>3, IndexerStepsKeepAck, CallsKeepAck DEF IngestStep
<1>4. CASE ClientStep
  BY <1>1, <1>4, CallsKeepAck
<1>5. CASE StartJob
  BY <1>1, <1>5, StartKeepsAck
<1>6. ASSUME NEW j \in Jobs, JobStep(j) PROVE AckInv'
  BY <1>1, <1>6, QuietStepsKeepAck, CheckKeepsAck, WritesKeepAck, ActivateKeepsAck DEF JobStep
<1>7. CASE MainDies \/ Restart \/ Recall
  BY <1>1, <1>7, CrashesKeepAck
<1>8. CASE UNCHANGED vars
  BY <1>1, <1>8 DEF AckInv, PreviousKept, KindsKept, SavedKept, AliasKept, AnswerKept, Settled,
    Done, vars, stores, main, index, indexer
<1> QED
  BY <1>2, <1>3, <1>4, <1>5, <1>6, <1>7, <1>8 DEF Next

(* An answer 200 to the commit (document_commit, main.py) stays true while the indexer   *)
(* acts on it: alias and active manifest are of the version, whatever other attempts,    *)
(* crashes, restarts and recalls do meanwhile, if the calls of a rollback succeed.       *)
THEOREM DocCommitAcknowledged ==
  ASSUME ~RollbackFails PROVE Spec => []CommitAcknowledged
<1>1. AckInv => CommitAcknowledged
  BY DEF AckInv, AnswerKept, Settled, CommitAcknowledged
<1> QED
  BY <1>1, InitAckInv, NextKeepsAckInv, PTL DEF Spec
=============================================================================
