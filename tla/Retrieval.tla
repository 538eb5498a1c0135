----------------------------- MODULE Retrieval -----------------------------
(***************************************************************************)
(* A question's retrieval: RAGPipeline._retrieve_contexts of app/rag.py    *)
(* over VectorStore.  Two threads recall, one by keywords from a BM25S     *)
(* index in memory, one by vector from Qdrant; their lists are fused and   *)
(* reranked, and what fails is left out and reported.                      *)
(*                                                                         *)
(* The index in memory is a cache: it carries the signature of the         *)
(* documents it was built from, and a recall whose signature differs       *)
(* builds it anew under a lock.  The documents change meanwhile: files of  *)
(* a directory one by one (DOCS_SOURCE=local), or versions in S3 switched  *)
(* by scripts/ingest_docs.py, which does not go through the retrieval gate *)
(* (commits that do are the subject of DocCommit).  A document is one      *)
(* chunk, known by its number; its text is its version, 0 for none.        *)
(***************************************************************************)
EXTENDS Integers, FiniteSets, SequencesExt, TLC

CONSTANTS Recalls,     \* recalls that may run at once
          Size,        \* number of documents
          Bm25TopK, RecallTopK, RrfTopK, FinalTopK, RerankBatch,  \* settings
          MaxRecalls,  \* bound: recalls begun
          MaxChanges,  \* bound: edits and ingests
          MaxFailures  \* bound, of a directory (TRUE) and of S3: failing calls and
                       \* components found degraded

Nobody   == "nobody"

ASSUME RetrievalAssumption ==
    /\ Nobody \notin Recalls
    /\ {Size, Bm25TopK, RecallTopK, RrfTopK, FinalTopK, RerankBatch} \subseteq Nat \ {0}
    /\ FinalTopK <= RrfTopK
    /\ {MaxRecalls, MaxChanges} \subseteq Nat /\ MaxFailures \in [BOOLEAN -> Nat]

Docs == 1..Size
RankConstant == 60

VARIABLES
    local,     \* DOCS_SOURCE is a directory and not S3
    docs,      \* version of each file, or in the active S3 manifest
    stored,    \* version behind the name of the Qdrant collection
    present,   \* that collection exists
    cli,       \* the ingest script
    changes,
    index,     \* VectorStore._bm25_index: its signature and its content
    lock,      \* holder of _bm25_lock
    recall,    \* state of each recall
    started, failures

stores == <<local, docs, stored, present, cli, changes>>
vars   == <<stores, index, lock, recall, started, failures>>

Nothing  == [d \in Docs |-> 0]
All(v)   == [d \in Docs |-> v]
NoSig    == [of |-> "none", at |-> Nothing]
NoIndex  == [sig |-> [of |-> "absent", at |-> Nothing], content |-> Nothing]
NoScript == [pc |-> "idle", doc |-> 0, version |-> 0, recreate |-> FALSE]
Idle == [pc |-> "idle", keywords |-> "off", vector |-> "off", sig |-> NoSig, doc |-> 1,
         text |-> Nothing, begun |-> Nothing, near |-> {}, keywordHits |-> <<>>,
         vectorHits |-> <<>>, contexts |-> <<>>, flags |-> {}, lost |-> {}]

\* A directory may not have been ingested.  In S3 mode main.lifespan builds the index; of
\* a directory it is built when first asked.
Init ==
    /\ local \in BOOLEAN /\ docs = All(1) /\ present \in {TRUE, ~local}
    /\ stored = IF present THEN All(1) ELSE Nothing
    /\ cli = NoScript /\ changes = 0
    /\ index = IF local THEN NoIndex
               ELSE [sig |-> [of |-> "docs", at |-> All(1)], content |-> All(1)]
    /\ lock = Nobody /\ recall = [r \in Recalls |-> Idle]
    /\ started = 0 /\ failures = 0

Fresh == changes + 2
Fail == failures < MaxFailures[local] /\ failures' = failures + 1
Change == changes < MaxChanges /\ changes' = changes + 1

-----------------------------------------------------------------------------
\* A file of the directory is written.
EditFile(d) ==
    /\ local /\ Change /\ docs' = [docs EXCEPT ![d] = Fresh]
    /\ UNCHANGED <<local, stored, present, cli>>

\* ingest_markdown_dir: ensure_collection first ...
BeginIngest(recreate) ==
    /\ local /\ cli.pc = "idle" /\ Change
    /\ LET delete == recreate /\ present IN
       /\ stored' = IF delete THEN Nothing ELSE stored
       /\ present' = (present /\ ~delete)
       /\ cli' = [NoScript EXCEPT !.pc = IF present' THEN "delete" ELSE "create",
                                  !.doc = 1, !.recreate = recreate]
    /\ UNCHANGED <<local, docs>>

CreateCollection ==
    /\ cli.pc = "create" /\ present' = TRUE /\ cli' = [cli EXCEPT !.pc = "delete"]
    /\ UNCHANGED <<local, docs, stored, changes>>

\* ... then file by file: its chunks are computed, the old points deleted,
DeletePoints ==
    /\ cli.pc = "delete"
    /\ stored' = IF cli.recreate THEN stored ELSE [stored EXCEPT ![cli.doc] = 0]
    /\ cli' = [cli EXCEPT !.pc = "upsert", !.version = docs[cli.doc]]
    /\ UNCHANGED <<local, docs, present, changes>>

\* and the new ones written.
UpsertPoints ==
    /\ cli.pc = "upsert"
    /\ stored' = [stored EXCEPT ![cli.doc] = cli.version]
    /\ cli' = IF cli.doc = Size THEN NoScript
              ELSE [cli EXCEPT !.pc = "delete", !.doc = cli.doc + 1]
    /\ UNCHANGED <<local, docs, present, changes>>

\* VersionedS3DocumentIndexer.ingest without a committer: the alias, then the manifest;
\* if that fails the alias is put back.
SwitchAlias ==
    /\ ~local /\ cli.pc = "idle" /\ Change
    /\ stored' = All(Fresh) /\ cli' = [NoScript EXCEPT !.pc = "manifest", !.version = stored[1]]
    /\ UNCHANGED <<local, docs, present>>

WriteManifest ==
    /\ cli.pc = "manifest" /\ docs' = stored /\ cli' = NoScript
    /\ UNCHANGED <<local, stored, present, changes>>

RollbackAlias ==
    /\ cli.pc = "manifest" /\ stored' = All(cli.version) /\ cli' = NoScript
    /\ UNCHANGED <<local, docs, present, changes>>

ScriptDies ==
    /\ cli.pc # "idle" /\ cli' = NoScript
    /\ UNCHANGED <<local, docs, stored, present, changes>>

DocsStep ==
    \/ \E d \in Docs : EditFile(d)
    \/ \E recreate \in BOOLEAN : BeginIngest(recreate)
    \/ CreateCollection \/ DeletePoints \/ UpsertPoints
    \/ SwitchAlias \/ WriteManifest

-----------------------------------------------------------------------------
\* Some fields of r's state change.
With(old, fields) ==
    [f \in DOMAIN old |-> IF f \in DOMAIN fields THEN fields[f] ELSE old[f]]
To(r, fields) == recall' = [recall EXCEPT ![r] = With(recall[r], fields)]
Well == UNCHANGED failures
Searches(r, step) == recall[r].pc = "recall" /\ recall[r].keywords = step

\* _docs_signature: the files' times, one by one, or the active manifest.  If S3 fails,
\* _qdrant_docs_signature; if Qdrant fails too, no signature at all.
Sign(r) ==
    /\ Searches(r, "sign") /\ UNCHANGED <<index, lock>>
    /\ \/ /\ local /\ Well
          /\ LET d == recall[r].doc IN
             To(r, [sig |-> [of |-> "docs", at |-> [recall[r].sig.at EXCEPT ![d] = docs[d]]],
                    doc |-> IF d = Size THEN 1 ELSE d + 1,
                    keywords |-> IF d = Size THEN "check" ELSE "sign"])
       \/ ~local /\ Well
          /\ To(r, [sig |-> [of |-> "docs", at |-> docs], keywords |-> "check"])
       \/ ~local /\ Fail
          /\ \/ To(r, [sig |-> [of |-> "qdrant", at |-> stored], keywords |-> "check"])
             \/ To(r, [sig |-> NoSig, keywords |-> "check"])

\* _ensure_bm25_index: looked at without the lock, ...
CheckIndex(r) ==
    /\ Searches(r, "check") /\ Well /\ UNCHANGED <<index, lock>>
    /\ To(r, [keywords |-> IF index.sig = recall[r].sig THEN "use" ELSE "lock"])

\* ... looked at again with it, and built.
NeverLocked == FALSE
LockUsed == lock # Nobody
LockIndex(r) ==
    /\ Searches(r, "lock") /\ ~LockUsed /\ lock' = r /\ Well /\ UNCHANGED index
    /\ To(r, [doc |-> 1, text |-> Nothing,
              keywords |-> IF index.sig = recall[r].sig THEN "use"
                           ELSE IF local THEN "files" ELSE "manifest"])

\* The signature of the index is the one read before its content.
Publish(r, content) == index' = [sig |-> recall[r].sig, content |-> content]

\* One document more of those read one by one: files, or pages of a scroll.
ReadNext(r, source) ==
    LET d == recall[r].doc
        text == [recall[r].text EXCEPT ![d] = source[d]] IN
    IF d < Size THEN To(r, [text |-> text, doc |-> d + 1]) /\ UNCHANGED index
    ELSE Publish(r, text) /\ To(r, [keywords |-> "use", text |-> Nothing, doc |-> 1])

Release(r) == lock' = IF lock = r THEN Nobody ELSE lock
BuildFails(r) == Fail /\ Release(r) /\ To(r, [keywords |-> "failed"]) /\ UNCHANGED index

BuildFromFiles(r) ==
    /\ Searches(r, "files")
    /\ \/ ReadNext(r, docs) /\ Well /\ UNCHANGED lock
       \/ BuildFails(r)

\* Versions in S3 do not change, so reading the manifest decides.  If S3 fails, Qdrant.
BuildFromManifest(r) ==
    /\ Searches(r, "manifest") /\ UNCHANGED lock
    /\ \/ Publish(r, docs) /\ To(r, [keywords |-> "use"]) /\ Well
       \/ Fail /\ To(r, [keywords |-> "scroll"]) /\ UNCHANGED index

ScrollQdrant(r) ==
    /\ Searches(r, "scroll")
    /\ \/ ReadNext(r, stored) /\ Well /\ UNCHANGED lock
       \/ BuildFails(r)

\* search_bm25: the index there is now.
SearchBm25(r) ==
    /\ Searches(r, "use") /\ Release(r) /\ Well /\ UNCHANGED index
    /\ To(r, [keywords |-> "ok", text |-> index.content])

KeywordStep(r) ==
    \/ Sign(r) \/ CheckIndex(r) \/ LockIndex(r)
    \/ BuildFromFiles(r) \/ BuildFromManifest(r) \/ ScrollQdrant(r) \/ SearchBm25(r)

-----------------------------------------------------------------------------
\* search_with_timing: _embed_one (the actor, or the local model), then Qdrant, which
\* answers the nearest points whatever they are.
Recalling(r, step) == recall[r].pc = "recall" /\ recall[r].vector = step

SearchVector(r) ==
    /\ Recalling(r, "search")
    /\ \/ /\ present /\ Well
          /\ To(r, [vector |-> "ok", near |-> {d \in Docs : stored[d] # 0}])
       \/ ~present /\ Well /\ To(r, [vector |-> "failed"])
       \/ present /\ Fail /\ To(r, [vector |-> "failed"])

VectorStep(r) == SearchVector(r) /\ UNCHANGED <<index, lock>>

-----------------------------------------------------------------------------
\* _retrieve_contexts, in the gate: _recall_contexts looks at the health of the parts.
Begin(r) ==
    /\ recall[r].pc = "idle" /\ started < MaxRecalls /\ started' = started + 1
    /\ \E down \in SUBSET {"embedding", "qdrant"} :
         /\ IF down = {} THEN Well ELSE Fail
         /\ recall' = [recall EXCEPT ![r] =
              [Idle EXCEPT !.pc = "recall", !.keywords = "sign", !.begun = docs,
                           !.vector = IF down = {} THEN "search" ELSE "off",
                           !.flags = IF down = {} THEN {} ELSE down \cup {"retrieval"},
                           !.lost = IF down = {} THEN {} ELSE {"vector"}]]

\* The lists of both searches, chosen as they are joined: of the documents that match a
\* query the best, in any order; Qdrant always answers the nearest ones.
FirstOf(s, k) == SubSeq(s, 1, IF Len(s) < k THEN Len(s) ELSE k)
KeywordLists(r) == {s \in SetToAllKPermutations({d \in Docs : recall[r].text[d] # 0}) :
                      Len(s) <= Bm25TopK}
VectorLists(r) == {FirstOf(s, RecallTopK) : s \in SetToSeqs(recall[r].near)}

\* _rrf_fuse.  A score is a sum of fractions 1 / (60 + rank).
RankOf(hits, d) == CHOOSE i \in DOMAIN hits : hits[i] = d
RankScore(hits, d) == IF Contains(hits, d) THEN [num |-> 1, den |-> RankConstant + RankOf(hits, d)]
                                           ELSE [num |-> 0, den |-> 1]
Plus(x, y) == [num |-> x.num * y.den + y.num * x.den, den |-> x.den * y.den]
Above(x, y) == x.num * y.den > y.num * x.den
LastScore(vector, bm25, d) ==
    IF Contains(bm25, d) THEN RankScore(bm25, d) ELSE RankScore(vector, d)
RrfScore(vector, bm25, d) == Plus(RankScore(vector, d), RankScore(bm25, d))

\* Ties: the better vector score, which stands for the better rank, then the name.
Better(vector, bm25, c, d) ==
    LET rrf(e) == RrfScore(vector, bm25, e) IN
    \/ Above(rrf(c), rrf(d))
    \/ /\ ~Above(rrf(d), rrf(c))
       /\ \/ Above(RankScore(vector, c), RankScore(vector, d))
          \/ ~Above(RankScore(vector, d), RankScore(vector, c)) /\ c > d
Found(vector, bm25) == {d \in Docs : Contains(vector, d) \/ Contains(bm25, d)}
Sorted(vector, bm25) ==
    {s \in SetToSeqs(Found(vector, bm25)) :
       \A i, j \in DOMAIN s : i < j => Better(vector, bm25, s[i], s[j])}
\* The one sorted list, cut.
RrfFuse(vector, bm25) == {FirstOf(s, RrfTopK) : s \in Sorted(vector, bm25)}

Joined(r, keywords, vector) == Searches(r, keywords) /\ Recalling(r, vector)
Recalled(r, contexts, flags, lost) ==
    recall' = [recall EXCEPT ![r] = [Idle EXCEPT
      !.pc = "recalled", !.contexts = contexts,
      !.flags = recall[r].flags \cup flags, !.lost = recall[r].lost \cup lost]]

\* Both threads have ended; the executor waits for them whatever happened.
RecallHybrid(r) ==
    /\ Joined(r, "ok", "ok")
    /\ \E k \in KeywordLists(r), v \in VectorLists(r) : \E fused \in RrfFuse(v, k) :
         recall' = [recall EXCEPT ![r] =
           [Idle EXCEPT !.pc = "recalled", !.contexts = fused,
                        !.keywordHits = k, !.vectorHits = v]]

RecallKeywords(r) ==
    \E k \in KeywordLists(r) :
      \/ Joined(r, "ok", "off") /\ Recalled(r, FirstOf(k, RrfTopK), {}, {})
      \/ Joined(r, "ok", "failed") /\ Recalled(r, k, {"retrieval", "qdrant"}, {"vector"})

NoFlags == {}
VectorOnlyFlags == {"retrieval"}
RecallVector(r) ==
    /\ Joined(r, "failed", "ok")
    /\ \E v \in VectorLists(r) :
         Recalled(r, FirstOf(v, RrfTopK), VectorOnlyFlags, {"keywords"})

RecallFails(r) ==
    /\ Joined(r, "failed", "off") \/ Joined(r, "failed", "failed")
    /\ recall' = [recall EXCEPT ![r] = Idle]

-----------------------------------------------------------------------------
\* Reranker.rerank: the model scores batches, each of which it sorts; the positions of
\* a batch are those of the list again once its offset is added.
PositionInBatch(offset, i) == i
BatchPosition(offset, i) == offset + i
Rerank(contexts, score) ==
    LET offset(i) == ((i - 1) \div RerankBatch) * RerankBatch
        scored == [i \in 1..Len(contexts) |->
                     contexts[BatchPosition(offset(i), i - offset(i))]]
    IN FirstOf([i \in 1..Len(contexts) |->
                  scored[CHOOSE j \in DOMAIN score : score[j] = i]], FinalTopK)

Answers(r, contexts, flags, lost) ==
    To(r, [pc |-> "answered", contexts |-> contexts, keywordHits |-> <<>>, vectorHits |-> <<>>,
           flags |-> recall[r].flags \cup flags, lost |-> recall[r].lost \cup lost])

AnswerReranked(r) ==
    /\ recall[r].pc = "recalled" /\ Well
    /\ \E score \in SetToSeqs(DOMAIN recall[r].contexts) :
         Answers(r, Rerank(recall[r].contexts, score), {}, {})

\* The probe found the reranker degraded, or it raised.
AnswerUnranked(r) ==
    /\ recall[r].pc = "recalled" /\ recall[r].contexts # <<>> /\ Fail
    /\ Answers(r, FirstOf(recall[r].contexts, FinalTopK),
               {"retrieval", "reranker"}, {"order"})

Forget(r) == recall[r].pc = "answered" /\ Well /\ recall' = [recall EXCEPT ![r] = Idle]

MainStep(r) ==
    /\ UNCHANGED <<index, lock>>
    /\ \/ (RecallHybrid(r) \/ RecallKeywords(r) \/ RecallVector(r) \/ RecallFails(r)) /\ Well
       \/ AnswerReranked(r) \/ AnswerUnranked(r) \/ Forget(r)

RecallStep(r) == UNCHANGED <<stores, started>> /\ (KeywordStep(r) \/ VectorStep(r) \/ MainStep(r))

Next ==
    \/ DocsStep /\ UNCHANGED <<index, lock, recall, started, failures>>
    \/ (RollbackAlias \/ ScriptDies) /\ Fail /\ UNCHANGED <<index, lock, recall, started>>
    \/ \E r \in Recalls : Begin(r) /\ UNCHANGED <<stores, index, lock>>
    \/ \E r \in Recalls : RecallStep(r)

Spec == Init /\ [][Next]_vars

-----------------------------------------------------------------------------
\* What a recall finds by keywords is never older than the documents were when it began,
\* if the directory or S3 gave the signature: whatever was rebuilt, by whom and from
\* where, in between.
KeywordsFresh ==
    \A r \in Recalls : Searches(r, "ok") /\ recall[r].sig.of = "docs" =>
      \A d \in Docs : recall[r].text[d] >= recall[r].begun[d]

\* The fused list puts what both searches found before what only one found, as long as
\* its ranks are within 61 of the top in both: 1/121 + 1/121 is still more than 1/61.
\* Further down, which BM25_TOP_K = RECALL_TOP_K = 100 allows, it need not.
AgreedFirst ==
    \A r \in Recalls : recall[r].pc = "recalled" /\ recall[r].lost = {} =>
      LET keywords == recall[r].keywordHits  vector == recall[r].vectorHits
          list     == recall[r].contexts
          both(d)  == Contains(keywords, d) /\ Contains(vector, d)
          high(d)  == /\ RankOf(keywords, d) <= RankConstant + 1
                      /\ RankOf(vector, d) <= RankConstant + 1
      IN \A i, j \in DOMAIN list : i < j /\ both(list[j]) /\ high(list[j]) => both(list[i])

\* An answer shows no chunk twice, although two searches and the batches of the reranker
\* contribute to it, and no more of them than asked for.
ShownOnce ==
    \A r \in Recalls : recall[r].pc = "answered" =>
      IsInjective(recall[r].contexts) /\ Len(recall[r].contexts) <= FinalTopK

\* An answer says that it is degraded if and only if a search or the reranking was left
\* out, and names the part: on every path that leaves one out.
DegradationReported ==
    \A r \in Recalls : recall[r].pc = "answered" =>
      LET flags == recall[r].flags  lost == recall[r].lost IN
      /\ "retrieval" \in flags <=> lost # {}
      /\ "reranker" \in flags <=> "order" \in lost
      /\ flags \cap {"embedding", "qdrant"} # {} <=> "vector" \in lost

\* The lock of the index is held only by a recall that is using it: none that failed, or
\* found the index good, or was put aside leaves it behind for the others to wait for.
LockInUse ==
    lock # Nobody => \E step \in {"files", "manifest", "scroll", "use"} : Searches(lock, step)
=============================================================================
