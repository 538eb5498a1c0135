--------------------------- MODULE RetrievalProofs ---------------------------
(***************************************************************************)
(* The keyword index that recalls share is never older than the documents  *)
(* were when a recall that uses it began, and its lock is held only by a   *)
(* recall that is using it: for any number of recalls, documents, edits,   *)
(* ingests and failures.                                                   *)
(***************************************************************************)
EXTENDS Retrieval, FiniteSetTheorems, TLAPS

Fields == {"pc", "keywords", "vector", "sig", "doc", "text", "begun", "near",
           "keywordHits", "vectorHits", "contexts", "flags", "lost"}
Texts == [Docs -> Nat]
Leq(f, g) == \A d \in Docs : f[d] <= g[d]
\* As far as document d, exclusive.
LeqBelow(d, f, g) == \A e \in Docs : e < d => f[e] <= g[e]

(* Of S3 the collection is never behind the manifest, which is written after it and *)
(* rolled back to what it was: a scroll of Qdrant is no older than the manifest.     *)
Bounded(f) == \A d \in Docs : f[d] <= changes + 1
S3Known ==
    /\ stored \in Texts /\ Bounded(stored) /\ Leq(docs, stored)
    /\ \A d \in Docs : stored[d] = stored[1]
    /\ cli.pc \in {"idle", "manifest"}
    /\ cli.pc = "manifest" => /\ cli.version \in Nat /\ cli.version <= changes + 1
                              /\ \A d \in Docs : docs[d] <= cli.version
StoresKnown ==
    /\ local \in BOOLEAN /\ changes \in Nat
    /\ docs \in Texts /\ Bounded(docs)
    /\ DOMAIN cli = {"pc", "doc", "version", "recreate"}
    /\ IF local THEN cli.pc # "manifest" ELSE S3Known

(* The index is no older than the signature it carries. *)
IndexKnown ==
    /\ index.sig.at \in Texts /\ index.content \in Texts
    /\ index.sig.of = "docs" => Leq(index.sig.at, docs) /\ Leq(index.sig.at, index.content)

Steps == {"check", "lock", "files", "manifest", "scroll", "use"}
Building(r) == \E step \in {"files", "manifest", "scroll"} : Searches(r, step)
OfDocs(r) == recall[r].sig.of = "docs"

(* What a recall holds: the signature, once read, lies between the documents as they *)
(* were when it began and as they are.                                                *)
Typed(r) == /\ recall[r].sig.at \in Texts /\ recall[r].text \in Texts
            /\ recall[r].begun \in Texts /\ recall[r].doc \in Docs
Signs(r) ==
    /\ Leq(recall[r].begun, docs)
    /\ recall[r].keywords = "sign" =>
         /\ Leq(recall[r].sig.at, docs)
         /\ LeqBelow(recall[r].doc, recall[r].begun, recall[r].sig.at)
    /\ recall[r].keywords \in Steps /\ OfDocs(r) =>
         Leq(recall[r].begun, recall[r].sig.at) /\ Leq(recall[r].sig.at, docs)
    /\ recall[r].keywords = "files" => local
    /\ recall[r].keywords \in {"manifest", "scroll"} => ~local

(* What a build has read is no older than its own signature, than the index it will   *)
(* replace, and than what any recall that is about to use that index may expect.       *)
Builds(r) ==
    /\ lock = r
    /\ OfDocs(r) => LeqBelow(recall[r].doc, recall[r].sig.at, recall[r].text)
    /\ index.sig.of = "docs" => LeqBelow(recall[r].doc, index.sig.at, recall[r].text)
    /\ \A q \in Recalls : Searches(q, "use") /\ OfDocs(q) =>
         LeqBelow(recall[r].doc, recall[q].begun, recall[r].text)
Uses(r) ==
    /\ Searches(r, "use") /\ OfDocs(r) => Leq(recall[r].begun, index.content)
    /\ Searches(r, "ok") /\ OfDocs(r) => Leq(recall[r].begun, recall[r].text)
RecallKnown(r) ==
    /\ DOMAIN recall[r] = Fields
    /\ recall[r].pc = "recall" => Typed(r) /\ Signs(r)
    /\ Building(r) => Builds(r)
    /\ Uses(r)
LockKnown ==
    lock # Nobody => lock \in Recalls /\ (Building(lock) \/ Searches(lock, "use"))
RInv ==
    /\ StoresKnown /\ IndexKnown /\ LockKnown
    /\ DOMAIN recall = Recalls
    /\ \A r \in Recalls : RecallKnown(r)
-----------------------------------------------------------------------------
(* The documents only get newer, and everything else is compared with them.  *)
LEMMA DocsFacts == 1 \in Docs /\ Size \in Docs /\ Nothing \in Texts /\ \A d \in Docs : Nothing[d] = 0
<1>1. Size \in Nat /\ Size >= 1
  BY RetrievalAssumption
<1> QED
  BY <1>1 DEF Docs, Nothing, Texts

LEMMA StoresKeepKnown ==
  ASSUME StoresKnown, DocsStep \/ RollbackAlias \/ ScriptDies
  PROVE  StoresKnown' /\ local' = local /\ Leq(docs, docs')
<1> USE DocsFacts
<1>1. docs \in Texts /\ changes \in Nat /\ Bounded(docs) /\ local \in BOOLEAN
  BY DEF StoresKnown
<1>2. local' = local
  BY DEF DocsStep, EditFile, BeginIngest, CreateCollection, DeletePoints, UpsertPoints,
    SwitchAlias, WriteManifest, RollbackAlias, ScriptDies
<1> DEFINE ScriptFields == {"pc", "doc", "version", "recreate"}
<1>a. DOMAIN cli' = ScriptFields
  <2>1. DOMAIN cli = ScriptFields /\ DOMAIN NoScript = ScriptFields
    BY DEF StoresKnown, NoScript
  <2> QED
    BY <2>1 DEF DocsStep, EditFile, BeginIngest, CreateCollection, DeletePoints, UpsertPoints,
      SwitchAlias, WriteManifest, RollbackAlias, ScriptDies
<1>3. CASE local
  <2>1. cli.pc # "manifest"
    BY <1>3 DEF StoresKnown
  <2>2. cli'.pc # "manifest"
    <3>1. DOMAIN cli = ScriptFields
      BY DEF StoresKnown
    <3>2. ASSUME NEW recreate, BeginIngest(recreate) PROVE cli'.pc # "manifest"
      <4>1. cli' = [NoScript EXCEPT !.pc = IF present' THEN "delete" ELSE "create",
                                    !.doc = 1, !.recreate = recreate]
        BY <3>2 DEF BeginIngest
      <4>2. cli'.pc = IF present' THEN "delete" ELSE "create"
        BY <4>1 DEF NoScript
      <4> QED
        BY <4>2
    <3>3. CASE UpsertPoints
      <4>1. cli'.pc = "idle" \/ cli'.pc = "delete"
        BY <3>1, <3>3 DEF UpsertPoints, NoScript
      <4> QED
        BY <4>1
    <3>4. CASE DeletePoints
      BY <3>1, <3>4 DEF DeletePoints
    <3>5. CASE CreateCollection
      BY <3>1, <3>5 DEF CreateCollection
    <3>6. CASE UNCHANGED cli
      BY <2>1, <3>6
    <3>7. CASE cli' = NoScript
      BY <3>7 DEF NoScript
    <3> QED
      BY <2>1, <1>3, <3>2, <3>3, <3>4, <3>5, <3>6, <3>7 DEF DocsStep, EditFile, SwitchAlias,
        WriteManifest, RollbackAlias, ScriptDies
  <2>3. \/ docs' = docs /\ changes' \in {changes, changes + 1}
        \/ \E d \in Docs : docs' = [docs EXCEPT ![d] = changes + 2] /\ changes' = changes + 1
    BY <2>1, <1>3 DEF DocsStep, EditFile, BeginIngest, CreateCollection, DeletePoints,
      UpsertPoints, SwitchAlias, WriteManifest, RollbackAlias, ScriptDies, Change, Fresh
  <2> QED
    BY <1>1, <1>2, <1>a, <1>3, <2>2, <2>3 DEF StoresKnown, Bounded, Texts, Leq
<1>4. CASE ~local
  <2>1. S3Known
    BY <1>4 DEF StoresKnown
  <2>2. CASE SwitchAlias
    <3>1. /\ stored' = [d \in Docs |-> changes + 2] /\ changes' = changes + 1 /\ docs' = docs
          /\ cli' = [NoScript EXCEPT !.pc = "manifest", !.version = stored[1]]
      BY <2>2 DEF SwitchAlias, Change, All, Fresh
    <3>2. cli'.pc = "manifest" /\ cli'.version = stored[1]
      BY <3>1 DEF NoScript
    <3>3. stored[1] \in Nat /\ stored[1] <= changes + 1 /\ \A d \in Docs : docs[d] <= stored[1]
      BY <2>1, <1>1 DEF S3Known, Bounded, Leq, Texts
    <3> QED
      BY <1>1, <1>2, <1>a, <1>4, <3>1, <3>2, <3>3 DEF StoresKnown, S3Known, Bounded, Texts, Leq
  <2>3. CASE WriteManifest
    <3>1. docs' = stored /\ cli' = NoScript /\ stored' = stored /\ changes' = changes
      BY <2>3 DEF WriteManifest
    <3> QED
      BY <1>1, <1>2, <1>a, <1>4, <2>1, <3>1 DEF StoresKnown, S3Known, Bounded, Texts, Leq, NoScript
  <2>4. CASE RollbackAlias
    <3>1. /\ stored' = [d \in Docs |-> cli.version] /\ cli' = NoScript /\ docs' = docs
          /\ changes' = changes /\ cli.pc = "manifest"
      BY <2>4 DEF RollbackAlias, All
    <3>2. stored' \in Texts /\ Bounded(stored)' /\ Leq(docs, stored)' /\ \A d \in Docs : stored'[d] = stored'[1]
      BY <3>1, <2>1 DEF S3Known, Bounded, Texts, Leq
    <3> QED
      BY <1>1, <1>2, <1>a, <1>4, <3>1, <3>2 DEF StoresKnown, S3Known, Bounded, Texts, Leq, NoScript
  <2>5. CASE ScriptDies
    <3>1. cli' = NoScript /\ UNCHANGED <<docs, stored, changes>>
      BY <2>5 DEF ScriptDies
    <3> QED
      BY <1>1, <1>2, <1>a, <1>4, <2>1, <3>1 DEF StoresKnown, S3Known, Bounded, Texts, Leq, NoScript
  <2>6. cli.pc \in {"idle", "manifest"}
    BY <2>1 DEF S3Known
  <2> QED
    BY <1>4, <2>2, <2>3, <2>4, <2>5, <2>6 DEF DocsStep, EditFile, BeginIngest, CreateCollection,
      DeletePoints, UpsertPoints
<1> QED
  BY <1>1, <1>3, <1>4

LEMMA DocsKeepRInv ==
  ASSUME RInv, DocsStep \/ RollbackAlias \/ ScriptDies, UNCHANGED <<index, lock, recall>>
  PROVE  RInv'
<1>1. StoresKnown' /\ local' = local /\ Leq(docs, docs')
  BY StoresKeepKnown DEF RInv
<1>2. docs \in Texts /\ docs' \in Texts /\ Docs \subseteq Nat
  BY <1>1 DEF StoresKnown, RInv, Docs
<1>3. ASSUME NEW f \in Texts, Leq(f, docs) PROVE Leq(f, docs')
  BY <1>1, <1>2, <1>3 DEF Leq, Texts
<1>4. IndexKnown'
  BY <1>3 DEF RInv, IndexKnown
<1>5. LockKnown'
  BY DEF RInv, LockKnown, Building, Searches
<1>6. ASSUME NEW r \in Recalls PROVE RecallKnown(r)'
  <2>1. RecallKnown(r)
    BY DEF RInv
  <2>2. recall[r].pc = "recall" => Typed(r)' /\ Signs(r)'
    <3> SUFFICES ASSUME recall[r].pc = "recall" PROVE Typed(r)' /\ Signs(r)'
      OBVIOUS
    <3>1. Typed(r) /\ Signs(r)
      BY <2>1 DEF RecallKnown
    <3> QED
      BY <3>1, <1>1, <1>3 DEF Typed, Signs, OfDocs
  <2>3. Building(r) => Builds(r)'
    BY <2>1 DEF RecallKnown, Builds, Building, Searches, OfDocs
  <2>4. Uses(r)'
    BY <2>1 DEF RecallKnown, Uses, Searches, OfDocs
  <2> QED
    BY <2>1, <2>2, <2>3, <2>4 DEF RecallKnown, Building, Searches
<1> QED
  BY <1>1, <1>4, <1>5, <1>6 DEF RInv
-----------------------------------------------------------------------------
(* What a step of one recall has to show of it, and of the others.                  *)
OthersKept(r) ==
    \A q \in Recalls \ {r} : recall'[q] = recall[q] /\ (Building(q) => Builds(q)') /\ Uses(q)'

LEMMA StepKeepsRInv ==
  ASSUME RInv, NEW r \in Recalls, UNCHANGED stores, DOMAIN recall' = Recalls,
         IndexKnown', LockKnown', RecallKnown(r)', OthersKept(r)
  PROVE  RInv'
<1>1. StoresKnown'
  BY DEF RInv, StoresKnown, S3Known, stores, Bounded, Leq
<1>2. ASSUME NEW q \in Recalls, q # r PROVE RecallKnown(q)'
  <2>1. recall'[q] = recall[q] /\ (Building(q) => Builds(q)') /\ Uses(q)' /\ RecallKnown(q)
    BY <1>2 DEF OthersKept, RInv
  <2>2. docs' = docs /\ local' = local
    BY DEF stores
  <2>3. recall[q].pc = "recall" => Typed(q)' /\ Signs(q)'
    <3> SUFFICES ASSUME recall[q].pc = "recall" PROVE Typed(q)' /\ Signs(q)'
      OBVIOUS
    <3>1. Typed(q) /\ Signs(q)
      BY <2>1 DEF RecallKnown
    <3> QED
      BY <3>1, <2>1, <2>2 DEF Typed, Signs, OfDocs
  <2> QED
    BY <2>1, <2>3 DEF RecallKnown, Building, Searches
<1> QED
  BY <1>1, <1>2 DEF RInv

(* Others notice a step that leaves the index alone only if r is about to use it.   *)
LEMMA OthersKeptBySameIndex ==
  ASSUME RInv, NEW r \in Recalls, index' = index,
         \A q \in Recalls \ {r} : recall'[q] = recall[q],
         lock \notin {r, Nobody} => lock' = lock,
         \A q \in Recalls \ {r} : Building(q) /\ Searches(r, "use")' /\ OfDocs(r)' =>
           LeqBelow(recall[q].doc, recall'[r].begun, recall[q].text)
  PROVE  OthersKept(r)
<1> SUFFICES ASSUME NEW q \in Recalls \ {r}
             PROVE  (Building(q) => Builds(q)') /\ Uses(q)'
  BY DEF OthersKept
<1>1. recall'[q] = recall[q] /\ RecallKnown(q) /\ q # Nobody
  BY RetrievalAssumption DEF RInv
<1>2. Uses(q)'
  BY <1>1 DEF RecallKnown, Uses, Searches, OfDocs
<1>3. ASSUME Building(q) PROVE Builds(q)'
  <2>1. Builds(q)
    BY <1>1, <1>3 DEF RecallKnown
  <2>2. lock' = q
    BY <1>1, <2>1 DEF Builds
  <2>3. ASSUME NEW p \in Recalls, Searches(p, "use")', OfDocs(p)'
        PROVE  LeqBelow(recall[q].doc, recall'[p].begun, recall[q].text)
    <3>1. CASE p = r
      BY <3>1, <2>3, <1>3
    <3>2. CASE p # r
      BY <3>2, <2>3, <2>1 DEF Builds, Searches, OfDocs
    <3> QED
      BY <3>1, <3>2
  <2> QED
    BY <1>1, <2>1, <2>2, <2>3 DEF Builds, OfDocs
<1> QED
  BY <1>2, <1>3

(* The lock stays where it is, or is given back.                                     *)
LEMMA LockStaysKnown ==
  ASSUME RInv, NEW r \in Recalls, \A q \in Recalls \ {r} : recall'[q] = recall[q],
         lock' = lock \/ (lock = r /\ lock' = Nobody),
         lock' = r => Building(r)' \/ Searches(r, "use")'
  PROVE  LockKnown'
<1> SUFFICES ASSUME lock' # Nobody
             PROVE  lock' \in Recalls /\ (Building(lock)' \/ Searches(lock, "use")')
  BY DEF LockKnown
<1>1. lock' = lock /\ lock \in Recalls /\ (Building(lock) \/ Searches(lock, "use"))
  BY DEF RInv, LockKnown
<1>2. CASE lock = r
  BY <1>1, <1>2
<1>3. CASE lock # r
  BY <1>1, <1>3 DEF Building, Searches
<1> QED
  BY <1>2, <1>3

LEMMA ToFields ==
  ASSUME RInv, NEW r \in Recalls, NEW fields, DOMAIN fields \subseteq Fields, To(r, fields)
  PROVE  /\ DOMAIN recall' = Recalls /\ DOMAIN recall'[r] = Fields
         /\ \A q \in Recalls \ {r} : recall'[q] = recall[q]
         /\ \A k \in Fields : recall'[r][k] = IF k \in DOMAIN fields THEN fields[k] ELSE recall[r][k]
<1>1. DOMAIN recall = Recalls /\ DOMAIN recall[r] = Fields
  BY DEF RInv, RecallKnown
<1>2. recall' = [recall EXCEPT ![r] = With(recall[r], fields)]
  BY DEF To
<1>3. recall'[r] = With(recall[r], fields)
  BY <1>1, <1>2
<1> QED
  BY <1>1, <1>2, <1>3 DEF With
-----------------------------------------------------------------------------
LEMMA BeginKeepsRInv ==
  ASSUME RInv, NEW r \in Recalls, Begin(r), UNCHANGED <<stores, index, lock>>
  PROVE  RInv'
<1> USE DocsFacts
<1>1. DOMAIN recall = Recalls /\ recall[r].pc = "idle"
  BY DEF RInv, Begin
<1>2. PICK down \in SUBSET {"embedding", "qdrant"} : recall' = [recall EXCEPT ![r] =
              [Idle EXCEPT !.pc = "recall", !.keywords = "sign", !.begun = docs,
                           !.vector = IF down = {} THEN "search" ELSE "off",
                           !.flags = IF down = {} THEN {} ELSE down \cup {"retrieval"},
                           !.lost = IF down = {} THEN {} ELSE {"vector"}]]
  BY DEF Begin
<1>3. /\ DOMAIN recall' = Recalls /\ \A q \in Recalls \ {r} : recall'[q] = recall[q]
      /\ recall'[r] = [Idle EXCEPT !.pc = "recall", !.keywords = "sign", !.begun = docs,
                           !.vector = IF down = {} THEN "search" ELSE "off",
                           !.flags = IF down = {} THEN {} ELSE down \cup {"retrieval"},
                           !.lost = IF down = {} THEN {} ELSE {"vector"}]
  BY <1>1, <1>2
<1>4. /\ DOMAIN recall'[r] = Fields /\ recall'[r].keywords = "sign" /\ recall'[r].begun = docs
      /\ recall'[r].sig = NoSig /\ recall'[r].doc = 1 /\ recall'[r].text = Nothing
  BY <1>3 DEF Idle, Fields
<1>5. ~Searches(r, "use")' /\ ~Searches(r, "ok")' /\ ~Building(r)' /\ ~Building(r) /\ ~Searches(r, "use")
  BY <1>1, <1>4 DEF Searches, Building
<1>6. docs \in Texts /\ docs' = docs
  BY DEF RInv, StoresKnown, stores
<1>7. Typed(r)' /\ Signs(r)'
  <2>1. Typed(r)'
    BY <1>4, <1>6 DEF Typed, NoSig
  <2>2. Leq(docs, docs) /\ Leq(Nothing, docs)
    BY <1>6 DEF Leq, Texts
  <2>3. LeqBelow(1, docs, Nothing)
    BY DEF LeqBelow, Docs
  <2> QED
    BY <1>4, <1>6, <2>1, <2>2, <2>3 DEF Signs, NoSig, Steps
<1>8. RecallKnown(r)'
  BY <1>4, <1>5, <1>7 DEF RecallKnown, Uses
<1>9. lock # r
  BY <1>5, RetrievalAssumption DEF RInv, LockKnown
<1>10. LockKnown'
  BY <1>3, <1>9, LockStaysKnown
<1>11. IndexKnown' /\ UNCHANGED stores
  BY <1>6 DEF RInv, IndexKnown
<1>12. OthersKept(r)
  BY <1>3, <1>5, OthersKeptBySameIndex
<1> QED
  BY <1>3, <1>8, <1>10, <1>11, <1>12, StepKeepsRInv

(* A step that leaves a recall out of the shared index, and not in it.               *)
LEMMA OutsideKeepsRInv ==
  ASSUME RInv, NEW r \in Recalls, UNCHANGED <<stores, index>>, DOMAIN recall' = Recalls,
         \A q \in Recalls \ {r} : recall'[q] = recall[q],
         lock' = lock \/ (lock = r /\ lock' = Nobody), lock' # r,
         RecallKnown(r)', ~Searches(r, "use")'
  PROVE  RInv'
<1>1. LockKnown'
  BY LockStaysKnown
<1>2. IndexKnown' /\ UNCHANGED stores
  BY DEF RInv, IndexKnown, stores
<1>3. OthersKept(r)
  BY OthersKeptBySameIndex
<1> QED
  BY <1>1, <1>2, <1>3, StepKeepsRInv

LEMMA SignKeepsRInv ==
  ASSUME RInv, NEW r \in Recalls, Sign(r), UNCHANGED stores
  PROVE  RInv'
<1> USE DocsFacts
<1>1. /\ recall[r].pc = "recall" /\ recall[r].keywords = "sign" /\ RecallKnown(r)
      /\ Typed(r) /\ Signs(r) /\ docs \in Texts /\ docs' = docs
  BY DEF Sign, Searches, RInv, RecallKnown, StoresKnown, stores
<1>2. /\ recall[r].sig.at \in Texts /\ recall[r].text \in Texts /\ recall[r].begun \in Texts
      /\ recall[r].doc \in Docs /\ Leq(recall[r].begun, docs) /\ Leq(recall[r].sig.at, docs)
      /\ LeqBelow(recall[r].doc, recall[r].begun, recall[r].sig.at)
  BY <1>1 DEF Typed, Signs
<1>3. lock # r
  BY <1>1, RetrievalAssumption DEF RInv, LockKnown, Building, Searches
<1>4. SUFFICES /\ DOMAIN recall' = Recalls /\ \A q \in Recalls \ {r} : recall'[q] = recall[q]
               /\ RecallKnown(r)' /\ ~Searches(r, "use")'
  BY <1>3, OutsideKeepsRInv DEF Sign
<1>5. ASSUME NEW sig, To(r, [sig |-> sig, keywords |-> "check"]), sig.at \in Texts,
             sig.of = "docs" => Leq(recall[r].begun, sig.at) /\ Leq(sig.at, docs)
      PROVE  /\ DOMAIN recall' = Recalls /\ \A q \in Recalls \ {r} : recall'[q] = recall[q]
             /\ RecallKnown(r)' /\ ~Searches(r, "use")'
  <2> DEFINE f == [sig |-> sig, keywords |-> "check"]
  <2>1. DOMAIN f \subseteq Fields
    BY DEF Fields
  <2> HIDE DEF f
  <2>2. /\ DOMAIN recall' = Recalls /\ DOMAIN recall'[r] = Fields
        /\ \A q \in Recalls \ {r} : recall'[q] = recall[q]
        /\ \A k \in Fields : recall'[r][k] = IF k \in DOMAIN f THEN f[k] ELSE recall[r][k]
    BY <1>5, <2>1, ToFields DEF f
  <2>3. /\ recall'[r].pc = "recall" /\ recall'[r].keywords = "check" /\ recall'[r].sig = sig
        /\ recall'[r].doc = recall[r].doc /\ recall'[r].text = recall[r].text
        /\ recall'[r].begun = recall[r].begun
    BY <1>1, <2>2 DEF f, Fields
  <2>4. Typed(r)' /\ Signs(r)'
    BY <1>1, <1>2, <1>5, <2>3 DEF Typed, Signs, OfDocs
  <2> QED
    BY <2>2, <2>3, <2>4 DEF RecallKnown, Searches, Building, Uses
<1>6. CASE ~local
  <2>1. stored \in Texts
    BY <1>6 DEF RInv, StoresKnown, S3Known
  <2>2. \/ To(r, [sig |-> [of |-> "docs", at |-> docs], keywords |-> "check"])
        \/ To(r, [sig |-> [of |-> "qdrant", at |-> stored], keywords |-> "check"])
        \/ To(r, [sig |-> NoSig, keywords |-> "check"])
    BY <1>6 DEF Sign
  <2>3. Leq(docs, docs)
    BY <1>1 DEF Leq, Texts
  <2>4. CASE To(r, [sig |-> [of |-> "docs", at |-> docs], keywords |-> "check"])
    <3> DEFINE sig == [of |-> "docs", at |-> docs]
    <3>1. sig.at \in Texts /\ (sig.of = "docs" => Leq(recall[r].begun, sig.at) /\ Leq(sig.at, docs))
      BY <1>1, <1>2, <2>3
    <3> HIDE DEF sig
    <3> QED
      BY <2>4, <3>1, <1>5 DEF sig
  <2>5. CASE To(r, [sig |-> [of |-> "qdrant", at |-> stored], keywords |-> "check"])
    <3> DEFINE sig == [of |-> "qdrant", at |-> stored]
    <3>1. sig.at \in Texts /\ sig.of # "docs"
      BY <2>1
    <3> HIDE DEF sig
    <3> QED
      BY <2>5, <3>1, <1>5 DEF sig
  <2>6. CASE To(r, [sig |-> NoSig, keywords |-> "check"])
    <3>1. NoSig.at \in Texts /\ NoSig.of # "docs"
      BY DEF NoSig
    <3> QED
      BY <2>6, <3>1, <1>5
  <2> QED
    BY <2>2, <2>4, <2>5, <2>6
<1>7. CASE local
  <2> DEFINE d   == recall[r].doc
             sig == [of |-> "docs", at |-> [recall[r].sig.at EXCEPT ![d] = docs[d]]]
  <2>1. To(r, [sig |-> sig, doc |-> IF d = Size THEN 1 ELSE d + 1,
               keywords |-> IF d = Size THEN "check" ELSE "sign"])
    BY <1>7 DEF Sign
  <2>2. sig.at \in Texts /\ Leq(sig.at, docs) /\ sig.of = "docs"
    BY <1>1, <1>2 DEF Texts, Leq
  <2>3. LeqBelow(d + 1, recall[r].begun, sig.at)
    <3> SUFFICES ASSUME NEW e \in Docs, e < d + 1 PROVE recall[r].begun[e] <= sig.at[e]
      BY DEF LeqBelow
    <3>1. e = d \/ e < d
      BY <1>2 DEF Docs
    <3>2. CASE e = d
      <4>1. sig.at[e] = docs[d]
        BY <1>2, <3>2 DEF Texts
      <4> QED
        BY <1>2, <3>2, <4>1 DEF Leq
    <3>3. CASE e < d
      <4>1. e # d /\ recall[r].begun[e] <= recall[r].sig.at[e]
        BY <1>2, <3>3 DEF LeqBelow, Docs
      <4>2. sig.at[e] = recall[r].sig.at[e]
        BY <1>2, <4>1 DEF Texts
      <4> QED
        BY <4>1, <4>2
    <3> QED
      BY <3>1, <3>2, <3>3
  <2>4. d = Size => Leq(recall[r].begun, sig.at)
    BY <2>3, RetrievalAssumption DEF Leq, LeqBelow, Docs
  <2>5. d # Size => d + 1 \in Docs
    BY <1>2, RetrievalAssumption DEF Docs
  <2> DEFINE f == [sig |-> sig, doc |-> IF d = Size THEN 1 ELSE d + 1,
               keywords |-> IF d = Size THEN "check" ELSE "sign"]
  <2> HIDE DEF sig
  <2>6. DOMAIN f \subseteq Fields
    BY DEF Fields
  <2> HIDE DEF f
  <2>7. /\ DOMAIN recall' = Recalls /\ DOMAIN recall'[r] = Fields
        /\ \A q \in Recalls \ {r} : recall'[q] = recall[q]
        /\ \A k \in Fields : recall'[r][k] = IF k \in DOMAIN f THEN f[k] ELSE recall[r][k]
    BY <2>1, <2>6, ToFields DEF f
  <2>8. /\ recall'[r].pc = "recall" /\ recall'[r].keywords = (IF d = Size THEN "check" ELSE "sign")
        /\ recall'[r].sig = sig /\ recall'[r].doc = (IF d = Size THEN 1 ELSE d + 1)
        /\ recall'[r].text = recall[r].text /\ recall'[r].begun = recall[r].begun
    BY <1>1, <2>7 DEF f, Fields
  <2>9. Typed(r)'
    BY <1>2, <2>2, <2>5, <2>8 DEF Typed
  <2>10. Signs(r)'
    BY <1>1, <1>2, <2>2, <2>3, <2>4, <2>8 DEF Signs, OfDocs, Steps
  <2>11. recall'[r].keywords \in {"check", "sign"}
    BY <2>8
  <2> QED
    BY <2>7, <2>9, <2>10, <2>11 DEF RecallKnown, Searches, Building, Uses
<1> QED
  BY <1>6, <1>7
-----------------------------------------------------------------------------
(* An index with the signature of a recall is good for it, and for what is built next. *)
LEMMA GoodIndex ==
  ASSUME RInv, NEW r \in Recalls, recall[r].pc = "recall", recall[r].keywords \in Steps,
         index.sig = recall[r].sig, OfDocs(r)
  PROVE  /\ Leq(recall[r].begun, index.content)
         /\ \A q \in Recalls : Building(q) =>
              LeqBelow(recall[q].doc, recall[r].begun, recall[q].text)
<1>1. Typed(r) /\ Signs(r) /\ IndexKnown
  BY DEF RInv, RecallKnown
<1>2. /\ recall[r].begun \in Texts /\ recall[r].sig.at \in Texts /\ index.content \in Texts
      /\ Leq(recall[r].begun, recall[r].sig.at) /\ index.sig.at = recall[r].sig.at
      /\ index.sig.of = "docs" /\ Leq(index.sig.at, index.content)
  BY <1>1 DEF Typed, Signs, IndexKnown, OfDocs
<1>3. Leq(recall[r].begun, index.content)
  BY <1>2 DEF Leq, Texts
<1>4. ASSUME NEW q \in Recalls, Building(q)
      PROVE  LeqBelow(recall[q].doc, recall[r].begun, recall[q].text)
  <2>1. recall[q].text \in Texts /\ LeqBelow(recall[q].doc, index.sig.at, recall[q].text)
    BY <1>2, <1>4 DEF RInv, RecallKnown, Typed, Builds, Building, Searches
  <2> QED
    BY <1>2, <2>1 DEF Leq, LeqBelow, Texts
<1> QED
  BY <1>3, <1>4

LEMMA CheckKeepsRInv ==
  ASSUME RInv, NEW r \in Recalls, CheckIndex(r), UNCHANGED stores
  PROVE  RInv'
<1>1. /\ recall[r].pc = "recall" /\ recall[r].keywords = "check" /\ RecallKnown(r)
      /\ Typed(r) /\ Signs(r) /\ docs' = docs
  BY DEF CheckIndex, Searches, RInv, RecallKnown, stores
<1>2. lock # r /\ lock' = lock /\ index' = index
  BY <1>1, RetrievalAssumption DEF RInv, LockKnown, Building, Searches, CheckIndex
<1> DEFINE f == [keywords |-> IF index.sig = recall[r].sig THEN "use" ELSE "lock"]
<1>3. DOMAIN f \subseteq Fields /\ To(r, f)
  BY DEF Fields, CheckIndex
<1> HIDE DEF f
<1>4. /\ DOMAIN recall' = Recalls /\ DOMAIN recall'[r] = Fields
      /\ \A q \in Recalls \ {r} : recall'[q] = recall[q]
      /\ \A k \in Fields : recall'[r][k] = IF k \in DOMAIN f THEN f[k] ELSE recall[r][k]
  BY <1>3, ToFields
<1>5. /\ recall'[r].pc = "recall" /\ recall'[r].sig = recall[r].sig
      /\ recall'[r].keywords = (IF index.sig = recall[r].sig THEN "use" ELSE "lock")
      /\ recall'[r].doc = recall[r].doc /\ recall'[r].text = recall[r].text
      /\ recall'[r].begun = recall[r].begun
  BY <1>1, <1>4 DEF f, Fields
<1>6. Typed(r)' /\ Signs(r)'
  <2>1. recall'[r].keywords \in {"use", "lock"} /\ recall[r].keywords \in Steps
    BY <1>1, <1>5 DEF Steps
  <2> QED
    BY <1>1, <1>5, <2>1 DEF Typed, Signs, OfDocs
<1>7. Searches(r, "use")' /\ OfDocs(r)' =>
        /\ Leq(recall'[r].begun, index.content)
        /\ \A q \in Recalls : Building(q) =>
             LeqBelow(recall[q].doc, recall'[r].begun, recall[q].text)
  <2> SUFFICES ASSUME Searches(r, "use")', OfDocs(r)'
               PROVE  /\ Leq(recall[r].begun, index.content)
                      /\ \A q \in Recalls : Building(q) =>
                           LeqBelow(recall[q].doc, recall[r].begun, recall[q].text)
    BY <1>5
  <2>1. index.sig = recall[r].sig /\ OfDocs(r) /\ recall[r].keywords \in Steps
    BY <1>1, <1>5 DEF Searches, OfDocs, Steps
  <2> QED
    BY <1>1, <2>1, GoodIndex
<1>8. RecallKnown(r)'
  <2>1. ~Building(r)' /\ ~Searches(r, "ok")'
    BY <1>5 DEF Building, Searches
  <2> QED
    BY <1>2, <1>4, <1>6, <1>7, <2>1 DEF RecallKnown, Uses
<1>9. OthersKept(r)
  BY <1>2, <1>4, <1>7, OthersKeptBySameIndex
<1>10. LockKnown'
  BY <1>2, <1>4, LockStaysKnown
<1>11. IndexKnown'
  BY <1>1, <1>2 DEF RInv, IndexKnown
<1> QED
  BY <1>4, <1>8, <1>9, <1>10, <1>11, StepKeepsRInv

LEMMA LockKeepsRInv ==
  ASSUME RInv, NEW r \in Recalls, LockIndex(r), UNCHANGED stores
  PROVE  RInv'
<1> USE DocsFacts
<1>1. /\ recall[r].pc = "recall" /\ recall[r].keywords = "lock" /\ RecallKnown(r)
      /\ Typed(r) /\ Signs(r) /\ docs' = docs /\ local' = local /\ local \in BOOLEAN
      /\ lock = Nobody /\ lock' = r /\ index' = index
  BY DEF LockIndex, LockUsed, Searches, RInv, RecallKnown, stores, StoresKnown
<1>2. ASSUME NEW q \in Recalls PROVE ~Building(q)
  BY <1>1, RetrievalAssumption DEF RInv, RecallKnown, Builds
<1> DEFINE next == IF index.sig = recall[r].sig THEN "use" ELSE IF local THEN "files" ELSE "manifest"
           f == [doc |-> 1, text |-> Nothing, keywords |-> next]
<1>3. DOMAIN f \subseteq Fields /\ To(r, f)
  BY DEF Fields, LockIndex
<1> HIDE DEF f
<1>4. /\ DOMAIN recall' = Recalls /\ DOMAIN recall'[r] = Fields
      /\ \A q \in Recalls \ {r} : recall'[q] = recall[q]
      /\ \A k \in Fields : recall'[r][k] = IF k \in DOMAIN f THEN f[k] ELSE recall[r][k]
  BY <1>3, ToFields
<1>5. /\ recall'[r].pc = "recall" /\ recall'[r].sig = recall[r].sig
      /\ recall'[r].keywords = next
      /\ recall'[r].doc = 1 /\ recall'[r].text = Nothing /\ recall'[r].begun = recall[r].begun
  BY <1>1, <1>4 DEF f, Fields
<1>6. Typed(r)' /\ Signs(r)'
  <2>1. next \in {"use", "files", "manifest"} /\ (next = "files" => local)
        /\ (next = "manifest" => ~local) /\ recall[r].keywords \in Steps
    BY <1>1 DEF Steps
  <2> HIDE DEF next
  <2> QED
    BY <1>1, <1>5, <2>1 DEF Typed, Signs, OfDocs
<1>7. Searches(r, "use")' /\ OfDocs(r)' => Leq(recall'[r].begun, index.content)
  <2> SUFFICES ASSUME Searches(r, "use")', OfDocs(r)' PROVE Leq(recall[r].begun, index.content)
    BY <1>5
  <2>1. index.sig = recall[r].sig /\ OfDocs(r) /\ recall[r].keywords \in Steps
    BY <1>1, <1>5 DEF Searches, OfDocs, Steps
  <2> QED
    BY <1>1, <2>1, GoodIndex
<1>8. Builds(r)'
  <2>1. ASSUME NEW g, NEW h PROVE LeqBelow(1, g, h)
    BY DEF LeqBelow, Docs
  <2> QED
    BY <1>1, <1>5, <2>1 DEF Builds
<1>9. RecallKnown(r)'
  <2>1. ~Searches(r, "ok")'
    BY <1>5 DEF Searches
  <2> QED
    BY <1>1, <1>4, <1>6, <1>7, <1>8, <2>1 DEF RecallKnown, Uses
<1>10. OthersKept(r)
  BY <1>1, <1>2, <1>4, OthersKeptBySameIndex
<1>11. LockKnown'
  BY <1>1, <1>5 DEF LockKnown, Building, Searches
<1>12. IndexKnown'
  BY <1>1 DEF RInv, IndexKnown
<1> QED
  BY <1>4, <1>9, <1>10, <1>11, <1>12, StepKeepsRInv
-----------------------------------------------------------------------------
(* What is published is no older than its signature and than what anybody about to use it *)
(* may expect.                                                                          *)
LEMMA PublishKeepsRInv ==
  ASSUME RInv, NEW r \in Recalls, Building(r), UNCHANGED <<stores, lock>>,
         NEW content \in Texts, Publish(r, content),
         OfDocs(r) => Leq(recall[r].sig.at, content),
         \A q \in Recalls : Searches(q, "use") /\ OfDocs(q) => Leq(recall[q].begun, content),
         DOMAIN recall' = Recalls, \A q \in Recalls \ {r} : recall'[q] = recall[q],
         DOMAIN recall'[r] = Fields, recall'[r].pc = "recall", recall'[r].keywords = "use",
         recall'[r].sig = recall[r].sig, recall'[r].begun = recall[r].begun,
         recall'[r].text \in Texts, recall'[r].doc \in Docs
  PROVE  RInv'
<1>1. /\ recall[r].pc = "recall" /\ recall[r].keywords \in Steps /\ RecallKnown(r)
      /\ Typed(r) /\ Signs(r) /\ lock = r /\ docs' = docs
  BY DEF Building, Searches, RInv, RecallKnown, Steps, Builds, stores
<1>2. index'.sig = recall[r].sig /\ index'.content = content
  BY DEF Publish
<1>3. IndexKnown'
  BY <1>1, <1>2 DEF IndexKnown, Typed, Signs, OfDocs
<1>4. LockKnown'
  BY <1>1 DEF LockKnown, Searches
<1>5. ASSUME NEW q \in Recalls \ {r} PROVE ~Building(q) /\ Uses(q)'
  <2>1. ~Building(q) /\ Uses(q)
    BY <1>1 DEF RInv, RecallKnown, Builds
  <2> QED
    BY <1>2, <2>1 DEF Uses, Searches, OfDocs
<1>6. OthersKept(r)
  BY <1>5 DEF OthersKept
<1>7. Typed(r)' /\ Signs(r)'
  BY <1>1 DEF Typed, Signs, OfDocs
<1>8. OfDocs(r)' => Leq(recall'[r].begun, content)
  <2> SUFFICES ASSUME OfDocs(r)' PROVE Leq(recall[r].begun, content)
    OBVIOUS
  <2>1. OfDocs(r)
    BY DEF OfDocs
  <2> QED
    BY <1>1, <2>1 DEF Signs, Typed, Leq, Texts
<1>9. RecallKnown(r)'
  <2>1. ~Building(r)' /\ ~Searches(r, "ok")'
    BY DEF Building, Searches
  <2> QED
    BY <1>2, <1>7, <1>8, <2>1 DEF RecallKnown, Uses
<1> QED
  BY <1>3, <1>4, <1>6, <1>9, StepKeepsRInv

LEMMA FailKeepsRInv ==
  ASSUME RInv, NEW r \in Recalls, Building(r), BuildFails(r), UNCHANGED stores
  PROVE  RInv'
<1>1. /\ recall[r].pc = "recall" /\ recall[r].keywords \in Steps /\ RecallKnown(r)
      /\ Typed(r) /\ Signs(r) /\ lock = r /\ docs' = docs
  BY DEF Building, Searches, RInv, RecallKnown, Steps, Builds, stores
<1> DEFINE f == [keywords |-> "failed"]
<1>2. DOMAIN f \subseteq Fields /\ To(r, f)
  BY DEF Fields, BuildFails
<1> HIDE DEF f
<1>3. /\ DOMAIN recall' = Recalls /\ DOMAIN recall'[r] = Fields
      /\ \A q \in Recalls \ {r} : recall'[q] = recall[q]
      /\ \A k \in Fields : recall'[r][k] = IF k \in DOMAIN f THEN f[k] ELSE recall[r][k]
  BY <1>2, ToFields
<1>4. /\ recall'[r].pc = "recall" /\ recall'[r].sig = recall[r].sig
      /\ recall'[r].keywords = "failed" /\ recall'[r].begun = recall[r].begun
      /\ recall'[r].doc = recall[r].doc /\ recall'[r].text = recall[r].text
  BY <1>1, <1>3 DEF f, Fields
<1>5. Typed(r)' /\ Signs(r)'
  BY <1>1, <1>4 DEF Typed, Signs, OfDocs, Steps
<1>6. RecallKnown(r)' /\ ~Searches(r, "use")'
  <2>1. ~Building(r)' /\ ~Searches(r, "ok")' /\ ~Searches(r, "use")'
    BY <1>4 DEF Building, Searches
  <2> QED
    BY <1>3, <1>5, <2>1 DEF RecallKnown, Uses
<1>7. lock' = Nobody /\ lock' # r /\ UNCHANGED <<stores, index>>
  BY <1>1, RetrievalAssumption DEF BuildFails, Release
<1> QED
  BY <1>1, <1>3, <1>6, <1>7, OutsideKeepsRInv

LEMMA ReadKeepsRInv ==
  ASSUME RInv, NEW r \in Recalls, Building(r), UNCHANGED <<stores, lock>>,
         NEW source \in Texts, Leq(docs, source), ReadNext(r, source)
  PROVE  RInv'
<1> USE DocsFacts
<1>1. /\ recall[r].pc = "recall" /\ recall[r].keywords \in Steps /\ RecallKnown(r)
      /\ Typed(r) /\ Signs(r) /\ Builds(r) /\ lock = r /\ docs' = docs /\ local' = local
      /\ docs \in Texts
  BY DEF Building, Searches, RInv, RecallKnown, Steps, Builds, stores, StoresKnown
<1> DEFINE d == recall[r].doc
           text == [recall[r].text EXCEPT ![d] = source[d]]
<1>2. d \in Docs /\ recall[r].text \in Texts /\ text \in Texts
  BY <1>1 DEF Typed, Texts
<1>3. ASSUME NEW g \in Texts, Leq(g, docs), LeqBelow(d, g, recall[r].text)
      PROVE  LeqBelow(d + 1, g, text)
  <2> SUFFICES ASSUME NEW e \in Docs, e < d + 1 PROVE g[e] <= text[e]
    BY DEF LeqBelow
  <2>1. e = d \/ e < d
    BY <1>2 DEF Docs
  <2>2. CASE e = d
    <3>1. text[e] = source[e] /\ g[e] <= docs[e] /\ docs[e] <= source[e]
      BY <1>2, <1>3, <2>2 DEF Texts, Leq
    <3>2. g[e] \in Nat /\ docs[e] \in Nat /\ source[e] \in Nat
      BY <1>1 DEF Texts
    <3> QED
      BY <3>1, <3>2
  <2>3. CASE e < d
    <3>1. e # d /\ g[e] <= recall[r].text[e]
      BY <1>2, <1>3, <2>3 DEF LeqBelow, Docs
    <3>2. text[e] = recall[r].text[e]
      BY <1>2, <3>1 DEF Texts
    <3> QED
      BY <3>1, <3>2
  <2> QED
    BY <2>1, <2>2, <2>3
<1>4. OfDocs(r) => LeqBelow(d + 1, recall[r].sig.at, text)
  BY <1>1, <1>3 DEF Typed, Signs, Builds
<1>5. index.sig.of = "docs" => LeqBelow(d + 1, index.sig.at, text)
  BY <1>1, <1>3 DEF RInv, IndexKnown, Builds
<1>6. ASSUME NEW q \in Recalls, Searches(q, "use"), OfDocs(q)
      PROVE  LeqBelow(d + 1, recall[q].begun, text)
  <2>1. recall[q].begun \in Texts /\ Leq(recall[q].begun, docs)
    BY <1>6 DEF RInv, RecallKnown, Typed, Signs, Searches
  <2>2. LeqBelow(d, recall[q].begun, recall[r].text)
    BY <1>1, <1>6 DEF Builds
  <2> QED
    BY <1>3, <2>1, <2>2
<1>7. CASE d < Size
  <2> DEFINE f == [text |-> text, doc |-> d + 1]
  <2> HIDE DEF text
  <2>1. DOMAIN f \subseteq Fields /\ To(r, f) /\ index' = index
    BY <1>7 DEF Fields, ReadNext, text
  <2> HIDE DEF f
  <2>2. /\ DOMAIN recall' = Recalls /\ DOMAIN recall'[r] = Fields
        /\ \A q \in Recalls \ {r} : recall'[q] = recall[q]
        /\ \A k \in Fields : recall'[r][k] = IF k \in DOMAIN f THEN f[k] ELSE recall[r][k]
    BY <2>1, ToFields
  <2>3. /\ recall'[r].pc = "recall" /\ recall'[r].sig = recall[r].sig
        /\ recall'[r].keywords = recall[r].keywords /\ recall'[r].begun = recall[r].begun
        /\ recall'[r].doc = d + 1 /\ recall'[r].text = text
    BY <1>1, <2>2 DEF f, Fields
  <2>4. d + 1 \in Docs
    BY <1>2, <1>7, RetrievalAssumption DEF Docs
  <2>5. recall[r].keywords # "sign" /\ ~Searches(r, "use") /\ ~Searches(r, "ok")
    BY DEF Building, Searches
  <2>6. Typed(r)' /\ Signs(r)'
    BY <1>1, <1>2, <2>3, <2>4, <2>5 DEF Typed, Signs, OfDocs
  <2>7. Building(r)' /\ ~Searches(r, "use")' /\ ~Searches(r, "ok")'
    BY <2>3, <2>5, <1>1 DEF Building, Searches
  <2>8. Builds(r)'
    <3>1. ASSUME NEW q \in Recalls, Searches(q, "use")', OfDocs(q)'
          PROVE  LeqBelow(d + 1, recall'[q].begun, text)
      BY <3>1, <1>6, <2>2, <2>7 DEF Searches, OfDocs
    <3> QED
      BY <1>1, <1>4, <1>5, <2>1, <2>3, <3>1 DEF Builds, OfDocs
  <2>9. RecallKnown(r)'
    BY <2>2, <2>6, <2>7, <2>8 DEF RecallKnown, Uses
  <2>10. OthersKept(r)
    BY <1>1, <2>1, <2>2, <2>7, OthersKeptBySameIndex
  <2>11. LockKnown'
    BY <2>2, <2>7, LockStaysKnown
  <2>12. IndexKnown'
    BY <1>1, <2>1 DEF RInv, IndexKnown
  <2> QED
    BY <2>2, <2>9, <2>10, <2>11, <2>12, StepKeepsRInv
<1>8. CASE ~(d < Size)
  <2>1. ASSUME NEW g, LeqBelow(d + 1, g, text) PROVE Leq(g, text)
    BY <1>2, <1>8, <2>1, RetrievalAssumption DEF LeqBelow, Leq, Docs
  <2> DEFINE f == [keywords |-> "use", text |-> Nothing, doc |-> 1]
  <2> HIDE DEF text
  <2>2. DOMAIN f \subseteq Fields /\ To(r, f) /\ Publish(r, text)
    BY <1>8 DEF Fields, ReadNext, text
  <2> HIDE DEF f
  <2>3. /\ DOMAIN recall' = Recalls /\ DOMAIN recall'[r] = Fields
        /\ \A q \in Recalls \ {r} : recall'[q] = recall[q]
        /\ \A k \in Fields : recall'[r][k] = IF k \in DOMAIN f THEN f[k] ELSE recall[r][k]
    BY <2>2, ToFields
  <2>4. /\ recall'[r].pc = "recall" /\ recall'[r].sig = recall[r].sig
        /\ recall'[r].keywords = "use" /\ recall'[r].begun = recall[r].begun
        /\ recall'[r].doc = 1 /\ recall'[r].text = Nothing
    BY <1>1, <2>3 DEF f, Fields
  <2>5. \A q \in Recalls : Searches(q, "use") /\ OfDocs(q) => Leq(recall[q].begun, text)
    BY <1>6, <2>1
  <2>6. OfDocs(r) => Leq(recall[r].sig.at, text)
    BY <1>4, <2>1
  <2> QED
    BY <1>2, <2>2, <2>3, <2>4, <2>5, <2>6, PublishKeepsRInv
<1> QED
  BY <1>7, <1>8

LEMMA FilesKeepRInv ==
  ASSUME RInv, NEW r \in Recalls, BuildFromFiles(r), UNCHANGED stores
  PROVE  RInv'
<1>1. Building(r)
  BY DEF BuildFromFiles, Building
<1>2. docs \in Texts /\ Leq(docs, docs)
  BY DEF RInv, StoresKnown, Leq, Texts
<1>3. CASE ReadNext(r, docs) /\ UNCHANGED lock
  BY <1>1, <1>2, <1>3, ReadKeepsRInv
<1>4. CASE BuildFails(r)
  BY <1>1, <1>4, FailKeepsRInv
<1> QED
  BY <1>3, <1>4 DEF BuildFromFiles

LEMMA ScrollKeepsRInv ==
  ASSUME RInv, NEW r \in Recalls, ScrollQdrant(r), UNCHANGED stores
  PROVE  RInv'
<1>1. Building(r)
  BY DEF ScrollQdrant, Building
<1>2. stored \in Texts /\ Leq(docs, stored)
  <2>1. ~local
    BY DEF ScrollQdrant, Searches, RInv, RecallKnown, Signs
  <2> QED
    BY <2>1 DEF RInv, StoresKnown, S3Known
<1>3. CASE ReadNext(r, stored) /\ UNCHANGED lock
  BY <1>1, <1>2, <1>3, ReadKeepsRInv
<1>4. CASE BuildFails(r)
  BY <1>1, <1>4, FailKeepsRInv
<1> QED
  BY <1>3, <1>4 DEF ScrollQdrant

LEMMA ManifestKeepsRInv ==
  ASSUME RInv, NEW r \in Recalls, BuildFromManifest(r), UNCHANGED stores
  PROVE  RInv'
<1>1. /\ recall[r].pc = "recall" /\ recall[r].keywords = "manifest" /\ RecallKnown(r)
      /\ Typed(r) /\ Signs(r) /\ Builds(r) /\ Building(r) /\ docs' = docs /\ local' = local
      /\ lock' = lock /\ docs \in Texts /\ ~local
  BY DEF BuildFromManifest, Building, Searches, RInv, RecallKnown, Signs, stores, StoresKnown
<1>2. CASE Publish(r, docs) /\ To(r, [keywords |-> "use"])
  <2> DEFINE f == [keywords |-> "use"]
  <2>1. DOMAIN f \subseteq Fields /\ To(r, f)
    BY <1>2 DEF Fields
  <2> HIDE DEF f
  <2>2. /\ DOMAIN recall' = Recalls /\ DOMAIN recall'[r] = Fields
        /\ \A q \in Recalls \ {r} : recall'[q] = recall[q]
        /\ \A k \in Fields : recall'[r][k] = IF k \in DOMAIN f THEN f[k] ELSE recall[r][k]
    BY <2>1, ToFields
  <2>3. /\ recall'[r].pc = "recall" /\ recall'[r].sig = recall[r].sig
        /\ recall'[r].keywords = "use" /\ recall'[r].begun = recall[r].begun
        /\ recall'[r].doc = recall[r].doc /\ recall'[r].text = recall[r].text
    BY <1>1, <2>2 DEF f, Fields
  <2>4. recall'[r].doc \in Docs /\ recall'[r].text \in Texts
    BY <1>1, <2>3 DEF Typed
  <2>5. OfDocs(r) => Leq(recall[r].sig.at, docs)
    BY <1>1 DEF Signs, Steps
  <2>6. \A q \in Recalls : Searches(q, "use") /\ OfDocs(q) => Leq(recall[q].begun, docs)
    BY DEF RInv, RecallKnown, Signs, Searches
  <2> QED
    BY <1>1, <1>2, <2>2, <2>3, <2>4, <2>5, <2>6, PublishKeepsRInv
<1>3. CASE To(r, [keywords |-> "scroll"]) /\ index' = index
  <2> DEFINE f == [keywords |-> "scroll"]
  <2>1. DOMAIN f \subseteq Fields /\ To(r, f)
    BY <1>3 DEF Fields
  <2> HIDE DEF f
  <2>2. /\ DOMAIN recall' = Recalls /\ DOMAIN recall'[r] = Fields
        /\ \A q \in Recalls \ {r} : recall'[q] = recall[q]
        /\ \A k \in Fields : recall'[r][k] = IF k \in DOMAIN f THEN f[k] ELSE recall[r][k]
    BY <2>1, ToFields
  <2>3. /\ recall'[r].pc = "recall" /\ recall'[r].sig = recall[r].sig
        /\ recall'[r].keywords = "scroll" /\ recall'[r].begun = recall[r].begun
        /\ recall'[r].doc = recall[r].doc /\ recall'[r].text = recall[r].text
    BY <1>1, <2>2 DEF f, Fields
  <2>4. Typed(r)' /\ Signs(r)'
    BY <1>1, <2>3 DEF Typed, Signs, OfDocs, Steps
  <2>5. Building(r)' /\ ~Searches(r, "use")' /\ ~Searches(r, "ok")' /\ ~Searches(r, "use")
    BY <1>1, <2>3 DEF Building, Searches
  <2>6. Builds(r)'
    <3>1. ASSUME NEW q \in Recalls, Searches(q, "use")', OfDocs(q)'
          PROVE  LeqBelow(recall[r].doc, recall'[q].begun, recall[r].text)
      BY <3>1, <1>1, <2>2, <2>5 DEF Builds, Searches, OfDocs
    <3> QED
      BY <1>1, <1>3, <2>3, <3>1 DEF Builds, OfDocs
  <2>7. RecallKnown(r)'
    BY <2>2, <2>4, <2>5, <2>6 DEF RecallKnown, Uses
  <2>8. OthersKept(r)
    BY <1>1, <1>3, <2>2, <2>5, OthersKeptBySameIndex
  <2>9. LockKnown'
    BY <1>1, <2>2, <2>5, LockStaysKnown
  <2>10. IndexKnown'
    BY <1>1, <1>3 DEF RInv, IndexKnown
  <2> QED
    BY <2>2, <2>7, <2>8, <2>9, <2>10, StepKeepsRInv
<1> QED
  BY <1>2, <1>3 DEF BuildFromManifest

LEMMA SearchKeepsRInv ==
  ASSUME RInv, NEW r \in Recalls, SearchBm25(r), UNCHANGED stores
  PROVE  RInv'
<1>1. /\ recall[r].pc = "recall" /\ recall[r].keywords = "use" /\ RecallKnown(r)
      /\ Typed(r) /\ Signs(r) /\ Uses(r) /\ docs' = docs /\ index' = index
      /\ index.content \in Texts /\ Searches(r, "use")
  BY DEF SearchBm25, Searches, RInv, RecallKnown, IndexKnown, stores
<1> DEFINE f == [keywords |-> "ok", text |-> index.content]
<1>2. DOMAIN f \subseteq Fields /\ To(r, f)
  BY DEF Fields, SearchBm25
<1> HIDE DEF f
<1>3. /\ DOMAIN recall' = Recalls /\ DOMAIN recall'[r] = Fields
      /\ \A q \in Recalls \ {r} : recall'[q] = recall[q]
      /\ \A k \in Fields : recall'[r][k] = IF k \in DOMAIN f THEN f[k] ELSE recall[r][k]
  BY <1>2, ToFields
<1>4. /\ recall'[r].pc = "recall" /\ recall'[r].sig = recall[r].sig
      /\ recall'[r].keywords = "ok" /\ recall'[r].begun = recall[r].begun
      /\ recall'[r].doc = recall[r].doc /\ recall'[r].text = index.content
  BY <1>1, <1>3 DEF f, Fields
<1>5. Typed(r)' /\ Signs(r)'
  BY <1>1, <1>4 DEF Typed, Signs, OfDocs, Steps
<1>6. RecallKnown(r)' /\ ~Searches(r, "use")'
  <2>1. ~Building(r)' /\ ~Searches(r, "use")'
    BY <1>4 DEF Building, Searches
  <2>2. OfDocs(r)' => Leq(recall'[r].begun, recall'[r].text)
    BY <1>1, <1>4 DEF Uses, OfDocs
  <2> QED
    BY <1>3, <1>5, <2>1, <2>2 DEF RecallKnown, Uses
<1>7. (lock' = lock \/ (lock = r /\ lock' = Nobody)) /\ lock' # r
  BY RetrievalAssumption DEF SearchBm25, Release
<1> QED
  BY <1>1, <1>3, <1>6, <1>7, OutsideKeepsRInv

LEMMA VectorKeepsRInv ==
  ASSUME RInv, NEW r \in Recalls, VectorStep(r), UNCHANGED stores
  PROVE  RInv'
<1>1. /\ recall[r].pc = "recall" /\ RecallKnown(r) /\ Typed(r) /\ Signs(r)
      /\ docs' = docs /\ local' = local /\ index' = index /\ lock' = lock
  BY DEF VectorStep, SearchVector, Recalling, RInv, RecallKnown, stores
<1>2. PICK f : DOMAIN f \subseteq {"vector", "near"} /\ To(r, f)
  <2>1. \/ To(r, [vector |-> "ok", near |-> {d \in Docs : stored[d] # 0}])
        \/ To(r, [vector |-> "failed"])
    BY DEF VectorStep, SearchVector
  <2>2. /\ DOMAIN [vector |-> "ok", near |-> {d \in Docs : stored[d] # 0}] \subseteq {"vector", "near"}
        /\ DOMAIN [vector |-> "failed"] \subseteq {"vector", "near"}
    OBVIOUS
  <2> QED
    BY <2>1, <2>2
<1>3. DOMAIN f \subseteq Fields
  BY <1>2 DEF Fields
<1>4. /\ DOMAIN recall' = Recalls /\ DOMAIN recall'[r] = Fields
      /\ \A q \in Recalls \ {r} : recall'[q] = recall[q]
      /\ \A k \in Fields : recall'[r][k] = IF k \in DOMAIN f THEN f[k] ELSE recall[r][k]
  BY <1>2, <1>3, ToFields
<1>5. /\ recall'[r].pc = recall[r].pc /\ recall'[r].sig = recall[r].sig
      /\ recall'[r].keywords = recall[r].keywords /\ recall'[r].begun = recall[r].begun
      /\ recall'[r].doc = recall[r].doc /\ recall'[r].text = recall[r].text
  BY <1>2, <1>4 DEF Fields
<1>6. Typed(r)' /\ Signs(r)'
  BY <1>1, <1>5 DEF Typed, Signs, OfDocs
<1>7. \A step : Searches(r, step)' <=> Searches(r, step)
  BY <1>5 DEF Searches
<1>8. OthersKept(r)
  <2>1. ASSUME NEW q \in Recalls \ {r}, Building(q), Searches(r, "use")', OfDocs(r)'
        PROVE  LeqBelow(recall[q].doc, recall'[r].begun, recall[q].text)
    BY <2>1, <1>5, <1>7 DEF RInv, RecallKnown, Builds, OfDocs
  <2> QED
    BY <1>1, <1>4, <2>1, OthersKeptBySameIndex
<1>9. Building(r) => Builds(r)'
  <2> SUFFICES ASSUME Building(r) PROVE Builds(r)'
    OBVIOUS
  <2>1. Builds(r)
    BY <1>1 DEF RecallKnown
  <2>2. ASSUME NEW q \in Recalls, Searches(q, "use")', OfDocs(q)'
        PROVE  LeqBelow(recall[r].doc, recall'[q].begun, recall[r].text)
    <3>1. Searches(q, "use") /\ OfDocs(q) /\ recall'[q].begun = recall[q].begun
      BY <2>2, <1>4, <1>5 DEF Searches, OfDocs
    <3> QED
      BY <2>1, <3>1 DEF Builds
  <2> QED
    BY <1>1, <1>5, <2>1, <2>2 DEF Builds, OfDocs
<1>10. RecallKnown(r)'
  BY <1>1, <1>4, <1>5, <1>6, <1>7, <1>9 DEF RecallKnown, Uses, Building, OfDocs
<1>11. LockKnown'
  <2>1. lock = r => Building(r)' \/ Searches(r, "use")'
    BY <1>7, RetrievalAssumption DEF RInv, LockKnown, Building
  <2> QED
    BY <1>1, <1>4, <2>1, LockStaysKnown
<1>12. IndexKnown'
  BY <1>1 DEF RInv, IndexKnown
<1> QED
  BY <1>4, <1>8, <1>10, <1>11, <1>12, StepKeepsRInv

LEMMA MainKeepsRInv ==
  ASSUME RInv, NEW r \in Recalls, MainStep(r), UNCHANGED stores
  PROVE  RInv'
<1>1. DOMAIN recall = Recalls /\ DOMAIN recall[r] = Fields /\ index' = index /\ lock' = lock
  BY DEF RInv, RecallKnown, MainStep
<1>2. /\ recall[r].pc # "recall" \/ Searches(r, "ok") \/ Searches(r, "failed")
      /\ DOMAIN recall' = Recalls /\ \A q \in Recalls \ {r} : recall'[q] = recall[q]
      /\ recall'[r].pc # "recall" /\ DOMAIN recall'[r] = Fields
  <2>1. ASSUME NEW new, DOMAIN new = Fields, new.pc # "recall", recall' = [recall EXCEPT ![r] = new]
        PROVE  /\ DOMAIN recall' = Recalls /\ \A q \in Recalls \ {r} : recall'[q] = recall[q]
               /\ recall'[r].pc # "recall" /\ DOMAIN recall'[r] = Fields
    BY <1>1, <2>1
  <2>2. CASE RecallHybrid(r)
    <3>1. PICK k, v, fused : recall' = [recall EXCEPT ![r] =
              [Idle EXCEPT !.pc = "recalled", !.contexts = fused,
                           !.keywordHits = k, !.vectorHits = v]]
      BY <2>2 DEF RecallHybrid
    <3> DEFINE new == [Idle EXCEPT !.pc = "recalled", !.contexts = fused,
                                   !.keywordHits = k, !.vectorHits = v]
    <3>2. DOMAIN new = Fields /\ new.pc # "recall"
      BY DEF Idle, Fields
    <3> HIDE DEF new
    <3> QED
      BY <2>1, <2>2, <3>1, <3>2 DEF new, RecallHybrid, Joined
  <2>3. ASSUME NEW contexts, NEW flags, NEW lost, Recalled(r, contexts, flags, lost)
        PROVE  /\ DOMAIN recall' = Recalls /\ \A q \in Recalls \ {r} : recall'[q] = recall[q]
               /\ recall'[r].pc # "recall" /\ DOMAIN recall'[r] = Fields
    <3> DEFINE new == [Idle EXCEPT !.pc = "recalled", !.contexts = contexts,
                         !.flags = recall[r].flags \cup flags, !.lost = recall[r].lost \cup lost]
    <3>1. recall' = [recall EXCEPT ![r] = new]
      BY <2>3 DEF Recalled
    <3>2. DOMAIN new = Fields /\ new.pc # "recall"
      BY DEF Idle, Fields
    <3> HIDE DEF new
    <3> QED
      BY <2>1, <3>1, <3>2
  <2>4. CASE RecallKeywords(r)
    BY <2>3, <2>4 DEF RecallKeywords, Joined
  <2>5. CASE RecallVector(r)
    BY <2>3, <2>5 DEF RecallVector, Joined
  <2>6. DOMAIN Idle = Fields /\ Idle.pc # "recall"
    BY DEF Idle, Fields
  <2>7. CASE RecallFails(r)
    BY <2>1, <2>6, <2>7 DEF RecallFails, Joined
  <2>8. CASE Forget(r)
    BY <2>1, <2>6, <2>8 DEF Forget
  <2>9. ASSUME recall[r].pc = "recalled", NEW contexts, NEW flags, NEW lost, Answers(r, contexts, flags, lost)
        PROVE  /\ DOMAIN recall' = Recalls /\ \A q \in Recalls \ {r} : recall'[q] = recall[q]
               /\ recall'[r].pc # "recall" /\ DOMAIN recall'[r] = Fields
    <3> DEFINE f == [pc |-> "answered", contexts |-> contexts, keywordHits |-> <<>>,
                     vectorHits |-> <<>>, flags |-> recall[r].flags \cup flags,
                     lost |-> recall[r].lost \cup lost]
    <3>1. DOMAIN f \subseteq Fields /\ To(r, f)
      BY <2>9 DEF Fields, Answers
    <3>2. f.pc = "answered" /\ "pc" \in DOMAIN f /\ "pc" \in Fields
      BY DEF Fields
    <3> HIDE DEF f
    <3> QED
      BY <3>1, <3>2, ToFields
  <2>10. CASE AnswerReranked(r)
    BY <2>9, <2>10 DEF AnswerReranked
  <2>11. CASE AnswerUnranked(r)
    BY <2>9, <2>11 DEF AnswerUnranked
  <2> QED
    BY <2>2, <2>4, <2>5, <2>7, <2>8, <2>10, <2>11 DEF MainStep
<1>3. lock # r
  BY <1>2, RetrievalAssumption DEF RInv, LockKnown, Building, Searches
<1>4. RecallKnown(r)' /\ ~Searches(r, "use")'
  BY <1>2 DEF RecallKnown, Uses, Building, Searches
<1> QED
  BY <1>1, <1>2, <1>3, <1>4, OutsideKeepsRInv
-----------------------------------------------------------------------------
(* The invariant holds at the start: nothing is locked and no recall runs. *)
THEOREM InitRInv == Init => RInv
<1> SUFFICES ASSUME Init PROVE RInv
  OBVIOUS
<1> USE DocsFacts
<1>1. All(1) \in Texts /\ (\A d \in Docs : All(1)[d] = 1) /\ Leq(All(1), All(1))
  BY DEF All, Texts, Leq
<1>2. StoresKnown
  <2>1. ~local => stored = All(1)
    BY DEF Init
  <2> QED
    BY <1>1, <2>1 DEF Init, StoresKnown, S3Known, Bounded, NoScript
<1>3. IndexKnown
  BY <1>1 DEF Init, IndexKnown, NoIndex
<1>4. LockKnown /\ DOMAIN recall = Recalls
  BY DEF Init, LockKnown
<1>5. ASSUME NEW r \in Recalls PROVE RecallKnown(r)
  BY DEF Init, RecallKnown, Idle, Fields, Building, Uses, Searches
<1> QED
  BY <1>2, <1>3, <1>4, <1>5 DEF RInv

(* No step breaks it: an edit or ingest, or a step of one recall. *)
THEOREM NextKeepsRInv == RInv /\ [Next]_vars => RInv'
<1> SUFFICES ASSUME RInv, [Next]_vars PROVE RInv'
  OBVIOUS
<1>1. CASE DocsStep /\ UNCHANGED <<index, lock, recall, started, failures>>
  BY <1>1, DocsKeepRInv
<1>2. CASE (RollbackAlias \/ ScriptDies) /\ UNCHANGED <<index, lock, recall, started>>
  BY <1>2, DocsKeepRInv
<1>3. ASSUME NEW r \in Recalls, Begin(r), UNCHANGED <<stores, index, lock>> PROVE RInv'
  BY <1>3, BeginKeepsRInv
<1>4. ASSUME NEW r \in Recalls, RecallStep(r) PROVE RInv'
  <2>1. UNCHANGED stores
    BY <1>4 DEF RecallStep
  <2> QED
    BY <1>4, <2>1, SignKeepsRInv, CheckKeepsRInv, LockKeepsRInv, FilesKeepRInv,
      ManifestKeepsRInv, ScrollKeepsRInv, SearchKeepsRInv, VectorKeepsRInv, MainKeepsRInv
      DEF RecallStep, KeywordStep
<1>5. CASE UNCHANGED vars
  <2>1. UNCHANGED <<local, docs, stored, present, cli, changes, index, lock, recall>>
    BY <1>5 DEF vars, stores
  <2> QED
    BY <2>1 DEF RInv, StoresKnown, S3Known, IndexKnown, LockKnown, RecallKnown, Typed, Signs,
      Builds, Uses, OfDocs, Building, Searches, Bounded, Leq, LeqBelow
<1> QED
  BY <1>1, <1>2, <1>3, <1>4, <1>5 DEF Next

(* What a recall finds by keywords is never older than the documents were when it began,   *)
(* if S3 or the directory gave the signature.                                              *)
THEOREM RetrievalKeywordsFresh == Spec => []KeywordsFresh
<1>1. RInv => KeywordsFresh
  <2> SUFFICES ASSUME RInv, NEW r \in Recalls, Searches(r, "ok"), recall[r].sig.of = "docs",
                      NEW d \in Docs
               PROVE  recall[r].text[d] >= recall[r].begun[d]
    BY DEF KeywordsFresh
  <2>1. Typed(r) /\ Leq(recall[r].begun, recall[r].text)
    BY DEF RInv, RecallKnown, Uses, OfDocs, Searches
  <2> QED
    BY <2>1 DEF Leq, Typed, Texts
<1> QED
  BY <1>1, InitRInv, NextKeepsRInv, PTL DEF Spec

(* The lock of the index is held only by a recall that is using it: none that failed, or   *)
(* found the index good, leaves it behind for the others to wait for.                       *)
THEOREM RetrievalLockInUse == Spec => []LockInUse
<1>1. RInv => LockInUse
  BY DEF RInv, LockKnown, LockInUse, Building
<1> QED
  BY <1>1, InitRInv, NextKeepsRInv, PTL DEF Spec
-----------------------------------------------------------------------------
(***************************************************************************)
(* What an answer shows.  Lists have each document once on every way from  *)
(* the two searches through fusion, cutting and reranking.                 *)
(***************************************************************************)
Once(list) == list \in Seq(Docs) /\ \A i, j \in 1..Len(list) : list[i] = list[j] => i = j

LEMMA PermutationIsOnce ==
  ASSUME NEW S \in SUBSET Docs, NEW s \in SetToSeqs(S)
  PROVE  Once(s)
<1>1. IsFiniteSet(Docs)
  BY RetrievalAssumption, FS_Interval DEF Docs
<1>2. Cardinality(S) \in Nat
  BY <1>1, FS_Subset, FS_CardinalityType
<1>3. /\ s \in [1..Cardinality(S) -> S]
      /\ \A i, j \in 1..Cardinality(S) : i # j => s[i] # s[j]
  BY DEF SetToSeqs
<1> QED
  BY <1>2, <1>3 DEF Once

(* The first k of a list are a list that agrees with it. *)
LEMMA FirstOfAgrees ==
  ASSUME NEW T, NEW s \in Seq(T), NEW k \in Nat
  PROVE  LET cut == FirstOf(s, k)
             n   == IF Len(s) < k THEN Len(s) ELSE k
         IN  /\ cut \in Seq(T) /\ Len(cut) = n /\ n <= k /\ n \in 0..Len(s)
             /\ \A i \in 1..n : cut[i] = s[i]
<1> DEFINE n == IF Len(s) < k THEN Len(s) ELSE k
<1>1. n \in 0..Len(s) /\ n <= k
  OBVIOUS
<1>2. FirstOf(s, k) = SubSeq(s, 1, n)
  BY DEF FirstOf
<1> HIDE DEF n
<1>3. /\ SubSeq(s, 1, n) \in Seq(T) /\ Len(SubSeq(s, 1, n)) = n
      /\ \A i \in 1..n : SubSeq(s, 1, n)[i] = s[i]
  BY <1>1
<1> QED
  BY <1>1, <1>2, <1>3 DEF n

LEMMA FirstOfOnce ==
  ASSUME NEW list, Once(list), NEW k \in Nat
  PROVE  Once(FirstOf(list, k)) /\ Len(FirstOf(list, k)) <= k
<1> DEFINE n == IF Len(list) < k THEN Len(list) ELSE k
<1>1. /\ FirstOf(list, k) \in Seq(Docs) /\ Len(FirstOf(list, k)) = n /\ n <= k
      /\ n \in 0..Len(list) /\ \A i \in 1..n : FirstOf(list, k)[i] = list[i]
  BY FirstOfAgrees DEF Once
<1> HIDE DEF n
<1> QED
  BY <1>1 DEF Once

(* The reranker's scores are a permutation, and the offset of a batch undoes the batch. *)
LEMMA RerankOnce ==
  ASSUME NEW contexts, Once(contexts), NEW score \in SetToSeqs(DOMAIN contexts)
  PROVE  Once(Rerank(contexts, score)) /\ Len(Rerank(contexts, score)) <= FinalTopK
<1> DEFINE n == Len(contexts)
           D == 1..n
<1>1. n \in Nat /\ DOMAIN contexts = D /\ contexts \in [D -> Docs]
      /\ \A i, j \in D : contexts[i] = contexts[j] => i = j
  BY DEF Once
<1>2. IsFiniteSet(D) /\ Cardinality(D) = n
  BY <1>1, FS_Interval
<1>3. score \in [D -> D] /\ \A i, j \in D : i # j => score[i] # score[j]
  BY <1>1, <1>2 DEF SetToSeqs
<1>4. \A i \in D : \E j \in D : score[j] = i
  <2>1. score \in Injection(D, D)
    <3> HIDE DEF D
    <3> QED
      BY <1>3 DEF Injection, IsInjective
  <2>2. score \in Surjection(D, D)
    BY <2>1, <1>2, FS_Injection
  <2> HIDE DEF D
  <2> QED
    BY <2>2 DEF Surjection
<1> DEFINE offset(i) == ((i - 1) \div RerankBatch) * RerankBatch
           scored == [i \in 1..Len(contexts) |->
                        contexts[BatchPosition(offset(i), i - offset(i))]]
           order == [i \in 1..Len(contexts) |->
                       scored[CHOOSE j \in DOMAIN score : score[j] = i]]
<1>5. \A i \in D : scored[i] = contexts[i]
  <2> TAKE i \in D
  <2>1. offset(i) \in Int
    <3>1. RerankBatch \in Nat /\ RerankBatch > 0 /\ i - 1 \in Int
      BY RetrievalAssumption
    <3>2. \A m \in Int, b \in Nat : b > 0 => m \div b \in Int
      BY Z3
    <3>3. (i - 1) \div RerankBatch \in Int
      BY <3>1, <3>2
    <3> QED
      BY <3>1, <3>3
  <2>2. BatchPosition(offset(i), i - offset(i)) = i
    <3> HIDE DEF offset
    <3> QED
      BY <2>1 DEF BatchPosition
  <2> QED
    BY <2>2
<1>6. \A i \in D : \E j \in D : score[j] = i /\ order[i] = contexts[j]
  <2> HIDE DEF scored
  <2> TAKE i \in D
  <2> DEFINE j == CHOOSE q \in DOMAIN score : score[q] = i
  <2>1. DOMAIN score = D
    BY <1>3
  <2>2. j \in D /\ score[j] = i
    BY <1>4, <2>1
  <2>3. order[i] = scored[j]
    OBVIOUS
  <2> HIDE DEF j, order
  <2> QED
    BY <2>2, <2>3, <1>5
<1>7. Rerank(contexts, score) = FirstOf(order, FinalTopK)
  BY DEF Rerank
<1>8. order \in [D -> Docs]
  <2>1. order = [i \in D |-> order[i]]
    OBVIOUS
  <2> HIDE DEF order
  <2>2. \A i \in D : order[i] \in Docs
    <3> TAKE i \in D
    <3>1. PICK j \in D : score[j] = i /\ order[i] = contexts[j]
      BY <1>6
    <3>2. contexts[j] \in Docs
      BY <1>1
    <3> QED
      BY <3>1, <3>2
  <2> QED
    BY <2>1, <2>2
<1> HIDE DEF order
<1>9. Once(order)
  <2>1. \A i, j \in D : order[i] = order[j] => i = j
    <3> TAKE i, j \in D
    <3>1. PICK p \in D : score[p] = i /\ order[i] = contexts[p]
      BY <1>6
    <3>2. PICK q \in D : score[q] = j /\ order[j] = contexts[q]
      BY <1>6
    <3> QED
      BY <3>1, <3>2, <1>1
  <2> QED
    BY <1>1, <1>8, <2>1 DEF Once
<1>10. FinalTopK \in Nat
  BY RetrievalAssumption
<1> QED
  BY <1>7, <1>9, <1>10, FirstOfOnce
-----------------------------------------------------------------------------
(* Fusion.  Two shares of at least 1/121 are more than one of at most 1/61.  *)
LEMMA TwoShares ==
  ASSUME NEW x \in RankConstant + 1..2 * RankConstant + 1,
         NEW y \in RankConstant + 1..2 * RankConstant + 1,
         NEW z \in Nat, z > RankConstant
  PROVE  (x + y) * z > x * y
<1>1. PICK a \in 0..60 : x = 61 + a
  <2>1. x - 61 \in 0..60 /\ x = 61 + (x - 61)
    BY DEF RankConstant
  <2> QED
    BY <2>1
<1>2. PICK b \in 0..60 : y = 61 + b
  <2>1. y - 61 \in 0..60 /\ y = 61 + (y - 61)
    BY DEF RankConstant
  <2> QED
    BY <2>1
<1>3. a * b <= 60 * b
  <2>1. (60 - a) * b >= 0 /\ (60 - a) * b = 60 * b - a * b
    OBVIOUS
  <2> QED
    BY <2>1
<1>4. x * y = 3721 + 61 * a + 61 * b + a * b
  BY <1>1, <1>2
<1>5. (x + y) * z >= (x + y) * 61
  BY <1>1, <1>2 DEF RankConstant
<1> QED
  BY <1>1, <1>2, <1>3, <1>4, <1>5

LEMMA RankIsPosition ==
  ASSUME NEW hits, Once(hits), NEW d, Contains(hits, d)
  PROVE  RankOf(hits, d) \in 1..Len(hits) /\ hits[RankOf(hits, d)] = d
BY DEF Once, Contains, RankOf

LEMMA AgreedIsAbove ==
  ASSUME NEW k, NEW v, Once(k), Once(v), NEW c, NEW d,
         Contains(k, c), Contains(v, c),
         RankOf(k, c) <= RankConstant + 1, RankOf(v, c) <= RankConstant + 1,
         ~(Contains(k, d) /\ Contains(v, d)), Contains(k, d) \/ Contains(v, d)
  PROVE  Above(RrfScore(v, k, c), RrfScore(v, k, d))
<1> DEFINE x == RankConstant + RankOf(v, c)
           y == RankConstant + RankOf(k, c)
<1>1. Len(k) \in Nat /\ Len(v) \in Nat
  BY DEF Once
<1>2. /\ x \in RankConstant + 1..2 * RankConstant + 1
      /\ y \in RankConstant + 1..2 * RankConstant + 1
  <2>1. RankOf(v, c) \in 1..Len(v) /\ RankOf(k, c) \in 1..Len(k)
    BY RankIsPosition
  <2>2. ASSUME NEW n \in Nat, NEW m \in 1..n, m <= RankConstant + 1
        PROVE  RankConstant + m \in RankConstant + 1..2 * RankConstant + 1
    BY <2>2 DEF RankConstant
  <2> QED
    BY <1>1, <2>1, <2>2
<1>3. RrfScore(v, k, c) = [num |-> 1 * y + 1 * x, den |-> x * y]
  BY DEF RrfScore, Plus, RankScore
<1>4. PICK z \in Nat : z > RankConstant /\ RrfScore(v, k, d) = [num |-> 1, den |-> z]
  <2>1. CASE Contains(v, d)
    <3> DEFINE w == RankConstant + RankOf(v, d)
    <3>1. w \in Nat /\ w > RankConstant
      BY <1>1, <2>1, RankIsPosition DEF RankConstant
    <3>2. RankScore(v, d) = [num |-> 1, den |-> w] /\ RankScore(k, d) = [num |-> 0, den |-> 1]
      BY <2>1 DEF RankScore
    <3> HIDE DEF w
    <3>3. RrfScore(v, k, d) = [num |-> 1, den |-> w]
      BY <3>1, <3>2 DEF RrfScore, Plus
    <3> QED
      BY <3>1, <3>3
  <2>2. CASE Contains(k, d)
    <3> DEFINE w == RankConstant + RankOf(k, d)
    <3>1. w \in Nat /\ w > RankConstant
      BY <1>1, <2>2, RankIsPosition DEF RankConstant
    <3>2. RankScore(k, d) = [num |-> 1, den |-> w] /\ RankScore(v, d) = [num |-> 0, den |-> 1]
      BY <2>2 DEF RankScore
    <3> HIDE DEF w
    <3>3. RrfScore(v, k, d) = [num |-> 1, den |-> w]
      BY <3>1, <3>2 DEF RrfScore, Plus
    <3> QED
      BY <3>1, <3>3
  <2> QED
    BY <2>1, <2>2
<1> HIDE DEF x, y
<1>5. (x + y) * z > x * y
  BY <1>2, <1>4, TwoShares
<1>6. (1 * y + 1 * x) * z > 1 * (x * y)
  <2>1. 1 * y + 1 * x = x + y /\ 1 * (x * y) = x * y
    BY <1>2 DEF RankConstant
  <2> QED
    BY <1>5, <2>1
<1> QED
  BY <1>3, <1>4, <1>6 DEF Above

(* So the fused list has what both searches found near the top first. *)
LEMMA FuseAgreed ==
  ASSUME NEW k, NEW v, Once(k), Once(v), NEW fused \in RrfFuse(v, k)
  PROVE  /\ Once(fused)
         /\ \A i, j \in 1..Len(fused) :
              /\ i < j /\ Contains(k, fused[j]) /\ Contains(v, fused[j])
              /\ RankOf(k, fused[j]) <= RankConstant + 1
              /\ RankOf(v, fused[j]) <= RankConstant + 1
              => Contains(k, fused[i]) /\ Contains(v, fused[i])
<1>1. PICK s \in Sorted(v, k) : fused = FirstOf(s, RrfTopK)
  BY DEF RrfFuse
<1>2. /\ s \in SetToSeqs(Found(v, k))
      /\ \A i, j \in DOMAIN s : i < j => Better(v, k, s[i], s[j])
  BY DEF Sorted
<1>3. Found(v, k) \in SUBSET Docs /\ RrfTopK \in Nat
  BY RetrievalAssumption DEF Found
<1>4. Once(s)
  BY <1>2, <1>3, PermutationIsOnce
<1>5. Once(fused)
  BY <1>1, <1>3, <1>4, FirstOfOnce
<1>6. \A i \in 1..Len(fused) : i \in DOMAIN s /\ fused[i] = s[i]
  <2> DEFINE n == IF Len(s) < RrfTopK THEN Len(s) ELSE RrfTopK
  <2>1. Len(fused) = n /\ n \in 0..Len(s) /\ \A i \in 1..n : fused[i] = s[i]
    BY <1>1, <1>3, <1>4, FirstOfAgrees DEF Once
  <2> HIDE DEF n
  <2> QED
    BY <1>4, <2>1 DEF Once
<1>7. \A i \in DOMAIN s : s[i] \in Found(v, k)
  <2>1. s \in [1..Cardinality(Found(v, k)) -> Found(v, k)]
    BY <1>2 DEF SetToSeqs
  <2> QED
    BY <2>1
<1>8. ASSUME NEW i \in 1..Len(fused), NEW j \in 1..Len(fused), i < j,
             Contains(k, fused[j]), Contains(v, fused[j]),
             RankOf(k, fused[j]) <= RankConstant + 1, RankOf(v, fused[j]) <= RankConstant + 1
      PROVE  Contains(k, fused[i]) /\ Contains(v, fused[i])
  <2>1. Better(v, k, fused[i], fused[j])
    BY <1>2, <1>6, <1>8
  <2>2. Contains(k, fused[i]) \/ Contains(v, fused[i])
    BY <1>6, <1>7 DEF Found
  <2>3. SUFFICES ASSUME ~(Contains(k, fused[i]) /\ Contains(v, fused[i])) PROVE FALSE
    OBVIOUS
  <2>4. Above(RrfScore(v, k, fused[j]), RrfScore(v, k, fused[i]))
    BY <1>8, <2>2, <2>3, AgreedIsAbove
  <2>5. Above(RrfScore(v, k, fused[i]), RrfScore(v, k, fused[j]))
    BY <2>1, <2>4 DEF Better
  <2>6. \A x, y : (x.num \in Nat /\ y.num \in Nat /\ x.den \in Nat /\ y.den \in Nat)
                   => ~(Above(x, y) /\ Above(y, x))
    BY DEF Above
  <2>7. \A d \in {fused[i], fused[j]} :
          RrfScore(v, k, d).num \in Nat /\ RrfScore(v, k, d).den \in Nat
    <3> TAKE d \in {fused[i], fused[j]}
    <3>1. \A h : Once(h) => RankScore(h, d).num \in {0, 1} /\ RankScore(h, d).den \in Nat
      <4> TAKE h
      <4> HAVE Once(h)
      <4>1. CASE Contains(h, d)
        <5>1. RankOf(h, d) \in 1..Len(h) /\ Len(h) \in Nat
          BY <4>1, RankIsPosition DEF Once
        <5>2. RankScore(h, d) = [num |-> 1, den |-> RankConstant + RankOf(h, d)]
          BY <4>1 DEF RankScore
        <5> QED
          BY <5>1, <5>2 DEF RankConstant
      <4>2. CASE ~Contains(h, d)
        BY <4>2 DEF RankScore
      <4> QED
        BY <4>1, <4>2
    <3> DEFINE x == RankScore(v, d)
               y == RankScore(k, d)
    <3>2. {x.num, y.num, x.den, y.den} \subseteq Nat
      BY <3>1
    <3>3. RrfScore(v, k, d) = Plus(x, y)
      BY DEF RrfScore
    <3> HIDE DEF x, y
    <3>4. Plus(x, y).num \in Nat /\ Plus(x, y).den \in Nat
      <4>1. \A m, n \in Nat : m * n \in Nat /\ m + n \in Nat
        OBVIOUS
      <4>2. {x.num * y.den, y.num * x.den, x.den * y.den} \subseteq Nat
        BY <3>2, <4>1
      <4>3. x.num * y.den + y.num * x.den \in Nat
        BY <4>1, <4>2
      <4> QED
        BY <4>2, <4>3 DEF Plus
    <3> QED
      BY <3>3, <3>4
  <2> QED
    BY <2>4, <2>5, <2>6, <2>7
<1> QED
  BY <1>5, <1>8
-----------------------------------------------------------------------------
(* What each state of a recall owes its answer: what was left out so far is  *)
(* reported, and a list that both searches contributed to was fused of theirs. *)
Reports(flags, lost) ==
    /\ "retrieval" \in flags <=> lost # {}
    /\ "reranker" \in flags <=> "order" \in lost
    /\ flags \cap {"embedding", "qdrant"} # {} <=> "vector" \in lost

LeftOut(r) ==
    IF recall[r].vector = "off"
    THEN /\ recall[r].lost = {"vector"} /\ "retrieval" \in recall[r].flags
         /\ recall[r].flags \cap {"embedding", "qdrant"} # {} /\ "reranker" \notin recall[r].flags
    ELSE recall[r].lost = {} /\ recall[r].flags = {}
Fused(r) ==
    /\ Once(recall[r].keywordHits) /\ Once(recall[r].vectorHits)
    /\ recall[r].contexts \in RrfFuse(recall[r].vectorHits, recall[r].keywordHits)

RecallShows(r) ==
    /\ recall[r].pc = "recall" => recall[r].near \subseteq Docs /\ LeftOut(r)
    /\ recall[r].pc = "recalled" =>
         /\ Once(recall[r].contexts) /\ Reports(recall[r].flags, recall[r].lost)
         /\ "reranker" \notin recall[r].flags /\ "order" \notin recall[r].lost
         /\ recall[r].lost = {} => Fused(r)
    /\ recall[r].pc = "answered" =>
         /\ Once(recall[r].contexts) /\ Len(recall[r].contexts) <= FinalTopK
         /\ Reports(recall[r].flags, recall[r].lost)
AnswerInv == RInv /\ \A r \in Recalls : RecallShows(r)

LEMMA SearchListsOnce ==
  ASSUME NEW r
  PROVE  /\ \A k \in KeywordLists(r) : Once(k)
         /\ recall[r].near \subseteq Docs => \A v \in VectorLists(r) : Once(v)
<1>1. ASSUME NEW k \in KeywordLists(r) PROVE Once(k)
  <2>1. PICK S \in SUBSET {d \in Docs : recall[r].text[d] # 0} : k \in SetToSeqs(S)
    BY <1>1 DEF KeywordLists, SetToAllKPermutations
  <2> QED
    BY <2>1, PermutationIsOnce
<1>2. ASSUME recall[r].near \subseteq Docs, NEW v \in VectorLists(r) PROVE Once(v)
  <2>1. PICK s \in SetToSeqs(recall[r].near) : v = FirstOf(s, RecallTopK)
    BY <1>2 DEF VectorLists
  <2>2. Once(s) /\ RecallTopK \in Nat
    BY <1>2, PermutationIsOnce, RetrievalAssumption
  <2> QED
    BY <2>1, <2>2, FirstOfOnce
<1> QED
  BY <1>1, <1>2

(* The thread that searches by keywords leaves the rest of a recall alone. *)
Shown == {"pc", "vector", "near", "keywordHits", "vectorHits", "contexts", "flags", "lost"}
LEMMA SameShows ==
  ASSUME NEW r, RecallShows(r), \A f \in Shown : recall'[r][f] = recall[r][f]
  PROVE  RecallShows(r)'
<1>1. /\ recall'[r].pc = recall[r].pc /\ recall'[r].vector = recall[r].vector
      /\ recall'[r].near = recall[r].near /\ recall'[r].keywordHits = recall[r].keywordHits
      /\ recall'[r].vectorHits = recall[r].vectorHits /\ recall'[r].contexts = recall[r].contexts
      /\ recall'[r].flags = recall[r].flags /\ recall'[r].lost = recall[r].lost
  BY DEF Shown
<1> QED
  BY <1>1 DEF RecallShows, LeftOut, Fused

LEMMA StepShows ==
  ASSUME AnswerInv, NEW r \in Recalls, RecallShows(r)',
         \A q \in Recalls \ {r} : recall'[q] = recall[q]
  PROVE  \A q \in Recalls : RecallShows(q)'
<1> SUFFICES ASSUME NEW q \in Recalls, q # r PROVE RecallShows(q)'
  OBVIOUS
<1>1. RecallShows(q) /\ recall'[q] = recall[q]
  BY DEF AnswerInv
<1> QED
  BY <1>1, SameShows

LEMMA KeywordShows ==
  ASSUME AnswerInv, NEW r \in Recalls, KeywordStep(r)
  PROVE  \A q \in Recalls : RecallShows(q)'
<1> DEFINE Own == {"sig", "doc", "keywords", "text"}
<1>1. PICK f : DOMAIN f \subseteq Own /\ To(r, f)
  <2>1. ASSUME NEW a, NEW b, NEW c, To(r, [sig |-> a, doc |-> b, keywords |-> c])
        PROVE  \E f : DOMAIN f \subseteq Own /\ To(r, f)
    <3>1. DOMAIN [sig |-> a, doc |-> b, keywords |-> c] \subseteq Own
      OBVIOUS
    <3> QED
      BY <2>1, <3>1
  <2>2. ASSUME NEW a, NEW c, To(r, [sig |-> a, keywords |-> c])
        PROVE  \E f : DOMAIN f \subseteq Own /\ To(r, f)
    <3>1. DOMAIN [sig |-> a, keywords |-> c] \subseteq Own
      OBVIOUS
    <3> QED
      BY <2>2, <3>1
  <2>3. ASSUME NEW c, To(r, [keywords |-> c])
        PROVE  \E f : DOMAIN f \subseteq Own /\ To(r, f)
    <3>1. DOMAIN [keywords |-> c] \subseteq Own
      OBVIOUS
    <3> QED
      BY <2>3, <3>1
  <2>4. ASSUME NEW a, NEW b, NEW c, To(r, [doc |-> a, text |-> b, keywords |-> c])
        PROVE  \E f : DOMAIN f \subseteq Own /\ To(r, f)
    <3>1. DOMAIN [doc |-> a, text |-> b, keywords |-> c] \subseteq Own
      OBVIOUS
    <3> QED
      BY <2>4, <3>1
  <2>5. ASSUME NEW a, NEW b, NEW c, To(r, [keywords |-> a, text |-> b, doc |-> c])
        PROVE  \E f : DOMAIN f \subseteq Own /\ To(r, f)
    <3>1. DOMAIN [keywords |-> a, text |-> b, doc |-> c] \subseteq Own
      OBVIOUS
    <3> QED
      BY <2>5, <3>1
  <2>6. ASSUME NEW a, NEW b, To(r, [text |-> a, doc |-> b])
        PROVE  \E f : DOMAIN f \subseteq Own /\ To(r, f)
    <3>1. DOMAIN [text |-> a, doc |-> b] \subseteq Own
      OBVIOUS
    <3> QED
      BY <2>6, <3>1
  <2>7. ASSUME NEW a, NEW b, To(r, [keywords |-> a, text |-> b])
        PROVE  \E f : DOMAIN f \subseteq Own /\ To(r, f)
    <3>1. DOMAIN [keywords |-> a, text |-> b] \subseteq Own
      OBVIOUS
    <3> QED
      BY <2>7, <3>1
  <2> HIDE DEF Own
  <2>8. CASE Sign(r)
    BY <2>1, <2>2, <2>8 DEF Sign
  <2>9. CASE CheckIndex(r)
    BY <2>3, <2>9 DEF CheckIndex
  <2>10. CASE LockIndex(r)
    BY <2>4, <2>10 DEF LockIndex
  <2>11. ASSUME NEW source, ReadNext(r, source)
         PROVE  \E f : DOMAIN f \subseteq Own /\ To(r, f)
    BY <2>5, <2>6, <2>11 DEF ReadNext
  <2>12. ASSUME BuildFails(r) PROVE \E f : DOMAIN f \subseteq Own /\ To(r, f)
    BY <2>3, <2>12 DEF BuildFails
  <2>13. CASE BuildFromFiles(r)
    BY <2>11, <2>12, <2>13 DEF BuildFromFiles
  <2>14. CASE BuildFromManifest(r)
    BY <2>3, <2>14 DEF BuildFromManifest
  <2>15. CASE ScrollQdrant(r)
    BY <2>11, <2>12, <2>15 DEF ScrollQdrant
  <2>16. CASE SearchBm25(r)
    BY <2>7, <2>16 DEF SearchBm25
  <2> QED
    BY <2>8, <2>9, <2>10, <2>13, <2>14, <2>15, <2>16 DEF KeywordStep
<1>2. DOMAIN f \subseteq Fields /\ Shown \subseteq Fields /\ Shown \cap DOMAIN f = {}
  BY <1>1 DEF Fields, Shown
<1>3. /\ \A q \in Recalls \ {r} : recall'[q] = recall[q]
      /\ \A k \in Fields : recall'[r][k] = IF k \in DOMAIN f THEN f[k] ELSE recall[r][k]
  BY <1>1, <1>2, ToFields DEF AnswerInv
<1>4. \A k \in Shown : recall'[r][k] = recall[r][k]
  BY <1>2, <1>3
<1>5. RecallShows(r)'
  BY <1>4, SameShows DEF AnswerInv
<1> QED
  BY <1>3, <1>5, StepShows

LEMMA VectorShows ==
  ASSUME AnswerInv, NEW r \in Recalls, SearchVector(r)
  PROVE  \A q \in Recalls : RecallShows(q)'
<1>1. recall[r].pc = "recall" /\ recall[r].vector = "search" /\ RecallShows(r) /\ RInv
  BY DEF SearchVector, Recalling, AnswerInv
<1>2. PICK f : /\ DOMAIN f \subseteq {"vector", "near"} /\ "vector" \in DOMAIN f /\ To(r, f)
               /\ f["vector"] \in {"ok", "failed"}
               /\ "near" \in DOMAIN f => f["near"] \subseteq Docs
  <2>1. CASE To(r, [vector |-> "ok", near |-> {d \in Docs : stored[d] # 0}])
    <3> DEFINE near == {d \in Docs : stored[d] # 0}
               f == [vector |-> "ok", near |-> near]
    <3>1. DOMAIN f = {"vector", "near"} /\ f["vector"] = "ok" /\ f["near"] = near
      OBVIOUS
    <3>2. near \subseteq Docs
      OBVIOUS
    <3>3. To(r, f)
      BY <2>1
    <3> HIDE DEF f, near
    <3> QED
      BY <3>1, <3>2, <3>3
  <2>2. CASE To(r, [vector |-> "failed"])
    <3> DEFINE f == [vector |-> "failed"]
    <3>1. DOMAIN f = {"vector"} /\ f["vector"] = "failed"
      OBVIOUS
    <3>2. To(r, f)
      BY <2>2
    <3> HIDE DEF f
    <3> QED
      BY <3>1, <3>2
  <2> QED
    BY <2>1, <2>2 DEF SearchVector
<1>3. DOMAIN f \subseteq Fields
  BY <1>2 DEF Fields
<1>4. /\ \A q \in Recalls \ {r} : recall'[q] = recall[q]
      /\ \A k \in Fields : recall'[r][k] = IF k \in DOMAIN f THEN f[k] ELSE recall[r][k]
  BY <1>1, <1>2, <1>3, ToFields
<1>5. /\ recall'[r].pc = "recall" /\ recall'[r].vector \in {"ok", "failed"}
      /\ recall'[r].near \subseteq Docs
      /\ recall'[r].flags = recall[r].flags /\ recall'[r].lost = recall[r].lost
  BY <1>1, <1>2, <1>4 DEF Fields, RecallShows
<1>6. RecallShows(r)'
  BY <1>1, <1>5 DEF RecallShows, LeftOut
<1> QED
  BY <1>4, <1>6, StepShows

LEMMA BeginShows ==
  ASSUME AnswerInv, NEW r \in Recalls, Begin(r)
  PROVE  \A q \in Recalls : RecallShows(q)'
<1>1. PICK down \in SUBSET {"embedding", "qdrant"} : recall' = [recall EXCEPT ![r] =
              [Idle EXCEPT !.pc = "recall", !.keywords = "sign", !.begun = docs,
                           !.vector = IF down = {} THEN "search" ELSE "off",
                           !.flags = IF down = {} THEN {} ELSE down \cup {"retrieval"},
                           !.lost = IF down = {} THEN {} ELSE {"vector"}]]
  BY DEF Begin
<1>2. DOMAIN recall = Recalls
  BY DEF AnswerInv, RInv
<1> DEFINE new == [Idle EXCEPT !.pc = "recall", !.keywords = "sign", !.begun = docs,
                           !.vector = IF down = {} THEN "search" ELSE "off",
                           !.flags = IF down = {} THEN {} ELSE down \cup {"retrieval"},
                           !.lost = IF down = {} THEN {} ELSE {"vector"}]
<1>3. /\ new.pc = "recall" /\ new.near = {}
      /\ new.vector = IF down = {} THEN "search" ELSE "off"
      /\ new.flags = IF down = {} THEN {} ELSE down \cup {"retrieval"}
      /\ new.lost = IF down = {} THEN {} ELSE {"vector"}
  BY DEF Idle
<1>4. recall' = [recall EXCEPT ![r] = new]
  BY <1>1
<1> HIDE DEF new
<1>5. recall'[r] = new /\ \A q \in Recalls \ {r} : recall'[q] = recall[q]
  BY <1>2, <1>4
<1>6. RecallShows(r)'
  BY <1>3, <1>5 DEF RecallShows, LeftOut
<1> QED
  BY <1>5, <1>6, StepShows

(* The lists of the two searches are joined, and what is missing is reported. *)
LEMMA RecalledShows ==
  ASSUME AnswerInv, NEW r \in Recalls, NEW contexts, NEW flags, NEW lost,
         Recalled(r, contexts, flags, lost), Once(contexts),
         Reports(recall[r].flags \cup flags, recall[r].lost \cup lost),
         "reranker" \notin recall[r].flags \cup flags, "order" \notin recall[r].lost \cup lost,
         recall[r].lost \cup lost # {}
  PROVE  \A q \in Recalls : RecallShows(q)'
<1> DEFINE new == [Idle EXCEPT !.pc = "recalled", !.contexts = contexts,
                     !.flags = recall[r].flags \cup flags, !.lost = recall[r].lost \cup lost]
<1>1. recall' = [recall EXCEPT ![r] = new] /\ DOMAIN recall = Recalls
  BY DEF Recalled, AnswerInv, RInv
<1>2. /\ new.pc = "recalled" /\ new.contexts = contexts
      /\ new.flags = recall[r].flags \cup flags /\ new.lost = recall[r].lost \cup lost
  BY DEF Idle
<1> HIDE DEF new
<1>3. recall'[r] = new /\ \A q \in Recalls \ {r} : recall'[q] = recall[q]
  BY <1>1
<1>4. RecallShows(r)'
  BY <1>2, <1>3 DEF RecallShows, Reports
<1> QED
  BY <1>3, <1>4, StepShows

LEMMA HybridShows ==
  ASSUME AnswerInv, NEW r \in Recalls, RecallHybrid(r)
  PROVE  \A q \in Recalls : RecallShows(q)'
<1>1. recall[r].near \subseteq Docs /\ DOMAIN recall = Recalls
  BY DEF RecallHybrid, Joined, Searches, AnswerInv, RInv, RecallShows
<1>2. PICK k \in KeywordLists(r), v \in VectorLists(r) : \E fused \in RrfFuse(v, k) :
         recall' = [recall EXCEPT ![r] =
           [Idle EXCEPT !.pc = "recalled", !.contexts = fused,
                        !.keywordHits = k, !.vectorHits = v]]
  BY DEF RecallHybrid
<1>3. PICK fused \in RrfFuse(v, k) : recall' = [recall EXCEPT ![r] =
           [Idle EXCEPT !.pc = "recalled", !.contexts = fused,
                        !.keywordHits = k, !.vectorHits = v]]
  BY <1>2
<1>4. Once(k) /\ Once(v)
  BY <1>1, SearchListsOnce
<1>5. Once(fused)
  BY <1>4, FuseAgreed
<1> DEFINE new == [Idle EXCEPT !.pc = "recalled", !.contexts = fused,
                               !.keywordHits = k, !.vectorHits = v]
<1>6. /\ new.pc = "recalled" /\ new.contexts = fused /\ new.keywordHits = k
      /\ new.vectorHits = v /\ new.flags = {} /\ new.lost = {}
  BY DEF Idle
<1>7. recall' = [recall EXCEPT ![r] = new]
  BY <1>3
<1> HIDE DEF new
<1>8. recall'[r] = new /\ \A q \in Recalls \ {r} : recall'[q] = recall[q]
  BY <1>1, <1>7
<1>9. RecallShows(r)'
  BY <1>4, <1>5, <1>6, <1>8 DEF RecallShows, Reports, Fused
<1> QED
  BY <1>8, <1>9, StepShows

LEMMA DegradedShows ==
  ASSUME AnswerInv, NEW r \in Recalls, RecallKeywords(r) \/ RecallVector(r)
  PROVE  \A q \in Recalls : RecallShows(q)'
<1>1. recall[r].near \subseteq Docs /\ LeftOut(r)
  BY DEF RecallKeywords, RecallVector, Joined, Searches, AnswerInv, RecallShows
<1>2. RrfTopK \in Nat
  BY RetrievalAssumption
<1>3. ASSUME NEW k \in KeywordLists(r), Joined(r, "ok", "off"),
             Recalled(r, FirstOf(k, RrfTopK), {}, {})
      PROVE  \A q \in Recalls : RecallShows(q)'
  <2>1. Once(FirstOf(k, RrfTopK))
    BY <1>2, SearchListsOnce, FirstOfOnce
  <2>2. /\ recall[r].lost = {"vector"} /\ "retrieval" \in recall[r].flags
        /\ recall[r].flags \cap {"embedding", "qdrant"} # {} /\ "reranker" \notin recall[r].flags
    BY <1>1, <1>3 DEF LeftOut, Joined, Recalling
  <2>3. /\ Reports(recall[r].flags \cup {}, recall[r].lost \cup {})
        /\ "reranker" \notin recall[r].flags \cup {} /\ "order" \notin recall[r].lost \cup {}
        /\ recall[r].lost \cup {} # {}
    BY <2>2 DEF Reports
  <2> QED
    BY <1>3, <2>1, <2>3, RecalledShows
<1>4. ASSUME recall[r].vector # "off" PROVE recall[r].flags = {} /\ recall[r].lost = {}
  BY <1>1, <1>4 DEF LeftOut
<1>5. ASSUME NEW k \in KeywordLists(r), Joined(r, "ok", "failed"),
             Recalled(r, k, {"retrieval", "qdrant"}, {"vector"})
      PROVE  \A q \in Recalls : RecallShows(q)'
  <2>1. Once(k)
    BY SearchListsOnce
  <2>2. /\ recall[r].flags \cup {"retrieval", "qdrant"} = {"retrieval", "qdrant"}
        /\ recall[r].lost \cup {"vector"} = {"vector"}
    BY <1>4, <1>5 DEF Joined, Recalling
  <2>3. Reports({"retrieval", "qdrant"}, {"vector"})
    BY DEF Reports
  <2> QED
    BY <1>5, <2>1, <2>2, <2>3, RecalledShows
<1>6. ASSUME NEW v \in VectorLists(r), Joined(r, "failed", "ok"),
             Recalled(r, FirstOf(v, RrfTopK), VectorOnlyFlags, {"keywords"})
      PROVE  \A q \in Recalls : RecallShows(q)'
  <2>1. Once(FirstOf(v, RrfTopK))
    BY <1>1, <1>2, SearchListsOnce, FirstOfOnce
  <2>2. /\ recall[r].flags \cup VectorOnlyFlags = {"retrieval"}
        /\ recall[r].lost \cup {"keywords"} = {"keywords"}
    BY <1>4, <1>6 DEF Joined, Recalling, VectorOnlyFlags
  <2>3. Reports({"retrieval"}, {"keywords"})
    BY DEF Reports
  <2> QED
    BY <1>6, <2>1, <2>2, <2>3, RecalledShows
<1> QED
  BY <1>3, <1>5, <1>6 DEF RecallKeywords, RecallVector

LEMMA AnswerShows ==
  ASSUME AnswerInv, NEW r \in Recalls, AnswerReranked(r) \/ AnswerUnranked(r)
  PROVE  \A q \in Recalls : RecallShows(q)'
<1>1. /\ Once(recall[r].contexts) /\ Reports(recall[r].flags, recall[r].lost)
      /\ "reranker" \notin recall[r].flags /\ "order" \notin recall[r].lost
  BY DEF AnswerReranked, AnswerUnranked, AnswerInv, RecallShows
<1>2. PICK contexts, flags, lost :
        /\ Answers(r, contexts, flags, lost) /\ Once(contexts) /\ Len(contexts) <= FinalTopK
        /\ Reports(recall[r].flags \cup flags, recall[r].lost \cup lost)
  <2>1. CASE AnswerReranked(r)
    <3>1. PICK score \in SetToSeqs(DOMAIN recall[r].contexts) :
            Answers(r, Rerank(recall[r].contexts, score), {}, {})
      BY <2>1 DEF AnswerReranked
    <3>2. /\ Once(Rerank(recall[r].contexts, score))
          /\ Len(Rerank(recall[r].contexts, score)) <= FinalTopK
      BY <1>1, RerankOnce
    <3>3. Reports(recall[r].flags \cup {}, recall[r].lost \cup {})
      BY <1>1 DEF Reports
    <3> QED
      BY <3>1, <3>2, <3>3
  <2>2. CASE AnswerUnranked(r)
    <3> DEFINE cut == FirstOf(recall[r].contexts, FinalTopK)
    <3>1. Answers(r, cut, {"retrieval", "reranker"}, {"order"})
      BY <2>2 DEF AnswerUnranked
    <3>2. Once(cut) /\ Len(cut) <= FinalTopK
      BY <1>1, FirstOfOnce, RetrievalAssumption
    <3>3. Reports(recall[r].flags \cup {"retrieval", "reranker"}, recall[r].lost \cup {"order"})
      BY <1>1 DEF Reports
    <3> HIDE DEF cut
    <3> QED
      BY <3>1, <3>2, <3>3
  <2> QED
    BY <2>1, <2>2
<1> DEFINE f == [pc |-> "answered", contexts |-> contexts, keywordHits |-> <<>>,
                 vectorHits |-> <<>>, flags |-> recall[r].flags \cup flags,
                 lost |-> recall[r].lost \cup lost]
<1>3. DOMAIN f \subseteq Fields /\ To(r, f)
  BY <1>2 DEF Fields, Answers
<1>4. /\ {"pc", "contexts", "flags", "lost"} \subseteq DOMAIN f
      /\ f["pc"] = "answered" /\ f["contexts"] = contexts
      /\ f["flags"] = recall[r].flags \cup flags /\ f["lost"] = recall[r].lost \cup lost
  OBVIOUS
<1> HIDE DEF f
<1>5. /\ \A q \in Recalls \ {r} : recall'[q] = recall[q]
      /\ \A k \in Fields : recall'[r][k] = IF k \in DOMAIN f THEN f[k] ELSE recall[r][k]
  BY <1>3, ToFields DEF AnswerInv
<1>6. /\ recall'[r].pc = "answered" /\ recall'[r].contexts = contexts
      /\ recall'[r].flags = recall[r].flags \cup flags
      /\ recall'[r].lost = recall[r].lost \cup lost
  BY <1>4, <1>5 DEF Fields
<1>7. RecallShows(r)'
  BY <1>2, <1>6 DEF RecallShows, Reports
<1> QED
  BY <1>5, <1>7, StepShows

LEMMA IdleShows ==
  ASSUME AnswerInv, NEW r \in Recalls, recall' = [recall EXCEPT ![r] = Idle]
  PROVE  \A q \in Recalls : RecallShows(q)'
<1>1. DOMAIN recall = Recalls
  BY DEF AnswerInv, RInv
<1>2. recall'[r] = Idle /\ \A q \in Recalls \ {r} : recall'[q] = recall[q]
  BY <1>1
<1>3. RecallShows(r)'
  BY <1>2 DEF RecallShows, Idle
<1> QED
  BY <1>2, <1>3, StepShows

(* Every way through a recall owes its answer what it shows. *)
THEOREM AnswerInvariant == Spec => []AnswerInv
<1>1. Init => AnswerInv
  <2> SUFFICES ASSUME Init, NEW r \in Recalls PROVE RecallShows(r)
    BY InitRInv DEF AnswerInv
  <2>1. recall[r].pc = "idle"
    BY DEF Init, Idle
  <2> QED
    BY <2>1 DEF RecallShows
<1>2. AnswerInv /\ [Next]_vars => AnswerInv'
  <2> SUFFICES ASSUME AnswerInv, [Next]_vars PROVE \A q \in Recalls : RecallShows(q)'
    BY NextKeepsRInv DEF AnswerInv
  <2>1. ASSUME UNCHANGED recall PROVE \A q \in Recalls : RecallShows(q)'
    <3> SUFFICES ASSUME NEW q \in Recalls PROVE RecallShows(q)'
      OBVIOUS
    <3>1. RecallShows(q) /\ \A f \in Shown : recall'[q][f] = recall[q][f]
      BY <2>1 DEF AnswerInv
    <3> QED
      BY <3>1, SameShows
  <2>2. ASSUME NEW r \in Recalls, RecallStep(r) PROVE \A q \in Recalls : RecallShows(q)'
    <3>1. CASE MainStep(r)
      BY <3>1, HybridShows, DegradedShows, AnswerShows, IdleShows
      DEF MainStep, RecallFails, Forget
    <3> QED
      BY <2>2, <3>1, KeywordShows, VectorShows DEF RecallStep, VectorStep
  <2>3. ASSUME NEW r \in Recalls, Begin(r) PROVE \A q \in Recalls : RecallShows(q)'
    BY <2>3, BeginShows
  <2>4. CASE UNCHANGED vars
    BY <2>1, <2>4 DEF vars
  <2> QED
    BY <2>1, <2>2, <2>3, <2>4 DEF Next
<1> QED
  BY <1>1, <1>2, PTL DEF Spec

(* An answer shows no chunk twice and no more than were asked for, for lists of any        *)
(* length, any batch size of the reranker and whatever scores it gives.                    *)
THEOREM RetrievalShownOnce == Spec => []ShownOnce
<1>1. AnswerInv => ShownOnce
  BY DEF AnswerInv, RecallShows, Once, ShownOnce, IsInjective
<1> QED
  BY <1>1, AnswerInvariant, PTL

(* An answer says that it is degraded if and only if a search or the reranking was left    *)
(* out, and names the part.                                                                *)
THEOREM RetrievalDegradationReported == Spec => []DegradationReported
<1>1. AnswerInv => DegradationReported
  BY DEF AnswerInv, RecallShows, Reports, DegradationReported
<1> QED
  BY <1>1, AnswerInvariant, PTL

(* What both searches found among their first 61 comes before what only one of them found. *)
THEOREM RetrievalAgreedFirst == Spec => []AgreedFirst
<1>1. AnswerInv => AgreedFirst
  <2> SUFFICES ASSUME AnswerInv, NEW r \in Recalls,
                      recall[r].pc = "recalled", recall[r].lost = {},
                      NEW i \in DOMAIN recall[r].contexts, NEW j \in DOMAIN recall[r].contexts,
                      i < j, Contains(recall[r].keywordHits, recall[r].contexts[j]),
                      Contains(recall[r].vectorHits, recall[r].contexts[j]),
                      RankOf(recall[r].keywordHits, recall[r].contexts[j]) <= RankConstant + 1,
                      RankOf(recall[r].vectorHits, recall[r].contexts[j]) <= RankConstant + 1
               PROVE  /\ Contains(recall[r].keywordHits, recall[r].contexts[i])
                      /\ Contains(recall[r].vectorHits, recall[r].contexts[i])
    BY DEF AgreedFirst
  <2>1. Fused(r) /\ Once(recall[r].contexts)
    BY DEF AnswerInv, RecallShows
  <2>2. DOMAIN recall[r].contexts = 1..Len(recall[r].contexts)
    BY <2>1 DEF Once
  <2> QED
    BY <2>1, <2>2, FuseAgreed DEF Fused
<1> QED
  BY <1>1, AnswerInvariant, PTL
=============================================================================
