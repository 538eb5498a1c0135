----------------------------- MODULE CodeIndex -----------------------------
(***************************************************************************)
(* The code index of app/code_indexer.py: for each source file a row, its  *)
(* functions and the calls found in them in PostgreSQL, and one point for  *)
(* the file and one for each function in two Qdrant collections.           *)
(*                                                                         *)
(* A run is one POST /code/index of app/main.py, which an asyncio lock     *)
(* keeps apart from the others, or one scripts/index_code.py, which has no *)
(* lock.  It replaces the rows of all files in one transaction (READ       *)
(* COMMITTED), while Qdrant has no transactions: points are deleted file   *)
(* by file and stored after the commit.  A step is one statement or one    *)
(* call of Qdrant.  There is one repository; more of them are indexed one  *)
(* after the other, each the same way.                                     *)
(***************************************************************************)
EXTENDS Naturals, FiniteSets

CONSTANTS Files,        \* paths, as numbers in the order they are indexed in
          Versions,     \* contents a file may have; 0: there is no file
          Names,        \* qualified names of functions
          Callees,      \* what a call may be written as
          Symbols,      \* the functions of a file's content
          Calls,        \* its calls: the caller and what it calls
          Api, Cli,     \* requests and scripts that index
          Free,         \* nobody holds the lock
          MaxRuns, MaxEdits,
          MaxFailures   \* bounds

ASSUME CodeIndexAssumption ==
    /\ Files \subseteq Nat /\ IsFiniteSet(Files)
    /\ Versions \subseteq Nat \ {0} /\ 1 \in Versions
    /\ Symbols \in [Files -> [Versions -> SUBSET Names]]
    /\ Calls \in [Files -> [Versions -> SUBSET (Names \X Callees)]]
    /\ \A f \in Files, v \in Versions : \A c \in Calls[f][v] : c[1] \in Symbols[f][v]
    /\ Api \cap Cli = {} /\ Free \notin Api
    /\ MaxRuns \in Nat /\ MaxEdits \in Nat /\ MaxFailures \in Nat

VARIABLES
    tree,      \* the files on disk
    row,       \* code_files: the content each row was made from
    body,      \* code_functions: likewise; 0: no row
    edges,     \* code_call_edges of each file
    colls,     \* the Qdrant collections that exist
    filePts, fnPts,   \* their points: the content each was made from
    lock,      \* code_index_lock
    run,       \* the runs
    runs, edits, failures,
    failed     \* history: some run has ended with an error

pg     == <<row, body, edges>>
qdrant == <<colls, filePts, fnPts>>
bounds == <<runs, edits, failures>>
indexVars == <<tree, pg, qdrant, lock, run, bounds, failed>>

Procs   == Api \cup Cli
Content == Versions \cup {0}
Colls   == {"files", "functions"}
Idle    == [pc |-> "idle"]
NoFunctions == [n \in Names |-> 0]

\* A run has just indexed all files.
IndexInit ==
    /\ tree = [f \in Files |-> 1]
    /\ colls = Colls /\ row = tree
    /\ body = [f \in Files |-> [n \in Names |-> IF n \in Symbols[f][1] THEN 1 ELSE 0]]
    /\ edges = [f \in Files |-> Calls[f][1]]
    /\ filePts = row /\ fnPts = body
    /\ lock = Free /\ run = [p \in Procs |-> Idle]
    /\ runs = 0 /\ edits = 0 /\ failures = 0 /\ failed = FALSE

-----------------------------------------------------------------------------
Goto(p, label) == run' = [run EXCEPT ![p].pc = label]
Active(p) == run[p].pc \notin {"idle", "waiting"}

\* Files that p's transaction has deleted or written: others wait for them.
Held(p) == IF Active(p) THEN run[p].gone \cup run[p].put ELSE {}
HeldByOther(p, f) == \E q \in Procs \ {p} : f \in Held(q)

\* p waits for a row: to delete it or to write it.
Wants(p) == IF run[p].pc = "delete" THEN run[p].todo
            ELSE IF run[p].pc = "write" THEN {run[p].at} ELSE {}
WaitsFor(p, q) == Wants(p) \cap Held(q) # {}

\* A statement has begun p's transaction: TRUNCATE waits for its end.
InTransaction(p) ==
    \/ run[p].pc \in {"delete", "unfile", "unfunction", "write", "commit"}
    \/ run[p].pc = "row" /\ run[p].put # {}

Parsed(p) == {f \in Files : run[p].tree[f] # 0}
After(p, f) == {g \in Parsed(p) : g > f}
First(S) == CHOOSE f \in S : \A g \in S : f <= g

-----------------------------------------------------------------------------
\* code_index: the request waits for the lock.
Request(p) ==
    /\ p \in Api /\ run[p] = Idle /\ runs < MaxRuns
    /\ runs' = runs + 1
    /\ run' = [run EXCEPT ![p] = [pc |-> "waiting"]]
    /\ UNCHANGED <<tree, pg, qdrant, lock, edits, failures, failed>>

\* index_repositories begins; "alone" remembers whether another run was under way.
Begin(p, mode) ==
    run' = [q \in Procs |->
      IF q = p THEN [pc |-> "list", mode |-> mode, cleared |-> FALSE,
                     need |-> {}, seen |-> {}, tree |-> [f \in Files |-> 0], at |-> 0,
                     todo |-> {}, gone |-> {}, put |-> {},
                     alone |-> \A r \in Procs \ {p} : ~Active(r)]
      ELSE IF Active(q) THEN [run[q] EXCEPT !.alone = FALSE] ELSE run[q]]

Acquire(p) ==
    /\ run[p].pc = "waiting" /\ lock = Free
    /\ lock' = p
    /\ \E mode \in {"update", "rebuild"} : Begin(p, mode)
    /\ UNCHANGED <<tree, pg, qdrant, bounds, failed>>

StartScript(p) ==
    /\ p \in Cli /\ run[p] = Idle /\ runs < MaxRuns
    /\ runs' = runs + 1
    /\ \E mode \in {"update", "recreate"} : Begin(p, mode)
    /\ UNCHANGED <<tree, pg, qdrant, lock, edits, failures, failed>>

\* ensure_collections reads the collections once ...
Ensured(p) == CASE run[p].mode = "recreate" -> "truncate"
                [] run[p].mode = "rebuild" -> "wipefiles"
                [] run[p].mode = "update" -> "parse"

ListCollections(p) ==
    /\ run[p].pc = "list"
    /\ LET need == IF run[p].mode = "recreate" THEN Colls ELSE Colls \ colls IN
       run' = [run EXCEPT ![p].seen = colls, ![p].need = need,
                          ![p].pc = IF need = {} THEN Ensured(p) ELSE "ensure"]
    /\ UNCHANGED <<tree, pg, qdrant, lock, bounds, failed>>

\* ... then drops the ones to make again, and creates those it did not see, the
\* files' first.
Need(p) == IF "files" \in run[p].need THEN "files" ELSE "functions"

DropCollection(p) ==
    /\ run[p].pc = "ensure" /\ Need(p) \in run[p].seen
    /\ run' = [run EXCEPT ![p].seen = @ \ {Need(p)}]
    /\ colls' = colls \ {Need(p)}
    /\ IF Need(p) = "files"
       THEN filePts' = [f \in Files |-> 0] /\ UNCHANGED fnPts
       ELSE fnPts' = [f \in Files |-> NoFunctions] /\ UNCHANGED filePts
    /\ UNCHANGED <<tree, pg, lock, bounds, failed>>

CreateCollection(p) ==
    /\ run[p].pc = "ensure" /\ Need(p) \notin run[p].seen /\ Need(p) \notin colls
    /\ colls' = colls \cup {Need(p)}
    /\ LET rest == run[p].need \ {Need(p)} IN
       run' = [run EXCEPT ![p].need = rest,
                          ![p].pc = IF rest = {} THEN Ensured(p) ELSE @]
    /\ UNCHANGED <<tree, pg, filePts, fnPts, lock, bounds, failed>>

\* _clear_postgres_tables.  index_repositories then indexes as an update does, which
\* ensures the collections once more.
Cleared(p) == run' = [run EXCEPT ![p].pc = "list", ![p].mode = "update", ![p].cleared = TRUE,
                                 ![p].gone = {}]

Truncate(p) ==
    /\ run[p].pc = "truncate" /\ \A q \in Procs \ {p} : ~InTransaction(q)
    /\ row' = [f \in Files |-> 0] /\ body' = [f \in Files |-> NoFunctions]
    /\ edges' = [f \in Files |-> {}]
    /\ Cleared(p)
    /\ UNCHANGED <<tree, qdrant, lock, bounds, failed>>

\* _delete_repository_index: the points of both collections, then the rows.
WipePoints(p) ==
    /\ \/ /\ run[p].pc = "wipefiles" /\ "files" \in colls
          /\ filePts' = [f \in Files |-> 0] /\ UNCHANGED fnPts
          /\ Goto(p, "wipefunctions")
       \/ /\ run[p].pc = "wipefunctions" /\ "functions" \in colls
          /\ fnPts' = [f \in Files |-> NoFunctions] /\ UNCHANGED filePts
          /\ Goto(p, "row")
    /\ UNCHANGED <<tree, pg, colls, lock, bounds, failed>>

\* index_source_tree reads and parses the files; with none it is done.
Parse(p) ==
    /\ run[p].pc = "parse"
    /\ LET found == {f \in Files : tree[f] # 0} IN
       run' = [run EXCEPT ![p].tree = tree,
                          ![p].at = IF found = {} THEN 0 ELSE First(found),
                          ![p].pc = IF found = {} THEN "done" ELSE "row"]
    /\ UNCHANGED <<tree, pg, qdrant, lock, bounds, failed>>

-----------------------------------------------------------------------------
\* A DELETE of the rows it finds when it starts: all of the repository's, or those
\* of the file whose turn it is.
Deleted(p) == IF run[p].mode = "rebuild" THEN "commit" ELSE "unfile"

StartDelete(p) ==
    /\ run[p].pc = "row"
    /\ LET rows == {f \in Files : row[f] # 0 /\ (run[p].mode = "rebuild" \/ f = run[p].at)}
       IN  run' = [run EXCEPT ![p].todo = rows \ run[p].gone,
                              ![p].pc = IF rows = {} THEN Deleted(p) ELSE "delete"]
    /\ UNCHANGED <<tree, pg, qdrant, lock, bounds, failed>>

\* It waits for a row that another transaction has changed.
DeleteRow(p, f) ==
    /\ run[p].pc = "delete" /\ f \in run[p].todo /\ ~HeldByOther(p, f)
    /\ run' = [run EXCEPT ![p].gone = @ \cup {f}, ![p].todo = @ \ {f},
                          ![p].pc = IF run[p].todo = {f} THEN Deleted(p) ELSE @]
    /\ UNCHANGED <<tree, pg, qdrant, lock, bounds, failed>>

\* _delete_qdrant_file_points
Unindex(p) ==
    /\ \/ /\ run[p].pc = "unfile" /\ "files" \in colls
          /\ filePts' = [filePts EXCEPT ![run[p].at] = 0] /\ UNCHANGED fnPts
          /\ Goto(p, "unfunction")
       \/ /\ run[p].pc = "unfunction" /\ "functions" \in colls
          /\ fnPts' = [fnPts EXCEPT ![run[p].at] = NoFunctions] /\ UNCHANGED filePts
          /\ Goto(p, "write")
    /\ UNCHANGED <<tree, pg, colls, lock, bounds, failed>>

\* _upsert_file, _upsert_functions and _upsert_call_edges: INSERT ... ON CONFLICT, which
\* waits for another transaction that has inserted or changed the same row.
WriteFile(p) ==
    /\ run[p].pc = "write" /\ ~HeldByOther(p, run[p].at)
    /\ LET f == run[p].at IN
       run' = [run EXCEPT ![p].put = @ \cup {f},
                          ![p].at = IF After(p, f) = {} THEN 0 ELSE First(After(p, f)),
                          ![p].pc = IF After(p, f) = {} THEN "commit" ELSE "row"]
    /\ UNCHANGED <<tree, pg, qdrant, lock, bounds, failed>>

\* What the transaction makes of a file: functions and calls go with a deleted row
\* (ON DELETE CASCADE) and stay beside the new ones when the row is only updated.
\* A function is known here by its file and name.  The id of the code also has its
\* kind and lines, so a moved function is another row and point there, and overlapping
\* runs may leave both: the run that commits last still stores its own afterwards.
NoneDeleted(p, f, old, none) == old
Kept(p, f, old, none) == IF f \in run[p].gone THEN none ELSE old

NewRow(p, f) == IF f \in run[p].put THEN run[p].tree[f] ELSE Kept(p, f, row[f], 0)
NewBody(p, f) ==
    LET old == Kept(p, f, body[f], NoFunctions) IN
    IF f \in run[p].put
    THEN [n \in Names |-> IF n \in Symbols[f][run[p].tree[f]] THEN run[p].tree[f] ELSE old[n]]
    ELSE old
NewEdgesNoCascade(p, f) ==
    edges[f] \cup IF f \in run[p].put THEN Calls[f][run[p].tree[f]] ELSE {}
NewEdges(p, f) ==
    Kept(p, f, edges[f], {}) \cup IF f \in run[p].put THEN Calls[f][run[p].tree[f]] ELSE {}

\* A DELETE that was waiting for a row this transaction has deleted passes over it.
Commit(p) ==
    /\ run[p].pc = "commit"
    /\ row' = [f \in Files |-> NewRow(p, f)]
    /\ body' = [f \in Files |-> NewBody(p, f)]
    /\ edges' = [f \in Files |-> NewEdges(p, f)]
    /\ run' = [q \in Procs |->
         IF q = p
         THEN IF run[p].mode = "rebuild"
              THEN [run[p] EXCEPT !.pc = "list", !.mode = "update", !.cleared = TRUE, !.gone = {}]
              ELSE [run[p] EXCEPT !.pc = "storefiles", !.gone = {}, !.put = {}]
         ELSE IF run[q].pc = "delete"
         THEN [run[q] EXCEPT !.todo = @ \ run[p].gone,
                             !.pc = IF run[q].todo \subseteq run[p].gone THEN Deleted(q) ELSE @]
         ELSE run[q]]
    /\ UNCHANGED <<tree, qdrant, lock, bounds, failed>>

\* _upsert_points of the files, then of the functions: all batches of them.
FullBatches(S) == {f \in S : \E g \in S : g > f}
AllBatches(S) == S

StorePoints(p) ==
    /\ \/ /\ run[p].pc = "storefiles" /\ "files" \in colls
          /\ filePts' = [f \in Files |-> IF f \in AllBatches(Parsed(p)) THEN run[p].tree[f] ELSE filePts[f]]
          /\ UNCHANGED fnPts
          /\ Goto(p, "storefunctions")
       \/ /\ run[p].pc = "storefunctions" /\ "functions" \in colls
          /\ fnPts' = [f \in Files |-> [n \in Names |->
                 IF f \in AllBatches(Parsed(p)) /\ n \in Symbols[f][run[p].tree[f]]
                 THEN run[p].tree[f] ELSE fnPts[f][n]]]
          /\ UNCHANGED filePts
          /\ Goto(p, "done")
    /\ UNCHANGED <<tree, pg, colls, lock, bounds, failed>>

-----------------------------------------------------------------------------
\* The run is over; "async with" gives the lock back, also after an error.
Release(p) == lock' = IF lock = p THEN Free ELSE lock

End(p) ==
    /\ run[p].pc = "done"
    /\ run' = [run EXCEPT ![p] = Idle] /\ Release(p)
    /\ UNCHANGED <<tree, pg, qdrant, bounds, failed>>

\* An error ends the run: its transaction is rolled back, its points stay as they are.
Abort(p) ==
    /\ run' = [run EXCEPT ![p] = Idle] /\ Release(p) /\ failed' = TRUE
    /\ UNCHANGED <<tree, pg, qdrant, runs, edits>>

\* A file, the model, PostgreSQL or Qdrant fails, or the process is killed.
Fail(p) ==
    /\ Active(p) /\ run[p].pc # "done" /\ failures < MaxFailures
    /\ failures' = failures + 1
    /\ Abort(p)

\* Qdrant refuses to create a collection that another run has created since, or to
\* touch one that another run has dropped.
CollectionError(p) ==
    /\ \/ run[p].pc = "ensure" /\ Need(p) \notin run[p].seen /\ Need(p) \in colls
       \/ run[p].pc \in {"wipefiles", "unfile", "storefiles"} /\ "files" \notin colls
       \/ run[p].pc \in {"wipefunctions", "unfunction", "storefunctions"} /\ "functions" \notin colls
    /\ UNCHANGED failures /\ Abort(p)

\* PostgreSQL ends one of two transactions that wait for each other.
Deadlock(p) ==
    /\ \E q \in Procs \ {p} : WaitsFor(p, q) /\ WaitsFor(q, p)
    /\ UNCHANGED failures /\ Abort(p)

\* A file is written or removed.
Edit(f) ==
    /\ edits < MaxEdits
    /\ edits' = edits + 1
    /\ \E v \in Content \ {tree[f]} : tree' = [tree EXCEPT ![f] = v]
    /\ UNCHANGED <<pg, qdrant, lock, run, runs, failures, failed>>

RunStep(p) ==
    \/ ListCollections(p) \/ DropCollection(p) \/ CreateCollection(p) \/ Truncate(p)
    \/ WipePoints(p) \/ Parse(p) \/ StartDelete(p) \/ \E f \in Files : DeleteRow(p, f)
    \/ Unindex(p) \/ WriteFile(p) \/ Commit(p) \/ StorePoints(p) \/ End(p)
    \/ CollectionError(p) \/ Deadlock(p)

IndexNext ==
    \/ \E p \in Procs : Request(p) \/ Acquire(p) \/ StartScript(p) \/ RunStep(p) \/ Fail(p)
    \/ \E f \in Files : Edit(f)

IndexSpec == IndexInit /\ [][IndexNext]_indexVars

-----------------------------------------------------------------------------
\* Types, and the foreign keys: no function and no call without its file's row.
TypeOK ==
    /\ tree \in [Files -> Content] /\ row \in [Files -> Content]
    /\ body \in [Files -> [Names -> Content]]
    /\ edges \in [Files -> SUBSET (Names \X Callees)]
    /\ \A f \in Files :
         /\ row[f] = 0 => body[f] = NoFunctions /\ edges[f] = {}
         /\ \A e \in edges[f] : body[f][e[1]] # 0
    /\ colls \subseteq Colls
    /\ filePts \in [Files -> Content] /\ fnPts \in [Files -> [Names -> Content]]
    /\ ("files" \notin colls => \A f \in Files : filePts[f] = 0)
    /\ ("functions" \notin colls => \A f \in Files : fnPts[f] = NoFunctions)
    /\ lock \in Api \cup {Free} /\ failed \in BOOLEAN
    /\ runs \in 0..MaxRuns /\ edits \in 0..MaxEdits /\ failures \in 0..MaxFailures

\* However requests and scripts overlap: once nobody is indexing and as long as no
\* run has failed, every file in PostgreSQL and every function of its content can be
\* found in Qdrant, though each run deletes and stores points outside its transaction.
IndexedIsFindable ==
    ~failed /\ (\A p \in Procs : ~Active(p)) =>
      \A f \in Files : row[f] # 0 =>
        filePts[f] # 0 /\ \A n \in Symbols[f][row[f]] : fnPts[f][n] # 0

\* A run that nothing overlapped repairs whatever earlier overlapping, failed or killed
\* runs left: both stores agree with the files it read and, after a rebuild or
\* --recreate, hold nothing else.
Matches(p, f) ==
    LET v == run[p].tree[f]
        functions == [n \in Names |-> IF v # 0 /\ n \in Symbols[f][v] THEN v ELSE 0] IN
    /\ row[f] = v /\ filePts[f] = v
    /\ body[f] = functions /\ fnPts[f] = functions
    /\ edges[f] = IF v = 0 THEN {} ELSE Calls[f][v]

RunRepairs ==
    \A p \in Procs : run[p].pc = "done" /\ run[p].alone =>
      \A f \in Files : f \in Parsed(p) \/ run[p].cleared => Matches(p, f)
=============================================================================
