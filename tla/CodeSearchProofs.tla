-------------------------- MODULE CodeSearchProofs --------------------------
(***************************************************************************)
(* The code index and the questions to it, for any number of files,        *)
(* requests and scripts.  IndexInv is the invariant of the runs: what a    *)
(* run still owes to Qdrant (Owed), what a run that nothing overlapped has  *)
(* made of both stores so far (Lone), and where a run may be (RunsInv).    *)
(* Each step of a run has a lemma for each part it can disturb.  SearchInv *)
(* adds what a question carries from one look at the stores to the next.   *)
(***************************************************************************)
EXTENDS CodeSearch, FiniteSetTheorems, WellFoundedInduction, TLAPS

Labels == {"list", "ensure", "truncate", "wipefiles", "wipefunctions", "parse", "row", "delete",
           "unfile", "unfunction", "write", "commit", "storefiles", "storefunctions", "done"}
Runs == [pc : Labels, mode : {"update", "rebuild", "recreate"}, cleared : BOOLEAN,
         need : SUBSET Colls, seen : SUBSET Colls, tree : [Files -> Content], at : Files \cup {0},
         todo : SUBSET Files, gone : SUBSET Files, put : SUBSET Files, alone : BOOLEAN]

(* What a run may be doing. *)
RunTyped ==
    /\ run \in [Procs -> {Idle, [pc |-> "waiting"]} \cup Runs]
    /\ \A p \in Procs : run[p].pc = "waiting" => p \in Api

(* Which steps belong to which mode, and what a run holds at them. *)
InFile(r) == r.mode = "update" /\ r.pc \in {"row", "delete", "unfile", "unfunction", "write"}
Found(r) == {f \in Files : r.tree[f] # 0}
Phases(r) ==
    /\ r.pc \in {"parse", "unfile", "unfunction", "write", "storefiles", "storefunctions", "done"}
         => r.mode = "update"
    /\ r.pc \in {"wipefiles", "wipefunctions"} => r.mode = "rebuild"
    /\ r.pc = "truncate" => r.mode = "recreate" /\ r.need = {}
    /\ r.pc \in {"row", "delete", "commit"} => r.mode # "recreate"
    /\ r.pc = "ensure" => r.need # {} /\ (r.mode # "recreate" => r.need \cap r.seen = {})
    /\ r.cleared => r.mode = "update"
    /\ r.put \subseteq Found(r) /\ (r.put # {} => r.mode = "update" /\ (InFile(r) \/ r.pc = "commit"))
    /\ InFile(r) => r.at \in Found(r) /\ \A f \in Found(r) : f \in r.put \/ r.at <= f
    /\ InFile(r) /\ r.pc = "delete" => r.todo \subseteq {r.at}
    /\ r.mode = "update" /\ r.pc = "commit" => Found(r) \subseteq r.put

(* The run will clear the row of f, or has just found it among those to delete. *)
Clears(r, f) ==
    \/ r.mode = "recreate" /\ r.pc \in {"ensure", "truncate"}
    \/ r.mode = "rebuild" /\ \/ r.pc = "row"
                             \/ r.pc = "delete" /\ f \in r.todo \cup r.gone
                             \/ r.pc = "commit" /\ f \in r.gone
OwesFile(r, f) ==
    \/ Clears(r, f) \/ r.pc = "wipefunctions"
    \/ f \in r.put
    \/ r.pc \in {"unfunction", "write"} /\ r.at = f
    \/ r.pc = "storefiles" /\ f \in Found(r)
OwesFunctions(r, f) ==
    \/ Clears(r, f)
    \/ f \in r.put
    \/ r.pc = "write" /\ r.at = f
    \/ r.pc \in {"storefiles", "storefunctions"} /\ f \in Found(r) /\ r.tree[f] = row[f]

(* A file that is in PostgreSQL and not in Qdrant is owed by a run that has not ended. *)
Owed == ~failed => \A f \in Files : row[f] # 0 =>
          /\ filePts[f] # 0 \/ \E p \in Procs : Active(p) /\ OwesFile(run[p], f)
          /\ \A n \in Symbols[f][row[f]] :
               fnPts[f][n] # 0 \/ \E p \in Procs : Active(p) /\ OwesFunctions(run[p], f)

(* A row in PostgreSQL has the functions of its content. *)
Whole == \A f \in Files : row[f] # 0 => \A n \in Symbols[f][row[f]] : body[f][n] # 0

(* What a run that nothing overlapped has made of both stores so far. *)
Empty(f) == row[f] = 0 /\ filePts[f] = 0 /\ fnPts[f] = NoFunctions
FunctionsOf(r, f) ==
    [n \in Names |-> IF r.tree[f] # 0 /\ n \in Symbols[f][r.tree[f]] THEN r.tree[f] ELSE 0]
Made(r) ==
    /\ r.mode = "recreate" /\ r.pc \in {"ensure", "truncate"} =>
         /\ "files" \notin r.need \cap r.seen => \A f \in Files : filePts[f] = 0
         /\ "functions" \notin r.need \cap r.seen => \A f \in Files : fnPts[f] = NoFunctions
    /\ r.mode = "rebuild" /\ r.pc \in {"wipefunctions", "row", "delete", "commit"} =>
         \A f \in Files : filePts[f] = 0
    /\ r.mode = "rebuild" /\ r.pc \in {"row", "delete", "commit"} =>
         \A f \in Files : fnPts[f] = NoFunctions /\ (r.pc # "row" /\ row[f] # 0 => Clears(r, f))
    /\ r.cleared /\ r.pc \notin {"storefiles", "storefunctions", "done"} => \A f \in Files : Empty(f)
    /\ \A f \in r.put : filePts[f] = 0 /\ fnPts[f] = NoFunctions /\ (row[f] = 0 \/ f \in r.gone)
    /\ r.pc \in {"unfile", "unfunction", "write"} => row[r.at] = 0 \/ r.at \in r.gone
    /\ r.pc \in {"unfunction", "write"} => filePts[r.at] = 0
    /\ r.pc = "write" => fnPts[r.at] = NoFunctions
    /\ r.pc \in {"storefiles", "storefunctions", "done"} =>
         \A f \in Files : f \in Found(r) \/ r.cleared =>
           /\ row[f] = r.tree[f] /\ body[f] = FunctionsOf(r, f)
           /\ edges[f] = IF r.tree[f] = 0 THEN {} ELSE Calls[f][r.tree[f]]
           /\ filePts[f] = (IF r.pc = "storefiles" THEN 0 ELSE r.tree[f])
           /\ fnPts[f] = IF r.pc = "done" THEN FunctionsOf(r, f) ELSE NoFunctions
Lone == \A p \in Procs : Active(p) /\ run[p].alone =>
          Made(run[p]) /\ \A q \in Procs \ {p} : ~Active(q)

RunsInv == RunTyped /\ \A p \in Procs : Active(p) => Phases(run[p])
IndexInv == TypeOK /\ Whole /\ RunsInv /\ Owed /\ Lone

-----------------------------------------------------------------------------
(* p takes a step of its run; the other runs do not move. *)
Moves(p, from, to) ==
    /\ run[p] \in Runs /\ run[p].pc = from /\ run'[p] \in Runs /\ run'[p].pc = to
    /\ RunTyped' /\ \A q \in Procs \ {p} : run'[q] = run[q]
-----------------------------------------------------------------------------
(* A nonempty set of numbers has a least one. *)
LEMMA FirstIsLeast ==
  ASSUME NEW T \in SUBSET Nat, T # {}
  PROVE  First(T) \in T /\ \A f \in T : First(T) <= f
<1>1. PICK x \in T : \A y \in T : ~(<<y, x>> \in OpToRel(<, Nat))
  BY NatLessThanWellFounded, WFMin, Zenon
<1>2. \A y \in T : ~(y < x)
  BY <1>1, Zenon DEF OpToRel
<1>3. \A y \in T : x <= y
  BY <1>2
<1> QED
  BY <1>1, <1>3, Zenon DEF First

(* What a file may contain. *)
LEMMA Contents ==
  ASSUME NEW f \in Files, NEW v \in Versions
  PROVE  /\ v # 0 /\ Symbols[f][v] \subseteq Names /\ Calls[f][v] \subseteq Names \X Callees
         /\ \A c \in Calls[f][v] : c[1] \in Symbols[f][v]
<1>1. Symbols[f] \in [Versions -> SUBSET Names]
  BY CodeIndexAssumption
<1>2. Calls[f] \in [Versions -> SUBSET (Names \X Callees)]
  BY CodeIndexAssumption
<1>3. v # 0
  BY CodeIndexAssumption
<1> QED
  BY <1>1, <1>2, <1>3, CodeIndexAssumption

(* A run that is at a step of its own is a run. *)
LEMMA AtLabel ==
  ASSUME RunTyped, NEW p \in Procs, run[p].pc \in Labels
  PROVE  run[p] \in Runs
BY DEF RunTyped, Idle, Labels

(* The run of p is replaced by r. *)
LEMMA Replaced ==
  ASSUME RunTyped, NEW p \in Procs, run[p] \in Runs, NEW r \in Runs, run' = [run EXCEPT ![p] = r]
  PROVE  Moves(p, run[p].pc, r.pc) /\ run'[p] = r
<1>1. run'[p] = r /\ \A q \in Procs \ {p} : run'[q] = run[q]
  BY DEF RunTyped
<1>2. run' \in [Procs -> {Idle, [pc |-> "waiting"]} \cup Runs]
  BY DEF RunTyped
<1>3. r.pc # "waiting"
  BY DEF Runs, Labels
<1> QED
  BY <1>1, <1>2, <1>3 DEF Moves, RunTyped

(* What each step of a run makes of its own record (the lemmas named ...Moves). *)
LEMMA GotoMoves ==
  ASSUME RunTyped, NEW p \in Procs, run[p].pc \in Labels, NEW to \in Labels, Goto(p, to)
  PROVE  Moves(p, run[p].pc, to) /\ run'[p] = [run[p] EXCEPT !.pc = to]
<1>1. run[p] \in Runs
  BY AtLabel
<1>2. [run[p] EXCEPT !.pc = to] \in Runs /\ [run[p] EXCEPT !.pc = to].pc = to
  BY <1>1 DEF Runs
<1>3. run' = [run EXCEPT ![p] = [run[p] EXCEPT !.pc = to]]
  BY <1>1 DEF Goto, RunTyped
<1> QED
  BY <1>1, <1>2, <1>3, Replaced

LEMMA ListMoves ==
  ASSUME TypeOK, RunTyped, NEW p \in Procs, ListCollections(p)
  PROVE  LET need == IF run[p].mode = "recreate" THEN Colls ELSE Colls \ colls
             to == IF need = {} THEN Ensured(p) ELSE "ensure" IN
         /\ Moves(p, "list", to)
         /\ run'[p] = [run[p] EXCEPT !.seen = colls, !.need = need, !.pc = to]
<1> DEFINE need == IF run[p].mode = "recreate" THEN Colls ELSE Colls \ colls
           to == IF need = {} THEN Ensured(p) ELSE "ensure"
           r == [run[p] EXCEPT !.seen = colls, !.need = need, !.pc = to]
<1>1. run[p].pc = "list" /\ run[p] \in Runs
  BY AtLabel DEF ListCollections, Labels
<1>2. to \in Labels /\ need \subseteq Colls /\ colls \subseteq Colls
  BY <1>1 DEF Ensured, Labels, Runs, TypeOK
<1>3. run' = [run EXCEPT ![p].seen = colls, ![p].need = need, ![p].pc = to]
  BY DEF ListCollections
<1> HIDE DEF need, to
<1>4. r \in Runs /\ r.pc = to
  BY <1>1, <1>2 DEF Runs
<1>5. run' = [run EXCEPT ![p] = r]
  BY <1>1, <1>3 DEF RunTyped
<1>6. Moves(p, "list", to) /\ run'[p] = r
  <2> HIDE DEF r
  <2> QED
    BY <1>1, <1>4, <1>5, Replaced
<1> QED
  BY <1>6 DEF need, to

LEMMA DropMoves ==
  ASSUME RunTyped, NEW p \in Procs, DropCollection(p)
  PROVE  /\ Moves(p, "ensure", "ensure")
         /\ run'[p] = [run[p] EXCEPT !.seen = run[p].seen \ {Need(p)}]
<1> DEFINE r == [run[p] EXCEPT !.seen = run[p].seen \ {Need(p)}]
<1>1. run[p].pc = "ensure" /\ run[p] \in Runs
  BY AtLabel DEF DropCollection, Labels
<1>2. r \in Runs /\ r.pc = "ensure"
  BY <1>1 DEF Runs
<1>3. run' = [run EXCEPT ![p] = r]
  BY <1>1 DEF DropCollection, RunTyped
<1>4. Moves(p, "ensure", "ensure") /\ run'[p] = r
  <2> HIDE DEF r
  <2> QED
    BY <1>1, <1>2, <1>3, Replaced
<1> QED
  BY <1>4

LEMMA CreateMoves ==
  ASSUME RunTyped, NEW p \in Procs, CreateCollection(p)
  PROVE  LET rest == run[p].need \ {Need(p)}
             to == IF rest = {} THEN Ensured(p) ELSE "ensure" IN
         /\ Moves(p, "ensure", to)
         /\ run'[p] = [run[p] EXCEPT !.need = rest, !.pc = to]
<1> DEFINE rest == run[p].need \ {Need(p)}
           to == IF rest = {} THEN Ensured(p) ELSE "ensure"
           r == [run[p] EXCEPT !.need = rest, !.pc = to]
<1>1. run[p].pc = "ensure" /\ run[p] \in Runs
  BY AtLabel DEF CreateCollection, Labels
<1>2. to \in Labels /\ rest \subseteq Colls
  BY <1>1 DEF Ensured, Labels, Runs
<1>3. run' = [run EXCEPT ![p].need = rest, ![p].pc = IF rest = {} THEN Ensured(p) ELSE @]
  BY DEF CreateCollection
<1>4. run' = [run EXCEPT ![p] = r]
  BY <1>1, <1>3 DEF RunTyped, Runs
<1> HIDE DEF rest, to
<1>5. r \in Runs /\ r.pc = to
  BY <1>1, <1>2 DEF Runs
<1>6. Moves(p, "ensure", to) /\ run'[p] = r
  <2> HIDE DEF r
  <2> QED
    BY <1>1, <1>4, <1>5, Replaced
<1> QED
  BY <1>6 DEF rest, to

LEMMA TruncateMoves ==
  ASSUME RunTyped, NEW p \in Procs, Truncate(p)
  PROVE  /\ Moves(p, "truncate", "list")
         /\ run'[p] = [run[p] EXCEPT !.pc = "list", !.mode = "update", !.cleared = TRUE, !.gone = {}]
<1> DEFINE r == [run[p] EXCEPT !.pc = "list", !.mode = "update", !.cleared = TRUE, !.gone = {}]
<1>1. run[p].pc = "truncate" /\ run[p] \in Runs
  BY AtLabel DEF Truncate, Labels
<1>2. r \in Runs /\ r.pc = "list"
  BY <1>1 DEF Runs, Labels
<1>3. run' = [run EXCEPT ![p] = r]
  BY <1>1 DEF Truncate, Cleared, RunTyped
<1>4. Moves(p, "truncate", "list") /\ run'[p] = r
  <2> HIDE DEF r
  <2> QED
    BY <1>1, <1>2, <1>3, Replaced
<1> QED
  BY <1>4

LEMMA ParseMoves ==
  ASSUME TypeOK, RunTyped, NEW p \in Procs, Parse(p)
  PROVE  LET found == {f \in Files : tree[f] # 0}
             at == IF found = {} THEN 0 ELSE First(found)
             to == IF found = {} THEN "done" ELSE "row" IN
         /\ Moves(p, "parse", to)
         /\ run'[p] = [run[p] EXCEPT !.tree = tree, !.at = at, !.pc = to]
<1> DEFINE found == {f \in Files : tree[f] # 0}
           at == IF found = {} THEN 0 ELSE First(found)
           to == IF found = {} THEN "done" ELSE "row"
           r == [run[p] EXCEPT !.tree = tree, !.at = at, !.pc = to]
<1>1. run[p].pc = "parse" /\ run[p] \in Runs
  BY AtLabel DEF Parse, Labels
<1>2. to \in Labels /\ at \in Files \cup {0}
  BY FirstIsLeast, CodeIndexAssumption DEF Labels
<1>3. run' = [run EXCEPT ![p].tree = tree, ![p].at = at, ![p].pc = to]
  BY DEF Parse
<1> HIDE DEF at, to
<1>4. run' = [run EXCEPT ![p] = r]
  BY <1>1, <1>3 DEF RunTyped
<1>5. r \in Runs /\ r.pc = to
  BY <1>1, <1>2 DEF Runs, TypeOK
<1>6. Moves(p, "parse", to) /\ run'[p] = r
  <2> HIDE DEF r
  <2> QED
    BY <1>1, <1>4, <1>5, Replaced
<1> QED
  BY <1>6 DEF at, to

LEMMA StartDeleteMoves ==
  ASSUME RunTyped, NEW p \in Procs, StartDelete(p)
  PROVE  LET rows == {f \in Files : row[f] # 0 /\ (run[p].mode = "rebuild" \/ f = run[p].at)}
             to == IF rows = {} THEN Deleted(p) ELSE "delete" IN
         /\ Moves(p, "row", to)
         /\ run'[p] = [run[p] EXCEPT !.todo = rows \ run[p].gone, !.pc = to]
<1> DEFINE rows == {f \in Files : row[f] # 0 /\ (run[p].mode = "rebuild" \/ f = run[p].at)}
           to == IF rows = {} THEN Deleted(p) ELSE "delete"
           r == [run[p] EXCEPT !.todo = rows \ run[p].gone, !.pc = to]
<1>1. run[p].pc = "row" /\ run[p] \in Runs
  BY AtLabel DEF StartDelete, Labels
<1>2. to \in Labels /\ rows \subseteq Files
  BY DEF Labels, Deleted
<1>3. run' = [run EXCEPT ![p].todo = rows \ run[p].gone, ![p].pc = to]
  BY DEF StartDelete
<1> HIDE DEF rows, to
<1>4. run' = [run EXCEPT ![p] = r]
  BY <1>1, <1>3 DEF RunTyped
<1>5. r \in Runs /\ r.pc = to
  BY <1>1, <1>2 DEF Runs
<1>6. Moves(p, "row", to) /\ run'[p] = r
  <2> HIDE DEF r
  <2> QED
    BY <1>1, <1>4, <1>5, Replaced
<1> QED
  BY <1>6 DEF rows, to

LEMMA DeleteRowMoves ==
  ASSUME RunTyped, NEW p \in Procs, NEW f \in Files, DeleteRow(p, f)
  PROVE  LET to == IF run[p].todo = {f} THEN Deleted(p) ELSE "delete" IN
         /\ Moves(p, "delete", to)
         /\ run'[p] = [run[p] EXCEPT !.gone = run[p].gone \cup {f}, !.todo = run[p].todo \ {f}, !.pc = to]
<1> DEFINE to == IF run[p].todo = {f} THEN Deleted(p) ELSE "delete"
           r == [run[p] EXCEPT !.gone = run[p].gone \cup {f}, !.todo = run[p].todo \ {f}, !.pc = to]
<1>1. run[p].pc = "delete" /\ run[p] \in Runs
  BY AtLabel DEF DeleteRow, Labels
<1>2. to \in Labels
  BY DEF Labels, Deleted
<1>3. run' = [run EXCEPT ![p].gone = @ \cup {f}, ![p].todo = @ \ {f},
                         ![p].pc = IF run[p].todo = {f} THEN Deleted(p) ELSE @]
  BY DEF DeleteRow
<1>4. run' = [run EXCEPT ![p] = r]
  BY <1>1, <1>3 DEF RunTyped, Runs
<1> HIDE DEF to
<1>5. r \in Runs /\ r.pc = to
  BY <1>1, <1>2 DEF Runs
<1>6. Moves(p, "delete", to) /\ run'[p] = r
  <2> HIDE DEF r
  <2> QED
    BY <1>1, <1>4, <1>5, Replaced
<1> QED
  BY <1>6 DEF to

LEMMA WriteFileMoves ==
  ASSUME RunTyped, NEW p \in Procs, WriteFile(p), run[p].at \in Files
  PROVE  LET f == run[p].at
             at == IF After(p, f) = {} THEN 0 ELSE First(After(p, f))
             to == IF After(p, f) = {} THEN "commit" ELSE "row" IN
         /\ Moves(p, "write", to)
         /\ run'[p] = [run[p] EXCEPT !.put = run[p].put \cup {f}, !.at = at, !.pc = to]
<1> DEFINE f == run[p].at
           at == IF After(p, f) = {} THEN 0 ELSE First(After(p, f))
           to == IF After(p, f) = {} THEN "commit" ELSE "row"
           r == [run[p] EXCEPT !.put = run[p].put \cup {f}, !.at = at, !.pc = to]
<1>1. run[p].pc = "write" /\ run[p] \in Runs
  BY AtLabel DEF WriteFile, Labels
<1>2. to \in Labels /\ at \in Files \cup {0}
  BY FirstIsLeast, CodeIndexAssumption DEF Labels, After, Parsed
<1>3. run' = [run EXCEPT ![p].put = @ \cup {f}, ![p].at = at, ![p].pc = to]
  BY DEF WriteFile
<1> HIDE DEF at, to
<1>4. run' = [run EXCEPT ![p] = r]
  BY <1>1, <1>3 DEF RunTyped, Runs
<1>5. r \in Runs /\ r.pc = to
  BY <1>1, <1>2 DEF Runs
<1>6. Moves(p, "write", to) /\ run'[p] = r
  <2> HIDE DEF r
  <2> QED
    BY <1>1, <1>4, <1>5, Replaced
<1> QED
  BY <1>6 DEF at, to

(* The runs of the others keep their phase while p moves, and so does the invariant *)
(* of the runs when p's new state has the right phase.                              *)
LEMMA RunsKept ==
  ASSUME RunsInv, NEW p \in Procs, NEW from, NEW to, Moves(p, from, to), Phases(run'[p])
  PROVE  RunsInv'
BY DEF RunsInv, Moves, Active

LEMMA PhasesAt ==
  ASSUME RunsInv, NEW p \in Procs, run[p].pc \in Labels
  PROVE  run[p] \in Runs /\ Phases(run[p]) /\ Active(p)
BY AtLabel DEF RunsInv, Active, Labels

(* Each step leaves its run where a run may be (...Phases). *)
LEMMA ListPhases ==
  ASSUME TypeOK, RunsInv, NEW p \in Procs, ListCollections(p)
  PROVE  RunsInv'
<1> DEFINE need == IF run[p].mode = "recreate" THEN Colls ELSE Colls \ colls
           to == IF need = {} THEN Ensured(p) ELSE "ensure"
           r == [run[p] EXCEPT !.seen = colls, !.need = need, !.pc = to]
<1>1. Moves(p, "list", to) /\ run'[p] = r
  BY ListMoves DEF RunsInv
<1>2. run[p].pc = "list" /\ run[p] \in Runs /\ Phases(run[p])
  BY <1>1, PhasesAt DEF Moves, Labels
<1>3. run[p].mode = "recreate" => need # {}
  BY DEF Colls
<1>4. need = {} => to = Ensured(p)
  OBVIOUS
<1>5. Ensured(p) \in {"truncate", "wipefiles", "parse"}
      /\ (Ensured(p) = "truncate" <=> run[p].mode = "recreate")
      /\ (Ensured(p) = "wipefiles" <=> run[p].mode = "rebuild")
      /\ (Ensured(p) = "parse" <=> run[p].mode = "update")
  BY <1>2 DEF Ensured, Runs
<1>6. need # {} => to = "ensure"
  OBVIOUS
<1>7. run[p].mode # "recreate" => need \cap colls = {}
  OBVIOUS
<1> HIDE DEF need, to
<1>8. Phases(r)
  BY <1>2, <1>3, <1>4, <1>5, <1>6, <1>7 DEF Phases, InFile, Found, Runs
<1> QED
  BY <1>1, <1>8, RunsKept

LEMMA DropPhases ==
  ASSUME RunsInv, NEW p \in Procs, DropCollection(p)
  PROVE  RunsInv'
<1> DEFINE r == [run[p] EXCEPT !.seen = run[p].seen \ {Need(p)}]
<1>1. Moves(p, "ensure", "ensure") /\ run'[p] = r
  BY DropMoves DEF RunsInv
<1>2. run[p].pc = "ensure" /\ run[p] \in Runs /\ Phases(run[p])
  BY <1>1, PhasesAt DEF Moves, Labels
<1>3. Phases(r)
  BY <1>2 DEF Phases, InFile, Found, Runs
<1> QED
  BY <1>1, <1>3, RunsKept

LEMMA CreatePhases ==
  ASSUME RunsInv, NEW p \in Procs, CreateCollection(p)
  PROVE  RunsInv'
<1> DEFINE rest == run[p].need \ {Need(p)}
           to == IF rest = {} THEN Ensured(p) ELSE "ensure"
           r == [run[p] EXCEPT !.need = rest, !.pc = to]
<1>1. Moves(p, "ensure", to) /\ run'[p] = r
  BY CreateMoves DEF RunsInv
<1>2. run[p].pc = "ensure" /\ run[p] \in Runs /\ Phases(run[p])
  BY <1>1, PhasesAt DEF Moves, Labels
<1>3. /\ rest = {} => to \in {"truncate", "wipefiles", "parse"}
                      /\ (to = "truncate" <=> run[p].mode = "recreate")
                      /\ (to = "wipefiles" <=> run[p].mode = "rebuild")
                      /\ (to = "parse" <=> run[p].mode = "update")
      /\ rest # {} => to = "ensure"
  BY <1>2 DEF Ensured, Runs
<1>4. rest \subseteq run[p].need
  OBVIOUS
<1> HIDE DEF rest, to
<1>5. Phases(r)
  BY <1>2, <1>3, <1>4 DEF Phases, InFile, Found, Runs
<1> QED
  BY <1>1, <1>5, RunsKept

LEMMA TruncatePhases ==
  ASSUME RunsInv, NEW p \in Procs, Truncate(p)
  PROVE  RunsInv'
<1> DEFINE r == [run[p] EXCEPT !.pc = "list", !.mode = "update", !.cleared = TRUE, !.gone = {}]
<1>1. Moves(p, "truncate", "list") /\ run'[p] = r
  BY TruncateMoves DEF RunsInv
<1>2. run[p].pc = "truncate" /\ run[p] \in Runs /\ Phases(run[p])
  BY <1>1, PhasesAt DEF Moves, Labels
<1>3. Phases(r)
  BY <1>2 DEF Phases, InFile, Found, Runs
<1> QED
  BY <1>1, <1>3, RunsKept

LEMMA ParsePhases ==
  ASSUME TypeOK, RunsInv, NEW p \in Procs, Parse(p)
  PROVE  RunsInv'
<1> DEFINE found == {f \in Files : tree[f] # 0}
           at == IF found = {} THEN 0 ELSE First(found)
           to == IF found = {} THEN "done" ELSE "row"
           r == [run[p] EXCEPT !.tree = tree, !.at = at, !.pc = to]
<1>1. Moves(p, "parse", to) /\ run'[p] = r
  BY ParseMoves DEF RunsInv
<1>2. run[p].pc = "parse" /\ run[p] \in Runs /\ Phases(run[p])
  BY <1>1, PhasesAt DEF Moves, Labels
<1>3. found # {} => at \in found /\ \A f \in found : at <= f
  BY FirstIsLeast, CodeIndexAssumption
<1>4. (found = {} => to = "done") /\ (found # {} => to = "row")
  OBVIOUS
<1> HIDE DEF at, to
<1>5. r.mode = "update" /\ r.pc = to /\ r.at = at /\ r.tree = tree
      /\ r.put = run[p].put /\ r.cleared = run[p].cleared
  BY <1>2 DEF Phases, Runs
<1>6. Found(r) = found /\ run[p].put = {}
  BY <1>2, <1>5 DEF Found, Phases, InFile
<1> HIDE DEF found, r
<1>7. Phases(r)
  BY <1>3, <1>4, <1>5, <1>6 DEF Phases, InFile
<1> QED
  BY <1>1, <1>7, RunsKept

LEMMA StartDeletePhases ==
  ASSUME RunsInv, NEW p \in Procs, StartDelete(p)
  PROVE  RunsInv'
<1> DEFINE rows == {f \in Files : row[f] # 0 /\ (run[p].mode = "rebuild" \/ f = run[p].at)}
           to == IF rows = {} THEN Deleted(p) ELSE "delete"
           r == [run[p] EXCEPT !.todo = rows \ run[p].gone, !.pc = to]
<1>1. Moves(p, "row", to) /\ run'[p] = r
  BY StartDeleteMoves DEF RunsInv
<1>2. run[p].pc = "row" /\ run[p] \in Runs /\ Phases(run[p])
  BY <1>1, PhasesAt DEF Moves, Labels
<1>3. to = "delete" \/ (to = "commit" /\ run[p].mode = "rebuild") \/ (to = "unfile" /\ run[p].mode = "update")
  BY <1>2 DEF Deleted, Phases, Runs
<1>4. run[p].mode = "update" => rows \subseteq {run[p].at}
  OBVIOUS
<1> HIDE DEF rows, to
<1>5. /\ r.pc = to /\ r.todo = rows \ run[p].gone /\ r.mode = run[p].mode /\ r.at = run[p].at
      /\ r.put = run[p].put /\ r.cleared = run[p].cleared /\ Found(r) = Found(run[p])
  BY <1>2 DEF Runs, Found
<1> HIDE DEF r
<1>6. Phases(r)
  BY <1>2, <1>3, <1>4, <1>5 DEF Phases, InFile
<1> QED
  BY <1>1, <1>6, RunsKept

LEMMA DeleteRowPhases ==
  ASSUME RunsInv, NEW p \in Procs, NEW f \in Files, DeleteRow(p, f)
  PROVE  RunsInv'
<1> DEFINE to == IF run[p].todo = {f} THEN Deleted(p) ELSE "delete"
           r == [run[p] EXCEPT !.gone = run[p].gone \cup {f}, !.todo = run[p].todo \ {f}, !.pc = to]
<1>1. Moves(p, "delete", to) /\ run'[p] = r
  BY DeleteRowMoves DEF RunsInv
<1>2. run[p].pc = "delete" /\ run[p] \in Runs /\ Phases(run[p])
  BY <1>1, PhasesAt DEF Moves, Labels
<1>3. to = "delete" \/ (to = "commit" /\ run[p].mode = "rebuild") \/ (to = "unfile" /\ run[p].mode = "update")
  BY <1>2 DEF Deleted, Phases, Runs
<1> HIDE DEF to
<1>4. /\ r.pc = to /\ r.todo = run[p].todo \ {f} /\ r.mode = run[p].mode /\ r.at = run[p].at
      /\ r.put = run[p].put /\ r.cleared = run[p].cleared /\ Found(r) = Found(run[p])
  BY <1>2 DEF Runs, Found
<1> HIDE DEF r
<1>5. Phases(r)
  BY <1>2, <1>3, <1>4 DEF Phases, InFile
<1> QED
  BY <1>1, <1>5, RunsKept

LEMMA GotoPhases ==
  ASSUME RunsInv, NEW p \in Procs, NEW to \in Labels, Goto(p, to),
         \/ run[p].pc = "wipefiles" /\ to = "wipefunctions"
         \/ run[p].pc = "wipefunctions" /\ to = "row"
         \/ run[p].pc = "unfile" /\ to = "unfunction"
         \/ run[p].pc = "unfunction" /\ to = "write"
         \/ run[p].pc = "storefiles" /\ to = "storefunctions"
         \/ run[p].pc = "storefunctions" /\ to = "done"
  PROVE  RunsInv'
<1> DEFINE r == [run[p] EXCEPT !.pc = to]
<1>1. run[p].pc \in Labels
  BY DEF Labels
<1>2. Moves(p, run[p].pc, to) /\ run'[p] = r
  BY <1>1, GotoMoves DEF RunsInv
<1>3. run[p] \in Runs /\ Phases(run[p])
  BY <1>1, PhasesAt
<1>4. /\ r.pc = to /\ r.todo = run[p].todo /\ r.mode = run[p].mode /\ r.at = run[p].at
      /\ r.put = run[p].put /\ r.cleared = run[p].cleared /\ Found(r) = Found(run[p])
  BY <1>3 DEF Runs, Found
<1> HIDE DEF r
<1>5. Phases(r)
  BY <1>3, <1>4 DEF Phases, InFile, Runs
<1> QED
  BY <1>2, <1>5, RunsKept

LEMMA WriteFilePhases ==
  ASSUME RunsInv, NEW p \in Procs, WriteFile(p)
  PROVE  RunsInv' /\ run[p].at \in Found(run[p])
<1> DEFINE f == run[p].at
           at == IF After(p, f) = {} THEN 0 ELSE First(After(p, f))
           to == IF After(p, f) = {} THEN "commit" ELSE "row"
           r == [run[p] EXCEPT !.put = run[p].put \cup {f}, !.at = at, !.pc = to]
<1>1. run[p].pc = "write" /\ run[p] \in Runs /\ Phases(run[p])
  BY PhasesAt DEF WriteFile, Labels
<1>2. /\ f \in Found(run[p]) /\ f \in Files /\ run[p].mode = "update"
      /\ \A g \in Found(run[p]) : g \in run[p].put \/ f <= g
  BY <1>1 DEF Phases, InFile, Found
<1>3. Moves(p, "write", to) /\ run'[p] = r
  BY <1>2, WriteFileMoves DEF RunsInv
<1>4. After(p, f) = {g \in Found(run[p]) : g > f}
  BY DEF After, Parsed, Found
<1>5. After(p, f) # {} => at \in After(p, f) /\ \A g \in After(p, f) : at <= g
  BY FirstIsLeast, CodeIndexAssumption DEF After, Parsed
<1>6. (After(p, f) = {} => to = "commit") /\ (After(p, f) # {} => to = "row")
  OBVIOUS
<1> HIDE DEF at, to
<1>7. /\ r.pc = to /\ r.mode = run[p].mode /\ r.at = at
      /\ r.put = run[p].put \cup {f} /\ r.cleared = run[p].cleared /\ Found(r) = Found(run[p])
  BY <1>1 DEF Runs, Found
<1> HIDE DEF r
<1>8. Found(run[p]) \subseteq Nat
  BY CodeIndexAssumption DEF Found
<1>9. Phases(r)
  BY <1>1, <1>2, <1>4, <1>5, <1>6, <1>7, <1>8 DEF Phases, InFile
<1> QED
  BY <1>2, <1>3, <1>9, RunsKept

(* What becomes of the runs when p commits: its own transaction is over, and a DELETE *)
(* that waited for p passes over the rows p has deleted.                              *)
Committed(r) == IF r.mode = "rebuild"
                THEN [r EXCEPT !.pc = "list", !.mode = "update", !.cleared = TRUE, !.gone = {}]
                ELSE [r EXCEPT !.pc = "storefiles", !.gone = {}, !.put = {}]
PassedOver(r, gone, to) == [r EXCEPT !.todo = r.todo \ gone, !.pc = IF r.todo \subseteq gone THEN to ELSE r.pc]

LEMMA CommitRuns ==
  ASSUME RunTyped, NEW p \in Procs, Commit(p)
  PROVE  /\ run[p].pc = "commit" /\ run[p] \in Runs
         /\ run'[p] = Committed(run[p])
         /\ \A q \in Procs \ {p} :
              run'[q] = IF run[q].pc = "delete" THEN PassedOver(run[q], run[p].gone, Deleted(q)) ELSE run[q]
         /\ RunTyped'
<1>1. run[p].pc = "commit" /\ run[p] \in Runs
  BY AtLabel DEF Commit, Labels
<1>2. run'[p] = Committed(run[p])
  BY DEF Commit, Committed
<1>3. ASSUME NEW q \in Procs \ {p}
      PROVE  run'[q] = IF run[q].pc = "delete" THEN PassedOver(run[q], run[p].gone, Deleted(q)) ELSE run[q]
  <2>1. CASE run[q].pc = "delete"
    <3>1. run'[q] = [run[q] EXCEPT !.todo = @ \ run[p].gone,
                             !.pc = IF run[q].todo \subseteq run[p].gone THEN Deleted(q) ELSE @]
      BY <2>1 DEF Commit
    <3>2. run[q] \in Runs
      BY <2>1, AtLabel DEF Labels
    <3> QED
      BY <2>1, <3>1, <3>2 DEF PassedOver, Runs
  <2>2. CASE run[q].pc # "delete"
    BY <2>2 DEF Commit
  <2> QED
    BY <2>1, <2>2
<1>4. Committed(run[p]) \in Runs
  BY <1>1 DEF Committed, Runs, Labels
<1>5. ASSUME NEW q \in Procs \ {p}, run[q].pc = "delete"
      PROVE  PassedOver(run[q], run[p].gone, Deleted(q)) \in Runs
  <2>1. run[q] \in Runs
    BY <1>5, AtLabel DEF Labels
  <2>2. Deleted(q) \in Labels
    BY DEF Deleted, Labels
  <2> QED
    BY <2>1, <2>2 DEF PassedOver, Runs
<1>6. \A q \in Procs : run'[q] \in Runs \/ run'[q] = run[q]
  BY <1>2, <1>3, <1>4, <1>5
<1>7. run' = [q \in Procs |-> run'[q]]
  BY DEF Commit
<1>8. \A q \in Procs : run[q] \in {Idle, [pc |-> "waiting"]} \cup Runs
  BY DEF RunTyped
<1>9. \A r \in Runs : r.pc # "waiting"
  BY DEF Runs, Labels
<1> QED
  BY <1>1, <1>2, <1>3, <1>6, <1>7, <1>8, <1>9 DEF RunTyped

LEMMA CommitPhases ==
  ASSUME RunsInv, NEW p \in Procs, Commit(p)
  PROVE  RunsInv'
<1>1. /\ run[p].pc = "commit" /\ run[p] \in Runs
      /\ run'[p] = Committed(run[p])
      /\ \A q \in Procs \ {p} :
           run'[q] = IF run[q].pc = "delete" THEN PassedOver(run[q], run[p].gone, Deleted(q)) ELSE run[q]
      /\ RunTyped'
  BY CommitRuns DEF RunsInv
<1>2. Phases(run[p])
  BY <1>1, PhasesAt DEF Labels
<1>3. Phases(Committed(run[p]))
  BY <1>1, <1>2 DEF Committed, Phases, InFile, Found, Runs
<1>4. ASSUME NEW q \in Procs \ {p}, run[q].pc = "delete"
      PROVE  Phases(PassedOver(run[q], run[p].gone, Deleted(q)))
  <2> DEFINE r == PassedOver(run[q], run[p].gone, Deleted(q))
  <2>1. run[q] \in Runs /\ Phases(run[q])
    BY <1>4, PhasesAt DEF Labels
  <2>2. \/ Deleted(q) = "commit" /\ run[q].mode = "rebuild"
        \/ Deleted(q) = "unfile" /\ run[q].mode = "update"
    BY <1>4, <2>1 DEF Deleted, Phases, Runs
  <2>3. /\ r.pc = "delete" \/ r.pc = Deleted(q)
        /\ r.todo \subseteq run[q].todo /\ r.mode = run[q].mode /\ r.at = run[q].at
        /\ r.put = run[q].put /\ r.cleared = run[q].cleared /\ Found(r) = Found(run[q])
    BY <1>4, <2>1 DEF Runs, Found, PassedOver
  <2> HIDE DEF r
  <2>4. Phases(r)
    BY <1>4, <2>1, <2>2, <2>3 DEF Phases, InFile
  <2> QED
    BY <2>4 DEF r
<1>5. \A q \in Procs \ {p} : run[q].pc # "delete" => run'[q] = run[q]
  BY <1>1
<1>6. \A q \in Procs \ {p} : run[q].pc = "delete" => Active(q) /\ Phases(run'[q])
  BY <1>1, <1>4 DEF Active
<1> QED
  BY <1>1, <1>3, <1>5, <1>6 DEF RunsInv, Active

(* p's run is over. *)
Stops(p) == run' \in [Procs -> {Idle, [pc |-> "waiting"]} \cup Runs] /\ run'[p] = Idle
            /\ \A q \in Procs \ {p} : run'[q] = run[q]

LEMMA StopPhases ==
  ASSUME RunsInv, NEW p \in Procs, run' = [run EXCEPT ![p] = Idle]
  PROVE  RunsInv' /\ Stops(p)
<1>1. Stops(p)
  BY DEF RunsInv, RunTyped, Stops
<1> QED
  BY <1>1 DEF RunsInv, RunTyped, Stops, Active, Idle

LEMMA RequestPhases ==
  ASSUME RunsInv, NEW p \in Procs, Request(p)
  PROVE  /\ RunsInv' /\ run[p] = Idle /\ run'[p] = [pc |-> "waiting"]
         /\ \A q \in Procs \ {p} : run'[q] = run[q]
<1>1. /\ run' \in [Procs -> {Idle, [pc |-> "waiting"]} \cup Runs] /\ run'[p] = [pc |-> "waiting"]
      /\ \A q \in Procs \ {p} : run'[q] = run[q]
      /\ p \in Api /\ run[p] = Idle
  BY DEF RunsInv, RunTyped, Request
<1> QED
  BY <1>1 DEF RunsInv, RunTyped, Active, Idle

(* A run begins: the others are no longer alone. *)
Fresh(mode, alone) ==
    [pc |-> "list", mode |-> mode, cleared |-> FALSE, need |-> {}, seen |-> {},
     tree |-> [f \in Files |-> 0], at |-> 0, todo |-> {}, gone |-> {}, put |-> {}, alone |-> alone]

LEMMA BeginPhases ==
  ASSUME RunsInv, NEW p \in Procs, NEW mode \in {"update", "rebuild", "recreate"}, Begin(p, mode)
  PROVE  /\ RunsInv'
         /\ run'[p] = Fresh(mode, \A q \in Procs \ {p} : ~Active(q))
         /\ \A q \in Procs \ {p} : run'[q] = IF Active(q) THEN [run[q] EXCEPT !.alone = FALSE] ELSE run[q]
<1> DEFINE alone == \A q \in Procs \ {p} : ~Active(q)
<1>1. run'[p] = Fresh(mode, alone)
  BY DEF Begin, Fresh
<1>2. \A q \in Procs \ {p} : run'[q] = IF Active(q) THEN [run[q] EXCEPT !.alone = FALSE] ELSE run[q]
  BY DEF Begin
<1>3. alone \in BOOLEAN
  OBVIOUS
<1> HIDE DEF alone
<1>4. Fresh(mode, alone) \in Runs
  BY <1>3 DEF Fresh, Runs, Labels, Content
<1>5. Phases(Fresh(mode, alone))
  BY DEF Fresh, Phases, InFile, Found
<1>6. ASSUME NEW q \in Procs, Active(q)
      PROVE  run[q] \in Runs /\ [run[q] EXCEPT !.alone = FALSE] \in Runs /\ Phases([run[q] EXCEPT !.alone = FALSE])
  <2> DEFINE r == [run[q] EXCEPT !.alone = FALSE]
  <2>1. run[q] \in Runs /\ Phases(run[q])
    BY <1>6 DEF RunsInv, RunTyped, Active, Idle
  <2>2. r \in Runs
    BY <2>1 DEF Runs
  <2>3. /\ r.pc = run[q].pc /\ r.todo = run[q].todo /\ r.mode = run[q].mode /\ r.at = run[q].at
        /\ r.need = run[q].need /\ r.seen = run[q].seen
        /\ r.put = run[q].put /\ r.cleared = run[q].cleared /\ Found(r) = Found(run[q])
    BY <2>1 DEF Runs, Found
  <2> HIDE DEF r
  <2>4. Phases(r)
    BY <2>1, <2>3 DEF Phases, InFile
  <2> QED
    BY <2>1, <2>2, <2>4 DEF r
<1>7. run' = [q \in Procs |-> run'[q]]
  BY DEF Begin
<1>8. \A q \in Procs : run'[q] \in Runs \/ run'[q] = run[q]
  BY <1>1, <1>2, <1>4, <1>6
<1>9. RunTyped'
  <2>1. \A q \in Procs : run[q] \in {Idle, [pc |-> "waiting"]} \cup Runs
    BY DEF RunsInv, RunTyped
  <2>2. \A r \in Runs : r.pc # "waiting"
    BY DEF Runs, Labels
  <2> QED
    BY <1>7, <1>8, <2>1, <2>2 DEF RunTyped, RunsInv
<1>10. ASSUME NEW q \in Procs, Active(q)' PROVE Phases(run'[q])
  <2>1. CASE q = p
    BY <2>1, <1>1, <1>5
  <2>2. CASE q # p /\ Active(q)
    BY <2>2, <1>2, <1>6
  <2>3. CASE q # p /\ ~Active(q)
    BY <2>3, <1>2, <1>10 DEF Active
  <2> QED
    BY <2>1, <2>2, <2>3
<1> QED
  BY <1>1, <1>2, <1>9, <1>10 DEF RunsInv, alone

(***************************************************************************)
(* What is owed.                                                           *)
(***************************************************************************)
LEMMA OwedStep ==
  ASSUME Owed, NEW p \in Procs, \A q \in Procs \ {p} : run'[q] = run[q], Active(p)', failed' = failed,
         \A f \in Files : row'[f] # 0 =>
           /\ row'[f] = row[f]
           /\ filePts'[f] # 0 \/ OwesFile(run[p], f)' \/ (filePts[f] = 0 /\ ~OwesFile(run[p], f))
           /\ \A n \in Symbols[f][row[f]] : \/ fnPts'[f][n] # 0 \/ OwesFunctions(run[p], f)'
                                            \/ fnPts[f][n] = 0 /\ ~OwesFunctions(run[p], f)
  PROVE  Owed'
<1> SUFFICES ASSUME ~failed, NEW f \in Files, row'[f] # 0
             PROVE  /\ filePts'[f] # 0 \/ \E q \in Procs : Active(q)' /\ OwesFile(run[q], f)'
                    /\ \A n \in Symbols[f][row'[f]] :
                         fnPts'[f][n] # 0 \/ \E q \in Procs : Active(q)' /\ OwesFunctions(run[q], f)'
  BY Zenon DEF Owed
<1>1. row'[f] = row[f] /\ row[f] # 0
  OBVIOUS
<1>2. /\ filePts[f] # 0 \/ \E q \in Procs : Active(q) /\ OwesFile(run[q], f)
      /\ \A n \in Symbols[f][row[f]] :
           fnPts[f][n] # 0 \/ \E q \in Procs : Active(q) /\ OwesFunctions(run[q], f)
  BY <1>1 DEF Owed
<1>3. \A q \in Procs \ {p} : /\ Active(q) => Active(q)'
                             /\ OwesFile(run[q], f) => OwesFile(run[q], f)'
                             /\ OwesFunctions(run[q], f) => OwesFunctions(run[q], f)'
  BY <1>1 DEF Active, OwesFile, OwesFunctions, Clears, Found
<1>4. filePts'[f] # 0 \/ \E q \in Procs : Active(q)' /\ OwesFile(run[q], f)'
  BY <1>2, <1>3
<1>5. ASSUME NEW n \in Symbols[f][row'[f]]
      PROVE  fnPts'[f][n] # 0 \/ \E q \in Procs : Active(q)' /\ OwesFunctions(run[q], f)'
  <2>1. \/ fnPts'[f][n] # 0 \/ OwesFunctions(run[p], f)'
        \/ fnPts[f][n] = 0 /\ ~OwesFunctions(run[p], f)
    BY <1>1, <1>5
  <2>2. fnPts[f][n] # 0 \/ \E q \in Procs : Active(q) /\ OwesFunctions(run[q], f)
    BY <1>1, <1>2
  <2> QED
    BY <1>3, <2>1, <2>2
<1> QED
  BY <1>4, <1>5

LEMMA OwedSame ==
  ASSUME Owed, NEW p \in Procs, \A q \in Procs \ {p} : run'[q] = run[q], Active(p)',
         UNCHANGED <<row, filePts, fnPts, failed>>,
         \A f \in Files : /\ OwesFile(run[p], f) => OwesFile(run[p], f)'
                          /\ OwesFunctions(run[p], f) => OwesFunctions(run[p], f)'
  PROVE  Owed'
BY OwedStep

(* Each step still owes what it has not stored (...Owed). *)
LEMMA ListOwed ==
  ASSUME TypeOK, RunsInv, Owed, NEW p \in Procs, ListCollections(p)
  PROVE  Owed'
<1> DEFINE need == IF run[p].mode = "recreate" THEN Colls ELSE Colls \ colls
           to == IF need = {} THEN Ensured(p) ELSE "ensure"
           r == [run[p] EXCEPT !.seen = colls, !.need = need, !.pc = to]
<1>1. Moves(p, "list", to) /\ run'[p] = r
  BY ListMoves DEF RunsInv
<1>2. Phases(run[p])
  BY <1>1, PhasesAt DEF Moves, Labels
<1>3. \A f \in Files : ~OwesFile(run[p], f) /\ ~OwesFunctions(run[p], f)
  BY <1>1, <1>2 DEF Moves, OwesFile, OwesFunctions, Clears, Phases, InFile
<1>4. Active(p)' /\ \A q \in Procs \ {p} : run'[q] = run[q]
  BY <1>1 DEF Moves, Active, Runs, Labels
<1> QED
  BY <1>3, <1>4, OwedSame DEF ListCollections, pg, qdrant

LEMMA DropOwed ==
  ASSUME RunsInv, Owed, NEW p \in Procs, DropCollection(p)
  PROVE  Owed'
<1> DEFINE r == [run[p] EXCEPT !.seen = run[p].seen \ {Need(p)}]
<1>1. Moves(p, "ensure", "ensure") /\ run'[p] = r
  BY DropMoves DEF RunsInv
<1>2. Phases(run[p]) /\ run[p] \in Runs
  BY <1>1, PhasesAt DEF Moves, Labels
<1>3. Need(p) \in run[p].need /\ Need(p) \in run[p].seen
  BY <1>1, <1>2 DEF Phases, Need, DropCollection, Moves, Runs, Colls
<1>4. run[p].mode = "recreate"
  BY <1>1, <1>2, <1>3 DEF Moves, Phases
<1>5. run'[p].mode = "recreate" /\ run'[p].pc = "ensure"
  BY <1>1, <1>2, <1>4 DEF Moves, Runs
<1>6. \A f \in Files : OwesFile(run[p], f)' /\ OwesFunctions(run[p], f)'
  BY <1>5 DEF OwesFile, OwesFunctions, Clears
<1>7. Active(p)' /\ (\A q \in Procs \ {p} : run'[q] = run[q]) /\ failed' = failed /\ row' = row
  BY <1>1 DEF Moves, Active, DropCollection, pg
<1> QED
  BY <1>6, <1>7, OwedStep

LEMMA CreateOwed ==
  ASSUME RunsInv, Owed, NEW p \in Procs, CreateCollection(p)
  PROVE  Owed'
<1> DEFINE rest == run[p].need \ {Need(p)}
           to == IF rest = {} THEN Ensured(p) ELSE "ensure"
           r == [run[p] EXCEPT !.need = rest, !.pc = to]
<1>1. Moves(p, "ensure", to) /\ run'[p] = r
  BY CreateMoves DEF RunsInv
<1>2. Phases(run[p]) /\ run[p] \in Runs
  BY <1>1, PhasesAt DEF Moves, Labels
<1>3. run[p].mode = "recreate" => to \in {"ensure", "truncate"}
  BY DEF Ensured
<1> HIDE DEF to, rest
<1>4. run'[p].mode = run[p].mode /\ run'[p].pc = to /\ run[p].put = {}
  BY <1>1, <1>2 DEF Moves, Runs, Phases, InFile
<1>5. \A f \in Files : /\ OwesFile(run[p], f) => OwesFile(run[p], f)'
                       /\ OwesFunctions(run[p], f) => OwesFunctions(run[p], f)'
  BY <1>1, <1>2, <1>3, <1>4 DEF Moves, OwesFile, OwesFunctions, Clears
<1>6. Active(p)' /\ \A q \in Procs \ {p} : run'[q] = run[q]
  BY <1>1 DEF Moves, Active, Runs, Labels
<1> QED
  BY <1>5, <1>6, OwedSame DEF CreateCollection, pg

LEMMA TruncateOwed ==
  ASSUME RunsInv, Owed, NEW p \in Procs, Truncate(p)
  PROVE  Owed'
BY DEF Truncate, Owed

LEMMA ParseOwed ==
  ASSUME TypeOK, RunsInv, Owed, NEW p \in Procs, Parse(p)
  PROVE  Owed'
<1> DEFINE found == {f \in Files : tree[f] # 0}
           at == IF found = {} THEN 0 ELSE First(found)
           to == IF found = {} THEN "done" ELSE "row"
           r == [run[p] EXCEPT !.tree = tree, !.at = at, !.pc = to]
<1>1. Moves(p, "parse", to) /\ run'[p] = r
  BY ParseMoves DEF RunsInv
<1>2. Phases(run[p])
  BY <1>1, PhasesAt DEF Moves, Labels
<1>3. \A f \in Files : ~OwesFile(run[p], f) /\ ~OwesFunctions(run[p], f)
  BY <1>1, <1>2 DEF Moves, OwesFile, OwesFunctions, Clears, Phases, InFile
<1>4. Active(p)' /\ \A q \in Procs \ {p} : run'[q] = run[q]
  BY <1>1 DEF Moves, Active, Runs, Labels
<1> QED
  BY <1>3, <1>4, OwedSame DEF Parse, pg, qdrant

LEMMA StartDeleteOwed ==
  ASSUME TypeOK, RunsInv, Owed, NEW p \in Procs, StartDelete(p)
  PROVE  Owed'
<1> DEFINE rows == {f \in Files : row[f] # 0 /\ (run[p].mode = "rebuild" \/ f = run[p].at)}
           to == IF rows = {} THEN Deleted(p) ELSE "delete"
           r == [run[p] EXCEPT !.todo = rows \ run[p].gone, !.pc = to]
<1>1. Moves(p, "row", to) /\ run'[p] = r
  BY StartDeleteMoves DEF RunsInv
<1>2. Phases(run[p]) /\ run[p] \in Runs
  BY <1>1, PhasesAt DEF Moves, Labels
<1>3. /\ run[p].mode = "rebuild" => rows = {f \in Files : row[f] # 0}
      /\ rows # {} => to = "delete"
      /\ to \in Labels
  BY DEF Deleted, Labels
<1> HIDE DEF rows, to
<1>4. /\ run'[p].pc = to /\ run'[p].todo = rows \ run[p].gone /\ run'[p].gone = run[p].gone
      /\ run'[p].mode = run[p].mode /\ run'[p].put = run[p].put
  BY <1>1, <1>2 DEF Moves, Runs
<1>5. ASSUME NEW f \in Files, row[f] # 0
      PROVE  /\ OwesFile(run[p], f) => OwesFile(run[p], f)'
             /\ OwesFunctions(run[p], f) => OwesFunctions(run[p], f)'
  <2>1. run[p].pc = "row"
    BY <1>1 DEF Moves
  <2>2. run[p].mode = "rebuild" => Clears(run'[p], f)
    BY <1>3, <1>4, <1>5 DEF Clears
  <2> QED
    BY <1>4, <2>1, <2>2, <1>2 DEF OwesFile, OwesFunctions, Clears, Phases
<1>6. Active(p)' /\ \A q \in Procs \ {p} : run'[q] = run[q]
  BY <1>1 DEF Moves, Active, Runs, Labels
<1>7. UNCHANGED <<row, filePts, fnPts, failed>>
  BY DEF StartDelete, pg, qdrant
<1> QED
  BY <1>5, <1>6, <1>7, OwedStep

LEMMA DeleteRowOwed ==
  ASSUME RunsInv, Owed, NEW p \in Procs, NEW g \in Files, DeleteRow(p, g)
  PROVE  Owed'
<1> DEFINE to == IF run[p].todo = {g} THEN Deleted(p) ELSE "delete"
           r == [run[p] EXCEPT !.gone = run[p].gone \cup {g}, !.todo = run[p].todo \ {g}, !.pc = to]
<1>1. Moves(p, "delete", to) /\ run'[p] = r
  BY DeleteRowMoves DEF RunsInv
<1>2. Phases(run[p]) /\ run[p] \in Runs
  BY <1>1, PhasesAt DEF Moves, Labels
<1>3. \/ to = "delete"
      \/ run[p].todo = {g} /\ (run[p].mode = "rebuild" => to = "commit")
  BY DEF Deleted
<1> HIDE DEF to
<1>4. /\ run'[p].pc = to /\ run'[p].todo = run[p].todo \ {g} /\ run'[p].gone = run[p].gone \cup {g}
      /\ run'[p].mode = run[p].mode /\ run'[p].put = run[p].put
  BY <1>1, <1>2 DEF Moves, Runs
<1>5. ASSUME NEW f \in Files
      PROVE  /\ OwesFile(run[p], f) => OwesFile(run[p], f)'
             /\ OwesFunctions(run[p], f) => OwesFunctions(run[p], f)'
  <2>1. run[p].pc = "delete"
    BY <1>1 DEF Moves
  <2>2. Clears(run[p], f) => Clears(run'[p], f)
    BY <1>3, <1>4, <2>1 DEF Clears
  <2> QED
    BY <1>4, <2>1, <2>2 DEF OwesFile, OwesFunctions
<1>6. Active(p)' /\ \A q \in Procs \ {p} : run'[q] = run[q]
  BY <1>1 DEF Moves, Active, Runs, Labels
<1> QED
  BY <1>5, <1>6, OwedSame DEF DeleteRow, pg, qdrant

LEMMA WriteFileOwed ==
  ASSUME RunsInv, Owed, NEW p \in Procs, WriteFile(p)
  PROVE  Owed'
<1> DEFINE g == run[p].at
           at == IF After(p, g) = {} THEN 0 ELSE First(After(p, g))
           to == IF After(p, g) = {} THEN "commit" ELSE "row"
           r == [run[p] EXCEPT !.put = run[p].put \cup {g}, !.at = at, !.pc = to]
<1>1. g \in Found(run[p]) /\ g \in Files
  BY WriteFilePhases DEF Found
<1>2. Moves(p, "write", to) /\ run'[p] = r
  BY <1>1, WriteFileMoves DEF RunsInv
<1>3. Phases(run[p]) /\ run[p] \in Runs
  BY <1>2, PhasesAt DEF Moves, Labels
<1>4. run'[p].put = run[p].put \cup {g} /\ run[p].pc = "write" /\ run[p].mode = "update"
  BY <1>2, <1>3 DEF Moves, Runs, Phases
<1>5. \A f \in Files : /\ OwesFile(run[p], f) => OwesFile(run[p], f)'
                       /\ OwesFunctions(run[p], f) => OwesFunctions(run[p], f)'
  BY <1>4 DEF OwesFile, OwesFunctions, Clears
<1>6. Active(p)' /\ \A q \in Procs \ {p} : run'[q] = run[q]
  BY <1>2 DEF Moves, Active, Runs, Labels
<1> QED
  BY <1>5, <1>6, OwedSame DEF WriteFile, pg, qdrant

(* What a step from one label to another leaves of the run. *)
LEMMA GotoFacts ==
  ASSUME RunsInv, NEW p \in Procs, NEW to \in Labels, Goto(p, to), run[p].pc \in Labels
  PROVE  /\ run[p] \in Runs /\ Phases(run[p]) /\ Active(p) /\ Active(p)'
         /\ \A q \in Procs \ {p} : run'[q] = run[q]
         /\ run'[p] = [run[p] EXCEPT !.pc = to] /\ run'[p].pc = to
         /\ run'[p].mode = run[p].mode /\ run'[p].put = run[p].put /\ run'[p].at = run[p].at
         /\ run'[p].tree = run[p].tree /\ run'[p].cleared = run[p].cleared /\ run'[p].alone = run[p].alone
         /\ run'[p].gone = run[p].gone /\ Found(run'[p]) = Found(run[p])
<1>1. Moves(p, run[p].pc, to) /\ run'[p] = [run[p] EXCEPT !.pc = to]
  BY GotoMoves DEF RunsInv
<1>2. run[p] \in Runs /\ Phases(run[p]) /\ Active(p)
  BY PhasesAt
<1> QED
  BY <1>1, <1>2 DEF Moves, Active, Runs, Labels, Found

LEMMA WipePointsOwed ==
  ASSUME RunsInv, Owed, NEW p \in Procs, WipePoints(p)
  PROVE  Owed'
<1>1. failed' = failed /\ row' = row
  BY DEF WipePoints, pg
<1>2. CASE run[p].pc = "wipefiles" /\ Goto(p, "wipefunctions") /\ fnPts' = fnPts
  <2>1. /\ Phases(run[p]) /\ Active(p)' /\ \A q \in Procs \ {p} : run'[q] = run[q]
        /\ run'[p].pc = "wipefunctions"
    BY <1>2, GotoFacts DEF Labels
  <2>2. \A f \in Files : OwesFile(run[p], f)' /\ ~OwesFunctions(run[p], f)
    BY <1>2, <2>1 DEF OwesFile, OwesFunctions, Clears, Phases, InFile
  <2> QED
    BY <1>1, <1>2, <2>1, <2>2, OwedStep
<1>3. CASE run[p].pc = "wipefunctions" /\ Goto(p, "row")
  <2>1. /\ Phases(run[p]) /\ Active(p)' /\ \A q \in Procs \ {p} : run'[q] = run[q]
        /\ run'[p].pc = "row" /\ run'[p].mode = run[p].mode
    BY <1>3, GotoFacts DEF Labels
  <2>2. \A f \in Files : OwesFile(run[p], f)' /\ OwesFunctions(run[p], f)'
    BY <1>3, <2>1 DEF OwesFile, OwesFunctions, Clears, Phases
  <2> QED
    BY <1>1, <2>1, <2>2, OwedStep
<1> QED
  BY <1>2, <1>3 DEF WipePoints

LEMMA UnindexOwed ==
  ASSUME TypeOK, RunsInv, Owed, NEW p \in Procs, Unindex(p)
  PROVE  Owed'
<1>1. failed' = failed /\ row' = row
  BY DEF Unindex, pg
<1>2. CASE /\ run[p].pc = "unfile" /\ Goto(p, "unfunction") /\ fnPts' = fnPts
           /\ filePts' = [filePts EXCEPT ![run[p].at] = 0]
  <2>1. /\ Phases(run[p]) /\ Active(p)' /\ \A q \in Procs \ {p} : run'[q] = run[q]
        /\ run'[p].pc = "unfunction" /\ run'[p].at = run[p].at /\ run'[p].put = run[p].put
    BY <1>2, GotoFacts DEF Labels
  <2>2. \A f \in Files : f # run[p].at => filePts'[f] = filePts[f]
    BY <1>2 DEF TypeOK
  <2>3. \A f \in Files : /\ f = run[p].at => OwesFile(run[p], f)'
                         /\ OwesFile(run[p], f) => OwesFile(run[p], f)'
                         /\ OwesFunctions(run[p], f) => OwesFunctions(run[p], f)'
    BY <1>2, <2>1 DEF OwesFile, OwesFunctions, Clears
  <2> QED
    BY <1>1, <1>2, <2>1, <2>2, <2>3, OwedStep
<1>3. CASE /\ run[p].pc = "unfunction" /\ Goto(p, "write") /\ filePts' = filePts
           /\ fnPts' = [fnPts EXCEPT ![run[p].at] = NoFunctions]
  <2>1. /\ Phases(run[p]) /\ Active(p)' /\ \A q \in Procs \ {p} : run'[q] = run[q]
        /\ run'[p].pc = "write" /\ run'[p].at = run[p].at /\ run'[p].put = run[p].put
    BY <1>3, GotoFacts DEF Labels
  <2>2. \A f \in Files : f # run[p].at => fnPts'[f] = fnPts[f]
    BY <1>3 DEF TypeOK
  <2>3. \A f \in Files : /\ f = run[p].at => OwesFunctions(run[p], f)'
                         /\ OwesFile(run[p], f) => OwesFile(run[p], f)'
                         /\ OwesFunctions(run[p], f) => OwesFunctions(run[p], f)'
    BY <1>3, <2>1 DEF OwesFile, OwesFunctions, Clears
  <2> QED
    BY <1>1, <1>3, <2>1, <2>2, <2>3, OwedStep
<1> QED
  BY <1>2, <1>3 DEF Unindex

LEMMA StorePointsOwed ==
  ASSUME TypeOK, RunsInv, Owed, NEW p \in Procs, StorePoints(p)
  PROVE  Owed'
<1>1. failed' = failed /\ row' = row
  BY DEF StorePoints, pg
<1>2. AllBatches(Parsed(p)) = Found(run[p])
  BY DEF AllBatches, Parsed, Found
<1>3. CASE /\ run[p].pc = "storefiles" /\ Goto(p, "storefunctions") /\ fnPts' = fnPts
           /\ filePts' = [f \in Files |-> IF f \in AllBatches(Parsed(p)) THEN run[p].tree[f] ELSE filePts[f]]
  <2>1. /\ Phases(run[p]) /\ Active(p)' /\ \A q \in Procs \ {p} : run'[q] = run[q]
        /\ run'[p].pc = "storefunctions" /\ run'[p].at = run[p].at /\ run'[p].put = run[p].put
        /\ run'[p].tree = run[p].tree /\ Found(run'[p]) = Found(run[p])
    BY <1>3, GotoFacts DEF Labels
  <2>2. \A f \in Files : /\ filePts[f] # 0 => filePts'[f] # 0
                         /\ f \in Found(run[p]) => filePts'[f] # 0
    BY <1>2, <1>3 DEF Found
  <2>3. \A f \in Files : /\ OwesFile(run[p], f) => f \in Found(run[p])
                         /\ OwesFunctions(run[p], f) => OwesFunctions(run[p], f)'
    BY <1>1, <1>3, <2>1 DEF OwesFile, OwesFunctions, Clears, Phases
  <2> QED
    BY <1>1, <1>3, <2>1, <2>2, <2>3, OwedStep
<1>4. CASE /\ run[p].pc = "storefunctions" /\ Goto(p, "done") /\ filePts' = filePts
           /\ fnPts' = [f \in Files |-> [n \in Names |->
                 IF f \in AllBatches(Parsed(p)) /\ n \in Symbols[f][run[p].tree[f]]
                 THEN run[p].tree[f] ELSE fnPts[f][n]]]
  <2>1. /\ Phases(run[p]) /\ Active(p)' /\ \A q \in Procs \ {p} : run'[q] = run[q]
        /\ run[p] \in Runs
    BY <1>4, GotoFacts DEF Labels
  <2>2. \A f \in Files : row[f] # 0 => Symbols[f][row[f]] \subseteq Names
    BY Contents DEF TypeOK, Content
  <2>3. \A f \in Files : \A n \in Names :
          /\ fnPts[f][n] # 0 => fnPts'[f][n] # 0
          /\ f \in Found(run[p]) /\ n \in Symbols[f][run[p].tree[f]] => fnPts'[f][n] # 0
    BY <1>2, <1>4 DEF Found
  <2>4. \A f \in Files : /\ ~OwesFile(run[p], f)
                         /\ OwesFunctions(run[p], f) => f \in Found(run[p]) /\ run[p].tree[f] = row[f]
    BY <1>4, <2>1 DEF OwesFile, OwesFunctions, Clears, Phases, InFile
  <2>5. ASSUME NEW f \in Files, row'[f] # 0
        PROVE  /\ row'[f] = row[f]
               /\ filePts'[f] # 0 \/ (filePts[f] = 0 /\ ~OwesFile(run[p], f))
               /\ \A n \in Symbols[f][row[f]] : \/ fnPts'[f][n] # 0
                                                \/ fnPts[f][n] = 0 /\ ~OwesFunctions(run[p], f)
    BY <1>1, <1>4, <2>2, <2>3, <2>4, <2>5
  <2> QED
    BY <1>1, <2>1, <2>5, OwedStep
<1> QED
  BY <1>3, <1>4 DEF StorePoints

LEMMA CommitOwed ==
  ASSUME TypeOK, RunsInv, Owed, NEW p \in Procs, Commit(p)
  PROVE  Owed'
<1> SUFFICES ASSUME ~failed, NEW f \in Files, row'[f] # 0
             PROVE  /\ filePts'[f] # 0 \/ \E q \in Procs : Active(q)' /\ OwesFile(run[q], f)'
                    /\ \A n \in Symbols[f][row'[f]] :
                         fnPts'[f][n] # 0 \/ \E q \in Procs : Active(q)' /\ OwesFunctions(run[q], f)'
  BY Zenon DEF Owed, Commit
<1>1. /\ run[p].pc = "commit" /\ run[p] \in Runs
      /\ run'[p] = Committed(run[p])
      /\ \A q \in Procs \ {p} :
           run'[q] = IF run[q].pc = "delete" THEN PassedOver(run[q], run[p].gone, Deleted(q)) ELSE run[q]
      /\ RunTyped'
  BY CommitRuns DEF RunsInv
<1>2. Phases(run[p])
  BY <1>1, PhasesAt DEF Labels
<1>3. UNCHANGED <<filePts, fnPts>> /\ row'[f] = NewRow(p, f)
  BY DEF Commit, qdrant
<1>4. CASE f \in run[p].put
  <2>1. row'[f] = run[p].tree[f] /\ f \in Found(run[p]) /\ run[p].mode = "update"
    BY <1>1, <1>2, <1>3, <1>4 DEF NewRow, Phases, Found
  <2>2. run'[p].pc = "storefiles" /\ run'[p].tree = run[p].tree
    BY <1>1, <2>1 DEF Committed, Runs
  <2>3. Active(p)' /\ OwesFile(run[p], f)' /\ OwesFunctions(run[p], f)'
    BY <2>1, <2>2 DEF Active, OwesFile, OwesFunctions, Found
  <2> QED
    BY <2>3
<1>5. CASE f \notin run[p].put
  <2>1. row'[f] = row[f] /\ f \notin run[p].gone /\ row[f] # 0
    BY <1>3, <1>5 DEF NewRow, Kept
  <2>2. ~OwesFile(run[p], f) /\ ~OwesFunctions(run[p], f)
    BY <1>1, <1>5, <2>1 DEF OwesFile, OwesFunctions, Clears
  <2>3. ASSUME NEW q \in Procs \ {p}, Active(q)
        PROVE  /\ Active(q)'
               /\ OwesFile(run[q], f) => OwesFile(run[q], f)'
               /\ OwesFunctions(run[q], f) => OwesFunctions(run[q], f)'
    <3>1. CASE run[q].pc = "delete"
      <4> DEFINE to == Deleted(q)
      <4>1. run[q] \in Runs /\ run'[q] = PassedOver(run[q], run[p].gone, to)
        BY <1>1, <3>1, PhasesAt DEF Labels
      <4>2. to \in {"commit", "unfile"} /\ (run[q].mode = "rebuild" => to = "commit")
        BY DEF Deleted
      <4> HIDE DEF to
      <4>3. /\ run'[q].pc = IF run[q].todo \subseteq run[p].gone THEN to ELSE "delete"
            /\ run'[q].todo = run[q].todo \ run[p].gone /\ run'[q].gone = run[q].gone
            /\ run'[q].mode = run[q].mode /\ run'[q].put = run[q].put
        BY <3>1, <4>1 DEF PassedOver, Runs
      <4>4. Clears(run[q], f) => Clears(run'[q], f)
        BY <2>1, <3>1, <4>2, <4>3 DEF Clears
      <4> QED
        BY <3>1, <4>2, <4>3, <4>4 DEF OwesFile, OwesFunctions, Active
    <3>2. CASE run[q].pc # "delete"
      <4>1. run'[q] = run[q]
        BY <1>1, <3>2
      <4> QED
        BY <2>1, <2>3, <4>1 DEF OwesFile, OwesFunctions, Clears, Found, Active
    <3> QED
      BY <3>1, <3>2
  <2>4. filePts[f] # 0 \/ \E q \in Procs : Active(q) /\ OwesFile(run[q], f)
    BY <2>1 DEF Owed
  <2>5. \A n \in Symbols[f][row[f]] :
          fnPts[f][n] # 0 \/ \E q \in Procs : Active(q) /\ OwesFunctions(run[q], f)
    BY <2>1 DEF Owed
  <2>6. filePts'[f] # 0 \/ \E q \in Procs : Active(q)' /\ OwesFile(run[q], f)'
    BY <1>3, <2>2, <2>3, <2>4
  <2>7. ASSUME NEW n \in Symbols[f][row'[f]]
        PROVE  fnPts'[f][n] # 0 \/ \E q \in Procs : Active(q)' /\ OwesFunctions(run[q], f)'
    BY <1>3, <2>1, <2>2, <2>3, <2>5, <2>7
  <2> QED
    BY <2>6, <2>7
<1> QED
  BY <1>4, <1>5

(* The end of a run that owes nothing, and the runs that begin. *)
LEMMA EndOwed ==
  ASSUME RunsInv, Owed, NEW p \in Procs, End(p)
  PROVE  Owed'
<1>1. Stops(p) /\ run[p].pc = "done" /\ Phases(run[p])
  BY StopPhases, PhasesAt DEF End, Labels
<1>2. UNCHANGED <<row, filePts, fnPts, failed>>
  BY DEF End, pg, qdrant
<1>3. \A f \in Files : ~OwesFile(run[p], f) /\ ~OwesFunctions(run[p], f)
  BY <1>1 DEF OwesFile, OwesFunctions, Clears, Phases, InFile
<1>4. ASSUME NEW q \in Procs \ {p}, NEW f \in Files, Active(q)
      PROVE  /\ Active(q)'
             /\ OwesFile(run[q], f) => OwesFile(run[q], f)'
             /\ OwesFunctions(run[q], f) => OwesFunctions(run[q], f)'
  BY <1>1, <1>2, <1>4 DEF Stops, Active, OwesFile, OwesFunctions, Clears, Found
<1> QED
  BY <1>2, <1>3, <1>4 DEF Owed

LEMMA BeginOwed ==
  ASSUME RunsInv, Owed, NEW p \in Procs, NEW mode \in {"update", "rebuild", "recreate"}, Begin(p, mode),
         ~Active(p), UNCHANGED <<row, filePts, fnPts, failed>>
  PROVE  Owed'
<1>1. \A q \in Procs \ {p} : run'[q] = IF Active(q) THEN [run[q] EXCEPT !.alone = FALSE] ELSE run[q]
  BY BeginPhases
<1>2. ASSUME NEW q \in Procs, NEW f \in Files, Active(q)
      PROVE  /\ Active(q)'
             /\ OwesFile(run[q], f) => OwesFile(run[q], f)'
             /\ OwesFunctions(run[q], f) => OwesFunctions(run[q], f)'
  <2>1. run[q] \in Runs /\ run'[q] = [run[q] EXCEPT !.alone = FALSE]
    BY <1>1, <1>2 DEF RunsInv, RunTyped, Active, Idle
  <2>2. /\ run'[q].pc = run[q].pc /\ run'[q].todo = run[q].todo /\ run'[q].gone = run[q].gone
        /\ run'[q].mode = run[q].mode /\ run'[q].put = run[q].put /\ run'[q].at = run[q].at
        /\ run'[q].tree = run[q].tree
    BY <2>1 DEF Runs
  <2> QED
    BY <1>2, <2>2 DEF Active, OwesFile, OwesFunctions, Clears, Found
<1> QED
  BY <1>2 DEF Owed

LEMMA IdleOwed ==
  ASSUME Owed, UNCHANGED <<row, filePts, fnPts, failed>>,
         \A q \in Procs : Active(q) => run'[q] = run[q]
  PROVE  Owed'
<1>1. ASSUME NEW q \in Procs, NEW f \in Files, Active(q)
      PROVE  /\ Active(q)'
             /\ OwesFile(run[q], f) => OwesFile(run[q], f)'
             /\ OwesFunctions(run[q], f) => OwesFunctions(run[q], f)'
  BY <1>1 DEF Active, OwesFile, OwesFunctions, Clears, Found
<1> QED
  BY <1>1 DEF Owed

(***************************************************************************)
(* Types and foreign keys.                                                 *)
(***************************************************************************)
LEMMA CommitTyped ==
  ASSUME TypeOK, Whole, RunsInv, NEW p \in Procs, Commit(p)
  PROVE  TypeOK' /\ Whole'
<1>1. run[p] \in Runs /\ run[p].put \subseteq Found(run[p])
  BY PhasesAt DEF Commit, Labels, Phases
<1>2. UNCHANGED <<tree, colls, filePts, fnPts, lock, failed, runs, edits, failures>>
  BY DEF Commit, qdrant, bounds
<1>3. ASSUME NEW f \in Files
      PROVE  /\ NewRow(p, f) \in Content /\ NewBody(p, f) \in [Names -> Content]
             /\ NewEdges(p, f) \subseteq Names \X Callees
             /\ NewRow(p, f) = 0 => NewBody(p, f) = NoFunctions /\ NewEdges(p, f) = {}
             /\ \A e \in NewEdges(p, f) : NewBody(p, f)[e[1]] # 0
             /\ NewRow(p, f) # 0 => \A n \in Symbols[f][NewRow(p, f)] : NewBody(p, f)[n] # 0
  <2>1. /\ row[f] \in Content /\ body[f] \in [Names -> Content] /\ edges[f] \subseteq Names \X Callees
        /\ row[f] = 0 => body[f] = NoFunctions /\ edges[f] = {}
        /\ \A e \in edges[f] : body[f][e[1]] # 0
        /\ row[f] # 0 => \A n \in Symbols[f][row[f]] : body[f][n] # 0
    BY DEF TypeOK, Whole
  <2>2. NoFunctions \in [Names -> Content]
    BY DEF NoFunctions, Content
  <2>3. CASE f \in run[p].put
    <3> DEFINE v == run[p].tree[f]
               old == Kept(p, f, body[f], NoFunctions)
    <3>1. v \in Versions
      BY <1>1, <2>3 DEF Found, Runs, Content
    <3> HIDE DEF v
    <3>2. v # 0 /\ Symbols[f][v] \subseteq Names /\ Calls[f][v] \subseteq Names \X Callees
          /\ \A c \in Calls[f][v] : c[1] \in Symbols[f][v]
      BY <3>1, Contents
    <3>3. old \in [Names -> Content] /\ old \in {body[f], NoFunctions} /\ (old = NoFunctions \/ f \notin run[p].gone)
      BY <2>1, <2>2 DEF Kept
    <3> HIDE DEF old
    <3>4. /\ NewRow(p, f) = v
          /\ NewBody(p, f) = [n \in Names |-> IF n \in Symbols[f][v] THEN v ELSE old[n]]
          /\ NewEdges(p, f) = Kept(p, f, edges[f], {}) \cup Calls[f][v]
      BY <2>3 DEF NewRow, NewBody, NewEdges, v, old
    <3>5. NewBody(p, f) \in [Names -> Content]
      BY <3>1, <3>3, <3>4 DEF Content
    <3>6. \A n \in Symbols[f][v] : NewBody(p, f)[n] # 0
      BY <3>2, <3>4
    <3>7. ASSUME NEW e \in edges[f], f \notin run[p].gone PROVE NewBody(p, f)[e[1]] # 0
      <4>1. old = body[f] /\ e[1] \in Names /\ body[f][e[1]] # 0
        BY <2>1, <3>7 DEF old, Kept
      <4> QED
        BY <4>1, <3>2, <3>4
    <3>8. NewEdges(p, f) = (IF f \in run[p].gone THEN {} ELSE edges[f]) \cup Calls[f][v]
      BY <3>4 DEF Kept
    <3> QED
      BY <2>1, <3>1, <3>2, <3>4, <3>5, <3>6, <3>7, <3>8 DEF Content
  <2>4. CASE f \notin run[p].put
    <3>1. /\ NewRow(p, f) = Kept(p, f, row[f], 0) /\ NewBody(p, f) = Kept(p, f, body[f], NoFunctions)
          /\ NewEdges(p, f) = Kept(p, f, edges[f], {})
      BY <2>4 DEF NewRow, NewBody, NewEdges
    <3> QED
      BY <2>1, <2>2, <3>1 DEF Kept, Content
  <2> QED
    BY <2>3, <2>4
<1>4. /\ row' = [f \in Files |-> NewRow(p, f)] /\ body' = [f \in Files |-> NewBody(p, f)]
      /\ edges' = [f \in Files |-> NewEdges(p, f)]
  BY DEF Commit
<1>5. /\ row' \in [Files -> Content] /\ body' \in [Files -> [Names -> Content]]
      /\ edges' \in [Files -> SUBSET (Names \X Callees)]
      /\ \A f \in Files :
           /\ row'[f] = 0 => body'[f] = NoFunctions /\ edges'[f] = {}
           /\ \A e \in edges'[f] : body'[f][e[1]] # 0
      /\ Whole'
  <2>1. \A f \in Files : row'[f] = NewRow(p, f) /\ body'[f] = NewBody(p, f) /\ edges'[f] = NewEdges(p, f)
    BY <1>4
  <2> HIDE DEF NewRow, NewBody, NewEdges
  <2>2. /\ row' \in [Files -> Content] /\ body' \in [Files -> [Names -> Content]]
        /\ edges' \in [Files -> SUBSET (Names \X Callees)]
    BY <1>3, <1>4
  <2> QED
    BY <1>3, <2>1, <2>2 DEF Whole
<1> QED
  BY <1>2, <1>5 DEF TypeOK

LEMMA TruncateTyped ==
  ASSUME TypeOK, Whole, NEW p \in Procs, Truncate(p)
  PROVE  TypeOK' /\ Whole'
<1>1. NoFunctions \in [Names -> Content] /\ 0 \in Content
  BY DEF NoFunctions, Content
<1> QED
  BY <1>1 DEF Truncate, TypeOK, Whole, qdrant, bounds

(* The steps that change points only ... *)
LEMMA PointsTyped ==
  ASSUME TypeOK, Whole, RunsInv, NEW p \in Procs,
         DropCollection(p) \/ CreateCollection(p) \/ WipePoints(p) \/ Unindex(p) \/ StorePoints(p)
  PROVE  TypeOK' /\ Whole'
<1>1. NoFunctions \in [Names -> Content] /\ 0 \in Content
  BY DEF NoFunctions, Content
<1>2. UNCHANGED <<tree, row, body, edges, lock, failed, runs, edits, failures>>
  BY DEF DropCollection, CreateCollection, WipePoints, Unindex, StorePoints, pg, bounds
<1>3. CASE DropCollection(p)
  <2>1. Need(p) \in Colls
    BY DEF Need, Colls
  <2> QED
    BY <1>1, <1>2, <1>3, <2>1 DEF DropCollection, TypeOK, Whole, Need
<1>4. CASE CreateCollection(p)
  <2>1. Need(p) \in Colls
    BY DEF Need, Colls
  <2> QED
    BY <1>2, <1>4, <2>1 DEF CreateCollection, TypeOK, Whole
<1>5. CASE WipePoints(p)
  BY <1>1, <1>2, <1>5 DEF WipePoints, TypeOK, Whole
<1>6. CASE Unindex(p)
  <2>1. colls' = colls
    BY <1>6 DEF Unindex
  <2>2. CASE "files" \in colls /\ filePts' = [filePts EXCEPT ![run[p].at] = 0] /\ fnPts' = fnPts
    <3>1. filePts' \in [Files -> Content]
      BY <1>1, <2>2 DEF TypeOK
    <3> QED
      BY <1>2, <2>1, <2>2, <3>1 DEF TypeOK, Whole
  <2>3. CASE "functions" \in colls /\ fnPts' = [fnPts EXCEPT ![run[p].at] = NoFunctions] /\ filePts' = filePts
    <3>1. fnPts' \in [Files -> [Names -> Content]]
      BY <1>1, <2>3 DEF TypeOK
    <3> QED
      BY <1>2, <2>1, <2>3, <3>1 DEF TypeOK, Whole
  <2> QED
    BY <1>6, <2>2, <2>3 DEF Unindex
<1>7. CASE StorePoints(p)
  <2>1. colls' = colls /\ run[p] \in Runs
    BY <1>7, PhasesAt DEF StorePoints, Labels
  <2>2. \A f \in Files : run[p].tree[f] \in Content
    BY <2>1 DEF Runs
  <2>3. CASE /\ "files" \in colls /\ fnPts' = fnPts
             /\ filePts' = [f \in Files |-> IF f \in AllBatches(Parsed(p)) THEN run[p].tree[f] ELSE filePts[f]]
    <3>1. filePts' \in [Files -> Content]
      BY <2>2, <2>3 DEF TypeOK
    <3> QED
      BY <1>2, <2>1, <2>3, <3>1 DEF TypeOK, Whole
  <2>4. CASE /\ "functions" \in colls /\ filePts' = filePts
             /\ fnPts' = [f \in Files |-> [n \in Names |->
                 IF f \in AllBatches(Parsed(p)) /\ n \in Symbols[f][run[p].tree[f]]
                 THEN run[p].tree[f] ELSE fnPts[f][n]]]
    <3>1. fnPts' \in [Files -> [Names -> Content]]
      BY <2>2, <2>4 DEF TypeOK
    <3> QED
      BY <1>2, <2>1, <2>4, <3>1 DEF TypeOK, Whole
  <2> QED
    BY <1>7, <2>3, <2>4 DEF StorePoints
<1> QED
  BY <1>3, <1>4, <1>5, <1>6, <1>7

(* ... and those that change neither store. *)
LEMMA OtherTyped ==
  ASSUME TypeOK, Whole, RunsInv, UNCHANGED <<pg, qdrant>>,
         \/ \E p \in Procs : \/ Request(p) \/ Acquire(p) \/ StartScript(p) \/ Fail(p)
                             \/ ListCollections(p) \/ Parse(p) \/ StartDelete(p) \/ WriteFile(p)
                             \/ \E f \in Files : DeleteRow(p, f)
                             \/ End(p) \/ CollectionError(p) \/ Deadlock(p)
         \/ \E f \in Files : Edit(f)
         \/ UNCHANGED indexVars
  PROVE  TypeOK' /\ Whole'
<1>1. UNCHANGED <<row, body, edges, colls, filePts, fnPts>>
  BY DEF pg, qdrant
<1>2. CASE UNCHANGED <<tree, lock, failed, runs, edits, failures>>
  BY <1>1, <1>2 DEF TypeOK, Whole
<1>3. ASSUME NEW p \in Procs, Request(p) PROVE TypeOK' /\ Whole'
  BY <1>1, <1>3, CodeIndexAssumption DEF Request, TypeOK, Whole
<1>4. ASSUME NEW p \in Procs, Acquire(p) PROVE TypeOK' /\ Whole'
  <2>1. p \in Api
    BY <1>4 DEF Acquire, RunsInv, RunTyped
  <2> QED
    BY <1>1, <1>4, <2>1 DEF Acquire, TypeOK, Whole, bounds
<1>5. ASSUME NEW p \in Procs, StartScript(p) PROVE TypeOK' /\ Whole'
  BY <1>1, <1>5, CodeIndexAssumption DEF StartScript, TypeOK, Whole
<1>6. ASSUME NEW p \in Procs, Fail(p) PROVE TypeOK' /\ Whole'
  BY <1>1, <1>6, CodeIndexAssumption DEF Fail, Abort, Release, TypeOK, Whole
<1>7. ASSUME NEW p \in Procs, End(p) PROVE TypeOK' /\ Whole'
  BY <1>1, <1>7 DEF End, Release, TypeOK, Whole, bounds
<1>8. ASSUME NEW p \in Procs, CollectionError(p) \/ Deadlock(p) PROVE TypeOK' /\ Whole'
  <2>1. /\ UNCHANGED <<tree, runs, edits, failures>> /\ failed' = TRUE
        /\ lock' = lock \/ lock' = Free
    BY <1>8 DEF CollectionError, Deadlock, Abort, Release
  <2> QED
    BY <1>1, <2>1 DEF TypeOK, Whole
<1>9. ASSUME NEW f \in Files, Edit(f) PROVE TypeOK' /\ Whole'
  BY <1>1, <1>9, CodeIndexAssumption DEF Edit, TypeOK, Whole
<1>10. ASSUME NEW p \in Procs, NEW f \in Files,
              \/ ListCollections(p) \/ Parse(p) \/ StartDelete(p) \/ WriteFile(p) \/ DeleteRow(p, f)
       PROVE  UNCHANGED <<tree, lock, failed, runs, edits, failures>>
  BY <1>10 DEF ListCollections, Parse, StartDelete, WriteFile, DeleteRow, bounds
<1>11. ASSUME NEW p \in Procs, ListCollections(p) \/ Parse(p) \/ StartDelete(p) \/ WriteFile(p)
       PROVE  UNCHANGED <<tree, lock, failed, runs, edits, failures>>
  BY <1>11 DEF ListCollections, Parse, StartDelete, WriteFile, bounds
<1>12. CASE UNCHANGED indexVars
  BY <1>2, <1>12 DEF indexVars, bounds
<1> QED
  BY <1>2, <1>3, <1>4, <1>5, <1>6, <1>7, <1>8, <1>9, <1>10, <1>11, <1>12

(***************************************************************************)
(* A run that nothing overlapped.                                          *)
(***************************************************************************)
LEMMA LoneStep ==
  ASSUME Lone, NEW p \in Procs, Active(p), \A q \in Procs \ {p} : run'[q] = run[q],
         run'[p].alone = run[p].alone, run[p].alone /\ Made(run[p]) => Made(run[p])'
  PROVE  Lone'
<1> SUFFICES ASSUME NEW q \in Procs, Active(q)', run'[q].alone
             PROVE  Made(run[q])' /\ \A o \in Procs \ {q} : ~Active(o)'
  BY Zenon DEF Lone
<1>1. q = p
  <2> SUFFICES ASSUME q # p PROVE FALSE
    OBVIOUS
  <2>1. Active(q) /\ run[q].alone
    BY DEF Active
  <2> QED
    BY <2>1 DEF Lone
<1>2. run[p].alone /\ Made(run[p]) /\ \A o \in Procs \ {p} : ~Active(o)
  BY <1>1 DEF Lone
<1> QED
  BY <1>1, <1>2 DEF Active

(* A run that nothing overlapped has made of the stores what it should (...Lone). *)
LEMMA ListLone ==
  ASSUME TypeOK, RunsInv, Lone, NEW p \in Procs, ListCollections(p)
  PROVE  Lone'
<1> DEFINE need == IF run[p].mode = "recreate" THEN Colls ELSE Colls \ colls
           to == IF need = {} THEN Ensured(p) ELSE "ensure"
           r == [run[p] EXCEPT !.seen = colls, !.need = need, !.pc = to]
<1>1. Moves(p, "list", to) /\ run'[p] = r
  BY ListMoves DEF RunsInv
<1>2. run[p].pc = "list" /\ run[p] \in Runs /\ Phases(run[p]) /\ Active(p)
  BY <1>1, PhasesAt DEF Moves, Labels
<1>3. UNCHANGED <<row, body, edges, colls, filePts, fnPts>>
  BY DEF ListCollections, pg, qdrant
<1>4. to \in {"ensure", "truncate", "wipefiles", "parse"}
  BY <1>2 DEF Ensured, Runs
<1> HIDE DEF need, to
<1>5. /\ run'[p].pc = to /\ run'[p].mode = run[p].mode /\ run'[p].cleared = run[p].cleared
      /\ run'[p].put = run[p].put /\ run'[p].alone = run[p].alone
      /\ run'[p].seen = colls /\ run'[p].need = need
  BY <1>1, <1>2 DEF Runs
<1>6. run[p].put = {}
  BY <1>2 DEF Phases, InFile
<1>7. /\ "files" \notin colls => \A f \in Files : filePts[f] = 0
      /\ "functions" \notin colls => \A f \in Files : fnPts[f] = NoFunctions
      /\ run[p].mode = "recreate" => need = Colls
  BY DEF TypeOK, need
<1>8. Made(run[p]) => Made(run[p])'
  BY <1>2, <1>3, <1>4, <1>5, <1>6, <1>7 DEF Made, Empty, Colls
<1>9. \A q \in Procs \ {p} : run'[q] = run[q]
  BY <1>1 DEF Moves
<1> QED
  BY <1>2, <1>5, <1>8, <1>9, LoneStep

LEMMA DropLone ==
  ASSUME TypeOK, RunsInv, Lone, NEW p \in Procs, DropCollection(p)
  PROVE  Lone'
<1>1. Moves(p, "ensure", "ensure") /\ run'[p] = [run[p] EXCEPT !.seen = run[p].seen \ {Need(p)}]
  BY DropMoves DEF RunsInv
<1>2. run[p].pc = "ensure" /\ run[p] \in Runs /\ Phases(run[p]) /\ Active(p)
  BY <1>1, PhasesAt DEF Moves, Labels
<1>3. /\ run'[p].pc = "ensure" /\ run'[p].mode = run[p].mode /\ run'[p].cleared = run[p].cleared
      /\ run'[p].put = run[p].put /\ run'[p].alone = run[p].alone
      /\ run'[p].seen = run[p].seen \ {Need(p)} /\ run'[p].need = run[p].need
  BY <1>1, <1>2 DEF Runs
<1>4. run[p].put = {} /\ row' = row
  BY <1>2 DEF Phases, InFile, DropCollection, pg
<1>5. Need(p) \in {"files", "functions"}
      /\ (Need(p) = "files" => filePts' = [f \in Files |-> 0] /\ fnPts' = fnPts)
      /\ (Need(p) = "functions" => fnPts' = [f \in Files |-> NoFunctions] /\ filePts' = filePts)
  BY DEF Need, DropCollection
<1>6. Made(run[p]) => Made(run[p])'
  BY <1>2, <1>3, <1>4, <1>5 DEF Made, Empty
<1>7. \A q \in Procs \ {p} : run'[q] = run[q]
  BY <1>1 DEF Moves
<1> QED
  BY <1>2, <1>3, <1>6, <1>7, LoneStep

LEMMA CreateLone ==
  ASSUME TypeOK, RunsInv, Lone, NEW p \in Procs, CreateCollection(p)
  PROVE  Lone'
<1> DEFINE rest == run[p].need \ {Need(p)}
           to == IF rest = {} THEN Ensured(p) ELSE "ensure"
<1>1. Moves(p, "ensure", to) /\ run'[p] = [run[p] EXCEPT !.need = rest, !.pc = to]
  BY CreateMoves DEF RunsInv
<1>2. run[p].pc = "ensure" /\ run[p] \in Runs /\ Phases(run[p]) /\ Active(p)
  BY <1>1, PhasesAt DEF Moves, Labels
<1>3. to \in {"ensure", "truncate", "wipefiles", "parse"} /\ (to # "ensure" => rest = {})
  BY <1>2 DEF Ensured, Runs
<1> HIDE DEF to
<1>4. /\ run'[p].pc = to /\ run'[p].mode = run[p].mode /\ run'[p].cleared = run[p].cleared
      /\ run'[p].put = run[p].put /\ run'[p].alone = run[p].alone
      /\ run'[p].seen = run[p].seen /\ run'[p].need = rest
  BY <1>1, <1>2 DEF Runs
<1>5. run[p].put = {} /\ UNCHANGED <<row, filePts, fnPts>>
  BY <1>2 DEF Phases, InFile, CreateCollection, pg
<1>6. Need(p) \notin run[p].seen /\ rest \subseteq run[p].need
      /\ (run[p].need \cap run[p].seen) = (rest \cap run[p].seen)
  BY DEF CreateCollection
<1> HIDE DEF rest
<1>7. Made(run[p]) => Made(run[p])'
  BY <1>2, <1>3, <1>4, <1>5, <1>6 DEF Made, Empty
<1>8. \A q \in Procs \ {p} : run'[q] = run[q]
  BY <1>1 DEF Moves
<1> QED
  BY <1>2, <1>4, <1>7, <1>8, LoneStep

LEMMA TruncateLone ==
  ASSUME TypeOK, RunsInv, Lone, NEW p \in Procs, Truncate(p)
  PROVE  Lone'
<1>1. Moves(p, "truncate", "list")
      /\ run'[p] = [run[p] EXCEPT !.pc = "list", !.mode = "update", !.cleared = TRUE, !.gone = {}]
  BY TruncateMoves DEF RunsInv
<1>2. run[p].pc = "truncate" /\ run[p] \in Runs /\ Phases(run[p]) /\ Active(p)
  BY <1>1, PhasesAt DEF Moves, Labels
<1>3. /\ run'[p].pc = "list" /\ run'[p].mode = "update" /\ run'[p].cleared = TRUE
      /\ run'[p].put = run[p].put /\ run'[p].alone = run[p].alone
  BY <1>1, <1>2 DEF Runs
<1>4. run[p].put = {} /\ run[p].need = {} /\ run[p].mode = "recreate"
  BY <1>2 DEF Phases, InFile
<1>5. UNCHANGED <<filePts, fnPts>> /\ \A f \in Files : row'[f] = 0
  BY DEF Truncate, qdrant
<1>6. Made(run[p]) => Made(run[p])'
  BY <1>2, <1>3, <1>4, <1>5 DEF Made, Empty
<1>7. \A q \in Procs \ {p} : run'[q] = run[q]
  BY <1>1 DEF Moves
<1> QED
  BY <1>2, <1>3, <1>6, <1>7, LoneStep

LEMMA WipePointsLone ==
  ASSUME TypeOK, RunsInv, Lone, NEW p \in Procs, WipePoints(p)
  PROVE  Lone'
<1>1. row' = row
  BY DEF WipePoints, pg
<1>2. CASE run[p].pc = "wipefiles" /\ Goto(p, "wipefunctions") /\ fnPts' = fnPts /\ filePts' = [f \in Files |-> 0]
  <2>1. /\ Phases(run[p]) /\ Active(p) /\ \A q \in Procs \ {p} : run'[q] = run[q]
        /\ run'[p].pc = "wipefunctions" /\ run'[p].mode = run[p].mode /\ run'[p].cleared = run[p].cleared
        /\ run'[p].put = run[p].put /\ run'[p].alone = run[p].alone
    BY <1>2, GotoFacts DEF Labels
  <2>2. run[p].put = {} /\ run[p].mode = "rebuild" /\ ~run[p].cleared
    BY <1>2, <2>1 DEF Phases, InFile
  <2>3. Made(run[p]) => Made(run[p])'
    BY <1>1, <1>2, <2>1, <2>2 DEF Made, Empty
  <2> QED
    BY <2>1, <2>3, LoneStep
<1>3. CASE run[p].pc = "wipefunctions" /\ Goto(p, "row") /\ filePts' = filePts /\ fnPts' = [f \in Files |-> NoFunctions]
  <2>1. /\ Phases(run[p]) /\ Active(p) /\ \A q \in Procs \ {p} : run'[q] = run[q]
        /\ run'[p].pc = "row" /\ run'[p].mode = run[p].mode /\ run'[p].cleared = run[p].cleared
        /\ run'[p].put = run[p].put /\ run'[p].alone = run[p].alone
    BY <1>3, GotoFacts DEF Labels
  <2>2. run[p].put = {} /\ run[p].mode = "rebuild" /\ ~run[p].cleared
    BY <1>3, <2>1 DEF Phases, InFile
  <2>3. Made(run[p]) => Made(run[p])'
    BY <1>1, <1>3, <2>1, <2>2 DEF Made, Empty
  <2> QED
    BY <2>1, <2>3, LoneStep
<1> QED
  BY <1>2, <1>3 DEF WipePoints

LEMMA ParseLone ==
  ASSUME TypeOK, RunsInv, Lone, NEW p \in Procs, Parse(p)
  PROVE  Lone'
<1> DEFINE found == {f \in Files : tree[f] # 0}
           at == IF found = {} THEN 0 ELSE First(found)
           to == IF found = {} THEN "done" ELSE "row"
<1>1. Moves(p, "parse", to) /\ run'[p] = [run[p] EXCEPT !.tree = tree, !.at = at, !.pc = to]
  BY ParseMoves DEF RunsInv
<1>2. run[p].pc = "parse" /\ run[p] \in Runs /\ Phases(run[p]) /\ Active(p)
  BY <1>1, PhasesAt DEF Moves, Labels
<1>3. to \in {"done", "row"} /\ (to = "done" => found = {})
  OBVIOUS
<1> HIDE DEF at, to
<1>4. /\ run'[p].pc = to /\ run'[p].mode = run[p].mode /\ run'[p].cleared = run[p].cleared
      /\ run'[p].put = run[p].put /\ run'[p].alone = run[p].alone /\ run'[p].tree = tree
  BY <1>1, <1>2 DEF Runs
<1>5. run[p].put = {} /\ run[p].mode = "update" /\ UNCHANGED <<row, body, edges, filePts, fnPts>>
  BY <1>2 DEF Phases, InFile, Parse, pg, qdrant
<1>6. to = "done" => \A f \in Files : tree[f] = 0
  BY <1>3
<1>7. ASSUME Made(run[p]) PROVE Made(run[p])'
  <2>1. CASE to = "row"
    BY <1>2, <1>4, <1>5, <1>7, <2>1 DEF Made, Empty
  <2>2. CASE to = "done"
    <3>1. \A f \in Files : f \notin Found(run[p])' /\ run'[p].tree[f] = 0
      BY <1>4, <1>6, <2>2 DEF Found
    <3>2. \A f \in Files : FunctionsOf(run[p], f)' = NoFunctions
      BY <3>1 DEF FunctionsOf, NoFunctions
    <3>3. run[p].cleared => \A f \in Files : /\ row[f] = 0 /\ filePts[f] = 0 /\ fnPts[f] = NoFunctions
                                             /\ body[f] = NoFunctions /\ edges[f] = {}
      BY <1>2, <1>7 DEF Made, Empty, TypeOK
    <3> QED
      BY <1>4, <1>5, <2>2, <3>1, <3>2, <3>3 DEF Made
  <2> QED
    BY <1>3, <2>1, <2>2
<1>8. \A q \in Procs \ {p} : run'[q] = run[q]
  BY <1>1 DEF Moves
<1> QED
  BY <1>2, <1>4, <1>7, <1>8, LoneStep

LEMMA StartDeleteLone ==
  ASSUME TypeOK, RunsInv, Lone, NEW p \in Procs, StartDelete(p)
  PROVE  Lone'
<1> DEFINE rows == {f \in Files : row[f] # 0 /\ (run[p].mode = "rebuild" \/ f = run[p].at)}
           to == IF rows = {} THEN Deleted(p) ELSE "delete"
<1>1. Moves(p, "row", to) /\ run'[p] = [run[p] EXCEPT !.todo = rows \ run[p].gone, !.pc = to]
  BY StartDeleteMoves DEF RunsInv
<1>2. run[p].pc = "row" /\ run[p] \in Runs /\ Phases(run[p]) /\ Active(p)
  BY <1>1, PhasesAt DEF Moves, Labels
<1>3. /\ to = "delete" \/ (to = "commit" /\ run[p].mode = "rebuild") \/ (to = "unfile" /\ run[p].mode = "update")
      /\ to # "delete" => rows = {}
  BY <1>2 DEF Deleted, Phases, Runs
<1>4. run[p].mode = "update" => run[p].at \in Files
  BY <1>2 DEF Phases, InFile, Found
<1> HIDE DEF to, rows
<1>5. /\ run'[p].pc = to /\ run'[p].mode = run[p].mode /\ run'[p].cleared = run[p].cleared
      /\ run'[p].put = run[p].put /\ run'[p].alone = run[p].alone /\ run'[p].at = run[p].at
      /\ run'[p].gone = run[p].gone /\ run'[p].todo = rows \ run[p].gone
  BY <1>1, <1>2 DEF Runs
<1>6. UNCHANGED <<row, filePts, fnPts>>
  BY DEF StartDelete, pg, qdrant
<1>7. ASSUME Made(run[p]) PROVE Made(run[p])'
  <2>1. to = "unfile" => row[run[p].at] = 0
    BY <1>3, <1>4 DEF rows
  <2>2. run[p].mode = "rebuild" => \A f \in Files : row[f] # 0 => f \in rows
    BY DEF rows
  <2>3. run[p].mode = "rebuild" => \A f \in Files : row[f] # 0 => Clears(run[p], f)'
    BY <1>3, <1>5, <2>2 DEF Clears
  <2> QED
    BY <1>2, <1>3, <1>5, <1>6, <1>7, <2>1, <2>3 DEF Made, Empty
<1>8. \A q \in Procs \ {p} : run'[q] = run[q]
  BY <1>1 DEF Moves
<1> QED
  BY <1>2, <1>5, <1>7, <1>8, LoneStep

LEMMA DeleteRowLone ==
  ASSUME TypeOK, RunsInv, Lone, NEW p \in Procs, NEW g \in Files, DeleteRow(p, g)
  PROVE  Lone'
<1> DEFINE to == IF run[p].todo = {g} THEN Deleted(p) ELSE "delete"
<1>1. /\ Moves(p, "delete", to)
      /\ run'[p] = [run[p] EXCEPT !.gone = run[p].gone \cup {g}, !.todo = run[p].todo \ {g}, !.pc = to]
  BY DeleteRowMoves DEF RunsInv
<1>2. run[p].pc = "delete" /\ run[p] \in Runs /\ Phases(run[p]) /\ Active(p)
  BY <1>1, PhasesAt DEF Moves, Labels
<1>3. /\ to = "delete" \/ (to = "commit" /\ run[p].mode = "rebuild") \/ (to = "unfile" /\ run[p].mode = "update")
      /\ to # "delete" => run[p].todo = {g}
  BY <1>2 DEF Deleted, Phases, Runs
<1>4. run[p].mode = "update" => g = run[p].at
  BY <1>2 DEF Phases, InFile, DeleteRow
<1> HIDE DEF to
<1>5. /\ run'[p].pc = to /\ run'[p].mode = run[p].mode /\ run'[p].cleared = run[p].cleared
      /\ run'[p].put = run[p].put /\ run'[p].alone = run[p].alone /\ run'[p].at = run[p].at
      /\ run'[p].gone = run[p].gone \cup {g} /\ run'[p].todo = run[p].todo \ {g}
  BY <1>1, <1>2 DEF Runs
<1>6. UNCHANGED <<row, filePts, fnPts>>
  BY DEF DeleteRow, pg, qdrant
<1>7. ASSUME Made(run[p]) PROVE Made(run[p])'
  <2>1. \A f \in Files : run[p].mode = "rebuild" /\ Clears(run[p], f) => Clears(run[p], f)'
    BY <1>2, <1>3, <1>5 DEF Clears
  <2> QED
    BY <1>2, <1>3, <1>4, <1>5, <1>6, <1>7, <2>1 DEF Made, Empty
<1>8. \A q \in Procs \ {p} : run'[q] = run[q]
  BY <1>1 DEF Moves
<1> QED
  BY <1>2, <1>5, <1>7, <1>8, LoneStep

LEMMA UnindexLone ==
  ASSUME TypeOK, RunsInv, Lone, NEW p \in Procs, Unindex(p)
  PROVE  Lone'
<1>1. row' = row /\ run[p].pc \in {"unfile", "unfunction"}
  BY DEF Unindex, pg
<1>2. run[p] \in Runs /\ Phases(run[p]) /\ Active(p)
  BY <1>1, PhasesAt DEF Labels
<1>3. run[p].mode = "update" /\ run[p].at \in Files
  BY <1>1, <1>2 DEF Phases, InFile, Found
<1>4. CASE /\ run[p].pc = "unfile" /\ Goto(p, "unfunction") /\ fnPts' = fnPts
           /\ filePts' = [filePts EXCEPT ![run[p].at] = 0]
  <2>1. /\ \A q \in Procs \ {p} : run'[q] = run[q]
        /\ run'[p].pc = "unfunction" /\ run'[p].mode = run[p].mode /\ run'[p].cleared = run[p].cleared
        /\ run'[p].put = run[p].put /\ run'[p].alone = run[p].alone /\ run'[p].at = run[p].at
        /\ run'[p].gone = run[p].gone
    BY <1>4, GotoFacts DEF Labels
  <2>2. filePts'[run[p].at] = 0 /\ \A f \in Files : filePts[f] = 0 => filePts'[f] = 0
    BY <1>3, <1>4 DEF TypeOK
  <2>3. run[p].put \subseteq Files
    BY <1>2 DEF Runs
  <2>4. Made(run[p]) => Made(run[p])'
    BY <1>1, <1>3, <1>4, <2>1, <2>2, <2>3 DEF Made, Empty
  <2> QED
    BY <1>2, <2>1, <2>4, LoneStep
<1>5. CASE /\ run[p].pc = "unfunction" /\ Goto(p, "write") /\ filePts' = filePts
           /\ fnPts' = [fnPts EXCEPT ![run[p].at] = NoFunctions]
  <2>1. /\ \A q \in Procs \ {p} : run'[q] = run[q]
        /\ run'[p].pc = "write" /\ run'[p].mode = run[p].mode /\ run'[p].cleared = run[p].cleared
        /\ run'[p].put = run[p].put /\ run'[p].alone = run[p].alone /\ run'[p].at = run[p].at
        /\ run'[p].gone = run[p].gone
    BY <1>5, GotoFacts DEF Labels
  <2>2. fnPts'[run[p].at] = NoFunctions /\ \A f \in Files : fnPts[f] = NoFunctions => fnPts'[f] = NoFunctions
    BY <1>3, <1>5 DEF TypeOK
  <2>3. run[p].put \subseteq Files
    BY <1>2 DEF Runs
  <2>4. Made(run[p]) => Made(run[p])'
    BY <1>1, <1>3, <1>5, <2>1, <2>2, <2>3 DEF Made, Empty
  <2> QED
    BY <1>2, <2>1, <2>4, LoneStep
<1> QED
  BY <1>4, <1>5 DEF Unindex

LEMMA WriteFileLone ==
  ASSUME TypeOK, RunsInv, Lone, NEW p \in Procs, WriteFile(p)
  PROVE  Lone'
<1> DEFINE g == run[p].at
           at == IF After(p, g) = {} THEN 0 ELSE First(After(p, g))
           to == IF After(p, g) = {} THEN "commit" ELSE "row"
<1>1. g \in Files
  BY WriteFilePhases DEF Found
<1>2. Moves(p, "write", to) /\ run'[p] = [run[p] EXCEPT !.put = run[p].put \cup {g}, !.at = at, !.pc = to]
  BY <1>1, WriteFileMoves DEF RunsInv
<1>3. run[p].pc = "write" /\ run[p] \in Runs /\ Phases(run[p]) /\ Active(p)
  BY <1>2, PhasesAt DEF Moves, Labels
<1>4. to \in {"commit", "row"}
  OBVIOUS
<1> HIDE DEF to, at
<1>5. /\ run'[p].pc = to /\ run'[p].mode = run[p].mode /\ run'[p].cleared = run[p].cleared
      /\ run'[p].put = run[p].put \cup {g} /\ run'[p].alone = run[p].alone /\ run'[p].gone = run[p].gone
  BY <1>2, <1>3 DEF Runs
<1>6. UNCHANGED <<row, filePts, fnPts>> /\ run[p].mode = "update"
  BY <1>3 DEF WriteFile, pg, qdrant, Phases
<1>7. Made(run[p]) => Made(run[p])'
  BY <1>3, <1>4, <1>5, <1>6 DEF Made, Empty
<1>8. \A q \in Procs \ {p} : run'[q] = run[q]
  BY <1>2 DEF Moves
<1> QED
  BY <1>3, <1>5, <1>7, <1>8, LoneStep

LEMMA CommitLone ==
  ASSUME TypeOK, RunsInv, Lone, NEW p \in Procs, Commit(p)
  PROVE  Lone'
<1>1. /\ run[p].pc = "commit" /\ run[p] \in Runs /\ run'[p] = Committed(run[p])
      /\ \A q \in Procs \ {p} :
           run'[q] = IF run[q].pc = "delete" THEN PassedOver(run[q], run[p].gone, Deleted(q)) ELSE run[q]
  BY CommitRuns DEF RunsInv
<1>2. Phases(run[p]) /\ Active(p)
  BY <1>1, PhasesAt DEF Labels
<1>3. run'[p].alone = run[p].alone /\ run'[p].tree = run[p].tree /\ Found(run'[p]) = Found(run[p])
      /\ run'[p].pc \in {"list", "storefiles"}
  BY <1>1 DEF Committed, Runs, Found
<1>4. CASE run[p].alone
  <2>1. Made(run[p]) /\ \A q \in Procs \ {p} : ~Active(q)
    BY <1>2, <1>4 DEF Lone
  <2>2. \A q \in Procs \ {p} : run'[q] = run[q]
    BY <1>1, <2>1 DEF Active
  <2>3. UNCHANGED <<filePts, fnPts>>
    BY DEF Commit, qdrant
  <2>4. CASE run[p].mode = "rebuild"
    <3>1. /\ run'[p].pc = "list" /\ run'[p].mode = "update" /\ run'[p].cleared = TRUE
          /\ run'[p].put = run[p].put /\ run[p].put = {}
      BY <1>1, <1>2, <2>4 DEF Committed, Runs, Phases, InFile
    <3>2. \A f \in Files : row[f] # 0 => f \in run[p].gone
      BY <1>1, <2>1, <2>4 DEF Made, Clears
    <3>3. \A f \in Files : row'[f] = 0
      BY <3>1, <3>2 DEF Commit, NewRow, Kept
    <3>4. Made(run[p])'
      BY <1>1, <2>1, <2>3, <2>4, <3>1, <3>3 DEF Made, Empty
    <3> QED
      BY <1>2, <1>3, <2>2, <3>4, LoneStep
  <2>5. CASE run[p].mode # "rebuild"
    <3>1. /\ run'[p].pc = "storefiles" /\ run'[p].mode = run[p].mode /\ run'[p].put = {}
          /\ run'[p].cleared = run[p].cleared /\ run[p].mode = "update"
      BY <1>1, <1>2, <2>5 DEF Committed, Runs, Phases
    <3>2. run[p].put = Found(run[p])
      BY <1>1, <1>2, <3>1 DEF Phases
    <3>3. ASSUME NEW f \in Files, f \in Found(run[p]) \/ run[p].cleared
          PROVE  /\ row'[f] = run[p].tree[f] /\ body'[f] = FunctionsOf(run[p], f)
                 /\ edges'[f] = IF run[p].tree[f] = 0 THEN {} ELSE Calls[f][run[p].tree[f]]
                 /\ filePts[f] = 0 /\ fnPts[f] = NoFunctions
      <4>1. filePts[f] = 0 /\ fnPts[f] = NoFunctions /\ (row[f] = 0 \/ f \in run[p].gone)
        BY <1>1, <2>1, <3>2, <3>3 DEF Made, Empty
      <4>2. /\ row[f] = 0 => body[f] = NoFunctions /\ edges[f] = {}
        BY DEF TypeOK
      <4>3. /\ Kept(p, f, row[f], 0) = 0 /\ Kept(p, f, body[f], NoFunctions) = NoFunctions
            /\ Kept(p, f, edges[f], {}) = {}
        BY <4>1, <4>2 DEF Kept
      <4>4. row'[f] = NewRow(p, f) /\ body'[f] = NewBody(p, f) /\ edges'[f] = NewEdges(p, f)
        BY DEF Commit
      <4>5. CASE f \in run[p].put
        <5> DEFINE v == run[p].tree[f]
        <5>1. v # 0
          BY <3>2, <4>5 DEF Found
        <5>2. /\ NewRow(p, f) = v /\ NewEdges(p, f) = Calls[f][v]
          BY <4>3, <4>5 DEF NewRow, NewEdges
        <5>3. NewBody(p, f) = [n \in Names |-> IF n \in Symbols[f][v] THEN v ELSE NoFunctions[n]]
          BY <4>3, <4>5 DEF NewBody
        <5>4. NewBody(p, f) = FunctionsOf(run[p], f)
          BY <5>1, <5>3 DEF FunctionsOf, NoFunctions
        <5> QED
          BY <4>1, <4>4, <5>1, <5>2, <5>4
      <4>6. CASE f \notin run[p].put
        <5>1. run[p].tree[f] = 0
          BY <3>2, <4>6 DEF Found
        <5>2. FunctionsOf(run[p], f) = NoFunctions
          BY <5>1 DEF FunctionsOf, NoFunctions
        <5>3. NewRow(p, f) = 0 /\ NewBody(p, f) = NoFunctions /\ NewEdges(p, f) = {}
          BY <4>3, <4>6 DEF NewRow, NewBody, NewEdges
        <5> QED
          BY <4>1, <4>4, <5>1, <5>2, <5>3
      <4> QED
        BY <4>5, <4>6
    <3>4. \A f \in Files : FunctionsOf(run[p], f)' = FunctionsOf(run[p], f)
      BY <1>3 DEF FunctionsOf
    <3>5. Made(run[p])'
      BY <1>3, <2>3, <3>1, <3>3, <3>4 DEF Made
    <3> QED
      BY <1>2, <1>3, <2>2, <3>5, LoneStep
  <2> QED
    BY <2>4, <2>5
<1>5. CASE ~run[p].alone
  <2>1. ASSUME NEW q \in Procs, Active(q)', run'[q].alone PROVE FALSE
    <3>1. q # p
      BY <1>3, <1>5, <2>1
    <3>2. run'[q].alone = run[q].alone /\ Active(q)
      <4>1. CASE run[q].pc = "delete"
        <5>1. run[q] \in Runs /\ run'[q] = PassedOver(run[q], run[p].gone, Deleted(q))
          BY <1>1, <3>1, <4>1, PhasesAt DEF Labels
        <5> QED
          BY <4>1, <5>1 DEF PassedOver, Runs, Active
      <4>2. CASE run[q].pc # "delete"
        BY <1>1, <2>1, <3>1, <4>2 DEF Active
      <4> QED
        BY <4>1, <4>2
    <3> QED
      BY <1>2, <2>1, <3>1, <3>2 DEF Lone
  <2> QED
    BY <2>1 DEF Lone
<1> QED
  BY <1>4, <1>5

LEMMA StorePointsLone ==
  ASSUME TypeOK, RunsInv, Lone, NEW p \in Procs, StorePoints(p)
  PROVE  Lone'
<1>1. UNCHANGED <<row, body, edges>> /\ run[p].pc \in {"storefiles", "storefunctions"}
  BY DEF StorePoints, pg
<1>2. run[p] \in Runs /\ Phases(run[p]) /\ Active(p)
  BY <1>1, PhasesAt DEF Labels
<1>3. run[p].put = {} /\ run[p].mode = "update"
  BY <1>1, <1>2 DEF Phases, InFile
<1>4. AllBatches(Parsed(p)) = Found(run[p])
  BY DEF AllBatches, Parsed, Found
<1>5. CASE /\ run[p].pc = "storefiles" /\ Goto(p, "storefunctions") /\ fnPts' = fnPts
           /\ filePts' = [f \in Files |-> IF f \in AllBatches(Parsed(p)) THEN run[p].tree[f] ELSE filePts[f]]
  <2>1. /\ \A q \in Procs \ {p} : run'[q] = run[q]
        /\ run'[p].pc = "storefunctions" /\ run'[p].mode = run[p].mode /\ run'[p].cleared = run[p].cleared
        /\ run'[p].put = run[p].put /\ run'[p].alone = run[p].alone /\ run'[p].tree = run[p].tree
        /\ Found(run'[p]) = Found(run[p])
    BY <1>5, GotoFacts DEF Labels
  <2>2. \A f \in Files : f \notin Found(run[p]) => run[p].tree[f] = 0
    BY DEF Found
  <2>3. \A f \in Files : FunctionsOf(run[p], f)' = FunctionsOf(run[p], f)
    BY <2>1 DEF FunctionsOf
  <2>4. Made(run[p]) => Made(run[p])'
    BY <1>1, <1>3, <1>4, <1>5, <2>1, <2>2, <2>3 DEF Made
  <2> QED
    BY <1>2, <2>1, <2>4, LoneStep
<1>6. CASE /\ run[p].pc = "storefunctions" /\ Goto(p, "done") /\ filePts' = filePts
           /\ fnPts' = [f \in Files |-> [n \in Names |->
                 IF f \in AllBatches(Parsed(p)) /\ n \in Symbols[f][run[p].tree[f]]
                 THEN run[p].tree[f] ELSE fnPts[f][n]]]
  <2>1. /\ \A q \in Procs \ {p} : run'[q] = run[q]
        /\ run'[p].pc = "done" /\ run'[p].mode = run[p].mode /\ run'[p].cleared = run[p].cleared
        /\ run'[p].put = run[p].put /\ run'[p].alone = run[p].alone /\ run'[p].tree = run[p].tree
        /\ Found(run'[p]) = Found(run[p])
    BY <1>6, GotoFacts DEF Labels
  <2>2. ASSUME NEW f \in Files, fnPts[f] = NoFunctions PROVE fnPts'[f] = FunctionsOf(run[p], f)
    <3>1. f \in Found(run[p]) <=> run[p].tree[f] # 0
      BY DEF Found
    <3> QED
      BY <1>4, <1>6, <2>2, <3>1 DEF FunctionsOf, NoFunctions
  <2>3. \A f \in Files : FunctionsOf(run[p], f)' = FunctionsOf(run[p], f)
    BY <2>1 DEF FunctionsOf
  <2>4. Made(run[p]) => Made(run[p])'
    BY <1>1, <1>3, <1>6, <2>1, <2>2, <2>3 DEF Made
  <2> QED
    BY <1>2, <2>1, <2>4, LoneStep
<1> QED
  BY <1>5, <1>6 DEF StorePoints

LEMMA StopLone ==
  ASSUME Lone, NEW p \in Procs, Active(p), Stops(p)
  PROVE  Lone'
<1> SUFFICES ASSUME NEW q \in Procs, Active(q)', run'[q].alone PROVE FALSE
  BY Zenon DEF Lone
<1>1. q # p
  BY DEF Stops, Active, Idle
<1> QED
  BY <1>1 DEF Stops, Active, Lone

LEMMA BeginLone ==
  ASSUME TypeOK, RunsInv, Lone, NEW p \in Procs, ~Active(p), NEW mode \in {"update", "rebuild", "recreate"},
         Begin(p, mode), UNCHANGED <<row, body, edges, filePts, fnPts>>
  PROVE  Lone'
<1>1. /\ run'[p] = Fresh(mode, \A q \in Procs \ {p} : ~Active(q))
      /\ \A q \in Procs \ {p} : run'[q] = IF Active(q) THEN [run[q] EXCEPT !.alone = FALSE] ELSE run[q]
  BY BeginPhases
<1> SUFFICES ASSUME NEW q \in Procs, Active(q)', run'[q].alone
             PROVE  Made(run[q])' /\ \A o \in Procs \ {q} : ~Active(o)'
  BY Zenon DEF Lone
<1>2. q = p
  <2> SUFFICES ASSUME q # p PROVE FALSE
    OBVIOUS
  <2>1. CASE Active(q)
    <3>1. run[q] \in Runs
      BY <2>1 DEF RunsInv, RunTyped, Active, Idle
    <3> QED
      BY <1>1, <2>1, <3>1 DEF Runs
  <2>2. CASE ~Active(q)
    BY <1>1, <2>2 DEF Active
  <2> QED
    BY <2>1, <2>2
<1>3. \A o \in Procs \ {p} : ~Active(o)
  BY <1>1, <1>2 DEF Fresh
<1>4. \A o \in Procs \ {p} : ~Active(o)'
  BY <1>1, <1>3 DEF Active
<1>5. Made(run[p])'
  BY <1>1 DEF Made, Fresh
<1> QED
  BY <1>2, <1>4, <1>5

LEMMA IdleLone ==
  ASSUME Lone, UNCHANGED <<row, body, edges, filePts, fnPts>>,
         \A q \in Procs : (Active(q)' => Active(q)) /\ (Active(q) => run'[q] = run[q])
  PROVE  Lone'
<1> SUFFICES ASSUME NEW q \in Procs, Active(q)', run'[q].alone
             PROVE  Made(run[q])' /\ \A o \in Procs \ {q} : ~Active(o)'
  BY Zenon DEF Lone
<1>1. Active(q) /\ run'[q] = run[q] /\ Made(run[q]) /\ \A o \in Procs \ {q} : ~Active(o)
  BY DEF Lone
<1>2. \A f \in Files : /\ FunctionsOf(run[q], f)' = FunctionsOf(run[q], f)
                       /\ Clears(run[q], f)' = Clears(run[q], f)
  BY <1>1 DEF FunctionsOf, Clears
<1>3. Found(run[q])' = Found(run[q])
  BY <1>1 DEF Found
<1>4. Made(run[q])'
  BY <1>1, <1>2, <1>3 DEF Made, Empty
<1> QED
  BY <1>1, <1>4

-----------------------------------------------------------------------------
(* The invariant holds when a run has just indexed all files. *)
LEMMA IndexStarts ==
  ASSUME IndexInit
  PROVE  IndexInv
<1>1. \A p \in Procs : run[p] = Idle /\ ~Active(p)
  BY DEF IndexInit, Active, Idle
<1>2. RunsInv
  <2>1. RunTyped
    BY DEF IndexInit, RunTyped, Idle
  <2> QED
    BY <1>1, <2>1, Zenon DEF RunsInv
<1>3. Lone
  BY <1>1, Zenon DEF Lone
<1>4. \A f \in Files : /\ Symbols[f][1] \subseteq Names /\ Calls[f][1] \subseteq Names \X Callees
                       /\ \A c \in Calls[f][1] : c[1] \in Symbols[f][1]
  BY Contents, CodeIndexAssumption
<1>5. /\ 1 \in Content /\ 0 \in Content /\ MaxRuns \in Nat /\ MaxEdits \in Nat /\ MaxFailures \in Nat
  BY CodeIndexAssumption DEF Content
<1>6. \A f \in Files : /\ tree[f] = 1 /\ row[f] = 1 /\ filePts[f] = 1 /\ fnPts[f] = body[f]
                       /\ \A n \in Names : body[f][n] = IF n \in Symbols[f][1] THEN 1 ELSE 0
  BY DEF IndexInit
<1>7. TypeOK
  <2>1. tree \in [Files -> Content] /\ row \in [Files -> Content] /\ filePts \in [Files -> Content]
    BY <1>5 DEF IndexInit
  <2>2. body \in [Files -> [Names -> Content]] /\ fnPts \in [Files -> [Names -> Content]]
    BY <1>5 DEF IndexInit
  <2>3. edges \in [Files -> SUBSET (Names \X Callees)]
    BY <1>4 DEF IndexInit
  <2>4. ASSUME NEW f \in Files
        PROVE  /\ row[f] = 0 => body[f] = NoFunctions /\ edges[f] = {}
               /\ \A e \in edges[f] : body[f][e[1]] # 0
    <3>1. edges[f] = Calls[f][1]
      BY DEF IndexInit
    <3>2. ASSUME NEW e \in edges[f]
          PROVE  body[f][e[1]] # 0
      <4>1. e[1] \in Symbols[f][1]
        BY <1>4, <3>1
      <4> QED
        BY <4>1, <1>4, <1>6
    <3> QED
      BY <1>6, <3>2
  <2>5. colls \subseteq Colls /\ "files" \in colls /\ "functions" \in colls
    BY DEF IndexInit, Colls
  <2>6. lock \in Api \cup {Free} /\ failed \in BOOLEAN /\ runs \in 0..MaxRuns /\ edits \in 0..MaxEdits
        /\ failures \in 0..MaxFailures
    <3>1. lock = Free /\ failed = FALSE /\ runs = 0 /\ edits = 0 /\ failures = 0
      BY DEF IndexInit
    <3>2. 0 \in 0..MaxRuns /\ 0 \in 0..MaxEdits /\ 0 \in 0..MaxFailures
      BY <1>5
    <3> QED
      BY <3>1, <3>2
  <2> QED
    BY <2>1, <2>2, <2>3, <2>4, <2>5, <2>6, Zenon DEF TypeOK
<1>8. Whole
  BY <1>4, <1>6 DEF Whole
<1>9. Owed
  BY <1>4, <1>6 DEF Owed
<1> QED
  BY <1>2, <1>3, <1>7, <1>8, <1>9 DEF IndexInv

(* An error ends a run; from then on nothing is claimed of what is owed. *)
LEMMA AbortKeeps ==
  ASSUME RunsInv, Lone, NEW p \in Procs, Active(p), Abort(p)
  PROVE  RunsInv' /\ Owed' /\ Lone'
<1>1. run' = [run EXCEPT ![p] = Idle] /\ failed' = TRUE
  BY DEF Abort
<1>2. RunsInv' /\ Stops(p)
  BY <1>1, StopPhases
<1>3. Lone'
  BY <1>2, StopLone
<1>4. Owed'
  BY <1>1 DEF Owed
<1> QED
  BY <1>2, <1>3, <1>4

LEMMA ErrorKeeps ==
  ASSUME RunsInv, Lone, NEW p \in Procs, Fail(p) \/ CollectionError(p) \/ Deadlock(p)
  PROVE  RunsInv' /\ Owed' /\ Lone'
<1>1. Active(p)
  <2>1. CASE Fail(p)
    BY <2>1 DEF Fail
  <2>2. CASE CollectionError(p)
    BY <2>2 DEF CollectionError, Active
  <2>3. CASE Deadlock(p)
    <3>1. Wants(p) # {}
      BY <2>3 DEF Deadlock, WaitsFor
    <3>2. run[p].pc = "delete" \/ run[p].pc = "write"
      BY <3>1 DEF Wants
    <3> QED
      BY <3>2 DEF Active
  <2> QED
    BY <2>1, <2>2, <2>3
<1>2. Abort(p)
  BY DEF Fail, CollectionError, Deadlock
<1> QED
  BY <1>1, <1>2, AbortKeeps

(* A request or a script starts. *)
LEMMA StartKeeps ==
  ASSUME IndexInv, NEW p \in Procs, Acquire(p) \/ StartScript(p)
  PROVE  RunsInv' /\ Owed' /\ Lone'
<1>1. /\ \E mode \in {"update", "rebuild", "recreate"} : Begin(p, mode)
      /\ UNCHANGED <<row, body, edges, filePts, fnPts, failed>>
  BY DEF Acquire, StartScript, pg, qdrant
<1>2. ~Active(p)
  BY DEF Acquire, StartScript, Active, Idle
<1>3. PICK mode \in {"update", "rebuild", "recreate"} : Begin(p, mode)
  BY <1>1
<1> QED
  BY <1>1, <1>2, <1>3, BeginPhases, BeginOwed, BeginLone DEF IndexInv

(* A step that is none of a run. *)
LEMMA OutsideKeeps ==
  ASSUME IndexInv,
         \/ \E p \in Procs : Request(p)
         \/ \E f \in Files : Edit(f)
         \/ UNCHANGED indexVars
  PROVE  RunsInv' /\ Owed' /\ Lone'
<1>1. UNCHANGED <<row, body, edges, filePts, fnPts, failed>>
  BY DEF Request, Edit, indexVars, pg, qdrant
<1>2. CASE \E p \in Procs : Request(p)
  <2>1. PICK p \in Procs : Request(p)
    BY <1>2
  <2>2. /\ RunsInv' /\ run[p] = Idle /\ run'[p] = [pc |-> "waiting"]
        /\ \A q \in Procs \ {p} : run'[q] = run[q]
    BY <2>1, RequestPhases DEF IndexInv
  <2>3. \A q \in Procs : (Active(q)' => Active(q)) /\ (Active(q) => run'[q] = run[q])
    BY <2>2 DEF Active, Idle
  <2> QED
    BY <1>1, <2>2, <2>3, IdleOwed, IdleLone DEF IndexInv
<1>3. CASE ~\E p \in Procs : Request(p)
  <2>1. run' = run
    BY <1>3 DEF Edit, indexVars
  <2>2. RunsInv'
    BY <2>1 DEF IndexInv, RunsInv, RunTyped, Active, Phases, InFile, Found
  <2>3. \A q \in Procs : (Active(q)' => Active(q)) /\ (Active(q) => run'[q] = run[q])
    BY <2>1 DEF Active
  <2> QED
    BY <1>1, <2>2, <2>3, IdleOwed, IdleLone DEF IndexInv
<1> QED
  BY <1>2, <1>3

(* WipePoints, Unindex and StorePoints only go to the next label. *)
LEMMA PointsPhases ==
  ASSUME RunsInv, NEW p \in Procs, WipePoints(p) \/ Unindex(p) \/ StorePoints(p)
  PROVE  RunsInv'
<1>1. PICK to \in Labels :
         /\ Goto(p, to)
         /\ \/ run[p].pc = "wipefiles" /\ to = "wipefunctions"
            \/ run[p].pc = "wipefunctions" /\ to = "row"
            \/ run[p].pc = "unfile" /\ to = "unfunction"
            \/ run[p].pc = "unfunction" /\ to = "write"
            \/ run[p].pc = "storefiles" /\ to = "storefunctions"
            \/ run[p].pc = "storefunctions" /\ to = "done"
  BY DEF WipePoints, Unindex, StorePoints, Labels
<1> QED
  BY <1>1, GotoPhases

(* Each step of a run keeps the invariant. *)
LEMMA RunStepKeeps ==
  ASSUME IndexInv, NEW p \in Procs, RunStep(p)
  PROVE  RunsInv' /\ Owed' /\ Lone'
<1> USE DEF IndexInv
<1>1. CASE ListCollections(p)
  BY <1>1, ListPhases, ListOwed, ListLone
<1>2. CASE DropCollection(p)
  BY <1>2, DropPhases, DropOwed, DropLone
<1>3. CASE CreateCollection(p)
  BY <1>3, CreatePhases, CreateOwed, CreateLone
<1>4. CASE Truncate(p)
  BY <1>4, TruncatePhases, TruncateOwed, TruncateLone
<1>5. CASE WipePoints(p)
  BY <1>5, PointsPhases, WipePointsOwed, WipePointsLone
<1>6. CASE Parse(p)
  BY <1>6, ParsePhases, ParseOwed, ParseLone
<1>7. CASE StartDelete(p)
  BY <1>7, StartDeletePhases, StartDeleteOwed, StartDeleteLone
<1>8. CASE \E f \in Files : DeleteRow(p, f)
  BY <1>8, DeleteRowPhases, DeleteRowOwed, DeleteRowLone
<1>9. CASE Unindex(p)
  BY <1>9, PointsPhases, UnindexOwed, UnindexLone
<1>10. CASE WriteFile(p)
  BY <1>10, WriteFilePhases, WriteFileOwed, WriteFileLone
<1>11. CASE Commit(p)
  BY <1>11, CommitPhases, CommitOwed, CommitLone
<1>12. CASE StorePoints(p)
  BY <1>12, PointsPhases, StorePointsOwed, StorePointsLone
<1>13. CASE End(p)
  <2>1. run' = [run EXCEPT ![p] = Idle] /\ Active(p)
    BY <1>13 DEF End, Active
  <2>2. RunsInv' /\ Stops(p)
    BY <2>1, StopPhases
  <2> QED
    BY <1>13, <2>1, <2>2, EndOwed, StopLone
<1>14. CASE CollectionError(p) \/ Deadlock(p)
  BY <1>14, ErrorKeeps
<1> QED
  BY <1>1, <1>2, <1>3, <1>4, <1>5, <1>6, <1>7, <1>8, <1>9, <1>10, <1>11, <1>12, <1>13, <1>14 DEF RunStep

LEMMA StepTyped ==
  ASSUME IndexInv, [IndexNext]_indexVars
  PROVE  TypeOK' /\ Whole'
<1> USE DEF IndexInv
<1>1. CASE \E p \in Procs : Commit(p)
  BY <1>1, CommitTyped
<1>2. CASE \E p \in Procs : Truncate(p)
  BY <1>2, TruncateTyped
<1>3. CASE \E p \in Procs : \/ DropCollection(p) \/ CreateCollection(p) \/ WipePoints(p)
                            \/ Unindex(p) \/ StorePoints(p)
  BY <1>3, PointsTyped
<1>4. CASE \/ \E p \in Procs : \/ Request(p) \/ Acquire(p) \/ StartScript(p) \/ Fail(p)
                               \/ ListCollections(p) \/ Parse(p) \/ StartDelete(p) \/ WriteFile(p)
                               \/ \E f \in Files : DeleteRow(p, f)
                               \/ End(p) \/ CollectionError(p) \/ Deadlock(p)
           \/ \E f \in Files : Edit(f)
           \/ UNCHANGED indexVars
  <2>1. UNCHANGED <<pg, qdrant>>
    BY <1>4 DEF Request, Acquire, StartScript, Fail, ListCollections, Parse, StartDelete, WriteFile,
                DeleteRow, End, CollectionError, Deadlock, Abort, Edit, indexVars
  <2> QED
    BY <1>4, <2>1, OtherTyped
<1> QED
  BY <1>1, <1>2, <1>3, <1>4 DEF IndexNext, RunStep

LEMMA IndexKeeps ==
  ASSUME IndexInv, [IndexNext]_indexVars
  PROVE  IndexInv'
<1>1. TypeOK' /\ Whole'
  BY StepTyped
<1>2. RunsInv' /\ Owed' /\ Lone'
  <2>1. CASE \E p \in Procs : Acquire(p) \/ StartScript(p)
    BY <2>1, StartKeeps
  <2>2. CASE \E p \in Procs : RunStep(p)
    BY <2>2, RunStepKeeps
  <2>3. CASE \E p \in Procs : Fail(p)
    BY <2>3, ErrorKeeps DEF IndexInv
  <2>4. CASE \/ \E p \in Procs : Request(p)
             \/ \E f \in Files : Edit(f)
             \/ UNCHANGED indexVars
    BY <2>4, OutsideKeeps
  <2> QED
    BY <2>1, <2>2, <2>3, <2>4 DEF IndexNext
<1> QED
  BY <1>1, <1>2 DEF IndexInv

(* The invariant of the code index. *)
THEOREM IndexInvariant == IndexSpec => []IndexInv
<1>1. IndexInit => IndexInv
  BY IndexStarts
<1>2. IndexInv /\ [IndexNext]_indexVars => IndexInv'
  BY IndexKeeps
<1> QED
  BY <1>1, <1>2, PTL DEF IndexSpec

(* Types, and the foreign keys of code_functions and code_call_edges: no function and no *)
(* call without its file's row, whatever transactions replace the rows.                  *)
THEOREM IndexTyped == IndexSpec => []TypeOK
<1>1. IndexInv => TypeOK
  BY DEF IndexInv
<1> QED
  BY <1>1, IndexInvariant, PTL

LEMMA QuietIsFindable ==
  ASSUME IndexInv
  PROVE  IndexedIsFindable
BY DEF IndexInv, Owed, IndexedIsFindable

(* Once no request and no script is indexing and none has failed, a file that is in      *)
(* PostgreSQL, and each function of its content, has its point in Qdrant, for any number *)
(* of files, requests and scripts that have overlapped in any way.                       *)
THEOREM IndexFindable == IndexSpec => []IndexedIsFindable
<1>1. IndexInv => IndexedIsFindable
  BY QuietIsFindable
<1> QED
  BY <1>1, IndexInvariant, PTL

LEMMA LoneRepairs ==
  ASSUME IndexInv
  PROVE  RunRepairs
<1> SUFFICES ASSUME NEW p \in Procs, run[p].pc = "done", run[p].alone,
                    NEW f \in Files, f \in Parsed(p) \/ run[p].cleared
             PROVE  Matches(p, f)
  BY Zenon DEF RunRepairs
<1>1. Active(p)
  BY DEF Active
<1>2. Made(run[p])
  BY <1>1 DEF IndexInv, Lone
<1>3. f \in Found(run[p]) \/ run[p].cleared
  BY DEF Parsed, Found
<1>4. /\ row[f] = run[p].tree[f] /\ body[f] = FunctionsOf(run[p], f)
      /\ edges[f] = IF run[p].tree[f] = 0 THEN {} ELSE Calls[f][run[p].tree[f]]
      /\ filePts[f] = run[p].tree[f] /\ fnPts[f] = FunctionsOf(run[p], f)
  BY <1>2, <1>3 DEF Made
<1> QED
  BY <1>4 DEF Matches, FunctionsOf

(* A run that nothing overlapped leaves PostgreSQL and Qdrant equal to the files it has  *)
(* read, and after a rebuild or --recreate nothing else in them, whatever earlier runs   *)
(* that overlapped, failed or were killed have left there.                               *)
THEOREM LoneRunRepairs == IndexSpec => []RunRepairs
<1>1. IndexInv => RunRepairs
  BY LoneRepairs
<1> QED
  BY <1>1, IndexInvariant, PTL

-----------------------------------------------------------------------------
(* The calls of the graph join two of the nodes read. *)
LEMMA ResolvesToNode ==
  ASSUME NEW nodes, NEW callee, NEW path
  PROVE  ResolveCallee(nodes, callee, path) \subseteq DOMAIN nodes
BY DEF ResolveCallee, PickNode

LEMMA EdgesJoinNodes ==
  ASSUME NEW nodes
  PROVE  \A e \in GraphEdges(nodes) : e[1] \in DOMAIN nodes /\ e[2] \in DOMAIN nodes
<1> SUFFICES ASSUME NEW e \in GraphEdges(nodes)
             PROVE  e[1] \in DOMAIN nodes /\ e[2] \in DOMAIN nodes
  OBVIOUS
<1>1. PICK x \in {y \in CallRows : y[2][1] \in DOMAIN nodes} : e \in Resolved(nodes, x[1], x[2])
  BY DEF GraphEdges
<1>2. PICK callee \in ResolveCallee(nodes, x[2][2], x[1]) : e = <<x[2][1], callee>>
  BY <1>1 DEF Resolved
<1> QED
  BY <1>1, <1>2, ResolvesToNode

(* What is reached lies among the roots and the ends of calls, and a call from what is *)
(* reached within d leads to what is reached within d + 1.                            *)
LEMMA ReachedAmong ==
  ASSUME NEW depth, NEW roots, NEW graph
  PROVE  Reached(depth, roots, graph) \subseteq roots \cup {e[2] : e \in graph}
BY DEF Reached

LEMMA ReachedFurther ==
  ASSUME NEW depth \in Nat, NEW roots, NEW graph, NEW e \in graph, e = <<e[1], e[2]>>,
         e[1] \in Reached(depth, roots, graph)
  PROVE  e[1] \in Reached(depth + 1, roots, graph) /\ e[2] \in Reached(depth + 1, roots, graph)
<1> DEFINE met == roots \cup {x[2] : x \in graph}
<1>1. e[1] \in met /\ e[2] \in met
  BY DEF Reached
<1>2. PICK d \in 0..depth : \E walk \in [0..d -> met] :
        walk[0] \in roots /\ walk[d] = e[1] /\ \A i \in 1..d : <<walk[i-1], walk[i]>> \in graph
  BY DEF Reached
<1>3. PICK walk \in [0..d -> met] :
        walk[0] \in roots /\ walk[d] = e[1] /\ \A i \in 1..d : <<walk[i-1], walk[i]>> \in graph
  BY <1>2
<1> DEFINE longer == [i \in 0..(d + 1) |-> IF i = d + 1 THEN e[2] ELSE walk[i]]
<1> HIDE DEF met
<1>4. d \in 0..(depth + 1) /\ d + 1 \in 0..(depth + 1)
  BY <1>2
<1>5. longer \in [0..(d + 1) -> met]
  BY <1>1, <1>3, <1>4
<1>6. longer[0] \in roots /\ longer[d + 1] = e[2]
  BY <1>3, <1>4
<1>7. ASSUME NEW i \in 1..(d + 1)
      PROVE  <<longer[i-1], longer[i]>> \in graph
  <2>1. CASE i = d + 1
    <3>1. longer[i] = e[2] /\ longer[i-1] = e[1]
      BY <2>1, <1>3, <1>4
    <3> QED
      BY <3>1
  <2>2. CASE i # d + 1
    <3>1. longer[i] = walk[i] /\ longer[i-1] = walk[i-1] /\ i \in 1..d
      BY <2>2, <1>4
    <3> QED
      BY <3>1, <1>3
  <2> QED
    BY <2>1, <2>2
<1> HIDE DEF longer
<1>8. e[2] \in Reached(depth + 1, roots, graph)
  BY <1>1, <1>4, <1>5, <1>6, <1>7 DEF Reached, met
<1>9. e[1] \in Reached(depth + 1, roots, graph)
  BY <1>1, <1>3, <1>4 DEF Reached, met
<1> QED
  BY <1>8, <1>9

(* Neither answer shows a node that was not read, nor a call that leads elsewhere. *)
LEMMA ChainIsClosed ==
  ASSUME NEW nodes, NEW roots \in SUBSET DOMAIN nodes
  PROVE  LET c == Chain(roots, GraphEdges(nodes)) IN
         /\ c.nodes \subseteq DOMAIN nodes
         /\ \A e \in c.edges : e[1] \in c.nodes /\ e[2] \in c.nodes
<1> DEFINE graph == GraphEdges(nodes)
           c == Chain(roots, graph)
<1>1. \A e \in graph : e[1] \in DOMAIN nodes /\ e[2] \in DOMAIN nodes
  BY EdgesJoinNodes
<1>2. \A e \in graph : e = <<e[1], e[2]>>
  BY DEF GraphEdges, Resolved
<1>3. MaxDepth - 1 \in Nat /\ (MaxDepth - 1) + 1 = MaxDepth
  BY CodeSearchAssumption
<1> HIDE DEF graph
<1>4. Reached(MaxDepth, roots, graph) \subseteq DOMAIN nodes
  BY <1>1, ReachedAmong
<1>5. \A e \in graph : e[1] \in Reached(MaxDepth - 1, roots, graph) =>
        e[1] \in Reached(MaxDepth, roots, graph) /\ e[2] \in Reached(MaxDepth, roots, graph)
  <2> SUFFICES ASSUME NEW e \in graph, e[1] \in Reached(MaxDepth - 1, roots, graph)
               PROVE  e[1] \in Reached(MaxDepth, roots, graph) /\ e[2] \in Reached(MaxDepth, roots, graph)
    OBVIOUS
  <2>1. e[1] \in Reached((MaxDepth - 1) + 1, roots, graph) /\ e[2] \in Reached((MaxDepth - 1) + 1, roots, graph)
    BY <1>2, <1>3, ReachedFurther
  <2> QED
    BY <1>3, <2>1
<1>6. c.nodes = Reached(MaxDepth, roots, graph)
      /\ c.edges = {e \in graph : e[1] \in Reached(MaxDepth - 1, roots, graph)}
  BY DEF Chain
<1>7. c.nodes \subseteq DOMAIN nodes /\ \A e \in c.edges : e[1] \in c.nodes /\ e[2] \in c.nodes
  <2> HIDE DEF c
  <2> QED
    BY <1>4, <1>5, <1>6
<1> QED
  BY <1>7 DEF graph

LEMMA RelevantAreNodes ==
  ASSUME NEW nodes, NEW seeds \in SUBSET DOMAIN nodes, NEW S \in Relevant(seeds, GraphEdges(nodes))
  PROVE  S \subseteq DOMAIN nodes
<1> DEFINE graph == GraphEdges(nodes)
<1>1. \A e \in graph : e[1] \in DOMAIN nodes /\ e[2] \in DOMAIN nodes
  BY EdgesJoinNodes
<1> HIDE DEF graph
<1>2. \A T \in SUBSET DOMAIN nodes : Neighbours(T, graph) \in SUBSET DOMAIN nodes
  BY <1>1 DEF Neighbours
<1>3. S \subseteq Neighbours(Neighbours(seeds, graph), graph)
  BY DEF Relevant, graph
<1> QED
  BY <1>2, <1>3

-----------------------------------------------------------------------------
(* What is known while a question is answered. *)
LookFields == {"pc", "kind", "name", "text", "files", "hits", "lexical", "shown", "read", "nodes",
               "edges", "lost", "quiet", "steady"}
LookLabels == {"available", "files", "functions", "repository", "text", "textfunctions", "vectors",
               "hydrate", "nodes", "edges", "answered"}
Closed == /\ look.nodes \subseteq look.read
          /\ \A e \in look.edges : e[1] \in look.nodes /\ e[2] \in look.nodes
LookTyped ==
    look = Idle \/ /\ DOMAIN look = LookFields /\ look.pc \in LookLabels
                   /\ look.pc = "edges" => DOMAIN look.nodes = look.read
                   /\ look.pc = "answered" => Closed

(* The functions of that name that stay in both stores are among what is carried from   *)
(* one step of the search to the next, unless matches of the text are lost.              *)
Carried ==
    /\ look.pc = "vectors" => look.steady \subseteq look.lexical
    /\ look.pc = "hydrate" => look.steady \subseteq look.hits
    /\ look.pc \in {"nodes", "edges", "answered"} =>
         look.steady \subseteq look.shown \/ Cardinality(look.shown) = FinalTopK
Sought == look.kind = "search" /\ look.name \in Searchable /\ ~look.lost
Quiet == look # Idle /\ look.quiet
SearchInv ==
    /\ IndexInv /\ LookTyped
    /\ look # Idle => look.steady \subseteq {x \in Stored : x[2] = look.name}
    /\ Quiet => \A p \in Procs : ~Active(p)
    /\ Quiet /\ ~failed => {x \in Indexed : x[2] \in Names} \subseteq look.steady
    /\ look # Idle /\ Sought => Carried

(* The best of a finite set are all of it or as many as the list holds. *)
LEMMA LesserOf ==
  ASSUME NEW k \in Nat, NEW c \in Nat
  PROVE  Min({k, c}) = k \/ Min({k, c}) = c
<1>1. \E x \in {k, c} : \A y \in {k, c} : x <= y
  <2>1. CASE k <= c
    BY <2>1
  <2>2. CASE ~(k <= c)
    <3>1. c <= k /\ c <= c
      BY <2>2
    <3> QED
      BY <3>1
  <2> QED
    BY <2>1, <2>2
<1>2. Min({k, c}) \in {k, c}
  BY <1>1 DEF Min
<1> QED
  BY <1>2

LEMMA FunctionsFinite ==
  \A S \in SUBSET Functions : IsFiniteSet(S) /\ Cardinality(S) \in Nat
<1>1. IsFiniteSet(Functions)
  BY CodeIndexAssumption, CodeSearchAssumption, FS_Product, Zenon DEF Functions
<1> QED
  BY <1>1, FS_Subset, FS_CardinalityType

LEMMA TopIsFullOrAll ==
  ASSUME NEW S, IsFiniteSet(S), NEW k \in Nat, NEW T \in Top(k, S)
  PROVE  T \subseteq S /\ (T = S \/ Cardinality(T) = k)
<1>1. T \subseteq S /\ Cardinality(T) = Min({k, Cardinality(S)})
  BY DEF Top
<1>2. Cardinality(S) \in Nat
  BY FS_CardinalityType
<1>3. Cardinality(T) = k \/ Cardinality(T) = Cardinality(S)
  BY <1>1, <1>2, LesserOf
<1> QED
  BY <1>1, <1>3, FS_Subset

(* Once nobody is indexing and none has failed, the functions of the contents are stored. *)
LEMMA IndexedAreStored ==
  ASSUME IndexInv, ~failed, \A p \in Procs : ~Active(p), NEW x \in Functions,
         row[x[1]] # 0, x[2] \in Symbols[x[1]][row[x[1]]]
  PROVE  x \in Stored
<1>1. IndexedIsFindable
  BY QuietIsFindable
<1>2. x[1] \in Files /\ x[2] \in Names
  BY DEF Functions
<1>3. filePts[x[1]] # 0 /\ fnPts[x[1]][x[2]] # 0
  BY <1>1, <1>2 DEF IndexedIsFindable
<1>4. body[x[1]][x[2]] # 0
  BY <1>2 DEF IndexInv, Whole
<1> QED
  BY <1>3, <1>4 DEF Stored, Rows, Points

(* The other steps of a question take the index as it is. *)
LEMMA SameIndex ==
  ASSUME UNCHANGED indexVars
  PROVE  /\ Stored' = Stored /\ failed' = failed /\ row' = row
         /\ \A p \in Procs : Active(p)' = Active(p)
BY DEF indexVars, pg, qdrant, Stored, Rows, Points, Functions, Active

LEMMA LookKept ==
  ASSUME SearchInv, look # Idle, UNCHANGED indexVars, look' # Idle,
         LookTyped', look'.name = look.name, look'.quiet = look.quiet, look'.kind = look.kind,
         look'.steady = look.steady, ~look'.lost => ~look.lost,
         Sought /\ ~look'.lost => Carried'
  PROVE  SearchInv'
<1>1. /\ Stored' = Stored /\ failed' = failed /\ row' = row
      /\ \A p \in Procs : Active(p)' = Active(p)
  BY SameIndex
<1>2. IndexInv'
  BY IndexKeeps DEF SearchInv
<1>3. Quiet' = Quiet /\ Indexed' = Indexed /\ (Sought' => Sought /\ ~look'.lost)
  BY <1>1 DEF Quiet, Indexed, Sought
<1> QED
  BY <1>1, <1>2, <1>3 DEF SearchInv

(* A question is given up or forgotten. *)
LEMMA LookDropped ==
  ASSUME SearchInv, UNCHANGED indexVars, look' = Idle
  PROVE  SearchInv'
<1>1. IndexInv'
  BY IndexKeeps DEF SearchInv
<1> QED
  BY <1>1 DEF SearchInv, LookTyped, Quiet

-----------------------------------------------------------------------------
(* Each step of a question keeps what is known of it (...Keeps). *)
LEMMA AskKeeps ==
  ASSUME SearchInv, NEW q \in Questions, Ask(q[1], q[2]), UNCHANGED indexVars
  PROVE  SearchInv'
<1>1. IndexInv'
  BY IndexKeeps DEF SearchInv
<1> DEFINE named == {x \in Stored : x[2] = q[2]}
<1>2. /\ look' # Idle /\ DOMAIN look' = LookFields
      /\ look'.pc = (IF q[1] = "search" THEN "available" ELSE "nodes") /\ look'.kind = q[1]
      /\ look'.name = q[2] /\ look'.steady = named
      /\ look'.quiet = (\A p \in Procs : ~Active(p))
  BY DEF Ask, Idle, LookFields
<1>3. LookTyped'
  BY <1>2 DEF LookTyped, LookLabels
<1>4. /\ Stored' = Stored /\ failed' = failed /\ row' = row
      /\ \A p \in Procs : Active(p)' = Active(p)
  BY SameIndex
<1>5. Quiet' => \A p \in Procs : ~Active(p)'
  BY <1>2, <1>4 DEF Quiet
<1>6. look'.steady \subseteq {x \in Stored' : x[2] = look'.name}
  BY <1>2, <1>4
<1>7. ASSUME Quiet', ~failed', NEW x \in Indexed', x[2] \in Names
      PROVE  x \in look'.steady
  <2>1. /\ x \in Functions /\ x[2] = q[2] /\ row[x[1]] # 0
        /\ x[2] \in Symbols[x[1]][row[x[1]]]
    BY <1>2, <1>4, <1>7 DEF Indexed, Functions
  <2>2. x \in Stored
    BY <1>4, <1>5, <1>7, <2>1, IndexedAreStored DEF SearchInv
  <2> QED
    BY <1>2, <2>1, <2>2
<1>8. Sought' => Carried'
  BY <1>2 DEF Carried, Sought
<1> QED
  BY <1>1, <1>3, <1>5, <1>6, <1>7, <1>8 DEF SearchInv

(* What a step of the search changes. *)
LEMMA Looks ==
  ASSUME LookTyped, look.pc \in LookLabels
  PROVE  look # Idle /\ DOMAIN look = LookFields
BY DEF LookTyped, Idle, LookLabels

LEMMA RefuseKeeps ==
  ASSUME SearchInv, UNCHANGED indexVars, NEW from, Refuse(from)
  PROVE  SearchInv'
BY LookDropped DEF Refuse

LEMMA EmbedKeeps ==
  ASSUME SearchInv, UNCHANGED indexVars, EmbedQuery
  PROVE  SearchInv'
<1>1. CASE look' = Idle
  BY <1>1, LookDropped
<1>2. CASE look' # Idle
  <2>1. look.pc = "available" /\ DOMAIN look = LookFields /\ look # Idle
    BY <1>2, Looks DEF EmbedQuery, Refuse, Step, SearchInv, LookLabels
  <2>2. \/ look' = [look EXCEPT !.pc = "files"]
        \/ look' = [look EXCEPT !.pc = "textfunctions", !.text = TRUE]
    BY <1>2 DEF EmbedQuery, Refuse, Step
  <2>3. /\ look'.pc \in {"files", "textfunctions"} /\ DOMAIN look' = LookFields
        /\ look'.name = look.name /\ look'.quiet = look.quiet /\ look'.kind = look.kind
        /\ look'.steady = look.steady /\ look'.lost = look.lost
    BY <2>1, <2>2 DEF LookFields
  <2>4. LookTyped' /\ Carried'
    BY <2>3 DEF LookTyped, LookLabels, Carried
  <2> QED
    BY <1>2, <2>1, <2>3, <2>4, LookKept
<1> QED
  BY <1>1, <1>2

LEMMA FilesKeeps ==
  ASSUME SearchInv, UNCHANGED indexVars, SearchFiles
  PROVE  SearchInv'
<1>1. CASE look' = Idle
  BY <1>1, LookDropped
<1>2. CASE look' # Idle
  <2>1. look.pc = "files" /\ DOMAIN look = LookFields /\ look # Idle
    BY <1>2, Looks DEF SearchFiles, Refuse, SearchInv, LookLabels
  <2> DEFINE found == {f \in Files : filePts[f] # 0}
  <2>2. PICK T \in Top(FileTopK, found) :
          look' = [look EXCEPT !.files = T, !.pc = IF T = {} THEN "nodes" ELSE "functions"]
    BY <1>2 DEF SearchFiles, Refuse
  <2>3. /\ look'.pc = (IF T = {} THEN "nodes" ELSE "functions") /\ DOMAIN look' = LookFields
        /\ look'.name = look.name /\ look'.quiet = look.quiet /\ look'.kind = look.kind
        /\ look'.steady = look.steady /\ look'.lost = look.lost
    BY <2>1, <2>2 DEF LookFields
  <2>4. LookTyped'
    BY <2>3 DEF LookTyped, LookLabels
  <2>5. Carried'
    <3>1. CASE T # {}
      BY <2>3, <3>1 DEF Carried
    <3>2. CASE T = {}
      <4>1. IsFiniteSet(found) /\ FileTopK \in Nat /\ FileTopK # 0
        BY CodeIndexAssumption, CodeSearchAssumption, FS_Subset
      <4>2. found = {}
        <5>1. T = found \/ Cardinality(T) = FileTopK
          BY <4>1, TopIsFullOrAll
        <5>2. Cardinality(T) = 0
          BY <3>2, FS_EmptySet
        <5> QED
          BY <3>2, <4>1, <5>1, <5>2
      <4>3. Stored = {}
        BY <4>2 DEF Stored, Rows, Functions
      <4>4. look'.steady = {}
        BY <2>1, <2>3, <4>3 DEF SearchInv
      <4> QED
        BY <2>3, <3>2, <4>4 DEF Carried
    <3> QED
      BY <3>1, <3>2
  <2> QED
    BY <1>2, <2>1, <2>3, <2>4, <2>5, LookKept
<1> QED
  BY <1>1, <1>2

LEMMA PointsKeeps ==
  ASSUME SearchInv, UNCHANGED indexVars, SearchFunctions \/ SearchRepository
  PROVE  SearchInv'
<1>1. CASE look' = Idle
  BY <1>1, LookDropped
<1>2. CASE look' # Idle
  <2>1. look.pc \in {"functions", "repository"} /\ DOMAIN look = LookFields /\ look # Idle
    BY <1>2, Looks DEF SearchFunctions, SearchRepository, Refuse, SearchInv, LookLabels
  <2>2. \E T : \/ look' = [look EXCEPT !.hits = T, !.files = {}, !.pc = "repository"]
               \/ look' = [look EXCEPT !.hits = look.hits \cup T, !.pc = "text"]
    BY <1>2 DEF SearchFunctions, SearchRepository, Refuse
  <2>3. /\ look'.pc \in {"repository", "text"} /\ DOMAIN look' = LookFields
        /\ look'.name = look.name /\ look'.quiet = look.quiet /\ look'.kind = look.kind
        /\ look'.steady = look.steady /\ look'.lost = look.lost
    BY <2>1, <2>2 DEF LookFields
  <2>4. LookTyped' /\ Carried'
    BY <2>3 DEF LookTyped, LookLabels, Carried
  <2> QED
    BY <1>2, <2>1, <2>3, <2>4, LookKept
<1> QED
  BY <1>1, <1>2

LEMMA TextKeeps ==
  ASSUME SearchInv, UNCHANGED indexVars, SearchText
  PROVE  SearchInv'
<1>1. look.pc \in LookLabels /\ DOMAIN look = LookFields /\ look # Idle
  BY Looks DEF SearchText, SearchInv, LookLabels
<1>2. PICK matching \in {S \in SUBSET Rows : Named \subseteq S} :
        \E T \in Top(WideTopK, matching) :
          LET next == [look EXCEPT !.lost = look.lost \/ T # matching] IN
          look' = IF look.text THEN [next EXCEPT !.hits = T, !.pc = "hydrate"]
                  ELSE [next EXCEPT !.lexical = T, !.pc = "vectors"]
  BY DEF SearchText
<1>9. PICK T \in Top(WideTopK, matching) :
        LET next == [look EXCEPT !.lost = look.lost \/ T # matching] IN
        look' = IF look.text THEN [next EXCEPT !.hits = T, !.pc = "hydrate"]
                ELSE [next EXCEPT !.lexical = T, !.pc = "vectors"]
  BY <1>2
<1> DEFINE cut == look.lost \/ T # matching
           next == [look EXCEPT !.lost = cut]
<1> HIDE DEF cut
<1>3. /\ DOMAIN next = LookFields /\ next.lost = cut /\ next.name = look.name
      /\ next.quiet = look.quiet /\ next.kind = look.kind /\ next.steady = look.steady
  BY <1>1 DEF LookFields
<1>4. look' = [next EXCEPT !.hits = T, !.pc = "hydrate"] \/ look' = [next EXCEPT !.lexical = T, !.pc = "vectors"]
  BY <1>9 DEF cut
<1> HIDE DEF next
<1>5. /\ DOMAIN look' = LookFields
      /\ \/ look'.pc = "hydrate" /\ look'.hits = T
         \/ look'.pc = "vectors" /\ look'.lexical = T
      /\ look'.name = look.name /\ look'.quiet = look.quiet /\ look'.kind = look.kind
      /\ look'.steady = look.steady /\ look'.lost = cut
  BY <1>3, <1>4 DEF LookFields
<1>6. look' # Idle /\ LookTyped'
  BY <1>5 DEF LookTyped, LookLabels, Idle
<1>7. ASSUME Sought, ~look'.lost
      PROVE  Carried'
  <2>1. look.steady \subseteq Named
    BY <1>1, <1>7 DEF SearchInv, Sought, Named, Stored
  <2>2. ~cut
    BY <1>5, <1>7
  <2>3. T = matching
    BY <2>2 DEF cut
  <2>4. look.steady \subseteq T
    BY <1>2, <2>1, <2>3
  <2> QED
    BY <1>5, <2>4 DEF Carried
<1>8. ~look'.lost => ~look.lost
  BY <1>5 DEF cut
<1> QED
  BY <1>1, <1>5, <1>6, <1>7, <1>8, LookKept

LEMMA ScoreKeeps ==
  ASSUME SearchInv, UNCHANGED indexVars, ScoreCandidates
  PROVE  SearchInv'
<1>1. CASE look' = Idle
  BY <1>1, LookDropped
<1>2. CASE look' # Idle
  <2>1. look.pc = "vectors" /\ DOMAIN look = LookFields /\ look # Idle
    BY Looks DEF ScoreCandidates, SearchInv, LookLabels
  <2> DEFINE merged == look.hits \cup (look.lexical \cap Points)
  <2>2. \/ look' = [look EXCEPT !.hits = merged, !.lexical = {}, !.pc = "hydrate"]
        \/ look' = [look EXCEPT !.lexical = {}, !.lost = TRUE, !.pc = "hydrate"]
    BY <1>2 DEF ScoreCandidates, MergeHits
  <2> HIDE DEF merged
  <2>3. /\ look'.pc = "hydrate" /\ DOMAIN look' = LookFields
        /\ \/ look'.hits = merged /\ look'.lost = look.lost
           \/ look'.lost
        /\ look'.name = look.name /\ look'.quiet = look.quiet /\ look'.kind = look.kind
        /\ look'.steady = look.steady
    BY <2>1, <2>2 DEF LookFields
  <2>4. LookTyped'
    BY <2>3 DEF LookTyped, LookLabels
  <2>5. ASSUME Sought, ~look'.lost
        PROVE  Carried'
    <3>1. look.steady \subseteq look.lexical /\ look.steady \subseteq Points
      BY <2>1, <2>5 DEF SearchInv, Carried, Stored
    <3>2. look.steady \subseteq look'.hits
      BY <2>3, <2>5, <3>1 DEF merged
    <3> QED
      BY <2>3, <3>2 DEF Carried
  <2> QED
    BY <1>2, <2>1, <2>3, <2>4, <2>5, LookKept
<1> QED
  BY <1>1, <1>2

LEMMA HydrateKeeps ==
  ASSUME SearchInv, UNCHANGED indexVars, HydrateFunctions
  PROVE  SearchInv'
<1>1. look.pc = "hydrate" /\ DOMAIN look = LookFields /\ look # Idle
  BY Looks DEF HydrateFunctions, SearchInv, LookLabels
<1> DEFINE known == look.hits \cap Rows
<1>2. PICK T \in Top(FinalTopK, known) : look' = [look EXCEPT !.shown = T, !.hits = {}, !.pc = "nodes"]
  BY DEF HydrateFunctions
<1>3. /\ look'.pc = "nodes" /\ look'.shown = T /\ DOMAIN look' = LookFields
      /\ look'.name = look.name /\ look'.quiet = look.quiet /\ look'.kind = look.kind
      /\ look'.steady = look.steady /\ look'.lost = look.lost
  BY <1>1, <1>2 DEF LookFields
<1>4. look' # Idle /\ LookTyped'
  BY <1>3 DEF LookTyped, LookLabels, Idle
<1>5. ASSUME Sought
      PROVE  Carried'
  <2>1. look.steady \subseteq known
    BY <1>1, <1>5 DEF SearchInv, Carried, Stored
  <2>2. IsFiniteSet(known) /\ FinalTopK \in Nat
    BY FunctionsFinite, CodeSearchAssumption DEF Rows
  <2>3. T = known \/ Cardinality(T) = FinalTopK
    BY <2>2, TopIsFullOrAll
  <2> QED
    BY <1>3, <2>1, <2>3 DEF Carried
<1> QED
  BY <1>1, <1>3, <1>4, <1>5, LookKept

LEMMA NodesKeeps ==
  ASSUME SearchInv, UNCHANGED indexVars, LoadNodes
  PROVE  SearchInv'
<1>1. look.pc = "nodes" /\ DOMAIN look = LookFields /\ look # Idle
  BY Looks DEF LoadNodes, SearchInv, LookLabels
<1>2. PICK path : look' = [look EXCEPT !.nodes = path, !.read = DOMAIN path, !.pc = "edges"]
  BY DEF LoadNodes
<1>3. /\ look'.pc = "edges" /\ look'.nodes = path /\ look'.read = DOMAIN path /\ look'.shown = look.shown
      /\ DOMAIN look' = LookFields
      /\ look'.name = look.name /\ look'.quiet = look.quiet /\ look'.kind = look.kind
      /\ look'.steady = look.steady /\ look'.lost = look.lost
  BY <1>1, <1>2 DEF LookFields
<1>4. look' # Idle /\ LookTyped'
  BY <1>3 DEF LookTyped, LookLabels, Idle
<1>5. ASSUME Sought
      PROVE  Carried'
  BY <1>1, <1>3, <1>5 DEF Carried, SearchInv
<1> QED
  BY <1>1, <1>3, <1>4, <1>5, LookKept

LEMMA GraphKeeps ==
  ASSUME SearchInv, UNCHANGED indexVars, ShowGraph
  PROVE  SearchInv'
<1>1. look.pc = "edges" /\ DOMAIN look = LookFields /\ look # Idle /\ DOMAIN look.nodes = look.read
  BY Looks DEF ShowGraph, SearchInv, LookLabels, LookTyped, Idle
<1> DEFINE graph == GraphEdges(look.nodes)
           names == IF look.kind = "chain" THEN {look.name} ELSE {x[2] : x \in look.shown}
           roots == names \cap DOMAIN look.nodes
<1>2. roots \in SUBSET DOMAIN look.nodes
  OBVIOUS
<1>3. PICK S, E : /\ look' = [look EXCEPT !.nodes = S, !.edges = E, !.pc = "answered"]
                  /\ S \subseteq look.read /\ \A e \in E : e[1] \in S /\ e[2] \in S
  <2>1. CASE look.kind = "chain"
    <3> DEFINE c == Chain(roots, graph)
    <3>1. look' = [look EXCEPT !.nodes = c.nodes, !.edges = c.edges, !.pc = "answered"]
      BY <2>1 DEF ShowGraph
    <3>2. c.nodes \subseteq DOMAIN look.nodes /\ \A e \in c.edges : e[1] \in c.nodes /\ e[2] \in c.nodes
      <4> HIDE DEF roots
      <4> QED
        BY <1>2, ChainIsClosed
    <3> HIDE DEF c
    <3> QED
      BY <1>1, <3>1, <3>2
  <2>2. CASE look.kind # "chain"
    <3>1. PICK S \in Relevant(roots, graph) :
            look' = [look EXCEPT !.nodes = S, !.pc = "answered",
                                 !.edges = {e \in graph : e[1] \in S /\ e[2] \in S}]
      BY <2>2 DEF ShowGraph
    <3> HIDE DEF roots
    <3>2. S \subseteq DOMAIN look.nodes
      BY <1>2, RelevantAreNodes
    <3> DEFINE E == {e \in graph : e[1] \in S /\ e[2] \in S}
    <3>3. \A e \in E : e[1] \in S /\ e[2] \in S
      OBVIOUS
    <3>4. look' = [look EXCEPT !.nodes = S, !.edges = E, !.pc = "answered"]
      <4> HIDE DEF graph
      <4> QED
        BY <1>1, <3>1 DEF LookFields
    <3> HIDE DEF E
    <3> QED
      BY <1>1, <3>2, <3>3, <3>4
  <2> QED
    BY <2>1, <2>2
<1>4. /\ look'.pc = "answered" /\ look'.nodes = S /\ look'.edges = E /\ look'.read = look.read
      /\ look'.shown = look.shown /\ DOMAIN look' = LookFields
      /\ look'.name = look.name /\ look'.quiet = look.quiet /\ look'.kind = look.kind
      /\ look'.steady = look.steady /\ look'.lost = look.lost
  BY <1>1, <1>3 DEF LookFields
<1>5. look' # Idle /\ LookTyped'
  BY <1>3, <1>4 DEF LookTyped, LookLabels, Idle, Closed
<1>6. ASSUME Sought
      PROVE  Carried'
  BY <1>1, <1>4, <1>6 DEF Carried, SearchInv
<1> QED
  BY <1>1, <1>4, <1>5, <1>6, LookKept

(* A step taken while nobody indexes writes nothing to the index. *)
LEMMA QuietIndex ==
  ASSUME [IndexNext]_indexVars, \A p \in Procs : ~Active(p)
  PROVE  UNCHANGED <<row, body, filePts, fnPts, failed>>
<1>1. ASSUME NEW p \in Procs, RunStep(p) \/ Fail(p)
      PROVE  FALSE
  <2>1. ~CollectionError(p) /\ ~Deadlock(p) /\ ~Fail(p)
    <3>1. Wants(p) = {}
      BY DEF Active, Wants
    <3> QED
      BY <3>1 DEF CollectionError, Deadlock, WaitsFor, Fail, Active
  <2> QED
    BY <1>1, <2>1 DEF RunStep, ListCollections, DropCollection, CreateCollection, Truncate, WipePoints,
       Parse, StartDelete, DeleteRow, Unindex, WriteFile, Commit, StorePoints, End, Active
<1> QED
  BY <1>1 DEF IndexNext, Request, Acquire, StartScript, Edit, indexVars, pg, qdrant

(* A run takes a step while the question is being answered. *)
LEMMA DisturbKeeps ==
  ASSUME SearchInv, [IndexNext]_indexVars, Disturb
  PROVE  SearchInv'
<1>1. IndexInv'
  BY IndexKeeps DEF SearchInv
<1>2. CASE look = Idle
  BY <1>1, <1>2 DEF Disturb, SearchInv, LookTyped, Quiet
<1>3. CASE look # Idle
  <2> DEFINE still == look.quiet /\ \A p \in Procs : ~Active(p)'
             both == look.steady \cap Stored'
  <2>1. look' = [look EXCEPT !.quiet = still, !.steady = both] /\ DOMAIN look = LookFields
    BY <1>3 DEF Disturb, SearchInv, LookTyped
  <2> HIDE DEF still, both
  <2>2. /\ DOMAIN look' = LookFields /\ look'.pc = look.pc /\ look'.kind = look.kind
        /\ look'.name = look.name /\ look'.lost = look.lost
        /\ look'.hits = look.hits /\ look'.lexical = look.lexical /\ look'.shown = look.shown
        /\ look'.nodes = look.nodes /\ look'.read = look.read /\ look'.edges = look.edges
        /\ look'.quiet = still /\ look'.steady = both
    BY <2>1 DEF LookFields
  <2>3. LookTyped' /\ look' # Idle
    <3>1. look.pc \in LookLabels
      BY <1>3 DEF SearchInv, LookTyped
    <3>2. look' # Idle
      BY <2>2, <3>1 DEF LookLabels, Idle
    <3> QED
      BY <1>3, <2>2, <3>2 DEF SearchInv, LookTyped, Closed
  <2>4. look'.steady \subseteq {x \in Stored' : x[2] = look'.name} /\ look'.steady \subseteq look.steady
    BY <1>3, <2>2 DEF SearchInv, both
  <2>5. Sought' => Carried'
    BY <1>3, <2>2, <2>4 DEF SearchInv, Sought, Carried
  <2>6. Quiet' => \A p \in Procs : ~Active(p)'
    BY <2>2 DEF Quiet, still
  <2>7. ASSUME Quiet', ~failed', NEW x \in Indexed', x[2] \in Names
        PROVE  x \in look'.steady
    <3>1. Quiet /\ \A p \in Procs : ~Active(p)
      BY <1>3, <2>2, <2>7 DEF Quiet, still, SearchInv
    <3>2. UNCHANGED <<row, body, filePts, fnPts, failed>>
      BY <3>1, QuietIndex
    <3>3. Indexed' = Indexed /\ Stored' = Stored
      BY <2>2, <3>2 DEF Indexed, Stored, Rows, Points, Functions
    <3>4. x \in look.steady
      BY <2>7, <3>1, <3>2, <3>3 DEF SearchInv
    <3>5. x \in Stored
      BY <1>3, <3>4 DEF SearchInv
    <3> QED
      BY <2>2, <3>3, <3>4, <3>5 DEF both
  <2> QED
    BY <1>1, <2>3, <2>4, <2>5, <2>6, <2>7 DEF SearchInv
<1> QED
  BY <1>2, <1>3

LEMMA SearchKeeps ==
  ASSUME SearchInv, [Next]_vars
  PROVE  SearchInv'
<1>1. CASE IndexNext /\ Disturb
  BY <1>1, DisturbKeeps
<1>2. CASE SearchStep /\ UNCHANGED <<indexVars, questions>>
  <2>1. UNCHANGED indexVars
    BY <1>2
  <2> QED
    BY <1>2, <2>1, EmbedKeeps, FilesKeeps, PointsKeeps, TextKeeps, ScoreKeeps, HydrateKeeps, NodesKeeps,
       GraphKeeps, RefuseKeeps DEF SearchStep, Forget
<1>3. CASE \E q \in Questions : Ask(q[1], q[2]) /\ UNCHANGED indexVars
  BY <1>3, AskKeeps
<1>4. CASE UNCHANGED vars
  <2>1. UNCHANGED indexVars /\ look' = look
    BY <1>4 DEF vars
  <2>2. CASE look = Idle
    BY <2>1, <2>2, LookDropped
  <2>3. CASE look # Idle
    <3>1. LookTyped' /\ (Sought => Carried')
      BY <2>1, <2>3 DEF LookTyped, SearchInv, Closed, Carried
    <3> QED
      BY <2>1, <2>3, <3>1, LookKept
  <2> QED
    BY <2>2, <2>3
<1> QED
  BY <1>1, <1>2, <1>3, <1>4 DEF Next

(* The invariant of the questions, whatever runs of the index they overlap with. *)
THEOREM SearchInvariant == Spec => []SearchInv
<1>1. Init => SearchInv
  BY IndexStarts DEF Init, SearchInv, LookTyped, Quiet
<1>2. SearchInv /\ [Next]_vars => SearchInv'
  BY SearchKeeps
<1> QED
  BY <1>1, <1>2, PTL DEF Spec

LEMMA ClosedAnswer ==
  ASSUME SearchInv
  PROVE  GraphIsClosed
BY DEF SearchInv, LookTyped, Closed, GraphIsClosed, Answered, Idle

(* The graph that is shown, of a search or of a call chain, consists of functions that   *)
(* were read, and each of its calls joins two of them, though nodes and calls are read   *)
(* one after the other while a run may replace both.                                     *)
THEOREM GraphClosed == Spec => []GraphIsClosed
<1>1. SearchInv => GraphIsClosed
  BY ClosedAnswer
<1> QED
  BY <1>1, SearchInvariant, PTL

LEMMA NamedIsShown ==
  ASSUME SearchInv
  PROVE  NamedIsFound
<1> SUFFICES ASSUME Answered, look.kind = "search", look.name \in Searchable, ~look.lost,
                    Cardinality(look.shown) # FinalTopK
             PROVE  /\ look.steady \subseteq look.shown
                    /\ look.quiet /\ ~failed => Indexed \subseteq look.shown
  BY DEF NamedIsFound
<1>1. look # Idle /\ Sought
  BY DEF Answered, Idle, Sought
<1>2. look.steady \subseteq look.shown
  BY <1>1 DEF SearchInv, Carried, Answered
<1>3. ASSUME look.quiet, ~failed
      PROVE  Indexed \subseteq look.shown
  <2>1. look.name \in Names
    BY CodeSearchAssumption
  <2>2. Indexed \subseteq look.steady
    BY <1>1, <1>3, <2>1 DEF SearchInv, Quiet, Indexed
  <2> QED
    BY <1>2, <2>2
<1> QED
  BY <1>2, <1>3

(* A search by the name of a function that is in both stores all the while shows it,     *)
(* whatever is indexed meanwhile and whatever overlapping or failed runs have left       *)
(* behind, and without either every function of that name in the indexed contents:       *)
(* unless the list is full, the name makes no token, or matches of the text were cut off *)
(* or could not be scored.                                                               *)
THEOREM NamedFound == Spec => []NamedIsFound
<1>1. SearchInv => NamedIsFound
  BY NamedIsShown
<1> QED
  BY <1>1, SearchInvariant, PTL
=============================================================================
