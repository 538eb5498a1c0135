--------------------------- MODULE AccountsProofs ---------------------------
(***************************************************************************)
(* There is never a second superuser, and one there is stays: and a cached *)
(* user that differs from PostgreSQL is about to be removed or its case is *)
(* known: for any accounts, logins, requests, starts of main and of        *)
(* archivers, and Redis failures.                                          *)
(***************************************************************************)
EXTENDS Accounts, FiniteSetTheorems, TLAPS

(* Requests that change an account, and those that do not yet. *)
IsChange(r) == r = [pc |-> r.pc, op |-> r.op, target |-> r.target, keys |-> r.keys, tok |-> r.tok]
Early == {"idle", "cache", "row", "fill", "login"}
RequestOK(r) ==
    \/ r.pc \in Early
    \/ /\ IsChange(r)
       /\ r.pc \in {"role", "count"} => r.op \in {"demote", "delete"}
       /\ r.pc = "verify" => r.op = "password"
       /\ r.pc = "write" => r.op \in {"password", "reset", "promote", "demote", "delete"}

(* What is checked without a lock stays true until it is used: only a start of main *)
(* or of an archiver makes another superuser.  Main's ends every request; when an   *)
(* archiver's finds a request past the checks of the user it raises, nothing is     *)
(* settled any more.                                                                *)
Checked(r) == settled /\ r.pc \in {"count", "write"} /\ r.op \in {"demote", "delete"} =>
                (r.target \in present => ~role[r.target].super)

TheSuperuser(d) ==
    /\ d \in present /\ role[d].admin
    /\ \A u \in Users : role[u].super <=> u = d
RolesTyped ==
    /\ present \subseteq Users /\ fresh \subseteq Users \ present
    /\ role \in [Users -> Role]
    /\ \A u \in fresh : ~role[u].super
NoSecond == \A u, v \in Users : role[u].super /\ role[v].super => u = v
SInv ==
    /\ RolesTyped /\ NoSecond /\ settled \in BOOLEAN
    /\ settled => \E d \in Users : TheSuperuser(d)
    /\ req = [p \in Requests |-> req[p]]
    /\ \A p \in Requests : RequestOK(req[p]) /\ Checked(req[p])
-----------------------------------------------------------------------------
LEMMA OneSuperuser == SInv => SuperuserKept
<1> SUFFICES ASSUME SInv PROVE SuperuserKept
  OBVIOUS
<1>1. Superusers \subseteq Users
  BY DEF Superusers, SInv, RolesTyped
<1>2. \A u, v \in Superusers : u = v
  BY <1>1 DEF Superusers, SInv, NoSecond
<1>3. Cardinality(Superusers) <= 1
  <2>1. CASE Superusers = {}
    BY <2>1, FS_EmptySet
  <2>2. CASE Superusers # {}
    <3>1. PICK u : Superusers = {u}
      BY <1>2, <2>2
    <3>2. Cardinality({u}) = 1
      BY FS_Singleton
    <3>3. Cardinality(Superusers) = 1
      BY <3>1, <3>2
    <3> QED
      BY <3>3
  <2> QED
    BY <2>1, <2>2
<1>4. ASSUME settled PROVE \E u \in Superusers : role[u].admin
  BY <1>4 DEF SInv, TheSuperuser, Superusers
<1> QED
  BY <1>3, <1>4 DEF SuperuserKept

(* The first start makes the one superuser, or there is none. *)
THEOREM InitSInv == Init => SInv
<1> SUFFICES ASSUME Init PROVE SInv
  OBVIOUS
<1>1. PICK u \in Users :
        /\ present = {FirstAdmin, u} /\ fresh = Users \ present
        /\ settled \in BOOLEAN
        /\ role = [v \in Users |->
             [Plain EXCEPT !.admin = v \in present, !.super = settled /\ v = FirstAdmin]]
  BY DEF Init
<1>2. FirstAdmin \in Users
  BY AccountsAssumption
<1>3. ASSUME NEW v \in Users
      PROVE  /\ role[v] \in Role
             /\ role[v].admin <=> v \in present
             /\ role[v].super <=> settled /\ v = FirstAdmin
  <2> DEFINE a == v \in present
             s == settled /\ v = FirstAdmin
  <2>1. role[v] = [Plain EXCEPT !.admin = a, !.super = s]
    BY <1>1
  <2>2. a \in BOOLEAN /\ s \in BOOLEAN
    OBVIOUS
  <2> HIDE DEF a, s
  <2>3. role[v] = [admin |-> a, super |-> s, must |-> FALSE]
    BY <2>1 DEF Plain
  <2>4. role[v] \in Role /\ role[v].admin = a /\ role[v].super = s
    BY <2>2, <2>3 DEF Role
  <2> QED
    BY <2>4, Zenon DEF a, s
<1>4. role \in [Users -> Role]
  BY <1>1, <1>3
<1>5. settled => TheSuperuser(FirstAdmin)
  BY <1>1, <1>2, <1>3 DEF TheSuperuser
<1>6. NoSecond /\ \A v \in fresh : ~role[v].super
  BY <1>1, <1>3 DEF NoSecond
<1>7. req = [p \in Requests |-> req[p]] /\ \A p \in Requests : req[p].pc = "idle"
  BY DEF Init, Idle
<1> QED
  BY <1>1, <1>2, <1>4, <1>5, <1>6, <1>7 DEF SInv, RolesTyped, RequestOK, Checked, Early
-----------------------------------------------------------------------------
LEMMA ChangeMoves ==
  ASSUME NEW r, IsChange(r), NEW x
  PROVE  LET s == [r EXCEPT !.pc = x]  t == [r EXCEPT !.keys = x] IN
         /\ IsChange(s) /\ s.pc = x /\ s.op = r.op /\ s.target = r.target
         /\ IsChange(t) /\ t.pc = r.pc /\ t.op = r.op /\ t.target = r.target
<1> DEFINE s == [r EXCEPT !.pc = x]
           t == [r EXCEPT !.keys = x]
<1>1. PICK pc, op, target, keys, tok :
        r = [pc |-> pc, op |-> op, target |-> target, keys |-> keys, tok |-> tok]
  BY Zenon DEF IsChange
<1>2. s = [pc |-> x, op |-> op, target |-> target, keys |-> keys, tok |-> tok]
  BY <1>1
<1>3. t = [pc |-> pc, op |-> op, target |-> target, keys |-> x, tok |-> tok]
  BY <1>1
<1> HIDE DEF s, t
<1>4. IsChange(s) /\ s.pc = x /\ s.op = r.op /\ s.target = r.target
  BY <1>1, <1>2 DEF IsChange
<1>5. IsChange(t) /\ t.pc = r.pc /\ t.op = r.op /\ t.target = r.target
  BY <1>1, <1>3 DEF IsChange
<1> QED
  BY <1>4, <1>5 DEF s, t

(* A step that changes no account, of one request. *)
LEMMA RequestMoves ==
  ASSUME SInv, UNCHANGED <<present, fresh, role, settled>>, NEW p \in Requests, NEW r,
         req' = [req EXCEPT ![p] = r], RequestOK(r), Checked(r)
  PROVE  SInv'
<1>1. req' = [q \in Requests |-> req'[q]] /\ \A q \in Requests : req'[q] = IF q = p THEN r ELSE req[q]
  BY DEF SInv
<1>2. /\ RolesTyped' /\ NoSecond' /\ settled' \in BOOLEAN
      /\ settled' => \E d \in Users : TheSuperuser(d)'
  BY DEF SInv, RolesTyped, NoSecond, TheSuperuser, Role
<1>3. ASSUME NEW q \in Requests PROVE RequestOK(req[q])' /\ Checked(req[q])'
  <2>1. RequestOK(req[q]) /\ Checked(req[q])
    BY DEF SInv
  <2>2. CASE q = p
    <3>1. req'[q] = r
      BY <1>1, <2>2
    <3> QED
      BY <3>1 DEF RequestOK, Checked, IsChange, Early
  <2>3. CASE q # p
    <3>1. req'[q] = req[q]
      BY <1>1, <2>3
    <3> QED
      BY <2>1, <3>1 DEF RequestOK, Checked, IsChange, Early
  <2> QED
    BY <2>2, <2>3
<1> QED
  BY <1>1, <1>2, <1>3 DEF SInv

LEMMA FinishKeeps ==
  ASSUME SInv, UNCHANGED <<present, fresh, role, settled>>, NEW p \in Requests, Finish(p)
  PROVE  SInv'
<1>1. RequestOK(Idle) /\ Checked(Idle)
  BY DEF RequestOK, Checked, Idle, Early
<1> QED
  BY <1>1, RequestMoves DEF Finish

LEMMA AcceptKeeps ==
  ASSUME SInv, UNCHANGED <<present, fresh, role, settled>>, NEW p \in Requests, NEW user, Accept(p, user)
  PROVE  SInv'
<1>1. CASE Finish(p)
  BY <1>1, FinishKeeps
<1>2. CASE ~Finish(p)
  <2>1. PICK op \in Ops, target \in Users \cup {NoUser} :
          req' = [req EXCEPT ![p] =
              [pc |-> FirstStep[op], op |-> op, target |-> target, keys |-> {},
               tok |-> IF op = "logout" THEN req[p].tok ELSE NoUser]]
    BY <1>2 DEF Accept
  <2> DEFINE tok == IF op = "logout" THEN req[p].tok ELSE NoUser
             r == [pc |-> FirstStep[op], op |-> op, target |-> target, keys |-> {}, tok |-> tok]
  <2>2. /\ FirstStep[op] # "count"
        /\ FirstStep[op] = "role" => op \in {"demote", "delete"}
        /\ FirstStep[op] = "verify" => op = "password"
        /\ FirstStep[op] = "write" => op \in {"reset", "promote"}
    BY DEF Ops, FirstStep
  <2> HIDE DEF tok
  <2>3. r.pc = FirstStep[op] /\ r.op = op /\ IsChange(r)
    BY DEF IsChange
  <2>4. RequestOK(r) /\ Checked(r)
    BY <2>2, <2>3 DEF RequestOK, Checked
  <2>5. req' = [req EXCEPT ![p] = r]
    BY <2>1 DEF tok
  <2> HIDE DEF r
  <2> QED
    BY <2>4, <2>5, RequestMoves
<1> QED
  BY <1>1, <1>2

(* A change goes on: to anything but the write and the check before it at once, *)
(* there only with what they rely on.                                           *)
LEMMA GotoKeeps ==
  ASSUME SInv, UNCHANGED <<present, fresh, role, settled>>, NEW p \in Requests, NEW label,
         req[p].pc \notin Early, Goto(p, label),
         \/ label \in {"uncache", "members", "delindex"}
         \/ label = "write" /\ req[p].op = "password"
         \/ /\ label \in {"count", "write"} /\ req[p].op \in {"demote", "delete"}
            /\ settled /\ req[p].target \in present => ~role[req[p].target].super
  PROVE  SInv'
<1> DEFINE r == [req[p] EXCEPT !.pc = label]
<1>1. IsChange(req[p])
  BY DEF SInv, RequestOK
<1>2. IsChange(r) /\ r.pc = label /\ r.op = req[p].op /\ r.target = req[p].target
  BY <1>1, ChangeMoves
<1>3. req' = [req EXCEPT ![p] = r]
  BY DEF Goto
<1> HIDE DEF r
<1>4. RequestOK(r) /\ Checked(r)
  BY <1>2 DEF RequestOK, Checked
<1> QED
  BY <1>3, <1>4, RequestMoves

LEMMA MembersKeeps == ASSUME SInv, NEW p \in Requests, Members(p) PROVE SInv'
<1> DEFINE keys == index[req[p].target]
           s == [req[p] EXCEPT !.pc = "delkeys"]
           t == [s EXCEPT !.keys = keys]
<1>1. IsChange(req[p]) /\ UNCHANGED <<present, fresh, role, settled>>
  BY DEF SInv, RequestOK, Members, pg, Early
<1>2. req' = [req EXCEPT ![p] = t]
  BY DEF Members, SInv
<1>3. IsChange(s) /\ s.pc = "delkeys"
  BY <1>1, ChangeMoves
<1> HIDE DEF s, keys
<1>4. IsChange(t) /\ t.pc = "delkeys"
  BY <1>3, ChangeMoves
<1> HIDE DEF t
<1>5. RequestOK(t) /\ Checked(t)
  BY <1>4 DEF RequestOK, Checked
<1> QED
  BY <1>1, <1>2, <1>5, RequestMoves

(* The steps of a request that read, log in or out, or clear the cache. *)
LEMMA ReadingKeeps ==
  ASSUME SInv, NEW p \in Requests,
         ReadCache(p) \/ ReadRow(p) \/ Fill(p) \/ (\E t \in Tokens : IssueToken(p, t))
  PROVE  SInv'
<1>1. UNCHANGED <<present, fresh, role, settled>>
  BY DEF ReadCache, ReadRow, Fill, IssueToken, pg
<1>2. \/ \E user : Accept(p, user)
      \/ Finish(p)
      \/ \E r : req' = [req EXCEPT ![p] = r] /\ r.pc \in {"row", "fill"}
  <2>1. CASE ReadCache(p)
    <3> DEFINE r(fill) == [pc |-> "row", tok |-> req[p].tok, fill |-> fill]
    <3>1. \/ Accept(p, cache[req[p].tok])
          \/ req' = [req EXCEPT ![p] = r(FALSE)]
          \/ req' = [req EXCEPT ![p] = r(TRUE)]
      BY <2>1 DEF ReadCache
    <3>2. r(FALSE).pc = "row" /\ r(TRUE).pc = "row"
      OBVIOUS
    <3> HIDE DEF r
    <3> QED
      BY <3>1, <3>2
  <2>2. CASE ReadRow(p)
    BY <2>2 DEF ReadRow
  <2>3. CASE Fill(p)
    BY <2>3 DEF Fill
  <2>4. CASE \E t \in Tokens : IssueToken(p, t)
    BY <2>4 DEF IssueToken
  <2> QED
    BY <2>1, <2>2, <2>3, <2>4
<1>3. ASSUME NEW r, r.pc \in {"row", "fill"} PROVE RequestOK(r) /\ Checked(r)
  BY <1>3 DEF RequestOK, Checked, Early
<1> QED
  BY <1>1, <1>2, <1>3, AcceptKeeps, FinishKeeps, RequestMoves

LEMMA ClearingKeeps ==
  ASSUME SInv, NEW p \in Requests,
         DropLogin(p) \/ DropCopy(p) \/ GiveUp(p) \/ DeleteCopies(p) \/ DeleteIndex(p)
  PROVE  SInv'
<1>1. UNCHANGED <<present, fresh, role, settled>>
  BY DEF DropLogin, DropCopy, GiveUp, DeleteCopies, DeleteIndex, pg
<1>2. CASE DropLogin(p) \/ DeleteCopies(p)
  BY <1>1, <1>2, GotoKeeps DEF DropLogin, DeleteCopies, Early
<1>3. CASE DropCopy(p) \/ GiveUp(p) \/ DeleteIndex(p)
  BY <1>1, <1>3, FinishKeeps DEF DropCopy, GiveUp, DeleteIndex
<1> QED
  BY <1>2, <1>3

LEMMA CheckingKeeps ==
  ASSUME SInv, NEW p \in Requests, Verify(p) \/ CheckRole(p) \/ CountAdmins(p)
  PROVE  SInv'
<1>1. UNCHANGED <<present, fresh, role, settled>>
  BY DEF Verify, CheckRole, CountAdmins, pg
<1>2. RequestOK(req[p]) /\ Checked(req[p])
  BY DEF SInv
<1>3. CASE Finish(p)
  BY <1>1, <1>3, FinishKeeps
<1>4. CASE Verify(p) /\ ~Finish(p)
  BY <1>1, <1>2, <1>4, GotoKeeps DEF Verify, RequestOK, Early
<1>5. CASE CheckRole(p) /\ ~Finish(p)
  BY <1>1, <1>2, <1>5, GotoKeeps DEF CheckRole, RequestOK, Early
<1>6. CASE CountAdmins(p) /\ ~Finish(p)
  BY <1>1, <1>2, <1>6, GotoKeeps DEF CountAdmins, RequestOK, Checked, Early
<1> QED
  BY <1>3, <1>4, <1>5, <1>6
-----------------------------------------------------------------------------
(* Steps that change roles or users, but make no superuser and leave a settled one be. *)
LEMMA RolesMove ==
  ASSUME SInv, RolesTyped', UNCHANGED settled, NEW p \in Requests, NEW r,
         req' = [req EXCEPT ![p] = r], RequestOK(r), r.pc \notin {"count", "write"},
         settled => \A d \in Users : TheSuperuser(d) => d \in present' /\ role'[d].admin,
         \A u \in Users : role'[u].super <=> role[u].super,
         \A u \in present' \ present : ~role[u].super
  PROVE  SInv'
<1>1. req' = [q \in Requests |-> req'[q]] /\ \A q \in Requests : req'[q] = IF q = p THEN r ELSE req[q]
  BY DEF SInv
<1>2. /\ NoSecond' /\ settled' \in BOOLEAN
      /\ settled' => \E d \in Users : TheSuperuser(d)'
  BY DEF SInv, NoSecond, TheSuperuser
<1>3. ASSUME NEW q \in Requests PROVE RequestOK(req[q])' /\ Checked(req[q])'
  <2>1. RequestOK(req[q]) /\ Checked(req[q])
    BY DEF SInv
  <2>2. CASE q = p
    <3>1. req'[q] = r
      BY <1>1, <2>2
    <3> QED
      BY <3>1 DEF RequestOK, Checked, IsChange, Early
  <2>3. CASE q # p
    <3>1. req'[q] = req[q]
      BY <1>1, <2>3
    <3>2. \A u \in present' : u \in Users /\ (role'[u].super => u \in present /\ role[u].super)
      BY DEF RolesTyped
    <3> QED
      BY <2>1, <3>1, <3>2 DEF RequestOK, Checked, IsChange, Early
  <2> QED
    BY <2>2, <2>3
<1> QED
  BY <1>1, <1>2, <1>3 DEF SInv

LEMMA InsertKeeps == ASSUME SInv, NEW p \in Requests, Insert(p) PROVE SInv'
<1>1. PICK S \in SUBSET (present \cup fresh) \ {{}}, admin \in BOOLEAN :
         IF S \subseteq fresh
            THEN /\ present' = present \cup S /\ fresh' = fresh \ S
                 /\ role' = [u \in Users |-> IF u \in S
                               THEN [admin |-> admin, super |-> FALSE, must |-> TRUE]
                               ELSE role[u]]
            ELSE UNCHANGED <<present, fresh, role>>
  BY DEF Insert
<1>2. Finish(p) /\ RequestOK(Idle) /\ Idle.pc = "idle" /\ UNCHANGED settled
  BY DEF Insert, RequestOK, Idle, Early
<1>3. CASE S \subseteq fresh
  <2>1. /\ present' = present \cup S /\ fresh' = fresh \ S
        /\ \A u \in Users : role'[u] = IF u \in S THEN [admin |-> admin, super |-> FALSE, must |-> TRUE]
                                       ELSE role[u]
        /\ role' = [u \in Users |-> role'[u]]
    BY <1>1, <1>3
  <2>2. [admin |-> admin, super |-> FALSE, must |-> TRUE] \in Role
    BY DEF Role
  <2>3. RolesTyped'
    BY <2>1, <2>2, <1>3 DEF SInv, RolesTyped, Role
  <2>4. \A u \in S : u \in Users /\ u \notin present /\ ~role[u].super
    BY <1>3 DEF SInv, RolesTyped, TheSuperuser
  <2>5. \A u \in Users : role'[u].super <=> role[u].super
    BY <2>1, <2>4
  <2>6. \A d \in Users : TheSuperuser(d) => d \in present' /\ role'[d].admin
    BY <2>1, <2>4 DEF TheSuperuser
  <2> QED
    BY <1>2, <2>1, <2>3, <2>4, <2>5, <2>6, RolesMove DEF Finish
<1>4. CASE ~(S \subseteq fresh)
  BY <1>1, <1>2, <1>4, FinishKeeps
<1> QED
  BY <1>3, <1>4

LEMMA WriteKeeps == ASSUME SInv, NEW p \in Requests, Write(p) PROVE SInv'
<1> DEFINE u == req[p].target
           op == req[p].op
           r == [req[p] EXCEPT !.pc = "members"]
<1>1. CASE u \notin present
  BY <1>1, FinishKeeps DEF Write, pg
<1>2. CASE u \in present
  <2>1. /\ req[p].pc = "write" /\ IsChange(req[p]) /\ Checked(req[p])
        /\ op \in {"password", "reset", "promote", "demote", "delete"}
    BY DEF Write, SInv, RequestOK, Early
  <2>2. req' = [req EXCEPT ![p] = r] /\ RequestOK(r) /\ r.pc = "members"
    BY <1>2, <2>1, ChangeMoves DEF Write, Goto, RequestOK
  <2>3. settled /\ op \in {"demote", "delete"} => ~role[u].super
    BY <1>2, <2>1 DEF Checked
  <2>4. u \in Users /\ u \notin fresh /\ fresh' = fresh /\ UNCHANGED settled
    BY <1>2 DEF Write, SInv, RolesTyped
  <2> HIDE DEF r
  <2>5. CASE op = "delete"
    <3>1. present' = present \ {u} /\ role' = role
      BY <1>2, <2>5 DEF Write
    <3>2. RolesTyped'
      BY <2>4, <3>1 DEF SInv, RolesTyped
    <3>3. settled => \A d \in Users : TheSuperuser(d) => d \in present' /\ role'[d].admin
      BY <2>3, <2>5, <3>1 DEF TheSuperuser
    <3> QED
      BY <2>2, <2>4, <3>1, <3>2, <3>3, RolesMove
  <2>6. CASE op # "delete"
    <3>1. present' = present /\ role' = [role EXCEPT ![u] = NewRole(op, role[u])]
      BY <1>2, <2>6 DEF Write
    <3>2. role[u] \in Role
      BY <2>4 DEF SInv, RolesTyped
    <3>3. /\ NewRole(op, role[u]) \in Role
          /\ NewRole(op, role[u]).super = role[u].super
          /\ op # "demote" /\ role[u].admin => NewRole(op, role[u]).admin
      BY <2>1, <2>6, <3>2 DEF NewRole, Role
    <3> DEFINE new == NewRole(op, role[u])
    <3> HIDE DEF new
    <3>4. RolesTyped' /\ \A v \in Users : role'[v] = IF v = u THEN new ELSE role[v]
      BY <2>4, <3>1, <3>3 DEF SInv, RolesTyped, new
    <3>5. \A v \in Users : role'[v].super <=> role[v].super
      BY <3>3, <3>4 DEF new
    <3>6. settled => \A d \in Users : TheSuperuser(d) => d \in present' /\ role'[d].admin
      BY <2>1, <2>3, <2>6, <3>1, <3>3, <3>4 DEF TheSuperuser, new
    <3> QED
      BY <2>2, <2>4, <3>1, <3>4, <3>5, <3>6, RolesMove
  <2> QED
    BY <2>5, <2>6
<1> QED
  BY <1>1, <1>2

(* A start raises one user, and the others are superusers no longer. *)
LEMMA StartRaises ==
  ASSUME SInv, NEW d \in Admins, EnsureDefaultAdmin(d)
  PROVE  RolesTyped' /\ NoSecond' /\ settled' \in BOOLEAN /\ TheSuperuser(d)' /\ d \in Users
<1>1. /\ d \in Users /\ d \in present \cup fresh
      /\ present' = present \cup {d} /\ fresh' = fresh \ {d}
      /\ role' = [u \in Users |->
           IF u = d THEN [admin |-> TRUE, super |-> TRUE,
                          must |-> u \in present /\ role[u].admin /\ role[u].must]
           ELSE [role[u] EXCEPT !.super = FALSE]]
  BY AccountsAssumption DEF EnsureDefaultAdmin
<1>2. ASSUME NEW u \in Users
      PROVE  /\ role'[u] \in Role
             /\ role'[u].super <=> u = d
             /\ u = d => role'[u].admin
  <2>1. CASE u = d
    <3> DEFINE m == u \in present /\ role[u].admin /\ role[u].must
    <3>1. role'[u] = [admin |-> TRUE, super |-> TRUE, must |-> m] /\ m \in BOOLEAN
      BY <1>1, <2>1
    <3> HIDE DEF m
    <3> QED
      BY <2>1, <3>1 DEF Role
  <2>2. CASE u # d
    <3>1. role'[u] = [role[u] EXCEPT !.super = FALSE] /\ role[u] \in Role
      BY <1>1, <2>2 DEF SInv, RolesTyped
    <3> QED
      BY <2>2, <3>1 DEF Role
  <2> QED
    BY <2>1, <2>2
<1>3. RolesTyped'
  <2>1. present' \subseteq Users /\ fresh' \subseteq Users \ present'
    BY <1>1 DEF SInv, RolesTyped
  <2>2. role' \in [Users -> Role]
    <3>1. role' = [u \in Users |-> role'[u]]
      BY <1>1
    <3>2. \A u \in Users : role'[u] \in Role
      BY <1>2
    <3> QED
      BY <3>1, <3>2
  <2>3. \A u \in fresh' : ~role'[u].super
    BY <1>1, <1>2, <2>1
  <2> QED
    BY <2>1, <2>2, <2>3 DEF RolesTyped
<1>4. TheSuperuser(d)' /\ NoSecond'
  BY <1>1, <1>2 DEF TheSuperuser, NoSecond
<1>5. settled' \in BOOLEAN
  BY DEF EnsureDefaultAdmin
<1> QED
  BY <1>1, <1>3, <1>4, <1>5

LEMMA RestartKeeps == ASSUME SInv, NEW d \in Admins \cup {NoUser}, Restart(d) PROVE SInv'
<1>1. /\ req' = [q \in Requests |-> req'[q]]
      /\ \A q \in Requests : req'[q] = Idle /\ req'[q].pc = "idle"
  BY DEF Restart, Idle
<1>2. \A q \in Requests : RequestOK(req[q])' /\ Checked(req[q])'
  BY <1>1 DEF RequestOK, Checked, Early
<1>3. CASE d = NoUser
  <2>1. UNCHANGED <<present, fresh, role, settled>>
    BY <1>3 DEF Restart, Bootstrap
  <2>2. /\ RolesTyped' /\ NoSecond' /\ settled' \in BOOLEAN
        /\ settled' => \E u \in Users : TheSuperuser(u)'
    BY <2>1 DEF SInv, RolesTyped, NoSecond, TheSuperuser, Role
  <2> QED
    BY <1>1, <1>2, <2>2 DEF SInv
<1>4. CASE d # NoUser
  <2>1. d \in Admins /\ EnsureDefaultAdmin(d)
    BY <1>4 DEF Restart, Bootstrap
  <2> QED
    BY <1>1, <1>2, <2>1, StartRaises DEF SInv
<1> QED
  BY <1>3, <1>4

(* Under an archiver's start a request can be past the checks of another user only. *)
LEMMA ArchiverKeeps == ASSUME SInv, NEW d \in Admins, ArchiverStart(d) PROVE SInv'
<1>1. /\ RolesTyped' /\ NoSecond' /\ settled' \in BOOLEAN /\ TheSuperuser(d)' /\ d \in Users
      /\ req' = req
      /\ settled' => \A q \in Requests : ~PastChecks(req[q], d)
  BY StartRaises DEF ArchiverStart, EnsureDefaultAdmin
<1>2. ASSUME NEW q \in Requests PROVE RequestOK(req[q])' /\ Checked(req[q])'
  <2>1. RequestOK(req[q])
    BY DEF SInv
  <2>2. RequestOK(req[q])'
    BY <1>1, <2>1 DEF RequestOK, IsChange, Early
  <2>3. Checked(req[q])'
    BY <1>1 DEF Checked, PastChecks, TheSuperuser, RolesTyped
  <2> QED
    BY <2>2, <2>3
<1> QED
  BY <1>1, <1>2 DEF SInv
-----------------------------------------------------------------------------
(* Every step of every request, and every start, makes no second superuser and leaves *)
(* a settled one be.                                                                  *)
THEOREM NextKeepsSInv == SInv /\ [Next]_vars => SInv'
<1> SUFFICES ASSUME SInv, [Next]_vars PROVE SInv'
  OBVIOUS
<1>1. ASSUME NEW p \in Requests, Step(p) PROVE SInv'
  BY <1>1, MembersKeeps, ReadingKeeps, ClearingKeeps, CheckingKeeps, InsertKeeps, WriteKeeps
     DEF Step
<1>2. ASSUME NEW d \in Admins \cup {NoUser}, Restart(d) PROVE SInv'
  BY <1>2, RestartKeeps
<1>10. ASSUME NEW d \in Admins, ArchiverStart(d) PROVE SInv'
  BY <1>10, ArchiverKeeps
<1>3. ASSUME NEW p \in Requests, NEW r, UNCHANGED <<pg, settled>>,
             req' = [req EXCEPT ![p] = r], r.pc \in {"cache", "login"}
      PROVE  SInv'
  <2>1. RequestOK(r) /\ Checked(r)
    BY <1>3 DEF RequestOK, Checked, Early
  <2> QED
    BY <1>3, <2>1, RequestMoves DEF pg
<1>4. ASSUME NEW p \in Requests, NEW t \in Tokens, Call(p, t) PROVE SInv'
  BY <1>3, <1>4 DEF Call
<1>5. ASSUME NEW p \in Requests, NEW u \in Users, StartLogin(p, u) PROVE SInv'
  BY <1>3, <1>5 DEF StartLogin
<1>6. ASSUME UNCHANGED <<present, fresh, role, req, settled>> PROVE SInv'
  BY <1>6 DEF SInv, RolesTyped, NoSecond, TheSuperuser, RequestOK, Checked, IsChange, Early, Role
<1>7. ASSUME NEW t \in Tokens, ExpireCopy(t) \/ ExpireLogin(t)
      PROVE  UNCHANGED <<present, fresh, role, req, settled>>
  BY <1>7 DEF ExpireCopy, ExpireLogin, pg
<1>8. ASSUME NEW u \in Users, EvictIndex(u) PROVE UNCHANGED <<present, fresh, role, req, settled>>
  BY <1>8 DEF EvictIndex, pg
<1>9. Recover \/ UNCHANGED vars => UNCHANGED <<present, fresh, role, req, settled>>
  BY DEF Recover, vars, pg
<1> QED
  BY <1>1, <1>2, <1>4, <1>5, <1>6, <1>7, <1>8, <1>9, <1>10 DEF Next

(* There is never a second superuser; and once a start has made one, it stays there   *)
(* and an administrator: no order of demotions and deletions, with the checks made    *)
(* before the writes and without a lock, of restarts, and of archivers starting under *)
(* another name leaves the installation without one, but for a start that raises a    *)
(* user whom a request was just about to demote or delete, up to the next start.      *)
THEOREM AccountsSuperuserKept == Spec => []SuperuserKept
BY InitSInv, NextKeepsSInv, OneSuperuser, PTL DEF Spec
-----------------------------------------------------------------------------
(* Which cached copies are found by an invalidation, and which are known to be       *)
(* outdated.  A copy that nothing excuses is in the index of its user, and among the  *)
(* keys of every invalidation of that user that has read the index; and if it is not  *)
(* what PostgreSQL has, somebody is about to remove it.                               *)
ListedFor(p, t) == /\ req[p].pc = "delkeys" /\ req[p].target = cache[t].id => t \in req[p].keys
                   /\ req[p].pc = "delindex" => req[p].target # cache[t].id
RemovedBy(p, t) ==
    \/ req[p].pc = "members" /\ req[p].target = cache[t].id /\ t \in index[cache[t].id]
    \/ req[p].pc = "delkeys" /\ req[p].target = cache[t].id /\ t \in req[p].keys
    \/ req[p].pc = "uncache" /\ req[p].tok = t
Good(t) == cache[t] # Nothing /\ t \notin excused =>
    /\ t \in index[cache[t].id]
    /\ \A p \in Requests : ListedFor(p, t)
    /\ cache[t] # Current(t) => \E p \in Requests : RemovedBy(p, t)

(* A token is cached only after it was issued, and then belongs to one user for good. *)
LookupOK(r) == /\ r.pc \in {"cache", "row", "fill"} => r.tok \in issued
               /\ r.pc = "fill" => r.user \in Copy
CopiesTyped ==
    /\ issued \subseteq Tokens
    /\ login \in [Tokens -> Users \cup {NoUser}]
    /\ \A t \in Tokens : login[t] # NoUser => login[t] \in present
    /\ cache \in [Tokens -> Copy \cup {Nothing}]
    /\ index \in [Users -> SUBSET Tokens]
    /\ \A t \in Tokens : cache[t] # Nothing => t \in issued
    /\ \A p \in Requests : LookupOK(req[p])
CInv == SInv /\ CopiesTyped /\ \A t \in Tokens : Good(t)
-----------------------------------------------------------------------------
LEMMA GoodIsKnown == CInv => StaleIsKnown
<1> SUFFICES ASSUME CInv, NEW t \in Tokens, Stale(t), t \notin excused PROVE Removing(t)
  BY DEF StaleIsKnown
<1>1. PICK p \in Requests : RemovedBy(p, t)
  BY DEF CInv, Good, Stale
<1> QED
  BY <1>1 DEF RemovedBy, Removing

LEMMA InitCInv == Init => CInv
<1> SUFFICES ASSUME Init PROVE CInv
  OBVIOUS
<1>1. SInv
  BY InitSInv
<1>2. PICK u \in Users :
        /\ present = {FirstAdmin, u}
        /\ \/ issued = {} /\ login = [t \in Tokens |-> NoUser]
           \/ /\ issued = Tokens
              /\ LET first == CHOOSE t \in Tokens : TRUE IN
                 login = [t \in Tokens |-> IF t = first THEN FirstAdmin ELSE u]
  BY DEF Init
<1>3. issued \subseteq Tokens /\ login \in [Tokens -> Users \cup {NoUser}]
      /\ \A t \in Tokens : login[t] # NoUser => login[t] \in present
  BY <1>2, AccountsAssumption
<1>4. /\ cache = [t \in Tokens |-> Nothing] /\ index = [v \in Users |-> {}]
      /\ \A p \in Requests : req[p].pc = "idle"
  BY DEF Init, Idle
<1> QED
  BY <1>1, <1>3, <1>4 DEF CInv, CopiesTyped, Good, LookupOK
-----------------------------------------------------------------------------
(* What one step has to leave of a good token. *)
LEMMA TokenKept ==
  ASSUME NEW t \in Tokens, Good(t), cache'[t] = cache[t],
         t \notin excused' /\ cache[t] # Nothing => t \notin excused,
         t \notin excused' /\ cache[t] # Nothing /\ t \in index[cache[t].id] => t \in index'[cache[t].id],
         \A p \in Requests : cache[t] # Nothing /\ t \notin excused' /\ RemovedBy(p, t) =>
           (\E q \in Requests : RemovedBy(q, t)'),
         \A p \in Requests : cache[t] # Nothing /\ t \notin excused' /\ ListedFor(p, t) =>
           ListedFor(p, t)',
         \/ Current(t)' = Current(t)
         \/ cache[t] # Nothing /\ t \notin excused' /\ cache[t] = Current(t)
              /\ t \in index[cache[t].id] => \E q \in Requests : RemovedBy(q, t)'
  PROVE  Good(t)'
<1> SUFFICES ASSUME cache'[t] # Nothing, t \notin excused'
             PROVE  /\ t \in index'[cache'[t].id]
                    /\ \A p \in Requests : ListedFor(p, t)'
                    /\ cache'[t] # Current(t)' => \E p \in Requests : RemovedBy(p, t)'
  BY DEF Good
<1>1. /\ t \in index[cache[t].id] /\ \A p \in Requests : ListedFor(p, t)
      /\ cache[t] # Current(t) => \E p \in Requests : RemovedBy(p, t)
  BY DEF Good
<1> QED
  BY <1>1

(* A step of p leaves the removals by other requests alone. *)
LEMMA StepKeepsToken ==
  ASSUME CInv, NEW t \in Tokens, NEW p \in Requests, \A q \in Requests \ {p} : req'[q] = req[q],
         cache'[t] = cache[t],
         t \notin excused' /\ cache[t] # Nothing => t \notin excused,
         t \notin excused' /\ cache[t] # Nothing /\ t \in index[cache[t].id] => t \in index'[cache[t].id],
         cache[t] # Nothing /\ t \notin excused' => ~RemovedBy(p, t),
         cache[t] # Nothing /\ t \notin excused' =>
            \/ req'[p].pc \notin {"delkeys", "delindex"} \/ req'[p].target # cache[t].id,
         \/ Current(t)' = Current(t)
         \/ cache[t] # Nothing /\ t \notin excused' /\ cache[t] = Current(t)
              /\ t \in index[cache[t].id] => RemovedBy(p, t)'
  PROVE  Good(t)'
<1>1. Good(t)
  BY DEF CInv
<1>2. ASSUME NEW q \in Requests, cache[t] # Nothing, t \notin excused', RemovedBy(q, t)
      PROVE  RemovedBy(q, t)'
  BY <1>2 DEF RemovedBy
<1>3. ASSUME NEW q \in Requests, cache[t] # Nothing, t \notin excused', ListedFor(q, t)
      PROVE  ListedFor(q, t)'
  <2>1. CASE q = p
    BY <1>3, <2>1 DEF ListedFor
  <2>2. CASE q # p
    BY <1>3, <2>2 DEF ListedFor
  <2> QED
    BY <2>1, <2>2
<1> QED
  BY <1>1, <1>2, <1>3, TokenKept
-----------------------------------------------------------------------------
Deleting == {"delkeys", "delindex"}
Removers == {"members", "delkeys", "uncache"}

LEMMA RequestChanges ==
  ASSUME CInv, NEW p \in Requests, NEW r, req' = [req EXCEPT ![p] = r]
  PROVE  req'[p] = r /\ \A q \in Requests \ {p} : req'[q] = req[q]
BY DEF CInv, SInv

LEMMA TypesKept ==
  ASSUME CInv, NEW p \in Requests, NEW r, req' = [req EXCEPT ![p] = r],
         LookupOK(r), issued \subseteq issued', issued' \subseteq Tokens,
         login' \in [Tokens -> Users \cup {NoUser}],
         \A t \in Tokens : login'[t] # NoUser => login'[t] \in present',
         cache' \in [Tokens -> Copy \cup {Nothing}], index' \in [Users -> SUBSET Tokens],
         \A t \in Tokens : cache'[t] # Nothing => t \in issued'
  PROVE  CopiesTyped'
<1>1. req'[p] = r /\ \A q \in Requests \ {p} : req'[q] = req[q]
  BY RequestChanges
<1>2. ASSUME NEW q \in Requests PROVE LookupOK(req[q])'
  <2>1. CASE q = p
    BY <1>1, <2>1 DEF LookupOK
  <2>2. CASE q # p
    BY <1>1, <2>2 DEF CInv, CopiesTyped, LookupOK
  <2> QED
    BY <2>1, <2>2
<1> QED
  BY <1>2 DEF CInv, CopiesTyped

(* A step of a request that removes nothing and changes no login and no copy. *)
LEMMA QuietKeeps ==
  ASSUME CInv, SInv', NEW p \in Requests, NEW r, req' = [req EXCEPT ![p] = r], LookupOK(r),
         r.pc \notin Deleting, req[p].pc \notin Removers,
         UNCHANGED <<login, issued, redis, excused>>, present \subseteq present',
         \A t \in Tokens : Current(t)' = Current(t)
  PROVE  CInv'
<1>1. req'[p] = r /\ \A q \in Requests \ {p} : req'[q] = req[q]
  BY RequestChanges
<1>2. CopiesTyped'
  BY TypesKept DEF CInv, CopiesTyped, redis
<1>3. ASSUME NEW t \in Tokens PROVE Good(t)'
  <2>1. ~RemovedBy(p, t)
    BY DEF RemovedBy, Removers
  <2>2. cache' = cache /\ index' = index /\ excused' = excused
    BY DEF redis
  <2> QED
    BY <1>1, <2>1, <2>2, StepKeepsToken DEF Deleting
<1> QED
  BY <1>2, <1>3 DEF CInv

LEMMA Accepted ==
  ASSUME NEW p \in Requests, NEW user, Accept(p, user)
  PROVE  \E r : req' = [req EXCEPT ![p] = r] /\ LookupOK(r) /\ r.pc \notin Deleting
<1>1. CASE Finish(p)
  <2>1. LookupOK(Idle) /\ Idle.pc \notin Deleting
    BY DEF Idle, LookupOK, Deleting
  <2> QED
    BY <1>1, <2>1 DEF Finish
<1>2. CASE ~Finish(p)
  <2>1. PICK op \in Ops, target \in Users \cup {NoUser} :
          req' = [req EXCEPT ![p] =
              [pc |-> FirstStep[op], op |-> op, target |-> target, keys |-> {},
               tok |-> IF op = "logout" THEN req[p].tok ELSE NoUser]]
    BY <1>2 DEF Accept
  <2> DEFINE tok == IF op = "logout" THEN req[p].tok ELSE NoUser
             r == [pc |-> FirstStep[op], op |-> op, target |-> target, keys |-> {}, tok |-> tok]
  <2>2. FirstStep[op] \in {"drop", "verify", "insert", "write", "role"}
    BY DEF Ops, FirstStep
  <2> HIDE DEF tok
  <2>3. r.pc = FirstStep[op]
    OBVIOUS
  <2>4. req' = [req EXCEPT ![p] = r]
    BY <2>1 DEF tok
  <2> HIDE DEF r
  <2> QED
    BY <2>2, <2>3, <2>4 DEF LookupOK, Deleting
<1> QED
  BY <1>1, <1>2

(* A change goes on to another step. *)
LEMMA GotoMoves ==
  ASSUME CInv, NEW p \in Requests, NEW label, Goto(p, label), req[p].pc \notin Early
  PROVE  \E r : /\ req' = [req EXCEPT ![p] = r] /\ r.pc = label
                /\ r.target = req[p].target /\ r.keys = req[p].keys /\ r.tok = req[p].tok
<1> DEFINE r == [req[p] EXCEPT !.pc = label]
<1>1. IsChange(req[p])
  BY DEF CInv, SInv, RequestOK
<1>2. PICK pc, op, target, keys, tok :
        req[p] = [pc |-> pc, op |-> op, target |-> target, keys |-> keys, tok |-> tok]
  BY <1>1, Zenon DEF IsChange
<1>3. r = [pc |-> label, op |-> op, target |-> target, keys |-> keys, tok |-> tok]
  BY <1>2
<1>4. req' = [req EXCEPT ![p] = r]
  BY DEF Goto
<1> HIDE DEF r
<1>5. r.pc = label /\ r.target = req[p].target /\ r.keys = req[p].keys /\ r.tok = req[p].tok
  BY <1>2, <1>3
<1> QED
  BY <1>4, <1>5

LEMMA SameCurrent ==
  ASSUME CInv, UNCHANGED <<login, role>>
  PROVE  \A t \in Tokens : Current(t)' = Current(t)
BY DEF Current, Rights

(* A request comes, looks up its user, checks, or ends. *)
LEMMA LookingKeeps ==
  ASSUME CInv, SInv', NEW p \in Requests,
         \/ \E t \in Tokens : Call(p, t)
         \/ \E u \in Users : StartLogin(p, u)
         \/ ReadCache(p) \/ ReadRow(p)
         \/ Verify(p) \/ CheckRole(p) \/ CountAdmins(p)
  PROVE  CInv'
<1>1. UNCHANGED <<login, issued, role, present, redis, excused>>
  BY DEF Call, StartLogin, ReadCache, ReadRow, Verify, CheckRole, CountAdmins, pg
<1>2. \A t \in Tokens : Current(t)' = Current(t)
  BY <1>1, SameCurrent
<1>3. req[p].pc \notin Removers
  BY DEF Call, StartLogin, ReadCache, ReadRow, Verify, CheckRole, CountAdmins, Idle, Removers
<1>4. SUFFICES \E r : req' = [req EXCEPT ![p] = r] /\ LookupOK(r) /\ r.pc \notin Deleting
  BY <1>1, <1>2, <1>3, QuietKeeps
<1>5. ASSUME Finish(p) PROVE \E r : req' = [req EXCEPT ![p] = r] /\ LookupOK(r) /\ r.pc \notin Deleting
  <2>1. LookupOK(Idle) /\ Idle.pc \notin Deleting
    BY DEF Idle, LookupOK, Deleting
  <2> QED
    BY <1>5, <2>1 DEF Finish
<1>6. LookupOK(req[p])
  BY DEF CInv, CopiesTyped
<1>7. CASE \E t \in Tokens : Call(p, t)
  <2>1. PICK t \in Tokens : Call(p, t)
    BY <1>7
  <2> DEFINE r == [pc |-> "cache", tok |-> t]
  <2>2. req' = [req EXCEPT ![p] = r] /\ r.pc = "cache" /\ r.tok = t /\ t \in issued
    BY <2>1 DEF Call
  <2> HIDE DEF r
  <2> QED
    BY <2>2 DEF LookupOK, Deleting
<1>8. CASE \E u \in Users : StartLogin(p, u)
  <2>1. PICK u \in Users : StartLogin(p, u)
    BY <1>8
  <2> DEFINE r == [pc |-> "login", target |-> u]
  <2>2. req' = [req EXCEPT ![p] = r] /\ r.pc = "login"
    BY <2>1 DEF StartLogin
  <2> HIDE DEF r
  <2> QED
    BY <2>2 DEF LookupOK, Deleting
<1>9. CASE ReadCache(p)
  <2> DEFINE r(fill) == [pc |-> "row", tok |-> req[p].tok, fill |-> fill]
  <2>1. /\ req[p].pc = "cache"
        /\ \/ Accept(p, cache[req[p].tok])
           \/ req' = [req EXCEPT ![p] = r(FALSE)]
           \/ req' = [req EXCEPT ![p] = r(TRUE)]
    BY <1>9 DEF ReadCache
  <2>2. \A fill \in BOOLEAN : r(fill).pc = "row" /\ r(fill).tok = req[p].tok
    OBVIOUS
  <2>3. req[p].tok \in issued
    BY <1>6, <2>1 DEF LookupOK
  <2> HIDE DEF r
  <2>4. \A fill \in BOOLEAN : LookupOK(r(fill)) /\ r(fill).pc \notin Deleting
    BY <2>2, <2>3 DEF LookupOK, Deleting
  <2> QED
    BY <2>1, <2>4, Accepted
<1>10. CASE ReadRow(p)
  <2> DEFINE tok == req[p].tok
             user == Current(tok)
             r == [pc |-> "fill", tok |-> tok, user |-> user]
  <2>1. /\ req[p].pc = "row"
        /\ \/ Finish(p)
           \/ Accept(p, user)
           \/ user # Nothing /\ req' = [req EXCEPT ![p] = r]
    BY <1>10 DEF ReadRow
  <2>2. tok \in issued /\ tok \in Tokens
    BY <1>6, <2>1 DEF LookupOK, CInv, CopiesTyped
  <2>3. user # Nothing => user \in Copy
    <3> SUFFICES ASSUME user # Nothing PROVE user \in Copy
      OBVIOUS
    <3>1. login[tok] \in Users /\ role[login[tok]] \in Role
      BY <2>2 DEF Current, CInv, CopiesTyped, SInv, RolesTyped
    <3> QED
      BY <3>1 DEF Current, Rights, Copy, Role
  <2> HIDE DEF user, tok
  <2>4. r.pc = "fill" /\ r.tok = tok /\ r.user = user
    OBVIOUS
  <2> HIDE DEF r
  <2>5. user # Nothing => LookupOK(r) /\ r.pc \notin Deleting
    BY <2>2, <2>3, <2>4 DEF LookupOK, Deleting
  <2> QED
    BY <1>5, <2>1, <2>5, Accepted
<1>11. ASSUME NEW label, label \in {"write", "count"}, Goto(p, label), req[p].pc \notin Early
       PROVE  \E r : req' = [req EXCEPT ![p] = r] /\ LookupOK(r) /\ r.pc \notin Deleting
  BY <1>11, GotoMoves DEF LookupOK, Deleting
<1>12. CASE Verify(p) \/ CheckRole(p) \/ CountAdmins(p)
  <2>1. req[p].pc \notin Early
    BY <1>12 DEF Verify, CheckRole, CountAdmins, Early
  <2>2. Finish(p) \/ Goto(p, "write") \/ Goto(p, "count")
    BY <1>12 DEF Verify, CheckRole, CountAdmins
  <2> QED
    BY <1>5, <1>11, <2>1, <2>2
<1> QED
  BY <1>7, <1>8, <1>9, <1>10, <1>12
-----------------------------------------------------------------------------
(* A copy that is gone or excused needs nothing. *)
LEMMA GoneIsGood ==
  ASSUME NEW t \in Tokens, cache'[t] = Nothing \/ t \in excused'
  PROVE  Good(t)'
BY DEF Good

LEMMA Excused ==
  ASSUME NEW S, Excuse(S), NEW t \in Tokens, cache'[t] # Nothing, t \notin excused'
  PROVE  t \notin excused /\ t \notin S
BY DEF Excuse

LEMMA Finished ==
  ASSUME CInv, NEW p \in Requests, Finish(p)
  PROVE  /\ req' = [req EXCEPT ![p] = Idle] /\ req'[p].pc = "idle"
         /\ \A q \in Requests \ {p} : req'[q] = req[q]
         /\ LookupOK(Idle) /\ Idle.pc = "idle"
<1>1. LookupOK(Idle) /\ Idle.pc = "idle"
  BY DEF Idle, LookupOK
<1> QED
  BY <1>1, RequestChanges DEF Finish

(* A lookup stores what it read: it is what PostgreSQL has, and no invalidation of *)
(* its user has read the index, unless it is excused.                              *)
LEMMA FillKeeps == ASSUME CInv, SInv', NEW p \in Requests, Fill(p) PROVE CInv'
<1> DEFINE t == req[p].tok
           user == req[p].user
<1>1. /\ req[p].pc = "fill" /\ t \in issued /\ t \in Tokens /\ user \in Copy
      /\ UNCHANGED <<login, issued, role, present>>
  BY DEF Fill, CInv, CopiesTyped, LookupOK, pg
<1>2. PICK r : req' = [req EXCEPT ![p] = r] /\ LookupOK(r) /\ r.pc \notin Deleting
  BY Accepted DEF Fill
<1>3. req'[p] = r /\ \A q \in Requests \ {p} : req'[q] = req[q]
  BY <1>2, RequestChanges
<1>4. \A x \in Tokens : Current(x)' = Current(x)
  BY <1>1, SameCurrent
<1>5. CASE UNCHANGED <<redis, excused>>
  BY <1>1, <1>2, <1>4, <1>5, QuietKeeps DEF Removers
<1>6. CASE StoreCopy(t, user)
  <2>1. /\ cache' = [cache EXCEPT ![t] = user]
        /\ index' = [index EXCEPT ![user.id] = @ \cup {t}]
        /\ excused' = IF user # Current(t) \/ Unindexing(user.id) THEN excused \cup {t}
                      ELSE excused \ {t}
    BY <1>6 DEF StoreCopy
  <2> HIDE DEF t, user
  <2>2. CopiesTyped'
    BY <1>1, <1>2, <2>1, TypesKept DEF CInv, CopiesTyped
  <2>3. ASSUME NEW x \in Tokens PROVE Good(x)'
    <3>1. CASE x = t /\ x \in excused'
      BY <3>1, GoneIsGood
    <3>2. CASE x = t /\ x \notin excused'
      <4>1. user = Current(x) /\ ~Unindexing(user.id)
        BY <2>1, <3>2
      <4>2. cache'[x] = user /\ user.id \in Users /\ x \in index'[user.id]
        BY <1>1, <2>1, <3>2 DEF CInv, CopiesTyped, Copy
      <4>3. ASSUME NEW q \in Requests PROVE ListedFor(q, x)'
        <5>1. CASE q = p
          BY <1>2, <1>3, <5>1 DEF ListedFor, Deleting
        <5>2. CASE q # p
          BY <1>3, <4>1, <4>2, <5>2 DEF ListedFor, Unindexing
        <5> QED
          BY <5>1, <5>2
      <4>4. cache'[x] = Current(x)'
        BY <1>4, <4>1, <4>2
      <4> QED
        BY <4>2, <4>3, <4>4 DEF Good
    <3>3. CASE x # t
      <4>1. cache'[x] = cache[x] /\ (x \notin excused' => x \notin excused)
        BY <2>1, <3>3 DEF CInv, CopiesTyped
      <4>2. ~RemovedBy(p, x)
        BY <1>1 DEF RemovedBy
      <4>3. cache[x] # Nothing /\ x \in index[cache[x].id] => x \in index'[cache[x].id]
        BY <2>1, <1>1 DEF CInv, CopiesTyped, Copy
      <4> QED
        BY <1>2, <1>3, <1>4, <4>1, <4>2, <4>3, StepKeepsToken DEF Deleting
    <3> QED
      BY <3>1, <3>2, <3>3
  <2> QED
    BY <2>2, <2>3 DEF CInv
<1> QED
  BY <1>5, <1>6 DEF Fill

(* A token is new when it is issued: nothing is cached for it yet. *)
LEMMA IssueKeeps ==
  ASSUME CInv, SInv', NEW p \in Requests, NEW t \in Tokens, IssueToken(p, t)
  PROVE  CInv'
<1>1. /\ req[p].pc = "login" /\ t \notin issued /\ Finish(p)
      /\ UNCHANGED <<present, role, redis, excused>>
  BY DEF IssueToken
<1>2. UNCHANGED <<cache, index>>
  BY <1>1 DEF redis
<1>3. ~RemovedBy(p, t) /\ cache[t] = Nothing
  BY <1>1 DEF RemovedBy, CInv, CopiesTyped
<1>4. CASE req[p].target \in present
  <2>1. login' = [login EXCEPT ![t] = req[p].target] /\ issued' = issued \cup {t}
    BY <1>4 DEF IssueToken
  <2>2. req[p].target \in Users
    BY <1>4 DEF CInv, SInv, RolesTyped
  <2>3. CopiesTyped'
    BY <1>1, <1>2, <1>4, <2>1, <2>2, Finished, TypesKept DEF CInv, CopiesTyped
  <2>4. ASSUME NEW x \in Tokens PROVE Good(x)'
    <3>1. CASE x = t
      BY <1>2, <1>3, <3>1, GoneIsGood
    <3>2. CASE x # t
      <4>1. Current(x)' = Current(x)
        BY <1>1, <2>1, <3>2 DEF Current, Rights, CInv, CopiesTyped
      <4>2. ~RemovedBy(p, x)
        BY <1>1 DEF RemovedBy
      <4> QED
        BY <1>1, <1>2, <4>1, <4>2, Finished, StepKeepsToken
    <3> QED
      BY <3>1, <3>2
  <2> QED
    BY <2>3, <2>4 DEF CInv
<1>5. CASE req[p].target \notin present
  <2>1. UNCHANGED <<login, issued>>
    BY <1>5 DEF IssueToken
  <2> QED
    BY <1>1, <2>1, Finished, QuietKeeps, SameCurrent DEF Removers, Deleting
<1> QED
  BY <1>4, <1>5

(* A logout: the row, then the copy. *)
LEMMA DropLoginKeeps == ASSUME CInv, SInv', NEW p \in Requests, DropLogin(p) PROVE CInv'
<1> DEFINE t == req[p].tok
<1>1. /\ req[p].pc = "drop" /\ login' = [login EXCEPT ![t] = NoUser] /\ Goto(p, "uncache")
      /\ UNCHANGED <<present, role, issued, cache, index, excused>>
  BY DEF DropLogin, redis
<1>2. PICK r : req' = [req EXCEPT ![p] = r] /\ r.pc = "uncache" /\ r.tok = t
  BY <1>1, GotoMoves DEF Early
<1>3. req'[p] = r /\ \A q \in Requests \ {p} : req'[q] = req[q]
  BY <1>2, RequestChanges
<1> HIDE DEF t
<1>4. CopiesTyped'
  <2>1. LookupOK(r)
    BY <1>2 DEF LookupOK
  <2> QED
    BY <1>1, <1>2, <2>1, TypesKept DEF CInv, CopiesTyped
<1>5. ASSUME NEW x \in Tokens PROVE Good(x)'
  <2>1. ~RemovedBy(p, x)
    BY <1>1 DEF RemovedBy
  <2>2. x = t => RemovedBy(p, x)'
    BY <1>2, <1>3 DEF RemovedBy
  <2>3. x # t => Current(x)' = Current(x)
    BY <1>1 DEF Current, Rights, CInv, CopiesTyped
  <2> QED
    BY <1>1, <1>2, <1>3, <2>1, <2>2, <2>3, StepKeepsToken
<1> QED
  BY <1>4, <1>5 DEF CInv

LEMMA DropCopyKeeps == ASSUME CInv, SInv', NEW p \in Requests, DropCopy(p) PROVE CInv'
<1> DEFINE t == req[p].tok
<1>1. /\ req[p].pc = "uncache" /\ Finish(p)
      /\ UNCHANGED <<login, present, role, issued, index>>
      /\ \/ cache' = [cache EXCEPT ![t] = Nothing] /\ Excuse({})
         \/ cache' = cache /\ Excuse({t})
  BY DEF DropCopy, pg
<1> HIDE DEF t
<1>2. CopiesTyped'
  BY <1>1, Finished, TypesKept DEF CInv, CopiesTyped
<1>3. ASSUME NEW x \in Tokens, cache'[x] # Nothing, x \notin excused' PROVE Good(x)'
  <2>1. x # t /\ cache'[x] = cache[x] /\ x \notin excused
    BY <1>1, <1>3, Excused DEF CInv, CopiesTyped
  <2>2. ~RemovedBy(p, x)
    BY <1>1, <2>1 DEF RemovedBy, t
  <2> QED
    BY <1>1, <2>1, <2>2, Finished, SameCurrent, StepKeepsToken
<1> QED
  BY <1>2, <1>3, GoneIsGood DEF CInv
-----------------------------------------------------------------------------
(* A new account has no login, so nothing cached of it. *)
LEMMA InsertKeepsCopies == ASSUME CInv, SInv', NEW p \in Requests, Insert(p) PROVE CInv'
<1>1. /\ req[p].pc = "insert" /\ Finish(p)
      /\ UNCHANGED <<login, issued, redis, excused>>
  BY DEF Insert
<1>2. present \subseteq present' /\ \A u \in present : role'[u] = role[u]
  BY DEF Insert, CInv, SInv, RolesTyped
<1>3. \A x \in Tokens : Current(x)' = Current(x)
  BY <1>1, <1>2 DEF Current, Rights, CInv, CopiesTyped
<1> QED
  BY <1>1, <1>2, <1>3, Finished, QuietKeeps DEF Removers, Deleting

(* A change of a role, or a deletion: the copies of that user are outdated until the *)
(* invalidation that follows has found them in the index.                            *)
LEMMA WriteKeepsCopies == ASSUME CInv, SInv', NEW p \in Requests, Write(p) PROVE CInv'
<1> DEFINE u == req[p].target
           op == req[p].op
<1>1. req[p].pc = "write" /\ UNCHANGED <<issued, redis, excused>>
  BY DEF Write, pg
<1>2. CASE u \notin present
  <2>1. Finish(p) /\ UNCHANGED <<login, role, present>>
    BY <1>2 DEF Write, pg
  <2> QED
    BY <1>1, <2>1, Finished, QuietKeeps, SameCurrent DEF Removers, Deleting
<1>3. CASE u \in present
  <2>1. u \in Users /\ u # NoUser
    BY <1>3, AccountsAssumption DEF CInv, SInv, RolesTyped
  <2>2. Goto(p, "members") /\ UNCHANGED issued
    BY <1>3 DEF Write
  <2>3. PICK r : req' = [req EXCEPT ![p] = r] /\ r.pc = "members" /\ r.target = u
    BY <1>1, <2>2, GotoMoves DEF Early
  <2>4. req'[p] = r /\ \A q \in Requests \ {p} : req'[q] = req[q]
    BY <2>3, RequestChanges
  <2>5. \/ present' = present \ {u} /\ login' = LoginsWithout(u) /\ role' = role
        \/ /\ role' = [role EXCEPT ![u] = NewRole(op, role[u])]
           /\ UNCHANGED <<present, login>>
    BY <1>3 DEF Write
  <2> HIDE DEF u, op
  <2>6. /\ login' \in [Tokens -> Users \cup {NoUser}]
        /\ \A x \in Tokens : login'[x] # NoUser => login'[x] \in present'
        /\ \A x \in Tokens : login[x] # u => login'[x] = login[x]
        /\ \A v \in Users : v # u => role'[v] = role[v]
    BY <2>5 DEF LoginsWithout, CInv, CopiesTyped, SInv, RolesTyped
  <2>7. CopiesTyped'
    <3>1. LookupOK(r)
      BY <2>3 DEF LookupOK
    <3> QED
      BY <1>1, <2>2, <2>3, <2>6, <3>1, TypesKept DEF redis, CInv, CopiesTyped
  <2>8. ASSUME NEW x \in Tokens PROVE Good(x)'
    <3>1. ~RemovedBy(p, x)
      BY <1>1 DEF RemovedBy
    <3>2. cache'[x] = cache[x] /\ index' = index /\ excused' = excused
      BY <1>1 DEF redis
    <3>3. CASE login[x] = u
      <4>1. cache[x] # Nothing /\ cache[x] = Current(x) /\ x \in index[cache[x].id]
            => RemovedBy(p, x)'
        BY <2>1, <2>3, <2>4, <3>2, <3>3 DEF RemovedBy, Current, Rights
      <4> QED
        BY <2>3, <2>4, <3>1, <3>2, <4>1, StepKeepsToken
    <3>4. CASE login[x] # u
      <4>1. Current(x)' = Current(x)
        BY <2>6, <3>4 DEF Current, Rights, CInv, CopiesTyped
      <4> QED
        BY <2>3, <2>4, <3>1, <3>2, <4>1, StepKeepsToken
    <3> QED
      BY <3>3, <3>4
  <2> QED
    BY <2>7, <2>8 DEF CInv
<1> QED
  BY <1>2, <1>3
-----------------------------------------------------------------------------
(* The invalidation: it is given up and its user's copies excused, ... *)
LEMMA GiveUpKeeps == ASSUME CInv, SInv', NEW p \in Requests, GiveUp(p) PROVE CInv'
<1> DEFINE u == req[p].target
<1>1. /\ req[p].pc \in {"members", "delkeys", "delindex"} /\ Finish(p)
      /\ UNCHANGED <<login, present, role, issued, cache, index>> /\ Excuse(CachedOf(u))
  BY DEF GiveUp, pg, redis
<1>2. CopiesTyped'
  BY <1>1, Finished, TypesKept DEF CInv, CopiesTyped
<1>3. ASSUME NEW x \in Tokens, cache'[x] # Nothing, x \notin excused' PROVE Good(x)'
  <2>1. x \notin excused /\ x \notin CachedOf(u)
    BY <1>1, <1>3, Excused
  <2>2. ~RemovedBy(p, x)
    BY <1>1, <1>3, <2>1 DEF RemovedBy, CachedOf
  <2> QED
    BY <1>1, <2>1, <2>2, Finished, SameCurrent, StepKeepsToken
<1> QED
  BY <1>2, <1>3, GoneIsGood DEF CInv

(* ... or it reads the index, ... *)
LEMMA MembersKeepsCopies == ASSUME CInv, SInv', NEW p \in Requests, Members(p) PROVE CInv'
<1> DEFINE u == req[p].target
           keys == index[u]
<1>1. req[p].pc = "members" /\ UNCHANGED <<login, present, role, issued, cache, index, excused>>
  BY DEF Members, pg, redis
<1>2. PICK r : /\ req' = [req EXCEPT ![p] = r] /\ r.pc = "delkeys"
               /\ r.target = u /\ r.keys = keys
  <2>1. IsChange(req[p])
    BY <1>1 DEF CInv, SInv, RequestOK, Early
  <2>2. PICK pc, op, target, ks, tok :
          req[p] = [pc |-> pc, op |-> op, target |-> target, keys |-> ks, tok |-> tok]
    BY <2>1, Zenon DEF IsChange
  <2> DEFINE s == [req[p] EXCEPT !.pc = "delkeys"]
             t == [s EXCEPT !.keys = keys]
  <2>3. req' = [req EXCEPT ![p] = t]
    BY DEF Members, CInv, SInv
  <2>4. s = [pc |-> "delkeys", op |-> op, target |-> target, keys |-> ks, tok |-> tok]
    BY <2>2
  <2>5. target = u
    BY <2>2
  <2> HIDE DEF s, keys
  <2>6. t.pc = "delkeys" /\ t.target = target /\ t.keys = keys
    BY <2>4
  <2> HIDE DEF t
  <2> QED
    BY <2>3, <2>5, <2>6
<1>3. req'[p] = r /\ \A q \in Requests \ {p} : req'[q] = req[q]
  BY <1>2, RequestChanges
<1>4. CopiesTyped'
  <2>1. LookupOK(r)
    BY <1>2 DEF LookupOK
  <2> QED
    BY <1>1, <1>2, <2>1, TypesKept DEF CInv, CopiesTyped
<1>5. ASSUME NEW x \in Tokens PROVE Good(x)'
  <2>1. CASE cache[x] = Nothing \/ x \in excused
    BY <1>1, <2>1, GoneIsGood
  <2>2. CASE cache[x] # Nothing /\ x \notin excused
    <3>1. /\ x \in index[cache[x].id] /\ \A q \in Requests : ListedFor(q, x)
          /\ cache[x] # Current(x) => \E q \in Requests : RemovedBy(q, x)
      BY <2>2 DEF CInv, Good
    <3>2. ASSUME NEW q \in Requests PROVE ListedFor(q, x)'
      <4>1. CASE q = p
        BY <1>1, <1>2, <1>3, <3>1, <4>1 DEF ListedFor
      <4>2. CASE q # p
        BY <1>1, <1>3, <3>1, <4>2 DEF ListedFor
      <4> QED
        BY <4>1, <4>2
    <3>3. ASSUME NEW q \in Requests, RemovedBy(q, x) PROVE RemovedBy(q, x)'
      <4>1. CASE q = p
        BY <1>1, <1>2, <1>3, <3>3, <4>1 DEF RemovedBy
      <4>2. CASE q # p
        BY <1>1, <1>3, <3>3, <4>2 DEF RemovedBy
      <4> QED
        BY <4>1, <4>2
    <3>4. Current(x)' = Current(x)
      BY <1>1, SameCurrent
    <3> QED
      BY <1>1, <3>1, <3>2, <3>3, <3>4 DEF Good
  <2> QED
    BY <2>1, <2>2
<1> QED
  BY <1>4, <1>5 DEF CInv

(* ... deletes the copies it lists: one that is left and not excused is another user's; ... *)
LEMMA DeleteCopiesKeeps == ASSUME CInv, SInv', NEW p \in Requests, DeleteCopies(p) PROVE CInv'
<1>1. /\ req[p].pc = "delkeys" /\ Goto(p, "delindex") /\ Excuse({})
      /\ cache' = [x \in Tokens |-> IF x \in req[p].keys THEN Nothing ELSE cache[x]]
      /\ UNCHANGED <<login, present, role, issued, index>>
  BY DEF DeleteCopies, pg
<1>2. PICK r : req' = [req EXCEPT ![p] = r] /\ r.pc = "delindex" /\ r.target = req[p].target
  BY <1>1, GotoMoves DEF Early
<1>3. req'[p] = r /\ \A q \in Requests \ {p} : req'[q] = req[q]
  BY <1>2, RequestChanges
<1>4. CopiesTyped'
  <2>1. LookupOK(r)
    BY <1>2 DEF LookupOK
  <2>2. cache' \in [Tokens -> Copy \cup {Nothing}] /\ \A x \in Tokens : cache'[x] # Nothing => x \in issued
    BY <1>1 DEF CInv, CopiesTyped
  <2> QED
    BY <1>1, <1>2, <2>1, <2>2, TypesKept DEF CInv, CopiesTyped
<1>5. ASSUME NEW x \in Tokens, cache'[x] # Nothing, x \notin excused' PROVE Good(x)'
  <2>1. x \notin req[p].keys /\ cache'[x] = cache[x] /\ x \notin excused
    BY <1>1, <1>5, Excused
  <2>2. req[p].target # cache[x].id
    BY <1>1, <1>5, <2>1 DEF CInv, Good, ListedFor
  <2>3. ~RemovedBy(p, x)
    BY <1>1, <2>1 DEF RemovedBy
  <2> QED
    BY <1>1, <1>2, <1>3, <2>1, <2>2, <2>3, SameCurrent, StepKeepsToken
<1> QED
  BY <1>4, <1>5, GoneIsGood DEF CInv

(* ... and deletes the index, which then lists no copy that is left and not excused. *)
LEMMA DeleteIndexKeeps == ASSUME CInv, SInv', NEW p \in Requests, DeleteIndex(p) PROVE CInv'
<1>1. /\ req[p].pc = "delindex" /\ Finish(p) /\ index' = [index EXCEPT ![req[p].target] = {}]
      /\ UNCHANGED <<login, present, role, issued, cache, excused>>
  BY DEF DeleteIndex, pg
<1>2. CopiesTyped'
  <2>1. index' \in [Users -> SUBSET Tokens]
    BY <1>1 DEF CInv, CopiesTyped
  <2> QED
    BY <1>1, <2>1, Finished, TypesKept DEF CInv, CopiesTyped
<1>3. ASSUME NEW x \in Tokens, cache'[x] # Nothing, x \notin excused' PROVE Good(x)'
  <2>1. cache[x].id \in Users
    BY <1>1, <1>3 DEF CInv, CopiesTyped, Copy
  <2>2. req[p].target # cache[x].id
    BY <1>1, <1>3 DEF CInv, Good, ListedFor
  <2>3. index'[cache[x].id] = index[cache[x].id]
    BY <1>1, <2>1, <2>2 DEF CInv, CopiesTyped
  <2>4. ~RemovedBy(p, x)
    BY <1>1 DEF RemovedBy
  <2> QED
    BY <1>1, <2>3, <2>4, Finished, SameCurrent, StepKeepsToken
<1> QED
  BY <1>2, <1>3, GoneIsGood DEF CInv
-----------------------------------------------------------------------------
(* Steps of nobody's request: a TTL, an eviction, the supervisor. *)
LEMMA OthersKeep ==
  ASSUME CInv, SInv', UNCHANGED <<present, role, issued, req>>,
         login' \in [Tokens -> Users \cup {NoUser}],
         \A x \in Tokens : login'[x] # NoUser => login'[x] = login[x],
         cache' \in [Tokens -> Copy \cup {Nothing}], index' \in [Users -> SUBSET Tokens],
         \A x \in Tokens : cache'[x] \in {Nothing, cache[x]},
         \A x \in Tokens : cache'[x] # Nothing /\ x \notin excused' =>
            /\ x \notin excused
            /\ cache[x] # Nothing => index'[cache[x].id] = index[cache[x].id]
            /\ login'[x] = login[x]
  PROVE  CInv'
<1>1. CopiesTyped'
  BY DEF CInv, CopiesTyped, LookupOK
<1>2. ASSUME NEW x \in Tokens, cache'[x] # Nothing, x \notin excused' PROVE Good(x)'
  <2>1. /\ cache'[x] = cache[x] /\ x \notin excused /\ login'[x] = login[x]
        /\ index'[cache[x].id] = index[cache[x].id] /\ req' = req
    BY <1>2
  <2>2. Current(x)' = Current(x)
    BY <2>1 DEF Current, Rights
  <2>3. \A p \in Requests : ListedFor(p, x)' = ListedFor(p, x) /\ RemovedBy(p, x)' = RemovedBy(p, x)
    BY <2>1 DEF ListedFor, RemovedBy
  <2>4. Good(x)
    BY DEF CInv
  <2> QED
    BY <1>2, <2>1, <2>2, <2>3, <2>4 DEF Good
<1> QED
  BY <1>1, <1>2, GoneIsGood DEF CInv

LEMMA EnvironmentKeeps ==
  ASSUME CInv, SInv',
         \/ \E t \in Tokens : ExpireCopy(t) \/ ExpireLogin(t)
         \/ \E u \in Users : EvictIndex(u)
         \/ Recover \/ UNCHANGED vars
  PROVE  CInv'
<1>1. CASE \E t \in Tokens : ExpireCopy(t)
  <2>1. PICK t \in Tokens : ExpireCopy(t)
    BY <1>1
  <2>2. /\ cache' = [cache EXCEPT ![t] = Nothing] /\ Excuse({})
        /\ UNCHANGED <<present, role, login, issued, index, req>>
    BY <2>1 DEF ExpireCopy, pg
  <2> QED
    BY <2>2, Excused, OthersKeep DEF CInv, CopiesTyped
<1>2. CASE \E t \in Tokens : ExpireLogin(t)
  <2>1. PICK t \in Tokens : ExpireLogin(t)
    BY <1>2
  <2>2. /\ login' = [login EXCEPT ![t] = NoUser] /\ Excuse({t})
        /\ UNCHANGED <<present, role, issued, cache, index, req>>
    BY <2>1 DEF ExpireLogin, redis
  <2> QED
    BY <2>2, Excused, OthersKeep DEF CInv, CopiesTyped
<1>3. CASE \E u \in Users : EvictIndex(u)
  <2>1. PICK u \in Users : EvictIndex(u)
    BY <1>3
  <2>2. /\ index' = [index EXCEPT ![u] = {}] /\ Excuse(CachedOf(u))
        /\ UNCHANGED <<present, role, login, issued, cache, req>>
    BY <2>1 DEF EvictIndex, pg
  <2>3. ASSUME NEW x \in Tokens, cache'[x] # Nothing, x \notin excused'
        PROVE  x \notin excused /\ (cache[x] # Nothing => index'[cache[x].id] = index[cache[x].id])
    <3>1. x \notin excused /\ x \notin CachedOf(u)
      BY <2>2, <2>3, Excused
    <3> QED
      BY <2>2, <3>1 DEF CachedOf, CInv, CopiesTyped, Copy
  <2> QED
    BY <2>2, <2>3, OthersKeep DEF CInv, CopiesTyped
<1>4. CASE Recover \/ UNCHANGED vars
  <2>1. UNCHANGED <<present, role, login, issued, cache, index, req, excused>>
    BY <1>4 DEF Recover, vars, pg, redis
  <2> QED
    BY <2>1, OthersKeep DEF CInv, CopiesTyped
<1> QED
  BY <1>1, <1>2, <1>3, <1>4

(* A restart excuses everything cached. *)
LEMMA RestartKeepsCopies ==
  ASSUME CInv, SInv', NEW d \in Admins \cup {NoUser}, Restart(d)
  PROVE  CInv'
<1>1. /\ UNCHANGED <<login, issued, cache, index>> /\ Excuse(Tokens)
      /\ present \subseteq present' /\ req' = [p \in Requests |-> Idle]
  BY DEF Restart, Bootstrap, EnsureDefaultAdmin, redis
<1>2. \A x \in Tokens : Good(x)'
  BY <1>1, Excused, GoneIsGood
<1>3. \A p \in Requests : req'[p].pc = "idle"
  BY <1>1 DEF Idle
<1>4. CopiesTyped'
  BY <1>1, <1>3 DEF CInv, CopiesTyped, LookupOK
<1> QED
  BY <1>2, <1>4 DEF CInv

(* The start of an archiver excuses the copies whose user it changes. *)
LEMMA ArchiverKeepsCopies ==
  ASSUME CInv, SInv', NEW d \in Admins, ArchiverStart(d)
  PROVE  CInv'
<1>1. /\ UNCHANGED <<req, login, issued, cache, index>>
      /\ Excuse({t \in Tokens : Current(t)' # Current(t)})
      /\ present \subseteq present'
  BY DEF ArchiverStart, EnsureDefaultAdmin, redis
<1>2. CopiesTyped'
  BY <1>1 DEF CInv, CopiesTyped, LookupOK
<1>3. ASSUME NEW x \in Tokens, cache'[x] # Nothing, x \notin excused' PROVE Good(x)'
  <2>1. x \notin excused /\ Current(x)' = Current(x)
    BY <1>1, <1>3, Excused
  <2>2. \A p \in Requests : ListedFor(p, x)' = ListedFor(p, x) /\ RemovedBy(p, x)' = RemovedBy(p, x)
    BY <1>1 DEF ListedFor, RemovedBy
  <2>3. Good(x)
    BY DEF CInv
  <2> QED
    BY <1>1, <1>3, <2>1, <2>2, <2>3 DEF Good
<1> QED
  BY <1>2, <1>3, GoneIsGood DEF CInv
-----------------------------------------------------------------------------
(* Every step keeps the copies known: in the index, with every invalidation, and when *)
(* they are outdated, about to be removed.                                           *)
THEOREM NextKeepsCInv == CInv /\ [Next]_vars => CInv'
<1> SUFFICES ASSUME CInv, [Next]_vars PROVE CInv'
  OBVIOUS
<1>1. SInv'
  BY NextKeepsSInv DEF CInv
<1>2. ASSUME NEW p \in Requests, Step(p) PROVE CInv'
  BY <1>1, <1>2, LookingKeeps, FillKeeps, IssueKeeps, DropLoginKeeps, DropCopyKeeps,
     InsertKeepsCopies, WriteKeepsCopies, GiveUpKeeps, MembersKeepsCopies,
     DeleteCopiesKeeps, DeleteIndexKeeps DEF Step
<1>3. ASSUME NEW p \in Requests,
             (\E t \in Tokens : Call(p, t)) \/ (\E u \in Users : StartLogin(p, u))
      PROVE  CInv'
  BY <1>1, <1>3, LookingKeeps
<1> QED
  BY <1>1, <1>2, <1>3, EnvironmentKeeps, RestartKeepsCopies, ArchiverKeepsCopies DEF Next

(* Every change of a role or login finds the copies of it: a cached user that differs *)
(* from PostgreSQL is about to be removed, unless its lookup overlapped the change,   *)
(* Redis failed or lost the index, the login ran out, main restarted, or the start of *)
(* an archiver changed the role.                                                      *)
THEOREM AccountsStaleIsKnown == Spec => []StaleIsKnown
BY InitCInv, NextKeepsCInv, GoodIsKnown, PTL DEF Spec
=============================================================================
