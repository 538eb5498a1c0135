------------------------------ MODULE Accounts ------------------------------
(***************************************************************************)
(* Users, their roles and their logins: the tables app_users and           *)
(* auth_sessions of app/session_store.py, the copy of a login's user that  *)
(* app/redis_session_store.py keeps in Redis, and the handlers of          *)
(* app/main.py that use both.                                              *)
(*                                                                         *)
(* A step is one PostgreSQL statement that another request can get in      *)
(* between (READ COMMITTED: each statement sees what is committed by       *)
(* then), or one Redis command or MULTI.  A user is an id, which is never  *)
(* used again; of a user the model keeps what a handler looks at.          *)
(***************************************************************************)
EXTENDS Naturals, FiniteSets

CONSTANTS Users,          \* account ids
          Tokens,         \* login tokens, each issued once
          Requests,       \* main's requests in progress
          NoUser,         \* a token without a row in auth_sessions
          Nothing,        \* no cached copy
          FirstAdmin,     \* default administrator of the first start
          Admins,         \* default administrators other configurations may name, main's
                          \* after a restart or the archiver's
          MaxCalls,       \* bound: requests
          MaxFailures     \* bound: Redis errors, evictions, starts of main and of archivers

\* What a copy has of a user.
Copy == [id : Users, admin : BOOLEAN, super : BOOLEAN, must : BOOLEAN]

ASSUME AccountsAssumption ==
    /\ Nothing \notin Copy
    /\ NoUser \notin Users /\ FirstAdmin \in Users /\ Admins \subseteq Users
    /\ IsFiniteSet(Users)
    /\ MaxCalls \in Nat /\ MaxFailures \in Nat

VARIABLES
    \* PostgreSQL
    present,     \* ids with a row in app_users
    fresh,       \* ids not given out yet
    role,        \* is_admin, is_superuser, must_change_password
    login,       \* auth_sessions: the user a token belongs to
    issued,      \* tokens given out
    \* Redis
    cache,       \* auth:<token>: the CurrentUser stored for it
    index,       \* user:<id>:auth_keys: tokens cached for a user
    \* main
    circuit,     \* _redis_unavailable
    req,         \* the requests
    calls, failures,
    settled,     \* history: a start has made a superuser, and no request had by then passed
                 \* the checks that now protect it
    excused      \* history: cached copies that may be outdated, and why is known

pg    == <<present, fresh, role, login, issued>>
redis == <<cache, index>>
vars  == <<pg, redis, circuit, req, calls, failures, settled, excused>>

Role == [admin : BOOLEAN, super : BOOLEAN, must : BOOLEAN]
Ops  == {"logout", "password", "insert", "reset", "promote", "demote", "delete"}
Idle == [pc |-> "idle"]

Rights(u) == [id |-> u, admin |-> role[u].admin, super |-> role[u].super,
              must |-> role[u].must]
Plain == [admin |-> FALSE, super |-> FALSE, must |-> FALSE]

\* The user of a token, as the join of auth_sessions and app_users finds it.
Current(t) == IF login[t] = NoUser THEN Nothing ELSE Rights(login[t])
Stale(t) == cache[t] \notin {Nothing, Current(t)}
CachedOf(u) == {t \in Tokens : cache[t] # Nothing /\ cache[t].id = u}

\* The first start has made the default administrator, or that is switched off
\* (AUTH_DEFAULT_ADMIN_ENABLED=0) and two administrators are from before there were
\* superusers; one more administrator may be there; nobody has logged in yet, or both
\* have (with whichever token).
Init ==
    /\ \E u \in Users :
         /\ present = {FirstAdmin, u} /\ fresh = Users \ present
         /\ settled \in BOOLEAN /\ (u = FirstAdmin => settled)
         /\ role = [v \in Users |->
              [Plain EXCEPT !.admin = v \in present, !.super = settled /\ v = FirstAdmin]]
         /\ \/ issued = {} /\ login = [t \in Tokens |-> NoUser]
            \/ /\ issued = Tokens
               /\ LET first == CHOOSE t \in Tokens : TRUE IN
                  login = [t \in Tokens |-> IF t = first THEN FirstAdmin ELSE u]
    /\ cache = [t \in Tokens |-> Nothing] /\ index = [u \in Users |-> {}]
    /\ circuit = FALSE /\ req = [p \in Requests |-> Idle]
    /\ calls = 0 /\ failures = 0 /\ excused = {}

-----------------------------------------------------------------------------
Goto(p, label) == req' = [req EXCEPT ![p].pc = label]
Finish(p) == req' = [req EXCEPT ![p] = Idle]
Fails == failures < MaxFailures /\ failures' = failures + 1
BreakCircuit == Fails /\ circuit' = TRUE

\* What is no longer cached needs no excuse.
Excuse(S) == excused' = {t \in excused \cup S : cache'[t] # Nothing}

\* require_login_auth, require_password_ready_user, require_admin_auth, and the
\* check of admin_delete_user that it is not the caller's own account.
Permitted(op, user, target) ==
    \/ op = "logout" /\ target = NoUser
    \/ op = "password" /\ target = user.id
    \/ /\ ~user.must /\ user.admin
       /\ \/ op = "insert" /\ target = NoUser
          \/ op \in {"reset", "promote", "demote"} /\ target \in Users
          \/ op = "delete" /\ target \in Users \ {user.id}

FirstStep == [logout |-> "drop", password |-> "verify", insert |-> "insert", reset |-> "write",
              promote |-> "write", demote |-> "role", delete |-> "role"]

\* The lookup is the same for every request, so which one it is comes up here: one
\* that its handler refuses or that changes nothing ends, another takes its first step.
Accept(p, user) ==
    \/ Finish(p)
    \/ \E op \in Ops, target \in Users \cup {NoUser} :
         /\ Permitted(op, user, target)
         /\ req' = [req EXCEPT ![p] =
              [pc |-> FirstStep[op], op |-> op, target |-> target, keys |-> {},
               tok |-> IF op = "logout" THEN req[p].tok ELSE NoUser]]

-----------------------------------------------------------------------------
\* A request with a bearer token.
Call(p, t) ==
    /\ req[p] = Idle /\ calls < MaxCalls /\ t \in issued
    /\ req' = [req EXCEPT ![p] = [pc |-> "cache", tok |-> t]]
    /\ calls' = calls + 1
    /\ UNCHANGED <<pg, redis, circuit, failures, excused, settled>>

\* RedisSessionStore.get_user_by_token: the cached copy ...
ReadCache(p) ==
    /\ req[p].pc = "cache"
    /\ LET hit == cache[req[p].tok]
           Miss(fill) == req' = [req EXCEPT ![p] =
                           [pc |-> "row", tok |-> req[p].tok, fill |-> fill]] IN
       \/ /\ circuit /\ Miss(FALSE)
          /\ UNCHANGED <<circuit, failures>>
       \/ /\ ~circuit /\ (IF hit # Nothing THEN Accept(p, hit) ELSE Miss(TRUE))
          /\ UNCHANGED <<circuit, failures>>
       \/ /\ ~circuit /\ BreakCircuit /\ Miss(FALSE)
    /\ UNCHANGED <<pg, redis, calls, excused, settled>>

\* ... or the row in PostgreSQL.
ReadRow(p) ==
    /\ req[p].pc = "row"
    /\ LET r == req[p]  user == Current(r.tok) IN
       IF user = Nothing THEN Finish(p)
       ELSE IF r.fill
       THEN req' = [req EXCEPT ![p] = [pc |-> "fill", tok |-> r.tok, user |-> user]]
       ELSE Accept(p, user)
    /\ UNCHANGED <<pg, redis, circuit, calls, failures, excused, settled>>

\* An invalidation of u that has read the index and will delete it.
Unindexing(u) == \E q \in Requests : /\ req[q].pc \in {"delkeys", "delindex"}
                                     /\ req[q].target = u

\* _cache_auth_user: SET with a TTL, SADD to the user's index, in one MULTI.
StoreCopyUnindexed(t, user) ==
    /\ cache' = [cache EXCEPT ![t] = user]
    /\ UNCHANGED index
    /\ excused' = IF user # Current(t) \/ Unindexing(user.id) THEN excused \cup {t}
                  ELSE excused \ {t}
StoreCopy(t, user) ==
    /\ cache' = [cache EXCEPT ![t] = user]
    /\ index' = [index EXCEPT ![user.id] = @ \cup {t}]
    /\ excused' = IF user # Current(t) \/ Unindexing(user.id) THEN excused \cup {t}
                  ELSE excused \ {t}

Fill(p) ==
    /\ req[p].pc = "fill"
    /\ LET r == req[p] IN
       /\ Accept(p, r.user)
       /\ \/ ~circuit /\ StoreCopy(r.tok, r.user) /\ UNCHANGED <<circuit, failures>>
          \/ ~circuit /\ BreakCircuit /\ StoreCopy(r.tok, r.user)
          \/ ~circuit /\ BreakCircuit /\ UNCHANGED <<redis, excused>>
          \/ circuit /\ UNCHANGED <<redis, excused, circuit, failures>>
    /\ UNCHANGED <<pg, calls, settled>>

-----------------------------------------------------------------------------
\* authenticate_user with the right password, then create_auth_session; a user
\* deleted in between leaves nothing for the foreign key to refer to.
StartLogin(p, u) ==
    /\ req[p] = Idle /\ calls < MaxCalls /\ u \in present
    /\ req' = [req EXCEPT ![p] = [pc |-> "login", target |-> u]]
    /\ calls' = calls + 1
    /\ UNCHANGED <<pg, redis, circuit, failures, excused, settled>>

IssueToken(p, t) ==
    /\ req[p].pc = "login" /\ t \notin issued
    /\ IF req[p].target \in present
       THEN login' = [login EXCEPT ![t] = req[p].target] /\ issued' = issued \cup {t}
       ELSE UNCHANGED <<login, issued>>
    /\ Finish(p)
    /\ UNCHANGED <<present, fresh, role, redis, circuit, calls, failures, excused, settled>>

\* delete_auth_session: the row, then the cached copy.
DropLogin(p) ==
    /\ req[p].pc = "drop"
    /\ login' = [login EXCEPT ![req[p].tok] = NoUser]
    /\ Goto(p, "uncache")
    /\ UNCHANGED <<present, fresh, role, issued, redis, circuit, calls, failures, excused, settled>>

DropCopy(p) ==
    /\ req[p].pc = "uncache"
    /\ LET t == req[p].tok IN
       \/ /\ ~circuit /\ cache' = [cache EXCEPT ![t] = Nothing] /\ Excuse({})
          /\ UNCHANGED <<circuit, failures>>
       \/ /\ circuit /\ UNCHANGED <<cache, circuit, failures>> /\ Excuse({t})
       \/ /\ ~circuit /\ BreakCircuit /\ UNCHANGED cache /\ Excuse({t})
    /\ Finish(p)
    /\ UNCHANGED <<pg, index, calls, settled>>

-----------------------------------------------------------------------------
\* change_user_password: verify, then write.  The hash is read without a lock.
Verify(p) ==
    /\ req[p].pc = "verify"
    /\ \/ req[p].target \in present /\ Goto(p, "write")
       \/ Finish(p)
    /\ UNCHANGED <<pg, redis, circuit, calls, failures, excused, settled>>

\* create_user, and create_users: all of a list or none.
Insert(p) ==
    /\ req[p].pc = "insert"
    /\ \E S \in SUBSET (present \cup fresh) \ {{}}, admin \in BOOLEAN :
         /\ admin => \E u \in S : S = {u}
         /\ IF S \subseteq fresh
            THEN /\ present' = present \cup S /\ fresh' = fresh \ S
                 /\ role' = [u \in Users |-> IF u \in S
                               THEN [admin |-> admin, super |-> FALSE, must |-> TRUE]
                               ELSE role[u]]
            ELSE UNCHANGED <<present, fresh, role>>
    /\ Finish(p)
    /\ UNCHANGED <<login, issued, redis, circuit, calls, failures, excused, settled>>

\* _is_superuser and the first query of _is_last_admin ...
CheckSkipped(p) ==
    /\ req[p].pc = "role"
    /\ LET u == req[p].target IN
       IF u \in present /\ role[u].admin THEN Goto(p, "count") ELSE Goto(p, "write")
    /\ UNCHANGED <<pg, redis, circuit, calls, failures, excused, settled>>
CheckRole(p) ==
    /\ req[p].pc = "role"
    /\ LET u == req[p].target IN
       IF u \in present /\ role[u].super THEN Finish(p)
       ELSE IF u \in present /\ role[u].admin THEN Goto(p, "count")
       ELSE Goto(p, "write")
    /\ UNCHANGED <<pg, redis, circuit, calls, failures, excused, settled>>

\* ... and its second one.
CountAdmins(p) ==
    /\ req[p].pc = "count"
    /\ IF Cardinality({u \in present : role[u].admin}) <= 1 THEN Finish(p)
       ELSE Goto(p, "write")
    /\ UNCHANGED <<pg, redis, circuit, calls, failures, excused, settled>>

\* The UPDATE or DELETE.  Deleting a user deletes its logins with it.
NewRole(op, r) ==
    CASE op = "password" -> [r EXCEPT !.must = FALSE]
      [] op = "reset"    -> [r EXCEPT !.must = TRUE]
      [] op = "promote"  -> [r EXCEPT !.admin = TRUE]
      [] op = "demote"   -> [r EXCEPT !.admin = FALSE]

\* auth_sessions references app_users ON DELETE CASCADE.
LoginsWithout(u) == [t \in Tokens |-> IF login[t] = u THEN NoUser ELSE login[t]]

Write(p) ==
    /\ req[p].pc = "write"
    /\ LET u == req[p].target  op == req[p].op IN
       IF u \notin present THEN Finish(p) /\ UNCHANGED pg
       ELSE /\ Goto(p, "members")
            /\ IF op = "delete"
               THEN /\ present' = present \ {u}
                    /\ login' = LoginsWithout(u)
                    /\ UNCHANGED role
               ELSE /\ role' = [role EXCEPT ![u] = NewRole(op, @)]
                    /\ UNCHANGED <<present, login>>
            /\ UNCHANGED <<fresh, issued>>
    /\ UNCHANGED <<redis, circuit, calls, failures, excused, settled>>

-----------------------------------------------------------------------------
\* _invalidate_user_auth: SMEMBERS of the index, DEL of the copies, DEL of the
\* index.  An error, or an open circuit before the first command, ends it.
GiveUp(p) ==
    /\ req[p].pc \in {"members", "delkeys", "delindex"}
    /\ \/ circuit /\ req[p].pc = "members" /\ UNCHANGED <<circuit, failures>>
       \/ BreakCircuit
    /\ Finish(p) /\ UNCHANGED redis /\ Excuse(CachedOf(req[p].target))
    /\ UNCHANGED <<pg, calls, settled>>

Members(p) ==
    /\ req[p].pc = "members" /\ ~circuit
    /\ req' = [req EXCEPT ![p].pc = "delkeys", ![p].keys = index[req[p].target]]
    /\ UNCHANGED <<pg, redis, circuit, calls, failures, excused, settled>>

DeleteCopies(p) ==
    /\ req[p].pc = "delkeys"
    /\ cache' = [t \in Tokens |-> IF t \in req[p].keys THEN Nothing ELSE cache[t]]
    /\ Goto(p, "delindex") /\ Excuse({})
    /\ UNCHANGED <<pg, index, circuit, calls, failures, settled>>

DeleteIndex(p) ==
    /\ req[p].pc = "delindex"
    /\ index' = [index EXCEPT ![req[p].target] = {}]
    /\ Finish(p)
    /\ UNCHANGED <<pg, cache, circuit, calls, failures, excused, settled>>

-----------------------------------------------------------------------------
\* The TTL of a cached copy passes, or Redis evicts it.
NeverExpires(t) == FALSE /\ UNCHANGED vars
ExpireCopy(t) ==
    /\ cache[t] # Nothing
    /\ cache' = [cache EXCEPT ![t] = Nothing] /\ Excuse({})
    /\ UNCHANGED <<pg, index, circuit, req, calls, failures, settled>>

\* Redis evicts the index alone: the copies it lists are no longer found by it.
EvictIndex(u) ==
    /\ Fails /\ index[u] # {}
    /\ index' = [index EXCEPT ![u] = {}]
    /\ UNCHANGED cache /\ Excuse(CachedOf(u))
    /\ UNCHANGED <<pg, circuit, req, calls, settled>>

\* expires_at passes: the row is no longer found.
ExpireLogin(t) ==
    /\ login[t] # NoUser
    /\ login' = [login EXCEPT ![t] = NoUser]
    /\ UNCHANGED redis /\ Excuse({t})
    /\ UNCHANGED <<present, fresh, role, issued, circuit, req, calls, failures, settled>>

\* The health supervisor's ping succeeds.
Recover ==
    /\ circuit /\ circuit' = FALSE
    /\ UNCHANGED <<pg, redis, req, calls, failures, excused, settled>>

\* _ensure_default_admin, one transaction of init_db: other superusers are no longer
\* one, d is made or raised.  With AUTH_DEFAULT_ADMIN_ENABLED=0 (NoUser) nothing is done.
PastChecks(r, d) == r.pc \in {"count", "write"} /\ r.op \in {"demote", "delete"} /\ r.target = d
EnsureDefaultAdmin(d) ==
    /\ d \in present \cup fresh
    /\ present' = present \cup {d} /\ fresh' = fresh \ {d}
    /\ role' = [u \in Users |->
         IF u = d THEN [admin |-> TRUE, super |-> TRUE,
                        must |-> u \in present /\ role[u].admin /\ role[u].must]
         ELSE [role[u] EXCEPT !.super = FALSE]]
    /\ settled' = \A p \in Requests : ~PastChecks(req'[p], d)
Bootstrap(d) == IF d = NoUser THEN UNCHANGED <<present, fresh, role, settled>>
                ELSE EnsureDefaultAdmin(d)

\* main is stopped, perhaps with another default administrator configured or none, and
\* started again; its requests are gone, its circuit is closed if Redis answers.
Restart(d) ==
    /\ Fails
    /\ req' = [p \in Requests |-> Idle]
    /\ Bootstrap(d)
    /\ circuit' \in BOOLEAN
    /\ UNCHANGED <<login, issued, redis, calls>>
    /\ Excuse(Tokens)

\* An archiver starts: SessionArchiveWorker.run begins with init_db too, with the settings
\* of its own container.  Main's requests go on, and nobody tells its cache.
ArchiverStart(d) ==
    /\ Fails
    /\ UNCHANGED <<req, login, issued, redis, circuit, calls>>
    /\ EnsureDefaultAdmin(d)
    /\ Excuse({t \in Tokens : Current(t)' # Current(t)})

Step(p) ==
    \/ ReadCache(p) \/ ReadRow(p) \/ Fill(p) \/ \E t \in Tokens : IssueToken(p, t)
    \/ DropLogin(p) \/ DropCopy(p) \/ Verify(p) \/ Insert(p)
    \/ CheckRole(p) \/ CountAdmins(p) \/ Write(p)
    \/ GiveUp(p) \/ Members(p) \/ DeleteCopies(p) \/ DeleteIndex(p)

Next ==
    \/ \E p \in Requests, t \in Tokens : Call(p, t)
    \/ \E p \in Requests, u \in Users : StartLogin(p, u)
    \/ \E p \in Requests : Step(p)
    \/ \E t \in Tokens : ExpireCopy(t) \/ ExpireLogin(t)
    \/ \E u \in Users : EvictIndex(u)
    \/ Recover
    \/ \E d \in Admins \cup {NoUser} : Restart(d)
    \/ \E d \in Admins : ArchiverStart(d)

Spec == Init /\ [][Next]_vars

\* Only a TTL is relied on: nothing is assumed of requests or of the supervisor.
FairSpec == Spec /\ \A t \in Tokens : WF_vars(ExpireCopy(t))

-----------------------------------------------------------------------------
TypeOK ==
    /\ present \subseteq Users /\ fresh \subseteq Users \ present
    /\ role \in [Users -> Role]
    /\ login \in [Tokens -> Users \cup {NoUser}]
    /\ issued \subseteq Tokens
    /\ \A t \in Tokens : login[t] # NoUser => login[t] \in present
    /\ cache \in [Tokens -> Copy \cup {Nothing}]
    /\ index \in [Users -> SUBSET Tokens]
    /\ circuit \in BOOLEAN
    /\ calls \in 0..MaxCalls /\ failures \in 0..MaxFailures
    /\ settled \in BOOLEAN
    /\ excused \subseteq {t \in Tokens : cache[t] # Nothing}

\* There is never a second superuser; and once a start has made one there always is one,
\* and it is an administrator, whatever order demotions, deletions, and starts of main and
\* archivers under other names come in (set_user_admin, delete_user,
\* _ensure_default_admin): but for a start that raises a user whom a request was just
\* about to demote or delete, up to the next start.
Superusers == {u \in present : role[u].super}
SuperuserKept ==
    /\ Cardinality(Superusers) <= 1
    /\ settled => \E u \in Superusers : role[u].admin

\* Without a superuser it is _is_last_admin that is to keep an administrator.
AdministratorKept == \E u \in present : role[u].admin

\* Somebody is about to remove the copy of t.
Removing(t) ==
    \E p \in Requests :
      \/ req[p].pc = "members" /\ req[p].target = cache[t].id /\ t \in index[cache[t].id]
      \/ req[p].pc = "delkeys" /\ t \in req[p].keys
      \/ req[p].pc = "uncache" /\ req[p].tok = t

\* Every change of a role or login finds the copies of it: a cached user that
\* differs from PostgreSQL is about to be removed, unless its lookup overlapped the
\* change, Redis failed or lost the index, the login ran out, main restarted, or the
\* start of an archiver changed the role.
StaleIsKnown == \A t \in Tokens : Stale(t) => t \in excused \/ Removing(t)

\* Whatever went wrong on the way, the cached users agree with PostgreSQL in the
\* end: an outdated copy lives for its TTL and is not made again.
EventuallyCurrent == <>[](\A t \in Tokens : ~Stale(t))
=============================================================================
