------------------------------ MODULE Accounts ------------------------------
(***************************************************************************)
(* The accounts of the portal (nccm/auth/service.py), the limit on failed  *)
(* logins (login_limit.py), and the handlers of login, of the account page *)
(* and of user administration (web/).                                      *)
(*                                                                         *)
(* The handlers are coroutines that await nothing: each is one step.  What *)
(* outlives them is the user table, the cookie of every browser, which     *)
(* nobody updates when the table changes, and the memory of the limiter,   *)
(* which a restart of the portal clears.  Names are what the table's       *)
(* NOCASE comparison tells apart.  All browsers are behind one address.    *)
(***************************************************************************)
EXTENDS Integers, Sequences, FiniteSets

CONSTANTS
    Names, Passwords, Roles, Browsers,
    EnvPass,           \* NCCM_ADMIN_PASS
    MaxFailures,       \* failed logins that lock a name
    Window,            \* seconds after which failures are forgotten
    Lockout,           \* seconds a name stays locked
    MaxUsers,          \* bound: accounts ever created
    MaxTime,           \* bound: seconds
    MaxRestarts        \* bound: restarts of the portal

ASSUME AccountsAssumption ==
    /\ EnvPass \in Passwords /\ "admin" \in Roles
    /\ MaxFailures \in Nat \ {0}
    /\ Lockout \in Nat /\ Window \in Nat
    /\ MaxUsers \in Nat \ {0} /\ MaxTime \in Nat /\ MaxRestarts \in Nat

VARIABLES
    users,      \* portal_users, by id
    cookie,     \* the session of each browser
    tries,      \* _state of the limiter
    now,        \* the clock
    env,        \* NCCM_ADMIN_USER and NCCM_BREAK_GLASS in the environment of the process
    restarts,
    failed      \* times of the failed logins since the last success (history)

accountVars == <<users, cookie, tries, now, env, restarts, failed>>

Environments == [name : Names, breakGlass : BOOLEAN]
NoCookie == [name |-> "", role |-> "", uid |-> 0, must |-> FALSE]
NoTries  == [failures |-> 0, last |-> 0, until |-> 0]

Ids == DOMAIN users
User(name, pw, role, must) ==
    [name |-> name, pw |-> pw, role |-> role, active |-> TRUE, must |-> must]
Named(name) == {u \in Ids : users[u].name = name}
IsEnv(name, pw) == name = env.name /\ pw = EnvPass
\* Seeded fault: the cookie does not say that the password must change.
SessionFree(u) == [name |-> users[u].name, role |-> users[u].role, uid |-> u, must |-> FALSE]

Session(u) == [name |-> users[u].name, role |-> users[u].role, uid |-> u,
               must |-> users[u].must]
-----------------------------------------------------------------------------
\* Seeded fault: a lock is forgotten like any old entry.
OldLocked(t) == t.last < now - Window

\* The limiter.  Every check and every failure forgets old entries first.
Old(t)    == t.until <= now /\ t.last < now - Window
Purged    == [n \in Names |-> IF Old(tries[n]) THEN NoTries ELSE tries[n]]
Locked(n) == Purged[n].until > now

\* record_login_failure.
Struck(t) ==
    LET n == t.failures + 1
    IN  [failures |-> n, last |-> now,
         until |-> IF n >= MaxFailures THEN now + Lockout ELSE t.until]

Recent(s) == IF Len(s) > MaxFailures + 1 THEN Tail(s) ELSE s

\* authenticate: the account of the table decides, if there is one; else the
\* administrator of the environment creates the first account, or gets a
\* session without an account if break-glass is on.
Matches(name, pw) == {u \in Named(name) : users[u].active /\ users[u].pw = pw}
EnvLogin(name, pw) == Named(name) = {} /\ IsEnv(name, pw) /\ (users = <<>> \/ env.breakGlass)

LoginAccount(b, name, pw) ==
    /\ ~Locked(name)
    /\ \E u \in Matches(name, pw) : cookie' = [cookie EXCEPT ![b] = Session(u)]
    /\ tries' = [Purged EXCEPT ![name] = NoTries]
    /\ failed' = [failed EXCEPT ![name] = <<>>]
    /\ UNCHANGED <<users, now, env, restarts>>

LoginEnv(b, name, pw) ==
    /\ ~Locked(name) /\ EnvLogin(name, pw)
    /\ IF users = <<>>
       THEN users' = <<User(name, pw, "admin", TRUE)>>
       ELSE UNCHANGED users
    /\ cookie' = [cookie EXCEPT ![b] =
          [name |-> name, role |-> "admin", uid |-> IF users = <<>> THEN 1 ELSE 0,
           must |-> TRUE]]
    /\ tries' = [Purged EXCEPT ![name] = NoTries]
    /\ failed' = [failed EXCEPT ![name] = <<>>]
    /\ UNCHANGED <<now, env, restarts>>

LoginFails(name, pw) ==
    /\ ~Locked(name) /\ Matches(name, pw) = {} /\ ~EnvLogin(name, pw)
    /\ tries' = [Purged EXCEPT ![name] = Struck(@)]
    /\ failed' = [failed EXCEPT ![name] = Recent(Append(@, now))]
    /\ UNCHANGED <<users, cookie, now, env, restarts>>

\* The password is not looked at.
LoginLocked(name) ==
    /\ Locked(name)
    /\ tries' = Purged
    /\ UNCHANGED <<users, cookie, now, env, restarts, failed>>

Logout(b) ==
    /\ cookie[b] # NoCookie
    /\ cookie' = [cookie EXCEPT ![b] = NoCookie]
    /\ UNCHANGED <<users, tries, now, env, restarts, failed>>
-----------------------------------------------------------------------------
\* The gate lets a session that must change its password do nothing else;
\* the change asks for the current password again.
Forced(b) == cookie[b] # NoCookie /\ cookie[b].must
Verified(b, pw) ==
    IF cookie[b].uid = 0 THEN IsEnv(cookie[b].name, pw)
    ELSE users[cookie[b].uid].active /\ users[cookie[b].uid].pw = pw

\* Whose account it is: that of the session, or the one that has the name of
\* the environment's administrator by now.
Own(b) == IF cookie[b].uid = 0 THEN Named(cookie[b].name) ELSE {cookie[b].uid}

ChangePassword(b, pw, new) ==
    /\ Forced(b) /\ Verified(b, pw)
    /\ \E u \in Own(b) :
        /\ users' = [users EXCEPT ![u].pw = new, ![u].must = FALSE]
        /\ cookie' = [cookie EXCEPT ![b] = [Session(u) EXCEPT !.must = FALSE]]
    /\ UNCHANGED <<tries, now, env, restarts, failed>>

\* The id of the row that is inserted next.  Seeded fault: one too many.
NextIdSkips == Len(users) + 2

NextId == Len(users) + 1

ChangeCreates(b, pw, new) ==
    /\ Forced(b) /\ Verified(b, pw) /\ Own(b) = {} /\ Len(users) < MaxUsers
    /\ users' = Append(users, User(cookie[b].name, new, "admin", FALSE))
    /\ cookie' = [cookie EXCEPT ![b] = [@ EXCEPT !.uid = NextId, !.must = FALSE]]
    /\ UNCHANGED <<tries, now, env, restarts, failed>>

\* Password and flag are two transactions: the process may end in between.
ChangeCut(b, pw, new) ==
    /\ restarts < MaxRestarts
    /\ Forced(b) /\ Verified(b, pw)
    /\ \E u \in Own(b) : users' = [users EXCEPT ![u].pw = new]
    /\ tries' = [n \in Names |-> NoTries]
    /\ failed' = [n \in Names |-> <<>>]
    /\ restarts' = restarts + 1
    /\ UNCHANGED <<cookie, now, env>>
-----------------------------------------------------------------------------
\* require_admin believes the cookie.
Admin(b) == cookie[b] # NoCookie /\ ~cookie[b].must /\ cookie[b].role = "admin"

IsAdmin(u) == users[u].role = "admin" /\ users[u].active

\* Seeded fault: the user who asks counts as one of the others.
SparesAdminsCounts(u) == IsAdmin(u) => \E v \in Ids : IsAdmin(v)

\* _ensure_not_last_active_admin.
SparesAdmins(u) == IsAdmin(u) => \E v \in Ids \ {u} : IsAdmin(v)

AdminCreates(b, name, pw, role) ==
    /\ Admin(b) /\ Named(name) = {} /\ Len(users) < MaxUsers
    /\ users' = Append(users, User(name, pw, role, FALSE))
    /\ UNCHANGED <<cookie, tries, now, env, restarts, failed>>

AdminSetsPassword(b, u, pw) ==
    /\ Admin(b)
    /\ users' = [users EXCEPT ![u].pw = pw]
    /\ UNCHANGED <<cookie, tries, now, env, restarts, failed>>

AdminToggles(b, u) ==
    /\ Admin(b) /\ (users[u].active => SparesAdmins(u))
    /\ users' = [users EXCEPT ![u].active = ~@]
    /\ UNCHANGED <<cookie, tries, now, env, restarts, failed>>

AdminSetsRole(b, u, role) ==
    /\ Admin(b) /\ (users[u].role = "admin" /\ role # "admin" => SparesAdmins(u))
    /\ users' = [users EXCEPT ![u].role = role]
    /\ UNCHANGED <<cookie, tries, now, env, restarts, failed>>
-----------------------------------------------------------------------------
Second ==
    /\ now < MaxTime
    /\ now' = now + 1
    /\ UNCHANGED <<users, cookie, tries, env, restarts, failed>>

\* A restart reads the environment again; cookies stay valid.
Restart ==
    /\ restarts < MaxRestarts
    /\ restarts' = restarts + 1
    /\ tries' = [n \in Names |-> NoTries]
    /\ failed' = [n \in Names |-> <<>>]
    /\ env' \in Environments
    /\ UNCHANGED <<users, cookie, now>>

AccountsInit ==
    /\ users = <<>>
    /\ cookie = [b \in Browsers |-> NoCookie]
    /\ tries = [n \in Names |-> NoTries]
    /\ now = 0 /\ restarts = 0
    /\ env \in [name : Names, breakGlass : {FALSE}]
    /\ failed = [n \in Names |-> <<>>]

AccountsNext ==
    \/ \E b \in Browsers, n \in Names, pw \in Passwords : LoginAccount(b, n, pw) \/ LoginEnv(b, n, pw)
    \/ \E n \in Names, pw \in Passwords : LoginFails(n, pw)
    \/ \E n \in Names : LoginLocked(n)
    \/ \E b \in Browsers : Logout(b)
    \/ \E b \in Browsers, pw, new \in Passwords :
          ChangePassword(b, pw, new) \/ ChangeCreates(b, pw, new) \/ ChangeCut(b, pw, new)
    \/ \E b \in Browsers, n \in Names, pw \in Passwords, r \in Roles : AdminCreates(b, n, pw, r)
    \/ \E b \in Browsers, u \in Ids :
          \/ AdminToggles(b, u)
          \/ \E pw \in Passwords : AdminSetsPassword(b, u, pw)
          \/ \E r \in Roles : AdminSetsRole(b, u, r)
    \/ Second \/ Restart

AccountsSpec == AccountsInit /\ [][AccountsNext]_accountVars
-----------------------------------------------------------------------------
\* Types.
AccountsTypeOK ==
    /\ users \in Seq([name : Names, pw : Passwords, role : Roles, active : BOOLEAN,
                      must : BOOLEAN])
    /\ Len(users) <= MaxUsers
    /\ cookie \in [Browsers -> [name : Names \cup {""}, role : Roles \cup {""},
                                uid : 0..Len(users), must : BOOLEAN]]
    /\ tries \in [Names -> [failures : Nat, last : Nat, until : Nat]]
    /\ now \in 0..MaxTime /\ env \in Environments /\ restarts \in 0..MaxRestarts
    /\ failed \in [Names -> Seq(0..MaxTime)]

\* There is always an active administrator once there is an account, whatever
\* sessions with cookies of the past do to the table (service.py:147).
AdminRemains == users # <<>> => \E u \in Ids : IsAdmin(u)

\* Names are unique, also when the environment's administrator and the user
\* administration create the same account.
NamesUnique == \A u, v \in Ids : users[u].name = users[v].name => u = v

\* Nobody works in an account whose initial password is still to be changed,
\* and nobody in a session without account: not after a cut in the middle of a
\* change, nor with a cookie from before (main.py:122, service.py:204).
ForcedChangeHolds ==
    \A b \in Browsers : cookie[b] # NoCookie /\ ~cookie[b].must =>
        cookie[b].uid # 0 /\ ~users[cookie[b].uid].must

\* After MaxFailures failures, none more than Window seconds after the one before,
\* no password is looked at for Lockout seconds, however failures, purges and other
\* names interleave and whichever of the two limits is the longer.  Slower failures
\* are forgotten; only where Window >= Lockout are there in any case no more than
\* MaxFailures guesses in less than Lockout seconds (login_limit.py:28-63).
GuessesBounded ==
    \A n \in Names : LET f == failed[n]
                         m == Len(f)
                     IN  /\ m > MaxFailures
                         /\ \A i \in (m - MaxFailures)..(m - 2) : f[i + 1] - f[i] <= Window
                         => f[m] - f[m - 1] >= Lockout
=============================================================================
