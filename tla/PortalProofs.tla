---------------------------- MODULE PortalProofs ----------------------------
(***************************************************************************)
(* Proofs about the portal: Accounts for any names, passwords, roles and   *)
(* browsers, any limits and any number of accounts and restarts; ApiTokens *)
(* for any threads, scopes and lifetimes and any interleaving of requests  *)
(* with revocations; Drafts for any hosts, keys, schedules and starts; the *)
(* members of a stack in Inventory for any slots; and the types of all.    *)
(***************************************************************************)
EXTENDS MCPortal, FiniteSetTheorems, SequenceTheorems, TLAPS

-----------------------------------------------------------------------------
(* Accounts.                                                               *)

Account == [name : Names, pw : Passwords, role : Roles, active : BOOLEAN, must : BOOLEAN]
Cookie(n) == [name : Names \cup {""}, role : Roles \cup {""}, uid : 0..n, must : BOOLEAN]

\* The part of the state the theorems are about: the table and the cookies.
TableOK ==
    /\ users \in Seq(Account) /\ Len(users) <= MaxUsers
    /\ cookie \in [Browsers -> Cookie(Len(users))]
    /\ env \in Environments

\* A session that may do something has an account whose password is changed:
\* without it an administration without accounts could create a first account that
\* is no administrator.
AccountsInv == TableOK /\ ForcedChangeHolds /\ AdminRemains /\ NamesUnique

\* What a user record is made of.
LEMMA UserType ==
    ASSUME NEW n \in Names, NEW pw \in Passwords, NEW r \in Roles, NEW m \in BOOLEAN
    PROVE  User(n, pw, r, m) \in Account
BY DEF User, Account

\* The table grows at its end, and the other rows stay.
LEMMA Added ==
    ASSUME users \in Seq(Account), NEW a \in Account, users' = Append(users, a)
    PROVE  /\ users' \in Seq(Account) /\ Len(users') = Len(users) + 1
           /\ users'[Len(users) + 1] = a
           /\ \A u \in Ids : u \in Ids' /\ users'[u] = users[u]
           /\ \A u \in Ids' : u \in Ids \/ u = Len(users) + 1
           /\ Len(users) + 1 \in Ids'
BY DEF Ids

\* One row changes, and no name.
LEMMA Changed ==
    ASSUME users \in Seq(Account), NEW u \in Ids, NEW a \in Account,
           a.name = users[u].name, users' = [users EXCEPT ![u] = a]
    PROVE  /\ users' \in Seq(Account) /\ Len(users') = Len(users) /\ Ids' = Ids
           /\ users'[u] = a
           /\ \A v \in Ids : /\ v # u => users'[v] = users[v]
                             /\ users'[v].name = users[v].name
BY DEF Ids

\* What a cookie is made of.
LEMMA CookieType ==
    ASSUME NEW n \in Nat, NEW name \in Names, NEW role \in Roles, NEW uid \in 0..n,
           NEW must \in BOOLEAN
    PROVE  [name |-> name, role |-> role, uid |-> uid, must |-> must] \in Cookie(n)
BY Zenon DEF Cookie

\* The session of an account is a cookie.
LEMMA SessionType ==
    ASSUME users \in Seq(Account), NEW u \in Ids, NEW must \in BOOLEAN
    PROVE  /\ Session(u) \in Cookie(Len(users))
           /\ [Session(u) EXCEPT !.must = must] \in Cookie(Len(users))
           /\ Session(u).uid = u /\ u # 0 /\ Session(u).must = users[u].must
<1>1. users[u] \in Account /\ u \in 0..Len(users) /\ u # 0
    BY DEF Ids
<1>2. users[u].name \in Names /\ users[u].role \in Roles /\ users[u].must \in BOOLEAN
    BY <1>1 DEF Account
<1>3. Session(u) \in Cookie(Len(users))
    BY <1>1, <1>2, CookieType DEF Session
<1>4. [Session(u) EXCEPT !.must = must] =
        [name |-> users[u].name, role |-> users[u].role, uid |-> u, must |-> must]
    BY DEF Session
<1>5. [Session(u) EXCEPT !.must = must] \in Cookie(Len(users))
    BY <1>1, <1>2, <1>4, CookieType
<1> QED
    BY <1>1, <1>3, <1>5 DEF Session

\* One browser gets a cookie.
LEMMA CookieSet ==
    ASSUME NEW n \in Nat, cookie \in [Browsers -> Cookie(n)], NEW b \in Browsers,
           NEW c \in Cookie(n), cookie' = [cookie EXCEPT ![b] = c]
    PROVE  cookie' \in [Browsers -> Cookie(n)]
OBVIOUS

\* Cookies of a table are cookies of the table with a row more.
LEMMA CookieGrows ==
    ASSUME NEW n \in Nat, cookie \in [Browsers -> Cookie(n)]
    PROVE  cookie \in [Browsers -> Cookie(n + 1)]
<1>1. 0..n \subseteq 0..(n + 1)
    OBVIOUS
<1>2. Cookie(n) \subseteq Cookie(n + 1)
    BY <1>1, Zenon DEF Cookie
<1> QED
    BY <1>2

\* The invariant speaks of users, cookies and the environment alone.
LEMMA Untouched ==
    ASSUME AccountsInv, UNCHANGED <<users, cookie>>, env' \in Environments
    PROVE  AccountsInv'
BY DEF AccountsInv, TableOK, ForcedChangeHolds, AdminRemains, NamesUnique, Ids, IsAdmin

\* An empty table satisfies the invariant.
THEOREM AccountsInitInv == AccountsInit => AccountsInv
<1> SUFFICES ASSUME AccountsInit PROVE AccountsInv
    OBVIOUS
<1>1. TableOK
    <2>1. NoCookie \in Cookie(0)
        <3>1. 0 \in 0..0
            OBVIOUS
        <3> QED
            BY <3>1, Zenon DEF NoCookie, Cookie
    <2>2. users \in Seq(Account) /\ Len(users) = 0 /\ Len(users) <= MaxUsers
        BY AccountsAssumption DEF AccountsInit
    <2>3. cookie \in [Browsers -> Cookie(Len(users))]
        BY <2>1, <2>2 DEF AccountsInit
    <2>4. env \in Environments
        BY DEF AccountsInit, Environments
    <2> QED
        BY <2>2, <2>3, <2>4 DEF TableOK
<1>2. ForcedChangeHolds /\ AdminRemains /\ NamesUnique
    BY DEF AccountsInit, ForcedChangeHolds, AdminRemains, NamesUnique, Ids
<1> QED
    BY <1>1, <1>2 DEF AccountsInv

\* An account that is added has a new name, and the first is an administrator.
LEMMA AddKeeps ==
    ASSUME AccountsInv, NEW a \in Account, users' = Append(users, a),
           Len(users) < MaxUsers, Named(a.name) = {},
           users = <<>> => a.role = "admin" /\ a.active
    PROVE  /\ users' \in Seq(Account) /\ Len(users') <= MaxUsers
           /\ AdminRemains' /\ NamesUnique'
<1> USE DEF AccountsInv, TableOK
<1>1. /\ users' \in Seq(Account) /\ Len(users') = Len(users) + 1
      /\ users'[Len(users) + 1] = a /\ Len(users) + 1 \in Ids'
      /\ \A u \in Ids : u \in Ids' /\ users'[u] = users[u]
      /\ \A u \in Ids' : u \in Ids \/ u = Len(users) + 1
    BY Added
<1>2. AdminRemains'
    <2>1. CASE users = <<>>
        BY <1>1, <2>1 DEF AdminRemains, IsAdmin
    <2>2. CASE users # <<>>
        <3>1. PICK u \in Ids : IsAdmin(u)
            BY <2>2 DEF AdminRemains
        <3> QED
            BY <1>1, <3>1 DEF AdminRemains, IsAdmin
    <2> QED
        BY <2>1, <2>2
<1>3. NamesUnique'
    <2>1. \A u \in Ids : users[u].name # a.name
        BY DEF Named
    <2>2. \A u \in Ids : users'[u].name # users'[Len(users) + 1].name
        BY <1>1, <2>1, Zenon
    <2>3. \A u, v \in Ids : users'[u].name = users'[v].name => u = v
        <3>1. \A u, v \in Ids : users[u].name = users[v].name => u = v
            BY DEF NamesUnique
        <3>2. \A u \in Ids : users'[u].name = users[u].name
            BY <1>1
        <3> QED
            BY <3>1, <3>2, Zenon
    <2> QED
        BY <1>1, <2>2, <2>3, Zenon DEF NamesUnique
<1>4. Len(users') <= MaxUsers
    BY <1>1, AccountsAssumption
<1> QED
    BY <1>1, <1>2, <1>3, <1>4

\* A row that changes in name and rights at most so far that another active
\* administrator is left keeps both invariants of the table.
LEMMA ChangeKeeps ==
    ASSUME AccountsInv, NEW u \in Ids, NEW a \in Account, a.name = users[u].name,
           users' = [users EXCEPT ![u] = a],
           \/ IsAdmin(u) => a.role = "admin" /\ a.active
           \/ SparesAdmins(u)
    PROVE  /\ users' \in Seq(Account) /\ Len(users') = Len(users)
           /\ AdminRemains' /\ NamesUnique'
<1> USE DEF AccountsInv, TableOK
<1>1. /\ users' \in Seq(Account) /\ Len(users') = Len(users) /\ Ids' = Ids
      /\ users'[u] = a
      /\ \A v \in Ids : /\ v # u => users'[v] = users[v]
                        /\ users'[v].name = users[v].name
    BY Changed
<1>2. AdminRemains'
    <2>1. users # <<>>
        BY DEF Ids
    <2>2. PICK v \in Ids : IsAdmin(v)
        BY <2>1 DEF AdminRemains
    <2>3. CASE v # u
        BY <1>1, <2>2, <2>3 DEF AdminRemains, IsAdmin
    <2>4. CASE v = u /\ (IsAdmin(u) => a.role = "admin" /\ a.active)
        BY <1>1, <2>2, <2>4 DEF AdminRemains, IsAdmin
    <2>5. CASE v = u /\ SparesAdmins(u)
        BY <1>1, <2>2, <2>5 DEF AdminRemains, IsAdmin, SparesAdmins
    <2> QED
        BY <2>3, <2>4, <2>5
<1>3. NamesUnique'
    BY <1>1 DEF NamesUnique
<1> QED
    BY <1>1, <1>2, <1>3

\* The account a cookie names, and the one that counts as its own, exist.
LEMMA AccountOfCookie ==
    ASSUME AccountsInv, NEW b \in Browsers
    PROVE  (cookie[b].uid # 0 => cookie[b].uid \in Ids) /\ Own(b) \subseteq Ids
<1>1. cookie[b] \in Cookie(Len(users))
    BY Zenon DEF AccountsInv, TableOK
<1>2. cookie[b].uid \in 0..Len(users)
    BY <1>1, Zenon DEF Cookie
<1>3. cookie[b].uid # 0 => cookie[b].uid \in Ids
    BY <1>2 DEF AccountsInv, TableOK, Ids
<1> QED
    BY <1>3 DEF Own, Named

\* The gate holds if no account gets an initial password ...
LEMMA GateKeeps ==
    ASSUME AccountsInv, UNCHANGED cookie,
           \A u \in Ids : ~users[u].must => ~users'[u].must
    PROVE  ForcedChangeHolds'
<1>1. \A b \in Browsers : cookie[b].uid # 0 => cookie[b].uid \in Ids
    BY AccountOfCookie
<1> QED
    BY <1>1 DEF AccountsInv, ForcedChangeHolds

\* ... and the cookie of a browser that gets one fits its account.
LEMMA GateSet ==
    ASSUME AccountsInv, NEW b \in Browsers, NEW c, cookie' = [cookie EXCEPT ![b] = c],
           ~c.must => c.uid # 0 /\ ~users'[c.uid].must,
           \A u \in Ids : ~users[u].must => ~users'[u].must
    PROVE  ForcedChangeHolds'
<1>1. \A d \in Browsers : cookie[d].uid # 0 => cookie[d].uid \in Ids
    BY AccountOfCookie
<1>2. cookie'[b] = c /\ \A d \in Browsers \ {b} : cookie'[d] = cookie[d]
    BY DEF AccountsInv, TableOK
<1> QED
    BY <1>1, <1>2 DEF AccountsInv, ForcedChangeHolds

\* Every step keeps the invariant.
THEOREM AccountsNextInv == AccountsInv /\ [AccountsNext]_accountVars => AccountsInv'
<1> SUFFICES ASSUME AccountsInv, [AccountsNext]_accountVars PROVE AccountsInv'
    OBVIOUS
<1>1. /\ users \in Seq(Account) /\ Len(users) \in Nat /\ Ids = 1..Len(users)
      /\ cookie \in [Browsers -> Cookie(Len(users))] /\ env \in Environments
      /\ \A u \in Ids : users[u] \in Account
    BY DEF AccountsInv, TableOK, Ids
<1>2. ASSUME NEW b \in Browsers, NEW n \in Names, NEW pw \in Passwords, LoginAccount(b, n, pw)
      PROVE  AccountsInv'
    <2>1. PICK u \in Ids : cookie' = [cookie EXCEPT ![b] = Session(u)]
        BY <1>2 DEF LoginAccount, Matches, Named
    <2>2. UNCHANGED <<users, env>>
        BY <1>2 DEF LoginAccount
    <2>3. /\ Session(u) \in Cookie(Len(users)) /\ Session(u).uid = u /\ u # 0
          /\ Session(u).must = users[u].must
        BY <1>1, SessionType
    <2>4. TableOK'
        BY <1>1, <2>1, <2>2, <2>3, CookieSet DEF AccountsInv, TableOK
    <2>5. ForcedChangeHolds'
        BY <1>1, <2>1, <2>2, <2>3, GateSet
    <2> QED
        BY <2>2, <2>4, <2>5 DEF AccountsInv, AdminRemains, NamesUnique, Ids, IsAdmin
<1>3. ASSUME NEW b \in Browsers, NEW n \in Names, NEW pw \in Passwords, LoginEnv(b, n, pw)
      PROVE  AccountsInv'
    <2> DEFINE c == [name |-> n, role |-> "admin", uid |-> IF users = <<>> THEN 1 ELSE 0,
                     must |-> TRUE]
    <2>1. cookie' = [cookie EXCEPT ![b] = c] /\ UNCHANGED env
        BY <1>3 DEF LoginEnv
    <2>2. CASE users = <<>>
        <3> DEFINE a == User(n, pw, "admin", TRUE)
        <3>1. a \in Account /\ a.role = "admin" /\ a.active
            BY UserType, AccountsAssumption DEF User
        <3>2. users' = Append(users, a)
            <4>1. users' = <<a>>
                BY <1>3, <2>2 DEF LoginEnv
            <4> HIDE DEF a
            <4> QED
                BY <2>2, <4>1
        <3>3. Len(users) = 0 /\ Named(a.name) = {}
            BY <1>1, <2>2 DEF Named
        <3> HIDE DEF a
        <3>4. /\ users' \in Seq(Account) /\ Len(users') <= MaxUsers /\ Len(users') = 1
              /\ AdminRemains' /\ NamesUnique'
            BY <1>1, <3>1, <3>2, <3>3, AddKeeps, AccountsAssumption
        <3>5. c = [name |-> n, role |-> "admin", uid |-> 1, must |-> TRUE]
            BY <2>2
        <3> HIDE DEF c
        <3>6. c \in Cookie(1) /\ c.must
            <4>1. 1 \in 0..1 /\ 1 \in Nat
                OBVIOUS
            <4> QED
                BY <3>5, <4>1, AccountsAssumption, CookieType
        <3>7. cookie' \in [Browsers -> Cookie(1)]
            <4>1. cookie \in [Browsers -> Cookie(0 + 1)]
                BY <1>1, <3>3, CookieGrows
            <4> QED
                BY <2>1, <3>6, <4>1
        <3>8. ForcedChangeHolds'
            <4>1. Ids = {}
                BY <1>1, <3>3
            <4> QED
                BY <2>1, <3>6, <4>1, GateSet
        <3> QED
            BY <1>1, <2>1, <3>4, <3>7, <3>8 DEF AccountsInv, TableOK
    <2>3. CASE users # <<>>
        <3>1. UNCHANGED users
            BY <1>3, <2>3 DEF LoginEnv
        <3>2. c \in Cookie(Len(users)) /\ c.must
            <4>1. c = [name |-> n, role |-> "admin", uid |-> 0, must |-> TRUE]
                BY <2>3
            <4>2. 0 \in 0..Len(users)
                BY <1>1
            <4> HIDE DEF c
            <4> QED
                BY <1>1, <4>1, <4>2, AccountsAssumption, CookieType
        <3> HIDE DEF c
        <3>3. TableOK'
            BY <1>1, <2>1, <3>1, <3>2, CookieSet DEF AccountsInv, TableOK
        <3>4. ForcedChangeHolds'
            BY <1>1, <2>1, <3>1, <3>2, GateSet
        <3> QED
            BY <3>1, <3>3, <3>4 DEF AccountsInv, AdminRemains, NamesUnique, Ids, IsAdmin
    <2> QED
        BY <2>2, <2>3
<1>4. ASSUME NEW b \in Browsers, Logout(b) PROVE AccountsInv'
    <2>1. cookie' = [cookie EXCEPT ![b] = NoCookie] /\ UNCHANGED <<users, env>>
        BY <1>4 DEF Logout
    <2>2. NoCookie \in Cookie(Len(users))
        <3>1. 0 \in 0..Len(users)
            BY <1>1
        <3> QED
            BY <3>1, Zenon DEF NoCookie, Cookie
    <2>3. TableOK'
        BY <1>1, <2>1, <2>2, CookieSet DEF AccountsInv, TableOK
    <2>4. ForcedChangeHolds'
        BY <1>1, <2>1 DEF AccountsInv, ForcedChangeHolds
    <2> QED
        BY <2>1, <2>3, <2>4 DEF AccountsInv, AdminRemains, NamesUnique, Ids, IsAdmin
<1>5. ASSUME NEW b \in Browsers, NEW pw \in Passwords, NEW new \in Passwords,
             ChangePassword(b, pw, new)
      PROVE  AccountsInv'
    <2>1. PICK u \in Ids :
            /\ users' = [users EXCEPT ![u].pw = new, ![u].must = FALSE]
            /\ cookie' = [cookie EXCEPT ![b] = [Session(u) EXCEPT !.must = FALSE]]
        BY <1>5, AccountOfCookie DEF ChangePassword
    <2> DEFINE a == [users[u] EXCEPT !.pw = new, !.must = FALSE]
               c == [Session(u) EXCEPT !.must = FALSE]
    <2>2. /\ a \in Account /\ a.name = users[u].name /\ ~a.must
          /\ IsAdmin(u) => a.role = "admin" /\ a.active
        BY <1>1 DEF Account, IsAdmin
    <2>3. users' = [users EXCEPT ![u] = a] /\ cookie' = [cookie EXCEPT ![b] = c]
        BY <1>1, <2>1
    <2>4. c \in Cookie(Len(users)) /\ c.uid = u /\ u # 0
        BY <1>1, SessionType DEF Session
    <2>5. UNCHANGED env
        BY <1>5 DEF ChangePassword
    <2> HIDE DEF a, c
    <2>6. /\ users' \in Seq(Account) /\ Len(users') = Len(users)
          /\ AdminRemains' /\ NamesUnique'
        BY <2>2, <2>3, ChangeKeeps
    <2>7. cookie' \in [Browsers -> Cookie(Len(users))]
        BY <1>1, <2>3, <2>4, CookieSet
    <2>8. \A v \in Ids : ~users[v].must => ~users'[v].must
        BY <1>1, <2>2, <2>3, Changed
    <2>9. cookie'[b].uid = u /\ users'[u] = a
        BY <1>1, <2>2, <2>3, <2>4, Changed
    <2>10. ForcedChangeHolds'
        BY <2>2, <2>3, <2>4, <2>8, <2>9, GateSet
    <2> QED
        BY <2>5, <2>6, <2>7, <2>10 DEF AccountsInv, TableOK
<1>6. ASSUME NEW b \in Browsers, NEW pw \in Passwords, NEW new \in Passwords,
             ChangeCreates(b, pw, new)
      PROVE  AccountsInv'
    <2> DEFINE a == User(cookie[b].name, new, "admin", FALSE)
               c == [cookie[b] EXCEPT !.uid = NextId, !.must = FALSE]
    <2>1. /\ users' = Append(users, a) /\ cookie' = [cookie EXCEPT ![b] = c]
          /\ UNCHANGED env /\ Len(users) < MaxUsers
        BY <1>6 DEF ChangeCreates
    <2>2. Named(cookie[b].name) = {} /\ cookie[b].uid = 0
        BY <1>6 DEF ChangeCreates, Own
    <2>3. cookie[b].name = env.name /\ env.name \in Names
        BY <1>1, <1>6, <2>2 DEF ChangeCreates, Verified, IsEnv, Environments
    <2>4. /\ a \in Account /\ a.name = cookie[b].name /\ a.role = "admin" /\ a.active
          /\ ~a.must
        BY <2>3, UserType, AccountsAssumption DEF User
    <2>5. c \in Cookie(Len(users) + 1) /\ c.uid = Len(users) + 1
        <3>1. cookie[b] \in Cookie(Len(users))
            BY <1>1
        <3>2. NextId \in 0..(Len(users) + 1) /\ NextId = Len(users) + 1
            BY <1>1 DEF NextId
        <3> QED
            BY <3>1, <3>2 DEF Cookie
    <2> HIDE DEF a, c
    <2>6. /\ users' \in Seq(Account) /\ Len(users') <= MaxUsers
          /\ AdminRemains' /\ NamesUnique'
        BY <2>1, <2>2, <2>4, AddKeeps
    <2>7. /\ Len(users') = Len(users) + 1 /\ \A v \in Ids : users'[v] = users[v]
          /\ users'[Len(users) + 1] = a
        BY <1>1, <2>1, <2>4, Added
    <2>8. cookie' \in [Browsers -> Cookie(Len(users) + 1)]
        <3>1. cookie \in [Browsers -> Cookie(Len(users) + 1)]
            BY <1>1, CookieGrows
        <3> QED
            BY <2>1, <2>5, <3>1, Zenon
    <2>9. ForcedChangeHolds'
        <3>1. c.uid # 0 /\ users'[c.uid] = a
            BY <1>1, <2>5, <2>7
        <3> QED
            BY <2>1, <2>4, <2>7, <3>1, GateSet
    <2> QED
        <3>1. cookie' \in [Browsers -> Cookie(Len(users'))] /\ env' \in Environments
            BY <1>1, <2>1, <2>7, <2>8
        <3> QED
            BY <2>6, <2>9, <3>1 DEF AccountsInv, TableOK
<1>7. ASSUME NEW b \in Browsers, NEW pw \in Passwords, NEW new \in Passwords,
             ChangeCut(b, pw, new)
      PROVE  AccountsInv'
    <2>0. PICK u \in Ids : users' = [users EXCEPT ![u].pw = new]
        BY <1>7, AccountOfCookie DEF ChangeCut
    <2> DEFINE a == [users[u] EXCEPT !.pw = new]
    <2>1. a \in Account /\ a.name = users[u].name /\ a.must = users[u].must
        BY <1>1 DEF Account
    <2>2. users' = [users EXCEPT ![u] = a] /\ UNCHANGED <<cookie, env>>
        BY <1>1, <1>7, <2>0 DEF ChangeCut
    <2>3. (IsAdmin(u) => a.role = "admin" /\ a.active) \/ SparesAdmins(u)
        BY <1>1, <1>7 DEF ChangeCut, IsAdmin, Account
    <2> HIDE DEF a
    <2>4. /\ users' \in Seq(Account) /\ Len(users') = Len(users)
          /\ AdminRemains' /\ NamesUnique'
        BY <2>1, <2>2, <2>3, ChangeKeeps
    <2>5. \A v \in Ids : users'[v].must = users[v].must
        BY <1>1, <2>1, <2>2, Changed
    <2>6. ForcedChangeHolds'
        BY <2>2, <2>5, GateKeeps
    <2> QED
        BY <2>2, <2>4, <2>6 DEF AccountsInv, TableOK
<1>8. ASSUME NEW b \in Browsers, NEW n \in Names, NEW pw \in Passwords, NEW r \in Roles,
             AdminCreates(b, n, pw, r)
      PROVE  AccountsInv'
    <2> DEFINE a == User(n, pw, r, FALSE)
    <2>1. a \in Account /\ a.name = n
        BY UserType DEF User
    <2>2. users' = Append(users, a) /\ UNCHANGED <<cookie, env>>
        BY <1>8 DEF AdminCreates
    <2>3. Len(users) < MaxUsers /\ Named(n) = {}
        BY <1>8 DEF AdminCreates
    <2>4. users # <<>>
        <3>1. cookie[b].uid # 0 /\ cookie[b] \in Cookie(Len(users))
            BY <1>1, <1>8 DEF AdminCreates, Admin, AccountsInv, ForcedChangeHolds
        <3>2. cookie[b].uid \in 0..Len(users)
            BY <3>1, Zenon DEF Cookie
        <3> QED
            BY <1>1, <3>1, <3>2
    <2> HIDE DEF a
    <2>5. /\ users' \in Seq(Account) /\ Len(users') <= MaxUsers
          /\ AdminRemains' /\ NamesUnique'
        BY <2>1, <2>2, <2>3, <2>4, AddKeeps
    <2>6. Len(users') = Len(users) + 1 /\ \A v \in Ids : users'[v] = users[v]
        BY <1>1, <2>1, <2>2, Added
    <2>7. cookie' \in [Browsers -> Cookie(Len(users'))]
        BY <1>1, <2>2, <2>6, CookieGrows
    <2>8. ForcedChangeHolds'
        BY <2>2, <2>6, GateKeeps
    <2> QED
        BY <2>2, <2>5, <2>7, <2>8 DEF AccountsInv, TableOK
<1>9. ASSUME NEW b \in Browsers, NEW u \in Ids, NEW pw \in Passwords,
             AdminSetsPassword(b, u, pw)
      PROVE  AccountsInv'
    <2> DEFINE a == [users[u] EXCEPT !.pw = pw]
    <2>1. a \in Account /\ a.name = users[u].name /\ a.must = users[u].must
        BY <1>1 DEF Account
    <2>2. users' = [users EXCEPT ![u] = a] /\ UNCHANGED <<cookie, env>>
        BY <1>1, <1>9 DEF AdminSetsPassword
    <2>3. (IsAdmin(u) => a.role = "admin" /\ a.active) \/ SparesAdmins(u)
        BY <1>1, <1>9 DEF AdminSetsPassword, IsAdmin, Account
    <2> HIDE DEF a
    <2>4. /\ users' \in Seq(Account) /\ Len(users') = Len(users)
          /\ AdminRemains' /\ NamesUnique'
        BY <2>1, <2>2, <2>3, ChangeKeeps
    <2>5. \A v \in Ids : users'[v].must = users[v].must
        BY <1>1, <2>1, <2>2, Changed
    <2>6. ForcedChangeHolds'
        BY <2>2, <2>5, GateKeeps
    <2> QED
        BY <2>2, <2>4, <2>6 DEF AccountsInv, TableOK
<1>10. ASSUME NEW b \in Browsers, NEW u \in Ids, AdminToggles(b, u) PROVE AccountsInv'
    <2> DEFINE a == [users[u] EXCEPT !.active = ~@]
    <2>1. a \in Account /\ a.name = users[u].name /\ a.must = users[u].must
        BY <1>1 DEF Account
    <2>2. users' = [users EXCEPT ![u] = a] /\ UNCHANGED <<cookie, env>>
        BY <1>1, <1>10 DEF AdminToggles
    <2>3. (IsAdmin(u) => a.role = "admin" /\ a.active) \/ SparesAdmins(u)
        BY <1>1, <1>10 DEF AdminToggles, IsAdmin, Account
    <2> HIDE DEF a
    <2>4. /\ users' \in Seq(Account) /\ Len(users') = Len(users)
          /\ AdminRemains' /\ NamesUnique'
        BY <2>1, <2>2, <2>3, ChangeKeeps
    <2>5. \A v \in Ids : users'[v].must = users[v].must
        BY <1>1, <2>1, <2>2, Changed
    <2>6. ForcedChangeHolds'
        BY <2>2, <2>5, GateKeeps
    <2> QED
        BY <2>2, <2>4, <2>6 DEF AccountsInv, TableOK
<1>11. ASSUME NEW b \in Browsers, NEW u \in Ids, NEW r \in Roles, AdminSetsRole(b, u, r)
      PROVE  AccountsInv'
    <2> DEFINE a == [users[u] EXCEPT !.role = r]
    <2>1. a \in Account /\ a.name = users[u].name /\ a.must = users[u].must
        BY <1>1 DEF Account
    <2>2. users' = [users EXCEPT ![u] = a] /\ UNCHANGED <<cookie, env>>
        BY <1>1, <1>11 DEF AdminSetsRole
    <2>3. (IsAdmin(u) => a.role = "admin" /\ a.active) \/ SparesAdmins(u)
        BY <1>1, <1>11 DEF AdminSetsRole, IsAdmin, Account
    <2> HIDE DEF a
    <2>4. /\ users' \in Seq(Account) /\ Len(users') = Len(users)
          /\ AdminRemains' /\ NamesUnique'
        BY <2>1, <2>2, <2>3, ChangeKeeps
    <2>5. \A v \in Ids : users'[v].must = users[v].must
        BY <1>1, <2>1, <2>2, Changed
    <2>6. ForcedChangeHolds'
        BY <2>2, <2>5, GateKeeps
    <2> QED
        BY <2>2, <2>4, <2>6 DEF AccountsInv, TableOK
<1>12. CASE \/ \E n \in Names, pw \in Passwords : LoginFails(n, pw)
            \/ \E n \in Names : LoginLocked(n)
            \/ Second \/ Restart
            \/ UNCHANGED accountVars
    <2>1. UNCHANGED <<users, cookie>> /\ env' \in Environments
        BY <1>1, <1>12 DEF LoginFails, LoginLocked, Second, Restart, accountVars
    <2> QED
        BY <2>1, Untouched
<1> QED
    BY <1>2, <1>3, <1>4, <1>5, <1>6, <1>7, <1>8, <1>9, <1>10, <1>11, <1>12
    DEF AccountsNext

\* The invariant holds in every reachable state.
THEOREM AccountsAlways == AccountsSpec => []AccountsInv
BY AccountsInitInv, AccountsNextInv, PTL DEF AccountsSpec

\* There is an active administrator as soon as there is an account, for any
\* sessions with cookies of the past (service.py:147).
THEOREM AdminAlways == AccountsSpec => []AdminRemains
BY AccountsAlways, PTL DEF AccountsInv

\* Nobody works in an account whose initial password is still to be changed, nor
\* without account (main.py:122, service.py:204).
THEOREM GateAlways == AccountsSpec => []ForcedChangeHolds
BY AccountsAlways, PTL DEF AccountsInv
-----------------------------------------------------------------------------
(* The limit on failed logins.                                             *)

Tries == [failures : Nat, last : Nat, until : Nat]

\* The last k failures of f, none more than Window seconds after the one before.
Chained(f, k) == \A i \in (Len(f) - k + 1)..(Len(f) - 1) : f[i + 1] - f[i] <= Window

\* No guess comes within Lockout seconds of MaxFailures chained failures.
Spaced(f) ==
    /\ Len(f) > MaxFailures
    /\ \A i \in (Len(f) - MaxFailures)..(Len(f) - 2) : f[i + 1] - f[i] <= Window
    => f[Len(f)] - f[Len(f) - 1] >= Lockout

Dated(f, t, time) ==
    /\ f \in Seq(Nat) /\ Len(f) <= MaxFailures + 1 /\ t \in Tries
    /\ \A i \in 1..Len(f) : f[i] <= time
Counted(f, t, k) == t.failures >= k /\ t.last = f[Len(f)]
Remembers(f, t, time, k) ==
    \/ Counted(f, t, k)
    \/ /\ f[Len(f)] + Window < time
       /\ k = MaxFailures => f[Len(f)] + Lockout <= time

\* What the history f of a name has to do with what the limiter remembers of it, t:
\* the last failures that are chained are all counted and the last of them is known;
\* or they were forgotten, Window seconds after the last one and after a lock it began.
Recorded(f, t, time) ==
    /\ Dated(f, t, time)
    /\ t.failures >= MaxFailures => t.until >= t.last + Lockout
    /\ \A k \in 1..MaxFailures : k <= Len(f) /\ Chained(f, k) => Remembers(f, t, time, k)
    /\ Spaced(f)

LimiterInv ==
    /\ now \in Nat
    /\ tries \in [Names -> Tries] /\ failed \in [Names -> Seq(Nat)]
    /\ \A n \in Names : Recorded(failed[n], tries[n], now)

\* Nothing is remembered, and nothing has happened.
LEMMA RecordedAfresh ==
    ASSUME NEW time \in Nat
    PROVE  NoTries \in Tries /\ Recorded(<<>>, NoTries, time)
BY AccountsAssumption DEF NoTries, Tries, Recorded, Dated, Spaced

\* Time passes.
LEMMA RecordedLater ==
    ASSUME NEW time \in Nat, NEW f, NEW t, Recorded(f, t, time)
    PROVE  Recorded(f, t, time + 1)
<1>1. f \in Seq(Nat) /\ \A i \in 1..Len(f) : f[i] \in Nat
    BY DEF Recorded, Dated
<1>2. Dated(f, t, time + 1)
    BY <1>1 DEF Recorded, Dated
<1>3. ASSUME NEW k \in 1..MaxFailures, k <= Len(f), Chained(f, k)
      PROVE  Remembers(f, t, time + 1, k)
    <2>1. Remembers(f, t, time, k)
        BY <1>3 DEF Recorded
    <2>2. f[Len(f)] \in Nat /\ Window \in Nat /\ Lockout \in Nat
        BY <1>1, <1>3, AccountsAssumption
    <2> QED
        BY <2>1, <2>2 DEF Remembers
<1> QED
    BY <1>2, <1>3 DEF Recorded

\* What is forgotten is old enough, and not locked any more.
LEMMA RecordedPurged ==
    ASSUME now \in Nat, NEW f, NEW t, Recorded(f, t, now), Old(t)
    PROVE  Recorded(f, NoTries, now)
<1>1. /\ f \in Seq(Nat) /\ t.last \in Nat /\ t.failures \in Nat /\ t.until \in Nat
      /\ \A i \in 1..Len(f) : f[i] \in Nat
      /\ Len(f) <= MaxFailures + 1 /\ \A i \in 1..Len(f) : f[i] <= now
      /\ t.until <= now /\ t.last < now - Window
      /\ MaxFailures \in Nat /\ MaxFailures >= 1 /\ Lockout \in Nat /\ Window \in Nat
    BY AccountsAssumption DEF Recorded, Dated, Tries, Old
<1>2. ASSUME NEW k \in 1..MaxFailures, k <= Len(f), Chained(f, k)
      PROVE  Remembers(f, NoTries, now, k)
    <2>1. f[Len(f)] \in Nat /\ k \in Nat
        BY <1>1, <1>2
    <2>2. CASE Counted(f, t, k)
        <3>1. t.failures >= MaxFailures => t.until >= t.last + Lockout
            BY DEF Recorded
        <3> QED
            BY <1>1, <2>1, <2>2, <3>1 DEF Counted, Remembers
    <2>3. CASE ~Counted(f, t, k)
        BY <1>2, <2>3 DEF Recorded, Remembers
    <2> QED
        BY <2>2, <2>3
<1>3. NoTries \in Tries /\ NoTries.failures = 0
    BY DEF NoTries, Tries
<1>4. Spaced(f) /\ ~(NoTries.failures >= MaxFailures)
    BY <1>1, <1>3 DEF Recorded
<1>5. Dated(f, NoTries, now)
    BY <1>1, <1>3 DEF Dated
<1> QED
    BY <1>2, <1>4, <1>5 DEF Recorded

\* A chain of failures is one whether or not the oldest failure was dropped since.
LEMMA SameChain ==
    ASSUME NEW n \in Nat, NEW m \in Nat, NEW k \in Nat, NEW d \in {0, 1}, NEW f, NEW g,
           n - 1 + d = m, k >= 1, k <= n - 1, \A i \in 1..(n - 1) : g[i] = f[i + d],
           \A i \in (n - k)..(n - 2) : g[i + 1] - g[i] <= Window
    PROVE  \A i \in (m - k + 1)..(m - 1) : f[i + 1] - f[i] <= Window
<1> TAKE i \in (m - k + 1)..(m - 1)
<1>1. CASE d = 0
    <2>1. i \in (n - k)..(n - 2) /\ i \in 1..(n - 1) /\ i + 1 \in 1..(n - 1)
        BY <1>1
    <2>2. g[i] = f[i] /\ g[i + 1] = f[i + 1]
        BY <1>1, <2>1
    <2> QED
        BY <2>1, <2>2
<1>2. CASE d = 1
    <2>1. PICK j \in Int : j = i - 1
        OBVIOUS
    <2>2. /\ j \in (n - k)..(n - 2) /\ j \in 1..(n - 1) /\ j + 1 \in 1..(n - 1)
          /\ i = j + 1
        BY <1>2, <2>1
    <2>3. g[j] = f[j + 1] /\ g[j + 1] = f[j + 1 + 1]
        BY <1>2, <2>2
    <2>4. g[j + 1] - g[j] <= Window
        BY <2>2
    <2> QED
        BY ONLY <2>2, <2>3, <2>4
<1> QED
    BY <1>1, <1>2

\* One more failure while the name is not locked.  The failures before it that are
\* chained were counted, so that this one is the next and any lock they began is over;
\* or the last of them was forgotten and this one begins a chain.
LEMMA RecordedStrike ==
    ASSUME now \in Nat, NEW f, NEW t, Recorded(f, t, now), t.until <= now
    PROVE  Recorded(Recent(Append(f, now)), Struck(t), now)
<1>0. PICK m : m = Len(f)
    OBVIOUS
<1>1. /\ f \in Seq(Nat) /\ t.last \in Nat /\ t.failures \in Nat /\ t.until \in Nat
      /\ m \in Nat /\ m <= MaxFailures + 1
      /\ \A i \in 1..m : f[i] \in Nat /\ f[i] <= now
      /\ MaxFailures \in Nat /\ MaxFailures >= 1 /\ Lockout \in Nat /\ Window \in Nat
    BY <1>0, AccountsAssumption DEF Recorded, Dated, Tries
<1>2. PICK s : s = Struck(t)
    OBVIOUS
<1>3. /\ s \in Tries /\ s.failures = t.failures + 1 /\ s.last = now
      /\ s.failures >= MaxFailures => s.until >= s.last + Lockout
    BY <1>1, <1>2 DEF Struck, Tries
<1>4. PICK g : g = Recent(Append(f, now))
    OBVIOUS
<1>5. PICK n \in Nat, d \in {0, 1} :
         /\ g \in Seq(Nat) /\ n = Len(g) /\ n >= 1 /\ n <= MaxFailures + 1
         /\ g[n] = now /\ n - 1 + d = m
         /\ \A i \in 1..(n - 1) : i + d \in 1..m /\ g[i] = f[i + d]
    <2>1. PICK h : h = Append(f, now)
        OBVIOUS
    <2>2. /\ h \in Seq(Nat) /\ h # <<>> /\ Len(h) = m + 1 /\ h[m + 1] = now
          /\ \A i \in 1..m : h[i] = f[i]
        BY <1>0, <1>1, <2>1, AppendProperties
    <2>3. m \in Nat /\ MaxFailures \in Nat
        BY <1>1
    <2>4. CASE m <= MaxFailures
        <3>1. g = h
            BY <1>4, <2>1, <2>2, <2>3, <2>4 DEF Recent
        <3>2. PICK n \in Nat : n = m + 1
            BY <2>3
        <3>3. /\ n = Len(g) /\ n >= 1 /\ n <= MaxFailures + 1 /\ g[n] = now
              /\ n - 1 + 0 = m /\ 0 \in {0, 1} /\ g \in Seq(Nat)
            BY ONLY <2>2, <2>3, <2>4, <3>1, <3>2
        <3>4. \A i \in 1..(n - 1) : i + 0 \in 1..m /\ g[i] = f[i + 0]
            BY ONLY <2>2, <2>3, <3>1, <3>2
        <3> QED
            BY ONLY <3>2, <3>3, <3>4, Zenon
    <2>5. CASE m = MaxFailures + 1
        <3>1. g = Tail(h)
            BY <1>4, <2>1, <2>2, <2>3, <2>5 DEF Recent
        <3>2. g \in Seq(Nat) /\ Len(g) = m /\ \A i \in 1..m : g[i] = h[i + 1]
            BY <2>2, <2>3, <3>1, HeadTailProperties
        <3>3. ASSUME NEW i \in 1..(m - 1) PROVE i + 1 \in 1..m /\ g[i] = f[i + 1]
            <4>1. i + 1 \in 1..m /\ i \in 1..m
                BY <2>3
            <4>2. g[i] = h[i + 1] /\ h[i + 1] = f[i + 1]
                BY <2>2, <3>2, <4>1
            <4> QED
                BY <4>1, <4>2
        <3>4. g[m] = now /\ m >= 1 /\ m <= MaxFailures + 1 /\ 1 \in {0, 1} /\ m - 1 + 1 = m
            BY ONLY <2>2, <2>3, <2>5, <3>2
        <3> QED
            BY ONLY <2>3, <3>2, <3>3, <3>4
    <2> QED
        BY <1>1, <2>4, <2>5
<1>6. ASSUME NEW k \in 1..MaxFailures, k <= n - 1,
             \A i \in (n - k)..(n - 2) : g[i + 1] - g[i] <= Window
      PROVE  /\ k <= m /\ f[m] \in Nat /\ g[n - 1] = f[m]
             /\ Remembers(f, t, now, k)
    <2>1. k \in Nat /\ k >= 1 /\ k <= m /\ n - 1 \in 1..(n - 1) /\ m \in 1..m
        <3>1. n \in Nat /\ m \in Nat /\ k \in Nat /\ k >= 1
            BY <1>1, <1>5
        <3>2. d \in {0, 1} /\ n - 1 + d = m /\ k <= n - 1
            BY <1>5, <1>6
        <3> QED
            BY ONLY <3>1, <3>2
    <2>2. g[n - 1] = f[m] /\ f[m] \in Nat
        BY <1>1, <1>5, <2>1
    <2>3. \A i \in (m - k + 1)..(m - 1) : f[i + 1] - f[i] <= Window
        <3>1. m \in Nat /\ n \in Nat /\ k \in Nat /\ d \in {0, 1} /\ n - 1 + d = m
            BY <1>1, <1>5, <2>1
        <3>2. \A i \in 1..(n - 1) : g[i] = f[i + d]
            BY ONLY <1>5
        <3> QED
            BY ONLY <1>6, <2>1, <3>1, <3>2, SameChain
    <2>4. Chained(f, k)
        BY <1>0, <2>3 DEF Chained
    <2> QED
        BY <1>0, <1>6, <2>1, <2>2, <2>4 DEF Recorded
<1>7. ASSUME NEW k \in 1..MaxFailures, k <= n, Chained(g, k)
      PROVE  s.failures >= k /\ s.last = g[n]
    <2>1. CASE k = 1
        BY <1>1, <1>3, <1>5, <2>1
    <2>2. CASE k # 1
        <3>1. k - 1 \in 1..MaxFailures /\ k - 1 <= n - 1 /\ n - (k - 1) = n - k + 1
            BY <1>1, <1>5, <1>7, <2>2
        <3>2. \A i \in (n - k + 1)..(n - 1) : g[i + 1] - g[i] <= Window
            BY <1>5, <1>7 DEF Chained
        <3>3. \A i \in (n - (k - 1))..(n - 2) : g[i + 1] - g[i] <= Window
            BY <1>1, <1>5, <3>1, <3>2
        <3>4. g[n] - g[n - 1] <= Window
            <4>1. n - 1 \in (n - k + 1)..(n - 1) /\ (n - 1) + 1 = n
                BY <1>1, <1>5, <1>7, <2>2
            <4> QED
                BY <3>2, <4>1
        <3>5. f[m] \in Nat /\ g[n - 1] = f[m] /\ Remembers(f, t, now, k - 1)
            BY ONLY <1>6, <3>1, <3>3
        <3>6. ~(f[m] + Window < now)
            <4>1. now - f[m] <= Window
                BY ONLY <1>5, <3>4, <3>5
            <4>2. now \in Nat /\ Window \in Nat /\ f[m] \in Nat
                BY <1>1, <3>5
            <4> QED
                BY ONLY <4>1, <4>2
        <3>7. t.failures >= k - 1
            BY <1>0, <3>5, <3>6 DEF Remembers, Counted
        <3>8. s.failures = t.failures + 1 /\ t.failures \in Nat /\ s.last = g[n] /\ k \in Nat
            BY <1>1, <1>3, <1>5
        <3> QED
            BY ONLY <3>7, <3>8
    <2> QED
        BY <2>1, <2>2
<1>8. ASSUME n > MaxFailures,
             \A i \in (n - MaxFailures)..(n - 2) : g[i + 1] - g[i] <= Window
      PROVE  g[n] - g[n - 1] >= Lockout
    <2>1. MaxFailures \in 1..MaxFailures /\ MaxFailures <= n - 1
        BY <1>1, <1>5, <1>8
    <2>2. f[m] \in Nat /\ g[n - 1] = f[m] /\ Remembers(f, t, now, MaxFailures)
        BY <1>6, <1>8, <2>1
    <2>3. t.failures >= MaxFailures => t.until >= t.last + Lockout
        BY DEF Recorded
    <2>4. f[m] + Lockout <= now
        BY <1>0, <1>1, <2>2, <2>3 DEF Remembers, Counted
    <2>5. g[n] = now /\ now \in Nat /\ Lockout \in Nat
        BY <1>1, <1>5
    <2> QED
        BY ONLY <2>2, <2>4, <2>5
<1>9. ASSUME NEW i \in 1..n PROVE g[i] <= now
    <2>1. CASE i = n
        BY <1>1, <1>5, <2>1
    <2>2. CASE i # n
        <3>1. i \in 1..(n - 1)
            BY <1>5, <2>2
        <3>2. i + d \in 1..m /\ g[i] = f[i + d]
            BY <1>5, <3>1
        <3> QED
            BY <1>1, <3>2
    <2> QED
        BY <2>1, <2>2
<1>10. Dated(g, s, now)
    BY <1>3, <1>5, <1>9 DEF Dated
<1>11. ASSUME NEW k \in 1..MaxFailures, k <= Len(g), Chained(g, k) PROVE Remembers(g, s, now, k)
    BY <1>5, <1>7, <1>11 DEF Remembers, Counted
<1>12. Spaced(g)
    BY <1>5, <1>8 DEF Spaced
<1> QED
    BY <1>2, <1>3, <1>4, <1>10, <1>11, <1>12 DEF Recorded

\* Every check and every failure forgets old entries of every name.
LEMMA PurgedInv ==
    ASSUME LimiterInv
    PROVE  /\ Purged \in [Names -> Tries]
           /\ \A n \in Names : Recorded(failed[n], Purged[n], now)
<1>1. ASSUME NEW n \in Names
      PROVE  Purged[n] \in Tries /\ Recorded(failed[n], Purged[n], now)
    <2>1. CASE Old(tries[n])
        BY <2>1, RecordedPurged, RecordedAfresh DEF LimiterInv, Purged
    <2>2. CASE ~Old(tries[n])
        BY <2>2 DEF LimiterInv, Purged
    <2> QED
        BY <2>1, <2>2
<1> QED
    BY <1>1 DEF Purged

\* Every step keeps what the limiter remembers true to what happened.
THEOREM LimiterNextInv == LimiterInv /\ [AccountsNext]_accountVars => LimiterInv'
<1> SUFFICES ASSUME LimiterInv, [AccountsNext]_accountVars PROVE LimiterInv'
    OBVIOUS
<1>1. /\ now \in Nat /\ tries \in [Names -> Tries] /\ failed \in [Names -> Seq(Nat)]
      /\ Purged \in [Names -> Tries] /\ NoTries \in Tries
      /\ \A n \in Names : Recorded(failed[n], Purged[n], now)
    BY PurgedInv, RecordedAfresh DEF LimiterInv
<1>2. ASSUME NEW name \in Names, tries' = [Purged EXCEPT ![name] = NoTries],
             failed' = [failed EXCEPT ![name] = <<>>], now' = now
      PROVE  LimiterInv'
    <2>1. ASSUME NEW n \in Names PROVE Recorded(failed'[n], tries'[n], now)
        BY <1>1, <1>2, RecordedAfresh
    <2>2. <<>> \in Seq(Nat)
        OBVIOUS
    <2> QED
        BY <1>1, <1>2, <2>1, <2>2 DEF LimiterInv
<1>3. ASSUME NEW name \in Names, NEW pw \in Passwords, LoginFails(name, pw) PROVE LimiterInv'
    <2>1. PICK t \in Tries, f \in Seq(Nat) : t = Purged[name] /\ f = failed[name]
        BY <1>1
    <2>2. Recorded(f, t, now) /\ t.until <= now
        BY <1>1, <1>3, <2>1 DEF LoginFails, Locked, Tries
    <2>3. Recorded(Recent(Append(f, now)), Struck(t), now)
        BY <1>1, <2>2, RecordedStrike
    <2>4. Recent(Append(f, now)) \in Seq(Nat) /\ Struck(t) \in Tries
        BY <2>3 DEF Recorded, Dated
    <2>5. /\ tries' = [Purged EXCEPT ![name] = Struck(t)] /\ now' = now
          /\ failed' = [failed EXCEPT ![name] = Recent(Append(f, now))]
        BY <1>3, <2>1 DEF LoginFails
    <2>6. ASSUME NEW n \in Names PROVE Recorded(failed'[n], tries'[n], now)
        BY <1>1, <2>3, <2>5
    <2>7. tries' \in [Names -> Tries] /\ failed' \in [Names -> Seq(Nat)]
        BY <1>1, <2>4, <2>5
    <2> QED
        BY <1>1, <2>5, <2>6, <2>7 DEF LimiterInv
<1>4. ASSUME NEW name \in Names, LoginLocked(name) PROVE LimiterInv'
    BY <1>1, <1>4 DEF LoginLocked, LimiterInv
<1>5. ASSUME tries' = [n \in Names |-> NoTries], failed' = [n \in Names |-> <<>>], now' = now
      PROVE  LimiterInv'
    <2>1. <<>> \in Seq(Nat)
        OBVIOUS
    <2> QED
        BY <1>1, <1>5, <2>1, RecordedAfresh DEF LimiterInv
<1>6. CASE Second
    BY <1>1, <1>6, RecordedLater DEF Second, LimiterInv
<1>7. ASSUME UNCHANGED <<tries, now, failed>> PROVE LimiterInv'
    BY <1>7 DEF LimiterInv
<1>8. ASSUME NEW b \in Browsers, NEW n \in Names, NEW pw \in Passwords,
             LoginAccount(b, n, pw) \/ LoginEnv(b, n, pw)
      PROVE  LimiterInv'
    BY <1>2, <1>8 DEF LoginAccount, LoginEnv
<1>9. ASSUME NEW b \in Browsers, NEW pw \in Passwords, NEW new \in Passwords,
             \/ ChangePassword(b, pw, new) \/ ChangeCreates(b, pw, new)
             \/ ChangeCut(b, pw, new) \/ Logout(b)
      PROVE  LimiterInv'
    BY <1>5, <1>7, <1>9, Zenon DEF ChangePassword, ChangeCreates, ChangeCut, Logout
<1>10. CASE Restart
    BY <1>5, <1>10 DEF Restart
<1>11. ASSUME NEW b \in Browsers,
              \/ \E n \in Names, pw \in Passwords, r \in Roles : AdminCreates(b, n, pw, r)
              \/ \E u \in Ids : \/ AdminToggles(b, u) 
                                \/ \E pw \in Passwords : AdminSetsPassword(b, u, pw)
                                \/ \E r \in Roles : AdminSetsRole(b, u, r)
              \/ Logout(b)
       PROVE  LimiterInv'
    BY <1>7, <1>11, Zenon DEF AdminCreates, AdminToggles, AdminSetsPassword, AdminSetsRole, Logout
<1>12. CASE UNCHANGED accountVars
    BY <1>7, <1>12 DEF accountVars
<1> QED
    BY <1>3, <1>4, <1>6, <1>8, <1>9, <1>10, <1>11, <1>12 DEF AccountsNext

THEOREM LimiterInitInv == AccountsInit => LimiterInv
<1> SUFFICES ASSUME AccountsInit PROVE LimiterInv
    OBVIOUS
<1>1. now \in Nat /\ <<>> \in Seq(Nat)
    BY DEF AccountsInit
<1> QED
    BY <1>1, RecordedAfresh DEF AccountsInit, LimiterInv

\* After MaxFailures failures, none more than Window seconds after the one before, no
\* password is looked at for Lockout seconds, for any two limits (login_limit.py:28-63).
THEOREM GuessesAlways == AccountsSpec => []GuessesBounded
<1>1. LimiterInv => GuessesBounded
    BY DEF LimiterInv, Recorded, Spaced, GuessesBounded
<1> QED
    BY <1>1, LimiterInitInv, LimiterNextInv, PTL DEF AccountsSpec

-----------------------------------------------------------------------------
(* API tokens.                                                             *)

Token   == [active : BOOLEAN, scope : Scopes, expires : Nat, lastUsed : Nat]
Request == [at : {"free", "configured", "select", "verify", "report", "clock", "check", "set",
                  "stamp", "touch", "grant", "served"},
            key : Nat, route : {"", "inventory", "switchmap"}, row : BOOLEAN, mono : Nat,
            stamp : Nat, entitled : BOOLEAN]

TokensTyped == tokens \in Seq(Token) /\ clock \in Nat /\ req \in [Threads -> Request]

Refused(k)  == ~tokens[k].active \/ IsExpired(k)
Accepted(r) == r.at \in {"clock", "check", "set", "stamp", "touch", "grant", "served"}

\* A key that was no good when it came is refused or expires before it can be
\* verified: nothing makes a token good again.  The clocks it read have gone on.
RequestInv(r) ==
    /\ r.mono <= clock /\ r.stamp <= clock
    /\ r.key # NoToken => r.key \in Issued
    /\ r.row => r.key \in Issued
    /\ r.key \in Issued /\ r.at \in {"configured", "select"} /\ ~r.entitled => Refused(r.key)
    /\ r.at = "verify" /\ r.row /\ ~r.entitled => IsExpired(r.key)
    /\ Accepted(r) => r.row /\ r.entitled
    /\ r.at = "served" => Grants(tokens[r.key].scope, r.route)

TokensInv == TokensTyped /\ \A t \in Threads : RequestInv(req[t])

\* A free thread has no request.
LEMMA FreeRequest == Free \in Request /\ (clock \in Nat => RequestInv(Free))
BY DEF Free, Request, RequestInv, NoToken, Accepted

\* A request stays as it should while other steps only take tokens away, add some,
\* or let time pass.
LEMMA RequestStays ==
    ASSUME NEW r \in Request, RequestInv(r), Issued \subseteq Issued',
           clock \in Nat, clock' \in Nat, clock <= clock',
           \A k \in Issued : /\ tokens'[k].scope = tokens[k].scope
                             /\ Refused(k) => Refused(k)'
                             /\ IsExpired(k) => IsExpired(k)',
           r.key \in Issued' => r.key \in Issued
    PROVE  RequestInv(r)'
<1>1. r.mono \in Nat /\ r.stamp \in Nat
    BY DEF Request
<1>2. r.mono <= clock' /\ r.stamp <= clock'
    BY <1>1 DEF RequestInv
<1> QED
    BY <1>2 DEF RequestInv, Accepted, NoToken

\* The threads that do nothing keep their requests while the table stays.
LEMMA OneThread ==
    ASSUME TokensInv, NEW t \in Threads, NEW q \in Request, req' = [req EXCEPT ![t] = q],
           RequestInv(q), UNCHANGED <<tokens, clock>>
    PROVE  TokensInv'
<1>1. \A s \in Threads : RequestInv(req'[s])
    BY DEF TokensInv, TokensTyped
<1>2. TokensTyped'
    BY DEF TokensInv, TokensTyped
<1> QED
    BY <1>1, <1>2 DEF TokensInv, RequestInv, Refused, IsExpired, Issued

\* The table changes and the requests stay.
LEMMA AllThreads ==
    ASSUME TokensInv, UNCHANGED req, TokensTyped', Issued \subseteq Issued', clock <= clock',
           \A k \in Issued : /\ tokens'[k].scope = tokens[k].scope
                             /\ Refused(k) => Refused(k)'
                             /\ IsExpired(k) => IsExpired(k)'
    PROVE  TokensInv'
<1>1. ASSUME NEW t \in Threads PROVE RequestInv(req[t])'
    <2>1. PICK r \in Request : r = req[t]
        BY DEF TokensInv, TokensTyped
    <2>2. RequestInv(r)
        BY <2>1 DEF TokensInv
    <2>3. r.key \in Issued' => r.key \in Issued
        <3>1. NoToken \notin Issued'
            BY DEF TokensTyped, Issued, NoToken
        <3> QED
            BY <2>2, <3>1 DEF RequestInv
    <2>4. RequestInv(r)'
        BY <2>2, <2>3, RequestStays DEF TokensInv, TokensTyped
    <2> QED
        BY <2>1, <2>4
<1> QED
    BY <1>1 DEF TokensInv

\* There are no tokens and no requests at first.
THEOREM TokensInitInv == TokensInit => TokensInv
<1> SUFFICES ASSUME TokensInit PROVE TokensInv
    OBVIOUS
<1>1. TokensTyped
    BY FreeRequest DEF TokensInit, TokensTyped
<1> QED
    BY <1>1, FreeRequest DEF TokensInv, TokensInit, TokensTyped

\* Every step keeps the invariant.
THEOREM TokensNextInv == TokensInv /\ [TokensNext]_tokenVars => TokensInv'
<1> SUFFICES ASSUME TokensInv, [TokensNext]_tokenVars PROVE TokensInv'
    OBVIOUS
<1>1. /\ tokens \in Seq(Token) /\ clock \in Nat /\ req \in [Threads -> Request]
      /\ \A t \in Threads : req[t] \in Request /\ RequestInv(req[t])
      /\ Issued = 1..Len(tokens) /\ \A k \in Issued : tokens[k] \in Token
    BY DEF TokensInv, TokensTyped, Issued
<1>2. ASSUME NEW s \in Scopes, NEW life \in Lifetimes, CreateToken(s, life)
      PROVE  TokensInv'
    <2>1. PICK new : new = [active |-> TRUE, scope |-> s, expires |-> clock + life,
                            lastUsed |-> 0]
        OBVIOUS
    <2>2. new \in Token /\ tokens' = Append(tokens, new) /\ UNCHANGED <<clock, req>>
        BY <1>1, <1>2, <2>1, TokensAssumption DEF CreateToken, Token
    <2>3. /\ Issued \subseteq Issued' /\ tokens' \in Seq(Token)
          /\ \A k \in Issued : tokens'[k] = tokens[k]
        BY <1>1, <2>2 DEF Issued
    <2> QED
        BY <1>1, <2>2, <2>3, AllThreads DEF TokensTyped, Refused, IsExpired
<1>3. ASSUME NEW k \in Issued, Deactivate(k) PROVE TokensInv'
    <2>1. PICK new : new = [tokens[k] EXCEPT !.active = FALSE]
        OBVIOUS
    <2>2. /\ new \in Token /\ ~new.active /\ new.scope = tokens[k].scope
          /\ new.expires = tokens[k].expires
        BY <1>1, <2>1 DEF Token
    <2>3. tokens' = [tokens EXCEPT ![k] = new] /\ UNCHANGED <<clock, req>>
        BY <1>3, <2>1 DEF Deactivate
    <2>4. /\ Issued' = Issued /\ tokens' \in Seq(Token) /\ tokens'[k] = new
          /\ \A j \in Issued : j # k => tokens'[j] = tokens[j]
        BY <1>1, <2>2, <2>3 DEF Issued
    <2> QED
        BY <1>1, <2>2, <2>3, <2>4, AllThreads DEF TokensTyped, Refused, IsExpired
<1>4. ASSUME NEW t \in Threads, NEW k \in Issued \cup {NoToken},
             NEW route \in {"inventory", "switchmap"}, Ask(t, k, route)
      PROVE  TokensInv'
    <2>1. PICK good \in BOOLEAN : good = (k \in Issued /\ Usable(k))
        OBVIOUS
    <2>2. PICK q : q = [Free EXCEPT !.at = "configured", !.key = k, !.route = route,
                                    !.entitled = good]
        OBVIOUS
    <2>3. k \in Nat /\ Free \in Request
        BY <1>1, FreeRequest DEF NoToken
    <2>4. q \in Request
        BY <2>1, <2>2, <2>3 DEF Request
    <2>5. /\ q.key = k /\ q.at = "configured" /\ q.entitled = good /\ ~q.row
          /\ q.mono <= clock /\ q.stamp <= clock
        BY <1>1, <2>1, <2>2 DEF Free
    <2>6. RequestInv(q)
        <3>1. k \in Issued /\ ~good => Refused(k)
            BY <2>1 DEF Usable, Refused
        <3> QED
            BY <2>5, <3>1 DEF RequestInv, Accepted, NoToken
    <2>7. req' = [req EXCEPT ![t] = q] /\ UNCHANGED <<tokens, clock>>
        BY <1>4, <2>1, <2>2, Zenon DEF Ask
    <2> QED
        BY <2>4, <2>6, <2>7, OneThread
<1>5. ASSUME NEW t \in Threads, Configured(t) PROVE TokensInv'
    <2>1. PICK q : q = [req[t] EXCEPT !.at = "select"]
        OBVIOUS
    <2>2. q \in Request /\ RequestInv(q)
        BY <1>1, <1>5, <2>1 DEF Configured, Request, RequestInv, Accepted
    <2>3. PICK r \in {q, Free} : req' = [req EXCEPT ![t] = r]
        BY <1>5, <2>1 DEF Configured
    <2> QED
        BY <1>1, <1>5, <2>2, <2>3, FreeRequest, OneThread DEF Configured
<1>6. ASSUME NEW t \in Threads, Select(t) PROVE TokensInv'
    <2>1. PICK q : q = [req[t] EXCEPT !.at = "verify",
                           !.row = req[t].key \in Issued /\ tokens[req[t].key].active]
        OBVIOUS
    <2>2. q \in Request /\ RequestInv(q)
        BY <1>1, <1>6, <2>1 DEF Select, Request, RequestInv, Accepted, Refused
    <2> QED
        BY <1>6, <2>1, <2>2, OneThread DEF Select
<1>7. ASSUME NEW t \in Threads, VerifyFails(t) PROVE TokensInv'
    <2>1. PICK q : q = [req[t] EXCEPT !.at = "report"]
        OBVIOUS
    <2>2. q \in Request /\ RequestInv(q)
        BY <1>1, <1>7, <2>1 DEF VerifyFails, Request, RequestInv, Accepted
    <2> QED
        BY <1>7, <2>1, <2>2, OneThread DEF VerifyFails, Go
<1>8. ASSUME NEW t \in Threads, Verifies(t) \/ Checks(t) \/ Sets(t) PROVE TokensInv'
    <2>1. PICK a \in {"clock", "set", "grant", "stamp"} : req' = [req EXCEPT ![t].at = a]
        BY <1>8 DEF Verifies, Checks, Sets, Go
    <2>2. PICK q : q = [req[t] EXCEPT !.at = a]
        OBVIOUS
    <2>3. q \in Request /\ RequestInv(q)
        BY <1>1, <1>8, <2>2 DEF Verifies, Checks, Sets, Request, RequestInv, Accepted
    <2>4. req' = [req EXCEPT ![t] = q] /\ UNCHANGED <<tokens, clock>>
        BY <1>8, <2>1, <2>2 DEF Verifies, Checks, Sets
    <2> QED
        BY <2>3, <2>4, OneThread
<1>15. ASSUME NEW t \in Threads, ReadsClock(t) PROVE TokensInv'
    <2>1. PICK q : q = [req[t] EXCEPT !.at = "check", !.mono = clock]
        OBVIOUS
    <2>3. clock <= clock
        BY <1>1
    <2>2. q \in Request /\ RequestInv(q)
        BY <1>1, <1>15, <2>1, <2>3 DEF ReadsClock, Request, RequestInv, Accepted
    <2> QED
        BY <1>15, <2>1, <2>2, OneThread DEF ReadsClock
<1>16. ASSUME NEW t \in Threads, Stamps(t) PROVE TokensInv'
    <2>1. PICK q : q = [req[t] EXCEPT !.at = "touch", !.stamp = clock]
        OBVIOUS
    <2>3. clock <= clock
        BY <1>1
    <2>2. q \in Request /\ RequestInv(q)
        BY <1>1, <1>16, <2>1, <2>3 DEF Stamps, Request, RequestInv, Accepted
    <2> QED
        BY <1>16, <2>1, <2>2, OneThread DEF Stamps
<1>9. ASSUME NEW t \in Threads, Grant(t) PROVE TokensInv'
    <2>1. PICK q : q = [req[t] EXCEPT !.at = "served"]
        OBVIOUS
    <2>2. /\ q \in Request
          /\ Grants(tokens[req[t].key].scope, req[t].route) => RequestInv(q)
        BY <1>1, <1>9, <2>1 DEF Grant, Request, RequestInv, Accepted
    <2>3. \/ req' = [req EXCEPT ![t] = q] /\ Grants(tokens[req[t].key].scope, req[t].route)
          \/ req' = [req EXCEPT ![t] = Free]
        BY <1>9, <2>1 DEF Grant
    <2> QED
        BY <1>1, <1>9, <2>2, <2>3, FreeRequest, OneThread DEF Grant
<1>10. ASSUME NEW t \in Threads, Touch(t) PROVE TokensInv'
    <2>1. PICK q : q = [req[t] EXCEPT !.at = "grant", !.stamp = 0]
        OBVIOUS
    <2>10. 0 <= clock
        BY <1>1
    <2>2. q \in Request /\ RequestInv(q) /\ req[t].key \in Issued /\ req[t].stamp \in Nat
        BY <1>1, <1>10, <2>1, <2>10 DEF Touch, Request, RequestInv, Accepted
    <2>3a. PICK k \in Issued : k = req[t].key
        BY <2>2
    <2>3. PICK a : a = [tokens[k] EXCEPT !.lastUsed = req[t].stamp]
        OBVIOUS
    <2>4. /\ a \in Token /\ a.active = tokens[k].active /\ a.scope = tokens[k].scope
          /\ a.expires = tokens[k].expires
        BY <1>1, <2>2, <2>3, <2>3a DEF Token
    <2>5. /\ tokens' = [tokens EXCEPT ![k] = a] /\ UNCHANGED clock
          /\ req' = [req EXCEPT ![t] = q]
        BY <1>10, <2>1, <2>3, <2>3a DEF Touch
    <2>6. /\ Issued' = Issued /\ tokens' \in Seq(Token)
          /\ \A j \in Issued : /\ tokens'[j].active = tokens[j].active
                               /\ tokens'[j].scope = tokens[j].scope
                               /\ tokens'[j].expires = tokens[j].expires
        BY <1>1, <2>4, <2>5 DEF Issued
    <2>7. TokensTyped'
        BY <1>1, <2>2, <2>5, <2>6 DEF TokensTyped
    <2>8. \A j \in Issued : (Refused(j) => Refused(j)') /\ (IsExpired(j) => IsExpired(j)')
        BY <2>5, <2>6 DEF Refused, IsExpired
    <2>9. ASSUME NEW s \in Threads PROVE RequestInv(req[s])'
        <3>1. PICK r : r = req'[s]
            OBVIOUS
        <3>2. RequestInv(r)
            BY <1>1, <2>2, <2>5, <3>1
        <3>3. RequestInv(r)'
            BY <1>1, <2>2, <2>5, <2>6, <2>8, <3>1, <3>2, RequestStays
        <3> QED
            BY <3>1, <3>3
    <2> QED
        BY <2>7, <2>9 DEF TokensInv
<1>11. ASSUME NEW t \in Threads, Report(t) \/ TouchFails(t) \/ Served(t) PROVE TokensInv'
    BY <1>1, <1>11, FreeRequest, OneThread DEF Report, TouchFails, Served
<1>12. CASE Passes
    <2>1. clock' = clock + 1 /\ UNCHANGED <<tokens, req>>
        BY <1>12 DEF Passes
    <2>2. \A k \in Issued : IsExpired(k) => IsExpired(k)'
        BY <1>1, <2>1 DEF IsExpired, Token
    <2> QED
        BY <1>1, <2>1, <2>2, AllThreads DEF TokensTyped, Refused, Issued
<1>13. CASE Reboot
    <2>1. \A t \in Threads : req'[t] = Free
        BY <1>13 DEF Reboot
    <2>2. TokensTyped'
        BY <1>1, <1>13, FreeRequest DEF Reboot, TokensTyped
    <2>4. 0 <= clock /\ clock' = clock
        BY <1>1, <1>13 DEF Reboot
    <2>3. RequestInv(Free)'
        BY <2>4 DEF Free, RequestInv, Accepted, NoToken
    <2> QED
        BY <2>1, <2>2, <2>3 DEF TokensInv
<1>14. CASE UNCHANGED tokenVars
    BY <1>14 DEF tokenVars, TokensInv, TokensTyped, RequestInv, Refused, IsExpired, Issued
<1> QED
    BY <1>2, <1>3, <1>4, <1>5, <1>6, <1>7, <1>8, <1>9, <1>10, <1>11, <1>12, <1>13, <1>14, <1>15,
       <1>16
    DEF TokensNext

\* The invariant holds in every reachable state.
THEOREM TokensAlways == TokensSpec => []TokensInv
BY TokensInitInv, TokensNextInv, PTL DEF TokensSpec

\* Who is served presented a token that was good when the request came, with the
\* scope of the route (api_tokens.py:216-239).
THEOREM RefusedAlways == TokensSpec => []RevokedRefused
<1>1. TokensInv => RevokedRefused
    BY DEF TokensInv, RequestInv, Accepted, RevokedRefused
<1> QED
    BY <1>1, TokensAlways, PTL
-----------------------------------------------------------------------------
(* The time of the last use.                                               *)

\* A use of token k at time s is on record, or excused.
Covered(k, s) ==
    s < Interval \/ lost[k] \/ Writing(k) \/ tokens[k].lastUsed > s - Interval

\* The table is not behind what the throttle remembers of k, or will not be.
Remembered(k) ==
    touched[k] = 0 \/ lost[k] \/ Writing(k) \/ touched[k] <= tokens[k].lastUsed

\* A request that looked at the clock looked at it lately.  While one is past the
\* throttle, the throttle remembers a time too late to let another one pass, and what
\* is about to be written is later than every use it may have to stand for.
Punctual(r) ==
    /\ r.at \in {"check", "set", "stamp", "touch"} => clock - r.mono <= Patience
    /\ r.at \in {"stamp", "touch"} => r.mono - Patience <= touched[r.key]
    /\ r.at = "touch" => /\ r.mono <= r.stamp /\ touched[r.key] <= r.stamp
                         /\ used[r.key] < r.stamp + Interval
    /\ r.at = "grant" => Covered(r.key, r.mono)

\* Of two requests with the same key, the time s is about to write stands for r, which
\* has passed the throttle before it was set, or needs no write.
StandsFor(s, r) ==
    s.at = "touch" /\ r.key = s.key =>
        /\ r.at = "set" => r.mono <= s.stamp
        /\ r.at = "grant" => r.mono < s.stamp + Interval

UseInv ==
    /\ touched \in [Keys -> Nat] /\ used \in [Keys -> Nat] /\ lost \in [Keys -> BOOLEAN]
    /\ Len(tokens) <= MaxTokens
    /\ \A k \in Keys \ Issued : touched[k] = 0 /\ used[k] = 0
    /\ \A k \in Issued : /\ touched[k] <= clock /\ used[k] <= clock
                         /\ Covered(k, used[k]) /\ Remembered(k)
    /\ \A t \in Threads : Punctual(req[t])
    /\ \A t, x \in Threads : StandsFor(req[t], req[x])

\* The types that the steps below need.
LEMMA UseTypes ==
    ASSUME TokensInv, UseInv
    PROVE  /\ tokens \in Seq(Token) /\ clock \in Nat /\ req \in [Threads -> Request]
           /\ Issued = 1..Len(tokens) /\ Issued \subseteq Keys /\ NoToken \notin Issued
           /\ \A k \in Issued : tokens[k] \in Token /\ tokens[k].lastUsed \in Nat
           /\ \A t \in Threads : /\ req[t] \in Request /\ req[t].mono \in Nat
                                 /\ req[t].stamp \in Nat
                                 /\ req[t].mono <= clock /\ req[t].stamp <= clock
                                 /\ req[t].key \in Issued \cup {NoToken}
                                 /\ Accepted(req[t]) => req[t].key \in Issued
           /\ touched \in [Keys -> Nat] /\ used \in [Keys -> Nat]
           /\ Interval \in Nat /\ Patience \in Nat /\ 2 * Patience < Interval
<1>1. /\ tokens \in Seq(Token) /\ clock \in Nat /\ req \in [Threads -> Request]
      /\ \A t \in Threads : RequestInv(req[t])
    BY DEF TokensInv, TokensTyped
<1>2. Issued = 1..Len(tokens) /\ Issued \subseteq Keys /\ NoToken \notin Issued
    BY <1>1, TokensAssumption DEF Issued, Keys, NoToken, UseInv
<1>3. \A k \in Issued : tokens[k] \in Token /\ tokens[k].lastUsed \in Nat
    <2>1. \A k \in Issued : tokens[k] \in Token
        BY <1>1, <1>2
    <2> QED
        BY <2>1 DEF Token
<1>4. ASSUME NEW t \in Threads
      PROVE  /\ req[t] \in Request /\ req[t].mono \in Nat /\ req[t].stamp \in Nat
             /\ req[t].mono <= clock /\ req[t].stamp <= clock
             /\ req[t].key \in Issued \cup {NoToken}
             /\ Accepted(req[t]) => req[t].key \in Issued
    BY <1>1 DEF Request, RequestInv
<1> QED
    BY <1>1, <1>2, <1>3, <1>4, TokensAssumption DEF UseInv

\* A thread that is not past the throttle, before the step or after it.
LEMMA Quiet ==
    ASSUME TokensInv, UseInv, NEW t \in Threads, NEW q \in Request,
           req' = [req EXCEPT ![t] = q], req[t].at \notin {"set", "stamp", "touch"},
           q.at \notin {"set", "stamp", "touch", "grant"},
           q.at = "check" => q.mono = clock,
           UNCHANGED <<tokens, clock, touched, used, lost>>
    PROVE  UseInv'
<1>1. req \in [Threads -> Request] /\ clock - clock <= Patience
    BY UseTypes
<1>2. \A k : Writing(k)' <=> Writing(k)
    BY <1>1 DEF Writing
<1>3. \A s \in Threads : Punctual(req'[s])
    <2>1. Punctual(q)
        BY <1>1 DEF Punctual
    <2> QED
        BY <1>1, <2>1 DEF UseInv
<1>4. \A s, x \in Threads : StandsFor(req'[s], req'[x])
    BY <1>1 DEF UseInv, StandsFor
<1> QED
    BY <1>1, <1>2, <1>3, <1>4 DEF UseInv, Punctual, StandsFor, Covered, Remembered, Issued

\* The table, in which only a token is added or switched off.
LEMMA TableOnly ==
    ASSUME TokensInv, UseInv, UNCHANGED <<clock, req, touched, used, lost>>,
           tokens' \in Seq(Token), Len(tokens') <= MaxTokens,
           Len(tokens) <= Len(tokens'),
           \A k \in Issued : tokens'[k].lastUsed = tokens[k].lastUsed
    PROVE  UseInv'
<1>1. /\ Issued \subseteq Issued' /\ Issued' \subseteq Keys /\ NoToken \notin Issued
      /\ Interval \in Nat /\ Interval > 0 /\ clock \in Nat
    <2>1. Issued = 1..Len(tokens) /\ Issued' = 1..Len(tokens')
        BY UseTypes DEF Issued
    <2>2. Len(tokens) \in Nat /\ Len(tokens') \in Nat /\ MaxTokens \in Nat
        BY UseTypes, TokensAssumption
    <2>3. Issued \subseteq Issued' /\ Issued' \subseteq Keys
        BY <2>1, <2>2 DEF Keys
    <2> QED
        BY <2>3, UseTypes
<1>2. \A k : Writing(k)' <=> Writing(k)
    BY DEF Writing
<1>3. \A k \in Issued : \A s : Covered(k, s)' <=> Covered(k, s)
    BY <1>2 DEF Covered
<1>4. ASSUME NEW k \in Issued'
      PROVE  /\ touched[k] <= clock /\ used[k] <= clock
             /\ Covered(k, used[k])' /\ Remembered(k)'
    <2>1. CASE k \in Issued
        BY <1>2, <1>3, <2>1 DEF UseInv, Remembered
    <2>2. CASE k \notin Issued
        BY <1>1, <2>2 DEF UseInv, Covered, Remembered
    <2> QED
        BY <2>1, <2>2
<1>5. ASSUME NEW t \in Threads PROVE Punctual(req[t])'
    <2>1. req[t].at = "grant" => req[t].key \in Issued
        BY UseTypes DEF Accepted
    <2> QED
        BY <1>3, <2>1 DEF UseInv, Punctual
<1> QED
    BY <1>1, <1>4, <1>5 DEF UseInv, StandsFor

\* One thread past the throttle moves on: what remains of UseInv once the requests and
\* the tokens are as they should be.
LEMMA MovesOn ==
    ASSUME UseInv, Issued' = Issued, Len(tokens') = Len(tokens), clock' = clock,
           touched' \in [Keys -> Nat], used' \in [Keys -> Nat], lost' \in [Keys -> BOOLEAN],
           \A k \in Keys \ Issued : touched'[k] = 0 /\ used'[k] = 0,
           \A k \in Issued : /\ touched'[k] <= clock /\ used'[k] <= clock
                             /\ Covered(k, used[k])' /\ Remembered(k)',
           \A t \in Threads : Punctual(req[t])',
           \A t, x \in Threads : StandsFor(req[t], req[x])'
    PROVE  UseInv'
BY DEF UseInv

\* While one request is past the throttle, no other one with its key passes.
LEMMA Throttled ==
    ASSUME TokensInv, UseInv, NEW t \in Threads, req[t].at = "check", Due(t),
           NEW s \in Threads, req[s].at \in {"stamp", "touch"}, req[s].key = req[t].key
    PROVE  FALSE
<1>1. /\ req[t].mono \in Nat /\ req[s].mono \in Nat /\ req[t].mono <= clock /\ clock \in Nat
      /\ Interval \in Nat /\ Patience \in Nat /\ 2 * Patience < Interval
      /\ touched[req[t].key] \in Nat
    <2>1. req[t].key \in Keys
        BY UseTypes DEF Accepted
    <2> QED
        BY <2>1, UseTypes
<1>2. clock - req[s].mono <= Patience /\ req[s].mono - Patience <= touched[req[t].key]
    BY DEF UseInv, Punctual
<1>3. req[t].mono - touched[req[t].key] >= Interval
    BY DEF Due
<1> QED
    BY <1>1, <1>2, <1>3

\* Every step keeps what the throttle remembers true to the table.
THEOREM UseNextInv == TokensInv /\ UseInv /\ [TokensNext]_tokenVars => UseInv'
<1> SUFFICES ASSUME TokensInv, UseInv, [TokensNext]_tokenVars PROVE UseInv'
    OBVIOUS
<1>1. /\ tokens \in Seq(Token) /\ clock \in Nat /\ req \in [Threads -> Request]
      /\ Issued = 1..Len(tokens) /\ Issued \subseteq Keys /\ NoToken \notin Issued
      /\ \A k \in Issued : tokens[k] \in Token /\ tokens[k].lastUsed \in Nat
      /\ \A t \in Threads : /\ req[t] \in Request /\ req[t].mono \in Nat /\ req[t].stamp \in Nat
                            /\ req[t].mono <= clock /\ req[t].stamp <= clock
                            /\ req[t].key \in Issued \cup {NoToken}
                            /\ Accepted(req[t]) => req[t].key \in Issued
      /\ touched \in [Keys -> Nat] /\ used \in [Keys -> Nat]
      /\ Interval \in Nat /\ Patience \in Nat /\ 2 * Patience < Interval
    BY UseTypes
<1>20. \A k \in Issued : touched[k] \in Nat /\ used[k] \in Nat
    BY <1>1
<1>2. ASSUME NEW s \in Scopes, NEW life \in Lifetimes, CreateToken(s, life)
      PROVE  UseInv'
    <2>1. PICK new : new = [active |-> TRUE, scope |-> s, expires |-> clock + life,
                            lastUsed |-> 0]
        OBVIOUS
    <2>2. /\ new \in Token /\ tokens' = Append(tokens, new) /\ Len(tokens) < MaxTokens
          /\ UNCHANGED <<clock, req, touched, used, lost>>
        BY <1>1, <1>2, <2>1, TokensAssumption DEF CreateToken, Token
    <2>3. /\ tokens' \in Seq(Token) /\ Len(tokens') = Len(tokens) + 1
          /\ \A k \in Issued : tokens'[k] = tokens[k]
        BY <1>1, <2>2
    <2>4. Len(tokens') <= MaxTokens
        BY <1>1, <2>2, <2>3, TokensAssumption
    <2> QED
        BY <1>1, <2>2, <2>3, <2>4, TableOnly
<1>3. ASSUME NEW k \in Issued, Deactivate(k) PROVE UseInv'
    <2>1. PICK new : new = [tokens[k] EXCEPT !.active = FALSE]
        OBVIOUS
    <2>2. new \in Token /\ new.lastUsed = tokens[k].lastUsed
        BY <1>1, <2>1 DEF Token
    <2>3. /\ tokens' = [tokens EXCEPT ![k] = new]
          /\ UNCHANGED <<clock, req, touched, used, lost>>
        BY <1>3, <2>1 DEF Deactivate
    <2>4. /\ tokens' \in Seq(Token) /\ Len(tokens') = Len(tokens)
          /\ \A j \in Issued : tokens'[j].lastUsed = tokens[j].lastUsed
        BY <1>1, <2>2, <2>3
    <2> QED
        BY <2>3, <2>4, TableOnly DEF UseInv
<1>4. ASSUME NEW t \in Threads, NEW k \in Issued \cup {NoToken},
             NEW route \in {"inventory", "switchmap"}, Ask(t, k, route)
      PROVE  UseInv'
    <2>1. PICK good \in BOOLEAN : good = (k \in Issued /\ Usable(k))
        OBVIOUS
    <2>2. PICK q : q = [Free EXCEPT !.at = "configured", !.key = k, !.route = route,
                                    !.entitled = good]
        OBVIOUS
    <2>3. k \in Nat /\ Free \in Request
        BY <1>1, FreeRequest DEF NoToken
    <2>4. q \in Request /\ q.at = "configured"
        BY <2>1, <2>2, <2>3 DEF Request
    <2>5. /\ req' = [req EXCEPT ![t] = q] /\ req[t].at = "free"
          /\ UNCHANGED <<tokens, clock, touched, used, lost>>
        BY <1>4, <2>1, <2>2, Zenon DEF Ask
    <2> QED
        BY <2>4, <2>5, Quiet
<1>5. ASSUME NEW t \in Threads,
             \/ Configured(t) \/ Select(t) \/ VerifyFails(t) \/ Report(t) \/ Served(t)
             \/ Verifies(t) \/ ReadsClock(t)
      PROVE  UseInv'
    <2>1. Free \in Request /\ Free.at = "free"
        BY FreeRequest DEF Free
    <2>2. CASE Configured(t)
        <3>1. PICK q : q = [req[t] EXCEPT !.at = "select"]
            OBVIOUS
        <3>2. q \in Request /\ q.at = "select"
            BY <1>1, <3>1 DEF Request
        <3>3. PICK r \in {q, Free} : req' = [req EXCEPT ![t] = r]
            BY <2>2, <3>1 DEF Configured
        <3> QED
            BY <2>1, <2>2, <3>2, <3>3, Quiet DEF Configured
    <2>3. CASE Select(t)
        <3>1. PICK q : q = [req[t] EXCEPT !.at = "verify",
                               !.row = req[t].key \in Issued /\ tokens[req[t].key].active]
            OBVIOUS
        <3>2. q \in Request /\ q.at = "verify"
            BY <1>1, <3>1 DEF Request
        <3> QED
            BY <2>3, <3>1, <3>2, Quiet DEF Select
    <2>4. CASE VerifyFails(t) \/ Verifies(t)
        <3>0. PICK a \in {"report", "clock"} : req' = [req EXCEPT ![t].at = a]
            BY <2>4 DEF VerifyFails, Verifies, Go
        <3>1. PICK q : q = [req[t] EXCEPT !.at = a]
            OBVIOUS
        <3>2. q \in Request /\ q.at = a
            BY <1>1, <3>1 DEF Request
        <3>3. /\ req' = [req EXCEPT ![t] = q] /\ req[t].at = "verify"
              /\ UNCHANGED <<tokens, clock, touched, used, lost>>
            BY <2>4, <3>0, <3>1 DEF VerifyFails, Verifies
        <3> QED
            BY <3>2, <3>3, Quiet
    <2>6. CASE ReadsClock(t)
        <3>1. PICK q : q = [req[t] EXCEPT !.at = "check", !.mono = clock]
            OBVIOUS
        <3>2. q \in Request /\ q.at = "check" /\ q.mono = clock
            BY <1>1, <3>1 DEF Request
        <3> QED
            BY <2>6, <3>1, <3>2, Quiet DEF ReadsClock
    <2>5. CASE Report(t) \/ Served(t)
        BY <2>1, <2>5, Quiet DEF Report, Served
    <2> QED
        BY <1>5, <2>2, <2>3, <2>4, <2>5, <2>6
<1>6. ASSUME NEW t \in Threads, Checks(t) PROVE UseInv'
    <2>1. PICK k \in Issued : k = req[t].key
        BY <1>1, <1>6 DEF Checks, Accepted
    <2>2. PICK a : a = IF Due(t) THEN "set" ELSE "grant"
        OBVIOUS
    <2>3. PICK q : q = [req[t] EXCEPT !.at = a]
        OBVIOUS
    <2>4. /\ req' = [req EXCEPT ![t] = q] /\ q.key = k /\ q.mono = req[t].mono /\ q.at = a
          /\ req[t].at = "check" /\ UNCHANGED <<tokens, clock, touched, used, lost>>
        BY <1>1, <1>6, <2>1, <2>2, <2>3 DEF Checks, Go, Request
    <2>5. req'[t] = q /\ \A s \in Threads \ {t} : req'[s] = req[s]
        BY <1>1, <2>4
    <2>6. \A j : Writing(j) => Writing(j)'
        BY <2>4, <2>5 DEF Writing
    <2>7. \A j : \A s : Covered(j, s) => Covered(j, s)'
        BY <2>4, <2>6 DEF Covered
    <2>8. clock - q.mono <= Patience
        BY <2>4 DEF UseInv, Punctual
    <2>9. ASSUME NEW j \in Issued
          PROVE  /\ touched'[j] <= clock /\ used'[j] <= clock
                 /\ Covered(j, used[j])' /\ Remembered(j)'
        BY <2>4, <2>6, <2>7 DEF UseInv, Remembered
    <2>10. ASSUME ~Due(t) PROVE Covered(k, q.mono)
        <3>1. /\ touched[k] \in Nat /\ q.mono \in Nat /\ tokens[k].lastUsed \in Nat
              /\ q.mono - touched[k] < Interval /\ Remembered(k)
            BY <1>1, <1>20, <2>1, <2>4, <2>10 DEF Due, UseInv
        <3> QED
            BY <1>1, <3>1 DEF Covered, Remembered
    <2>11. ASSUME NEW s \in Threads PROVE Punctual(req[s])'
        <3>1. CASE s = t
            <4>1. q.at = "set" \/ (q.at = "grant" /\ ~Due(t))
                BY <2>2, <2>4
            <4>2. q.at = "grant" => Covered(q.key, q.mono)'
                BY <2>4, <2>7, <2>10, <4>1
            <4> QED
                BY <2>4, <2>5, <2>8, <3>1, <4>1, <4>2 DEF Punctual
        <3>2. CASE s # t
            <4>1. req'[s] = req[s] /\ Punctual(req[s])
                BY <2>5, <3>2 DEF UseInv
            <4> QED
                BY <2>4, <2>7, <4>1 DEF Punctual
        <3> QED
            BY <3>1, <3>2
    <2>12. ASSUME NEW s \in Threads, NEW x \in Threads PROVE StandsFor(req[s], req[x])'
        <3>1. CASE x = t /\ s # t
            <4>1. req'[s] = req[s] /\ req'[x] = q /\ Punctual(req[s])
                BY <2>5, <3>1 DEF UseInv
            <4>2. SUFFICES ASSUME req[s].at = "touch", q.key = req[s].key
                           PROVE  q.at = "grant" /\ q.mono < req[s].stamp + Interval
                BY <4>1 DEF StandsFor
            <4>3. ~Due(t)
                BY <2>1, <2>4, <4>2, Throttled
            <4>4. q.mono - touched[k] < Interval /\ touched[k] <= req[s].stamp
                BY <1>1, <1>20, <2>1, <2>4, <4>1, <4>2, <4>3 DEF Due, Punctual
            <4>5. q.mono \in Nat /\ touched[k] \in Nat /\ req[s].stamp \in Nat
                BY <1>1, <1>20, <2>4
            <4> QED
                BY <1>1, <2>2, <2>4, <4>3, <4>4, <4>5
        <3>2. CASE s = t
            BY <2>2, <2>4, <2>5, <3>2 DEF StandsFor
        <3>3. CASE x # t /\ s # t
            BY <2>5, <3>3 DEF UseInv, StandsFor
        <3> QED
            BY <3>1, <3>2, <3>3
    <2> QED
        BY <2>4, <2>9, <2>11, <2>12, MovesOn DEF UseInv, Issued
<1>7. ASSUME NEW t \in Threads, Sets(t) PROVE UseInv'
    <2>1. PICK k \in Issued : k = req[t].key
        BY <1>1, <1>7 DEF Sets, Accepted
    <2>2. PICK q : q = [req[t] EXCEPT !.at = "stamp"]
        OBVIOUS
    <2>3. PICK m \in Nat : m = req[t].mono
        BY <1>1
    <2>4. /\ req' = [req EXCEPT ![t] = q] /\ q.key = k /\ q.mono = m /\ q.at = "stamp"
          /\ req[t].at = "set" /\ touched' = [touched EXCEPT ![k] = m]
          /\ UNCHANGED <<tokens, clock, used, lost>>
        BY <1>1, <1>7, <2>1, <2>2, <2>3 DEF Sets, Go, Request
    <2>5. /\ req'[t] = q /\ \A s \in Threads \ {t} : req'[s] = req[s]
          /\ touched'[k] = m /\ \A j \in Keys \ {k} : touched'[j] = touched[j]
          /\ touched' \in [Keys -> Nat]
        BY <1>1, <2>1, <2>3, <2>4
    <2>6. (\A j : Writing(j) => Writing(j)') /\ Writing(k)'
        BY <2>1, <2>4, <2>5 DEF Writing
    <2>7. \A j : \A s : Covered(j, s) => Covered(j, s)'
        BY <2>4, <2>6 DEF Covered
    <2>8. clock - m <= Patience /\ m <= clock
        BY <1>1, <2>3, <2>4 DEF UseInv, Punctual
    <2>9. ASSUME NEW j \in Issued
          PROVE  /\ touched'[j] <= clock /\ used'[j] <= clock
                 /\ Covered(j, used[j])' /\ Remembered(j)'
        <3>1. Remembered(j)'
            BY <1>1, <2>4, <2>5, <2>6 DEF UseInv, Remembered
        <3> QED
            BY <1>1, <2>4, <2>5, <2>7, <2>8, <3>1 DEF UseInv
    <2>10. \A j \in Keys \ Issued : touched'[j] = 0
        BY <1>1, <2>5 DEF UseInv
    <2>11. ASSUME NEW s \in Threads PROVE Punctual(req[s])'
        <3>1. CASE s = t
            <4>1. m - Patience <= m
                BY <1>1
            <4> QED
                BY <2>4, <2>5, <2>8, <3>1, <4>1 DEF Punctual
        <3>2. CASE s # t
            <4>1. req'[s] = req[s] /\ Punctual(req[s]) /\ StandsFor(req[s], req[t])
                BY <2>5, <3>2 DEF UseInv
            <4>2. ASSUME req[s].at \in {"stamp", "touch"}
                  PROVE  req[s].mono - Patience <= touched'[req[s].key]
                <5>1. req[s].mono \in Nat /\ req[s].mono <= clock
                    BY <1>1
                <5>2. req[s].mono - Patience <= m
                    BY <1>1, <2>8, <5>1
                <5>3. req[s].key \in Keys
                    BY <1>1, <4>2 DEF Accepted
                <5> QED
                    BY <2>5, <4>1, <4>2, <5>2, <5>3 DEF Punctual
            <4>3. ASSUME req[s].at = "touch" PROVE touched'[req[s].key] <= req[s].stamp
                <5>1. req[s].key \in Keys
                    BY <1>1, <4>3 DEF Accepted
                <5> QED
                    BY <2>1, <2>3, <2>4, <2>5, <4>1, <4>3, <5>1 DEF Punctual, StandsFor
            <4> QED
                BY <2>4, <2>7, <4>1, <4>2, <4>3 DEF Punctual
        <3> QED
            BY <3>1, <3>2
    <2>12. ASSUME NEW s \in Threads, NEW x \in Threads PROVE StandsFor(req[s], req[x])'
        BY <2>4, <2>5 DEF UseInv, StandsFor
    <2> QED
        BY <1>1, <2>4, <2>5, <2>9, <2>10, <2>11, <2>12, MovesOn DEF UseInv, Issued
<1>8. ASSUME NEW t \in Threads, Stamps(t) PROVE UseInv'
    <2>1. PICK k \in Issued : k = req[t].key
        BY <1>1, <1>8 DEF Stamps, Accepted
    <2>2. PICK q : q = [req[t] EXCEPT !.at = "touch", !.stamp = clock]
        OBVIOUS
    <2>3. /\ req' = [req EXCEPT ![t] = q] /\ q.key = k /\ q.mono = req[t].mono
          /\ q.at = "touch" /\ q.stamp = clock /\ req[t].at = "stamp"
          /\ UNCHANGED <<tokens, clock, touched, used, lost>>
        BY <1>1, <1>8, <2>1, <2>2 DEF Stamps, Request
    <2>4. req'[t] = q /\ \A s \in Threads \ {t} : req'[s] = req[s]
        BY <1>1, <2>3
    <2>5. \A j : Writing(j) => Writing(j)'
        BY <2>1, <2>3, <2>4 DEF Writing
    <2>6. \A j : \A s : Covered(j, s) => Covered(j, s)'
        BY <2>3, <2>5 DEF Covered
    <2>7. clock < clock + Interval /\ \A m \in Nat : m <= clock => m < clock + Interval
        BY <1>1
    <2>8. ASSUME NEW j \in Issued
          PROVE  /\ touched'[j] <= clock /\ used'[j] <= clock
                 /\ Covered(j, used[j])' /\ Remembered(j)'
        BY <2>3, <2>5, <2>6 DEF UseInv, Remembered
    <2>9. ASSUME NEW s \in Threads PROVE Punctual(req[s])'
        <3>1. CASE s = t
            <4>1. /\ clock - q.mono <= Patience /\ q.mono - Patience <= touched[k]
                  /\ q.mono <= clock
                BY <1>1, <2>1, <2>3 DEF UseInv, Punctual
            <4>2. touched[k] <= clock /\ used[k] < clock + Interval
                BY <1>1, <1>20, <2>7 DEF UseInv
            <4> QED
                BY <2>3, <2>4, <3>1, <4>1, <4>2 DEF Punctual
        <3>2. CASE s # t
            <4>1. req'[s] = req[s] /\ Punctual(req[s])
                BY <2>4, <3>2 DEF UseInv
            <4> QED
                BY <2>3, <2>6, <4>1 DEF Punctual
        <3> QED
            BY <3>1, <3>2
    <2>10. ASSUME NEW s \in Threads, NEW x \in Threads PROVE StandsFor(req[s], req[x])'
        <3>1. CASE x = t
            BY <2>3, <2>4, <3>1 DEF StandsFor
        <3>2. CASE s = t /\ x # t
            BY <1>1, <2>3, <2>4, <2>7, <3>2 DEF StandsFor
        <3>3. CASE x # t /\ s # t
            BY <2>4, <3>3 DEF UseInv, StandsFor
        <3> QED
            BY <3>1, <3>2, <3>3
    <2> QED
        BY <2>3, <2>8, <2>9, <2>10, MovesOn DEF UseInv, Issued
<1>13. ASSUME NEW t \in Threads, Touch(t) PROVE UseInv'
    <2>1. PICK k \in Issued : k = req[t].key
        BY <1>1, <1>13 DEF Touch, Accepted
    <2>2. PICK q : q = [req[t] EXCEPT !.at = "grant", !.stamp = 0]
        OBVIOUS
    <2>3. PICK w \in Nat : w = req[t].stamp
        BY <1>1
    <2>4. PICK new : new = [tokens[k] EXCEPT !.lastUsed = w]
        OBVIOUS
    <2>5. /\ req' = [req EXCEPT ![t] = q] /\ tokens' = [tokens EXCEPT ![k] = new]
          /\ lost' = [lost EXCEPT ![k] = FALSE] /\ req[t].at = "touch"
          /\ UNCHANGED <<clock, touched, used>>
        BY <1>13, <2>1, <2>2, <2>3, <2>4 DEF Touch
    <2>6. /\ q.key = k /\ q.mono = req[t].mono /\ q.at = "grant" /\ new.lastUsed = w
        BY <1>1, <2>1, <2>2, <2>4 DEF Request, Token
    <2>7. /\ q.mono <= w /\ touched[k] <= w /\ used[k] < w + Interval
          /\ clock - q.mono <= Patience
        BY <2>1, <2>3, <2>5, <2>6 DEF UseInv, Punctual
    <2>8. /\ tokens'[k].lastUsed = w /\ \A j \in Issued \ {k} : tokens'[j] = tokens[j]
          /\ Len(tokens') = Len(tokens) /\ Issued' = Issued
        BY <1>1, <2>5, <2>6 DEF Issued
    <2>9. \A s \in Nat : s < w + Interval => Covered(k, s)'
        <3>1. \A s \in Nat : s < w + Interval => w > s - Interval
            BY <1>1
        <3> QED
            BY <2>8, <3>1 DEF Covered
    <2>10. req'[t] = q /\ \A s \in Threads \ {t} : req'[s] = req[s]
        BY <1>1, <2>5
    <2>11. \A j \in Issued \ {k} : (Writing(j) => Writing(j)') /\ lost'[j] = lost[j]
        <3>1. \A s \in Threads : req[s].key # k => s # t
            BY <2>1
        <3> QED
            BY <1>1, <2>5, <2>10, <3>1 DEF Writing, UseInv
    <2>12. \A j \in Issued \ {k} : \A s : Covered(j, s) => Covered(j, s)'
        BY <2>8, <2>11 DEF Covered
    <2>13. ASSUME NEW j \in Issued
           PROVE  /\ touched'[j] <= clock /\ used'[j] <= clock
                  /\ Covered(j, used[j])' /\ Remembered(j)'
        <3>1. CASE j = k
            BY <1>20, <2>5, <2>7, <2>8, <2>9, <3>1 DEF UseInv, Remembered
        <3>2. CASE j # k
            BY <2>5, <2>8, <2>11, <2>12, <3>2 DEF UseInv, Remembered
        <3> QED
            BY <3>1, <3>2
    <2>14. ASSUME NEW s \in Threads PROVE Punctual(req[s])'
        <3>1. CASE s = t
            <4>1. q.mono \in Nat /\ q.mono < w + Interval
                BY <1>1, <2>6, <2>7
            <4>2. Covered(q.key, q.mono)'
                BY <2>6, <2>9, <4>1
            <4> QED
                BY <2>6, <2>10, <3>1, <4>2 DEF Punctual
        <3>2. CASE s # t
            <4>1. req'[s] = req[s] /\ Punctual(req[s]) /\ req[s].mono \in Nat
                BY <1>1, <2>10, <3>2 DEF UseInv
            <4>2. ASSUME req[s].at = "grant" PROVE Covered(req[s].key, req[s].mono)'
                <5>1. CASE req[s].key = k
                    <6>1. StandsFor(req[t], req[s])
                        BY DEF UseInv
                    <6>2. req[s].mono < w + Interval
                        BY <2>1, <2>3, <2>5, <4>2, <5>1, <6>1 DEF StandsFor
                    <6> QED
                        BY <2>9, <4>1, <5>1, <6>2
                <5>2. CASE req[s].key # k
                    <6>1. req[s].key \in Issued \ {k}
                        BY <1>1, <4>2, <5>2 DEF Accepted
                    <6> QED
                        BY <2>12, <4>1, <4>2, <6>1 DEF Punctual
                <5> QED
                    BY <5>1, <5>2
            <4> QED
                BY <2>5, <4>1, <4>2 DEF Punctual
        <3> QED
            BY <3>1, <3>2
    <2>15. ASSUME NEW s \in Threads, NEW x \in Threads PROVE StandsFor(req[s], req[x])'
        <3>1. CASE x = t /\ s # t
            <4>1. req'[s] = req[s] /\ req'[x] = q /\ Punctual(req[s])
                BY <2>10, <3>1 DEF UseInv
            <4>2. SUFFICES ASSUME req[s].at = "touch" PROVE q.mono < req[s].stamp + Interval
                BY <2>6, <4>1 DEF StandsFor
            <4>3. clock - req[s].mono <= Patience /\ req[s].mono <= req[s].stamp
                BY <4>1, <4>2 DEF Punctual
            <4>4. /\ q.mono \in Nat /\ q.mono <= clock
                  /\ req[s].mono \in Nat /\ req[s].stamp \in Nat
                BY <1>1, <2>6
            <4> QED
                BY <1>1, <4>3, <4>4
        <3>2. CASE s = t
            BY <2>6, <2>10, <3>2 DEF StandsFor
        <3>3. CASE x # t /\ s # t
            BY <2>10, <3>3 DEF UseInv, StandsFor
        <3> QED
            BY <3>1, <3>2, <3>3
    <2>16. lost' \in [Keys -> BOOLEAN]
        BY <2>5 DEF UseInv
    <2> QED
        BY <1>1, <2>5, <2>8, <2>13, <2>14, <2>15, <2>16, MovesOn DEF UseInv
<1>14. ASSUME NEW t \in Threads, TouchFails(t) PROVE UseInv'
    <2>1. PICK k \in Issued : k = req[t].key
        BY <1>1, <1>14 DEF TouchFails, Accepted
    <2>2. /\ req' = [req EXCEPT ![t] = Free] /\ lost' = [lost EXCEPT ![k] = TRUE]
          /\ UNCHANGED <<tokens, clock, touched, used>> /\ Issued' = Issued
        BY <1>14, <2>1 DEF TouchFails, Issued
    <2>3. lost' \in [Keys -> BOOLEAN] /\ lost'[k] /\ \A j \in Keys \ {k} : lost'[j] = lost[j]
        BY <1>1, <2>2 DEF UseInv
    <2>4. \A j \in Issued \ {k} : Writing(j) => Writing(j)'
        BY <1>1, <2>1, <2>2 DEF Writing
    <2>5. \A j \in Issued : \A s : Covered(j, s) => Covered(j, s)'
        BY <1>1, <2>2, <2>3, <2>4 DEF Covered
    <2>6. \A j \in Issued : Remembered(j)'
        BY <1>1, <2>2, <2>3, <2>4 DEF Remembered, UseInv
    <2>7. ASSUME NEW s \in Threads PROVE Punctual(req[s])'
        <3>1. CASE s = t
            BY <1>1, <2>2, <3>1 DEF Punctual, Free
        <3>2. CASE s # t
            <4>1. req'[s] = req[s] /\ Punctual(req[s])
                BY <1>1, <2>2, <3>2 DEF UseInv
            <4>2. req[s].at = "grant" => req[s].key \in Issued
                BY <1>1 DEF Accepted
            <4> QED
                BY <2>2, <2>5, <4>1, <4>2 DEF Punctual
        <3> QED
            BY <3>1, <3>2
    <2>8. ASSUME NEW s \in Threads, NEW x \in Threads PROVE StandsFor(req[s], req[x])'
        BY <1>1, <2>2 DEF UseInv, StandsFor, Free
    <2> QED
        BY <2>2, <2>3, <2>5, <2>6, <2>7, <2>8, MovesOn DEF UseInv
<1>9. ASSUME NEW t \in Threads, Grant(t) PROVE UseInv'
    <2>1. PICK k \in Issued : k = req[t].key
        BY <1>1, <1>9 DEF Grant, Accepted
    <2>2. PICK u : u = IF used[k] < req[t].mono THEN req[t].mono ELSE used[k]
        OBVIOUS
    <2>3. /\ used' = [used EXCEPT ![k] = u] /\ req[t].at = "grant"
          /\ UNCHANGED <<tokens, clock, touched, lost>> /\ Issued' = Issued
        BY <1>9, <2>1, <2>2 DEF Grant, Issued
    <2>4. PICK q : req' = [req EXCEPT ![t] = q] /\ q.at \in {"served", "free"}
        <3>1. PICK r : r = [req[t] EXCEPT !.at = "served"]
            OBVIOUS
        <3>2. r.at = "served" /\ Free.at = "free"
            BY <1>1, <3>1 DEF Request, Free
        <3>3. req' = [req EXCEPT ![t] = r] \/ req' = [req EXCEPT ![t] = Free]
            BY <1>9, <3>1 DEF Grant
        <3> QED
            BY <3>2, <3>3
    <2>5. \A j : Writing(j)' <=> Writing(j)
        BY <1>1, <2>3, <2>4 DEF Writing
    <2>6. \A j, s : Covered(j, s)' <=> Covered(j, s)
        BY <2>3, <2>5 DEF Covered
    <2>7. /\ u \in {used[k], req[t].mono} /\ u \in Nat /\ u <= clock /\ Covered(k, u)
          /\ used'[k] = u /\ \A j \in Keys \ {k} : used'[j] = used[j]
        BY <1>1, <1>20, <2>1, <2>2, <2>3 DEF UseInv, Punctual
    <2>8. ASSUME NEW s \in Threads PROVE Punctual(req[s])'
        <3>1. CASE s = t
            BY <1>1, <2>4, <3>1 DEF Punctual
        <3>2. CASE s # t
            <4>1. req'[s] = req[s] /\ Punctual(req[s]) /\ StandsFor(req[s], req[t])
                BY <1>1, <2>4, <3>2 DEF UseInv
            <4>2. ASSUME req[s].at = "touch"
                  PROVE  used'[req[s].key] < req[s].stamp + Interval
                <5>1. req[s].key \in Keys
                    BY <1>1, <4>2 DEF Accepted
                <5> QED
                    BY <2>1, <2>3, <2>7, <4>1, <4>2, <5>1 DEF Punctual, StandsFor
            <4> QED
                BY <2>3, <2>6, <4>1, <4>2 DEF Punctual
        <3> QED
            BY <3>1, <3>2
    <2>9. ASSUME NEW s \in Threads, NEW x \in Threads PROVE StandsFor(req[s], req[x])'
        BY <1>1, <2>4 DEF UseInv, StandsFor
    <2>10. ASSUME NEW j \in Issued
          PROVE  /\ touched'[j] <= clock /\ used'[j] <= clock
                 /\ Covered(j, used[j])' /\ Remembered(j)'
        <3>1. Covered(j, used'[j]) /\ used'[j] <= clock
            BY <1>1, <2>7 DEF UseInv
        <3>2. Covered(j, used[j])'
            BY <2>3, <2>5, <3>1 DEF Covered
        <3> QED
            BY <2>3, <2>5, <3>1, <3>2 DEF UseInv, Remembered
    <2>11. used' \in [Keys -> Nat] /\ \A j \in Keys \ Issued : used'[j] = 0
        BY <1>1, <2>3, <2>7 DEF UseInv
    <2> QED
        BY <2>3, <2>8, <2>9, <2>10, <2>11, MovesOn DEF UseInv
<1>10. CASE Passes
    <2>1. /\ clock' = clock + 1 /\ UNCHANGED <<tokens, req, touched, used, lost>>
          /\ \A t \in Threads : req[t].at \in {"check", "set", "stamp", "touch"} =>
                clock - req[t].mono < Patience
        BY <1>10 DEF Passes
    <2>2. \A k : Writing(k)' <=> Writing(k)
        BY <2>1 DEF Writing
    <2>3. \A k, s : Covered(k, s)' <=> Covered(k, s)
        BY <2>1, <2>2 DEF Covered
    <2>4. ASSUME NEW t \in Threads PROVE Punctual(req[t])'
        <3>1. req[t].mono \in Nat /\ Punctual(req[t])
            BY <1>1 DEF UseInv
        <3>2. req[t].at \in {"check", "set", "stamp", "touch"} => clock' - req[t].mono <= Patience
            BY <1>1, <2>1, <3>1
        <3> QED
            BY <2>1, <2>3, <3>1, <3>2 DEF Punctual
    <2>5. \A k \in Issued : touched[k] <= clock' /\ used[k] <= clock'
        BY <1>1, <1>20, <2>1 DEF UseInv
    <2> QED
        BY <2>1, <2>2, <2>3, <2>4, <2>5 DEF UseInv, Remembered, Issued, StandsFor
<1>11. CASE Reboot
    <2>1. /\ \A t \in Threads : req'[t] = Free
          /\ touched' = [k \in Keys |-> 0] /\ lost' = [k \in Keys |-> lost[k] \/ Writing(k)]
          /\ UNCHANGED <<tokens, clock, used>> /\ Issued' = Issued
        BY <1>11 DEF Reboot, Issued
    <2>2. /\ touched' \in [Keys -> Nat] /\ lost' \in [Keys -> BOOLEAN]
          /\ \A k \in Keys : touched'[k] = 0 /\ (lost[k] \/ Writing(k) => lost'[k])
        <3>1. lost \in [Keys -> BOOLEAN]
            BY DEF UseInv
        <3>2. \A k \in Keys : /\ lost'[k] = (lost[k] \/ Writing(k))
                              /\ lost[k] \/ Writing(k) \in BOOLEAN
            BY <2>1, <3>1, Zenon DEF Writing
        <3>3. lost' \in [Keys -> BOOLEAN]
            BY <2>1, <3>2, Zenon
        <3>4. touched' \in [Keys -> Nat] /\ \A k \in Keys : touched'[k] = 0
            BY <2>1
        <3> QED
            BY <3>2, <3>3, <3>4, Zenon
    <2>3. \A k \in Issued : \A s : Covered(k, s) => Covered(k, s)'
        BY <1>1, <2>1, <2>2 DEF Covered
    <2>4. \A t \in Threads : req'[t].at = "free"
        <3>1. Free.at = "free"
            BY DEF Free
        <3> QED
            BY <2>1, <3>1
    <2>5. \A t \in Threads : Punctual(req[t])'
        BY <2>4 DEF Punctual
    <2>6. \A t, x \in Threads : StandsFor(req[t], req[x])'
        BY <2>4 DEF StandsFor
    <2>7. \A k \in Issued : touched'[k] <= clock /\ Remembered(k)'
        BY <1>1, <2>1, <2>2 DEF Remembered
    <2> QED
        BY <1>1, <2>1, <2>2, <2>3, <2>5, <2>6, <2>7, MovesOn DEF UseInv
<1>12. CASE UNCHANGED tokenVars
    BY <1>12 DEF tokenVars, UseInv, Punctual, StandsFor, Covered, Remembered, Writing, Issued
<1> QED
    BY <1>2, <1>3, <1>4, <1>5, <1>6, <1>7, <1>8, <1>9, <1>10, <1>11, <1>12, <1>13, <1>14
    DEF TokensNext

THEOREM UseInitInv == TokensInit => UseInv
<1> SUFFICES ASSUME TokensInit PROVE UseInv
    OBVIOUS
<1>1. Issued = {} /\ Len(tokens) = 0
    BY DEF TokensInit, Issued
<1>2. /\ \A t \in Threads : Punctual(req[t])
      /\ \A t, x \in Threads : StandsFor(req[t], req[x])
    BY DEF TokensInit, Punctual, StandsFor, Free
<1> QED
    BY <1>1, <1>2, TokensAssumption DEF TokensInit, UseInv

\* last_used_at lags behind the last use by less than Interval, but for a write that
\* is under way, failed or was cut off: for any number of threads, in whatever order they
\* pass the throttle, set it and write, and any lifetimes, as long as _touch_last_used
\* takes less than half of Interval (api_tokens.py:203-213).
THEOREM UseAlways == TokensSpec => []UseRecorded
<1>1. UseInv => UseRecorded
    BY DEF UseInv, Covered, UseRecorded
<1> QED
    BY <1>1, TokensAlways, TokensNextInv, UseInitInv, UseNextInv, PTL DEF TokensSpec

-----------------------------------------------------------------------------
(* Schedule drafts.                                                        *)

Text  == [key : Int, start : Nat]
Draft == [hosts : SUBSET Hosts, ok : SUBSET Hosts, pass : Text, enable : Text,
          edit : Nat, hour : Nat]
Plan  == [hosts : SUBSET Hosts, pass : Text, enable : Text, enabled : BOOLEAN]
Held  == [draft : Nat, hosts : SUBSET Hosts, enable : BOOLEAN, edit : Nat]

DraftsTyped ==
    /\ override \in Int /\ stored \in Nat /\ keysMade \in Nat
    /\ nDrafts \in 0..MaxDrafts /\ nPlans \in 0..MaxPlans /\ hour \in Nat /\ starts \in Nat
    /\ drafts \in [1..MaxDrafts -> Draft] /\ plans \in [1..MaxPlans -> Plan]
    /\ pending \in Held
    /\ writes \in [1..MaxDrafts -> Nat] /\ reached \in [1..MaxDrafts -> SUBSET Hosts]

\* What is still to be written has not been written: neither a draft that is there,
\* nor the one that is taken out.
OnceInv ==
    /\ WrittenOnce
    /\ \A d \in 1..MaxDrafts : d > nDrafts \/ drafts[d] # NoDraft => writes[d] = 0
    /\ pending # Idle =>
          /\ pending.draft \in 1..nDrafts /\ drafts[pending.draft] = NoDraft
          /\ writes[pending.draft] = 0

\* The devices that answered go from the draft to what is taken out of it.
ReachedInv ==
    /\ \A d \in DraftIds : drafts[d].ok = reached[d]
    /\ pending # Idle => pending.hosts = reached[pending.draft]

\* A text of this start of the portal has the key in use, and there is one.
Current(c) ==
    c # NoText => /\ c.start <= starts
                  /\ c.start = starts => c.key = Active /\ Active # NoKey

KeyInv ==
    /\ \A d \in DraftIds : Current(drafts[d].pass) /\ Current(drafts[d].enable)
    /\ \A p \in PlanIds : /\ plans[p].pass # NoText
                          /\ Current(plans[p].pass) /\ Current(plans[p].enable)

DraftsInv == DraftsTyped /\ OnceInv /\ ReachedInv /\ KeyInv

\* A new installation has no drafts, no schedules and no key.
THEOREM DraftsInitInv == DraftsInit => DraftsInv
<1> SUFFICES ASSUME DraftsInit PROVE DraftsInv
    OBVIOUS
<1>1. NoText \in Text
    BY DEF NoText, Text, NoKey
<1>2. NoDraft \in Draft /\ NoPlan \in Plan /\ Idle \in Held
    BY <1>1 DEF NoDraft, Draft, NoPlan, Plan, Idle, Held
<1>3. DraftsTyped
    BY <1>2, DraftsAssumption DEF DraftsInit, DraftsTyped, NoKey
<1>4. DraftIds = {} /\ PlanIds = {}
    BY DraftsAssumption DEF DraftsInit, DraftIds, PlanIds
<1>5. OnceInv
    BY DEF DraftsInit, OnceInv, WrittenOnce
<1> QED
    BY <1>3, <1>4, <1>5 DEF DraftsInv, ReachedInv, KeyInv, DraftsInit

-----------------------------------------------------------------------------
(* Texts.                                                                  *)

\* After ensure_master_key there is a key, and the one that was in use still is.
LEMMA Ensured ==
    ASSUME DraftsTyped, Ensures, UNCHANGED override
    PROVE  /\ stored' \in Nat /\ keysMade' \in Nat
           /\ Active' = ActiveOf(stored') /\ Active' # NoKey /\ Active' \in Int
           /\ Active # NoKey => Active' = Active
<1>1. Active' = ActiveOf(stored') /\ Active = ActiveOf(stored)
    BY DEF Active, ActiveOf
<1>2. CASE Active # NoKey
    <2>1. UNCHANGED <<stored, keysMade>>
        BY <1>2 DEF Ensures
    <2> QED
        BY <1>1, <1>2, <2>1 DEF DraftsTyped, ActiveOf
<1>3. CASE Active = NoKey
    <2>1. stored' = keysMade + 1 /\ keysMade' = keysMade + 1
        BY <1>3 DEF Ensures
    <2>2. override = NoKey
        BY <1>1, <1>3 DEF ActiveOf
    <2> QED
        BY <1>1, <1>3, <2>1, <2>2 DEF DraftsTyped, ActiveOf, NoKey
<1> QED
    BY <1>2, <1>3

\* What is encrypted then has the key in use.
LEMMA EncryptedText ==
    ASSUME DraftsTyped, Ensures, UNCHANGED <<override, starts>>, NEW given \in BOOLEAN,
           NEW c, c = Encrypted(given, stored')
    PROVE  c \in Text /\ Current(c)' /\ (given => c # NoText)
<1>1. Active' = ActiveOf(stored') /\ Active' # NoKey /\ Active' \in Int /\ starts \in Nat
    BY Ensured DEF DraftsTyped
<1>2. CASE given
    <2>1. c = [key |-> Active', start |-> starts]
        BY <1>1, <1>2 DEF Encrypted
    <2>2. c # NoText /\ c \in Text
        BY <1>1, <2>1 DEF NoText, Text
    <2>3. c.start <= starts' /\ c.key = Active'
        BY <1>1, <2>1
    <2> QED
        BY <1>1, <2>2, <2>3 DEF Current
<1>3. CASE ~given
    <2>1. c = NoText
        BY <1>3 DEF Encrypted
    <2>2. NoText \in Text
        BY DEF NoText, Text, NoKey
    <2> QED
        BY <1>3, <2>1, <2>2 DEF Current
<1> QED
    BY <1>2, <1>3

\* A text that fits goes on fitting while the key in use, if there is one, stays.
LEMMA CurrentStays ==
    ASSUME DraftsTyped, NEW c, Current(c), UNCHANGED starts, Active # NoKey => Active' = Active
    PROVE  Current(c)'
BY DEF Current
-----------------------------------------------------------------------------
(* What the writes of a schedule have in common.                           *)

\* A write of a schedule encrypts what is typed and keeps what is not.
LEMMA RewrittenPlan ==
    ASSUME DraftsTyped, KeyInv, Ensures, UNCHANGED <<override, starts>>, NEW p \in PlanIds,
           NEW pass \in BOOLEAN, NEW enable \in BOOLEAN,
           NEW q, q = Rewritten(p, pass, enable)
    PROVE  /\ q \in Plan /\ q.pass # NoText /\ Current(q.pass)' /\ Current(q.enable)'
           /\ plans[p].enable # NoText => q.enable # NoText
           /\ q.hosts = plans[p].hosts
<1>1. PICK e : e = Encrypted(TRUE, stored')
    OBVIOUS
<1>2. e \in Text /\ Current(e)' /\ e # NoText
    BY <1>1, EncryptedText
<1>3. PICK r \in Plan : r = plans[p]
    BY DraftsAssumption DEF DraftsTyped, PlanIds
<1>4. r.pass # NoText /\ Current(r.pass) /\ Current(r.enable)
    BY <1>3 DEF KeyInv
<1>5. Active # NoKey => Active' = Active
    BY Ensured
<1>6. Current(r.pass)' /\ Current(r.enable)'
    BY <1>4, <1>5, CurrentStays
<1>7. q = [hosts |-> r.hosts, pass |-> IF pass THEN e ELSE r.pass,
           enable |-> IF enable THEN e ELSE r.enable, enabled |-> r.enabled]
    BY <1>1, <1>3 DEF Rewritten, Plan
<1>8. /\ q.pass = (IF pass THEN e ELSE r.pass) /\ q.hosts = r.hosts
      /\ q.enable = (IF enable THEN e ELSE r.enable)
    BY <1>7
<1>9. q \in Plan
    BY <1>2, <1>3, <1>7 DEF Plan
<1>10. q.pass # NoText /\ Current(q.pass)'
    BY <1>2, <1>4, <1>6, <1>8, Zenon
<1>11. Current(q.enable)' /\ (r.enable # NoText => q.enable # NoText)
    BY <1>2, <1>6, <1>8, Zenon
<1> QED
    BY <1>3, <1>8, <1>9, <1>10, <1>11

\* The texts of the rows that are not written go on fitting while no key in use is
\* replaced and the portal is not started again.
LEMMA OthersFit ==
    ASSUME DraftsTyped, KeyInv, UNCHANGED starts, Active # NoKey => Active' = Active,
           \A d \in DraftIds' : d \in DraftIds /\ drafts'[d] = drafts[d],
           NEW P, \A p \in PlanIds' \ P : p \in PlanIds /\ plans'[p] = plans[p],
           \A p \in PlanIds' \cap P :
              plans'[p].pass # NoText /\ Current(plans[p].pass)' /\ Current(plans[p].enable)'
    PROVE  KeyInv'
<1>1. ASSUME NEW d \in DraftIds' PROVE Current(drafts[d].pass)' /\ Current(drafts[d].enable)'
    <2>1. PICK r : r = drafts[d]
        OBVIOUS
    <2>2. Current(r.pass)' /\ Current(r.enable)'
        BY <1>1, <2>1, CurrentStays DEF KeyInv
    <2> QED
        BY <1>1, <2>1, <2>2
<1>2. ASSUME NEW p \in PlanIds' \ P
      PROVE  plans'[p].pass # NoText /\ Current(plans[p].pass)' /\ Current(plans[p].enable)'
    <2>1. PICK r : r = plans[p]
        OBVIOUS
    <2>2. r.pass # NoText /\ Current(r.pass)' /\ Current(r.enable)'
        BY <1>2, <2>1, CurrentStays DEF KeyInv
    <2> QED
        BY <1>2, <2>1, <2>2
<1>3. NoText' = NoText
    BY DEF NoText, NoKey
<1> QED
    BY <1>1, <1>2, <1>3 DEF KeyInv
-----------------------------------------------------------------------------
(* The handlers.                                                           *)

LEMMA UploadInv ==
    ASSUME DraftsInv, NEW hosts \in SUBSET Hosts, NEW ok \in SUBSET hosts,
           NEW enable \in BOOLEAN, NEW edit \in PlanIds \cup {0},
           Upload(hosts, ok, enable, edit)
    PROVE  DraftsInv'
<1> DEFINE new == nDrafts + 1
<1>1. PICK p, e : p = Encrypted(TRUE, stored') /\ e = Encrypted(enable, stored')
    OBVIOUS
<1>2. /\ pending = Idle /\ nDrafts < MaxDrafts /\ Ensures /\ nDrafts' = new
      /\ UNCHANGED <<override, plans, pending, nPlans, hour, starts, writes>>
      /\ reached' = [reached EXCEPT ![new] = ok]
    BY DEF Upload, clockVars
<1>3. DraftsTyped
    BY DEF DraftsInv
<1>4. PICK a : a = [hosts |-> hosts, ok |-> ok, edit |-> edit, hour |-> hour, pass |-> p,
                    enable |-> e]
    OBVIOUS
<1>5. drafts' = [d \in 1..MaxDrafts |->
          IF d = new THEN a ELSE IF drafts[d].hour < hour - TTL THEN NoDraft ELSE drafts[d]]
    BY <1>1, <1>4 DEF Upload
<1>6. /\ p \in Text /\ Current(p)' /\ p # NoText /\ e \in Text /\ Current(e)'
      /\ stored' \in Nat /\ keysMade' \in Nat /\ (Active # NoKey => Active' = Active)
    BY <1>1, <1>2, <1>3, EncryptedText, Ensured
<1>7. a \in Draft /\ a.ok = ok /\ a.pass = p /\ a.enable = e
    <2>1. edit \in Nat /\ hour \in Nat
        BY <1>3, DraftsAssumption DEF DraftsTyped, PlanIds
    <2> QED
        BY <1>4, <1>6, <2>1 DEF Draft
<1>8. /\ new \in 1..MaxDrafts /\ nDrafts \in Nat
      /\ \A d \in 1..MaxDrafts : d # new => drafts'[d] = drafts[d] \/ drafts'[d] = NoDraft
      /\ drafts'[new] = a
    BY <1>2, <1>3, <1>5, DraftsAssumption DEF DraftsTyped
<1>9. \A d \in DraftIds' : d # new => d \in DraftIds /\ drafts'[d] = drafts[d]
    BY <1>2, <1>3, <1>8, DraftsAssumption DEF DraftIds, DraftsTyped
<1>10. DraftsTyped'
    <2>1. NoDraft \in Draft
        BY DEF NoDraft, Draft, NoText, Text, NoKey
    <2>2. drafts' \in [1..MaxDrafts -> Draft]
        BY <1>3, <1>5, <1>7, <2>1 DEF DraftsTyped
    <2> QED
        BY <1>2, <1>3, <1>6, <1>8, <2>2 DEF DraftsTyped
<1>11. OnceInv'
    <2>1. \A d \in 1..MaxDrafts : d > new \/ drafts'[d] # NoDraft => writes[d] = 0
        BY <1>3, <1>8, DraftsAssumption DEF DraftsInv, OnceInv, DraftsTyped
    <2>2. \A d \in 1..new : writes[d] <= 1
        BY <1>2, <1>8 DEF DraftsInv, OnceInv, WrittenOnce
    <2> QED
        BY <1>2, <2>1, <2>2 DEF OnceInv, WrittenOnce, Idle
<1>12. ReachedInv'
    <2>1. new \notin DraftIds
        BY <1>3 DEF DraftIds, DraftsTyped
    <2>2. reached'[new] = ok /\ \A d \in DraftIds' : d # new => reached'[d] = reached[d]
        BY <1>2, <1>3, <1>8 DEF DraftsTyped
    <2>3. \A d \in DraftIds' : drafts'[d].ok = reached'[d]
        BY <1>7, <1>8, <1>9, <2>1, <2>2 DEF DraftsInv, ReachedInv
    <2> QED
        BY <1>2, <2>3 DEF ReachedInv, Idle
<1>13. KeyInv'
    <2>1. ASSUME NEW d \in DraftIds', NEW q, q = drafts'[d]
          PROVE  Current(q.pass)' /\ Current(q.enable)'
        <3>1. CASE d = new
            BY <1>6, <1>7, <1>8, <2>1, <3>1
        <3>2. CASE d # new
            <4>1. Current(q.pass) /\ Current(q.enable)
                BY <1>9, <2>1, <3>2 DEF DraftsInv, KeyInv
            <4> QED
                BY <1>2, <1>3, <1>6, <4>1, CurrentStays
        <3> QED
            BY <3>1, <3>2
    <2>2. ASSUME NEW x \in PlanIds', NEW q, q = plans'[x]
          PROVE  q.pass # NoText /\ Current(q.pass)' /\ Current(q.enable)'
        <3>1. x \in PlanIds /\ q = plans[x]
            BY <1>2, <2>2 DEF PlanIds
        <3>2. q.pass # NoText /\ Current(q.pass) /\ Current(q.enable)
            BY <3>1 DEF DraftsInv, KeyInv
        <3> QED
            BY <1>2, <1>3, <1>6, <3>2, CurrentStays
    <2> QED
        BY <2>1, <2>2 DEF KeyInv
<1> QED
    BY <1>10, <1>11, <1>12, <1>13 DEF DraftsInv

LEMMA ConfirmInv == ASSUME DraftsInv, NEW d \in DraftIds, Confirm(d) PROVE DraftsInv'
<1>1. /\ pending' = Taken(d) /\ drafts' = [drafts EXCEPT ![d] = NoDraft]
      /\ UNCHANGED <<override, stored, keysMade, plans, nDrafts, nPlans, hour, starts, writes,
                     reached>>
    BY DEF Confirm, keyVars, clockVars
<1>2. /\ DraftsTyped /\ d \in 1..MaxDrafts /\ d \in 1..nDrafts /\ drafts[d] # NoDraft
      /\ drafts[d] \in Draft
    BY DraftsAssumption DEF DraftsInv, DraftsTyped, DraftIds
<1>3. /\ pending'.draft = d /\ pending'.hosts = drafts[d].ok /\ pending' \in Held
    BY <1>1, <1>2 DEF Taken, Chosen, Draft, Held
<1>4. drafts'[d] = NoDraft /\ \A x \in 1..MaxDrafts : x # d => drafts'[x] = drafts[x]
    BY <1>1, <1>2 DEF DraftsTyped
<1>5. \A x \in DraftIds' : x \in DraftIds /\ drafts'[x] = drafts[x]
    BY <1>1, <1>2, <1>4, DraftsAssumption DEF DraftIds, DraftsTyped
<1>6. DraftsTyped'
    <2>1. NoDraft \in Draft
        BY DEF NoDraft, Draft, NoText, Text, NoKey
    <2> QED
        BY <1>1, <1>2, <1>3, <2>1 DEF DraftsTyped
<1>7. OnceInv'
    BY <1>1, <1>2, <1>3, <1>4 DEF DraftsInv, OnceInv, WrittenOnce
<1>8. ReachedInv'
    BY <1>1, <1>3, <1>5 DEF DraftsInv, ReachedInv
<1>9. KeyInv'
    <2>1. PlanIds' = PlanIds /\ Active' = Active
        BY <1>1 DEF PlanIds, Active, ActiveOf
    <2> QED
        BY <1>1, <1>2, <1>5, <2>1, OthersFit, {} \cap PlanIds = {} DEF DraftsInv
<1> QED
    BY <1>6, <1>7, <1>8, <1>9 DEF DraftsInv

\* The second transaction writes what is taken out, for a schedule or a new one.
LEMMA WriteInv ==
    ASSUME DraftsInv, pending # Idle, Ensures, NEW p \in 1..MaxPlans, NEW q \in Plan,
           q.pass # NoText, Current(q.pass)', Current(q.enable)',
           plans' = [plans EXCEPT ![p] = q], nPlans' \in 0..MaxPlans,
           \A x \in 1..nPlans' : x # p => x \in 1..nPlans,
           writes' = [writes EXCEPT ![pending.draft] = @ + 1], pending' = Idle,
           UNCHANGED <<override, drafts, nDrafts, hour, starts, reached>>
    PROVE  DraftsInv'
<1>1. DraftsTyped /\ pending.draft \in 1..nDrafts /\ drafts[pending.draft] = NoDraft
      /\ writes[pending.draft] = 0
    BY DEF DraftsInv, OnceInv
<1>2. /\ stored' \in Nat /\ keysMade' \in Nat /\ (Active # NoKey => Active' = Active)
    BY <1>1, Ensured
<1>3. /\ writes' \in [1..MaxDrafts -> Nat] /\ writes'[pending.draft] = 1
      /\ \A d \in 1..MaxDrafts : d # pending.draft => writes'[d] = writes[d]
    BY <1>1, DraftsAssumption DEF DraftsTyped
<1>4. DraftsTyped'
    <2>1. Idle \in Held
        BY DEF Idle, Held
    <2> QED
        BY <1>1, <1>2, <1>3, <2>1 DEF DraftsTyped
<1>5. OnceInv'
    <2>1. \A d \in 1..nDrafts : d \in 1..MaxDrafts
        BY <1>1, DraftsAssumption DEF DraftsTyped
    <2>2. WrittenOnce'
        BY <1>3, <2>1 DEF DraftsInv, OnceInv, WrittenOnce
    <2>3. \A d \in 1..MaxDrafts : d > nDrafts \/ drafts[d] # NoDraft => d # pending.draft
        BY <1>1 DEF DraftsTyped
    <2> QED
        BY <1>3, <2>2, <2>3 DEF DraftsInv, OnceInv
<1>6. ReachedInv'
    BY DEF DraftsInv, ReachedInv, DraftIds
<1>7. KeyInv'
    <2>1. DraftIds' = DraftIds
        BY DEF DraftIds
    <2>2. plans'[p] = q /\ \A x \in 1..MaxPlans : x # p => plans'[x] = plans[x]
        BY <1>1 DEF DraftsTyped
    <2>3. \A x \in PlanIds' \ {p} : x \in PlanIds /\ plans'[x] = plans[x]
        <3>1. \A x \in 1..nPlans' : x \in 1..MaxPlans
            BY DraftsAssumption
        <3>2. \A x \in PlanIds' : x \in 1..nPlans' /\ plans'[x] # NoPlan
            BY DEF PlanIds, NoPlan, NoText, NoKey
        <3> QED
            BY <2>2, <3>1, <3>2 DEF PlanIds
    <2>4. \A x \in PlanIds' \cap {p} :
            plans'[x].pass # NoText /\ Current(plans[x].pass)' /\ Current(plans[x].enable)'
        BY <2>2
    <2> QED
        BY <1>1, <1>2, <2>1, <2>3, <2>4, OthersFit DEF DraftsInv
<1> QED
    BY <1>4, <1>5, <1>6, <1>7 DEF DraftsInv

LEMMA CreateInv == ASSUME DraftsInv, Create PROVE DraftsInv'
<1>1. DraftsTyped
    BY DEF DraftsInv
<1>2. PICK a, e : a = Encrypted(TRUE, stored') /\ e = Encrypted(pending.enable, stored')
    OBVIOUS
<1>3. /\ Ensures /\ nPlans < MaxPlans /\ nPlans' = nPlans + 1
      /\ UNCHANGED <<override, drafts, nDrafts, hour, starts, reached>>
    BY DEF Create, clockVars
<1>4. a \in Text /\ Current(a)' /\ a # NoText /\ e \in Text /\ Current(e)'
    <2>1. pending.enable \in BOOLEAN
        BY <1>1 DEF DraftsTyped, Held
    <2> QED
        BY <1>1, <1>2, <1>3, <2>1, EncryptedText
<1>5. PICK q : q = [hosts |-> pending.hosts, enabled |-> TRUE, pass |-> a, enable |-> e]
    OBVIOUS
<1>6. q \in Plan /\ q.pass = a /\ q.enable = e
    BY <1>1, <1>4, <1>5 DEF Plan, DraftsTyped, Held
<1>7. plans' = [plans EXCEPT ![nPlans + 1] = q]
    BY <1>2, <1>5 DEF Create
<1>8. /\ nPlans + 1 \in 1..MaxPlans /\ nPlans' \in 0..MaxPlans
      /\ \A x \in 1..nPlans' : x # nPlans + 1 => x \in 1..nPlans
    BY <1>1, <1>3, DraftsAssumption DEF DraftsTyped
<1>9. /\ pending # Idle /\ pending' = Idle
      /\ writes' = [writes EXCEPT ![pending.draft] = @ + 1]
    BY DEF Create
<1> QED
    BY <1>3, <1>4, <1>6, <1>7, <1>8, <1>9, WriteInv

LEMMA UpdateInv == ASSUME DraftsInv, Update PROVE DraftsInv'
<1>1. DraftsTyped /\ KeyInv
    BY DEF DraftsInv
<1>2. /\ Ensures /\ pending.edit \in PlanIds /\ pending.enable \in BOOLEAN
      /\ UNCHANGED <<override, drafts, nDrafts, nPlans, hour, starts, reached>>
    BY <1>1 DEF Update, clockVars, DraftsTyped, Held
<1>3. PICK r : r = Rewritten(pending.edit, TRUE, pending.enable)
    OBVIOUS
<1>4. r \in Plan /\ r.pass # NoText /\ Current(r.pass)' /\ Current(r.enable)'
    BY <1>1, <1>2, <1>3, RewrittenPlan
<1>5. PICK q : q = [r EXCEPT !.hosts = pending.hosts]
    OBVIOUS
<1>6. q \in Plan /\ q.pass = r.pass /\ q.enable = r.enable
    BY <1>1, <1>4, <1>5 DEF Plan, DraftsTyped, Held
<1>7. plans' = [plans EXCEPT ![pending.edit] = q]
    BY <1>3, <1>5 DEF Update
<1>8. pending.edit \in 1..MaxPlans /\ nPlans' \in 0..MaxPlans
    BY <1>1, <1>2, DraftsAssumption DEF DraftsTyped, PlanIds
<1>9. /\ pending # Idle /\ pending' = Idle
      /\ writes' = [writes EXCEPT ![pending.draft] = @ + 1]
    BY DEF Update
<1> QED
    BY <1>2, <1>4, <1>6, <1>7, <1>8, <1>9, WriteInv

LEMMA UpdateMetaInv ==
    ASSUME DraftsInv, NEW p \in PlanIds, NEW pass \in BOOLEAN, NEW enable \in BOOLEAN,
           UpdateMeta(p, pass, enable)
    PROVE  DraftsInv'
<1>1. DraftsTyped /\ KeyInv
    BY DEF DraftsInv
<1>2. /\ Ensures
      /\ UNCHANGED <<override, drafts, pending, nDrafts, nPlans, hour, starts, writes, reached>>
    BY DEF UpdateMeta, clockVars
<1>3. PICK q : q = Rewritten(p, pass, enable)
    OBVIOUS
<1>4. q \in Plan /\ q.pass # NoText /\ Current(q.pass)' /\ Current(q.enable)'
    BY <1>1, <1>2, <1>3, RewrittenPlan
<1>5. plans' = [plans EXCEPT ![p] = q] /\ p \in 1..MaxPlans
    BY <1>1, <1>3, DraftsAssumption DEF UpdateMeta, DraftsTyped, PlanIds
<1>6. stored' \in Nat /\ keysMade' \in Nat /\ (Active # NoKey => Active' = Active)
    BY <1>1, <1>2, Ensured
<1>7. plans'[p] = q /\ \A x \in 1..MaxPlans : x # p => plans'[x] = plans[x]
    BY <1>1, <1>5 DEF DraftsTyped
<1>8. DraftsTyped'
    BY <1>1, <1>2, <1>4, <1>5, <1>6 DEF DraftsTyped
<1>9. OnceInv' /\ ReachedInv'
    BY <1>2 DEF DraftsInv, OnceInv, WrittenOnce, ReachedInv, DraftIds
<1>10. KeyInv'
    <2>1. DraftIds' = DraftIds
        BY <1>2 DEF DraftIds
    <2>2. \A x \in PlanIds' \ {p} : x \in PlanIds /\ plans'[x] = plans[x]
        BY <1>1, <1>2, <1>7, DraftsAssumption DEF PlanIds, DraftsTyped
    <2>3. \A x \in PlanIds' \cap {p} :
            plans'[x].pass # NoText /\ Current(plans[x].pass)' /\ Current(plans[x].enable)'
        BY <1>4, <1>7
    <2> QED
        BY <1>1, <1>2, <1>6, <2>1, <2>2, <2>3, OthersFit
<1> QED
    BY <1>8, <1>9, <1>10 DEF DraftsInv

LEMMA EnableInv == ASSUME DraftsInv, NEW p \in PlanIds, Enable(p) PROVE DraftsInv'
<1>1. PICK q : q = [plans[p] EXCEPT !.enabled = ~@]
    OBVIOUS
<1>2. /\ plans' = [plans EXCEPT ![p] = q]
      /\ UNCHANGED <<override, stored, keysMade, drafts, pending, nDrafts, nPlans, hour, starts,
                     writes, reached>>
    BY <1>1 DEF Enable, keyVars, clockVars, DraftsInv, DraftsTyped
<1>3. DraftsTyped /\ p \in 1..MaxPlans /\ plans[p] \in Plan
    BY DraftsAssumption DEF DraftsInv, DraftsTyped, PlanIds
<1>4. q \in Plan /\ q.pass = plans[p].pass /\ q.enable = plans[p].enable
    BY <1>1, <1>3 DEF Plan
<1>5. plans'[p] = q /\ \A x \in 1..MaxPlans : x # p => plans'[x] = plans[x]
    BY <1>2, <1>3 DEF DraftsTyped
<1>6. DraftsTyped'
    BY <1>2, <1>3, <1>4 DEF DraftsTyped
<1>7. OnceInv' /\ ReachedInv'
    BY <1>2 DEF DraftsInv, OnceInv, WrittenOnce, ReachedInv, DraftIds
<1>8. KeyInv'
    <2>1. DraftIds' = DraftIds /\ Active' = Active
        BY <1>2 DEF DraftIds, Active, ActiveOf
    <2>2. \A x \in PlanIds' \ {p} : x \in PlanIds /\ plans'[x] = plans[x]
        BY <1>2, <1>3, <1>5, DraftsAssumption DEF PlanIds, DraftsTyped
    <2>3. q.pass # NoText /\ Current(q.pass)' /\ Current(q.enable)'
        <3>1. q.pass # NoText /\ Current(q.pass) /\ Current(q.enable)
            BY <1>4 DEF DraftsInv, KeyInv
        <3> QED
            BY <1>2, <1>3, <2>1, <3>1, CurrentStays
    <2>4. \A x \in PlanIds' \cap {p} :
            plans'[x].pass # NoText /\ Current(plans[x].pass)' /\ Current(plans[x].enable)'
        BY <1>5, <2>3
    <2> QED
        BY <1>2, <1>3, <2>1, <2>2, <2>4, OthersFit DEF DraftsInv
<1> QED
    BY <1>6, <1>7, <1>8 DEF DraftsInv

LEMMA DeleteInv == ASSUME DraftsInv, NEW p \in PlanIds, Delete(p) PROVE DraftsInv'
<1>1. /\ plans' = [plans EXCEPT ![p] = NoPlan]
      /\ UNCHANGED <<override, stored, keysMade, drafts, pending, nDrafts, nPlans, hour, starts,
                     writes, reached>>
    BY DEF Delete, keyVars, clockVars
<1>2. DraftsTyped /\ p \in 1..MaxPlans
    BY DraftsAssumption DEF DraftsInv, DraftsTyped, PlanIds
<1>3. plans'[p] = NoPlan /\ \A x \in 1..MaxPlans : x # p => plans'[x] = plans[x]
    BY <1>1, <1>2 DEF DraftsTyped
<1>4. DraftsTyped'
    <2>1. NoPlan \in Plan
        BY DEF NoPlan, Plan, NoText, Text, NoKey
    <2> QED
        BY <1>1, <1>2, <2>1 DEF DraftsTyped
<1>5. OnceInv' /\ ReachedInv'
    BY <1>1 DEF DraftsInv, OnceInv, WrittenOnce, ReachedInv, DraftIds
<1>6. KeyInv'
    <2>1. DraftIds' = DraftIds /\ Active' = Active
        BY <1>1 DEF DraftIds, Active, ActiveOf
    <2>2. \A x \in PlanIds' : x # p /\ x \in PlanIds /\ plans'[x] = plans[x]
        BY <1>1, <1>2, <1>3, DraftsAssumption DEF PlanIds, DraftsTyped
    <2> QED
        BY <1>1, <1>2, <2>1, <2>2, OthersFit, {} \cap PlanIds = {} DEF DraftsInv
<1> QED
    BY <1>4, <1>5, <1>6 DEF DraftsInv

\* After a start every text is one of an earlier start.
LEMMA StartInv ==
    ASSUME DraftsInv, NEW key \in Overrides \cup {NoKey}, NEW keep \in BOOLEAN,
           Start(key, keep)
    PROVE  DraftsInv'
<1>1. /\ starts' = starts + 1 /\ override' = key /\ pending' = Idle
      /\ stored' = IF keep THEN stored ELSE NoKey
      /\ UNCHANGED <<drafts, plans, nDrafts, nPlans, hour, keysMade, writes, reached>>
    BY DEF Start
<1>2. DraftsTyped
    BY DEF DraftsInv
<1>3. DraftsTyped'
    <2>1. key \in Int /\ Idle \in Held
        BY DraftsAssumption DEF Overrides, NoKey, Idle, Held
    <2> QED
        BY <1>1, <1>2, <2>1 DEF DraftsTyped, NoKey
<1>4. OnceInv' /\ ReachedInv'
    BY <1>1 DEF DraftsInv, OnceInv, WrittenOnce, ReachedInv, DraftIds
<1>5. \A c : Current(c) /\ (c.start \in Nat) => Current(c)'
    BY <1>1, <1>2 DEF Current, DraftsTyped
<1>6. KeyInv'
    <2>1. DraftIds' = DraftIds /\ PlanIds' = PlanIds
        BY <1>1 DEF DraftIds, PlanIds
    <2>2. ASSUME NEW d \in DraftIds', NEW q, q = drafts'[d]
          PROVE  Current(q.pass)' /\ Current(q.enable)'
        <3>1. q \in Draft /\ Current(q.pass) /\ Current(q.enable)
            BY <1>1, <1>2, <2>1, <2>2, DraftsAssumption DEF DraftsInv, KeyInv, DraftsTyped, DraftIds
        <3>2. q.pass.start \in Nat /\ q.enable.start \in Nat
            BY <3>1 DEF Draft, Text
        <3> QED
            BY <1>5, <3>1, <3>2
    <2>3. ASSUME NEW p \in PlanIds', NEW q, q = plans'[p]
          PROVE  q.pass # NoText /\ Current(q.pass)' /\ Current(q.enable)'
        <3>1. q \in Plan /\ q.pass # NoText /\ Current(q.pass) /\ Current(q.enable)
            BY <1>1, <1>2, <2>1, <2>3, DraftsAssumption DEF DraftsInv, KeyInv, DraftsTyped, PlanIds
        <3>2. q.pass.start \in Nat /\ q.enable.start \in Nat
            BY <3>1 DEF Plan, Text
        <3> QED
            BY <1>5, <3>1, <3>2
    <2> QED
        BY <2>2, <2>3 DEF KeyInv
<1> QED
    BY <1>3, <1>4, <1>6 DEF DraftsInv

\* Nothing that is written changes in the other steps.
LEMMA QuietInv ==
    ASSUME DraftsInv, WriteFails \/ Hour \/ UNCHANGED draftVars PROVE DraftsInv'
<1>1. /\ UNCHANGED <<override, stored, keysMade, drafts, plans, nDrafts, nPlans, starts, writes,
                     reached>>
      /\ pending' = pending \/ pending' = Idle
      /\ hour' = hour \/ hour' = hour + 1
    BY DEF WriteFails, Hour, draftVars, keyVars, clockVars
<1>2. DraftsTyped'
    <2>1. Idle \in Held
        BY DEF Idle, Held
    <2> QED
        BY <1>1, <2>1 DEF DraftsInv, DraftsTyped
<1>3. OnceInv' /\ ReachedInv'
    BY <1>1 DEF DraftsInv, OnceInv, WrittenOnce, ReachedInv, DraftIds
<1>4. KeyInv'
    BY <1>1 DEF DraftsInv, KeyInv, DraftIds, PlanIds, Current, Active, ActiveOf
<1> QED
    BY <1>2, <1>3, <1>4 DEF DraftsInv
-----------------------------------------------------------------------------
\* Every step keeps the invariant.
THEOREM DraftsNextInv == DraftsInv /\ [DraftsNext]_draftVars => DraftsInv'
BY UploadInv, ConfirmInv, CreateInv, UpdateInv, UpdateMetaInv, EnableInv, DeleteInv, StartInv,
   QuietInv DEF DraftsNext

\* The invariant holds in every reachable state.
THEOREM DraftsAlways == DraftsSpec => []DraftsInv
BY DraftsInitInv, DraftsNextInv, PTL DEF DraftsSpec

\* A draft becomes a schedule, or a change of one, at most once
\* (schedule_draft.py:297).
THEOREM OnceAlways == DraftsSpec => []WrittenOnce
BY DraftsAlways, PTL DEF DraftsInv, OnceInv

\* What the portal encrypted since it was started it can decrypt
\* (secrets.py:198-246).
THEOREM DecryptsAlways == DraftsSpec => []DecryptsOwn
<1>1. DraftsInv => DecryptsOwn
    BY DEF DraftsInv, KeyInv, Current, DecryptsOwn, Decrypts
<1> QED
    BY <1>1, DraftsAlways, PTL
-----------------------------------------------------------------------------
(* What a write of a schedule changes.                                     *)

\* A row that stays keeps its enable password, and a row gets devices only from the
\* draft that is taken out.
Kept(p)  == plans[p].enable # NoText => plans'[p].enable # NoText
Asked(p) == p \in PlanIds /\ plans'[p].hosts = plans[p].hosts

LEMMA WriteSteps ==
    ASSUME DraftsInv, Create \/ Update, NEW p \in PlanIds'
    PROVE  (p \in PlanIds => Kept(p)) /\ (Asked(p) \/ plans'[p].hosts = pending.hosts)
<1>1. DraftsTyped /\ KeyInv /\ p \in 1..nPlans' /\ plans'[p] # NoPlan
    BY DEF DraftsInv, PlanIds, NoPlan, NoText, NoKey
<1>2. CASE Create
    <2>1. PICK q : /\ plans' = [plans EXCEPT ![nPlans + 1] = q] /\ nPlans' = nPlans + 1
                   /\ nPlans < MaxPlans /\ q.hosts = pending.hosts
        <3>1. PICK r : r = [hosts |-> pending.hosts, enabled |-> TRUE,
                            pass |-> Encrypted(TRUE, stored'),
                            enable |-> Encrypted(pending.enable, stored')]
            OBVIOUS
        <3>2. plans' = [plans EXCEPT ![nPlans + 1] = r] /\ r.hosts = pending.hosts
            BY <1>2, <3>1 DEF Create
        <3> QED
            BY <1>2, <3>2 DEF Create
    <2>2. nPlans + 1 \in 1..MaxPlans
        BY <1>1, <2>1, DraftsAssumption DEF DraftsTyped
    <2>3. plans'[nPlans + 1] = q /\ \A x \in 1..MaxPlans : x # nPlans + 1 => plans'[x] = plans[x]
        BY <1>1, <2>1, <2>2 DEF DraftsTyped
    <2>4. CASE p = nPlans + 1
        <3>1. p \notin PlanIds
            BY <1>1, <2>4 DEF PlanIds, DraftsTyped
        <3> QED
            BY <2>1, <2>3, <2>4, <3>1
    <2>5. CASE p # nPlans + 1
        <3>1. p \in 1..MaxPlans /\ p \in 1..nPlans
            BY <1>1, <2>1, <2>5, DraftsAssumption DEF DraftsTyped
        <3> QED
            BY <1>1, <2>3, <2>5, <3>1 DEF PlanIds, Kept, Asked
    <2> QED
        BY <2>4, <2>5
<1>3. CASE Update
    <2>1. Ensures /\ UNCHANGED <<override, starts, nPlans>> /\ pending.edit \in PlanIds
        BY <1>3 DEF Update, clockVars
    <2>2. pending.enable \in BOOLEAN
        BY <1>1 DEF DraftsTyped, Held
    <2>3. PICK r : r = Rewritten(pending.edit, TRUE, pending.enable)
        OBVIOUS
    <2>4. r \in Plan /\ (plans[pending.edit].enable # NoText => r.enable # NoText)
        BY <1>1, <2>1, <2>2, <2>3, RewrittenPlan
    <2>5. PICK q : q = [r EXCEPT !.hosts = pending.hosts]
        OBVIOUS
    <2>6. q.enable = r.enable /\ q.hosts = pending.hosts
        BY <2>4, <2>5 DEF Plan
    <2>7. plans' = [plans EXCEPT ![pending.edit] = q]
        BY <1>3, <2>3, <2>5 DEF Update
    <2>8. p \in 1..MaxPlans /\ p \in 1..nPlans
        BY <1>1, <2>1, DraftsAssumption DEF DraftsTyped
    <2>9. CASE p = pending.edit
        BY <1>1, <2>4, <2>6, <2>7, <2>8, <2>9 DEF Kept, DraftsTyped
    <2>10. CASE p # pending.edit
        BY <1>1, <2>7, <2>8, <2>10 DEF Kept, Asked, DraftsTyped, PlanIds
    <2> QED
        BY <2>9, <2>10
<1> QED
    BY <1>2, <1>3

LEMMA MetaSteps ==
    ASSUME DraftsInv, NEW x \in PlanIds, NEW pass \in BOOLEAN, NEW enable \in BOOLEAN,
           UpdateMeta(x, pass, enable) \/ Enable(x) \/ Delete(x), NEW p \in PlanIds'
    PROVE  p \in PlanIds /\ Kept(p) /\ Asked(p)
<1>1. DraftsTyped /\ KeyInv /\ p \in 1..nPlans' /\ plans'[p] # NoPlan /\ UNCHANGED nPlans
    BY DEF DraftsInv, PlanIds, NoPlan, NoText, NoKey, UpdateMeta, Enable, Delete
<1>2. p \in 1..MaxPlans /\ x \in 1..MaxPlans /\ plans[x] \in Plan
    BY <1>1, DraftsAssumption DEF DraftsTyped, PlanIds
<1>3. PICK q : /\ plans' = [plans EXCEPT ![x] = q]
               /\ \/ q = NoPlan
                  \/ /\ q.hosts = plans[x].hosts
                     /\ plans[x].enable # NoText => q.enable # NoText
    <2>1. CASE UpdateMeta(x, pass, enable)
        <3>1. Ensures /\ UNCHANGED <<override, starts>>
            BY <2>1 DEF UpdateMeta, clockVars
        <3>2. PICK r : r = Rewritten(x, pass, enable)
            OBVIOUS
        <3>3. /\ plans[x].enable # NoText => r.enable # NoText
              /\ r.hosts = plans[x].hosts
            BY <1>1, <3>1, <3>2, RewrittenPlan
        <3>4. plans' = [plans EXCEPT ![x] = r]
            BY <2>1, <3>2 DEF UpdateMeta
        <3> QED
            BY <3>3, <3>4
    <2>2. CASE Enable(x)
        <3>1. PICK r : r = [plans[x] EXCEPT !.enabled = ~@]
            OBVIOUS
        <3>2. r.hosts = plans[x].hosts /\ r.enable = plans[x].enable
            BY <1>2, <3>1 DEF Plan
        <3>3. plans' = [plans EXCEPT ![x] = r]
            BY <1>1, <2>2, <3>1 DEF Enable, DraftsTyped
        <3> QED
            BY <3>2, <3>3
    <2>3. CASE Delete(x)
        BY <2>3 DEF Delete
    <2> QED
        BY <2>1, <2>2, <2>3
<1>4. CASE p = x
    BY <1>1, <1>2, <1>3, <1>4 DEF Kept, Asked, DraftsTyped
<1>5. CASE p # x
    BY <1>1, <1>2, <1>3, <1>5 DEF Kept, Asked, DraftsTyped, PlanIds
<1> QED
    BY <1>4, <1>5

LEMMA RowSteps ==
    ASSUME DraftsInv, [DraftsNext]_draftVars, NEW p \in PlanIds'
    PROVE  /\ p \in PlanIds => Kept(p)
           /\ Asked(p) \/ plans'[p].hosts = reached[pending.draft]
<1>1. CASE Create \/ Update
    <2>1. pending # Idle
        BY <1>1 DEF Create, Update
    <2>2. pending.hosts = reached[pending.draft]
        BY <2>1 DEF DraftsInv, ReachedInv
    <2> QED
        BY <1>1, <2>2, WriteSteps
<1>2. CASE \E x \in PlanIds, pass, enable \in BOOLEAN :
             UpdateMeta(x, pass, enable) \/ Enable(x) \/ Delete(x)
    BY <1>2, MetaSteps
<1>3. CASE UNCHANGED <<plans, nPlans>>
    BY <1>3 DEF PlanIds, Kept, Asked
<1>4. \/ Create \/ Update
      \/ \E x \in PlanIds, pass, enable \in BOOLEAN :
             UpdateMeta(x, pass, enable) \/ Enable(x) \/ Delete(x)
      \/ UNCHANGED <<plans, nPlans>>
    BY DEF DraftsNext, Upload, Confirm, WriteFails, Start, Hour, draftVars
<1> QED
    BY <1>1, <1>2, <1>3, <1>4

\* A write of a schedule loses no password that is there and is not typed again
\* (schedule.py:391).
THEOREM KeepsAlways == DraftsSpec => KeepsPasswords
<1>1. DraftsInv /\ DraftsInv' /\ [DraftsNext]_draftVars =>
        [\A p \in PlanIds : p \in PlanIds' =>
            /\ plans'[p].pass # NoText
            /\ plans[p].enable # NoText => plans'[p].enable # NoText]_draftVars
    BY RowSteps DEF DraftsInv, KeyInv, Kept, NoText, NoKey
<1> QED
    BY <1>1, DraftsAlways, DraftsNextInv, PTL DEF KeepsPasswords, DraftsSpec

\* A schedule asks only devices that answered the probe of the file it was made from
\* (schedule_draft.py:293).
THEOREM AsksAlways == DraftsSpec => AsksReached
<1>1. DraftsInv /\ [DraftsNext]_draftVars =>
        [\A p \in PlanIds' :
            p \notin PlanIds \/ plans'[p].hosts # plans[p].hosts =>
                plans'[p].hosts = reached[pending.draft]]_draftVars
    BY RowSteps DEF Asked
<1> QED
    BY <1>1, DraftsAlways, PTL DEF AsksReached, DraftsSpec

-----------------------------------------------------------------------------
(* The inventory: the members of a stack.                                  *)

\* Greater numbers have later places.
LEMMA PlaceOrder ==
    ASSUME NEW S, S \subseteq Int, IsFiniteSet(S), NEW n \in S, NEW m \in S, n < m
    PROVE  Position(S, n) < Position(S, m)
<1> DEFINE A == {k \in S : k <= n}
           B == {k \in S : k <= m}
<1>1. A \in SUBSET B /\ m \in B /\ m \notin A /\ B \in SUBSET S
    <2>1. n \in Int /\ m \in Int /\ \A k \in S : k \in Int
        OBVIOUS
    <2>2. \A k \in S : k <= n => k <= m
        BY <2>1
    <2>3. m <= m /\ ~(m <= n)
        BY <2>1
    <2> QED
        BY <2>2, <2>3
<1>2. IsFiniteSet(B)
    BY <1>1, FS_Subset
<1>3. IsFiniteSet(A) /\ Cardinality(A) <= Cardinality(B) /\ (Cardinality(B) = Cardinality(A) => B = A)
    BY <1>1, <1>2, FS_Subset
<1>4. Cardinality(A) \in Nat /\ Cardinality(B) \in Nat /\ A # B
    BY <1>1, <1>2, <1>3, FS_CardinalityType
<1> QED
    BY <1>3, <1>4 DEF Position

\* Every number has a place of its own, and every place a number.
LEMMA Places ==
    ASSUME NEW S, S \subseteq Int, IsFiniteSet(S)
    PROVE  /\ Cardinality(S) \in Nat
           /\ \A n \in S : Position(S, n) \in 1..Cardinality(S)
           /\ \A n, m \in S : Position(S, n) = Position(S, m) => n = m
           /\ \A k \in 1..Cardinality(S) : \E n \in S : Position(S, n) = k
<1>1. Cardinality(S) \in Nat
    BY FS_CardinalityType
<1>2. ASSUME NEW n \in S PROVE Position(S, n) \in 1..Cardinality(S)
    <2> DEFINE A == {k \in S : k <= n}
    <2>1. A \in SUBSET S /\ n \in A
        OBVIOUS
    <2>2. IsFiniteSet(A) /\ Cardinality(A) <= Cardinality(S)
        BY <2>1, FS_Subset
    <2>3. Cardinality(A) \in Nat /\ Cardinality(A) # 0
        BY <2>1, <2>2, FS_CardinalityType, FS_EmptySet
    <2> QED
        BY <1>1, <2>2, <2>3 DEF Position
<1>3. ASSUME NEW n \in S, NEW m \in S, Position(S, n) = Position(S, m) PROVE n = m
    <2>1. Position(S, n) \in Int /\ n \in Int /\ m \in Int
        BY <1>1, <1>2
    <2>2. /\ n < m => Position(S, n) < Position(S, m)
          /\ m < n => Position(S, m) < Position(S, n)
        BY PlaceOrder
    <2>3. ~(n < m) /\ ~(m < n)
        BY <1>3, <2>1, <2>2
    <2> QED
        BY <2>1, <2>3
<1>4. ASSUME NEW k \in 1..Cardinality(S) PROVE \E n \in S : Position(S, n) = k
    <2> DEFINE P == [n \in S |-> Position(S, n)]
    <2>1. P \in Injection(S, 1..Cardinality(S))
        BY <1>2, <1>3 DEF Injection, IsInjective
    <2>2. IsFiniteSet(1..Cardinality(S)) /\ Cardinality(1..Cardinality(S)) = Cardinality(S)
        BY <1>1, FS_Interval
    <2>3. P \in Surjection(S, 1..Cardinality(S))
        BY <2>1, <2>2, FS_Injection
    <2> QED
        BY <2>3 DEF Surjection
<1> QED
    BY <1>1, <1>2, <1>3, <1>4

LEMMA SortedTells ==
    ASSUME NEW S, S \subseteq Int, IsFiniteSet(S)
    PROVE  /\ Cardinality(S) \in Nat
           /\ Sorted(S) \in [1..Cardinality(S) -> S]
           /\ \A n \in S : \E k \in 1..Cardinality(S) : Sorted(S)[k] = n
<1>1. /\ Cardinality(S) \in Nat
      /\ \A n \in S : Position(S, n) \in 1..Cardinality(S)
      /\ \A n, m \in S : Position(S, n) = Position(S, m) => n = m
      /\ \A k \in 1..Cardinality(S) : \E n \in S : Position(S, n) = k
    BY Places
<1>2. \A k \in 1..Cardinality(S) : Sorted(S)[k] = CHOOSE n \in S : Position(S, n) = k
    BY DEF Sorted
<1>3. \A k \in 1..Cardinality(S) : Sorted(S)[k] \in S /\ Position(S, Sorted(S)[k]) = k
    BY <1>1, <1>2
<1>4. \A n \in S : Sorted(S)[Position(S, n)] = n
    BY <1>1, <1>3
<1>5. Sorted(S) \in [1..Cardinality(S) -> S]
    BY <1>3 DEF Sorted
<1> QED
    BY <1>1, <1>4, <1>5

\* Some number of a finite set is the least, and its place is the first.
LEMMA Least ==
    ASSUME NEW S, S \subseteq Int, IsFiniteSet(S), S # {}
    PROVE  /\ Min(S) \in S /\ \A k \in S : Min(S) <= k
           /\ Position(S, Min(S)) = 1
<1>1. 1 \in 1..Cardinality(S)
    BY FS_EmptySet, FS_CardinalityType
<1>2. PICK n \in S : Position(S, n) = 1
    BY <1>1, Places
<1>3. \A k \in S : n <= k
    <2>1. ASSUME NEW k \in S, k < n PROVE FALSE
        <3>1. Position(S, k) < Position(S, n)
            BY <2>1, PlaceOrder
        <3>2. Position(S, k) \in 1..Cardinality(S)
            BY Places
        <3> QED
            BY <1>2, <3>1, <3>2
    <2>2. n \in Int /\ \A k \in S : k \in Int
        OBVIOUS
    <2> QED
        BY <2>1, <2>2
<1>4. Min(S) \in S /\ \A k \in S : Min(S) <= k
    BY <1>3 DEF Min
<1>5. Min(S) = n
    <2>1. Min(S) <= n /\ n <= Min(S) /\ n \in Int /\ Min(S) \in Int
        BY <1>3, <1>4
    <2> QED
        BY <2>1
<1> QED
    BY <1>2, <1>4, <1>5
-----------------------------------------------------------------------------
\* A sequence after one element.
LEMMA Headed ==
    ASSUME NEW Z, NEW a \in Z, NEW t \in Seq(Z)
    PROVE  /\ Len(<<a>> \o t) = Len(t) + 1 /\ DOMAIN (<<a>> \o t) = 1..Len(t) + 1
           /\ (<<a>> \o t)[1] = a
           /\ \A i \in 1..Len(t) : (<<a>> \o t)[i + 1] = t[i]
<1>1. PICK s : s = <<a>>
    OBVIOUS
<1>2. s \in Seq(Z) /\ Len(s) = 1 /\ s[1] = a
    BY <1>1
<1>3. PICK r : r = s \o t
    OBVIOUS
<1>4. /\ r \in Seq(Z) /\ Len(r) = 1 + Len(t)
      /\ \A i \in 1..1 + Len(t) : r[i] = IF i <= 1 THEN s[i] ELSE t[i - 1]
    BY <1>2, <1>3, ConcatProperties
<1>5. Len(t) \in Nat
    OBVIOUS
<1>6. r[1] = a /\ DOMAIN r = 1..Len(t) + 1
    BY <1>2, <1>4, <1>5
<1>7. ASSUME NEW i \in 1..Len(t) PROVE r[i + 1] = t[i]
    <2>1. i + 1 \in 1..1 + Len(t) /\ ~(i + 1 <= 1) /\ (i + 1) - 1 = i
        BY <1>5
    <2> QED
        BY <1>4, <2>1
<1> QED
    BY <1>1, <1>3, <1>4, <1>5, <1>6, <1>7

\* The units of a stack are its members of, numbered by F: no number twice, and one
\* master.
IsLine(U, F, of, first) ==
    /\ F \in [of -> Nat] /\ \A n, m \in of : F[n] = F[m] => n = m
    /\ \A n \in of : U[n].num = F[n] /\ (U[n].role = "Master" <=> n = first)

\* The rows of a device are the members of its stack, k of them, the first of them first.
RowsOfAll(d, of, first, U, k) ==
    \E P \in [1..k -> of] :
       /\ P[1] = first /\ \A n \in of : \E i \in 1..k : P[i] = n
       /\ Len(RowsOf(d)) = k /\ DOMAIN RowsOf(d) = 1..k
       /\ \A i \in 1..k : RowsOf(d)[i] = Shown(d, U[P[i]], i = 1)

LEMMA RowsTell ==
    ASSUME NEW d, NEW of, of \subseteq Int, IsFiniteSet(of), NEW first \in of, NEW U, NEW F,
           IsLine(U, F, of, first), catalog[d].units = {U[n] : n \in of}
    PROVE  RowsOfAll(d, of, first, U, Cardinality(of))
<1> DEFINE units == catalog[d].units
           others == units \ {Anchor(units)}
           N == {u.num : u \in others}
           tail == [i \in DOMAIN Sorted(N) |-> Shown(d, CHOOSE u \in others : u.num = Sorted(N)[i], FALSE)]
           rest == of \ {first}
<1>1. RowsOf(d) = <<Shown(d, Anchor(units), TRUE)>> \o tail
    <2>1. units # {}
        OBVIOUS
    <2> QED
        BY <2>1 DEF RowsOf
<1>2. units = {U[n] : n \in of} /\ \A n, m \in of : U[n] = U[m] => n = m
    BY DEF IsLine
<1>3. Anchor(units) = U[first]
    <2>1. {u \in units : u.role = "Master"} = {U[first]}
        BY DEF IsLine
    <2>2. U[first].num <= U[first].num
        BY DEF IsLine
    <2> QED
        BY <2>1, <2>2 DEF Anchor
<1>4. others = {U[n] : n \in rest}
    BY <1>2, <1>3
<1>5. N = {F[n] : n \in rest} /\ N \subseteq Int
    <2>1. \A n \in rest : U[n].num = F[n] /\ F[n] \in Int
        BY DEF IsLine
    <2>2. ASSUME NEW v PROVE v \in N <=> \E n \in rest : v = F[n]
        <3>1. v \in N <=> \E u \in others : v = u.num
            OBVIOUS
        <3>2. (\E u \in others : v = u.num) <=> \E n \in rest : v = U[n].num
            BY <1>4
        <3> QED
            BY <2>1, <3>1, <3>2
    <2> HIDE DEF N
    <2>3. N = {F[n] : n \in rest}
        BY <2>2
    <2> QED
        BY <2>1, <2>3
<1> HIDE DEF units, others, N
<1>6. /\ IsFiniteSet(rest) /\ Cardinality(rest) = Cardinality(of) - 1
      /\ Cardinality(of) \in Nat /\ Cardinality(rest) \in Nat
    BY FS_RemoveElement, FS_CardinalityType
<1>7. IsFiniteSet(N) /\ Cardinality(N) = Cardinality(rest)
    <2> DEFINE G == [n \in rest |-> F[n]]
    <2>1. G \in Bijection(rest, N)
        BY <1>5 DEF Bijection, Injection, Surjection, IsInjective, IsLine
    <2>2. ExistsBijection(rest, N)
        BY <2>1 DEF ExistsBijection
    <2> QED
        BY <1>6, <2>2, FS_Bijection
<1>8. PICK c \in Nat : c = Cardinality(rest) /\ Cardinality(of) = c + 1
    BY <1>6
<1>9. PICK nums : nums = Sorted(N)
    OBVIOUS
<1>10. /\ DOMAIN nums = 1..c
       /\ \A k \in 1..c : nums[k] \in N
       /\ \A n \in N : \E k \in 1..c : nums[k] = n
    <2>1. N \subseteq Int /\ IsFiniteSet(N) /\ Cardinality(N) = c
        BY <1>5, <1>7, <1>8
    <2>2. /\ Sorted(N) \in [1..Cardinality(N) -> N]
          /\ \A n \in N : \E k \in 1..Cardinality(N) : Sorted(N)[k] = n
        BY <2>1, SortedTells
    <2> QED
        BY <1>9, <2>1, <2>2
<1> DEFINE P == [i \in 1..c + 1 |-> IF i = 1 THEN first ELSE CHOOSE n \in rest : F[n] = nums[i - 1]]
<1>11. ASSUME NEW i \in 1..c + 1, i # 1
       PROVE  P[i] \in rest /\ F[P[i]] = nums[i - 1]
    <2>1. i - 1 \in 1..c
        BY <1>11
    <2>2. nums[i - 1] \in N
        BY <1>10, <2>1
    <2>3. \E n \in rest : F[n] = nums[i - 1]
        BY <1>5, <2>2
    <2> QED
        BY <1>11, <2>3
<1>12. DOMAIN P = 1..c + 1 /\ P[1] = first
    OBVIOUS
<1> HIDE DEF P
<1>13. P \in [1..c + 1 -> of]
    <2>1. ASSUME NEW i \in 1..c + 1 PROVE P[i] \in of
        BY <1>11, <1>12
    <2>2. P = [i \in 1..c + 1 |-> P[i]]
        BY DEF P
    <2> QED
        BY <2>1, <2>2
<1>14. ASSUME NEW n \in of PROVE \E i \in 1..c + 1 : P[i] = n
    <2>1. CASE n = first
        BY <1>12, <2>1
    <2>2. CASE n # first
        <3>1. F[n] \in N
            BY <1>5, <2>2
        <3>2. PICK k \in 1..c : nums[k] = F[n]
            BY <1>10, <3>1
        <3>3. k + 1 \in 1..c + 1 /\ k + 1 # 1 /\ (k + 1) - 1 = k
            OBVIOUS
        <3>4. P[k + 1] \in rest /\ F[P[k + 1]] = F[n]
            BY <1>11, <3>2, <3>3
        <3>5. P[k + 1] = n
            BY <3>4 DEF IsLine
        <3> QED
            BY <3>3, <3>5
    <2> QED
        BY <2>1, <2>2
<1>15. ASSUME NEW i \in 1..c PROVE tail[i] = Shown(d, U[P[i + 1]], FALSE)
    <2>1. i + 1 \in 1..c + 1 /\ i + 1 # 1 /\ (i + 1) - 1 = i
        OBVIOUS
    <2>2. P[i + 1] \in rest /\ F[P[i + 1]] = nums[i]
        BY <1>11, <2>1
    <2>3. U[P[i + 1]] \in others /\ U[P[i + 1]].num = nums[i]
        BY <1>4, <2>2 DEF IsLine
    <2>4. ASSUME NEW u \in others, u.num = nums[i] PROVE u = U[P[i + 1]]
        <3>1. PICK m \in rest : u = U[m]
            BY <1>4
        <3>2. F[m] = F[P[i + 1]]
            BY <2>2, <2>4, <3>1 DEF IsLine
        <3> QED
            BY <2>2, <3>1, <3>2 DEF IsLine
    <2>5. (CHOOSE u \in others : u.num = nums[i]) = U[P[i + 1]]
        BY <2>3, <2>4
    <2>6. tail[i] = Shown(d, CHOOSE u \in others : u.num = nums[i], FALSE)
        BY <1>9, <1>10
    <2> QED
        BY <2>5, <2>6
<1>16. DOMAIN tail = 1..c /\ tail = [i \in 1..c |-> tail[i]]
    BY <1>9, <1>10
<1> HIDE DEF tail
<1>17. PICK a : a = Shown(d, U[first], TRUE)
    OBVIOUS
<1>18. /\ Len(RowsOf(d)) = c + 1 /\ DOMAIN RowsOf(d) = 1..c + 1
       /\ RowsOf(d)[1] = a
       /\ \A i \in 1..c : RowsOf(d)[i + 1] = tail[i]
    <2>1. PICK Z : Z = {a} \cup {tail[i] : i \in 1..c}
        OBVIOUS
    <2>2. a \in Z /\ tail \in Seq(Z) /\ Len(tail) = c
        BY <1>16, <2>1
    <2>3. RowsOf(d) = <<a>> \o tail
        BY <1>1, <1>3, <1>17
    <2> QED
        BY <2>2, <2>3, Headed
<1>19. ASSUME NEW i \in 1..c + 1 PROVE RowsOf(d)[i] = Shown(d, U[P[i]], i = 1)
    <2>1. CASE i = 1
        BY <1>12, <1>17, <1>18, <2>1
    <2>2. CASE i # 1
        <3>1. i - 1 \in 1..c /\ (i - 1) + 1 = i
            BY <2>2
        <3>2. RowsOf(d)[i] = tail[i - 1] /\ tail[i - 1] = Shown(d, U[P[i]], FALSE)
            BY <1>15, <1>18, <3>1
        <3> QED
            BY <2>2, <3>2
    <2> QED
        BY <2>1, <2>2
<1>20. PICK k \in Nat : k = Cardinality(of) /\ k = c + 1
    BY <1>8
<1>21. P \in [1..k -> of] /\ P[1] = first /\ 1 <= k
    BY <1>12, <1>13, <1>20
<1>22. \A n \in of : \E i \in 1..k : P[i] = n
    BY <1>14, <1>20
<1>23. /\ Len(RowsOf(d)) = k /\ DOMAIN RowsOf(d) = 1..k
       /\ \A i \in 1..k : RowsOf(d)[i] = Shown(d, U[P[i]], i = 1)
    BY <1>18, <1>19, <1>20
<1>24. RowsOfAll(d, of, first, U, k)
    BY <1>21, <1>22, <1>23 DEF RowsOfAll
<1> QED
    BY <1>20, <1>24
\* What holds of any stack.
IsStack(s) ==
    /\ s.of \subseteq Nat /\ IsFiniteSet(s.of) /\ s.first \in s.of /\ s.listed \subseteq s.of
    /\ \E n \in s.of : n # s.first

LEMMA TwoMembers ==
    ASSUME NEW m, IsFiniteSet(m), Cardinality(m) >= 2, NEW f \in m
    PROVE  \E n \in m : n # f
<1>1. SUFFICES ASSUME \A n \in m : n = f PROVE FALSE
    OBVIOUS
<1>2. m = {f}
    BY <1>1
<1> QED
    BY <1>2, FS_Singleton

LEMMA CiscoStack ==
    ASSUME NEW s \in CiscoStacks
    PROVE  IsStack(s) /\ s.of \subseteq Slots /\ s.of \ {s.first} \subseteq s.listed
<1>1. PICK m \in SUBSET Slots : Cardinality(m) >= 2 /\ s \in StacksOf(m, SUBSET m) /\ m \ {s.first} \subseteq s.listed
    BY DEF CiscoStacks
<1>2. s.of = m /\ s.first \in m /\ s.listed \subseteq m
    BY <1>1 DEF StacksOf
<1>3. IsFiniteSet(m) /\ m \subseteq Nat
    BY FS_Subset, InventoryAssumption
<1>4. \A f \in m : \E n \in m : n # f
    <2>1. IsFiniteSet(m) /\ Cardinality(m) >= 2
        BY <1>1, <1>3
    <2> QED
        BY <2>1, TwoMembers
<1> QED
    BY <1>1, <1>2, <1>3, <1>4 DEF IsStack

LEMMA HuaweiStack ==
    ASSUME NEW s \in HuaweiStacks
    PROVE  IsStack(s) /\ s.of \subseteq Slots
<1>1. PICK m \in SUBSET Slots : Cardinality(m) >= 2 /\ s \in StacksOf(m, SUBSET m)
    BY DEF HuaweiStacks
<1>2. s.of = m /\ s.first \in m /\ s.listed \subseteq m
    BY <1>1 DEF StacksOf
<1>3. IsFiniteSet(m) /\ m \subseteq Nat
    BY FS_Subset, InventoryAssumption
<1>4. \A f \in m : \E n \in m : n # f
    <2>1. IsFiniteSet(m) /\ Cardinality(m) >= 2
        BY <1>1, <1>3
    <2> QED
        BY <2>1, TwoMembers
<1> QED
    BY <1>2, <1>3, <1>4 DEF IsStack

LEMMA ClusterStack ==
    ASSUME NEW s \in Clusters
    PROVE  IsStack(s) /\ s.of = 1..2 /\ s.first = 1
<1>1. s.of = 1..2 /\ s.first = 1 /\ s.listed = 1..2
    BY DEF Clusters
<1>2. IsFiniteSet(1..2)
    <2>1. \A a, b \in Int : IsFiniteSet(a..b)
        BY FS_Interval
    <2>2. 1 \in Int /\ 2 \in Int
        OBVIOUS
    <2> QED
        BY <2>1, <2>2, Zenon
<1>3. 2 \in 1..2 /\ 1 \in 1..2 /\ 2 # 1 /\ 1..2 \subseteq Nat
    OBVIOUS
<1> QED
    BY <1>1, <1>2, <1>3 DEF IsStack
-----------------------------------------------------------------------------
\* The units made of a stack: its members, each with a number of its own, one master,
\* and a serial number of the stack, or none; Of(n) is what a page calls member n.
UnitsTell(v, s, units) ==
    \E U, F :
       /\ IsLine(U, F, s.of, s.first) /\ units = {U[n] : n \in s.of}
       /\ \A n \in s.of :
             /\ U[n].role \in {"Master", "Standby"}
             /\ U[n].serial \in s.of \cup {Unknown}
             /\ v = "fortinet" => U[n].serial = n
             /\ v = "huawei" => F[n] = n + (IF 0 \in s.of THEN 1 ELSE 0)
             /\ v \notin {"fortinet", "huawei"} => F[n] = n
             /\ Attributable(v, s) => U[n].serial \in {n, Unknown}

LEMMA Role ==
    ASSUME NEW s, NEW n
    PROVE  RoleOf(s, n) \in {"Master", "Standby"} /\ (RoleOf(s, n) = "Master" <=> n = s.first)
BY DEF RoleOf

LEMMA FortiTell ==
    ASSUME NEW s \in Clusters
    PROVE  UnitsTell("fortinet", s, FortiUnits(s))
<1>1. s.of = 1..2 /\ s.first = 1
    BY ClusterStack
<1>2. PICK F : F = [n \in s.of |-> IF n = s.first THEN 1 ELSE 2]
    OBVIOUS
<1>3. PICK U : U = [n \in s.of |-> Unit(IF n = s.first THEN 1 ELSE 2, RoleOf(s, n), n, s.names[n])]
    OBVIOUS
<1>4. \A n \in s.of : U[n].num = F[n] /\ U[n].role = RoleOf(s, n) /\ U[n].serial = n
    BY <1>2, <1>3 DEF Unit
<1>5. IsLine(U, F, s.of, s.first)
    <2>1. F \in [s.of -> Nat] /\ \A n \in s.of : F[n] = n
        BY <1>1, <1>2
    <2> QED
        BY <1>4, <2>1, Role DEF IsLine
<1>6. FortiUnits(s) = {U[n] : n \in s.of}
    BY <1>3 DEF FortiUnits
<1> QED
    BY <1>1, <1>4, <1>5, <1>6, Role DEF UnitsTell

\* Where slots are printed with their own numbers, a unit finds its own.
LEMMA Offsets ==
    ASSUME NEW s, IsStack(s)
    PROVE  /\ Offset(s.of) = (IF 0 \in s.of THEN 1 ELSE 0)
           /\ s.listed # {} /\ 0 \notin s.of => Offset(s.listed) = 0
<1>1. ASSUME NEW m, m \subseteq Nat, IsFiniteSet(m), m # {} PROVE Offset(m) = (IF 0 \in m THEN 1 ELSE 0)
    <2>1. m \subseteq Int
        BY <1>1
    <2>2. Min(m) \in m /\ \A k \in m : Min(m) <= k
        BY <1>1, <2>1, Least
    <2>3. CASE 0 \in m
        <3>1. Min(m) \in Nat /\ Min(m) <= 0
            BY <1>1, <2>2, <2>3
        <3> QED
            BY <2>3, <3>1 DEF Offset
    <2>4. CASE 0 \notin m
        <3>1. Min(m) \in Nat /\ Min(m) # 0
            BY <1>1, <2>2, <2>4
        <3> QED
            BY <2>4, <3>1 DEF Offset
    <2> QED
        BY <2>3, <2>4
<1>2. s.of \subseteq Nat /\ IsFiniteSet(s.of) /\ s.of # {} /\ s.listed \subseteq s.of
    BY DEF IsStack
<1>3. s.listed \subseteq Nat /\ IsFiniteSet(s.listed)
    BY <1>2, FS_Subset
<1> QED
    BY <1>1, <1>2, <1>3

LEMMA HuaweiTell ==
    ASSUME NEW s \in HuaweiStacks
    PROVE  UnitsTell("huawei", s, HuaweiUnits(s))
<1>1. /\ IsStack(s) /\ s.of \subseteq Nat /\ s.listed \subseteq s.of
      /\ \A n \in s.of : n \in Nat
    BY HuaweiStack DEF IsStack
<1>2. PICK o \in {0, 1} : o = Offset(s.of) /\ o = (IF 0 \in s.of THEN 1 ELSE 0)
    BY <1>1, Offsets
<1>3. PICK F : F = [n \in s.of |-> n + o]
    OBVIOUS
<1>4. PICK U : U = [n \in s.of |-> Unit(n + o, RoleOf(s, n), SlotOf(n + o, s.listed), NoName)]
    OBVIOUS
<1>5. \A n \in s.of : U[n].num = F[n] /\ U[n].role = RoleOf(s, n) /\ U[n].serial = SlotOf(n + o, s.listed)
    BY <1>3, <1>4 DEF Unit
<1>6. IsLine(U, F, s.of, s.first)
    <2>1. F \in [s.of -> Nat] /\ \A n \in s.of : F[n] = n + o
        BY <1>1, <1>3
    <2>2. ASSUME NEW n \in s.of, NEW m \in s.of, F[n] = F[m] PROVE n = m
        BY <1>1, <2>1, <2>2
    <2> QED
        BY <1>5, <2>1, <2>2, Role DEF IsLine
<1>7. HuaweiUnits(s) = {U[n] : n \in s.of}
    BY <1>2, <1>4 DEF HuaweiUnits
<1>8. ASSUME NEW n \in s.of
      PROVE  /\ SlotOf(n + o, s.listed) \in s.of \cup {Unknown}
             /\ Attributable("huawei", s) => SlotOf(n + o, s.listed) \in {n, Unknown}
    <2>1. SlotOf(n + o, s.listed) \in s.listed \cup {Unknown}
        BY DEF SlotOf
    <2>2. CASE s.listed = s.of
        <3>1. Offset(s.listed) = o /\ s.listed # {} /\ n \in s.listed /\ (n + o) - o = n
            <4>1. Offset(s.listed) = o
                BY <1>2, <2>2
            <4>2. n \in Nat /\ o \in Nat
                BY <1>1, <1>2
            <4> QED
                BY <2>2, <4>1, <4>2
        <3>2. SlotOf(n + o, s.listed) = n
            BY <3>1 DEF SlotOf
        <3> QED
            BY <2>1, <2>2, <3>2
    <2>3. CASE 0 \notin s.of
        <3>1. o = 0 /\ (s.listed # {} => Offset(s.listed) = 0)
            BY <1>1, <1>2, <2>3, Offsets
        <3>2. n + o = n /\ n - 0 = n
            BY <1>1, <3>1
        <3>3. SlotOf(n + o, s.listed) \in {n, Unknown}
            BY <3>1, <3>2 DEF SlotOf
        <3> QED
            BY <1>1, <2>1, <3>3
    <2> QED
        BY <1>1, <2>1, <2>2, <2>3 DEF Attributable
<1>9. \A n \in s.of : F[n] = n + (IF 0 \in s.of THEN 1 ELSE 0)
    BY <1>2, <1>3
<1> QED
    BY <1>5, <1>6, <1>7, <1>8, <1>9, Role DEF UnitsTell

LEMMA CiscoTell ==
    ASSUME NEW s \in CiscoStacks
    PROVE  UnitsTell("cisco", s, CiscoUnits(s))
<1>1. /\ IsStack(s) /\ s.of \subseteq Int /\ s.of \subseteq Nat /\ IsFiniteSet(s.of) /\ s.of # {}
      /\ s.listed \subseteq s.of /\ s.first \in s.of /\ s.of \ {s.first} \subseteq s.listed
    BY CiscoStack DEF IsStack
<1>2. PICK F : F = [n \in s.of |-> n]
    OBVIOUS
<1>3. PICK U : U = [n \in s.of |-> Unit(n, RoleOf(s, n), Backfilled(s, n), NoName)]
    OBVIOUS
<1>4. \A n \in s.of : U[n].num = F[n] /\ F[n] = n /\ U[n].role = RoleOf(s, n) /\ U[n].serial = Backfilled(s, n)
    BY <1>2, <1>3 DEF Unit
<1>5. IsLine(U, F, s.of, s.first)
    BY <1>1, <1>2, <1>4, Role DEF IsLine
<1>6. CiscoUnits(s) = {U[n] : n \in s.of}
    BY <1>3 DEF CiscoUnits
<1>7. PICK blocks : blocks = Sorted(s.listed \ {s.first})
    OBVIOUS
<1>8. PICK c \in Nat : blocks \in [1..c -> s.of]
    <2> DEFINE S == s.listed \ {s.first}
    <2>1. S \subseteq Int /\ IsFiniteSet(S)
        BY <1>1, FS_Subset
    <2>2. Cardinality(S) \in Nat /\ Sorted(S) \in [1..Cardinality(S) -> S]
        BY <2>1, SortedTells
    <2> QED
        BY <1>1, <1>7, <2>2
<1>9. PICK printed : printed = <<s.first>> \o blocks
    OBVIOUS
<1>10. /\ Len(printed) = c + 1 /\ printed[1] = s.first
       /\ \A k \in 1..Len(printed) : printed[k] \in s.of
    <2>2. blocks \in Seq(s.of) /\ Len(blocks) = c
        BY <1>8
    <2>3. /\ Len(printed) = c + 1 /\ printed[1] = s.first
          /\ \A i \in 1..c : printed[i + 1] = blocks[i]
        BY <1>1, <1>9, <2>2, Headed
    <2>4. ASSUME NEW k \in 1..c + 1, k # 1 PROVE printed[k] \in s.of
        <3>1. k - 1 \in 1..c /\ (k - 1) + 1 = k
            BY <2>4
        <3> QED
            BY <1>8, <2>3, <3>1
    <2> QED
        BY <1>1, <2>3, <2>4
<1>11. ASSUME NEW n \in s.of
       PROVE  /\ Backfilled(s, n) \in s.of \cup {Unknown}
              /\ Attributable("cisco", s) => Backfilled(s, n) = n
    <2>1. PICK i : i = Position(s.of, n)
        OBVIOUS
    <2>2. i \in 1..Cardinality(s.of) /\ i \in Nat \ {0}
        BY <1>1, <2>1, Places
    <2>3. Backfilled(s, n) = CASE n \in s.listed -> n
                               [] n \notin s.listed /\ i <= Len(printed) -> printed[i]
                               [] n \notin s.listed /\ i > Len(printed) ->
                                     IF n = s.first THEN printed[1] ELSE Unknown
        BY <1>7, <1>9, <2>1 DEF Backfilled
    <2>4. CASE n \in s.listed
        BY <2>3, <2>4
    <2>5. CASE n \notin s.listed
        <3>1. n = s.first
            BY <1>1, <2>5
        <3>2. CASE i <= Len(printed)
            <4>1. i \in 1..Len(printed) /\ Backfilled(s, n) = printed[i]
                BY <1>10, <2>2, <2>3, <2>5, <3>2
            <4>2. ASSUME Attributable("cisco", s) PROVE i = 1
                <5>1. n = Min(s.of)
                    BY <2>5, <3>1, <4>2 DEF Attributable
                <5> QED
                    BY <1>1, <2>1, <5>1, Least
            <4> QED
                BY <1>10, <3>1, <4>1, <4>2
        <3>3. CASE i > Len(printed)
            BY <1>10, <2>2, <2>3, <2>5, <3>1, <3>3
        <3> QED
            BY <1>10, <2>2, <3>2, <3>3
    <2> QED
        BY <2>4, <2>5
<1> QED
    BY <1>4, <1>5, <1>6, <1>11, Role DEF UnitsTell
-----------------------------------------------------------------------------
\* What is kept of a device, and what the device meant.
MembersKept(c, t) ==
    /\ c.host \in HostNames
    /\ \/ (t.stack = NoStack /\ c.units = {})
       \/ /\ IsStack(t.stack) /\ t.stack.of \subseteq Slots \cup 1..2
          /\ UnitsTell(c.vendor, t.stack, c.units)

InventoryInv ==
    /\ DOMAIN catalog = Devices /\ DOMAIN meant = Devices
    /\ \A d \in Devices : catalog[d] # NoDevice => MembersKept(catalog[d], meant[d])

LEMMA BackupInv ==
    ASSUME InventoryInv, NEW d \in Devices, NEW vendor, NEW host \in HostNames, NEW t, Backup(d, vendor, host, t),
           \/ t.stack = NoStack
           \/ (vendor = "fortinet" /\ t.stack \in Clusters)
           \/ (vendor = "cisco" /\ t.stack \in CiscoStacks)
           \/ (vendor = "huawei" /\ t.stack \in HuaweiStacks)
    PROVE  InventoryInv'
<1>1. PICK c : /\ c = [vendor |-> vendor, host |-> host, cdp |-> Printed(t.cdpForm, t.cdp),
                       lldp |-> Printed(t.lldpForm, t.lldp), units |-> Units(vendor, t.stack)]
    OBVIOUS
<1>2. c.vendor = vendor /\ c.host = host /\ c.units = Units(vendor, t.stack)
    BY <1>1
<1>3. catalog' = [catalog EXCEPT ![d] = c] /\ meant' = [meant EXCEPT ![d] = t]
    BY <1>1 DEF Backup
<1>4. PICK s : s = t.stack
    OBVIOUS
<1>5. ASSUME s = NoStack PROVE MembersKept(c, t)
    <2>1. s.of = {}
        BY <1>5 DEF NoStack
    <2>2. Units(vendor, s) = {}
        BY <2>1 DEF Units, CiscoUnits, HuaweiUnits, FortiUnits
    <2> QED
        BY <1>2, <1>4, <1>5, <2>2 DEF MembersKept
<1>6. ASSUME s # NoStack PROVE MembersKept(c, t)
    <2>1. \/ (vendor = "fortinet" /\ s \in Clusters)
          \/ (vendor = "cisco" /\ s \in CiscoStacks)
          \/ (vendor = "huawei" /\ s \in HuaweiStacks)
        BY <1>4, <1>6
    <2>2. IsStack(s) /\ s.of \subseteq Slots \cup 1..2 /\ s.of # {}
        BY <2>1, ClusterStack, CiscoStack, HuaweiStack DEF IsStack
    <2>3. UnitsTell(vendor, s, Units(vendor, s))
        BY <2>1, <2>2, FortiTell, CiscoTell, HuaweiTell DEF Units
    <2> QED
        BY <1>2, <1>4, <2>2, <2>3 DEF MembersKept
<1>7. MembersKept(c, t)
    BY <1>5, <1>6
<1> QED
    BY <1>3, <1>7 DEF InventoryInv

THEOREM InventoryInitInv == InventoryInit => InventoryInv
BY DEF InventoryInit, InventoryInv

THEOREM InventoryNextInv == InventoryInv /\ [InventoryNext]_inventoryVars => InventoryInv'
<1> SUFFICES ASSUME InventoryInv, [InventoryNext]_inventoryVars PROVE InventoryInv'
    OBVIOUS
<1>1. NoTruth.stack = NoStack
    BY DEF NoTruth
<1>2. ASSUME NEW s PROVE [NoTruth EXCEPT !.stack = s].stack = s
    BY DEF NoTruth
<1>3. ASSUME NEW cf, NEW cdp, NEW lf, NEW lldp
      PROVE  [NoTruth EXCEPT !.cdpForm = cf, !.cdp = cdp, !.lldpForm = lf, !.lldp = lldp].stack = NoStack
    BY DEF NoTruth
<1>4. ASSUME NEW d \in Devices, NEW host \in HostNames, Backup(d, "other", host, NoTruth)
      PROVE  InventoryInv'
    BY <1>1, <1>4, BackupInv
<1>5. ASSUME NEW d \in Devices, NEW host \in HostNames, NEW s \in Clusters,
             Backup(d, "fortinet", host, [NoTruth EXCEPT !.stack = s])
      PROVE  InventoryInv'
    <2>1. PICK t : t = [NoTruth EXCEPT !.stack = s]
        OBVIOUS
    <2>2. t.stack = s /\ Backup(d, "fortinet", host, t)
        BY <1>2, <1>5, <2>1
    <2> QED
        BY <2>2, BackupInv
<1>6. ASSUME NEW d \in Subjects, NEW vendor \in {"cisco", "huawei", "other"}, NEW host \in HostNames,
             NEW s \in Stacks(vendor), Backup(d, vendor, host, [NoTruth EXCEPT !.stack = s])
      PROVE  InventoryInv'
    <2>1. PICK t : t = [NoTruth EXCEPT !.stack = s]
        OBVIOUS
    <2>2. t.stack = s /\ Backup(d, vendor, host, t)
        BY <1>2, <1>6, <2>1
    <2>3. (vendor = "cisco" /\ s \in CiscoStacks) \/ (vendor = "huawei" /\ s \in HuaweiStacks)
        BY <1>6 DEF Stacks
    <2>4. d \in Devices
        BY InventoryAssumption DEF Devices
    <2> QED
        BY <2>2, <2>3, <2>4, BackupInv
<1>7. ASSUME NEW d \in Subjects, NEW vendor, NEW host \in HostNames, NEW cf, NEW cdp, NEW lf, NEW lldp,
             Backup(d, vendor, host, [NoTruth EXCEPT !.cdpForm = cf, !.cdp = cdp, !.lldpForm = lf, !.lldp = lldp])
      PROVE  InventoryInv'
    <2>1. PICK t : t = [NoTruth EXCEPT !.cdpForm = cf, !.cdp = cdp, !.lldpForm = lf, !.lldp = lldp]
        OBVIOUS
    <2>2. t.stack = NoStack /\ Backup(d, vendor, host, t)
        BY <1>3, <1>7, <2>1
    <2>3. d \in Devices
        BY InventoryAssumption DEF Devices
    <2> QED
        BY <2>2, <2>3, BackupInv
<1>8. ASSUME NEW d \in Devices, Forget(d) PROVE InventoryInv'
    <2>1. catalog' = [catalog EXCEPT ![d] = NoDevice] /\ meant' = [meant EXCEPT ![d] = NoTruth]
        BY <1>8 DEF Forget
    <2> QED
        BY <2>1 DEF InventoryInv
<1>9. CASE UNCHANGED inventoryVars
    BY <1>9 DEF inventoryVars, InventoryInv
<1>10. CASE \E d \in Subjects, vendor \in {"cisco", "huawei", "other"}, host \in HostNames :
               \E cf, cdp, lf, lldp :
                   Backup(d, vendor, host, [NoTruth EXCEPT !.cdpForm = cf, !.cdp = cdp,
                                                           !.lldpForm = lf, !.lldp = lldp])
    BY <1>7, <1>10
<1>11. CASE \E d \in Subjects, vendor \in {"cisco", "huawei", "other"}, host \in HostNames :
               \E s \in Stacks(vendor) : Backup(d, vendor, host, [NoTruth EXCEPT !.stack = s])
    BY <1>6, <1>11
<1>12. CASE \E d \in Devices, host \in HostNames :
               \/ Backup(d, "other", host, NoTruth)
               \/ \E s \in Clusters : Backup(d, "fortinet", host, [NoTruth EXCEPT !.stack = s])
    BY <1>4, <1>5, <1>12
<1>13. CASE InventoryNext
    BY <1>8, <1>10, <1>11, <1>12, <1>13 DEF InventoryNext
<1> QED
    BY <1>9, <1>13

LEMMA InventoryTyped == ASSUME InventoryInv PROVE InventoryTypeOK
<1> SUFFICES ASSUME NEW d \in Known
             PROVE  /\ catalog[d].host \in HostNames
                    /\ \A u \in catalog[d].units :
                          u.num \in Nat /\ u.role \in {"Master", "Standby"} /\ u.serial \in Slots \cup 1..2 \cup {Unknown}
                    /\ Cardinality(catalog[d].units) # 1
                    /\ \A u, v \in catalog[d].units : u.num = v.num => u = v
    BY DEF InventoryTypeOK
<1>1. MembersKept(catalog[d], meant[d])
    BY DEF InventoryInv, Known
<1>2. PICK units : units = catalog[d].units
    OBVIOUS
<1>3. CASE units = {}
    BY <1>1, <1>2, <1>3, FS_EmptySet DEF MembersKept
<1>4. CASE units # {}
    <2>1. PICK s : IsStack(s) /\ s.of \subseteq Slots \cup 1..2 /\ UnitsTell(catalog[d].vendor, s, units)
        BY <1>1, <1>2, <1>4 DEF MembersKept
    <2>2. PICK U, F : /\ IsLine(U, F, s.of, s.first) /\ units = {U[n] : n \in s.of}
                      /\ \A n \in s.of : U[n].role \in {"Master", "Standby"} /\ U[n].serial \in s.of \cup {Unknown}
        BY <2>1 DEF UnitsTell
    <2>3. \A u \in units : u.num \in Nat /\ u.role \in {"Master", "Standby"} /\ u.serial \in Slots \cup 1..2 \cup {Unknown}
        BY <2>1, <2>2 DEF IsLine
    <2>4. \A u, v \in units : u.num = v.num => u = v
        BY <2>2 DEF IsLine
    <2>5. Cardinality(units) # 1
        <3>1. PICK n \in s.of : n # s.first /\ s.first \in s.of
            BY <2>1 DEF IsStack
        <3>2. U[n] \in units /\ U[s.first] \in units /\ U[n] # U[s.first]
            BY <2>2, <3>1 DEF IsLine
        <3>3. IsFiniteSet(units)
            <4> DEFINE G == [m \in s.of |-> U[m]]
            <4>1. G \in Surjection(s.of, units)
                BY <2>2 DEF Surjection
            <4>2. IsFiniteSet(s.of)
                BY <2>1 DEF IsStack
            <4> QED
                BY <4>1, <4>2, FS_Surjection
        <3> QED
            BY <3>2, <3>3, FS_Singleton
    <2> QED
        BY <1>1, <1>2, <2>3, <2>4, <2>5 DEF MembersKept
<1> QED
    BY <1>3, <1>4

LEMMA MembersShown == ASSUME InventoryInv PROVE MembersAsPrinted
<1> SUFFICES ASSUME NEW d \in Known, meant[d].stack # NoStack
             PROVE  LET s == meant[d].stack
                        v == catalog[d].vendor
                        rows == RowsOf(d)
                        Member(r) == CASE v = "fortinet" -> r.serial
                                       [] v = "huawei" -> r.num - (IF 0 \in s.of THEN 1 ELSE 0)
                                       [] OTHER -> r.num
                    IN  /\ {Member(rows[i]) : i \in DOMAIN rows} = s.of /\ Len(rows) = Cardinality(s.of)
                        /\ \A i \in DOMAIN rows : rows[i].anchor <=> i = 1
                        /\ Member(rows[1]) = s.first
                        /\ Attributable(v, s) =>
                              \A i \in DOMAIN rows : rows[i].serial \in {Unknown, Member(rows[i])}
    BY DEF MembersAsPrinted
<1> DEFINE s == meant[d].stack
           v == catalog[d].vendor
           rows == RowsOf(d)
           Member(r) == CASE v = "fortinet" -> r.serial
                          [] v = "huawei" -> r.num - (IF 0 \in s.of THEN 1 ELSE 0)
                          [] OTHER -> r.num
<1>1. IsStack(s) /\ UnitsTell(v, s, catalog[d].units)
    BY DEF InventoryInv, Known, MembersKept
<1>2. PICK U, F : /\ IsLine(U, F, s.of, s.first) /\ catalog[d].units = {U[n] : n \in s.of}
                  /\ \A n \in s.of :
                        /\ v = "fortinet" => U[n].serial = n
                        /\ v = "huawei" => F[n] = n + (IF 0 \in s.of THEN 1 ELSE 0)
                        /\ v \notin {"fortinet", "huawei"} => F[n] = n
                        /\ Attributable(v, s) => U[n].serial \in {n, Unknown}
    BY <1>1 DEF UnitsTell
<1>3. s.of \subseteq Int /\ s.of \subseteq Nat /\ IsFiniteSet(s.of) /\ s.first \in s.of
    BY <1>1 DEF IsStack
<1>4. PICK k \in Nat : k = Cardinality(s.of) /\ 1 <= k
    BY <1>3, FS_CardinalityType, FS_EmptySet
<1>5. PICK P \in [1..k -> s.of] :
              /\ P[1] = s.first /\ \A n \in s.of : \E i \in 1..k : P[i] = n
              /\ Len(rows) = k /\ DOMAIN rows = 1..k
              /\ \A i \in 1..k : rows[i] = Shown(d, U[P[i]], i = 1)
    <2>1. s.first \in s.of /\ IsLine(U, F, s.of, s.first) /\ catalog[d].units = {U[n] : n \in s.of}
        BY <1>2, <1>3
    <2>2. RowsOfAll(d, s.of, s.first, U, Cardinality(s.of))
        BY <1>3, <2>1, RowsTell
    <2>3. RowsOfAll(d, s.of, s.first, U, k)
        BY <1>4, <2>2
    <2> QED
        BY <2>3 DEF RowsOfAll
<1> HIDE DEF s, v, rows
<1>6. ASSUME NEW i \in 1..k
      PROVE  /\ Member(rows[i]) = P[i] /\ (rows[i].anchor <=> i = 1)
             /\ Attributable(v, s) => rows[i].serial \in {Unknown, P[i]}
    <2>1. P[i] \in s.of /\ P[i] \in Nat
        BY <1>3, <1>5
    <2>2. PICK u : u = U[P[i]]
        OBVIOUS
    <2>3. /\ u.num = F[P[i]]
          /\ v = "fortinet" => u.serial = P[i]
          /\ v = "huawei" => F[P[i]] = P[i] + (IF 0 \in s.of THEN 1 ELSE 0)
          /\ v \notin {"fortinet", "huawei"} => F[P[i]] = P[i]
          /\ Attributable(v, s) => u.serial \in {P[i], Unknown}
        BY <1>2, <2>1, <2>2 DEF IsLine
    <2>4. rows[i].num = u.num /\ rows[i].serial = u.serial /\ (rows[i].anchor <=> i = 1)
        <3>1. rows[i] = Shown(d, u, i = 1)
            BY <1>5, <2>2
        <3>2. PICK h : h = IF u.host # NoName THEN u.host ELSE <<catalog[d].host, u.num>>
            OBVIOUS
        <3>3. PICK first \in BOOLEAN : first <=> i = 1
            OBVIOUS
        <3>4. PICK r : r = [device |-> d, num |-> u.num, role |-> u.role, serial |-> u.serial,
                            anchor |-> first, host |-> h]
            OBVIOUS
        <3>5. r.num = u.num /\ r.serial = u.serial /\ r.anchor = first
            BY <3>4
        <3>6. (i = 1) = first
            BY <3>3
        <3>7. rows[i] = r
            BY <3>1, <3>2, <3>4, <3>6, Zenon DEF Shown
        <3> QED
            BY <3>3, <3>5, <3>7
    <2>5. Member(rows[i]) = P[i]
        BY <2>1, <2>3, <2>4
    <2> QED
        BY <2>3, <2>4, <2>5
<1>7. {Member(rows[i]) : i \in 1..k} = s.of
    BY <1>5, <1>6
<1>8. 1 \in 1..k
    BY <1>4
<1>9. Member(rows[1]) = s.first
    BY <1>5, <1>6, <1>8
<1> QED
    BY <1>4, <1>5, <1>6, <1>7, <1>9 DEF s, v, rows

\* The stack pages show the members the device printed (stack.py:109-149, 307-343;
\* index_db.py:507-612): for any numbers of members, any blocks of theirs that are
\* printed, and any sequence of backups and retentions.
THEOREM MembersAlways == InventorySpec => []MembersAsPrinted
BY InventoryInitInv, InventoryNextInv, MembersShown, PTL DEF InventorySpec

-----------------------------------------------------------------------------
(* The types of the portal: the bounds the invariants above leave open.    *)

AccountsBounds ==
    /\ now \in 0..MaxTime /\ restarts \in 0..MaxRestarts
    /\ failed \in [Names -> Seq(0..MaxTime)]

LEMMA AccountsBoundsStep ==
    ASSUME AccountsBounds, [AccountsNext]_accountVars
    PROVE  AccountsBounds'
<1>1. \A n \in Names : failed[n] \in Seq(0..MaxTime)
    BY DEF AccountsBounds
<1>2. <<>> \in Seq(0..MaxTime) /\ \A s \in Seq(0..MaxTime) : Recent(Append(s, now)) \in Seq(0..MaxTime)
    <2>1. ASSUME NEW s \in Seq(0..MaxTime) PROVE Recent(Append(s, now)) \in Seq(0..MaxTime)
        <3>1. PICK r : r = Append(s, now)
            OBVIOUS
        <3>2. r \in Seq(0..MaxTime) /\ r # <<>>
            BY <3>1 DEF AccountsBounds
        <3>3. Tail(r) \in Seq(0..MaxTime)
            BY <3>2
        <3> QED
            BY <3>1, <3>2, <3>3 DEF Recent
    <2> QED
        BY <2>1
<1>3. \/ failed' = failed
      \/ failed' = [n \in Names |-> <<>>]
      \/ \E n \in Names : failed' = [failed EXCEPT ![n] = <<>>]
      \/ \E n \in Names : failed' = [failed EXCEPT ![n] = Recent(Append(@, now))]
    BY DEF AccountsNext, LoginAccount, LoginEnv, LoginFails, LoginLocked, Logout, ChangePassword, ChangeCreates,
           ChangeCut, AdminCreates, AdminToggles, AdminSetsPassword, AdminSetsRole, Second, Restart, accountVars
<1>4. failed' \in [Names -> Seq(0..MaxTime)]
    BY <1>1, <1>2, <1>3 DEF AccountsBounds
<1>5. /\ now' = now \/ (now < MaxTime /\ now' = now + 1)
      /\ restarts' = restarts \/ (restarts < MaxRestarts /\ restarts' = restarts + 1)
    BY DEF AccountsNext, LoginAccount, LoginEnv, LoginFails, LoginLocked, Logout, ChangePassword, ChangeCreates,
           ChangeCut, AdminCreates, AdminToggles, AdminSetsPassword, AdminSetsRole, Second, Restart, accountVars
<1> QED
    BY <1>4, <1>5, AccountsAssumption DEF AccountsBounds

LEMMA AccountsTyped ==
    ASSUME AccountsInv, LimiterInv, AccountsBounds
    PROVE  AccountsTypeOK
BY DEF AccountsInv, TableOK, LimiterInv, AccountsBounds, AccountsTypeOK, Account, Cookie, Tries

TokensBounds ==
    clock \in 0..MaxSeconds /\ reboots \in 0..MaxReboots /\ failure \in {Invalid, Expired}

LEMMA TokensBoundsStep ==
    ASSUME TokensBounds, [TokensNext]_tokenVars
    PROVE  TokensBounds'
<1>1. /\ clock' = clock \/ (clock < MaxSeconds /\ clock' = clock + 1)
      /\ reboots' = reboots \/ (reboots < MaxReboots /\ reboots' = reboots + 1)
      /\ failure' \in {failure, Invalid, Expired}
    BY DEF TokensNext, CreateToken, Deactivate, Ask, Configured, Select, VerifyFails, Report, Verifies,
           ReadsClock, Checks, Sets, Stamps, Touch, TouchFails, Grant, Served, Passes, Reboot, tokenVars
<1> QED
    BY <1>1, TokensAssumption DEF TokensBounds

LEMMA TokensWellTyped ==
    ASSUME TokensInv, UseInv, TokensBounds
    PROVE  TokensTypeOK
<1>1. /\ tokens \in Seq(Token) /\ clock \in Nat /\ req \in [Threads -> Request] /\ Issued \subseteq Keys
      /\ \A t \in Threads : /\ req[t] \in Request /\ req[t].key \in Issued \cup {NoToken}
                            /\ req[t].mono \in Nat /\ req[t].stamp \in Nat
                            /\ req[t].mono <= clock /\ req[t].stamp <= clock
      /\ touched \in [Keys -> Nat] /\ used \in [Keys -> Nat]
    BY UseTypes
<1>2. MaxSeconds \in Nat /\ clock <= MaxSeconds
    BY TokensAssumption DEF TokensBounds
<1>3. \A k \in Keys : touched[k] <= clock /\ used[k] <= clock
    BY <1>1 DEF UseInv
<1>4. touched \in [Keys -> 0..MaxSeconds] /\ used \in [Keys -> 0..MaxSeconds]
    BY <1>1, <1>2, <1>3
<1>5. DEFINE R == [at : {"free", "configured", "select", "verify", "report", "clock", "check", "set",
                         "stamp", "touch", "grant", "served"},
                   key : Issued \cup {NoToken}, route : {"", "inventory", "switchmap"},
                   row : BOOLEAN, mono : 0..MaxSeconds, stamp : 0..MaxSeconds, entitled : BOOLEAN]
<1>6. ASSUME NEW t \in Threads PROVE req[t] \in R
    <2>1. req[t].mono \in 0..MaxSeconds /\ req[t].stamp \in 0..MaxSeconds
        BY <1>1, <1>2
    <2> QED
        BY <1>1, <2>1, Zenon DEF Request
<1>7. req \in [Threads -> R]
    BY <1>1, <1>6
<1> QED
    BY <1>1, <1>4, <1>7 DEF TokensTypeOK, TokensBounds, UseInv, Token

\* A draft and a schedule, with the texts T there may be.
FitsDraft(d, made, hr, T) ==
    /\ d.ok \subseteq d.hosts /\ d.edit \in 0..made /\ d.hour \in 0..hr
    /\ d.pass \in T /\ d.enable \in T
FitsPlan(p, T) == p # NoPlan => p.hosts # {} /\ p.pass \in T /\ p.enable \in T

DraftsBounds ==
    /\ override \in Overrides \cup {NoKey} /\ stored \in 0..keysMade /\ keysMade \in Nat
    /\ hour \in 0..MaxHours /\ starts \in 0..MaxStarts
    /\ \A d \in 1..MaxDrafts : FitsDraft(drafts[d], nPlans, hour, Texts)
    /\ \A p \in 1..MaxPlans : FitsPlan(plans[p], Texts)
    /\ pending # Idle => pending.hosts # {} /\ pending.edit \in 0..nPlans

\* Keys are only added: a text stays one.
LEMMA TextsGrow ==
    ASSUME keysMade \in Nat, keysMade' \in Nat, keysMade <= keysMade'
    PROVE  Texts \subseteq Texts'
<1>1. 0..keysMade \subseteq 0..keysMade'
    OBVIOUS
<1> QED
    BY <1>1 DEF Texts, Overrides

LEMMA NoTextFits == ASSUME keysMade \in Nat PROVE NoText \in Texts
BY DraftsAssumption DEF Texts, NoText, NoKey

\* What a write makes of the key, and what it encrypts with it.
LEMMA EnsuresFits ==
    ASSUME DraftsBounds, Ensures, starts' = starts, override' = override
    PROVE  /\ keysMade' \in Nat /\ stored' \in 0..keysMade' /\ Texts \subseteq Texts'
           /\ \A g \in BOOLEAN : Encrypted(g, stored') \in Texts'
<1>1. keysMade \in Nat /\ stored \in 0..keysMade /\ MaxStarts \in Nat
    BY DraftsAssumption DEF DraftsBounds
<1>2. keysMade' \in Nat /\ keysMade <= keysMade' /\ stored' \in 0..keysMade'
    BY <1>1 DEF Ensures
<1>3. Texts \subseteq Texts'
    BY <1>1, <1>2, TextsGrow
<1>4. NoText \in Texts'
    BY <1>1, <1>3, NoTextFits
<1>5. ActiveOf(stored') \in Overrides \cup 0..keysMade'
    BY <1>1, <1>2 DEF ActiveOf, DraftsBounds, NoKey
<1>6. [key |-> ActiveOf(stored'), start |-> starts] \in Texts'
    BY <1>5 DEF Texts, DraftsBounds, Overrides
<1> QED
    BY <1>2, <1>3, <1>4, <1>6 DEF Encrypted

LEMMA NothingFits ==
    ASSUME NEW T, NoText \in T, NEW n \in Nat, NEW h \in Nat
    PROVE  FitsDraft(NoDraft, n, h, T) /\ FitsPlan(NoPlan, T)
BY DEF FitsDraft, FitsPlan, NoDraft

LEMMA FitsMore ==
    ASSUME NEW T, NEW U, T \subseteq U, NEW m \in Nat, NEW n \in Nat, NEW h \in Nat, NEW k \in Nat, m <= n, h <= k
    PROVE  /\ \A d : FitsDraft(d, m, h, T) => FitsDraft(d, n, k, U)
           /\ \A p : FitsPlan(p, T) => FitsPlan(p, U)
BY DEF FitsDraft, FitsPlan

LEMMA UploadBounds ==
    ASSUME DraftsTyped, DraftsBounds, NEW hosts \in (SUBSET Hosts) \ {{}}, NEW enable \in BOOLEAN,
           NEW edit \in PlanIds \cup {0}, NEW ok \in SUBSET hosts, Upload(hosts, ok, enable, edit)
    PROVE  DraftsBounds'
<1>1. /\ UNCHANGED <<override, plans, pending, nPlans, hour, starts>> /\ Ensures
      /\ nPlans \in Nat /\ hour \in Nat /\ keysMade \in Nat
    BY DEF Upload, DraftsTyped, clockVars
<1>2. PICK U : U = Texts'
    OBVIOUS
<1>3. /\ keysMade' \in Nat /\ stored' \in 0..keysMade' /\ Texts \subseteq U
      /\ Encrypted(TRUE, stored') \in U /\ Encrypted(enable, stored') \in U
    BY <1>1, <1>2, EnsuresFits
<1>4. NoText \in U
    BY <1>1, <1>3, NoTextFits
<1>5. ASSUME NEW d \in 1..MaxDrafts PROVE FitsDraft(drafts'[d], nPlans, hour, U)
    <2>1. PICK n : n = [hosts |-> hosts, ok |-> ok, edit |-> edit, hour |-> hour,
                        pass |-> Encrypted(TRUE, stored'), enable |-> Encrypted(enable, stored')]
        OBVIOUS
    <2>2. drafts'[d] \in {n, NoDraft, drafts[d]}
        BY <2>1 DEF Upload
    <2>3. FitsDraft(n, nPlans, hour, U)
        <3>1. edit \in 0..nPlans /\ hour \in 0..hour /\ ok \subseteq hosts
            BY <1>1 DEF PlanIds
        <3> QED
            BY <1>3, <2>1, <3>1 DEF FitsDraft
    <2>4. FitsDraft(NoDraft, nPlans, hour, U) /\ FitsDraft(drafts[d], nPlans, hour, Texts)
        BY <1>1, <1>4, NothingFits DEF DraftsBounds
    <2>5. FitsDraft(drafts[d], nPlans, hour, U)
        BY <1>1, <1>3, <2>4, FitsMore
    <2> QED
        BY <2>2, <2>3, <2>4, <2>5
<1>6. \A p \in 1..MaxPlans : FitsPlan(plans[p], U)
    BY <1>3 DEF DraftsBounds, FitsPlan
<1> QED
    BY <1>1, <1>2, <1>3, <1>5, <1>6 DEF DraftsBounds, Overrides

\* A write of a schedule, with another row or none.
LEMMA WriteBounds ==
    ASSUME DraftsTyped, DraftsBounds, Ensures, UNCHANGED <<override, drafts, hour, starts>>,
           pending' = pending \/ pending' = Idle, nPlans' \in {nPlans, nPlans + 1},
           \A p \in 1..MaxPlans : plans'[p] = plans[p] \/ FitsPlan(plans'[p], Texts')
    PROVE  DraftsBounds'
<1>1. nPlans \in Nat /\ hour \in Nat /\ keysMade \in Nat /\ nPlans' \in Nat /\ nPlans <= nPlans'
    BY DEF DraftsTyped
<1>2. PICK U : U = Texts'
    OBVIOUS
<1>3. keysMade' \in Nat /\ stored' \in 0..keysMade' /\ Texts \subseteq U
    BY <1>2, EnsuresFits
<1>4. \A d \in 1..MaxDrafts : FitsDraft(drafts[d], nPlans', hour, U)
    BY <1>1, <1>3, FitsMore DEF DraftsBounds
<1>5. \A p \in 1..MaxPlans : FitsPlan(plans'[p], U)
    BY <1>2, <1>3 DEF DraftsBounds, FitsPlan
<1>6. pending' # Idle => pending'.hosts # {} /\ pending'.edit \in 0..nPlans'
    BY <1>1 DEF DraftsBounds
<1> QED
    BY <1>2, <1>3, <1>4, <1>5, <1>6 DEF DraftsBounds, Overrides

LEMMA CreateBounds == ASSUME DraftsTyped, DraftsBounds, Create PROVE DraftsBounds'
<1>1. /\ UNCHANGED <<override, drafts, hour, starts>> /\ Ensures /\ pending # Idle
      /\ pending' = Idle /\ nPlans' = nPlans + 1
    BY DEF Create, clockVars
<1>2. PICK n : n = [hosts |-> pending.hosts, enabled |-> TRUE, pass |-> Encrypted(TRUE, stored'),
                    enable |-> Encrypted(pending.enable, stored')]
    OBVIOUS
<1>3. \A p \in 1..MaxPlans : plans'[p] \in {plans[p], n}
    BY <1>2 DEF Create, DraftsTyped
<1>4. pending.enable \in BOOLEAN /\ pending.hosts # {}
    BY <1>1 DEF DraftsTyped, Held, DraftsBounds
<1>5. Encrypted(TRUE, stored') \in Texts' /\ Encrypted(pending.enable, stored') \in Texts'
    BY <1>1, <1>4, EnsuresFits
<1>6. FitsPlan(n, Texts')
    BY <1>2, <1>4, <1>5 DEF FitsPlan
<1> QED
    BY <1>1, <1>3, <1>6, WriteBounds

LEMMA RewrittenFits ==
    ASSUME DraftsTyped, DraftsBounds, Ensures, UNCHANGED <<override, starts>>,
           NEW p \in PlanIds, NEW pass \in BOOLEAN, NEW enable \in BOOLEAN
    PROVE  /\ FitsPlan(Rewritten(p, pass, enable), Texts')
           /\ \A h : h # {} => FitsPlan([Rewritten(p, pass, enable) EXCEPT !.hosts = h], Texts')
<1>1. PICK r \in Plan : r = plans[p]
    BY DraftsAssumption DEF DraftsTyped, PlanIds
<1>2. r.hosts # {} /\ r.pass \in Texts /\ r.enable \in Texts
    <2>1. p \in 1..MaxPlans /\ r # NoPlan
        BY <1>1, DraftsAssumption DEF DraftsTyped, PlanIds
    <2> QED
        BY <1>1, <2>1 DEF DraftsBounds, FitsPlan
<1>3. Texts \subseteq Texts' /\ Encrypted(TRUE, stored') \in Texts'
    BY EnsuresFits
<1>4. PICK a : a = IF pass THEN Encrypted(TRUE, stored') ELSE r.pass
    OBVIOUS
<1>5. PICK b : b = IF enable THEN Encrypted(TRUE, stored') ELSE r.enable
    OBVIOUS
<1>6. PICK q : q = [r EXCEPT !.pass = a, !.enable = b]
    OBVIOUS
<1>7. Rewritten(p, pass, enable) = q
    BY <1>1, <1>4, <1>5, <1>6 DEF Rewritten
<1>8. a \in Texts' /\ b \in Texts'
    BY <1>2, <1>3, <1>4, <1>5
<1>9. q.hosts = r.hosts /\ q.pass = a /\ q.enable = b
      /\ \A h : [q EXCEPT !.hosts = h].pass = a /\ [q EXCEPT !.hosts = h].enable = b
              /\ [q EXCEPT !.hosts = h].hosts = h
    BY <1>6 DEF Plan
<1> QED
    BY <1>2, <1>7, <1>8, <1>9 DEF FitsPlan

LEMMA UpdateBounds == ASSUME DraftsTyped, DraftsBounds, Update PROVE DraftsBounds'
<1>1. /\ UNCHANGED <<override, drafts, hour, starts, nPlans>> /\ Ensures /\ pending # Idle
      /\ pending' = Idle /\ pending.edit \in PlanIds
    BY DEF Update, clockVars
<1>2. pending.enable \in BOOLEAN /\ pending.hosts # {}
    BY <1>1 DEF DraftsTyped, Held, DraftsBounds
<1>3. PICK n : n = [Rewritten(pending.edit, TRUE, pending.enable) EXCEPT !.hosts = pending.hosts]
    OBVIOUS
<1>4. FitsPlan(n, Texts')
    BY <1>1, <1>2, <1>3, RewrittenFits
<1>5. \A p \in 1..MaxPlans : plans'[p] \in {plans[p], n}
    BY <1>3 DEF Update, DraftsTyped
<1> QED
    BY <1>1, <1>4, <1>5, WriteBounds

LEMMA MetaBounds ==
    ASSUME DraftsTyped, DraftsBounds, NEW p \in PlanIds, NEW pass \in BOOLEAN, NEW enable \in BOOLEAN,
           UpdateMeta(p, pass, enable)
    PROVE  DraftsBounds'
<1>1. UNCHANGED <<override, drafts, hour, starts, nPlans, pending>> /\ Ensures
    BY DEF UpdateMeta, clockVars
<1>2. PICK n : n = Rewritten(p, pass, enable)
    OBVIOUS
<1>3. FitsPlan(n, Texts')
    BY <1>1, <1>2, RewrittenFits
<1>4. \A x \in 1..MaxPlans : plans'[x] \in {plans[x], n}
    BY <1>2 DEF UpdateMeta, DraftsTyped
<1> QED
    BY <1>1, <1>3, <1>4, WriteBounds

LEMMA EnableBounds ==
    ASSUME DraftsTyped, DraftsBounds, NEW p \in PlanIds, Enable(p) \/ Delete(p)
    PROVE  DraftsBounds'
<1>1. UNCHANGED <<override, stored, keysMade, drafts, hour, starts, nPlans, pending>>
    BY DEF Enable, Delete, keyVars, clockVars
<1>2. Texts' = Texts
    BY <1>1 DEF Texts, Overrides
<1>3. ASSUME NEW x \in 1..MaxPlans PROVE FitsPlan(plans'[x], Texts)
    <2>1. FitsPlan(plans[x], Texts) /\ plans[x] \in Plan /\ plans \in [1..MaxPlans -> Plan]
        BY DEF DraftsBounds, DraftsTyped
    <2>2. CASE plans'[x] = plans[x] \/ plans'[x] = NoPlan
        BY <2>1, <2>2 DEF FitsPlan
    <2>3. CASE x = p /\ Enable(p)
        <3>1. PICK r \in Plan : r = plans[p] /\ FitsPlan(r, Texts) /\ r # NoPlan
            BY <2>1, <2>3 DEF PlanIds
        <3>2. PICK v : v = ~r.enabled
            OBVIOUS
        <3>3. PICK n : n = [r EXCEPT !.enabled = v]
            OBVIOUS
        <3>4. plans'[x] = n
            BY <2>1, <2>3, <3>1, <3>2, <3>3 DEF Enable
        <3>5. n.hosts = r.hosts /\ n.pass = r.pass /\ n.enable = r.enable
            BY <3>3 DEF Plan
        <3> QED
            BY <3>1, <3>4, <3>5 DEF FitsPlan
    <2>4. plans'[x] = plans[x] \/ plans'[x] = NoPlan \/ (x = p /\ Enable(p))
        BY <2>1 DEF Enable, Delete
    <2> QED
        BY <2>2, <2>3, <2>4
<1> QED
    BY <1>1, <1>2, <1>3 DEF DraftsBounds, Overrides

LEMMA ConfirmBounds == ASSUME DraftsTyped, DraftsBounds, NEW d \in DraftIds, Confirm(d) PROVE DraftsBounds'
<1>1. /\ UNCHANGED <<override, stored, keysMade, plans, hour, starts, nPlans>>
      /\ pending' = Taken(d) /\ drafts' = [drafts EXCEPT ![d] = NoDraft] /\ Chosen(d) # {}
    BY DEF Confirm, keyVars, clockVars
<1>2. Texts' = Texts
    BY <1>1 DEF Texts, Overrides
<1>3. nPlans \in Nat /\ hour \in Nat /\ NoText \in Texts /\ d \in 1..MaxDrafts
    BY DraftsAssumption, NoTextFits DEF DraftsTyped, DraftIds
<1>4. \A x \in 1..MaxDrafts : FitsDraft(drafts'[x], nPlans, hour, Texts)
    <2>1. \A x \in 1..MaxDrafts : drafts'[x] \in {drafts[x], NoDraft}
        BY <1>1 DEF DraftsTyped
    <2> QED
        BY <1>3, <2>1, NothingFits DEF DraftsBounds
<1>5. pending'.hosts # {} /\ pending'.edit \in 0..nPlans
    <2>1. pending'.hosts = Chosen(d) /\ pending'.edit = drafts[d].edit
        BY <1>1 DEF Taken
    <2>2. FitsDraft(drafts[d], nPlans, hour, Texts)
        BY <1>3 DEF DraftsBounds
    <2> QED
        BY <1>1, <2>1, <2>2 DEF FitsDraft
<1> QED
    BY <1>1, <1>2, <1>4, <1>5 DEF DraftsBounds, Overrides

LEMMA OtherBounds ==
    ASSUME DraftsTyped, DraftsBounds,
           \/ WriteFails \/ Hour \/ UNCHANGED draftVars
           \/ \E key \in Overrides \cup {NoKey}, keep \in BOOLEAN : Start(key, keep)
    PROVE  DraftsBounds'
<1>1. /\ keysMade' = keysMade /\ UNCHANGED <<drafts, plans, nPlans>>
      /\ pending' = pending \/ pending' = Idle
      /\ override' = override \/ override' \in Overrides \cup {NoKey}
      /\ stored' \in {stored, NoKey}
      /\ hour' = hour \/ (hour < MaxHours /\ hour' = hour + 1)
      /\ starts' = starts \/ (starts < MaxStarts /\ starts' = starts + 1)
    BY DEF WriteFails, Hour, Start, draftVars, keyVars, clockVars
<1>2. Texts' = Texts
    BY <1>1 DEF Texts, Overrides
<1>3. hour \in Nat /\ hour' \in Nat /\ hour <= hour' /\ hour' \in 0..MaxHours /\ starts' \in 0..MaxStarts
      /\ nPlans \in Nat
    BY <1>1, DraftsAssumption DEF DraftsBounds, DraftsTyped
<1>4. stored' \in 0..keysMade /\ override' \in Overrides \cup {NoKey} /\ keysMade \in Nat
    BY <1>1 DEF DraftsBounds, NoKey
<1>5. \A d \in 1..MaxDrafts : FitsDraft(drafts[d], nPlans, hour', Texts)
    BY <1>3, FitsMore DEF DraftsBounds
<1> QED
    BY <1>1, <1>2, <1>3, <1>4, <1>5 DEF DraftsBounds, Overrides

LEMMA DraftsBoundsStep ==
    ASSUME DraftsTyped, DraftsBounds, [DraftsNext]_draftVars
    PROVE  DraftsBounds'
<1>1. ASSUME NEW hosts \in (SUBSET Hosts) \ {{}}, NEW enable \in BOOLEAN, NEW edit \in PlanIds \cup {0},
             NEW ok \in SUBSET hosts, Upload(hosts, ok, enable, edit)
      PROVE  DraftsBounds'
    BY <1>1, UploadBounds
<1>2. ASSUME NEW d \in DraftIds, Confirm(d) PROVE DraftsBounds'
    BY <1>2, ConfirmBounds
<1>3. ASSUME NEW p \in PlanIds, NEW pass \in BOOLEAN, NEW enable \in BOOLEAN, UpdateMeta(p, pass, enable)
      PROVE  DraftsBounds'
    BY <1>3, MetaBounds
<1>4. ASSUME NEW p \in PlanIds, Enable(p) \/ Delete(p) PROVE DraftsBounds'
    BY <1>4, EnableBounds
<1>5. CASE Create \/ Update
    BY <1>5, CreateBounds, UpdateBounds
<1>6. CASE \/ WriteFails \/ Hour \/ UNCHANGED draftVars
           \/ \E key \in Overrides \cup {NoKey}, keep \in BOOLEAN : Start(key, keep)
    BY <1>6, OtherBounds
<1> QED
    BY <1>1, <1>2, <1>3, <1>4, <1>5, <1>6 DEF DraftsNext

LEMMA DraftsBegin == ASSUME DraftsInit PROVE DraftsBounds
<1>1. keysMade \in Nat /\ nPlans = 0 /\ hour = 0
    BY DEF DraftsInit
<1>2. FitsDraft(NoDraft, nPlans, hour, Texts) /\ FitsPlan(NoPlan, Texts)
    BY <1>1, NoTextFits, NothingFits
<1>3. (\A d \in 1..MaxDrafts : drafts[d] = NoDraft) /\ \A p \in 1..MaxPlans : plans[p] = NoPlan
    BY DEF DraftsInit
<1>4. override = NoKey /\ stored \in 0..keysMade /\ hour \in 0..MaxHours /\ starts \in 0..MaxStarts /\ pending = Idle
    BY DraftsAssumption DEF DraftsInit, NoKey
<1> QED
    BY <1>1, <1>2, <1>3, <1>4 DEF DraftsBounds

LEMMA DraftsWellTyped ==
    ASSUME DraftsInv, DraftsBounds
    PROVE  DraftsTypeOK
<1>1. DraftsTyped /\ (pending # Idle => pending.draft \in 1..nDrafts)
    BY DEF DraftsInv, OnceInv
<1>2. ASSUME NEW d \in DraftIds
      PROVE  /\ drafts[d].ok \subseteq drafts[d].hosts /\ drafts[d].hosts \subseteq Hosts
             /\ drafts[d].pass \in Texts /\ drafts[d].enable \in Texts
             /\ drafts[d].edit \in 0..nPlans /\ drafts[d].hour \in 0..hour
    <2>1. d \in 1..MaxDrafts /\ drafts[d] \in Draft
        BY <1>1, DraftsAssumption DEF DraftsTyped, DraftIds
    <2> QED
        BY <2>1 DEF DraftsBounds, FitsDraft, Draft
<1>3. ASSUME NEW p \in PlanIds
      PROVE  /\ plans[p].hosts \in (SUBSET Hosts) \ {{}}
             /\ plans[p].pass \in Texts \ {NoText} /\ plans[p].enable \in Texts
    <2>1. p \in 1..MaxPlans /\ plans[p] \in Plan /\ plans[p] # NoPlan
        BY <1>1, DraftsAssumption DEF DraftsTyped, PlanIds
    <2>2. plans[p].pass # NoText
        BY DEF DraftsInv, KeyInv
    <2> QED
        BY <2>1, <2>2 DEF DraftsBounds, FitsPlan, Plan
<1>4. pending.draft \in 0..nDrafts /\ pending.edit \in 0..nPlans
    BY <1>1 DEF DraftsTyped, DraftsBounds, Idle
<1> QED
    BY <1>1, <1>2, <1>3, <1>4 DEF DraftsTypeOK, DraftsBounds, DraftsTyped

LEMMA AccountsBegin == ASSUME AccountsInit PROVE AccountsBounds
<1>1. <<>> \in Seq(0..MaxTime)
    OBVIOUS
<1> QED
    BY <1>1, AccountsAssumption DEF AccountsInit, AccountsBounds

LEMMA TokensBegin == ASSUME TokensInit PROVE TokensBounds
BY TokensAssumption DEF TokensInit, TokensBounds

\* All of them together: what holds of each component, and its bounds.
PortalInv ==
    /\ AccountsInv /\ LimiterInv /\ AccountsBounds
    /\ TokensInv /\ UseInv /\ TokensBounds
    /\ DraftsInv /\ DraftsBounds
    /\ InventoryInv

THEOREM PortalInitInv == PortalInit => PortalInv
BY AccountsInitInv, LimiterInitInv, AccountsBegin, TokensInitInv, UseInitInv, TokensBegin,
   DraftsInitInv, DraftsBegin, InventoryInitInv DEF PortalInit, PortalInv

THEOREM PortalNextInv ==
    PortalInv /\ [PortalNext]_<<turn, accountVars, tokenVars, draftVars, inventoryVars>> => PortalInv'
<1> SUFFICES ASSUME PortalInv, [PortalNext]_<<turn, accountVars, tokenVars, draftVars, inventoryVars>>
             PROVE  PortalInv'
    OBVIOUS
<1>1. /\ [AccountsNext]_accountVars /\ [TokensNext]_tokenVars
      /\ [DraftsNext]_draftVars /\ [InventoryNext]_inventoryVars
    BY DEF PortalNext
<1>2. (AccountsInv /\ LimiterInv /\ AccountsBounds)'
    BY <1>1, AccountsNextInv, LimiterNextInv, AccountsBoundsStep DEF PortalInv
<1>3. (TokensInv /\ UseInv /\ TokensBounds)'
    BY <1>1, TokensNextInv, UseNextInv, TokensBoundsStep DEF PortalInv, TokensInv
<1>4. (DraftsInv /\ DraftsBounds)'
    BY <1>1, DraftsNextInv, DraftsBoundsStep DEF PortalInv, DraftsInv
<1>5. InventoryInv'
    BY <1>1, InventoryNextInv DEF PortalInv
<1> QED
    BY <1>2, <1>3, <1>4, <1>5 DEF PortalInv

\* Everything the portal keeps has its type, whichever component runs: the types
\* follow from the invariants above and from the bounds.
THEOREM PortalTypes == PortalSpec => []PortalTypeOK
<1>1. PortalInv => PortalTypeOK
    BY AccountsTyped, TokensWellTyped, DraftsWellTyped, InventoryTyped DEF PortalInv, PortalTypeOK
<1> QED
    BY <1>1, PortalInitInv, PortalNextInv, PTL DEF PortalSpec
=============================================================================
