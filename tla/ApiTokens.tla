----------------------------- MODULE ApiTokens -----------------------------
(***************************************************************************)
(* The tokens of the portal's API (nccm/auth/api_tokens.py) and their      *)
(* check in web/api.py.  Unlike the pages of the portal the check is a     *)
(* plain function: the server runs it in a pool of threads, so that        *)
(* requests interleave with one another and with the administrator.  The   *)
(* table is SQLite; the throttle of last_used_at and the reason of the     *)
(* last failure are globals of the module that no lock protects: between   *)
(* any two statements that read or write them, a clock or the table,       *)
(* another thread may run.  The monotonic clock and the one of the time    *)
(* stamps are read in different steps and advance together.                *)
(*                                                                         *)
(* A key is presented as the number of the token it belongs to: 8 letters  *)
(* of it select rows and a salted hash decides.                            *)
(***************************************************************************)
EXTENDS Integers, Sequences, FiniteSets

CONSTANTS
    Threads,
    Scopes,       \* "inventory", "switchmap" and whatever else is in the column
    Interval,     \* _LAST_USED_INTERVAL_SEC
    Patience,     \* seconds _touch_last_used takes at most; SQLite waits 5
    Lifetimes,    \* seconds a token may be given
    MaxTokens,    \* bound: tokens ever created
    MaxSeconds,   \* bound: seconds
    MaxReboots    \* bound: restarts of the portal

ASSUME TokensAssumption ==
    /\ Interval \in Nat /\ Patience \in Nat /\ 2 * Patience < Interval
    /\ Lifetimes \subseteq Nat \ {0}
    /\ MaxTokens \in Nat /\ MaxSeconds \in Nat /\ MaxReboots \in Nat

VARIABLES
    tokens,     \* api_tokens, by id
    clock,      \* seconds since the host was started
    req,        \* the request of each thread
    touched,    \* _last_used_touch, 0.0 where it has no entry
    failure,    \* _last_auth_failure
    reboots,
    used,       \* when a token was last accepted (history)
    lost        \* whether its last use could not be recorded (history)

tokenVars == <<tokens, clock, req, touched, failure, reboots, used, lost>>

NoToken == 0
Keys    == 1..MaxTokens
Free    == [at |-> "free", key |-> NoToken, route |-> "", row |-> FALSE, mono |-> 0,
            stamp |-> 0, entitled |-> FALSE]
Invalid == "invalid_or_missing_key"
Expired == "token_expired"

Issued      == DOMAIN tokens
IsExpired(k) == clock >= tokens[k].expires
Usable(k)   == tokens[k].active /\ ~IsExpired(k)

\* _get_api_auth and _get_api_auth_switchmap.
Grants(scope, route) ==
    scope = "inventory" \/ (route = "switchmap" /\ scope = "switchmap")
-----------------------------------------------------------------------------
\* The administrator, on the event loop.
CreateToken(scope, life) ==
    /\ Len(tokens) < MaxTokens
    /\ tokens' = Append(tokens, [active |-> TRUE, scope |-> scope,
                                 expires |-> clock + life, lastUsed |-> 0])
    /\ UNCHANGED <<clock, req, touched, failure, reboots, used, lost>>

Deactivate(k) ==
    /\ tokens' = [tokens EXCEPT ![k].active = FALSE]
    /\ UNCHANGED <<clock, req, touched, failure, reboots, used, lost>>
-----------------------------------------------------------------------------
Go(t, label) == req' = [req EXCEPT ![t].at = label]

\* A request comes in.  Whether its key was good then is remembered for
\* RevokedRefused.
Ask(t, k, route) ==
    /\ req[t].at = "free"
    /\ req' = [req EXCEPT ![t] = [Free EXCEPT
          !.at = "configured", !.key = k, !.route = route,
          !.entitled = k \in Issued /\ Usable(k)]]
    /\ UNCHANGED <<tokens, clock, touched, failure, reboots, used, lost>>

\* any_api_auth_configured: without a usable token there is no API.
Configured(t) ==
    /\ req[t].at = "configured"
    /\ req' = [req EXCEPT ![t] =
          IF \E k \in Issued : Usable(k) THEN [@ EXCEPT !.at = "select"] ELSE Free]
    /\ UNCHANGED <<tokens, clock, touched, failure, reboots, used, lost>>

\* Seeded fault: rows of revoked tokens are selected.
SelectAny(t) ==
    /\ req[t].at = "select"
    /\ req' = [req EXCEPT ![t] = [@ EXCEPT !.at = "verify", !.row = req[t].key \in Issued]]
    /\ UNCHANGED <<tokens, clock, touched, failure, reboots, used, lost>>

\* _verify_db_token reads the active rows ...
Select(t) ==
    /\ req[t].at = "select"
    /\ req' = [req EXCEPT ![t] = [@ EXCEPT !.at = "verify",
          !.row = req[t].key \in Issued /\ tokens[req[t].key].active]]
    /\ UNCHANGED <<tokens, clock, touched, failure, reboots, used, lost>>

\* ... hashes the key for each of them, and looks at the expiry afterwards.
VerifyFails(t) ==
    /\ req[t].at = "verify" /\ (req[t].row => IsExpired(req[t].key))
    /\ failure' = IF req[t].row THEN Expired ELSE Invalid
    /\ Go(t, "report")
    /\ UNCHANGED <<tokens, clock, touched, reboots, used, lost>>

\* last_auth_failure_reason: what the module remembers by now.
Report(t) ==
    /\ req[t].at = "report"
    /\ req' = [req EXCEPT ![t] = Free]
    /\ UNCHANGED <<tokens, clock, touched, failure, reboots, used, lost>>

\* The key is good; _touch_last_used begins.
Verifies(t) ==
    /\ req[t].at = "verify" /\ req[t].row /\ ~IsExpired(req[t].key)
    /\ Go(t, "clock")
    /\ UNCHANGED <<tokens, clock, touched, failure, reboots, used, lost>>

\* time.monotonic().
ReadsClock(t) ==
    /\ req[t].at = "clock"
    /\ req' = [req EXCEPT ![t] = [@ EXCEPT !.at = "check", !.mono = clock]]
    /\ UNCHANGED <<tokens, clock, touched, failure, reboots, used, lost>>

Due(t) == req[t].mono - touched[req[t].key] >= Interval

\* Seeded fault: the throttle starts again with every use.
ChecksAlways(t) ==
    /\ req[t].at = "check"
    /\ touched' = [touched EXCEPT ![req[t].key] = req[t].mono]
    /\ Go(t, IF Due(t) THEN "set" ELSE "grant")
    /\ UNCHANGED <<tokens, clock, failure, reboots, used, lost>>

\* The throttle decides whether this use is written ...
Checks(t) ==
    /\ req[t].at = "check"
    /\ Go(t, IF Due(t) THEN "set" ELSE "grant")
    /\ UNCHANGED <<tokens, clock, touched, failure, reboots, used, lost>>

\* ... and is set afterwards, under no lock.
Sets(t) ==
    /\ req[t].at = "set"
    /\ touched' = [touched EXCEPT ![req[t].key] = req[t].mono]
    /\ Go(t, "stamp")
    /\ UNCHANGED <<tokens, clock, failure, reboots, used, lost>>

\* The time that is written, in whole seconds.
Stamps(t) ==
    /\ req[t].at = "stamp"
    /\ req' = [req EXCEPT ![t] = [@ EXCEPT !.at = "touch", !.stamp = clock]]
    /\ UNCHANGED <<tokens, clock, touched, failure, reboots, used, lost>>

Touch(t) ==
    /\ req[t].at = "touch"
    /\ tokens' = [tokens EXCEPT ![req[t].key].lastUsed = req[t].stamp]
    /\ lost' = [lost EXCEPT ![req[t].key] = FALSE]
    /\ req' = [req EXCEPT ![t] = [@ EXCEPT !.at = "grant", !.stamp = 0]]
    /\ UNCHANGED <<clock, touched, failure, reboots, used>>

\* The database is locked: the request ends with an error.
TouchFails(t) ==
    /\ req[t].at = "touch"
    /\ lost' = [lost EXCEPT ![req[t].key] = TRUE]
    /\ req' = [req EXCEPT ![t] = Free]
    /\ UNCHANGED <<tokens, clock, touched, failure, reboots, used>>

\* Some thread was let through by the throttle and has not written yet.
Writing(k) == \E t \in Threads : req[t].at \in {"set", "stamp", "touch"} /\ req[t].key = k

\* The scope decides between an answer and a 403.
Grant(t) ==
    /\ req[t].at = "grant"
    /\ req' = [req EXCEPT ![t] =
          IF Grants(tokens[req[t].key].scope, req[t].route) THEN [@ EXCEPT !.at = "served"]
                                                            ELSE Free]
    /\ used' = [used EXCEPT ![req[t].key] = IF @ < req[t].mono THEN req[t].mono ELSE @]
    /\ UNCHANGED <<tokens, clock, touched, failure, reboots, lost>>

Served(t) ==
    /\ req[t].at = "served"
    /\ req' = [req EXCEPT ![t] = Free]
    /\ UNCHANGED <<tokens, clock, touched, failure, reboots, used, lost>>
-----------------------------------------------------------------------------
\* A thread is done with _touch_last_used, or has failed, within Patience seconds.
Passes ==
    /\ clock < MaxSeconds
    /\ \A t \in Threads : req[t].at \in {"check", "set", "stamp", "touch"} =>
          clock - req[t].mono < Patience
    /\ clock' = clock + 1
    /\ UNCHANGED <<tokens, req, touched, failure, reboots, used, lost>>

\* A write that was still due is lost with the request.
Reboot ==
    /\ reboots < MaxReboots
    /\ reboots' = reboots + 1
    /\ req' = [t \in Threads |-> Free]
    /\ touched' = [k \in Keys |-> 0]
    /\ failure' = Invalid
    /\ lost' = [k \in Keys |-> lost[k] \/ Writing(k)]
    /\ UNCHANGED <<tokens, clock, used>>

TokensInit ==
    /\ tokens = <<>> /\ clock = 0
    /\ req = [t \in Threads |-> Free]
    /\ touched = [k \in Keys |-> 0]
    /\ failure = Invalid /\ reboots = 0
    /\ used = [k \in Keys |-> 0]
    /\ lost = [k \in Keys |-> FALSE]

TokensNext ==
    \/ \E s \in Scopes, life \in Lifetimes : CreateToken(s, life)
    \/ \E k \in Issued : Deactivate(k)
    \/ \E t \in Threads, k \in Issued \cup {NoToken}, route \in {"inventory", "switchmap"} :
          Ask(t, k, route)
    \/ \E t \in Threads :
          \/ Configured(t) \/ Select(t) \/ VerifyFails(t) \/ Report(t) \/ Verifies(t)
          \/ ReadsClock(t) \/ Checks(t) \/ Sets(t) \/ Stamps(t)
          \/ Touch(t) \/ TouchFails(t) \/ Grant(t) \/ Served(t)
    \/ Passes \/ Reboot

TokensSpec == TokensInit /\ [][TokensNext]_tokenVars
-----------------------------------------------------------------------------
\* Types.
TokensTypeOK ==
    /\ tokens \in Seq([active : BOOLEAN, scope : Scopes, expires : Nat, lastUsed : Nat])
    /\ Len(tokens) <= MaxTokens
    /\ clock \in 0..MaxSeconds /\ reboots \in 0..MaxReboots
    /\ req \in [Threads -> [at : {"free", "configured", "select", "verify", "report", "clock",
                                  "check", "set", "stamp", "touch", "grant", "served"},
                            key : Issued \cup {NoToken}, route : {"", "inventory", "switchmap"},
                            row : BOOLEAN, mono : 0..MaxSeconds, stamp : 0..MaxSeconds,
                            entitled : BOOLEAN]]
    /\ touched \in [Keys -> 0..MaxSeconds] /\ used \in [Keys -> 0..MaxSeconds]
    /\ lost \in [Keys -> BOOLEAN] /\ failure \in {Invalid, Expired}

\* Who is served presented a token that was good when the request came, with
\* the scope of the route: revoking and expiry take effect for every request
\* that comes later, however long the hashing takes (api_tokens.py:216-239).
RevokedRefused ==
    \A t \in Threads : req[t].at = "served" =>
        req[t].entitled /\ Grants(tokens[req[t].key].scope, req[t].route)

\* last_used_at lags behind the last use by less than Interval, once nobody
\* is about to write it: threads that pass the throttle together, set it in another
\* order than they write, or write an older time over a newer one lose no use, nor
\* does a restart.  Not so after a write that failed or was cut off, and in the first
\* Interval seconds of the host, when the throttle has 0.0 to compare with
\* (api_tokens.py:203-213).
UseRecorded ==
    \A k \in Issued :
        \/ used[k] < Interval \/ lost[k]
        \/ Writing(k)
        \/ tokens[k].lastUsed > used[k] - Interval
=============================================================================
