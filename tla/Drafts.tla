------------------------------- MODULE Drafts -------------------------------
(***************************************************************************)
(* How a schedule gets its devices and its credentials: the upload of a    *)
(* CSV file, the probe of its devices, the draft the operator confirms     *)
(* (nccm/backup/schedule_draft.py, reachability.py), the key the passwords *)
(* are encrypted with (secrets.py), and the writes of schedules            *)
(* (schedule.py, handlers of web/main.py).                                 *)
(*                                                                         *)
(* The handlers are coroutines of one process that await nothing once they *)
(* have the form: they do not interleave, but the process may end between  *)
(* two transactions of one of them.  A ciphertext is the number of the key *)
(* that made it; beside it stands at which start of the portal it was made. *)
(***************************************************************************)
EXTENDS Integers, FiniteSets

CONSTANTS
    Hosts,          \* rows of a CSV file
    OtherKeys,      \* bound: keys NCCM_SECRETS_KEY or a secret file may give
    TTL,            \* _DRAFT_TTL_HOURS
    MaxDrafts,      \* bound: drafts ever made
    MaxPlans,       \* bound: schedules ever made
    MaxHours,       \* bound: hours
    MaxStarts       \* bound: starts of the portal

ASSUME DraftsAssumption ==
    /\ OtherKeys \in Nat /\ TTL \in Nat
    /\ MaxDrafts \in Nat /\ MaxPlans \in Nat /\ MaxHours \in Nat /\ MaxStarts \in Nat

VARIABLES
    override,   \* the key of the environment or of the secret file, or NoKey
    stored,     \* store/.secrets/fernet.key, or NoKey
    drafts,     \* schedule_drafts
    plans,      \* schedules, by id
    pending,    \* what confirm_draft holds between its two transactions
    nDrafts, nPlans,    \* ids given: uuid4 and AUTOINCREMENT, none is given twice
    hour, starts,
    keysMade,   \* keys ever generated: a new key is a new number (history)
    writes,     \* writes of a schedule from each draft (history)
    reached     \* the hosts of each draft that answered the probe (history)

draftVars == <<override, stored, drafts, plans, pending, nDrafts, nPlans, hour, starts,
               keysMade, writes, reached>>
keyVars   == <<override, stored, keysMade>>
clockVars == <<hour, starts>>

NoKey   == 0
Overrides == {0 - k : k \in 1..OtherKeys}
NoText  == [key |-> NoKey, start |-> 0]        \* an empty column
NoDraft == [hosts |-> {}, ok |-> {}, pass |-> NoText, enable |-> NoText, edit |-> 0, hour |-> 0]
NoPlan  == [hosts |-> {}, pass |-> NoText, enable |-> NoText, enabled |-> FALSE]
Idle    == [draft |-> 0, hosts |-> {}, enable |-> FALSE, edit |-> 0]

DraftIds == {d \in 1..nDrafts : drafts[d] # NoDraft}
PlanIds  == {p \in 1..nPlans : plans[p] # NoPlan}
-----------------------------------------------------------------------------
\* get_master_key: the first source that has one.
ActiveOf(s) == IF override # NoKey THEN override ELSE s
Active == ActiveOf(stored)

\* Seeded fault: a key is generated whenever one is asked for.
EnsuresAlways == stored' = keysMade + 1 /\ keysMade' = keysMade + 1

\* ensure_master_key, with its second look under the lock: a key is generated
\* only where there is none.
Ensures ==
    IF Active # NoKey THEN UNCHANGED <<stored, keysMade>>
    ELSE stored' = keysMade + 1 /\ keysMade' = keysMade + 1

\* encrypt and decrypt with the key of the moment; an empty text stays empty.
Encrypted(given, s) == IF given THEN [key |-> ActiveOf(s), start |-> starts] ELSE NoText
Decrypts(c) == c = NoText \/ (Active # NoKey /\ c.key = Active)
-----------------------------------------------------------------------------
\* create_draft_from_upload: the probe answers for every row of the file; old
\* drafts go when a new one is written.
Upload(hosts, ok, enable, edit) ==
    /\ pending = Idle /\ nDrafts < MaxDrafts
    /\ Ensures
    /\ nDrafts' = nDrafts + 1
    /\ drafts' = [d \in 1..MaxDrafts |->
          IF d = nDrafts + 1
          THEN [hosts |-> hosts, ok |-> ok, edit |-> edit, hour |-> hour,
                pass |-> Encrypted(TRUE, stored'), enable |-> Encrypted(enable, stored')]
          ELSE IF drafts[d].hour < hour - TTL THEN NoDraft ELSE drafts[d]]
    /\ reached' = [reached EXCEPT ![nDrafts + 1] = ok]
    /\ UNCHANGED <<override, plans, pending, nPlans, clockVars, writes>>

\* The devices of the schedule.
Chosen(d) == drafts[d].ok

Taken(d) == [draft |-> d, hosts |-> Chosen(d), enable |-> drafts[d].enable # NoText,
             edit |-> drafts[d].edit]

\* Seeded fault: the draft stays until the schedule is written.
ConfirmReads(d) ==
    /\ pending = Idle /\ Chosen(d) # {}
    /\ Decrypts(drafts[d].pass) /\ Decrypts(drafts[d].enable)
    /\ pending' = Taken(d)
    /\ UNCHANGED <<keyVars, drafts, plans, nDrafts, nPlans, clockVars, writes, reached>>

\* confirm_draft, first transaction: the draft is taken out.  Without a device,
\* or with a key that does not fit, it stays.
Confirm(d) ==
    /\ pending = Idle /\ Chosen(d) # {}
    /\ Decrypts(drafts[d].pass) /\ Decrypts(drafts[d].enable)
    /\ pending' = Taken(d)
    /\ drafts' = [drafts EXCEPT ![d] = NoDraft]
    /\ UNCHANGED <<keyVars, plans, nDrafts, nPlans, clockVars, writes, reached>>

\* create_schedule, the second transaction.
Create ==
    /\ pending # Idle /\ pending.edit = 0 /\ nPlans < MaxPlans
    /\ Ensures
    /\ nPlans' = nPlans + 1
    /\ plans' = [plans EXCEPT ![nPlans + 1] =
          [hosts |-> pending.hosts, enabled |-> TRUE, pass |-> Encrypted(TRUE, stored'),
           enable |-> Encrypted(pending.enable, stored')]]
    /\ writes' = [writes EXCEPT ![pending.draft] = @ + 1]
    /\ pending' = Idle
    /\ UNCHANGED <<override, drafts, nDrafts, clockVars, reached>>

\* Seeded fault: both texts are encrypted again, from what was typed.
RewrittenBlank(p, pass, enable) ==
    [plans[p] EXCEPT !.pass = Encrypted(pass, stored'), !.enable = Encrypted(enable, stored')]

\* The texts a write does not name stay as they are, under whatever key.
Rewritten(p, pass, enable) ==
    [plans[p] EXCEPT !.pass = IF pass THEN Encrypted(TRUE, stored') ELSE @,
                     !.enable = IF enable THEN Encrypted(TRUE, stored') ELSE @]

\* update_schedule of a draft made to edit a schedule; a draft without enable
\* password leaves the old one.
Update ==
    /\ pending # Idle /\ pending.edit \in PlanIds
    /\ Ensures
    /\ plans' = [plans EXCEPT ![pending.edit] =
                   [Rewritten(pending.edit, TRUE, pending.enable) EXCEPT !.hosts = pending.hosts]]
    /\ writes' = [writes EXCEPT ![pending.draft] = @ + 1]
    /\ pending' = Idle
    /\ UNCHANGED <<override, drafts, nDrafts, nPlans, clockVars, reached>>

\* The schedule is gone, or the database cannot be written: so is the draft.
WriteFails ==
    /\ pending # Idle
    /\ pending' = Idle
    /\ UNCHANGED <<keyVars, drafts, plans, nDrafts, nPlans, clockVars, writes, reached>>

\* schedules_update_meta.  A text that is given is encrypted before a key is
\* generated: without a key that is an error and nothing happens.
UpdateMeta(p, pass, enable) ==
    /\ pending = Idle
    /\ pass \/ enable => Active # NoKey
    /\ Ensures
    /\ plans' = [plans EXCEPT ![p] = Rewritten(p, pass, enable)]
    /\ UNCHANGED <<override, drafts, pending, nDrafts, nPlans, clockVars, writes, reached>>

\* set_enabled asks whether there is a key, not whether it fits.
Enable(p) ==
    /\ pending = Idle /\ (~plans[p].enabled => Active # NoKey)
    /\ plans' = [plans EXCEPT ![p].enabled = ~@]
    /\ UNCHANGED <<keyVars, drafts, pending, nDrafts, nPlans, clockVars, writes, reached>>

Delete(p) ==
    /\ pending = Idle
    /\ plans' = [plans EXCEPT ![p] = NoPlan]
    /\ UNCHANGED <<keyVars, drafts, pending, nDrafts, nPlans, clockVars, writes, reached>>
-----------------------------------------------------------------------------
Hour ==
    /\ hour < MaxHours
    /\ hour' = hour + 1
    /\ UNCHANGED <<keyVars, drafts, plans, pending, nDrafts, nPlans, starts, writes,
                   reached>>

\* The portal starts again, at any point, with a key of the environment or
\* without; the store may have been restored without its key.
Start(key, keep) ==
    /\ starts < MaxStarts
    /\ starts' = starts + 1
    /\ override' = key
    /\ stored' = IF keep THEN stored ELSE NoKey
    /\ pending' = Idle
    /\ UNCHANGED <<drafts, plans, nDrafts, nPlans, hour, keysMade, writes, reached>>

DraftsInit ==
    /\ override = NoKey /\ stored = NoKey /\ keysMade = 0
    /\ drafts = [d \in 1..MaxDrafts |-> NoDraft]
    /\ plans = [p \in 1..MaxPlans |-> NoPlan]
    /\ pending = Idle /\ nDrafts = 0 /\ nPlans = 0
    /\ hour = 0 /\ starts = 0
    /\ writes = [d \in 1..MaxDrafts |-> 0] /\ reached = [d \in 1..MaxDrafts |-> {}]

DraftsNext ==
    \/ \E hosts \in (SUBSET Hosts) \ {{}}, enable \in BOOLEAN, edit \in PlanIds \cup {0} :
          \E ok \in SUBSET hosts : Upload(hosts, ok, enable, edit)
    \/ \E d \in DraftIds : Confirm(d)
    \/ Create \/ Update \/ WriteFails
    \/ \E p \in PlanIds, pass, enable \in BOOLEAN : UpdateMeta(p, pass, enable)
    \/ \E p \in PlanIds : Enable(p) \/ Delete(p)
    \/ \E key \in Overrides \cup {NoKey}, keep \in BOOLEAN : Start(key, keep)
    \/ Hour

DraftsSpec == DraftsInit /\ [][DraftsNext]_draftVars
-----------------------------------------------------------------------------
Texts == [key : Overrides \cup 0..keysMade, start : 0..MaxStarts]

\* Types.
DraftsTypeOK ==
    /\ override \in Overrides \cup {NoKey} /\ stored \in 0..keysMade /\ keysMade \in Nat
    /\ nDrafts \in 0..MaxDrafts /\ nPlans \in 0..MaxPlans
    /\ \A d \in DraftIds :
          /\ drafts[d].ok \subseteq drafts[d].hosts /\ drafts[d].hosts \subseteq Hosts
          /\ drafts[d].pass \in Texts /\ drafts[d].enable \in Texts
          /\ drafts[d].edit \in 0..nPlans /\ drafts[d].hour \in 0..hour
    /\ \A p \in PlanIds :
          /\ plans[p].hosts \in (SUBSET Hosts) \ {{}}
          /\ plans[p].pass \in Texts \ {NoText} /\ plans[p].enable \in Texts
    /\ pending.draft \in 0..nDrafts /\ pending.edit \in 0..nPlans
    /\ hour \in 0..MaxHours /\ starts \in 0..MaxStarts

\* A draft becomes a schedule, or a change of one, at most once, wherever the
\* process ends and however often the page is sent (schedule_draft.py:285-322).
WrittenOnce == \A d \in 1..nDrafts : writes[d] <= 1

\* What the portal encrypted since it was started it can decrypt: no write, and
\* no second look for a key, replaces the key in use (secrets.py:198-246).
DecryptsOwn ==
    LET Fits(c) == c # NoText /\ c.start = starts => Decrypts(c)
    IN  /\ \A d \in DraftIds : Fits(drafts[d].pass) /\ Fits(drafts[d].enable)
        /\ \A p \in PlanIds : Fits(plans[p].pass) /\ Fits(plans[p].enable)

\* A write of a schedule loses no password: what is there and is not typed
\* again stays, though the forms send an empty field for it (schedule.py:391).
KeepsPasswords ==
    [][\A p \in PlanIds : p \in PlanIds' =>
          /\ plans'[p].pass # NoText
          /\ plans[p].enable # NoText => plans'[p].enable # NoText]_draftVars

\* A schedule asks only devices that answered the probe of the file it was made
\* from: whatever is written, the rows that failed are left out, and a change
\* of the name or of a password changes no device (schedule_draft.py:293).
AsksReached ==
    [][\A p \in PlanIds' :
          p \notin PlanIds \/ plans'[p].hosts # plans[p].hosts =>
              plans'[p].hosts = reached[pending.draft]]_draftVars
=============================================================================
