------------------------------ MODULE MCPortal ------------------------------
(***************************************************************************)
(* Accounts, API tokens, schedule drafts and the views of the inventory for *)
(* TLC.  They share no state, so one behaviour runs one of them, whose turn *)
(* it is.                                                                   *)
(***************************************************************************)
EXTENDS Accounts, ApiTokens, Drafts, Inventory, TLC

VARIABLE turn   \* the component this behaviour runs

PortalInit == /\ turn \in {"accounts", "tokens", "drafts", "inventory"}
              /\ AccountsInit /\ TokensInit /\ DraftsInit /\ InventoryInit

\* Bounds: the clock moves only while there is at most one account, or one token that
\* opens every route to requests of one route, and with it the limiter, the throttle
\* and restarts.
BoundedAccounts == Len(users) > 1 => now = 0 /\ \A n \in Names : failed[n] = <<>>
BoundedTokens == clock > 0 \/ reboots > 0 =>
    /\ Len(tokens) <= 1 /\ \A k \in Issued : tokens[k].scope = "inventory"
    /\ \A t \in Threads : req[t].route # "switchmap"

PortalNext ==
  /\ UNCHANGED turn
  /\ \/ turn = "accounts" /\ AccountsNext /\ BoundedAccounts' /\ UNCHANGED <<tokenVars, draftVars, inventoryVars>>
     \/ turn = "tokens" /\ TokensNext /\ BoundedTokens' /\ UNCHANGED <<accountVars, draftVars, inventoryVars>>
     \/ turn = "drafts" /\ DraftsNext /\ UNCHANGED <<accountVars, tokenVars, inventoryVars>>
     \/ turn = "inventory" /\ InventoryNext /\ UNCHANGED <<accountVars, tokenVars, draftVars>>

PortalSpec == PortalInit /\ [][PortalNext]_<<turn, accountVars, tokenVars, draftVars, inventoryVars>>

\* The types of all.
PortalTypeOK == AccountsTypeOK /\ TokensTypeOK /\ DraftsTypeOK /\ InventoryTypeOK

\* The instance takes the same two model values for browsers, threads and hosts; who
\* stands in the environment first is one of the names.
PortalSymmetry == {f @@ g : f \in Permutations(Browsers), g \in Permutations(Names)}
=============================================================================
