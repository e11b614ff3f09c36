----------------------------- MODULE MCScreens -----------------------------
(***************************************************************************)
(* An instance of Screens for TLC: two records, a member of every role the *)
(* system defines and of two roles a workspace made up.                    *)
(***************************************************************************)
EXTENDS Screens, TLC

CONSTANTS r1, r2

MCRows == {r1, r2}

\* One that sees to the team, one that writes what it may not read.
MCCustomRoles ==
    [team_lead |-> {"platform.members.manage", "crm.lead.read", "crm.lead.assign"},
     blind |-> {"catalog.product.write", "sales.quote.write", "crm.lead.write"}]

\* Roles whose members write something get all records; the others see the menus.
\* An owner and an admin differ only where the team is concerned.
Workers(kind) ==
    {"owner", "sales_manager", "sales_rep", "team_lead", "blind"}
        \cup IF kind \in {"member", "invitation", "role", "key", "settings"} THEN {"admin"} ELSE {}

\* One change where there is much to change, two of the others: switch, remove, save.
MCMaxChanges ==
    [kind \in Kinds |-> IF kind \in {"lead", "product", "member", "group"} THEN 1 ELSE 2]

MCLaterRoles == {"sales_rep", "blind", "removed"}

\* The first record as it can be, but for what one change makes of it; the second
\* is there to switch to, or to be created.
MCInitialFacts ==
    UNION {
        {[kind |-> kind, role |-> role, aal2 |-> aal2, requireMfa |-> FALSE,
          input |-> "SELECT", there |-> (r1 :> "live" @@ r2 :> second),
          row |-> (r1 :> d @@ r2 :> Fresh(kind))] :
             role \in IF kind = "notification" THEN DOMAIN RolePermissions ELSE Workers(kind),
             aal2 \in IF kind = "settings" THEN BOOLEAN ELSE {TRUE},
             second \in IF kind \in Managers \cup {"group", "option", "role"}
                        THEN {"live"} ELSE {"unused"},
             d \in CASE kind = "lead" -> {l \in LeadDetails :
                                          l.contact = l.valued /\ l.owner # "nobody"}
                    [] kind = "product" -> {p \in Details[kind] : ~p.inUse}
                    [] kind = "group" -> {"SELECT", "NUMBER"}
                    [] kind \in {"account", "category", "role"} -> {"idle"}
                    [] OTHER -> Details[kind]} :
        kind \in Kinds}
=============================================================================
