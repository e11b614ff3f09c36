-------------------------------- MODULE Rules --------------------------------
(***************************************************************************)
(* What the server accepts from a member, as its actions and policies      *)
(* decide it, over the facts of one workspace: who the member is, and the  *)
(* records of one kind.  A request names the kind of record, the           *)
(* operation, the record, and what was chosen.  The pages decide what to   *)
(* offer on their own (Offers); the two are compared in Screens.           *)
(***************************************************************************)
EXTENDS Naturals, FiniteSets

CONSTANTS
    Rows,           \* ids of the records of the kind at hand, each used once
    CustomRoles     \* custom roles of the workspace: name -> permissions

Reads ==
    {"platform.audit.read", "crm.lead.read", "crm.account.read", "catalog.product.read",
     "sales.quote.read", "sales.order.read", "inventory.stock.read", "procurement.po.read",
     "production.workorder.read", "quality.inspection.read", "fulfillment.shipment.read",
     "finance.invoice.read"}

PERMISSIONS == Reads \cup
    {"platform.settings.manage", "platform.members.manage", "platform.roles.manage",
     "platform.billing.manage", "crm.lead.write", "crm.lead.assign", "crm.account.write",
     "crm.contact.reveal", "catalog.product.write", "sales.quote.write", "sales.quote.approve",
     "sales.order.write", "sales.order.confirm", "sales.order.cancel", "sales.payment.record",
     "inventory.stock.move", "inventory.stock.adjust", "inventory.item.write",
     "procurement.po.write", "procurement.po.approve", "procurement.receipt.write",
     "procurement.supplier.write", "production.bom.write", "production.bom.approve",
     "production.workorder.write", "production.operation.execute", "quality.inspection.perform",
     "quality.ncr.manage", "fulfillment.shipment.write", "finance.invoice.write",
     "ai.copilot.use"}

SalesRep ==
    {"crm.lead.read", "crm.lead.write", "crm.account.read", "crm.account.write",
     "catalog.product.read", "sales.quote.read", "sales.quote.write", "sales.order.read",
     "sales.order.write", "sales.payment.record", "inventory.stock.read",
     "fulfillment.shipment.read", "ai.copilot.use"}

SYSTEM_ROLES ==
    [owner |-> PERMISSIONS,
     admin |-> PERMISSIONS \ {"platform.billing.manage"},
     sales_rep |-> SalesRep,
     sales_manager |-> SalesRep \cup
         {"crm.lead.assign", "crm.contact.reveal", "sales.quote.approve", "sales.order.confirm",
          "sales.order.cancel", "finance.invoice.read"},
     buyer |-> {"procurement.po.read", "procurement.po.write", "procurement.supplier.write",
                "inventory.stock.read", "catalog.product.read", "ai.copilot.use"},
     warehouse |-> {"inventory.stock.read", "inventory.stock.move", "procurement.po.read",
                    "procurement.receipt.write", "fulfillment.shipment.read",
                    "fulfillment.shipment.write"},
     planner |-> {"production.bom.write", "production.workorder.read",
                  "production.workorder.write", "inventory.stock.read", "sales.order.read",
                  "catalog.product.read", "ai.copilot.use"},
     operator |-> {"production.workorder.read", "production.operation.execute"},
     inspector |-> {"quality.inspection.read", "quality.inspection.perform",
                    "quality.ncr.manage", "production.workorder.read", "procurement.po.read"},
     finance |-> {"finance.invoice.read", "finance.invoice.write", "sales.order.read",
                  "sales.payment.record", "procurement.po.read", "ai.copilot.use"},
     viewer |-> Reads]

RolePermissions ==
    [role \in DOMAIN SYSTEM_ROLES \cup DOMAIN CustomRoles |->
        IF role \in DOMAIN SYSTEM_ROLES THEN SYSTEM_ROLES[role] ELSE CustomRoles[role]]

(***************************************************************************)
(* Facts: the member's role ("removed" once they are out), whether their   *)
(* session passed the second factor and whether the workspace asks for it, *)
(* and the records of one kind.                                            *)
(***************************************************************************)
Kinds == {"lead", "account", "contact", "product", "group", "option", "category",
          "configuration", "member", "invitation", "role", "key", "settings", "notification"}

Holds(f, p) == f.role # "removed" /\ p \in RolePermissions[f.role]

\* A new group, option or configuration names what it belongs to.
NoRow == ""
NoChoice == ""
Request(kind, op, row, choice) == [kind |-> kind, op |-> op, row |-> row, choice |-> choice]

Live(f, kind) == {r \in Rows : f.kind = kind /\ f.there[r] = "live"}

\* Out, or held back until the second factor.
Blocked(f) == f.requireMfa /\ ~f.aal2
Admitted(f) == f.role # "removed" /\ ~Blocked(f)

(***************************************************************************)
(* Leads.                                                                  *)
(***************************************************************************)
OPEN == {"NEW", "CONTACTED", "QUALIFIED", "PROPOSAL"}
LeadStatuses == OPEN \cup {"WON", "LOST", "DISQUALIFIED"}

leadMachine ==
    [contact |-> [from |-> {"NEW"}, to |-> "CONTACTED"],
     qualify |-> [from |-> {"NEW", "CONTACTED"}, to |-> "QUALIFIED"],
     propose |-> [from |-> {"QUALIFIED"}, to |-> "PROPOSAL"],
     win |-> [from |-> {"QUALIFIED", "PROPOSAL"}, to |-> "WON"],
     lose |-> [from |-> OPEN, to |-> "LOST"],
     disqualify |-> [from |-> OPEN, to |-> "DISQUALIFIED"],
     reopen |-> [from |-> {"LOST", "DISQUALIFIED"}, to |-> "CONTACTED"]]
LeadActions == DOMAIN leadMachine

canEditLead(f, lead) == Holds(f, "crm.lead.assign") \/ lead.owner \in {"nobody", "me"}

canTransition(f, lead, action) ==
    /\ canEditLead(f, lead)
    /\ lead.status \in leadMachine[action].from
    /\ action = "qualify" => lead.contact
    /\ action = "propose" => lead.valued

leadActions(f, c) ==
    /\ c.kind = "lead"
    /\ \/ c.op = "new" /\ Holds(f, "crm.lead.write")
       \/ /\ c.op \in {"edit", "addActivity", "move"}
          /\ Holds(f, "crm.lead.write")
          /\ c.row \in Live(f, "lead")
          /\ IF c.op = "move" THEN canTransition(f, f.row[c.row], c.choice)
             ELSE canEditLead(f, f.row[c.row])
       \/ c.op = "reassign" /\ Holds(f, "crm.lead.assign") /\ c.row \in Live(f, "lead")

(***************************************************************************)
(* Accounts and contacts.                                                  *)
(***************************************************************************)
\* A busy account has open leads.
updateAccount(f, r) == r \in Live(f, "account")
archiveAccount(f, r) == r \in Live(f, "account") /\ f.row[r] # "busy"

accountActions(f, c) ==
    /\ c.kind = "account"
    /\ Holds(f, "crm.account.write")
    /\ \/ c.op = "new"
       \/ c.op = "edit" /\ updateAccount(f, c.row)
       \/ c.op = "remove" /\ archiveAccount(f, c.row)

updateContact(f, r) == r \in Live(f, "contact")
archiveContact(f, r) == r \in Live(f, "contact")

contactActions(f, c) ==
    /\ c.kind = "contact"
    /\ Holds(f, "crm.account.write")
    /\ \/ c.op = "new"
       \/ c.op = "edit" /\ updateContact(f, c.row)
       \/ c.op = "remove" /\ archiveContact(f, c.row)

(***************************************************************************)
(* The catalog.                                                            *)
(***************************************************************************)
productMachine ==
    [publish |-> [from |-> {"DRAFT"}, to |-> "ACTIVE"],
     unpublish |-> [from |-> {"ACTIVE"}, to |-> "DRAFT"],
     discontinue |-> [from |-> {"ACTIVE", "DRAFT"}, to |-> "DISCONTINUED"],
     restore |-> [from |-> {"DISCONTINUED"}, to |-> "DRAFT"]]
ProductActions == DOMAIN productMachine

canTransitionProduct(product, action) ==
    /\ product.status \in productMachine[action].from
    /\ action = "publish" => product.sellable

canDeleteProduct(product) == ~product.inUse /\ product.status = "DRAFT"

\* The records of the other kinds: one each, except where the kind at hand says
\* otherwise; products have choices only where groups or options are at hand.
LeadIds(f) == IF f.kind = "lead" THEN Live(f, "lead") ELSE {"aLead"}
ProductIds(f) == IF f.kind = "product" THEN Live(f, "product") ELSE {"aProduct"}
ProductStatus(f, r) == IF f.kind = "product" THEN f.row[r].status ELSE "ACTIVE"
GroupIds(f) ==
    CASE f.kind = "group" -> Live(f, "group")
      [] f.kind = "option" -> {"aGroup"}
      [] OTHER -> {}
CategoryIds(f) == IF f.kind = "category" THEN Live(f, "category") ELSE {"aCategory"}

\* An archived category is still a category: its row stays.
Known(f, kind) == {r \in Rows : f.kind = kind /\ f.there[r] # "unused"}
createProduct(f, category) ==
    category \in CategoryIds(f) \/ category \in Known(f, "category")
productActions(f, c) ==
    /\ c.kind = "product"
    /\ Holds(f, "catalog.product.write")
    /\ \/ c.op = "new" /\ createProduct(f, c.choice)
       \/ /\ c.row \in Live(f, "product")
          /\ \/ c.op = "edit"
             \/ c.op = "move" /\ canTransitionProduct(f.row[c.row], c.choice)
             \/ c.op = "remove" /\ canDeleteProduct(f.row[c.row])

\* How a group is answered; where it holds no group, f.input is that of the one
\* its options belong to.
Inputs == {"SELECT", "MULTI_SELECT", "NUMBER", "TEXT", "BOOLEAN"}
InputOf(f, g) == IF f.kind = "group" THEN f.row[g] ELSE f.input
GroupOf(c) == IF c.op = "new" THEN c.choice ELSE "aGroup"

\* A new group names its product, a new option its group; the parent of one that
\* is edited never changes and goes only together with it.  Numbers take options
\* too, and options can be removed whatever became of their group.
saveOptionGroup(f, c) ==
    IF c.op = "new" THEN c.choice \in ProductIds(f) ELSE c.row \in Live(f, "group")
saveOption(f, c) ==
    /\ GroupOf(c) \in GroupIds(f) /\ InputOf(f, GroupOf(c)) \notin {"TEXT", "BOOLEAN"}
    /\ c.op = "edit" => c.row \in Live(f, "option")
deleteOptionGroup(f, r) == r \in Live(f, "group")
deleteOption(f, r) == r \in Live(f, "option")

optionActions(f, c) ==
    /\ c.kind \in {"group", "option"}
    /\ Holds(f, "catalog.product.write")
    /\ \/ c.op \in {"new", "edit"} /\ c.kind = "group" /\ saveOptionGroup(f, c)
       \/ c.op \in {"new", "edit"} /\ c.kind = "option" /\ saveOption(f, c)
       \/ c.op = "remove" /\ (deleteOptionGroup(f, c.row) \/ deleteOption(f, c.row))

\* An archived category can still be edited: only its removal asks whether it is
\* active, and whether it is busy with products or subcategories.
updateCategory(f, r) == r \in Known(f, "category")
archiveCategory(f, r) == r \in Live(f, "category") /\ f.row[r] # "busy"

categoryActions(f, c) ==
    /\ c.kind = "category"
    /\ Holds(f, "catalog.product.write")
    /\ \/ c.op = "new"
       \/ c.op = "edit" /\ updateCategory(f, c.row)
       \/ c.op = "remove" /\ archiveCategory(f, c.row)

saveConfiguration(f, product) == product \in ProductIds(f) /\ ProductStatus(f, product) = "ACTIVE"
deleteConfiguration(f, r) == r \in Live(f, "configuration")

configurationActions(f, c) ==
    /\ c.kind = "configuration"
    /\ Holds(f, "sales.quote.write")
    /\ \/ c.op = "new" /\ saveConfiguration(f, c.choice)
       \/ c.op = "remove" /\ deleteConfiguration(f, c.row)

(***************************************************************************)
(* Members and invitations.                                                *)
(***************************************************************************)
\* Rows are the other members: an owner who acts on one is an owner more.
OwnerGuard(f, target, newRole) ==
    (target.role = "owner" \/ newRole = "owner") => f.role = "owner"

\* Mutant: a member's status is not looked at.
anyStatus(f, c, target) ==
    /\ OwnerGuard(f, target, c.choice)
    /\ c.op \in {"changeRole", "remove", "suspend", "reactivate"}

memberPolicy(f, c, target) ==
    /\ OwnerGuard(f, target, c.choice)
    /\ \/ c.op \in {"changeRole", "remove"}
       \/ c.op = "suspend" /\ target.status = "ACTIVE"
       \/ c.op = "reactivate" /\ target.status = "SUSPENDED"

memberActions(f, c) ==
    /\ c.kind = "member"
    /\ Holds(f, "platform.members.manage")
    /\ c.row \in Live(f, "member")
    /\ memberPolicy(f, c, f.row[c.row])

OtherOwner(f) ==
    \E r \in Live(f, "member") : f.row[r].role = "owner" /\ f.row[r].status = "ACTIVE"

leaveOrganization(f, c) ==
    c.kind = "member" /\ c.op = "leave" /\ (f.role = "owner" => OtherOwner(f))

invitationActions(f, c) ==
    /\ c.kind = "invitation"
    /\ Holds(f, "platform.members.manage")
    /\ \/ c.op = "new" /\ (c.choice = "owner" => f.role = "owner")
       \/ c.op \in {"resend", "remove"} /\ c.row \in Live(f, "invitation")

(***************************************************************************)
(* Roles, keys, settings, notifications.                                   *)
(***************************************************************************)
roleActions(f, c) ==
    /\ c.kind = "role"
    /\ Holds(f, "platform.roles.manage")
    /\ \/ c.op = "new"
       \/ c.op = "edit" /\ c.row \in Live(f, "role")
       \/ c.op = "remove" /\ c.row \in Live(f, "role") /\ f.row[c.row] # "busy"

keyActions(f, c) ==
    /\ c.kind = "key"
    /\ Holds(f, "platform.settings.manage")
    /\ \/ c.op = "new"
       \/ c.op = "revoke" /\ c.row \in Live(f, "key") /\ f.row[c.row] = "active"

updateOrganization(f, c) ==
    c.kind = "settings" /\ c.op = "rename" /\ Holds(f, "platform.settings.manage")

updateSecurityPolicy(f, c) ==
    /\ c.kind = "settings"
    /\ c.op = "requireMfa"
    /\ Holds(f, "platform.settings.manage")
    /\ c.choice = "on" => f.aal2

notificationActions(f, c) ==
    /\ c.kind = "notification"
    /\ c.op = "markAll" \/ (c.op = "markRead" /\ c.row \in Live(f, "notification"))

\* requireOrgContext first, then the action's permission and policy.
Accepts(f, c) ==
    /\ Admitted(f)
    /\ \/ leadActions(f, c) \/ accountActions(f, c) \/ contactActions(f, c)
       \/ productActions(f, c) \/ optionActions(f, c) \/ categoryActions(f, c)
       \/ configurationActions(f, c)
       \/ memberActions(f, c) \/ leaveOrganization(f, c) \/ invitationActions(f, c)
       \/ roleActions(f, c) \/ keyActions(f, c)
       \/ updateOrganization(f, c) \/ updateSecurityPolicy(f, c)
       \/ notificationActions(f, c)
=============================================================================
