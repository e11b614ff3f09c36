------------------------------- MODULE Offers -------------------------------
(***************************************************************************)
(* What the pages of a workspace offer: the links of the shell around      *)
(* them, and per page the links and the controls its components render.    *)
(* Each operator is named like the component or the page function it       *)
(* stands for, takes the facts the page was rendered from and, where the   *)
(* component takes one, the prop the page computed.  Wording, layout and   *)
(* the fields of the forms are left out.  A control is the request         *)
(* pressing it leads to; a link is the path it opens, as its segments      *)
(* below the workspace.                                                    *)
(***************************************************************************)
EXTENDS Rules, Sequences

(***************************************************************************)
(* The shell.  An item is its href and the permission it asks for.         *)
(***************************************************************************)
AnyMember == ""
item(href, permission) == [href |-> href, permission |-> permission]

workspaceSection ==
    {item(<<"dashboard">>, AnyMember), item(<<"inbox">>, AnyMember),
     item(<<"tasks">>, AnyMember), item(<<"copilot">>, "ai.copilot.use")}
\* Mutant: contacts ask in the menu for what the leads ask for.
contactsWithLeads ==
    {item(<<"crm", "leads">>, "crm.lead.read"),
     item(<<"crm", "accounts">>, "crm.account.read"),
     item(<<"crm", "contacts">>, "crm.lead.read"),
     item(<<"sales", "quotes">>, "sales.quote.read"),
     item(<<"sales", "orders">>, "sales.order.read"),
     item(<<"catalog", "products">>, "catalog.product.read"),
     item(<<"catalog", "categories">>, "catalog.product.write")}
sellSection ==
    {item(<<"crm", "leads">>, "crm.lead.read"),
     item(<<"crm", "accounts">>, "crm.account.read"),
     item(<<"crm", "contacts">>, "crm.account.read"),
     item(<<"sales", "quotes">>, "sales.quote.read"),
     item(<<"sales", "orders">>, "sales.order.read"),
     item(<<"catalog", "products">>, "catalog.product.read"),
     item(<<"catalog", "categories">>, "catalog.product.write")}
makeSection ==
    {item(<<"production", "work-orders">>, "production.workorder.read"),
     item(<<"production", "boms">>, "production.bom.write"),
     item(<<"quality", "inspections">>, "quality.inspection.read")}
sourceSection ==
    {item(<<"inventory", "items">>, "inventory.stock.read"),
     item(<<"inventory", "warehouses">>, "inventory.stock.read"),
     item(<<"procurement", "purchase-orders">>, "procurement.po.read")}
deliverSection ==
    {item(<<"fulfillment", "shipments">>, "fulfillment.shipment.read"),
     item(<<"finance", "invoices">>, "finance.invoice.read"),
     item(<<"finance", "payments">>, "finance.invoice.read")}
growSection ==
    {item(p, AnyMember) : p \in {<<"service", "tickets">>, <<"partners">>, <<"marketing">>,
                                 <<"people", "employees">>, <<"analytics">>}}
adminSection ==
    {item(<<"settings", "members">>, "platform.members.manage"),
     item(<<"settings", "roles">>, "platform.roles.manage"),
     item(<<"settings", "audit">>, "platform.audit.read"),
     item(<<"settings", "api-keys">>, "platform.settings.manage"),
     item(<<"settings">>, "platform.settings.manage")}

NAVIGATION ==
    workspaceSection \cup sellSection \cup makeSection \cup sourceSection
        \cup deliverSection \cup growSection \cup adminSection

quickActions ==
    {item(<<"crm", "leads", "new">>, "crm.lead.write"),
     item(<<"sales", "quotes", "new">>, "sales.quote.write"),
     item(<<"sales", "orders", "new">>, "sales.order.write"),
     item(<<"procurement", "purchase-orders", "new">>, "procurement.po.write"),
     item(<<"production", "work-orders", "new">>, "production.workorder.write")}

can(role, permission) ==
    \/ permission = AnyMember
    \/ role # "removed" /\ permission \in RolePermissions[role]

filterNavigation(items, role) == {i.href : i \in {j \in items : can(role, j.permission)}}

\* The sidebar and the shortcuts, the command palette, the top bar and the menu in it.
SidebarNav(role) == filterNavigation(NAVIGATION, role)
CommandPalette(role) == SidebarNav(role) \cup filterNavigation(quickActions, role)
NotificationsButton == {<<"notifications">>}
UserMenu == {<<"settings">>}
Topbar(role) ==
    (IF can(role, "ai.copilot.use") THEN {<<"copilot">>} ELSE {})
        \cup NotificationsButton \cup UserMenu

AppShell(role) == SidebarNav(role) \cup CommandPalette(role) \cup Topbar(role)

(***************************************************************************)
(* CRM pages.                                                              *)
(***************************************************************************)
On(kind, op, rows) == {Request(kind, op, r, NoChoice) : r \in rows}
New(kind) == Request(kind, "new", NoRow, NoChoice)
NewIn(kind, parent) == Request(kind, "new", NoRow, parent)
Only(condition, set) == IF condition THEN set ELSE {}

LeadsTable(f, canWrite) ==
    {<<"crm", "leads", r>> : r \in LeadIds(f)} \cup Only(canWrite, {<<"crm", "leads", "new">>})
LeadsPage(f) == [links |-> LeadsTable(f, Holds(f, "crm.lead.write")), controls |-> {}]

LeadForm == [links |-> {}, controls |-> {New("lead")}]
NewLeadPage(f) == LeadForm

\* Mutant: the buttons follow the lifecycle only.
lifecycleActions(f, lead) == {a \in LeadActions : lead.status \in leadMachine[a].from}
availableActions(f, lead) == {a \in LeadActions : canTransition(f, lead, a)}
NEEDS_REASON == {"lose", "disqualify"}
ActivityForm(r) == On("lead", "addActivity", {r})
OWNERS == {"me", "other", "nobody"}

\* Mutant: the owner can be changed only where the lead can be written.
OwnerWithEdit(f, r, canWrite, canAssign) ==
    Only(f.kind = "lead" /\ canWrite,
         On("lead", "edit", {r}) \cup ActivityForm(r)
             \cup {Request("lead", "move", r, a) : a \in availableActions(f, f.row[r])}
             \cup Only(canAssign, {Request("lead", "reassign", r, o) : o \in OWNERS}))

LeadWorkspace(f, r, canWrite, canAssign) ==
    Only(f.kind = "lead",
         Only(canWrite, On("lead", "edit", {r}) \cup ActivityForm(r)
                            \cup {Request("lead", "move", r, a) :
                                      a \in availableActions(f, f.row[r])})
             \cup Only(canAssign, {Request("lead", "reassign", r, o) : o \in OWNERS}))

SavedConfigurations(f, canWrite, configureHref) ==
    [links |-> Only(canWrite, configureHref),
     controls |-> Only(canWrite, On("configuration", "remove", Live(f, "configuration")))]

Nothing == [links |-> {}, controls |-> {}]

LeadPage(f, r) ==
    LET saved == IF Holds(f, "sales.quote.read")
                 THEN SavedConfigurations(f, Holds(f, "sales.quote.write"),
                                          {<<"catalog", "products">>})
                 ELSE Nothing
    IN  [links |-> saved.links,
         controls |-> saved.controls
             \cup LeadWorkspace(f, r, Holds(f, "crm.lead.write"), Holds(f, "crm.lead.assign"))]

ContactsManager(f, canWrite) ==
    Only(canWrite, {New("contact")} \cup On("contact", "edit", Live(f, "contact"))
                       \cup On("contact", "remove", Live(f, "contact")))
ContactsPage(f) ==
    [links |-> {}, controls |-> ContactsManager(f, Holds(f, "crm.account.write"))]

AccountsManager(f, canWrite) ==
    Only(canWrite, {New("account")} \cup On("account", "edit", Live(f, "account"))
                       \cup On("account", "remove", Live(f, "account")))
AccountsPage(f) ==
    [links |-> {}, controls |-> AccountsManager(f, Holds(f, "crm.account.write"))]

(***************************************************************************)
(* Catalog pages.                                                          *)
(***************************************************************************)
ProductsTable(f, canWrite) ==
    {<<"catalog", "products", r>> : r \in ProductIds(f)}
        \cup Only(canWrite, {<<"catalog", "products", "new">>})
ProductsPage(f) ==
    [links |-> ProductsTable(f, Holds(f, "catalog.product.write")), controls |-> {}]

ProductForm(categories) == {NewIn("product", category) : category \in categories}
NewProductPage(f) ==
    IF CategoryIds(f) # {} THEN [links |-> {}, controls |-> ProductForm(CategoryIds(f))]
    ELSE [links |-> {<<"catalog", "categories">>}, controls |-> {}]

availableProductActions(f, product) == {a \in ProductActions : canTransitionProduct(product, a)}

\* Options are listed, added, edited and removed only below a group to choose from.
HAS_CHOICES == {"SELECT", "MULTI_SELECT"}
ChoiceGroups(f) == {g \in GroupIds(f) : InputOf(f, g) \in HAS_CHOICES}
OptionsShown(f) == {r \in Live(f, "option") : "aGroup" \in ChoiceGroups(f)}

OptionGroups(f, r, canWrite) ==
    Only(canWrite,
         {NewIn("group", r)} \cup {NewIn("option", g) : g \in ChoiceGroups(f)}
             \cup On("group", "edit", Live(f, "group"))
             \cup On("group", "remove", Live(f, "group"))
             \cup On("option", "edit", OptionsShown(f))
             \cup On("option", "remove", OptionsShown(f)))

Availability(f, r, canWrite) ==
    Only(canWrite,
         {Request("product", "move", r, a) : a \in availableProductActions(f, f.row[r])}
             \cup Only(f.row[r].status = "DRAFT", On("product", "remove", {r})))

ProductWorkspace(f, r, canWrite) ==
    OptionGroups(f, r, canWrite)
        \cup Only(f.kind = "product",
                  Only(canWrite, On("product", "edit", {r})) \cup Availability(f, r, canWrite))

ProductPage(f, r) ==
    LET saved == IF Holds(f, "sales.quote.read")
                 THEN SavedConfigurations(
                          f, Holds(f, "sales.quote.write"),
                          Only(ProductStatus(f, r) = "ACTIVE",
                               {<<"catalog", "products", r, "configure">>}))
                 ELSE Nothing
    IN  [links |-> saved.links,
         controls |-> saved.controls
             \cup ProductWorkspace(f, r, Holds(f, "catalog.product.write"))]

ConfigurePage(f, r) ==
    [links |-> {}, controls |-> Only(ProductStatus(f, r) = "ACTIVE", {NewIn("configuration", r)})]

CategoriesManager(f, canWrite) ==
    Only(canWrite, {New("category")} \cup On("category", "edit", Live(f, "category"))
                       \cup On("category", "remove", Live(f, "category")))
CategoriesPage(f) ==
    [links |-> {}, controls |-> CategoriesManager(f, Holds(f, "catalog.product.write"))]

(***************************************************************************)
(* Settings pages.                                                         *)
(***************************************************************************)
MemberActions(f, r) ==
    On("member", IF f.row[r].status = "ACTIVE" THEN "suspend" ELSE "reactivate", {r})
        \cup On("member", "remove", {r})

RoleSelect(f, r, assignable) == {Request("member", "changeRole", r, k) : k \in assignable}

InviteForm(assignable) == {Request("invitation", "new", NoRow, k) : k \in assignable}
PendingInvitations(f) ==
    On("invitation", "resend", Live(f, "invitation"))
        \cup On("invitation", "remove", Live(f, "invitation"))

\* Two roles stand for all that can be given out.
MembersManager(f, canManage, canAssignOwner) ==
    LET assignable == {"viewer"} \cup Only(canAssignOwner, {"owner"})
    IN  Only(canManage,
             InviteForm(assignable) \cup PendingInvitations(f)
                 \cup UNION {RoleSelect(f, r, assignable) \cup MemberActions(f, r) :
                                 r \in Live(f, "member")})

LeaveWorkspace == On("member", "leave", {NoRow})
MembersPage(f) ==
    [links |-> {},
     controls |-> LeaveWorkspace
         \cup MembersManager(f, Holds(f, "platform.members.manage"), f.role = "owner")]

DeleteRole(f, r) == On("role", "remove", {r})
RolesManager(f, canManage) ==
    Only(canManage, {New("role")} \cup On("role", "edit", Live(f, "role"))
                        \cup UNION {DeleteRole(f, r) : r \in Live(f, "role")})
RolesPage(f) ==
    [links |-> {}, controls |-> RolesManager(f, Holds(f, "platform.roles.manage"))]

CreateKeyForm == {New("key")}
ApiKeysManager(f) ==
    CreateKeyForm \cup On("key", "revoke", {r \in Live(f, "key") : f.row[r] = "active"})
ApiKeysPage(f) == [links |-> {}, controls |-> ApiKeysManager(f)]

OrganizationSettingsForm(disabled) ==
    Only(~disabled, {Request("settings", "rename", NoRow, NoChoice)})
SecuritySettings(disabled) ==
    Only(~disabled, {Request("settings", "requireMfa", NoRow, next) : next \in {"on", "off"}})
WorkspaceSettings(f) ==
    LET canManage == Holds(f, "platform.settings.manage")
    IN  [links |-> {},
         controls |-> OrganizationSettingsForm(~canManage) \cup SecuritySettings(~canManage)]

AuditPage(f) == Nothing

(***************************************************************************)
(* Dashboard, notifications and the modules still to come.                 *)
(***************************************************************************)
WorkspaceDashboard(f) ==
    [links |-> Only(Holds(f, "platform.members.manage"), {<<"settings", "members">>})
         \cup Only(Holds(f, "platform.settings.manage"), {<<"settings">>})
         \cup Only(Holds(f, "crm.lead.read"),
                   {<<"crm", "leads", r>> : r \in LeadIds(f)} \cup {<<"crm", "leads">>})
         \cup {<<"crm", "leads">>},
     controls |-> {}]

NotificationsInbox(f) ==
    LET unread == {r \in Live(f, "notification") : f.row[r] = "unread"}
    IN  On("notification", "markRead", unread)
            \cup Only(unread # {}, On("notification", "markAll", {NoRow}))
\* Where the handlers of the events point a notification.
notificationHrefs == {<<"settings", "members">>, <<"dashboard">>, <<"settings">>}
NotificationsPage(f) ==
    [links |-> Only(Live(f, "notification") # {}, notificationHrefs),
     controls |-> NotificationsInbox(f)]

ROADMAP ==
    {"settings", "inbox", "tasks", "crm", "catalog", "sales", "inventory", "procurement",
     "production", "quality", "fulfillment", "finance", "people", "marketing", "service",
     "partners", "analytics", "copilot"}
moduleForPath(segments) == segments[1] \in ROADMAP
ComingSoon == [links |-> {<<"dashboard">>}, controls |-> {}]

(***************************************************************************)
(* The router: the page of a path, what it asks for (requireOrgContext;    *)
(* getOrgContext asks for a membership only), what it renders.             *)
(***************************************************************************)
\* A directory of the path's own name comes before one for any id.
StaticPage(path) ==
    CASE path = <<"dashboard">> -> "dashboard"
      [] path = <<"notifications">> -> "notifications"
      [] path = <<"crm", "leads">> -> "leads"
      [] path = <<"crm", "leads", "new">> -> "newLead"
      [] path = <<"crm", "contacts">> -> "contacts"
      [] path = <<"crm", "accounts">> -> "accounts"
      [] path = <<"catalog", "products">> -> "products"
      [] path = <<"catalog", "products", "new">> -> "newProduct"
      [] path = <<"catalog", "categories">> -> "categories"
      [] path = <<"settings">> -> "settings"
      [] path = <<"settings", "members">> -> "members"
      [] path = <<"settings", "roles">> -> "roles"
      [] path = <<"settings", "audit">> -> "audit"
      [] path = <<"settings", "api-keys">> -> "apiKeys"
      [] OTHER -> "none"

Within(path, area, records) == path[1] = area /\ path[2] = records

DynamicPage(f, path) ==
    CASE Len(path) = 3 /\ Within(path, "crm", "leads") ->
             IF path[3] \in LeadIds(f) THEN "lead" ELSE "missing"
      [] Len(path) = 3 /\ Within(path, "catalog", "products") ->
             IF path[3] \in ProductIds(f) THEN "product" ELSE "missing"
      [] Len(path) = 4 /\ Within(path, "catalog", "products") /\ path[4] = "configure" ->
             IF path[3] \in ProductIds(f) THEN "configure" ELSE "missing"
      [] OTHER -> IF moduleForPath(path) THEN "planned" ELSE "missing"

PageOf(f, path) ==
    IF StaticPage(path) # "none" THEN StaticPage(path) ELSE DynamicPage(f, path)

requireOrgContext ==
    [contacts |-> "crm.account.read", accounts |-> "crm.account.read",
     newLead |-> "crm.lead.write", newProduct |-> "catalog.product.write",
     configure |-> "sales.quote.write", apiKeys |-> "platform.settings.manage",
     audit |-> "platform.audit.read", notifications |-> AnyMember]

Opens(f, path) ==
    LET page == PageOf(f, path)
    IN  /\ page # "missing"
        /\ f.role # "removed"
        /\ page \in DOMAIN requireOrgContext =>
               ~Blocked(f) /\ can(f.role, requireOrgContext[page])

Page(f, path) ==
    LET page == PageOf(f, path)
    IN  CASE page = "dashboard" -> WorkspaceDashboard(f)
          [] page = "notifications" -> NotificationsPage(f)
          [] page = "leads" -> LeadsPage(f)
          [] page = "newLead" -> NewLeadPage(f)
          [] page = "lead" -> LeadPage(f, path[3])
          [] page = "contacts" -> ContactsPage(f)
          [] page = "accounts" -> AccountsPage(f)
          [] page = "products" -> ProductsPage(f)
          [] page = "newProduct" -> NewProductPage(f)
          [] page = "product" -> ProductPage(f, path[3])
          [] page = "configure" -> ConfigurePage(f, path[3])
          [] page = "categories" -> CategoriesPage(f)
          [] page = "settings" -> WorkspaceSettings(f)
          [] page = "members" -> MembersPage(f)
          [] page = "roles" -> RolesPage(f)
          [] page = "apiKeys" -> ApiKeysPage(f)
          [] page = "audit" -> AuditPage(f)
          [] OTHER -> ComingSoon
=============================================================================
