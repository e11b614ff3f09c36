---------------------------- MODULE ScreensProofs ----------------------------
(***************************************************************************)
(* Proofs about Screens, for any records, any custom roles, that is, any   *)
(* sets of permissions, any first facts and any number of changes.         *)
(*                                                                         *)
(* Most of it concerns the pages alone: for each kind of control, that the *)
(* server accepts what a page offers; for each operation, where it is      *)
(* offered; for each link, that its page opens. An old page needs one fact *)
(* more, that records never come back and that a name, once taken, stays   *)
(* (Before): what an old page shows was so once. The forms need that one   *)
(* of the lists is about a record the list has shown. These two are the    *)
(* inductive invariant, beside the types.                                  *)
(***************************************************************************)
EXTENDS Screens, TLAPS

-----------------------------------------------------------------------------
(* The router. *)

StaticNames ==
    {"dashboard", "notifications", "leads", "newLead", "contacts", "accounts", "products",
     "newProduct", "categories", "settings", "members", "roles", "audit", "apiKeys"}

LEMMA StaticNamed == \A path : StaticPage(path) \in StaticNames \cup {"none"}
  BY DEF StaticPage, StaticNames

LEMMA IdsAreNoWords ==
    \A r \in Rows \cup {"aLead", "aProduct"} : r # "new" /\ r # NoRow
  BY ScreensAssumption DEF NoRow

\* A page that is named after no record is the same whatever the facts.
LEMMA StaticLasts ==
    ASSUME NEW f, NEW g, NEW path, PageOf(f, path) \in StaticNames \cup {"planned"}
    PROVE  PageOf(g, path) = PageOf(f, path)
  <1>1. CASE StaticPage(path) # "none"
    BY <1>1 DEF PageOf
  <1>2. CASE StaticPage(path) = "none"
    <2>1. DynamicPage(f, path) = "planned"
      <3>1. DynamicPage(f, path) \in {"lead", "product", "configure", "planned", "missing"}
        BY DEF DynamicPage
      <3>2. DynamicPage(f, path) = PageOf(f, path)
        BY <1>2 DEF PageOf
      <3>3. QED
        BY <3>1, <3>2 DEF StaticNames
    <2>2. ~(Len(path) = 3 /\ Within(path, "crm", "leads"))
      BY <2>1 DEF DynamicPage, Within
    <2>3. ~(Len(path) = 3 /\ Within(path, "catalog", "products"))
      BY <2>1 DEF DynamicPage, Within
    <2>4. ~(Len(path) = 4 /\ Within(path, "catalog", "products") /\ path[4] = "configure")
      BY <2>1 DEF DynamicPage, Within
    <2>5. DynamicPage(g, path) = DynamicPage(f, path)
      BY <2>2, <2>3, <2>4 DEF DynamicPage
    <2>6. QED
      BY <1>2, <2>5 DEF PageOf
  <1>3. QED
    BY <1>1, <1>2

\* A page that is, names its record.
LEMMA RecordPage ==
    ASSUME NEW f, NEW path
    PROVE  /\ PageOf(f, path) = "lead" =>
                 path[3] \in LeadIds(f)
                 /\ \A g : path[3] \in LeadIds(g) => PageOf(g, path) = "lead"
           /\ PageOf(f, path) = "product" =>
                 path[3] \in ProductIds(f)
                 /\ \A g : path[3] \in ProductIds(g) => PageOf(g, path) = "product"
           /\ PageOf(f, path) = "configure" =>
                 path[3] \in ProductIds(f)
                 /\ \A g : path[3] \in ProductIds(g) => PageOf(g, path) = "configure"
  <1>1. CASE StaticPage(path) # "none"
    <2>1. PageOf(f, path) \in StaticNames
      BY <1>1, StaticNamed DEF PageOf
    <2>2. QED
      BY <2>1 DEF StaticNames
  <1>2. CASE StaticPage(path) = "none"
    <2>1. \A g : PageOf(g, path) = DynamicPage(g, path)
      BY <1>2 DEF PageOf
    <2>2. DynamicPage(f, path) = "lead" =>
             /\ Len(path) = 3 /\ Within(path, "crm", "leads")
             /\ path[3] \in LeadIds(f)
      BY DEF DynamicPage, Within
    <2>3. DynamicPage(f, path) = "product" =>
             /\ Len(path) = 3 /\ Within(path, "catalog", "products")
             /\ path[3] \in ProductIds(f)
      BY DEF DynamicPage, Within
    <2>4. DynamicPage(f, path) = "configure" =>
             /\ Len(path) = 4 /\ Within(path, "catalog", "products") /\ path[4] = "configure"
             /\ path[3] \in ProductIds(f)
      BY DEF DynamicPage, Within
    <2>5. ASSUME Len(path) = 3 /\ Within(path, "crm", "leads"), NEW g, path[3] \in LeadIds(g)
          PROVE  DynamicPage(g, path) = "lead"
      BY <2>5 DEF DynamicPage, Within
    <2>6. ASSUME Len(path) = 3 /\ Within(path, "catalog", "products"), NEW g,
                 path[3] \in ProductIds(g)
          PROVE  DynamicPage(g, path) = "product"
      BY <2>6 DEF DynamicPage, Within
    <2>7. ASSUME Len(path) = 4 /\ Within(path, "catalog", "products") /\ path[4] = "configure",
                 NEW g, path[3] \in ProductIds(g)
          PROVE  DynamicPage(g, path) = "configure"
      BY <2>7 DEF DynamicPage, Within
    <2>8. QED
      BY <2>1, <2>2, <2>3, <2>4, <2>5, <2>6, <2>7
  <1>3. QED
    BY <1>1, <1>2

LEMMA StaticRoutes ==
    ASSUME NEW f
    PROVE  /\ PageOf(f, <<"dashboard">>) = "dashboard"
           /\ PageOf(f, <<"notifications">>) = "notifications"
           /\ PageOf(f, <<"crm", "leads">>) = "leads"
           /\ PageOf(f, <<"crm", "leads", "new">>) = "newLead"
           /\ PageOf(f, <<"crm", "contacts">>) = "contacts"
           /\ PageOf(f, <<"crm", "accounts">>) = "accounts"
           /\ PageOf(f, <<"catalog", "products">>) = "products"
           /\ PageOf(f, <<"catalog", "products", "new">>) = "newProduct"
           /\ PageOf(f, <<"catalog", "categories">>) = "categories"
           /\ PageOf(f, <<"settings">>) = "settings"
           /\ PageOf(f, <<"settings", "members">>) = "members"
           /\ PageOf(f, <<"settings", "roles">>) = "roles"
           /\ PageOf(f, <<"settings", "audit">>) = "audit"
           /\ PageOf(f, <<"settings", "api-keys">>) = "apiKeys"
  <1>1. /\ StaticPage(<<"dashboard">>) = "dashboard"
        /\ StaticPage(<<"notifications">>) = "notifications"
        /\ StaticPage(<<"crm", "leads">>) = "leads"
        /\ StaticPage(<<"crm", "leads", "new">>) = "newLead"
        /\ StaticPage(<<"crm", "contacts">>) = "contacts"
        /\ StaticPage(<<"crm", "accounts">>) = "accounts"
        /\ StaticPage(<<"catalog", "products">>) = "products"
    BY DEF StaticPage
  <1>2. /\ StaticPage(<<"catalog", "products", "new">>) = "newProduct"
        /\ StaticPage(<<"catalog", "categories">>) = "categories"
        /\ StaticPage(<<"settings">>) = "settings"
        /\ StaticPage(<<"settings", "members">>) = "members"
        /\ StaticPage(<<"settings", "roles">>) = "roles"
        /\ StaticPage(<<"settings", "audit">>) = "audit"
        /\ StaticPage(<<"settings", "api-keys">>) = "apiKeys"
    BY DEF StaticPage
  <1>3. QED
    BY <1>1, <1>2 DEF PageOf

\* The menus' modules that are still to come.
Areas ==
    {<<"inbox">>, <<"tasks">>, <<"copilot">>, <<"sales", "quotes">>, <<"sales", "orders">>,
     <<"production", "work-orders">>, <<"production", "boms">>, <<"quality", "inspections">>,
     <<"inventory", "items">>, <<"inventory", "warehouses">>,
     <<"procurement", "purchase-orders">>, <<"fulfillment", "shipments">>,
     <<"finance", "invoices">>, <<"finance", "payments">>, <<"service", "tickets">>,
     <<"partners">>, <<"marketing">>, <<"people", "employees">>, <<"analytics">>,
     <<"sales", "quotes", "new">>, <<"sales", "orders", "new">>,
     <<"procurement", "purchase-orders", "new">>, <<"production", "work-orders", "new">>}

LEMMA PlannedRoutes ==
    ASSUME NEW f, NEW path \in Areas
    PROVE  PageOf(f, path) = "planned"
  <1>1. StaticPage(path) = "none"
    BY DEF Areas, StaticPage
  <1>2. path[1] \notin {"crm", "catalog"} /\ path[1] \in ROADMAP
    BY DEF Areas, ROADMAP
  <1>3. DynamicPage(f, path) = "planned"
    BY <1>2 DEF DynamicPage, Within, moduleForPath
  <1>4. QED
    BY <1>1, <1>3 DEF PageOf

LEMMA RecordRoutes ==
    ASSUME NEW f, NEW r \in Rows \cup {"aLead", "aProduct"}
    PROVE  /\ r \in LeadIds(f) => PageOf(f, <<"crm", "leads", r>>) = "lead"
           /\ r \in ProductIds(f) =>
                 /\ PageOf(f, <<"catalog", "products", r>>) = "product"
                 /\ PageOf(f, <<"catalog", "products", r, "configure">>) = "configure"
  <1>1. r # "new"
    BY IdsAreNoWords
  <1>2. /\ StaticPage(<<"crm", "leads", r>>) = "none"
        /\ StaticPage(<<"catalog", "products", r>>) = "none"
        /\ StaticPage(<<"catalog", "products", r, "configure">>) = "none"
    BY <1>1 DEF StaticPage
  <1>3. r \in LeadIds(f) => DynamicPage(f, <<"crm", "leads", r>>) = "lead"
    BY DEF DynamicPage, Within
  <1>4. r \in ProductIds(f) => DynamicPage(f, <<"catalog", "products", r>>) = "product"
    BY DEF DynamicPage, Within
  <1>5. r \in ProductIds(f) =>
           DynamicPage(f, <<"catalog", "products", r, "configure">>) = "configure"
    BY DEF DynamicPage, Within
  <1>6. QED
    BY <1>2, <1>3, <1>4, <1>5 DEF PageOf

-----------------------------------------------------------------------------
(* Links. *)

\* What a member is asked for before a page of that name is shown.
LEMMA OpensStatic ==
    ASSUME NEW f, NEW path, Admitted(f),
           PageOf(f, path) \in {"dashboard", "leads", "lead", "products", "product",
                                "categories", "settings", "members", "roles",
                                "notifications", "planned"}
    PROVE  Opens(f, path)
  <1>1. CASE PageOf(f, path) = "notifications"
    <2>1. can(f.role, requireOrgContext["notifications"])
      BY DEF requireOrgContext, can
    <2>2. QED
      BY <1>1, <2>1 DEF Opens, Admitted
  <1>2. CASE PageOf(f, path) # "notifications"
    BY <1>2 DEF Opens, Admitted, requireOrgContext
  <1>3. QED
    BY <1>1, <1>2

LEMMA OpensGuarded ==
    ASSUME NEW f, NEW path, Admitted(f)
    PROVE  /\ PageOf(f, path) \in {"contacts", "accounts"} /\ can(f.role, "crm.account.read")
                 => Opens(f, path)
           /\ PageOf(f, path) = "newLead" /\ can(f.role, "crm.lead.write") => Opens(f, path)
           /\ PageOf(f, path) = "newProduct" /\ can(f.role, "catalog.product.write")
                 => Opens(f, path)
           /\ PageOf(f, path) = "configure" /\ can(f.role, "sales.quote.write")
                 => Opens(f, path)
           /\ PageOf(f, path) = "apiKeys" /\ can(f.role, "platform.settings.manage")
                 => Opens(f, path)
           /\ PageOf(f, path) = "audit" /\ can(f.role, "platform.audit.read")
                 => Opens(f, path)
  BY DEF Opens, Admitted, requireOrgContext

LEMMA HoldsIsCan == ASSUME NEW f, NEW p, Holds(f, p) PROVE can(f.role, p)
  BY DEF Holds, can

\* Pages that ask for no more than membership.
Public ==
    Areas \cup {<<"dashboard">>, <<"notifications">>, <<"crm", "leads">>,
                <<"catalog", "products">>, <<"catalog", "categories">>, <<"settings">>,
                <<"settings", "members">>, <<"settings", "roles">>}

LEMMA PublicOpens ==
    ASSUME NEW f, Admitted(f), NEW path \in Public
    PROVE  Opens(f, path)
  <1>1. CASE path \in Areas
    BY <1>1, PlannedRoutes, OpensStatic
  <1>2. CASE path \notin Areas
    BY <1>2, StaticRoutes, OpensStatic DEF Public
  <1>3. QED
    BY <1>1, <1>2

\* An item asks for at least what its page asks for.
LEMMA ItemsOpen ==
    ASSUME NEW f, Admitted(f), NEW i \in NAVIGATION \cup quickActions,
           can(f.role, i.permission)
    PROVE  Opens(f, i.href)
  <1>1. CASE i.href \in Public
    BY <1>1, PublicOpens
  <1>2. CASE i = item(<<"crm", "accounts">>, "crm.account.read")
    BY <1>2, StaticRoutes, OpensGuarded DEF item
  <1>3. CASE i = item(<<"crm", "contacts">>, "crm.account.read")
    BY <1>3, StaticRoutes, OpensGuarded DEF item
  <1>4. CASE i = item(<<"settings", "audit">>, "platform.audit.read")
    BY <1>4, StaticRoutes, OpensGuarded DEF item
  <1>5. CASE i = item(<<"settings", "api-keys">>, "platform.settings.manage")
    BY <1>5, StaticRoutes, OpensGuarded DEF item
  <1>6. CASE i = item(<<"crm", "leads", "new">>, "crm.lead.write")
    BY <1>6, StaticRoutes, OpensGuarded DEF item
  <1>7. ASSUME i \in workspaceSection \cup makeSection \cup sourceSection \cup deliverSection
                        \cup growSection
        PROVE  i.href \in Public
    BY <1>7 DEF workspaceSection, makeSection, sourceSection, deliverSection, growSection,
                item, Public, Areas
  <1>8. ASSUME i \in sellSection
        PROVE  \/ i.href \in Public
               \/ i = item(<<"crm", "accounts">>, "crm.account.read")
               \/ i = item(<<"crm", "contacts">>, "crm.account.read")
    BY <1>8 DEF sellSection, item, Public, Areas
  <1>9. ASSUME i \in adminSection
        PROVE  \/ i.href \in Public
               \/ i = item(<<"settings", "audit">>, "platform.audit.read")
               \/ i = item(<<"settings", "api-keys">>, "platform.settings.manage")
    BY <1>9 DEF adminSection, item, Public
  <1>10. ASSUME i \in quickActions
         PROVE  \/ i.href \in Public
                \/ i = item(<<"crm", "leads", "new">>, "crm.lead.write")
    BY <1>10 DEF quickActions, item, Public, Areas
  <1>11. QED
    BY <1>1, <1>2, <1>3, <1>4, <1>5, <1>6, <1>7, <1>8, <1>9, <1>10 DEF NAVIGATION

LEMMA ShellOpens ==
    ASSUME NEW f, Admitted(f), NEW path \in AppShell(f.role)
    PROVE  Opens(f, path)
  <1>1. CASE path \in SidebarNav(f.role) \cup CommandPalette(f.role)
    <2>1. PICK i \in NAVIGATION \cup quickActions : can(f.role, i.permission) /\ path = i.href
      BY <1>1 DEF SidebarNav, CommandPalette, filterNavigation
    <2>2. QED
      BY <2>1, ItemsOpen
  <1>2. CASE path \in Topbar(f.role)
    <2>1. path \in Public
      BY <1>2 DEF Topbar, NotificationsButton, UserMenu, Public, Areas
    <2>2. QED
      BY <2>1, PublicOpens
  <1>3. QED
    BY <1>1, <1>2 DEF AppShell

\* The links of a page, in so far as they lead to pages that ask for something.
LEMMA PageLinks ==
    ASSUME NEW f, NEW path, PageOf(f, path) # "missing", NEW link \in Page(f, path).links
    PROVE  \/ link \in Public
           \/ \E r \in LeadIds(f) : link = <<"crm", "leads", r>>
           \/ \E r \in ProductIds(f) : link = <<"catalog", "products", r>>
           \/ link = <<"crm", "leads", "new">> /\ Holds(f, "crm.lead.write")
           \/ link = <<"catalog", "products", "new">> /\ Holds(f, "catalog.product.write")
           \/ /\ \E r \in ProductIds(f) : link = <<"catalog", "products", r, "configure">>
              /\ Holds(f, "sales.quote.write")
  <1>1. CASE PageOf(f, path) = "dashboard"
    <2>1. link \in WorkspaceDashboard(f).links
      BY <1>1 DEF Page
    <2>2. QED
      BY <2>1 DEF WorkspaceDashboard, Only, Public
  <1>2. CASE PageOf(f, path) = "notifications"
    <2>1. link \in NotificationsPage(f).links
      BY <1>2 DEF Page
    <2>2. QED
      BY <2>1 DEF NotificationsPage, notificationHrefs, Only, Public
  <1>3. CASE PageOf(f, path) = "leads"
    <2>1. link \in LeadsTable(f, Holds(f, "crm.lead.write"))
      BY <1>3 DEF Page, LeadsPage
    <2>2. QED
      BY <2>1 DEF LeadsTable, Only
  <1>4. CASE PageOf(f, path) = "lead"
    <2>1. link \in LeadPage(f, path[3]).links
      BY <1>4 DEF Page
    <2>2. link = <<"catalog", "products">>
      BY <2>1 DEF LeadPage, SavedConfigurations, Nothing, Only
    <2>3. QED
      BY <2>2 DEF Public
  <1>5. CASE PageOf(f, path) = "products"
    <2>1. link \in ProductsTable(f, Holds(f, "catalog.product.write"))
      BY <1>5 DEF Page, ProductsPage
    <2>2. QED
      BY <2>1 DEF ProductsTable, Only
  <1>6. CASE PageOf(f, path) = "newProduct"
    <2>1. link \in NewProductPage(f).links
      BY <1>6 DEF Page
    <2>2. link = <<"catalog", "categories">>
      BY <2>1 DEF NewProductPage
    <2>3. QED
      BY <2>2 DEF Public
  <1>7. CASE PageOf(f, path) = "product"
    <2>1. link \in ProductPage(f, path[3]).links
      BY <1>7 DEF Page
    <2>2. link = <<"catalog", "products", path[3], "configure">> /\ Holds(f, "sales.quote.write")
      BY <2>1 DEF ProductPage, SavedConfigurations, Nothing, Only
    <2>3. path[3] \in ProductIds(f)
      BY <1>7, RecordPage
    <2>4. QED
      BY <2>2, <2>3
  <1>8. CASE PageOf(f, path) \in {"newLead", "contacts", "accounts", "configure", "categories",
                                  "settings", "members", "roles", "apiKeys", "audit"}
    <2>1. Page(f, path).links = {}
      BY <1>8 DEF Page, NewLeadPage, LeadForm, ContactsPage, AccountsPage, ConfigurePage,
                  CategoriesPage, WorkspaceSettings, MembersPage, RolesPage, ApiKeysPage,
                  AuditPage, Nothing
    <2>2. QED
      BY <2>1
  <1>9. CASE PageOf(f, path) \notin StaticNames \cup {"lead", "product", "configure"}
    <2>1. link \in ComingSoon.links
      BY <1>9 DEF Page, StaticNames
    <2>2. QED
      BY <2>1 DEF ComingSoon, Public
  <1>10. QED
    BY <1>1, <1>2, <1>3, <1>4, <1>5, <1>6, <1>7, <1>8, <1>9 DEF StaticNames

LEMMA IdsAreRows ==
    ASSUME NEW f
    PROVE  LeadIds(f) \subseteq Rows \cup {"aLead"} /\ ProductIds(f) \subseteq Rows \cup {"aProduct"}
  BY DEF LeadIds, ProductIds, Live

LEMMA LinksOfPagesOpen ==
    ASSUME NEW f, Admitted(f), NEW path, Opens(f, path), NEW link \in Page(f, path).links
    PROVE  Opens(f, link)
  <1>1. PageOf(f, path) # "missing"
    BY DEF Opens
  <1>2. CASE link \in Public
    BY <1>2, PublicOpens
  <1>3. CASE \E r \in LeadIds(f) : link = <<"crm", "leads", r>>
    BY <1>3, IdsAreRows, RecordRoutes, OpensStatic
  <1>4. CASE \E r \in ProductIds(f) : link = <<"catalog", "products", r>>
    BY <1>4, IdsAreRows, RecordRoutes, OpensStatic
  <1>5. CASE link = <<"crm", "leads", "new">> /\ Holds(f, "crm.lead.write")
    BY <1>5, StaticRoutes, OpensGuarded, HoldsIsCan
  <1>6. CASE link = <<"catalog", "products", "new">> /\ Holds(f, "catalog.product.write")
    BY <1>6, StaticRoutes, OpensGuarded, HoldsIsCan
  <1>7. CASE /\ \E r \in ProductIds(f) : link = <<"catalog", "products", r, "configure">>
             /\ Holds(f, "sales.quote.write")
    <2>1. PageOf(f, link) = "configure"
      BY <1>7, IdsAreRows, RecordRoutes
    <2>2. QED
      BY <1>7, <2>1, OpensGuarded, HoldsIsCan
  <1>8. QED
    BY <1>1, <1>2, <1>3, <1>4, <1>5, <1>6, <1>7, PageLinks

LEMMA FollowedOpen ==
    ASSUME NEW f, Admitted(f), NEW paths, \A path \in paths : Opens(f, path)
    PROVE  \A path \in Follow(f, paths) : Opens(f, path)
  BY LinksOfPagesOpen DEF Follow

\* For every role, also those a workspace makes up, and whatever the facts.
LEMMA ReachableOpens ==
    ASSUME NEW f, Admitted(f)
    PROVE  \A path \in Reachable(f) : Opens(f, path)
  <1>1. \A path \in AppShell(f.role) : Opens(f, path)
    BY ShellOpens
  <1>2. \A path \in Follow(f, AppShell(f.role)) : Opens(f, path)
    BY <1>1, FollowedOpen
  <1>3. QED
    BY <1>2, FollowedOpen DEF Reachable

-----------------------------------------------------------------------------
(* Controls. *)

ProductDetails ==
    [status : {"DRAFT", "ACTIVE", "DISCONTINUED"}, sellable : BOOLEAN, inUse : BOOLEAN]

LEMMA FactsTyped ==
    ASSUME NEW f, AreFacts(f), NEW r \in Rows
    PROVE  /\ f.kind \in Kinds
           /\ f.aal2 \in BOOLEAN
           /\ f.requireMfa \in BOOLEAN
           /\ f.there[r] \in {"unused", "live", "gone"}
           /\ f.row[r] \in Details[f.kind]
           /\ f.kind = "lead" => f.row[r] \in LeadDetails
           /\ f.kind = "product" => f.row[r] \in ProductDetails
           /\ f.kind = "member" =>
                 f.row[r] \in [role : {"owner", "other"}, status : {"ACTIVE", "SUSPENDED"}]
           /\ f.kind = "key" => f.row[r] \in {"active", "revoked"}
           /\ f.kind = "notification" => f.row[r] \in {"unread", "read"}
  <1>1. f \in FactsOf(f.kind) /\ f.kind \in Kinds
    BY DEF AreFacts
  <1>2. f.row[r] \in Details[f.kind] /\ f.there[r] \in {"unused", "live", "gone"}
    BY <1>1 DEF FactsOf
  <1>3. f.aal2 \in BOOLEAN /\ f.requireMfa \in BOOLEAN
    BY <1>1 DEF FactsOf
  <1>4. /\ Details["lead"] = LeadDetails
        /\ Details["product"] = ProductDetails
        /\ Details["member"] = [role : {"owner", "other"}, status : {"ACTIVE", "SUSPENDED"}]
        /\ Details["key"] = {"active", "revoked"}
        /\ Details["notification"] = {"unread", "read"}
    BY DEF Details, ProductDetails
  <1>5. QED
    BY <1>1, <1>2, <1>3, <1>4

LEMMA LiveIsThere ==
    ASSUME NEW f, NEW kind, NEW r \in Live(f, kind)
    PROVE  r \in Rows /\ f.kind = kind /\ f.there[r] = "live" /\ r # NoRow /\ r # "new"
  BY IdsAreNoWords DEF Live

\* Where a control is found.
LEMMA RequestFields ==
    ASSUME NEW kind, NEW op, NEW row, NEW choice
    PROVE  /\ Request(kind, op, row, choice).kind = kind
           /\ Request(kind, op, row, choice).op = op
           /\ Request(kind, op, row, choice).row = row
           /\ Request(kind, op, row, choice).choice = choice
  BY DEF Request

LEMMA PageControls ==
    ASSUME NEW f, NEW path, NEW c \in Page(f, path).controls
    PROVE  \/ PageOf(f, path) = "newLead" /\ c = New("lead")
           \/ PageOf(f, path) = "lead" /\ c \in LeadPage(f, path[3]).controls
           \/ PageOf(f, path) = "contacts" /\ c \in ContactsPage(f).controls
           \/ PageOf(f, path) = "accounts" /\ c \in AccountsPage(f).controls
           \/ /\ PageOf(f, path) = "newProduct"
              /\ \E k \in CategoryIds(f) : c = NewIn("product", k)
           \/ PageOf(f, path) = "product" /\ c \in ProductPage(f, path[3]).controls
           \/ PageOf(f, path) = "configure" /\ c \in ConfigurePage(f, path[3]).controls
           \/ PageOf(f, path) = "categories" /\ c \in CategoriesPage(f).controls
           \/ PageOf(f, path) = "settings" /\ c \in WorkspaceSettings(f).controls
           \/ PageOf(f, path) = "members" /\ c \in MembersPage(f).controls
           \/ PageOf(f, path) = "roles" /\ c \in RolesPage(f).controls
           \/ PageOf(f, path) = "apiKeys" /\ c \in ApiKeysPage(f).controls
           \/ PageOf(f, path) = "notifications" /\ c \in NotificationsPage(f).controls
  <1>1. CASE PageOf(f, path) \in {"dashboard", "leads", "products", "audit"}
    <2>1. Page(f, path).controls = {}
      BY <1>1 DEF Page, WorkspaceDashboard, LeadsPage, ProductsPage, AuditPage, Nothing
    <2>2. QED
      BY <2>1
  <1>2. CASE PageOf(f, path) \notin StaticNames \cup {"lead", "product", "configure"}
    <2>1. Page(f, path).controls = {}
      BY <1>2 DEF Page, StaticNames, ComingSoon
    <2>2. QED
      BY <2>1
  <1>3. CASE PageOf(f, path) = "newLead"
    BY <1>3 DEF Page, NewLeadPage, LeadForm
  <1>4. CASE PageOf(f, path) = "newProduct"
    <2>1. c \in NewProductPage(f).controls
      BY <1>4 DEF Page
    <2>2. \E k \in CategoryIds(f) : c = NewIn("product", k)
      BY <2>1 DEF NewProductPage, ProductForm
    <2>3. QED
      BY <1>4, <2>2
  <1>5. CASE PageOf(f, path) \in {"lead", "contacts", "accounts", "product", "configure"}
    BY <1>5 DEF Page
  <1>6. CASE PageOf(f, path) \in {"categories", "settings", "members", "roles", "apiKeys",
                                  "notifications"}
    BY <1>6 DEF Page
  <1>7. QED
    BY <1>1, <1>2, <1>3, <1>4, <1>5, <1>6 DEF StaticNames

\* The buttons for configurations, on the pages of leads and products.
ConfigurationControls(f) ==
    IF Holds(f, "sales.quote.read") /\ Holds(f, "sales.quote.write")
    THEN On("configuration", "remove", Live(f, "configuration")) ELSE {}

LEMMA LeadControls ==
    ASSUME NEW f, NEW r, NEW c \in LeadPage(f, r).controls
    PROVE  \/ c \in ConfigurationControls(f)
           \/ /\ f.kind = "lead" /\ Holds(f, "crm.lead.write")
              /\ \/ c = Request("lead", "edit", r, NoChoice)
                 \/ c = Request("lead", "addActivity", r, NoChoice)
                 \/ \E a \in LeadActions : c = Request("lead", "move", r, a)
                                           /\ canTransition(f, f.row[r], a)
           \/ /\ f.kind = "lead" /\ Holds(f, "crm.lead.assign")
              /\ \E o \in OWNERS : c = Request("lead", "reassign", r, o)
  BY DEF LeadPage, SavedConfigurations, Nothing, Only, ConfigurationControls, LeadWorkspace,
         ActivityForm, On, availableActions

LEMMA ProductControls ==
    ASSUME NEW f, NEW r, NEW c \in ProductPage(f, r).controls
    PROVE  \/ c \in ConfigurationControls(f)
           \/ /\ Holds(f, "catalog.product.write")
              /\ \/ c = NewIn("group", r)
                 \/ \E g \in ChoiceGroups(f) : c = NewIn("option", g)
                 \/ \E g \in Live(f, "group") : \/ c = Request("group", "edit", g, NoChoice)
                                                \/ c = Request("group", "remove", g, NoChoice)
                 \/ \E o \in OptionsShown(f) : \/ c = Request("option", "edit", o, NoChoice)
                                               \/ c = Request("option", "remove", o, NoChoice)
           \/ /\ Holds(f, "catalog.product.write") /\ f.kind = "product"
              /\ \/ c = Request("product", "edit", r, NoChoice)
                 \/ /\ c = Request("product", "remove", r, NoChoice)
                    /\ f.row[r].status = "DRAFT"
                 \/ \E a \in ProductActions : c = Request("product", "move", r, a)
                                              /\ canTransitionProduct(f.row[r], a)
  <1>1. CASE c \in OptionGroups(f, r, Holds(f, "catalog.product.write"))
    BY <1>1 DEF OptionGroups, Only, On
  <1>2. CASE c \in Only(f.kind = "product",
                        Only(Holds(f, "catalog.product.write"), On("product", "edit", {r}))
                            \cup Availability(f, r, Holds(f, "catalog.product.write")))
    BY <1>2 DEF Only, On, Availability, availableProductActions
  <1>3. CASE c \in ConfigurationControls(f)
    BY <1>3
  <1>4. QED
    BY <1>1, <1>2, <1>3 DEF ProductPage, SavedConfigurations, Nothing, Only, ProductWorkspace,
                            ConfigurationControls

LEMMA MembersControls ==
    ASSUME NEW f, NEW c \in MembersPage(f).controls
    PROVE  \/ c = Request("member", "leave", NoRow, NoChoice)
           \/ /\ Holds(f, "platform.members.manage")
              /\ \/ \E k \in {"viewer", "owner"} : c = Request("invitation", "new", NoRow, k)
                                                   /\ (k = "owner" => f.role = "owner")
                 \/ \E r \in Live(f, "invitation") :
                       \/ c = Request("invitation", "resend", r, NoChoice)
                       \/ c = Request("invitation", "remove", r, NoChoice)
                 \/ \E r \in Live(f, "member") :
                       \/ \E k \in {"viewer", "owner"} : c = Request("member", "changeRole", r, k)
                                                         /\ (k = "owner" => f.role = "owner")
                       \/ c = Request("member", "remove", r, NoChoice)
                       \/ c = Request("member", "suspend", r, NoChoice)
                          /\ f.row[r].status = "ACTIVE"
                       \/ c = Request("member", "reactivate", r, NoChoice)
                          /\ f.row[r].status # "ACTIVE"
  BY DEF MembersPage, LeaveWorkspace, MembersManager, On, Only, InviteForm, PendingInvitations,
         RoleSelect, MemberActions

-----------------------------------------------------------------------------
(* What a page offers, the server accepts. *)

LEMMA ConfigurationOffers ==
    ASSUME NEW f, Admitted(f), NEW c \in ConfigurationControls(f)
    PROVE  Accepts(f, c)
  <1>1. PICK r \in Live(f, "configuration") : c = Request("configuration", "remove", r, NoChoice)
    BY DEF ConfigurationControls, On
  <1>2. Holds(f, "sales.quote.write")
    BY DEF ConfigurationControls
  <1>3. configurationActions(f, c)
    BY <1>1, <1>2 DEF configurationActions, deleteConfiguration, Request
  <1>4. QED
    BY <1>3 DEF Accepts

LEMMA LeadOffers ==
    ASSUME NEW f, AreFacts(f), Admitted(f), NEW r \in LeadIds(f), NEW c \in LeadPage(f, r).controls
    PROVE  Accepts(f, c) \/ LeftToTheServer(f, c)
  <1>1. CASE c \in ConfigurationControls(f)
    BY <1>1, ConfigurationOffers
  <1>2. CASE f.kind = "lead"
    <2>1. r \in Live(f, "lead") /\ r \in Rows
      BY <1>2 DEF LeadIds, Live
    <2>2. f.row[r].owner \in OWNERS
      BY <1>2, <2>1, FactsTyped DEF LeadDetails
    <2>3. CASE /\ Holds(f, "crm.lead.write")
               /\ \/ c = Request("lead", "edit", r, NoChoice)
                  \/ c = Request("lead", "addActivity", r, NoChoice)
      <3>1. CASE f.row[r].owner = "other"
        BY <2>3, <3>1 DEF LeftToTheServer, Request
      <3>2. CASE f.row[r].owner # "other"
        <4>1. canEditLead(f, f.row[r])
          BY <2>2, <3>2 DEF canEditLead, OWNERS
        <4>2. leadActions(f, c)
          BY <2>1, <2>3, <4>1 DEF leadActions, Request
        <4>3. QED
          BY <4>2 DEF Accepts
      <3>3. QED
        BY <3>1, <3>2
    <2>4. CASE /\ Holds(f, "crm.lead.write")
               /\ \E a \in LeadActions :
                     c = Request("lead", "move", r, a) /\ canTransition(f, f.row[r], a)
      <3>1. leadActions(f, c)
        BY <2>1, <2>4 DEF leadActions, Request
      <3>2. QED
        BY <3>1 DEF Accepts
    <2>5. CASE /\ Holds(f, "crm.lead.assign")
               /\ \E o \in OWNERS : c = Request("lead", "reassign", r, o)
      <3>1. leadActions(f, c)
        BY <2>1, <2>5 DEF leadActions, Request
      <3>2. QED
        BY <3>1 DEF Accepts
    <2>6. QED
      BY <1>1, <2>3, <2>4, <2>5, LeadControls
  <1>3. QED
    BY <1>1, <1>2, LeadControls

LEMMA AccountOffers ==
    ASSUME NEW f, Admitted(f), NEW c,
           c \in ContactsPage(f).controls \/ c \in AccountsPage(f).controls
    PROVE  Accepts(f, c) \/ LeftToTheServer(f, c)
  <1>1. Holds(f, "crm.account.write")
    BY DEF ContactsPage, ContactsManager, AccountsPage, AccountsManager, Only
  <1>2. CASE c = New("contact") \/ c = New("account")
    BY <1>1, <1>2 DEF Accepts, contactActions, accountActions, New, Request
  <1>3. CASE \E r \in Live(f, "contact") : \/ c = Request("contact", "edit", r, NoChoice)
                                           \/ c = Request("contact", "remove", r, NoChoice)
    <2>1. contactActions(f, c)
      BY <1>1, <1>3 DEF contactActions, updateContact, archiveContact, Request
    <2>2. QED
      BY <2>1 DEF Accepts
  <1>4. CASE \E r \in Live(f, "account") : \/ c = Request("account", "edit", r, NoChoice)
                                           \/ c = Request("account", "remove", r, NoChoice)
    <2>1. accountActions(f, c) \/ LeftToTheServer(f, c)
      BY <1>1, <1>4 DEF accountActions, updateAccount, archiveAccount, Request, LeftToTheServer
    <2>2. QED
      BY <2>1 DEF Accepts
  <1>5. QED
    BY <1>2, <1>3, <1>4
       DEF ContactsPage, ContactsManager, AccountsPage, AccountsManager, Only, On

LEMMA ProductOffers ==
    ASSUME NEW f, AreFacts(f), Admitted(f), NEW r \in ProductIds(f),
           NEW c \in ProductPage(f, r).controls
    PROVE  Accepts(f, c) \/ LeftToTheServer(f, c)
  <1>1. CASE c \in ConfigurationControls(f)
    BY <1>1, ConfigurationOffers
  <1>2. CASE /\ Holds(f, "catalog.product.write")
             /\ \/ c = NewIn("group", r)
                \/ \E g \in ChoiceGroups(f) : c = NewIn("option", g)
                \/ \E g \in Live(f, "group") : \/ c = Request("group", "edit", g, NoChoice)
                                               \/ c = Request("group", "remove", g, NoChoice)
                \/ \E o \in OptionsShown(f) : \/ c = Request("option", "edit", o, NoChoice)
                                              \/ c = Request("option", "remove", o, NoChoice)
    <2>0. SUFFICES optionActions(f, c)
      BY DEF Accepts
    <2>1. CASE c = NewIn("group", r)
      BY <1>2, <2>1 DEF optionActions, saveOptionGroup, NewIn, Request
    <2>2. CASE \E g \in ChoiceGroups(f) : c = NewIn("option", g)
      BY <1>2, <2>2
         DEF optionActions, saveOption, GroupOf, ChoiceGroups, HAS_CHOICES, NewIn, Request
    <2>3. CASE \E g \in Live(f, "group") : \/ c = Request("group", "edit", g, NoChoice)
                                           \/ c = Request("group", "remove", g, NoChoice)
      BY <1>2, <2>3 DEF optionActions, saveOptionGroup, deleteOptionGroup, Request
    <2>4. CASE \E o \in OptionsShown(f) : \/ c = Request("option", "edit", o, NoChoice)
                                          \/ c = Request("option", "remove", o, NoChoice)
      BY <1>2, <2>4 DEF optionActions, saveOption, deleteOption, GroupOf, OptionsShown,
                        ChoiceGroups, HAS_CHOICES, Request
    <2>5. QED
      BY <1>2, <2>1, <2>2, <2>3, <2>4
  <1>3. CASE /\ Holds(f, "catalog.product.write") /\ f.kind = "product"
             /\ \/ c = Request("product", "edit", r, NoChoice)
                \/ /\ c = Request("product", "remove", r, NoChoice)
                    /\ f.row[r].status = "DRAFT"
                \/ \E a \in ProductActions : c = Request("product", "move", r, a)
                                             /\ canTransitionProduct(f.row[r], a)
    <2>1. r \in Live(f, "product")
      BY <1>3 DEF ProductIds
    <2>2. f.row[r].inUse \in BOOLEAN
      BY <1>3, <2>1, LiveIsThere, FactsTyped DEF ProductDetails
    <2>3. CASE c = Request("product", "remove", r, NoChoice) /\ f.row[r].inUse
      BY <2>3, RequestFields DEF LeftToTheServer
    <2>4. CASE ~(c = Request("product", "remove", r, NoChoice) /\ f.row[r].inUse)
      <3>1. productActions(f, c)
        BY <1>3, <2>1, <2>2, <2>4 DEF productActions, canDeleteProduct, Request
      <3>2. QED
        BY <3>1 DEF Accepts
    <2>5. QED
      BY <2>3, <2>4
  <1>4. QED
    BY <1>1, <1>2, <1>3, ProductControls

LEMMA CategoryOffers ==
    ASSUME NEW f, Admitted(f), NEW c \in CategoriesPage(f).controls
    PROVE  Accepts(f, c) \/ LeftToTheServer(f, c)
  <1>1. /\ Holds(f, "catalog.product.write")
        /\ \/ c = New("category")
           \/ \E r \in Live(f, "category") : \/ c = Request("category", "edit", r, NoChoice)
                                             \/ c = Request("category", "remove", r, NoChoice)
    BY DEF CategoriesPage, CategoriesManager, Only, On
  <1>2. categoryActions(f, c) \/ LeftToTheServer(f, c)
    BY <1>1 DEF categoryActions, updateCategory, archiveCategory, Known, New, Request, Live,
                LeftToTheServer
  <1>3. QED
    BY <1>2 DEF Accepts

LEMMA MemberOffers ==
    ASSUME NEW f, AreFacts(f), Admitted(f), NEW c \in MembersPage(f).controls
    PROVE  Accepts(f, c) \/ LeftToTheServer(f, c)
  <1>1. CASE c = Request("member", "leave", NoRow, NoChoice)
    <2>1. leaveOrganization(f, c) \/ LeftToTheServer(f, c)
      BY <1>1 DEF leaveOrganization, LeftToTheServer, Request
    <2>2. QED
      BY <2>1 DEF Accepts
  <1>2. CASE /\ Holds(f, "platform.members.manage")
             /\ \/ \E k \in {"viewer", "owner"} : c = Request("invitation", "new", NoRow, k)
                                                  /\ (k = "owner" => f.role = "owner")
                \/ \E r \in Live(f, "invitation") :
                      \/ c = Request("invitation", "resend", r, NoChoice)
                      \/ c = Request("invitation", "remove", r, NoChoice)
    <2>1. invitationActions(f, c)
      BY <1>2 DEF invitationActions, Request
    <2>2. QED
      BY <2>1 DEF Accepts
  <1>3. ASSUME NEW r \in Live(f, "member"), Holds(f, "platform.members.manage"),
               \/ \E k \in {"viewer", "owner"} : c = Request("member", "changeRole", r, k)
                                                 /\ (k = "owner" => f.role = "owner")
               \/ c = Request("member", "remove", r, NoChoice)
               \/ c = Request("member", "suspend", r, NoChoice) /\ f.row[r].status = "ACTIVE"
               \/ c = Request("member", "reactivate", r, NoChoice) /\ f.row[r].status # "ACTIVE"
        PROVE  Accepts(f, c) \/ LeftToTheServer(f, c)
    <2>1. r \in Rows /\ r # NoRow /\ f.kind = "member"
      BY LiveIsThere
    <2>2. f.row[r].status \in {"ACTIVE", "SUSPENDED"} /\ f.row[r].role \in {"owner", "other"}
      BY <2>1, FactsTyped
    <2>3. c.kind = "member" /\ c.row = r /\ (c.choice = "owner" => f.role = "owner")
      <3>1. \A op, choice : /\ Request("member", op, r, choice).kind = "member"
                            /\ Request("member", op, r, choice).row = r
                            /\ Request("member", op, r, choice).choice = choice
        BY DEF Request
      <3>2. NoChoice # "owner"
        BY DEF NoChoice
      <3>3. QED
        BY <1>3, <3>1, <3>2
    <2>4. CASE f.row[r].role = "owner" /\ f.role # "owner"
      BY <2>1, <2>3, <2>4 DEF LeftToTheServer
    <2>5. CASE ~(f.row[r].role = "owner" /\ f.role # "owner")
      <3>1. OwnerGuard(f, f.row[r], c.choice)
        BY <2>3, <2>5 DEF OwnerGuard
      <3>2. memberPolicy(f, c, f.row[r])
        BY <1>3, <2>2, <3>1 DEF memberPolicy, Request
      <3>3. memberActions(f, c)
        BY <1>3, <2>3, <3>2 DEF memberActions
      <3>4. QED
        BY <3>3 DEF Accepts
    <2>6. QED
      BY <2>4, <2>5
  <1>4. QED
    BY <1>1, <1>2, <1>3, MembersControls

LEMMA SettingsOffers ==
    ASSUME NEW f, AreFacts(f), Admitted(f), NEW c,
           \/ c \in WorkspaceSettings(f).controls
           \/ c \in RolesPage(f).controls
           \/ c \in ApiKeysPage(f).controls /\ Holds(f, "platform.settings.manage")
           \/ c \in NotificationsPage(f).controls
    PROVE  Accepts(f, c) \/ LeftToTheServer(f, c)
  <1>1. CASE c \in WorkspaceSettings(f).controls
    <2>1. /\ Holds(f, "platform.settings.manage")
          /\ \/ c = Request("settings", "rename", NoRow, NoChoice)
             \/ \E next \in {"on", "off"} : c = Request("settings", "requireMfa", NoRow, next)
      BY <1>1 DEF WorkspaceSettings, OrganizationSettingsForm, SecuritySettings, Only
    <2>2. updateOrganization(f, c) \/ updateSecurityPolicy(f, c) \/ LeftToTheServer(f, c)
      BY <2>1 DEF updateOrganization, updateSecurityPolicy, LeftToTheServer, Request
    <2>3. QED
      BY <2>2 DEF Accepts
  <1>2. CASE c \in RolesPage(f).controls
    <2>1. /\ Holds(f, "platform.roles.manage")
          /\ \/ c = New("role")
             \/ \E r \in Live(f, "role") : \/ c = Request("role", "edit", r, NoChoice)
                                           \/ c = Request("role", "remove", r, NoChoice)
      BY <1>2 DEF RolesPage, RolesManager, DeleteRole, Only, On
    <2>2. roleActions(f, c) \/ LeftToTheServer(f, c)
      BY <2>1 DEF roleActions, LeftToTheServer, New, Request
    <2>3. QED
      BY <2>2 DEF Accepts
  <1>3. CASE c \in ApiKeysPage(f).controls /\ Holds(f, "platform.settings.manage")
    <2>1. \/ c = New("key")
          \/ \E r \in Live(f, "key") : c = Request("key", "revoke", r, NoChoice)
                                       /\ f.row[r] = "active"
      BY <1>3 DEF ApiKeysPage, ApiKeysManager, CreateKeyForm, On
    <2>2. keyActions(f, c)
      BY <1>3, <2>1 DEF keyActions, New, Request
    <2>3. QED
      BY <2>2 DEF Accepts
  <1>4. CASE c \in NotificationsPage(f).controls
    <2>1. \/ \E r \in Live(f, "notification") : c = Request("notification", "markRead", r, NoChoice)
          \/ c = Request("notification", "markAll", NoRow, NoChoice)
      BY <1>4 DEF NotificationsPage, NotificationsInbox, On, Only
    <2>2. notificationActions(f, c)
      BY <2>1 DEF notificationActions, Request
    <2>3. QED
      BY <2>2 DEF Accepts
  <1>5. QED
    BY <1>1, <1>2, <1>3, <1>4

\* For every role and whatever the facts: a page that opens offers nothing that
\* the server refuses, but what the pages leave to it.
LEMMA OffersHold ==
    ASSUME NEW f, AreFacts(f), Admitted(f), NEW path, Opens(f, path),
           NEW c \in Page(f, path).controls
    PROVE  Accepts(f, c) \/ LeftToTheServer(f, c)
  <1>1. CASE PageOf(f, path) = "newLead" /\ c = New("lead")
    <2>1. Holds(f, "crm.lead.write")
      BY <1>1 DEF Opens, requireOrgContext, can, Holds, AnyMember
    <2>2. leadActions(f, c)
      BY <1>1, <2>1 DEF leadActions, New, Request
    <2>3. QED
      BY <2>2 DEF Accepts
  <1>2. CASE PageOf(f, path) = "lead" /\ c \in LeadPage(f, path[3]).controls
    BY <1>2, RecordPage, LeadOffers
  <1>3. CASE PageOf(f, path) = "newProduct" /\ \E k \in CategoryIds(f) : c = NewIn("product", k)
    <2>1. Holds(f, "catalog.product.write")
      BY <1>3 DEF Opens, requireOrgContext, can, Holds, AnyMember
    <2>2. productActions(f, c)
      BY <1>3, <2>1 DEF productActions, createProduct, NewIn, Request
    <2>3. QED
      BY <2>2 DEF Accepts
  <1>4. CASE PageOf(f, path) = "product" /\ c \in ProductPage(f, path[3]).controls
    BY <1>4, RecordPage, ProductOffers
  <1>5. CASE PageOf(f, path) = "configure" /\ c \in ConfigurePage(f, path[3]).controls
    <2>1. Holds(f, "sales.quote.write") /\ path[3] \in ProductIds(f)
      BY <1>5, RecordPage DEF Opens, requireOrgContext, can, Holds, AnyMember
    <2>2. c = NewIn("configuration", path[3]) /\ ProductStatus(f, path[3]) = "ACTIVE"
      BY <1>5 DEF ConfigurePage, Only
    <2>3. configurationActions(f, c)
      BY <2>1, <2>2 DEF configurationActions, saveConfiguration, NewIn, Request
    <2>4. QED
      BY <2>3 DEF Accepts
  <1>6. ASSUME PageOf(f, path) = "apiKeys"
        PROVE  Holds(f, "platform.settings.manage")
    BY <1>6 DEF Opens, requireOrgContext, can, Holds, AnyMember
  <1>7. QED
    BY <1>1, <1>2, <1>3, <1>4, <1>5, <1>6, PageControls, AccountOffers, CategoryOffers,
       MemberOffers, SettingsOffers

-----------------------------------------------------------------------------
(* What an out-of-date page can still get done. *)

LEMMA AcceptedBy ==
    ASSUME NEW f, NEW c, Accepts(f, c)
    PROVE  /\ Admitted(f)
           /\ c.kind = "lead" => leadActions(f, c)
           /\ c.kind = "account" => accountActions(f, c)
           /\ c.kind = "contact" => contactActions(f, c)
           /\ c.kind = "product" => productActions(f, c)
           /\ c.kind \in {"group", "option"} => optionActions(f, c)
           /\ c.kind = "category" => categoryActions(f, c)
           /\ c.kind = "configuration" => configurationActions(f, c)
           /\ c.kind = "member" => memberActions(f, c) \/ leaveOrganization(f, c)
           /\ c.kind = "invitation" => invitationActions(f, c)
           /\ c.kind = "role" => roleActions(f, c)
           /\ c.kind = "key" => keyActions(f, c)
           /\ c.kind = "settings" => updateOrganization(f, c) \/ updateSecurityPolicy(f, c)
           /\ c.kind = "notification" => notificationActions(f, c)
  BY DEF Accepts, leadActions, accountActions, contactActions, productActions, optionActions,
         categoryActions, configurationActions, memberActions, leaveOrganization,
         invitationActions, roleActions, keyActions, updateOrganization, updateSecurityPolicy,
         notificationActions

\* The member's role as the screen knew it, or one that reads what it writes.
Sighted(f, g) == g.role = f.role \/ ReadsWhatItWrites(g.role)

LEMMA SightedReads ==
    ASSUME NEW f, NEW g, Admitted(g), Sighted(f, g)
    PROVE  /\ Holds(f, "sales.quote.read") /\ Holds(g, "sales.quote.write")
                 => Holds(g, "sales.quote.read")
           /\ can(f.role, "crm.account.read") /\ Holds(g, "crm.account.write")
                 => can(g.role, "crm.account.read")
  <1>1. CASE g.role = f.role
    BY <1>1 DEF Holds
  <1>2. CASE ReadsWhatItWrites(g.role)
    <2>1. /\ can(g.role, "sales.quote.write") => can(g.role, "sales.quote.read")
          /\ can(g.role, "crm.account.write") => can(g.role, "crm.account.read")
      BY <1>2 DEF ReadsWhatItWrites
    <2>2. can(g.role, "sales.quote.read") => Holds(g, "sales.quote.read")
      BY DEF can, Holds, AnyMember
    <2>3. QED
      BY <2>1, <2>2, HoldsIsCan
  <1>3. QED
    BY <1>1, <1>2 DEF Sighted

LEMMA OldConfigurations ==
    ASSUME NEW f, NEW g, Sighted(f, g), NEW c \in ConfigurationControls(f),
           Accepts(g, c)
    PROVE  c \in ConfigurationControls(g) /\ g.kind = "configuration"
  <1>1. PICK r \in Live(f, "configuration") : c = Request("configuration", "remove", r, NoChoice)
    BY DEF ConfigurationControls, On
  <1>2. configurationActions(g, c) /\ Admitted(g)
    BY <1>1, AcceptedBy, RequestFields
  <1>3. Holds(g, "sales.quote.write") /\ r \in Live(g, "configuration")
    BY <1>1, <1>2 DEF configurationActions, deleteConfiguration, Request
  <1>4. Holds(g, "sales.quote.read")
    BY <1>2, <1>3, SightedReads DEF ConfigurationControls
  <1>5. QED
    BY <1>1, <1>3, <1>4 DEF ConfigurationControls, On, Live

LEMMA ConfigurationsShown ==
    ASSUME NEW f, NEW r
    PROVE  /\ ConfigurationControls(f) \subseteq LeadPage(f, r).controls
           /\ ConfigurationControls(f) \subseteq ProductPage(f, r).controls
  BY DEF ConfigurationControls, LeadPage, ProductPage, SavedConfigurations, Only

LEMMA OldLeadPage ==
    ASSUME NEW f, NEW g, AreFacts(f), AreFacts(g), g.kind = f.kind, Sighted(f, g),
           NEW r \in LeadIds(f), NEW c \in LeadPage(f, r).controls, Accepts(g, c)
    PROVE  r \in LeadIds(g) /\ c \in LeadPage(g, r).controls
  <1>1. CASE c \in ConfigurationControls(f)
    <2>1. c \in ConfigurationControls(g) /\ g.kind = "configuration"
      BY <1>1, OldConfigurations
    <2>2. r \in LeadIds(g)
      BY <2>1 DEF LeadIds
    <2>3. QED
      BY <2>1, <2>2, ConfigurationsShown
  <1>2. CASE f.kind = "lead" /\ c \notin ConfigurationControls(f)
    <2>1. /\ c.kind = "lead" /\ c.row = r
          /\ \/ c = Request("lead", "edit", r, NoChoice)
             \/ c = Request("lead", "addActivity", r, NoChoice)
             \/ \E a \in LeadActions : c = Request("lead", "move", r, a)
             \/ \E o \in OWNERS : c = Request("lead", "reassign", r, o)
      BY <1>2, LeadControls, RequestFields
    <2>2. leadActions(g, c)
      BY <2>1, AcceptedBy
    <2>3. c.op # "new"
      BY <2>1, RequestFields
    <2>4. r \in Live(g, "lead")
      BY <2>1, <2>2, <2>3 DEF leadActions
    <2>5. CASE c = Request("lead", "edit", r, NoChoice) \/ c = Request("lead", "addActivity", r, NoChoice)
      <3>1. Holds(g, "crm.lead.write")
        BY <2>2, <2>5, RequestFields DEF leadActions
      <3>2. c \in LeadWorkspace(g, r, Holds(g, "crm.lead.write"), Holds(g, "crm.lead.assign"))
        BY <1>2, <2>5, <3>1 DEF LeadWorkspace, Only, On, ActivityForm
      <3>3. QED
        BY <1>2, <2>4, <3>2 DEF LeadPage, LeadIds
    <2>6. CASE \E a \in LeadActions : c = Request("lead", "move", r, a)
      <3>1. PICK a \in LeadActions : c = Request("lead", "move", r, a)
        BY <2>6
      <3>2. c.op = "move" /\ c.choice = a
        BY <3>1, RequestFields
      <3>3. Holds(g, "crm.lead.write") /\ canTransition(g, g.row[r], a)
        BY <2>1, <2>2, <3>2 DEF leadActions
      <3>4. c \in LeadWorkspace(g, r, Holds(g, "crm.lead.write"), Holds(g, "crm.lead.assign"))
        BY <1>2, <3>1, <3>3 DEF LeadWorkspace, Only, availableActions
      <3>5. QED
        BY <1>2, <2>4, <3>4 DEF LeadPage, LeadIds
    <2>7. CASE \E o \in OWNERS : c = Request("lead", "reassign", r, o)
      <3>1. c.op = "reassign"
        BY <2>7, RequestFields
      <3>2. Holds(g, "crm.lead.assign")
        BY <2>2, <3>1 DEF leadActions
      <3>3. c \in LeadWorkspace(g, r, Holds(g, "crm.lead.write"), Holds(g, "crm.lead.assign"))
        BY <1>2, <2>7, <3>2 DEF LeadWorkspace, Only
      <3>4. QED
        BY <1>2, <2>4, <3>3 DEF LeadPage, LeadIds
    <2>8. QED
      BY <2>1, <2>5, <2>6, <2>7
  <1>3. QED
    BY <1>1, <1>2, LeadControls

LEMMA OldProductPage ==
    ASSUME NEW f, NEW g, AreFacts(f), AreFacts(g), g.kind = f.kind, Sighted(f, g),
           NEW r \in ProductIds(f), NEW c \in ProductPage(f, r).controls, Accepts(g, c)
    PROVE  Unasked(g, c) \/ (r \in ProductIds(g) /\ c \in ProductPage(g, r).controls)
  <1>1. CASE c \in ConfigurationControls(f)
    <2>1. c \in ConfigurationControls(g) /\ g.kind = "configuration"
      BY <1>1, OldConfigurations
    <2>2. r \in ProductIds(g)
      BY <2>1 DEF ProductIds
    <2>3. QED
      BY <2>1, <2>2, ConfigurationsShown
  <1>2. ASSUME c.kind \in {"group", "option"}, r \in ProductIds(g),
               c \in OptionGroups(g, r, Holds(g, "catalog.product.write"))
        PROVE  r \in ProductIds(g) /\ c \in ProductPage(g, r).controls
    BY <1>2 DEF ProductPage, ProductWorkspace
  <1>3. CASE c = NewIn("group", r)
    <2>1. optionActions(g, c) /\ c.op = "new" /\ c.choice = r /\ c.kind = "group"
      BY <1>3, AcceptedBy, RequestFields DEF NewIn
    <2>2. r \in ProductIds(g) /\ Holds(g, "catalog.product.write")
      BY <2>1 DEF optionActions, saveOptionGroup
    <2>3. QED
      BY <1>2, <1>3, <2>1, <2>2 DEF OptionGroups, Only
  <1>4. CASE \E p \in ChoiceGroups(f) : c = NewIn("option", p)
    <2>1. f.kind \in {"group", "option"}
      BY <1>4 DEF ChoiceGroups, GroupIds
    <2>2. r \in ProductIds(g)
      BY <2>1 DEF ProductIds
    <2>3. optionActions(g, c) /\ c.op = "new" /\ c.kind = "option" /\ c = NewIn("option", c.choice)
      BY <1>4, AcceptedBy, RequestFields DEF NewIn
    <2>4. c.choice \in GroupIds(g) /\ Holds(g, "catalog.product.write")
      BY <2>3 DEF optionActions, saveOption, GroupOf
    <2>5. CASE c.choice \in ChoiceGroups(g)
      BY <1>2, <2>2, <2>3, <2>4, <2>5 DEF OptionGroups, Only
    <2>6. CASE c.choice \notin ChoiceGroups(g)
      BY <2>3, <2>4, <2>6 DEF ChoiceGroups, Unasked, GroupOf
    <2>7. QED
      BY <2>5, <2>6
  <1>5. CASE \E p \in Live(f, "group") : \/ c = Request("group", "edit", p, NoChoice)
                                         \/ c = Request("group", "remove", p, NoChoice)
    <2>1. PICK p \in Live(f, "group") : \/ c = Request("group", "edit", p, NoChoice)
                                        \/ c = Request("group", "remove", p, NoChoice)
      BY <1>5
    <2>2. f.kind = "group" /\ r \in ProductIds(g)
      BY <2>1 DEF Live, ProductIds
    <2>3. optionActions(g, c) /\ c.kind = "group" /\ c.op \in {"edit", "remove"} /\ c.row = p
      BY <2>1, AcceptedBy, RequestFields
    <2>4. p \in Live(g, "group") /\ Holds(g, "catalog.product.write")
      BY <2>2, <2>3 DEF optionActions, saveOptionGroup, deleteOptionGroup, deleteOption, Live
    <2>5. QED
      BY <1>2, <2>1, <2>2, <2>3, <2>4 DEF OptionGroups, Only, On
  <1>6. CASE \E p \in OptionsShown(f) : \/ c = Request("option", "edit", p, NoChoice)
                                        \/ c = Request("option", "remove", p, NoChoice)
    <2>1. PICK p \in OptionsShown(f) : \/ c = Request("option", "edit", p, NoChoice)
                                       \/ c = Request("option", "remove", p, NoChoice)
      BY <1>6
    <2>2. f.kind = "option" /\ r \in ProductIds(g)
      BY <2>1 DEF OptionsShown, Live, ProductIds
    <2>3. optionActions(g, c) /\ c.kind = "option" /\ c.op \in {"edit", "remove"} /\ c.row = p
      BY <2>1, AcceptedBy, RequestFields
    <2>4. p \in Live(g, "option") /\ Holds(g, "catalog.product.write")
      BY <2>2, <2>3 DEF optionActions, saveOption, deleteOptionGroup, deleteOption, Live
    <2>5. GroupOf(c) = "aGroup" /\ "aGroup" \in GroupIds(g)
      BY <2>2, <2>3 DEF GroupOf, GroupIds
    <2>6. CASE p \in OptionsShown(g)
      BY <1>2, <2>1, <2>2, <2>3, <2>4, <2>6 DEF OptionGroups, Only, On
    <2>7. CASE p \notin OptionsShown(g)
      BY <2>3, <2>4, <2>5, <2>7 DEF OptionsShown, ChoiceGroups, Unasked
    <2>8. QED
      BY <2>6, <2>7
  <1>7. CASE f.kind = "product" /\ \/ c = Request("product", "edit", r, NoChoice)
                                   \/ c = Request("product", "remove", r, NoChoice)
                                   \/ \E a \in ProductActions : c = Request("product", "move", r, a)
    <2>1. productActions(g, c) /\ c.row = r /\ c.op # "new" /\ c.kind = "product"
      BY <1>7, AcceptedBy, RequestFields
    <2>2. r \in Live(g, "product") /\ Holds(g, "catalog.product.write")
      BY <2>1 DEF productActions
    <2>3. CASE c = Request("product", "edit", r, NoChoice)
      <3>1. c \in ProductWorkspace(g, r, Holds(g, "catalog.product.write"))
        BY <1>7, <2>2, <2>3 DEF ProductWorkspace, Only, On
      <3>2. QED
        BY <1>7, <2>2, <3>1 DEF ProductPage, ProductIds
    <2>4. CASE c = Request("product", "remove", r, NoChoice)
      <3>1. g.row[r].status = "DRAFT"
        BY <2>1, <2>4, RequestFields DEF productActions, canDeleteProduct
      <3>2. c \in Availability(g, r, Holds(g, "catalog.product.write"))
        BY <2>2, <2>4, <3>1 DEF Availability, Only, On
      <3>3. QED
        BY <1>7, <2>2, <3>2 DEF ProductPage, ProductWorkspace, ProductIds, Only
    <2>5. CASE \E a \in ProductActions : c = Request("product", "move", r, a)
      <3>1. PICK a \in ProductActions : c = Request("product", "move", r, a)
        BY <2>5
      <3>2. c.op = "move" /\ c.choice = a
        BY <3>1, RequestFields
      <3>3. canTransitionProduct(g.row[r], a)
        BY <2>1, <3>2 DEF productActions
      <3>4. c \in Availability(g, r, Holds(g, "catalog.product.write"))
        BY <2>2, <3>1, <3>3 DEF Availability, Only, availableProductActions
      <3>5. QED
        BY <1>7, <2>2, <3>4 DEF ProductPage, ProductWorkspace, ProductIds, Only
    <2>6. QED
      BY <1>7, <2>3, <2>4, <2>5
  <1>8. QED
    BY <1>1, <1>3, <1>4, <1>5, <1>6, <1>7, ProductControls

LEMMA OldAccountPages ==
    ASSUME NEW f, NEW g, g.kind = f.kind, NEW c, Accepts(g, c)
    PROVE  /\ c \in ContactsPage(f).controls =>
                 c \in ContactsPage(g).controls /\ Holds(g, "crm.account.write")
           /\ c \in AccountsPage(f).controls =>
                 c \in AccountsPage(g).controls /\ Holds(g, "crm.account.write")
  <1>1. ASSUME c \in ContactsPage(f).controls
        PROVE  c \in ContactsPage(g).controls /\ Holds(g, "crm.account.write")
    <2>1. \/ c = New("contact")
          \/ \E r \in Live(f, "contact") : \/ c = Request("contact", "edit", r, NoChoice)
                                           \/ c = Request("contact", "remove", r, NoChoice)
      BY <1>1 DEF ContactsPage, ContactsManager, Only, On
    <2>2. contactActions(g, c)
      BY <2>1, AcceptedBy, RequestFields DEF New
    <2>3. Holds(g, "crm.account.write")
      BY <2>2 DEF contactActions
    <2>4. \/ c = New("contact")
          \/ \E r \in Live(g, "contact") : \/ c = Request("contact", "edit", r, NoChoice)
                                           \/ c = Request("contact", "remove", r, NoChoice)
      BY <2>1, <2>2, RequestFields DEF contactActions, updateContact, archiveContact
    <2>5. QED
      BY <2>3, <2>4 DEF ContactsPage, ContactsManager, Only, On
  <1>2. ASSUME c \in AccountsPage(f).controls
        PROVE  c \in AccountsPage(g).controls /\ Holds(g, "crm.account.write")
    <2>1. \/ c = New("account")
          \/ \E r \in Live(f, "account") : \/ c = Request("account", "edit", r, NoChoice)
                                           \/ c = Request("account", "remove", r, NoChoice)
      BY <1>2 DEF AccountsPage, AccountsManager, Only, On
    <2>2. accountActions(g, c)
      BY <2>1, AcceptedBy, RequestFields DEF New
    <2>3. Holds(g, "crm.account.write")
      BY <2>2 DEF accountActions
    <2>4. \/ c = New("account")
          \/ \E r \in Live(g, "account") : \/ c = Request("account", "edit", r, NoChoice)
                                           \/ c = Request("account", "remove", r, NoChoice)
      BY <2>1, <2>2, RequestFields DEF accountActions, updateAccount, archiveAccount
    <2>5. QED
      BY <2>3, <2>4 DEF AccountsPage, AccountsManager, Only, On
  <1>3. QED
    BY <1>1, <1>2

LEMMA OldCategoriesPage ==
    ASSUME NEW f, NEW g, AreFacts(g), g.kind = f.kind, NEW c \in CategoriesPage(f).controls,
           Accepts(g, c)
    PROVE  Unasked(g, c) \/ c \in CategoriesPage(g).controls
  <1>1. \/ c = New("category")
        \/ \E r \in Live(f, "category") : \/ c = Request("category", "edit", r, NoChoice)
                                          \/ c = Request("category", "remove", r, NoChoice)
    BY DEF CategoriesPage, CategoriesManager, Only, On
  <1>2. categoryActions(g, c)
    BY <1>1, AcceptedBy, RequestFields DEF New
  <1>3. Holds(g, "catalog.product.write")
    BY <1>2 DEF categoryActions
  <1>4. CASE c = New("category")
    BY <1>3, <1>4 DEF CategoriesPage, CategoriesManager, Only
  <1>5. ASSUME NEW r \in Live(f, "category"), c = Request("category", "edit", r, NoChoice)
        PROVE  Unasked(g, c) \/ c \in CategoriesPage(g).controls
    <2>1. c.kind = "category" /\ c.op = "edit" /\ c.row = r
      BY <1>5, RequestFields
    <2>2. g.kind = "category" /\ r \in Rows /\ g.there[r] # "unused"
      BY <1>2, <2>1 DEF categoryActions, updateCategory, Known
    <2>3. g.there[r] \in {"live", "gone"}
      BY <2>2, FactsTyped
    <2>4. CASE g.there[r] = "gone"
      BY <2>1, <2>4 DEF Unasked
    <2>5. CASE g.there[r] = "live"
      <3>1. r \in Live(g, "category")
        BY <2>2, <2>5 DEF Live
      <3>2. QED
        BY <1>3, <1>5, <3>1 DEF CategoriesPage, CategoriesManager, Only, On
    <2>6. QED
      BY <2>3, <2>4, <2>5
  <1>6. ASSUME NEW r \in Live(f, "category"), c = Request("category", "remove", r, NoChoice)
        PROVE  c \in CategoriesPage(g).controls
    <2>1. r \in Live(g, "category")
      BY <1>2, <1>6, RequestFields DEF categoryActions, archiveCategory
    <2>2. QED
      BY <1>3, <1>6, <2>1 DEF CategoriesPage, CategoriesManager, Only, On
  <1>7. QED
    BY <1>1, <1>4, <1>5, <1>6

LEMMA OldMembersPage ==
    ASSUME NEW f, NEW g, AreFacts(g), g.kind = f.kind, NEW c \in MembersPage(f).controls,
           Accepts(g, c)
    PROVE  c \in MembersPage(g).controls
  <1>1. CASE c = Request("member", "leave", NoRow, NoChoice)
    BY <1>1 DEF MembersPage, LeaveWorkspace, On
  <1>2. ASSUME NEW k \in {"viewer", "owner"}, c = Request("invitation", "new", NoRow, k)
        PROVE  c \in MembersPage(g).controls
    <2>1. invitationActions(g, c) /\ c.op = "new" /\ c.choice = k
      BY <1>2, AcceptedBy, RequestFields
    <2>2. Holds(g, "platform.members.manage") /\ (k = "owner" => g.role = "owner")
      BY <2>1 DEF invitationActions
    <2>3. QED
      BY <1>2, <2>2 DEF MembersPage, MembersManager, Only, InviteForm
  <1>3. ASSUME NEW r \in Live(f, "invitation"),
               \/ c = Request("invitation", "resend", r, NoChoice)
               \/ c = Request("invitation", "remove", r, NoChoice)
        PROVE  c \in MembersPage(g).controls
    <2>1. invitationActions(g, c) /\ c.op # "new" /\ c.row = r
      BY <1>3, AcceptedBy, RequestFields
    <2>2. Holds(g, "platform.members.manage") /\ r \in Live(g, "invitation")
      BY <2>1 DEF invitationActions
    <2>3. QED
      BY <1>3, <2>2 DEF MembersPage, MembersManager, Only, PendingInvitations, On
  <1>4. ASSUME NEW r \in Live(f, "member"),
               \/ \E k \in {"viewer", "owner"} : c = Request("member", "changeRole", r, k)
               \/ c = Request("member", "remove", r, NoChoice)
               \/ c = Request("member", "suspend", r, NoChoice)
               \/ c = Request("member", "reactivate", r, NoChoice)
        PROVE  c \in MembersPage(g).controls
    <2>1. memberActions(g, c) /\ c.row = r
      <3>1. c.kind = "member" /\ c.op # "leave" /\ c.row = r
        BY <1>4, RequestFields
      <3>2. QED
        BY <3>1, AcceptedBy DEF leaveOrganization
    <2>2. /\ Holds(g, "platform.members.manage") /\ r \in Live(g, "member")
          /\ memberPolicy(g, c, g.row[r])
      BY <2>1 DEF memberActions
    <2>3. SUFFICES \E assignable : /\ assignable = {"viewer"} \cup Only(g.role = "owner", {"owner"})
                                   /\ c \in RoleSelect(g, r, assignable) \cup MemberActions(g, r)
      BY <2>2 DEF MembersPage, MembersManager, Only
    <2>4. CASE \E k \in {"viewer", "owner"} : c = Request("member", "changeRole", r, k)
      <3>1. PICK k \in {"viewer", "owner"} : c = Request("member", "changeRole", r, k)
        BY <2>4
      <3>2. k = "owner" => g.role = "owner"
        BY <2>2, <3>1, RequestFields DEF memberPolicy, OwnerGuard
      <3>3. QED
        BY <3>1, <3>2 DEF RoleSelect, Only
    <2>5. CASE c = Request("member", "remove", r, NoChoice)
      BY <2>5 DEF MemberActions, On
    <2>6. CASE c = Request("member", "suspend", r, NoChoice)
      <3>1. g.row[r].status = "ACTIVE"
        BY <2>2, <2>6, RequestFields DEF memberPolicy
      <3>2. QED
        BY <2>6, <3>1 DEF MemberActions, On
    <2>7. CASE c = Request("member", "reactivate", r, NoChoice)
      <3>1. g.row[r].status = "SUSPENDED"
        BY <2>2, <2>7, RequestFields DEF memberPolicy
      <3>2. QED
        BY <2>7, <3>1 DEF MemberActions, On
    <2>8. QED
      BY <1>4, <2>4, <2>5, <2>6, <2>7
  <1>5. QED
    BY <1>1, <1>2, <1>3, <1>4, MembersControls

LEMMA OldSettingsPages ==
    ASSUME NEW f, NEW g, AreFacts(g), g.kind = f.kind, NEW c, Accepts(g, c)
    PROVE  /\ c \in WorkspaceSettings(f).controls => c \in WorkspaceSettings(g).controls
           /\ c \in RolesPage(f).controls => c \in RolesPage(g).controls
           /\ c \in ApiKeysPage(f).controls =>
                 c \in ApiKeysPage(g).controls /\ Holds(g, "platform.settings.manage")
           /\ c \in NotificationsPage(f).controls =>
                 Unasked(g, c) \/ c \in NotificationsPage(g).controls
  <1>1. ASSUME c \in WorkspaceSettings(f).controls
        PROVE  c \in WorkspaceSettings(g).controls
    <2>1. \/ c = Request("settings", "rename", NoRow, NoChoice)
          \/ \E next \in {"on", "off"} : c = Request("settings", "requireMfa", NoRow, next)
      BY <1>1 DEF WorkspaceSettings, OrganizationSettingsForm, SecuritySettings, Only
    <2>2. updateOrganization(g, c) \/ updateSecurityPolicy(g, c)
      BY <2>1, AcceptedBy, RequestFields
    <2>3. Holds(g, "platform.settings.manage")
      BY <2>2 DEF updateOrganization, updateSecurityPolicy
    <2>4. QED
      BY <2>1, <2>3 DEF WorkspaceSettings, OrganizationSettingsForm, SecuritySettings, Only
  <1>2. ASSUME c \in RolesPage(f).controls
        PROVE  c \in RolesPage(g).controls
    <2>1. \/ c = New("role")
          \/ \E r \in Live(f, "role") : \/ c = Request("role", "edit", r, NoChoice)
                                        \/ c = Request("role", "remove", r, NoChoice)
      BY <1>2 DEF RolesPage, RolesManager, DeleteRole, Only, On
    <2>2. roleActions(g, c)
      BY <2>1, AcceptedBy, RequestFields DEF New
    <2>3. \/ c = New("role")
          \/ \E r \in Live(g, "role") : \/ c = Request("role", "edit", r, NoChoice)
                                        \/ c = Request("role", "remove", r, NoChoice)
      BY <2>1, <2>2, RequestFields DEF roleActions
    <2>4. Holds(g, "platform.roles.manage")
      BY <2>2 DEF roleActions
    <2>5. QED
      BY <2>3, <2>4 DEF RolesPage, RolesManager, DeleteRole, Only, On
  <1>3. ASSUME c \in ApiKeysPage(f).controls
        PROVE  c \in ApiKeysPage(g).controls /\ Holds(g, "platform.settings.manage")
    <2>1. \/ c = New("key")
          \/ \E r \in Live(f, "key") : c = Request("key", "revoke", r, NoChoice)
      BY <1>3 DEF ApiKeysPage, ApiKeysManager, CreateKeyForm, On
    <2>2. keyActions(g, c)
      BY <2>1, AcceptedBy, RequestFields DEF New
    <2>3. \/ c = New("key")
          \/ \E r \in Live(g, "key") : c = Request("key", "revoke", r, NoChoice)
                                       /\ g.row[r] = "active"
      BY <2>1, <2>2, RequestFields DEF keyActions
    <2>4. Holds(g, "platform.settings.manage")
      BY <2>2 DEF keyActions
    <2>5. QED
      BY <2>3, <2>4 DEF ApiKeysPage, ApiKeysManager, CreateKeyForm, On
  <1>4. ASSUME c \in NotificationsPage(f).controls
        PROVE  Unasked(g, c) \/ c \in NotificationsPage(g).controls
    <2>1. \/ \E r \in Live(f, "notification") : c = Request("notification", "markRead", r, NoChoice)
          \/ c = Request("notification", "markAll", NoRow, NoChoice)
      BY <1>4 DEF NotificationsPage, NotificationsInbox, On, Only
    <2>2. notificationActions(g, c)
      BY <2>1, AcceptedBy, RequestFields
    <2>3. \A r \in Live(g, "notification") : g.row[r] \in {"unread", "read"}
      BY LiveIsThere, FactsTyped
    <2>4. CASE c = Request("notification", "markAll", NoRow, NoChoice)
      <3>1. c.op = "markAll"
        BY <2>4, RequestFields
      <3>2. CASE \A r \in Live(g, "notification") : g.row[r] = "read"
        BY <3>1, <3>2 DEF Unasked
      <3>3. CASE \E r \in Live(g, "notification") : g.row[r] = "unread"
        BY <2>4, <3>3 DEF NotificationsPage, NotificationsInbox, On, Only
      <3>4. QED
        BY <2>3, <3>2, <3>3
    <2>5. ASSUME NEW r \in Live(f, "notification"),
                 c = Request("notification", "markRead", r, NoChoice)
          PROVE  Unasked(g, c) \/ c \in NotificationsPage(g).controls
      <3>1. c.op = "markRead" /\ c.row = r
        BY <2>5, RequestFields
      <3>2. r \in Live(g, "notification")
        BY <2>2, <3>1 DEF notificationActions
      <3>3. CASE g.row[r] = "read"
        BY <3>1, <3>3 DEF Unasked
      <3>4. CASE g.row[r] = "unread"
        BY <2>5, <3>2, <3>4 DEF NotificationsPage, NotificationsInbox, On, Only
      <3>5. QED
        BY <2>3, <3>2, <3>3, <3>4
    <2>6. QED
      BY <2>1, <2>4, <2>5
  <1>5. QED
    BY <1>1, <1>2, <1>3, <1>4

\* Where a product goes although no page lists the category: into an archived one.
LEMMA OldCategory ==
    ASSUME NEW f, AreFacts(f), NEW k, createProduct(f, k), k \notin CategoryIds(f)
    PROVE  f.kind = "category" /\ f.there[k] = "gone"
  <1>1. k \in Rows /\ f.kind = "category" /\ f.there[k] # "unused"
    BY DEF createProduct, Known
  <1>2. f.there[k] # "live"
    BY <1>1 DEF CategoryIds, Live
  <1>3. QED
    BY <1>1, <1>2, FactsTyped

\* For every two moments: what a page rendered at the first offers, and the
\* server still accepts at the second, the page of the second offers too.
LEMMA OldPagesAddLittle ==
    ASSUME NEW f, NEW g, AreFacts(f), AreFacts(g), g.kind = f.kind, Sighted(f, g),
           NEW path, Opens(f, path), NEW c \in Page(f, path).controls, Accepts(g, c)
    PROVE  Unasked(g, c) \/ (Opens(g, path) /\ c \in Page(g, path).controls)
  <1>1. Admitted(g)
    BY AcceptedBy
  <1>2. CASE PageOf(f, path) = "newLead" /\ c = New("lead")
    <2>1. Holds(g, "crm.lead.write")
      BY <1>2, AcceptedBy, RequestFields DEF New, leadActions
    <2>2. PageOf(g, path) = "newLead"
      BY <1>2, StaticLasts DEF StaticNames
    <2>3. Opens(g, path)
      BY <1>1, <2>1, <2>2, OpensGuarded, HoldsIsCan
    <2>4. QED
      BY <1>2, <2>2, <2>3 DEF Page, NewLeadPage, LeadForm
  <1>3. CASE PageOf(f, path) = "lead" /\ c \in LeadPage(f, path[3]).controls
    <2>1. path[3] \in LeadIds(g) /\ c \in LeadPage(g, path[3]).controls
      BY <1>3, RecordPage, OldLeadPage
    <2>2. PageOf(g, path) = "lead"
      BY <1>3, <2>1, RecordPage
    <2>3. Opens(g, path)
      BY <1>1, <2>2, OpensStatic
    <2>4. QED
      BY <2>1, <2>2, <2>3 DEF Page
  <1>4. CASE \/ PageOf(f, path) = "contacts" /\ c \in ContactsPage(f).controls
             \/ PageOf(f, path) = "accounts" /\ c \in AccountsPage(f).controls
    <2>1. /\ PageOf(g, path) = PageOf(f, path)
          /\ PageOf(f, path) = "contacts" => c \in ContactsPage(g).controls
          /\ PageOf(f, path) = "accounts" => c \in AccountsPage(g).controls
          /\ Holds(g, "crm.account.write")
      BY <1>4, StaticLasts, OldAccountPages DEF StaticNames
    <2>2. can(f.role, "crm.account.read")
      BY <1>4 DEF Opens, requireOrgContext
    <2>3. can(g.role, "crm.account.read")
      BY <1>1, <2>1, <2>2, SightedReads
    <2>4. Opens(g, path)
      BY <1>1, <1>4, <2>1, <2>3, OpensGuarded
    <2>5. QED
      BY <1>4, <2>1, <2>4 DEF Page
  <1>5. CASE PageOf(f, path) = "newProduct" /\ \E k \in CategoryIds(f) : c = NewIn("product", k)
    <2>1. productActions(g, c) /\ c.kind = "product" /\ c.op = "new" /\ c.row = NoRow
          /\ c = NewIn("product", c.choice)
      BY <1>5, AcceptedBy, RequestFields DEF NewIn
    <2>2. Holds(g, "catalog.product.write") /\ createProduct(g, c.choice)
      BY <2>1, LiveIsThere DEF productActions
    <2>3. PageOf(g, path) = "newProduct"
      BY <1>5, StaticLasts DEF StaticNames
    <2>4. Opens(g, path)
      BY <1>1, <2>2, <2>3, OpensGuarded, HoldsIsCan
    <2>5. Page(g, path) = NewProductPage(g)
      BY <2>3 DEF Page
    <2>6. CASE c.choice \in CategoryIds(g)
      BY <2>1, <2>4, <2>5, <2>6 DEF NewProductPage, ProductForm
    <2>7. CASE c.choice \notin CategoryIds(g)
      BY <2>1, <2>2, <2>7, OldCategory DEF Unasked
    <2>8. QED
      BY <2>6, <2>7
  <1>6. CASE PageOf(f, path) = "product" /\ c \in ProductPage(f, path[3]).controls
    <2>1. \/ Unasked(g, c)
          \/ path[3] \in ProductIds(g) /\ c \in ProductPage(g, path[3]).controls
      BY <1>6, RecordPage, OldProductPage
    <2>2. CASE path[3] \in ProductIds(g) /\ c \in ProductPage(g, path[3]).controls
      <3>1. PageOf(g, path) = "product"
        BY <1>6, <2>2, RecordPage
      <3>2. Opens(g, path)
        BY <1>1, <3>1, OpensStatic
      <3>3. QED
        BY <2>2, <3>1, <3>2 DEF Page
    <2>3. QED
      BY <2>1, <2>2
  <1>7. CASE PageOf(f, path) = "configure" /\ c \in ConfigurePage(f, path[3]).controls
    <2>1. c = NewIn("configuration", path[3])
      BY <1>7 DEF ConfigurePage, Only
    <2>2. configurationActions(g, c) /\ c.op = "new" /\ c.choice = path[3]
      BY <2>1, AcceptedBy, RequestFields DEF NewIn
    <2>3. /\ Holds(g, "sales.quote.write") /\ path[3] \in ProductIds(g)
          /\ ProductStatus(g, path[3]) = "ACTIVE"
      BY <2>2 DEF configurationActions, saveConfiguration
    <2>4. PageOf(g, path) = "configure"
      BY <1>7, <2>3, RecordPage
    <2>5. Opens(g, path)
      BY <1>1, <2>3, <2>4, OpensGuarded, HoldsIsCan
    <2>6. QED
      BY <2>1, <2>3, <2>4, <2>5 DEF Page, ConfigurePage, Only
  <1>8. CASE PageOf(f, path) = "categories" /\ c \in CategoriesPage(f).controls
    <2>1. PageOf(g, path) = "categories" /\ (Unasked(g, c) \/ c \in CategoriesPage(g).controls)
      BY <1>8, StaticLasts, OldCategoriesPage DEF StaticNames
    <2>2. Opens(g, path)
      BY <1>1, <2>1, OpensStatic
    <2>3. QED
      BY <2>1, <2>2 DEF Page
  <1>9. CASE PageOf(f, path) = "members" /\ c \in MembersPage(f).controls
    <2>1. PageOf(g, path) = "members" /\ c \in MembersPage(g).controls
      BY <1>9, StaticLasts, OldMembersPage DEF StaticNames
    <2>2. Opens(g, path)
      BY <1>1, <2>1, OpensStatic
    <2>3. QED
      BY <2>1, <2>2 DEF Page
  <1>10. CASE \/ PageOf(f, path) = "settings" /\ c \in WorkspaceSettings(f).controls
              \/ PageOf(f, path) = "roles" /\ c \in RolesPage(f).controls
              \/ PageOf(f, path) = "notifications" /\ c \in NotificationsPage(f).controls
    <2>1. /\ PageOf(g, path) = PageOf(f, path)
          /\ PageOf(f, path) = "settings" => c \in WorkspaceSettings(g).controls
          /\ PageOf(f, path) = "roles" => c \in RolesPage(g).controls
          /\ PageOf(f, path) = "notifications" =>
                Unasked(g, c) \/ c \in NotificationsPage(g).controls
      BY <1>10, StaticLasts, OldSettingsPages DEF StaticNames
    <2>2. Opens(g, path)
      BY <1>1, <1>10, <2>1, OpensStatic
    <2>3. QED
      BY <1>10, <2>1, <2>2 DEF Page
  <1>11. CASE PageOf(f, path) = "apiKeys" /\ c \in ApiKeysPage(f).controls
    <2>1. /\ PageOf(g, path) = "apiKeys" /\ c \in ApiKeysPage(g).controls
          /\ Holds(g, "platform.settings.manage")
      BY <1>11, StaticLasts, OldSettingsPages DEF StaticNames
    <2>2. Opens(g, path)
      BY <1>1, <2>1, OpensGuarded, HoldsIsCan
    <2>3. QED
      BY <2>1, <2>2 DEF Page
  <1>12. QED
    BY <1>2, <1>3, <1>4, <1>5, <1>6, <1>7, <1>8, <1>9, <1>10, <1>11, PageControls

-----------------------------------------------------------------------------
(* What the server accepts, some page offers. *)

LEMMA ShellIsReachable ==
    ASSUME NEW f, NEW path \in AppShell(f.role)
    PROVE  path \in Follow(f, AppShell(f.role)) /\ path \in Reachable(f)
  BY DEF Follow, Reachable

LEMMA LinkedIsReachable ==
    ASSUME NEW f, Admitted(f), NEW path \in AppShell(f.role), NEW link \in Page(f, path).links
    PROVE  link \in Follow(f, AppShell(f.role)) /\ link \in Reachable(f)
  <1>1. Opens(f, path)
    BY ShellOpens
  <1>2. link \in Follow(f, AppShell(f.role))
    BY <1>1 DEF Follow
  <1>3. QED
    BY <1>2 DEF Follow, Reachable

LEMMA TwiceLinkedIsReachable ==
    ASSUME NEW f, Admitted(f), NEW path \in AppShell(f.role), NEW via \in Page(f, path).links,
           NEW link \in Page(f, via).links
    PROVE  link \in Reachable(f)
  <1>1. via \in Follow(f, AppShell(f.role)) /\ via \in Reachable(f)
    BY LinkedIsReachable
  <1>2. Opens(f, via)
    BY <1>1, ReachableOpens
  <1>3. QED
    BY <1>1, <1>2 DEF Follow, Reachable

LEMMA ShellItems ==
    ASSUME NEW role
    PROVE  /\ <<"dashboard">> \in AppShell(role)
           /\ <<"notifications">> \in AppShell(role)
           /\ <<"settings">> \in AppShell(role)
           /\ can(role, "crm.lead.write") => <<"crm", "leads", "new">> \in AppShell(role)
           /\ can(role, "crm.account.read") =>
                 <<"crm", "accounts">> \in AppShell(role) /\ <<"crm", "contacts">> \in AppShell(role)
           /\ can(role, "catalog.product.read") => <<"catalog", "products">> \in AppShell(role)
           /\ can(role, "catalog.product.write") => <<"catalog", "categories">> \in AppShell(role)
           /\ can(role, "platform.members.manage") => <<"settings", "members">> \in AppShell(role)
           /\ can(role, "platform.roles.manage") => <<"settings", "roles">> \in AppShell(role)
           /\ can(role, "platform.settings.manage") => <<"settings", "api-keys">> \in AppShell(role)
  <1>1. \A i \in NAVIGATION \cup quickActions :
           can(role, i.permission) => i.href \in AppShell(role)
    BY DEF AppShell, CommandPalette, SidebarNav, filterNavigation
  <1>2. /\ item(<<"dashboard">>, AnyMember) \in NAVIGATION
        /\ item(<<"crm", "leads", "new">>, "crm.lead.write") \in quickActions
    BY DEF NAVIGATION, workspaceSection, quickActions
  <1>3. /\ item(<<"crm", "accounts">>, "crm.account.read") \in NAVIGATION
        /\ item(<<"crm", "contacts">>, "crm.account.read") \in NAVIGATION
        /\ item(<<"catalog", "products">>, "catalog.product.read") \in NAVIGATION
        /\ item(<<"catalog", "categories">>, "catalog.product.write") \in NAVIGATION
    BY DEF NAVIGATION, sellSection
  <1>4. /\ item(<<"settings", "members">>, "platform.members.manage") \in NAVIGATION
        /\ item(<<"settings", "roles">>, "platform.roles.manage") \in NAVIGATION
        /\ item(<<"settings", "api-keys">>, "platform.settings.manage") \in NAVIGATION
    BY DEF NAVIGATION, adminSection
  <1>5. <<"notifications">> \in AppShell(role) /\ <<"settings">> \in AppShell(role)
    BY DEF AppShell, Topbar, NotificationsButton, UserMenu
  <1>6. \A href, permission : /\ item(href, permission).href = href
                              /\ item(href, permission).permission = permission
    BY DEF item
  <1>7. can(role, AnyMember)
    BY DEF can
  <1>8. QED
    BY <1>1, <1>2, <1>3, <1>4, <1>5, <1>6, <1>7

\* Every lead is linked from the list, and the list from the dashboard.
LEMMA LeadsReachable ==
    ASSUME NEW f, Admitted(f), NEW r \in LeadIds(f)
    PROVE  /\ <<"crm", "leads", r>> \in Reachable(f)
           /\ Page(f, <<"crm", "leads", r>>) = LeadPage(f, r)
  <1>1. <<"crm", "leads">> \in Page(f, <<"dashboard">>).links
    BY StaticRoutes DEF Page, WorkspaceDashboard
  <1>2. <<"crm", "leads", r>> \in Page(f, <<"crm", "leads">>).links
    <2>1. Page(f, <<"crm", "leads">>) = LeadsPage(f)
      BY StaticRoutes DEF Page
    <2>2. QED
      BY <2>1 DEF LeadsPage, LeadsTable
  <1>3. PageOf(f, <<"crm", "leads", r>>) = "lead"
    BY IdsAreRows, RecordRoutes
  <1>4. QED
    BY <1>1, <1>2, <1>3, ShellItems, TwiceLinkedIsReachable DEF Page

LEMMA ProductsReachable ==
    ASSUME NEW f, Admitted(f), can(f.role, "catalog.product.read")
    PROVE  /\ \A r \in ProductIds(f) :
                 /\ <<"catalog", "products", r>> \in Reachable(f)
                 /\ Page(f, <<"catalog", "products", r>>) = ProductPage(f, r)
                 /\ ProductPage(f, r).links \subseteq Reachable(f)
           /\ Holds(f, "catalog.product.write") =>
                 <<"catalog", "products", "new">> \in Reachable(f)
  <1>1. <<"catalog", "products">> \in AppShell(f.role)
    BY ShellItems
  <1>2. Page(f, <<"catalog", "products">>) = ProductsPage(f)
    BY StaticRoutes DEF Page
  <1>3. ASSUME NEW r \in ProductIds(f)
        PROVE  /\ <<"catalog", "products", r>> \in Reachable(f)
               /\ Page(f, <<"catalog", "products", r>>) = ProductPage(f, r)
               /\ ProductPage(f, r).links \subseteq Reachable(f)
    <2>1. <<"catalog", "products", r>> \in Page(f, <<"catalog", "products">>).links
      BY <1>2 DEF ProductsPage, ProductsTable
    <2>2. PageOf(f, <<"catalog", "products", r>>) = "product"
      BY <1>3, IdsAreRows, RecordRoutes
    <2>3. Page(f, <<"catalog", "products", r>>) = ProductPage(f, r)
      BY <2>2 DEF Page
    <2>4. QED
      BY <1>1, <2>1, <2>3, LinkedIsReachable, TwiceLinkedIsReachable
  <1>4. ASSUME Holds(f, "catalog.product.write")
        PROVE  <<"catalog", "products", "new">> \in Reachable(f)
    <2>1. <<"catalog", "products", "new">> \in Page(f, <<"catalog", "products">>).links
      BY <1>2, <1>4 DEF ProductsPage, ProductsTable, Only
    <2>2. QED
      BY <1>1, <2>1, LinkedIsReachable
  <1>5. QED
    BY <1>3, <1>4

LEMMA ConfigureReachable ==
    ASSUME NEW f, Admitted(f), can(f.role, "catalog.product.read"),
           Holds(f, "sales.quote.read"), Holds(f, "sales.quote.write"),
           NEW r \in ProductIds(f), ProductStatus(f, r) = "ACTIVE"
    PROVE  /\ <<"catalog", "products", r, "configure">> \in Reachable(f)
           /\ Page(f, <<"catalog", "products", r, "configure">>) = ConfigurePage(f, r)
  <1>1. <<"catalog", "products", r, "configure">> \in ProductPage(f, r).links
    BY DEF ProductPage, SavedConfigurations, Only
  <1>2. PageOf(f, <<"catalog", "products", r, "configure">>) = "configure"
    BY IdsAreRows, RecordRoutes
  <1>3. Page(f, <<"catalog", "products", r, "configure">>) = ConfigurePage(f, r)
    BY <1>2 DEF Page
  <1>4. QED
    BY <1>1, <1>3, ProductsReachable

Offered(f, c) == \E path \in Reachable(f) : c \in Page(f, path).controls

LEMMA NewFields ==
    ASSUME NEW kind, NEW parent
    PROVE  /\ New(kind).kind = kind /\ New(kind).op = "new" /\ New(kind).row = NoRow
           /\ NewIn(kind, parent).kind = kind /\ NewIn(kind, parent).op = "new"
           /\ NewIn(kind, parent).row = NoRow /\ NewIn(kind, parent).choice = parent
  BY DEF New, NewIn, Request

\* A request that names a record of the kind at hand and chooses nothing.
Acted(f, c) ==
    \E op \in {"edit", "remove", "addActivity", "suspend", "reactivate", "resend", "revoke",
               "markRead"} : \E r \in Rows : c = Request(f.kind, op, r, NoChoice)

LEMMA ActedFields ==
    ASSUME NEW f, NEW c, Acted(f, c)
    PROVE  /\ c.kind = f.kind /\ c.row \in Rows /\ c.choice = NoChoice
           /\ c.op \in {"edit", "remove", "addActivity", "suspend", "reactivate", "resend",
                        "revoke", "markRead"}
           /\ c = Request(f.kind, c.op, c.row, NoChoice)
  BY RequestFields DEF Acted

LEMMA RequestShapes ==
    ASSUME NEW f, NEW c \in Requests(f)
    PROVE  /\ c.kind = "lead" =>
                 \/ c = New("lead") \/ Acted(f, c)
                 \/ \E r \in Live(f, "lead") : \E a \in LeadActions :
                       c = Request("lead", "move", r, a)
                 \/ \E r \in Live(f, "lead") : \E o \in OWNERS :
                       c = Request("lead", "reassign", r, o)
           /\ c.kind = "product" =>
                 \/ Acted(f, c)
                 \/ \E k \in CategoryIds(f) \cup Known(f, "category") : c = NewIn("product", k)
                 \/ \E r \in Live(f, "product") : \E a \in ProductActions :
                       c = Request("product", "move", r, a)
           /\ c.kind \in {"account", "contact", "category", "role", "key"} =>
                 c = New(c.kind) \/ Acted(f, c)
           /\ c.kind \in {"group", "configuration"} =>
                 (\E r \in ProductIds(f) : c = NewIn(c.kind, r)) \/ Acted(f, c)
           /\ c.kind = "option" => (\E g \in GroupIds(f) : c = NewIn("option", g)) \/ Acted(f, c)
           /\ c.kind = "member" =>
                 \/ c = Request("member", "leave", NoRow, NoChoice) \/ Acted(f, c)
                 \/ \E r \in Live(f, "member") : \E k \in {"owner", "viewer"} :
                       c = Request("member", "changeRole", r, k)
           /\ c.kind = "invitation" =>
                 \/ \E k \in {"owner", "viewer"} : c = Request("invitation", "new", NoRow, k)
                 \/ Acted(f, c)
           /\ c.kind = "settings" =>
                 \/ \E next \in {"on", "off"} : c = Request("settings", "requireMfa", NoRow, next)
                 \/ c = Request("settings", "rename", NoRow, NoChoice) \/ Acted(f, c)
           /\ c.kind = "notification" =>
                 c = Request("notification", "markAll", NoRow, NoChoice) \/ Acted(f, c)
  <1> DEFINE acts == {"edit", "remove", "addActivity", "suspend", "reactivate", "resend",
                        "revoke", "markRead"}
               news == {New(kind) : kind \in {"lead", "account", "contact", "category", "role",
                                              "key"}}
               products == {NewIn("product", r) : r \in CategoryIds(f) \cup Known(f, "category")}
               parts == {NewIn(kind, r) : kind \in {"group", "configuration"}, r \in ProductIds(f)}
               options == {NewIn("option", g) : g \in GroupIds(f)}
               acted == UNION {On(f.kind, op, Rows) : op \in acts}
               leadMoves == {Request("lead", "move", r, a) : r \in Live(f, "lead"), a \in LeadActions}
               productMoves == {Request("product", "move", r, a) :
                                    r \in Live(f, "product"), a \in ProductActions}
               owners == {Request("lead", "reassign", r, o) : r \in Live(f, "lead"), o \in OWNERS}
               roles == {Request("member", "changeRole", r, k) :
                             r \in Live(f, "member"), k \in {"owner", "viewer"}}
               invitations == {Request("invitation", "new", NoRow, k) : k \in {"owner", "viewer"}}
               policies == {Request("settings", "requireMfa", NoRow, next) : next \in {"on", "off"}}
               others == {Request("settings", "rename", NoRow, NoChoice),
                          Request("notification", "markAll", NoRow, NoChoice),
                          Request("member", "leave", NoRow, NoChoice)}
  <1>1. Requests(f) = news \cup products \cup parts \cup options \cup acted \cup leadMoves \cup productMoves
                          \cup owners \cup roles \cup invitations \cup policies \cup others
    BY DEF Requests
  <1>2. CASE c \in news
    BY <1>2, NewFields
  <1>3. CASE c \in products \cup parts \cup options
    BY <1>3, NewFields
  <1>4. CASE c \in acted
    <2>1. Acted(f, c)
      BY <1>4 DEF On, Acted
    <2>2. QED
      BY <2>1
  <1>5. CASE c \in leadMoves \cup owners
    BY <1>5, RequestFields
  <1>6. CASE c \in productMoves
    BY <1>6, RequestFields
  <1>7. CASE c \in roles \cup invitations
    BY <1>7, RequestFields
  <1>8. CASE c \in policies \cup others
    BY <1>8, RequestFields
  <1> HIDE DEF acts, news, products, parts, options, acted, leadMoves, productMoves, owners, roles,
               invitations, policies, others
  <1>9. QED
    BY <1>1, <1>2, <1>3, <1>4, <1>5, <1>6, <1>7, <1>8

LEMMA LeadsOffered ==
    ASSUME NEW f, NEW c \in Requests(f), Accepts(f, c), c.kind = "lead"
    PROVE  Offered(f, c)
  <1>1. leadActions(f, c) /\ Admitted(f)
    BY AcceptedBy
  <1>2. CASE c = New("lead")
    <2>1. Holds(f, "crm.lead.write")
      BY <1>1, <1>2, NewFields DEF leadActions
    <2>2. <<"crm", "leads", "new">> \in Reachable(f)
      BY <2>1, HoldsIsCan, ShellItems, ShellIsReachable
    <2>3. Page(f, <<"crm", "leads", "new">>) = NewLeadPage(f)
      BY StaticRoutes DEF Page
    <2>4. QED
      BY <1>2, <2>2, <2>3 DEF Offered, NewLeadPage, LeadForm
  <1>3. ASSUME NEW r \in Live(f, "lead"), f.kind = "lead",
               c \in LeadWorkspace(f, r, Holds(f, "crm.lead.write"), Holds(f, "crm.lead.assign"))
        PROVE  Offered(f, c)
    <2>1. r \in LeadIds(f)
      BY <1>3 DEF LeadIds
    <2>2. c \in LeadPage(f, r).controls
      BY <1>3 DEF LeadPage
    <2>3. QED
      BY <1>1, <2>1, <2>2, LeadsReachable DEF Offered
  <1>4. CASE Acted(f, c)
    <2>1. /\ c = Request("lead", c.op, c.row, NoChoice) /\ f.kind = "lead"
          /\ c.op \notin {"new", "move", "reassign"}
      BY <1>4, ActedFields
    <2>2. /\ c.op \in {"edit", "addActivity"} /\ c.row \in Live(f, "lead")
          /\ Holds(f, "crm.lead.write")
      BY <1>1, <2>1 DEF leadActions
    <2>3. QED
      BY <1>3, <2>1, <2>2 DEF LeadWorkspace, Only, On, ActivityForm
  <1>5. ASSUME NEW r \in Live(f, "lead"), NEW a \in LeadActions, c = Request("lead", "move", r, a)
        PROVE  Offered(f, c)
    <2>1. c.op = "move" /\ c.row = r /\ c.choice = a
      BY <1>5, RequestFields
    <2>2. Holds(f, "crm.lead.write") /\ canTransition(f, f.row[r], a) /\ f.kind = "lead"
      BY <1>1, <2>1, LiveIsThere DEF leadActions
    <2>3. QED
      BY <1>3, <1>5, <2>2 DEF LeadWorkspace, Only, availableActions
  <1>6. ASSUME NEW r \in Live(f, "lead"), NEW o \in OWNERS, c = Request("lead", "reassign", r, o)
        PROVE  Offered(f, c)
    <2>1. c.op = "reassign" /\ c.row = r
      BY <1>6, RequestFields
    <2>2. Holds(f, "crm.lead.assign") /\ f.kind = "lead"
      BY <1>1, <2>1, LiveIsThere DEF leadActions
    <2>3. QED
      BY <1>3, <1>6, <2>2 DEF LeadWorkspace, Only
  <1>7. QED
    BY <1>2, <1>4, <1>5, <1>6, RequestShapes

LEMMA AccountsOffered ==
    ASSUME NEW f, NEW c \in Requests(f), Accepts(f, c), ReadsWhatItWrites(f.role),
           c.kind \in {"account", "contact"}
    PROVE  Offered(f, c)
  <1>1. /\ Admitted(f)
        /\ c.kind = "account" => accountActions(f, c)
        /\ c.kind = "contact" => contactActions(f, c)
    BY AcceptedBy
  <1>2. Holds(f, "crm.account.write")
    BY <1>1 DEF accountActions, contactActions
  <1>3. can(f.role, "crm.account.read")
    BY <1>2, HoldsIsCan DEF ReadsWhatItWrites
  <1>4. <<"crm", "accounts">> \in Reachable(f) /\ <<"crm", "contacts">> \in Reachable(f)
    BY <1>3, ShellItems, ShellIsReachable
  <1>5. /\ Page(f, <<"crm", "accounts">>) = AccountsPage(f)
        /\ Page(f, <<"crm", "contacts">>) = ContactsPage(f)
    BY StaticRoutes DEF Page
  <1>6. \/ c = New(c.kind)
        \/ \E r \in Live(f, c.kind) : \/ c = Request(c.kind, "edit", r, NoChoice)
                                      \/ c = Request(c.kind, "remove", r, NoChoice)
    <2>1. c = New(c.kind) \/ Acted(f, c)
      BY RequestShapes
    <2>2. ASSUME Acted(f, c)
          PROVE  /\ c = Request(c.kind, c.op, c.row, NoChoice)
                 /\ c.op \in {"edit", "remove"} /\ c.row \in Live(f, c.kind)
      <3>1. c = Request(c.kind, c.op, c.row, NoChoice) /\ c.op # "new"
        BY <2>2, ActedFields
      <3>2. QED
        BY <1>1, <3>1 DEF accountActions, contactActions, updateAccount, archiveAccount,
                          updateContact, archiveContact
    <2>3. QED
      BY <2>1, <2>2
  <1>7. CASE c.kind = "account"
    <2>1. c \in AccountsPage(f).controls
      BY <1>2, <1>6, <1>7 DEF AccountsPage, AccountsManager, Only, On
    <2>2. QED
      BY <1>4, <1>5, <2>1 DEF Offered
  <1>8. CASE c.kind = "contact"
    <2>1. c \in ContactsPage(f).controls
      BY <1>2, <1>6, <1>8 DEF ContactsPage, ContactsManager, Only, On
    <2>2. QED
      BY <1>4, <1>5, <2>1 DEF Offered
  <1>9. QED
    BY <1>7, <1>8

\* A control of a product's page is met by whoever may read products.
LEMMA ProductPageOffers ==
    ASSUME NEW f, Admitted(f), can(f.role, "catalog.product.read"), NEW r \in ProductIds(f),
           NEW c \in ProductPage(f, r).controls
    PROVE  Offered(f, c)
  BY ProductsReachable DEF Offered

LEMMA ProductsOffered ==
    ASSUME NEW f, AreFacts(f), NEW c \in Requests(f), Accepts(f, c), ReadsWhatItWrites(f.role),
           c.kind = "product"
    PROVE  Unasked(f, c) \/ Offered(f, c)
  <1>1. productActions(f, c) /\ Admitted(f)
    BY AcceptedBy
  <1>2. Holds(f, "catalog.product.write")
    BY <1>1 DEF productActions
  <1>3. can(f.role, "catalog.product.read")
    BY <1>2, HoldsIsCan DEF ReadsWhatItWrites
  <1>4. CASE \E k \in CategoryIds(f) \cup Known(f, "category") : c = NewIn("product", k)
    <2>1. c.op = "new" /\ c.row = NoRow /\ c = NewIn("product", c.choice)
      BY <1>4, NewFields
    <2>2. createProduct(f, c.choice)
      BY <1>1, <2>1, LiveIsThere DEF productActions
    <2>3. Page(f, <<"catalog", "products", "new">>) = NewProductPage(f)
      BY StaticRoutes DEF Page
    <2>4. CASE c.choice \in CategoryIds(f)
      <3>1. c \in NewProductPage(f).controls
        BY <2>1, <2>4 DEF NewProductPage, ProductForm
      <3>2. QED
        BY <1>1, <1>2, <1>3, <2>3, <3>1, ProductsReachable DEF Offered
    <2>5. CASE c.choice \notin CategoryIds(f)
      BY <2>1, <2>2, <2>5, OldCategory DEF Unasked
    <2>6. QED
      BY <2>4, <2>5
  <1>5. ASSUME NEW r \in Live(f, "product"), f.kind = "product",
               c \in On("product", "edit", {r}) \cup Availability(f, r, TRUE)
        PROVE  Offered(f, c)
    <2>1. r \in ProductIds(f)
      BY <1>5 DEF ProductIds
    <2>2. c \in ProductPage(f, r).controls
      BY <1>2, <1>5 DEF ProductPage, ProductWorkspace, Availability, Only
    <2>3. QED
      BY <1>1, <1>3, <2>1, <2>2, ProductPageOffers
  <1>6. CASE Acted(f, c)
    <2>1. c = Request("product", c.op, c.row, NoChoice) /\ f.kind = "product"
          /\ c.op \notin {"new", "move"}
      BY <1>6, ActedFields
    <2>2. /\ c.row \in Live(f, "product")
          /\ c.op = "edit" \/ (c.op = "remove" /\ f.row[c.row].status = "DRAFT")
      BY <1>1, <2>1 DEF productActions, canDeleteProduct
    <2>3. QED
      BY <1>5, <2>1, <2>2 DEF On, Availability, Only
  <1>7. ASSUME NEW r \in Live(f, "product"), NEW a \in ProductActions,
               c = Request("product", "move", r, a)
        PROVE  Offered(f, c)
    <2>1. c.op = "move" /\ c.row = r /\ c.choice = a
      BY <1>7, RequestFields
    <2>2. canTransitionProduct(f.row[r], a) /\ f.kind = "product"
      BY <1>1, <2>1, LiveIsThere DEF productActions
    <2>3. QED
      BY <1>5, <1>7, <2>2 DEF Availability, Only, availableProductActions
  <1>8. QED
    BY <1>4, <1>6, <1>7, RequestShapes

LEMMA OptionsOffered ==
    ASSUME NEW f, NEW c \in Requests(f), Accepts(f, c), ReadsWhatItWrites(f.role),
           c.kind \in {"group", "option"}
    PROVE  Unasked(f, c) \/ Offered(f, c)
  <1>1. optionActions(f, c) /\ Admitted(f)
    BY AcceptedBy
  <1>2. Holds(f, "catalog.product.write")
    BY <1>1 DEF optionActions
  <1>3. can(f.role, "catalog.product.read")
    BY <1>2, HoldsIsCan DEF ReadsWhatItWrites
  <1>4. ASSUME NEW r \in ProductIds(f), c \in OptionGroups(f, r, TRUE)
        PROVE  Offered(f, c)
    <2>1. c \in ProductPage(f, r).controls
      BY <1>2, <1>4 DEF ProductPage, ProductWorkspace, OptionGroups, Only
    <2>2. QED
      BY <1>1, <1>3, <2>1, ProductPageOffers
  <1>5. ASSUME f.kind \in {"group", "option"}
        PROVE  "aProduct" \in ProductIds(f)
    BY <1>5 DEF ProductIds
  <1>6. CASE \E r \in ProductIds(f) : c = NewIn(c.kind, r) /\ c.kind = "group"
    BY <1>4, <1>6 DEF OptionGroups, Only
  <1>7. CASE \E g \in GroupIds(f) : c = NewIn("option", g)
    <2>1. f.kind \in {"group", "option"}
      BY <1>7 DEF GroupIds
    <2>2. /\ c.kind = "option" /\ c.op = "new" /\ c.choice \in GroupIds(f)
          /\ c = NewIn("option", c.choice)
      BY <1>7, NewFields
    <2>3. CASE c.choice \in ChoiceGroups(f)
      <3>1. c \in OptionGroups(f, "aProduct", TRUE)
        BY <2>2, <2>3 DEF OptionGroups, Only
      <3>2. QED
        BY <1>4, <1>5, <2>1, <3>1
    <2>4. CASE c.choice \notin ChoiceGroups(f)
      BY <2>2, <2>4 DEF ChoiceGroups, Unasked, GroupOf
    <2>5. QED
      BY <2>3, <2>4
  <1>8. CASE Acted(f, c)
    <2>1. c = Request(c.kind, c.op, c.row, NoChoice) /\ f.kind = c.kind /\ c.op # "new"
      BY <1>8, ActedFields
    <2>2. /\ c.op \in {"edit", "remove"} /\ c.row \in Live(f, c.kind)
      BY <1>1, <2>1 DEF optionActions, saveOptionGroup, saveOption, deleteOptionGroup,
                        deleteOption, Live
    <2>3. CASE c.kind = "group" \/ c.row \in OptionsShown(f)
      <3>1. c \in OptionGroups(f, "aProduct", TRUE)
        BY <2>1, <2>2, <2>3 DEF OptionGroups, Only, On
      <3>2. QED
        BY <1>4, <1>5, <2>1, <3>1
    <2>4. CASE c.kind = "option" /\ c.row \notin OptionsShown(f)
      <3>1. GroupOf(c) = "aGroup" /\ "aGroup" \in GroupIds(f)
        BY <2>1, <2>4 DEF GroupOf, GroupIds
      <3>2. QED
        BY <2>2, <2>4, <3>1 DEF OptionsShown, ChoiceGroups, Unasked
    <2>5. QED
      BY <2>3, <2>4
  <1>9. QED
    BY <1>6, <1>7, <1>8, RequestShapes

LEMMA ConfigurationsOffered ==
    ASSUME NEW f, NEW c \in Requests(f), Accepts(f, c), ReadsWhatItWrites(f.role),
           c.kind = "configuration"
    PROVE  Offered(f, c)
  <1>1. configurationActions(f, c) /\ Admitted(f)
    BY AcceptedBy
  <1>2. Holds(f, "sales.quote.write")
    BY <1>1 DEF configurationActions
  <1>3. can(f.role, "catalog.product.read") /\ can(f.role, "sales.quote.read")
    BY <1>2, HoldsIsCan DEF ReadsWhatItWrites
  <1>4. Holds(f, "sales.quote.read")
    BY <1>3 DEF can, Holds, AnyMember
  <1>5. ASSUME NEW r \in ProductIds(f), c = NewIn("configuration", r)
        PROVE  Offered(f, c)
    <2>1. c.op = "new" /\ c.choice = r
      BY <1>5, NewFields
    <2>2. ProductStatus(f, r) = "ACTIVE"
      BY <1>1, <2>1 DEF configurationActions, saveConfiguration
    <2>3. c \in ConfigurePage(f, r).controls
      BY <1>5, <2>2 DEF ConfigurePage, Only
    <2>4. QED
      BY <1>1, <1>2, <1>3, <1>4, <2>2, <2>3, ConfigureReachable DEF Offered
  <1>6. CASE Acted(f, c)
    <2>1. c = Request("configuration", c.op, c.row, NoChoice) /\ f.kind = "configuration"
          /\ c.op # "new"
      BY <1>6, ActedFields
    <2>2. c.op = "remove" /\ c.row \in Live(f, "configuration")
      BY <1>1, <2>1 DEF configurationActions, deleteConfiguration
    <2>3. c \in ConfigurationControls(f) /\ "aProduct" \in ProductIds(f)
      BY <1>2, <1>4, <2>1, <2>2 DEF ConfigurationControls, On, ProductIds
    <2>4. QED
      BY <1>1, <1>3, <2>3, ConfigurationsShown, ProductPageOffers
  <1>7. QED
    BY <1>5, <1>6, RequestShapes

LEMMA CategoriesOffered ==
    ASSUME NEW f, AreFacts(f), NEW c \in Requests(f), Accepts(f, c), c.kind = "category"
    PROVE  Unasked(f, c) \/ Offered(f, c)
  <1>1. categoryActions(f, c) /\ Admitted(f)
    BY AcceptedBy
  <1>2. Holds(f, "catalog.product.write")
    BY <1>1 DEF categoryActions
  <1>3. ASSUME c \in CategoriesPage(f).controls
        PROVE  Offered(f, c)
    <2>1. <<"catalog", "categories">> \in Reachable(f)
      BY <1>2, HoldsIsCan, ShellItems, ShellIsReachable
    <2>2. Page(f, <<"catalog", "categories">>) = CategoriesPage(f)
      BY StaticRoutes DEF Page
    <2>3. QED
      BY <1>3, <2>1, <2>2 DEF Offered
  <1>4. CASE c = New("category")
    BY <1>2, <1>3, <1>4 DEF CategoriesPage, CategoriesManager, Only
  <1>5. CASE Acted(f, c)
    <2>1. c = Request("category", c.op, c.row, NoChoice) /\ c.op # "new" /\ c.row \in Rows
      BY <1>5, ActedFields
    <2>2. /\ c.op \in {"edit", "remove"}
          /\ c.op = "remove" => c.row \in Live(f, "category")
          /\ c.op = "edit" => f.kind = "category" /\ f.there[c.row] # "unused"
      BY <1>1, <2>1 DEF categoryActions, updateCategory, archiveCategory, Known
    <2>3. f.there[c.row] \in {"unused", "live", "gone"}
      BY <2>1, FactsTyped
    <2>4. CASE c.op = "edit" /\ f.there[c.row] = "gone"
      BY <2>4 DEF Unasked
    <2>5. CASE c.row \in Live(f, "category")
      <3>1. c \in CategoriesPage(f).controls
        BY <1>2, <2>1, <2>2, <2>5 DEF CategoriesPage, CategoriesManager, Only, On
      <3>2. QED
        BY <1>3, <3>1
    <2>6. QED
      BY <2>1, <2>2, <2>3, <2>4, <2>5 DEF Live
  <1>6. QED
    BY <1>4, <1>5, RequestShapes

LEMMA MembersOffered ==
    ASSUME NEW f, NEW c \in Requests(f), Accepts(f, c), c.kind \in {"member", "invitation"},
           c.op = "leave" => can(f.role, "platform.members.manage")
    PROVE  Offered(f, c)
  <1>1. /\ Admitted(f)
        /\ c.kind = "member" => memberActions(f, c) \/ leaveOrganization(f, c)
        /\ c.kind = "invitation" => invitationActions(f, c)
    BY AcceptedBy
  <1>2. can(f.role, "platform.members.manage")
    BY <1>1, HoldsIsCan DEF memberActions, leaveOrganization, invitationActions
  <1>3. Holds(f, "platform.members.manage")
    BY <1>1, <1>2 DEF can, Holds, AnyMember
  <1>4. ASSUME c \in MembersPage(f).controls
        PROVE  Offered(f, c)
    <2>1. <<"settings", "members">> \in Reachable(f)
      BY <1>2, ShellItems, ShellIsReachable
    <2>2. Page(f, <<"settings", "members">>) = MembersPage(f)
      BY StaticRoutes DEF Page
    <2>3. QED
      BY <1>4, <2>1, <2>2 DEF Offered
  <1>5. CASE c = Request("member", "leave", NoRow, NoChoice)
    BY <1>4, <1>5 DEF MembersPage, LeaveWorkspace, On
  <1>6. ASSUME NEW k \in {"owner", "viewer"}, c = Request("invitation", "new", NoRow, k)
        PROVE  Offered(f, c)
    <2>1. c.op = "new" /\ c.choice = k /\ c.kind = "invitation"
      BY <1>6, RequestFields
    <2>2. k = "owner" => f.role = "owner"
      BY <1>1, <2>1 DEF invitationActions
    <2>3. QED
      BY <1>3, <1>4, <1>6, <2>2 DEF MembersPage, MembersManager, Only, InviteForm
  <1>7. CASE Acted(f, c) /\ c.kind = "invitation"
    <2>1. c = Request("invitation", c.op, c.row, NoChoice) /\ c.op # "new"
      BY <1>7, ActedFields
    <2>2. c.op \in {"resend", "remove"} /\ c.row \in Live(f, "invitation")
      BY <1>1, <1>7, <2>1 DEF invitationActions
    <2>3. c \in PendingInvitations(f)
      BY <2>1, <2>2 DEF PendingInvitations, On
    <2>4. QED
      BY <1>3, <1>4, <2>3 DEF MembersPage, MembersManager, Only
  <1>8. ASSUME NEW r \in Live(f, "member"), NEW assignable,
               assignable = {"viewer"} \cup Only(f.role = "owner", {"owner"}),
               c \in RoleSelect(f, r, assignable) \cup MemberActions(f, r)
        PROVE  Offered(f, c)
    <2>1. c \in MembersPage(f).controls
      BY <1>3, <1>8 DEF MembersPage, MembersManager, Only
    <2>2. QED
      BY <1>4, <2>1
  <1>9. ASSUME NEW r \in Live(f, "member"), NEW k \in {"owner", "viewer"},
               c = Request("member", "changeRole", r, k)
        PROVE  Offered(f, c)
    <2>1. c.kind = "member" /\ c.op = "changeRole" /\ c.row = r /\ c.choice = k
      BY <1>9, RequestFields
    <2>2. memberPolicy(f, c, f.row[r])
      BY <1>1, <2>1 DEF memberActions, leaveOrganization
    <2>3. k = "owner" => f.role = "owner"
      BY <2>1, <2>2 DEF memberPolicy, OwnerGuard
    <2>4. c \in RoleSelect(f, r, {"viewer"} \cup Only(f.role = "owner", {"owner"}))
      BY <1>9, <2>3 DEF RoleSelect, Only
    <2>5. QED
      BY <1>8, <2>4
  <1>10. CASE Acted(f, c) /\ c.kind = "member"
    <2>1. c = Request("member", c.op, c.row, NoChoice) /\ c.op \notin {"leave", "changeRole"}
      BY <1>10, ActedFields
    <2>2. c.row \in Live(f, "member") /\ memberPolicy(f, c, f.row[c.row])
      BY <1>1, <1>10, <2>1 DEF memberActions, leaveOrganization
    <2>3. \/ c.op = "remove"
          \/ c.op = "suspend" /\ f.row[c.row].status = "ACTIVE"
          \/ c.op = "reactivate" /\ f.row[c.row].status # "ACTIVE"
      BY <2>1, <2>2 DEF memberPolicy
    <2>4. c \in MemberActions(f, c.row)
      BY <2>1, <2>3 DEF MemberActions, On
    <2>5. QED
      BY <1>8, <2>2, <2>4
  <1>11. QED
    BY <1>5, <1>6, <1>7, <1>9, <1>10, RequestShapes

LEMMA SettingsOffered ==
    ASSUME NEW f, AreFacts(f), NEW c \in Requests(f), Accepts(f, c),
           c.kind \in {"role", "key", "settings", "notification"}
    PROVE  Unasked(f, c) \/ Offered(f, c)
  <1>1. Admitted(f)
    BY AcceptedBy
  <1>2. CASE c.kind = "role"
    <2>1. roleActions(f, c)
      BY <1>2, AcceptedBy
    <2>2. Holds(f, "platform.roles.manage")
      BY <2>1 DEF roleActions
    <2>3. <<"settings", "roles">> \in Reachable(f)
      BY <2>2, HoldsIsCan, ShellItems, ShellIsReachable
    <2>4. Acted(f, c) => /\ c = Request("role", c.op, c.row, NoChoice)
                         /\ c.op \in {"edit", "remove"} /\ c.row \in Live(f, "role")
      BY <1>2, <2>1, ActedFields DEF roleActions
    <2>5. c \in RolesPage(f).controls
      BY <1>2, <2>2, <2>4, RequestShapes DEF RolesPage, RolesManager, DeleteRole, Only, On
    <2>6. Page(f, <<"settings", "roles">>) = RolesPage(f)
      BY StaticRoutes DEF Page
    <2>7. QED
      BY <2>3, <2>5, <2>6 DEF Offered
  <1>3. CASE c.kind = "key"
    <2>1. keyActions(f, c)
      BY <1>3, AcceptedBy
    <2>2. Holds(f, "platform.settings.manage")
      BY <2>1 DEF keyActions
    <2>3. <<"settings", "api-keys">> \in Reachable(f)
      BY <2>2, HoldsIsCan, ShellItems, ShellIsReachable
    <2>4. Acted(f, c) => /\ c = Request("key", "revoke", c.row, NoChoice)
                         /\ c.row \in Live(f, "key") /\ f.row[c.row] = "active"
      BY <1>3, <2>1, ActedFields DEF keyActions
    <2>5. c \in ApiKeysPage(f).controls
      BY <1>3, <2>4, RequestShapes DEF ApiKeysPage, ApiKeysManager, CreateKeyForm, On
    <2>6. Page(f, <<"settings", "api-keys">>) = ApiKeysPage(f)
      BY StaticRoutes DEF Page
    <2>7. QED
      BY <2>3, <2>5, <2>6 DEF Offered
  <1>4. CASE c.kind = "settings"
    <2>1. updateOrganization(f, c) \/ updateSecurityPolicy(f, c)
      BY <1>4, AcceptedBy
    <2>2. Holds(f, "platform.settings.manage") /\ c.op \in {"rename", "requireMfa"}
      BY <2>1 DEF updateOrganization, updateSecurityPolicy
    <2>3. ~Acted(f, c)
      BY <2>2, ActedFields
    <2>4. c \in WorkspaceSettings(f).controls
      BY <1>4, <2>2, <2>3, RequestShapes
         DEF WorkspaceSettings, OrganizationSettingsForm, SecuritySettings, Only
    <2>5. <<"settings">> \in Reachable(f) /\ Page(f, <<"settings">>) = WorkspaceSettings(f)
      BY ShellItems, ShellIsReachable, StaticRoutes DEF Page
    <2>6. QED
      BY <2>4, <2>5 DEF Offered
  <1>5. CASE c.kind = "notification"
    <2>1. notificationActions(f, c)
      BY <1>5, AcceptedBy
    <2>2. \A r \in Live(f, "notification") : f.row[r] \in {"unread", "read"}
      BY LiveIsThere, FactsTyped
    <2>3. Acted(f, c) => /\ c = Request("notification", "markRead", c.row, NoChoice)
                         /\ c.row \in Live(f, "notification")
      BY <1>5, <2>1, ActedFields DEF notificationActions
    <2>4. Acted(f, c) => Unasked(f, c) \/ c \in NotificationsPage(f).controls
      BY <2>2, <2>3, ActedFields, RequestFields
         DEF Unasked, NotificationsPage, NotificationsInbox, On
    <2>5. ASSUME c = Request("notification", "markAll", NoRow, NoChoice)
          PROVE  Unasked(f, c) \/ c \in NotificationsPage(f).controls
      BY <2>2, <2>5, RequestFields DEF Unasked, NotificationsPage, NotificationsInbox, On, Only
    <2>6. Unasked(f, c) \/ c \in NotificationsPage(f).controls
      BY <1>5, <2>4, <2>5, RequestShapes
    <2>7. /\ <<"notifications">> \in Reachable(f)
          /\ Page(f, <<"notifications">>) = NotificationsPage(f)
      BY ShellItems, ShellIsReachable, StaticRoutes DEF Page
    <2>8. QED
      BY <2>6, <2>7 DEF Offered
  <1>6. QED
    BY <1>2, <1>3, <1>4, <1>5

\* For every role that reads what it writes, and whatever the facts.
LEMMA AcceptedIsOffered ==
    ASSUME NEW f, AreFacts(f), ReadsWhatItWrites(f.role), NEW c \in Requests(f), Accepts(f, c)
    PROVE  \/ Unasked(f, c)
           \/ c.op = "leave" /\ ~can(f.role, "platform.members.manage")
           \/ Offered(f, c)
  <1>1. c.kind \in Kinds
    BY DEF Accepts, leadActions, accountActions, contactActions, productActions, optionActions,
           categoryActions, configurationActions, memberActions, leaveOrganization,
           invitationActions, roleActions, keyActions, updateOrganization,
           updateSecurityPolicy, notificationActions, Kinds
  <1>2. QED
    BY <1>1, LeadsOffered, AccountsOffered, ProductsOffered, OptionsOffered,
       ConfigurationsOffered, CategoriesOffered, MembersOffered, SettingsOffered DEF Kinds

-----------------------------------------------------------------------------
(* How the facts move on: records come and go, and none comes back. *)

Before(f, g) ==
    /\ g.kind = f.kind
    /\ \A r \in Rows :
          /\ f.there[r] \in {"live", "gone"} => g.there[r] \in {"live", "gone"}
          /\ f.there[r] = "gone" => g.there[r] = "gone"

LEMMA BeforeItself == ASSUME NEW f PROVE Before(f, f)
  BY DEF Before

LEMMA BeforeFollows ==
    ASSUME NEW f, NEW g, NEW h, Before(f, g), Before(g, h)
    PROVE  Before(f, h)
  BY DEF Before

LEMMA FreshTyped == \A kind \in Kinds : Fresh(kind) \in Details[kind]
  <1>1. Fresh("lead") \in Details["lead"]
    BY DEF Fresh, Details, LeadDetails, LeadStatuses, OPEN, OWNERS
  <1>2. /\ Fresh("product") \in Details["product"]
        /\ Fresh("member") \in Details["member"]
    BY DEF Fresh, Details
  <1>3. \A kind \in {"account", "category", "role", "key", "notification"} :
           Fresh(kind) \in Details[kind]
    BY DEF Fresh, Details
  <1>4. \A kind \in {"contact", "group", "option", "configuration", "invitation", "settings"} :
           Fresh(kind) \in Details[kind]
    BY DEF Fresh, Details, Inputs
  <1>5. QED
    BY <1>1, <1>2, <1>3, <1>4 DEF Kinds

LEMMA PutTyped ==
    ASSUME NEW f, AreFacts(f), NEW r \in Rows, NEW d \in Details[f.kind]
    PROVE  AreFacts(Put(f, r, d)) /\ Before(f, Put(f, r, d))
  BY DEF AreFacts, FactsOf, Put, Before

LEMMA DropTyped ==
    ASSUME NEW f, AreFacts(f), NEW r \in Rows
    PROVE  AreFacts(Drop(f, r)) /\ Before(f, Drop(f, r))
  BY DEF AreFacts, FactsOf, Drop, Before

LEMMA AddTyped ==
    ASSUME NEW f, AreFacts(f), NEW r \in Unused(f)
    PROVE  AreFacts(Add(f, r)) /\ Before(f, Add(f, r))
  <1>1. Fresh(f.kind) \in Details[f.kind]
    BY FreshTyped DEF AreFacts
  <1>2. r \in Rows /\ f.there[r] = "unused"
    BY DEF Unused
  <1>3. QED
    BY <1>1, <1>2 DEF AreFacts, FactsOf, Add, Before

LEMMA RoleTyped ==
    ASSUME NEW f, AreFacts(f), NEW role \in DOMAIN RolePermissions \cup {"removed"}
    PROVE  AreFacts([f EXCEPT !.role = role]) /\ Before(f, [f EXCEPT !.role = role])
  BY DEF AreFacts, FactsOf, Before

LEMMA PolicyTyped ==
    ASSUME NEW f, AreFacts(f), NEW on \in BOOLEAN
    PROVE  AreFacts([f EXCEPT !.requireMfa = on]) /\ Before(f, [f EXCEPT !.requireMfa = on])
  BY DEF AreFacts, FactsOf, Before

LEMMA InputTyped ==
    ASSUME NEW f, AreFacts(f), NEW input \in Inputs
    PROVE  AreFacts([f EXCEPT !.input = input]) /\ Before(f, [f EXCEPT !.input = input])
  BY DEF AreFacts, FactsOf, Before

LEMMA ReadTyped ==
    ASSUME NEW f, AreFacts(f)
    PROVE  /\ AreFacts(markAllNotificationsRead(f))
           /\ Before(f, markAllNotificationsRead(f))
  <1>1. Details["notification"] = {"unread", "read"}
    BY DEF Details
  <1>2. ASSUME NEW r \in Rows
        PROVE  (IF r \in Live(f, "notification") THEN "read" ELSE f.row[r]) \in Details[f.kind]
    BY <1>1, FactsTyped, LiveIsThere
  <1>3. QED
    BY <1>2 DEF AreFacts, FactsOf, markAllNotificationsRead, Before

LEMMA NewIdUnused ==
    ASSUME NEW f, Unused(f) # {}
    PROVE  NewId(f, f.kind) \in Unused(f)
  BY DEF NewId

Parents == Rows \cup {NoChoice, "aProduct", "aGroup", "aCategory"}

\* What a control carries.
Carries(f, c) ==
    /\ c.kind \in Kinds
    /\ c.op = "move" => \/ c.kind = "lead" /\ c.choice \in LeadActions
                        \/ c.kind = "product" /\ c.choice \in ProductActions
    /\ c.op = "reassign" => c.choice \in OWNERS
    /\ c.op = "new" /\ c.kind # "invitation" =>
          c.choice \in Parents
    /\ c.op = "edit" => c.row \in Live(f, c.kind) /\ c.choice = NoChoice

LEMMA MovesTyped ==
    /\ \A a \in LeadActions : leadMachine[a].to \in LeadStatuses
    /\ \A a \in ProductActions : productMachine[a].to \in {"DRAFT", "ACTIVE", "DISCONTINUED"}
    /\ NEEDS_REASON \subseteq LeadActions
  BY DEF LeadActions, leadMachine, LeadStatuses, OPEN, ProductActions, productMachine,
         NEEDS_REASON

LEMMA MoveTyped ==
    ASSUME NEW f, AreFacts(f), NEW c, Accepts(f, c), c.op = "move", Carries(f, c)
    PROVE  AreFacts(Effect(f, c)) /\ Before(f, Effect(f, c))
  <1>1. CASE c.kind = "lead"
    <2>1. leadActions(f, c) /\ c.choice \in LeadActions
      BY <1>1, AcceptedBy DEF Carries
    <2>2. c.row \in Live(f, "lead")
      BY <2>1 DEF leadActions
    <2>3. c.row \in Rows /\ f.kind = "lead" /\ f.row[c.row] \in LeadDetails
      BY <2>2, FactsTyped, LiveIsThere
    <2>4. Details["lead"] = LeadDetails
      BY DEF Details
    <2>5. [f.row[c.row] EXCEPT !.status = leadMachine[c.choice].to] \in Details[f.kind]
      BY <2>1, <2>3, <2>4, MovesTyped DEF LeadDetails
    <2>6. Effect(f, c) = transitionLead(f, c.row, c.choice)
      BY <1>1 DEF Effect
    <2>7. Effect(f, c) = Put(f, c.row, [f.row[c.row] EXCEPT !.status = leadMachine[c.choice].to])
      BY <2>3, <2>6 DEF transitionLead, Put, AreFacts, FactsOf
    <2>8. QED
      BY <2>3, <2>5, <2>7, PutTyped
  <1>2. CASE c.kind = "product"
    <2>1. productActions(f, c) /\ c.choice \in ProductActions
      BY <1>2, AcceptedBy DEF Carries
    <2>2. c.row \in Live(f, "product")
      BY <2>1 DEF productActions
    <2>3. /\ c.row \in Rows /\ f.kind = "product"
          /\ f.row[c.row] \in ProductDetails
      BY <2>2, FactsTyped, LiveIsThere
    <2>4. Details["product"] = ProductDetails
      BY DEF Details, ProductDetails
    <2>5. [f.row[c.row] EXCEPT !.status = productMachine[c.choice].to] \in Details[f.kind]
      BY <2>1, <2>3, <2>4, MovesTyped DEF ProductDetails
    <2>6. Effect(f, c) = transitionProduct(f, c.row, c.choice)
      BY <1>2 DEF Effect
    <2>7. Effect(f, c) = Put(f, c.row, [f.row[c.row] EXCEPT !.status = productMachine[c.choice].to])
      BY <2>3, <2>6 DEF transitionProduct, Put, AreFacts, FactsOf
    <2>8. QED
      BY <2>3, <2>5, <2>7, PutTyped
  <1>3. QED
    BY <1>1, <1>2 DEF Carries

\* A request that names a record touches one that is there, of its own kind.
LEMMA Touches ==
    ASSUME NEW f, NEW c, Accepts(f, c)
    PROVE  /\ c.op \in {"remove", "reassign", "changeRole", "suspend", "reactivate", "revoke",
                        "markRead"} => c.row \in Rows
           /\ c.op = "reassign" => f.kind = "lead"
           /\ c.op \in {"changeRole", "suspend", "reactivate"} => f.kind = "member"
           /\ c.op = "revoke" => f.kind = "key"
           /\ c.op = "markRead" => f.kind = "notification"
  <1>1. \/ leadActions(f, c) \/ accountActions(f, c) \/ contactActions(f, c)
        \/ productActions(f, c) \/ optionActions(f, c) \/ categoryActions(f, c)
        \/ configurationActions(f, c)
        \/ memberActions(f, c) \/ leaveOrganization(f, c) \/ invitationActions(f, c)
        \/ roleActions(f, c) \/ keyActions(f, c)
        \/ updateOrganization(f, c) \/ updateSecurityPolicy(f, c)
        \/ notificationActions(f, c)
    BY DEF Accepts
  <1>2. CASE leadActions(f, c) \/ accountActions(f, c) \/ contactActions(f, c)
    BY <1>2 DEF leadActions, accountActions, contactActions, archiveAccount, archiveContact, Live
  <1>3. CASE productActions(f, c) \/ optionActions(f, c) \/ categoryActions(f, c)
               \/ configurationActions(f, c)
    BY <1>3 DEF productActions, optionActions, deleteOptionGroup, deleteOption, categoryActions,
                archiveCategory, configurationActions, deleteConfiguration, Live
  <1>4. CASE memberActions(f, c) \/ leaveOrganization(f, c) \/ invitationActions(f, c)
    BY <1>4 DEF memberActions, memberPolicy, leaveOrganization, invitationActions, Live
  <1>5. CASE roleActions(f, c) \/ keyActions(f, c) \/ updateOrganization(f, c)
               \/ updateSecurityPolicy(f, c) \/ notificationActions(f, c)
    BY <1>5 DEF roleActions, keyActions, updateOrganization, updateSecurityPolicy,
                notificationActions, Live
  <1>6. QED
    BY <1>1, <1>2, <1>3, <1>4, <1>5

\* Whatever the server accepts leaves facts behind, of the same records.
LEMMA EffectTyped ==
    ASSUME NEW f, AreFacts(f), NEW c, Accepts(f, c), Carries(f, c), IdLeft(f, c)
    PROVE  AreFacts(Effect(f, c)) /\ Before(f, Effect(f, c))
  <1>1. CASE c.op = "move"
    BY <1>1, MoveTyped
  <1>2. CASE c.op = "new"
    <2>1. CASE c.kind = f.kind
      <3>1. Effect(f, c) = Add(f, NewId(f, f.kind))
        BY <1>2, <2>1 DEF Effect
      <3>2. QED
        BY <1>2, <2>1, <3>1, AddTyped, NewIdUnused DEF IdLeft
    <2>2. CASE c.kind = "product" /\ f.kind = "category"
      <3>1. Effect(f, c) = Put(f, c.choice, "busy")
        BY <1>2, <2>2 DEF Effect
      <3>2. productActions(f, c)
        BY <2>2, AcceptedBy
      <3>3. c.choice \in Rows
        BY <1>2, <2>2, <3>2, LiveIsThere
           DEF productActions, createProduct, CategoryIds, Known, Live
      <3>4. "busy" \in Details[f.kind]
        BY <2>2 DEF Details
      <3>5. QED
        BY <3>1, <3>3, <3>4, PutTyped
    <2>3. CASE c.kind # f.kind /\ ~(c.kind = "product" /\ f.kind = "category")
      <3>1. Effect(f, c) = f
        BY <1>2, <2>3 DEF Effect
      <3>2. QED
        BY <3>1, BeforeItself
    <2>4. QED
      BY <2>1, <2>2, <2>3
  <1>3. CASE c.op = "remove"
    <2>1. Effect(f, c) = Drop(f, c.row)
      BY <1>3 DEF Effect
    <2>2. QED
      BY <1>3, <2>1, Touches, DropTyped
  <1>4. CASE c.op = "reassign"
    <2>1. c.row \in Rows /\ f.kind = "lead" /\ c.choice \in OWNERS
      BY <1>4, Touches DEF Carries
    <2>2. Effect(f, c) = assignLead(f, c.row, c.choice)
      BY <1>4 DEF Effect
    <2>3. Effect(f, c) = Put(f, c.row, [f.row[c.row] EXCEPT !.owner = c.choice])
      BY <2>1, <2>2 DEF assignLead, Put, AreFacts, FactsOf
    <2>4. [f.row[c.row] EXCEPT !.owner = c.choice] \in LeadDetails
      BY <2>1, FactsTyped DEF LeadDetails
    <2>5. Details["lead"] = LeadDetails
      BY DEF Details
    <2>6. QED
      BY <2>1, <2>3, <2>4, <2>5, PutTyped
  <1>5. CASE c.op \in {"changeRole", "suspend", "reactivate"}
    <2>1. /\ c.row \in Rows /\ f.kind = "member"
          /\ f.row[c.row] \in [role : {"owner", "other"}, status : {"ACTIVE", "SUSPENDED"}]
      BY <1>5, Touches, FactsTyped
    <2>2. \/ Effect(f, c) = changeMemberRole(f, c.row, c.choice)
          \/ Effect(f, c) = setMemberStatus(f, c.row, "SUSPENDED")
          \/ Effect(f, c) = setMemberStatus(f, c.row, "ACTIVE")
      BY <1>5 DEF Effect
    <2>3. \/ \E role \in {"owner", "other"} :
                Effect(f, c) = Put(f, c.row, [f.row[c.row] EXCEPT !.role = role])
          \/ \E status \in {"ACTIVE", "SUSPENDED"} :
                Effect(f, c) = Put(f, c.row, [f.row[c.row] EXCEPT !.status = status])
      BY <2>1, <2>2 DEF changeMemberRole, setMemberStatus, Put, AreFacts, FactsOf
    <2>4. Details["member"] = [role : {"owner", "other"}, status : {"ACTIVE", "SUSPENDED"}]
      BY DEF Details
    <2>5. \A role \in {"owner", "other"} :
             [f.row[c.row] EXCEPT !.role = role] \in Details[f.kind]
      BY <2>1, <2>4
    <2>6. \A status \in {"ACTIVE", "SUSPENDED"} :
             [f.row[c.row] EXCEPT !.status = status] \in Details[f.kind]
      BY <2>1, <2>4
    <2>7. QED
      BY <2>1, <2>3, <2>5, <2>6, PutTyped
  <1>6. CASE c.op \in {"revoke", "markRead"}
    <2>1. c.row \in Rows
      BY <1>6, Touches
    <2>2. Details["key"] = {"active", "revoked"} /\ Details["notification"] = {"unread", "read"}
      BY DEF Details
    <2>3. \/ f.kind = "key" /\ Effect(f, c) = Put(f, c.row, "revoked")
          \/ f.kind = "notification" /\ Effect(f, c) = Put(f, c.row, "read")
      BY <1>6, Touches DEF Effect, markNotificationRead
    <2>4. QED
      BY <2>1, <2>2, <2>3, PutTyped
  <1>7. CASE c.op \in {"leave", "markAll", "requireMfa"}
    <2>1. \/ Effect(f, c) = [f EXCEPT !.role = "removed"]
          \/ Effect(f, c) = markAllNotificationsRead(f)
          \/ \E on \in BOOLEAN : Effect(f, c) = [f EXCEPT !.requireMfa = on]
      <3>1. \/ Effect(f, c) = [f EXCEPT !.role = "removed"]
            \/ Effect(f, c) = markAllNotificationsRead(f)
            \/ Effect(f, c) = setRequireMfa(f, c.choice = "on")
        BY <1>7 DEF Effect
      <3>2. (c.choice = "on") \in BOOLEAN
        OBVIOUS
      <3>3. QED
        BY <3>1, <3>2 DEF setRequireMfa
    <2>2. QED
      BY <2>1, RoleTyped, ReadTyped, PolicyTyped
  <1>8. CASE c.op \notin {"move", "new", "remove", "reassign", "changeRole", "suspend",
                          "reactivate", "revoke", "markRead", "leave", "markAll", "requireMfa"}
    <2>1. Effect(f, c) = f
      BY <1>8 DEF Effect
    <2>2. QED
      BY <2>1, BeforeItself
  <1>9. QED
    BY <1>1, <1>2, <1>3, <1>4, <1>5, <1>6, <1>7, <1>8

LEMMA TypedTyped ==
    ASSUME NEW f, AreFacts(f), NEW r \in Rows, NEW g \in Typed(f, r)
    PROVE  AreFacts(g) /\ Before(f, g)
  <1>1. CASE f.kind = "lead"
    <2>1. Details["lead"] = LeadDetails
      BY DEF Details
    <2>2. ASSUME NEW b \in BOOLEAN, NEW v \in BOOLEAN
          PROVE  [f.row[r] EXCEPT !.contact = b, !.valued = v] \in Details[f.kind]
      <3>1. f.row[r] \in LeadDetails
        BY <1>1, FactsTyped
      <3>2. QED
        BY <1>1, <2>1, <3>1 DEF LeadDetails
    <2>3. \E b \in BOOLEAN : \E v \in BOOLEAN : g = updateLead(f, r, b, v)
      BY <1>1 DEF Typed
    <2>4. QED
      BY <2>2, <2>3, PutTyped DEF updateLead
  <1>2. CASE f.kind = "product"
    <2>1. Details["product"] = ProductDetails
      BY DEF Details, ProductDetails
    <2>2. ASSUME NEW b \in BOOLEAN
          PROVE  [f.row[r] EXCEPT !.sellable = b] \in Details[f.kind]
      <3>1. f.row[r] \in ProductDetails
        BY <1>2, FactsTyped
      <3>2. QED
        BY <1>2, <2>1, <3>1 DEF ProductDetails
    <2>3. \E b \in BOOLEAN : g = updateProduct(f, r, b)
      BY <1>2 DEF Typed
    <2>4. QED
      BY <2>2, <2>3, PutTyped DEF updateProduct
  <1>3. CASE f.kind = "group"
    <2>1. PICK input \in Inputs : g = Put(f, r, input)
      BY <1>3 DEF Typed, updateGroup
    <2>2. input \in Details[f.kind]
      BY <1>3 DEF Details
    <2>3. QED
      BY <2>1, <2>2, PutTyped
  <1>4. CASE f.kind \notin {"lead", "product", "group"}
    <2>1. Typed(f, r) = {f}
      BY <1>4 DEF Typed
    <2>2. QED
      BY <2>1, BeforeItself
  <1>5. QED
    BY <1>1, <1>2, <1>3, <1>4

LEMMA ChangedTyped ==
    ASSUME NEW f, AreFacts(f), NEW g \in Changed(f)
    PROVE  AreFacts(g) /\ Before(f, g)
  <1>1. CASE g \in {Add(f, r) : r \in Unused(f)}
    BY <1>1, AddTyped
  <1>2. CASE \E r \in Live(f, f.kind) : g = Drop(f, r)
    BY <1>2, LiveIsThere, DropTyped
  <1>3. CASE \E r \in Live(f, f.kind) : \E d \in OneStep(f.kind, f.row[r]) : g = Put(f, r, d)
    <2>1. PICK r \in Live(f, f.kind) : \E d \in OneStep(f.kind, f.row[r]) : g = Put(f, r, d)
      BY <1>3
    <2>2. PICK d \in OneStep(f.kind, f.row[r]) : g = Put(f, r, d)
      BY <2>1
    <2>3. d \in Details[f.kind]
      BY <2>2 DEF OneStep
    <2>4. QED
      BY <2>2, <2>3, LiveIsThere, PutTyped
  <1>4. CASE \E role \in LaterRoles : g = [f EXCEPT !.role = role]
    BY <1>4, RoleTyped, ScreensAssumption
  <1>5. CASE g = [f EXCEPT !.requireMfa = ~@]
    <2>1. f.requireMfa \in BOOLEAN /\ g = [f EXCEPT !.requireMfa = ~f.requireMfa]
      BY <1>5 DEF AreFacts, FactsOf
    <2>2. QED
      BY <2>1, PolicyTyped
  <1>6. CASE \E input \in Inputs : g = [f EXCEPT !.input = input]
    BY <1>6, InputTyped
  <1>7. QED
    BY <1>1, <1>2, <1>3, <1>4, <1>5, <1>6 DEF Changed

\* The controls of a page are requests about the records it shows.
LEMMA ControlsCarry ==
    ASSUME NEW f, NEW path, NEW c \in Page(f, path).controls
    PROVE  Carries(f, c)
  <1>1. \A kind, parent : /\ New(kind).kind = kind /\ New(kind).op = "new"
                          /\ New(kind).choice = NoChoice
                          /\ NewIn(kind, parent).kind = kind /\ NewIn(kind, parent).op = "new"
                          /\ NewIn(kind, parent).choice = parent
    BY DEF New, NewIn, Request
  <1>2. CASE \E kind \in Kinds : c = New(kind)
    BY <1>1, <1>2 DEF Carries, Parents
  <1>3. CASE \E kind \in {"group", "option", "configuration", "product"} :
                \E parent \in Parents : c = NewIn(kind, parent)
    BY <1>1, <1>3 DEF Carries, Kinds
  <1>4. CASE \E kind \in Kinds : \E r \in Live(f, kind) : c = Request(kind, "edit", r, NoChoice)
    BY <1>4, RequestFields DEF Carries
  <1>5. CASE \E kind \in Kinds, op \in {"remove", "addActivity", "suspend", "reactivate", "resend",
                                        "revoke", "markRead", "markAll", "leave", "rename",
                                        "changeRole", "requireMfa"} :
                \E row, choice : c = Request(kind, op, row, choice)
    BY <1>5, RequestFields DEF Carries
  <1>6. CASE \E row : \/ \E a \in LeadActions : c = Request("lead", "move", row, a)
                      \/ \E a \in ProductActions : c = Request("product", "move", row, a)
                      \/ \E o \in OWNERS : c = Request("lead", "reassign", row, o)
    BY <1>6, RequestFields DEF Carries, Kinds
  <1>7. CASE \E k : c = Request("invitation", "new", NoRow, k)
    BY <1>7, RequestFields DEF Carries, Kinds
  <1>8. /\ {"lead", "account", "contact", "product", "group", "option", "category"} \subseteq Kinds
        /\ {"configuration", "member", "invitation", "role", "key", "settings", "notification"}
              \subseteq Kinds
    BY DEF Kinds
  <1>9. CASE c \in ConfigurationControls(f)
    <2>1. \E r \in Live(f, "configuration") : c = Request("configuration", "remove", r, NoChoice)
      BY <1>9 DEF ConfigurationControls, On
    <2>2. QED
      BY <1>5, <1>8, <2>1
  <1>10. CASE PageOf(f, path) = "newLead" /\ c = New("lead")
    BY <1>2, <1>8, <1>10
  <1>11. CASE PageOf(f, path) = "lead" /\ c \in LeadPage(f, path[3]).controls
    <2>1. f.kind = "lead" => path[3] \in Live(f, "lead")
      BY <1>11, RecordPage DEF LeadIds
    <2>2. CASE f.kind = "lead" /\ c = Request("lead", "edit", path[3], NoChoice)
      BY <1>4, <1>8, <2>1, <2>2
    <2>3. CASE c = Request("lead", "addActivity", path[3], NoChoice)
      BY <1>5, <1>8, <2>3
    <2>4. CASE \/ \E a \in LeadActions : c = Request("lead", "move", path[3], a)
               \/ \E o \in OWNERS : c = Request("lead", "reassign", path[3], o)
      BY <1>6, <2>4
    <2>5. QED
      BY <1>9, <1>11, <2>2, <2>3, <2>4, LeadControls
  <1>12. CASE c \in ContactsPage(f).controls \/ c \in AccountsPage(f).controls
    <2>1. \E kind \in {"contact", "account"} :
             \/ c = New(kind)
             \/ \E r \in Live(f, kind) : \/ c = Request(kind, "edit", r, NoChoice)
                                         \/ c = Request(kind, "remove", r, NoChoice)
      BY <1>12 DEF ContactsPage, ContactsManager, AccountsPage, AccountsManager, Only, On
    <2>2. QED
      BY <1>2, <1>4, <1>5, <1>8, <2>1
  <1>13. CASE PageOf(f, path) = "newProduct" /\ \E k \in CategoryIds(f) : c = NewIn("product", k)
    <2>1. CategoryIds(f) \subseteq Parents
      BY DEF CategoryIds, Live, Parents
    <2>2. QED
      BY <1>3, <1>13, <2>1
  <1>14. CASE PageOf(f, path) = "product" /\ c \in ProductPage(f, path[3]).controls
    <2>1. /\ path[3] \in Parents
          /\ f.kind = "product" => path[3] \in Live(f, "product")
      BY <1>14, RecordPage, IdsAreRows DEF ProductIds, Parents
    <2>2. ChoiceGroups(f) \subseteq Parents /\ OptionsShown(f) \subseteq Live(f, "option")
      BY DEF ChoiceGroups, OptionsShown, GroupIds, Live, Parents
    <2>3. CASE c = NewIn("group", path[3]) \/ \E g \in ChoiceGroups(f) : c = NewIn("option", g)
      BY <1>3, <2>1, <2>2, <2>3
    <2>4. CASE \/ \E g \in Live(f, "group") : \/ c = Request("group", "edit", g, NoChoice)
                                              \/ c = Request("group", "remove", g, NoChoice)
               \/ \E o \in OptionsShown(f) : \/ c = Request("option", "edit", o, NoChoice)
                                             \/ c = Request("option", "remove", o, NoChoice)
      BY <1>4, <1>5, <1>8, <2>2, <2>4
    <2>5. CASE /\ f.kind = "product"
               /\ \/ c = Request("product", "edit", path[3], NoChoice)
                  \/ c = Request("product", "remove", path[3], NoChoice)
                  \/ \E a \in ProductActions : c = Request("product", "move", path[3], a)
      BY <1>4, <1>5, <1>6, <1>8, <2>1, <2>5
    <2>6. QED
      BY <1>9, <1>14, <2>3, <2>4, <2>5, ProductControls
  <1>15. CASE PageOf(f, path) = "configure" /\ c \in ConfigurePage(f, path[3]).controls
    <2>1. path[3] \in Parents
      BY <1>15, RecordPage, IdsAreRows DEF Parents
    <2>2. c = NewIn("configuration", path[3])
      BY <1>15 DEF ConfigurePage, Only
    <2>3. QED
      BY <1>3, <2>1, <2>2
  <1>16. CASE c \in CategoriesPage(f).controls
    <2>1. \/ c = New("category")
          \/ \E r \in Live(f, "category") : \/ c = Request("category", "edit", r, NoChoice)
                                            \/ c = Request("category", "remove", r, NoChoice)
      BY <1>16 DEF CategoriesPage, CategoriesManager, Only, On
    <2>2. QED
      BY <1>2, <1>4, <1>5, <1>8, <2>1
  <1>17. CASE c \in MembersPage(f).controls
    BY <1>5, <1>7, <1>8, <1>17, MembersControls
  <1>18. CASE c \in RolesPage(f).controls
    <2>1. \/ c = New("role")
          \/ \E r \in Live(f, "role") : \/ c = Request("role", "edit", r, NoChoice)
                                        \/ c = Request("role", "remove", r, NoChoice)
      BY <1>18 DEF RolesPage, RolesManager, DeleteRole, Only, On
    <2>2. QED
      BY <1>2, <1>4, <1>5, <1>8, <2>1
  <1>19. CASE c \in WorkspaceSettings(f).controls
    <2>1. \/ c = Request("settings", "rename", NoRow, NoChoice)
          \/ \E next \in {"on", "off"} : c = Request("settings", "requireMfa", NoRow, next)
      BY <1>19 DEF WorkspaceSettings, OrganizationSettingsForm, SecuritySettings, Only
    <2>2. QED
      BY <1>5, <1>8, <2>1
  <1>20. CASE c \in ApiKeysPage(f).controls
    <2>1. c = New("key") \/ \E r \in Live(f, "key") : c = Request("key", "revoke", r, NoChoice)
      BY <1>20 DEF ApiKeysPage, ApiKeysManager, CreateKeyForm, On
    <2>2. QED
      BY <1>2, <1>5, <1>8, <2>1
  <1>21. CASE c \in NotificationsPage(f).controls
    <2>1. \/ \E r \in Live(f, "notification") : c = Request("notification", "markRead", r, NoChoice)
          \/ c = Request("notification", "markAll", NoRow, NoChoice)
      BY <1>21 DEF NotificationsPage, NotificationsInbox, On, Only
    <2>2. QED
      BY <1>5, <1>8, <2>1
  <1>22. QED
    BY <1>10, <1>11, <1>12, <1>13, <1>14, <1>15, <1>16, <1>17, <1>18, <1>19, <1>20, <1>21,
       PageControls

-----------------------------------------------------------------------------
(* The screen through all steps.  The page shows facts that once were, and  *)
(* a form of a list is about a record the list has shown: with the types    *)
(* this is inductive.                                                       *)

PageOK(v) ==
    /\ AreFacts(v.facts)
    /\ v.state \in {"page", "missing", "away"}
    /\ v.state = "page" => Opens(v.facts, v.path)
    /\ v = [path |-> v.path, facts |-> v.facts, state |-> v.state]

FormOK ==
    form # NoForm =>
        /\ form \in Forms
        /\ {form.from, form.aim} \subseteq form.pressed
        /\ form.kind \in Managers /\ form.aim # "new" =>
              /\ view.facts.kind = form.kind
              /\ view.facts.there[form.aim] \in {"live", "gone"}

IInv ==
    /\ AreFacts(facts)
    /\ PageOK(view)
    /\ Before(view.facts, facts)
    /\ FormOK
    /\ prompt \in NEEDS_REASON \cup {""}
    /\ saved \in Saves /\ ValuesStayHome
    /\ changes \in 0 .. MaxChanges[facts.kind]

LEMMA RenderedOK ==
    ASSUME NEW path, NEW f, AreFacts(f)
    PROVE  PageOK(Rendered(path, f)) /\ Rendered(path, f).facts = f
  BY DEF PageOK, Rendered

LEMMA AwayOK ==
    ASSUME NEW v, PageOK(v)
    PROVE  PageOK([v EXCEPT !.state = "away"]) /\ [v EXCEPT !.state = "away"].facts = v.facts
  <1>1. [v EXCEPT !.state = "away"] = [path |-> v.path, facts |-> v.facts, state |-> "away"]
    BY DEF PageOK
  <1>2. QED
    BY <1>1 DEF PageOK

LEMMA ViewMoves ==
    ASSUME PageOK(view), Before(view.facts, facts), AreFacts(facts'), Before(facts, facts'),
           view' = view \/ view' = [view EXCEPT !.state = "away"]
              \/ \E path : view' = Rendered(path, facts')
    PROVE  /\ PageOK(view')
           /\ Before(view'.facts, facts')
           /\ Before(view.facts, view'.facts)
  <1>1. Before(view.facts, facts')
    BY BeforeFollows
  <1>2. CASE view' = view
    BY <1>1, <1>2, BeforeItself
  <1>3. CASE view' = [view EXCEPT !.state = "away"]
    BY <1>1, <1>3, AwayOK, BeforeItself
  <1>4. CASE \E path : view' = Rendered(path, facts')
    BY <1>1, <1>4, RenderedOK, BeforeItself
  <1>5. QED
    BY <1>2, <1>3, <1>4

LEMMA FormKept ==
    ASSUME FormOK, Before(view.facts, view'.facts), form' = form \/ form' = NoForm
    PROVE  FormOK'
  <1>1. CASE form' = NoForm
    BY <1>1 DEF FormOK
  <1>2. CASE form' = form /\ form # NoForm
    <2>1. form.aim # "new" => form.aim \in Rows
      BY <1>2 DEF FormOK, Forms
    <2>2. QED
      BY <1>2, <2>1 DEF FormOK, Before
  <1>3. QED
    BY <1>1, <1>2

LEMMA NothingSaved ==
    ASSUME saved' = NoSave
    PROVE  saved' \in Saves /\ ValuesStayHome'
  BY DEF NoSave, Saves, ValuesStayHome, Kinds

LEMMA CountedOK ==
    ASSUME changes \in 0 .. MaxChanges[facts.kind], AreFacts(facts), Before(facts, facts'), Counted
    PROVE  changes' \in 0 .. MaxChanges[facts'.kind]
  <1>1. facts'.kind = facts.kind /\ MaxChanges[facts.kind] \in Nat
    BY ScreensAssumption DEF Before, AreFacts
  <1>2. QED
    BY <1>1 DEF Counted

LEMMA ScreenControls ==
    ASSUME NEW c \in Controls
    PROVE  view.state = "page" /\ c \in Page(view.facts, view.path).controls
           /\ Carries(view.facts, c)
  <1>1. view.state = "page" /\ c \in Page(view.facts, view.path).controls
    BY DEF Controls, Screen
  <1>2. QED
    BY <1>1, ControlsCarry

LEMMA InitOK == Init => IInv
  <1> SUFFICES ASSUME Init PROVE IInv
    OBVIOUS
  <1>1. AreFacts(facts)
    BY ScreensAssumption DEF Init
  <1>2. PageOK(view) /\ view.facts = facts
    BY <1>1, RenderedOK DEF Init
  <1>3. saved \in Saves /\ ValuesStayHome
    BY DEF Init, NoSave, Saves, ValuesStayHome, Kinds
  <1>4. changes \in 0 .. MaxChanges[facts.kind]
    <2>1. MaxChanges[facts.kind] \in Nat
      BY <1>1, ScreensAssumption DEF AreFacts
    <2>2. changes = 0
      BY DEF Init
    <2>3. QED
      BY <2>1, <2>2
  <1>5. Before(view.facts, facts) /\ FormOK /\ prompt = ""
    BY <1>2, BeforeItself DEF FormOK, Init
  <1>6. QED
    BY <1>1, <1>2, <1>3, <1>4, <1>5 DEF IInv

LEMMA RefreshMoves ==
    ASSUME Refresh
    PROVE  view' = [view EXCEPT !.state = "away"] \/ \E path : view' = Rendered(path, facts')
  BY DEF Refresh

\* A step that loads nothing into a form and saves nothing.
LEMMA QuietStep ==
    ASSUME IInv, AreFacts(facts'), Before(facts, facts'),
           view' = view \/ view' = [view EXCEPT !.state = "away"]
              \/ \E path : view' = Rendered(path, facts'),
           form' = form \/ form' = NoForm, prompt' \in NEEDS_REASON \cup {""}, saved' = NoSave,
           Counted \/ (changes' = changes /\ facts' = facts)
    PROVE  IInv'
  <1>1. /\ PageOK(view')
        /\ Before(view'.facts, facts')
        /\ Before(view.facts, view'.facts)
    BY ViewMoves DEF IInv
  <1>2. FormOK'
    BY <1>1, FormKept DEF IInv
  <1>3. changes' \in 0 .. MaxChanges[facts'.kind]
    BY CountedOK DEF IInv
  <1>4. QED
    BY <1>1, <1>2, <1>3, NothingSaved DEF IInv

LEMMA OpenStep ==
    ASSUME IInv, NEW path, Open(path)
    PROVE  IInv'
  <1>1. AreFacts(facts') /\ Before(facts, facts')
    BY BeforeItself DEF IInv, Open
  <1>2. QED
    BY <1>1, QuietStep DEF Open

LEMMA ReloadStep ==
    ASSUME IInv, Reload
    PROVE  IInv'
  <1>1. AreFacts(facts') /\ Before(facts, facts')
    BY BeforeItself DEF IInv, Reload
  <1>2. view' = [view EXCEPT !.state = "away"] \/ view' = Rendered(view.path, facts')
    BY DEF Reload
  <1>3. QED
    BY <1>1, <1>2, QuietStep DEF Reload

LEMMA ClickStep ==
    ASSUME IInv, NEW c, Click(c)
    PROVE  IInv'
  <1>1. c \in Controls /\ SentAtOnce(c) /\ Accepts(facts, c) /\ IdLeft(facts, c)
        /\ facts' = Effect(facts, c)
    BY DEF Click
  <1>2. Carries(facts, c)
    BY <1>1, ScreenControls DEF Carries, SentAtOnce
  <1>3. AreFacts(facts') /\ Before(facts, facts')
    BY <1>1, <1>2, EffectTyped DEF IInv
  <1>4. view' = [view EXCEPT !.state = "away"] \/ \E path : view' = Rendered(path, facts')
    BY RefreshMoves DEF Click
  <1>5. prompt' \in NEEDS_REASON \cup {""}
    BY DEF Click, IInv
  <1>6. QED
    BY <1>3, <1>4, <1>5, QuietStep DEF Click

LEMMA ConfirmStep ==
    ASSUME IInv, ConfirmReason
    PROVE  IInv'
  <1> DEFINE c == Request("lead", "move", view.path[3], prompt)
  <1>1. /\ c.kind = "lead" /\ c.op = "move" /\ c.choice = prompt
    BY RequestFields
  <1>2. prompt \in LeadActions
    BY MovesTyped DEF IInv, ConfirmReason
  <1>3. Carries(facts, c) /\ IdLeft(facts, c)
    BY <1>1, <1>2 DEF Carries, Kinds, IdLeft
  <1> HIDE DEF c
  <1>4. CASE Accepts(facts, c) /\ facts' = Effect(facts, c) /\ Refresh
    <2>1. AreFacts(facts') /\ Before(facts, facts')
      BY <1>3, <1>4, EffectTyped DEF IInv
    <2>2. view' = [view EXCEPT !.state = "away"] \/ \E path : view' = Rendered(path, facts')
      BY <1>4, RefreshMoves
    <2>3. QED
      BY <2>1, <2>2, QuietStep DEF ConfirmReason
  <1>5. CASE UNCHANGED <<facts, shell, view>>
    <2>1. AreFacts(facts') /\ Before(facts, facts')
      BY <1>5, BeforeItself DEF IInv
    <2>2. QED
      BY <1>5, <2>1, QuietStep DEF ConfirmReason
  <1>6. QED
    BY <1>4, <1>5 DEF ConfirmReason, c

LEMMA OthersStep ==
    ASSUME IInv, OthersChange
    PROVE  IInv'
  <1>1. AreFacts(facts') /\ Before(facts, facts')
    BY ChangedTyped DEF IInv, OthersChange
  <1>2. QED
    BY <1>1, QuietStep DEF OthersChange, IInv

LEMMA AskStep ==
    ASSUME IInv, NEW c, AskReason(c)
    PROVE  IInv'
  <1>1. AreFacts(facts') /\ Before(facts, facts')
    BY BeforeItself DEF IInv, AskReason
  <1>2. QED
    BY <1>1, QuietStep DEF AskReason

LEMMA CancelStep ==
    ASSUME IInv, Cancel
    PROVE  IInv'
  <1>1. AreFacts(facts') /\ Before(facts, facts')
    BY BeforeItself DEF IInv, Cancel
  <1>2. QED
    BY <1>1, QuietStep DEF Cancel, IInv

\* A step that only turns to another form, or to none.
LEMMA FormStep ==
    ASSUME IInv, FormOK', saved' = NoSave, UNCHANGED <<facts, shell, view, prompt, changes>>
    PROVE  IInv'
  <1>1. saved' \in Saves /\ ValuesStayHome'
    BY NothingSaved
  <1>2. QED
    BY <1>1 DEF IInv

LEMMA OpenedOK ==
    ASSUME IInv, NEW c, Carries(view.facts, c), form # NoForm => form.kind = c.kind,
           NEW at, at = "new" \/ at \in Live(view.facts, c.kind),
           c.choice \in Parents,
           form' = Opened(c, at), view' = view
    PROVE  FormOK'
  <1>1. at \in Rows \cup {"new"}
    BY DEF Live
  <1>2. /\ form'.kind = c.kind /\ form'.aim = at
        /\ form' \in Forms /\ {form'.from, form'.aim} \subseteq form'.pressed
    <2>1. CASE form = NoForm
      <3>1. form' = [kind |-> c.kind, parent |-> c.choice, from |-> at, aim |-> at,
                     pressed |-> {at}]
        BY <2>1 DEF Opened
      <3>2. QED
        BY <1>1, <3>1 DEF Forms, Carries, Parents
    <2>2. CASE form # NoForm
      <3>1. form' = [form EXCEPT !.aim = at, !.pressed = @ \cup {at}]
        BY <2>2 DEF Opened
      <3>2. /\ form \in Forms /\ form.kind = c.kind
            /\ {form.from, form.aim} \subseteq form.pressed
        BY <2>2 DEF IInv, FormOK
      <3>3. form' = [kind |-> form.kind, parent |-> form.parent, from |-> form.from, aim |-> at,
                     pressed |-> form.pressed \cup {at}]
        BY <3>1, <3>2 DEF Forms
      <3>4. /\ form.parent \in Parents
            /\ form.kind \in Kinds /\ form.from \in Rows \cup {"new"}
            /\ form.pressed \in SUBSET (Rows \cup {"new"})
        BY <3>2 DEF Forms, Parents
      <3>5. QED
        BY <1>1, <3>2, <3>3, <3>4 DEF Forms, Parents
    <2>3. QED
      BY <2>1, <2>2
  <1>3. at # "new" => view'.facts.kind = form'.kind /\ view'.facts.there[at] = "live"
    BY <1>2 DEF Live
  <1>4. QED
    BY <1>2, <1>3 DEF FormOK

LEMMA PressEditStep ==
    ASSUME IInv, NEW c, PressEdit(c)
    PROVE  IInv'
  <1>1. Carries(view.facts, c) /\ c.op = "edit"
    BY ScreenControls DEF PressEdit
  <1>2. c.row \in Live(view.facts, c.kind) /\ c.choice = NoChoice
    BY <1>1 DEF Carries
  <1>3. FormOK'
    <2>1. CASE form' = NoForm
      BY <2>1 DEF FormOK
    <2>2. CASE form' = Opened(c, c.row)
      BY <1>1, <1>2, <2>2, OpenedOK DEF PressEdit, Parents
    <2>3. QED
      BY <2>1, <2>2 DEF PressEdit
  <1>4. QED
    BY <1>3, FormStep DEF PressEdit

LEMMA PressNewStep ==
    ASSUME IInv, NEW c, PressNew(c)
    PROVE  IInv'
  <1>1. Carries(view.facts, c) /\ c.op = "new" /\ c.kind # "invitation"
    BY ScreenControls DEF PressNew, SentAtOnce
  <1>2. c.choice \in Parents
    BY <1>1 DEF Carries
  <1>3. FormOK'
    <2>1. CASE form' = NoForm
      BY <2>1 DEF FormOK
    <2>2. CASE form' = Opened(c, "new")
      BY <1>1, <1>2, <2>2, OpenedOK DEF PressNew
    <2>3. QED
      BY <2>1, <2>2 DEF PressNew
  <1>4. QED
    BY <1>3, FormStep DEF PressNew

\* Where a form saves: the record it was loaded from, or what the list still shows of it.
LEMMA TargetOK ==
    ASSUME FormOK, form # NoForm
    PROVE  /\ Target \in Rows \cup {"new"}
           /\ Target # form.from =>
                 /\ form.kind \in Managers \cup {"role"}
                 /\ Target = form.aim \/ (form.kind \in Managers /\ Target = "new")
           /\ form.kind \in Managers /\ Target # form.aim =>
                 form.aim \in Rows /\ view.facts.there[form.aim] = "gone"
  <1>1. /\ form \in Forms
        /\ form.kind \in Managers /\ form.aim # "new" =>
              /\ view.facts.kind = form.kind
              /\ view.facts.there[form.aim] \in {"live", "gone"}
    BY DEF FormOK
  <1>2. form.aim \in Rows \cup {"new"} /\ form.from \in Rows \cup {"new"}
    BY <1>1 DEF Forms
  <1>3. ASSUME form.kind \in Managers
        PROVE  Target = IF form.aim \in Live(view.facts, form.kind) THEN form.aim ELSE "new"
    BY <1>3 DEF Managers, Target, ContactForm, AccountForm, CategoryForm, Listed
  <1>4. ASSUME form.kind \in Managers, Target # form.aim
        PROVE  form.aim \in Rows /\ view.facts.there[form.aim] = "gone"
    BY <1>1, <1>2, <1>3, <1>4 DEF Live
  <1>5. form.kind = "role" => Target = form.aim
    BY DEF Target, RoleForm
  <1>6. form.kind \notin Managers \cup {"role"} => Target = form.from
    BY DEF Managers, Target, GroupForm, OptionForm, DetailsForm
  <1>7. QED
    BY <1>2, <1>3, <1>4, <1>5, <1>6

LEMMA SaveStep ==
    ASSUME IInv, Save
    PROVE  IInv'
  <1>1. form # NoForm /\ form \in Forms /\ {form.from, form.aim} \subseteq form.pressed
    BY DEF IInv, FormOK, Save
  <1>2. /\ Target \in Rows \cup {"new"}
        /\ Target # form.from =>
              /\ form.kind \in Managers \cup {"role"}
              /\ Target = form.aim \/ (form.kind \in Managers /\ Target = "new")
        /\ form.kind \in Managers /\ Target # form.aim =>
              form.aim \in Rows /\ view.facts.there[form.aim] = "gone"
    BY <1>1, TargetOK DEF IInv
  <1>3. AreFacts(facts') /\ Before(facts, facts')
    <2>1. CASE Target = "new"
      <3>1. SaveRequest = NewIn(form.kind, form.parent)
        BY <2>1 DEF SaveRequest
      <3>2. Carries(facts, SaveRequest) /\ IdLeft(facts, SaveRequest)
        BY <1>1, <3>1, RequestFields DEF NewIn, Carries, Forms, Parents, Save
      <3>3. /\ AreFacts(Effect(facts, SaveRequest))
            /\ Before(facts, Effect(facts, SaveRequest))
        BY <3>2, EffectTyped DEF Save, IInv
      <3>4. CASE form.kind = facts.kind
        <4>1. Unused(facts) # {}
          BY <3>1, <3>2, <3>4, RequestFields DEF NewIn, IdLeft
        <4>2. NewId(facts, form.kind) \in Rows
          BY <3>4, <4>1, NewIdUnused DEF Unused
        <4>3. facts' \in Typed(Effect(facts, SaveRequest), NewId(facts, form.kind))
          BY <2>1, <3>4 DEF Save, Stored
        <4>4. QED
          BY <3>3, <4>2, <4>3, TypedTyped, BeforeFollows
      <3>5. CASE form.kind # facts.kind
        BY <2>1, <3>3, <3>5 DEF Save, Stored
      <3>6. QED
        BY <3>4, <3>5
    <2>2. CASE Target # "new"
      BY <1>2, <2>2, TypedTyped DEF Save, Stored, IInv
    <2>3. QED
      BY <2>1, <2>2
  <1>4. view' = [view EXCEPT !.state = "away"] \/ \E path : view' = Rendered(path, facts')
    BY RefreshMoves DEF Save, AfterSave
  <1>5. /\ PageOK(view')
        /\ Before(view'.facts, facts')
        /\ Before(view.facts, view'.facts)
    BY <1>3, <1>4, ViewMoves DEF IInv
  <1>6. saved' = [kind |-> form.kind, to |-> Target, from |-> form.from, aim |-> form.aim,
                  pressed |-> form.pressed]
    BY DEF Save
  <1>7. saved' \in Saves
    BY <1>1, <1>2, <1>6 DEF Forms, Saves
  <1>8. ValuesStayHome'
    <2>1. ASSUME saved'.to # saved'.from
          PROVE  /\ saved'.kind \in Managers \cup {"role"}
                 /\ \/ {saved'.to, saved'.from} \subseteq saved'.pressed
                    \/ saved'.to = "new" /\ saved'.aim # "new"
                       /\ facts'.there[saved'.aim] = "gone"
      <3>1. Target # form.from
        BY <1>6, <2>1
      <3>2. CASE Target = form.aim
        BY <1>1, <1>2, <1>6, <3>1, <3>2
      <3>3. CASE Target # form.aim
        <4>1. Target = "new" /\ form.aim # "new" /\ form.aim \in Rows
              /\ view.facts.there[form.aim] = "gone"
          BY <1>2, <3>1, <3>3
        <4>2. facts'.there[form.aim] = "gone"
          BY <1>3, <4>1 DEF Before, IInv
        <4>3. QED
          BY <1>2, <1>6, <3>1, <4>1, <4>2
      <3>4. QED
        BY <3>2, <3>3
    <2>2. QED
      BY <2>1 DEF ValuesStayHome
  <1>9. changes' \in 0 .. MaxChanges[facts'.kind]
    BY <1>3, CountedOK DEF IInv, Save
  <1>10. FormOK' /\ prompt' \in NEEDS_REASON \cup {""}
    BY DEF FormOK, Save, IInv
  <1>11. QED
    BY <1>3, <1>5, <1>7, <1>8, <1>9, <1>10 DEF IInv

LEMMA StutterStep ==
    ASSUME IInv, UNCHANGED vars
    PROVE  IInv'
  BY DEF IInv, vars, FormOK, ValuesStayHome, PageOK

LEMMA NextStep ==
    ASSUME IInv, [Next]_vars
    PROVE  IInv'
  <1>1. CASE \E path \in Links : Open(path)
    BY <1>1, OpenStep
  <1>2. CASE Reload
    BY <1>2, ReloadStep
  <1>3. CASE \E c \in Controls : Click(c) \/ AskReason(c) \/ PressEdit(c) \/ PressNew(c)
    BY <1>3, ClickStep, AskStep, PressEditStep, PressNewStep
  <1>4. CASE ConfirmReason \/ Save \/ Cancel
    BY <1>4, ConfirmStep, SaveStep, CancelStep
  <1>5. CASE OthersChange
    BY <1>5, OthersStep
  <1>6. CASE UNCHANGED vars
    BY <1>6, StutterStep
  <1>7. QED
    BY <1>1, <1>2, <1>3, <1>4, <1>5, <1>6 DEF Next

\* Every page shows what was so once, and a list's form is about a record the
\* list has shown, or a new one.
THEOREM Inductive == Spec => []IInv
  BY InitOK, NextStep, PTL DEF Spec

-----------------------------------------------------------------------------
(* What holds of the screens of every workspace: any roles it makes up, any *)
(* records, any changes by others.                                          *)

\* The types of the facts, the page and the forms; a page shown was allowed
\* to the member it was rendered for.
THEOREM TypeCorrect == Spec => []TypeOK
  <1>1. IInv => TypeOK
    BY DEF IInv, TypeOK, PageOK, FormOK
  <1>2. QED
    BY <1>1, Inductive, PTL

\* An up-to-date page was rendered for a member who is admitted.
LEMMA UpToDateAdmitted ==
    ASSUME IInv, UpToDate
    PROVE  /\ AreFacts(facts) /\ Admitted(facts)
           /\ view.facts = facts /\ Opens(facts, view.path)
  BY DEF IInv, PageOK, UpToDate, Opens, Admitted

\* Buttons and guards agree: what an up-to-date page offers, the action behind
\* it accepts, but for what is left to the server (LeftToTheServer).
THEOREM OffersHonoured == Spec => []OffersAreHonoured
  <1>1. IInv => OffersAreHonoured
    <2> SUFFICES ASSUME IInv, UpToDate, NEW c \in Controls
                 PROVE  Accepts(facts, c) \/ LeftToTheServer(facts, c)
      BY DEF OffersAreHonoured
    <2>1. c \in Page(facts, view.path).controls
      BY ScreenControls, UpToDateAdmitted
    <2>2. QED
      BY <2>1, UpToDateAdmitted, OffersHold
  <1>2. QED
    BY <1>1, Inductive, PTL

\* No dead ends: the menus, the palette, the cards and the tables lead a member
\* only to pages whose guards let them in.
THEOREM EveryLinkOpens == Spec => []LinksOpen
  <1>1. IInv => LinksOpen
    BY UpToDateAdmitted, ReachableOpens DEF LinksOpen, AtHome
  <1>2. QED
    BY <1>1, Inductive, PTL

\* Nothing is hidden but what is named: what the actions accept from a member, some
\* page that links lead to offers, if the member's role reads what it writes. Not
\* so what concerns an archived category or a group with nothing to choose from.
THEOREM EverythingIsOffered == Spec => []NothingIsHidden
  <1>1. IInv => NothingIsHidden
    BY UpToDateAdmitted, AcceptedIsOffered DEF NothingIsHidden, AtHome, Offered
  <1>2. QED
    BY <1>1, Inductive, PTL

\* A page left open while others work can do no more than a page opened now, but
\* for what the actions do not look at: it still edits an archived category, puts
\* a product into it, and removes or adds the options of a group that has had
\* another input since.
THEOREM OldScreensAddLittle == Spec => []StaleScreensAddLittle
  <1>1. IInv => StaleScreensAddLittle
    <2> SUFFICES ASSUME IInv, NEW c \in Controls, Accepts(facts, c),
                        facts.role = view.facts.role \/ ReadsWhatItWrites(facts.role)
                 PROVE  \/ Unasked(facts, c)
                        \/ Opens(facts, view.path) /\ c \in Page(facts, view.path).controls
      BY DEF StaleScreensAddLittle
    <2>1. /\ AreFacts(view.facts) /\ AreFacts(facts) /\ facts.kind = view.facts.kind
          /\ Sighted(view.facts, facts)
      BY DEF IInv, PageOK, Before, Sighted
    <2>2. c \in Page(view.facts, view.path).controls /\ Opens(view.facts, view.path)
      BY ScreenControls DEF IInv, PageOK
    <2>3. QED
      BY <2>1, <2>2, OldPagesAddLittle
  <1>2. QED
    BY <1>1, Inductive, PTL

\* The values of one record reach another only in the lists and the roles, and
\* only after a second Edit, or as a new record once the old one has gone.
THEOREM ValuesStay == Spec => []ValuesStayHome
  <1>1. IInv => ValuesStayHome
    BY DEF IInv
  <1>2. QED
    BY <1>1, Inductive, PTL
=============================================================================
