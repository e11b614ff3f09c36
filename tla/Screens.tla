------------------------------ MODULE Screens ------------------------------
(***************************************************************************)
(* One member at the pages of a workspace while others work in it: the     *)
(* facts on the server, what the last layout and the last page were        *)
(* rendered from, and the forms whose state lives in the browser between   *)
(* the renders.  A page is rendered again when it is opened or reloaded    *)
(* and after an action that succeeded; a refused action leaves the old one.*)
(* Opening a link keeps the layout.                                        *)
(***************************************************************************)
EXTENDS Offers

CONSTANTS
    NoForm,         \* no form is open
    InitialFacts,   \* the facts a session may start with
    LaterRoles,     \* what others may make of the member's role; "removed" is out
    MaxChanges      \* how often the facts change, per kind of record

VARIABLES
    facts,      \* what the server would read now
    shell,      \* the role the layout was rendered for
    view,       \* the page: its path, the facts it shows; state "page" or why there is none
    form,       \* the open form: whose values it holds, where it saves, what was pressed
    prompt,     \* the move whose reason is being asked for
    saved,      \* history: what the last step saved
    changes     \* how often the facts have changed

vars == <<facts, shell, view, form, prompt, saved, changes>>

LeadDetails ==
    [status : LeadStatuses, owner : OWNERS, contact : BOOLEAN, valued : BOOLEAN]
Details ==
    [lead |-> LeadDetails,
     product |-> [status : {"DRAFT", "ACTIVE", "DISCONTINUED"}, sellable : BOOLEAN,
                  inUse : BOOLEAN],
     member |-> [role : {"owner", "other"}, status : {"ACTIVE", "SUSPENDED"}],
     account |-> {"idle", "busy"}, category |-> {"idle", "busy"}, role |-> {"idle", "busy"},
     key |-> {"active", "revoked"}, notification |-> {"unread", "read"},
     contact |-> {"plain"}, group |-> Inputs, option |-> {"plain"},
     configuration |-> {"plain"}, invitation |-> {"plain"}, settings |-> {"plain"}]

Fresh(kind) ==
    CASE kind = "lead" -> [status |-> "NEW", owner |-> "me", contact |-> FALSE, valued |-> FALSE]
      [] kind = "product" -> [status |-> "DRAFT", sellable |-> FALSE, inUse |-> FALSE]
      [] kind = "group" -> "SELECT"
      [] kind \in {"account", "category", "role"} -> "idle"
      [] kind = "member" -> [role |-> "other", status |-> "ACTIVE"]
      [] kind = "key" -> "active"
      [] kind = "notification" -> "unread"
      [] OTHER -> "plain"

\* What the server reads: records of one kind, and all there is to say of each.
FactsOf(kind) ==
    [kind : {kind}, role : DOMAIN RolePermissions \cup {"removed"}, aal2 : BOOLEAN,
     requireMfa : BOOLEAN, input : Inputs, there : [Rows -> {"unused", "live", "gone"}],
     row : [Rows -> Details[kind]]]
AreFacts(f) == f.kind \in Kinds /\ f \in FactsOf(f.kind)

\* No id is a word of the paths or stands for a record of another kind.
ASSUME ScreensAssumption ==
    /\ Rows \cap {"new", NoRow, "aLead", "aProduct", "aGroup", "aCategory"} = {}
    /\ \A f \in InitialFacts : AreFacts(f)
    /\ LaterRoles \subseteq DOMAIN RolePermissions \cup {"removed"}
    /\ MaxChanges \in [Kinds -> Nat]

Forms ==
    [kind : Kinds, parent : Rows \cup {NoChoice, "aProduct", "aGroup", "aCategory"},
     from : Rows \cup {"new"}, aim : Rows \cup {"new"}, pressed : SUBSET (Rows \cup {"new"})]
Saves ==
    [kind : Kinds, to : Rows \cup {"new"}, from : Rows \cup {"new"}, aim : Rows \cup {"new"},
     pressed : SUBSET (Rows \cup {"new"})]
NoSave == [kind |-> "settings", to |-> "new", from |-> "new", aim |-> "new", pressed |-> {"new"}]

TypeOK ==
    /\ AreFacts(facts) /\ AreFacts(view.facts)
    /\ view.state \in {"page", "missing", "away"}
    /\ view.state = "page" => Opens(view.facts, view.path)
    /\ form = NoForm \/ form \in Forms
    /\ prompt \in NEEDS_REASON \cup {""}
    /\ saved \in Saves
    /\ changes \in 0 .. MaxChanges[facts.kind]

(***************************************************************************)
(* Rendering.                                                              *)
(***************************************************************************)
Rendered(path, f) ==
    [path |-> path, facts |-> f, state |-> IF Opens(f, path) THEN "page" ELSE "missing"]

\* What the screen holds: links of the shell and the page, controls of the page.
Screen == Page(view.facts, view.path)
Links == IF view.state = "page" THEN AppShell(shell) \cup Screen.links ELSE {}
Controls == IF view.state = "page" THEN Screen.controls ELSE {}

Init ==
    /\ facts \in InitialFacts
    /\ shell = facts.role
    /\ view = Rendered(<<"dashboard">>, facts)
    /\ form = NoForm
    /\ prompt = ""
    /\ saved = NoSave
    /\ changes = 0

\* A link: the layout stays as it is, the page is rendered, its components are new.
Open(path) ==
    /\ path \in Links
    /\ PageOf(facts, path) # "planned"
    /\ view' = Rendered(path, facts)
    /\ form' = NoForm /\ prompt' = "" /\ saved' = NoSave
    /\ UNCHANGED <<facts, shell, changes>>

Reload ==
    /\ shell' = facts.role
    /\ view' = IF Blocked(facts) THEN [view EXCEPT !.state = "away"]
               ELSE Rendered(view.path, facts)
    /\ form' = NoForm /\ prompt' = "" /\ saved' = NoSave
    /\ UNCHANGED <<facts, changes>>

\* After an action that succeeded layout and page are rendered again; leaving
\* leads out of the workspace, a deleted draft to the list.
Refresh ==
    /\ shell' = facts'.role
    /\ view' = IF facts'.role = "removed" THEN [view EXCEPT !.state = "away"]
               ELSE IF facts'.kind = "product" /\ PageOf(facts', view.path) = "missing"
               THEN Rendered(<<"catalog", "products">>, facts')
               ELSE Rendered(view.path, facts')

(***************************************************************************)
(* Buttons that send a request at once.                                    *)
(***************************************************************************)
Put(f, r, detail) == [f EXCEPT !.row[r] = detail]
Drop(f, r) == [f EXCEPT !.there[r] = "gone"]
Unused(f) == {r \in Rows : f.there[r] = "unused"}
Add(f, r) == [f EXCEPT !.there[r] = "live", !.row[r] = Fresh(f.kind)]
\* The id a creation takes; Rows bounds how many there can be.
NewId(f, kind) ==
    IF kind = f.kind THEN CHOOSE r \in Unused(f) : TRUE
    ELSE IF kind = "lead" THEN "aLead" ELSE "aProduct"
IdLeft(f, c) == c.op = "new" /\ c.kind = f.kind => Unused(f) # {}

\* Bounds the changes.
Counted ==
    /\ changes' = IF facts' = facts THEN changes ELSE changes + 1
    /\ changes' <= MaxChanges[facts.kind]

\* What the statements behind an accepted request make of the facts.
transitionLead(f, r, a) == [f EXCEPT !.row[r].status = leadMachine[a].to]
assignLead(f, r, owner) == [f EXCEPT !.row[r].owner = owner]
transitionProduct(f, r, a) == [f EXCEPT !.row[r].status = productMachine[a].to]
changeMemberRole(f, r, role) ==
    [f EXCEPT !.row[r].role = IF role = "owner" THEN "owner" ELSE "other"]
setMemberStatus(f, r, status) == [f EXCEPT !.row[r].status = status]
markNotificationRead(f, r) == Put(f, r, "read")
markAllNotificationsRead(f) ==
    [f EXCEPT !.row = [r \in Rows |-> IF r \in Live(f, "notification") THEN "read" ELSE @[r]]]
setRequireMfa(f, on) == [f EXCEPT !.requireMfa = on]
updateLead(f, r, contact, valued) ==
    Put(f, r, [f.row[r] EXCEPT !.contact = contact, !.valued = valued])
updateProduct(f, r, sellable) == Put(f, r, [f.row[r] EXCEPT !.sellable = sellable])
updateGroup(f, r, input) == Put(f, r, input)

Effect(f, c) ==
    CASE c.op = "new" /\ c.kind = f.kind -> Add(f, NewId(f, c.kind))
      [] c.op = "new" /\ c.kind = "product" /\ f.kind = "category" -> Put(f, c.choice, "busy")
      [] c.op = "remove" -> Drop(f, c.row)
      [] c.op = "move" /\ c.kind = "lead" -> transitionLead(f, c.row, c.choice)
      [] c.op = "move" /\ c.kind = "product" -> transitionProduct(f, c.row, c.choice)
      [] c.op = "reassign" -> assignLead(f, c.row, c.choice)
      [] c.op = "changeRole" -> changeMemberRole(f, c.row, c.choice)
      [] c.op = "suspend" -> setMemberStatus(f, c.row, "SUSPENDED")
      [] c.op = "reactivate" -> setMemberStatus(f, c.row, "ACTIVE")
      [] c.op = "leave" -> [f EXCEPT !.role = "removed"]
      [] c.op = "revoke" -> Put(f, c.row, "revoked")
      [] c.op = "markRead" -> markNotificationRead(f, c.row)
      [] c.op = "markAll" -> markAllNotificationsRead(f)
      [] c.op = "requireMfa" -> setRequireMfa(f, c.choice = "on")
      [] OTHER -> f

\* Forms ask for their values first, and the two ways to lose a lead for a reason.
SentAtOnce(c) ==
    /\ c.op # "edit"
    /\ c.op = "new" => c.kind \in {"invitation", "key", "configuration"}
    /\ c.op = "move" => c.choice \notin NEEDS_REASON

Click(c) ==
    /\ c \in Controls
    /\ SentAtOnce(c)
    /\ Accepts(facts, c) /\ IdLeft(facts, c)
    /\ facts' = Effect(facts, c)
    /\ Counted
    /\ Refresh
    /\ prompt' = IF c.op = "move" THEN "" ELSE prompt
    /\ saved' = NoSave
    /\ UNCHANGED form

AskReason(c) ==
    /\ c \in Controls
    /\ c.op = "move" /\ c.choice \in NEEDS_REASON
    /\ prompt' = c.choice
    /\ saved' = NoSave
    /\ UNCHANGED <<facts, shell, view, form, changes>>

\* The prompt outlives the button: it is sent even when the move is offered no more.
ConfirmReason ==
    /\ prompt # "" /\ view.state = "page"
    /\ LET c == Request("lead", "move", view.path[3], prompt)
       IN  IF Accepts(facts, c) THEN facts' = Effect(facts, c) /\ Refresh
           ELSE UNCHANGED <<facts, shell, view>>
    /\ Counted
    /\ prompt' = ""
    /\ saved' = NoSave
    /\ UNCHANGED form

(***************************************************************************)
(* Forms.  The values are loaded when the form appears and stay until it   *)
(* goes; where it saves is looked up when it saves.                        *)
(***************************************************************************)
Managers == {"contact", "account", "category"}
Toggles == {"lead", "product"}

Opened(c, at) ==
    IF form # NoForm
    THEN [form EXCEPT !.aim = at, !.pressed = @ \cup {at}]
    ELSE [kind |-> c.kind, parent |-> c.choice, from |-> at, aim |-> at, pressed |-> {at}]

\* Pressed again, Edit of a detail page and New of a list close the form.
PressEdit(c) ==
    /\ c \in Controls /\ c.op = "edit"
    /\ form # NoForm => form.kind = c.kind
    /\ form' = IF form # NoForm /\ c.kind \in Toggles THEN NoForm ELSE Opened(c, c.row)
    /\ saved' = NoSave
    /\ UNCHANGED <<facts, shell, view, prompt, changes>>

PressNew(c) ==
    /\ c \in Controls /\ c.op = "new" /\ ~SentAtOnce(c)
    /\ form # NoForm => form.kind = c.kind
    /\ c.kind = "option" => form = NoForm
    /\ form' = IF form # NoForm /\ form.aim = "new" /\ c.kind # "role" THEN NoForm
               ELSE Opened(c, "new")
    /\ saved' = NoSave
    /\ UNCHANGED <<facts, shell, view, prompt, changes>>

Cancel ==
    /\ form # NoForm
    /\ form' = NoForm
    /\ saved' = NoSave
    /\ UNCHANGED <<facts, shell, view, prompt, changes>>

\* Where the form of each kind saves.  Managers look the record up in the list
\* they show and create one when it is not there; the role pressed last is kept
\* whole; groups and options carry their id among the values, as a detail page
\* carries its own.
\* Mutant: another record of the list takes the place of the one that left it.
ListedOrAny(kind) ==
    IF form.aim \in Live(view.facts, kind) THEN form.aim
    ELSE IF Live(view.facts, kind) # {} THEN CHOOSE r \in Live(view.facts, kind) : TRUE
    ELSE "new"
Listed(kind) == IF form.aim \in Live(view.facts, kind) THEN form.aim ELSE "new"

ContactForm == Listed("contact")
AccountForm == Listed("account")
CategoryForm == Listed("category")
RoleForm == form.aim
GroupForm == form.from
OptionForm == form.from
DetailsForm == form.from

Target ==
    CASE form.kind = "contact" -> ContactForm
      [] form.kind = "account" -> AccountForm
      [] form.kind = "category" -> CategoryForm
      [] form.kind = "role" -> RoleForm
      [] form.kind = "group" -> GroupForm
      [] form.kind = "option" -> OptionForm
      [] OTHER -> DetailsForm

SaveRequest ==
    IF Target = "new" THEN NewIn(form.kind, form.parent) ELSE Request(form.kind, "edit", Target, NoChoice)

\* A lead or a product just created is where its form leads.
AfterSave ==
    IF Target = "new" /\ form.kind \in {"lead", "product"}
    THEN /\ shell' = facts'.role
         /\ view' = Rendered(SubSeq(view.path, 1, 2) \o <<NewId(facts, form.kind)>>, facts')
    ELSE Refresh

\* What was typed may be refused by the schema; what is saved changes no fact
\* the rules look at, except what a lead and a product are asked for and how a
\* group is answered.
Typed(f, r) ==
    CASE f.kind = "lead" -> {updateLead(f, r, b, v) : b \in BOOLEAN, v \in BOOLEAN}
      [] f.kind = "product" -> {updateProduct(f, r, b) : b \in BOOLEAN}
      [] f.kind = "group" -> {updateGroup(f, r, input) : input \in Inputs}
      [] OTHER -> {f}

Stored ==
    IF Target # "new" THEN Typed(facts, Target)
    ELSE IF form.kind = facts.kind
    THEN Typed(Effect(facts, SaveRequest), NewId(facts, form.kind))
    ELSE {Effect(facts, SaveRequest)}

\* The form of an option is rendered inside its group.
FormShown == form.kind = "option" => GroupOf(SaveRequest) \in ChoiceGroups(view.facts)

Save ==
    /\ form # NoForm /\ view.state = "page" /\ FormShown
    /\ Accepts(facts, SaveRequest) /\ IdLeft(facts, SaveRequest)
    /\ facts' \in Stored
    /\ saved' = [kind |-> form.kind, to |-> Target, from |-> form.from, aim |-> form.aim,
                 pressed |-> form.pressed]
    /\ form' = NoForm
    /\ Counted
    /\ AfterSave
    /\ UNCHANGED prompt

(***************************************************************************)
(* Others at work: any record may change, come or go, and so may the       *)
(* member's role and the workspace's policy.                               *)
(***************************************************************************)
\* Details that differ in one field.
OneStep(kind, d) ==
    IF kind \in {"lead", "product", "member"}
    THEN {e \in Details[kind] : Cardinality({k \in DOMAIN d : d[k] # e[k]}) = 1}
    ELSE Details[kind] \ {d}

\* Kinds of which no record ever goes.
Lasting == {"lead", "key", "notification", "settings"}

Changed(f) ==
    {Add(f, r) : r \in Unused(f)}
        \cup {Drop(f, r) : r \in IF f.kind \in Lasting THEN {} ELSE Live(f, f.kind)}
        \cup (UNION {{Put(f, r, d) : d \in OneStep(f.kind, f.row[r])} : r \in Live(f, f.kind)})
        \cup {[f EXCEPT !.input = input] : input \in IF f.kind = "option" THEN Inputs ELSE {}}
        \cup {[f EXCEPT !.role = role] : role \in LaterRoles}
        \cup {[f EXCEPT !.requireMfa = ~@]}

OthersChange ==
    /\ facts.role # "removed"
    /\ facts' \in Changed(facts)
    /\ Counted
    /\ saved' = NoSave
    /\ UNCHANGED <<shell, view, form, prompt>>

Next ==
    \/ \E path \in Links : Open(path)
    \/ Reload
    \/ \E c \in Controls : Click(c) \/ AskReason(c) \/ PressEdit(c) \/ PressNew(c)
    \/ ConfirmReason \/ Save \/ Cancel
    \/ OthersChange

Spec == Init /\ [][Next]_vars

(***************************************************************************)
(* What the rules and the pages owe each other.                            *)
(***************************************************************************)
\* The screen shows the facts as they are.
UpToDate == view.state = "page" /\ view.facts = facts /\ shell = facts.role /\ ~Blocked(facts)

\* Offered although the server will say no: the rules that take another table
\* or another member to decide, which the pages leave to the server.
LeftToTheServer(f, c) ==
    \/ c.op \in {"edit", "addActivity"} /\ c.kind = "lead" /\ f.row[c.row].owner = "other"
    \/ c.op = "remove" /\ c.kind \in {"account", "category", "role"} /\ f.row[c.row] = "busy"
    \/ c.op = "remove" /\ c.kind = "product" /\ f.row[c.row].inUse
    \/ c.kind = "member" /\ c.row # NoRow /\ f.row[c.row].role = "owner" /\ f.role # "owner"
    \/ c.op = "leave" /\ f.role = "owner" /\ ~OtherOwner(f)
    \/ c.op = "requireMfa" /\ c.choice = "on" /\ ~f.aal2

\* Whatever an up-to-date page offers, the server accepts, except what is left
\* to it: the buttons of the components and the guards of the actions agree.
OffersAreHonoured ==
    UpToDate => \A c \in Controls : Accepts(facts, c) \/ LeftToTheServer(facts, c)

\* Facts are judged once, from the dashboard every member can open.
AtHome == UpToDate /\ view.path = <<"dashboard">> /\ prompt = "" /\ saved = NoSave

Follow(f, paths) ==
    paths \cup UNION {Page(f, p).links : p \in {q \in paths : Opens(f, q)}}
\* Three clicks from any page.
Reachable(f) == Follow(f, Follow(f, AppShell(f.role)))

\* Every link a member meets leads to a page that opens for them: the menu, the
\* palette, the cards and the tables ask for at least what the pages ask for.
LinksOpen == AtHome => \A path \in Reachable(facts) : Opens(facts, path)

Requests(f) ==
    {New(kind) : kind \in {"lead", "account", "contact", "category", "role", "key"}}
        \cup {NewIn("product", r) : r \in CategoryIds(f) \cup Known(f, "category")}
        \cup {NewIn(kind, r) : kind \in {"group", "configuration"}, r \in ProductIds(f)}
        \cup {NewIn("option", g) : g \in GroupIds(f)}
        \cup (UNION {On(f.kind, op, Rows) :
                         op \in {"edit", "remove", "addActivity", "suspend", "reactivate",
                                 "resend", "revoke", "markRead"}})
        \cup {Request("lead", "move", r, a) : r \in Live(f, "lead"), a \in LeadActions}
        \cup {Request("product", "move", r, a) : r \in Live(f, "product"), a \in ProductActions}
        \cup {Request("lead", "reassign", r, o) : r \in Live(f, "lead"), o \in OWNERS}
        \cup {Request("member", "changeRole", r, k) :
                  r \in Live(f, "member"), k \in {"owner", "viewer"}}
        \cup {Request("invitation", "new", NoRow, k) : k \in {"owner", "viewer"}}
        \cup {Request("settings", "requireMfa", NoRow, next) : next \in {"on", "off"}}
        \cup {Request("settings", "rename", NoRow, NoChoice),
              Request("notification", "markAll", NoRow, NoChoice),
              Request("member", "leave", NoRow, NoChoice)}

\* What the server takes although no page offers it: editing a category that is
\* archived or a new product in it, the options of a group that has nothing to
\* choose from, reading twice.
Unasked(f, c) ==
    \/ c.kind = "category" /\ c.op = "edit" /\ f.there[c.row] = "gone"
    \/ c.kind = "product" /\ c.op = "new" /\ f.kind = "category" /\ f.there[c.choice] = "gone"
    \/ c.kind = "option" /\ InputOf(f, GroupOf(c)) \notin HAS_CHOICES
    \/ c.op = "markRead" /\ f.row[c.row] = "read"
    \/ c.op = "markAll" /\ \A r \in Live(f, "notification") : f.row[r] = "read"

\* A role that may read what it may write; the roles the system defines all are.
ReadsWhatItWrites(role) ==
    \A pair \in {<<"sales.quote.write", "sales.quote.read">>,
                  <<"sales.quote.write", "catalog.product.read">>,
                  <<"catalog.product.write", "catalog.product.read">>,
                  <<"crm.account.write", "crm.account.read">>} :
        can(role, pair[1]) => can(role, pair[2])

\* Whatever the server would accept from a member, some page that links lead
\* to offers; leaving is linked only for those who manage members.
NothingIsHidden ==
    AtHome /\ ReadsWhatItWrites(facts.role) =>
        \A c \in Requests(facts) :
            Accepts(facts, c) =>
                \/ Unasked(facts, c)
                \/ c.op = "leave" /\ ~can(facts.role, "platform.members.manage")
                \/ \E path \in Reachable(facts) : c \in Page(facts, path).controls

\* What an out-of-date page can still get done, an up-to-date one would offer
\* too: pressing an old button is refused or is as good as pressing a new one.
\* Not so for what the actions do not look at, an archived category and a group
\* that was given another input, and where the member was given a role that
\* writes what it may not read.
StaleScreensAddLittle ==
    \A c \in Controls :
        Accepts(facts, c) /\ (facts.role = view.facts.role \/ ReadsWhatItWrites(facts.role)) =>
            \/ Unasked(facts, c)
            \/ Opens(facts, view.path) /\ c \in Page(facts, view.path).controls

\* A form saves the values of one record into another only in the lists and the
\* roles, and only if another record was pressed meanwhile, or the record left the list.
ValuesStayHome ==
    saved.to # saved.from =>
        /\ saved.kind \in Managers \cup {"role"}
        /\ \/ {saved.to, saved.from} \subseteq saved.pressed
           \/ saved.to = "new" /\ saved.aim # "new" /\ facts.there[saved.aim] = "gone"
=============================================================================
