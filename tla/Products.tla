------------------------------ MODULE Products ------------------------------
(***************************************************************************)
(* One product of the catalog, its questions, and the configurations saved *)
(* of it (packages/db/src/catalog/products.ts, options.ts, configurator.ts,*)
(* called from apps/web/src/features/catalog/actions.ts, and the           *)
(* configurator page of apps/web/src/features/catalog/components).         *)
(*                                                                         *)
(* Editors move the product through its life and edit its questions, a     *)
(* salesperson answers the questions on a page that holds the product as   *)
(* it was when the page was loaded.  Every call that checks before it      *)
(* writes does both in statements of their own; others commit in between.  *)
(* A refused call changes nothing and is no step.                          *)
(***************************************************************************)
EXTENDS Configuration, Naturals

CONSTANTS
    Requests,    \* catalog edits in flight at once
    Drafts,      \* the questions a draft has to begin with
    GroupForms,  \* bound: how the form of a group may be submitted
    MaxEdits     \* bound: edits of the product and its questions

ASSUME ProductsAssumption ==
    /\ Drafts \subseteq ProductSpec
    /\ GroupForms \subseteq [group : Groups, input : Inputs, required : BOOLEAN, rule : Rules]
    /\ MaxEdits \in Nat

VARIABLES
    product,    \* the row
    spec,       \* its option groups
    req,        \* req[r]: what an edit has decided to write
    page,       \* the configurator in a browser
    send,       \* the page's call of saveConfiguredProduct
    saved,      \* the last configuration saved, if it is still there
    unvetted,   \* history: an edit came after what the last publication read
    edits

vars == <<product, spec, req, page, send, saved, unvetted, edits>>

Statuses == {"DRAFT", "ACTIVE", "DISCONTINUED"}
ProductActions == {"publish", "unpublish", "discontinue", "restore"}
Product == [exists : BOOLEAN, status : Statuses, configurable : BOOLEAN, hasPrice : BOOLEAN]

Ops == {"none", "transition", "delete", "saveGroup", "saveOption"}
\* stale is history: an edit was committed since this request read.
Request == [op : Ops, to : Statuses, stale : BOOLEAN,
            group : Groups \cup {Always}, new : GroupSpec, code : Codes \cup {Always}]
Idle == [op |-> "none", to |-> "DRAFT", stale |-> FALSE,
         group |-> Always, new |-> NoGroup, code |-> Always]
End(r) == req' = [req EXCEPT ![r] = Idle]

Page == [open : BOOLEAN, spec : ProductSpec, answers : Answers]
NoSpec == [g \in Groups |-> NoGroup]
Closed == [open |-> FALSE, spec |-> NoSpec, answers |-> Unanswered]

\* A saved row.  shown is history: the options the page priced when it was
\* submitted.  spec too: the product as the server read it, and same, that the
\* page had it like that.
Row == [exists : BOOLEAN, answers : Answers, chosen : SUBSET (Groups \X Codes),
        shown : SUBSET (Groups \X Codes), spec : ProductSpec, same : BOOLEAN]
NoRow == [exists |-> FALSE, answers |-> Unanswered, chosen |-> {},
          shown |-> {}, spec |-> NoSpec, same |-> FALSE]

Send == [phase : {"none", "sent", "priced"}, asked : ProductSpec, row : Row]
NoSend == [phase |-> "none", asked |-> NoSpec, row |-> NoRow]

Init ==
    /\ product \in [exists : {TRUE}, status : {"DRAFT"}, configurable : BOOLEAN,
                    hasPrice : BOOLEAN]
    /\ spec \in Drafts
    /\ req = [r \in Requests |-> Idle]
    /\ page = Closed
    /\ send = NoSend
    /\ saved = NoRow
    /\ unvetted = FALSE
    /\ edits = 0

-----------------------------------------------------------------------------
(* Editors: requests of catalog.product.write. *)

From(action) ==
    CASE action = "publish" -> {"DRAFT"}
      [] action = "unpublish" -> {"ACTIVE"}
      [] action = "discontinue" -> {"ACTIVE", "DRAFT"}
      [] action = "restore" -> {"DISCONTINUED"}

To(action) ==
    CASE action = "publish" -> "ACTIVE"
      [] action \in {"unpublish", "restore"} -> "DRAFT"
      [] action = "discontinue" -> "DISCONTINUED"

\* Mutant: any draft may be published.
CanTransitionAlways(action) == product.status \in From(action)

\* Publishing is the gate.
CanTransition(action) ==
    /\ product.status \in From(action)
    /\ action = "publish" => Sellable(product.hasPrice, product.configurable, spec)

\* No quote or order line is written by this code: nothing is ever in use.
CanDelete == product.status = "DRAFT"

Decide(r, decision) ==
    /\ product.exists
    /\ req[r].op = "none"
    /\ req' = [req EXCEPT ![r] = decision]
    /\ UNCHANGED <<product, spec, page, send, saved, unvetted, edits>>

DecideTransition(r, action) ==
    /\ CanTransition(action)
    /\ Decide(r, [Idle EXCEPT !.op = "transition", !.to = To(action)])

DecideDelete(r) ==
    /\ CanDelete
    /\ Decide(r, [Idle EXCEPT !.op = "delete"])

\* The rule must name an option of another question of the product.
TriggerExists(g, rule) ==
    rule # Always =>
        /\ spec[rule.group].exists
        /\ rule.equals \in spec[rule.group].options
        /\ rule.group # g

DecideSaveGroup(r, form) ==
    /\ TriggerExists(form.group, form.rule)
    /\ Decide(r, [Idle EXCEPT !.op = "saveGroup", !.group = form.group,
                    !.new = [exists |-> spec[form.group].exists, input |-> form.input,
                             required |-> form.required, options |-> {}, rule |-> form.rule]])

\* The code is a new one of the group.
DecideSaveOption(r, g, c) ==
    /\ spec[g].exists
    /\ spec[g].input \notin {"TEXT", "BOOLEAN"}
    /\ c \notin spec[g].options
    /\ Decide(r, [Idle EXCEPT !.op = "saveOption", !.group = g, !.code = c])

\* The writes of edits.  Whoever read before has read something else.
Edited(ended) ==
    /\ edits < MaxEdits
    /\ edits' = edits + 1
    /\ req' = [r \in Requests |->
                  IF r \in ended \/ req[r].op = "none" THEN Idle
                  ELSE [req[r] EXCEPT !.stale = TRUE]]
    /\ unvetted' = TRUE

\* The status is written by id, whatever it is by now.
WriteTransition(r) ==
    /\ req[r].op = "transition"
    /\ product.exists
    /\ product' = [product EXCEPT !.status = req[r].to]
    /\ unvetted' = IF req[r].to = "ACTIVE" THEN req[r].stale ELSE unvetted
    /\ End(r)
    /\ UNCHANGED <<spec, page, send, saved, edits>>

\* Questions and saved configurations go with the product; a write to what is
\* gone fails.
WriteDelete(r) ==
    /\ req[r].op = "delete"
    /\ product.exists
    /\ product' = [product EXCEPT !.exists = FALSE]
    /\ spec' = NoSpec
    /\ saved' = NoRow
    /\ req' = [q \in Requests |-> Idle]
    /\ UNCHANGED <<page, send, unvetted, edits>>

\* An update leaves the options of the group alone, a new group has none; its
\* code is unique.
WriteSaveGroup(r) ==
    LET g == req[r].group
        new == [req[r].new EXCEPT !.exists = TRUE,
                    !.options = IF req[r].new.exists THEN spec[g].options ELSE {}]
    IN  /\ req[r].op = "saveGroup"
        /\ spec[g].exists = req[r].new.exists
        /\ spec' = [spec EXCEPT ![g] = new]
        /\ Edited({r})
        /\ UNCHANGED <<product, page, send, saved>>

WriteSaveOption(r) ==
    LET g == req[r].group
    IN  /\ req[r].op = "saveOption"
        /\ spec[g].exists
        /\ req[r].code \notin spec[g].options
        /\ spec' = [spec EXCEPT ![g].options = @ \cup {req[r].code}]
        /\ Edited({r})
        /\ UNCHANGED <<product, page, send, saved>>

\* A request whose write fails: the row is gone, the code is taken.
FailRequest(r) ==
    /\ req[r].op \in {"saveGroup", "saveOption"}
    /\ LET g == req[r].group
       IN  \/ req[r].op = "saveGroup" /\ spec[g].exists # req[r].new.exists
           \/ req[r].op = "saveOption" /\ (~spec[g].exists \/ req[r].code \in spec[g].options)
    /\ End(r)
    /\ UNCHANGED <<product, spec, page, send, saved, unvetted, edits>>

\* updateProduct checks the SKU only.
UpdateProduct(configurable, hasPrice) ==
    /\ product.exists
    /\ product' = [product EXCEPT !.configurable = configurable, !.hasPrice = hasPrice]
    /\ Edited({})
    /\ UNCHANGED <<spec, page, send, saved>>

\* Options go with their group.
DeleteOptionGroup(g) ==
    /\ spec[g].exists
    /\ spec' = [spec EXCEPT ![g] = NoGroup]
    /\ Edited({})
    /\ UNCHANGED <<product, page, send, saved>>

DeleteOption(g, c) ==
    /\ spec[g].exists
    /\ c \in spec[g].options
    /\ spec' = [spec EXCEPT ![g].options = @ \ {c}]
    /\ Edited({})
    /\ UNCHANGED <<product, page, send, saved>>

-----------------------------------------------------------------------------
(* A salesperson: the configurator page and saveConfiguration. *)

\* The page shows a published product only.
Load == IF product.exists /\ product.status = "ACTIVE"
        THEN [open |-> TRUE, spec |-> spec, answers |-> Unanswered]
        ELSE Closed

OpenPage ==
    /\ ~page.open
    /\ Load.open
    /\ page' = Load
    /\ UNCHANGED <<product, spec, req, send, saved, unvetted, edits>>

ClosePage ==
    /\ page.open
    /\ send.phase = "none"
    /\ page' = Closed
    /\ UNCHANGED <<product, spec, req, send, saved, unvetted, edits>>

\* The other answers stay, those to questions this one hides too.
Answer(g, value) ==
    /\ page.open
    /\ g \in VisibleGroups(page.spec, page.answers)
    /\ value \in Entries(page.spec[g])
    /\ page' = [page EXCEPT !.answers[g] = value]
    /\ UNCHANGED <<product, spec, req, send, saved, unvetted, edits>>

\* Only a form without issues is sent, and only its clean answers.
Submit ==
    /\ page.open
    /\ send.phase = "none"
    /\ Issues(page.spec, page.answers) = {}
    /\ send' = [phase |-> "sent", asked |-> page.spec,
                row |-> [NoRow EXCEPT !.answers = Cleaned(page.spec, page.answers),
                                      !.shown = Price(page.spec, page.answers)]]
    /\ UNCHANGED <<product, spec, req, page, saved, unvetted, edits>>

\* Mutant: the server takes the browser's word for it.
AcceptableUnchecked == product.exists /\ product.status = "ACTIVE"

\* The product is read anew; the answers are validated and priced.
Acceptable == /\ product.exists
              /\ product.status = "ACTIVE"
              /\ Issues(spec, send.row.answers) = {}

PriceConfiguration ==
    /\ send.phase = "sent"
    /\ Acceptable
    /\ send' = [send EXCEPT
                  !.phase = "priced",
                  !.row = [exists |-> TRUE, answers |-> Cleaned(spec, send.row.answers),
                           chosen |-> Price(spec, send.row.answers),
                           shown |-> send.row.shown, spec |-> spec,
                           same |-> spec = send.asked]]
    /\ UNCHANGED <<product, spec, req, page, saved, unvetted, edits>>

\* A refusal comes back as a message; the answers stay on the page.
RefuseConfiguration ==
    /\ \/ send.phase = "sent" /\ ~Acceptable
       \/ send.phase = "priced" /\ ~product.exists
    /\ send' = NoSend
    /\ UNCHANGED <<product, spec, req, page, saved, unvetted, edits>>

\* The row is written in a statement of its own, and the page starts over on
\* the product as it is now.
SaveConfiguration ==
    /\ send.phase = "priced"
    /\ product.exists
    /\ saved' = send.row
    /\ send' = NoSend
    /\ page' = Load
    /\ UNCHANGED <<product, spec, req, unvetted, edits>>

DeleteConfiguration ==
    /\ saved.exists
    /\ saved' = NoRow
    /\ UNCHANGED <<product, spec, req, page, send, unvetted, edits>>

Next ==
    \/ \E r \in Requests :
        \/ \E action \in ProductActions : DecideTransition(r, action)
        \/ DecideDelete(r)
        \/ \E form \in GroupForms : DecideSaveGroup(r, form)
        \/ \E g \in Groups, c \in Codes : DecideSaveOption(r, g, c)
        \/ WriteTransition(r)
        \/ WriteDelete(r)
        \/ WriteSaveGroup(r)
        \/ WriteSaveOption(r)
        \/ FailRequest(r)
    \/ \E configurable, hasPrice \in BOOLEAN : UpdateProduct(configurable, hasPrice)
    \/ \E g \in Groups : DeleteOptionGroup(g)
    \/ \E g \in Groups, c \in Codes : DeleteOption(g, c)
    \/ OpenPage
    \/ ClosePage
    \/ \E g \in Groups : \E value \in Entries(page.spec[g]) : Answer(g, value)
    \/ Submit
    \/ PriceConfiguration
    \/ RefuseConfiguration
    \/ SaveConfiguration
    \/ DeleteConfiguration

Spec == Init /\ [][Next]_vars

-----------------------------------------------------------------------------
(* Properties. *)

TypeOK ==
    /\ product \in Product
    /\ spec \in ProductSpec
    /\ req \in [Requests -> Request]
    /\ page \in Page
    /\ send \in Send
    /\ saved \in Row
    /\ unvetted \in BOOLEAN
    /\ edits \in 0 .. MaxEdits

\* Publishing is the gate (canTransitionProduct): a published product can be
\* sold, unless it was edited after its publication read it.  The facts are
\* read before the transaction that writes the status.
PublishedIsSellable ==
    (product.exists /\ product.status = "ACTIVE" /\ ~unvetted)
        => Sellable(product.hasPrice, product.configurable, spec)

\* No saved configuration leaves a question open that its own answers ask, or
\* holds an answer the product did not take (validateConfiguration): dropping
\* the answers to hidden questions never brings a required one into sight.
SavedIsComplete ==
    saved.exists =>
        \A g \in Groups :
            /\ (g \in VisibleGroups(saved.spec, saved.answers) /\ saved.spec[g].required)
                  => Answered(saved.answers[g])
            /\ Answered(saved.answers[g])
                  => saved.spec[g].exists /\ Fits(saved.spec[g], saved.answers[g])

\* "What someone sees here is what gets saved" (configurator.tsx): while the
\* product stays as the page had it, the options the page prices are those the
\* server prices, although the server gets the clean answers only and cleans
\* them again.  So of products whose questions are at most two deep behind
\* others; in a longer chain the second cleaning hides what the first kept.
ShallowPreviewIsSaved ==
    (saved.exists /\ saved.same /\ Shallow(saved.spec)) => saved.chosen = saved.shown
=============================================================================
