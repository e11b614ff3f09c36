# Specification of the AI EMS platform

AI EMS is a multi-tenant web application for make-to-order businesses: a
Next.js app (`apps/web`) whose server actions call repositories in
`packages/db`, which apply pure rules from `packages/domain` to rows of one
PostgreSQL database, and a worker (`tools/worker`) that turns the events the
repositories leave in an outbox table into notifications and mail.

Several people use one workspace at a time, so the hard part of the code is not
a single request but what happens *between the statements* of several. Prisma
runs every transaction at PostgreSQL's default level READ COMMITTED: each
statement sees what had been committed when it began. The code answers with four different
means (an advisory lock, `FOR UPDATE`, `FOR UPDATE SKIP LOCKED`, an update that
repeats its condition) and in other places with none. The modules here model
each operation at the grain of these statements; TLC checks small instances
exhaustively, and TLAPS proves most of the safety properties for every number of
requests, rows and workers.

The second difficulty is that the same question is answered in several places.
Whether somebody may do something is decided by the menu, the page, the
component, the server action and the policy below it; where a visitor belongs, by
the proxy and by the page; what a configuration costs, by the browser and by
the server. These copies are modelled separately, each as its code has it,
and compared.

## 1. Inventory

Paths are relative to `src/`. "P" is `packages/db/src/platform`, "C"
`packages/db/src/crm`, "K" `packages/db/src/catalog`, "D" `packages/domain/src`.

| Component | State | Operations | What is hard | What makes it correct |
| --- | --- | --- | --- | --- |
| Transactional outbox and worker: P/outbox.ts, tools/worker | `outbox_events` (status, attempts, available_at), a worker's batch in memory, `notifications` | enqueue, claim, complete, fail with backoff, sweep of stuck rows; loop, handlers, stop | several workers, crashes between two statements, lost replies, a slow worker that the sweep takes for dead | at-least-once: DONE only after telling, FAILED only after all attempts, nobody else's claim touched, everything settled in the end |
| Notification inbox: P/notifications.ts | `notifications` (read_at) | create (by the worker), mark read | written again when an event is delivered again | at most one set of rows per claim |
| Members: P/members.ts, D/organization/membership-policy.ts | `memberships` (role, status) | change role, suspend, reactivate, remove, leave | two owners demote each other; facts, count and write are separate statements; the actor may be gone by the time the lock is granted | always one active owner; only owners act on owners; only members act |
| Invitations: P/invitations.ts, D/organization/invitation.ts | `invitations` (accepted, revoked, expires) | create, reissue, revoke, accept | accept, revoke and re-invite race for a row; rows inserted meanwhile are not seen; the limit is counted without a lock | single use, bound to one address, one working link per address, a bounded number pending |
| Document numbering: P/sequences.ts, D/numbering/document-number.ts | `sequences` (next_value, year) | allocate inside the caller's transaction | the date is taken before the wait for the row; rollback returns the number; New Year | gap-free and unique per year |
| Leads and accounts: C/leads.ts, activities.ts, accounts.ts, contacts.ts, D/crm/lead-policy.ts | `leads`, `activities`, `accounts`, `contacts` | create, update, transition, assign, log an activity, archive | facts are read before the transaction, writes go by id alone | the record, the timeline and the closing event agree with the status; only qualified leads are won |
| Workspaces: P/organizations.ts, D/organization/slug.ts | `organizations` | provision, rename, require MFA | number of owned workspaces is counted without a lock | roles, sequences and an owner from the start |
| Roles and permissions: P/roles.ts, D/organization/role-policy.ts, packages/security/src/authorization | `roles`, `role_permissions`, `memberships.role_id` | create, update, delete, give to a member | limit counted without a lock; added and removed permissions computed from an old set; a role removed while it is given | nobody moves a permission they do not hold; a role in use stays; no role is empty |
| API keys: P/api-keys.ts | `api_keys` | create, revoke, verify | limit counted without a lock | the limit is passed by less than the requests in flight |
| Sign-in and sessions: apps/web/src/features/auth, proxy.ts, lib/routes.ts, server/auth/session.ts | the Auth server's account, sessions, factors and links (tools/auth-emulator); the browser's cookie, a copy | sign in, verify links, MFA enrolment, challenge and removal, password change, sign out here or elsewhere; redirects | an action makes several calls, others come in between; the cookie and the server may disagree | sessions of an old password end; nothing passes the second factor; redirects end |
| Catalog: K/products.ts, options.ts, categories.ts, D/catalog/product-policy.ts | `products`, `option_groups`, `product_options`, `product_categories` | edit, publish and other transitions, archive, groups and options, move and archive categories | the publish gate and the cycle check read before they write; a published product can be edited; forms are loaded earlier | a published product was sellable when it was checked; categories are a tree; an archived one is empty |
| Configurator and pricing: D/catalog/configuration.ts, K/configurator.ts, D/pricing | saved configurations; the page's answers | visible groups, validate, clean, price, save | visibility depends on answers to groups that may be hidden themselves; the page has the product as it was | what is saved is complete for the product it was checked against; the page's price is the saved one |
| Pages, menus and forms: apps/web/src/config, app/[org], features/*/components | what the last layout and page were rendered from; the form that is open | open a page, press a control, edit, save | several copies of "who may"; stale pages; form state that outlives its record | what is offered is accepted, links open, nothing useful is hidden, values are saved where they were shown |
| Rate limiting: packages/security/src/authentication/rate-limit.ts, packages/db/src/auth | `rate_limit_buckets`, one window per key | hit, consumeAll, reset | many processes share a window | no more than the limit are let through per window |
| Tenant isolation: packages/db/src/tenant-*.ts | none | rewriting of queries | every query must pass it | no row of another workspace |
| Audit, mail, logs, configuration, money, contracts, component library, tools | append-only or none | | | |

How they interact. The proxy looks at the browser's cookie and lets a request
through or redirects it; the page or server action asks the Auth server who calls,
authorizes them from the membership (`requireOrgContext`), and then calls one
repository function. Repositories share the database and nothing else.
`createLead` allocates its number in its own
transaction (numbering inside leads); accepting an invitation inserts a
membership (invitations feed members, without the lock members use); deleting a
role races with giving it to a member; members,
invitations, leads and workspaces enqueue outbox events in the transaction that
changes their rows, so an event exists exactly when its cause was committed; the
worker reads these events, later and at least once. A product's category links
catalog and tree; a saved configuration copies what it needs of its product. The
pages show what the repositories returned when they were rendered, and are
rendered again only when opened, reloaded, or after an action of their own that succeeded.

`PROJECT.json` lists every hazard of this code at its line, with the properties
that would notice it going wrong.

## 2. Modules

Each action is one statement, or one transaction or call whose statements no other
operation can separate in a way that matters; every module's opening comment says
which. Parameters, wording, mail bodies and amounts are left out unless a rule
looks at them. Operators marked "Mutant:" or "The mutation:" are the plausible
mistakes each property was tried against; no specification uses them.

### Outbox, EventDelivery (outbox.ts, runner.ts, handlers.ts, main.ts)

`status`, `attempts`, `due` are columns of the row; `due` is `available_at - now`
in ticks, so that time is relative and finite. `pc[w]` is the statement a worker
awaits next in `runBatch`; `batch[w]` its jobs with the *snapshot* of `attempts`
that RETURNING gave; `cur[w]` the job of the `for` loop. `inbox[e]` keeps the
attempts under which the notifications of `e` were written. `swept` and `unheard` are
history variables: events the sweep ever took from a claim, and completions
that took effect although the worker saw an exception.

| Code | Action |
| --- | --- |
| `enqueueOutbox` at commit | `Enqueue` |
| `requeueStuckOutbox` | `RequeueStuck` |
| inner select of `claimOutboxBatch`, and its update | `SelectBatch`, `CommitClaim` |
| handler, unknown type, handler that throws | `RunHandler`, `HandlerThrows` |
| `createNotifications` (and mail, which never throws) | `Notify` |
| exception before a statement took effect, or after | `StatementThrows`, `ReplyLost` |
| `completeOutbox`, `failOutbox` with `retryDelayMs` | `Complete`, `Fail` |
| `runLoop`'s catch; end of the process; supervisor; clock | `BatchThrows`; `Crash`; `Restart`; `Tick` |

`EventDelivery` is the abstract specification: post, take, tell, finish, give up,
reopen, with no workers, clock or crash. `KeepsPromise` is the refinement
(`Promise` in Outbox): NONE maps to nothing posted, PENDING and PROCESSING to
open, DONE and FAILED to done and parked.

### Membership (members.ts, membership-policy.ts, the member actions)

`member[m]` is the row; `req[r]` a server action in flight, with what its
transaction has read. A request passes `Ask` (authorization, outside the transaction),
`LockOrganization` (`pg_advisory_xact_lock`), `ReadFacts` or `NotFound`,
`CountOwners`, and then `Deny` or one of the four writes. `Join` is
`acceptInvitation`'s insert, which takes no lock and may happen anywhere.

### Invitations (invitations.ts, invitation.ts)

`inv[i]` and `role[p]` are committed rows, `req[r]` a transaction with its
snapshot and its uncommitted updates (`ids`), which lock rows. Creation is
`InviteMember` or `ReissueInvitation`, `CheckMember`, `BeginRevokeOld` and
`EndRevokeOld` (the update of the rows `LinksTo` the address first takes its snapshot, then may have to wait and looks again at
locked rows, but never at new ones), `CountPending`, `CreateInvitation`. Acceptance is
`FindInvitation`, `ClaimInvitation`, `AcceptInvitation`. Each has its refusals
and `Abort`. `Expire` and `RemoveMember` are the rest of the world.

### DocumentNumbers (sequences.ts, document-number.ts, createLead)

`row` is the sequence, `issued` the committed numbers, `creation[r]` a `createLead`
with the date it fixed in `Begin` and the row it locked in `SelectForUpdate`.
`CommitLead` commits, `Collide` meets the unique index, `RollBack` rolls back,
`NewYear` moves the clock. (The module's `Spec` is called `NumbersSpec`, and so on, so that one
module of proofs can extend it beside Leads; likewise `TreeSpec` in Categories.)

### Leads (leads.ts, activities.ts, accounts.ts, lead-policy.ts)

`lead[l]` is the row; `req[r]` a decision taken on facts read earlier and not yet
written. `Decide...` reads and applies the policy; `TransitionLead`,
`UpdateLead`, `AssignLead`, `LogActivity`, `ArchiveAccount` write by id alone.
`closedEvent` and `note` are the latest `lead.closed` event and timeline entry;
`qualified` is history, and so is `late`: accounts that were given an open lead after
theirs were counted for an archiving; a new count clears it.

### Products, Configuration (products.ts, options.ts, configurator.ts, configuration.ts, the configurator page)

`Configuration` is the domain code as operators: `visibleGroups`,
`validateConfiguration`, the cleaning of answers, `priceSelections`. An answer is the set
of option codes it names; what is typed instead of picked is one of three codes no option
has (`Typed`, `Blank`, `Invalid`). A typed number that happens to be the code of an option of
the same group is outside this abstraction. A price is told apart by the options it is made of.

In `Products`, `product` and `spec` are the row and its questions, `req[r]` a call of an
editor that has read, decided and not yet written, `page` the configurator page with the product as
it was when loaded and the answers so far, `send` its call on the way, `saved`
the last saved configuration. History tells when a check was outdated: `stale`, an
edit was committed since this request read; `unvetted`, an edit came after what the last
publication read; `shown`, `spec` and `same` of a saved row, the options the page
priced, the product the server read, and whether the page had it like that.

| Code | Action |
| --- | --- |
| `transitionProduct`, `deleteProduct`: read and decide; write by id | `DecideTransition`, `DecideDelete`; `WriteTransition`, `WriteDelete` |
| `saveOptionGroup`, `saveOption` with their checks; their writes, which may fail | `DecideSaveGroup`, `DecideSaveOption`; `WriteSaveGroup`, `WriteSaveOption`, `FailRequest` |
| `updateProduct`, `deleteOptionGroup`, `deleteOption` | `UpdateProduct`, `DeleteOptionGroup`, `DeleteOption` |
| the configurator page: load, leave, pick or type, submit | `OpenPage`, `ClosePage`, `Answer`, `Submit` |
| `saveConfiguration`: read, validate and price; refuse; insert; `deleteConfiguration` | `PriceConfiguration`; `RefuseConfiguration`; `SaveConfiguration`; `DeleteConfiguration` |

### Categories (categories.ts, the category of a product)

`exists`, `active` and `parent` are the rows, `place[p]` the category of a product; `call[r]` a
move or an archiving under way. `assertNoCycle` is `StartMove` and one `Walk` per query: the
walk stands at a category and takes its parent as it is now; `WriteMove` writes by id.
`archiveCategory` is `StartArchive`, `CountChildren`, `WriteArchive`. History: `raced`, a move was
written whose walk another overtook; `cut`, one whose walk gave up; `late`, the categories put to use
after their removal counted.

### AuthServer, SignIn, Visits (auth-emulator, features/auth/actions.ts, proxy.ts, routes.ts, session.ts)

`AuthServer` has the handlers of the Auth server the repository ships for development and
end-to-end tests; each handler is atomic (one process, synchronous state). The hosted service
production uses is outside the repository and is assumed to behave like it. `SignIn` runs
the server actions against it, one step per call: `requireSession` reads the
session, its factors and level, then the calls follow, and anything may happen between.
`Visits` composes the same server with the browser: `Proxy` redirects by the
cookie's copy, `Render` by the server's answer; the account is used elsewhere meanwhile.

### Access (roles.ts, api-keys.ts, role-policy.ts, change of a member's role)

A transaction begins with its reads and the policy on them and ends with its writes; others
commit in between. The permission reading of `requireOrgContext` and that of the transaction
are taken as one. The database's constraints (a role in use cannot go, names are unique) hold at the commit.
`crossed` is history: roles whose permissions two updates changed on one reading.

### Rules, Offers, Screens (every page under app/[org], its components, actions and policies)

`Rules` is the server: for each operation, the permission the action asks for and
the conditions of the policy and repository below it, as one predicate over the facts of a
workspace, and what it changes. `Offers` is the browser: per component, the links and controls
it renders from the facts it was given. Neither refers to the other's definitions of who may
do what; `Screens` puts a member in front of them. To stay finite it looks at the records of one
kind at a time; 14 kinds are explored in one run. Of the values chosen in forms the model keeps those that rules or
pages ask about: what a lead and a product need for their moves, the category of a new product and the input of
a group. The server takes any category that exists, the form lists the active ones; it takes options for a NUMBER
group too, the page shows them for the two kinds of choices only. `inUse` is whether quotes or orders name
a product: the server counts their lines, the page assumes none, and no code here writes any yet.

`facts` is the server's state; `shell` is the role the layout was rendered for, `view` the page with
the facts it shows; `form` is the open form: whose values it was mounted with, where it would
save, and which records were pressed since; `prompt` is the question for a reason. Opening a link renders the page and keeps the layout. An action that
succeeds renders both again; a refused one changes neither. Pages that use `getOrgContext` only
ask for a membership; the workspace's MFA policy is checked by the layout there, and
by `requireOrgContext` in every action. What
the pages leave to the server is listed by
name in `LeftToTheServer`, and what the server takes although no page offers it in `Unasked`; everything else has to agree. A member may be given one of
`LaterRoles` meanwhile, or be removed; one of these roles writes what it may not read
(`ReadsWhatItWrites` is false of it). No page leads such a member to what they may write, so
`NothingIsHidden` leaves that role out, and `StaleScreensAddLittle` leaves it out where it is new. `Leave` is offered only where the
shell links to it, to those who manage members.

The modules share no variables beyond AuthServer's: each models one workspace's rows of one kind.
Where one component writes another's rows that write is an action of both
(`Join` in Membership is `AcceptInvitation` in Invitations; `RemoveMember` in
Invitations is `RemoveMember` or `LeaveOrganization` in Membership; `Enqueue`
in Outbox is the commit of any of them; giving a role in Access is `ChangeRole` in Membership).

`MC*.tla` give the constants finite values; `*Proofs.tla` hold the proofs.

## 3. What TLC checks

State counts are of complete searches.

| Run | Instance | What it shows |
| --- | --- | --- |
| `outbox` | 2 workers, 2 events (one with a handler, one without), batches of up to 2, 2 attempts, 1 outage; 1,827,325 states | No claim is in two hands; two workers hold an event only after the sweep took it; each claim notifies at most once; a settled event stays settled unless swept or unheard; an abandoned row waits for the sweep; every step is a step of EventDelivery |
| `outbox_live` | 2 workers, 1 event, 3 attempts, 2 outages, `FairSpec`; 246,284 states | Every committed event is settled for good |
| `membership` | 3 memberships, 2 requests at once, roles owner, admin (may manage) and sales (may not); 182,786 states | There is always an active owner; what is read under the lock is true at the decision; only owners touch owners; only members act |
| `invitations` | 3 invitations, 2 people, 2 requests, limit 1; 1,298,418 states | Answered once; joined only by one's own unanswered invitation in its role; used up only by joining; the limit is passed by fewer than the requests in flight; an address has no more unanswered links than requests |
| `numbers` | 3 requests, 3 years, numbers up to 3; 4,024 states | No gaps; a taken number is met only when date and row disagree about the year |
| `leads` | 1 lead, 1 account, a seller and a manager, 2 requests; 674,447 states | Reason and conversion date go with the status, timeline and event agree with it, only a qualified lead is won, the first response is written at most once per overlapping request; an archived account has open leads only of those its count could not see |
| `products` | 3 questions, 2 option codes, 2 drafts, 2 forms for groups, 1 request in flight, 1 committed edit, 1 page; 1,294,034 states | What is published was sellable unless edited since the check; what is saved is complete for the product it was checked against; the page's price is the saved one while no question is more than two deep behind others |
| `categories` | 3 categories, 1 product, 2 requests, a walk of at most 2; 1,376,670 states | A cycle comes only from overlapping moves or a walk that gave up; an archived category holds only what came after it was counted |
| `signin` | 3 sessions, 2 passwords, 2 factors, 1 link, 2 requests; 1,890,372 states | Sessions of a replaced password are over once the change is through and its sign-out succeeded; no interleaving changes the password or removes a confirmed factor past the second factor |
| `visits` | 3 sessions, 1 password, 2 factors, `FairSpec`; 229,386 states | A visit ends at a page or at sign-in unless the cookie's list of factors is outdated |
| `access` | 3 role ids, 2 members, 3 keys, 2 permissions, 2 requests, limits of 1; 939,051 states | Limits are passed by fewer than the requests in flight; only crossing updates empty a role; nobody moves a permission they did not hold |
| `screens` | 2 records of each of 14 kinds, owner, admin (where the team is concerned), two sales roles, two custom roles (all roles at the notifications), 1 or 2 changes, 2 later roles; 209,537 states | An up-to-date page offers what the server accepts; its links open; what a member may do can be reached, and an old page can do no more than a new one, both but for archived categories and groups without choices; a form saves elsewhere only in the ways listed below |

### Behaviours worth knowing

While modelling, these came out of the code. The properties above are stated
around them, by history variables or named exceptions, so that nothing else hides behind them.

- **Outbox.** `lead.assigned` has no handler, so the event of a reassignment is DONE and nobody
  is told (docs/phases/06-crm.md:153 says the new owner is). `MAX_ATTEMPTS` is looked at by
  `failOutbox` only: an event that kills its worker is swept and claimed without end
  (docs/phases/05-platform.md:20 says FAILED after 8).
- **Numbers.** A request dated before New Year that gets the row after it sees a
  rollover back to the old year and counts from one, into numbers that exist; the unique index refuses it
  (sequences.ts:8-10 says requests queue rather than collide).
- **Invitations.** Of two invitations to one address at once neither sees the other's row; both links
  work (invitations.ts:45-48), until the next invitation replaces both.
- **Leads.** A transition decided on an old status overwrites a newer one, by a step the lifecycle does
  not have (06-crm.md:150). A lead opened between the count and the update leaves an
  archived account with an open lead (06-crm.md:154).
- **Categories.** Two moves at once, or one in a tree deeper than the walk's 20 steps, can close a
  cycle.
- **Products.** Deleting the last choice or group or the price of an ACTIVE product undoes what the
  gate checked, and nothing looks again. With a chain of three questions the page's
  price can differ from the saved one: the page cleans the answers once, the server cleans
  the clean ones again.
- **Sign-in.** The result of signing out the other sessions after a change of password is
  not read (auth/actions.ts:235-236, 272), the message says it happened. routes.ts:30-33
  relies on the Auth server to ask for the second factor before a password
  changes; the emulator's `PUT /user` (server.ts:458-474) does not.
- **Redirects.** When the cookie's copy of the user lists a factor the account no longer
  has, or the other way round, proxy and page send the visitor to each other
  until the cookie is refreshed (proxy.ts:49-60, session.ts:63, 96, routes.ts:144-147,
  mfa/page.tsx:19; docs/phases/03-authentication.md:207).
- **Forms.** The managers of contacts, accounts, categories and roles keep the values
  of the record they were opened on when Edit is pressed on another, and save them
  into that other; when the record has left the list, they create a new one. No save
  carries a version: a stale form overwrites. Editing an account empties its tax id
  (accounts-manager.tsx:203, accounts.ts:74), editing an option resets its sort order. An archived
  category can still be edited from a stale page, and a New product page left open still puts a product into
  it (products.ts:260-264). An option can be removed from a stale page after its group became a NUMBER, TEXT or
  BOOLEAN one (options.ts:216), and added or edited when it became a NUMBER (options.ts:179); the product
  page does not show the options left behind until the input is changed back.
- **Roles.** A member whose role changes to a custom one that writes but does not read some records keeps
  the buttons of a page opened before, and they work; a page opened now would not be shown.

### Bounds, and why they are enough

Every race in this code is between two
transactions or calls: a step of one falls between two steps of the other. Two
requests (three where a queue matters, in `numbers`) and two workers therefore
show every pairwise interleaving, and the proofs of section 5 cover the
rest. In `products` one request in flight suffices, as the other party's edits are committed at
any moment by actions of one step.

- *Outbox.* `MaxOutages` bounds crashes, failed calls outside a catch block and lost
  replies: one suffices for each kind of damage, and `outbox_live` allows a second,
  so that a recovery is hit by another failure. `MAX_ATTEMPTS` is 2 or 3 instead of 8:
  the first attempt, a retry and the last one behave differently, further ones
  do not. `BatchSize` 2 lets a batch fail half-way. `StuckAfter = 0` makes the
  sweep as impatient as can be, so a slow worker is taken for dead; 1 in
  `outbox_live` also has claims that survive a sweep. `RetryBase` 1 and `RetryCap` 2 give two
  different delays, the second of which is the cap. `due` stops below `-StuckAfter`, from where on
  no guard tells ages apart.
- *Limits.* One is the smallest limit that can be passed.
- *Members, years, leads.* Three memberships are an owner pair and somebody else. Three
  years give a rollover forward and one that a late request undoes; `MaxValue` 3 lets
  a gap and its filling appear. A lead needs no companion: requests on different
  leads share nothing but the account.
- *Products.* A chain of three questions is the shortest on which two cleanings differ. The
  drafts hold a chain, a required follow-up and a choice list without choices; the forms make
  an unconditional question conditional and change a question that was answered.
- *Categories.* Three are the smallest tree on which a walk of two gives up; the limit of 2 stands
  for 20, and the theorem holds for any.
- *Sign-in.* Three sessions are one that changes, one of the old password and
  the one a password check opens. Session ids, like those of roles and keys, are used once.
- *Screens.* Two records let a form move from one to the other. One change makes a page stale; kinds
  with simple records are given two, so that a record is first changed and then saved. Facts of
  different kinds do not meet in a rule, except as "busy" (a record others depend on), a product in its category
  and an option in its group; these two have a fact of their own (`input`) or are named by the request.

Symmetry is used for safety only, over ids that no other constant tells apart
(the workers, requests, invitations, categories, sessions or roles of an instance, but not the two events, whose types
differ, the seller and the manager, or the founder, who is an owner for good).

Deadlock is checked except in two runs: in `products` a deleted product, and in `signin` the
last session id used, is the end of all that the instance can do. The service itself goes on, with other
products and other sessions.

## 4. Fairness

`outbox_live`: `WF(Tick)`, the database clock advances;
`WF(WorkerStep(w))`, an awaited statement of a running worker ends, well or
badly (`runLoop` goes on as long as its process lives); `WF(Restart(w))`, a dead
worker is started again, as a container supervisor does. Nothing fair makes an event appear,
a handler succeed, or an outage happen: an event whose handler always
throws still ends, as FAILED. That outages are finitely many is the assumption of
`EventuallySettled`, and a necessary one: a
worker that always dies leaves its event in progress again and again.

`visits`: `WF(Proxy \/ Render)`, a browser follows a redirect and the server answers. That tokens expire, that
anybody signs in or out, or that a cookie is refreshed is not assumed.

## 5. What is proved

All theorems hold for any values of the constants that satisfy the module's
`ASSUME`: finite sets where something is counted, positive
limits, distinguished values ("nobody", "no parent") distinct from the others. Each module defines an
inductive `IInv`, proves `Init => IInv`
and `IInv /\ [Next]_vars => IInv'` with one lemma or step per action, and derives
the properties. Type correctness is a theorem everywhere; the run `signin` checks it as well. Every safety
property of every run is a theorem.

- **OutboxProofs.** The properties alone are not inductive: they say nothing of
  what a worker holds. `JobOK(w, j)` does: while the claim commits, the row is
  PENDING and one attempt behind the job; afterwards the attempt is counted, and
  unless the sweep took the event its row is PROCESSING (or DONE and unheard); the
  job's attempt is in the inbox only between `Notify` and the end of the job.
  `HoldersDiffer` says two holders of an event have different attempts and never both
  a row lock, which is what SKIP LOCKED gives. From these follow `ExclusiveClaims`, `OneHolder`,
  `OncePerClaim`, the action properties `SettledForGood` and `AbandonedIsLeftAlone`, and
  `OutboxKeepsPromise`: Outbox implements EventDelivery, each action mapped to
  one abstract step or to none.
- **MembershipProofs.** The advisory lock has one holder (`LockIsExclusive`); rows that
  exist change only by the holder's write, so what it read is still so
  (`SnapshotsAreCurrent`), except that owners may be added by `Join`; hence if the policy
  counted another active owner there is one (`OwnersRemain`). `OwnersRuleOwners` and
  `MembersAct` are action properties from the same invariant.
- **InvitationsProofs.** An updated row is locked by one transaction and stays
  unanswered until that ends, so nothing is answered twice (`AnswersAreFinal`). For the
  limit, `WeightIsBounded` adds the requests that have counted and
  will add an invitation to those pending; the sum, not the count, is inductive
  (`LimitRoughlyHolds`). The links to one address need more than a sum, as a request replaces those it has
  seen and no others: `UnseenAreFew` says of *every set* of requests replacing them that
  the links none of the set has seen, and the set itself, are together no more than the requests there
  are. A commit moves one request of the set into the links, a snapshot empties what is unseen, and the empty
  set gives `OldLinksGo`. `MembersWereInvited` and `UsedOnlyByJoining` relate a step's new members and used-up invitations.
- **LeadsProofs, on DocumentNumbers.** The row has one holder, who has read what is still in it, and
  the numbers of the row's own series are exactly those below `next_value`
  (`RowEndsItsSeries`). `NoGaps` and `QueueWithinAYear` follow, with and without yearly reset.
- **LeadsProofs.** A decision may be stale, but it rests on facts that do not go away
  (`Grounded`): the lead exists, it was once qualified. Writes set all fields that
  belong to a status at once (`RecordsMatch`, `ClosingsAreTold`). `FirstResponsesAreBounded` counts responses
  written and decided together. `CountsHold` keeps what was counted for an archiving, from the count on, until
  a lead is put to the account (`ArchivedAreClosed`).
- **AccessProofs.** `Counted` adds the requests past their count to the rows there are; the
  sum is inductive as in InvitationsProofs (`LimitsStayBounded`). `RequestsDecided` keeps what a request has read
  and decided: what it will move is within what its member held (`OnlyHeldMoves`). `RolesKept`
  needs that only roles that were created have permissions.
- **SignInProofs.** `OldOnesAreEnding`: a session of another password is one that a request in flight is
  about to end, or one that was spared because the sign-out failed; hence
  `OldPasswordsEnd`. `RequestsFit` keeps what each action saw when it
  checked: no action that writes was admitted below the level the account's factors asked for (`SecondFactorHolds`).
- **CatalogProofs.** A cycle is a non-empty set of categories closed under `parent`. `WalksAreGuided`: as
  long as nobody raced, a set that holds the target of a move and is closed under `parent`, except perhaps at
  the category that moves, holds the cursor of its walk; a walk that has reached the root
  therefore started in no such set, and the move closes no cycle (`AncestrySound`, for any walk limit). `ArchivedEmpty` follows from what
  the two counts saw. Of `Configuration` alone: answers without issues, once cleaned, are
  complete (`CleanIsComplete`), and clean answers price the same again while no question is more than two
  deep (`PreviewIsPrice`). `Products` builds on these. `PublicationsAreVetted` is the part that makes
  `PublishedSellable` inductive: a publication on its way was sellable when it was decided, and still is unless an edit
  made it stale. `SentIsClean` and `PricedIsSound` follow one configuration from the page to its row, the page's
  answers being ones that somebody can have entered (`Entered`); hence `SavedComplete` and `PreviewSaved`.
- **ScreensProofs.** Most of it is about the pages at rest, for any facts and any set of permissions a custom role
  may have: page by page that what is offered is accepted, operation by operation that what is accepted is offered on
  some page, and that the menus lead there (`OffersHonoured`, `EverythingIsOffered`, `EveryLinkOpens`). This
  holds of every page at any time, so it needs no more of the past than that the page was open to its member when it
  was rendered (`PageOK`). The old page does: `Before` says that its facts once were the server's, so that
  what it shows is there or gone, but never unknown or back again (`OldScreensAddLittle`). For the forms
  `FormOK` says that a list's form is about a record that the list shown has, or had; without it one
  could not exclude a save into a record that the member has never seen (`ValuesStay`).

Assumed of the constants, beyond what section 3 instantiates: records are none of the words that paths and choices
use (`ScreensAssumption`), the founding facts are well-typed, and limits are numbers. Custom roles, option codes,
drafts and forms are arbitrary.

Only model-checked: `EventuallySettled` and `VisitsEndUnlessOutdated`, as liveness under fairness is outside the
prover's reach.

## 6. Not modelled

- **Rate limiting.** Each hit is one atomic upsert whose result is compared with the limit; there is
  no second statement for another process to fall between.
- **Tenant isolation.** Query rewriting and row-level security; every module *is* one workspace, which is what this
  layer provides.
- **Audit trail.** One insert in the transaction of the operation it records.
- **Mail, logging, configuration.** Best-effort output and start-up parsing; sending never throws and changes no state.
- **Money.** Decimal arithmetic without state. The sums of the pipeline are computed from rows and
  kept nowhere.
- **Contracts.** Shapes of inputs, represented by the sets the models draw inputs from.
- **The account and sign-up pages, the roadmap previews, the component library.** Rendering without rules of their own, or
  forms whose server actions are those of SignIn.
- **The limit on owned workspaces** counts over other workspaces; **`verifyApiKey`** is one lookup.
- **Developer tools, tests, CI and the services planned** are not part of the running product.

Within modelled components: titles, amounts, images, follow-up dates, and reads for lists. Facts of two kinds of
records changing at once on one page, and two forms open at a time, are not explored by `Screens`.
