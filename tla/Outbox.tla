------------------------------- MODULE Outbox -------------------------------
(***************************************************************************)
(* The transactional outbox (packages/db/src/platform/outbox.ts) and the   *)
(* workers that drain it (tools/worker/src/runner.ts, handlers.ts).        *)
(*                                                                         *)
(* Every statement a worker awaits is one action, so other workers, the    *)
(* clock and crashes come between any two of them.  A statement that runs  *)
(* in its own transaction is atomic, except the claim: its inner SELECT    *)
(* ... FOR UPDATE SKIP LOCKED locks rows that other claims then skip until *)
(* the UPDATE commits, which takes the two steps SelectBatch and           *)
(* CommitClaim.                                                            *)
(*                                                                         *)
(* Time is relative: due[e] is available_at minus now, in ticks.  A tick   *)
(* lowers it for every row that is waiting or in progress, no further than *)
(* the first value below -StuckAfter, where nothing can tell ages apart.   *)
(***************************************************************************)
EXTENDS Integers, FiniteSets

CONSTANTS
    Events,          \* outbox rows a behaviour may create
    Workers,         \* copies of tools/worker
    Type,            \* Type[e]: the type of the event
    MAX_ATTEMPTS,
    BatchSize,       \* WORKER_BATCH_SIZE, the LIMIT of a claim
    StuckAfter,      \* requeueStuckOutbox's olderThanMs, in ticks
    RetryBase,       \* the first retry delay, in ticks
    RetryCap,        \* the longest retry delay, in ticks
    NoJob,           \* stands for "no current job"
    MaxOutages       \* bound: crashes, stops, and database calls that fail or
                     \*   lose their reply where no catch block retries them

\* The keys of `handlers`: the event types somebody is told about.
HandlerTypes == {"member.joined", "member.role_changed", "security.changed"}

\* Every type the repositories enqueue.
EventTypes == HandlerTypes \cup {"lead.assigned", "lead.closed"}

ASSUME OutboxAssumption ==
    /\ Type \in [Events -> EventTypes]
    /\ MAX_ATTEMPTS \in Nat \ {0}
    /\ BatchSize \in Nat \ {0}
    /\ StuckAfter \in Nat
    /\ RetryBase \in Nat
    /\ RetryCap \in Nat
    /\ MaxOutages \in Nat

VARIABLES
    status,      \* "NONE" until the row is committed, then its OutboxStatus
    attempts,
    due,         \* available_at - now
    pc,          \* where a worker stands in runLoop / runBatch
    batch,       \* the jobs of the worker's batch not yet finished
    cur,         \* the job it is on, NoJob between jobs
    inbox,       \* inbox[e]: the claims (attempt numbers) under which the
                 \*   notifications of e were written
    swept,       \* history: events the stuck sweep ever took from a claim
    unheard,     \* history: events whose completeOutbox worked but seemed to fail
    outages

rows == <<status, attempts, due>>
workers == <<pc, batch, cur>>
history == <<swept, unheard>>
vars == <<rows, workers, inbox, history, outages>>

Statuses == {"NONE", "PENDING", "PROCESSING", "DONE", "FAILED"}
Phases == {"down", "idle", "select", "claim", "handle", "notify", "complete", "fail"}

\* OutboxJob: the row as RETURNING gave it; attempts is a snapshot.
Jobs == [id : Events, attempts : Nat \ {0}]

Handled(e) == Type[e] \in HandlerTypes
Settled(e) == status[e] \in {"DONE", "FAILED"}

-----------------------------------------------------------------------------
Init ==
    /\ status = [e \in Events |-> "NONE"]
    /\ attempts = [e \in Events |-> 0]
    /\ due = [e \in Events |-> 0]
    /\ pc = [w \in Workers |-> "idle"]
    /\ batch = [w \in Workers |-> {}]
    /\ cur = [w \in Workers |-> NoJob]
    /\ inbox = [e \in Events |-> {}]
    /\ swept = {}
    /\ unheard = {}
    /\ outages = 0

\* enqueueOutbox, at the commit of the transaction that caused the event.
Enqueue(e) ==
    /\ status[e] = "NONE"
    /\ status' = [status EXCEPT ![e] = "PENDING"]
    /\ due' = [due EXCEPT ![e] = 0]
    /\ UNCHANGED <<attempts, workers, inbox, history, outages>>

-----------------------------------------------------------------------------
(* The start of runBatch: sweep, then claim. *)

\* Mutant: the sweep takes the fresh claims and leaves the old ones.
IsFresh(e) == status[e] = "PROCESSING" /\ due[e] > -StuckAfter

IsStuck(e) == status[e] = "PROCESSING" /\ due[e] < -StuckAfter

Stuck == {e \in Events : IsStuck(e)}

RequeueStuck(w) ==
    /\ pc[w] = "idle"
    /\ status' = [e \in Events |-> IF e \in Stuck THEN "PENDING" ELSE status[e]]
    /\ swept' = swept \cup Stuck
    /\ pc' = [pc EXCEPT ![w] = "select"]
    /\ UNCHANGED <<attempts, due, batch, cur, inbox, unheard, outages>>

Ids(S) == {j.id : j \in S}

\* Mutant: FOR UPDATE SKIP LOCKED dropped from the inner select.
NothingLocked(w) == {}

\* Rows another worker's claim has locked and not yet committed.
LockedByOthers(w) == UNION {Ids(batch[v]) : v \in {u \in Workers \ {w} : pc[u] = "claim"}}

\* Mutant: the claim takes rows in progress too.
ClaimableInProgress(w) ==
    {e \in Events : status[e] \in {"PENDING", "PROCESSING"} /\ due[e] <= 0}
        \ LockedByOthers(w)

Claimable(w) ==
    {e \in Events : status[e] = "PENDING" /\ due[e] <= 0} \ LockedByOthers(w)

\* S is what ORDER BY available_at LIMIT BatchSize may return from C.
OldestOf(S, C) ==
    /\ S \subseteq C
    /\ \A e \in S, f \in C \ S : due[e] <= due[f]
    /\ \/ S = C /\ Cardinality(C) <= BatchSize
       \/ Cardinality(S) = BatchSize

JobFor(e) == [id |-> e, attempts |-> attempts[e] + 1]

SelectBatch(w) ==
    /\ pc[w] = "select"
    /\ \E S \in SUBSET Events :
          /\ OldestOf(S, Claimable(w))
          /\ batch' = [batch EXCEPT ![w] = {JobFor(e) : e \in S}]
          /\ pc' = [pc EXCEPT ![w] = IF S = {} THEN "idle" ELSE "claim"]
    /\ UNCHANGED <<rows, cur, inbox, history, outages>>

\* Mutant: the claim forgets to count the attempt.
CommitClaimUncounted(w) ==
    /\ pc[w] = "claim"
    /\ LET S == Ids(batch[w])
       IN /\ status' = [e \in Events |-> IF e \in S THEN "PROCESSING" ELSE status[e]]
          /\ due' = [e \in Events |-> IF e \in S THEN 0 ELSE due[e]]
    /\ pc' = [pc EXCEPT ![w] = "handle"]
    /\ UNCHANGED <<attempts, batch, cur, inbox, history, outages>>

CommitClaim(w) ==
    /\ pc[w] = "claim"
    /\ LET S == Ids(batch[w])
       IN /\ status' = [e \in Events |-> IF e \in S THEN "PROCESSING" ELSE status[e]]
          /\ attempts' = [e \in Events |-> IF e \in S THEN attempts[e] + 1 ELSE attempts[e]]
          /\ due' = [e \in Events |-> IF e \in S THEN 0 ELSE due[e]]
    /\ pc' = [pc EXCEPT ![w] = "handle"]
    /\ UNCHANGED <<batch, cur, inbox, history, outages>>

-----------------------------------------------------------------------------
(* The loop over the jobs of a batch, one at a time.  RETURNING promises no *)
(* order, so any job of the batch may be next.                              *)

\* The handler returned its drafts; an unknown type skips straight to DONE.
RunHandler(w) ==
    /\ pc[w] = "handle"
    /\ \E j \in batch[w] :
          /\ cur' = [cur EXCEPT ![w] = j]
          /\ pc' = [pc EXCEPT ![w] = IF Handled(j.id) THEN "notify" ELSE "complete"]
    /\ UNCHANGED <<rows, batch, inbox, history, outages>>

\* The handler threw (a lookup failed).
HandlerThrows(w) ==
    /\ pc[w] = "handle"
    /\ \E j \in batch[w] :
          /\ Handled(j.id)
          /\ cur' = [cur EXCEPT ![w] = j]
    /\ pc' = [pc EXCEPT ![w] = "fail"]
    /\ UNCHANGED <<rows, batch, inbox, history, outages>>

\* createNotifications, one createMany for all drafts, then the best-effort
\* emails, which never throw and write nothing.
Notify(w) ==
    /\ pc[w] = "notify"
    /\ inbox' = [inbox EXCEPT ![cur[w].id] = @ \cup {cur[w].attempts}]
    /\ pc' = [pc EXCEPT ![w] = "complete"]
    /\ UNCHANGED <<rows, batch, cur, history, outages>>

\* createNotifications or completeOutbox threw, without effect: the catch
\* block runs.
StatementThrows(w) ==
    /\ pc[w] \in {"notify", "complete"}
    /\ pc' = [pc EXCEPT ![w] = "fail"]
    /\ UNCHANGED <<rows, batch, cur, inbox, history, outages>>

\* The job leaves the batch; the batch ends with its last job.
FinishJob(w) ==
    LET left == batch[w] \ {cur[w]}
    IN /\ batch' = [batch EXCEPT ![w] = left]
       /\ cur' = [cur EXCEPT ![w] = NoJob]
       /\ pc' = [pc EXCEPT ![w] = IF left = {} THEN "idle" ELSE "handle"]

\* Mutant: the emails are sent after the completion, and may throw.
CompleteThenMail(w) ==
    /\ pc[w] = "complete"
    /\ cur[w].id \notin LockedByOthers(w)
    /\ status' = [status EXCEPT ![cur[w].id] = "DONE"]
    /\ \/ FinishJob(w)
       \/ pc' = [pc EXCEPT ![w] = "fail"] /\ UNCHANGED <<batch, cur>>
    /\ UNCHANGED <<attempts, due, inbox, history, outages>>

\* completeOutbox: by id alone, whatever the row has become meanwhile.
Complete(w) ==
    /\ pc[w] = "complete"
    /\ cur[w].id \notin LockedByOthers(w)
    /\ status' = [status EXCEPT ![cur[w].id] = "DONE"]
    /\ FinishJob(w)
    /\ UNCHANGED <<attempts, due, inbox, history, outages>>

\* retryDelayMs: RetryBase * 2^(n-1), at most RetryCap.
RetryDelay(n) == LET d == RetryBase * 2 ^ (n - 1) IN IF d \in 0..RetryCap THEN d ELSE RetryCap

\* Mutant: an event is given up one attempt early.
FailEarly(w) ==
    /\ pc[w] = "fail"
    /\ cur[w].id \notin LockedByOthers(w)
    /\ LET e == cur[w].id
           dead == cur[w].attempts >= MAX_ATTEMPTS - 1
       IN /\ status' = [status EXCEPT ![e] = IF dead THEN "FAILED" ELSE "PENDING"]
          /\ due' = IF dead THEN due ELSE [due EXCEPT ![e] = RetryDelay(cur[w].attempts)]
    /\ FinishJob(w)
    /\ UNCHANGED <<attempts, inbox, history, outages>>

\* failOutbox: decides on the snapshot, writes by id alone.
Fail(w) ==
    /\ pc[w] = "fail"
    /\ cur[w].id \notin LockedByOthers(w)
    /\ LET e == cur[w].id
           dead == cur[w].attempts >= MAX_ATTEMPTS
       IN /\ status' = [status EXCEPT ![e] = IF dead THEN "FAILED" ELSE "PENDING"]
          /\ due' = IF dead THEN due ELSE [due EXCEPT ![e] = RetryDelay(cur[w].attempts)]
    /\ FinishJob(w)
    /\ UNCHANGED <<attempts, inbox, history, outages>>

-----------------------------------------------------------------------------
(* What ends a batch or a worker early, and the clock. *)

Outage == outages < MaxOutages /\ outages' = outages + 1

\* The worker forgets its batch.  An open claim is rolled back with it.
Abandon(w) ==
    /\ batch' = [batch EXCEPT ![w] = {}]
    /\ cur' = [cur EXCEPT ![w] = NoJob]

\* A call outside the try block threw, or failOutbox inside the catch block
\* did: runBatch rejects, runLoop logs it and starts over after a pause.
BatchThrows(w) ==
    /\ pc[w] \in {"select", "claim", "fail"}
    /\ Outage
    /\ Abandon(w)
    /\ pc' = [pc EXCEPT ![w] = "idle"]
    /\ UNCHANGED <<rows, inbox, history>>

\* The database did what createNotifications or completeOutbox asked, but the
\* reply was lost: the worker sees an exception.  (A lost reply of the claim
\* or of failOutbox leaves what a crash right after the statement leaves.)
ReplyLost(w) ==
    /\ Outage
    /\ \/ /\ pc[w] = "notify"
          /\ inbox' = [inbox EXCEPT ![cur[w].id] = @ \cup {cur[w].attempts}]
          /\ UNCHANGED <<status, unheard>>
       \/ /\ pc[w] = "complete"
          /\ cur[w].id \notin LockedByOthers(w)
          /\ status' = [status EXCEPT ![cur[w].id] = "DONE"]
          /\ unheard' = unheard \cup {cur[w].id}
          /\ UNCHANGED inbox
    /\ pc' = [pc EXCEPT ![w] = "fail"]
    /\ UNCHANGED <<attempts, due, batch, cur, swept>>

\* The process dies.  A SIGTERM that finds the worker between two batches
\* ends it the same way; inside a batch it has no effect until the batch ends.
Crash(w) ==
    /\ pc[w] # "down"
    /\ Outage
    /\ Abandon(w)
    /\ pc' = [pc EXCEPT ![w] = "down"]
    /\ UNCHANGED <<rows, inbox, history>>

Restart(w) ==
    /\ pc[w] = "down"
    /\ pc' = [pc EXCEPT ![w] = "idle"]
    /\ UNCHANGED <<rows, batch, cur, inbox, history, outages>>

Tick ==
    /\ due' = [e \in Events |->
                 IF status[e] \in {"PENDING", "PROCESSING"} /\ due[e] >= -StuckAfter
                 THEN due[e] - 1 ELSE due[e]]
    /\ UNCHANGED <<status, attempts, workers, inbox, history, outages>>

-----------------------------------------------------------------------------
\* What a running worker does next, one awaited statement at a time.
WorkerStep(w) ==
    \/ RequeueStuck(w)
    \/ SelectBatch(w)
    \/ CommitClaim(w)
    \/ RunHandler(w)
    \/ HandlerThrows(w)
    \/ Notify(w)
    \/ StatementThrows(w)
    \/ Complete(w)
    \/ Fail(w)

Next ==
    \/ \E e \in Events : Enqueue(e)
    \/ \E w \in Workers : 
          \/ WorkerStep(w)
          \/ BatchThrows(w)
          \/ ReplyLost(w)
          \/ Crash(w)
          \/ Restart(w)
    \/ Tick

Spec == Init /\ [][Next]_vars

\* Time passes, a running worker goes on, and a dead one is started again by
\* its supervisor.  Nothing makes an event appear, fail or crash a worker.
Fairness ==
    /\ WF_vars(Tick)
    /\ \A w \in Workers : WF_vars(WorkerStep(w)) /\ WF_vars(Restart(w))

FairSpec == Spec /\ Fairness

-----------------------------------------------------------------------------
TypeOK ==
    /\ status \in [Events -> Statuses]
    /\ attempts \in [Events -> Nat]
    /\ due \in [Events -> Int]
    /\ pc \in [Workers -> Phases]
    /\ batch \in [Workers -> SUBSET Jobs]
    /\ cur \in [Workers -> Jobs \cup {NoJob}]
    /\ inbox \in [Events -> SUBSET Nat]
    /\ swept \in SUBSET Events
    /\ unheard \in SUBSET Events
    /\ outages \in 0..MaxOutages

\* A claim is in at most one worker's hands, ever: two workers that hold the
\* same event hold different claims of it, and none is newer than the row
\* (while a claim commits, the row is one behind).  This is what FOR UPDATE
\* SKIP LOCKED and `attempts + 1` give together (outbox.ts:41-64).
ClaimsAreExclusive ==
    /\ \A v, w \in Workers : v # w => batch[v] \cap batch[w] = {}
    /\ \A w \in Workers : \A j \in batch[w] :
          j.attempts <= attempts[j.id] + (IF pc[w] = "claim" THEN 1 ELSE 0)

\* "Without handing the same event to two of them" (outbox.ts:41-44), as far
\* as the code keeps it: until the stuck sweep takes an event from a claim,
\* one worker at most holds it.
OneHolderUntilSwept ==
    \A v, w \in Workers : v # w => Ids(batch[v]) \cap Ids(batch[w]) \subseteq swept

\* A claim writes the notifications of its event at most once, so an event
\* claimed n times notifies at most n times (runner.ts:96-125).
NotifiesOncePerClaim ==
    /\ \A e \in Events : inbox[e] \subseteq 1..attempts[e]
    /\ \A w \in Workers :
          pc[w] = "notify" => cur[w].attempts \notin inbox[cur[w].id]

\* completeOutbox and failOutbox name the row by id alone (outbox.ts:74-104),
\* yet a settled event stays as it is unless the sweep had given it to a
\* second worker or a completion went unheard.
SettledStays ==
    [][\A e \in Events :
          Settled(e) /\ e \notin swept \cup unheard => status'[e] = status[e]]_vars

\* A row in progress belongs to a worker, or it has been abandoned and only
\* the sweep can free it: until then nobody takes it, settles it or puts its
\* time off, whatever the other workers do (outbox.ts:58, 110-116).
AbandonedWaitsForSweep ==
    [][\A e \in Events :
          /\ status[e] = "PROCESSING"
          /\ e \notin UNION {Ids(batch[w]) : w \in Workers}
          => /\ status'[e] \in {"PROCESSING", "PENDING"} /\ due'[e] <= due[e]
             /\ e \notin UNION {Ids(batch'[w]) : w \in Workers}]_vars

\* What a row's status means to who wrote the event.
Fate(e) ==
    CASE status[e] = "NONE" -> "none"
      [] status[e] = "DONE" -> "done"
      [] status[e] = "FAILED" -> "parked"
      [] OTHER -> "open"

\* The outbox keeps the promise of EventDelivery.
Promise == INSTANCE EventDelivery WITH
    Heard <- {e \in Events : Handled(e)},
    Limit <- MAX_ATTEMPTS,
    fate <- [e \in Events |-> Fate(e)],
    tries <- attempts,
    told <- inbox

\* At-least-once delivery, step by step (data-flow.md:47): DONE only after
\* the notifications were written, FAILED only after MAX_ATTEMPTS claims.
KeepsPromise == Promise!Delivery

\* If outages end, every committed event is settled in the end, for good:
\* the sweep finds what crashed workers left and the attempts run out for
\* what keeps failing (runner.ts:127-130).
EventuallySettled == Promise!EachPostedIsClosed
=============================================================================
