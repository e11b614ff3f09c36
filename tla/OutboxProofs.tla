---------------------------- MODULE OutboxProofs ----------------------------
(***************************************************************************)
(* Proofs about Outbox, for any number of events and workers, any batch    *)
(* size, attempt limit, delays and clock.  The argument follows one job    *)
(* from its claim to its end: while the claim commits, the row is locked   *)
(* and PENDING; afterwards the row has counted the claim, and unless the   *)
(* sweep takes the event, nobody but the holder writes it.  Two holders of *)
(* one event hold different attempts, so what each writes is told apart.   *)
(***************************************************************************)
EXTENDS Outbox, FiniteSetTheorems, TLAPS

\* What holds of a job j in the hands of worker w.
JobOK(w, j) ==
    /\ status[j.id] # "NONE"
    /\ pc[w] = "claim" => status[j.id] = "PENDING" /\ j.attempts = attempts[j.id] + 1
    /\ pc[w] # "claim" => j.attempts <= attempts[j.id]
    /\ pc[w] # "claim" /\ j.id \notin swept =>
          \/ status[j.id] = "PROCESSING"
          \/ status[j.id] = "DONE" /\ j.id \in unheard
    /\ ~(cur[w] = j /\ pc[w] \in {"complete", "fail"}) => j.attempts \notin inbox[j.id]
    /\ cur[w] = j /\ pc[w] = "complete" /\ Handled(j.id) => inbox[j.id] # {}

JobsAreOK == \A w \in Workers : \A j \in batch[w] : JobOK(w, j)

\* Two workers with the same event hold different claims of it, the sweep has
\* taken it from one of them, and they do not both hold its row's lock.
HoldersDiffer ==
    \A v, w \in Workers : \A j \in batch[v], k \in batch[w] :
       v # w =>
          /\ j # k
          /\ j.id = k.id => j.id \in swept /\ ~(pc[v] = "claim" /\ pc[w] = "claim")

BatchesAreSound ==
    \A w \in Workers :
       /\ pc[w] \in {"notify", "complete", "fail"} => cur[w] \in batch[w]
       /\ \A j, k \in batch[w] : j.id = k.id => j = k

ToldByClaims == \A e \in Events : inbox[e] \subseteq 1..attempts[e]

IInv ==
    /\ TypeOK
    /\ BatchesAreSound
    /\ JobsAreOK
    /\ HoldersDiffer
    /\ ToldByClaims

-----------------------------------------------------------------------------
LEMMA DelayTyped == \A n : RetryDelay(n) \in Int
  <1>1. \A d : (IF d \in 0..RetryCap THEN d ELSE RetryCap) \in Int
    BY OutboxAssumption
  <1>2. QED
    BY <1>1, Zenon DEF RetryDelay

LEMMA JobTyped ==
    ASSUME TypeOK, NEW w \in Workers, NEW j \in batch[w]
    PROVE  j \in Jobs /\ j.id \in Events /\ j.attempts \in Nat \ {0}
  BY DEF TypeOK, Jobs

LEMMA JobForTyped ==
    ASSUME TypeOK, NEW e \in Events
    PROVE  JobFor(e) \in Jobs /\ JobFor(e).id = e /\ JobFor(e).attempts = attempts[e] + 1
  BY DEF TypeOK, JobFor, Jobs

\* While a worker is on a job, the job is one of its batch.
LEMMA CurTyped ==
    ASSUME TypeOK, BatchesAreSound, NEW w \in Workers,
           pc[w] \in {"notify", "complete", "fail"}
    PROVE  cur[w] \in batch[w] /\ cur[w].id \in Events /\ cur[w].attempts \in Nat \ {0}
  BY JobTyped DEF BatchesAreSound

\* What FinishJob and Abandon do to the workers' variables.
LEMMA FinishTyped ==
    ASSUME TypeOK, NEW w \in Workers, FinishJob(w)
    PROVE  /\ pc' \in [Workers -> Phases] /\ batch' \in [Workers -> SUBSET Jobs]
           /\ cur' \in [Workers -> Jobs \cup {NoJob}]
           /\ batch'[w] = batch[w] \ {cur[w]} /\ cur'[w] = NoJob
           /\ pc'[w] \in {"idle", "handle"}
           /\ \A v \in Workers \ {w} : batch'[v] = batch[v] /\ cur'[v] = cur[v] /\ pc'[v] = pc[v]
  BY DEF FinishJob, TypeOK, Phases

LEMMA TypeStep ==
    ASSUME TypeOK, BatchesAreSound, [Next]_vars
    PROVE  TypeOK'
  <1> USE DEF TypeOK, rows, workers, history
  <1>1. ASSUME NEW e \in Events, Enqueue(e)
        PROVE  TypeOK'
    BY <1>1 DEF Enqueue, Statuses
  <1>2. ASSUME NEW w \in Workers, RequeueStuck(w)
        PROVE  TypeOK'
    BY <1>2 DEF RequeueStuck, Statuses, Phases, Stuck
  <1>3. ASSUME NEW w \in Workers, SelectBatch(w)
        PROVE  TypeOK'
    <2>1. PICK S \in SUBSET Events :
             /\ batch' = [batch EXCEPT ![w] = {JobFor(e) : e \in S}]
             /\ pc' = [pc EXCEPT ![w] = IF S = {} THEN "idle" ELSE "claim"]
      BY <1>3 DEF SelectBatch
    <2>2. {JobFor(e) : e \in S} \in SUBSET Jobs
      BY JobForTyped
    <2>3. batch' \in [Workers -> SUBSET Jobs] /\ pc' \in [Workers -> Phases]
      BY <2>1, <2>2 DEF Phases
    <2>4. QED
      BY <1>3, <2>3 DEF SelectBatch
  <1>4. ASSUME NEW w \in Workers, CommitClaim(w)
        PROVE  TypeOK'
    BY <1>4 DEF CommitClaim, Statuses, Phases
  <1>5. ASSUME NEW w \in Workers, RunHandler(w) \/ HandlerThrows(w)
        PROVE  TypeOK'
    BY <1>5 DEF RunHandler, HandlerThrows, Phases
  <1>6. ASSUME NEW w \in Workers, Notify(w)
        PROVE  TypeOK'
    BY <1>6, CurTyped DEF Notify, Phases
  <1>7. ASSUME NEW w \in Workers, StatementThrows(w)
        PROVE  TypeOK'
    BY <1>7 DEF StatementThrows, Phases
  <1>8. ASSUME NEW w \in Workers, Complete(w)
        PROVE  TypeOK'
    BY <1>8, FinishTyped, CurTyped DEF Complete, Statuses
  <1>9. ASSUME NEW w \in Workers, Fail(w)
        PROVE  TypeOK'
    <2>1. status' \in [Events -> Statuses] /\ due' \in [Events -> Int]
      BY <1>9, CurTyped, DelayTyped DEF Fail, Statuses
    <2>2. QED
      BY <1>9, <2>1, FinishTyped DEF Fail
  <1>10. ASSUME NEW w \in Workers, BatchThrows(w) \/ Crash(w)
         PROVE  TypeOK'
    BY <1>10, OutboxAssumption DEF BatchThrows, Crash, Abandon, Outage, Phases
  <1>11. ASSUME NEW w \in Workers, ReplyLost(w)
         PROVE  TypeOK'
    BY <1>11, CurTyped, OutboxAssumption DEF ReplyLost, Outage, Phases, Statuses
  <1>12. ASSUME NEW w \in Workers, Restart(w)
         PROVE  TypeOK'
    BY <1>12 DEF Restart, Phases
  <1>13. CASE Tick
    BY <1>13 DEF Tick
  <1>14. CASE UNCHANGED vars
    BY <1>14 DEF vars
  <1>15. QED
    BY <1>1, <1>2, <1>3, <1>4, <1>5, <1>6, <1>7, <1>8, <1>9, <1>10, <1>11, <1>12, <1>13, <1>14
       DEF Next, WorkerStep

-----------------------------------------------------------------------------
(* How each action keeps the jobs sound. *)

Sound == BatchesAreSound /\ JobsAreOK /\ HoldersDiffer /\ ToldByClaims

\* A step that leaves a worker alone keeps its job sound if it leaves the
\* job's row alone too.
LEMMA JobKept ==
    ASSUME NEW w \in Workers, NEW j, JobOK(w, j),
           pc'[w] = pc[w], cur'[w] = cur[w],
           status'[j.id] = status[j.id], attempts'[j.id] = attempts[j.id],
           inbox'[j.id] = inbox[j.id], swept \subseteq swept', unheard \subseteq unheard'
    PROVE  JobOK(w, j)'
  BY DEF JobOK

LEMMA EnqueueSound ==
    ASSUME TypeOK, Sound, NEW e \in Events, Enqueue(e)
    PROVE  Sound'
  <1> USE DEF Sound, rows, workers, history
  <1>1. /\ pc' = pc /\ cur' = cur /\ batch' = batch /\ attempts' = attempts /\ inbox' = inbox
        /\ swept' = swept /\ unheard' = unheard
        /\ \A f \in Events \ {e} : status'[f] = status[f]
        /\ status[e] = "NONE"
    BY DEF Enqueue, TypeOK
  <1>2. ASSUME NEW w \in Workers, NEW j \in batch[w]
        PROVE  JobOK(w, j)'
    <2>1. JobOK(w, j) /\ j.id \in Events
      BY JobTyped DEF JobsAreOK
    <2>2. j.id # e
      BY <1>1, <2>1 DEF JobOK
    <2>3. QED
      BY <1>1, <2>1, <2>2, JobKept
  <1>3. QED
    BY <1>1, <1>2 DEF BatchesAreSound, JobsAreOK, HoldersDiffer, ToldByClaims

LEMMA RequeueSound ==
    ASSUME TypeOK, Sound, NEW w \in Workers, RequeueStuck(w)
    PROVE  Sound'
  <1> USE DEF Sound, rows, workers, history
  <1>1. /\ cur' = cur /\ batch' = batch /\ attempts' = attempts /\ inbox' = inbox
        /\ swept' = swept \cup Stuck /\ unheard' = unheard
        /\ \A f \in Events : status'[f] = IF f \in Stuck THEN "PENDING" ELSE status[f]
        /\ pc[w] = "idle" /\ pc'[w] = "select"
        /\ \A v \in Workers \ {w} : pc'[v] = pc[v]
    BY DEF RequeueStuck, TypeOK
  <1>2. \A f \in Stuck : status[f] = "PROCESSING"
    BY DEF Stuck, IsStuck
  <1>3. ASSUME NEW v \in Workers, NEW j \in batch[v]
        PROVE  JobOK(v, j)'
    <2>1. JobOK(v, j) /\ j.id \in Events
      BY JobTyped DEF JobsAreOK
    <2>2. QED
      BY <1>1, <1>2, <2>1 DEF JobOK
  <1>4. QED
    BY <1>1, <1>3 DEF BatchesAreSound, JobsAreOK, HoldersDiffer, ToldByClaims

LEMMA SelectSound ==
    ASSUME TypeOK, Sound, NEW w \in Workers, SelectBatch(w)
    PROVE  Sound'
  <1> USE DEF Sound, rows, workers, history
  <1>1. PICK S \in SUBSET Events :
           /\ S \subseteq Claimable(w)
           /\ batch' = [batch EXCEPT ![w] = {JobFor(e) : e \in S}]
           /\ pc' = [pc EXCEPT ![w] = IF S = {} THEN "idle" ELSE "claim"]
    BY DEF SelectBatch, OldestOf
  <1>2. UNCHANGED <<status, attempts, cur, inbox, swept, unheard>>
    BY DEF SelectBatch
  <1>3. /\ batch'[w] = {JobFor(e) : e \in S}
        /\ S # {} => pc'[w] = "claim"
        /\ pc'[w] \in {"idle", "claim"}
        /\ \A v \in Workers \ {w} : batch'[v] = batch[v] /\ pc'[v] = pc[v]
    BY <1>1 DEF TypeOK
  <1>4. ASSUME NEW j \in batch'[w]
        PROVE  /\ j.id \in S /\ j.attempts = attempts[j.id] + 1 /\ j = JobFor(j.id)
               /\ pc'[w] = "claim"
               /\ status[j.id] = "PENDING" /\ j.id \notin LockedByOthers(w)
    <2>1. PICK e \in S : j = JobFor(e)
      BY <1>3
    <2>2. j.id = e /\ j.attempts = attempts[e] + 1
      BY <2>1, JobForTyped
    <2>3. QED
      BY <1>1, <1>3, <2>1, <2>2 DEF Claimable
  <1>5. BatchesAreSound'
    <2>1. ASSUME NEW v \in Workers
          PROVE  /\ pc'[v] \in {"notify", "complete", "fail"} => cur'[v] \in batch'[v]
                 /\ \A j, k \in batch'[v] : j.id = k.id => j = k
      <3>1. CASE v = w
        BY <1>3, <1>4, <3>1
      <3>2. CASE v # w
        BY <1>2, <1>3, <3>2 DEF BatchesAreSound
      <3>3. QED
        BY <3>1, <3>2
    <2>2. QED
      BY <2>1 DEF BatchesAreSound
  <1>6. JobsAreOK'
    <2>1. ASSUME NEW j \in batch'[w]
          PROVE  JobOK(w, j)'
      <3>1. j.id \in Events /\ attempts[j.id] \in Nat /\ inbox[j.id] \subseteq 1..attempts[j.id]
        BY <1>4 DEF TypeOK, ToldByClaims
      <3>2. j.attempts \notin inbox[j.id]
        BY <1>4, <3>1
      <3>3. QED
        BY <1>2, <1>4, <3>2 DEF JobOK
    <2>2. ASSUME NEW v \in Workers \ {w}, NEW j \in batch'[v]
          PROVE  JobOK(v, j)'
      BY <1>2, <1>3, <2>2, JobKept DEF JobsAreOK
    <2>3. QED
      BY <2>1, <2>2 DEF JobsAreOK
  <1>7. ASSUME NEW v \in Workers \ {w}, NEW j \in batch'[v], NEW k \in batch'[w]
        PROVE  /\ j # k
               /\ j.id = k.id => j.id \in swept' /\ pc'[v] # "claim"
    <2>1. JobOK(v, j) /\ j \in batch[v] /\ j.id \in Events /\ j.attempts \in Nat
      BY <1>3, JobTyped DEF JobsAreOK
    <2>2. ASSUME j.id = k.id
          PROVE  pc[v] # "claim"
      <3>1. j.id \notin LockedByOthers(w)
        BY <1>4, <2>2
      <3>2. QED
        BY <2>1, <3>1 DEF LockedByOthers, Ids
    <2>3. j.id = k.id => j.attempts < k.attempts
      BY <1>4, <2>1, <2>2 DEF JobOK, TypeOK
    <2>4. j.id = k.id => j.id \in swept
      BY <1>4, <2>1, <2>2 DEF JobOK
    <2>5. QED
      BY <1>2, <1>3, <2>1, <2>2, <2>3, <2>4
  <1>8. HoldersDiffer'
    BY <1>2, <1>3, <1>7 DEF HoldersDiffer
  <1>9. ToldByClaims'
    BY <1>2 DEF ToldByClaims
  <1>10. QED
    BY <1>5, <1>6, <1>8, <1>9

LEMMA CommitSound ==
    ASSUME TypeOK, Sound, NEW w \in Workers, CommitClaim(w)
    PROVE  Sound'
  <1> USE DEF Sound, rows, workers, history
  <1>1. /\ UNCHANGED <<batch, cur, inbox, swept, unheard>>
        /\ pc[w] = "claim" /\ pc'[w] = "handle" /\ \A v \in Workers \ {w} : pc'[v] = pc[v]
        /\ \A e \in Events :
              /\ status'[e] = IF e \in Ids(batch[w]) THEN "PROCESSING" ELSE status[e]
              /\ attempts'[e] = IF e \in Ids(batch[w]) THEN attempts[e] + 1 ELSE attempts[e]
    BY DEF CommitClaim, TypeOK
  <1>2. ASSUME NEW j \in batch[w]
        PROVE  JobOK(w, j)'
    <2>1. JobOK(w, j) /\ j.id \in Events /\ j.id \in Ids(batch[w])
      BY JobTyped DEF JobsAreOK, Ids
    <2>2. QED
      BY <1>1, <2>1, JobTyped DEF JobOK
  <1>3. ASSUME NEW v \in Workers \ {w}, NEW j \in batch[v]
        PROVE  JobOK(v, j)'
    <2>1. JobOK(v, j) /\ j.id \in Events /\ j.attempts \in Nat /\ attempts[j.id] \in Nat
      BY JobTyped DEF JobsAreOK, TypeOK
    <2>2. CASE j.id \in Ids(batch[w])
      <3>1. pc[v] # "claim" /\ j.id \in swept
        BY <1>1, <2>2 DEF HoldersDiffer, Ids
      <3>2. QED
        BY <1>1, <2>1, <2>2, <3>1 DEF JobOK
    <2>3. CASE j.id \notin Ids(batch[w])
      BY <1>1, <2>1, <2>3, JobKept
    <2>4. QED
      BY <2>2, <2>3
  <1>4. JobsAreOK'
    BY <1>1, <1>2, <1>3 DEF JobsAreOK
  <1>5. BatchesAreSound' /\ HoldersDiffer'
    BY <1>1 DEF BatchesAreSound, HoldersDiffer
  <1>6. ToldByClaims'
    <2>1. ASSUME NEW e \in Events
          PROVE  inbox'[e] \subseteq 1..attempts'[e]
      BY <1>1 DEF ToldByClaims, TypeOK
    <2>2. QED
      BY <2>1 DEF ToldByClaims
  <1>7. QED
    BY <1>4, <1>5, <1>6

\* Picking a job, failing before a statement had an effect, restarting.
LEMMA LocalSound ==
    ASSUME TypeOK, Sound, NEW w \in Workers,
           RunHandler(w) \/ HandlerThrows(w) \/ StatementThrows(w) \/ Restart(w)
    PROVE  Sound'
  <1> USE DEF Sound, rows, workers, history
  <1>1. /\ UNCHANGED <<status, attempts, batch, inbox, swept, unheard>>
        /\ \A v \in Workers \ {w} : pc'[v] = pc[v] /\ cur'[v] = cur[v]
    BY DEF RunHandler, HandlerThrows, StatementThrows, Restart, TypeOK
  <1>2. /\ pc[w] \in {"handle", "notify", "complete", "down"}
        /\ pc'[w] \in {"notify", "complete", "fail", "idle"}
        /\ pc'[w] \in {"notify", "complete", "fail"} => cur'[w] \in batch[w]
        /\ pc'[w] = "complete" => ~Handled(cur'[w].id)
        /\ pc[w] \in {"notify", "complete"} => cur'[w] = cur[w] /\ pc'[w] = "fail"
    BY DEF RunHandler, HandlerThrows, StatementThrows, Restart, TypeOK, BatchesAreSound
  <1>3. ASSUME NEW j \in batch[w]
        PROVE  JobOK(w, j)'
    <2>1. JobOK(w, j)
      BY DEF JobsAreOK
    <2>2. QED
      BY <1>1, <1>2, <2>1 DEF JobOK
  <1>4. ASSUME NEW v \in Workers \ {w}, NEW j \in batch[v]
        PROVE  JobOK(v, j)'
    BY <1>1, JobKept DEF JobsAreOK
  <1>5. JobsAreOK'
    BY <1>1, <1>3, <1>4 DEF JobsAreOK
  <1>6. BatchesAreSound'
    BY <1>1, <1>2 DEF BatchesAreSound
  <1>7. HoldersDiffer'
    BY <1>1, <1>2 DEF HoldersDiffer
  <1>8. ToldByClaims'
    BY <1>1 DEF ToldByClaims
  <1>9. QED
    BY <1>5, <1>6, <1>7, <1>8

\* createNotifications took effect, whether its reply arrived or not.
LEMMA TellSound ==
    ASSUME TypeOK, Sound, NEW w \in Workers, pc[w] = "notify",
           inbox' = [inbox EXCEPT ![cur[w].id] = @ \cup {cur[w].attempts}],
           pc' = [pc EXCEPT ![w] = "complete"] \/ pc' = [pc EXCEPT ![w] = "fail"],
           UNCHANGED <<status, attempts, batch, cur, swept, unheard>>
    PROVE  Sound'
  <1> USE DEF Sound
  <1>1. /\ cur[w] \in batch[w] /\ cur[w].id \in Events /\ cur[w].attempts \in Nat \ {0}
        /\ JobOK(w, cur[w])
    BY CurTyped DEF JobsAreOK
  <1>2. /\ inbox'[cur[w].id] = inbox[cur[w].id] \cup {cur[w].attempts}
        /\ \A e \in Events \ {cur[w].id} : inbox'[e] = inbox[e]
        /\ pc'[w] \in {"complete", "fail"} /\ \A v \in Workers \ {w} : pc'[v] = pc[v]
    BY <1>1 DEF TypeOK
  <1>3. ASSUME NEW v \in Workers, NEW j \in batch[v], v # w \/ j # cur[w]
        PROVE  j.id # cur[w].id \/ j.attempts # cur[w].attempts
    <2>1. j \in Jobs /\ cur[w] \in Jobs
      BY <1>1, JobTyped
    <2>2. j # cur[w]
      BY <1>1, <1>3 DEF HoldersDiffer
    <2>3. QED
      BY <2>1, <2>2 DEF Jobs
  <1>4. ASSUME NEW v \in Workers, NEW j \in batch[v]
        PROVE  JobOK(v, j)'
    <2>1. JobOK(v, j) /\ j.id \in Events
      BY JobTyped DEF JobsAreOK
    <2>2. CASE v = w /\ j = cur[w]
      BY <1>1, <1>2, <2>1, <2>2 DEF JobOK
    <2>3. CASE v # w \/ j # cur[w]
      BY <1>1, <1>2, <1>3, <2>1, <2>3 DEF JobOK
    <2>4. QED
      BY <2>2, <2>3
  <1>5. JobsAreOK' /\ BatchesAreSound' /\ HoldersDiffer'
    BY <1>1, <1>2, <1>4 DEF JobsAreOK, BatchesAreSound, HoldersDiffer
  <1>6. ToldByClaims'
    <2>1. cur[w].attempts \in 1..attempts[cur[w].id]
      BY <1>1 DEF JobOK, TypeOK
    <2>2. QED
      BY <1>1, <1>2, <2>1 DEF ToldByClaims
  <1>7. QED
    BY <1>5, <1>6

\* A worker writes the row of the job it is on and finishes the job.
LEMMA FinishSound ==
    ASSUME TypeOK, Sound, NEW w \in Workers, pc[w] \in {"complete", "fail"},
           cur[w].id \notin LockedByOthers(w), FinishJob(w),
           NEW st \in Statuses \ {"NONE"}, status' = [status EXCEPT ![cur[w].id] = st],
           UNCHANGED <<attempts, inbox, swept, unheard>>
    PROVE  Sound'
  <1> USE DEF Sound
  <1>1. cur[w] \in batch[w] /\ cur[w].id \in Events
    BY CurTyped
  <1>2. /\ status'[cur[w].id] = st
        /\ \A e \in Events \ {cur[w].id} : status'[e] = status[e]
    BY <1>1 DEF TypeOK
  <1>3. /\ batch'[w] = batch[w] \ {cur[w]} /\ pc'[w] \in {"idle", "handle"}
        /\ \A v \in Workers \ {w} : batch'[v] = batch[v] /\ cur'[v] = cur[v] /\ pc'[v] = pc[v]
    BY FinishTyped
  <1>4. ASSUME NEW j \in batch'[w]
        PROVE  JobOK(w, j)'
    <2>1. /\ JobOK(w, j) /\ j \in batch[w] /\ j # cur[w] /\ j.id \in Events
      BY <1>3, JobTyped DEF JobsAreOK
    <2>2. j.id # cur[w].id
      BY <1>1, <2>1 DEF BatchesAreSound
    <2>3. QED
      BY <1>2, <1>3, <2>1, <2>2 DEF JobOK
  <1>5. ASSUME NEW v \in Workers \ {w}, NEW j \in batch'[v]
        PROVE  JobOK(v, j)'
    <2>1. JobOK(v, j) /\ j \in batch[v] /\ j.id \in Events
      BY <1>3, JobTyped DEF JobsAreOK
    <2>2. CASE j.id = cur[w].id
      <3>1. j.id \in swept
        BY <1>1, <2>1, <2>2 DEF HoldersDiffer
      <3>2. pc[v] # "claim"
        BY <2>1, <2>2 DEF LockedByOthers, Ids
      <3>3. QED
        BY <1>2, <1>3, <2>1, <2>2, <3>1, <3>2 DEF JobOK
    <2>3. CASE j.id # cur[w].id
      BY <1>2, <1>3, <2>1, <2>3, JobKept
    <2>4. QED
      BY <2>2, <2>3
  <1>6. JobsAreOK'
    BY <1>4, <1>5 DEF JobsAreOK
  <1>7. BatchesAreSound' /\ HoldersDiffer'
    BY <1>3 DEF BatchesAreSound, HoldersDiffer
  <1>8. ToldByClaims'
    BY DEF ToldByClaims
  <1>9. QED
    BY <1>6, <1>7, <1>8

LEMMA LostReplySound ==
    ASSUME TypeOK, Sound, NEW w \in Workers, ReplyLost(w)
    PROVE  Sound'
  <1> USE DEF Sound
  <1>1. /\ UNCHANGED <<attempts, batch, cur, swept>>
        /\ pc' = [pc EXCEPT ![w] = "fail"]
    BY DEF ReplyLost
  <1>2. CASE pc[w] = "notify"
    BY <1>1, <1>2, TellSound DEF ReplyLost
  <1>3. CASE pc[w] = "complete"
    <2>1. cur[w] \in batch[w] /\ cur[w].id \in Events
      BY <1>3, CurTyped
    <2>2. /\ status'[cur[w].id] = "DONE" /\ inbox' = inbox
          /\ \A e \in Events \ {cur[w].id} : status'[e] = status[e]
          /\ unheard' = unheard \cup {cur[w].id}
          /\ cur[w].id \notin LockedByOthers(w)
          /\ pc'[w] = "fail" /\ \A v \in Workers \ {w} : pc'[v] = pc[v]
      BY <1>1, <1>3, <2>1 DEF ReplyLost, TypeOK
    <2>3. ASSUME NEW v \in Workers, NEW j \in batch[v]
          PROVE  JobOK(v, j)'
      <3>1. JobOK(v, j) /\ j.id \in Events
        BY JobTyped DEF JobsAreOK
      <3>2. CASE v = w
        BY <1>1, <1>3, <2>2, <3>1, <3>2 DEF JobOK
      <3>3. CASE v # w /\ j.id = cur[w].id
        <4>1. pc[v] # "claim"
          BY <2>2, <3>3 DEF LockedByOthers, Ids
        <4>2. QED
          BY <1>1, <2>2, <3>1, <3>3, <4>1 DEF JobOK
      <3>4. CASE v # w /\ j.id # cur[w].id
        BY <1>1, <2>2, <3>1, <3>4, JobKept
      <3>5. QED
        BY <3>2, <3>3, <3>4
    <2>4. JobsAreOK' /\ BatchesAreSound' /\ HoldersDiffer' /\ ToldByClaims'
      BY <1>1, <2>1, <2>2, <2>3 DEF JobsAreOK, BatchesAreSound, HoldersDiffer, ToldByClaims
    <2>5. QED
      BY <2>4
  <1>4. QED
    BY <1>2, <1>3 DEF ReplyLost

LEMMA AbandonSound ==
    ASSUME TypeOK, Sound, NEW w \in Workers, BatchThrows(w) \/ Crash(w)
    PROVE  Sound'
  <1> USE DEF Sound, rows, workers, history
  <1>1. /\ UNCHANGED <<status, attempts, inbox, swept, unheard>>
        /\ batch'[w] = {} /\ pc'[w] \in {"idle", "down"}
        /\ \A v \in Workers \ {w} : batch'[v] = batch[v] /\ cur'[v] = cur[v] /\ pc'[v] = pc[v]
    BY DEF BatchThrows, Crash, Abandon, TypeOK
  <1>2. ASSUME NEW v \in Workers, NEW j \in batch'[v]
        PROVE  JobOK(v, j)'
    BY <1>1, JobKept DEF JobsAreOK
  <1>3. JobsAreOK'
    BY <1>2 DEF JobsAreOK
  <1>4. BatchesAreSound' /\ HoldersDiffer' /\ ToldByClaims'
    BY <1>1 DEF BatchesAreSound, HoldersDiffer, ToldByClaims
  <1>5. QED
    BY <1>3, <1>4

LEMMA SoundStep ==
    ASSUME TypeOK, Sound, [Next]_vars
    PROVE  Sound'
  <1> USE DEF rows, workers, history
  <1>1. ASSUME NEW w \in Workers, Notify(w)
        PROVE  Sound'
    BY <1>1, TellSound DEF Notify
  <1>2. ASSUME NEW w \in Workers, Complete(w)
        PROVE  Sound'
    BY <1>2, FinishSound DEF Complete, Statuses
  <1>3. ASSUME NEW w \in Workers, Fail(w)
        PROVE  Sound'
    <2>1. PICK st \in {"FAILED", "PENDING"} : status' = [status EXCEPT ![cur[w].id] = st]
      BY <1>3 DEF Fail
    <2>2. st \in Statuses \ {"NONE"}
      BY DEF Statuses
    <2>3. QED
      BY <1>3, <2>1, <2>2, FinishSound DEF Fail
  <1>4. CASE Tick \/ UNCHANGED vars
    <2>1. UNCHANGED <<status, attempts, pc, batch, cur, inbox, swept, unheard>>
      BY <1>4 DEF Tick, vars
    <2>2. QED
      BY <2>1 DEF Sound, BatchesAreSound, JobsAreOK, JobOK, HoldersDiffer, ToldByClaims
  <1>5. QED
    BY <1>1, <1>2, <1>3, <1>4, EnqueueSound, RequeueSound, SelectSound, CommitSound,
       LocalSound, LostReplySound, AbandonSound
       DEF Next, WorkerStep

LEMMA InitHolds == Init => IInv
  <1> SUFFICES ASSUME Init PROVE IInv
    OBVIOUS
  <1>1. TypeOK
    BY OutboxAssumption DEF Init, TypeOK, Statuses, Phases
  <1>2. BatchesAreSound /\ JobsAreOK /\ HoldersDiffer /\ ToldByClaims
    BY DEF Init, BatchesAreSound, JobsAreOK, HoldersDiffer, ToldByClaims
  <1>3. QED
    BY <1>1, <1>2 DEF IInv

LEMMA StepHolds == IInv /\ [Next]_vars => IInv'
  <1> SUFFICES ASSUME IInv, [Next]_vars PROVE IInv'
    OBVIOUS
  <1>1. TypeOK /\ Sound
    BY DEF IInv, Sound
  <1>2. TypeOK'
    BY <1>1, TypeStep DEF Sound
  <1>3. Sound'
    BY <1>1, SoundStep
  <1>4. QED
    BY <1>2, <1>3 DEF IInv, Sound

-----------------------------------------------------------------------------
(* What the workers keep in every behaviour, crashes and lost replies       *)
(* included.                                                                *)

\* Every job a worker of runner.ts holds stays sound: its row is committed,
\* locked while the claim commits, in progress afterwards, and told at most
\* once for its attempt.
THEOREM Inductive == Spec => []IInv
  BY InitHolds, StepHolds, PTL DEF Spec

\* The rows of outbox_events and the workers' batches have their types.
THEOREM TypeCorrect == Spec => []TypeOK
  <1>1. IInv => TypeOK
    BY DEF IInv
  <1>2. QED
    BY <1>1, Inductive, PTL

\* No two workers ever hold the same claim of an event, and none holds a
\* claim newer than the row (claimOutboxBatch, outbox.ts:41-64).
THEOREM ExclusiveClaims == Spec => []ClaimsAreExclusive
  <1>1. IInv => ClaimsAreExclusive
    <2> SUFFICES ASSUME IInv PROVE ClaimsAreExclusive
      OBVIOUS
    <2>1. ASSUME NEW v \in Workers, NEW w \in Workers, v # w
          PROVE  batch[v] \cap batch[w] = {}
      BY <2>1 DEF IInv, HoldersDiffer
    <2>2. ASSUME NEW w \in Workers, NEW j \in batch[w]
          PROVE  j.attempts <= attempts[j.id] + (IF pc[w] = "claim" THEN 1 ELSE 0)
      <3>1. JobOK(w, j) /\ j.attempts \in Nat /\ attempts[j.id] \in Nat
        BY JobTyped DEF IInv, JobsAreOK, TypeOK
      <3>2. QED
        BY <3>1 DEF JobOK
    <2>3. QED
      BY <2>1, <2>2 DEF ClaimsAreExclusive
  <1>2. QED
    BY <1>1, Inductive, PTL

\* Two workers hold the same event only after requeueStuckOutbox took it from
\* a claim (outbox.ts:41-44, 110-116): SKIP LOCKED alone keeps them apart.
THEOREM OneHolder == Spec => []OneHolderUntilSwept
  <1>1. IInv => OneHolderUntilSwept
    BY DEF IInv, HoldersDiffer, OneHolderUntilSwept, Ids
  <1>2. QED
    BY <1>1, Inductive, PTL

\* An event claimed n times notifies its recipients at most n times, however
\* the claims overlap (runner.ts:96-125).
THEOREM OncePerClaim == Spec => []NotifiesOncePerClaim
  <1>1. IInv => NotifiesOncePerClaim
    <2> SUFFICES ASSUME IInv PROVE NotifiesOncePerClaim
      OBVIOUS
    <2>1. ASSUME NEW w \in Workers, pc[w] = "notify"
          PROVE  cur[w].attempts \notin inbox[cur[w].id]
      <3>1. cur[w] \in batch[w] /\ JobOK(w, cur[w])
        BY <2>1, CurTyped DEF IInv, JobsAreOK
      <3>2. QED
        BY <2>1, <3>1 DEF JobOK
    <2>2. QED
      BY <2>1 DEF IInv, ToldByClaims, NotifiesOncePerClaim
  <1>2. QED
    BY <1>1, Inductive, PTL

-----------------------------------------------------------------------------
(* What a step may never do to a row. *)

\* The row of the job a worker is on, when it completes or fails the job.
LEMMA CurIsOpen ==
    ASSUME IInv, NEW w \in Workers, pc[w] \in {"complete", "fail"}
    PROVE  LET e == cur[w].id
           IN /\ e \in Events /\ cur[w] \in batch[w] /\ JobOK(w, cur[w])
              /\ e \in Ids(batch[w])
              /\ e \in swept \/ status[e] = "PROCESSING" \/ e \in unheard
  BY CurTyped DEF IInv, JobsAreOK, JobOK, Ids

LEMMA SettledStep ==
    ASSUME IInv, [Next]_vars, NEW e \in Events, Settled(e), e \notin swept \cup unheard
    PROVE  status'[e] = status[e]
  <1> USE DEF Settled, rows, workers, history
  <1>1. TypeOK
    BY DEF IInv
  <1>2. ASSUME NEW f \in Events, Enqueue(f)
        PROVE  status'[e] = status[e]
    BY <1>1, <1>2 DEF Enqueue, TypeOK
  <1>3. ASSUME NEW w \in Workers, RequeueStuck(w)
        PROVE  status'[e] = status[e]
    BY <1>3 DEF RequeueStuck, Stuck, IsStuck
  <1>4. ASSUME NEW w \in Workers, CommitClaim(w)
        PROVE  status'[e] = status[e]
    <2>1. pc[w] = "claim"
      BY <1>4 DEF CommitClaim
    <2>2. e \notin Ids(batch[w])
      BY <2>1 DEF IInv, JobsAreOK, JobOK, Ids
    <2>3. QED
      BY <1>4, <2>2 DEF CommitClaim
  <1>5. ASSUME NEW w \in Workers, Complete(w) \/ Fail(w) \/ ReplyLost(w)
        PROVE  status'[e] = status[e]
    <2>1. pc[w] \in {"notify", "complete", "fail"}
      BY <1>5 DEF Complete, Fail, ReplyLost
    <2>2. pc[w] \in {"complete", "fail"} => cur[w].id # e
      BY CurIsOpen
    <2>3. QED
      BY <1>1, <1>5, <2>1, <2>2 DEF Complete, Fail, ReplyLost, TypeOK
  <1>6. ASSUME NEW w \in Workers,
               \/ SelectBatch(w) \/ RunHandler(w) \/ HandlerThrows(w) \/ Notify(w)
               \/ StatementThrows(w) \/ BatchThrows(w) \/ Crash(w) \/ Restart(w)
        PROVE  status'[e] = status[e]
    BY <1>6 DEF SelectBatch, RunHandler, HandlerThrows, Notify, StatementThrows,
                BatchThrows, Crash, Restart
  <1>7. CASE Tick \/ UNCHANGED vars
    BY <1>7 DEF Tick, vars
  <1>8. QED
    BY <1>2, <1>3, <1>4, <1>5, <1>6, <1>7 DEF Next, WorkerStep

\* completeOutbox and failOutbox write by id alone (outbox.ts:74-104), yet no
\* step ever changes a settled event that the sweep never took and whose
\* completion was heard.
THEOREM SettledForGood == Spec => SettledStays
  <1>1. IInv /\ [Next]_vars =>
           [\A e \in Events :
              Settled(e) /\ e \notin swept \cup unheard => status'[e] = status[e]]_vars
    BY SettledStep
  <1>2. QED
    BY <1>1, Inductive, PTL DEF Spec, SettledStays

\* An event in progress that no worker holds.
Abandoned(e) ==
    /\ status[e] = "PROCESSING"
    /\ e \notin UNION {Ids(batch[w]) : w \in Workers}

\* What may become of it in one step.
OnlySwept(e) ==
    /\ status'[e] \in {"PROCESSING", "PENDING"} /\ due'[e] <= due[e]
    /\ e \notin UNION {Ids(batch'[w]) : w \in Workers}

LEMMA AbandonedStep ==
    ASSUME IInv, [Next]_vars, NEW e \in Events, Abandoned(e)
    PROVE  OnlySwept(e)
  <1> USE DEF rows, workers, history
  <1>1. /\ TypeOK /\ due[e] \in Int /\ status[e] = "PROCESSING"
        /\ \A v \in Workers : e \notin Ids(batch[v])
    BY DEF IInv, TypeOK, Abandoned
  <1>2. SUFFICES /\ status'[e] \in {"PROCESSING", "PENDING"} /\ due'[e] <= due[e]
                 /\ \A v \in Workers : e \notin Ids(batch'[v])
    BY DEF OnlySwept
  <1>3. ASSUME NEW f \in Events, Enqueue(f)
        PROVE  /\ status'[e] = status[e] /\ due'[e] = due[e] /\ batch' = batch
    BY <1>1, <1>3 DEF Enqueue, TypeOK
  <1>4. ASSUME NEW w \in Workers, RequeueStuck(w)
        PROVE  /\ status'[e] \in {"PROCESSING", "PENDING"} /\ due'[e] = due[e] /\ batch' = batch
    BY <1>1, <1>4 DEF RequeueStuck
  <1>5. ASSUME NEW w \in Workers, SelectBatch(w)
        PROVE  /\ status'[e] = status[e] /\ due'[e] = due[e]
               /\ \A v \in Workers : e \notin Ids(batch'[v])
    <2>1. PICK S \in SUBSET Events :
             S \subseteq Claimable(w) /\ batch' = [batch EXCEPT ![w] = {JobFor(f) : f \in S}]
      BY <1>5 DEF SelectBatch, OldestOf
    <2>2. e \notin S
      BY <1>1, <2>1 DEF Claimable
    <2>3. e \notin Ids({JobFor(f) : f \in S})
      BY <2>2 DEF Ids, JobFor
    <2>4. QED
      BY <1>1, <1>5, <2>1, <2>3 DEF SelectBatch, TypeOK
  <1>6. ASSUME NEW w \in Workers, CommitClaim(w)
        PROVE  /\ status'[e] = status[e] /\ due'[e] = due[e] /\ batch' = batch
    BY <1>1, <1>6 DEF CommitClaim
  <1>7. ASSUME NEW w \in Workers, Complete(w) \/ Fail(w)
        PROVE  /\ status'[e] = status[e] /\ due'[e] = due[e]
               /\ \A v \in Workers : e \notin Ids(batch'[v])
    <2>1. pc[w] \in {"complete", "fail"} /\ FinishJob(w)
      BY <1>7 DEF Complete, Fail
    <2>2. cur[w].id # e
      BY <1>1, <2>1, CurIsOpen
    <2>3. \A v \in Workers : e \notin Ids(batch'[v])
      BY <1>1, <2>1 DEF FinishJob, TypeOK, Ids
    <2>4. QED
      BY <1>1, <1>7, <2>2, <2>3 DEF Complete, Fail, TypeOK
  <1>8. ASSUME NEW w \in Workers, ReplyLost(w)
        PROVE  /\ status'[e] = status[e] /\ due'[e] = due[e] /\ batch' = batch
    <2>1. pc[w] = "complete" => cur[w].id # e
      BY <1>1, CurIsOpen
    <2>2. QED
      BY <1>1, <1>8, <2>1 DEF ReplyLost, TypeOK
  <1>9. ASSUME NEW w \in Workers, BatchThrows(w) \/ Crash(w)
         PROVE  /\ status'[e] = status[e] /\ due'[e] = due[e]
                /\ \A v \in Workers : e \notin Ids(batch'[v])
    BY <1>1, <1>9 DEF BatchThrows, Crash, Abandon, TypeOK, Ids
  <1>10. ASSUME NEW w \in Workers,
                \/ RunHandler(w) \/ HandlerThrows(w) \/ Notify(w)
                \/ StatementThrows(w) \/ Restart(w)
         PROVE  /\ status'[e] = status[e] /\ due'[e] = due[e] /\ batch' = batch
    BY <1>10 DEF RunHandler, HandlerThrows, Notify, StatementThrows, Restart
  <1>11. CASE Tick \/ UNCHANGED vars
    BY <1>1, <1>11 DEF Tick, vars
  <1>12. QED
    BY <1>1, <1>3, <1>4, <1>5, <1>6, <1>7, <1>8, <1>9, <1>10, <1>11 DEF Next, WorkerStep

\* A row a crashed worker left in progress is never taken, settled or put off
\* by another worker: only requeueStuckOutbox frees it (outbox.ts:58, 110-116).
THEOREM AbandonedIsLeftAlone == Spec => AbandonedWaitsForSweep
  <1>1. IInv /\ [Next]_vars =>
           [\A e \in Events : Abandoned(e) => OnlySwept(e)]_vars
    BY AbandonedStep
  <1>2. IInv /\ [Next]_vars =>
           [\A e \in Events :
              /\ status[e] = "PROCESSING"
              /\ e \notin UNION {Ids(batch[w]) : w \in Workers}
              => /\ status'[e] \in {"PROCESSING", "PENDING"} /\ due'[e] <= due[e]
                 /\ e \notin UNION {Ids(batch'[w]) : w \in Workers}]_vars
    BY <1>1 DEF Abandoned, OnlySwept
  <1>3. QED
    BY <1>2, Inductive, PTL DEF Spec, AbandonedWaitsForSweep

-----------------------------------------------------------------------------
(* The outbox implements EventDelivery: each statement of a worker is one   *)
(* step of the promise, or none.                                            *)

fateOf == [e \in Events |-> Fate(e)]

LEMMA FateIs ==
    ASSUME TypeOK, NEW e \in Events
    PROVE  /\ status[e] = "NONE" => fateOf[e] = "none"
           /\ status[e] = "DONE" => fateOf[e] = "done"
           /\ status[e] = "FAILED" => fateOf[e] = "parked"
           /\ status[e] \in {"PENDING", "PROCESSING"} => fateOf[e] = "open"
  BY DEF fateOf, Fate

LEMMA FateBecomes ==
    ASSUME TypeOK', NEW e \in Events
    PROVE  /\ status'[e] = "DONE" => fateOf'[e] = "done"
           /\ status'[e] = "FAILED" => fateOf'[e] = "parked"
           /\ status'[e] \in {"PENDING", "PROCESSING"} => fateOf'[e] = "open"
  BY DEF fateOf, Fate

\* A row written alone changes no other event's fate.
LEMMA FateMoves ==
    ASSUME NEW e \in Events, \A f \in Events \ {e} : status'[f] = status[f]
    PROVE  fateOf' = [fateOf EXCEPT ![e] = fateOf'[e]]
  BY DEF fateOf, Fate

\* Rows that stay open, or as they are, keep every fate.
LEMMA FateKept ==
    ASSUME TypeOK, TypeOK',
           \A f \in Events :
              \/ status'[f] = status[f]
              \/ {status[f], status'[f]} \subseteq {"PENDING", "PROCESSING"}
    PROVE  fateOf' = fateOf
  <1>1. ASSUME NEW f \in Events
        PROVE  fateOf'[f] = fateOf[f]
    <2>1. CASE status'[f] = status[f]
      BY <2>1 DEF fateOf, Fate
    <2>2. CASE {status[f], status'[f]} \subseteq {"PENDING", "PROCESSING"}
      BY <2>2, FateIs, FateBecomes
    <2>3. QED
      BY <2>1, <2>2
  <1>2. QED
    BY <1>1 DEF fateOf

\* The steps of the promise, named here for the proofs below.
Step == Promise!DeliveryNext \/ UNCHANGED <<fateOf, attempts, inbox>>

LEMMA TellSteps ==
    ASSUME IInv, IInv', NEW w \in Workers, pc[w] = "notify",
           inbox' = [inbox EXCEPT ![cur[w].id] = @ \cup {cur[w].attempts}],
           UNCHANGED <<status, attempts>>
    PROVE  Step
  <1>1. /\ TypeOK /\ cur[w].id \in Events /\ JobOK(w, cur[w])
        /\ cur[w].attempts \in Nat \ {0} /\ attempts[cur[w].id] \in Nat
    BY CurTyped DEF IInv, JobsAreOK, TypeOK
  <1>2. cur[w].attempts \in (1..attempts[cur[w].id]) \ inbox[cur[w].id]
    BY <1>1 DEF JobOK
  <1>3. fateOf[cur[w].id] # "none"
    BY <1>1, FateIs DEF JobOK, TypeOK, Statuses
  <1>4. fateOf' = fateOf
    BY DEF fateOf, Fate
  <1>5. Promise!Tell(cur[w].id)
    BY <1>1, <1>2, <1>3, <1>4 DEF Promise!Tell, fateOf
  <1>6. QED
    BY <1>1, <1>5 DEF Step, Promise!DeliveryNext

\* A worker on its last statement has counted a try and, if anyone listens,
\* told them.
LEMMA FinishSteps ==
    ASSUME IInv, IInv', NEW w \in Workers, pc[w] = "complete",
           status' = [status EXCEPT ![cur[w].id] = "DONE"],
           UNCHANGED <<attempts, inbox>>
    PROVE  Step
  <1> DEFINE e == cur[w].id
  <1>1. /\ TypeOK /\ TypeOK' /\ e \in Events /\ JobOK(w, cur[w])
        /\ cur[w].attempts \in Nat \ {0} /\ attempts[e] \in Nat
    BY CurTyped DEF IInv, JobsAreOK, TypeOK
  <1>2. attempts[e] > 0 /\ (Handled(e) => inbox[e] # {})
    BY <1>1 DEF JobOK
  <1>3. fateOf' = [fateOf EXCEPT ![e] = "done"]
    BY <1>1, FateMoves, FateBecomes DEF TypeOK
  <1>4. Promise!Finish(e)
    BY <1>1, <1>2, <1>3 DEF Promise!Finish, fateOf
  <1>5. QED
    BY <1>1, <1>4 DEF Step, Promise!DeliveryNext

LEMMA FailSteps ==
    ASSUME IInv, IInv', NEW w \in Workers, Fail(w)
    PROVE  Step
  <1> DEFINE e == cur[w].id
             dead == cur[w].attempts >= MAX_ATTEMPTS
  <1>1. /\ TypeOK /\ TypeOK' /\ e \in Events /\ JobOK(w, cur[w]) /\ pc[w] = "fail"
        /\ cur[w].attempts \in Nat \ {0} /\ attempts[e] \in Nat
    BY CurTyped DEF Fail, IInv, JobsAreOK, TypeOK
  <1>2. attempts[e] > 0 /\ cur[w].attempts <= attempts[e] /\ status[e] \in Statuses \ {"NONE"}
    BY <1>1 DEF JobOK, TypeOK
  <1>3. UNCHANGED <<attempts, inbox>> /\ status' = [status EXCEPT ![e] = IF dead THEN "FAILED" ELSE "PENDING"]
    BY DEF Fail
  <1>4. fateOf' = [fateOf EXCEPT ![e] = fateOf'[e]]
    BY <1>1, <1>3, FateMoves DEF TypeOK
  <1>5. CASE dead
    <2>1. fateOf'[e] = "parked"
      BY <1>1, <1>3, <1>5, FateBecomes DEF TypeOK
    <2>2. attempts[e] >= MAX_ATTEMPTS
      BY <1>1, <1>2, <1>5, OutboxAssumption
    <2>3. Promise!GiveUp(e)
      BY <1>3, <1>4, <2>1, <2>2 DEF Promise!GiveUp, fateOf
    <2>4. QED
      BY <1>1, <2>3 DEF Step, Promise!DeliveryNext
  <1>6. CASE ~dead /\ status[e] \in {"DONE", "FAILED"}
    <2>1. fateOf'[e] = "open" /\ fateOf[e] \in {"done", "parked"}
      BY <1>1, <1>3, <1>6, FateBecomes, FateIs DEF TypeOK
    <2>2. Promise!Reopen(e)
      BY <1>2, <1>3, <1>4, <2>1 DEF Promise!Reopen, fateOf
    <2>3. QED
      BY <1>1, <2>2 DEF Step, Promise!DeliveryNext
  <1>7. CASE ~dead /\ status[e] \in {"PENDING", "PROCESSING"}
    <2>1. fateOf' = fateOf
      BY <1>1, <1>3, <1>7, FateKept DEF TypeOK
    <2>2. QED
      BY <1>3, <2>1 DEF Step
  <1>8. QED
    BY <1>2, <1>5, <1>6, <1>7 DEF Statuses

LEMMA PromiseStep ==
    ASSUME IInv, IInv', [Next]_vars
    PROVE  Step
  <1> USE DEF rows, workers, history
  <1>1. TypeOK /\ TypeOK'
    BY DEF IInv
  <1>2. ASSUME NEW e \in Events, Enqueue(e)
        PROVE  Step
    <2>1. fateOf[e] = "none" /\ fateOf' = [fateOf EXCEPT ![e] = "open"]
      BY <1>1, <1>2, FateIs, FateMoves, FateBecomes DEF Enqueue, TypeOK
    <2>2. Promise!Post(e)
      BY <1>2, <2>1 DEF Enqueue, Promise!Post, fateOf
    <2>3. QED
      BY <2>2 DEF Step, Promise!DeliveryNext
  <1>3. ASSUME NEW w \in Workers, RequeueStuck(w)
        PROVE  Step
    <2>1. fateOf' = fateOf
      BY <1>1, <1>3, FateKept DEF RequeueStuck, Stuck, IsStuck
    <2>2. QED
      BY <1>3, <2>1 DEF RequeueStuck, Step
  <1>4. ASSUME NEW w \in Workers, CommitClaim(w)
        PROVE  Step
    <2> DEFINE S == Ids(batch[w])
    <2>1. S \in SUBSET Events /\ \A e \in S : status[e] = "PENDING"
      <3>1. pc[w] = "claim"
        BY <1>4 DEF CommitClaim
      <3>2. \A j \in batch[w] : j.id \in Events /\ status[j.id] = "PENDING"
        BY <1>1, <3>1, JobTyped DEF IInv, JobsAreOK, JobOK
      <3>3. QED
        BY <3>2 DEF Ids
    <2>2. fateOf' = fateOf /\ \A e \in S : fateOf[e] = "open"
      BY <1>1, <1>4, <2>1, FateKept, FateIs DEF CommitClaim
    <2>3. Promise!Take(S)
      BY <1>4, <2>1, <2>2 DEF CommitClaim, Promise!Take, fateOf
    <2>4. QED
      BY <2>1, <2>3 DEF Step, Promise!DeliveryNext
  <1>5. ASSUME NEW w \in Workers, Notify(w)
        PROVE  Step
    BY <1>5, TellSteps DEF Notify
  <1>6. ASSUME NEW w \in Workers, Complete(w)
        PROVE  Step
    BY <1>6, FinishSteps DEF Complete
  <1>7. ASSUME NEW w \in Workers, ReplyLost(w)
        PROVE  Step
    BY <1>7, TellSteps, FinishSteps DEF ReplyLost
  <1>8. ASSUME NEW w \in Workers,
               \/ SelectBatch(w) \/ RunHandler(w) \/ HandlerThrows(w)
               \/ StatementThrows(w) \/ BatchThrows(w) \/ Crash(w) \/ Restart(w)
        PROVE  Step
    <2>1. UNCHANGED <<status, attempts, inbox>>
      BY <1>8 DEF SelectBatch, RunHandler, HandlerThrows, StatementThrows, BatchThrows,
                  Crash, Restart
    <2>2. QED
      BY <2>1 DEF Step, fateOf, Fate
  <1>9. CASE Tick \/ UNCHANGED vars
    <2>1. UNCHANGED <<status, attempts, inbox>>
      BY <1>9 DEF Tick, vars
    <2>2. QED
      BY <2>1 DEF Step, fateOf, Fate
  <1>10. QED
    BY <1>2, <1>3, <1>4, <1>5, <1>6, <1>7, <1>8, <1>9, FailSteps DEF Next, WorkerStep

\* Whatever workers, clocks, crashes and lost replies do, the outbox keeps the
\* safety half of EventDelivery: an event is DONE only after its recipients
\* were told, FAILED only after MAX_ATTEMPTS claims, and each telling belongs
\* to a claim of its own (runner.ts:90-141, outbox.ts:41-116).
THEOREM OutboxKeepsPromise == Spec => KeepsPromise
  <1>1. Init => Promise!DeliveryInit
    BY DEF Init, Promise!DeliveryInit, Fate
  <1>2. IInv /\ IInv' /\ [Next]_vars => [Promise!DeliveryNext]_(Promise!delivery)
    BY PromiseStep DEF Step, Promise!delivery, fateOf
  <1>3. QED
    BY <1>1, <1>2, Inductive, PTL DEF Spec, KeepsPromise, Promise!Delivery

=============================================================================
