-------------------------- MODULE DocumentNumbers ---------------------------
(***************************************************************************)
(* The numbers of one workspace's documents of one kind: the locked row of *)
(* `sequences` (packages/db/src/platform/sequences.ts), the arithmetic of  *)
(* packages/domain/src/numbering/document-number.ts, and the transaction   *)
(* of createLead (packages/db/src/crm/leads.ts) that uses them.            *)
(*                                                                         *)
(* A request fixes its date first, then waits for the row; the year may    *)
(* change while it waits.  What it writes is seen when it commits.  The    *)
(* unique index on (organization, number) refuses a number that is taken.  *)
(***************************************************************************)
EXTENDS Naturals

CONSTANTS
    Creations,    \* createLead calls that may be in flight at once
    FirstYear,
    LastYear,     \* bound: the last year a behaviour reaches
    ResetYearly,  \* the row's reset_yearly
    MaxValue      \* bound: the largest number a behaviour issues

NoYear == 0       \* the year of a number that does not print one

ASSUME NumbersAssumption ==
    /\ FirstYear \in Nat \ {NoYear}
    /\ LastYear \in Nat
    /\ FirstYear <= LastYear
    /\ ResetYearly \in BOOLEAN
    /\ MaxValue \in Nat

VARIABLES
    clock,        \* the current year
    row,          \* the committed sequence row: next_value and year
    issued,       \* the numbers of committed documents, as <<year, value>>
    creation      \* creation[r]: phase, the year of its date, the row it has locked

numbersVars == <<clock, row, issued, creation>>

Years == FirstYear..LastYear
SequenceState == [nextValue : Nat \ {0}, year : Years]
Fresh == [nextValue |-> 1, year |-> FirstYear]
NoCreation == [phase |-> "idle", now |-> FirstYear, state |-> Fresh]
At(r, phase) == creation[r].phase = phase

\* provisionRolesAndSequences: the row starts at one, in the workspace's first year.
NumbersInit ==
    /\ clock = FirstYear
    /\ row = Fresh
    /\ issued = {}
    /\ creation = [r \in Creations |-> NoCreation]

-----------------------------------------------------------------------------
(* allocate(state, now). *)

Rollover(state, now) == ResetYearly /\ state.year # now

Value(state, now) == IF Rollover(state, now) THEN 1 ELSE state.nextValue

\* formatDocumentNumber tells numbers apart by year and value; without a
\* yearly reset the year is not printed.
Number(state, now) == <<IF ResetYearly THEN now ELSE NoYear, Value(state, now)>>

NextState(state, now) ==
    [nextValue |-> Value(state, now) + 1,
     year |-> IF ResetYearly THEN now ELSE state.year]

-----------------------------------------------------------------------------
(* createLead, statement by statement. *)

\* The transaction is open and nextDocumentNumber is called: `now` is taken.
Begin(r) ==
    /\ At(r, "idle")
    /\ creation' = [creation EXCEPT ![r] = [phase |-> "waiting", now |-> clock,
                    state |-> Fresh]]
    /\ UNCHANGED <<clock, row, issued>>

\* Mutant: the row is read without FOR UPDATE.
SelectUnlocked(r) ==
    /\ At(r, "waiting")
    /\ creation' = [creation EXCEPT ![r] = [phase |-> "numbered",
                    now |-> creation[r].now, state |-> row]]
    /\ UNCHANGED <<clock, row, issued>>

\* SELECT ... FOR UPDATE returns once nobody else holds the row.
SelectForUpdate(r) ==
    /\ At(r, "waiting")
    /\ \A s \in Creations : ~At(s, "numbered")
    /\ creation' = [creation EXCEPT ![r] = [phase |-> "numbered",
                    now |-> creation[r].now, state |-> row]]
    /\ UNCHANGED <<clock, row, issued>>

NumberOf(r) == Number(creation[r].state, creation[r].now)

\* The sequence update, the insert and the audit row commit together.
CommitLead(r) ==
    /\ At(r, "numbered")
    /\ NumberOf(r) \notin issued
    /\ NumberOf(r)[2] <= MaxValue
    /\ row' = NextState(creation[r].state, creation[r].now)
    /\ issued' = issued \cup {NumberOf(r)}
    /\ creation' = [creation EXCEPT ![r] = NoCreation]
    /\ UNCHANGED clock

\* The insert hits the unique index: the transaction rolls back, and the
\* number is released with it.
Collide(r) ==
    /\ At(r, "numbered")
    /\ NumberOf(r) \in issued
    /\ creation' = [creation EXCEPT ![r] = NoCreation]
    /\ UNCHANGED <<clock, row, issued>>

\* Mutant: the sequence row is advanced outside the caller's transaction.
RollBackKeepsNumber(r) ==
    /\ ~At(r, "idle")
    /\ row' = IF At(r, "numbered") THEN NextState(creation[r].state, creation[r].now) ELSE row
    /\ creation' = [creation EXCEPT ![r] = NoCreation]
    /\ UNCHANGED <<clock, issued>>

\* Any other failure before the commit: a foreign key, a timeout, a crash.
RollBack(r) ==
    /\ ~At(r, "idle")
    /\ creation' = [creation EXCEPT ![r] = NoCreation]
    /\ UNCHANGED <<clock, row, issued>>

NewYear ==
    /\ clock < LastYear
    /\ clock' = clock + 1
    /\ UNCHANGED <<row, issued, creation>>

-----------------------------------------------------------------------------
NumbersNext ==
    \/ \E r \in Creations :
          \/ Begin(r)
          \/ SelectForUpdate(r)
          \/ CommitLead(r)
          \/ Collide(r)
          \/ RollBack(r)
    \/ NewYear

NumbersSpec == NumbersInit /\ [][NumbersNext]_numbersVars

-----------------------------------------------------------------------------
Creation == [phase : {"idle", "waiting", "numbered"}, now : Years, state : SequenceState]

NumbersTypeOK ==
    /\ clock \in Years
    /\ row \in SequenceState
    /\ issued \subseteq (Years \cup {NoYear}) \X (Nat \ {0})
    /\ creation \in [Creations -> Creation]

\* "Lead numbers are gap-free" (docs/phases/06-crm.md:147; sequences.ts:5-12): below
\* a number of some year, every number of that year is a committed document's,
\* whatever rolled back on the way and however the years changed.
GapFree ==
    \A n \in issued : \A v \in 1..n[2] : <<n[1], v>> \in issued

\* A number is taken already only where the request's date and the row it locked
\* are of different years and numbers restart yearly: a request that waited for
\* the row over New Year, or one whose year the row had before.  Otherwise creating
\* never fails on a number, however many requests queue (sequences.ts:8-10).
CollidesOnlyAtRollover ==
    \A r \in Creations :
       At(r, "numbered") /\ NumberOf(r) \in issued =>
          ResetYearly /\ creation[r].state.year # creation[r].now
=============================================================================
