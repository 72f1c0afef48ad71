------------------------------- MODULE Budgets -------------------------------
(***************************************************************************)
(* The block budgets of one owner in one period: per counter key a spend    *)
(* counter and a pending total in Redis, recomputed by the reconciler from  *)
(* the ledger and from the batch rows, read by the gate of synchronous      *)
(* requests, and changed by the reservations of batch jobs.  One Redis      *)
(* script, one SQL statement and one upstream call is one action.  Cost is  *)
(* postpaid: it reaches the ledger after the call was admitted.             *)
(***************************************************************************)
EXTENDS Integers, Sequences, FiniteSetsExt, Functions

CONSTANTS
  Keys,         \* counter keys: one per scope and window of the owner's budgets
  Amount,       \* per key, the smallest amount of the budgets that share it
  Jobs,         \* batch jobs
  Requests,     \* synchronous requests
  KeysOf,       \* per job or request, the keys that govern it, each once, in row order
  Ceiling,      \* per job, its reserved ceiling
  Order,        \* the keys in the order the reconciler walks the budgets
  Costs,        \* what a request, or a job's results, may cost
  Occurrences,  \* reconciler runs that may overlap (two instances' workers)
  FailOpen,     \* BUDGET_FAIL_OPEN
  MaxFaults     \* bound on Redis faults and aborted occurrences

ASSUME BudgetAssumption ==
  /\ IsFiniteSet(Jobs) /\ IsFiniteSet(Keys)
  /\ Amount \in [Keys -> Nat]
  /\ Ceiling \in [Jobs -> Nat \ {0}]
  /\ KeysOf \in [Jobs \cup Requests -> Seq(Keys)]
  /\ \A x \in Jobs \cup Requests : IsInjective(KeysOf[x])
  /\ Order \in Seq(Keys) /\ Range(Order) = Keys
  /\ Costs \subseteq Nat
  /\ FailOpen \in BOOLEAN
  /\ MaxFaults \in Nat

VARIABLES
  ledger,   \* metered spend per key in the request log
  row,      \* the batch rows, as far as the reservation read tells them apart
  spend,    \* the spend counters; a missing key reads as 0
  pending,  \* the pending totals
  fresh,    \* whether the reconcile heartbeat is younger than BUDGET_STALE_MS
  req,      \* where each request is
  submit,   \* where each job's submission is
  held,     \* the keys a submission has reserved and not rolled back
  todo,     \* the keys a submission's loop has left
  poll,     \* the keys the poller still releases for a job that ended
  occ,      \* the reconciler runs
  faults,   \* faults so far
  counted,  \* history: the jobs whose ceiling the pending total contains
  blurred   \* history: the total may lack a job (Released, WritePending)

redis   == <<spend, pending, fresh>>
jobs    == <<row, submit, held, todo, poll>>
history == <<counted, blurred>>
vars    == <<ledger, redis, req, jobs, occ, faults, history>>

Rows == {"none", "submitting", "live", "settling", "terminal", "discarded"}
Live == {"submitting", "live", "settling"}   \* NOT IN the terminal statuses
Waiting == [at |-> "idle", todo |-> <<>>, value |-> 0, rows |-> {}, raced |-> FALSE]

Applies(x) == Range(KeysOf[x])
Total(S) == MapThenSumSet(LAMBDA j : Ceiling[j], S)

\* The jobs that hold a reservation on k the gateway has not given up.
Holders(k) == {j \in Jobs : row[j] \in Live /\ k \in Range(held[j])}

Init ==
  /\ ledger = [k \in Keys |-> 0]
  /\ row = [j \in Jobs |-> "none"]
  /\ spend = [k \in Keys |-> 0]
  /\ pending = [k \in Keys |-> 0]
  /\ fresh = FALSE
  /\ req = [r \in Requests |-> "new"]
  /\ submit = [j \in Jobs |-> "idle"]
  /\ held = [j \in Jobs |-> <<>>]
  /\ todo = [j \in Jobs |-> <<>>]
  /\ poll = [j \in Jobs |-> <<>>]
  /\ occ = [o \in Occurrences |-> Waiting]
  /\ faults = 0
  /\ counted = [k \in Keys |-> {}]
  /\ blurred = [k \in Keys |-> FALSE]

Fault == faults < MaxFaults /\ faults' = faults + 1
Metered(x, c) == [k \in Keys |-> ledger[k] + IF k \in Applies(x) THEN c ELSE 0]

-----------------------------------------------------------------------------
(* Redis scripts on the pending total of a key. *)

\* Mutant: the new ceiling itself is not counted.
FitsWithoutOwn(j, k) == spend[k] + pending[k] <= Amount[k]

\* CHECK_AND_RESERVE_LUA
Fits(j, k) == spend[k] + pending[k] + Ceiling[j] <= Amount[k]
Reserved(j, k) ==
  /\ pending' = [pending EXCEPT ![k] = @ + Ceiling[j]]
  /\ counted' = [counted EXCEPT ![k] = @ \cup {j}]
  /\ UNCHANGED blurred

\* RELEASE_LUA: floored at zero.  A release of a ceiling the total does not
\* contain takes it from the other jobs.
Lowered(old, c) == IF old < c THEN 0 ELSE old - c
Released(j, k) ==
  /\ pending' = [pending EXCEPT ![k] = Lowered(@, Ceiling[j])]
  /\ counted' = [counted EXCEPT ![k] = @ \ {j}]
  /\ blurred' = [blurred EXCEPT ![k] = @ \/ j \notin counted[k]]

Untouched == UNCHANGED <<pending, history>>

-----------------------------------------------------------------------------
(* The submission of a job: row, reservation, create. *)

\* The row precedes the reservation.  A reconciler that has read the rows
\* but not yet written their total misses it.
Insert(j) ==
  /\ submit[j] = "idle"
  /\ row' = [row EXCEPT ![j] = "submitting"]
  /\ submit' = [submit EXCEPT ![j] = "reserving"]
  /\ todo' = [todo EXCEPT ![j] = KeysOf[j]]
  /\ occ' = [o \in Occurrences |->
               IF occ[o].at = "writePending" THEN [occ[o] EXCEPT !.raced = TRUE] ELSE occ[o]]
  /\ UNCHANGED <<ledger, redis, req, held, poll, faults, history>>

\* reserveForBatch, one key per step.  The heartbeat is read once, before the
\* first key.
Reserve(j) ==
  /\ submit[j] = "reserving" /\ todo[j] # <<>>
  /\ held[j] = <<>> => fresh
  /\ LET k == Head(todo[j]) IN
       \/ /\ Fits(j, k)
          /\ Reserved(j, k)
          /\ held' = [held EXCEPT ![j] = Append(@, k)]
          /\ todo' = [todo EXCEPT ![j] = Tail(@)]
          /\ UNCHANGED submit
       \/ /\ ~ Fits(j, k)
          /\ submit' = [submit EXCEPT ![j] = "rejected"]
          /\ Untouched /\ UNCHANGED <<held, todo>>
  /\ UNCHANGED <<ledger, row, spend, fresh, req, poll, occ, faults>>

\* A stale heartbeat, or a script that failed: it may have run all the same,
\* and its key is then not among those rolled back.
ReserveFault(j) ==
  /\ submit[j] = "reserving" /\ todo[j] # <<>>
  /\ \/ held[j] = <<>> /\ ~ fresh /\ Untouched /\ UNCHANGED faults
     \/ Fault /\ Untouched
     \/ Fault /\ Fits(j, Head(todo[j])) /\ Reserved(j, Head(todo[j]))
  /\ submit' = [submit EXCEPT ![j] = "faulted"]
  /\ UNCHANGED <<ledger, row, spend, fresh, req, held, todo, poll, occ>>

\* rollback: a failing release is skipped.
RollBack(j) ==
  /\ submit[j] \in {"rejected", "faulted"} /\ held[j] # <<>>
  /\ \/ Released(j, Head(held[j])) /\ UNCHANGED faults
     \/ Released(j, Head(held[j])) /\ Fault
     \/ Untouched /\ Fault
  /\ held' = [held EXCEPT ![j] = Tail(@)]
  /\ UNCHANGED <<ledger, row, spend, fresh, req, submit, todo, poll, occ>>

\* The loop ended.  A refused job, and under fail-closed a faulted one,
\* leaves no row; under fail-open a faulted one goes on without reservation.
EndReserve(j) ==
  /\ \/ /\ \/ submit[j] = "reserving" /\ todo[j] = <<>>
           \/ submit[j] = "faulted" /\ held[j] = <<>> /\ FailOpen
        /\ submit' = [submit EXCEPT ![j] = "creating"]
        /\ UNCHANGED row
     \/ /\ held[j] = <<>>
        /\ submit[j] = "rejected" \/ (submit[j] = "faulted" /\ ~ FailOpen)
        /\ row' = [row EXCEPT ![j] = "discarded"]
        /\ submit' = [submit EXCEPT ![j] = "over"]
  /\ UNCHANGED <<ledger, redis, req, held, todo, poll, occ, faults, history>>

\* The upstream accepts; answers with a rejection, which fails the row and
\* releases what was reserved; or gives no answer, which releases nothing.
Create(j) ==
  /\ submit[j] = "creating"
  /\ \/ /\ row' = [row EXCEPT ![j] = "live"]
        /\ submit' = [submit EXCEPT ![j] = "over"]
        /\ UNCHANGED todo
     \/ /\ row' = [row EXCEPT ![j] = "terminal"]
        /\ submit' = [submit EXCEPT ![j] = "releasing"]
        /\ todo' = [todo EXCEPT ![j] = held[j]]
     \/ /\ submit' = [submit EXCEPT ![j] = "over"]
        /\ UNCHANGED <<row, todo>>
  /\ UNCHANGED <<ledger, redis, req, held, poll, occ, faults, history>>

\* releaseForBatch after a rejection: the first failing key ends the loop.
ReleaseRejected(j) ==
  /\ submit[j] = "releasing"
  /\ \/ /\ todo[j] = <<>>
        /\ submit' = [submit EXCEPT ![j] = "over"]
        /\ Untouched /\ UNCHANGED <<todo, faults>>
     \/ /\ todo[j] # <<>>
        /\ Released(j, Head(todo[j]))
        /\ todo' = [todo EXCEPT ![j] = Tail(@)]
        /\ UNCHANGED <<submit, faults>>
     \/ /\ todo[j] # <<>> /\ Fault
        /\ Released(j, Head(todo[j])) \/ Untouched
        /\ submit' = [submit EXCEPT ![j] = "over"]
        /\ UNCHANGED todo
  /\ UNCHANGED <<ledger, row, spend, fresh, req, held, poll, occ>>

\* The submitting process dies.
AbandonSubmit(j) ==
  /\ submit[j] \notin {"idle", "over"}
  /\ Fault
  /\ submit' = [submit EXCEPT ![j] = "over"]
  /\ UNCHANGED <<ledger, redis, req, row, held, todo, poll, occ, history>>

-----------------------------------------------------------------------------
(* The poller.  BatchJob models how it gets here; it takes a job up only     *)
(* after the submission grace, when the request is over.                     *)

\* Settlement writes the results' cost to the ledger while the row is held.
Record(j, c) ==
  /\ row[j] = "live"
  /\ row' = [row EXCEPT ![j] = "settling"]
  /\ ledger' = Metered(j, c)
  /\ UNCHANGED <<redis, req, submit, held, todo, poll, occ, faults, history>>

\* finish: terminal first, then the release from every governing key,
\* whether the submission reserved or not.
Finish(j) ==
  /\ \/ row[j] = "settling"
     \/ row[j] = "live"
     \/ row[j] = "submitting" /\ submit[j] = "over"
  /\ row' = [row EXCEPT ![j] = "terminal"]
  /\ poll' = [poll EXCEPT ![j] = KeysOf[j]]
  /\ UNCHANGED <<ledger, redis, req, submit, held, todo, occ, faults, history>>

ReleaseFinished(j) ==
  /\ poll[j] # <<>>
  /\ \/ /\ Released(j, Head(poll[j]))
        /\ poll' = [poll EXCEPT ![j] = Tail(@)]
        /\ UNCHANGED faults
     \/ /\ Fault
        /\ Released(j, Head(poll[j])) \/ Untouched
        /\ poll' = [poll EXCEPT ![j] = <<>>]
  /\ UNCHANGED <<ledger, row, spend, fresh, req, submit, held, todo, occ>>

-----------------------------------------------------------------------------
(* Synchronous requests. *)

\* Mutant: the gate reads the spend counters only.
ExhaustedBySpend(k) == spend[k] >= Amount[k]

\* checkBlocked: spend and pending of all its keys in one MGET.
Exhausted(k) == spend[k] + pending[k] >= Amount[k]
Check(r) ==
  /\ req[r] = "new" /\ fresh
  /\ req' = [req EXCEPT ![r] =
               IF \E k \in Applies(r) : Exhausted(k) THEN "over" ELSE "admitted"]
  /\ UNCHANGED <<ledger, redis, jobs, occ, faults, history>>

\* A stale heartbeat or a failed read engages the fail mode.
CheckFault(r) ==
  /\ req[r] = "new"
  /\ (~ fresh /\ UNCHANGED faults) \/ Fault
  /\ req' = [req EXCEPT ![r] = IF FailOpen THEN "unchecked" ELSE "over"]
  /\ UNCHANGED <<ledger, redis, jobs, occ, history>>

\* The served request's log row is written.
Log(r, c) ==
  /\ req[r] \in {"admitted", "unchecked"}
  /\ req' = [req EXCEPT ![r] = "over"]
  /\ ledger' = Metered(r, c)
  /\ UNCHANGED <<redis, jobs, occ, faults, history>>

-----------------------------------------------------------------------------
(* The reconciler: runBudgetOccurrence, key by key.                          *)

GoOn(keys) == [Waiting EXCEPT !.at = IF keys = <<>> THEN "stamp" ELSE "readSpend",
                              !.todo = keys]

Start(o) ==
  /\ occ[o].at = "idle"
  /\ occ' = [occ EXCEPT ![o] = GoOn(Order)]
  /\ UNCHANGED <<ledger, redis, req, jobs, faults, history>>

ReadSpend(o) ==
  /\ occ[o].at = "readSpend"
  /\ occ' = [occ EXCEPT ![o].at = "writeSpend", ![o].value = ledger[Head(occ[o].todo)]]
  /\ UNCHANGED <<ledger, redis, req, jobs, faults, history>>

\* Mutants: the counter is set to what was read, added to, or only seeded.
RaisedAlways(old, new) == new
RaisedBy(old, new) == old + new
RaisedOnce(old, new) == IF old = 0 THEN new ELSE old

\* RECONCILE_MAX_LUA
Raised(old, new) == IF new > old THEN new ELSE old
WriteSpend(o) ==
  /\ occ[o].at = "writeSpend"
  /\ spend' = [spend EXCEPT ![Head(occ[o].todo)] = Raised(@, occ[o].value)]
  /\ occ' = [occ EXCEPT ![o].at = "readPending", ![o].value = 0]
  /\ UNCHANGED <<ledger, pending, fresh, req, jobs, faults, history>>

\* Mutant: a row is pending once the upstream has accepted it.
PendingRowsAccepted(k) == {j \in Jobs : row[j] \in Live \ {"submitting"} /\ k \in Applies(j)}

\* pendingMicrosFor: the rows that are not terminal, submitting ones included.
PendingRows(k) == {j \in Jobs : row[j] \in Live /\ k \in Applies(j)}
ReadPending(o) ==
  /\ occ[o].at = "readPending"
  /\ occ' = [occ EXCEPT ![o].at = "writePending", ![o].raced = FALSE,
                        ![o].rows = PendingRows(Head(occ[o].todo))]
  /\ UNCHANGED <<ledger, redis, req, jobs, faults, history>>

\* Mutant: the pending total is raised like the spend counter.
ReplacedByMax(old, new) == Raised(old, new)

\* reconcilePending: a plain SET of what was read.  It blurs the total when a
\* job was inserted since the read: its reservation is overwritten.
Replaced(old, new) == new
WritePending(o) ==
  /\ occ[o].at = "writePending"
  /\ LET k == Head(occ[o].todo) IN
       /\ pending' = [pending EXCEPT ![k] = Replaced(@, Total(occ[o].rows))]
       /\ counted' = [counted EXCEPT ![k] = occ[o].rows]
       /\ blurred' = [blurred EXCEPT ![k] = occ[o].raced]
  /\ occ' = [occ EXCEPT ![o] = GoOn(Tail(occ[o].todo))]
  /\ UNCHANGED <<ledger, spend, fresh, req, jobs, faults>>

\* heartbeatSet, after the last key only.
Stamp(o) ==
  /\ occ[o].at = "stamp"
  /\ fresh' = TRUE
  /\ occ' = [occ EXCEPT ![o] = Waiting]
  /\ UNCHANGED <<ledger, spend, pending, req, jobs, faults, history>>

\* A failing read or write ends the occurrence without a heartbeat.  A write
\* that ran before it failed is the write followed by this step.
AbortOccurrence(o) ==
  /\ occ[o].at # "idle"
  /\ Fault
  /\ occ' = [occ EXCEPT ![o] = Waiting]
  /\ UNCHANGED <<ledger, redis, req, jobs, history>>

GoStale ==
  /\ fresh
  /\ fresh' = FALSE
  /\ UNCHANGED <<ledger, spend, pending, req, jobs, occ, faults, history>>

-----------------------------------------------------------------------------
SubmitStep(j) == \/ Reserve(j) \/ ReserveFault(j) \/ RollBack(j) \/ EndReserve(j)
                 \/ Create(j) \/ ReleaseRejected(j)
Reconcile(o) == \/ Start(o) \/ ReadSpend(o) \/ WriteSpend(o) \/ ReadPending(o)
                \/ WritePending(o) \/ Stamp(o)

Next ==
  \/ \E j \in Jobs : \/ Insert(j) \/ SubmitStep(j) \/ AbandonSubmit(j)
                     \/ \E c \in Costs : Record(j, c)
                     \/ Finish(j) \/ ReleaseFinished(j)
  \/ \E r \in Requests : Check(r) \/ CheckFault(r) \/ \E c \in Costs : Log(r, c)
  \/ \E o \in Occurrences : Reconcile(o) \/ AbortOccurrence(o)
  \/ GoStale

Spec == Init /\ [][Next]_vars

\* Calls are bounded by timeouts, the schedule repeats, and faults are
\* transient (MaxFaults).  Nothing makes a job end or a request arrive.
FairSpec ==
  /\ Spec
  /\ \A j \in Jobs : WF_vars(SubmitStep(j)) /\ WF_vars(ReleaseFinished(j))
  /\ \A o \in Occurrences : WF_vars(Reconcile(o))

-----------------------------------------------------------------------------
(* Properties. *)

OccStates == {"idle", "readSpend", "writeSpend", "readPending", "writePending", "stamp"}

\* Types, and what the counters may be: an idle reconciler keeps nothing,
\* only a row that exists holds keys.
TypeOK ==
  /\ ledger \in [Keys -> Nat] /\ spend \in [Keys -> Nat] /\ pending \in [Keys -> Nat]
  /\ row \in [Jobs -> Rows]
  /\ fresh \in BOOLEAN
  /\ req \in [Requests -> {"new", "admitted", "unchecked", "over"}]
  /\ submit \in [Jobs -> {"idle", "reserving", "rejected", "faulted", "creating",
                          "releasing", "over"}]
  /\ held \in [Jobs -> Seq(Keys)] /\ todo \in [Jobs -> Seq(Keys)]
  /\ poll \in [Jobs -> Seq(Keys)]
  /\ occ \in [Occurrences -> [at : OccStates, todo : Seq(Keys), value : Nat,
                              rows : SUBSET Jobs, raced : BOOLEAN]]
  /\ faults \in 0 .. MaxFaults
  /\ counted \in [Keys -> SUBSET Jobs] /\ blurred \in [Keys -> BOOLEAN]

\* The counter never exceeds what the ledger has recorded, whatever
\* occurrences overlap or repeat: no request is refused for money not spent.
SpendIsBacked == \A k \in Keys : spend[k] <= ledger[k]

\* An older occurrence that writes after a newer one does not lower a
\* counter: what was blocked for the period stays blocked.
SpendNeverFalls == [][\A k \in Keys : spend'[k] >= spend[k]]_vars

\* The pending total covers every reservation the gateway granted and has
\* not given up: partial reservations, rollbacks, lost replies and crashes only
\* ever over-count.  The exception is a blurred total, until its key is next
\* reconciled: one that was overwritten by a read older than a submission, or
\* lowered by the release of a ceiling that it did not contain.
PendingCovers ==
  \A k \in Keys : ~ blurred[k] => pending[k] >= Total(Holders(k))

\* A reservation that is granted fits beside what was spent and what others
\* have reserved on that key, unless its total is blurred.
ReservationFits ==
  [][\A k \in Keys :
       (~ blurred[k] /\ \E j \in Holders(k)' : j \notin Holders(k)) =>
         spend[k] + Total(Holders(k)') <= Amount[k]]_vars

Admitted(r) == req[r] = "new" /\ req'[r] = "admitted"
Spares(k) == spend[k] + Total(Holders(k)) < Amount[k]

\* A synchronous request that passed the gate was not given money reserved
\* for a batch on a key, unless the key's total was blurred.
AdmissionSparesReservations ==
  [][\A r \in Requests : Admitted(r) =>
       \A k \in Applies(r) : blurred[k] \/ Spares(k)]_vars

\* Once the ledger reaches an amount the counter does too, so the gate closes
\* for the rest of the period (see SpendNeverFalls).
SpentIsSeen ==
  \A k \in Keys : ledger[k] >= Amount[k] ~> spend[k] >= Amount[k]

\* Every leaked, doubled or lost reservation heals: with the jobs at rest the
\* pending total becomes, and stays, the sum over the rows that are not
\* terminal.
PendingHeals ==
  <>[](\A k \in Keys : pending[k] = Total(PendingRows(k)))
==============================================================================
