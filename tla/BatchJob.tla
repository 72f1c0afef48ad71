------------------------------ MODULE BatchJob -------------------------------
(***************************************************************************)
(* The life of one batch job: the request that submits it, the upstream     *)
(* that runs it, the pollers of the control-plane instances that follow it, *)
(* and the owner who may cancel it or delete its provider.  They meet in    *)
(* the job's database row; jobs do not share rows, so one job is the whole  *)
(* story.  Every database statement, every upstream call and every Redis    *)
(* script is one action, so everything else may happen between two of them. *)
(***************************************************************************)
EXTENDS BatchRow

CONSTANTS
  Pollers,       \* control-plane instances that run the sweep
  Ends,          \* the statuses in which the upstream may end a job it runs
  Faults,        \* what the environment may do, see FaultKinds
  MaxFailures    \* bound on failing poller calls and poller crashes

\* "early": the upstream ends a job while the gateway is still finding its id.
\* "unmatched": the listing does not show the job's id (one adapter's upstream
\* echoes none, and every adapter reads the newest hundred entries only).
\* "unmapped": the upstream reports a status the gateway has no name for.
\* "lost": the upstream drops a job it had accepted and never runs it.
\* "deleted": the owner deletes the provider.
\* "misreported": the create is answered with an error status, a 5xx say, by an
\* upstream that holds the job.
FaultKinds == {"early", "unmatched", "unmapped", "lost", "deleted", "misreported"}

ASSUME BatchAssumption ==
  /\ Items # {}
  /\ NoRow \notin Rows
  /\ Ends \subseteq Terminal \ {"cancelled"}
  /\ Faults \subseteq FaultKinds
  /\ MaxFailures \in Nat

VARIABLES
  row,        \* the row in the database, or NoRow
  upstream,   \* what the upstream makes of the job
  results,    \* the items the upstream has results for
  ledger,     \* the items with a durable ledger row
  submit,     \* where the submitting request is
  reserved,   \* whether its reservation was recorded
  released,   \* how often the reservation was released
  cancel,     \* the owner's cancel request: its step and the row it loaded
  poll,       \* poll[p]: the poller's step, the row it loaded, what it saw
  provider,   \* whether the provider still exists
  age,        \* 0: fresh, 1: grace over, 2: unknown window over, 3: deadline over
  failures,   \* failing poller calls and crashes so far
  missed      \* history: the gateway took a job that ran for one that did not,
              \* or the upstream ended it before the gateway knew its id

vars == <<row, upstream, results, ledger, submit, reserved, released, cancel,
          poll, provider, age, failures, missed>>

Upstreams == {"absent", "in_progress", "cancelling", "forgotten"} \cup Terminal

\* `outcome` and `kind` are what a poller is about to finish the job with.
Polls == [step : {"idle", "picked", "adopt", "lateCancel", "mark", "status",
                  "viewed", "settle", "finish", "release"},
          snap : Rows \cup {NoRow}, view : Upstreams \cup {"unmapped"},
          seen : SUBSET Items, kind : Kinds]

Idle == [step |-> "idle", snap |-> NoRow, view |-> "absent", seen |-> {},
         kind |-> "none"]

Cancels == [step : {"idle", "loaded", "asked"}, snap : Rows \cup {NoRow}]

NoCancel == [step |-> "idle", snap |-> NoRow]

\* Types, and the stamp: a row is stamped exactly when it is terminal.
TypeOK ==
  /\ row \in Rows \cup {NoRow}
  /\ row # NoRow => (row.terminalAt <=> row.status \in Terminal)
  /\ upstream \in Upstreams
  /\ results \in SUBSET Items
  /\ ledger \in SUBSET Items
  /\ submit \in {"new", "inserted", "reserved", "sent", "lost", "release", "done"}
  /\ reserved \in BOOLEAN
  /\ released \in Nat
  /\ cancel \in Cancels
  /\ poll \in [Pollers -> Polls]
  /\ provider \in BOOLEAN
  /\ age \in 0..3
  /\ failures \in 0..MaxFailures
  /\ missed \in BOOLEAN

Init ==
  /\ row = NoRow
  /\ upstream = "absent"
  /\ results = {}
  /\ ledger = {}
  /\ submit = "new"
  /\ reserved = FALSE
  /\ released = 0
  /\ cancel = NoCancel
  /\ poll = [p \in Pollers |-> Idle]
  /\ provider = TRUE
  /\ age = 0
  /\ failures = 0
  /\ missed = FALSE

-----------------------------------------------------------------------------
(* The submitting request.                                                 *)

submitting == <<submit, reserved, released>>
world == <<upstream, results, provider, age, failures, missed>>

\* The row is inserted before the reservation and before the create.
Insert ==
  /\ submit = "new"
  /\ provider
  /\ row' = InsertedRow
  /\ submit' = "inserted"
  /\ UNCHANGED <<ledger, reserved, released, cancel, poll, world>>

\* The ceiling is reserved; no block budget, or a fault in fail-open mode,
\* admits the job with nothing recorded.
Reserve ==
  /\ submit = "inserted"
  /\ submit' = "reserved"
  /\ reserved' \in BOOLEAN
  /\ UNCHANGED <<row, ledger, released, cancel, poll, world>>

\* The budget refuses the ceiling, or cannot be enforced: the row is discarded.
Refuse ==
  /\ submit = "inserted"
  /\ submit' = "done"
  /\ row' = Discarded(row)
  /\ UNCHANGED <<ledger, reserved, released, cancel, poll, world>>

Send ==
  /\ submit = "reserved"
  /\ submit' = "sent"
  /\ UNCHANGED <<row, ledger, reserved, released, cancel, poll, world>>

\* The create is answered with the upstream's id.  An answer that already names
\* a terminal status is refused by the CHECK, and the id is not stored.
Accepted ==
  /\ submit = "sent"
  /\ upstream \notin {"absent", "forgotten"}
  /\ row' = Swap(row, {"submitting"},
                 [row EXCEPT !.status = upstream, !.hasId = TRUE])
  /\ submit' = "done"
  /\ UNCHANGED <<ledger, reserved, released, cancel, poll, world>>

\* The create is answered with an error status, any, and taken for definitive.
\* The row is failed, and then, whatever became of it, the reservation released.
Rejected ==
  /\ submit = "sent"
  /\ upstream = "absent" \/ "misreported" \in Faults
  /\ row' = Failed(row)
  /\ submit' = IF reserved THEN "release" ELSE "done"
  /\ missed' = (missed \/ upstream # "absent")
  /\ UNCHANGED <<ledger, reserved, released, cancel, poll, upstream, results,
                 provider, age, failures>>

ReleaseRejected ==
  /\ submit = "release"
  /\ submit' = "done"
  /\ released' = released + 1
  /\ UNCHANGED <<row, ledger, reserved, cancel, poll, world>>

\* The answer is lost, the caller aborts or the process dies.  Once the create
\* has left, the upstream may still come to hold the job.
AbandonSubmit ==
  /\ submit \in {"inserted", "reserved", "sent", "release"}
  /\ submit' = IF submit = "sent" THEN "lost" ELSE "done"
  /\ UNCHANGED <<row, ledger, reserved, released, cancel, poll, world>>

-----------------------------------------------------------------------------
(* The upstream, the owner and time.                                       *)

gateway == <<row, ledger, submit, reserved, released, poll, failures, missed>>

\* The create arrives.  Its call is bounded by timeouts far below the window
\* of six hours after which the gateway gives the submission up.
UpstreamCreate ==
  /\ submit \in {"sent", "lost"}
  /\ upstream = "absent"
  /\ age < 2
  /\ upstream' = "in_progress"
  /\ UNCHANGED <<results, cancel, provider, age, gateway>>

\* The job's id is stored, and no poller is still looking for it.
Known ==
  /\ row # NoRow /\ row.hasId
  /\ \A p \in Pollers :
       /\ poll[p].step # "adopt"
       /\ poll[p].step = "picked" => poll[p].snap.hasId

\* The upstream ends the job: with all results when it completed, with those
\* of the items that ran otherwise.
UpstreamEnd ==
  /\ "early" \in Faults \/ Known
  /\ \/ upstream = "in_progress" /\ upstream' \in Ends
     \/ upstream = "cancelling" /\ upstream' = "cancelled"
  /\ results' \in SUBSET Items
  /\ upstream' = "completed" => results' = Items
  /\ missed' = (missed \/ ~Known)
  /\ UNCHANGED <<row, ledger, submitting, cancel, poll, provider, age, failures>>

\* Results are kept for days beyond the job's completion deadline, not for
\* ever: they vanish between two sweeps or while a settlement is reading them.
UpstreamForget ==
  /\ upstream \in Terminal
  /\ age = 3
  /\ \A p \in Pollers : poll[p].step \in {"idle", "settle"}
  /\ upstream' = "forgotten"
  /\ UNCHANGED <<results, cancel, provider, age, gateway>>

UpstreamLose ==
  /\ "lost" \in Faults
  /\ upstream = "in_progress"
  /\ row # NoRow /\ row.hasId
  /\ upstream' = "forgotten"
  /\ UNCHANGED <<results, cancel, provider, age, gateway>>

DeleteProvider ==
  /\ "deleted" \in Faults
  /\ provider
  /\ provider' = FALSE
  /\ UNCHANGED <<upstream, results, cancel, age, gateway>>

\* The owner asks to cancel: the row is loaded first.
LoadForCancel ==
  /\ cancel.step = "idle"
  /\ row # NoRow /\ row.status \notin Terminal
  /\ ~(row.hasId /\ row.status = "cancelling")
  /\ cancel' = [step |-> "loaded", snap |-> row]
  /\ UNCHANGED <<upstream, results, provider, age, gateway>>

\* Without an upstream id, or without a provider, the request is recorded,
\* in whatever status the row is by now.
RecordCancel ==
  /\ cancel.step = "loaded"
  /\ ~cancel.snap.hasId \/ ~provider
  /\ row' = IF row = NoRow THEN row ELSE [row EXCEPT !.cancelRequested = TRUE]
  /\ cancel' = NoCancel
  /\ UNCHANGED <<ledger, submitting, poll, world>>

\* The upstream takes a cancel of a job it runs, and refuses any other.
AskUpstream ==
  upstream' = IF upstream = "in_progress" THEN "cancelling" ELSE upstream

CancelUpstream ==
  /\ cancel.step = "loaded"
  /\ cancel.snap.hasId /\ provider
  /\ upstream \in {"in_progress", "cancelling"}
  /\ AskUpstream
  /\ cancel' = [cancel EXCEPT !.step = "asked"]
  /\ UNCHANGED <<results, provider, age, gateway>>

MarkCancelled ==
  /\ cancel.step = "asked"
  /\ row' = Swap(row, {"in_progress", "finalizing"},
                 [row EXCEPT !.status = "cancelling", !.cancelRequested = TRUE])
  /\ cancel' = NoCancel
  /\ UNCHANGED <<ledger, submitting, poll, world>>

\* The upstream call fails, or the process dies: nothing is marked.
AbandonCancel ==
  /\ cancel.step # "idle"
  /\ cancel' = NoCancel
  /\ UNCHANGED <<upstream, results, provider, age, gateway>>

\* Time passes.  Database, Redis and upstream calls take seconds or minutes:
\* no sweep spans the hours between two of these instants, and the request is
\* sent before the grace of two minutes is over.
Age ==
  /\ row # NoRow
  /\ age < 3
  /\ submit \notin {"inserted", "reserved"}
  /\ age >= 1 =>
       /\ submit \in {"lost", "done"}
       /\ row.status # "submitting"
       /\ \A p \in Pollers : poll[p].step = "idle"
  /\ age' = age + 1
  /\ UNCHANGED <<upstream, results, cancel, provider, gateway>>

-----------------------------------------------------------------------------
(* The pollers.  A sweep loads the live rows and advances each; a poller    *)
(* never works twice on a job, two pollers may.                             *)

others == <<ledger, submitting, cancel, world>>

At(p, step) == poll[p].step = step

Goto(p, step) == poll' = [poll EXCEPT ![p].step = step]

Done(p) == poll' = [poll EXCEPT ![p] = Idle]

\* Go on to finish the job without having settled anything.
FinishAs(p, status, kind) ==
  poll' = [poll EXCEPT ![p].step = "finish", ![p].view = status,
                       ![p].kind = kind, ![p].seen = {}]

\* The job's upstream id is not known yet.
Unresolved(r) == r.status = "submission_unknown" \/ ~r.hasId

\* Mutant: a cancel is passed on when the id is adopted, and only then.
CancelPendingUnresolved(r) == r.cancelRequested /\ Unresolved(r)

\* A cancel is on record that has not been passed on.
CancelPending(r) == r.cancelRequested /\ r.status # "cancelling"

Pick(p) ==
  /\ At(p, "idle")
  /\ row # NoRow /\ row.status \in NonTerminal
  /\ poll' = [poll EXCEPT ![p] = [Idle EXCEPT !.step = "picked", !.snap = row]]
  /\ UNCHANGED <<row, others>>

ProviderMissing(p) ==
  /\ At(p, "picked")
  /\ ~provider
  /\ FinishAs(p, "failed", "provider_missing")
  /\ UNCHANGED <<row, others>>

\* Before the grace is over the submitting request may simply still be running.
WaitGrace(p) ==
  /\ At(p, "picked")
  /\ provider
  /\ poll[p].snap.status = "submitting"
  /\ age = 0
  /\ Done(p)
  /\ UNCHANGED <<row, others>>

MarkUnknown(p) ==
  /\ At(p, "picked")
  /\ provider
  /\ poll[p].snap.status = "submitting"
  /\ age >= 1
  /\ row' = Swap(row, {"submitting"},
                 [row EXCEPT !.status = "submission_unknown", !.kind = "none"])
  /\ Done(p)
  /\ UNCHANGED others

\* The upstream lists the job under the id the gateway attached to it.  A listed
\* status the gateway cannot map stands for a job in progress.
ListedMatch(p) ==
  /\ At(p, "picked")
  /\ provider
  /\ poll[p].snap.status # "submitting" /\ Unresolved(poll[p].snap)
  /\ upstream \notin {"absent", "forgotten"}
  /\ \E view \in {upstream} \cup (IF "unmapped" \in Faults THEN {"in_progress"} ELSE {}) :
       poll' = [poll EXCEPT ![p].step = "adopt", ![p].view = view]
  /\ UNCHANGED <<row, others>>

\* The job is given up.
GiveUp(p) ==
  /\ FinishAs(p, "failed", IF poll[p].snap.cancelRequested THEN "submit_lost"
                                                           ELSE "submit_unresolved")
  /\ missed' = (missed \/ upstream \notin {"absent", "forgotten"})

\* Mutant: a job the listing does not show is given up at once.
ListedNoMatchAtOnce(p) ==
  /\ At(p, "picked")
  /\ provider
  /\ poll[p].snap.status # "submitting" /\ Unresolved(poll[p].snap)
  /\ upstream \in {"absent", "forgotten"} \/ "unmatched" \in Faults
  /\ GiveUp(p)
  /\ UNCHANGED <<row, ledger, submitting, cancel, upstream, results, provider, age, failures>>

\* The listing does not show the job: keep looking until the window is over.
ListedNoMatch(p) ==
  /\ At(p, "picked")
  /\ provider
  /\ poll[p].snap.status # "submitting" /\ Unresolved(poll[p].snap)
  /\ upstream \in {"absent", "forgotten"} \/ "unmatched" \in Faults
  /\ IF age >= 2 THEN GiveUp(p) ELSE Done(p) /\ UNCHANGED missed
  /\ UNCHANGED <<row, ledger, submitting, cancel, upstream, results, provider, age, failures>>

\* The adopted row: the patch has no status guard and carries the listed
\* status, whatever it is, with no terminal stamp.
AdoptedRow(r, view) ==
  IF r = NoRow THEN r
  ELSE Write(r, [r EXCEPT !.status = view, !.hasId = TRUE, !.kind = "none"])

\* A patch the CHECK refuses is an exception: the sweep contains it.
Adopt(p) ==
  LET adopted == AdoptedRow(row, poll[p].view) IN
  /\ At(p, "adopt")
  /\ row' = adopted
  /\ IF adopted # NoRow /\ adopted.hasId /\ adopted.status = poll[p].view
        /\ adopted.cancelRequested
     THEN Goto(p, "lateCancel") ELSE Done(p)
  /\ UNCHANGED others

\* tryCancel: the upstream takes the cancel, or its error is swallowed.
TryCancel ==
  \/ AskUpstream /\ UNCHANGED failures
  \/ /\ failures < MaxFailures
     /\ failures' = failures + 1
     /\ UNCHANGED upstream

LateCancel(p) ==
  /\ At(p, "lateCancel")
  /\ TryCancel
  /\ Done(p)
  /\ UNCHANGED <<row, ledger, submitting, cancel, results, provider, age, missed>>

\* A cancel recorded before the id was known is passed on now.
CancelFirst(p) ==
  /\ At(p, "picked")
  /\ provider
  /\ ~Unresolved(poll[p].snap) /\ CancelPending(poll[p].snap)
  /\ TryCancel
  /\ Goto(p, "mark")
  /\ UNCHANGED <<row, ledger, submitting, cancel, results, provider, age, missed>>

MarkCancelling(p) ==
  /\ At(p, "mark")
  /\ row' = Swap(row, {"in_progress", "finalizing"}, [row EXCEPT !.status = "cancelling"])
  /\ Goto(p, "status")
  /\ UNCHANGED others

\* Ask the upstream for the job's status.
Ready(p) ==
  \/ At(p, "status")
  \/ /\ At(p, "picked") /\ provider
     /\ ~Unresolved(poll[p].snap) /\ ~CancelPending(poll[p].snap)

SeeStatus(p) ==
  /\ Ready(p)
  /\ upstream # "forgotten"
  /\ \E view \in {upstream} \cup (IF "unmapped" \in Faults THEN {"unmapped"} ELSE {}) :
       poll' = [poll EXCEPT ![p].step = "viewed", ![p].view = view]
  /\ UNCHANGED <<row, others>>

\* The upstream does not know the job: expired past its deadline, never really
\* created before it.
SeeNothing(p) ==
  /\ Ready(p)
  /\ upstream = "forgotten"
  /\ IF age = 3 THEN FinishAs(p, "expired", "none")
     ELSE FinishAs(p, "failed", "submit_lost")
  /\ UNCHANGED <<row, others>>

\* A status the gateway cannot map is not terminal: the job is held.
Hold(p) ==
  /\ At(p, "viewed")
  /\ poll[p].view = "unmapped"
  /\ row' = [row EXCEPT !.kind = "upstream_status_unknown"]
  /\ Done(p)
  /\ UNCHANGED others

Live == Adopted \cup {"submission_unknown"}

ShowProgress(p) ==
  /\ At(p, "viewed")
  /\ poll[p].view \in {"in_progress", "cancelling"}
  /\ row' = Swap(row, Live, [row EXCEPT !.status = poll[p].view, !.kind = "none"])
  /\ Done(p)
  /\ UNCHANGED others

\* The upstream is done: hold the job, with its reservation, while its results
\* are recorded.  The old snapshot is used when the row has moved on.
HoldFinal(p) ==
  LET snap == poll[p].snap
      held == IF snap.status = "cancelling" \/ poll[p].view = "cancelled"
              THEN "cancelling" ELSE "finalizing"
      patched == [row EXCEPT !.status = held, !.kind = "none"]
  IN
  /\ At(p, "viewed")
  /\ poll[p].view \in Terminal
  /\ row' = Swap(row, Live, patched)
  /\ poll' = [poll EXCEPT ![p].step = "settle",
                          ![p].snap = IF Swaps(row, Live) THEN patched ELSE snap]
  /\ UNCHANGED others

\* One item of the result stream is recorded; a replayed one has its row.
RecordItem(p, item) ==
  /\ At(p, "settle")
  /\ upstream # "forgotten"
  /\ item \in results \ poll[p].seen
  /\ ledger' = ledger \cup {item}
  /\ poll' = [poll EXCEPT ![p].seen = @ \cup {item}]
  /\ UNCHANGED <<row, submitting, cancel, world>>

FinalStatus(p) ==
  IF poll[p].view = "cancelled" \/ poll[p].snap.status = "cancelling"
  THEN "cancelled" ELSE poll[p].view

\* Mutant: the job is finished before its result stream has ended.
ResultsEndEarly(p) ==
  /\ At(p, "settle")
  /\ upstream # "forgotten"
  /\ poll' = [poll EXCEPT ![p].step = "finish", ![p].view = FinalStatus(p)]
  /\ UNCHANGED <<row, others>>

\* The result stream has ended.
ResultsEnd(p) ==
  /\ At(p, "settle")
  /\ upstream # "forgotten"
  /\ poll[p].seen = results
  /\ poll' = [poll EXCEPT ![p].step = "finish", ![p].view = FinalStatus(p)]
  /\ UNCHANGED <<row, others>>

\* Retention lapsed while the job was being settled: it ends with no counts.
ResultsGone(p) ==
  /\ At(p, "settle")
  /\ upstream = "forgotten"
  /\ FinishAs(p, FinalStatus(p), "none")
  /\ UNCHANGED <<row, others>>

\* Mutant: every job is finished only from the state that held it.
FinishFromHeld(seen) == {"finalizing", "cancelling"}

\* A job that ran items is finished only from the state that held it for its
\* settlement; one with nothing to settle from any live state.
FinishFrom(seen) == IF seen # {} THEN {"finalizing", "cancelling"} ELSE NonTerminal

Finish(p) ==
  LET me == poll[p] IN
  /\ At(p, "finish")
  /\ IF Settles(row, FinishFrom(me.seen))
     THEN /\ row' = Settled(row, me.view, me.kind, me.seen)
          /\ Goto(p, "release")
     ELSE UNCHANGED row /\ Done(p)
  /\ UNCHANGED others

Release(p) ==
  /\ At(p, "release")
  /\ released' = released + 1
  /\ Done(p)
  /\ UNCHANGED <<row, ledger, submit, reserved, cancel, world>>

\* A call fails, and the sweep goes on to the next job; or the process dies.
AbandonPoll(p) ==
  /\ ~At(p, "idle")
  /\ failures < MaxFailures
  /\ failures' = failures + 1
  /\ Done(p)
  /\ UNCHANGED <<row, ledger, submitting, cancel, upstream, results, provider, age, missed>>

Advance(p) ==
  \/ ProviderMissing(p) \/ WaitGrace(p) \/ MarkUnknown(p)
  \/ ListedMatch(p) \/ ListedNoMatch(p) \/ Adopt(p) \/ LateCancel(p)
  \/ CancelFirst(p) \/ MarkCancelling(p)
  \/ SeeStatus(p) \/ SeeNothing(p) \/ Hold(p) \/ ShowProgress(p) \/ HoldFinal(p)
  \/ \E item \in Items : RecordItem(p, item)
  \/ ResultsEnd(p) \/ ResultsGone(p) \/ Finish(p) \/ Release(p)

Submission ==
  \/ Insert \/ Reserve \/ Refuse \/ Send \/ Accepted \/ Rejected
  \/ ReleaseRejected \/ AbandonSubmit

Upstream ==
  \/ UpstreamCreate \/ UpstreamEnd \/ UpstreamForget \/ UpstreamLose

Owner ==
  \/ LoadForCancel \/ RecordCancel \/ CancelUpstream \/ MarkCancelled
  \/ AbandonCancel \/ DeleteProvider

Next ==
  \/ Submission \/ Upstream \/ Owner \/ Age
  \/ \E p \in Pollers : Pick(p) \/ Advance(p) \/ AbandonPoll(p)

Spec == Init /\ [][Next]_vars

\* The sweep recurs and walks every live row, a call that does not fail
\* returns, a cancel request ends, and an accepted cancel ends the job.  Time
\* passes: strongly, since the pollers are idle only between two sweeps.
\* Nothing else is assumed: not that the upstream finishes a job, not that the
\* submitting request goes on, not that the owner asks for anything.
Fairness ==
  /\ \A p \in Pollers : WF_vars(Pick(p)) /\ WF_vars(Advance(p))
  /\ WF_vars(RecordCancel \/ CancelUpstream \/ MarkCancelled \/ AbandonCancel)
  /\ SF_vars(Age)
  /\ WF_vars(upstream = "cancelling" /\ UpstreamEnd)

FairSpec == Spec /\ Fairness
-----------------------------------------------------------------------------
(* Properties.                                                             *)

Final == row # NoRow /\ row.status \in Terminal

\* The job as BatchPromise sees it: the promise that a terminal job never changes
\* its status or its counts again, whichever stale poller, late submission answer
\* or cancel still writes; that when it ends every result that can still be read
\* is in the ledger and in the counts, with no replay, crash or second poller
\* losing or inventing one; and that the reservation goes at most once, after the
\* costs it stands for are durable (settleAndFinish, BatchSettlement.settle, finish).
\* A job whose provider is deleted is given up without its results.
Promise == INSTANCE BatchPromise WITH
  Statuses <- Terminal,
  state    <- IF Final THEN row.status ELSE "open",
  owed     <- results,
  booked   <- ledger,
  counts   <- IF row = NoRow THEN {} ELSE row.counted,
  kept     <- upstream # "forgotten" /\ provider,
  freed    <- released

KeepsPromise == Promise!Spec

\* The upstream never ran the job: nothing was billed.
NeverRan == upstream \in {"absent", "forgotten"} /\ results = {}

\* A job failed because its submission was rejected, lost or never resolved is one
\* the upstream never ran (batch.service.ts, batch.poller.ts, reconcileSubmission),
\* however a late create, a stale poller, a lost job or a retry interleaves: the
\* gateway is wrong only where the upstream misled it, by answering the create
\* with an error, by not listing the job, or by ending it before its id was known.
SubmitFailedIsAbsent ==
  Final /\ row.kind \in {"rejected", "submit_lost", "submit_unresolved"} =>
    NeverRan \/ missed

\* A job the upstream is not running any more ends: the pollers drive it to a
\* terminal state from the database, whatever call failed or process died.
EventuallyFinal ==
  (row # NoRow /\ submit \in {"lost", "done"} /\ upstream # "in_progress")
    ~> (row = NoRow \/ Final \/ upstream = "in_progress")

\* A recorded cancel is passed on, also when it was recorded before the
\* upstream id was known: the upstream does not go on running the job, unless
\* its provider, and with it the credential, is deleted.
CancelIsPassedOn ==
  (row # NoRow /\ row.cancelRequested /\ upstream = "in_progress")
    ~> (upstream # "in_progress" \/ ~provider)
==============================================================================
