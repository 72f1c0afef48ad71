---------------------------- MODULE BatchJobProofs -----------------------------
(***************************************************************************)
(* The batch job keeps its promise, for any number of items, pollers and    *)
(* failures, while its provider exists and the upstream lists the job.  And *)
(* whatever the upstream does, a job is failed as never run only where that *)
(* is so, or where the upstream misled the gateway.                         *)
(***************************************************************************)
EXTENDS BatchJob, TLAPS

\* What the environment does not do: the owner does not delete the provider, the
\* listing shows the job, and the upstream does not end it while the gateway is
\* still finding its id.
Benign == Faults \subseteq {"unmapped", "lost"}

\* The statuses of a row whose upstream id is unknown.
Asked == {"submitting", "submission_unknown"}

\* The upstream has not ended the job.
Ahead == {"absent", "in_progress", "cancelling"}

\* The kinds of a job that was never run.
NeverRun == {"rejected", "submit_lost", "submit_unresolved"}

\* A row with an id is past the submission, and the upstream has taken the job.
RowKnows ==
  row # NoRow /\ row.hasId => row.status \notin Asked /\ upstream # "absent"

\* What the row, the request and the upstream know of each other.
RowFits ==
  /\ row = NoRow => submit \in {"new", "done"}
  /\ submit = "new" => row = NoRow /\ upstream = "absent"
  /\ RowKnows
  /\ row # NoRow /\ row.status \notin Terminal => row.counted = {}
  /\ age >= 2 => submit \in {"lost", "done"}
  /\ upstream \notin Ahead => row # NoRow /\ row.hasId

\* The ledger holds results; there are none before the job has ended, and what
\* was run is not forgotten before its deadline.
LedgerFits ==
  /\ ledger \subseteq results
  /\ upstream \in Ahead => results = {}
  /\ upstream = "forgotten" /\ results # {} => age = 3

\* A finished job is one the upstream has ended, forgotten or will never run.
EndFits ==
  Final =>
    /\ \/ upstream = "forgotten"
       \/ upstream \in Terminal /\ ledger = results
       \/ upstream = "absent" /\ (age >= 2 \/ submit \in {"release", "done"})
    /\ row.kind \in NeverRun => upstream \in {"absent", "forgotten"} /\ results = {}

\* Whoever is about to release is alone, and the job is final.
ReleaseFits ==
  /\ released \in {0, 1}
  /\ released = 1 => Final
  /\ submit = "release" => Final /\ released = 0
  /\ \A p \in Pollers : At(p, "release") =>
       /\ Final /\ released = 0 /\ submit # "release"
       /\ \A q \in Pollers : At(q, "release") => q = p

\* What poller p may rely on.
PollFits(p) ==
  LET t == poll[p] IN
  /\ t.step # "idle" => t.snap # NoRow
  /\ t.snap # NoRow /\ t.snap.hasId =>
       row # NoRow /\ row.hasId /\ t.snap.status \notin Asked
  /\ t.step = "picked" /\ ~t.snap.hasId =>
       upstream \notin Terminal /\ (upstream = "forgotten" => results = {})
  /\ t.step = "adopt" => t.view \in {"in_progress", "cancelling"} /\ upstream # "absent"
  /\ t.step \in {"mark", "status", "viewed", "settle"} => t.snap.hasId
  /\ t.step \notin {"finish", "release"} => t.kind = "none"
  /\ t.step \notin {"settle", "finish", "release"} => t.seen = {}
  /\ t.step = "viewed" /\ t.view \in Terminal => upstream \in {t.view, "forgotten"}
  /\ t.step = "settle" =>
       t.view \in Terminal /\ upstream \in {t.view, "forgotten"} /\ t.seen \subseteq ledger
  /\ t.step = "finish" =>
       /\ t.view \in Terminal /\ t.seen \subseteq ledger
       /\ \/ upstream = "forgotten"
          \/ upstream \in Terminal /\ t.seen = results
          \/ upstream = "absent" /\ age >= 2 /\ t.seen = {}
       /\ t.kind \in NeverRun => upstream \in {"absent", "forgotten"} /\ results = {}

IInv ==
  /\ TypeOK /\ provider
  /\ RowFits /\ LedgerFits /\ EndFits /\ ReleaseFits
  /\ \A p \in Pollers : PollFits(p)
-----------------------------------------------------------------------------
(* What the statements on the row, and the moves of a poller, do.           *)

\* A step of the row that changes nothing the promise is about: a final row
\* keeps its status, a live one stays live, and an id is stored once.
Touches(r, s, up) ==
  \/ s = r
  \/ /\ r # NoRow /\ r \in Rows /\ s \in Rows
     /\ s.terminalAt <=> s.status \in Terminal
     /\ s.status \in Terminal <=> r.status \in Terminal
     /\ r.status \in Terminal => s.status = r.status
     /\ s.kind \in NeverRun => r.kind \in NeverRun
     /\ s.counted = r.counted
     /\ r.hasId => s.hasId
     /\ s.hasId => s.status \notin Asked /\ up # "absent"

\* A guarded patch leaves the row, or is legal and is stored.
LEMMA SwapIs ==
  ASSUME NEW r, NEW from, NEW patched
  PROVE  \/ Swap(r, from, patched) = r
         \/ /\ Swap(r, from, patched) = patched
            /\ r # NoRow /\ r.status \in from
            /\ patched.terminalAt <=> patched.status \in Terminal
BY DEF Swap, Write, Legal

\* The same for a patch with no guard.
LEMMA WriteIs ==
  ASSUME NEW r, NEW patched
  PROVE  \/ Write(r, patched) = r
         \/ /\ Write(r, patched) = patched
            /\ patched.terminalAt <=> patched.status \in Terminal
BY DEF Write, Legal

\* A row that is settled, and one whose submission is rejected.
LEMMA SettledIs ==
  ASSUME NEW r \in Rows, NEW status \in Terminal, NEW kind \in Kinds,
         NEW counted \in SUBSET Items, NEW s, s = Settled(r, status, kind, counted)
  PROVE  /\ s \in Rows
         /\ s.status = status /\ s.terminalAt /\ s.kind = kind
         /\ s.counted = counted /\ s.hasId = r.hasId
<1>1. s.status = status /\ s.terminalAt /\ s.kind = kind /\ s.counted = counted /\ s.hasId = r.hasId
  BY DEF Settled, Rows
<1>2. s \in Rows
  BY DEF Settled, Rows
<1> QED
  BY <1>1, <1>2

LEMMA FailedIs ==
  ASSUME NEW r \in Rows, r # NoRow, r.status \notin Terminal, NEW s, s = Failed(r)
  PROVE  /\ s \in Rows
         /\ s.status = "failed" /\ s.terminalAt /\ s.kind = "rejected"
         /\ s.counted = r.counted /\ s.hasId = r.hasId
<1> DEFINE u == [r EXCEPT !.status = "failed", !.terminalAt = TRUE, !.kind = "rejected"]
<1>1. s = u
  BY DEF Failed
<1>2. /\ u.status = "failed" /\ u.terminalAt /\ u.kind = "rejected"
      /\ u.counted = r.counted /\ u.hasId = r.hasId
  BY DEF Rows
<1>3. u \in Rows
  BY DEF Rows, Terminal, Kinds
<1> HIDE DEF u
<1> QED
  BY <1>1, <1>2, <1>3

\* Nothing is missed where nothing misled the gateway.
LEMMA NotMissed ==
  ASSUME missed \in BOOLEAN, NEW misled, ~misled, missed' = (missed \/ misled)
  PROVE  missed' = missed
OBVIOUS

LEMMA NoRowIsNone == BatchAssumption => NoRow \notin Rows
BY DEF BatchAssumption

LEMMA IdleTyped == Idle \in Polls
BY DEF Idle, Polls, Upstreams, Rows, Kinds

\* A poller that gives its work up is idle again, and the others are left alone.
LEMMA DoneMoves ==
  ASSUME TypeOK, NEW p \in Pollers, Done(p)
  PROVE  /\ poll' \in [Pollers -> Polls]
         /\ poll'[p] = Idle
         /\ \A q \in Pollers \ {p} : poll'[q] = poll[q]
BY IdleTyped DEF TypeOK, Done

\* A poller that goes on to another step keeps what it knows.
LEMMA GotoMoves ==
  ASSUME TypeOK, NEW p \in Pollers,
         NEW step \in {"adopt", "lateCancel", "mark", "status", "release"}, Goto(p, step)
  PROVE  /\ poll' \in [Pollers -> Polls]
         /\ poll'[p] = [poll[p] EXCEPT !.step = step]
         /\ poll'[p].step = step /\ poll'[p].snap = poll[p].snap
         /\ poll'[p].view = poll[p].view /\ poll'[p].seen = poll[p].seen
         /\ poll'[p].kind = poll[p].kind
         /\ \A q \in Pollers \ {p} : poll'[q] = poll[q]
BY DEF TypeOK, Goto, Polls

\* A poller goes on to finish the job, having settled nothing.
LEMMA FinishAsMoves ==
  ASSUME TypeOK, NEW p \in Pollers, NEW status \in Terminal, NEW kind \in Kinds,
         FinishAs(p, status, kind)
  PROVE  /\ poll' \in [Pollers -> Polls]
         /\ poll'[p].step = "finish" /\ poll'[p].snap = poll[p].snap
         /\ poll'[p].view = status /\ poll'[p].seen = {}
         /\ poll'[p].kind = kind
         /\ \A q \in Pollers \ {p} : poll'[q] = poll[q]
<1> DEFINE t == poll[p]
           u == [t EXCEPT !.step = "finish", !.view = status, !.kind = kind, !.seen = {}]
<1>1. poll \in [Pollers -> Polls] /\ t \in Polls
  BY DEF TypeOK
<1>2. poll' = [poll EXCEPT ![p] = u]
  BY <1>1 DEF FinishAs
<1> HIDE DEF t
<1>3. /\ u.step = "finish" /\ u.snap = t.snap
      /\ u.view = status /\ u.seen = {} /\ u.kind = kind
  BY <1>1 DEF Polls
<1>4. u \in Polls
  BY <1>1 DEF Polls, Upstreams
<1> HIDE DEF u
<1>5. poll'[p] = u /\ poll' \in [Pollers -> Polls]
      /\ \A q \in Pollers \ {p} : poll'[q] = poll[q]
  BY <1>1, <1>2, <1>4
<1> QED
  BY <1>3, <1>5 DEF t
-----------------------------------------------------------------------------
(* What a poller relies on survives the steps of the others.                *)

\* The steps the world may take under a poller that stands still: the ledger
\* and the clock grow, a stored id stays, and the upstream starts the job, is
\* asked to cancel it, loses or forgets it.
Drifts ==
  /\ age' \in Nat /\ age' >= age
  /\ ledger \subseteq ledger'
  /\ row # NoRow /\ row.hasId => row' # NoRow /\ row'.hasId
  /\ results' = results
  /\ \/ upstream' = upstream
     \/ upstream = "absent" /\ upstream' = "in_progress" /\ age < 2
     \/ upstream = "in_progress" /\ upstream' = "cancelling"
     \/ upstream = "in_progress" /\ upstream' = "forgotten"

LEMMA PollStays ==
  ASSUME IInv, NEW p \in Pollers, Drifts, poll'[p] = poll[p]
  PROVE  PollFits(p)'
<1> DEFINE t == poll[p]
<1>1. /\ PollFits(p) /\ LedgerFits /\ age \in 0..3
      /\ upstream \in Upstreams /\ t \in Polls
  BY DEF IInv, TypeOK
<1>2. upstream = "in_progress" => results = {}
  BY <1>1 DEF LedgerFits, Ahead
<1>3. CASE upstream' = upstream
  BY <1>1, <1>3 DEF PollFits, Drifts, Polls
<1>4. CASE upstream = "absent" /\ upstream' = "in_progress" /\ age < 2
  BY <1>1, <1>4 DEF PollFits, Drifts, Polls, Terminal
<1>5. CASE upstream = "in_progress" /\ upstream' \in {"cancelling", "forgotten"}
  BY <1>1, <1>2, <1>5 DEF PollFits, Drifts, Polls, Terminal
<1> QED
  BY <1>3, <1>4, <1>5 DEF Drifts

\* One poller moves, and the others keep what they rely on.
LEMMA OneMoves ==
  ASSUME IInv, NEW p \in Pollers, Drifts,
         \A q \in Pollers \ {p} : poll'[q] = poll[q], PollFits(p)'
  PROVE  \A q \in Pollers : PollFits(q)'
<1> SUFFICES ASSUME NEW q \in Pollers PROVE PollFits(q)'
  OBVIOUS
<1>1. CASE q = p
  BY <1>1
<1>2. CASE q # p
  BY <1>2, PollStays
<1> QED
  BY <1>1, <1>2

\* No poller moves.
LEMMA NoneMoves ==
  ASSUME IInv, Drifts, poll' = poll
  PROVE  \A q \in Pollers : PollFits(q)'
BY PollStays

\* The row is touched, and nothing else of the job: its part of the invariant
\* holds, and for the promise nothing has happened.
LEMMA RowTouched ==
  ASSUME IInv, BatchAssumption, Touches(row, row', upstream),
         submit' = submit, ledger' = ledger, released' = released,
         upstream' = upstream, results' = results, age' = age, provider' = provider
  PROVE  /\ row' \in Rows \cup {NoRow}
         /\ row' # NoRow => (row'.terminalAt <=> row'.status \in Terminal)
         /\ row # NoRow /\ row.hasId => row' # NoRow /\ row'.hasId
         /\ Final' <=> Final
         /\ RowFits' /\ LedgerFits' /\ EndFits'
         /\ UNCHANGED Promise!vars
<1>1. /\ TypeOK /\ RowFits /\ LedgerFits /\ EndFits /\ NoRow \notin Rows
  BY NoRowIsNone DEF IInv
<1>2. /\ row' \in Rows \cup {NoRow}
      /\ row' # NoRow => (row'.terminalAt <=> row'.status \in Terminal)
      /\ row # NoRow /\ row.hasId => row' # NoRow /\ row'.hasId
      /\ row' = NoRow <=> row = NoRow
  BY <1>1 DEF Touches, TypeOK
<1>3. Final' <=> Final
  BY <1>1, <1>2 DEF Touches, Final
<1>4. RowFits'
  BY <1>1, <1>2 DEF Touches, RowFits, RowKnows
<1>5. LedgerFits'
  BY <1>1 DEF LedgerFits
<1>6. EndFits'
  BY <1>1, <1>2, <1>3 DEF Touches, EndFits, Final
<1>7. UNCHANGED Promise!vars
  BY <1>1, <1>2, <1>3 DEF Touches, Promise!vars, Final
<1> QED
  BY <1>2, <1>3, <1>4, <1>5, <1>6, <1>7

\* Who is about to release stays alone when no poller gets there and the job
\* stays final.
LEMMA ReleaseStays ==
  ASSUME ReleaseFits, Final => Final', released' = released,
         submit' = submit \/ submit' # "release",
         \A p \in Pollers : poll'[p].step = "release" => At(p, "release")
  PROVE  ReleaseFits'
BY DEF ReleaseFits, At
-----------------------------------------------------------------------------
(* Every step keeps the invariant, and is a step of the promise or none.    *)

Keeps == IInv' /\ (Promise!Next \/ UNCHANGED Promise!vars)

\* One poller moves and touches the row at most.
LEMMA PollerTouches ==
  ASSUME IInv, BatchAssumption, NEW p \in Pollers, Touches(row, row', upstream),
         UNCHANGED <<submitting, ledger, cancel, upstream, results, provider, age, missed>>,
         failures' \in 0..MaxFailures,
         poll' \in [Pollers -> Polls], \A q \in Pollers \ {p} : poll'[q] = poll[q],
         RowFits' => PollFits(p)', poll'[p].step # "release"
  PROVE  Keeps
<1>1. /\ row' \in Rows \cup {NoRow}
      /\ row' # NoRow => (row'.terminalAt <=> row'.status \in Terminal)
      /\ row # NoRow /\ row.hasId => row' # NoRow /\ row'.hasId
      /\ Final' <=> Final
      /\ RowFits' /\ LedgerFits' /\ EndFits'
      /\ UNCHANGED Promise!vars
  BY RowTouched DEF submitting
<1>2. TypeOK'
  BY <1>1 DEF TypeOK, IInv, submitting
<1>3. Drifts
  BY <1>1 DEF Drifts, IInv, TypeOK
<1>4. \A q \in Pollers : PollFits(q)'
  BY <1>1, <1>3, OneMoves
<1>5. ReleaseFits'
  <2>1. \A q \in Pollers : poll'[q].step = "release" => At(q, "release")
    BY DEF At
  <2> QED
    BY <1>1, <2>1, ReleaseStays DEF IInv, submitting
<1> QED
  BY <1>1, <1>2, <1>4, <1>5 DEF Keeps, IInv

\* The owner touches the row at most.
LEMMA OwnerTouches ==
  ASSUME IInv, BatchAssumption, Touches(row, row', upstream), cancel' \in Cancels,
         UNCHANGED <<submitting, ledger, poll, world>>
  PROVE  Keeps
<1>1. /\ row' \in Rows \cup {NoRow}
      /\ row' # NoRow => (row'.terminalAt <=> row'.status \in Terminal)
      /\ row # NoRow /\ row.hasId => row' # NoRow /\ row'.hasId
      /\ Final' <=> Final
      /\ RowFits' /\ LedgerFits' /\ EndFits'
      /\ UNCHANGED Promise!vars
  BY RowTouched DEF submitting, world
<1>2. TypeOK'
  BY <1>1 DEF TypeOK, IInv, submitting, world
<1>3. Drifts
  BY <1>1 DEF Drifts, IInv, TypeOK, world
<1>4. \A q \in Pollers : PollFits(q)'
  BY <1>3, NoneMoves
<1>5. ReleaseFits'
  BY <1>1, ReleaseStays DEF IInv, submitting, At
<1> QED
  BY <1>1, <1>2, <1>4, <1>5 DEF Keeps, IInv, world

\* The upstream turns, under pollers of whom one at most moves on.
LEMMA UpstreamTurns ==
  ASSUME IInv, Drifts, upstream' \in Upstreams, cancel' \in Cancels,
         upstream = "absent" /\ upstream' # "absent" => submit \in {"sent", "lost"},
         upstream' = "forgotten" => upstream = "forgotten" \/ (row # NoRow /\ row.hasId),
         UNCHANGED <<row, ledger, submitting, age, provider, missed>>,
         failures' \in 0..MaxFailures, poll' \in [Pollers -> Polls],
         \A p \in Pollers : PollFits(p)' /\ (poll'[p].step = "release" => At(p, "release"))
  PROVE  Keeps
<1>1. TypeOK /\ RowFits /\ LedgerFits /\ EndFits /\ ReleaseFits /\ provider
  BY DEF IInv
<1>2. TypeOK'
  BY <1>1 DEF TypeOK, Drifts, submitting
<1>3. RowFits'
  BY <1>1 DEF RowFits, RowKnows, Drifts, submitting, Ahead
<1>4. LedgerFits'
  BY <1>1 DEF LedgerFits, Drifts, Ahead, Terminal
<1>5. Final' <=> Final
  BY DEF Final
<1>6. EndFits'
  BY <1>1, <1>5 DEF EndFits, Drifts, Final, submitting, Terminal
<1>7. ReleaseFits'
  BY <1>1, <1>5, ReleaseStays DEF submitting
<1>8. Promise!Next \/ UNCHANGED Promise!vars
  <2>1. CASE upstream' = "forgotten" /\ upstream # "forgotten"
    BY <2>1, <1>5 DEF Promise!Next, Promise!Lapse, Drifts, submitting, Final
  <2>2. CASE ~(upstream' = "forgotten" /\ upstream # "forgotten")
    BY <2>2, <1>5 DEF Promise!vars, Drifts, submitting, Final
  <2> QED
    BY <2>1, <2>2
<1> QED
  BY <1>1, <1>2, <1>3, <1>4, <1>6, <1>7, <1>8 DEF Keeps, IInv
-----------------------------------------------------------------------------
(* The submitting request.                                                  *)

\* A step of the request that leaves a live row, or none, where it was live or
\* absent, and no poller, owner or upstream moves.
LEMMA SubmissionMoves ==
  ASSUME IInv, row' \in Rows \cup {NoRow},
         row' # NoRow => (row'.terminalAt <=> row'.status \in Terminal),
         submit' \in {"new", "inserted", "reserved", "sent", "lost", "release", "done"},
         reserved' \in BOOLEAN, released' \in {0, 1},
         row # NoRow /\ row.hasId => row' # NoRow /\ row'.hasId,
         UNCHANGED <<ledger, cancel, poll, world>>,
         RowFits', EndFits', ReleaseFits', Promise!Next \/ UNCHANGED Promise!vars
  PROVE  Keeps
<1>1. TypeOK'
  BY DEF TypeOK, IInv, world
<1>2. LedgerFits'
  BY DEF LedgerFits, IInv, world
<1>3. Drifts
  BY DEF Drifts, IInv, TypeOK, world
<1>4. \A q \in Pollers : PollFits(q)'
  BY <1>3, NoneMoves
<1> QED
  BY <1>1, <1>2, <1>4 DEF Keeps, IInv, world

LEMMA InsertKeeps == ASSUME IInv, BatchAssumption, Insert PROVE Keeps
<1>1. /\ row = NoRow /\ row' = InsertedRow /\ submit = "new" /\ submit' = "inserted"
      /\ upstream = "absent" /\ InsertedRow \in Rows /\ InsertedRow # NoRow
      /\ InsertedRow.status = "submitting" /\ ~InsertedRow.hasId
      /\ ~InsertedRow.terminalAt /\ InsertedRow.counted = {}
  <2>1. InsertedRow \in Rows
    BY DEF InsertedRow, Rows, Kinds, NonTerminal
  <2> QED
    BY <2>1, NoRowIsNone DEF Insert, IInv, RowFits, RowKnows, InsertedRow
<1>2. ~Final /\ ~Final'
  BY <1>1 DEF Final, Terminal
<1>3. RowFits'
  BY <1>1 DEF Insert, IInv, RowFits, RowKnows, world, Ahead, TypeOK
<1>4. EndFits' /\ ReleaseFits'
  BY <1>1, <1>2 DEF Insert, IInv, EndFits, ReleaseFits, At
<1>5. UNCHANGED Promise!vars
  BY <1>1, <1>2 DEF Insert, world, Promise!vars
<1> QED
  BY <1>1, <1>3, <1>4, <1>5, SubmissionMoves DEF Insert, IInv, TypeOK, Terminal, ReleaseFits

LEMMA RefuseKeeps == ASSUME IInv, BatchAssumption, Refuse PROVE Keeps
<1>1. TypeOK /\ RowFits /\ EndFits /\ ReleaseFits /\ NoRow \notin Rows
  BY NoRowIsNone DEF IInv
<1>2. /\ row' \in {row, NoRow}
      /\ row' # row => row # NoRow /\ row.status = "submitting" /\ ~row.hasId
  BY DEF Refuse, Discarded
<1>3. Final' <=> Final
  BY <1>2 DEF Final, Terminal
<1>4. RowFits'
  BY <1>1, <1>2 DEF Refuse, RowFits, RowKnows, world, Ahead
<1>5. EndFits' /\ ReleaseFits'
  BY <1>1, <1>2, <1>3 DEF Refuse, EndFits, ReleaseFits, At, world, Final
<1>6. UNCHANGED Promise!vars
  BY <1>1, <1>2, <1>3 DEF Refuse, world, Promise!vars, RowFits, RowKnows, Final, Terminal
<1> QED
  BY <1>1, <1>2, <1>4, <1>5, <1>6, SubmissionMoves DEF Refuse, TypeOK, ReleaseFits

\* Steps of the request that do not touch the row.
LEMMA RequestKeeps ==
  ASSUME IInv, Reserve \/ Send \/ AbandonSubmit PROVE Keeps
<1>1. TypeOK /\ RowFits /\ EndFits /\ ReleaseFits
  BY DEF IInv
<1>2. /\ UNCHANGED <<row, ledger, released, cancel, poll, world>>
      /\ submit \notin {"new", "done"} /\ submit' \in {"reserved", "sent", "lost", "done"}
      /\ submit' = "lost" <=> submit = "sent" /\ submit' # "done"
      /\ submit = "release" => submit' = "done"
      /\ submit' \in {"reserved", "sent"} => submit \in {"inserted", "reserved"}
      /\ reserved' \in BOOLEAN
  BY <1>1 DEF Reserve, Send, AbandonSubmit, TypeOK
<1>3. Final' <=> Final
  BY <1>2 DEF Final
<1>4. RowFits'
  BY <1>1, <1>2 DEF RowFits, RowKnows, world
<1>5. EndFits' /\ ReleaseFits'
  BY <1>1, <1>2, <1>3 DEF EndFits, ReleaseFits, At, world, Final
<1>6. UNCHANGED Promise!vars
  BY <1>2, <1>3 DEF world, Promise!vars, Final
<1> QED
  BY <1>1, <1>2, <1>4, <1>5, <1>6, SubmissionMoves DEF TypeOK, ReleaseFits

\* The answered create stores the id in a row that still waits for it.
LEMMA AcceptedTouches ==
  ASSUME TypeOK, Accepted
  PROVE  Touches(row, row', upstream)
<1> DEFINE patched == [row EXCEPT !.status = upstream, !.hasId = TRUE]
<1>1. CASE row' = row
  BY <1>1 DEF Touches
<1>2. CASE row' # row
  <2>1. /\ row' = patched /\ row # NoRow /\ row.status = "submitting" /\ row \in Rows
        /\ patched.terminalAt <=> patched.status \in Terminal
    <3>1. row' = Swap(row, {"submitting"}, patched)
      BY DEF Accepted
    <3> HIDE DEF patched
    <3>2. /\ row' = patched /\ row # NoRow /\ row.status = "submitting"
          /\ patched.terminalAt <=> patched.status \in Terminal
      BY <1>2, <3>1, SwapIs
    <3> QED
      BY <3>2 DEF TypeOK
  <2>2. /\ patched.status = upstream /\ patched.hasId /\ patched.terminalAt = row.terminalAt
        /\ patched.kind = row.kind /\ patched.counted = row.counted
    BY <2>1 DEF Rows
  <2>3. upstream \in {"in_progress", "cancelling"}
    BY <2>1, <2>2 DEF Accepted, TypeOK, Upstreams, Terminal
  <2>4. patched \in Rows
    BY <2>1, <2>3 DEF Rows, NonTerminal
  <2> QED
    BY <2>1, <2>2, <2>3, <2>4 DEF Touches, Asked, Terminal
<1> QED
  BY <1>1, <1>2

\* The create is answered: the id is stored in a row that still waits for it.
LEMMA AcceptedKeeps == ASSUME IInv, BatchAssumption, Accepted PROVE Keeps
<1>1. TypeOK /\ RowFits /\ EndFits /\ ReleaseFits /\ NoRow \notin Rows
  BY NoRowIsNone DEF IInv
<1>2. Touches(row, row', upstream)
  BY <1>1, AcceptedTouches
<1>3. /\ row' \in Rows \cup {NoRow}
      /\ row' # NoRow => (row'.terminalAt <=> row'.status \in Terminal)
      /\ row # NoRow /\ row.hasId => row' # NoRow /\ row'.hasId
      /\ row' = NoRow <=> row = NoRow
      /\ Final' <=> Final
  BY <1>1, <1>2 DEF Touches, TypeOK, Final
<1>4. /\ UNCHANGED <<ledger, reserved, released, cancel, poll, world>>
      /\ submit = "sent" /\ submit' = "done"
  BY DEF Accepted
<1>5. RowFits'
  BY <1>1, <1>2, <1>3, <1>4 DEF Touches, RowFits, RowKnows, world
<1>6. EndFits'
  BY <1>1, <1>2, <1>3, <1>4 DEF Touches, EndFits, world, Final
<1>7. ReleaseFits'
  BY <1>1, <1>3, <1>4 DEF ReleaseFits, At
<1>8. UNCHANGED Promise!vars
  BY <1>1, <1>2, <1>3, <1>4 DEF Touches, Promise!vars, world, Final
<1>9. reserved' \in BOOLEAN /\ released' \in {0, 1}
  BY <1>1, <1>4 DEF TypeOK, ReleaseFits
<1> QED
  BY <1>3, <1>4, <1>5, <1>6, <1>7, <1>8, <1>9, SubmissionMoves

\* The create is refused: nothing ran, nothing is booked, and the job closes.
LEMMA RejectedKeeps == ASSUME IInv, BatchAssumption, Benign, Rejected PROVE Keeps
<1>1. TypeOK /\ RowFits /\ EndFits /\ ReleaseFits /\ LedgerFits /\ provider /\ NoRow \notin Rows
  BY NoRowIsNone DEF IInv
<1>2. /\ UNCHANGED <<ledger, reserved, released, cancel, poll, world>>
      /\ submit = "sent" /\ upstream = "absent" /\ submit' \in {"release", "done"}
  <2>1. submit = "sent" /\ upstream = "absent" /\ submit' \in {"release", "done"}
    BY DEF Rejected, Benign
  <2>2. missed' = missed
    BY <1>1, <2>1, NotMissed DEF Rejected, TypeOK
  <2> QED
    BY <2>1, <2>2 DEF Rejected, world
<1>3. row # NoRow /\ row \in Rows /\ ~Final /\ ~row.hasId /\ row.counted = {}
  BY <1>1, <1>2 DEF RowFits, RowKnows, EndFits, TypeOK, Terminal, Final
<1>4. /\ row' \in Rows /\ row' # NoRow /\ row'.status = "failed" /\ row'.terminalAt
      /\ row'.kind = "rejected" /\ row'.counted = {} /\ ~row'.hasId
  <2>1. row' = Failed(row) /\ row.status \notin Terminal
    BY <1>1, <1>3 DEF Rejected, Final
  <2> QED
    BY <1>1, <1>3, <2>1, FailedIs
<1>5. Final'
  BY <1>4 DEF Final, Terminal
<1>6. released = 0 /\ \A p \in Pollers : ~At(p, "release")
  BY <1>1, <1>3 DEF ReleaseFits
<1>7. RowFits'
  BY <1>1, <1>2, <1>4 DEF RowFits, RowKnows, world, Terminal, Ahead
<1>8. results = {} /\ ledger = {}
  BY <1>1, <1>2 DEF LedgerFits, Ahead
<1>9. EndFits'
  BY <1>2, <1>4, <1>8 DEF EndFits, world
<1>10. ReleaseFits'
  BY <1>2, <1>5, <1>6 DEF ReleaseFits, At
<1>11. Promise!Close
  BY <1>1, <1>2, <1>3, <1>4, <1>5, <1>8 DEF Promise!Close, world, Terminal
<1>12. /\ row' \in Rows \cup {NoRow}
       /\ row' # NoRow => (row'.terminalAt <=> row'.status \in Terminal)
       /\ row # NoRow /\ row.hasId => row' # NoRow /\ row'.hasId
       /\ reserved' \in BOOLEAN /\ released' \in {0, 1}
  BY <1>1, <1>2, <1>3, <1>4, <1>6 DEF TypeOK, Terminal
<1>13. Promise!Next \/ UNCHANGED Promise!vars
  BY <1>11 DEF Promise!Next
<1> QED
  BY <1>2, <1>7, <1>9, <1>10, <1>12, <1>13, SubmissionMoves

LEMMA ReleaseRejectedKeeps == ASSUME IInv, ReleaseRejected PROVE Keeps
<1>1. TypeOK /\ RowFits /\ EndFits /\ ReleaseFits
  BY DEF IInv
<1>2. /\ UNCHANGED <<row, ledger, reserved, cancel, poll, world>>
      /\ submit = "release" /\ submit' = "done" /\ Final /\ released = 0 /\ released' = 1
      /\ \A p \in Pollers : ~At(p, "release")
  BY <1>1 DEF ReleaseRejected, ReleaseFits
<1>3. Final'
  BY <1>2 DEF Final
<1>4. RowFits' /\ EndFits' /\ ReleaseFits'
  BY <1>1, <1>2, <1>3 DEF RowFits, RowKnows, EndFits, ReleaseFits, At, world, Final
<1>5. Promise!Free
  BY <1>2, <1>3 DEF Promise!Free, world, Final, Terminal
<1>6. /\ row' \in Rows \cup {NoRow}
      /\ row' # NoRow => (row'.terminalAt <=> row'.status \in Terminal)
      /\ row # NoRow /\ row.hasId => row' # NoRow /\ row'.hasId
      /\ reserved' \in BOOLEAN
  BY <1>1, <1>2 DEF TypeOK
<1>7. Promise!Next \/ UNCHANGED Promise!vars
  BY <1>5 DEF Promise!Next
<1> QED
  BY <1>2, <1>4, <1>6, <1>7, SubmissionMoves
-----------------------------------------------------------------------------
(* The upstream, the owner and time.                                        *)

\* The upstream starts the job, loses it or forgets it, or is asked to cancel.
LEMMA TurnKeeps ==
  ASSUME IInv, UpstreamCreate \/ UpstreamForget \/ UpstreamLose \/ CancelUpstream
  PROVE  Keeps
<1>1. TypeOK /\ RowFits /\ LedgerFits /\ provider
  BY DEF IInv
<1>2. /\ UNCHANGED <<row, ledger, submit, reserved, released, poll, failures,
                     results, provider, age, missed>>
      /\ cancel' \in Cancels
  BY <1>1 DEF UpstreamCreate, UpstreamForget, UpstreamLose, CancelUpstream, gateway,
     TypeOK, Cancels
<1>3. CASE UpstreamForget
  <2>1. /\ upstream \in Terminal /\ upstream' = "forgotten" /\ age = 3 /\ cancel' = cancel
        /\ \A p \in Pollers : poll[p].step \in {"idle", "settle"}
    BY <1>3 DEF UpstreamForget
  <2>2. row # NoRow /\ row.hasId
    BY <1>1, <2>1 DEF RowFits, RowKnows, Ahead, Terminal
  <2>3. \A p \in Pollers : PollFits(p)'
    <3> SUFFICES ASSUME NEW p \in Pollers PROVE PollFits(p)'
      OBVIOUS
    <3>1. PollFits(p) /\ poll[p] \in Polls
      BY <1>1 DEF IInv, TypeOK
    <3> QED
      BY <1>2, <2>1, <3>1 DEF PollFits, Polls
  <2>4. TypeOK'
    BY <1>1, <1>2, <2>1 DEF TypeOK, Upstreams
  <2>5. Final' <=> Final
    BY <1>2 DEF Final
  <2>6. RowFits' /\ LedgerFits' /\ EndFits'
    BY <1>1, <1>2, <2>1, <2>2, <2>5 DEF RowFits, RowKnows, LedgerFits, EndFits, Ahead,
       IInv, Terminal, Final
  <2>7. ReleaseFits'
    BY <1>2, <2>5, ReleaseStays DEF IInv, At
  <2>8. Promise!Lapse
    BY <1>2, <2>1, <2>5 DEF Promise!Lapse, Final
  <2> QED
    BY <1>1, <1>2, <2>3, <2>4, <2>6, <2>7, <2>8 DEF Keeps, IInv, Promise!Next
<1>4. CASE UpstreamCreate \/ UpstreamLose \/ CancelUpstream
  <2>1. \/ upstream = "absent" /\ upstream' = "in_progress" /\ age < 2
           /\ submit \in {"sent", "lost"}
        \/ upstream = "in_progress" /\ upstream' = "forgotten" /\ row # NoRow /\ row.hasId
        \/ upstream = "in_progress" /\ upstream' = "cancelling"
        \/ upstream = "cancelling" /\ upstream' = "cancelling"
    BY <1>4 DEF UpstreamCreate, UpstreamLose, CancelUpstream, AskUpstream
  <2>2. Drifts
    BY <1>1, <1>2, <2>1 DEF Drifts, TypeOK
  <2>3. \A p \in Pollers : PollFits(p)'
    BY <1>2, <2>2, NoneMoves
  <2>4. /\ upstream' \in Upstreams
        /\ upstream = "absent" /\ upstream' # "absent" => submit \in {"sent", "lost"}
        /\ upstream' = "forgotten" => upstream = "forgotten" \/ (row # NoRow /\ row.hasId)
    BY <2>1 DEF Upstreams
  <2>5. /\ UNCHANGED <<row, ledger, submitting, age, provider, missed>>
        /\ failures' \in 0..MaxFailures /\ poll' \in [Pollers -> Polls]
        /\ \A p \in Pollers : poll'[p].step = "release" => At(p, "release")
    BY <1>1, <1>2 DEF TypeOK, submitting, At
  <2> QED
    BY <1>2, <2>2, <2>3, <2>4, <2>5, UpstreamTurns
<1> QED
  BY <1>3, <1>4

\* The upstream ends a job whose id is known; it is not final, so that its
\* results are still owed.
LEMMA EndKeeps ==
  ASSUME IInv, BatchAssumption, Benign, UpstreamEnd
  PROVE  Keeps
<1>1. TypeOK /\ RowFits /\ LedgerFits /\ EndFits /\ ReleaseFits /\ provider
  BY DEF IInv
<1>2. /\ Known /\ upstream \in {"in_progress", "cancelling"} /\ upstream' \in Terminal
      /\ results' \in SUBSET Items
      /\ UNCHANGED <<row, ledger, submit, reserved, released, poll, failures,
                     cancel, provider, age, missed>>
  <2>1. /\ Known /\ upstream \in {"in_progress", "cancelling"} /\ upstream' \in Terminal
        /\ results' \in SUBSET Items
        /\ UNCHANGED <<row, ledger, submit, reserved, released, poll, failures,
                       cancel, provider, age>>
    BY DEF UpstreamEnd, submitting, BatchAssumption, Terminal, Benign
  <2>2. missed' = missed
    BY <1>1, <2>1, NotMissed DEF UpstreamEnd, TypeOK
  <2> QED
    BY <2>1, <2>2
<1>3. row # NoRow /\ row.hasId /\ results = {} /\ ledger = {}
  BY <1>1, <1>2 DEF Known, LedgerFits, Ahead
<1>4. ~Final /\ ~Final'
  BY <1>1, <1>2 DEF EndFits, Final, Terminal
<1>5. \A p \in Pollers : PollFits(p)'
  <2> SUFFICES ASSUME NEW p \in Pollers PROVE PollFits(p)'
    OBVIOUS
  <2>1. PollFits(p) /\ poll[p] \in Polls /\ poll'[p] = poll[p]
    BY <1>1, <1>2 DEF IInv, TypeOK
  <2>2. poll[p].step # "adopt" /\ (poll[p].step = "picked" => poll[p].snap.hasId)
    BY <1>2 DEF Known
  <2>3. poll[p].step \notin {"settle", "finish"}
    BY <1>2, <2>1 DEF PollFits, Terminal
  <2>4. ~(poll[p].step = "viewed" /\ poll[p].view \in Terminal)
    BY <1>2, <2>1 DEF PollFits, Terminal
  <2> QED
    BY <1>2, <1>3, <2>1, <2>2, <2>3, <2>4 DEF PollFits
<1>6. TypeOK'
  BY <1>1, <1>2 DEF TypeOK, Upstreams
<1>7. RowFits' /\ LedgerFits'
  BY <1>1, <1>2, <1>3 DEF RowFits, RowKnows, LedgerFits, Ahead, Terminal
<1>8. EndFits' /\ ReleaseFits'
  BY <1>1, <1>2, <1>4 DEF EndFits, ReleaseFits, At
<1>9. Promise!Earn
  BY <1>1, <1>2, <1>4 DEF Promise!Earn, Promise!Running, Terminal
<1> QED
  BY <1>1, <1>2, <1>5, <1>6, <1>7, <1>8, <1>9 DEF Keeps, IInv, Promise!Next

\* Time passes.
LEMMA AgeKeeps == ASSUME IInv, Age PROVE Keeps
<1>1. TypeOK /\ RowFits /\ LedgerFits /\ EndFits /\ ReleaseFits /\ provider
  BY DEF IInv
<1>2. /\ age < 3 /\ age' = age + 1 /\ (age >= 1 => submit \in {"lost", "done"})
      /\ UNCHANGED <<row, ledger, submit, reserved, released, poll, failures,
                     upstream, results, cancel, provider, missed>>
  BY DEF Age, gateway
<1>3. TypeOK'
  BY <1>1, <1>2 DEF TypeOK
<1>4. Drifts
  BY <1>1, <1>2 DEF Drifts, TypeOK
<1>5. \A p \in Pollers : PollFits(p)'
  BY <1>2, <1>4, NoneMoves
<1>6. Final' <=> Final
  BY <1>2 DEF Final
<1>7. age \in Nat
  BY <1>1 DEF TypeOK
<1>8. RowFits' /\ LedgerFits' /\ EndFits'
  BY <1>1, <1>2, <1>6, <1>7 DEF RowFits, RowKnows, LedgerFits, EndFits, Final
<1>9. ReleaseFits'
  BY <1>1, <1>2, <1>6, ReleaseStays DEF At
<1>10. UNCHANGED Promise!vars
  BY <1>2, <1>6 DEF Promise!vars, Final
<1> QED
  BY <1>1, <1>2, <1>3, <1>5, <1>8, <1>9, <1>10 DEF Keeps, IInv

\* What the owner's cancel writes.
LEMMA OwnerRowTouches ==
  ASSUME TypeOK, RowKnows,
         LoadForCancel \/ RecordCancel \/ MarkCancelled \/ AbandonCancel
  PROVE  Touches(row, row', upstream)
<1>1. CASE row' = row
  BY <1>1 DEF Touches
<1>2. CASE row' # row /\ RecordCancel
  <2>1. row # NoRow /\ row \in Rows /\ row' = [row EXCEPT !.cancelRequested = TRUE]
    BY <1>2 DEF RecordCancel, TypeOK
  <2> QED
    BY <2>1 DEF Touches, TypeOK, RowKnows, Rows
<1>3. CASE row' # row /\ MarkCancelled
  <2> DEFINE patched == [row EXCEPT !.status = "cancelling", !.cancelRequested = TRUE]
  <2>1. row' = Swap(row, {"in_progress", "finalizing"}, patched)
    BY <1>3 DEF MarkCancelled
  <2> HIDE DEF patched
  <2>2. /\ row' = patched /\ row # NoRow /\ row.status \in {"in_progress", "finalizing"}
        /\ patched.terminalAt <=> patched.status \in Terminal
    BY <1>3, <2>1, SwapIs
  <2>3. row \in Rows
    BY <2>2 DEF TypeOK
  <2> USE DEF patched
  <2> QED
    BY <2>2, <2>3 DEF Touches, RowKnows, Rows, Asked, Terminal, NonTerminal
<1> QED
  BY <1>1, <1>2, <1>3 DEF LoadForCancel, AbandonCancel, gateway

\* The owner's cancel touches the row at most, and asks the upstream at most.
LEMMA OwnerKeeps ==
  ASSUME IInv, BatchAssumption,
         LoadForCancel \/ RecordCancel \/ MarkCancelled \/ AbandonCancel
  PROVE  Keeps
<1>1. TypeOK /\ RowFits /\ NoRow \notin Rows
  BY NoRowIsNone DEF IInv
<1>2. UNCHANGED <<submitting, ledger, poll, world>> /\ cancel' \in Cancels
  <2>1. NoCancel \in Cancels
    BY DEF NoCancel, Cancels
  <2> QED
    BY <1>1, <2>1 DEF LoadForCancel, RecordCancel, MarkCancelled, AbandonCancel, gateway,
       submitting, world, TypeOK, Cancels
<1>3. Touches(row, row', upstream)
  BY <1>1, OwnerRowTouches DEF RowFits
<1> QED
  BY <1>2, <1>3, OwnerTouches
-----------------------------------------------------------------------------
(* The pollers.                                                             *)

\* A poller gives the job up until the next sweep; whatever it wrote before.
LEMMA DoneKeeps ==
  ASSUME IInv, BatchAssumption, NEW p \in Pollers, Done(p), Touches(row, row', upstream),
         UNCHANGED <<submitting, ledger, cancel, upstream, results, provider, age, missed>>,
         failures' \in 0..MaxFailures
  PROVE  Keeps
<1>1. /\ poll' \in [Pollers -> Polls] /\ poll'[p] = Idle
      /\ \A q \in Pollers \ {p} : poll'[q] = poll[q]
  BY DoneMoves DEF IInv
<1>2. PollFits(p)' /\ poll'[p].step # "release"
  BY <1>1 DEF PollFits, Idle
<1> QED
  BY <1>1, <1>2, PollerTouches

\* The upstream may be asked to cancel the job on the way.
LEMMA AskedKeeps ==
  ASSUME IInv, BatchAssumption, NEW p \in Pollers, TryCancel,
         UNCHANGED <<row, ledger, submitting, cancel, results, provider, age, missed>>,
         poll' \in [Pollers -> Polls], \A q \in Pollers \ {p} : poll'[q] = poll[q],
         PollFits(p)', poll'[p].step # "release"
  PROVE  Keeps
<1>1. TypeOK
  BY DEF IInv
<1>2. /\ \/ upstream' = upstream
         \/ upstream = "in_progress" /\ upstream' = "cancelling"
      /\ failures' \in 0..MaxFailures
  BY <1>1 DEF TryCancel, AskUpstream, TypeOK, BatchAssumption
<1>3. Drifts
  BY <1>1, <1>2 DEF Drifts, TypeOK
<1>4. \A q \in Pollers : PollFits(q)'
  BY <1>3, OneMoves
<1>5. \A q \in Pollers : poll'[q].step = "release" => At(q, "release")
  BY DEF At
<1>6. /\ upstream' \in Upstreams /\ cancel' \in Cancels
      /\ upstream = "absent" /\ upstream' # "absent" => submit \in {"sent", "lost"}
      /\ upstream' = "forgotten" => upstream = "forgotten" \/ (row # NoRow /\ row.hasId)
  BY <1>1, <1>2 DEF TypeOK, Upstreams
<1> QED
  BY <1>2, <1>3, <1>4, <1>5, <1>6, UpstreamTurns

\* A poller moves on, to any step but the release, without writing anything.
LEMMA WalkKeeps ==
  ASSUME IInv, BatchAssumption, NEW p \in Pollers, UNCHANGED <<row, others>>,
         poll' \in [Pollers -> Polls], \A q \in Pollers \ {p} : poll'[q] = poll[q],
         PollFits(p)', poll'[p].step # "release"
  PROVE  Keeps
<1>1. Touches(row, row', upstream)
  BY DEF Touches, others
<1>2. /\ UNCHANGED <<submitting, ledger, cancel, upstream, results, provider, age, missed>>
      /\ failures' \in 0..MaxFailures
  BY DEF others, world, IInv, TypeOK
<1> QED
  BY <1>1, <1>2, PollerTouches

LEMMA PickKeeps ==
  ASSUME IInv, BatchAssumption, NEW p \in Pollers, Pick(p) PROVE Keeps
<1>1. TypeOK /\ RowFits /\ LedgerFits
  BY DEF IInv
<1>2. /\ row # NoRow /\ row \in Rows /\ UNCHANGED <<row, others>>
      /\ poll' = [poll EXCEPT ![p] = [Idle EXCEPT !.step = "picked", !.snap = row]]
  BY <1>1 DEF Pick, TypeOK
<1>3. /\ poll' \in [Pollers -> Polls]
      /\ poll'[p] = [Idle EXCEPT !.step = "picked", !.snap = row]
      /\ \A q \in Pollers \ {p} : poll'[q] = poll[q]
  <2>1. [Idle EXCEPT !.step = "picked", !.snap = row] \in Polls
    BY <1>2, IdleTyped DEF Polls
  <2> QED
    BY <1>1, <1>2, <2>1 DEF TypeOK
<1>4. /\ poll'[p].step = "picked" /\ poll'[p].snap = row
      /\ poll'[p].kind = "none" /\ poll'[p].seen = {}
  BY <1>3 DEF Idle
<1>5. PollFits(p)'
  BY <1>1, <1>2, <1>4 DEF PollFits, RowFits, RowKnows, Ahead, Terminal, others, world
<1> QED
  BY <1>2, <1>3, <1>4, <1>5, WalkKeeps

\* Looking for the job in the listing.
LEMMA ListedKeeps ==
  ASSUME IInv, BatchAssumption, Benign,
         NEW p \in Pollers, ListedMatch(p) \/ ListedNoMatch(p)
  PROVE  Keeps
<1>1. /\ TypeOK /\ RowFits /\ LedgerFits /\ PollFits(p)
      /\ upstream \in Upstreams /\ poll[p] \in Polls /\ poll \in [Pollers -> Polls]
  BY DEF IInv, TypeOK
<1>2. /\ UNCHANGED <<row, others>> /\ poll[p].step = "picked" /\ ~poll[p].snap.hasId
      /\ poll[p].snap # NoRow
  <2>1. /\ poll[p].step = "picked" /\ ~poll[p].snap.hasId /\ poll[p].snap # NoRow
        /\ UNCHANGED <<row, ledger, submitting, cancel, upstream, results, provider,
                       age, failures>>
    BY <1>1 DEF ListedMatch, ListedNoMatch, At, Unresolved, PollFits, Asked, others, world
  <2>2. missed' = missed
    <3>1. CASE UNCHANGED missed
      BY <3>1
    <3>2. CASE GiveUp(p) /\ upstream \in {"absent", "forgotten"}
      BY <1>1, <3>2, NotMissed DEF GiveUp, TypeOK
    <3> QED
      BY <3>1, <3>2 DEF ListedMatch, ListedNoMatch, others, world, Benign
  <2> QED
    BY <2>1, <2>2 DEF others, world
<1>3. upstream \notin Terminal /\ (upstream = "forgotten" => results = {})
  BY <1>1, <1>2 DEF PollFits
<1>4. CASE ListedMatch(p)
  <2>1. upstream \in {"in_progress", "cancelling"}
    BY <1>1, <1>3, <1>4 DEF ListedMatch, Upstreams
  <2> PICK view \in {"in_progress", "cancelling"} :
           poll' = [poll EXCEPT ![p].step = "adopt", ![p].view = view]
    BY <1>4, <2>1 DEF ListedMatch
  <2>2. /\ poll' \in [Pollers -> Polls]
        /\ poll'[p].step = "adopt" /\ poll'[p].view = view
        /\ poll'[p].snap = poll[p].snap /\ poll'[p].seen = poll[p].seen
        /\ poll'[p].kind = poll[p].kind
        /\ \A q \in Pollers \ {p} : poll'[q] = poll[q]
    BY <1>1 DEF Polls, Upstreams
  <2>3. PollFits(p)'
    BY <1>1, <1>2, <2>1, <2>2 DEF PollFits, others, world
  <2> QED
    BY <1>2, <2>2, <2>3, WalkKeeps
<1>5. CASE ListedNoMatch(p) /\ age < 2
  <2>1. Done(p)
    BY <1>1, <1>5 DEF ListedNoMatch, TypeOK
  <2>2. /\ Touches(row, row', upstream) /\ failures' \in 0..MaxFailures
        /\ UNCHANGED <<submitting, ledger, cancel, upstream, results, provider, age, missed>>
    BY <1>1, <1>2 DEF others, world, Touches, TypeOK
  <2> QED
    BY <2>1, <2>2, DoneKeeps
<1>6. CASE ListedNoMatch(p) /\ age >= 2
  <2> PICK kind \in {"submit_lost", "submit_unresolved"} : FinishAs(p, "failed", kind)
    BY <1>6 DEF ListedNoMatch, GiveUp
  <2>1. upstream \in {"absent", "forgotten"}
    BY <1>6 DEF ListedNoMatch, Benign
  <2>2. /\ poll' \in [Pollers -> Polls]
        /\ poll'[p].step = "finish" /\ poll'[p].snap = poll[p].snap
        /\ poll'[p].view = "failed" /\ poll'[p].seen = {}
        /\ poll'[p].kind = kind
        /\ \A q \in Pollers \ {p} : poll'[q] = poll[q]
    BY <1>1, FinishAsMoves DEF Terminal, Kinds
  <2>3. results = {}
    BY <1>1, <1>3, <2>1 DEF LedgerFits, Ahead
  <2>4. PollFits(p)'
    BY <1>1, <1>2, <1>6, <2>1, <2>2, <2>3 DEF PollFits, others, world, Terminal
  <2> QED
    BY <1>2, <2>2, <2>4, WalkKeeps
<1> QED
  BY <1>1, <1>4, <1>5, <1>6 DEF TypeOK

LEMMA AdoptKeeps ==
  ASSUME IInv, BatchAssumption, NEW p \in Pollers, Adopt(p) PROVE Keeps
<1> DEFINE view == poll[p].view
           patched == [row EXCEPT !.status = view, !.hasId = TRUE, !.kind = "none"]
<1>1. TypeOK /\ RowFits /\ PollFits(p) /\ poll[p] \in Polls
  BY DEF IInv, TypeOK
<1>2. view \in {"in_progress", "cancelling"} /\ upstream # "absent" /\ UNCHANGED others
  BY <1>1 DEF Adopt, At, PollFits
<1>3. Touches(row, row', upstream)
  <2>1. CASE row' = row
    BY <2>1 DEF Touches
  <2>2. CASE row' # row
    <3>1. row # NoRow /\ row \in Rows /\ row' = Write(row, patched)
      BY <1>1, <2>2 DEF Adopt, AdoptedRow, TypeOK
    <3>2. row' = patched /\ (patched.terminalAt <=> patched.status \in Terminal)
      <4> HIDE DEF patched
      <4> QED
        BY <2>2, <3>1, WriteIs
    <3>3. /\ patched.status = view /\ patched.hasId /\ patched.kind = "none"
          /\ patched.terminalAt = row.terminalAt /\ patched.counted = row.counted
          /\ row.terminalAt <=> row.status \in Terminal
      BY <1>1, <3>1 DEF Rows, TypeOK
    <3>4. patched \in Rows
      BY <1>2, <3>1 DEF Rows, NonTerminal, Kinds
    <3>5. view \notin Terminal /\ view \notin Asked
      BY <1>2 DEF Asked, Terminal
    <3> HIDE DEF patched, view
    <3> QED
      BY <1>2, <3>1, <3>2, <3>3, <3>4, <3>5 DEF Touches, NeverRun
  <2> QED
    BY <2>1, <2>2
<1>4. UNCHANGED <<submitting, ledger, cancel, upstream, results, provider, age, failures, missed>>
  BY <1>2 DEF others, world
<1>5. failures' \in 0..MaxFailures
  BY <1>1, <1>4 DEF TypeOK
<1>6. CASE Done(p)
  BY <1>3, <1>4, <1>5, <1>6, DoneKeeps
<1>7. CASE Goto(p, "lateCancel")
  <2>1. /\ poll' \in [Pollers -> Polls]
        /\ poll'[p].step = "lateCancel" /\ poll'[p].snap = poll[p].snap
        /\ poll'[p].view = poll[p].view /\ poll'[p].seen = poll[p].seen
        /\ poll'[p].kind = poll[p].kind
        /\ \A q \in Pollers \ {p} : poll'[q] = poll[q]
    BY <1>1, <1>7, GotoMoves
  <2>2. PollFits(p)'
    BY <1>1, <1>3, <1>4, <2>1 DEF PollFits, Adopt, At, Touches
  <2> QED
    BY <1>3, <1>4, <1>5, <2>1, <2>2, PollerTouches
<1> QED
  BY <1>6, <1>7 DEF Adopt

\* What a poller writes of a live job: a status among the live ones.
LEMMA SwapTouches ==
  ASSUME TypeOK, RowKnows, NEW from, NEW status \in NonTerminal, NEW kind \in Kinds \ NeverRun,
         row' = Swap(row, from, [row EXCEPT !.status = status, !.kind = kind]),
         from \cap Terminal = {}, status \in Asked => from \subseteq Asked
  PROVE  Touches(row, row', upstream)
<1> DEFINE patched == [row EXCEPT !.status = status, !.kind = kind]
<1>2. CASE row' = row
  BY <1>2 DEF Touches
<1>3. CASE row' # row
  <2>1. /\ row' = patched /\ row # NoRow /\ row.status \in from
        /\ patched.terminalAt <=> patched.status \in Terminal
    <3>1. row' = Swap(row, from, patched)
      OBVIOUS
    <3> HIDE DEF patched
    <3> QED
      BY <1>3, <3>1, SwapIs
  <2>2. row \in Rows
    BY <2>1 DEF TypeOK
  <2>3. /\ patched.status = status /\ patched.kind = kind /\ patched.hasId = row.hasId
        /\ patched.terminalAt = row.terminalAt /\ patched.counted = row.counted
        /\ patched \in Rows
    BY <2>2 DEF Rows
  <2>4. row.status \notin Terminal /\ status \notin Terminal
    BY <2>1 DEF NonTerminal, Terminal
  <2>5. row.hasId => status \notin Asked /\ upstream # "absent"
    BY <2>1 DEF RowKnows
  <2> HIDE DEF patched
  <2> QED
    BY <2>1, <2>2, <2>3, <2>4, <2>5 DEF Touches
<1> QED
  BY <1>2, <1>3

\* The row's live kinds are none of the two of a job that was never run, and a
\* patch that leaves the kind alone keeps that.
LEMMA StatusTouches ==
  ASSUME TypeOK, RowKnows,
         row' = Swap(row, {"in_progress", "finalizing"}, [row EXCEPT !.status = "cancelling"])
  PROVE  Touches(row, row', upstream)
<1> DEFINE patched == [row EXCEPT !.status = "cancelling"]
<1>2. CASE row' = row
  BY <1>2 DEF Touches
<1>3. CASE row' # row
  <2>1. /\ row' = patched /\ row # NoRow /\ row.status \in {"in_progress", "finalizing"}
        /\ patched.terminalAt <=> patched.status \in Terminal
    <3>1. row' = Swap(row, {"in_progress", "finalizing"}, patched)
      OBVIOUS
    <3> HIDE DEF patched
    <3> QED
      BY <1>3, <3>1, SwapIs
  <2>2. row \in Rows
    BY <2>1 DEF TypeOK
  <2> QED
    BY <2>1, <2>2 DEF Touches, RowKnows, TypeOK, Rows, Asked, Terminal, NonTerminal
<1> QED
  BY <1>2, <1>3

\* What a poller writes that gives the job up until the next sweep.
LEMMA GiveUpTouches ==
  ASSUME TypeOK, RowKnows, NEW p \in Pollers, At(p, "viewed") => row # NoRow,
         WaitGrace(p) \/ MarkUnknown(p) \/ Hold(p) \/ ShowProgress(p) \/ AbandonPoll(p)
  PROVE  Touches(row, row', upstream)
<1>1. CASE WaitGrace(p) \/ AbandonPoll(p)
  BY <1>1 DEF WaitGrace, AbandonPoll, Touches
<1>2. CASE MarkUnknown(p)
  <2>1. row' = Swap(row, {"submitting"},
                    [row EXCEPT !.status = "submission_unknown", !.kind = "none"])
    BY <1>2 DEF MarkUnknown
  <2>2. /\ "submission_unknown" \in NonTerminal /\ "none" \in Kinds \ NeverRun
        /\ {"submitting"} \cap Terminal = {} /\ {"submitting"} \subseteq Asked
    BY DEF NonTerminal, Kinds, NeverRun, Terminal, Asked
  <2> QED
    BY <2>1, <2>2, SwapTouches
<1>3. CASE Hold(p)
  <2>1. row # NoRow /\ row \in Rows /\ row' = [row EXCEPT !.kind = "upstream_status_unknown"]
    BY <1>3 DEF Hold, At, TypeOK
  <2> QED
    BY <2>1 DEF Touches, RowFits, RowKnows, TypeOK, Rows, Kinds, NeverRun
<1>4. CASE ShowProgress(p)
  <2> DEFINE view == poll[p].view
  <2>1. view \in {"in_progress", "cancelling"}
    BY <1>4 DEF ShowProgress
  <2>2. row' = Swap(row, Live, [row EXCEPT !.status = view, !.kind = "none"])
    BY <1>4 DEF ShowProgress
  <2>3. /\ view \in NonTerminal /\ "none" \in Kinds \ NeverRun
        /\ Live \cap Terminal = {} /\ view \notin Asked
    BY <2>1 DEF NonTerminal, Kinds, NeverRun, Terminal, Asked, Live, Adopted
  <2> HIDE DEF view
  <2> QED
    BY <2>2, <2>3, SwapTouches
<1> QED
  BY <1>1, <1>2, <1>3, <1>4

LEMMA GiveUpKeeps ==
  ASSUME IInv, BatchAssumption, NEW p \in Pollers,
         \/ WaitGrace(p) \/ MarkUnknown(p) \/ Hold(p) \/ ShowProgress(p) \/ AbandonPoll(p)
  PROVE  Keeps
<1>1. TypeOK /\ RowFits /\ PollFits(p) /\ poll[p] \in Polls
  BY DEF IInv, TypeOK
<1>2. /\ Done(p) /\ failures' \in 0..MaxFailures
      /\ UNCHANGED <<submitting, ledger, cancel, upstream, results, provider, age, missed>>
  BY <1>1 DEF WaitGrace, MarkUnknown, Hold, ShowProgress, AbandonPoll, others, world,
     TypeOK, BatchAssumption
<1>3. Touches(row, row', upstream)
  BY <1>1, GiveUpTouches DEF PollFits, At, RowFits
<1> QED
  BY <1>2, <1>3, DoneKeeps

LEMMA LateCancelKeeps ==
  ASSUME IInv, BatchAssumption, NEW p \in Pollers, LateCancel(p) PROVE Keeps
<1>1. /\ poll' \in [Pollers -> Polls] /\ poll'[p] = Idle
      /\ \A q \in Pollers \ {p} : poll'[q] = poll[q]
  BY DoneMoves DEF LateCancel, IInv
<1>2. PollFits(p)' /\ poll'[p].step # "release"
  BY <1>1 DEF PollFits, Idle
<1>3. TryCancel /\ UNCHANGED <<row, ledger, submitting, cancel, results, provider, age, missed>>
  BY DEF LateCancel
<1> QED
  BY <1>1, <1>2, <1>3, AskedKeeps

LEMMA CancelFirstKeeps ==
  ASSUME IInv, BatchAssumption, NEW p \in Pollers, CancelFirst(p) PROVE Keeps
<1>1. PollFits(p) /\ TypeOK
  BY DEF IInv
<1>2. /\ poll' \in [Pollers -> Polls]
      /\ poll'[p].step = "mark" /\ poll'[p].snap = poll[p].snap
      /\ poll'[p].view = poll[p].view /\ poll'[p].seen = poll[p].seen
      /\ poll'[p].kind = poll[p].kind
      /\ \A q \in Pollers \ {p} : poll'[q] = poll[q]
  BY <1>1, GotoMoves DEF CancelFirst
<1>3. /\ poll[p].step = "picked" /\ poll[p].snap.hasId
      /\ TryCancel /\ UNCHANGED <<row, ledger, submitting, cancel, results, provider, age, missed>>
  BY DEF CancelFirst, At, Unresolved
<1>4. PollFits(p)'
  BY <1>1, <1>2, <1>3 DEF PollFits
<1> QED
  BY <1>2, <1>3, <1>4, AskedKeeps

LEMMA MarkCancellingKeeps ==
  ASSUME IInv, BatchAssumption, NEW p \in Pollers, MarkCancelling(p) PROVE Keeps
<1>1. PollFits(p) /\ TypeOK
  BY DEF IInv
<1>2. /\ poll' \in [Pollers -> Polls]
      /\ poll'[p].step = "status" /\ poll'[p].snap = poll[p].snap
      /\ poll'[p].view = poll[p].view /\ poll'[p].seen = poll[p].seen
      /\ poll'[p].kind = poll[p].kind
      /\ \A q \in Pollers \ {p} : poll'[q] = poll[q]
  BY <1>1, GotoMoves DEF MarkCancelling
<1>3. /\ Touches(row, row', upstream) /\ poll[p].step = "mark"
      /\ UNCHANGED <<submitting, ledger, cancel, upstream, results, provider, age, missed>>
      /\ failures' \in 0..MaxFailures
  BY <1>1, StatusTouches DEF MarkCancelling, others, world, At, TypeOK, IInv, RowFits
<1>4. PollFits(p)'
  BY <1>1, <1>2, <1>3 DEF PollFits, Touches
<1> QED
  BY <1>2, <1>3, <1>4, PollerTouches

\* The upstream is asked for the job's status.
LEMMA SeeKeeps ==
  ASSUME IInv, BatchAssumption, NEW p \in Pollers, SeeStatus(p) \/ SeeNothing(p)
  PROVE  Keeps
<1>1. /\ PollFits(p) /\ TypeOK /\ LedgerFits /\ poll \in [Pollers -> Polls]
      /\ upstream \in Upstreams
  BY DEF IInv, TypeOK
<1>2. /\ Ready(p) /\ UNCHANGED <<row, others>>
      /\ poll[p].step \in {"status", "picked"} /\ poll[p].snap.hasId
  BY <1>1 DEF SeeStatus, SeeNothing, Ready, At, Unresolved, PollFits
<1>3. CASE SeeStatus(p)
  <2>1. PICK view \in {upstream} \cup (IF "unmapped" \in Faults THEN {"unmapped"} ELSE {}) :
          poll' = [poll EXCEPT ![p].step = "viewed", ![p].view = view]
    BY <1>3 DEF SeeStatus
  <2>2. view \in Upstreams \cup {"unmapped"} /\ (view \in Terminal => view = upstream)
    BY <1>1, <2>1 DEF Terminal
  <2>3. /\ poll' \in [Pollers -> Polls]
        /\ poll'[p].step = "viewed" /\ poll'[p].snap = poll[p].snap
        /\ poll'[p].view = view /\ poll'[p].seen = poll[p].seen
        /\ poll'[p].kind = poll[p].kind
        /\ \A q \in Pollers \ {p} : poll'[q] = poll[q]
    <3> DEFINE u == [poll[p] EXCEPT !.step = "viewed", !.view = view]
    <3>1. poll' = [poll EXCEPT ![p] = u]
      BY <1>1, <2>1
    <3>2. /\ u.step = "viewed" /\ u.snap = poll[p].snap /\ u.view = view
          /\ u.seen = poll[p].seen /\ u.kind = poll[p].kind
      BY <1>1 DEF Polls
    <3>3. u \in Polls
      BY <1>1, <2>2 DEF Polls
    <3> HIDE DEF u
    <3> QED
      BY <1>1, <3>1, <3>2, <3>3
  <2>4. PollFits(p)'
    BY <1>1, <1>2, <2>2, <2>3 DEF PollFits, others, world
  <2> QED
    BY <1>2, <2>3, <2>4, WalkKeeps
<1>4. CASE SeeNothing(p)
  <2>1. PICK status \in {"expired", "failed"}, kind \in {"none", "submit_lost"} :
          FinishAs(p, status, kind) /\ (kind = "submit_lost" => age # 3)
    BY <1>4 DEF SeeNothing
  <2>2. /\ poll' \in [Pollers -> Polls]
        /\ poll'[p].step = "finish" /\ poll'[p].snap = poll[p].snap
        /\ poll'[p].view = status /\ poll'[p].seen = {}
        /\ poll'[p].kind = kind
        /\ \A q \in Pollers \ {p} : poll'[q] = poll[q]
    BY <1>1, <2>1, FinishAsMoves DEF Terminal, Kinds
  <2>3. upstream = "forgotten" /\ (kind = "submit_lost" => results = {})
    BY <1>1, <1>4, <2>1 DEF SeeNothing, LedgerFits
  <2>4. PollFits(p)'
    BY <1>1, <1>2, <2>2, <2>3 DEF PollFits, others, world, Terminal, NeverRun
  <2> QED
    BY <1>2, <2>2, <2>4, WalkKeeps
<1> QED
  BY <1>3, <1>4

LEMMA HoldFinalTouches ==
  ASSUME TypeOK, RowKnows, NEW p \in Pollers, HoldFinal(p)
  PROVE  Touches(row, row', upstream)
<1> DEFINE held == IF poll[p].snap.status = "cancelling" \/ poll[p].view = "cancelled"
                   THEN "cancelling" ELSE "finalizing"
<1>1. row' = Swap(row, Live, [row EXCEPT !.status = held, !.kind = "none"])
  BY DEF HoldFinal
<1>2. /\ held \in NonTerminal /\ "none" \in Kinds \ NeverRun
      /\ Live \cap Terminal = {} /\ held \notin Asked
  BY DEF NonTerminal, Kinds, NeverRun, Terminal, Asked, Live, Adopted
<1> HIDE DEF held
<1> QED
  BY <1>1, <1>2, SwapTouches

\* The job is held while its results are recorded.
LEMMA HoldFinalKeeps ==
  ASSUME IInv, BatchAssumption, NEW p \in Pollers, HoldFinal(p) PROVE Keeps
<1> DEFINE snap == poll[p].snap
           held == IF snap.status = "cancelling" \/ poll[p].view = "cancelled"
                   THEN "cancelling" ELSE "finalizing"
           patched == [row EXCEPT !.status = held, !.kind = "none"]
           next == IF Swaps(row, Live) THEN patched ELSE snap
<1>1. /\ PollFits(p) /\ TypeOK /\ RowFits /\ poll \in [Pollers -> Polls]
      /\ poll[p] \in Polls
  BY DEF IInv, TypeOK
<1>2. /\ poll[p].step = "viewed" /\ poll[p].view \in Terminal /\ snap.hasId
      /\ snap # NoRow /\ row # NoRow /\ row.hasId /\ row \in Rows
  BY <1>1 DEF HoldFinal, At, PollFits, TypeOK
<1>3. /\ held \in {"cancelling", "finalizing"}
      /\ held \in NonTerminal /\ "none" \in Kinds \ NeverRun
      /\ Live \cap Terminal = {} /\ held \notin Asked
  BY DEF NonTerminal, Kinds, NeverRun, Terminal, Asked, Live, Adopted
<1>4. /\ row' = Swap(row, Live, patched) /\ UNCHANGED others
      /\ poll' = [poll EXCEPT ![p].step = "settle", ![p].snap = next]
  BY DEF HoldFinal
<1>5. patched \in Rows /\ patched.hasId /\ patched.status = held
  BY <1>2, <1>3 DEF Rows
<1>6. /\ next \in Rows \cup {NoRow} /\ next # NoRow /\ next.hasId
      /\ next.status \notin Asked
  BY <1>1, <1>2, <1>3, <1>5, NoRowIsNone DEF PollFits, Polls
<1>7. Touches(row, row', upstream)
  BY <1>1, HoldFinalTouches DEF RowFits
<1> HIDE DEF next, patched
<1>8. /\ poll' \in [Pollers -> Polls]
      /\ poll'[p].step = "settle" /\ poll'[p].snap = next
      /\ poll'[p].view = poll[p].view /\ poll'[p].seen = poll[p].seen
      /\ poll'[p].kind = poll[p].kind
      /\ \A q \in Pollers \ {p} : poll'[q] = poll[q]
  BY <1>1, <1>4, <1>6 DEF Polls
<1>9. /\ UNCHANGED <<submitting, ledger, cancel, upstream, results, provider, age, missed>>
      /\ failures' \in 0..MaxFailures
  BY <1>1, <1>4 DEF others, world, TypeOK
<1>10. PollFits(p)'
  BY <1>1, <1>2, <1>6, <1>7, <1>8, <1>9 DEF PollFits, Touches
<1> QED
  BY <1>7, <1>8, <1>9, <1>10, PollerTouches

\* The result stream ends, or retention has lapsed.
LEMMA ResultsKeeps ==
  ASSUME IInv, BatchAssumption, NEW p \in Pollers, ResultsEnd(p) \/ ResultsGone(p)
  PROVE  Keeps
<1>1. /\ PollFits(p) /\ TypeOK /\ poll \in [Pollers -> Polls] /\ poll[p] \in Polls
      /\ upstream \in Upstreams
  BY DEF IInv, TypeOK
<1>2. /\ poll[p].step = "settle" /\ UNCHANGED <<row, others>>
      /\ poll[p].view \in Terminal /\ upstream \in {poll[p].view, "forgotten"}
      /\ poll[p].seen \subseteq ledger
  BY <1>1 DEF ResultsEnd, ResultsGone, At, PollFits
<1>3. FinalStatus(p) \in Terminal
  BY <1>2 DEF FinalStatus, Terminal
<1>4. CASE ResultsEnd(p)
  <2>1. /\ poll' \in [Pollers -> Polls]
        /\ poll'[p].step = "finish" /\ poll'[p].snap = poll[p].snap
        /\ poll'[p].view = FinalStatus(p) /\ poll'[p].seen = poll[p].seen
        /\ poll'[p].kind = poll[p].kind
        /\ \A q \in Pollers \ {p} : poll'[q] = poll[q]
    <3> DEFINE final == FinalStatus(p)
    <3>1. /\ poll' = [poll EXCEPT ![p].step = "finish", ![p].view = final]
          /\ final \in Upstreams
      BY <1>3, <1>4 DEF ResultsEnd, Upstreams
    <3> HIDE DEF final
    <3>2. /\ poll' \in [Pollers -> Polls]
          /\ poll'[p].step = "finish" /\ poll'[p].snap = poll[p].snap
          /\ poll'[p].view = final /\ poll'[p].seen = poll[p].seen
          /\ poll'[p].kind = poll[p].kind
          /\ \A q \in Pollers \ {p} : poll'[q] = poll[q]
      BY <1>1, <3>1 DEF Polls
    <3> QED
      BY <3>2 DEF final
  <2>2. poll[p].seen = results /\ upstream # "forgotten"
    BY <1>4 DEF ResultsEnd
  <2>3. PollFits(p)'
    BY <1>1, <1>2, <1>3, <2>1, <2>2 DEF PollFits, others, world, NeverRun
  <2> QED
    BY <1>2, <2>1, <2>3, WalkKeeps
<1>5. CASE ResultsGone(p)
  <2>1. upstream = "forgotten" /\ FinishAs(p, FinalStatus(p), "none")
    BY <1>5 DEF ResultsGone
  <2>2. /\ poll' \in [Pollers -> Polls]
        /\ poll'[p].step = "finish" /\ poll'[p].snap = poll[p].snap
        /\ poll'[p].view = FinalStatus(p) /\ poll'[p].seen = {}
        /\ poll'[p].kind = "none"
        /\ \A q \in Pollers \ {p} : poll'[q] = poll[q]
    BY <1>1, <1>3, <2>1, FinishAsMoves DEF Kinds
  <2>3. PollFits(p)'
    BY <1>1, <1>2, <1>3, <2>1, <2>2 DEF PollFits, others, world, NeverRun
  <2> QED
    BY <1>2, <2>2, <2>3, WalkKeeps
<1> QED
  BY <1>4, <1>5

\* An item is recorded: for a job that has ended in the row it already was.
LEMMA RecordKeeps ==
  ASSUME IInv, NEW p \in Pollers, NEW item \in Items, RecordItem(p, item)
  PROVE  Keeps
<1>1. /\ PollFits(p) /\ TypeOK /\ LedgerFits /\ RowFits /\ EndFits /\ ReleaseFits /\ provider
      /\ poll \in [Pollers -> Polls] /\ poll[p] \in Polls /\ results \in SUBSET Items
  BY DEF IInv, TypeOK
<1>2. /\ poll[p].step = "settle" /\ item \in results /\ ledger' = ledger \cup {item}
      /\ upstream # "forgotten"
      /\ UNCHANGED <<row, submit, reserved, released, cancel, upstream, results,
                     provider, age, failures, missed>>
      /\ poll' = [poll EXCEPT ![p].seen = @ \cup {item}]
  BY DEF RecordItem, At, submitting, world
<1>3. upstream \in Terminal
  BY <1>1, <1>2 DEF PollFits
<1>4. /\ poll' \in [Pollers -> Polls]
      /\ poll'[p].step = poll[p].step /\ poll'[p].snap = poll[p].snap
      /\ poll'[p].view = poll[p].view /\ poll'[p].seen = poll[p].seen \cup {item}
      /\ poll'[p].kind = poll[p].kind
      /\ \A q \in Pollers \ {p} : poll'[q] = poll[q]
  BY <1>1, <1>2 DEF Polls
<1>5. Drifts
  BY <1>1, <1>2 DEF Drifts, TypeOK
<1>6. PollFits(p)'
  BY <1>1, <1>2, <1>4 DEF PollFits
<1>7. \A q \in Pollers : PollFits(q)'
  BY <1>4, <1>5, <1>6, OneMoves
<1>8. TypeOK'
  BY <1>1, <1>2, <1>4 DEF TypeOK
<1>9. Final' <=> Final
  BY <1>2 DEF Final
<1>10. Final => ledger' = ledger
  BY <1>1, <1>2, <1>3 DEF EndFits, Terminal
<1>11. RowFits' /\ LedgerFits'
  BY <1>1, <1>2, <1>3 DEF RowFits, RowKnows, LedgerFits, Ahead, Terminal
<1>12. EndFits'
  BY <1>1, <1>2, <1>9, <1>10 DEF EndFits, Final
<1>13. ReleaseFits'
  <2>1. \A q \in Pollers : poll'[q].step = "release" => At(q, "release")
    BY <1>2, <1>4 DEF At
  <2> QED
    BY <1>1, <1>2, <1>9, <2>1, ReleaseStays
<1>14. Promise!Next \/ UNCHANGED Promise!vars
  <2>1. CASE Final
    BY <1>2, <1>9, <1>10, <2>1 DEF Promise!vars, Final
  <2>2. CASE ~Final
    BY <1>2, <1>9, <2>2 DEF Promise!Next, Promise!Book, Promise!Running, Final
  <2> QED
    BY <2>1, <2>2
<1> QED
  BY <1>1, <1>2, <1>7, <1>8, <1>11, <1>12, <1>13, <1>14 DEF Keeps, IInv

\* The job ends, unless another poller has ended it: what it relies on makes
\* the counts the ledger's, and the releaser is alone.
LEMMA FinishKeeps ==
  ASSUME IInv, BatchAssumption, NEW p \in Pollers, Finish(p) PROVE Keeps
<1> DEFINE me == poll[p]
<1>1. /\ PollFits(p) /\ TypeOK /\ LedgerFits /\ RowFits /\ EndFits /\ ReleaseFits /\ provider
      /\ poll \in [Pollers -> Polls] /\ me \in Polls /\ NoRow \notin Rows
  BY NoRowIsNone DEF IInv, TypeOK
<1>2. /\ me.step = "finish" /\ UNCHANGED others /\ me.snap # NoRow
      /\ me.view \in Terminal /\ me.seen \subseteq ledger
      /\ \/ upstream = "forgotten"
         \/ upstream \in Terminal /\ me.seen = results
         \/ upstream = "absent" /\ age >= 2 /\ me.seen = {}
      /\ me.kind \in NeverRun => upstream \in {"absent", "forgotten"} /\ results = {}
  BY <1>1 DEF Finish, At, PollFits
<1>3. /\ UNCHANGED <<submit, reserved, released, ledger, cancel, upstream, results,
                     provider, age, failures, missed>>
  BY <1>2 DEF others, submitting, world
<1>4. CASE Settles(row, FinishFrom(me.seen))
  <2>1. /\ row # NoRow /\ row \in Rows /\ ~row.terminalAt /\ ~Final
        /\ row' = Settled(row, me.view, me.kind, me.seen) /\ Goto(p, "release")
    BY <1>1, <1>4 DEF Finish, Settles, TypeOK, Final
  <2>2. /\ row' \in Rows /\ row' # NoRow /\ row'.terminalAt /\ row'.status = me.view
        /\ row'.kind = me.kind /\ row'.counted = me.seen /\ row'.hasId = row.hasId
    <3>1. me.view \in Terminal /\ me.kind \in Kinds /\ me.seen \in SUBSET Items
      BY <1>1, <1>2 DEF Polls
    <3> QED
      BY <1>1, <2>1, <3>1, SettledIs
  <2>3. /\ poll' \in [Pollers -> Polls]
        /\ poll'[p].step = "release" /\ poll'[p].snap = me.snap
        /\ poll'[p].view = me.view /\ poll'[p].seen = me.seen
        /\ poll'[p].kind = me.kind
        /\ \A q \in Pollers \ {p} : poll'[q] = poll[q]
    BY <1>1, <2>1, GotoMoves
  <2>4. Final' /\ released = 0 /\ submit # "release"
        /\ \A q \in Pollers : ~At(q, "release")
    BY <1>1, <2>1, <2>2, <1>2 DEF ReleaseFits, Final
  <2>5. TypeOK'
    BY <1>1, <1>2, <1>3, <2>2, <2>3 DEF TypeOK
  <2>6. RowFits'
    BY <1>1, <1>2, <1>3, <2>1, <2>2 DEF RowFits, RowKnows, Asked, Terminal
  <2>7. LedgerFits'
    BY <1>1, <1>3 DEF LedgerFits
  <2>8. upstream = "forgotten" \/ (ledger = me.seen /\ ledger = results)
    BY <1>1, <1>2 DEF LedgerFits, Ahead
  <2>9. EndFits'
    BY <1>2, <1>3, <2>2, <2>8 DEF EndFits
  <2>10. ReleaseFits'
    BY <1>3, <2>3, <2>4 DEF ReleaseFits, At
  <2>11. Drifts
    BY <1>1, <1>3, <2>1, <2>2 DEF Drifts, TypeOK
  <2>12. PollFits(p)'
    BY <1>1, <1>2, <2>1, <2>2, <2>3 DEF PollFits
  <2>13. \A q \in Pollers : PollFits(q)'
    BY <2>3, <2>11, <2>12, OneMoves
  <2>14. Promise!Close
    BY <1>1, <1>2, <1>3, <2>1, <2>2, <2>4, <2>8 DEF Promise!Close, Terminal
  <2> QED
    BY <1>1, <1>3, <2>5, <2>6, <2>7, <2>9, <2>10, <2>13, <2>14 DEF Keeps, IInv, Promise!Next
<1>5. CASE ~Settles(row, FinishFrom(me.seen))
  <2>1. Done(p) /\ row' = row
    BY <1>5 DEF Finish
  <2>2. Touches(row, row', upstream) /\ failures' \in 0..MaxFailures
    BY <1>1, <1>3, <2>1 DEF Touches, TypeOK
  <2> QED
    BY <1>3, <2>1, <2>2, DoneKeeps DEF submitting
<1> QED
  BY <1>4, <1>5

\* The one poller that ended the job releases the reservation.
LEMMA ReleaseKeeps ==
  ASSUME IInv, NEW p \in Pollers, Release(p) PROVE Keeps
<1>1. TypeOK /\ LedgerFits /\ RowFits /\ EndFits /\ ReleaseFits /\ provider
  BY DEF IInv
<1>2. /\ At(p, "release") /\ Final /\ released = 0 /\ released' = 1 /\ submit # "release"
      /\ \A q \in Pollers : At(q, "release") => q = p
      /\ UNCHANGED <<row, ledger, submit, reserved, cancel, upstream, results,
                     provider, age, failures, missed>>
  BY <1>1 DEF Release, ReleaseFits, world
<1>3. /\ poll' \in [Pollers -> Polls] /\ poll'[p] = Idle
      /\ \A q \in Pollers \ {p} : poll'[q] = poll[q]
  BY <1>1, DoneMoves DEF Release
<1>4. TypeOK'
  BY <1>1, <1>2, <1>3 DEF TypeOK
<1>5. Final'
  BY <1>2 DEF Final
<1>6. RowFits' /\ LedgerFits' /\ EndFits'
  BY <1>1, <1>2, <1>5 DEF RowFits, RowKnows, LedgerFits, EndFits, Final
<1>7. ReleaseFits'
  BY <1>2, <1>3, <1>5 DEF ReleaseFits, At, Idle
<1>8. Drifts
  BY <1>1, <1>2 DEF Drifts, TypeOK
<1>9. \A q \in Pollers : PollFits(q)'
  <2>1. PollFits(p)'
    BY <1>3 DEF PollFits, Idle
  <2> QED
    BY <1>3, <1>8, <2>1, OneMoves
<1>10. Promise!Free
  BY <1>2, <1>5 DEF Promise!Free, Final, Terminal
<1> QED
  BY <1>1, <1>2, <1>4, <1>6, <1>7, <1>9, <1>10 DEF Keeps, IInv, Promise!Next
-----------------------------------------------------------------------------
LEMMA InitKeeps == ASSUME BatchAssumption, Init PROVE IInv /\ Promise!Init
<1>1. TypeOK
  <2>1. NoCancel \in Cancels /\ poll \in [Pollers -> Polls]
    BY IdleTyped DEF Init, NoCancel, Cancels
  <2>2. 0 \in 0..MaxFailures
    BY DEF BatchAssumption
  <2>3. /\ row = NoRow /\ upstream = "absent" /\ results = {} /\ ledger = {}
        /\ submit = "new" /\ released = 0 /\ cancel = NoCancel
        /\ age = 0 /\ failures = 0 /\ missed \in BOOLEAN
    BY DEF Init
  <2>4. upstream \in Upstreams /\ provider \in BOOLEAN /\ reserved \in BOOLEAN
    BY DEF Init, Upstreams
  <2> QED
    BY <2>1, <2>2, <2>3, <2>4 DEF TypeOK
<1>2. ~Final /\ provider /\ row = NoRow
  BY DEF Init, Final
<1>3. RowFits /\ LedgerFits /\ EndFits /\ ReleaseFits
  BY <1>2 DEF Init, RowFits, RowKnows, LedgerFits, EndFits, ReleaseFits, Ahead, At, Idle
<1>4. \A p \in Pollers : PollFits(p)
  BY DEF Init, PollFits, Idle
<1>5. Promise!Init
  BY <1>2 DEF Init, Promise!Init
<1> QED
  BY <1>1, <1>2, <1>3, <1>4, <1>5 DEF IInv

LEMMA NextKeeps ==
  ASSUME IInv, BatchAssumption, Benign, Next
  PROVE  Keeps
<1>1. CASE Submission
  BY <1>1, InsertKeeps, RefuseKeeps, RequestKeeps, AcceptedKeeps, RejectedKeeps,
     ReleaseRejectedKeeps DEF Submission
<1>2. CASE Upstream
  BY <1>2, TurnKeeps, EndKeeps DEF Upstream
<1>3. CASE Owner
  <2>1. ~DeleteProvider
    BY DEF DeleteProvider, Benign
  <2> QED
    BY <1>3, <2>1, TurnKeeps, OwnerKeeps DEF Owner
<1>4. CASE Age
  BY <1>4, AgeKeeps
<1>5. ASSUME NEW p \in Pollers, Pick(p) \/ Advance(p) \/ AbandonPoll(p) PROVE Keeps
  <2>1. ~ProviderMissing(p)
    BY DEF ProviderMissing, IInv
  <2> QED
    BY <1>5, <2>1, PickKeeps, GiveUpKeeps, ListedKeeps, AdoptKeeps, LateCancelKeeps,
       CancelFirstKeeps, MarkCancellingKeeps, SeeKeeps, HoldFinalKeeps, RecordKeeps,
       ResultsKeeps, FinishKeeps, ReleaseKeeps DEF Advance
<1> QED
  BY <1>1, <1>2, <1>3, <1>4, <1>5 DEF Next

LEMMA StutterKeeps == ASSUME IInv, UNCHANGED vars PROVE Keeps
<1>1. Final' <=> Final
  BY DEF vars, Final
<1>2. TypeOK' /\ RowFits' /\ LedgerFits' /\ EndFits' /\ ReleaseFits' /\ provider'
  BY <1>1 DEF IInv, vars, TypeOK, RowFits, RowKnows, LedgerFits, EndFits, ReleaseFits, At, Final
<1>3. \A p \in Pollers : PollFits(p)'
  <2>1. Drifts
    BY DEF vars, Drifts, IInv, TypeOK
  <2> QED
    BY <2>1, NoneMoves DEF vars
<1>4. UNCHANGED Promise!vars
  BY <1>1 DEF vars, Promise!vars, Final
<1> QED
  BY <1>2, <1>3, <1>4 DEF Keeps, IInv

LEMMA Invariance == Benign => (Spec => []IInv)
<1> SUFFICES ASSUME Benign PROVE Spec => []IInv
  OBVIOUS
<1>1. Init => IInv
  BY InitKeeps, BatchAssumption
<1>2. IInv /\ [Next]_vars => IInv'
  BY NextKeeps, StutterKeeps, BatchAssumption DEF Keeps, Benign
<1> QED
  BY <1>1, <1>2, PTL DEF Spec

\* The job keeps its promise: for any number of pollers, items, failing calls and
\* crashes, it is closed once and never changed again; while the results can be
\* read it is closed with exactly the ledger's counts; and its reservation is
\* released at most once, after that (settleAndFinish, finish, rejectJob).
THEOREM PromiseKept == Benign => (Spec => KeepsPromise)
<1> SUFFICES ASSUME Benign PROVE Spec => KeepsPromise
  OBVIOUS
<1>1. Spec => []IInv
  BY Invariance
<1>2. Init => Promise!Init
  BY InitKeeps, BatchAssumption
<1>3. IInv /\ [Next]_vars => [Promise!Next]_(Promise!vars)
  BY NextKeeps, StutterKeeps, BatchAssumption DEF Keeps, Benign
<1> QED
  BY <1>1, <1>2, <1>3, PTL DEF Spec, KeepsPromise, Promise!Spec
-----------------------------------------------------------------------------
(* What holds even where the environment misleads the gateway, and whatever  *)
(* the owner deletes.                                                       *)

\* RowFits, and what a job that was never run looks like, as long as nothing
\* was missed.
RowSound ==
  /\ row = NoRow => submit \in {"new", "done"}
  /\ submit = "new" => row = NoRow /\ upstream = "absent"
  /\ RowKnows
  /\ age >= 2 => submit \in {"lost", "done"}
  /\ upstream \in Ahead => results = {}
  /\ upstream = "forgotten" /\ results # {} => age = 3
  /\ ~missed =>
       /\ upstream \notin Ahead => row # NoRow /\ row.hasId
       /\ Final /\ row.kind \in NeverRun =>
            /\ NeverRan
            /\ upstream = "forgotten" \/ age >= 2 \/ submit \in {"release", "done"}

PollSound(p) ==
  LET t == poll[p] IN
  /\ t.step # "idle" => t.snap # NoRow
  /\ t.snap # NoRow /\ t.snap.hasId =>
       row # NoRow /\ row.hasId /\ t.snap.status \notin Asked
  /\ t.step = "adopt" =>
       t.view \in Terminal \cup {"in_progress", "cancelling"} /\ upstream # "absent"
  /\ t.step \in {"mark", "status", "viewed", "settle"} => t.snap.hasId
  /\ t.step \in {"settle", "finish"} => t.view \in Terminal
  /\ t.step \notin {"finish", "release"} => t.kind = "none"
  /\ ~missed =>
       /\ t.step = "picked" /\ ~t.snap.hasId =>
            upstream \notin Terminal /\ (upstream = "forgotten" => results = {})
       /\ t.step = "finish" /\ t.kind \in NeverRun =>
            NeverRan /\ (upstream = "forgotten" \/ age >= 2)

Sound == TypeOK /\ RowSound /\ \A p \in Pollers : PollSound(p)

\* What the invariant does not depend on, beyond its type.
RestTyped ==
  /\ ledger \in SUBSET Items /\ reserved \in BOOLEAN /\ released \in Nat
  /\ cancel \in Cancels /\ provider \in BOOLEAN /\ failures \in 0..MaxFailures

\* Like Touches, but for the status of a final row: an adoption may replace it.
Reworks(r, s, up) ==
  \/ s = r
  \/ /\ r # NoRow /\ r \in Rows /\ s \in Rows
     /\ s.terminalAt <=> s.status \in Terminal
     /\ s.status \in Terminal <=> r.status \in Terminal
     /\ s.kind \in NeverRun => r.kind \in NeverRun
     /\ r.hasId => s.hasId
     /\ s.hasId => s.status \notin Asked /\ up # "absent"

LEMMA TouchReworks ==
  ASSUME NEW r, NEW s, NEW up, Touches(r, s, up) PROVE Reworks(r, s, up)
BY DEF Touches, Reworks

\* The submitting request goes on or gives up.
Proceeds ==
  \/ submit' = submit
  \/ /\ submit \notin {"new", "done"}
     /\ \/ submit' = "done"
        \/ submit \in {"inserted", "reserved"} /\ submit' \in {"reserved", "sent"}
        \/ submit = "sent" /\ submit' = "lost"

\* Like Drifts: what the others may do to a poller that stands still.
Shifts ==
  /\ age' \in Nat /\ age' >= age
  /\ row # NoRow /\ row.hasId => row' # NoRow /\ row'.hasId
  /\ upstream # "absent" => upstream' # "absent"
  /\ missed => missed'
  /\ ~missed' =>
       /\ results' = results
       /\ \/ upstream' = upstream
          \/ upstream = "absent" /\ upstream' = "in_progress" /\ age < 2
          \/ upstream = "in_progress" /\ upstream' = "cancelling"
          \/ upstream = "in_progress" /\ upstream' = "forgotten"

LEMMA PollSoundStays ==
  ASSUME Sound, NEW p \in Pollers, Shifts, poll'[p] = poll[p]
  PROVE  PollSound(p)'
<1>1. PollSound(p) /\ RowSound /\ age \in 0..3 /\ poll[p] \in Polls
  BY DEF Sound, TypeOK
<1>2. upstream = "in_progress" => results = {}
  BY <1>1 DEF RowSound, Ahead
<1>3. CASE missed'
  BY <1>1, <1>3 DEF PollSound, Shifts
<1>4. CASE ~missed' /\ upstream' = upstream
  BY <1>1, <1>4 DEF PollSound, Shifts, NeverRan
<1>5. CASE ~missed' /\ upstream' # upstream
  BY <1>1, <1>2, <1>5 DEF PollSound, Shifts, NeverRan, Terminal
<1> QED
  BY <1>3, <1>4, <1>5

\* The row is reworked, the request proceeds, and the upstream stands still.
LEMMA RowReworked ==
  ASSUME Sound, BatchAssumption, Reworks(row, row', upstream), Proceeds,
         UNCHANGED <<upstream, results, age, missed>>
  PROVE  /\ row' \in Rows \cup {NoRow}
         /\ row' # NoRow => (row'.terminalAt <=> row'.status \in Terminal)
         /\ RowSound' /\ Shifts
<1>1. TypeOK /\ RowSound /\ NoRow \notin Rows
  BY NoRowIsNone DEF Sound
<1>2. /\ row' \in Rows \cup {NoRow}
      /\ row' # NoRow => (row'.terminalAt <=> row'.status \in Terminal)
      /\ row # NoRow /\ row.hasId => row' # NoRow /\ row'.hasId
      /\ row' = NoRow <=> row = NoRow
      /\ RowKnows'
  BY <1>1 DEF Reworks, TypeOK, RowSound, RowKnows
<1>3. Final' <=> Final
  BY <1>1, <1>2 DEF Reworks, Final
<1>4. Final /\ row'.kind \in NeverRun => row.kind \in NeverRun
  BY DEF Reworks
<1>5. /\ row' = NoRow => submit' \in {"new", "done"}
      /\ submit' = "new" => row' = NoRow /\ upstream' = "absent"
      /\ age' >= 2 => submit' \in {"lost", "done"}
  BY <1>1, <1>2 DEF RowSound, Proceeds
<1>6. submit \in {"release", "done"} => submit' \in {"release", "done"}
  BY DEF Proceeds
<1>7. RowSound'
  BY <1>1, <1>2, <1>3, <1>4, <1>5, <1>6 DEF RowSound, NeverRan
<1>8. Shifts
  BY <1>1, <1>2 DEF Shifts, TypeOK
<1> QED
  BY <1>2, <1>7, <1>8

\* One poller moves, or none.
LEMMA SoundMoves ==
  ASSUME Sound, BatchAssumption, NEW p \in Pollers, Reworks(row, row', upstream),
         UNCHANGED <<submit, upstream, results, age, missed>>, RestTyped',
         poll' \in [Pollers -> Polls], \A q \in Pollers \ {p} : poll'[q] = poll[q],
         RowSound' => PollSound(p)'
  PROVE  Sound'
<1>1. /\ row' \in Rows \cup {NoRow}
      /\ row' # NoRow => (row'.terminalAt <=> row'.status \in Terminal)
      /\ RowSound' /\ Shifts
  BY RowReworked DEF Proceeds
<1>2. TypeOK'
  BY <1>1 DEF TypeOK, Sound, RestTyped
<1>3. ASSUME NEW q \in Pollers PROVE PollSound(q)'
  BY <1>1, PollSoundStays
<1> QED
  BY <1>1, <1>2, <1>3 DEF Sound

LEMMA SoundRests ==
  ASSUME Sound, BatchAssumption, Reworks(row, row', upstream), Proceeds,
         submit' \in {"new", "inserted", "reserved", "sent", "lost", "release", "done"},
         UNCHANGED <<upstream, results, age, missed, poll>>, RestTyped'
  PROVE  Sound'
<1>1. /\ row' \in Rows \cup {NoRow}
      /\ row' # NoRow => (row'.terminalAt <=> row'.status \in Terminal)
      /\ RowSound' /\ Shifts
  BY RowReworked
<1>2. TypeOK'
  BY <1>1 DEF TypeOK, Sound, RestTyped
<1>3. ASSUME NEW q \in Pollers PROVE PollSound(q)'
  BY <1>1, PollSoundStays
<1> QED
  BY <1>1, <1>2, <1>3 DEF Sound

\* A poller gives the job up until the next sweep.
LEMMA SoundDone ==
  ASSUME Sound, BatchAssumption, NEW p \in Pollers, Done(p), Reworks(row, row', upstream),
         UNCHANGED <<submit, upstream, results, age, missed>>, RestTyped'
  PROVE  Sound'
<1>1. /\ poll' \in [Pollers -> Polls] /\ poll'[p] = Idle
      /\ \A q \in Pollers \ {p} : poll'[q] = poll[q]
  BY DoneMoves DEF Sound
<1>2. PollSound(p)'
  BY <1>1 DEF PollSound, Idle
<1> QED
  BY <1>1, <1>2, SoundMoves

\* What a history variable becomes.
LEMMA MissedIs ==
  ASSUME missed \in BOOLEAN, NEW misled \in BOOLEAN, missed' = (missed \/ misled)
  PROVE  /\ missed' \in BOOLEAN /\ (missed => missed')
         /\ ~missed' => ~missed /\ ~misled
OBVIOUS
-----------------------------------------------------------------------------
LEMMA InitSound == ASSUME BatchAssumption, Init PROVE Sound
<1>1. TypeOK
  BY InitKeeps DEF IInv
<1>2. RowSound /\ \A p \in Pollers : PollSound(p)
  BY DEF Init, RowSound, RowKnows, PollSound, Ahead, Idle, Final
<1> QED
  BY <1>1, <1>2 DEF Sound

LEMMA InsertSound == ASSUME Sound, BatchAssumption, Insert PROVE Sound'
<1>1. /\ TypeOK /\ RowSound /\ InsertedRow # NoRow /\ InsertedRow \in Rows
      /\ InsertedRow.status = "submitting" /\ ~InsertedRow.hasId /\ ~InsertedRow.terminalAt
  <2>1. InsertedRow \in Rows
    BY DEF InsertedRow, Rows, Kinds, NonTerminal
  <2> QED
    BY <2>1, NoRowIsNone DEF Sound, InsertedRow
<1>2. /\ row = NoRow /\ submit = "new" /\ upstream = "absent"
      /\ row' = InsertedRow /\ submit' = "inserted"
      /\ UNCHANGED <<ledger, reserved, released, cancel, poll, upstream, results,
                     provider, age, failures, missed>>
  BY <1>1 DEF Insert, world, RowSound
<1>3. TypeOK'
  BY <1>1, <1>2 DEF TypeOK, Terminal
<1>4. RowSound'
  BY <1>1, <1>2 DEF RowSound, RowKnows, Ahead, Final, Terminal, TypeOK
<1>5. Shifts
  BY <1>1, <1>2 DEF Shifts, TypeOK
<1>6. \A p \in Pollers : PollSound(p)'
  BY <1>2, <1>5, PollSoundStays
<1> QED
  BY <1>3, <1>4, <1>6 DEF Sound

LEMMA RefuseSound == ASSUME Sound, BatchAssumption, Refuse PROVE Sound'
<1>1. TypeOK /\ RowSound /\ NoRow \notin Rows
  BY NoRowIsNone DEF Sound
<1>2. /\ submit = "inserted" /\ submit' = "done" /\ row' \in {row, NoRow}
      /\ row' # row => row # NoRow /\ row.status = "submitting" /\ ~row.hasId
      /\ UNCHANGED <<ledger, reserved, released, cancel, poll, upstream, results,
                     provider, age, failures, missed>>
  BY DEF Refuse, Discarded, world
<1>3. TypeOK'
  BY <1>1, <1>2 DEF TypeOK
<1>4. Shifts
  BY <1>1, <1>2 DEF Shifts, TypeOK
<1>5. RowSound'
  BY <1>1, <1>2 DEF RowSound, RowKnows, Final, NeverRan
<1>6. \A p \in Pollers : PollSound(p)'
  BY <1>2, <1>4, PollSoundStays
<1> QED
  BY <1>3, <1>5, <1>6 DEF Sound

\* The steps of the request that leave the row alone, and the one that stores
\* the id.
LEMMA RequestSound ==
  ASSUME Sound, BatchAssumption,
         Reserve \/ Send \/ AbandonSubmit \/ ReleaseRejected \/ Accepted
  PROVE  Sound'
<1>1. TypeOK
  BY DEF Sound
<1>2. /\ Proceeds
      /\ submit' \in {"new", "inserted", "reserved", "sent", "lost", "release", "done"}
      /\ UNCHANGED <<ledger, cancel, poll, world>>
      /\ reserved' \in BOOLEAN /\ released' \in Nat
  BY <1>1 DEF Reserve, Send, AbandonSubmit, ReleaseRejected, Accepted, Proceeds, TypeOK
<1>3. RestTyped' /\ UNCHANGED <<upstream, results, age, missed, poll>>
  BY <1>1, <1>2 DEF RestTyped, TypeOK, world
<1>4. Reworks(row, row', upstream)
  <2>1. CASE Accepted
    BY <1>1, <2>1, AcceptedTouches, TouchReworks
  <2>2. CASE ~Accepted
    BY <2>2 DEF Reserve, Send, AbandonSubmit, ReleaseRejected, Reworks
  <2> QED
    BY <2>1, <2>2
<1> QED
  BY <1>2, <1>3, <1>4, SoundRests

\* An error answer fails the row; if the upstream holds the job, it is missed.
LEMMA RejectedSound == ASSUME Sound, BatchAssumption, Rejected PROVE Sound'
<1>1. TypeOK /\ RowSound /\ NoRow \notin Rows
  BY NoRowIsNone DEF Sound
<1>2. /\ submit = "sent" /\ submit' \in {"release", "done"} /\ row' = Failed(row)
      /\ UNCHANGED <<ledger, reserved, released, cancel, poll, upstream, results,
                     provider, age, failures>>
  BY DEF Rejected
<1>3. /\ missed' \in BOOLEAN /\ (missed => missed')
      /\ ~missed' => ~missed /\ upstream = "absent"
  <2> DEFINE misled == upstream # "absent"
  <2>1. missed \in BOOLEAN /\ misled \in BOOLEAN /\ missed' = (missed \/ misled)
    BY <1>1 DEF Rejected, TypeOK
  <2> HIDE DEF misled
  <2>2. missed' \in BOOLEAN /\ (missed => missed') /\ (~missed' => ~missed /\ ~misled)
    BY <2>1, MissedIs
  <2> QED
    BY <2>2 DEF misled
<1>4. row # NoRow /\ row \in Rows /\ age < 2
  BY <1>1, <1>2 DEF RowSound, TypeOK
<1>5. /\ row' \in Rows /\ row' # NoRow /\ row'.hasId = row.hasId
      /\ row'.terminalAt <=> row'.status \in Terminal
      /\ row'.status \in {row.status, "failed"}
  <2>1. CASE row.status \in Terminal
    BY <1>1, <1>2, <1>4, <2>1 DEF Failed, TypeOK
  <2>2. CASE row.status \notin Terminal
    BY <1>1, <1>2, <1>4, <2>2, FailedIs DEF Terminal
  <2> QED
    BY <2>1, <2>2
<1>6. TypeOK'
  <2>1. submit' \in {"new", "inserted", "reserved", "sent", "lost", "release", "done"}
    BY <1>2
  <2>2. /\ row' \in Rows \cup {NoRow}
        /\ row' # NoRow => (row'.terminalAt <=> row'.status \in Terminal)
    BY <1>5
  <2>3. missed' \in BOOLEAN
    BY <1>3
  <2> HIDE <1>3
  <2> QED
    BY <1>1, <1>2, <2>1, <2>2, <2>3 DEF TypeOK
<1>7. RowKnows'
  BY <1>1, <1>2, <1>4, <1>5 DEF RowSound, RowKnows, Asked
<1>8. RowSound'
  BY <1>1, <1>2, <1>3, <1>4, <1>5, <1>7 DEF RowSound, Ahead, NeverRan
<1>9. Shifts
  BY <1>1, <1>2, <1>3, <1>4, <1>5 DEF Shifts, TypeOK
<1>10. \A p \in Pollers : PollSound(p)'
  BY <1>2, <1>9, PollSoundStays
<1> QED
  BY <1>6, <1>8, <1>10 DEF Sound
-----------------------------------------------------------------------------
\* The upstream turns, under pollers of whom one at most moves on.
LEMMA TurnsSound ==
  ASSUME Sound, BatchAssumption, upstream' # upstream,
         \/ upstream = "absent" /\ upstream' = "in_progress" /\ age < 2
            /\ submit \in {"sent", "lost"}
         \/ upstream = "in_progress" /\ upstream' = "cancelling"
         \/ upstream = "in_progress" /\ upstream' = "forgotten" /\ row # NoRow /\ row.hasId,
         UNCHANGED <<row, submit, results, age, missed>>, RestTyped',
         poll' \in [Pollers -> Polls],
         \A p \in Pollers : poll'[p] = poll[p] \/ PollSound(p)'
  PROVE  Sound'
<1>1. TypeOK /\ RowSound /\ age \in 0..3
  BY DEF Sound, TypeOK
<1>2. TypeOK'
  BY <1>1 DEF TypeOK, RestTyped, Upstreams
<1>3. RowKnows'
  BY <1>1 DEF RowSound, RowKnows
<1>4. results = {}
  BY <1>1 DEF RowSound, Ahead
<1>5. ~(Final /\ row.kind \in NeverRun /\ ~missed)
  BY <1>1 DEF RowSound, NeverRan
<1>6. RowSound'
  BY <1>1, <1>3, <1>4, <1>5 DEF RowSound, Ahead, Final
<1>7. Shifts
  BY <1>1 DEF Shifts, TypeOK
<1>8. ASSUME NEW p \in Pollers PROVE PollSound(p)'
  BY <1>7, PollSoundStays
<1> QED
  BY <1>2, <1>6, <1>8 DEF Sound

LEMMA TurnSound ==
  ASSUME Sound, BatchAssumption, UpstreamCreate \/ UpstreamLose \/ CancelUpstream
  PROVE  Sound'
<1>1. TypeOK
  BY DEF Sound
<1>2. /\ UNCHANGED <<row, ledger, submit, reserved, released, poll, failures,
                     results, provider, age, missed>>
      /\ cancel' \in Cancels
  BY <1>1 DEF UpstreamCreate, UpstreamLose, CancelUpstream, gateway, TypeOK, Cancels
<1>3. RestTyped' /\ poll' \in [Pollers -> Polls]
  BY <1>1, <1>2 DEF RestTyped, TypeOK
<1>4. CASE upstream' = upstream
  <2>1. Reworks(row, row', upstream) /\ Proceeds
    BY <1>2 DEF Reworks, Proceeds
  <2>2. submit' \in {"new", "inserted", "reserved", "sent", "lost", "release", "done"}
    BY <1>1, <1>2 DEF TypeOK
  <2> QED
    BY <1>2, <1>3, <1>4, <2>1, <2>2, SoundRests
<1>5. CASE upstream' # upstream
  <2>1. \/ upstream = "absent" /\ upstream' = "in_progress" /\ age < 2
           /\ submit \in {"sent", "lost"}
        \/ upstream = "in_progress" /\ upstream' = "cancelling"
        \/ upstream = "in_progress" /\ upstream' = "forgotten" /\ row # NoRow /\ row.hasId
    BY <1>5 DEF UpstreamCreate, UpstreamLose, CancelUpstream, AskUpstream
  <2> QED
    BY <1>2, <1>3, <1>5, <2>1, TurnsSound
<1> QED
  BY <1>4, <1>5

\* The results of a job that has ended vanish.
LEMMA ForgetSound == ASSUME Sound, UpstreamForget PROVE Sound'
<1>1. TypeOK /\ RowSound
  BY DEF Sound
<1>2. /\ upstream \in Terminal /\ upstream' = "forgotten" /\ age = 3
      /\ \A p \in Pollers : poll[p].step \in {"idle", "settle"}
      /\ UNCHANGED <<row, ledger, submit, reserved, released, poll, failures,
                     results, cancel, provider, age, missed>>
  BY DEF UpstreamForget, gateway
<1>3. TypeOK'
  BY <1>1, <1>2 DEF TypeOK, Upstreams
<1>4. upstream \notin Ahead /\ upstream \notin {"absent", "forgotten"}
  BY <1>2 DEF Terminal, Ahead
<1>5. RowSound'
  BY <1>1, <1>2, <1>4 DEF RowSound, RowKnows, Ahead, Final, NeverRan
<1>6. ASSUME NEW p \in Pollers PROVE PollSound(p)'
  <2>1. PollSound(p) /\ poll[p] \in Polls
    BY <1>1 DEF Sound, TypeOK
  <2> QED
    BY <1>2, <2>1 DEF PollSound
<1> QED
  BY <1>3, <1>5, <1>6 DEF Sound

\* The upstream ends the job, perhaps before its id is known: then it is missed.
LEMMA EndSound == ASSUME Sound, BatchAssumption, UpstreamEnd PROVE Sound'
<1>1. TypeOK /\ RowSound
  BY DEF Sound
<1>2. /\ upstream \in {"in_progress", "cancelling"} /\ upstream' \in Terminal
      /\ results' \in SUBSET Items
      /\ UNCHANGED <<row, ledger, submit, reserved, released, poll, failures,
                     cancel, provider, age>>
  BY DEF UpstreamEnd, submitting, BatchAssumption, Terminal
<1>3. missed' \in BOOLEAN /\ (missed => missed') /\ (~missed' => ~missed /\ Known)
  <2> DEFINE misled == ~Known
  <2>1. missed \in BOOLEAN /\ misled \in BOOLEAN /\ missed' = (missed \/ misled)
    BY <1>1 DEF UpstreamEnd, TypeOK, Known
  <2> HIDE DEF misled
  <2>2. missed' \in BOOLEAN /\ (missed => missed') /\ (~missed' => ~missed /\ ~misled)
    BY <2>1, MissedIs
  <2> QED
    BY <2>2 DEF misled
<1>4. TypeOK'
  <2>1. upstream' \in Upstreams /\ missed' \in BOOLEAN
    BY <1>2, <1>3 DEF Upstreams
  <2> HIDE <1>3
  <2> QED
    BY <1>1, <1>2, <2>1 DEF TypeOK
<1>5. upstream' \notin Ahead /\ upstream' # "forgotten"
  BY <1>2 DEF Ahead, Terminal
<1>6. ~missed' => ~(Final /\ row.kind \in NeverRun) /\ row # NoRow /\ row.hasId
  BY <1>1, <1>2, <1>3 DEF RowSound, NeverRan, Known
<1>7. RowKnows'
  BY <1>1, <1>2, <1>5 DEF RowSound, RowKnows, Ahead
<1>8. RowSound'
  BY <1>1, <1>2, <1>3, <1>5, <1>6, <1>7 DEF RowSound, Final
<1>9. ASSUME NEW p \in Pollers PROVE PollSound(p)'
  <2>1. PollSound(p) /\ poll[p] \in Polls /\ poll'[p] = poll[p]
    BY <1>1, <1>2 DEF Sound, TypeOK
  <2>2. ~missed' => (poll[p].step = "picked" => poll[p].snap.hasId)
    BY <1>3 DEF Known
  <2>3. ~missed' => ~(poll[p].step = "finish" /\ poll[p].kind \in NeverRun)
    BY <1>2, <1>3, <2>1 DEF PollSound, NeverRan
  <2> QED
    BY <1>2, <1>5, <2>1, <2>2, <2>3 DEF PollSound, Ahead
<1> QED
  BY <1>4, <1>8, <1>9 DEF Sound

\* Time passes.
LEMMA AgeSound == ASSUME Sound, Age PROVE Sound'
<1>1. TypeOK /\ RowSound /\ age \in 0..3
  BY DEF Sound, TypeOK
<1>2. /\ age < 3 /\ age' = age + 1 /\ (age >= 1 => submit \in {"lost", "done"})
      /\ UNCHANGED <<row, ledger, submit, reserved, released, poll, failures,
                     upstream, results, cancel, provider, missed>>
  BY DEF Age, gateway
<1>3. TypeOK'
  BY <1>1, <1>2 DEF TypeOK
<1>4. RowSound'
  BY <1>1, <1>2 DEF RowSound, RowKnows, Final, NeverRan
<1>5. Shifts
  BY <1>1, <1>2 DEF Shifts
<1>6. \A p \in Pollers : PollSound(p)'
  BY <1>2, <1>5, PollSoundStays
<1> QED
  BY <1>3, <1>4, <1>6 DEF Sound

\* The owner cancels, or deletes the provider.
LEMMA OwnerSound ==
  ASSUME Sound, BatchAssumption,
         \/ LoadForCancel \/ RecordCancel \/ MarkCancelled \/ AbandonCancel
         \/ DeleteProvider
  PROVE  Sound'
<1>1. TypeOK /\ RowSound
  BY DEF Sound
<1>2. /\ UNCHANGED <<submit, ledger, reserved, released, poll, upstream, results, age,
                     failures, missed>>
      /\ cancel' \in Cancels /\ provider' \in BOOLEAN
  <2>1. CASE DeleteProvider
    BY <1>1, <2>1 DEF DeleteProvider, gateway, TypeOK
  <2>2. CASE ~DeleteProvider
    <3>1. NoCancel \in Cancels
      BY DEF NoCancel, Cancels
    <3> QED
      BY <1>1, <2>2, <3>1 DEF LoadForCancel, RecordCancel, MarkCancelled, AbandonCancel,
         gateway, submitting, world, TypeOK, Cancels
  <2> QED
    BY <2>1, <2>2
<1>3. Reworks(row, row', upstream)
  <2>1. CASE DeleteProvider
    BY <2>1 DEF DeleteProvider, gateway, Reworks
  <2>2. CASE ~DeleteProvider
    BY <1>1, <2>2, OwnerRowTouches, TouchReworks DEF RowSound
  <2> QED
    BY <2>1, <2>2
<1>4. /\ RestTyped' /\ Proceeds
      /\ submit' \in {"new", "inserted", "reserved", "sent", "lost", "release", "done"}
  BY <1>1, <1>2 DEF RestTyped, TypeOK, Proceeds
<1> QED
  BY <1>2, <1>3, <1>4, SoundRests
-----------------------------------------------------------------------------
\* A poller moves on and writes nothing.
LEMMA WalkSound ==
  ASSUME Sound, BatchAssumption, NEW p \in Pollers, UNCHANGED <<row, others>>,
         poll' \in [Pollers -> Polls], \A q \in Pollers \ {p} : poll'[q] = poll[q],
         PollSound(p)'
  PROVE  Sound'
<1>1. Reworks(row, row', upstream)
  BY DEF Reworks
<1>2. /\ UNCHANGED <<submit, upstream, results, age, missed>>
      /\ RestTyped'
  BY DEF others, world, submitting, RestTyped, Sound, TypeOK
<1> QED
  BY <1>1, <1>2, SoundMoves

LEMMA PickSound == ASSUME Sound, BatchAssumption, NEW p \in Pollers, Pick(p) PROVE Sound'
<1>1. TypeOK /\ RowSound
  BY DEF Sound
<1>2. /\ row # NoRow /\ row \in Rows /\ UNCHANGED <<row, others>>
      /\ poll' = [poll EXCEPT ![p] = [Idle EXCEPT !.step = "picked", !.snap = row]]
  BY <1>1 DEF Pick, TypeOK
<1>3. /\ poll' \in [Pollers -> Polls]
      /\ poll'[p] = [Idle EXCEPT !.step = "picked", !.snap = row]
      /\ \A q \in Pollers \ {p} : poll'[q] = poll[q]
  <2>1. [Idle EXCEPT !.step = "picked", !.snap = row] \in Polls
    BY <1>2, IdleTyped DEF Polls
  <2> QED
    BY <1>1, <1>2, <2>1 DEF TypeOK
<1>4. /\ poll'[p].step = "picked" /\ poll'[p].snap = row /\ poll'[p].kind = "none"
  BY <1>3 DEF Idle
<1>5. PollSound(p)'
  BY <1>1, <1>2, <1>4 DEF PollSound, RowSound, RowKnows, Ahead, Terminal, others, world
<1> QED
  BY <1>2, <1>3, <1>5, WalkSound

\* A poller goes on to finish the job, and writes nothing: as never run only where
\* that is so, or something was missed.
LEMMA FinishAsSound ==
  ASSUME Sound, BatchAssumption, NEW p \in Pollers,
         NEW status \in Terminal, NEW kind \in Kinds, FinishAs(p, status, kind),
         poll[p].step # "idle", UNCHANGED <<row, others>>,
         kind \in NeverRun /\ ~missed => NeverRan /\ (upstream = "forgotten" \/ age >= 2)
  PROVE  Sound'
<1>1. PollSound(p) /\ TypeOK
  BY DEF Sound
<1>2. /\ poll' \in [Pollers -> Polls]
      /\ poll'[p].step = "finish" /\ poll'[p].snap = poll[p].snap
      /\ poll'[p].view = status /\ poll'[p].kind = kind
      /\ \A q \in Pollers \ {p} : poll'[q] = poll[q]
  BY <1>1, FinishAsMoves
<1>3. UNCHANGED <<upstream, results, age, missed>>
  BY DEF others, world
<1>4. PollSound(p)'
  BY <1>1, <1>2, <1>3 DEF PollSound, NeverRan
<1> QED
  BY <1>2, <1>4, WalkSound

LEMMA ProviderMissingSound ==
  ASSUME Sound, BatchAssumption, NEW p \in Pollers, ProviderMissing(p) PROVE Sound'
<1>1. /\ FinishAs(p, "failed", "provider_missing") /\ poll[p].step # "idle"
      /\ UNCHANGED <<row, others>>
      /\ "failed" \in Terminal /\ "provider_missing" \in Kinds \ NeverRun
  BY DEF ProviderMissing, At, Terminal, Kinds, NeverRun
<1> QED
  BY <1>1, FinishAsSound

LEMMA GiveUpSound ==
  ASSUME Sound, BatchAssumption, NEW p \in Pollers,
         \/ WaitGrace(p) \/ MarkUnknown(p) \/ Hold(p) \/ ShowProgress(p) \/ AbandonPoll(p)
  PROVE  Sound'
<1>1. TypeOK /\ RowKnows /\ PollSound(p)
  BY DEF Sound, RowSound
<1>2. At(p, "viewed") => row # NoRow
  BY <1>1 DEF PollSound, At
<1>3. Reworks(row, row', upstream)
  BY <1>1, <1>2, GiveUpTouches, TouchReworks
<1>4. Done(p) /\ UNCHANGED <<submit, upstream, results, age, missed>>
  BY DEF WaitGrace, MarkUnknown, Hold, ShowProgress, AbandonPoll, others, world, submitting
<1>5. RestTyped'
  BY <1>1 DEF WaitGrace, MarkUnknown, Hold, ShowProgress, AbandonPoll, others, world,
     submitting, TypeOK, RestTyped, BatchAssumption
<1> QED
  BY <1>3, <1>4, <1>5, SoundDone

\* Looking for the job in the listing: a job that is given up and yet ran is missed.
LEMMA ListedSound ==
  ASSUME Sound, BatchAssumption, NEW p \in Pollers, ListedMatch(p) \/ ListedNoMatch(p)
  PROVE  Sound'
<1>1. /\ TypeOK /\ RowSound /\ PollSound(p) /\ upstream \in Upstreams
      /\ poll[p] \in Polls /\ poll \in [Pollers -> Polls] /\ age \in 0..3
  BY DEF Sound, TypeOK
<1>2. /\ poll[p].step = "picked" /\ ~poll[p].snap.hasId
      /\ UNCHANGED <<row, ledger, submitting, cancel, upstream, results, provider,
                     age, failures>>
  BY <1>1 DEF ListedMatch, ListedNoMatch, At, Unresolved, PollSound, Asked, others, world
<1>3. CASE ListedMatch(p)
  <2>1. upstream \in Terminal \cup {"in_progress", "cancelling"}
    BY <1>1, <1>3 DEF ListedMatch, Upstreams
  <2> PICK view \in Terminal \cup {"in_progress", "cancelling"} :
           poll' = [poll EXCEPT ![p].step = "adopt", ![p].view = view]
    BY <1>3, <2>1 DEF ListedMatch
  <2>2. /\ poll' \in [Pollers -> Polls]
        /\ poll'[p].step = "adopt" /\ poll'[p].view = view
        /\ poll'[p].snap = poll[p].snap /\ poll'[p].kind = poll[p].kind
        /\ \A q \in Pollers \ {p} : poll'[q] = poll[q]
    BY <1>1 DEF Polls, Upstreams
  <2>3. UNCHANGED <<row, others>> /\ upstream # "absent"
    BY <1>3 DEF ListedMatch
  <2>4. PollSound(p)'
    BY <1>1, <1>2, <2>2, <2>3 DEF PollSound
  <2> QED
    BY <2>2, <2>3, <2>4, WalkSound
<1>4. CASE ListedNoMatch(p) /\ age < 2
  <2>1. Done(p) /\ UNCHANGED <<row, submit, upstream, results, age, missed>>
    BY <1>1, <1>2, <1>4 DEF ListedNoMatch, submitting
  <2>2. RestTyped' /\ Reworks(row, row', upstream)
    BY <1>1, <1>2 DEF RestTyped, TypeOK, submitting, Reworks
  <2> QED
    BY <2>1, <2>2, SoundDone
<1>5. CASE ListedNoMatch(p) /\ age >= 2
  <2> PICK kind \in {"submit_lost", "submit_unresolved"} : FinishAs(p, "failed", kind)
    BY <1>5 DEF ListedNoMatch, GiveUp
  <2>1. /\ poll' \in [Pollers -> Polls]
        /\ poll'[p].step = "finish" /\ poll'[p].snap = poll[p].snap
        /\ poll'[p].view = "failed" /\ poll'[p].kind = kind
        /\ \A q \in Pollers \ {p} : poll'[q] = poll[q]
    BY <1>1, FinishAsMoves DEF Terminal, Kinds
  <2>2. /\ missed' \in BOOLEAN /\ (missed => missed')
        /\ ~missed' => ~missed /\ upstream \in {"absent", "forgotten"}
    <3> DEFINE misled == upstream \notin {"absent", "forgotten"}
    <3>1. missed \in BOOLEAN /\ misled \in BOOLEAN /\ missed' = (missed \/ misled)
      BY <1>1, <1>5 DEF ListedNoMatch, GiveUp, TypeOK
    <3> HIDE DEF misled
    <3>2. missed' \in BOOLEAN /\ (missed => missed') /\ (~missed' => ~missed /\ ~misled)
      BY <3>1, MissedIs
    <3> QED
      BY <3>2 DEF misled
  <2>3. UNCHANGED <<row, ledger, submit, reserved, released, cancel, upstream, results,
                    provider, age, failures>>
    BY <1>2 DEF submitting
  <2>4. TypeOK'
    <3>1. missed' \in BOOLEAN
      BY <2>2
    <3> HIDE <2>2
    <3> QED
      BY <1>1, <2>1, <2>3, <3>1 DEF TypeOK
  <2>5. RowSound'
    BY <1>1, <2>2, <2>3 DEF RowSound, RowKnows, Final, NeverRan
  <2>6. Shifts
    BY <1>1, <2>2, <2>3 DEF Shifts
  <2>7. PollSound(p)'
    <3>1. ~missed' => NeverRan
      BY <1>1, <1>2, <2>2 DEF PollSound, RowSound, Ahead, NeverRan
    <3> QED
      BY <1>1, <1>2, <1>5, <2>1, <2>3, <3>1 DEF PollSound, NeverRan, Terminal
  <2>8. ASSUME NEW q \in Pollers PROVE PollSound(q)'
    BY <2>1, <2>6, <2>7, PollSoundStays
  <2> QED
    BY <2>4, <2>5, <2>8 DEF Sound
<1> QED
  BY <1>1, <1>3, <1>4, <1>5

\* An adoption may give a final row another status, never a kind of NeverRun.
LEMMA AdoptReworks ==
  ASSUME TypeOK, NEW p \in Pollers, PollSound(p), Adopt(p)
  PROVE  Reworks(row, row', upstream)
<1> DEFINE view == poll[p].view
           patched == [row EXCEPT !.status = view, !.hasId = TRUE, !.kind = "none"]
<1>1. view \in Terminal \cup {"in_progress", "cancelling"} /\ upstream # "absent"
  BY DEF Adopt, At, PollSound
<1>2. CASE row' = row
  BY <1>2 DEF Reworks
<1>3. CASE row' # row
  <2>1. row # NoRow /\ row \in Rows /\ row' = Write(row, patched)
    BY <1>3 DEF Adopt, AdoptedRow, TypeOK
  <2>2. row' = patched /\ (patched.terminalAt <=> patched.status \in Terminal)
    <3> HIDE DEF patched
    <3> QED
      BY <1>3, <2>1, WriteIs
  <2>3. /\ patched.status = view /\ patched.hasId /\ patched.kind = "none"
        /\ patched.terminalAt = row.terminalAt
        /\ row.terminalAt <=> row.status \in Terminal
    BY <2>1 DEF Rows, TypeOK
  <2>4. patched \in Rows
    BY <1>1, <2>1 DEF Rows, NonTerminal, Kinds
  <2>5. view \notin Asked
    BY <1>1 DEF Asked, Terminal
  <2> HIDE DEF patched, view
  <2> QED
    BY <1>1, <2>1, <2>2, <2>3, <2>4, <2>5 DEF Reworks, NeverRun
<1> QED
  BY <1>2, <1>3

LEMMA AdoptSound ==
  ASSUME Sound, BatchAssumption, NEW p \in Pollers, Adopt(p) PROVE Sound'
<1>1. TypeOK /\ PollSound(p) /\ RowSound
  BY DEF Sound
<1>2. Reworks(row, row', upstream)
  BY <1>1, AdoptReworks
<1>3. /\ UNCHANGED <<submit, upstream, results, age, missed>>
      /\ RestTyped'
  BY <1>1 DEF Adopt, others, world, submitting, RestTyped, TypeOK
<1>4. CASE Done(p)
  BY <1>2, <1>3, <1>4, SoundDone
<1>5. CASE Goto(p, "lateCancel")
  <2>1. /\ poll' \in [Pollers -> Polls]
        /\ poll'[p].step = "lateCancel" /\ poll'[p].snap = poll[p].snap
        /\ poll'[p].view = poll[p].view /\ poll'[p].kind = poll[p].kind
        /\ \A q \in Pollers \ {p} : poll'[q] = poll[q]
    BY <1>1, <1>5, GotoMoves
  <2>2. poll[p].step = "adopt"
    BY DEF Adopt, At
  <2>3. PollSound(p)'
    BY <1>1, <1>2, <2>1, <2>2 DEF PollSound, Reworks
  <2> QED
    BY <1>2, <1>3, <2>1, <2>3, SoundMoves
<1> QED
  BY <1>4, <1>5 DEF Adopt

\* The upstream may be asked to cancel on the way.
LEMMA AskedSound ==
  ASSUME Sound, BatchAssumption, NEW p \in Pollers, TryCancel,
         UNCHANGED <<row, ledger, submitting, cancel, results, provider, age, missed>>,
         poll' \in [Pollers -> Polls], \A q \in Pollers \ {p} : poll'[q] = poll[q],
         poll'[p].step \in {"idle", "mark"}, poll'[p].kind = "none",
         poll'[p].step = "mark" =>
           poll'[p].snap # NoRow /\ poll'[p].snap.hasId /\ poll[p].snap = poll'[p].snap,
         poll'[p].step = "idle" => poll'[p].snap = NoRow
  PROVE  Sound'
<1>1. TypeOK /\ PollSound(p)
  BY DEF Sound
<1>2. /\ \/ upstream' = upstream
         \/ upstream = "in_progress" /\ upstream' = "cancelling"
      /\ failures' \in 0..MaxFailures
  BY <1>1 DEF TryCancel, AskUpstream, TypeOK, BatchAssumption
<1>3. RestTyped' /\ UNCHANGED <<row, submit, results, age, missed>>
  BY <1>1, <1>2 DEF RestTyped, TypeOK, submitting
<1>4. PollSound(p)'
  BY <1>1, <1>3 DEF PollSound
<1>5. CASE upstream' = upstream
  <2>1. Reworks(row, row', upstream)
    BY <1>3 DEF Reworks
  <2> QED
    BY <1>3, <1>4, <1>5, <2>1, SoundMoves
<1>6. CASE upstream = "in_progress" /\ upstream' = "cancelling"
  <2>1. \A q \in Pollers : poll'[q] = poll[q] \/ PollSound(q)'
    BY <1>4
  <2> QED
    BY <1>3, <1>6, <2>1, TurnsSound
<1> QED
  BY <1>2, <1>5, <1>6

LEMMA CancelSound ==
  ASSUME Sound, BatchAssumption, NEW p \in Pollers, LateCancel(p) \/ CancelFirst(p)
  PROVE  Sound'
<1>1. TypeOK /\ PollSound(p)
  BY DEF Sound
<1>2. /\ TryCancel
      /\ UNCHANGED <<row, ledger, submitting, cancel, results, provider, age, missed>>
  BY DEF LateCancel, CancelFirst
<1>3. CASE LateCancel(p)
  <2>1. /\ poll' \in [Pollers -> Polls] /\ poll'[p] = Idle
        /\ \A q \in Pollers \ {p} : poll'[q] = poll[q]
    BY <1>1, <1>3, DoneMoves DEF LateCancel
  <2>2. poll'[p].step = "idle" /\ poll'[p].kind = "none" /\ poll'[p].snap = NoRow
    BY <2>1 DEF Idle
  <2> QED
    BY <1>2, <2>1, <2>2, AskedSound
<1>4. CASE CancelFirst(p)
  <2>1. poll[p].step = "picked" /\ poll[p].snap.hasId /\ Goto(p, "mark")
    BY <1>4 DEF CancelFirst, At, Unresolved
  <2>2. /\ poll' \in [Pollers -> Polls]
        /\ poll'[p].step = "mark" /\ poll'[p].snap = poll[p].snap
        /\ poll'[p].kind = poll[p].kind
        /\ \A q \in Pollers \ {p} : poll'[q] = poll[q]
    BY <1>1, <2>1, GotoMoves
  <2>3. poll'[p].snap # NoRow /\ poll'[p].kind = "none"
    BY <1>1, <2>1, <2>2 DEF PollSound
  <2> QED
    BY <1>2, <2>1, <2>2, <2>3, AskedSound
<1> QED
  BY <1>3, <1>4

LEMMA MarkCancellingSound ==
  ASSUME Sound, BatchAssumption, NEW p \in Pollers, MarkCancelling(p) PROVE Sound'
<1>1. TypeOK /\ PollSound(p) /\ RowKnows
  BY DEF Sound, RowSound
<1>2. /\ poll' \in [Pollers -> Polls]
      /\ poll'[p].step = "status" /\ poll'[p].snap = poll[p].snap
      /\ poll'[p].view = poll[p].view /\ poll'[p].kind = poll[p].kind
      /\ \A q \in Pollers \ {p} : poll'[q] = poll[q]
  BY <1>1, GotoMoves DEF MarkCancelling
<1>3. /\ Reworks(row, row', upstream) /\ poll[p].step = "mark"
      /\ UNCHANGED <<submit, upstream, results, age, missed>> /\ RestTyped'
  BY <1>1, StatusTouches, TouchReworks
     DEF MarkCancelling, others, world, submitting, At, RestTyped, TypeOK
<1>4. PollSound(p)'
  BY <1>1, <1>2, <1>3 DEF PollSound, Reworks
<1> QED
  BY <1>2, <1>3, <1>4, SoundMoves

\* The upstream is asked for the job's status.
LEMMA SeeSound ==
  ASSUME Sound, BatchAssumption, NEW p \in Pollers, SeeStatus(p) \/ SeeNothing(p)
  PROVE  Sound'
<1>1. /\ PollSound(p) /\ RowSound /\ poll \in [Pollers -> Polls] /\ poll[p] \in Polls
      /\ upstream \in Upstreams
  BY DEF Sound, TypeOK
<1>2. /\ UNCHANGED <<row, others>>
      /\ poll[p].step \in {"status", "picked"} /\ poll[p].snap.hasId
  BY <1>1 DEF SeeStatus, SeeNothing, Ready, At, Unresolved, PollSound
<1>3. CASE SeeStatus(p)
  <2>1. PICK view \in {upstream} \cup (IF "unmapped" \in Faults THEN {"unmapped"} ELSE {}) :
          poll' = [poll EXCEPT ![p].step = "viewed", ![p].view = view]
    BY <1>3 DEF SeeStatus
  <2>2. /\ poll' \in [Pollers -> Polls]
        /\ poll'[p].step = "viewed" /\ poll'[p].snap = poll[p].snap
        /\ poll'[p].kind = poll[p].kind
        /\ \A q \in Pollers \ {p} : poll'[q] = poll[q]
    <3> DEFINE u == [poll[p] EXCEPT !.step = "viewed", !.view = view]
    <3>1. poll' = [poll EXCEPT ![p] = u]
      BY <1>1, <2>1
    <3>2. u.step = "viewed" /\ u.snap = poll[p].snap /\ u.kind = poll[p].kind
      BY <1>1 DEF Polls
    <3>3. u \in Polls
      BY <1>1, <2>1 DEF Polls
    <3> HIDE DEF u
    <3> QED
      BY <1>1, <3>1, <3>2, <3>3
  <2>3. PollSound(p)'
    BY <1>1, <1>2, <2>2 DEF PollSound
  <2> QED
    BY <1>2, <2>2, <2>3, WalkSound
<1>4. CASE SeeNothing(p)
  <2>1. PICK status \in {"expired", "failed"}, kind \in {"none", "submit_lost"} :
          FinishAs(p, status, kind) /\ (kind = "submit_lost" => age # 3)
    BY <1>4 DEF SeeNothing
  <2>2. status \in Terminal /\ kind \in Kinds /\ poll[p].step # "idle"
    BY <1>2 DEF Terminal, Kinds
  <2>3. kind \in NeverRun => NeverRan /\ upstream = "forgotten"
    BY <1>1, <1>4, <2>1 DEF SeeNothing, RowSound, NeverRan, NeverRun
  <2> QED
    BY <1>2, <2>1, <2>2, <2>3, FinishAsSound
<1> QED
  BY <1>3, <1>4

\* The job is held while its results are recorded.
LEMMA HoldFinalSound ==
  ASSUME Sound, BatchAssumption, NEW p \in Pollers, HoldFinal(p) PROVE Sound'
<1> DEFINE snap == poll[p].snap
           held == IF snap.status = "cancelling" \/ poll[p].view = "cancelled"
                   THEN "cancelling" ELSE "finalizing"
           patched == [row EXCEPT !.status = held, !.kind = "none"]
           next == IF Swaps(row, Live) THEN patched ELSE snap
<1>1. /\ PollSound(p) /\ TypeOK /\ RowKnows /\ poll \in [Pollers -> Polls]
      /\ poll[p] \in Polls
  BY DEF Sound, RowSound, TypeOK
<1>2. /\ poll[p].step = "viewed" /\ poll[p].view \in Terminal /\ snap.hasId
      /\ snap # NoRow /\ row # NoRow /\ row.hasId /\ row \in Rows
  BY <1>1 DEF HoldFinal, At, PollSound, TypeOK
<1>3. held \in NonTerminal /\ "none" \in Kinds /\ held \notin Asked
  BY DEF NonTerminal, Kinds, Asked
<1>4. poll' = [poll EXCEPT ![p].step = "settle", ![p].snap = next]
  BY DEF HoldFinal
<1>5. patched \in Rows /\ patched.hasId /\ patched.status = held
  BY <1>2, <1>3 DEF Rows
<1>6. /\ next \in Rows \cup {NoRow} /\ next # NoRow /\ next.hasId
      /\ next.status \notin Asked
  BY <1>1, <1>2, <1>3, <1>5, NoRowIsNone DEF PollSound, Polls
<1>7. Reworks(row, row', upstream)
  BY <1>1, HoldFinalTouches, TouchReworks
<1> HIDE DEF next, patched
<1>8. /\ poll' \in [Pollers -> Polls]
      /\ poll'[p].step = "settle" /\ poll'[p].snap = next
      /\ poll'[p].view = poll[p].view /\ poll'[p].kind = poll[p].kind
      /\ \A q \in Pollers \ {p} : poll'[q] = poll[q]
  BY <1>1, <1>4, <1>6 DEF Polls
<1>9. UNCHANGED <<submit, upstream, results, age, missed>> /\ RestTyped'
  BY <1>1 DEF HoldFinal, others, world, submitting, RestTyped, TypeOK
<1>10. PollSound(p)'
  BY <1>1, <1>2, <1>6, <1>7, <1>8 DEF PollSound, Reworks
<1> QED
  BY <1>7, <1>8, <1>9, <1>10, SoundMoves

\* Results are read, until they end or are gone.
LEMMA SettleSound ==
  ASSUME Sound, BatchAssumption, NEW p \in Pollers,
         (\E item \in Items : RecordItem(p, item)) \/ ResultsEnd(p) \/ ResultsGone(p)
  PROVE  Sound'
<1>1. /\ PollSound(p) /\ TypeOK /\ poll \in [Pollers -> Polls] /\ poll[p] \in Polls
      /\ poll[p].step = "settle" /\ poll[p].kind = "none"
      /\ poll[p].view \in Terminal /\ poll[p].snap # NoRow
  BY DEF Sound, TypeOK, RecordItem, ResultsEnd, ResultsGone, At, PollSound
<1>2. FinalStatus(p) \in Terminal
  BY <1>1 DEF FinalStatus, Terminal
<1>3. ASSUME NEW item \in Items, RecordItem(p, item) PROVE Sound'
  <2>1. /\ item \in results
        /\ poll' = [poll EXCEPT ![p].seen = @ \cup {item}]
        /\ UNCHANGED <<row, submit, upstream, results, age, missed>>
    BY <1>3 DEF RecordItem, submitting, world
  <2>2. RestTyped'
    BY <1>1, <1>3 DEF RecordItem, submitting, world, RestTyped, TypeOK
  <2>3. /\ poll' \in [Pollers -> Polls]
        /\ poll'[p].step = "settle" /\ poll'[p].snap = poll[p].snap
        /\ poll'[p].view = poll[p].view /\ poll'[p].kind = poll[p].kind
        /\ \A q \in Pollers \ {p} : poll'[q] = poll[q]
    BY <1>1, <2>1 DEF Polls
  <2>4. Reworks(row, row', upstream)
    BY <2>1 DEF Reworks
  <2>5. PollSound(p)'
    BY <1>1, <2>1, <2>3 DEF PollSound
  <2> QED
    BY <2>1, <2>2, <2>3, <2>4, <2>5, SoundMoves
<1>4. CASE ResultsEnd(p)
  <2> DEFINE final == FinalStatus(p)
  <2>1. /\ poll' = [poll EXCEPT ![p].step = "finish", ![p].view = final]
        /\ final \in Terminal /\ final \in Upstreams /\ UNCHANGED <<row, others>>
    BY <1>2, <1>4 DEF ResultsEnd, Upstreams
  <2> HIDE DEF final
  <2>2. /\ poll' \in [Pollers -> Polls]
        /\ poll'[p].step = "finish" /\ poll'[p].snap = poll[p].snap
        /\ poll'[p].view = final /\ poll'[p].kind = "none"
        /\ \A q \in Pollers \ {p} : poll'[q] = poll[q]
    BY <1>1, <2>1 DEF Polls
  <2>3. PollSound(p)'
    BY <1>1, <2>1, <2>2 DEF PollSound, NeverRun
  <2> QED
    BY <2>1, <2>2, <2>3, WalkSound
<1>5. CASE ResultsGone(p)
  <2>1. /\ FinishAs(p, FinalStatus(p), "none") /\ UNCHANGED <<row, others>>
        /\ "none" \in Kinds /\ "none" \notin NeverRun
    BY <1>5 DEF ResultsGone, Kinds, NeverRun
  <2> QED
    BY <1>1, <1>2, <2>1, FinishAsSound
<1> QED
  BY <1>3, <1>4, <1>5

\* The job ends with the kind its poller found, unless another has ended it.
LEMMA FinishSound ==
  ASSUME Sound, BatchAssumption, NEW p \in Pollers, Finish(p) PROVE Sound'
<1> DEFINE me == poll[p]
<1>1. /\ PollSound(p) /\ TypeOK /\ RowSound /\ age \in 0..3
      /\ poll \in [Pollers -> Polls] /\ me \in Polls /\ NoRow \notin Rows
  BY NoRowIsNone DEF Sound, TypeOK
<1>2. me.step = "finish" /\ me.view \in Terminal /\ me.snap # NoRow
  BY <1>1 DEF Finish, At, PollSound
<1>3. /\ UNCHANGED <<submit, upstream, results, age, missed>>
      /\ RestTyped'
  BY <1>1 DEF Finish, others, world, submitting, RestTyped, TypeOK
<1>4. CASE Settles(row, FinishFrom(me.seen))
  <2>1. /\ row # NoRow /\ row \in Rows
        /\ row' = Settled(row, me.view, me.kind, me.seen) /\ Goto(p, "release")
    BY <1>1, <1>4 DEF Finish, Settles, TypeOK
  <2>2. me.kind \in Kinds /\ me.seen \in SUBSET Items
    BY <1>1 DEF Polls
  <2>3. /\ row' \in Rows /\ row'.status = me.view /\ row'.terminalAt
        /\ row'.kind = me.kind /\ row'.hasId = row.hasId
    BY <1>2, <2>1, <2>2, SettledIs
  <2>4. /\ poll' \in [Pollers -> Polls]
        /\ poll'[p].step = "release" /\ poll'[p].snap = me.snap
        /\ \A q \in Pollers \ {p} : poll'[q] = poll[q]
    BY <1>1, <2>1, GotoMoves
  <2>5. TypeOK'
    BY <1>1, <1>2, <1>3, <2>3, <2>4 DEF TypeOK, RestTyped
  <2>6. RowKnows'
    BY <1>1, <1>2, <1>3, <2>1, <2>3 DEF RowSound, RowKnows, Asked, Terminal
  <2>7. RowSound'
    BY <1>1, <1>2, <1>3, <2>1, <2>3, <2>6 DEF RowSound, PollSound, NeverRan
  <2>8. Shifts
    BY <1>1, <1>3, <2>1, <2>3 DEF Shifts
  <2>9. PollSound(p)'
    <3>1. /\ me.snap.hasId => row.hasId /\ me.snap.status \notin Asked
          /\ row' # NoRow /\ row'.hasId = row.hasId
      BY <1>1, <1>2, <2>3 DEF PollSound
    <3> HIDE DEF me
    <3> QED
      BY <1>2, <2>4, <3>1 DEF PollSound
  <2>10. ASSUME NEW q \in Pollers PROVE PollSound(q)'
    BY <2>4, <2>8, <2>9, PollSoundStays
  <2> QED
    BY <2>5, <2>7, <2>10 DEF Sound
<1>5. CASE ~Settles(row, FinishFrom(me.seen))
  <2>1. Done(p) /\ Reworks(row, row', upstream)
    BY <1>5 DEF Finish, Reworks
  <2> QED
    BY <1>3, <2>1, SoundDone
<1> QED
  BY <1>4, <1>5

LEMMA ReleaseSound ==
  ASSUME Sound, BatchAssumption, NEW p \in Pollers, Release(p) PROVE Sound'
<1>1. Done(p) /\ UNCHANGED <<row, submit, upstream, results, age, missed>>
  BY DEF Release, world
<1>2. RestTyped' /\ Reworks(row, row', upstream)
  BY <1>1 DEF Release, world, RestTyped, Sound, TypeOK, Reworks
<1> QED
  BY <1>1, <1>2, SoundDone

LEMMA NextSound == ASSUME Sound, BatchAssumption, Next PROVE Sound'
<1>1. CASE Submission
  BY <1>1, InsertSound, RefuseSound, RequestSound, RejectedSound DEF Submission
<1>2. CASE Upstream
  BY <1>2, TurnSound, EndSound, ForgetSound DEF Upstream
<1>3. CASE Owner
  BY <1>3, TurnSound, OwnerSound DEF Owner
<1>4. CASE Age
  BY <1>4, AgeSound
<1>5. ASSUME NEW p \in Pollers, Pick(p) \/ Advance(p) \/ AbandonPoll(p) PROVE Sound'
  BY <1>5, PickSound, ProviderMissingSound, GiveUpSound, ListedSound, AdoptSound,
     CancelSound, MarkCancellingSound, SeeSound, HoldFinalSound, SettleSound,
     FinishSound, ReleaseSound DEF Advance
<1> QED
  BY <1>1, <1>2, <1>3, <1>4, <1>5 DEF Next

LEMMA Soundness == Spec => []Sound
<1>1. Init => Sound
  BY InitSound, BatchAssumption
<1>2. Sound /\ [Next]_vars => Sound'
  <2> SUFFICES ASSUME Sound, [Next]_vars PROVE Sound'
    OBVIOUS
  <2>1. CASE Next
    BY <2>1, NextSound, BatchAssumption
  <2>2. CASE UNCHANGED vars
    <3>1. TypeOK'
      BY <2>2 DEF vars, Sound, TypeOK
    <3>2. RowSound'
      <4>1. RowKnows' /\ (Final' <=> Final) /\ (NeverRan' <=> NeverRan)
        BY <2>2 DEF vars, Sound, RowSound, RowKnows, Final, NeverRan
      <4>2. UNCHANGED <<row, submit, age, results, upstream, missed>>
        BY <2>2 DEF vars
      <4> QED
        BY <4>1, <4>2 DEF Sound, RowSound
    <3>3. \A p \in Pollers : PollSound(p)'
      BY <2>2 DEF vars, Sound, PollSound, NeverRan
    <3> QED
      BY <3>1, <3>2, <3>3 DEF Sound
  <2> QED
    BY <2>1, <2>2
<1> QED
  BY <1>1, <1>2, PTL DEF Spec

\* Every variable keeps its type, and a row is stamped with the time of its end
\* exactly when its status is terminal: what the table's CHECK demands of every
\* statement the submission, the cancel route and the poller run, whatever the
\* upstream answers and whatever the owner deletes.
THEOREM TypeCorrect == Spec => []TypeOK
<1>1. Sound => TypeOK
  BY DEF Sound
<1> QED
  BY <1>1, Soundness, PTL

\* A job failed as rejected, lost or never resolved is one the upstream never ran,
\* or something was missed: the create was answered with an error by an upstream
\* that held the job, the listing did not show a job given up, or the upstream had
\* ended the job before its id was known (rejectJob, reconcileSubmission).
THEOREM FailedIsAbsent == Spec => []SubmitFailedIsAbsent
<1>1. Sound => SubmitFailedIsAbsent
  BY DEF Sound, RowSound, SubmitFailedIsAbsent, NeverRun
<1> QED
  BY <1>1, Soundness, PTL
================================================================================
