----------------------------- MODULE BatchPromise -----------------------------
(***************************************************************************)
(* What the gateway promises of one batch job, whatever request, pollers,   *)
(* upstream and owner do to its row: it is open, its results are booked, it  *)
(* is closed once with counts that are those of the ledger, and then what    *)
(* was reserved for it is freed, once.                                       *)
(***************************************************************************)
EXTENDS Naturals

CONSTANTS
  Items,     \* the items of the job
  Statuses   \* the statuses a job may end in

VARIABLES
  state,     \* "open", or the status the job was closed with
  owed,      \* the items the upstream has results for
  booked,    \* the items with a durable ledger row
  counts,    \* the items behind the counts the owner is shown
  kept,      \* the upstream's results can still be read
  freed      \* how often the reservation was released

vars == <<state, owed, booked, counts, kept, freed>>

Init ==
  /\ state = "open"
  /\ owed = {} /\ booked = {} /\ counts = {}
  /\ kept = TRUE
  /\ freed = 0

Running == state = "open" \/ ~kept

\* The upstream runs the job.
Earn ==
  /\ Running
  /\ owed' \in SUBSET Items
  /\ UNCHANGED <<state, booked, counts, kept, freed>>

\* A result is recorded.
Book ==
  /\ Running
  /\ \E i \in owed : booked' = booked \cup {i}
  /\ UNCHANGED <<state, owed, counts, kept, freed>>

\* The upstream's retention ends, or its credential is gone.
Lapse ==
  /\ kept' = FALSE
  /\ UNCHANGED <<state, owed, booked, counts, freed>>

\* The job ends: with everything it is owed booked and counted, as long as that
\* can still be read.
Close ==
  /\ state = "open"
  /\ state' \in Statuses
  /\ kept => booked = owed
  /\ counts' \in SUBSET booked
  /\ kept => counts' = booked
  /\ UNCHANGED <<owed, booked, kept, freed>>

\* The reservation is released: after the end, once.
Free ==
  /\ state # "open"
  /\ freed = 0
  /\ freed' = 1
  /\ UNCHANGED <<state, owed, booked, counts, kept>>

Next == Earn \/ Book \/ Lapse \/ Close \/ Free

Spec == Init /\ [][Next]_vars
==============================================================================
