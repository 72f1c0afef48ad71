------------------------------ MODULE BatchRow -------------------------------
(***************************************************************************)
(* The row of one batch job and the statements the persistence port runs   *)
(* on it.  Each is a single SQL statement: a compare-and-set on the status, *)
(* checked by the table's constraint, and atomic.                          *)
(***************************************************************************)
EXTENDS Naturals

CONSTANTS
  Items,   \* the items of the batch
  NoRow    \* the row was never inserted, or was discarded

Terminal == {"completed", "failed", "expired", "cancelled"}

\* `validating` differs from `in_progress` in nothing but its name.
NonTerminal == {"submitting", "submission_unknown", "in_progress",
                "finalizing", "cancelling"}

\* The states in which the upstream id is known and work may go on.
Adopted == {"in_progress", "finalizing", "cancelling"}

Kinds == {"none", "upstream_status_unknown", "rejected", "submit_lost",
          "submit_unresolved", "provider_missing"}

\* `counted` is the set of items behind completed_count + failed_count.
Rows == [status : NonTerminal \cup Terminal, hasId : BOOLEAN,
         cancelRequested : BOOLEAN, terminalAt : BOOLEAN, kind : Kinds,
         counted : SUBSET Items]

\* Every job starts here, before its reservation and its upstream create.
InsertedRow ==
  [status |-> "submitting", hasId |-> FALSE, cancelRequested |-> FALSE,
   terminalAt |-> FALSE, kind |-> "none", counted |-> {}]

\* The table's CHECK: a terminal row is stamped, a live row is not.
Legal(row) == row.terminalAt <=> row.status \in Terminal

\* A patch of the row is rejected, and its caller gets an exception, when the
\* patched row violates the CHECK.
Write(row, patched) == IF Legal(patched) THEN patched ELSE row

\* update(..., {whenStatusIn: from}): nothing is written when no row matches.
Swap(row, from, patched) ==
  IF row # NoRow /\ row.status \in from THEN Write(row, patched) ELSE row

Swaps(row, from) == row # NoRow /\ row.status \in from

\* settle(...) finds the row it may finish.
Settles(row, from) == row # NoRow /\ row.status \in from /\ ~row.terminalAt

Settled(row, status, kind, counted) ==
  [row EXCEPT !.status = status, !.terminalAt = TRUE, !.kind = kind,
              !.counted = counted]

\* fail(...): the rejected submission of a row that is still live.
Failed(row) ==
  IF row # NoRow /\ row.status \notin Terminal
  THEN [row EXCEPT !.status = "failed", !.terminalAt = TRUE, !.kind = "rejected"]
  ELSE row

\* discard(...): only a row nothing has happened to is deleted.
Discarded(row) ==
  IF row # NoRow /\ row.status = "submitting" /\ ~row.hasId THEN NoRow ELSE row
==============================================================================
