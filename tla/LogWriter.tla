------------------------------ MODULE LogWriter -------------------------------
(***************************************************************************)
(* The request-log writer of one process: requests are recorded in bounded  *)
(* queues, and one flush at a time writes what it took, owner by owner: the  *)
(* log rows, the captured bodies that ride them, then the ledger rows of     *)
(* superseded cascade calls, then the counts of dropped bodies.  Every       *)
(* database call is one action, fails or times out, and one that timed out   *)
(* may still land.  The owner may purge bodies at any moment.                *)
(***************************************************************************)
EXTENDS Integers, SequencesExt, FiniteSetsExt

CONSTANTS
  Logs,         \* the requests, each with its log row
  Owners,
  OwnerOf,      \* OwnerOf[l]: whose request l is
  Cascaded,     \* the requests with a superseded cheap call to ledger
  Sizes,        \* Sizes[l]: the sizes of the bodies captured of l, in order
  MaxQueue, MaxRetries,
  QueueBudget,  \* the bytes of bodies the writer may hold
  BatchBudget,  \* the bytes of bodies one insert may carry
  MaxFaults,    \* bound on failing and timed-out database calls
  MaxPurges     \* bound on an owner's purges and deletions of bodies

ASSUME LogWriterAssumption ==
  /\ IsFiniteSet(Logs) /\ OwnerOf \in [Logs -> Owners]
  /\ Cascaded \subseteq Logs
  /\ Sizes \in [Logs -> Seq(Nat \ {0})]
  /\ MaxQueue \in Nat \ {0} /\ MaxRetries \in Nat
  /\ QueueBudget \in Nat /\ BatchBudget \in Nat
  /\ MaxFaults \in Nat /\ MaxPurges \in Nat

VARIABLES
  phase,      \* phase[l]: "new", "open" once its bodies are captured, "recorded"
  born,       \* born[l]: the owner's capture epoch the request was captured in
  queue,      \* the log drafts
  attempts,   \* the drafts of the ledger rows, named by their requests
  carried,    \* the requests whose draft still carries its bodies
  bytes,      \* the byte ledger of the carried bodies
  drops,      \* drops[o]: dropped bodies not yet added to the visible counter
  flush,      \* the flush that is running
  dropped,    \* the metric of dropped rows
  costs,      \* costs[r]: how often the cost metric was emitted for row r
  table,      \* the rows in the database
  stored,     \* the bodies in the database
  shown,      \* shown[o]: the visible counter of dropped bodies
  epoch,      \* epoch[o]: the owner's capture epoch
  tombs,      \* the requests whose bodies were deleted
  late,       \* timed-out database calls that may still land
  faults,     \* database calls that failed or timed out
  server,     \* "up", "draining", "down"
  saved,      \* the bodies whose insert was acknowledged
  forfeited   \* forfeited[o]: counts that were only logged

memory == <<phase, born, queue, attempts, carried, bytes>>
tallies == <<drops, dropped, costs, saved, forfeited>>
database == <<table, stored, shown, epoch, tombs>>
vars == <<memory, tallies, database, flush, late, faults, server>>

\* A row of a request: its log, or the ledger entry of its cheap call.
Log(l) == <<l, "log">>
Attempt(l) == <<l, "attempt">>
Rows == {Log(l) : l \in Logs} \cup {Attempt(l) : l \in Cascaded}

BodiesOf(l) == {<<l, i>> : i \in DOMAIN Sizes[l]}
Bodies == UNION {BodiesOf(l) : l \in Logs}
BodyBytes == [l \in Logs |-> FoldSeq(+, 0, Sizes[l])]
BytesOf(S) == MapThenSumSet(LAMBDA l : BodyBytes[l], S)
CountOf(S, o) == Cardinality({b \in UNION {BodiesOf(l) : l \in S} : OwnerOf[b[1]] = o})

Idle == [step |-> "idle", todo |-> <<>>, later |-> <<>>, written |-> {}, tries |-> 0,
         refs |-> <<>>, owners |-> {}]

Init ==
  /\ phase = [l \in Logs |-> "new"] /\ born = [l \in Logs |-> 0]
  /\ queue = <<>> /\ attempts = <<>> /\ carried = {} /\ bytes = 0
  /\ drops = [o \in Owners |-> 0] /\ forfeited = [o \in Owners |-> 0]
  /\ flush = Idle
  /\ dropped = 0 /\ costs = [r \in Rows |-> 0] /\ saved = {}
  /\ table = {} /\ stored = {} /\ tombs = {}
  /\ shown = [o \in Owners |-> 0] /\ epoch = [o \in Owners |-> 0]
  /\ late = {} /\ faults = 0 /\ server = "up"
-----------------------------------------------------------------------------
(* The recorder.                                                           *)

\* The bodies of a request are captured under the epoch of that moment.
Capture(l) ==
  /\ phase[l] = "new" /\ server # "down"
  /\ phase' = [phase EXCEPT ![l] = "open"]
  /\ born' = [born EXCEPT ![l] = epoch[OwnerOf[l]]]
  /\ UNCHANGED <<queue, attempts, carried, bytes, tallies, database, flush, late, faults,
                 server>>

\* drops after the bodies of the requests in S were stripped and counted.
Stripped(S) == [o \in Owners |-> drops[o] + CountOf(S \cap carried, o)]

\* The queued drafts, oldest first, that give their bodies up for `incoming` bytes.
Evictable(q, held, incoming) ==
  LET after(k) == held - BytesOf({q[i] : i \in 1 .. k} \cap carried) + incoming
      enough   == {k \in 0 .. Len(q) : after(k) <= QueueBudget}
  IN  {q[i] : i \in 1 .. (IF enough = {} THEN Len(q) ELSE Min(enough))}

\* What is still held, an in-flight batch's bodies with it, may not leave room.
Admitted(held, incoming) == held + incoming <= QueueBudget

\* enqueue(l), and enqueueAttempt(l) in the same tick: the oldest draft is evicted
\* from a full queue, then the oldest bodies to make room for the new ones.
Record(l) ==
  LET full     == Len(queue) >= MaxQueue
      q        == IF full THEN Tail(queue) ELSE queue
      evicted  == IF full THEN {Head(queue)} ELSE {}
      incoming == BytesOf({l})
      held     == bytes - BytesOf(evicted \cap carried)
      gone     == IF incoming > QueueBudget \/ Sizes[l] = <<>> THEN {}
                  ELSE Evictable(q, held, incoming)
      left     == held - BytesOf(gone \cap carried)
      admitted == Sizes[l] # <<>> /\ Admitted(left, incoming)
      over     == l \in Cascaded /\ Len(attempts) >= MaxQueue
  IN
  /\ phase[l] = "open"
  /\ server # "down" /\ flush.step # "last"   \* the drain waits for no one after its loop
  /\ phase' = [phase EXCEPT ![l] = "recorded"]
  /\ queue' = Append(q, l)
  /\ attempts' = IF l \notin Cascaded THEN attempts
                 ELSE Append(IF over THEN Tail(attempts) ELSE attempts, l)
  /\ carried' = (carried \ (evicted \cup gone)) \cup (IF admitted THEN {l} ELSE {})
  /\ bytes' = IF admitted THEN left + incoming ELSE left
  /\ drops' = [o \in Owners |-> Stripped(evicted \cup gone)[o]
                                + (IF admitted THEN 0 ELSE CountOf({l}, o))]
  /\ dropped' = dropped + Cardinality(evicted) + (IF over THEN 1 ELSE 0)
  /\ UNCHANGED <<born, costs, saved, forfeited, database, flush, late, faults, server>>
-----------------------------------------------------------------------------
(* The flush: started by the timer, by a full batch, or by the drain.       *)

Queued == queue # <<>> \/ attempts # <<>>
Pending == {o \in Owners : drops[o] > 0}

\* Mutant: the ledger drafts are taken when the logs have been written.
TakenLogsOnly == [Idle EXCEPT !.step = "logs", !.todo = queue]

\* Both queues are taken before any await.
Taken == [Idle EXCEPT !.step = "logs", !.todo = queue, !.later = attempts]

Flush ==
  /\ flush.step = "idle" /\ server # "down"
  /\ Queued \/ (server = "up" /\ Pending # {})
  /\ flush' = Taken
  /\ queue' = <<>> /\ attempts' = SubSeq(attempts, Len(flush'.later) + 1, Len(attempts))
  /\ UNCHANGED <<phase, born, carried, bytes, tallies, database, late, faults, server>>

\* Those of the drafts that are in S, in their order.
Only(drafts, S) ==
  LET only[n \in 0 .. Len(drafts)] ==
        IF n = 0 THEN <<>>
        ELSE IF drafts[n] \in S THEN Append(only[n - 1], drafts[n]) ELSE only[n - 1]
  IN  only[Len(drafts)]

DraftsOf(o) == {l \in Logs : OwnerOf[l] = o}

\* The drafts of the first owner, which one insert writes, and the others.
Group(todo) == Only(todo, DraftsOf(OwnerOf[Head(todo)]))
Others(todo) == Only(todo, Logs \ DraftsOf(OwnerOf[Head(todo)]))

RowsOf(group) ==
  {IF flush.step = "logs" THEN Log(l) ELSE Attempt(l) : l \in ToSet(group)}

\* The database takes the rows: a ledger row needs its log row.
Accepts(rows) == \A r \in rows : r[2] = "attempt" => Log(r[1]) \in table

Writing == flush.step \in {"logs", "attempts"} /\ flush.todo # <<>>

\* A cost is emitted for every row, once its insert was acknowledged.
Emitted(rows) == [r \in Rows |-> IF r \in rows THEN costs[r] + 1 ELSE costs[r]]

\* The bodies of the group's drafts, draft after draft.
RefsOf(group) ==
  FlattenSeq([n \in DOMAIN group |->
    IF group[n] \in carried THEN [i \in DOMAIN Sizes[group[n]] |-> <<group[n], i>>] ELSE <<>>])

\* writeGroup and writeAttemptGroup: the insert is acknowledged.
Write ==
  LET group == Group(flush.todo) IN
  /\ Writing /\ Accepts(RowsOf(group))
  /\ table' = table \cup RowsOf(group)
  /\ costs' = Emitted(RowsOf(group))
  /\ flush' = [flush EXCEPT !.todo = Others(@), !.tries = 0,
                 !.step = IF @ = "logs" THEN "bodies" ELSE @,
                 !.refs = IF flush.step = "logs" THEN RefsOf(group) ELSE <<>>,
                 !.written = IF flush.step = "logs" THEN @ \cup ToSet(group) ELSE @]
  /\ UNCHANGED <<memory, drops, dropped, saved, forfeited, stored, shown, epoch, tombs,
                 late, faults, server>>

\* Mutant: a group that is given up is not counted.
RetryOrGiveUpSilently(group) ==
  IF flush.tries < MaxRetries
  THEN flush' = [flush EXCEPT !.tries = @ + 1] /\ UNCHANGED <<carried, bytes, drops, dropped>>
  ELSE /\ flush' = [flush EXCEPT !.todo = Others(@), !.tries = 0]
       /\ UNCHANGED <<carried, bytes, drops, dropped>>

\* The group is tried again, or dropped with its bodies and counted.
RetryOrGiveUp(group) ==
  LET gone == IF flush.step = "logs" THEN ToSet(group) \cap carried ELSE {} IN
  IF flush.tries < MaxRetries
  THEN flush' = [flush EXCEPT !.tries = @ + 1] /\ UNCHANGED <<carried, bytes, drops, dropped>>
  ELSE /\ flush' = [flush EXCEPT !.todo = Others(@), !.tries = 0]
       /\ carried' = carried \ gone
       /\ bytes' = bytes - BytesOf(gone)
       /\ drops' = Stripped(gone)
       /\ dropped' = dropped + Len(group)

\* A call that failed or timed out is out there: it lands later, or never.
Landing(kind, rows) == late' = late \cup {<<faults, kind, rows>>}

Fault == faults < MaxFaults /\ faults' = faults + 1

\* A price lookup or the insert fails or times out, or the insert meets a ledger
\* row without its log row.
WriteFails ==
  LET group == Group(flush.todo) IN
  /\ Writing
  /\ IF Accepts(RowsOf(group)) THEN Fault /\ Landing("rows", RowsOf(group))
     ELSE UNCHANGED <<late, faults>>
  /\ RetryOrGiveUp(group)
  /\ UNCHANGED <<phase, born, queue, attempts, costs, saved, forfeited, database, server>>

\* A ledger row is inserted only when its log row was written in this flush.
WithParent(todo) == Only(todo, flush.written)

EndLogs ==
  LET kept == WithParent(flush.later) IN
  /\ flush.step = "logs" /\ flush.todo = <<>>
  /\ flush' = [flush EXCEPT !.step = "attempts", !.todo = kept, !.later = <<>>,
                          !.written = {}]
  /\ dropped' = dropped + (Len(flush.later) - Len(kept))
  /\ UNCHANGED <<memory, drops, costs, saved, forfeited, database, late, faults, server>>

EndAttempts ==
  /\ flush.step = "attempts" /\ flush.todo = <<>>
  /\ flush' = [Idle EXCEPT !.step = "counts", !.owners = Pending]
  /\ UNCHANGED <<memory, tallies, database, late, faults, server>>
-----------------------------------------------------------------------------
(* flushBodies: the bodies of the group just written, a chunk at a time.    *)

ToBytes(refs) == FoldSeq(LAMBDA b, n : n + Sizes[b[1]][b[2]], 0, refs)

\* As many as fit one insert, and at least one.
Chunk(refs) ==
  LET fits == {k \in 1 .. Len(refs) : ToBytes(SubSeq(refs, 1, k)) <= BatchBudget} IN
  SubSeq(refs, 1, Max(fits \cup {1}))

\* Mutant: the insert does not look at the owner's epoch again.
LiveAnyEpoch(b) == Log(b[1]) \in table /\ b[1] \notin tombs

\* Under the lock of the owner's settings the insert takes the bodies that were
\* neither purged since their capture nor deleted, and whose log row exists.
Live(b) ==
  /\ born[b[1]] = epoch[OwnerOf[b[1]]]
  /\ b[1] \notin tombs
  /\ Log(b[1]) \in table

\* The insert is acknowledged: what it discarded is counted, and the drafts it
\* has finished let go of their bodies.
WriteBodies ==
  LET chunk == Chunk(flush.refs)
      rest  == SubSeq(flush.refs, Len(chunk) + 1, Len(flush.refs))
      done  == {b[1] : b \in ToSet(chunk)} \ {b[1] : b \in ToSet(rest)}
      taken == {b \in ToSet(chunk) : Live(b)}
      owner == OwnerOf[chunk[1][1]]
  IN
  /\ flush.step = "bodies" /\ flush.refs # <<>>
  /\ stored' = stored \cup taken
  /\ saved' = saved \cup taken
  /\ drops' = [drops EXCEPT ![owner] = @ + Len(chunk) - Cardinality(taken)]
  /\ carried' = carried \ done
  /\ bytes' = bytes - BytesOf(done)
  /\ flush' = [flush EXCEPT !.refs = rest]
  /\ UNCHANGED <<phase, born, queue, attempts, dropped, costs, forfeited, table, shown,
                 epoch, tombs, late, faults, server>>

\* Mutant: only the chunk that failed is counted.
UnsettledChunk(refs) == Chunk(refs)

\* The bodies no insert of this flush has settled.
Unsettled(refs) == refs

\* A failed or timed-out insert ends the bodies of the group, not its log rows.
BodiesFail ==
  LET gone  == {b[1] : b \in ToSet(flush.refs)}
      owner == OwnerOf[flush.refs[1][1]]
  IN
  /\ flush.step = "bodies" /\ flush.refs # <<>>
  /\ Fault /\ Landing("bodies", ToSet(Chunk(flush.refs)))
  /\ drops' = [drops EXCEPT ![owner] = @ + Len(Unsettled(flush.refs))]
  /\ carried' = carried \ gone
  /\ bytes' = bytes - BytesOf(gone)
  /\ flush' = [flush EXCEPT !.refs = <<>>]
  /\ UNCHANGED <<phase, born, queue, attempts, dropped, costs, saved, forfeited, database,
                 server>>

EndBodies ==
  /\ flush.step = "bodies" /\ flush.refs = <<>>
  /\ flush' = [flush EXCEPT !.step = "logs"]
  /\ UNCHANGED <<memory, tallies, database, late, faults, server>>
-----------------------------------------------------------------------------
(* flushBodyDropCounts, at the end of a flush and of the drain.             *)

Counting(o) == flush.step \in {"counts", "last"} /\ o \in flush.owners

\* The count has left the map before the call, and is not tried again.
GivenUp(o) ==
  /\ drops' = [drops EXCEPT ![o] = 0]
  /\ forfeited' = [forfeited EXCEPT ![o] = @ + drops[o]]

AddCount(o) ==
  /\ Counting(o)
  /\ shown' = [shown EXCEPT ![o] = @ + drops[o]]
  /\ drops' = [drops EXCEPT ![o] = 0]
  /\ flush' = [flush EXCEPT !.owners = @ \ {o}]
  /\ UNCHANGED <<memory, dropped, costs, saved, forfeited, table, stored, epoch, tombs,
                 late, faults, server>>

CountFails(o) ==
  /\ Counting(o)
  /\ Fault /\ Landing("count", {<<o, drops[o]>>})
  /\ GivenUp(o)
  /\ flush' = [flush EXCEPT !.owners = {}]
  /\ UNCHANGED <<memory, dropped, costs, saved, database, server>>

EndCounts ==
  /\ flush.step = "counts" /\ flush.owners = {}
  /\ flush' = Idle
  /\ UNCHANGED <<memory, tallies, database, late, faults, server>>
-----------------------------------------------------------------------------
(* Shutdown, the database's late calls, and the owner.                      *)

\* The timer is stopped.  The server has stopped listening, but recordings of
\* requests that are ending still come in.
Shutdown ==
  /\ server = "up"
  /\ server' = "draining"
  /\ UNCHANGED <<memory, tallies, database, flush, late, faults>>

\* Mutant: the drain waits for the flush that is running, and for no other.
DrainedOnce ==
  /\ server = "draining" /\ flush.step = "idle"
  /\ flush' = [Idle EXCEPT !.step = "last", !.owners = Pending]
  /\ UNCHANGED <<memory, tallies, database, late, faults, server>>

\* The drain's loop ends; the pending counts get one more attempt.
Drained ==
  /\ server = "draining" /\ flush.step = "idle" /\ ~Queued
  /\ flush' = [Idle EXCEPT !.step = "last", !.owners = Pending]
  /\ UNCHANGED <<memory, tallies, database, late, faults, server>>

Exit ==
  /\ flush.step = "last" /\ flush.owners = {}
  /\ server' = "down" /\ flush' = Idle
  /\ UNCHANGED <<memory, tallies, database, late, faults>>

\* A timed-out call lands: it decides by what is in the database now.
LandRows(rows) ==
  /\ table' = IF Accepts(rows) THEN table \cup rows ELSE table
  /\ UNCHANGED <<stored, shown, forfeited>>

LandBodies(bodies) ==
  /\ stored' = stored \cup {b \in bodies : Live(b)}
  /\ UNCHANGED <<table, shown, forfeited>>

LandCount(o, n) ==
  /\ shown' = [shown EXCEPT ![o] = @ + n]
  /\ forfeited' = [forfeited EXCEPT ![o] = @ - n]
  /\ UNCHANGED <<table, stored>>

Land(call) ==
  /\ late' = late \ {call}
  /\ \/ call[2] = "rows" /\ LandRows(call[3])
     \/ call[2] = "bodies" /\ LandBodies(call[3])
     \/ call[2] = "count" /\ \E c \in call[3] : LandCount(c[1], c[2])
  /\ UNCHANGED <<memory, drops, dropped, costs, saved, epoch, tombs, flush, faults, server>>

Purges(o) == epoch[o] + Cardinality({l \in tombs : OwnerOf[l] = o})

\* Capture was ever switched on for the owner: there is a settings row.
Armed(o) == \E l \in Logs : OwnerOf[l] = o /\ Sizes[l] # <<>>

\* The owner purges every body: the epoch revokes the drafts under way.
PurgeAll(o) ==
  /\ Armed(o)
  /\ Purges(o) < MaxPurges
  /\ epoch' = [epoch EXCEPT ![o] = @ + 1]
  /\ stored' = {b \in stored : OwnerOf[b[1]] # o}
  /\ UNCHANGED <<memory, tallies, table, shown, tombs, flush, late, faults, server>>

\* The owner deletes the bodies of one request, whose log row exists.
DeleteForRequest(l) ==
  /\ Log(l) \in table /\ l \notin tombs
  /\ Purges(OwnerOf[l]) < MaxPurges
  /\ tombs' = tombs \cup {l}
  /\ stored' = stored \ BodiesOf(l)
  /\ UNCHANGED <<memory, tallies, table, shown, epoch, flush, late, faults, server>>

Work ==
  \/ Write \/ WriteFails \/ EndLogs \/ EndAttempts
  \/ WriteBodies \/ BodiesFail \/ EndBodies
  \/ \E o \in Owners : AddCount(o) \/ CountFails(o)
  \/ EndCounts \/ Drained \/ Exit

Next ==
  \/ \E l \in Logs : Capture(l) \/ Record(l) \/ DeleteForRequest(l)
  \/ \E o \in Owners : PurgeAll(o)
  \/ Flush \/ Work \/ Shutdown
  \/ \E call \in late : Land(call)

Spec == Init /\ [][Next]_vars

\* The timer fires and the drain loops; every call of the writer is bounded by a
\* timeout and every wait between retries ends.
FairSpec == Spec /\ WF_vars(Flush) /\ WF_vars(Work)
-----------------------------------------------------------------------------
(* Properties.                                                             *)

TypeOK ==
  /\ phase \in [Logs -> {"new", "open", "recorded"}]
  /\ born \in [Logs -> 0 .. MaxPurges]
  /\ queue \in Seq(Logs) /\ attempts \in Seq(Cascaded)
  /\ carried \subseteq Logs /\ bytes \in Nat
  /\ drops \in [Owners -> Nat] /\ forfeited \in [Owners -> Nat]
  /\ flush.step \in {"idle", "logs", "bodies", "attempts", "counts", "last"}
  /\ flush.todo \in Seq(Logs) /\ flush.later \in Seq(Cascaded)
  /\ flush.written \subseteq Logs /\ flush.owners \subseteq Owners
  /\ flush.tries \in 0 .. MaxRetries /\ flush.refs \in Seq(Bodies)
  /\ dropped \in Nat /\ costs \in [Rows -> Nat]
  /\ table \subseteq Rows /\ stored \subseteq Bodies /\ saved \subseteq Bodies
  /\ shown \in [Owners -> Nat] /\ epoch \in [Owners -> 0 .. MaxPurges]
  /\ tombs \subseteq Logs /\ faults \in 0 .. MaxFaults
  /\ server \in {"up", "draining", "down"}

Recorded == {l \in Logs : phase[l] = "recorded"}

WaitingLogs ==
  ToSet(queue) \cup (IF flush.step \in {"logs", "bodies"} THEN ToSet(flush.todo) ELSE {})

WaitingAttempts ==
  ToSet(attempts) \cup ToSet(flush.later)
  \cup (IF flush.step = "attempts" THEN ToSet(flush.todo) ELSE {})

\* No row vanishes silently: every row that was recorded is waiting, or its insert
\* was acknowledged and its cost emitted once, or it is counted as dropped
\* (LogWriter: "overflow / past-budget drops are counted and logged, never silent").
NothingIsSilent ==
  /\ \A r \in Rows : costs[r] <= 1 /\ (costs[r] = 1 => r \in table)
  /\ Cardinality(Recorded) + Cardinality(Recorded \cap Cascaded) =
       Cardinality(WaitingLogs) + Cardinality(WaitingAttempts)
       + Cardinality({r \in Rows : costs[r] = 1}) + dropped

\* An attempt goes the way of its log row.  One whose log row was written is never
\* stranded in a later flush, to be dropped there as an orphan, and no group of
\* ledger rows is poisoned by an orphan among them (enqueue, flushOnce, A-14).
AttemptsFollowTheirLog ==
  /\ \A l \in ToSet(attempts) : costs[Log(l)] = 0
  /\ \A l \in ToSet(flush.later) : costs[Log(l)] = 1 => l \in flush.written
  /\ flush.step = "attempts" => \A l \in ToSet(flush.todo) : Log(l) \in table

\* The bodies of o that the writer still holds and has not written.
HeldBodies(o) ==
  LET writing == IF flush.step = "bodies" THEN ToSet(flush.refs) ELSE {}
      drafts  == WaitingLogs \cap carried
  IN  CountOf(drafts, o) + Cardinality({b \in writing : OwnerOf[b[1]] = o})

\* The writer holds no more body bytes than its budget, and no body vanishes
\* uncounted or is counted twice, however eviction, chunks, failures and timed-out
\* counter updates interleave: recorded bodies are held, were saved, or are in
\* exactly one count (enqueue, stripBodies, flushBodies, flushBodyDropCounts).  A
\* count that lands late was given up before: none is ever paid for by another.
BodiesAreAccounted ==
  /\ bytes = BytesOf(carried) /\ bytes <= QueueBudget
  /\ \A o \in Owners :
       /\ {drops[o], shown[o], forfeited[o]} \subseteq Nat
       /\ CountOf(Recorded, o) = HeldBodies(o) + Cardinality({b \in saved : OwnerOf[b[1]] = o})
                                 + drops[o] + shown[o] + forfeited[o]

\* A body the owner has purged or deleted does not come back, from a queue, from
\* a retry or from an insert that timed out before (body-capture.queries.ts).
PurgedStaysPurged ==
  \A b \in stored : born[b[1]] = epoch[OwnerOf[b[1]]] /\ b[1] \notin tombs

\* Every recorded row gets its verdict whatever the database does, and the shutdown
\* drain ends with nothing left waiting (LogWriter.drain).
RowsAreSettled ==
  LET waiting == WaitingLogs \cup WaitingAttempts IN
  /\ []<>(waiting = {})
  /\ server = "draining" ~> server = "down" /\ waiting = {}
==============================================================================
