----------------------------- MODULE BudgetCache -----------------------------
(***************************************************************************)
(* The cache of one owner's budget rows in one instance: a single-flight    *)
(* load, a TTL, and a generation that an invalidation raises so that a load *)
(* begun before a write cannot serve or store the rows it replaced.  Rows   *)
(* are identified by the version of the table they show.                    *)
(***************************************************************************)
EXTENDS Integers

CONSTANTS
  Getters,    \* concurrent calls of get; a call that starts a load names it
  Writers,    \* concurrent CRUD calls on this instance
  MaxWrites,  \* bound on the versions of the table
  NoLoad      \* no load in flight

ASSUME CacheAssumption ==
  /\ MaxWrites \in Nat
  /\ NoLoad \notin Getters

VARIABLES
  db,           \* the version of the owner's rows
  entry,        \* the cache entry, or NoEntry
  generation,   \* the owner's load generation
  inflight,     \* the load that later calls may join, or NoLoad
  load,         \* the loads under way
  call,         \* the calls of get
  writer,       \* the version a CRUD call wrote and has not invalidated, or 0
  invalidated   \* history: the newest version whose invalidation has run

vars == <<db, entry, generation, inflight, load, call, writer, invalidated>>

Entries == [rows : Nat, fresh : BOOLEAN]
NoEntry == [rows |-> -1, fresh |-> FALSE]
Idle == [at |-> "none", gen |-> 0, rows |-> 0, hit |-> NoEntry]
Calls == [at : {"idle", "waiting", "served", "failed"}, on : Getters \cup {NoLoad},
          rows : Nat, since : Nat]

Init ==
  /\ db = 0
  /\ entry = NoEntry
  /\ generation = 0
  /\ inflight = NoLoad
  /\ load = [g \in Getters |-> Idle]
  /\ call = [g \in Getters |-> [at |-> "idle", on |-> NoLoad, rows |-> 0, since |-> 0]]
  /\ writer = [w \in Writers |-> 0]
  /\ invalidated = 0

\* `since` is history: the newest version invalidated when the call began.
Served(v, since) == [at |-> "served", on |-> NoLoad, rows |-> v, since |-> since]
Waiting(l) == [at |-> "waiting", on |-> l, rows |-> 0, since |-> invalidated]

Hit == entry # NoEntry /\ entry.fresh

Joinable == inflight # NoLoad /\ load[inflight].gen = generation

\* get: a fresh entry, a load of the current generation, or a load of its own.
Call(g) ==
  /\ call[g].at # "waiting"
  /\ \/ /\ Hit
        /\ call' = [call EXCEPT ![g] = Served(entry.rows, invalidated)]
        /\ UNCHANGED <<load, inflight>>
     \/ /\ ~ Hit /\ Joinable
        /\ call' = [call EXCEPT ![g] = Waiting(inflight)]
        /\ UNCHANGED <<load, inflight>>
     \/ /\ ~ Hit /\ ~ Joinable
        /\ load' = [load EXCEPT ![g] = [at |-> "started", gen |-> generation,
                                        rows |-> 0, hit |-> entry]]
        /\ inflight' = g
        /\ call' = [call EXCEPT ![g] = Waiting(g)]
  /\ UNCHANGED <<db, entry, generation, writer, invalidated>>

\* The database answers the load's query.
ReadRows(l) ==
  /\ load[l].at = "started"
  /\ load' = [load EXCEPT ![l].at = "read", ![l].rows = db]
  /\ UNCHANGED <<db, entry, generation, inflight, call, writer, invalidated>>

\* Everyone who waits on load l continues.
WaitsOn(g, l) == call[g].at = "waiting" /\ call[g].on = l
Deliver(l, at, v) ==
  call' = [g \in Getters |->
             IF WaitsOn(g, l)
             THEN [at |-> at, on |-> NoLoad, rows |-> v, since |-> call[g].since]
             ELSE call[g]]

\* Mutant: a load clears the in-flight entry whoever holds it.
ClearsAny(l) == inflight # NoLoad

\* finally: only an entry of the load's own generation is cleared.
Clears(l) == inflight # NoLoad /\ load[inflight].gen = load[l].gen
Ended(l) ==
  /\ inflight' = IF Clears(l) THEN NoLoad ELSE inflight
  /\ load' = [load EXCEPT ![l] = Idle]

\* Mutant: what was loaded is stored.
StoresAny(l) == TRUE

\* store: dropped when the generation has moved on.
Stores(l) == load[l].gen = generation

\* The load's promise is fulfilled: store, deliver, clear.
Resolve(l) ==
  /\ load[l].at = "read"
  /\ entry' = IF Stores(l) THEN [rows |-> load[l].rows, fresh |-> TRUE] ELSE entry
  /\ Deliver(l, "served", load[l].rows)
  /\ Ended(l)
  /\ UNCHANGED <<db, generation, writer, invalidated>>

\* It is rejected: the entry the starting call found, however old, is served;
\* without one the callers' fail mode applies.
ServesStale(l) == load[l].hit # NoEntry
Reject(l) ==
  /\ load[l].at # "none"
  /\ \/ ServesStale(l) /\ Deliver(l, "served", load[l].hit.rows)
     \/ ~ ServesStale(l) /\ Deliver(l, "failed", 0)
  /\ Ended(l)
  /\ UNCHANGED <<db, entry, generation, writer, invalidated>>

\* CRUD: the row is written, then the cache invalidated.
WriteRow(w) ==
  /\ writer[w] = 0 /\ db < MaxWrites
  /\ db' = db + 1
  /\ writer' = [writer EXCEPT ![w] = db + 1]
  /\ UNCHANGED <<entry, generation, inflight, load, call, invalidated>>

NextGeneration(n) == n + 1
Invalidate(w) ==
  /\ writer[w] # 0
  /\ entry' = NoEntry
  /\ generation' = NextGeneration(generation)
  /\ invalidated' = IF writer[w] > invalidated THEN writer[w] ELSE invalidated
  /\ writer' = [writer EXCEPT ![w] = 0]
  /\ UNCHANGED <<db, inflight, load, call>>

\* A write through another instance, or a CRUD call that dies before it
\* invalidates, reaches this cache by its TTL only.
WriteElsewhere ==
  /\ db < MaxWrites
  /\ db' = db + 1
  /\ UNCHANGED <<entry, generation, inflight, load, call, writer, invalidated>>

\* The TTL passes; the owner is the least recently used beyond the cap.
Expire ==
  /\ entry # NoEntry
  /\ entry' = [entry EXCEPT !.fresh = FALSE]
  /\ UNCHANGED <<db, generation, inflight, load, call, writer, invalidated>>
Evict ==
  /\ entry # NoEntry
  /\ entry' = NoEntry
  /\ UNCHANGED <<db, generation, inflight, load, call, writer, invalidated>>

Next ==
  \/ \E g \in Getters : Call(g) \/ ReadRows(g) \/ Resolve(g) \/ Reject(g)
  \/ \E w \in Writers : WriteRow(w) \/ Invalidate(w)
  \/ WriteElsewhere \/ Expire \/ Evict

Spec == Init /\ [][Next]_vars

-----------------------------------------------------------------------------
(* Properties. *)

\* Types of the variables.
TypeOK ==
  /\ db \in Nat /\ generation \in Nat /\ invalidated \in Nat
  /\ entry \in Entries \cup {NoEntry}
  /\ inflight \in Getters \cup {NoLoad}
  /\ load \in [Getters -> [at : {"none", "started", "read"}, gen : Nat, rows : Nat,
                           hit : Entries \cup {NoEntry}]]
  /\ call \in [Getters -> Calls]
  /\ writer \in [Writers -> Nat]

\* A call that begins after a write was invalidated never gets the rows the
\* write replaced: not from the entry, not from a load it joins, and not from
\* a failed refresh.
ReadsWhatWasInvalidated ==
  \A g \in Getters : call[g].at = "served" => call[g].rows >= call[g].since

\* Two loads of one generation are never in flight together.
SingleFlight ==
  \A l, m \in Getters :
    (load[l].at # "none" /\ load[m].at # "none" /\ load[l].gen = load[m].gen) => l = m
==============================================================================
