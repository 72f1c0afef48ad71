-------------------------- MODULE BudgetCacheProofs --------------------------
(***************************************************************************)
(* Proofs about BudgetCache for any number of calls and writers.            *)
(*                                                                         *)
(* The argument: what a load of the current generation has read, and the    *)
(* entry it may fall back on, is as new as the newest invalidation          *)
(* (LoadsCurrent), because an invalidation makes every load under way one   *)
(* of an older generation.  A call joins loads of the current generation    *)
(* only, so what it waits for covers the invalidations before it began      *)
(* (WaitersCovered).  A load of the current generation is the one that      *)
(* later calls join (Joined), so a second is not started.                   *)
(***************************************************************************)
EXTENDS BudgetCache, TLAPS

Versions == invalidated <= db /\ \A w \in Writers : writer[w] <= db

EntryCurrent == entry # NoEntry => entry.rows >= invalidated

LoadsCurrent ==
  \A l \in Getters : load[l].at # "none" =>
    /\ load[l].gen <= generation
    /\ load[l].gen = generation =>
         /\ load[l].at = "read" => load[l].rows >= invalidated
         /\ load[l].hit # NoEntry => load[l].hit.rows >= invalidated

\* A load under way is waited for by the call that started it.
Owned == \A l \in Getters : load[l].at # "none" => WaitsOn(l, l)

WaitersCovered ==
  \A g \in Getters : call[g].at = "waiting" =>
    /\ call[g].on \in Getters
    /\ load[call[g].on].at # "none"
    /\ call[g].since <= invalidated
    /\ load[call[g].on].at = "read" => load[call[g].on].rows >= call[g].since
    /\ load[call[g].on].hit # NoEntry => load[call[g].on].hit.rows >= call[g].since

Joined ==
  /\ inflight # NoLoad => load[inflight].at # "none"
  /\ \A l \in Getters : load[l].at # "none" /\ load[l].gen = generation => inflight = l

IInv == /\ TypeOK /\ Versions /\ EntryCurrent /\ LoadsCurrent /\ Owned /\ WaitersCovered
        /\ Joined /\ SingleFlight /\ ReadsWhatWasInvalidated
-----------------------------------------------------------------------------
(* Initial states. *)

LEMMA InitIInv == Init => IInv
BY CacheAssumption DEF Init, IInv, TypeOK, Versions, EntryCurrent, LoadsCurrent, Owned,
   WaitersCovered, Joined, SingleFlight, ReadsWhatWasInvalidated, Idle, Calls, Entries,
   NoEntry, WaitsOn

-----------------------------------------------------------------------------
(* The steps. *)

USE DEF Calls, Entries

LEMMA CallKeeps == ASSUME IInv, NEW g \in Getters, Call(g) PROVE IInv'
<1> USE DEF IInv, Call
<1>u. UNCHANGED <<db, entry, generation, writer, invalidated>>
  OBVIOUS
<1>1. CASE Hit /\ call' = [call EXCEPT ![g] = Served(entry.rows, invalidated)]
           /\ UNCHANGED <<load, inflight>>
  <2>1. TypeOK'
    BY <1>1, <1>u DEF TypeOK, Hit, Served
  <2>2. WaitersCovered' /\ Owned'
    BY <1>1, <1>u DEF TypeOK, WaitersCovered, Owned, WaitsOn, Served
  <2>3. ReadsWhatWasInvalidated'
    BY <1>1, <1>u DEF TypeOK, ReadsWhatWasInvalidated, EntryCurrent, Hit, Served
  <2>4. Versions' /\ EntryCurrent' /\ LoadsCurrent' /\ Joined' /\ SingleFlight'
    BY <1>1, <1>u DEF Versions, EntryCurrent, LoadsCurrent, Joined, SingleFlight
  <2>5. QED BY <2>1, <2>2, <2>3, <2>4
<1>2. CASE Joinable /\ call' = [call EXCEPT ![g] = Waiting(inflight)]
           /\ UNCHANGED <<load, inflight>>
  <2>1. TypeOK'
    BY <1>2, <1>u DEF TypeOK, Joinable, Waiting
  <2>2. load[g].at = "none"
    BY DEF Owned, WaitsOn
  <2>3. Owned'
    BY <1>2, <1>u, <2>2 DEF TypeOK, Owned, WaitsOn, Waiting
  <2>4. WaitersCovered'
    <3>1. /\ inflight \in Getters /\ load[inflight].at # "none"
          /\ load[inflight].gen = generation
      BY <1>2 DEF TypeOK, Joinable, Joined
    <3>2. /\ load[inflight].at = "read" => load[inflight].rows >= invalidated
          /\ load[inflight].hit # NoEntry => load[inflight].hit.rows >= invalidated
      BY <3>1 DEF LoadsCurrent
    <3>3. QED BY <1>2, <1>u, <3>1, <3>2 DEF TypeOK, WaitersCovered, Waiting
  <2>5. ReadsWhatWasInvalidated'
    BY <1>2, <1>u DEF TypeOK, ReadsWhatWasInvalidated, Waiting
  <2>6. Versions' /\ EntryCurrent' /\ LoadsCurrent' /\ Joined' /\ SingleFlight'
    BY <1>2, <1>u DEF Versions, EntryCurrent, LoadsCurrent, Joined, SingleFlight
  <2>7. QED BY <2>1, <2>3, <2>4, <2>5, <2>6
<1>3. CASE ~ Joinable /\ inflight' = g /\ call' = [call EXCEPT ![g] = Waiting(g)]
           /\ load' = [load EXCEPT ![g] = [at |-> "started", gen |-> generation,
                                           rows |-> 0, hit |-> entry]]
  <2>1. TypeOK'
    BY <1>3, <1>u DEF TypeOK, Waiting
  <2>2. \A l \in Getters : load[l].at # "none" => load[l].gen # generation
    BY <1>3, CacheAssumption DEF Joined, Joinable
  <2>3. load[g].at = "none"
    BY DEF Owned, WaitsOn
  <2>4. LoadsCurrent'
    BY <1>3, <1>u DEF TypeOK, LoadsCurrent, EntryCurrent
  <2>5. Owned' /\ Joined' /\ SingleFlight'
    BY <1>3, <1>u, <2>2 DEF TypeOK, Owned, WaitsOn, Waiting, Joined, SingleFlight
  <2>6. WaitersCovered'
    <3> SUFFICES ASSUME NEW h \in Getters, call'[h].at = "waiting"
                 PROVE  /\ call'[h].on \in Getters
                        /\ load'[call'[h].on].at # "none"
                        /\ call'[h].since <= invalidated
                        /\ load'[call'[h].on].at = "read" =>
                              load'[call'[h].on].rows >= call'[h].since
                        /\ load'[call'[h].on].hit # NoEntry =>
                              load'[call'[h].on].hit.rows >= call'[h].since
      BY <1>u DEF WaitersCovered
    <3>1. CASE h = g
      BY <1>3, <3>1 DEF TypeOK, EntryCurrent, Waiting
    <3>2. CASE h # g
      <4>1. call'[h] = call[h] /\ call[h].on # g
        BY <1>3, <2>3, <3>2 DEF TypeOK, WaitersCovered
      <4>2. load'[call[h].on] = load[call[h].on]
        BY <1>3, <4>1 DEF TypeOK, WaitersCovered
      <4>3. QED BY <4>1, <4>2 DEF WaitersCovered
    <3>3. QED BY <3>1, <3>2
  <2>7. ReadsWhatWasInvalidated'
    BY <1>3, <1>u DEF TypeOK, ReadsWhatWasInvalidated, Waiting
  <2>8. Versions' /\ EntryCurrent'
    BY <1>u DEF Versions, EntryCurrent
  <2>9. QED BY <2>1, <2>4, <2>5, <2>6, <2>7, <2>8
<1>4. QED BY <1>1, <1>2, <1>3

LEMMA ReadKeeps == ASSUME IInv, NEW l \in Getters, ReadRows(l) PROVE IInv'
<1> DEFINE Loads == [at : {"none", "started", "read"}, gen : Nat, rows : Nat,
                     hit : Entries \cup {NoEntry}]
<1>1. load \in [Getters -> Loads] /\ db \in Nat /\ invalidated <= db /\ invalidated \in Nat
  BY DEF IInv, TypeOK, Versions
<1>2. /\ load[l].at = "started"
      /\ UNCHANGED <<db, entry, generation, inflight, call, writer, invalidated>>
  BY DEF ReadRows
<1>3. load'[l] = [load[l] EXCEPT !.at = "read", !.rows = db] /\ load' \in [Getters -> Loads]
  <2>1. [load[l] EXCEPT !.at = "read", !.rows = db] \in Loads
    BY <1>1
  <2> HIDE DEF Loads
  <2> QED  BY <1>1, <2>1 DEF ReadRows
<1>4. \A m \in Getters \ {l} : load'[m] = load[m]
  BY <1>1 DEF ReadRows
<1>5. /\ load'[l].at = "read" /\ load'[l].rows = db
      /\ load'[l].gen = load[l].gen /\ load'[l].hit = load[l].hit
  BY <1>1, <1>3
<1>6. TypeOK'
  BY <1>2, <1>3 DEF IInv, TypeOK
<1>7. LoadsCurrent'
  <2>1. LoadsCurrent
    BY DEF IInv
  <2> SUFFICES ASSUME NEW m \in Getters, load'[m].at # "none"
               PROVE  /\ load'[m].gen <= generation
                      /\ load'[m].gen = generation =>
                           /\ load'[m].at = "read" => load'[m].rows >= invalidated
                           /\ load'[m].hit # NoEntry => load'[m].hit.rows >= invalidated
    BY <1>2 DEF LoadsCurrent
  <2>2. CASE m = l
    BY <1>1, <1>2, <1>5, <2>1, <2>2 DEF LoadsCurrent
  <2>3. CASE m # l
    BY <1>4, <2>1, <2>3 DEF LoadsCurrent
  <2> QED  BY <2>2, <2>3
<1>8. \A m \in Getters : /\ load'[m].at # "none" <=> load[m].at # "none"
                         /\ load'[m].gen = load[m].gen
  BY <1>2, <1>4, <1>5
<1>9. Owned'
  BY <1>2, <1>8 DEF IInv, Owned, WaitsOn
<1>10. Joined'
  BY <1>2, <1>8 DEF IInv, Joined, TypeOK
<1>11. SingleFlight'
  BY <1>8 DEF IInv, SingleFlight
<1>12. WaitersCovered'
  <2>1. WaitersCovered
    BY DEF IInv
  <2> SUFFICES ASSUME NEW g \in Getters, call[g].at = "waiting"
               PROVE  LET m == call[g].on IN
                      /\ m \in Getters
                      /\ load'[m].at # "none"
                      /\ call[g].since <= invalidated
                      /\ load'[m].at = "read" => load'[m].rows >= call[g].since
                      /\ load'[m].hit # NoEntry => load'[m].hit.rows >= call[g].since
    BY <1>2 DEF WaitersCovered
  <2>2. call[g].since \in Nat
    BY DEF IInv, TypeOK
  <2>3. CASE call[g].on = l
    BY <1>1, <1>2, <1>5, <2>1, <2>2, <2>3 DEF WaitersCovered
  <2>4. CASE call[g].on # l
    BY <1>4, <2>1, <2>4 DEF WaitersCovered
  <2> QED  BY <2>3, <2>4
<1>13. Versions' /\ EntryCurrent' /\ ReadsWhatWasInvalidated'
  BY <1>2 DEF IInv, Versions, EntryCurrent, ReadsWhatWasInvalidated
<1> QED  BY <1>6, <1>7, <1>9, <1>10, <1>11, <1>12, <1>13 DEF IInv

LEMMA ResolveKeeps == ASSUME IInv, NEW l \in Getters, Resolve(l) PROVE IInv'
<1> USE DEF IInv, Resolve, Deliver, Ended, Clears, Idle
<1>1. TypeOK' /\ Versions'
  BY DEF TypeOK, Versions, Stores
<1>2. EntryCurrent' /\ LoadsCurrent'
  BY DEF TypeOK, EntryCurrent, LoadsCurrent, Stores
<1>3. Owned' /\ Joined' /\ SingleFlight'
  BY CacheAssumption DEF TypeOK, Owned, WaitsOn, Joined, SingleFlight
<1>4. WaitersCovered'
  BY DEF TypeOK, WaitersCovered, WaitsOn
<1>5. ReadsWhatWasInvalidated'
  BY DEF TypeOK, ReadsWhatWasInvalidated, WaitersCovered, WaitsOn
<1>6. QED BY <1>1, <1>2, <1>3, <1>4, <1>5

LEMMA RejectKeeps == ASSUME IInv, NEW l \in Getters, Reject(l) PROVE IInv'
<1> USE DEF IInv, Reject, Deliver, Ended, Clears, Idle
<1>1. TypeOK' /\ Versions'
  BY DEF TypeOK, Versions, ServesStale
<1>2. EntryCurrent' /\ LoadsCurrent'
  BY DEF TypeOK, EntryCurrent, LoadsCurrent
<1>3. Owned' /\ Joined' /\ SingleFlight'
  BY CacheAssumption DEF TypeOK, Owned, WaitsOn, Joined, SingleFlight
<1>4. WaitersCovered'
  BY DEF TypeOK, WaitersCovered, WaitsOn
<1>5. ReadsWhatWasInvalidated'
  BY DEF TypeOK, ReadsWhatWasInvalidated, WaitersCovered, WaitsOn, ServesStale
<1>6. QED BY <1>1, <1>2, <1>3, <1>4, <1>5

LEMMA WriteKeeps == ASSUME IInv, NEW w \in Writers, WriteRow(w) \/ Invalidate(w) PROVE IInv'
<1> USE DEF IInv, WriteRow, Invalidate
<1>1. TypeOK' /\ Versions'
  BY DEF TypeOK, Versions, NextGeneration
<1>2. EntryCurrent' /\ LoadsCurrent'
  BY DEF TypeOK, EntryCurrent, LoadsCurrent, NextGeneration
<1>3. Owned' /\ Joined' /\ SingleFlight'
  BY DEF TypeOK, Owned, WaitsOn, Joined, SingleFlight, LoadsCurrent, NextGeneration
<1>4. WaitersCovered' /\ ReadsWhatWasInvalidated'
  BY DEF TypeOK, WaitersCovered, ReadsWhatWasInvalidated
<1>5. QED BY <1>1, <1>2, <1>3, <1>4

LEMMA EnvironmentKeeps == ASSUME IInv, WriteElsewhere \/ Expire \/ Evict \/ UNCHANGED vars PROVE IInv'
<1> USE DEF IInv, WriteElsewhere, Expire, Evict, vars
<1>1. TypeOK'
  <2>1. CASE Expire
    <3>1. entry \in Entries /\ entry' = [entry EXCEPT !.fresh = FALSE]
      BY <2>1 DEF TypeOK
    <3>2. entry' \in Entries
      BY <3>1
    <3>3. QED BY <2>1, <3>2 DEF TypeOK
  <2>2. CASE ~ Expire
    BY <2>2 DEF TypeOK
  <2>3. QED BY <2>1, <2>2
<1>2. Versions' /\ EntryCurrent'
  BY DEF TypeOK, Versions, EntryCurrent, NoEntry
<1>3. LoadsCurrent' /\ Owned' /\ WaitersCovered'
  BY DEF LoadsCurrent, Owned, WaitsOn, WaitersCovered
<1>4. Joined' /\ SingleFlight' /\ ReadsWhatWasInvalidated'
  BY DEF Joined, SingleFlight, ReadsWhatWasInvalidated
<1>5. QED BY <1>1, <1>2, <1>3, <1>4

\* The step of the invariant.
LEMMA NextIInv == IInv /\ [Next]_vars => IInv'
BY CallKeeps, ReadKeeps, ResolveKeeps, RejectKeeps, WriteKeeps, EnvironmentKeeps DEF Next

-----------------------------------------------------------------------------
(* The theorems. *)

\* Types.
THEOREM TypeCorrect == Spec => []TypeOK
<1>1. IInv => TypeOK BY DEF IInv
<1>2. QED BY InitIInv, NextIInv, <1>1, PTL DEF Spec

\* A call never gets rows replaced before an invalidation that preceded it,
\* for every number of calls, writers and writes.
THEOREM NoStaleRows == Spec => []ReadsWhatWasInvalidated
<1>1. IInv => ReadsWhatWasInvalidated BY DEF IInv
<1>2. QED BY InitIInv, NextIInv, <1>1, PTL DEF Spec

\* At most one load of a generation is under way.
THEOREM OneLoad == Spec => []SingleFlight
<1>1. IInv => SingleFlight BY DEF IInv
<1>2. QED BY InitIInv, NextIInv, <1>1, PTL DEF Spec
==============================================================================
