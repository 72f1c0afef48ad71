---------------------------- MODULE BreakerProofs ----------------------------
(***************************************************************************)
(* Proofs about Breaker for every number of calls and instances, every     *)
(* clock and every configuration that satisfies the assumptions.           *)
(*                                                                         *)
(* The argument: a generation never runs further ahead of the clock than   *)
(* two per reset plus one (GenerationBound), so a record that outlives its *)
(* TTL is replaced by one with a higher generation, and every token in     *)
(* flight stays at or behind the current generation (TokensBehind).        *)
(***************************************************************************)
EXTENDS Breaker, TLAPS

\* How far the generation of record r may be ahead of the clock t, when each
\* of the resets so far accounts for two: a = 2 * resets.
GenerationOK(r, t, a) ==
  /\ r.state = "closed" => r.generation <= t + a
  /\ r.state = "open" => r.openedAt <= t /\ r.generation <= r.openedAt + 1 + a
  /\ r.state = "half_open" => /\ r.generation + 1 <= t + a
                              /\ r.generation + 2 <= r.probeExpiresAt + a

GenerationBound ==
  rec[Primary] # None =>
    /\ GenerationOK(rec[Primary], now, 2 * resets)
    /\ rec[Primary].generation < expiresAt

\* No token in flight is ahead of its store's record; once the shared record
\* is gone, every token is behind the clock its successor starts from.
TokensBehind ==
  \A c \in Running :
    LET t == call[c] IN
    /\ t.store \in {t.inst, Primary}
    /\ rec[t.store] # None => t.gen <= rec[t.store].generation
    /\ rec[t.store] = None => t.store = Primary /\ t.gen < now

IInv == TypeOK /\ resets <= MaxResets /\ GenerationBound /\ TokensBehind /\ OneProbe
-----------------------------------------------------------------------------
(* The record operations.                                                  *)

\* An admission keeps a record well formed, moves the generation by at most
\* one, and by exactly one when it admits a probe.
LEMMA DecidedRecord ==
  ASSUME NEW r \in Records, NEW t \in Nat, NEW lease \in Nat \ {0}, NEW a \in Nat
  PROVE  /\ Decided(r, t, lease) \in Records
         /\ r.failures < Threshold => Decided(r, t, lease).failures < Threshold
         /\ AdmitsProbe(r, t) =>
              /\ Decided(r, t, lease).generation = r.generation + 1
              /\ Decided(r, t, lease).state = "half_open"
         /\ ~AdmitsProbe(r, t) => Decided(r, t, lease) = r
         /\ GenerationOK(r, t, a) => GenerationOK(Decided(r, t, lease), t, a)
<1>1. CASE AdmitsProbe(r, t)
  <2>1. Decided(r, t, lease) =
          [state |-> "half_open", failures |-> 0, openedAt |-> r.openedAt,
           generation |-> r.generation + 1, probeExpiresAt |-> t + lease]
    BY <1>1 DEF Decided
  <2>2. /\ Decided(r, t, lease) \in Records
        /\ Decided(r, t, lease).state = "half_open"
        /\ Decided(r, t, lease).failures = 0
        /\ Decided(r, t, lease).generation = r.generation + 1
        /\ Decided(r, t, lease).probeExpiresAt = t + lease
    BY <2>1 DEF Records
  <2>3. GenerationOK(r, t, a) => r.generation + 2 <= t + a
    BY <1>1, RecordAssumption DEF AdmitsProbe, GenerationOK, Records
  <2>4. GenerationOK(r, t, a) => GenerationOK(Decided(r, t, lease), t, a)
    BY <2>2, <2>3 DEF GenerationOK, Records
  <2>5. QED
    BY <1>1, <2>2, <2>4, RecordAssumption
<1>2. CASE ~AdmitsProbe(r, t)
  BY <1>2 DEF Decided
<1>3. QED
  BY <1>1, <1>2

\* An applied completion keeps a record well formed and leaves the generation
\* or moves it by one; it never leads into the half-open state.
LEMMA CompletedRecord ==
  ASSUME NEW r \in Records, NEW t \in Nat, NEW outcome \in Outcomes, NEW a \in Nat,
         r.failures < Threshold
  PROVE  /\ Completed(r, outcome, t) \in Records
         /\ Completed(r, outcome, t).failures < Threshold
         /\ \/ Completed(r, outcome, t).generation = r.generation
            \/ Completed(r, outcome, t).generation = r.generation + 1
         /\ Completed(r, outcome, t).state # "half_open"
         /\ GenerationOK(r, t, a) => GenerationOK(Completed(r, outcome, t), t, a)
<1>1. r.state \in {"closed", "open", "half_open"} /\ r.failures \in Nat
  BY DEF Records
<1>2. CASE r.state = "half_open"
  BY <1>2, RecordAssumption
  DEF Completed, Succeeded, Tripped, ClosedAt, OpenedAt, Records, GenerationOK
<1>3. CASE r.state = "closed" /\ outcome = "success"
  BY <1>3, RecordAssumption DEF Completed, Succeeded, Records, GenerationOK
<1>4. CASE r.state = "closed" /\ outcome # "success" /\ r.failures + 1 >= Threshold
  BY <1>4, RecordAssumption DEF Completed, Tripped, OpenedAt, Records, GenerationOK
<1>5. CASE r.state = "closed" /\ outcome # "success" /\ r.failures + 1 < Threshold
  BY <1>5, RecordAssumption DEF Completed, Tripped, Records, GenerationOK
<1>6. CASE r.state = "open"
  BY <1>6 DEF Completed, Succeeded, Tripped, Records, GenerationOK
<1>7. QED
  BY <1>1, <1>2, <1>3, <1>4, <1>5, <1>6, RecordAssumption DEF Records

\* A well-bounded generation ends before the TTL of a record written now.
LEMMA GenerationBelowTtl ==
  ASSUME NEW r \in Records, NEW t \in Nat, NEW k \in Nat, k <= MaxResets,
         NEW ttl \in Nat, ttl >= StateTtl, GenerationOK(r, t, 2 * k)
  PROVE  r.generation < t + ttl
<1>1. r.generation <= t + 1 + 2 * k
  BY DEF GenerationOK, Records
<1>2. 2 * k + 1 < ttl
  BY BreakerAssumption
<1>3. r.generation \in Nat
  BY DEF Records
<1>4. QED
  BY <1>1, <1>2, <1>3

\* The lease granted to a caller and the TTL that goes with it.
LEMMA LeaseFacts ==
  ASSUME NEW floor \in Leases
  PROVE  /\ GrantedLease(floor) \in Nat \ {0}
         /\ TtlFor(GrantedLease(floor)) \in Nat
         /\ TtlFor(GrantedLease(floor)) >= StateTtl
  BY BreakerAssumption DEF GrantedLease, TtlFor, Larger

LEMMA TtlFacts ==
  ASSUME NEW lease \in Nat
  PROVE  TtlFor(lease) \in Nat /\ TtlFor(lease) >= StateTtl
  BY BreakerAssumption DEF TtlFor, Larger

\* What a script reads is a record, and it respects the generation bound.
LEMMA CurrentFacts ==
  ASSUME IInv, NEW s \in Stores
  PROVE  /\ Current(s) \in Records
         /\ Current(s).failures < Threshold
         /\ rec[s] # None => Current(s) = rec[s]
         /\ rec[s] = None => Current(s).state = "closed" /\ Current(s).generation = now
         /\ s = Primary => GenerationOK(Current(s), now, 2 * resets)
<1>1. CASE rec[s] = None
  BY <1>1, RecordAssumption
  DEF IInv, TypeOK, Current, ClosedAt, Records, GenerationOK
<1>2. CASE rec[s] # None
  <2>1. Current(s) = rec[s] /\ rec[s] \in Records /\ rec[s].failures < Threshold
    BY <1>2 DEF Current, IInv, TypeOK
  <2>2. QED
    BY <1>2, <2>1 DEF IInv, GenerationBound
<1>3. QED
  BY <1>1, <1>2

\* A token in flight is at or behind what its store reads.
LEMMA TokenNotAhead ==
  ASSUME IInv, NEW c \in Calls, call[c] # None
  PROVE  /\ call[c] \in Tokens
         /\ call[c].store \in Stores
         /\ call[c].gen <= Current(call[c].store).generation
         /\ rec[call[c].store] = None =>
              call[c].gen < Current(call[c].store).generation
<1>1. call[c] \in Tokens /\ c \in Running /\ now \in Nat
  BY DEF IInv, TypeOK, Running
<1>2. call[c].store \in Stores /\ call[c].gen \in Nat
  BY <1>1 DEF Tokens
<1>3. /\ rec[call[c].store] # None => call[c].gen <= rec[call[c].store].generation
      /\ rec[call[c].store] = None => call[c].gen < now
  BY <1>1 DEF IInv, TokensBehind
<1>4. QED
  BY <1>1, <1>2, <1>3, CurrentFacts

\* The part of an admission that both stores share: whatever stores ran
\* `decide`, store x is the one whose answer the caller c received.
LEMMA AdmitStep ==
  ASSUME IInv, NEW c \in Calls, NEW i \in Instances, NEW x \in {i, Primary},
         NEW lease \in Nat \ {0}, call[c] = None,
         rec' \in [Stores -> Records \cup {None}],
         \A s \in Stores : rec'[s] = rec[s] \/ rec'[s] = Decided(Current(s), now, lease),
         rec'[x] = Decided(Current(x), now, lease),
         Receive(c, i, x, lease), now' = now
  PROVE  /\ call' \in [Calls -> Tokens \cup {None}]
         /\ \A s \in Stores : rec'[s] # None => rec'[s].failures < Threshold
         /\ TokensBehind'
         /\ OneProbe'
<1> DEFINE new == [inst |-> i, store |-> x, lease |-> lease, lastRenew |-> now,
                   gen |-> Decided(Current(x), now, lease).generation,
                   probe |-> AdmitsProbe(Current(x), now)]
<1>1. x \in Stores /\ i \in Stores
  BY DEF Stores
<1>2. \A s \in Stores :
        /\ Decided(Current(s), now, lease) \in Records
        /\ Decided(Current(s), now, lease).failures < Threshold
        /\ Decided(Current(s), now, lease).generation \in Nat
        /\ Current(s).generation \in Nat
        /\ Current(s).generation <= Decided(Current(s), now, lease).generation
        /\ AdmitsProbe(Current(s), now) =>
             /\ Decided(Current(s), now, lease).generation = Current(s).generation + 1
             /\ Decided(Current(s), now, lease).state = "half_open"
        /\ ~AdmitsProbe(Current(s), now) => Decided(Current(s), now, lease) = Current(s)
  <2> SUFFICES ASSUME NEW s \in Stores
               PROVE  /\ Decided(Current(s), now, lease) \in Records
                      /\ Decided(Current(s), now, lease).failures < Threshold
                      /\ Decided(Current(s), now, lease).generation \in Nat
                      /\ Current(s).generation \in Nat
                      /\ Current(s).generation <= Decided(Current(s), now, lease).generation
                      /\ AdmitsProbe(Current(s), now) =>
                           /\ Decided(Current(s), now, lease).generation
                                = Current(s).generation + 1
                           /\ Decided(Current(s), now, lease).state = "half_open"
                      /\ ~AdmitsProbe(Current(s), now) =>
                           Decided(Current(s), now, lease) = Current(s)
    OBVIOUS
  <2>1. Current(s) \in Records /\ Current(s).failures < Threshold /\ now \in Nat
    BY CurrentFacts DEF IInv, TypeOK
  <2>2. Current(s).generation \in Nat
    BY <2>1 DEF Records
  <2>3. /\ Decided(Current(s), now, lease) \in Records
        /\ Decided(Current(s), now, lease).failures < Threshold
        /\ AdmitsProbe(Current(s), now) =>
             /\ Decided(Current(s), now, lease).generation = Current(s).generation + 1
             /\ Decided(Current(s), now, lease).state = "half_open"
        /\ ~AdmitsProbe(Current(s), now) => Decided(Current(s), now, lease) = Current(s)
    BY <2>1, 0 \in Nat, DecidedRecord
  <2>4. QED
    BY <2>2, <2>3
<1>3. new \in Tokens
  <2>1. now \in Nat /\ AdmitsProbe(Current(x), now) \in BOOLEAN
    BY DEF IInv, TypeOK, AdmitsProbe
  <2>2. QED
    BY <1>1, <1>2, <2>1 DEF Tokens
<1>4. \/ call' = call /\ ~Allows(Current(x), now)
      \/ call' = [call EXCEPT ![c] = new] /\ Allows(Current(x), now)
  BY DEF Receive
<1>5. call \in [Calls -> Tokens \cup {None}]
  BY DEF IInv, TypeOK
<1>6. call' \in [Calls -> Tokens \cup {None}]
  BY <1>3, <1>4, <1>5
<1>7. \A s \in Stores : rec'[s] # None => rec'[s].failures < Threshold
  BY <1>2 DEF IInv, TypeOK
<1>8. \A d \in Calls : call'[d] = call[d] \/ (d = c /\ call'[d] = new)
  BY <1>4, <1>5
<1>9. None \notin Records
  BY BreakerAssumption
<1>10. \A s \in Stores : rec'[s] # None \/ rec[s] = None
  BY <1>2, <1>9
<1>11. TokensBehind'
  <2> SUFFICES ASSUME NEW d \in Calls, call'[d] # None
               PROVE  /\ call'[d].store \in {call'[d].inst, Primary}
                      /\ rec'[call'[d].store] # None =>
                           call'[d].gen <= rec'[call'[d].store].generation
                      /\ rec'[call'[d].store] = None =>
                           call'[d].store = Primary /\ call'[d].gen < now
    BY DEF TokensBehind, Running
  <2>1. CASE d = c /\ call'[d] = new
    BY <2>1, <1>1, <1>2, <1>9
  <2>2. CASE call'[d] = call[d]
    <3> DEFINE s == call[d].store
    <3>1. /\ s \in Stores /\ call[d] \in Tokens
          /\ call[d].gen <= Current(s).generation
          /\ s \in {call[d].inst, Primary}
          /\ rec[s] = None => s = Primary /\ call[d].gen < now
      BY <2>2, TokenNotAhead DEF IInv, TokensBehind, Running
    <3>2. call[d].gen \in Nat
      BY <3>1 DEF Tokens
    <3>3. rec'[s] = rec[s] /\ rec[s] # None => call[d].gen <= rec'[s].generation
      BY <3>1, CurrentFacts
    <3>4. rec'[s] # rec[s] => rec'[s] # None /\ call[d].gen <= rec'[s].generation
      BY <3>1, <3>2, <1>2, <1>9
    <3>5. QED
      BY <2>2, <3>1, <3>3, <3>4
  <2>3. QED
    BY <1>8, <2>1, <2>2
<1>12. OneProbe'
  <2> SUFFICES ASSUME NEW s \in Stores, rec'[s] # None, rec'[s].state = "half_open",
                      NEW d \in Calls, NEW e \in Calls,
                      call'[d] # None, call'[e] # None,
                      call'[d].store = s, call'[d].gen = rec'[s].generation,
                      call'[e].store = s, call'[e].gen = rec'[s].generation
               PROVE  d = e /\ call'[d].probe
    BY DEF OneProbe, Running
  <2>1. CASE rec'[s] = rec[s] /\ call'[d] = call[d] /\ call'[e] = call[e]
    BY <2>1 DEF IInv, OneProbe, Running
  <2>2. CASE AdmitsProbe(Current(s), now) /\ rec'[s] = Decided(Current(s), now, lease)
    <3>1. \A f \in {d, e} : f = c /\ call'[f] = new
      <4> SUFFICES ASSUME NEW f \in {d, e}, call'[f] = call[f] PROVE FALSE
        BY <1>8
      <4>1. /\ call[f].gen <= Current(s).generation
            /\ call[f] \in Tokens
        BY TokenNotAhead
      <4>2. call[f].gen = Current(s).generation + 1
        BY <1>2, <2>2
      <4>3. call[f].gen \in Nat /\ Current(s).generation \in Nat
        BY <4>1, <1>2 DEF Tokens
      <4>4. QED
        BY <4>1, <4>2, <4>3
    <3>2. x = s
      BY <3>1
    <3>3. QED
      BY <3>1, <3>2, <2>2
  <2>3. CASE ~AdmitsProbe(Current(s), now) /\ rec'[s] = Decided(Current(s), now, lease)
    <3>1. rec'[s] = Current(s) /\ Current(s).state = "half_open"
      BY <1>2, <2>3
    <3>2. rec[s] # None /\ rec'[s] = rec[s]
      BY <3>1, CurrentFacts
    <3>3. ~Allows(Current(s), now)
      BY <2>3, <3>1 DEF Allows
    <3>4. \A f \in {d, e} : call'[f] = call[f]
      BY <1>4, <1>5, <1>8, <3>3
    <3>5. QED
      BY <2>1, <3>2, <3>4
  <2>4. CASE rec'[s] = rec[s] /\ rec'[s] # Decided(Current(s), now, lease)
    <3>1. \A f \in {d, e} : call'[f] = call[f]
      BY <1>8, <2>4
    <3>2. QED
      BY <2>1, <2>4, <3>1
  <2>5. QED
    BY <2>2, <2>3, <2>4
<1>13. QED
  BY <1>6, <1>7, <1>11, <1>12
-----------------------------------------------------------------------------
(* One lemma per action: it preserves IInv and moves no store backwards     *)
(* under a call that keeps its token.                                       *)

KeepsToken(c) ==
  call[c] # None /\ call'[c] # None =>
    /\ call'[c].store = call[c].store
    /\ call'[c].gen = call[c].gen
    /\ Current(call[c].store).generation <= Current(call[c].store)'.generation

Forward == \A c \in Calls : KeepsToken(c)

\* The common part of the two admissions.
LEMMA AdmitForward ==
  ASSUME IInv, NEW c \in Calls, NEW i \in Instances, NEW x \in Stores,
         NEW lease \in Nat \ {0}, call[c] = None,
         \A s \in Stores : rec'[s] = rec[s] \/ rec'[s] = Decided(Current(s), now, lease),
         Receive(c, i, x, lease), now' = now
  PROVE  Forward
<1> SUFFICES ASSUME NEW d \in Calls, call[d] # None, call'[d] # None
             PROVE  /\ call'[d].store = call[d].store
                    /\ call'[d].gen = call[d].gen
                    /\ Current(call[d].store).generation
                         <= Current(call[d].store)'.generation
  BY DEF Forward, KeepsToken
<1>1. call'[d] = call[d]
  BY DEF Receive, IInv, TypeOK
<1>2. call[d].store \in Stores
  BY TokenNotAhead
<1> DEFINE s == call[d].store
<1>3. Current(s) \in Records /\ now \in Nat /\ Current(s).failures < Threshold
  BY <1>2, CurrentFacts DEF IInv, TypeOK
<1>4. Current(s).generation \in Nat
  BY <1>3 DEF Records
<1>5. CASE rec'[s] = rec[s]
  BY <1>1, <1>4, <1>5 DEF Current
<1>6. CASE rec'[s] = Decided(Current(s), now, lease)
  <2>1. /\ Decided(Current(s), now, lease) \in Records
        /\ AdmitsProbe(Current(s), now) =>
             Decided(Current(s), now, lease).generation = Current(s).generation + 1
        /\ ~AdmitsProbe(Current(s), now) => Decided(Current(s), now, lease) = Current(s)
    BY <1>3, 0 \in Nat, DecidedRecord
  <2>2. Current(s)' = Decided(Current(s), now, lease)
    BY <1>1, <1>6, <2>1, BreakerAssumption DEF Current
  <2>3. QED
    BY <1>1, <1>4, <2>1, <2>2
<1>7. QED
  BY <1>2, <1>5, <1>6

\* The shared record written by `decide` satisfies the generation bound.
LEMMA DecidedBound ==
  ASSUME IInv, NEW lease \in Nat \ {0}, NEW ttl \in Nat, ttl >= StateTtl,
         rec'[Primary] = Decided(Current(Primary), now, lease),
         expiresAt' = now + ttl, now' = now, resets' = resets
  PROVE  GenerationBound'
<1>1. /\ Primary \in Stores /\ now \in Nat /\ resets \in Nat /\ resets <= MaxResets
      /\ 2 * resets \in Nat
  BY DEF Stores, IInv, TypeOK
<1>2. /\ Current(Primary) \in Records
      /\ GenerationOK(Current(Primary), now, 2 * resets)
  BY <1>1, CurrentFacts
<1>3. /\ Decided(Current(Primary), now, lease) \in Records
      /\ GenerationOK(Decided(Current(Primary), now, lease), now, 2 * resets)
  BY <1>1, <1>2, DecidedRecord
<1>4. Decided(Current(Primary), now, lease).generation < now + ttl
  BY <1>1, <1>3, GenerationBelowTtl
<1>5. QED
  BY <1>3, <1>4 DEF GenerationBound

LEMMA AdmitOnPrimaryStep ==
  ASSUME IInv, NEW c \in Calls, NEW i \in Instances, NEW floor \in Leases,
         AdmitOnPrimary(c, i, floor)
  PROVE  IInv' /\ Forward
<1> DEFINE lease == GrantedLease(floor)
<1>1. /\ lease \in Nat \ {0} /\ TtlFor(lease) \in Nat /\ TtlFor(lease) >= StateTtl
      /\ Primary \in Stores /\ Primary \in {i, Primary}
  BY LeaseFacts DEF Stores
<1>2. /\ call[c] = None
      /\ rec' = [rec EXCEPT ![Primary] = Decided(Current(Primary), now, lease)]
      /\ expiresAt' = now + TtlFor(lease)
      /\ Receive(c, i, Primary, lease)
      /\ UNCHANGED <<now, lastSeq, renewals, resets, alerted, report>>
  BY DEF AdmitOnPrimary, DecideOnPrimary
<1> HIDE DEF lease
<1>3. rec \in [Stores -> Records \cup {None}] /\ now \in Nat
  BY DEF IInv, TypeOK
<1>4. Decided(Current(Primary), now, lease) \in Records
  BY <1>1, <1>3, 0 \in Nat, CurrentFacts, DecidedRecord
<1>5. /\ rec' \in [Stores -> Records \cup {None}]
      /\ rec'[Primary] = Decided(Current(Primary), now, lease)
      /\ \A s \in Stores : rec'[s] = rec[s] \/ rec'[s] = Decided(Current(s), now, lease)
  BY <1>1, <1>2, <1>3, <1>4
<1>6. /\ call' \in [Calls -> Tokens \cup {None}]
      /\ \A s \in Stores : rec'[s] # None => rec'[s].failures < Threshold
      /\ TokensBehind'
      /\ OneProbe'
  BY <1>1, <1>2, <1>5, AdmitStep
<1>7. GenerationBound'
  BY <1>1, <1>2, <1>5, DecidedBound
<1>8. TypeOK' /\ (resets <= MaxResets)'
  BY <1>1, <1>2, <1>3, <1>5, <1>6 DEF IInv, TypeOK
<1>9. Forward
  BY <1>1, <1>2, <1>5, AdmitForward
<1>10. QED
  BY <1>6, <1>7, <1>8, <1>9 DEF IInv

LEMMA AdmitOnFallbackStep ==
  ASSUME IInv, NEW c \in Calls, NEW i \in Instances, NEW floor \in Leases,
         NEW fault \in Faults, AdmitOnFallback(c, i, floor, fault)
  PROVE  IInv' /\ Forward
<1> DEFINE lease == GrantedLease(floor)
           own == [rec EXCEPT ![i] = Decided(Current(i), now, lease)]
<1>1. /\ lease \in Nat \ {0} /\ TtlFor(lease) \in Nat /\ TtlFor(lease) >= StateTtl
      /\ Primary \in Stores /\ i \in Stores /\ i # Primary /\ i \in {i, Primary}
  BY LeaseFacts, BreakerAssumption DEF Stores
<1>2. /\ call[c] = None
      /\ \/ /\ rec' = [own EXCEPT ![Primary] = Decided(Current(Primary), now, lease)]
            /\ expiresAt' = now + TtlFor(lease)
         \/ rec' = own /\ expiresAt' = expiresAt
      /\ Receive(c, i, i, lease)
      /\ UNCHANGED <<now, lastSeq, renewals, resets, alerted, report>>
  BY DEF AdmitOnFallback
<1> HIDE DEF lease
<1>3. rec \in [Stores -> Records \cup {None}] /\ now \in Nat
  BY DEF IInv, TypeOK
<1>4. /\ Decided(Current(Primary), now, lease) \in Records
      /\ Decided(Current(i), now, lease) \in Records
  BY <1>1, <1>3, 0 \in Nat, CurrentFacts, DecidedRecord
<1>5. /\ rec' \in [Stores -> Records \cup {None}]
      /\ rec'[i] = Decided(Current(i), now, lease)
      /\ \A s \in Stores : rec'[s] = rec[s] \/ rec'[s] = Decided(Current(s), now, lease)
      /\ \/ /\ rec'[Primary] = Decided(Current(Primary), now, lease)
            /\ expiresAt' = now + TtlFor(lease)
         \/ rec'[Primary] = rec[Primary] /\ expiresAt' = expiresAt
  BY <1>1, <1>2, <1>3, <1>4
<1>6. /\ call' \in [Calls -> Tokens \cup {None}]
      /\ \A s \in Stores : rec'[s] # None => rec'[s].failures < Threshold
      /\ TokensBehind'
      /\ OneProbe'
  BY <1>1, <1>2, <1>5, AdmitStep
<1>7. GenerationBound'
  <2>1. CASE rec'[Primary] = rec[Primary] /\ expiresAt' = expiresAt
    BY <2>1, <1>2 DEF IInv, GenerationBound
  <2>2. CASE /\ rec'[Primary] = Decided(Current(Primary), now, lease)
             /\ expiresAt' = now + TtlFor(lease)
    BY <2>2, <1>1, <1>2, DecidedBound
  <2>3. QED
    BY <1>5, <2>1, <2>2
<1>8. TypeOK' /\ (resets <= MaxResets)'
  BY <1>1, <1>2, <1>3, <1>5, <1>6 DEF IInv, TypeOK
<1>9. Forward
  BY <1>1, <1>2, <1>5, AdmitForward
<1>10. QED
  BY <1>6, <1>7, <1>8, <1>9 DEF IInv

\* Settling: store s holds either its old record or the completed one, and
\* the call's slot is free again.
LEMMA SettleStep ==
  ASSUME IInv, NEW c \in Calls, NEW outcome \in Outcomes,
         NEW fault \in Faults \cup {"none"}, Settle(c, outcome, fault)
  PROVE  IInv' /\ Forward
<1> DEFINE s == call[c].store
           done == Completed(Current(s), outcome, now)
<1>1. /\ call[c] # None /\ call[c] \in Tokens /\ s \in Stores
      /\ Primary \in Stores
  BY TokenNotAhead DEF Settle, Stores
<1>2. /\ rec \in [Stores -> Records \cup {None}] /\ now \in Nat /\ resets \in Nat
      /\ lastSeq \in [Stores -> Nat] /\ expiresAt \in Nat
      /\ call \in [Calls -> Tokens \cup {None}] /\ 2 * resets \in Nat
      /\ resets <= MaxResets /\ alerted \in SUBSET Nat
      /\ report \in [seq : Nat, turn : {0, 1}, justOpened : {0, 1}]
  BY DEF IInv, TypeOK
<1>3. /\ \/ UNCHANGED <<rec, lastSeq, expiresAt>>
         \/ /\ rec' = [rec EXCEPT ![s] = done]
            /\ lastSeq' = [lastSeq EXCEPT ![s] = Larger(now * SeqScale, lastSeq[s] + 1)]
            /\ expiresAt' = IF s = Primary THEN now + StateTtl ELSE expiresAt
      /\ call' = [call EXCEPT ![c] = None]
      /\ UNCHANGED <<now, renewals, resets>>
  BY DEF Settle, CompleteOn
<1>4. /\ Current(s) \in Records /\ Current(s).failures < Threshold
      /\ Current(s).generation \in Nat
      /\ s = Primary => GenerationOK(Current(s), now, 2 * resets)
  BY <1>1, CurrentFacts DEF Records
<1>5. /\ done \in Records /\ done.failures < Threshold /\ done.state # "half_open"
      /\ done.generation \in Nat /\ Current(s).generation <= done.generation
      /\ s = Primary => GenerationOK(done, now, 2 * resets)
  <2>1. /\ done \in Records /\ done.failures < Threshold /\ done.state # "half_open"
        /\ done.generation = Current(s).generation
           \/ done.generation = Current(s).generation + 1
        /\ GenerationOK(Current(s), now, 2 * resets) => GenerationOK(done, now, 2 * resets)
    BY <1>2, <1>4, CompletedRecord
  <2>2. QED
    BY <1>4, <2>1
<1> HIDE DEF done
<1>6. /\ rec' \in [Stores -> Records \cup {None}]
      /\ \A x \in Stores : rec'[x] = rec[x] \/ (x = s /\ rec'[x] = done)
      /\ \A d \in Calls : call'[d] = call[d] \/ call'[d] = None
      /\ call' \in [Calls -> Tokens \cup {None}]
  BY <1>1, <1>2, <1>3, <1>5
<1>7. TypeOK'
  <2>1. Larger(now * SeqScale, lastSeq[s] + 1) \in Nat
    BY <1>1, <1>2, BreakerAssumption DEF Larger
  <2>2. lastSeq' \in [Stores -> Nat] /\ expiresAt' \in Nat
    BY <1>1, <1>2, <1>3, <2>1, BreakerAssumption
  <2>3. \A x \in Stores : rec'[x] # None => rec'[x].failures < Threshold
    BY <1>5, <1>6 DEF IInv, TypeOK
  <2>4. alerted' \in SUBSET Nat /\ report' \in [seq : Nat, turn : {0, 1}, justOpened : {0, 1}]
    <3>1. CASE UNCHANGED <<alerted, report>>
      BY <1>2, <3>1
    <3>2. CASE s = Primary /\ Notify(call[c].gen, outcome)
      <4>1. done.generation \in Nat /\ lastSeq'[Primary] \in Nat
        BY <1>1, <1>5, <2>2
      <4>2. \/ alerted' = alerted
            \/ alerted' = alerted \cup {done.generation}
        BY <3>2 DEF Notify, done
      <4>3. \/ report' = report
            \/ \E k \in {0, 1} :
                 report' = [seq |-> lastSeq'[Primary], turn |-> 1 - report.turn,
                            justOpened |-> k]
        BY <3>2 DEF Notify
      <4>4. alerted' \in SUBSET Nat
        BY <1>2, <4>1, <4>2
      <4>5. report' \in [seq : Nat, turn : {0, 1}, justOpened : {0, 1}]
        <5>1. 1 - report.turn \in {0, 1}
          BY <1>2
        <5>2. QED
          BY <1>2, <4>1, <4>3, <5>1
      <4>6. QED
        BY <4>4, <4>5
    <3>3. QED
      BY <3>1, <3>2 DEF Settle
  <2>5. QED
    BY <1>2, <1>3, <1>6, <2>2, <2>3, <2>4 DEF IInv, TypeOK
<1>8. GenerationBound'
  <2>1. CASE rec'[Primary] = rec[Primary] /\ expiresAt' = expiresAt
    BY <2>1, <1>3 DEF IInv, GenerationBound
  <2>2. CASE s = Primary /\ rec'[Primary] = done /\ expiresAt' = now + StateTtl
    <3>1. done.generation < now + StateTtl
      BY <2>2, <1>2, <1>5, GenerationBelowTtl, BreakerAssumption
    <3>2. QED
      BY <2>2, <3>1, <1>3, <1>5 DEF GenerationBound
  <2>3. QED
    BY <1>1, <1>2, <1>3, <2>1, <2>2
<1>9. TokensBehind' /\ Forward
  <2> SUFFICES ASSUME NEW d \in Calls, call'[d] # None
               PROVE  /\ call'[d].store \in {call'[d].inst, Primary}
                      /\ rec'[call'[d].store] # None =>
                           call'[d].gen <= rec'[call'[d].store].generation
                      /\ rec'[call'[d].store] = None =>
                           call'[d].store = Primary /\ call'[d].gen < now'
                      /\ KeepsToken(d)
    BY DEF TokensBehind, Running, Forward, KeepsToken
  <2> DEFINE x == call[d].store
  <2>1. /\ call'[d] = call[d] /\ call[d] # None /\ call[d] \in Tokens /\ x \in Stores
        /\ call[d].gen \in Nat /\ call[d].gen <= Current(x).generation
        /\ x \in {call[d].inst, Primary}
        /\ rec[x] # None => call[d].gen <= rec[x].generation
        /\ rec[x] = None => x = Primary /\ call[d].gen < now
    BY <1>6, TokenNotAhead DEF IInv, TokensBehind, Running, Tokens
  <2>2. Current(x).generation \in Nat
    BY <2>1, CurrentFacts DEF Records
  <2>3. CASE rec'[x] = rec[x]
    BY <2>1, <2>2, <2>3, <1>3 DEF KeepsToken, Current
  <2>4. CASE x = s /\ rec'[x] = done
    <3>1. rec'[x] # None
      BY <2>4, <1>5, BreakerAssumption
    <3>2. QED
      BY <2>1, <2>2, <2>4, <3>1, <1>5 DEF KeepsToken, Current
  <2>5. QED
    BY <1>6, <2>1, <2>3, <2>4
<1>10. OneProbe'
  BY <1>5, <1>6 DEF OneProbe, Running, IInv
<1>11. QED
  BY <1>2, <1>3, <1>7, <1>8, <1>9, <1>10 DEF IInv

\* Extending a live lease changes nothing else of the record.
LEMMA RenewedRecord ==
  ASSUME NEW r \in Records, NEW t \in Nat, NEW lease \in Nat
  PROVE  /\ Renewed(r, t, lease) \in Records
         /\ Renewed(r, t, lease).state = r.state
         /\ Renewed(r, t, lease).failures = r.failures
         /\ Renewed(r, t, lease).openedAt = r.openedAt
         /\ Renewed(r, t, lease).generation = r.generation
         /\ Renewed(r, t, lease).probeExpiresAt >= r.probeExpiresAt
<1>1. /\ Larger(r.probeExpiresAt, t + lease) \in Nat
      /\ Larger(r.probeExpiresAt, t + lease) >= r.probeExpiresAt
  BY DEF Larger, Records
<1>2. QED
  BY <1>1 DEF Renewed, Records

\* Extending a live lease keeps the bound on the generation.
LEMMA RenewedBound ==
  ASSUME NEW r \in Records, NEW t \in Nat, NEW lease \in Nat, NEW a \in Nat,
         GenerationOK(r, t, a)
  PROVE  GenerationOK(Renewed(r, t, lease), t, a)
<1>1. Renewed(r, t, lease) \in Records
  BY RenewedRecord
<1>2. /\ Renewed(r, t, lease).state = r.state
      /\ Renewed(r, t, lease).failures = r.failures
      /\ Renewed(r, t, lease).openedAt = r.openedAt
      /\ Renewed(r, t, lease).generation = r.generation
      /\ Renewed(r, t, lease).probeExpiresAt >= r.probeExpiresAt
  BY RenewedRecord
<1>3. QED
  BY <1>1, <1>2 DEF GenerationOK, Records

\* A step that changes a store's record, if at all, to one of the same state
\* and generation, and no call's token.
LEMMA QuietStep ==
  ASSUME IInv,
         \A s \in Stores : \/ rec'[s] = rec[s]
                           \/ /\ rec[s] # None /\ rec'[s] # None
                              /\ rec'[s].state = rec[s].state
                              /\ rec'[s].generation = rec[s].generation,
         call' \in [Calls -> Tokens \cup {None}],
         \A c \in Calls : \/ call'[c] = call[c]
                          \/ /\ call[c] # None
                             /\ call'[c].store = call[c].store /\ call'[c].inst = call[c].inst
                             /\ call'[c].gen = call[c].gen /\ call'[c].probe = call[c].probe,
         now' = now
  PROVE  TokensBehind' /\ OneProbe' /\ Forward
<1>1. \A c \in Calls : call'[c] # None =>
        /\ call[c] # None /\ call[c].store \in Stores
        /\ call'[c].store = call[c].store /\ call'[c].inst = call[c].inst
        /\ call'[c].gen = call[c].gen /\ call'[c].probe = call[c].probe
  BY TokenNotAhead
<1>2. \A s \in Stores : Current(s).generation \in Nat
  BY CurrentFacts DEF Records
<1>3. TokensBehind'
  BY <1>1 DEF TokensBehind, Running, IInv
<1>4. OneProbe'
  <2> SUFFICES ASSUME NEW s \in Stores, rec'[s] # None, rec'[s].state = "half_open",
                      NEW d \in Calls, NEW e \in Calls,
                      call'[d] # None, call'[e] # None,
                      call'[d].store = s, call'[d].gen = rec'[s].generation,
                      call'[e].store = s, call'[e].gen = rec'[s].generation
               PROVE  d = e /\ call'[d].probe
    BY DEF OneProbe, Running
  <2>1. rec[s] # None /\ rec[s].state = "half_open" /\ rec[s].generation = rec'[s].generation
    OBVIOUS
  <2>2. d \in Running /\ e \in Running
    BY <1>1 DEF Running
  <2>3. QED
    BY <1>1, <2>1, <2>2 DEF OneProbe, IInv
<1>5. Forward
  <2> SUFFICES ASSUME NEW c \in Calls, call[c] # None, call'[c] # None
               PROVE  KeepsToken(c)
    BY DEF Forward, KeepsToken
  <2>1. Current(call[c].store).generation <= Current(call[c].store)'.generation
    BY <1>1, <1>2 DEF Current
  <2>2. QED
    BY <1>1, <2>1 DEF KeepsToken
<1>6. QED
  BY <1>3, <1>4, <1>5

LEMMA RenewStep ==
  ASSUME IInv, NEW c \in Calls, Renew(c)
  PROVE  IInv' /\ Forward
<1> DEFINE t == call[c]
<1>1. /\ rec \in [Stores -> Records \cup {None}] /\ now \in Nat /\ resets \in Nat
      /\ call \in [Calls -> Tokens \cup {None}] /\ renewals \in SUBSET RenewalMsgs
      /\ 2 * resets \in Nat /\ Primary \in Stores
  BY DEF IInv, TypeOK, Stores
<1>2. /\ t # None /\ t \in Tokens /\ t.store \in Stores
      /\ t.gen \in Nat /\ t.lease \in Nat
  BY TokenNotAhead DEF Renew, Tokens
<1>3. /\ call' = [call EXCEPT ![c].lastRenew = now]
      /\ \/ /\ renewals' = renewals \cup {[gen |-> t.gen, lease |-> t.lease]}
            /\ rec' = rec
         \/ /\ t.store # Primary
            /\ rec' = IF rec[t.store] # None /\ Renewable(rec[t.store], t.gen, now)
                      THEN [rec EXCEPT ![t.store] = Renewed(@, now, t.lease)] ELSE rec
            /\ renewals' = renewals
      /\ UNCHANGED <<now, expiresAt, lastSeq, resets, alerted, report>>
  BY DEF Renew
<1>4. /\ call' \in [Calls -> Tokens \cup {None}]
      /\ \A d \in Calls : \/ call'[d] = call[d]
                          \/ /\ call[d] # None
                             /\ call'[d].store = call[d].store /\ call'[d].inst = call[d].inst
                             /\ call'[d].gen = call[d].gen /\ call'[d].probe = call[d].probe
  <2>1. [t EXCEPT !.lastRenew = now] \in Tokens
    BY <1>1, <1>2 DEF Tokens
  <2>2. /\ [t EXCEPT !.lastRenew = now].store = t.store
        /\ [t EXCEPT !.lastRenew = now].inst = t.inst
        /\ [t EXCEPT !.lastRenew = now].gen = t.gen
        /\ [t EXCEPT !.lastRenew = now].probe = t.probe
    BY <1>2 DEF Tokens
  <2>3. call' = [call EXCEPT ![c] = [t EXCEPT !.lastRenew = now]]
    BY <1>1, <1>3
  <2>4. QED
    BY <1>1, <1>2, <2>1, <2>2, <2>3
<1>5. /\ rec' \in [Stores -> Records \cup {None}] /\ rec'[Primary] = rec[Primary]
      /\ \A s \in Stores : \/ rec'[s] = rec[s]
                           \/ /\ rec[s] # None /\ rec'[s] # None
                              /\ rec'[s].state = rec[s].state
                              /\ rec'[s].generation = rec[s].generation
                              /\ rec'[s].failures = rec[s].failures
  <2>1. CASE rec' = rec
    BY <1>1, <2>1
  <2>2. CASE /\ t.store # Primary /\ rec[t.store] # None
             /\ rec' = [rec EXCEPT ![t.store] = Renewed(@, now, t.lease)]
    <3>1. rec[t.store] \in Records
      BY <1>1, <1>2, <2>2
    <3>2. /\ Renewed(rec[t.store], now, t.lease) \in Records
          /\ Renewed(rec[t.store], now, t.lease).state = rec[t.store].state
          /\ Renewed(rec[t.store], now, t.lease).failures = rec[t.store].failures
          /\ Renewed(rec[t.store], now, t.lease).generation = rec[t.store].generation
      <4> DEFINE q     == rec[t.store]
                 lease == t.lease
      <4>1. q \in Records /\ now \in Nat /\ lease \in Nat
        BY <1>1, <1>2, <3>1
      <4>2. /\ Renewed(q, now, lease) \in Records
            /\ Renewed(q, now, lease).state = q.state
            /\ Renewed(q, now, lease).failures = q.failures
            /\ Renewed(q, now, lease).generation = q.generation
        <5> HIDE DEF q, lease
        <5> QED
          BY <4>1, RenewedRecord
      <4>3. QED
        BY <4>2
    <3>3. Renewed(rec[t.store], now, t.lease) # None
      BY <3>2, BreakerAssumption
    <3>4. /\ rec'[t.store] = Renewed(rec[t.store], now, t.lease)
          /\ \A s \in Stores : s # t.store => rec'[s] = rec[s]
          /\ rec' \in [Stores -> Records \cup {None}]
      BY <1>1, <1>2, <2>2, <3>2
    <3>5. QED
      BY <1>1, <2>2, <3>2, <3>3, <3>4
  <2>3. QED
    BY <1>3, <2>1, <2>2
<1>6. TokensBehind' /\ OneProbe' /\ Forward
  BY <1>3, <1>4, <1>5, QuietStep
<1>7. renewals' \in SUBSET RenewalMsgs
  BY <1>1, <1>2, <1>3 DEF RenewalMsgs
<1>8. TypeOK' /\ GenerationBound' /\ (resets <= MaxResets)'
  BY <1>3, <1>4, <1>5, <1>7 DEF IInv, TypeOK, GenerationBound
<1>9. QED
  BY <1>6, <1>8 DEF IInv

LEMMA LandRenewalStep ==
  ASSUME IInv, NEW m \in renewals, LandRenewal(m)
  PROVE  IInv' /\ Forward
<1> DEFINE r == rec[Primary]
<1>1. /\ rec \in [Stores -> Records \cup {None}] /\ now \in Nat /\ resets \in Nat
      /\ call \in [Calls -> Tokens \cup {None}] /\ renewals \in SUBSET RenewalMsgs
      /\ 2 * resets \in Nat /\ Primary \in Stores /\ resets <= MaxResets
      /\ expiresAt \in Nat
  BY DEF IInv, TypeOK, Stores
<1>2. m.gen \in Nat /\ m.lease \in Nat
  BY <1>1 DEF RenewalMsgs
<1>3. /\ renewals' \in SUBSET RenewalMsgs /\ call' = call
      /\ UNCHANGED <<now, lastSeq, resets, alerted, report>>
  BY <1>1 DEF LandRenewal
<1>4. CASE UNCHANGED <<rec, expiresAt>>
  <2>1. TokensBehind' /\ OneProbe' /\ Forward
    BY <1>1, <1>3, <1>4, QuietStep
  <2>2. QED
    BY <1>3, <1>4, <2>1 DEF IInv, TypeOK, GenerationBound
<1>5. CASE /\ r # None
           /\ rec' = [rec EXCEPT ![Primary] = Renewed(@, now, m.lease)]
           /\ expiresAt' = now + TtlFor(m.lease)
  <2>1. r \in Records /\ GenerationOK(r, now, 2 * resets) /\ r.failures < Threshold
    BY <1>1, <1>5 DEF IInv, GenerationBound, TypeOK
  <2>2. /\ Renewed(r, now, m.lease) \in Records
        /\ Renewed(r, now, m.lease).state = r.state
        /\ Renewed(r, now, m.lease).failures = r.failures
        /\ Renewed(r, now, m.lease).generation = r.generation
        /\ GenerationOK(Renewed(r, now, m.lease), now, 2 * resets)
    <3> DEFINE lease == m.lease
               a     == 2 * resets
    <3>1. r \in Records /\ now \in Nat /\ lease \in Nat /\ a \in Nat
          /\ GenerationOK(r, now, a)
      BY <1>1, <1>2, <2>1
    <3> HIDE DEF r, lease, a
    <3>2. GenerationOK(Renewed(r, now, lease), now, a)
      BY <3>1, RenewedBound
    <3>3. /\ Renewed(r, now, lease) \in Records
          /\ Renewed(r, now, lease).state = r.state
          /\ Renewed(r, now, lease).failures = r.failures
          /\ Renewed(r, now, lease).generation = r.generation
      BY <3>1, RenewedRecord
    <3>4. QED
      BY <3>2, <3>3 DEF lease, a
  <2>3. /\ rec' \in [Stores -> Records \cup {None}]
        /\ rec'[Primary] = Renewed(r, now, m.lease) /\ rec'[Primary] # None
        /\ \A s \in Stores : s # Primary => rec'[s] = rec[s]
    BY <1>1, <1>5, <2>2, BreakerAssumption
  <2>4. \A s \in Stores : rec'[s] # None => rec'[s].failures < Threshold
    BY <2>1, <2>2, <2>3 DEF IInv, TypeOK
  <2>5. TokensBehind' /\ OneProbe' /\ Forward
    BY <1>1, <1>3, <1>5, <2>2, <2>3, QuietStep
  <2>6. /\ TtlFor(m.lease) \in Nat
        /\ Renewed(r, now, m.lease).generation < now + TtlFor(m.lease)
    BY <1>1, <1>2, <2>2, TtlFacts, GenerationBelowTtl
  <2>7. GenerationBound' /\ expiresAt' \in Nat
    BY <1>1, <1>3, <1>5, <2>2, <2>3, <2>6 DEF GenerationBound
  <2>8. QED
    BY <1>3, <2>3, <2>4, <2>5, <2>7 DEF IInv, TypeOK
<1>6. QED
  BY <1>4, <1>5 DEF LandRenewal

LEMMA LoseRenewalStep ==
  ASSUME IInv, NEW m \in renewals, LoseRenewal(m)
  PROVE  IInv' /\ Forward
<1>1. /\ UNCHANGED <<now, rec, expiresAt, lastSeq, call, resets, alerted, report>>
      /\ renewals' \in SUBSET RenewalMsgs
  BY DEF LoseRenewal, IInv, TypeOK
<1>2. TokensBehind' /\ OneProbe' /\ Forward
  BY <1>1, QuietStep DEF IInv, TypeOK
<1>3. QED
  BY <1>1, <1>2 DEF IInv, TypeOK, GenerationBound

LEMMA ResetStep ==
  ASSUME IInv, Reset
  PROVE  IInv' /\ Forward
<1> DEFINE gen == IF rec[Primary] = None THEN Larger(1, now)
                  ELSE Larger(rec[Primary].generation + 1, now)
<1>1. /\ rec \in [Stores -> Records \cup {None}] /\ now \in Nat /\ resets \in Nat
      /\ call \in [Calls -> Tokens \cup {None}] /\ Primary \in Stores
      /\ MaxResets \in Nat /\ ResetTtl \in Nat
  BY BreakerAssumption DEF IInv, TypeOK, Stores
<1>2. /\ resets < MaxResets /\ resets' = resets + 1
      /\ rec' = [rec EXCEPT ![Primary] = ClosedAt(gen)]
      /\ expiresAt' = now + ResetTtl
      /\ UNCHANGED <<now, lastSeq, call, renewals, alerted, report>>
  BY DEF Reset
<1>3. /\ gen \in Nat /\ Current(Primary).generation \in Nat
      /\ Current(Primary).generation <= gen
      /\ gen <= now + 2 * (resets + 1)
  <2>1. CASE rec[Primary] = None
    BY <2>1, <1>1 DEF Larger, Current, ClosedAt
  <2>2. CASE rec[Primary] # None
    <3>1. rec[Primary] \in Records /\ GenerationOK(rec[Primary], now, 2 * resets)
      BY <2>2, <1>1 DEF IInv, GenerationBound
    <3>2. /\ rec[Primary].generation \in Nat
          /\ rec[Primary].generation <= now + 1 + 2 * resets
      BY <3>1, <1>1 DEF GenerationOK, Records
    <3>3. QED
      BY <2>2, <3>2, <1>1 DEF Larger, Current
  <2>3. QED
    BY <2>1, <2>2
<1> HIDE DEF gen
<1>4. /\ ClosedAt(gen) \in Records /\ ClosedAt(gen) # None
      /\ ClosedAt(gen).state = "closed" /\ ClosedAt(gen).generation = gen
      /\ ClosedAt(gen).failures = 0
  <2>1. ClosedAt(gen) \in Records
    BY <1>3 DEF ClosedAt, Records
  <2>2. QED
    BY <2>1, BreakerAssumption DEF ClosedAt
<1>5. /\ rec' \in [Stores -> Records \cup {None}] /\ rec'[Primary] = ClosedAt(gen)
      /\ \A s \in Stores : s # Primary => rec'[s] = rec[s]
  BY <1>1, <1>2, <1>4
<1>6. TypeOK' /\ (resets <= MaxResets)'
  <2>1. \A s \in Stores : rec'[s] # None => rec'[s].failures < Threshold
    BY <1>4, <1>5, RecordAssumption DEF IInv, TypeOK
  <2>2. resets' \in Nat /\ expiresAt' \in Nat /\ resets' <= MaxResets
    BY <1>1, <1>2
  <2>3. QED
    BY <1>2, <1>5, <2>1, <2>2 DEF IInv, TypeOK
<1>7. GenerationBound'
  <2>1. GenerationOK(ClosedAt(gen), now, 2 * (resets + 1))
    BY <1>3, <1>4 DEF GenerationOK
  <2>2. resets + 1 <= MaxResets /\ resets + 1 \in Nat /\ ResetTtl >= StateTtl
    BY <1>1, <1>2, BreakerAssumption
  <2>3. ClosedAt(gen).generation < now + ResetTtl
    BY <1>1, <1>4, <2>1, <2>2, GenerationBelowTtl
  <2>4. QED
    BY <1>2, <1>5, <2>1, <2>3 DEF GenerationBound
<1>8. TokensBehind' /\ Forward
  <2> SUFFICES ASSUME NEW d \in Calls, call'[d] # None
               PROVE  /\ call'[d].store \in {call'[d].inst, Primary}
                      /\ rec'[call'[d].store] # None =>
                           call'[d].gen <= rec'[call'[d].store].generation
                      /\ rec'[call'[d].store] = None =>
                           call'[d].store = Primary /\ call'[d].gen < now'
                      /\ KeepsToken(d)
    BY DEF TokensBehind, Running, Forward, KeepsToken
  <2> DEFINE x == call[d].store
  <2>1. /\ call'[d] = call[d] /\ call[d] # None /\ x \in Stores /\ call[d] \in Tokens
        /\ call[d].gen \in Nat /\ call[d].gen <= Current(x).generation
        /\ x \in {call[d].inst, Primary}
        /\ rec[x] # None => call[d].gen <= rec[x].generation
        /\ rec[x] = None => x = Primary /\ call[d].gen < now
    BY <1>2, TokenNotAhead DEF IInv, TokensBehind, Running, Tokens
  <2>2. Current(x).generation \in Nat
    BY <2>1, CurrentFacts DEF Records
  <2>3. CASE rec'[x] = rec[x]
    BY <2>1, <2>2, <2>3, <1>2 DEF KeepsToken, Current
  <2>4. CASE x = Primary
    BY <2>1, <2>2, <2>4, <1>3, <1>4, <1>5 DEF KeepsToken, Current
  <2>5. QED
    BY <1>5, <2>1, <2>3, <2>4
<1>9. OneProbe'
  <2>1. \A s \in Stores : rec'[s] = rec[s] \/ rec'[s].state # "half_open"
    BY <1>4, <1>5
  <2>2. QED
    BY <1>2, <2>1 DEF OneProbe, Running, IInv
<1>10. QED
  BY <1>6, <1>7, <1>8, <1>9 DEF IInv

LEMMA CrashStep ==
  ASSUME IInv, NEW i \in Instances, Crash(i)
  PROVE  IInv' /\ Forward
<1>1. /\ rec \in [Stores -> Records \cup {None}] /\ call \in [Calls -> Tokens \cup {None}]
      /\ i \in Stores /\ i # Primary /\ Primary \in Stores /\ lastSeq \in [Stores -> Nat]
  BY BreakerAssumption DEF IInv, TypeOK, Stores
<1>2. /\ rec' \in [Stores -> Records \cup {None}] /\ lastSeq' \in [Stores -> Nat]
      /\ rec'[Primary] = rec[Primary] /\ rec'[i] = None
      /\ \A s \in Stores : s # i => rec'[s] = rec[s]
      /\ call' \in [Calls -> Tokens \cup {None}]
      /\ \A c \in Calls : call'[c] # None => call'[c] = call[c] /\ call[c].inst # i
      /\ UNCHANGED <<now, expiresAt, renewals, resets, alerted, report>>
  BY <1>1 DEF Crash
<1>3. \A c \in Calls : call'[c] # None =>
        /\ call[c].store \in Stores /\ call[c].store # i
        /\ call[c].store \in {call[c].inst, Primary}
        /\ rec'[call[c].store] = rec[call[c].store]
  BY <1>1, <1>2, TokenNotAhead DEF IInv, TokensBehind, Running
<1>4. TypeOK' /\ (resets <= MaxResets)' /\ GenerationBound'
  BY <1>2 DEF IInv, TypeOK, GenerationBound
<1>5. TokensBehind'
  BY <1>2, <1>3 DEF TokensBehind, Running, IInv
<1>6. OneProbe'
  BY <1>2 DEF OneProbe, Running, IInv
<1>7. Forward
  <2>1. \A s \in Stores : Current(s).generation \in Nat
    BY CurrentFacts DEF Records
  <2>2. QED
    BY <1>2, <1>3, <2>1 DEF Forward, KeepsToken, Current
<1>8. QED
  BY <1>4, <1>5, <1>6, <1>7 DEF IInv

LEMMA TickStep ==
  ASSUME IInv, Tick
  PROVE  IInv' /\ Forward
<1>1. /\ rec \in [Stores -> Records \cup {None}] /\ call \in [Calls -> Tokens \cup {None}]
      /\ Primary \in Stores /\ lastSeq \in [Stores -> Nat] /\ now \in Nat /\ resets \in Nat
      /\ expiresAt \in Nat
  BY DEF IInv, TypeOK, Stores
<1>2. /\ now' = now + 1
      /\ rec' \in [Stores -> Records \cup {None}] /\ lastSeq' \in [Stores -> Nat]
      /\ \A s \in Stores : \/ rec'[s] = rec[s]
                           \/ /\ s = Primary /\ rec'[s] = None /\ rec[s] # None
                              /\ now + 1 >= expiresAt
      /\ UNCHANGED <<expiresAt, call, renewals, resets, alerted, report>>
  BY <1>1 DEF Tick
<1>3. rec[Primary] # None => /\ rec[Primary].generation \in Nat
                             /\ rec[Primary].generation < expiresAt
  BY <1>1 DEF IInv, GenerationBound, Records
<1>4. TypeOK' /\ (resets <= MaxResets)'
  BY <1>1, <1>2 DEF IInv, TypeOK
<1>5. GenerationBound'
  <2>1. CASE rec'[Primary] = None
    BY <2>1 DEF GenerationBound
  <2>2. CASE rec'[Primary] # None /\ rec'[Primary] = rec[Primary]
    <3>1. rec[Primary] \in Records /\ GenerationOK(rec[Primary], now, 2 * resets)
      BY <2>2, <1>1 DEF IInv, GenerationBound
    <3>2. GenerationOK(rec[Primary], now + 1, 2 * resets)
      BY <3>1, <1>1 DEF GenerationOK, Records
    <3>3. QED
      BY <2>2, <3>2, <1>2, <1>3 DEF GenerationBound
  <2>3. QED
    BY <1>1, <1>2, <2>1, <2>2
<1>6. TokensBehind' /\ Forward
  <2> SUFFICES ASSUME NEW d \in Calls, call'[d] # None
               PROVE  /\ call'[d].store \in {call'[d].inst, Primary}
                      /\ rec'[call'[d].store] # None =>
                           call'[d].gen <= rec'[call'[d].store].generation
                      /\ rec'[call'[d].store] = None =>
                           call'[d].store = Primary /\ call'[d].gen < now'
                      /\ KeepsToken(d)
    BY DEF TokensBehind, Running, Forward, KeepsToken
  <2> DEFINE x == call[d].store
  <2>1. /\ call'[d] = call[d] /\ call[d] # None /\ x \in Stores /\ call[d] \in Tokens
        /\ call[d].gen \in Nat
        /\ x \in {call[d].inst, Primary}
        /\ rec[x] # None => call[d].gen <= rec[x].generation
        /\ rec[x] = None => x = Primary /\ call[d].gen < now
    BY <1>2, TokenNotAhead DEF IInv, TokensBehind, Running, Tokens
  <2>2. Current(x).generation \in Nat
    BY <2>1, CurrentFacts DEF Records
  <2>3. CASE rec'[x] = rec[x]
    BY <2>1, <2>2, <2>3, <1>1, <1>2 DEF KeepsToken, Current, ClosedAt
  <2>4. CASE x = Primary /\ rec'[x] = None /\ rec[x] # None /\ now + 1 >= expiresAt
    BY <2>1, <2>2, <2>4, <1>1, <1>2, <1>3 DEF KeepsToken, Current, ClosedAt
  <2>5. QED
    BY <1>2, <2>1, <2>3, <2>4
<1>7. OneProbe'
  BY <1>2 DEF OneProbe, Running, IInv
<1>8. QED
  BY <1>4, <1>5, <1>6, <1>7 DEF IInv
-----------------------------------------------------------------------------
(* The theorems.                                                           *)

LEMMA InitIInv == Init => IInv
<1> SUFFICES ASSUME Init PROVE IInv
  OBVIOUS
<1>1. TypeOK
  BY DEF Init, TypeOK
<1>2. resets <= MaxResets
  BY BreakerAssumption DEF Init
<1>3. GenerationBound /\ TokensBehind /\ OneProbe
  BY DEF Init, GenerationBound, TokensBehind, OneProbe, Running, Stores
<1>4. QED
  BY <1>1, <1>2, <1>3 DEF IInv

LEMMA NextIInv ==
  ASSUME IInv, [Next]_vars
  PROVE  IInv' /\ Forward
<1>1. CASE UNCHANGED vars
  <2>1. /\ call \in [Calls -> Tokens \cup {None}]
        /\ \A s \in Stores : Current(s).generation \in Nat
    BY CurrentFacts DEF IInv, TypeOK, Records
  <2>2. Forward
    BY <1>1, <2>1, TokenNotAhead DEF vars, Forward, KeepsToken, Current
  <2>3. IInv'
    BY <1>1 DEF vars, IInv, TypeOK, GenerationBound, TokensBehind, OneProbe, Running
  <2>4. QED
    BY <2>2, <2>3
<1>2. CASE Next
  BY <1>2, AdmitOnPrimaryStep, AdmitOnFallbackStep, SettleStep, RenewStep,
     LandRenewalStep, LoseRenewalStep, ResetStep, CrashStep, TickStep DEF Next
<1>3. QED
  BY <1>1, <1>2

LEMMA Invariant == Spec => []IInv
<1>1. IInv /\ [Next]_vars => IInv'
  BY NextIInv
<1>2. QED
  BY InitIInv, <1>1, PTL DEF Spec

\* Every reachable state is well typed, and no breaker holds as many failures
\* as its threshold (applyComplete).
THEOREM TypeCorrect == Spec => []TypeOK
<1>1. IInv => TypeOK
  BY DEF IInv
<1>2. QED
  BY Invariant, <1>1, PTL

\* A half-open breaker listens to at most one call, and to none that was
\* admitted while it was closed (decide, applyComplete).
THEOREM AtMostOneProbe == Spec => []OneProbe
<1>1. IInv => OneProbe
  BY DEF IInv
<1>2. QED
  BY Invariant, <1>1, PTL

\* A call whose generation was superseded never counts again: not after a
\* reset, and not after the record expired and a new one took its generation
\* from the clock (recordFor, applyComplete, RESET_LUA).
THEOREM StaleForever == Spec => StaleStaysStale
<1>1. ASSUME IInv, IInv', Forward
      PROVE  \A c \in Calls : Stale(c) /\ call'[c] # None => Stale(c)'
  <2> SUFFICES ASSUME NEW c \in Calls, Stale(c), call'[c] # None
               PROVE  Stale(c)'
    OBVIOUS
  <2> DEFINE s == call[c].store
  <2>1. /\ call[c] # None /\ call[c].gen # Current(s).generation
        /\ call[c].gen <= Current(s).generation /\ s \in Stores
        /\ call[c] \in Tokens
    BY <1>1, TokenNotAhead DEF Stale
  <2>2. /\ call'[c].store = s /\ call'[c].gen = call[c].gen
        /\ Current(s).generation <= Current(s)'.generation
    BY <1>1, <2>1 DEF Forward, KeepsToken
  <2>3. /\ call[c].gen \in Nat /\ Current(s).generation \in Nat
    BY <1>1, <2>1, CurrentFacts DEF Records, Tokens
  <2>4. Current(s)'.generation \in Nat
    <3>1. rec' \in [Stores -> Records \cup {None}] /\ now' \in Nat
      BY <1>1 DEF IInv, TypeOK
    <3>2. s' \in Stores
      BY <2>1, <2>2
    <3>3. QED
      BY <3>1, <3>2 DEF Current, Records, ClosedAt
  <2>5. call'[c].gen # Current(s)'.generation
    BY <2>1, <2>2, <2>3, <2>4
  <2>6. QED
    BY <2>5 DEF Stale
<1>2. IInv /\ [Next]_vars => IInv' /\ Forward
  BY NextIInv
<1>3. IInv /\ [Next]_vars =>
        [\A c \in Calls : Stale(c) /\ call'[c] # None => Stale(c)']_vars
  BY <1>1, <1>2
<1>4. QED
  BY Invariant, <1>3, PTL DEF Spec, StaleStaysStale

-----------------------------------------------------------------------------
(* What happens to the shared record over time: its probe's lease, the     *)
(* alerts it raised and the numbering of its reports.                      *)
(*                                                                         *)
(* Every step does one of six things to the shared record (Moves), whoever *)
(* takes it; the lemma MovesOnly establishes that once, and every property *)
(* is then argued from the six.  Three invariants carry them: the lease    *)
(* ends within one lease of now and before the record does (LeaseFits),    *)
(* no generation alerted so far is ahead of the record (AlertsBehind), and *)
(* the last report is behind the sequence or, once that was dropped with   *)
(* the record, behind the clock it restarts from (ReportBehind).           *)

\* What a script that runs in the shared store leaves alone besides its record.
Apart == UNCHANGED <<now, resets, alerted, report>> /\ lastSeq'[Primary] = lastSeq[Primary]

Idles == Apart /\ rec'[Primary] = rec[Primary] /\ UNCHANGED expiresAt

Decides(lease) ==
  /\ Apart
  /\ rec'[Primary] = Decided(Current(Primary), now, lease)
  /\ expiresAt' = now + TtlFor(lease)

Completes(c, outcome) ==
  /\ UNCHANGED <<now, resets>>
  /\ call[c] # None /\ call[c].store = Primary /\ call'[c] = None
  /\ Applies(Current(Primary), call[c].gen, outcome)
  /\ SeqRoom(Primary)
  /\ rec'[Primary] = Completed(Current(Primary), outcome, now)
  /\ lastSeq'[Primary] = Larger(now * SeqScale, lastSeq[Primary] + 1)
  /\ expiresAt' = now + StateTtl
  /\ \/ UNCHANGED <<alerted, report>>
     \/ Notify(call[c].gen, outcome)

Renews(m) ==
  /\ Apart
  /\ rec[Primary] # None /\ Renewable(rec[Primary], m.gen, now)
  /\ rec'[Primary] = Renewed(rec[Primary], now, m.lease)
  /\ expiresAt' = now + TtlFor(m.lease)

Resets ==
  /\ UNCHANGED <<now, alerted, report>> /\ lastSeq'[Primary] = lastSeq[Primary]
  /\ resets' = resets + 1
  /\ rec'[Primary] = ClosedAt(IF rec[Primary] = None THEN Larger(1, now)
                              ELSE Larger(rec[Primary].generation + 1, now))
  /\ expiresAt' = now + ResetTtl

Ages ==
  /\ UNCHANGED <<resets, alerted, report, expiresAt>>
  /\ now' = now + 1
  /\ IF rec[Primary] # None /\ now + 1 >= expiresAt
     THEN rec'[Primary] = None /\ lastSeq'[Primary] = 0
     ELSE rec'[Primary] = rec[Primary] /\ lastSeq'[Primary] = lastSeq[Primary]

Moves ==
  \/ Idles
  \/ \E floor \in Leases : Decides(GrantedLease(floor))
  \/ \E c \in Calls, outcome \in Outcomes : Completes(c, outcome)
  \/ \E m \in renewals : Renews(m)
  \/ Resets
  \/ Ages

\* Every step does one of the six to the shared record; a fallback store, a
\* refused script and a lost renewal leave it alone.
LEMMA MovesOnly ==
  ASSUME IInv, [Next]_vars
  PROVE  Moves
<1>1. /\ rec \in [Stores -> Records \cup {None}] /\ lastSeq \in [Stores -> Nat]
      /\ Primary \in Stores /\ Primary \notin Instances /\ Instances \subseteq Stores
  BY BreakerAssumption DEF IInv, TypeOK, Stores
<1>2. CASE UNCHANGED vars
  BY <1>2 DEF vars, Moves, Idles, Apart
<1>3. ASSUME NEW c \in Calls, NEW i \in Instances, NEW floor \in Leases,
             AdmitOnPrimary(c, i, floor)
      PROVE  Moves
  BY <1>1, <1>3 DEF AdmitOnPrimary, DecideOnPrimary, Moves, Decides, Apart
<1>4. ASSUME NEW c \in Calls, NEW i \in Instances, NEW floor \in Leases,
             NEW fault \in Faults, AdmitOnFallback(c, i, floor, fault)
      PROVE  Moves
  <2>1. CASE fault = "lost"
    <3>1. Decides(GrantedLease(floor))
      BY <1>1, <1>4, <2>1 DEF AdmitOnFallback, Decides, Apart
    <3>2. QED
      BY <3>1 DEF Moves
  <2>2. CASE fault # "lost"
    <3>1. Idles
      BY <1>1, <1>4, <2>2 DEF AdmitOnFallback, Idles, Apart
    <3>2. QED
      BY <3>1 DEF Moves
  <2>3. QED
    BY <2>1, <2>2
<1>5. ASSUME NEW c \in Calls, NEW outcome \in Outcomes,
             NEW fault \in Faults \cup {"none"}, Settle(c, outcome, fault)
      PROVE  Moves
  <2> DEFINE t == call[c]
  <2>1. /\ t # None /\ t.store \in Stores
        /\ UNCHANGED <<now, resets, renewals>>
        /\ call'[c] = None
    BY <1>5, TokenNotAhead DEF Settle, IInv, TypeOK
  <2>2. CASE t.store # Primary
    <3>1. Idles
      BY <1>1, <1>5, <2>1, <2>2 DEF Settle, CompleteOn, Idles, Apart
    <3>2. QED
      BY <3>1 DEF Moves
  <2>3. CASE t.store = Primary /\ (fault = "refused" \/ ~ Applies(Current(Primary), t.gen, outcome))
    <3>1. UNCHANGED <<rec, lastSeq, expiresAt>>
      BY <1>5, <2>3 DEF Settle, CompleteOn
    <3>2. UNCHANGED <<alerted, report>>
      <4>1. CASE fault # "none"
        BY <1>5, <4>1 DEF Settle
      <4>2. CASE fault = "none"
        BY <1>5, <2>3, <4>2 DEF Settle, Notify
      <4>3. QED
        BY <4>1, <4>2
    <3>3. Idles
      BY <2>1, <3>1, <3>2 DEF Idles, Apart
    <3>4. QED
      BY <3>3 DEF Moves
  <2>4. CASE t.store = Primary /\ fault # "refused" /\ Applies(Current(Primary), t.gen, outcome)
    <3>1. /\ SeqRoom(Primary)
          /\ rec' = [rec EXCEPT ![Primary] = Completed(Current(Primary), outcome, now)]
          /\ lastSeq' = [lastSeq EXCEPT ![Primary] = Larger(now * SeqScale, lastSeq[Primary] + 1)]
          /\ expiresAt' = now + StateTtl
      BY <1>5, <2>4 DEF Settle, CompleteOn
    <3>2. UNCHANGED <<alerted, report>> \/ Notify(t.gen, outcome)
      BY <1>5 DEF Settle
    <3>3. Completes(c, outcome)
      BY <1>1, <2>1, <2>4, <3>1, <3>2 DEF Completes
    <3>4. QED
      BY <3>3 DEF Moves
  <2>5. QED
    BY <2>2, <2>3, <2>4
<1>6. ASSUME NEW c \in Calls, Renew(c)
      PROVE  Moves
  <2>1. /\ call[c].store \in Stores
        /\ UNCHANGED <<now, expiresAt, lastSeq, resets, alerted, report>>
        /\ rec'[Primary] = rec[Primary]
    BY <1>1, <1>6, TokenNotAhead DEF Renew
  <2>2. QED
    BY <2>1 DEF Moves, Idles, Apart
<1>7. ASSUME NEW m \in renewals, LandRenewal(m)
      PROVE  Moves
  <2>1. CASE rec[Primary] # None /\ Renewable(rec[Primary], m.gen, now)
    <3>1. Renews(m)
      BY <1>1, <1>7, <2>1 DEF LandRenewal, Renews, Apart
    <3>2. QED
      BY <3>1 DEF Moves
  <2>2. CASE ~ (rec[Primary] # None /\ Renewable(rec[Primary], m.gen, now))
    BY <1>7, <2>2 DEF LandRenewal, Moves, Idles, Apart
  <2>3. QED
    BY <2>1, <2>2
<1>8. ASSUME NEW m \in renewals, LoseRenewal(m)
      PROVE  Moves
  BY <1>8 DEF LoseRenewal, Moves, Idles, Apart
<1>9. ASSUME Reset
      PROVE  Moves
  <2>1. Resets
    BY <1>1, <1>9 DEF Reset, Resets
  <2>2. QED
    BY <2>1 DEF Moves
<1>10. ASSUME NEW i \in Instances, Crash(i)
       PROVE  Moves
  <2>1. Idles
    BY <1>1, <1>10 DEF Crash, Idles, Apart
  <2>2. QED
    BY <2>1 DEF Moves
<1>11. ASSUME Tick
       PROVE  Moves
  <2>1. Ages
    BY <1>1, <1>11 DEF Tick, Ages
  <2>2. QED
    BY <2>1 DEF Moves
<1>12. QED
  BY <1>2, <1>3, <1>4, <1>5, <1>6, <1>7, <1>8, <1>9, <1>10, <1>11 DEF Next
-----------------------------------------------------------------------------
(* The shared record, and how its generation moves.                        *)

LEMMA SharedFacts ==
  ASSUME IInv
  PROVE  /\ Primary \in Stores /\ None \notin Records
         /\ now \in Nat /\ resets \in Nat /\ expiresAt \in Nat
         /\ lastSeq[Primary] \in Nat
         /\ rec[Primary] \in Records \cup {None}
         /\ Current(Primary) \in Records /\ Current(Primary).failures < Threshold
         /\ Current(Primary).generation \in Nat
         /\ rec[Primary] # None => Current(Primary) = rec[Primary]
         /\ rec[Primary] = None => Current(Primary) = ClosedAt(now)
<1>1. Primary \in Stores /\ None \notin Records
  BY BreakerAssumption DEF Stores
<1>2. /\ now \in Nat /\ resets \in Nat /\ expiresAt \in Nat /\ lastSeq[Primary] \in Nat
      /\ rec[Primary] \in Records \cup {None}
  BY <1>1 DEF IInv, TypeOK
<1>3. Current(Primary) \in Records /\ Current(Primary).failures < Threshold
  BY <1>1, CurrentFacts
<1>4. Current(Primary).generation \in Nat
  BY <1>3 DEF Records
<1>5. QED
  BY <1>1, <1>2, <1>3, <1>4 DEF Current

\* What each move does to the record a script would read next.
LEMMA DecidesFacts ==
  ASSUME IInv, NEW floor \in Leases, Decides(GrantedLease(floor))
  PROVE  LET r == Current(Primary)
             n == Current(Primary)'
         IN /\ rec'[Primary] = n /\ n \in Records
            /\ AdmitsProbe(r, now) =>
                 /\ n.state = "half_open" /\ n.generation = r.generation + 1
                 /\ n.probeExpiresAt = now + GrantedLease(floor)
            /\ ~ AdmitsProbe(r, now) => n = r
<1> DEFINE r == Current(Primary)
           d == Decided(r, now, GrantedLease(floor))
<1>1. r \in Records /\ None \notin Records /\ now \in Nat /\ GrantedLease(floor) \in Nat \ {0}
  BY SharedFacts, LeaseFacts
<1>2. d \in Records /\ rec'[Primary] = d
  <2>1. d \in Records
    BY <1>1, 0 \in Nat, DecidedRecord
  <2>2. QED
    BY <2>1 DEF Decides
<1>3. Current(Primary)' = d
  BY <1>1, <1>2 DEF Current
<1>4. AdmitsProbe(r, now) =>
        /\ d.state = "half_open" /\ d.generation = r.generation + 1
        /\ d.probeExpiresAt = now + GrantedLease(floor)
  BY DEF Decided
<1>5. ~ AdmitsProbe(r, now) => d = r
  BY DEF Decided
<1>6. QED
  BY <1>2, <1>3, <1>4, <1>5

LEMMA CompletesFacts ==
  ASSUME IInv, NEW c \in Calls, NEW outcome \in Outcomes, Completes(c, outcome)
  PROVE  LET r == Current(Primary)
             n == Current(Primary)'
         IN /\ rec'[Primary] = n /\ n \in Records /\ n = Completed(r, outcome, now)
            /\ n.state # "half_open"
            /\ n.generation \in {r.generation, r.generation + 1}
            /\ r.state = "half_open" => n.generation = r.generation + 1
            /\ r.state # "open" /\ n.state = "open" => n.generation = r.generation + 1
<1> DEFINE r == Current(Primary)
           n == Completed(r, outcome, now)
<1>1. r \in Records /\ r.failures < Threshold /\ None \notin Records /\ now \in Nat
  BY SharedFacts
<1>2. /\ n \in Records /\ n.state # "half_open"
      /\ n.generation \in {r.generation, r.generation + 1}
  <2>1. /\ n \in Records /\ n.state # "half_open"
        /\ n.generation = r.generation \/ n.generation = r.generation + 1
    BY <1>1, 0 \in Nat, CompletedRecord
  <2>2. QED
    BY <2>1
<1>3. rec'[Primary] = n /\ Current(Primary)' = n
  BY <1>1, <1>2 DEF Completes, Current
<1>4. r.state = "half_open" => n.generation = r.generation + 1
  BY DEF Completed, Succeeded, Tripped, ClosedAt, OpenedAt
<1>5. r.state # "open" /\ n.state = "open" => n.generation = r.generation + 1
  <2>1. r.state \in {"closed", "open", "half_open"} /\ r.failures \in Nat
    BY <1>1 DEF Records
  <2>2. CASE outcome = "success"
    BY <1>1, <2>1, <2>2 DEF Completed, Succeeded, ClosedAt, Records
  <2>3. CASE outcome # "success"
    BY <1>1, <2>1, <2>3, RecordAssumption DEF Completed, Tripped, OpenedAt, Records
  <2>4. QED
    BY <2>2, <2>3
<1>6. QED
  BY <1>2, <1>3, <1>4, <1>5

LEMMA RenewsFacts ==
  ASSUME IInv, NEW m \in renewals, Renews(m)
  PROVE  LET r == Current(Primary)
             n == Current(Primary)'
         IN /\ rec[Primary] = r /\ rec'[Primary] = n /\ n \in Records
            /\ m.lease \in Nat
            /\ r.state = "half_open" /\ n.state = "half_open"
            /\ n.generation = r.generation /\ now < r.probeExpiresAt
            /\ n.probeExpiresAt = Larger(r.probeExpiresAt, now + m.lease)
<1> DEFINE r == rec[Primary]
           n == Renewed(r, now, m.lease)
<1>1. /\ r \in Records /\ r = Current(Primary) /\ None \notin Records /\ now \in Nat
      /\ r.state = "half_open" /\ now < r.probeExpiresAt
  BY SharedFacts DEF Renews, Renewable
<1>2. m.lease \in Nat
  BY DEF IInv, TypeOK, RenewalMsgs
<1>3. /\ n \in Records /\ n.state = r.state /\ n.generation = r.generation
      /\ n.probeExpiresAt = Larger(r.probeExpiresAt, now + m.lease)
  BY <1>1, <1>2 DEF Renewed, Records, Larger
<1>4. rec'[Primary] = n /\ Current(Primary)' = n
  BY <1>1, <1>3 DEF Renews, Current
<1>5. QED
  BY <1>1, <1>2, <1>3, <1>4

LEMMA ResetsFacts ==
  ASSUME IInv, Resets
  PROVE  LET r == Current(Primary)
             n == Current(Primary)'
         IN /\ rec'[Primary] = n /\ n \in Records /\ n.state = "closed"
            /\ n.generation \in Nat /\ n.generation >= r.generation
            /\ rec[Primary] # None => n.generation > r.generation
<1> DEFINE g == IF rec[Primary] = None THEN Larger(1, now)
                ELSE Larger(rec[Primary].generation + 1, now)
           r == Current(Primary)
<1>1. /\ now \in Nat /\ None \notin Records /\ r.generation \in Nat
      /\ rec[Primary] # None => r = rec[Primary]
      /\ rec[Primary] = None => r = ClosedAt(now)
  BY SharedFacts
<1>2. /\ g \in Nat /\ g >= r.generation
      /\ rec[Primary] # None => g > r.generation
  <2>1. CASE rec[Primary] = None
    BY <1>1, <2>1 DEF ClosedAt, Larger
  <2>2. CASE rec[Primary] # None
    BY <1>1, <2>2 DEF Larger
  <2>3. QED
    BY <2>1, <2>2
<1>3. /\ ClosedAt(g) \in Records /\ ClosedAt(g).state = "closed"
      /\ ClosedAt(g).generation = g
  BY <1>2 DEF ClosedAt, Records
<1>4. rec'[Primary] = ClosedAt(g) /\ Current(Primary)' = ClosedAt(g)
  BY <1>1, <1>3 DEF Resets, Current
<1>5. QED
  BY <1>2, <1>3, <1>4

\* Time leaves the record, or drops it: the next one, taken from the clock, is
\* closed and in a later generation than the dropped one.
LEMMA AgesFacts ==
  ASSUME IInv, Ages
  PROVE  LET r == Current(Primary)
             n == Current(Primary)'
         IN \/ rec[Primary] # None /\ rec'[Primary] = rec[Primary] /\ n = r
            \/ /\ rec'[Primary] = None
               /\ n.state = "closed" /\ n.generation = now + 1
               /\ r.generation < n.generation
               /\ rec[Primary] # None => now + 1 >= expiresAt
<1>1. /\ now \in Nat /\ now' = now + 1 /\ expiresAt \in Nat
      /\ Current(Primary).generation \in Nat
      /\ rec[Primary] # None => Current(Primary) = rec[Primary]
      /\ rec[Primary] = None => Current(Primary) = ClosedAt(now)
  BY SharedFacts DEF Ages
<1>2. CASE rec[Primary] # None /\ now + 1 >= expiresAt
  <2>1. rec'[Primary] = None /\ Current(Primary)' = ClosedAt(now + 1)
    BY <1>1, <1>2 DEF Ages, Current
  <2>2. rec[Primary].generation < expiresAt
    BY <1>2 DEF IInv, GenerationBound
  <2>3. QED
    BY <1>1, <1>2, <2>1, <2>2 DEF ClosedAt
<1>3. CASE rec[Primary] = None
  <2>1. rec'[Primary] = None /\ Current(Primary)' = ClosedAt(now + 1)
    BY <1>1, <1>3 DEF Ages, Current
  <2>2. QED
    BY <1>1, <1>3, <2>1 DEF ClosedAt
<1>4. CASE rec[Primary] # None /\ ~ (now + 1 >= expiresAt)
  BY <1>1, <1>4 DEF Ages, Current
<1>5. QED
  BY <1>2, <1>3, <1>4
-----------------------------------------------------------------------------
(* A lease that ran out.                                                   *)

\* However late its renewals land, no step revives a lease of the shared probe
\* that has run out: an admission or a settlement leaves its generation behind
\* (applyRenew, RENEW_LUA).
THEOREM DeadLeasesStayDead == Spec => DeadLeaseStaysDead
<1>1. ASSUME IInv, [Next]_vars, ExpiredLease,
             Current(Primary)'.generation = rec[Primary].generation
      PROVE  ExpiredLease'
  <2> DEFINE r == Current(Primary)
  <2>1. /\ rec[Primary] = r /\ r.state = "half_open" /\ now >= r.probeExpiresAt
        /\ r \in Records /\ r.generation \in Nat /\ r.probeExpiresAt \in Nat
        /\ now \in Nat /\ AdmitsProbe(r, now)
    BY <1>1, SharedFacts DEF ExpiredLease, Records, AdmitsProbe
  <2>2. CASE Idles
    BY <1>1, <2>2 DEF Idles, Apart, ExpiredLease
  <2>3. ASSUME NEW floor \in Leases, Decides(GrantedLease(floor)) PROVE FALSE
    <3>1. Current(Primary)'.generation = r.generation + 1
      BY <1>1, <2>1, <2>3, DecidesFacts
    <3>2. QED
      BY <1>1, <2>1, <3>1
  <2>4. ASSUME NEW c \in Calls, NEW outcome \in Outcomes, Completes(c, outcome)
        PROVE  FALSE
    <3>1. Current(Primary)'.generation = r.generation + 1
      BY <1>1, <2>1, <2>4, CompletesFacts
    <3>2. QED
      BY <1>1, <2>1, <3>1
  <2>5. ASSUME NEW m \in renewals, Renews(m) PROVE FALSE
    BY <1>1, <2>1, <2>5, RenewsFacts
  <2>6. ASSUME Resets PROVE FALSE
    <3>1. /\ Current(Primary)'.generation \in Nat
          /\ Current(Primary)'.generation > r.generation
      BY <1>1, <2>6, ResetsFacts, SharedFacts, <2>1
    <3>2. QED
      BY <1>1, <2>1, <3>1
  <2>7. CASE Ages
    <3>1. rec[Primary] # None /\ rec'[Primary] = rec[Primary] /\ now' = now + 1
      BY <1>1, <2>1, <2>7, AgesFacts DEF Ages
    <3>2. QED
      BY <1>1, <2>1, <3>1 DEF ExpiredLease
  <2>8. QED
    BY <1>1, <2>2, <2>3, <2>4, <2>5, <2>6, <2>7, MovesOnly DEF Moves
<1>2. IInv /\ [Next]_vars =>
        [ExpiredLease /\ Current(Primary)'.generation = rec[Primary].generation
           => ExpiredLease']_vars
  BY <1>1
<1>3. QED
  BY Invariant, <1>2, PTL DEF Spec, DeadLeaseStaysDead
-----------------------------------------------------------------------------
(* The alerts.                                                             *)

\* No generation alerted so far is ahead of the record.
AlertsBehind == \A g \in alerted : g <= Current(Primary).generation

\* The shared store's generation never falls, and one that opens is new.
LEMMA OpeningIsNew ==
  ASSUME IInv, [Next]_vars
  PROVE  /\ Current(Primary)'.generation \in Nat
         /\ Current(Primary).generation <= Current(Primary)'.generation
         /\ Current(Primary).state # "open" /\ Current(Primary)'.state = "open" =>
              /\ Current(Primary)'.generation = Current(Primary).generation + 1
              /\ \E c \in Calls, outcome \in Outcomes : Completes(c, outcome)
<1> DEFINE r == Current(Primary)
           n == Current(Primary)'
<1>1. r.generation \in Nat /\ r.state \in {"closed", "open", "half_open"} /\ now \in Nat
  BY SharedFacts DEF Records
<1>2. CASE Idles
  <2>1. n = r
    BY <1>2 DEF Idles, Apart, Current
  <2>2. QED
    BY <1>1, <2>1
<1>3. ASSUME NEW floor \in Leases, Decides(GrantedLease(floor))
      PROVE  n.generation \in Nat /\ r.generation <= n.generation
             /\ ~ (r.state # "open" /\ n.state = "open")
  BY <1>1, <1>3, DecidesFacts
<1>4. ASSUME NEW c \in Calls, NEW outcome \in Outcomes, Completes(c, outcome)
      PROVE  /\ n.generation \in Nat /\ r.generation <= n.generation
             /\ r.state # "open" /\ n.state = "open" => n.generation = r.generation + 1
  BY <1>1, <1>4, CompletesFacts
<1>5. ASSUME NEW m \in renewals, Renews(m)
      PROVE  n.generation \in Nat /\ r.generation <= n.generation /\ n.state # "open"
  BY <1>1, <1>5, RenewsFacts
<1>6. ASSUME Resets
      PROVE  n.generation \in Nat /\ r.generation <= n.generation /\ n.state # "open"
  BY <1>1, <1>6, ResetsFacts
<1>7. ASSUME Ages
      PROVE  /\ n.generation \in Nat /\ r.generation <= n.generation
             /\ ~ (r.state # "open" /\ n.state = "open")
  BY <1>1, <1>7, AgesFacts
<1>8. QED
  BY <1>2, <1>3, <1>4, <1>5, <1>6, <1>7, MovesOnly DEF Moves

\* Only an opening alerts, and it alerts its own generation.
LEMMA AlertsOnly ==
  ASSUME IInv, [Next]_vars
  PROVE  alerted' \subseteq alerted \cup {Current(Primary)'.generation}
<1>1. ASSUME NEW c \in Calls, NEW outcome \in Outcomes, Completes(c, outcome)
      PROVE  alerted' \subseteq alerted \cup {Current(Primary)'.generation}
  <2>1. Current(Primary)' = Completed(Current(Primary), outcome, now)
    BY <1>1, CompletesFacts
  <2>2. QED
    BY <1>1, <2>1 DEF Completes, Notify
<1>2. CASE UNCHANGED alerted
  BY <1>2
<1>3. \/ UNCHANGED alerted
      \/ \E c \in Calls, outcome \in Outcomes : Completes(c, outcome)
  BY MovesOnly DEF Moves, Idles, Decides, Renews, Resets, Ages, Apart
<1>4. QED
  BY <1>1, <1>2, <1>3

LEMMA AlertsInvariant == Spec => []AlertsBehind
<1>1. Init => AlertsBehind
  BY DEF Init, AlertsBehind
<1>2. IInv /\ AlertsBehind /\ [Next]_vars => AlertsBehind'
  <2> SUFFICES ASSUME IInv, AlertsBehind, [Next]_vars, NEW g \in alerted'
               PROVE  g <= Current(Primary)'.generation
    BY DEF AlertsBehind
  <2>1. /\ alerted \subseteq Nat /\ Current(Primary).generation \in Nat
        /\ Current(Primary)'.generation \in Nat
        /\ Current(Primary).generation <= Current(Primary)'.generation
        /\ g \in alerted \/ g = Current(Primary)'.generation
    BY OpeningIsNew, AlertsOnly, SharedFacts DEF IInv, TypeOK
  <2>2. g \in alerted => g \in Nat /\ g <= Current(Primary).generation
    BY <2>1 DEF AlertsBehind
  <2>3. QED
    BY <2>1, <2>2
<1>3. QED
  BY Invariant, <1>1, <1>2, PTL DEF Spec

\* A settlement that is answered justOpened has opened the record.
LEMMA OpensOnly ==
  ASSUME IInv, [Next]_vars, report' # report, report'.justOpened = 1
  PROVE  Current(Primary).state # "open" /\ Current(Primary)'.state = "open"
<1>1. PICK c \in Calls, outcome \in Outcomes : Completes(c, outcome)
  BY MovesOnly DEF Moves, Idles, Decides, Renews, Resets, Ages, Apart
<1> DEFINE after == Completed(Current(Primary), outcome, now)
           opened == Current(Primary).state # "open" /\ after.state = "open"
<1>2. Current(Primary)' = after
  BY <1>1, CompletesFacts
<1>3. report' = [seq |-> lastSeq'[Primary], turn |-> 1 - report.turn,
                 justOpened |-> IF opened THEN 1 ELSE 0]
  BY <1>1 DEF Completes, Notify
<1> HIDE DEF after
<1>4. opened
  BY <1>3
<1>5. QED
  BY <1>2, <1>4

\* An incident raises provider_down at most once: a settlement that is answered
\* justOpened carries a generation that was never alerted before, not even by a
\* record that has expired or was reset since (completeAndNotify, applyComplete).
THEOREM OneAlert == Spec => OneAlertPerOpening
<1>1. IInv /\ AlertsBehind /\ [Next]_vars =>
        [report' # report /\ report'.justOpened = 1 =>
           Current(Primary)'.generation \notin alerted]_vars
  <2> SUFFICES ASSUME IInv, AlertsBehind, [Next]_vars,
                      report' # report, report'.justOpened = 1,
                      Current(Primary)'.generation \in alerted
               PROVE  FALSE
    OBVIOUS
  <2>1. /\ Current(Primary)'.generation = Current(Primary).generation + 1
        /\ Current(Primary).generation \in Nat
    BY OpensOnly, OpeningIsNew, SharedFacts
  <2>2. QED
    BY <2>1 DEF AlertsBehind
<1>2. QED
  BY Invariant, AlertsInvariant, <1>1, PTL DEF Spec, OneAlertPerOpening
-----------------------------------------------------------------------------
(* The numbering of the reports.                                           *)

\* The sequence and the last report never reach the next clock unit; the last
\* report is behind the sequence, or behind the numbers of this clock unit,
\* from which a sequence dropped with its record starts again.
ReportBehind ==
  /\ lastSeq[Primary] < (now + 1) * SeqScale
  /\ report.seq < (now + 1) * SeqScale
  /\ report.seq <= lastSeq[Primary] \/ report.seq < now * SeqScale

LEMMA NextUnit ==
  ASSUME NEW t \in Nat
  PROVE  /\ SeqScale \in Nat /\ SeqScale > 0
         /\ t * SeqScale \in Nat
         /\ (t + 1) * SeqScale = t * SeqScale + SeqScale
  BY BreakerAssumption

\* An applied settlement takes a number past the last report, and within the
\* clock unit.
LEMMA CompletesNumbers ==
  ASSUME IInv, ReportBehind, NEW c \in Calls, NEW outcome \in Outcomes,
         Completes(c, outcome)
  PROVE  /\ lastSeq'[Primary] \in Nat
         /\ lastSeq'[Primary] > report.seq
         /\ lastSeq'[Primary] < (now + 1) * SeqScale
<1>1. /\ now \in Nat /\ lastSeq[Primary] \in Nat /\ report.seq \in Nat
  BY SharedFacts DEF IInv, TypeOK
<1>2. lastSeq'[Primary] = Larger(now * SeqScale, lastSeq[Primary] + 1)
  BY DEF Completes
<1>3. lastSeq[Primary] + 1 < (now + 1) * SeqScale
  BY DEF Completes, SeqRoom
<1>4. /\ now * SeqScale \in Nat /\ SeqScale > 0 /\ SeqScale \in Nat
      /\ (now + 1) * SeqScale = now * SeqScale + SeqScale
  BY <1>1, NextUnit
<1>5. report.seq <= lastSeq[Primary] \/ report.seq < now * SeqScale
  BY DEF ReportBehind
<1> DEFINE a == now * SeqScale
<1> HIDE DEF a
<1>6. lastSeq'[Primary] = IF a >= lastSeq[Primary] + 1 THEN a ELSE lastSeq[Primary] + 1
  BY <1>2 DEF Larger, a
<1>7. /\ a \in Nat /\ (now + 1) * SeqScale = a + SeqScale
      /\ report.seq <= lastSeq[Primary] \/ report.seq < a
  BY <1>4, <1>5 DEF a
<1>8. QED
  BY <1>1, <1>3, <1>4, <1>6, <1>7

LEMMA ReportInvariant == Spec => []ReportBehind
<1>1. Init => ReportBehind
  <2> SUFFICES ASSUME Init PROVE ReportBehind
    OBVIOUS
  <2>1. /\ now = 0 /\ lastSeq[Primary] = 0 /\ report.seq = 0
    BY DEF Init, Stores
  <2>2. (0 + 1) * SeqScale = 0 * SeqScale + SeqScale /\ SeqScale > 0 /\ 0 * SeqScale \in Nat
        /\ SeqScale \in Nat
    BY 0 \in Nat, NextUnit
  <2>3. QED
    BY <2>1, <2>2 DEF ReportBehind
<1>2. IInv /\ ReportBehind /\ [Next]_vars => ReportBehind'
  <2> SUFFICES ASSUME IInv, ReportBehind, [Next]_vars PROVE ReportBehind'
    OBVIOUS
  <2>1. /\ now \in Nat /\ lastSeq[Primary] \in Nat /\ report.seq \in Nat
    BY SharedFacts DEF IInv, TypeOK
  <2>2. CASE UNCHANGED <<now, report>> /\ lastSeq'[Primary] = lastSeq[Primary]
    BY <2>2 DEF ReportBehind
  <2>3. ASSUME NEW c \in Calls, NEW outcome \in Outcomes, Completes(c, outcome)
        PROVE  ReportBehind'
    <3>1. /\ lastSeq'[Primary] \in Nat /\ lastSeq'[Primary] > report.seq
          /\ lastSeq'[Primary] < (now + 1) * SeqScale
      BY <2>3, CompletesNumbers
    <3>2. now' = now /\ (report' = report \/ report'.seq = lastSeq'[Primary])
      BY <2>3 DEF Completes, Notify
    <3>3. QED
      BY <2>1, <3>1, <3>2 DEF ReportBehind
  <2>4. CASE Ages
    <3> DEFINE u == (now + 1) * SeqScale
    <3>1. u \in Nat /\ (now' + 1) * SeqScale = u + SeqScale /\ SeqScale \in Nat /\ SeqScale > 0
          /\ now' * SeqScale = u
      BY <2>1, <2>4, NextUnit, now + 1 \in Nat DEF Ages
    <3>2. report' = report /\ lastSeq'[Primary] \in {0, lastSeq[Primary]}
      BY <2>4 DEF Ages
    <3>3. lastSeq[Primary] < u /\ report.seq < u
      BY DEF ReportBehind
    <3> HIDE DEF u
    <3>4. lastSeq'[Primary] < u + SeqScale /\ report'.seq < u
      BY <2>1, <3>1, <3>2, <3>3
    <3>5. report'.seq < u + SeqScale
      BY <2>1, <3>1, <3>2, <3>4
    <3>6. QED
      BY <3>1, <3>4, <3>5 DEF ReportBehind
  <2>5. QED
    BY <2>2, <2>3, <2>4, MovesOnly
    DEF Moves, Idles, Decides, Renews, Resets, Apart
<1>3. QED
  BY Invariant, <1>1, <1>2, PTL DEF Spec

\* The settlements the health hook hears of are numbered in strictly increasing
\* order, also when the record, and the sequence in it, expired in between
\* (COMPLETE_LUA).
THEOREM ReportsAreOrdered == Spec => ReportsIncrease
<1>1. IInv /\ ReportBehind /\ [Next]_vars =>
        [report'.turn # report.turn => report'.seq > report.seq]_report
  <2> SUFFICES ASSUME IInv, ReportBehind, [Next]_vars, report'.turn # report.turn
               PROVE  report'.seq > report.seq
    OBVIOUS
  <2>1. PICK c \in Calls, outcome \in Outcomes : Completes(c, outcome)
    BY MovesOnly DEF Moves, Idles, Decides, Renews, Resets, Ages, Apart
  <2>2. report' = report \/ report'.seq = lastSeq'[Primary]
    BY <2>1 DEF Completes, Notify
  <2>3. QED
    BY <2>1, <2>2, CompletesNumbers
<1>2. QED
  BY Invariant, ReportInvariant, <1>1, PTL DEF Spec, ReportsIncrease
-----------------------------------------------------------------------------
(* The lease and the life of the record, where one patience is granted.    *)

\* Every lease a call holds or a renewal asks for is l.
OneLease(l) ==
  /\ \A c \in Calls : call[c] # None => call[c].lease = l
  /\ \A m \in renewals : m.lease = l

\* The shared probe's lease ends at most l from now, and before the record.
LeaseFits(l) ==
  rec[Primary] # None /\ rec[Primary].state = "half_open" =>
    /\ rec[Primary].probeExpiresAt <= now + l
    /\ rec[Primary].probeExpiresAt < expiresAt

LEMMA OneLeaseStep ==
  ASSUME IInv, NEW l \in Nat, \A floor \in Leases : GrantedLease(floor) = l,
         OneLease(l), [Next]_vars
  PROVE  OneLease(l)'
<1>1. call \in [Calls -> Tokens \cup {None}]
  BY DEF IInv, TypeOK
<1>2. CASE UNCHANGED <<call, renewals>>
  BY <1>2 DEF OneLease
<1>3. ASSUME NEW c \in Calls, NEW i \in Instances, NEW s \in Stores,
             NEW floor \in Leases, Receive(c, i, s, GrantedLease(floor)),
             renewals' = renewals
      PROVE  OneLease(l)'
  <2>1. \A d \in Calls : call'[d] = call[d] \/ call'[d].lease = l
    BY <1>1, <1>3 DEF Receive
  <2>2. QED
    BY <1>3, <2>1 DEF OneLease
<1>4. ASSUME NEW c \in Calls, Renew(c)
      PROVE  OneLease(l)'
  <2>1. /\ call[c] # None /\ call[c].lease = l /\ call[c] \in Tokens
        /\ call' = [call EXCEPT ![c].lastRenew = now]
        /\ \/ renewals' = renewals \cup {[gen |-> call[c].gen, lease |-> call[c].lease]}
           \/ renewals' = renewals
    BY <1>1, <1>4, TokenNotAhead DEF Renew, OneLease
  <2>2. \A d \in Calls : call'[d] = call[d] \/ call'[d].lease = l
    BY <1>1, <2>1 DEF Tokens
  <2>3. \A m \in renewals' : m \in renewals \/ m.lease = l
    BY <2>1
  <2>4. QED
    BY <2>2, <2>3 DEF OneLease
<1>5. ASSUME \A d \in Calls : call'[d] = call[d] \/ call'[d] = None,
             renewals' \subseteq renewals
      PROVE  OneLease(l)'
  BY <1>5 DEF OneLease
<1>6. ASSUME NEW c \in Calls, NEW outcome \in Outcomes,
             NEW fault \in Faults \cup {"none"}, Settle(c, outcome, fault)
      PROVE  OneLease(l)'
  BY <1>1, <1>5, <1>6 DEF Settle
<1>7. ASSUME NEW m \in renewals, LandRenewal(m) \/ LoseRenewal(m)
      PROVE  OneLease(l)'
  BY <1>5, <1>7 DEF LandRenewal, LoseRenewal
<1>8. ASSUME NEW i \in Instances, Crash(i)
      PROVE  OneLease(l)'
  BY <1>5, <1>8 DEF Crash
<1>9. ASSUME NEW c \in Calls, NEW i \in Instances, NEW floor \in Leases,
             AdmitOnPrimary(c, i, floor)
      PROVE  OneLease(l)'
  BY <1>3, <1>9 DEF AdmitOnPrimary, Stores
<1>10. ASSUME NEW c \in Calls, NEW i \in Instances, NEW floor \in Leases,
              NEW fault \in Faults, AdmitOnFallback(c, i, floor, fault)
       PROVE  OneLease(l)'
  BY <1>3, <1>10 DEF AdmitOnFallback, Stores
<1>11. QED
  BY <1>2, <1>4, <1>6, <1>7, <1>8, <1>9, <1>10
  DEF Next, vars, Reset, Tick

\* The TTL that goes with a lease outlasts it (cfgForLease).
LEMMA TtlOutlastsLease ==
  ASSUME NEW l \in Nat
  PROVE  TtlFor(l) \in Nat /\ TtlFor(l) > l
  BY BreakerAssumption DEF TtlFor, Larger

LEMMA LeaseFitsStep ==
  ASSUME IInv, NEW l \in Nat, \A floor \in Leases : GrantedLease(floor) = l,
         OneLease(l), LeaseFits(l), [Next]_vars
  PROVE  LeaseFits(l)'
<1> DEFINE r == Current(Primary)
           n == Current(Primary)'
<1>1. /\ now \in Nat /\ expiresAt \in Nat /\ r \in Records
      /\ rec[Primary] # None => r = rec[Primary]
      /\ rec[Primary] = None => r.state = "closed"
      /\ TtlFor(l) \in Nat /\ TtlFor(l) > l
  BY SharedFacts, TtlOutlastsLease DEF ClosedAt
<1>2. r.probeExpiresAt \in Nat
  BY <1>1 DEF Records
<1>3. r.state = "half_open" =>
        r.probeExpiresAt <= now + l /\ r.probeExpiresAt < expiresAt
  BY <1>1 DEF LeaseFits
<1>4. CASE Idles
  BY <1>4 DEF Idles, Apart, LeaseFits
<1>5. ASSUME NEW floor \in Leases, Decides(GrantedLease(floor))
      PROVE  LeaseFits(l)'
  <2>1. /\ rec'[Primary] = n /\ now' = now /\ expiresAt' = now + TtlFor(l)
        /\ \/ n.probeExpiresAt = now + l
           \/ n = r
    BY <1>5, DecidesFacts DEF Decides, Apart
  <2>2. n.state = "half_open" =>
          n.probeExpiresAt <= now + l /\ n.probeExpiresAt < now + TtlFor(l)
    BY <1>1, <1>2, <1>3, <2>1
  <2>3. QED
    BY <2>1, <2>2 DEF LeaseFits
<1>6. ASSUME NEW c \in Calls, NEW outcome \in Outcomes, Completes(c, outcome)
      PROVE  LeaseFits(l)'
  BY <1>6, CompletesFacts DEF LeaseFits
<1>7. ASSUME NEW m \in renewals, Renews(m)
      PROVE  LeaseFits(l)'
  <2>1. /\ rec'[Primary] = n /\ now' = now /\ m.lease = l
        /\ expiresAt' = now + TtlFor(l)
        /\ r.state = "half_open"
        /\ n.probeExpiresAt = Larger(r.probeExpiresAt, now + l)
    BY <1>7, RenewsFacts DEF Renews, Apart, OneLease
  <2>2. n.probeExpiresAt <= now + l /\ n.probeExpiresAt < now + TtlFor(l)
    BY <1>1, <1>2, <1>3, <2>1 DEF Larger
  <2>3. QED
    BY <2>1, <2>2 DEF LeaseFits
<1>8. CASE Resets
  BY <1>8, ResetsFacts DEF LeaseFits
<1>9. CASE Ages
  <2>1. /\ now' = now + 1 /\ expiresAt' = expiresAt
        /\ rec'[Primary] = None \/ rec'[Primary] = rec[Primary]
    BY <1>9 DEF Ages
  <2>2. rec'[Primary] # None /\ rec'[Primary].state = "half_open" =>
          /\ rec'[Primary].probeExpiresAt <= now' + l
          /\ rec'[Primary].probeExpiresAt < expiresAt'
    BY <1>1, <1>2, <1>3, <2>1
  <2>3. QED
    BY <2>2 DEF LeaseFits
<1>10. QED
  BY <1>4, <1>5, <1>6, <1>7, <1>8, <1>9, MovesOnly DEF Moves

LEMMA LeaseInvariant ==
  ASSUME NEW floor \in Nat, Leases \subseteq {floor}
  PROVE  Spec => [](OneLease(GrantedLease(floor)) /\ LeaseFits(GrantedLease(floor)))
<1> DEFINE l == GrantedLease(floor)
<1>1. l \in Nat /\ \A f \in Leases : GrantedLease(f) = l
  BY BreakerAssumption DEF GrantedLease, Larger
<1> HIDE DEF l
<1>2. Init => OneLease(l) /\ LeaseFits(l)
  BY DEF Init, OneLease, LeaseFits, Stores
<1>3. IInv /\ OneLease(l) /\ LeaseFits(l) /\ [Next]_vars
        => OneLease(l)' /\ LeaseFits(l)'
  BY <1>1, OneLeaseStep, LeaseFitsStep
<1>4. Spec => [](OneLease(l) /\ LeaseFits(l))
  BY Invariant, <1>2, <1>3, PTL DEF Spec
<1>5. QED
  BY <1>4 DEF l

\* Where callers have loaded one patience, the shared record is still there
\* when its probe's lease ends, widened or renewed as it may be (cfgForLease).
THEOREM RecordOutlives ==
  ASSUME NEW floor \in Nat, Leases \subseteq {floor}
  PROVE  Spec => []RecordOutlivesLease
<1>1. IInv /\ LeaseFits(GrantedLease(floor)) => RecordOutlivesLease
  <2> SUFFICES ASSUME IInv, LeaseFits(GrantedLease(floor)), rec[Primary] # None,
                      rec[Primary].state = "half_open"
               PROVE  expiresAt > rec[Primary].probeExpiresAt
    BY DEF RecordOutlivesLease
  <2>1. rec[Primary] \in Records /\ expiresAt \in Nat
    BY SharedFacts
  <2>2. rec[Primary].probeExpiresAt \in Nat /\ rec[Primary].probeExpiresAt < expiresAt
    BY <2>1 DEF LeaseFits, Records
  <2>3. QED
    BY <2>1, <2>2
<1>2. QED
  BY Invariant, LeaseInvariant, <1>1, PTL

\* And then nobody is admitted beside a probe whose lease is running: its
\* generation ends with its own settlement or a reset (decide, applyRenew).
THEOREM LeaseExcludes ==
  ASSUME NEW floor \in Nat, Leases \subseteq {floor}
  PROVE  Spec => LeaseIsExclusive
<1> DEFINE Held == LET r == rec[Primary] IN
                   r # None /\ r.state = "half_open" /\ now < r.probeExpiresAt
           Kept == LET r == rec[Primary] IN
             \/ rec'[Primary] # None /\ rec'[Primary].generation = r.generation
             \/ resets' # resets
             \/ \E c \in Running : call[c].store = Primary /\ call[c].gen = r.generation
                                   /\ call'[c] = None
<1>1. ASSUME IInv, LeaseFits(GrantedLease(floor)), [Next]_vars, Held
      PROVE  Kept
  <2> DEFINE r == rec[Primary]
  <2>1. /\ r # None /\ r \in Records /\ None \notin Records /\ r.state = "half_open"
        /\ r = Current(Primary)
        /\ now \in Nat /\ expiresAt \in Nat /\ resets \in Nat
        /\ ~ (now >= r.probeExpiresAt) /\ r.probeExpiresAt < expiresAt
        /\ r.probeExpiresAt \in Nat
    BY <1>1, SharedFacts DEF LeaseFits, Records
  <2>2. ~ AdmitsProbe(r, now)
    BY <2>1 DEF AdmitsProbe
  <2>3. CASE Idles
    BY <2>1, <2>3 DEF Idles
  <2>4. ASSUME NEW f \in Leases, Decides(GrantedLease(f)) PROVE Kept
    <3>1. rec'[Primary] = r
      BY <1>1, <2>1, <2>2, <2>4, DecidesFacts
    <3>2. QED
      BY <2>1, <3>1
  <2>5. ASSUME NEW c \in Calls, NEW outcome \in Outcomes, Completes(c, outcome)
        PROVE  Kept
    BY <2>1, <2>5 DEF Completes, Applies, Running
  <2>6. ASSUME NEW m \in renewals, Renews(m) PROVE Kept
    <3>1. rec'[Primary] \in Records /\ rec'[Primary].generation = r.generation
      BY <1>1, <2>1, <2>6, RenewsFacts
    <3>2. QED
      BY <2>1, <3>1
  <2>7. ASSUME Resets PROVE Kept
    BY <2>1, <2>7 DEF Resets
  <2>8. ASSUME Ages PROVE Kept
    <3>1. ~ (now + 1 >= expiresAt)
      BY <2>1
    <3>2. rec'[Primary] = r
      BY <2>1, <2>8, <3>1 DEF Ages
    <3>3. QED
      BY <2>1, <3>2
  <2>9. QED
    BY <1>1, <2>3, <2>4, <2>5, <2>6, <2>7, <2>8, MovesOnly DEF Moves
<1>2. IInv /\ LeaseFits(GrantedLease(floor)) /\ [Next]_vars => [Held => Kept]_vars
  BY <1>1
<1>3. QED
  BY Invariant, LeaseInvariant, <1>2, PTL DEF Spec, LeaseIsExclusive
=============================================================================
