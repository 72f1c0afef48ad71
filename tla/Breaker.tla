------------------------------- MODULE Breaker -------------------------------
(***************************************************************************)
(* The circuit breaker of one provider, as the instances of the control    *)
(* plane share it: one record in the shared (primary) store, one in-memory *)
(* fallback record per instance for the time the primary is unreachable,   *)
(* and the calls in flight, each holding the token its admission issued.   *)
(* Providers have separate records, so one provider is the whole story.    *)
(*                                                                         *)
(* A store operation is one Lua script and is atomic; a call interleaves   *)
(* with everything else between its admission, its lease renewals (which   *)
(* are never awaited) and its one settlement.                              *)
(***************************************************************************)
EXTENDS BreakerRecord

CONSTANTS
  Instances,    \* control-plane processes; also names their fallback stores
  Primary,      \* the shared store
  Calls,        \* slots for calls in flight
  None,         \* no record / no call
  BaseLease,    \* the configured probe lease
  Leases,       \* the lease floors of the provider rows callers have loaded
  StateTtl,     \* time to live of the shared record
  Headroom,     \* how far a widened record outlives its widened lease
  ResetTtl,     \* time to live of a record written by a reset
  SeqScale,     \* event sequence numbers per clock unit
  Faults,       \* ways the primary fails: "refused", "lost" (a lost reply)
  MaxTime,      \* bound on the clock
  MaxResets     \* bound on the number of reauthorizations

Stores == Instances \cup {Primary}

Tokens == [inst : Instances, store : Stores, gen : Nat, probe : BOOLEAN,
           lease : Nat, lastRenew : Nat]

RenewalMsgs == [gen : Nat, lease : Nat]

\* The record of the shared store lives longer than the generations of the
\* calls it admitted run ahead of the clock (300 000 ms against a handful).
ASSUME BreakerAssumption ==
  /\ Primary \notin Instances
  /\ None \notin Records \cup Tokens
  /\ BaseLease \in Nat \ {0} /\ Leases \subseteq Nat
  /\ MaxTime \in Nat /\ MaxResets \in Nat
  /\ StateTtl \in Nat /\ StateTtl > 2 * MaxResets + 1 /\ StateTtl > BaseLease
  /\ Headroom \in Nat \ {0}
  /\ ResetTtl \in Nat /\ ResetTtl >= StateTtl
  /\ SeqScale \in Nat \ {0}
  /\ Faults \subseteq {"refused", "lost"}

VARIABLES
  now,        \* the clock of the shared store
  rec,        \* rec[s]: the record of store s, or None
  expiresAt,  \* when the shared store drops its record
  lastSeq,    \* lastSeq[s]: last event sequence of store s
  call,       \* call[c]: the token call c holds, or None
  renewals,   \* lease renewals sent to the shared store and not yet landed
  resets,     \* number of resets so far (bounded by MaxResets)
  alerted,    \* history: generations for which provider_down was raised
  report      \* history: last settlement reported to the health hook

vars == <<now, rec, expiresAt, lastSeq, call, renewals, resets, alerted, report>>

\* Types, and the threshold: a closed breaker never holds Threshold failures.
TypeOK ==
  /\ now \in Nat
  /\ rec \in [Stores -> Records \cup {None}]
  /\ \A s \in Stores : rec[s] # None => rec[s].failures < Threshold
  /\ expiresAt \in Nat
  /\ lastSeq \in [Stores -> Nat]
  /\ call \in [Calls -> Tokens \cup {None}]
  /\ renewals \in SUBSET RenewalMsgs
  /\ resets \in Nat
  /\ alerted \in SUBSET Nat
  /\ report \in [seq : Nat, turn : {0, 1}, justOpened : {0, 1}]

Init ==
  /\ now = 0
  /\ rec = [s \in Stores |-> None]
  /\ expiresAt = 0
  /\ lastSeq = [s \in Stores |-> 0]
  /\ call = [c \in Calls |-> None]
  /\ renewals = {}
  /\ resets = 0
  /\ alerted = {}
  /\ report = [seq |-> 0, turn |-> 0, justOpened |-> 0]

\* Mutant: a missing record starts again at the first generation.
CurrentFromZero(s) == IF rec[s] = None THEN ClosedAt(0) ELSE rec[s]

\* What a script reads: a missing record is closed, in a generation taken from
\* the clock so that no token of the vanished record can carry it.
Current(s) == IF rec[s] = None THEN ClosedAt(now) ELSE rec[s]

GrantedLease(floor) == Larger(BaseLease, floor)

\* Mutant: a widened lease keeps the configured record TTL.
TtlUnwidened(lease) == StateTtl

\* A widened lease widens the record's TTL with it, so that it outlives it.
TtlFor(lease) ==
  IF lease <= BaseLease THEN StateTtl ELSE Larger(StateTtl, lease + Headroom)

Running == {c \in Calls : call[c] # None}

\* `decide` executed by the shared store: the record is always written back
\* and its TTL refreshed, whether the call is admitted or skipped.
DecideOnPrimary(lease) ==
  /\ rec' = [rec EXCEPT ![Primary] = Decided(Current(Primary), now, lease)]
  /\ expiresAt' = now + TtlFor(lease)

\* The caller's view of an admission by store s: a token when it is allowed,
\* ProviderCircuitOpenError and no token when it is skipped.
Receive(c, i, s, lease) ==
  call' = IF Allows(Current(s), now)
          THEN [call EXCEPT ![c] =
                 [inst |-> i, store |-> s, lease |-> lease, lastRenew |-> now,
                  gen |-> Decided(Current(s), now, lease).generation,
                  probe |-> AdmitsProbe(Current(s), now)]]
          ELSE call

\* A call of instance i is admitted or skipped by the shared store.
AdmitOnPrimary(c, i, floor) ==
  LET lease == GrantedLease(floor) IN
  /\ call[c] = None
  /\ DecideOnPrimary(lease)
  /\ Receive(c, i, Primary, lease)
  /\ UNCHANGED <<now, lastSeq, renewals, resets, alerted, report>>

\* The shared store faults, so the instance's fallback store decides.  With a
\* lost reply the script did run: a probe may be granted to nobody.
AdmitOnFallback(c, i, floor, fault) ==
  LET lease == GrantedLease(floor)
      own == [rec EXCEPT ![i] = Decided(Current(i), now, lease)]
  IN
  /\ call[c] = None
  /\ IF fault = "lost"
     THEN /\ rec' = [own EXCEPT ![Primary] = Decided(Current(Primary), now, lease)]
          /\ expiresAt' = now + TtlFor(lease)
     ELSE rec' = own /\ UNCHANGED expiresAt
  /\ Receive(c, i, i, lease)
  /\ UNCHANGED <<now, lastSeq, renewals, resets, alerted, report>>

\* Mutant: the event sequence is the clock alone.
CompleteOnClockSeq(s, gen, outcome) ==
  IF Applies(Current(s), gen, outcome)
  THEN /\ rec' = [rec EXCEPT ![s] = Completed(Current(s), outcome, now)]
       /\ lastSeq' = [lastSeq EXCEPT ![s] = now * SeqScale]
       /\ expiresAt' = IF s = Primary THEN now + StateTtl ELSE expiresAt
  ELSE UNCHANGED <<rec, lastSeq, expiresAt>>

\* `complete` executed by store s: nothing is written unless it applies.
CompleteOn(s, gen, outcome) ==
  IF Applies(Current(s), gen, outcome)
  THEN /\ rec' = [rec EXCEPT ![s] = Completed(Current(s), outcome, now)]
       /\ lastSeq' = [lastSeq EXCEPT ![s] = Larger(now * SeqScale, lastSeq[s] + 1)]
       /\ expiresAt' = IF s = Primary THEN now + StateTtl ELSE expiresAt
  ELSE UNCHANGED <<rec, lastSeq, expiresAt>>

\* Bound: fewer than SeqScale (1000) completions of a provider per clock unit.
SeqRoom(s) == lastSeq[s] + 1 < (now + 1) * SeqScale

\* completeAndNotify for a completion the shared store answered: an opening
\* raises provider_down, an applied completion reaches the health hook.
Notify(gen, outcome) ==
  LET before == Current(Primary)
      after == Completed(before, outcome, now)
      applied == Applies(before, gen, outcome)
      justOpened == before.state # "open" /\ after.state = "open"
  IN
  /\ alerted' = IF applied /\ justOpened
                THEN alerted \cup {after.generation} ELSE alerted
  /\ report' = IF applied
               THEN [seq |-> lastSeq'[Primary], turn |-> 1 - report.turn,
                     justOpened |-> IF justOpened THEN 1 ELSE 0]
               ELSE report

\* A call settles on the store that admitted it.  Only the shared store's
\* answer is notified: not a fallback's, and not a fault's.
Settle(c, outcome, fault) ==
  LET t == call[c] IN
  /\ call[c] # None
  /\ Applies(Current(t.store), t.gen, outcome) => SeqRoom(t.store)
  /\ IF t.store = Primary /\ fault = "refused"
     THEN UNCHANGED <<rec, lastSeq, expiresAt>>
     ELSE CompleteOn(t.store, t.gen, outcome)
  /\ IF t.store = Primary /\ fault = "none"
     THEN Notify(t.gen, outcome)
     ELSE UNCHANGED <<alerted, report>>
  /\ call' = [call EXCEPT ![c] = None]
  /\ UNCHANGED <<now, renewals, resets>>

\* Upstream bytes reach a probe: at most once per third of its lease it sends
\* a renewal, without waiting for it.  A fallback store is a synchronous call.
Renew(c) ==
  LET t == call[c] IN
  /\ call[c] # None
  /\ t.probe
  /\ now >= t.lastRenew + Larger(1, t.lease \div 3)
  /\ call' = [call EXCEPT ![c].lastRenew = now]
  /\ IF t.store = Primary
     THEN renewals' = renewals \cup {[gen |-> t.gen, lease |-> t.lease]} /\ UNCHANGED rec
     ELSE /\ rec' = IF rec[t.store] # None /\ Renewable(rec[t.store], t.gen, now)
                    THEN [rec EXCEPT ![t.store] = Renewed(@, now, t.lease)] ELSE rec
          /\ UNCHANGED renewals
  /\ UNCHANGED <<now, expiresAt, lastSeq, resets, alerted, report>>

\* A renewal reaches the shared store, possibly after its call has settled.
LandRenewal(m) ==
  /\ m \in renewals
  /\ renewals' = renewals \ {m}
  /\ IF rec[Primary] # None /\ Renewable(rec[Primary], m.gen, now)
     THEN /\ rec' = [rec EXCEPT ![Primary] = Renewed(@, now, m.lease)]
          /\ expiresAt' = now + TtlFor(m.lease)
     ELSE UNCHANGED <<rec, expiresAt>>
  /\ UNCHANGED <<now, lastSeq, call, resets, alerted, report>>

\* A renewal is lost with the connection; its error is contained.
LoseRenewal(m) ==
  /\ m \in renewals
  /\ renewals' = renewals \ {m}
  /\ UNCHANGED <<now, rec, expiresAt, lastSeq, call, resets, alerted, report>>

\* Mutant: reset deletes back to a reusable generation.
ResetToZero ==
  /\ resets < MaxResets
  /\ resets' = resets + 1
  /\ rec' = [rec EXCEPT ![Primary] = ClosedAt(0)]
  /\ expiresAt' = now + ResetTtl
  /\ UNCHANGED <<now, lastSeq, call, renewals, alerted, report>>

\* A successful reauthorization resets the shared record: closed, with the
\* generation advanced past every call admitted before.
Reset ==
  /\ resets < MaxResets
  /\ resets' = resets + 1
  /\ rec' = [rec EXCEPT ![Primary] =
       ClosedAt(IF rec[Primary] = None THEN Larger(1, now)
                ELSE Larger(rec[Primary].generation + 1, now))]
  /\ expiresAt' = now + ResetTtl
  /\ UNCHANGED <<now, lastSeq, call, renewals, alerted, report>>

\* A process dies: its calls never settle and its fallback store is gone.
Crash(i) ==
  /\ rec' = [rec EXCEPT ![i] = None]
  /\ lastSeq' = [lastSeq EXCEPT ![i] = 0]
  /\ call' = [c \in Calls |-> IF call[c] # None /\ call[c].inst = i
                              THEN None ELSE call[c]]
  /\ UNCHANGED <<now, expiresAt, renewals, resets, alerted, report>>

\* Time passes; the shared store drops its record (and the event sequence kept
\* in it) at the instant its TTL ends.
Tick ==
  /\ now < MaxTime
  /\ now' = now + 1
  /\ IF rec[Primary] # None /\ now + 1 >= expiresAt
     THEN /\ rec' = [rec EXCEPT ![Primary] = None]
          /\ lastSeq' = [lastSeq EXCEPT ![Primary] = 0]
     ELSE UNCHANGED <<rec, lastSeq>>
  /\ UNCHANGED <<expiresAt, call, renewals, resets, alerted, report>>

Next ==
  \/ \E c \in Calls, i \in Instances, floor \in Leases : AdmitOnPrimary(c, i, floor)
  \/ \E c \in Calls, i \in Instances, floor \in Leases, fault \in Faults :
       AdmitOnFallback(c, i, floor, fault)
  \/ \E c \in Calls, outcome \in Outcomes, fault \in Faults \cup {"none"} :
       Settle(c, outcome, fault)
  \/ \E c \in Calls : Renew(c)
  \/ \E m \in renewals : LandRenewal(m)
  \/ \E m \in renewals : LoseRenewal(m)
  \/ Reset
  \/ \E i \in Instances : Crash(i)
  \/ Tick

Spec == Init /\ [][Next]_vars

\* Calls are bounded by timeouts, so each settles; requests keep arriving, so
\* some admission is always attempted on a reachable store; time passes.
Fairness ==
  /\ WF_vars(Tick)
  /\ \A c \in Calls : WF_vars(\E outcome \in Outcomes : Settle(c, outcome, "none"))
  /\ WF_vars(\E c \in Calls, i \in Instances, floor \in Leases : AdmitOnPrimary(c, i, floor))

FairSpec == Spec /\ Fairness
-----------------------------------------------------------------------------
(* Properties.                                                             *)

\* Call c holds a token whose completion would not count any more.
Stale(c) == call[c] # None /\ call[c].gen # Current(call[c].store).generation

\* A superseded call never counts again: once its generation is behind, no
\* reset, record expiry, reclaim or clock-seeded new record makes it current
\* while it runs (recordFor, applyComplete, RESET_LUA).
StaleStaysStale ==
  [][\A c \in Calls : Stale(c) /\ call'[c] # None => Stale(c)']_vars

\* A half-open breaker listens to one call: at most one call in flight holds
\* the current generation, and that call was admitted as the probe, never
\* while the breaker was closed (decide, applyComplete).
OneProbe ==
  \A s \in Stores : rec[s] # None /\ rec[s].state = "half_open" =>
    \A c, d \in Running :
      /\ call[c].store = s /\ call[c].gen = rec[s].generation
      /\ call[d].store = s /\ call[d].gen = rec[s].generation
      => c = d /\ call[c].probe

\* The shared record outlives the lease of the probe it stands for, so an
\* unexpired probe is never bypassed by a record that vanished (cfgForLease).
RecordOutlivesLease ==
  rec[Primary] # None /\ rec[Primary].state = "half_open" =>
    expiresAt > rec[Primary].probeExpiresAt

\* While the lease of the shared probe is running, only the probe's own
\* settlement, a reset or nothing changes the generation: no second call is
\* admitted beside it (decide, applyRenew).
LeaseIsExclusive ==
  [][ LET r == rec[Primary] IN
      r # None /\ r.state = "half_open" /\ now < r.probeExpiresAt =>
        \/ rec'[Primary] # None /\ rec'[Primary].generation = r.generation
        \/ resets' # resets
        \/ \E c \in Running : call[c].store = Primary /\ call[c].gen = r.generation
                              /\ call'[c] = None ]_vars

\* The shared probe's lease has run out.
ExpiredLease ==
  rec[Primary] # None /\ rec[Primary].state = "half_open"
    /\ now >= rec[Primary].probeExpiresAt

\* A lease that ran out is never revived for the same probe, however late its
\* renewals land (applyRenew, RENEW_LUA): only reclaim or settlement follow.
DeadLeaseStaysDead ==
  [][ ExpiredLease /\ Current(Primary)'.generation = rec[Primary].generation
        => ExpiredLease' ]_vars

\* provider_down is raised for one incident at most once: a settlement that is
\* answered justOpened, whatever it found, carries a generation that was never
\* alerted before (completeAndNotify).
OneAlertPerOpening ==
  [][ report' # report /\ report'.justOpened = 1 =>
        Current(Primary)'.generation \notin alerted ]_vars

\* Applied settlements are numbered in strictly increasing order, also across
\* the record's expiry and reset (lastSeq; the health signal orders by it).
ReportsIncrease ==
  [][ report'.turn # report.turn => report'.seq > report.seq ]_report

\* An open breaker whose cooldown is over gets its probe.
OpenIsProbed ==
  (rec[Primary] # None /\ rec[Primary].state = "open"
     /\ now >= rec[Primary].openedAt + Cooldown)
  ~> (rec[Primary] = None \/ rec[Primary].state # "open")

\* A probe that fell silent (its process died, its admission reply was lost)
\* does not hold the breaker: an expired lease is settled or reclaimed.
ExpiredLeaseIsReclaimed == ExpiredLease ~> ~ExpiredLease
==============================================================================
