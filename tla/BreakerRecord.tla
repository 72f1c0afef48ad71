---------------------------- MODULE BreakerRecord ----------------------------
(***************************************************************************)
(* The pure record arithmetic of the circuit breaker: admission (`decide`), *)
(* completion, lease renewal and reset.  The in-memory store runs these as  *)
(* TypeScript functions, the shared store as one Lua script each; both are  *)
(* atomic, and both compute what is defined here.                           *)
(***************************************************************************)
EXTENDS Naturals

CONSTANTS
  Threshold,   \* consecutive trips that open a closed breaker
  Cooldown     \* how long an open breaker skips before it admits a probe

\* Three clock units of cooldown cover the three generation bumps of one
\* closed -> open -> half_open -> closed cycle (30 000 ms in the code).
ASSUME RecordAssumption ==
  /\ Threshold \in Nat \ {0}
  /\ Cooldown \in Nat /\ Cooldown >= 3

Outcomes == {"success", "trip", "neutral"}

Records == [state : {"closed", "open", "half_open"}, failures : Nat,
            openedAt : Nat, generation : Nat, probeExpiresAt : Nat]

Larger(a, b) == IF a >= b THEN a ELSE b

\* A breaker closed with no failures, in the given generation.
ClosedAt(gen) ==
  [state |-> "closed", failures |-> 0, openedAt |-> 0,
   generation |-> gen, probeExpiresAt |-> 0]

OpenedAt(rec, now) ==
  [state |-> "open", failures |-> 0, openedAt |-> now,
   generation |-> rec.generation + 1, probeExpiresAt |-> 0]

\* Mutant: a half-open breaker waits for its probe however long it is silent.
AdmitsProbeNoReclaim(rec, now) ==
  rec.state = "open" /\ now >= rec.openedAt + Cooldown

\* Mutant: a half-open breaker admits a probe beside the one it waits for.
AdmitsProbeUnleased(rec, now) ==
  \/ rec.state = "open" /\ now >= rec.openedAt + Cooldown
  \/ rec.state = "half_open"

\* Mutant: only an expired probe is replaced, an open breaker is not probed.
AdmitsProbeOnlyReclaim(rec, now) ==
  rec.state = "half_open" /\ now >= rec.probeExpiresAt

\* An admission at `now` becomes the probe when the cooldown is over, or when
\* the previous probe's lease has run out and is reclaimed.
AdmitsProbe(rec, now) ==
  \/ rec.state = "open" /\ now >= rec.openedAt + Cooldown
  \/ rec.state = "half_open" /\ now >= rec.probeExpiresAt

Allows(rec, now) == rec.state = "closed" \/ AdmitsProbe(rec, now)

\* Mutant: a probe keeps the generation of the record it was admitted from.
DecidedSameGeneration(rec, now, lease) ==
  IF AdmitsProbe(rec, now)
  THEN [state |-> "half_open", failures |-> 0, openedAt |-> rec.openedAt,
        generation |-> rec.generation, probeExpiresAt |-> now + lease]
  ELSE rec

\* The record after an admission; a probe starts a generation of its own.
Decided(rec, now, lease) ==
  IF AdmitsProbe(rec, now)
  THEN [state |-> "half_open", failures |-> 0, openedAt |-> rec.openedAt,
        generation |-> rec.generation + 1, probeExpiresAt |-> now + lease]
  ELSE rec

\* A completion counts only in the generation that admitted its call.
Applies(rec, gen, outcome) == gen = rec.generation /\ outcome # "neutral"

Succeeded(rec) ==
  CASE rec.state = "half_open" -> ClosedAt(rec.generation + 1)
    [] rec.state = "closed" -> [rec EXCEPT !.failures = 0]
    [] OTHER -> rec

Tripped(rec, now) ==
  CASE rec.state = "half_open" -> OpenedAt(rec, now)
    [] rec.state = "closed" /\ rec.failures + 1 >= Threshold ->
         OpenedAt(rec, now)
    [] rec.state = "closed" /\ rec.failures + 1 < Threshold ->
         [rec EXCEPT !.failures = rec.failures + 1]
    [] OTHER -> rec

Completed(rec, outcome, now) ==
  IF outcome = "success" THEN Succeeded(rec) ELSE Tripped(rec, now)

\* Mutant: a renewal landing after the lease ran out revives it.
RenewableExpired(rec, gen, now) ==
  rec.state = "half_open" /\ gen = rec.generation

\* Only the current probe extends its lease, and only while it is unexpired.
Renewable(rec, gen, now) ==
  rec.state = "half_open" /\ gen = rec.generation /\ now < rec.probeExpiresAt

Renewed(rec, now, lease) ==
  [rec EXCEPT !.probeExpiresAt = Larger(rec.probeExpiresAt, now + lease)]
==============================================================================
