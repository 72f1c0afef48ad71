# polyrouter in TLA+

polyrouter is a self-hosted gateway for language models: it takes a request in
one of three wire protocols, chooses a model, walks that model's failover chain
of providers, translates the stream back, records the cost and keeps budgets.
It also brokers batch jobs to the providers' batch interfaces. This directory
holds TLA+ models of the parts of it whose correctness depends on the order in
which concurrent things happen, the TLC runs that check them on small
instances, and TLAPS proofs of the results that matter most.

Paths below are relative to `src/packages/`; DP is `data-plane/src`, CP is
`control-plane/src`.

## The system

Any number of control-plane instances run the same code against one PostgreSQL
database and one Redis. A request passes the auth guard, the budget gate,
parsing and routing (explicit rules, a structural layer, a semantic layer, a
cascade), then walks the chain of providers. Each attempt asks the provider's
circuit breaker and plan cooldown first; the first content byte commits a
stream to its provider. The attempt's outcome goes to the breaker, the health
signal, the request log and, through the log, to the budgets. Timers and
sweeps in the background recompute budget counters, poll batch jobs and
refresh OAuth credentials.

| component | state it keeps | operations | hard because |
| --- | --- | --- | --- |
| circuit breaker (`DP/providers/breaker.ts`, `probe-patience.ts`) | one record per provider in Redis (state, failures, openedAt, generation, probe lease), its TTL and event sequence; a fallback map per instance | admit, complete, renew the probe lease, reset | instances race for the probe; calls outlive the incident that admitted them; renewals are not awaited; the record expires; Redis faults and loses replies |
| failover chain and stream commit (`DP/proxy/core.ts`) | the walk, the commit gate | attempt, peek, commit, fail over, settle | failures before and after the commit, aborts, timeouts, one settlement per attempt |
| plan cooldowns (`DP/providers/plan-cooldown.ts`) | a pause per provider | record, read, lift | extend-only, lifted when the credential is replaced, failover store |
| batch jobs (`CP/batch`, `CP/database/batch-jobs.queries.ts`) | one row per job; the upstream's job; ledger rows; a reservation | submit, reconcile, poll, settle, finish, cancel | lost answers, several pollers, crashes between durable steps, cancellation before the id is known |
| budgets (`CP/budgets`) | spend and pending counters in Redis, the ledger in the database, a cache of budget rows | check, reserve, release, reconcile | counters reconciled from reads that are old by the time they are written |
| subscription OAuth (`CP/subscription-oauth`) | the stored envelope and its error, an advisory lock, a backoff in Redis, a flight per instance | resolve, refresh, force, reconnect, edit | refresh tokens rotate: a lost write is a lost account; whoever waits for the lock knows an old row |
| request log writer (`CP/recording`) | bounded queues of drafts and a byte budget of bodies in memory; rows, bodies and drop counts in the database | capture, enqueue, flush, purge, drain | eviction beside a running flush, retries of calls that may have landed, purges of bodies under way, shutdown |
| provider health (`CP/proxy/attempt-health.ts`, `CP/providers/provider-health.ts`) | the last reported breaker outcome and the last check | report, display | reports out of order, two sources |
| routing, translation, adapters, accounts, pricing, notifications, analytics, frontend | mostly none of their own | | pure data conversion, I/O or CRUD |

### What makes each component correct

* Breaker: a half-open breaker listens to one probe; a superseded call never
  counts; an open breaker is probed again; a dead probe is replaced.
* Batch jobs: every job ends once; nothing the upstream ran is left out of the
  ledger; the reservation is released once, after the ledger is durable; a
  cancel is not forgotten.
* Budgets: the counter never exceeds the ledger and follows it; money reserved
  for a batch is not handed out twice.
* Failover chain: one stream to the client comes from one provider; every
  admitted attempt settles once; an aborted caller trips no breaker.
* Plan cooldowns: a pause is never shortened by an older answer; a pause of a
  replaced credential does not stop the new one.
* OAuth: one refresh at a time per credential; the stored refresh token is the
  newest; a row is condemned only for the credential it stores; what was
  observed on a replaced connection is not shown for the new one.
* Log writer: every recorded row is written or counted as dropped, every
  captured body stored or counted, a purged body stays away, and the shutdown
  drain leaves nothing behind.

## Modules

| module | what it is |
| --- | --- |
| `BreakerRecord` | the record arithmetic as operators: `decide`, `applyComplete`, `applyRenew`, and the reset |
| `Breaker` | the breaker of one provider as a state machine |
| `MCBreaker` | small instances of `Breaker` |
| `BreakerProofs` | theorems about `Breaker`: one probe, and the shared record over time (lease, alerts, reports) |
| `BatchPromise` | what the gateway promises of a batch job: the abstract specification |
| `BatchRow` | the batch row, its CHECK and the SQL statements that change it |
| `BatchJob` | the life of one batch job as a state machine |
| `MCBatchJob` | small instances of `BatchJob` |
| `BatchJobProofs` | `BatchJob` implements `BatchPromise` |
| `Budgets` | the spend and pending counters of one owner and period, the gate, batch reservations, the reconciler |
| `MCBudgets` | small instances of `Budgets` |
| `BudgetsProofs` | theorems about `Budgets`: spend counters and reservations |
| `BudgetCache` | the cache of budget rows in one instance, and the writers that invalidate it |
| `MCBudgetCache` | a small instance of `BudgetCache` |
| `BudgetCacheProofs` | theorems about `BudgetCache` |
| `FailoverChain` | the walk of one request along its chain, buffered or streaming, with the breaker wrappers and the frames |
| `FailoverChainProofs` | theorems about `FailoverChain`: settlement, commit, blame, billing, cancellation, types |
| `Credential` | the stored credential of one subscription provider |
| `MCCredential` | small instances of `Credential` |
| `CredentialProofs` | theorems about `Credential` |
| `LogWriter` | the request-log writer of one process, with its bodies and the purges of their owners |
| `MCLogWriter` | a small instance of `LogWriter` |
| `LogWriterProofs` | theorems about `LogWriter` |
| `FoldTheorems` | sums over finite sets and flattened sequences, for the proofs |

The modules meet at the values they exchange. `FailoverChain` takes the
breaker's decision as a choice and shows that every admission is settled once,
which `Breaker` assumes of its calls; `BatchJob` shows when a reservation is
released, and `Budgets` what the release does to the counters; `Breaker` shows
that its reports are numbered in order, and `Credential` what becomes of one
that lands late, after the owner reconnected.

### Breaker

A store operation is one Lua script, so it is one action; between its
admission, its renewals and its settlement a call interleaves with everything
else. `AdmitOnPrimary`, `AdmitOnFallback`, `Settle`, `Renew`, `LandRenewal`,
`LoseRenewal`, `Reset`, `Crash` and `Tick` stand for `before`, `complete`,
`renewProbe` (sent, then landed or lost), the reauthorization reset, the death
of a process, and time. A call holds the token its admission issued. A store
fault is either refused (the script did not run) or lost (it ran, the caller
never learnt). Providers have separate records; one provider is modelled.

The clock is the Redis clock. It is assumed monotone, and a Redis that loses
its data is not modelled: both reseed generations from the clock, which the
code also relies on. `alerted` and `report` are history variables; `report.justOpened`
is the answer that raises `provider_down`, so a second alert of one incident would
show whatever state the second settlement found.

### BatchJob

Every SQL statement, upstream call and Redis script is one action. The request
(`Insert` ... `ReleaseRejected`), each poller (`Pick` ... `Release`) and the
cancel request keep a program counter and, as the code does, a snapshot of the
row that may be stale when it is used. `Write` is the table's CHECK: a patch
that violates it changes nothing and is an exception. `AbandonPoll`,
`AbandonSubmit` and `AbandonCancel` are failing calls, aborts and crashes: none
of the three keeps state outside the database, so they are the same.

Elapsed time is `age`, the number of thresholds passed: the submission grace
(120 s), the unknown window (6 h), the completion deadline. No sweep and no
create spans the hours between two thresholds (`Age`).

`BatchPromise` is the job without requests, pollers and rows: it is open while
results are earned and booked, it is closed once, with counts that are those
of the ledger as long as the results can be read, and then its reservation is
freed, once. `KeepsPromise` maps the detailed job to it: a job is open until its
row is terminal, what it is owed are the upstream's results, what is booked is
the ledger, and its results are kept until the upstream forgets them or the
provider, whose credential reads them, is deleted.

`Faults` selects what the environment may do beyond that; each of its members
is explained at `FaultKinds`. Three of them mislead the gateway about a job that
runs, and the history `missed` marks it: "misreported" (the create is answered with
an error status, any of which the request takes as definitive, while the upstream
holds the job), "unmatched" (the listing does not show it, and it is given up:
`GiveUp`) and "early" (the upstream ends it before its id is stored). `validating`
is merged into `in_progress`, and so is an unmapped status of a listed job, as the
adoption does. The reserved ceiling is taken as bounded, so a release always calls
Redis.

### Budgets

Every Redis script and every query is one action, so a reservation that spans
two keys (`Insert`, `Reserve` per key, `EndReserve` or `RollBack` per key,
`Create`) interleaves with the gate, the poller and the reconciler. An
occurrence of the reconciler reads the ledger, writes the spend counter, reads
the live rows, writes the pending total, key after key (`Start`, `ReadSpend`,
`WriteSpend`, `ReadPending`, `WritePending`, `Stamp`); two occurrences may
overlap. `GoStale` is the heartbeat getting older than its limit: since it may
happen at any moment, the gate's heartbeat and counters are read in one step.
`FailOpen` is the configured mode of the gate. `counted` and `blurred` are
history variables: the ceilings a total contains, and whether the total was
overwritten by an older read or lowered by a ceiling it did not contain. One
owner and one period are modelled; alerts and block notices, which are marked
once per period elsewhere, are not, nor is the expiry of the keys: their TTL is
set past the end of the period.

### BudgetCache

A load is three steps (`Call`, `ReadRows`, then `Resolve` or `Reject`), a CRUD
update two (`WriteRow`, `Invalidate`), so a load may straddle an invalidation.
`WriteElsewhere` is an update in another instance, whose rows this one may
serve until the entry expires.

### FailoverChain

`at` is where the walk and its attempt are. Every await is a state in which the
client may go (`ClientGoes`), the deadline of a cascade's cheap leg may pass,
or the streaming watchdog's timer may run out: the pause store, the breaker's
admission, the build of the adapter, the upstream, the breaker's persistence
(`settling`), the frame offered to the client. `pend` is what the breaker is
persisting and how the attempt goes on afterwards. The breaker's decision and
the pause store are nondeterministic. Error kinds are kept as far as the walk,
the breaker and the billing tell them apart: `unavailable` also stands for
`rate_limit`, `auth` and `insufficient_funds`, `bad_request` for the other
kinds that settle as a success, `quota_exhausted` for the other neutral kinds
that pause; of the kinds an error event may carry, one that trips and one that does
not. Bytes that make no event (`KeepAlive`) set `heard`, and a timer that runs out
after them is armed anew (`Rearm`) where one that heard nothing aborts the attempt
(`TimeOut`). Lease renewals and the probe's wider bounds only move the instant at
which a bound ends, which is arbitrary here. An aborted
call ends without another event (`~ Cut`): the body of an aborted fetch is
errored and its queue dropped.

### Credential

A request loads the row, resolves its envelope, calls, and settles; a stale
token is refreshed lazily under the instance's single flight and the credential
lock, a 401 or the sweep refreshes by force, an unreadable envelope is filed.
One SQL transaction without a call in it, one token call and one Redis command
is one action; a refresh is `TakeLazy` or `TakeForce` (the locked re-read), a
`Dial...` (the token call) and `Commit`. `Abort` is a failing transaction or a
process that dies before its commit, after the provider rotated the token;
`LockTimeout` is a waiter that gives up. The owner's tabs `Exchange` a code and
`Reconnect`, or `LoadEdit` and `WriteEdit` the provider. A settled attempt may
report a breaker transition (`LandReport`), which is not awaited.

Redis may fail for any one command: a GET of the backoff that fails counts as no
backoff (`BackoffReads`), and the SET after a failed call may not stick
(`DialFails`), because the code catches both. A caller whose own check, under the
lock, was not answered is marked by the history `blind`: it may call within another
instance's backoff.

`live` is what the identity provider honours; it and the token call are modelled
from how the code uses them. `spoiled` (tokens that died other than by a
rotation that was stored) and the split of `err` into "refused" and "filed"
are history. Abstracted: the marks and forced-refresh windows in Redis are
nondeterministic choices (they decide whether, not how, a refresh is asked
for); the health record keeps its sequence and its incarnation; the breaker reset
of a reconnect is `Breaker`'s `Reset`. "unreadable" is an envelope that does not
parse. Left out: first connections and sign-in sessions; an envelope that parses
but does not fit its provider, which is refused without being filed when its preset
is another (`subscription-oauth.service.ts:582`, `:634`) and, unlike an unreadable
one, condemned by a lazy refresh under the lock when its account id is missing or
its protocol wants OAuth (`:728-731`, `:742-745`); and a database that fails before
the call, which only ends the request.

### LogWriter

`Record` is `enqueue` and `enqueueAttempt` of one request, with eviction and
the byte budget; `Flush` takes what is queued, and `Write`, `WriteFails`,
`WriteBodies`, `BodiesFail`, `AddCount`, `CountFails` are its database calls, in
the order of `flushOnce`: log rows per owner, their bodies chunk by chunk,
the ledger rows of the cascades, the counts of dropped bodies. A call that
fails may have timed out and land later (`Land`), when it decides by what the
database then holds. The owner purges (`PurgeAll`) or deletes one request's
bodies (`DeleteForRequest`) at any moment. `Shutdown`, `Drained` and `Exit` are
the drain.

A flush may begin whenever something is queued: the threshold, the nudge and
the timer only choose the moment. A request has at most one superseded attempt.
Bodies have a size and no content. A failing price lookup is a failing insert.
Letting any failed call land late is more than a refused one can do. Left out:
the retention sweep, the cap of 512 owners in the count map, recordings that
arrive after the drain's loop has ended, and a process that dies without
draining, which loses what it held in memory, as the code accepts. `saved` and
`forfeited` are history variables.

## Runs

Bounds are the constants of each cfg. Two calls are enough for a probe beside
another call, two pollers for a stale poller beside a current one, two items
for a settlement that stops half way; two keys for a reservation that is
rolled back, two occurrences for a late write; three members so that one
precedes and one follows a failure; a request beside the sweep, on two instances,
or beside another that joins its refresh, and three envelopes for a rotation and a
replacement; three requests of two owners through queues of two, with a byte budget
that holds the bodies of one request and not of two, for eviction of rows, of bodies,
and of neither. The credential has one tab of the owner, so that the reconnect of an
older tab beside an edit is left to the proof (`ReplacedStays`). Clock bounds let a
closed, open, half-open, reopened and probed cycle with expiry happen;
`CHECK_DEADLOCK FALSE` everywhere, because the clock's bound, a finished job or an
ended request end the behaviour.

| run | shows |
| --- | --- |
| `breaker_safety` | a breaker whose store is reachable: one probe, stale calls stay stale, leases are exclusive and never revived, one alert per incident, reports in order, an open breaker is probed and a silent probe replaced |
| `breaker_outage` | refused operations and lost replies: the record outlives a lease wider than its normal TTL |
| `batch_safety` | two pollers, a request, a canceller, failing calls, a job the upstream drops: every step is a step of `BatchPromise` or a stutter, and a job failed as never run did not run |
| `batch_live` | with lost jobs and a provider that may be deleted: a job the upstream is done with ends; a recorded cancel reaches the upstream |
| `budgets_keys` | a job and a request on two keys, two occurrences, one fault: the counter stays below the ledger and never falls, the pending total covers the grants, the gate spares them |
| `budgets_live` | two jobs on one key under fail-closed: a granted reservation fits, spent budgets are seen, and lost, doubled and leaked reservations heal |
| `budget_cache` | a call after an invalidation never sees the replaced rows; one load per generation |
| `chain` | every attempt settles once and is blamed on who ended it; billing evidence and cancellation are right; no swap after the commit; the walk ends once its upstream is silent, and when its client leaves |
| `credential_safety` | a request, the sweep and the owner's tab, with Redis commands that fail: the stored refresh token is the newest, health is of this connection, no refresh brings back what the owner replaced, a refusal condemns only what was refused, no call that the row forbids or that the caller's own check of the backoff could prevent |
| `credential_live` | two requests of one instance and the sweep: whoever waits is answered, and a dead grant is found |
| `credential_misfiled` | violation: a reconnected credential is condemned |
| `log_writer` | two owners' requests, two failing calls, purges and the drain: rows and bodies are accounted for, attempts follow their log rows, purged bodies stay away, the drain ends empty |

`PendingCovers`, `ReservationFits` and `AdmissionSparesReservations` except the
totals that are `blurred`: overwritten by an older read, or lowered by a ceiling
they did not contain; the code does admit onto those (see below).
`SubmitFailedIsAbsent` excepts the jobs that were `missed`, of which `batch_safety`
has none: its `Faults` are "unmapped" and "lost". That nothing else breaks the claim,
whatever the faults, is proved (`FailedIsAbsent`).

### Fairness

`Breaker`: calls are bounded by timeouts, so each settles; requests keep
arriving; time passes. `BatchJob`: the scheduler repeats the sweep and the
sweep walks every live row, a call that does not fail returns (failures are
bounded by `MaxFailures`), a cancel request ends, a cancelled job ends
upstream, and time passes. `Age` needs strong fairness because pollers are
idle only between sweeps. It is not assumed that the upstream finishes a job.
`Budgets`: store calls return, the reconciler's schedule repeats, and faults
are bounded by `MaxFaults`; nothing makes a request arrive or a job end.
`FailoverChain`: store calls, builds and aborted calls end, the watchdog's timer and
the buffered adapters' deadlines run out, and a client reads or leaves; the
upstream need not speak. Nor need it stop sending keepalives: every byte re-arms
the watchdog (`core.ts:419-425`), so that a stream fed with them for ever is held
for ever while its client stays. The first half of `WalkEnds` is therefore about an
upstream that falls silent, which makes no assumption on when.
`Credential`: a token call ends by its own timeout and its transaction commits
or fails; the backoff expires; the sweep repeats; the identity provider is not
down for ever (strong fairness of `DialRefused`: a dead token that is tried
again and again is refused in the end); and the lock is granted in the order it
was asked for and held for less than a waiter waits (strong fairness of
`TakeForce`, weak of the waiters of a request). No request, owner or expiry is
assumed to act. `LogWriter`: the timer and the drain's loop repeat the flush, and
every call of the writer is bounded by a timeout, so each is answered, fails or
times out.

### Finding

`credential_misfiled`: `persistCredentialError` condemns whatever row it re-reads
under the lock. A request that found the envelope unreadable and waited behind a
reconnect condemns the credential the reconnect stored, although the reconnect
resets the records so that nothing observed against the dead credential is
recorded for the new one (`subscription-oauth.service.ts:514-516`).

### Other disagreements met while modelling

No listed run shows these; where a constant or a fault brings one out, it is
named, and the passing runs leave it out of their instance.

* Batch, "early": a job that ended upstream before its id was stored is found by the
  listing, but the adopted row carries a terminal status without its stamp and
  violates the table's CHECK (`batch.poller.ts:299`); every sweep repeats this, while
  the poller is said to drive every job to a terminal state (`:76`;
  `EventuallyFinal` fails with one poller and no failing call).
* Batch, "unmatched": a listing that does not show the job for the window is taken
  as proof that it never ran ("provably absent", `batch.poller.ts:315`), also where
  the adapter reports no job ids (`anthropic-batch.ts:285`), and where the job is not
  among the newest entries that are read. The job is failed and its reservation
  released while it runs (`missed`, the exception of `SubmitFailedIsAbsent`).
* Batch, "early" with two pollers: a poller that adopts from an old listing
  overwrites the terminal status another wrote, since the adopting update is no
  compare-and-set (`KeepsPromise`).
* Batch, "misreported": any error status of a create is taken as proof that the
  upstream holds no job, a 5xx too (`batch.service.ts:252-265`).
* Batch, "deleted" with `batch_safety`: a provider deleted while a rejected create
  is being recorded makes poller and request both release the reservation
  (`batch.poller.ts:235-238`, `batch.service.ts:252-261`; `KeepsPromise`).
* Batch: `Hold` may overwrite `failureKind` of a row that is already terminal.
* Budgets: the reconciler overwrites the pending total with a sum it read before a
  reservation was taken (`spend-counter.ts:224`), and until the next occurrence the
  gate admits requests onto the reserved money, which `budget-service.ts:153` says
  can never happen (`blurred`, the exception of `AdmissionSparesReservations`).
* Chain: `callerAborted` of a walk's result is read after the breaker's awaited
  persistence (`core.ts:772`), so a client that leaves meanwhile turns an upstream's
  refusal into a cancelled request, which `core.ts:639-642` says it avoids. Only the
  record is affected: the breaker's outcome was chosen before.
* Chain: a deadline that cuts a cascade's cheap leg before the headers is a
  `CallCancelledError`, which the buffered wrapper settles neutral
  (`breaker.ts:927`), although `proxy.service.ts:620-621` says that it must trip.
* Chain: the watchdog's error replaces a legal denial (451) whose settlement is
  being persisted (`core.ts:428`), and the walk asks the next member, which
  `errors.ts:34-36` says it never does.
* Chain: a slow identity provider during a streaming build ends in the watchdog's
  error and trips the breaker, although `credential` is documented as neutral.
* Chain: the comment of `fallbackEligible` still names `bad_request` as a kind
  that stops the walk; `shouldFallback` lets it walk on and stops at
  `oversized_response` instead.
* Breaker: `DECIDE_LUA` refreshes the record's TTL from the calling admission's
  lease, also when it is skipped: a caller that loaded a shorter patience cuts
  the TTL below an outstanding probe's lease (`Leases = {0, 4}`;
  `RecordOutlivesLease`).
* Credential: a waiter "must not dial the IdP the moment it acquires the lock"
  (`subscription-oauth.service.ts:755-756`) after another instance's failure; when
  Redis fails to answer its check, it does.
* Plan cooldowns: a pause is not fenced by the credential's generation. A late
  answer to the old key pauses the provider again after the lift.
* Log writer: the orphan comment (`log-writer.ts:383-391`) says that an attempt
  whose log insert failed cannot be inserted regardless; it can, when that
  insert timed out and landed. The comment at `:645-646` says that failures keep
  the counts for the next cycle; `:649-653` forfeits them. Rows and bodies whose
  insert timed out and landed are both stored and counted as dropped.

## Proofs

`BreakerProofs` proves, for every number of instances and calls and every
value of the other constants that satisfies `RecordAssumption` and
`BreakerAssumption`, that `TypeOK`, `OneProbe` and `StaleStaysStale` hold.
`OneProbe` is not inductive alone. The invariant `IInv` adds that generations
run at most a few steps ahead of the clock (`GenerationBound`) and that every
token is at or behind its store's generation (`TokensBehind`); the first is
what makes a record re-created from the clock newer than every token of the
record that expired, and it is where the assumption that the TTL exceeds twice
the number of resets is used. One lemma per action shows that it keeps `IInv`.

Its second half is about the shared record. Whoever takes it, a step does one
of six things to the shared record (`Moves`); the remaining safety properties of
the breaker follow from the six. That a lease which ran out stays dead
(`DeadLeaseStaysDead`) needs only that every move which could end it leaves its
generation behind. `OneAlertPerOpening` needs that only an opening is answered
justOpened (`OpensOnly`) and that no alerted generation is ahead of the record
(`AlertsBehind`); `ReportsIncrease` that the last report is behind
the sequence or, when the sequence was dropped with its record, behind the clock
it restarts from (`ReportBehind`), where the bound of fewer than `SeqScale`
settlements per clock unit is used. `RecordOutlivesLease` and `LeaseIsExclusive`
assume one patience, `Leases \subseteq {floor}`: without it they do not hold (see
above). Then a lease ends at most one lease from now and before the record
(`LeaseFits`).

`BudgetsProofs` proves that no spend counter exceeds the ledger
(`CounterBacked`) and that no step lowers one (`CounterMonotone`), for any keys,
jobs, requests and overlapping occurrences. The invariant adds `ReadsBehind`:
what an occurrence has read stays below the ledger until it writes it, because
the ledger only grows; the script then keeps the larger of two values.
For finite sets of keys and jobs it also proves the type invariant and the
reservations: an unblurred pending total covers the granted ceilings
(`ReservationsCovered`), a grant fits beside them and what was spent
(`GrantsFit`), and the gate under fail-closed spares them (`AdmissionSpares`).
All three except the blurred totals, onto which the code does admit
requests: what is proved is that blurring is the only way.
A total is a bare number, and whether a release may lower it depends on whether
it contains the ceiling released. The invariant `RInv` therefore relates it to
`counted`, the ceilings it contains: an unblurred total is at least their sum, and
they include every holder (`TotalsCover`). That a reconciler keeps this needs that
what it read is not behind the rows unless it is marked as raced
(`ReadsCover`); that a release keeps it, that a job holds a key once and gives it up
before its row ends or with it (`JobFits`).

`BudgetCacheProofs` proves `TypeOK`, `ReadsWhatWasInvalidated` and
`SingleFlight` for any number of calls and writers. The invariant says that a
load of the current generation read rows at least as new as the last
invalidation, that a generation's in-flight entry belongs to its only load,
and that whoever joined a load called while that load was the current one.

`FailoverChainProofs` proves, for a chain of any length, that every admitted
attempt is settled exactly once (`EveryAttemptSettles`) and that no request is
sent after the commit (`CommitIsFinal`). `SettledOnce` alone does not say whose
attempt is open; the invariant `Accounted` says that only the current member's
can be, and that `at` tells whether it is, and `PastAdmission` that a committed
response never returns to the places from which a member is tried.

It goes on to `BlameIsRight`, `UnbilledRanNothing` and `CancellationIsCausal`. An
attempt is blamed when its call throws and the breaker is told later, so `Blame`
also speaks of what waits in `pend`; `Trail` says that the trail holds one failure
per member passed, with the evidence of each request that was sent; `Causal` that
a client which cut an attempt is gone, that its walk tries nobody else, and that a
committed outcome is resolved once. The type invariant (`TypeCorrect`) needs
`Shapes`: a running attempt's request was sent, and what waits in `pend` carries an
error exactly when the attempt threw.

`BatchJobProofs` proves that the detailed job implements `BatchPromise`
(`KeepsPromise`), for any items, pollers and number of failures. The assumption
`Benign` is that of `batch_safety`, "unmapped" and "lost": "early" and "deleted"
break the refinement, and "unmatched" and "misreported" break the premise that a
job recorded as never run did not run. The invariant has five parts: what the
row, the request and the upstream know of each other (`RowFits`); the ledger
holds only results, and there are none before the job ended (`LedgerFits`); a
finished job is one the upstream ended, forgot or never runs (`EndFits`); whoever
is about to release is alone and the job is final (`ReleaseFits`); and what each
poller may rely on in its stale snapshot and in what it saw (`PollFits`), which is
what makes the compare-and-set of the finish enough. Initial states map to
initial states, and each action to a step of the promise or a stutter.

Its second half assumes nothing of the environment: for all `Faults`, `TypeOK`
holds, and a job recorded as never run is absent upstream unless it was `missed`
(`SubmitFailedIsAbsent`). The invariant `Sound` keeps of the first what survives
every fault: an id is stored only for a job the upstream holds (`RowSound`), and a
poller's snapshot may be old in its status but not in its id (`PollSound`).

`CredentialProofs` proves the type invariant, `StoredTokenLives`,
`RefusalIsEarned`, `ReplacedStaysReplaced`, `HealthIsOfThisConnection` and
`CallIsWarranted` for any number of requests, instances, tabs and sweep lanes, with
Redis commands that may fail at any time: `CallIsWarranted` then says that a call
within a backoff is one whose own check was not answered.
A token call leaves the stored token dead until its transaction commits, so the
invariant says who holds the lock and what the holder was answered (`LockInv`),
that what was read under it still holds (`HeldInv`), what an edit knows of the
OAuth marker (`MarkerInv`), and that the row, an answer and the waiting reconnects
never share a token.

`LogWriterProofs` proves, for any finite set of requests and any owners, sizes
and budgets, that attempts go the way of their log row
(`AttemptsGoWithTheirLog`), that every row waits, was written once or is counted
(`RowsAreBalanced`), that a purged body does not come back (`PurgeIsFinal`),
that every body is held, was saved or is in one count (`BodiesInOneCount`), and
the type invariant (`TypeCorrect`). The rest stands on `RowInv`: each draft is in
one place and was recorded, and a row that still waits was neither written nor
dropped, so an insert that timed out and landed is not counted twice. `Balance` adds
up lengths and cardinalities; a step moves as many rows as it takes. `StoredInv`
adds to `PurgedStaysPurged` that only recorded requests have stored bodies, so that a
request captured later, in a new epoch, cannot own one. `BodyInv` says that the byte count is the sum over the
requests that carry bodies (`Carried`), that the bodies of one call belong to one
owner and wait nowhere else (`InFlight`), and, owner by owner, that what was
recorded equals what waits, rides, was saved and was dropped (`Ledger`).
A body counted twice could hide behind a negative `forfeited`; `Owed` excludes it:
no count is negative, and what was given up is exactly what the count calls still
out there would add, a sum over them. `Bounded` holds the bounds that the types
name and the others do not need.
`Only`, the filter of a queue, is a recursive function because the definition of
the library's `SelectSeq` is one the prover cannot expand.

`FoldTheorems` is what these two sum and flatten with. The library's induction
theorems take an operator as a parameter, which the provers cannot instantiate, so
induction goes through a smallest counterexample: a nonempty set of subsets of
a finite set has a smallest member (`SmallestSubset`), a nonempty set of numbers a
least one (`LeastNumber`), and the claim is shown there. It gives the sum over a
set without one member, over a union, over a larger set, and the members of
sequences that are flattened.

Only model-checked: liveness under fairness, which the prover cannot reach
(`OpenIsProbed`, `ExpiredLeaseIsReclaimed`, `EventuallyFinal`, `CancelIsPassedOn`,
`SpentIsSeen`, `PendingHeals`, `WalkEnds`, `RequestsAreAnswered`, `DeadGrantIsFound`,
`RowsAreSettled`), and the violation of `credential_misfiled`. The type invariants are proved for every
component and appear in no run.

## Plan

1. (done) `Breaker`, `BatchJob`, `Budgets`, `BudgetCache`, `FailoverChain`,
   `Credential`, `LogWriter`, with theorems about all; `BatchPromise`
   and the refinement.
2. `PlanCooldown` (extend-only pauses with the failover store, lifted when the
   credential is replaced) and the plan usage store, whose structure it shares.
3. The counter seed of a budget whose metering basis changes; how far the counters
   may lag behind while the heartbeat is fresh, measured from the occurrence that
   stamped it; the cascade that runs two walks.
4. An abstract breaker that grants one probe at a time, refined by `Breaker`.

## Not modelled

Protocol translation, routing scores, adapters' wire formats, pricing,
accounts, analytics, the frontend: pure conversion, I/O or CRUD, where the
hard cases are data. They are most of the repository's lines, so the modules
cover a small share of them. Plan cooldowns, the plan usage store and the
cascade's control have state worth modelling and are in the plan.
PROJECT.json gives the reason for each component.
