------------------------------ MODULE Credential ------------------------------
(***************************************************************************)
(* The stored credential of one subscription provider: requests resolve it  *)
(* and refresh it lazily, a 401 or the proactive sweep refreshes it by      *)
(* force, the owner reconnects it or replaces it by an edit.  The refresh    *)
(* token rotates: the identity provider honours the one it issued last, so   *)
(* the stored envelope must be the newest.  Every credential mutation runs   *)
(* in a transaction under one advisory lock; health reports do not.  One    *)
(* SQL transaction without a call in it, one token call, one Redis command   *)
(* is one action.                                                            *)
(***************************************************************************)
EXTENDS Naturals, FiniteSets

CONSTANTS
  Requests,     \* calls of the proxy that use this provider
  Home,         \* per request, the gateway instance it runs on
  Users,        \* the owner's browser tabs
  Sweeps,       \* the scheduled refresh sweep, one lane per element
  None,
  Starts,       \* kinds of the envelope the row may start with
  MaxEnvelopes, \* bound on the envelopes ever written
  MaxFaults,    \* bound on revocations, lost answers and failed transactions
  MaxReports    \* bound on the traffic reports

ASSUME CredentialAssumption ==
  /\ Requests \cap Users = {} /\ Sweeps \cap (Requests \cup Users) = {}
  /\ None \notin Requests \cup Users \cup Sweeps
  /\ Starts \subseteq {"oauth", "unreadable"}
  /\ MaxEnvelopes \in Nat \ {0}
  /\ MaxFaults \in Nat /\ MaxReports \in Nat

VARIABLES
  row,       \* the provider row: envelope, OAuth marker, error, health
  cred,      \* what each envelope holds
  issued,    \* envelopes written or about to be
  live,      \* refresh tokens the identity provider honours
  backoff,   \* Redis: the transient-failure backoff is held
  holder,    \* who holds the credential lock
  inflight,  \* per instance, the request that leads its refresh flight
  actor,     \* where each request, tab and the sweep are
  reports,   \* traffic health writes under way
  seq,       \* sequence numbers issued to reports
  faults,    \* faults so far
  spoiled    \* history: tokens that died other than by a rotation we stored

idp    == <<cred, issued, live>>
health == <<reports, seq>>
vars   == <<row, idp, backoff, holder, inflight, actor, health, faults, spoiled>>

Actors == Requests \cup Users \cup Sweeps
Envelopes == 1 .. MaxEnvelopes
Instances == {Home[r] : r \in Requests}
Cleared == 0      \* encryptedCredentials IS NULL

Blank == [kind |-> "none", grant |-> 0, token |-> 0, expiry |-> "fresh"]
Credentials ==
  [kind : {"none", "plain", "oauth", "unreadable"}, grant : Nat, token : Nat,
   expiry : {"fresh", "near", "expired"}]
Silent == [seq |-> 0, of |-> Cleared]   \* no traffic record
Rows ==
  [env : {Cleared} \cup Envelopes, oauth : BOOLEAN,
   err : {"none", "refused", "filed"},  \* who condemned it is history
   check : {"unknown", "error"},
   traffic : [seq : 0 .. MaxReports, of : {Cleared} \cup Envelopes]]
Doings ==
  [at : {"idle", "loaded", "wait", "joined", "dial", "answered", "sent"},
   job : {"none", "lazy", "force", "file", "reconnect"},
   env : {Cleared} \cup Envelopes, oauth : BOOLEAN,
   reply : {"none", "renewed", "refused", "failed"}, got : {Cleared} \cup Envelopes,
   blind : BOOLEAN]   \* history: its own check of the backoff failed
Resting == [at |-> "idle", job |-> "none", env |-> Cleared, oauth |-> FALSE,
            reply |-> "none", got |-> Cleared, blind |-> FALSE]

Init ==
  /\ \E k \in Starts :
       cred = [e \in {Cleared} \cup Envelopes |->
                 IF e = 1 THEN [kind |-> k, grant |-> 1, token |-> 1, expiry |-> "fresh"]
                          ELSE Blank]
  /\ row = [env |-> 1, oauth |-> TRUE, err |-> "none", check |-> "unknown", traffic |-> Silent]
  /\ issued = 1
  /\ live = {1}
  /\ backoff = FALSE
  /\ holder = None
  /\ inflight = [i \in Instances |-> None]
  /\ actor = [a \in Actors |-> Resting]
  /\ reports = {}
  /\ seq = 0
  /\ faults = 0
  /\ spoiled = {}

-----------------------------------------------------------------------------
(* Helpers.                                                                 *)

Kind(e) == cred[e].kind
Expiry(e) == cred[e].expiry
Token(e) == cred[e].token

\* What a check of the backoff may find: a GET that fails counts as no backoff.
BackoffReads == {backoff, FALSE}

Queued(a, job) == actor[a].at = "wait" /\ actor[a].job = job

\* The row after the ONE durable reauthorize-required write: the credential
\* error and the check record of the row as re-read under the lock.
Condemned(r, by) == [r EXCEPT !.err = by, !.check = "error"]

\* The row after a write that starts a new incarnation: no health of its own.
ResettingHealth(r) == [r EXCEPT !.check = "unknown", !.traffic = Silent]

\* The requests that await the flight a leads: itself, and those that joined it.
Passengers(a) ==
  {a} \cup {r \in Requests : a \in Requests /\ actor[a].job = "lazy"
                              /\ actor[r].at = "joined" /\ Home[r] = Home[a]}

\* What becomes of passenger x when the work of a ends: served envelope e by a
\* lazy flight, at rest otherwise (e is Cleared: a credential error ends it).
Landed(a, e, x) ==
  IF actor[a].job = "lazy" /\ e # Cleared
  THEN [actor[x] EXCEPT !.at = "sent", !.job = "none", !.env = e,
                        !.reply = "none", !.got = Cleared]
  ELSE Resting

\* Mutant: a flight that ended is not taken off the map.
EndAndStay(a, e) ==
  /\ actor' = [x \in Actors |-> IF x \in Passengers(a) THEN Landed(a, e, x) ELSE actor[x]]
  /\ UNCHANGED inflight

\* The work of a ends, and with it that of its passengers.
End(a, e) ==
  /\ actor' = [x \in Actors |-> IF x \in Passengers(a) THEN Landed(a, e, x) ELSE actor[x]]
  /\ inflight' = IF actor[a].job = "lazy" THEN [inflight EXCEPT ![Home[a]] = None]
                                          ELSE inflight

-----------------------------------------------------------------------------
(* A request: load the row, resolve the credential, call, settle.           *)

\* The proxy loads the provider row.  A row without a credential, and an OAuth
\* row with a credential error, fail locally: nothing changes.
Load(r) ==
  /\ actor[r].at = "idle"
  /\ row.env # Cleared
  /\ ~(row.oauth /\ row.err # "none")
  /\ actor' = [actor EXCEPT ![r] =
                 [Resting EXCEPT !.at = "loaded", !.env = row.env, !.oauth = row.oauth]]
  /\ UNCHANGED <<row, idp, backoff, holder, inflight, health, faults, spoiled>>

\* A pasted key, or a token that does not expire within the margin.
ResolveCheap(r) ==
  /\ actor[r].at = "loaded"
  /\ \/ Kind(actor[r].env) = "plain"
     \/ Kind(actor[r].env) = "oauth" /\ Expiry(actor[r].env) = "fresh"
  /\ actor' = [actor EXCEPT ![r].at = "sent"]
  /\ UNCHANGED <<row, idp, backoff, holder, inflight, health, faults, spoiled>>

\* An envelope that cannot be decrypted: the durable error is to be filed.
ResolveUnreadable(r) ==
  /\ actor[r].at = "loaded"
  /\ Kind(actor[r].env) = "unreadable"
  /\ actor' = [actor EXCEPT ![r].at = "wait", ![r].job = "file"]
  /\ UNCHANGED <<row, idp, backoff, holder, inflight, health, faults, spoiled>>

Stale(r) ==
  /\ actor[r].at = "loaded"
  /\ Kind(actor[r].env) = "oauth"
  /\ Expiry(actor[r].env) # "fresh"

\* The backoff is held: serve the token while it is valid, else fail.
ResolveBackoff(r) ==
  /\ Stale(r)
  /\ TRUE \in BackoffReads
  /\ actor' = [actor EXCEPT ![r] = IF Expiry(@.env) = "near"
                                   THEN [@ EXCEPT !.at = "sent"] ELSE Resting]
  /\ UNCHANGED <<row, idp, backoff, holder, inflight, health, faults, spoiled>>

\* Single flight: join the refresh of this instance, or lead it.  A check that
\* fails leads here as well.
ResolveFlight(r) ==
  /\ Stale(r)
  /\ FALSE \in BackoffReads
  /\ IF inflight[Home[r]] # None
     THEN /\ actor' = [actor EXCEPT ![r].at = "joined"]
          /\ UNCHANGED inflight
     ELSE /\ actor' = [actor EXCEPT ![r].at = "wait", ![r].job = "lazy"]
          /\ inflight' = [inflight EXCEPT ![Home[r]] = r]
  /\ UNCHANGED <<row, idp, backoff, holder, health, faults, spoiled>>

\* The attempt settles.  The shared breaker may report a transition (a health
\* write that is not awaited), and a 401 whose forced-refresh window is free asks
\* for a refresh keyed on the envelope the attempt used.
Settle(r) ==
  /\ actor[r].at = "sent"
  /\ \E transition, denied \in BOOLEAN :
       /\ transition => seq < MaxReports
       /\ IF transition
          THEN /\ seq' = seq + 1
               /\ reports' = reports \cup {[seq |-> seq + 1, of |-> actor[r].env]}
          ELSE UNCHANGED health
       /\ actor' = [actor EXCEPT ![r] = IF denied /\ actor[r].oauth
                                        THEN [@ EXCEPT !.at = "wait", !.job = "force"]
                                        ELSE Resting]
  /\ UNCHANGED <<row, idp, backoff, holder, inflight, faults, spoiled>>

\* Mutant: a health write is not guarded by the incarnation it observed.
LandUnguarded(x) ==
  /\ x \in reports
  /\ reports' = reports \ {x}
  /\ row' = IF row.traffic.seq < x.seq THEN [row EXCEPT !.traffic = x] ELSE row
  /\ UNCHANGED <<idp, backoff, holder, inflight, actor, seq, faults, spoiled>>

\* A health write lands: guarded by the incarnation the attempt used, and by the
\* order of the breaker's sequence numbers.
LandReport(x) ==
  /\ x \in reports
  /\ reports' = reports \ {x}
  /\ row' = IF row.env = x.of /\ row.traffic.seq < x.seq
            THEN [row EXCEPT !.traffic = x] ELSE row
  /\ UNCHANGED <<idp, backoff, holder, inflight, actor, seq, faults, spoiled>>

-----------------------------------------------------------------------------
(* Work under the credential lock.                                          *)

\* persistCredentialError: the row re-read under the lock is condemned.
File(a) ==
  /\ Queued(a, "file")
  /\ holder = None
  /\ row' = Condemned(row, "filed")
  /\ End(a, Cleared)
  /\ UNCHANGED <<idp, backoff, holder, health, faults, spoiled>>

\* Mutant: a waiter does not look at the backoff again once it has the lock.
LazyIgnoresBackoff(held) ==
  /\ Kind(row.env) = "oauth"
  /\ row.err = "none"
  /\ Expiry(row.env) # "fresh"

\* refreshUnderLock up to the token call: the locked re-read decides.
LazyNeedsCall(held) ==
  /\ Kind(row.env) = "oauth"
  /\ row.err = "none"
  /\ Expiry(row.env) # "fresh"
  /\ ~held
LazyOutcome ==   \* the envelope served without a call, or Cleared
  IF \/ Kind(row.env) = "plain"
     \/ Kind(row.env) = "oauth" /\ row.err = "none" /\ Expiry(row.env) # "expired"
  THEN row.env ELSE Cleared

\* The holder of the lock turns to the token endpoint.
StartCall(a, held) ==
  /\ holder' = a
  /\ actor' = [actor EXCEPT ![a].at = "dial", ![a].blind = (held # backoff)]

TakeLazy(a) ==
  /\ Queued(a, "lazy")
  /\ holder = None
  /\ \E held \in BackoffReads :
       IF LazyNeedsCall(held)
       THEN /\ StartCall(a, held)
            /\ UNCHANGED inflight
       ELSE /\ End(a, LazyOutcome)
            /\ UNCHANGED holder
  /\ UNCHANGED <<row, idp, backoff, health, faults, spoiled>>

\* Mutant: a forced refresh leaves a token that is fresh enough alone.
ForceOnlyStale(a, held) ==
  /\ row.env = actor[a].env
  /\ row.oauth
  /\ row.err = "none"
  /\ Kind(row.env) = "oauth"
  /\ Expiry(row.env) # "fresh"
  /\ ~held

\* forceUnderLock up to the token call: keyed on the envelope the caller used.
ForceNeedsCall(a, held) ==
  /\ row.env = actor[a].env
  /\ row.oauth
  /\ row.err = "none"
  /\ Kind(row.env) = "oauth"
  /\ ~held
ForceCondemns(a) ==
  /\ row.env = actor[a].env
  /\ row.oauth
  /\ row.err = "none"
  /\ Kind(row.env) = "unreadable"

\* Mutant: a forced refresh does not wait for the credential lock.
ForceUnlocked(a) ==
  /\ Queued(a, "force")
  /\ \E held \in BackoffReads :
       IF ForceNeedsCall(a, held)
       THEN /\ StartCall(a, held)
            /\ UNCHANGED <<row, inflight>>
       ELSE /\ row' = IF ForceCondemns(a) THEN Condemned(row, "filed") ELSE row
            /\ End(a, Cleared)
            /\ UNCHANGED holder
  /\ UNCHANGED <<idp, backoff, health, faults, spoiled>>

TakeForce(a) ==
  /\ Queued(a, "force")
  /\ holder = None
  /\ \E held \in BackoffReads :
       IF ForceNeedsCall(a, held)
       THEN /\ StartCall(a, held)
            /\ UNCHANGED <<row, inflight>>
       ELSE /\ row' = IF ForceCondemns(a) THEN Condemned(row, "filed") ELSE row
            /\ End(a, Cleared)
            /\ UNCHANGED holder
  /\ UNCHANGED <<idp, backoff, health, faults, spoiled>>

\* The rotated tokens: a new envelope of the same grant.  An answer without a
\* refresh token keeps the stored one.
Renewal(token) == [kind |-> "oauth", grant |-> cred[row.env].grant,
                   token |-> token, expiry |-> "fresh"]

\* The token call answers with new tokens.
DialRotates(a) ==
  /\ actor[a].at = "dial"
  /\ issued < MaxEnvelopes
  /\ Token(row.env) \in live
  /\ \E rotates \in BOOLEAN :
       LET n == issued + 1
           t == IF rotates THEN n ELSE Token(row.env)
       IN /\ cred' = [cred EXCEPT ![n] = Renewal(t)]
          /\ live' = IF rotates THEN (live \ {Token(row.env)}) \cup {n} ELSE live
  /\ issued' = issued + 1
  /\ actor' = [actor EXCEPT ![a].at = "answered", ![a].reply = "renewed",
                             ![a].got = issued + 1, ![a].blind = FALSE]
  /\ UNCHANGED <<row, backoff, holder, inflight, health, faults, spoiled>>

\* The token is no longer honoured.
DialRefused(a) ==
  /\ actor[a].at = "dial"
  /\ Token(row.env) \notin live
  /\ actor' = [actor EXCEPT ![a].at = "answered", ![a].reply = "refused",
                             ![a].blind = FALSE]
  /\ UNCHANGED <<row, idp, backoff, holder, inflight, health, faults, spoiled>>

\* No answer, or none that can be used: the cross-instance backoff is set, unless
\* the SET fails as well.  The identity provider may have rotated the token before
\* its answer was lost.
DialFails(a) ==
  /\ actor[a].at = "dial"
  /\ \/ UNCHANGED <<live, faults, spoiled>>
     \/ /\ faults < MaxFaults
        /\ Token(row.env) \in live
        /\ live' = live \ {Token(row.env)}
        /\ spoiled' = spoiled \cup {Token(row.env)}
        /\ faults' = faults + 1
  /\ backoff' \in {TRUE, backoff}
  /\ actor' = [actor EXCEPT ![a].at = "answered", ![a].reply = "failed",
                             ![a].blind = FALSE]
  /\ UNCHANGED <<row, cred, issued, holder, inflight, health>>

\* Mutant: any failure of the token call is taken for a dead grant.
CommitAnyFailure(a) ==
  /\ actor[a].at = "answered"
  /\ holder' = None
  /\ row' = CASE actor[a].reply = "renewed" -> [row EXCEPT !.env = actor[a].got, !.err = "none"]
              [] actor[a].reply = "refused" -> Condemned(row, "refused")
              [] actor[a].reply = "failed"  -> Condemned(row, "refused")
  /\ End(a, IF actor[a].reply = "renewed" THEN actor[a].got ELSE Cleared)
  /\ UNCHANGED <<idp, backoff, health, faults, spoiled>>

\* The transaction writes what the answer calls for, commits, and its lock goes.
Commit(a) ==
  /\ actor[a].at = "answered"
  /\ holder' = None
  /\ row' = CASE actor[a].reply = "renewed" -> [row EXCEPT !.env = actor[a].got, !.err = "none"]
              [] actor[a].reply = "refused" -> Condemned(row, "refused")
              [] actor[a].reply = "failed"  -> row
  /\ End(a, CASE actor[a].reply = "renewed" -> actor[a].got
              [] actor[a].reply = "refused" -> Cleared
              [] actor[a].reply = "failed"  -> LazyOutcome)
  /\ UNCHANGED <<idp, backoff, health, faults, spoiled>>

\* The transaction fails, or its process dies, before the commit: nothing is
\* written, the lock goes, and an answer that was received is lost.
Abort(a) ==
  /\ actor[a].at = "answered"
  /\ faults < MaxFaults
  /\ faults' = faults + 1
  /\ holder' = None
  /\ spoiled' = IF actor[a].reply = "renewed"
                THEN spoiled \cup ({Token(row.env)} \ live) ELSE spoiled
  /\ End(a, Cleared)
  /\ UNCHANGED <<row, idp, backoff, health>>

\* The bounded lock wait elapses.  A flight re-reads once without the lock and
\* adopts what is valid; a forced refresh is transient; a filing is dropped.
LockTimeout(a) ==
  /\ holder # None
  /\ \E job \in {"lazy", "force", "file"} : Queued(a, job)
  /\ End(a, IF Kind(row.env) = "oauth" THEN LazyOutcome ELSE Cleared)
  /\ UNCHANGED <<row, idp, backoff, holder, health, faults, spoiled>>

-----------------------------------------------------------------------------
(* The sweep and the owner.                                                 *)

\* The sweep takes up a row, for its age or for one of the marks kept in Redis
\* (so at any time), and keys the forced refresh on the envelope it reads.
SweepRow(w) ==
  /\ actor[w].at = "idle"
  /\ row.oauth /\ row.env # Cleared
  /\ actor' = [actor EXCEPT ![w] =
                 [Resting EXCEPT !.at = "wait", !.job = "force", !.env = row.env]]
  /\ UNCHANGED <<row, idp, backoff, holder, inflight, health, faults, spoiled>>

\* The owner starts a reconnect on an OAuth row and the code is exchanged: a new
\* grant, not stored yet.
Exchange(u) ==
  /\ actor[u].at = "idle"
  /\ row.oauth
  /\ issued < MaxEnvelopes
  /\ issued' = issued + 1
  /\ cred' = [cred EXCEPT ![issued + 1] = [kind |-> "oauth", grant |-> issued + 1,
                                           token |-> issued + 1, expiry |-> "fresh"]]
  /\ live' = live \cup {issued + 1}
  /\ actor' = [actor EXCEPT ![u] =
                 [Resting EXCEPT !.at = "wait", !.job = "reconnect", !.env = issued + 1]]
  /\ UNCHANGED <<row, backoff, holder, inflight, health, faults, spoiled>>

\* complete, under the lock: a stale completion writes nothing.
Reconnect(u) ==
  /\ Queued(u, "reconnect")
  /\ holder = None
  /\ IF row.oauth /\ row.env # Cleared
     THEN /\ row' = ResettingHealth([row EXCEPT !.env = actor[u].env, !.err = "none"])
     ELSE UNCHANGED row
  /\ actor' = [actor EXCEPT ![u] = Resting]
  /\ UNCHANGED <<idp, backoff, holder, inflight, health, faults, spoiled>>

\* An edit that supplies or clears the credential reads the row first ...
LoadEdit(u) ==
  /\ actor[u].at = "idle"
  /\ actor' = [actor EXCEPT ![u] = [Resting EXCEPT !.at = "loaded", !.oauth = row.oauth]]
  /\ UNCHANGED <<row, idp, backoff, holder, inflight, health, faults, spoiled>>

\* Mutant: an edit of the credential does not take the credential lock.
WriteUnlocked(u) ==
  /\ actor[u].at = "loaded"
  /\ row' = ResettingHealth([row EXCEPT !.env = Cleared, !.oauth = FALSE,
                                        !.err = IF actor[u].oauth THEN "none" ELSE @])
  /\ actor' = [actor EXCEPT ![u] = Resting]
  /\ UNCHANGED <<idp, backoff, holder, inflight, health, faults, spoiled>>

\* ... and writes: under the lock when the row read was OAuth-connected, and the
\* OAuth metadata goes in the same write.
WriteEdit(u) ==
  /\ actor[u].at = "loaded"
  /\ actor[u].oauth => holder = None
  /\ \/ /\ row' = ResettingHealth([row EXCEPT !.env = Cleared, !.oauth = FALSE,
                                    !.err = IF actor[u].oauth THEN "none" ELSE @])
        /\ UNCHANGED <<cred, issued>>
     \/ /\ issued < MaxEnvelopes
        /\ issued' = issued + 1
        /\ cred' = [cred EXCEPT ![issued + 1] = [Blank EXCEPT !.kind = "plain",
                                                           !.grant = issued + 1]]
        /\ row' = ResettingHealth([row EXCEPT !.env = issued + 1, !.oauth = FALSE,
                                    !.err = IF actor[u].oauth THEN "none" ELSE @])
  /\ actor' = [actor EXCEPT ![u] = Resting]
  /\ UNCHANGED <<live, backoff, holder, inflight, health, faults, spoiled>>

-----------------------------------------------------------------------------
(* Time, Redis expiry, and the identity provider.                           *)

Age(e) ==
  /\ Kind(e) = "oauth"
  /\ e = row.env \/ \E r \in Requests : actor[r].at = "loaded" /\ actor[r].env = e
  /\ \/ Expiry(e) = "fresh" /\ cred' = [cred EXCEPT ![e].expiry = "near"]
     \/ Expiry(e) = "near"  /\ cred' = [cred EXCEPT ![e].expiry = "expired"]
  /\ UNCHANGED <<row, issued, live, backoff, holder, inflight, actor, health, faults, spoiled>>

BackoffEnds ==
  /\ backoff /\ backoff' = FALSE
  /\ UNCHANGED <<row, idp, holder, inflight, actor, health, faults, spoiled>>

\* The subscription is revoked at the identity provider.
Revoke ==
  /\ faults < MaxFaults
  /\ faults' = faults + 1
  /\ \E t \in live : live' = live \ {t} /\ spoiled' = spoiled \cup {t}
  /\ UNCHANGED <<row, cred, issued, backoff, holder, inflight, actor, health>>

Next ==
  \/ \E r \in Requests : \/ Load(r) \/ ResolveCheap(r) \/ ResolveUnreadable(r)
                         \/ ResolveBackoff(r) \/ ResolveFlight(r) \/ Settle(r)
                         \/ File(r) \/ TakeLazy(r)
  \/ \E x \in reports : LandReport(x)
  \/ \E a \in Requests \cup Sweeps :
       \/ TakeForce(a) \/ DialRotates(a) \/ DialRefused(a) \/ DialFails(a)
       \/ Commit(a) \/ Abort(a) \/ LockTimeout(a)
  \/ \E w \in Sweeps : SweepRow(w)
  \/ \E u \in Users : Exchange(u) \/ Reconnect(u) \/ LoadEdit(u) \/ WriteEdit(u)
  \/ \E e \in Envelopes : Age(e)
  \/ BackoffEnds \/ Revoke

Spec == Init /\ [][Next]_vars

\* Fairness: every wait of the code is bounded.  A token call is abandoned after
\* its own timeout and a transaction ends; the Redis health expire; the sweep is
\* repeated on a schedule; the lock is granted in the order it was asked for and
\* held for less than a waiter waits; and the identity provider is not down for
\* ever.  Nothing makes a request call, an owner act or a token age.
Fairness ==
  /\ \A a \in Requests \cup Sweeps :
       /\ WF_vars(DialRotates(a) \/ DialRefused(a) \/ DialFails(a))
       /\ SF_vars(DialRefused(a))
       /\ WF_vars(Commit(a))
       /\ SF_vars(TakeForce(a))
  /\ \A r \in Requests : WF_vars(File(r) \/ TakeLazy(r) \/ LockTimeout(r))
  /\ \A w \in Sweeps : WF_vars(SweepRow(w))
  /\ WF_vars(BackoffEnds)

FairSpec == Spec /\ Fairness

-----------------------------------------------------------------------------
(* Properties.                                                              *)

TypeOK ==
  /\ row \in Rows
  /\ cred \in [{Cleared} \cup Envelopes -> Credentials]
  /\ issued \in Envelopes
  /\ live \subseteq Envelopes /\ spoiled \subseteq Nat
  /\ backoff \in BOOLEAN
  /\ holder \in Requests \cup Sweeps \cup {None}
  /\ inflight \in [Instances -> Requests \cup {None}]
  /\ actor \in [Actors -> Doings]
  /\ reports \subseteq [seq : 1 .. MaxReports, of : {Cleared} \cup Envelopes]
  /\ seq \in 0 .. MaxReports
  /\ faults \in 0 .. MaxFaults

\* Rotation is never clobbered: while nobody holds the lock, the refresh token
\* stored is one the identity provider honours, however the refreshes of the
\* requests, the sweep and the owner's reconnects interleave, unless the provider
\* revoked it or a fault lost the answer that replaced it.
StoredTokenLives ==
  holder = None /\ Kind(row.env) = "oauth" => Token(row.env) \in live \cup spoiled

\* A refusal condemns only the credential that was refused: a row that asks for
\* reauthorization on the provider's word stores a token the provider rejects.
RefusalIsEarned == row.err = "refused" => Token(row.env) \notin live

\* An envelope is condemned as unreadable only when it is: nothing observed
\* against the dead credential is recorded for the one a reconnect stored.
FilingIsEarned == row.err = "filed" => Kind(row.env) = "unreadable"

\* A pasted key stays: neither a refresh under way when the owner replaced or
\* cleared the credential, nor the reconnect of an older tab, brings the OAuth
\* credential back.
ReplacedStaysReplaced == ~row.oauth => Kind(row.env) \in {"plain", "none"}

\* The traffic record displayed was observed on this connection: with a key or a
\* grant that was replaced since, a late report is dropped.
HealthIsOfThisConnection ==
  row.traffic.of # Cleared => cred[row.traffic.of].grant = cred[row.env].grant

\* The token endpoint is called only for a credential that may be renewed: never
\* while the row needs reauthorization, and within the backoff another instance
\* set only by a caller whose own check, under the lock, Redis did not answer.
CallIsWarranted ==
  [][\A a \in Requests \cup Sweeps :
       actor[a].at = "dial" /\ actor'[a].at = "answered" =>
         row.err = "none" /\ (backoff => actor[a].blind)]_vars

\* No refresh strands a request: whoever waits for the lock or on the flight of
\* another request is answered, with a credential or with an error.
RequestsAreAnswered ==
  \A r \in Requests : actor[r].at \in {"wait", "joined", "dial", "answered"}
                        ~> actor[r].at \in {"idle", "loaded", "sent"}

\* A grant that died while no request used it is found by the sweep: the row asks
\* for reauthorization, unless the owner replaced the credential meanwhile.
DeadGrantIsFound ==
  (Kind(row.env) = "oauth" /\ Token(row.env) \notin live)
     ~> (row.err # "none" \/ Kind(row.env) # "oauth" \/ Token(row.env) \in live)
==============================================================================
