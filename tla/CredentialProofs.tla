--------------------------- MODULE CredentialProofs ---------------------------
(***************************************************************************)
(* Proofs about Credential, for any number of requests, instances, tabs and *)
(* sweep lanes, and any bounds.                                             *)
(*                                                                         *)
(* StoredTokenLives is not inductive: a token call leaves the stored token   *)
(* dead until its transaction commits, and a reconnect holds a token of its  *)
(* own before it is stored.  The invariant therefore says who holds the      *)
(* lock, what the holder was answered, and that no two of the row, the       *)
(* answer and the waiting reconnects share a token.                          *)
(***************************************************************************)
EXTENDS Credential, TLAPS

Work == Requests \cup Sweeps   \* those that may hold the lock for a call
Busy(a) == actor[a].at \in {"dial", "answered"}
Renewed(a) == actor[a].at = "answered" /\ actor[a].reply = "renewed"
Pending(u) == Queued(u, "reconnect")

\* One holder: whoever is in a token call or has its answer.
LockInv ==
  /\ \A a \in Work : Busy(a) <=> holder = a
  /\ \A a \in Work : actor[a].at = "answered" => actor[a].reply # "none"
  /\ \A u \in Users : actor[u].at \in {"idle", "loaded", "wait"}

\* What was read under the lock still holds while the lock is held.
HeldInv ==
  /\ \A a \in Work : Busy(a) => Kind(row.env) = "oauth" /\ row.err = "none"
  /\ \A a \in Work : actor[a].at = "dial" => (backoff => actor[a].blind)

\* The OAuth marker: an edit that has read the row knows of it.
MarkerInv ==
  /\ Kind(Cleared) = "none"
  /\ ReplacedStaysReplaced
  /\ \A u \in Users : actor[u].at = "loaded" /\ row.oauth => actor[u].oauth

\* Envelopes and tokens are numbered as they are issued.
IssuedInv ==
  /\ row.env <= issued
  /\ \A e \in Envelopes : e <= issued => Token(e) <= issued
  /\ Token(Cleared) = 0
  /\ \A a \in Work : Renewed(a) => actor[a].got \in 1 .. issued
  /\ \A u \in Users : Pending(u) => /\ actor[u].env \in 1 .. issued
                                    /\ Token(actor[u].env) # 0

Good(e) == Kind(e) = "oauth" /\ Token(e) \in live \cup spoiled

\* The row's token, the answer's and those of the waiting reconnects are good ...
GoodInv ==
  /\ Kind(row.env) = "oauth" /\ (\A a \in Work : ~Renewed(a)) => Good(row.env)
  /\ \A a \in Work : Renewed(a) => Good(actor[a].got)
  /\ \A u \in Users : Pending(u) => Good(actor[u].env)

\* ... and a waiting reconnect shares its token with nobody.
PrivateInv ==
  \A u \in Users : Pending(u) =>
    /\ Token(actor[u].env) # Token(row.env)
    /\ \A a \in Work : Renewed(a) => Token(actor[u].env) # Token(actor[a].got)
    /\ \A v \in Users : v # u /\ Pending(v) => Token(actor[u].env) # Token(actor[v].env)

\* A refusal still stands when it is written, and afterwards.
RefusedInv ==
  /\ RefusalIsEarned
  /\ \A a \in Work : actor[a].at = "answered" /\ actor[a].reply = "refused" =>
       Token(row.env) \notin live

\* A renewal stays with its grant, and so does the health record.
GrantInv ==
  /\ HealthIsOfThisConnection
  /\ row.traffic.of <= issued
  /\ \A a \in Work : Renewed(a) => cred[actor[a].got].grant = cred[row.env].grant

IInv == /\ TypeOK /\ LockInv /\ HeldInv /\ MarkerInv /\ IssuedInv /\ GoodInv
        /\ PrivateInv /\ RefusedInv /\ GrantInv

-----------------------------------------------------------------------------
(* The types.                                                               *)

LEMMA InitType == Init => TypeOK
<1> SUFFICES ASSUME Init PROVE TypeOK
  OBVIOUS
<1>1. PICK k \in Starts :
        cred = [e \in {Cleared} \cup Envelopes |->
                  IF e = 1 THEN [kind |-> k, grant |-> 1, token |-> 1, expiry |-> "fresh"]
                           ELSE Blank]
  BY DEF Init
<1>2. cred \in [{Cleared} \cup Envelopes -> Credentials]
  BY <1>1, CredentialAssumption DEF Credentials, Blank
<1>3. 1 \in Envelopes
  BY CredentialAssumption DEF Envelopes
<1>4. actor \in [Actors -> Doings]
  BY DEF Init, Resting, Doings
<1>5. row \in Rows
  BY <1>3, CredentialAssumption DEF Init, Silent, Rows
<1>6. issued \in Envelopes /\ live \subseteq Envelopes /\ spoiled \subseteq Nat
      /\ backoff \in BOOLEAN /\ holder \in Requests \cup Sweeps \cup {None}
  BY <1>3 DEF Init
<1>7. inflight \in [Instances -> Requests \cup {None}] /\ reports = {}
      /\ seq \in 0 .. MaxReports /\ faults \in 0 .. MaxFaults
  BY CredentialAssumption DEF Init
<1> QED
  BY <1>2, <1>4, <1>5, <1>6, <1>7 DEF TypeOK

LEMMA LandedType ==
  ASSUME TypeOK, NEW a \in Actors, NEW x \in Actors, NEW e \in {Cleared} \cup Envelopes
  PROVE  Landed(a, e, x) \in Doings /\ Landed(a, e, x).at \in {"idle", "sent"}
<1>1. actor[x] \in Doings  BY DEF TypeOK
<1> QED  BY <1>1 DEF Landed, Doings, Resting

\* The end of a flight, or of other work: the actor rests or calls, passengers
\* of its flight with it, and everybody else stays.
LEMMA EndActors ==
  ASSUME TypeOK, NEW a \in Work, NEW e \in {Cleared} \cup Envelopes, End(a, e)
  PROVE  /\ actor'[a].at \in {"idle", "sent"}
         /\ \A x \in Actors : x # a =>
              \/ actor'[x] = actor[x]
              \/ x \in Requests /\ actor[x].at = "joined" /\ actor'[x].at \in {"idle", "sent"}
         /\ actor' \in [Actors -> Doings]
         /\ inflight' \in [Instances -> Requests \cup {None}]
<1> a \in Actors  BY DEF Work, Actors
<1>0. actor' = [x \in Actors |-> IF x \in Passengers(a) THEN Landed(a, e, x) ELSE actor[x]]
  BY DEF End
<1>1. actor'[a].at \in {"idle", "sent"}
  BY <1>0, LandedType DEF Passengers
<1>2. ASSUME NEW x \in Actors, x # a
      PROVE  \/ actor'[x] = actor[x]
             \/ x \in Requests /\ actor[x].at = "joined" /\ actor'[x].at \in {"idle", "sent"}
  <2>1. CASE x \in Passengers(a)
    <3>1. x \in Requests /\ actor[x].at = "joined"  BY <2>1, <1>2 DEF Passengers
    <3>2. actor'[x].at \in {"idle", "sent"}  BY <1>0, <2>1, LandedType
    <3> QED  BY <3>1, <3>2
  <2>2. CASE x \notin Passengers(a)  BY <1>0, <2>2
  <2> QED  BY <2>1, <2>2
<1>3. actor' \in [Actors -> Doings]
  <2>1. ASSUME NEW x \in Actors
        PROVE  (IF x \in Passengers(a) THEN Landed(a, e, x) ELSE actor[x]) \in Doings
    <3>1. actor[x] \in Doings  BY DEF TypeOK
    <3>2. Landed(a, e, x) \in Doings  BY LandedType
    <3> QED  BY <3>1, <3>2
  <2> QED  BY <1>0, <2>1
<1>4. inflight' \in [Instances -> Requests \cup {None}]
  BY DEF End, TypeOK
<1> QED  BY <1>1, <1>2, <1>3, <1>4

LEMMA RowParts ==
  ASSUME TypeOK
  PROVE  /\ row \in Rows /\ row.env \in {Cleared} \cup Envelopes
         /\ \A e \in {Cleared} \cup Envelopes : Token(e) \in Nat /\ cred[e] \in Credentials
         /\ issued \in Nat /\ MaxEnvelopes \in Nat /\ issued <= MaxEnvelopes /\ 1 <= issued
         /\ issued < MaxEnvelopes => issued + 1 \in Envelopes
BY CredentialAssumption DEF TypeOK, Credentials, Token, Envelopes, Rows

\* The writes to the row keep it a row.
LEMMA RowUpdates ==
  ASSUME NEW r \in Rows, NEW e \in {Cleared} \cup Envelopes
  PROVE  /\ Condemned(r, "filed") \in Rows /\ Condemned(r, "refused") \in Rows
         /\ [r EXCEPT !.env = e, !.err = "none"] \in Rows
         /\ ResettingHealth(r) \in Rows
         /\ \A x \in [seq : 0 .. MaxReports, of : {Cleared} \cup Envelopes] :
              [r EXCEPT !.traffic = x] \in Rows
<1>1. Silent \in [seq : 0 .. MaxReports, of : {Cleared} \cup Envelopes]
  BY CredentialAssumption DEF Silent
<1>2. Condemned(r, "filed") \in Rows /\ Condemned(r, "refused") \in Rows
  BY DEF Rows, Condemned
<1>3. /\ [r EXCEPT !.env = e, !.err = "none"] \in Rows
      /\ \A x \in [seq : 0 .. MaxReports, of : {Cleared} \cup Envelopes] :
           [r EXCEPT !.traffic = x] \in Rows
  BY DEF Rows
<1>4. ResettingHealth(r) \in Rows  BY <1>1 DEF Rows, ResettingHealth
<1> QED  BY <1>2, <1>3, <1>4

\* The writes to an actor keep its type.
LEMMA DoingUpdates ==
  ASSUME NEW d \in Doings, NEW e \in {Cleared} \cup Envelopes, NEW o \in BOOLEAN
  PROVE  /\ Resting \in Doings
         /\ \A at \in {"loaded", "wait"} : [Resting EXCEPT !.at = at, !.env = e, !.oauth = o] \in Doings
         /\ [Resting EXCEPT !.at = "loaded", !.oauth = o] \in Doings
         /\ \A job \in {"force", "reconnect"} :
              [Resting EXCEPT !.at = "wait", !.job = job, !.env = e] \in Doings
         /\ \A at \in {"sent", "joined"} : [d EXCEPT !.at = at] \in Doings
         /\ [d EXCEPT !.at = "dial", !.blind = o] \in Doings
         /\ \A job \in {"lazy", "force", "file"} : [d EXCEPT !.at = "wait", !.job = job] \in Doings
         /\ [d EXCEPT !.at = "answered", !.reply = "renewed", !.got = e,
                       !.blind = FALSE] \in Doings
         /\ \A reply \in {"refused", "failed"} :
              [d EXCEPT !.at = "answered", !.reply = reply, !.blind = FALSE] \in Doings
<1>1. Resting \in Doings
  BY DEF Doings, Resting
<1>2. \A at \in {"loaded", "wait"} : [Resting EXCEPT !.at = at, !.env = e, !.oauth = o] \in Doings
  BY <1>1 DEF Doings
<1>3. [Resting EXCEPT !.at = "loaded", !.oauth = o] \in Doings
  BY <1>1 DEF Doings
<1>4. \A job \in {"force", "reconnect"} :
        [Resting EXCEPT !.at = "wait", !.job = job, !.env = e] \in Doings
  BY <1>1 DEF Doings
<1>5. /\ \A at \in {"sent", "joined"} : [d EXCEPT !.at = at] \in Doings
      /\ [d EXCEPT !.at = "dial", !.blind = o] \in Doings
  BY DEF Doings
<1>6. \A job \in {"lazy", "force", "file"} : [d EXCEPT !.at = "wait", !.job = job] \in Doings
  BY DEF Doings
<1>7. [d EXCEPT !.at = "answered", !.reply = "renewed", !.got = e,
                !.blind = FALSE] \in Doings
  BY DEF Doings
<1>8. \A reply \in {"refused", "failed"} :
        [d EXCEPT !.at = "answered", !.reply = reply, !.blind = FALSE] \in Doings
  BY DEF Doings
<1> QED
  BY <1>1, <1>2, <1>3, <1>4, <1>5, <1>6, <1>7, <1>8

LEMMA CallStarts ==
  ASSUME TypeOK, NEW a \in Work, NEW o \in BOOLEAN,
         actor' = [actor EXCEPT ![a].at = "dial", ![a].blind = o]
  PROVE  actor'[a].blind = o
<1>1. a \in DOMAIN actor /\ actor[a] \in Doings  BY DEF TypeOK, Work, Actors
<1> DEFINE d == [actor[a] EXCEPT !.at = "dial"]
<1>2. "blind" \in DOMAIN d  BY <1>1 DEF Doings
<1>3. actor'[a] = [d EXCEPT !.blind = o]  BY <1>1
<1> HIDE DEF d
<1> QED  BY <1>2, <1>3, Zenon

LEMMA ActorUpdate ==
  ASSUME TypeOK, NEW a \in Actors, NEW d \in Doings, actor' = [actor EXCEPT ![a] = d]
  PROVE  actor' \in [Actors -> Doings]
BY DEF TypeOK

LEMMA TypeStep == TypeOK /\ LockInv /\ [Next]_vars => TypeOK'
<1> SUFFICES ASSUME TypeOK, LockInv, [Next]_vars PROVE TypeOK'
  OBVIOUS
<1> USE DEF idp, health
<1> Envelopes \subseteq Nat  BY DEF Envelopes
<1>0. /\ \A a \in Actors : actor[a] \in Doings /\ actor[a].env \in {Cleared} \cup Envelopes
                           /\ actor[a].got \in {Cleared} \cup Envelopes
                           /\ actor[a].oauth \in BOOLEAN
      /\ row.env \in {Cleared} \cup Envelopes /\ row.oauth \in BOOLEAN
      /\ row.err \in {"none", "refused", "filed"}
  BY DEF TypeOK, Doings, Rows
<1>1. ASSUME NEW r \in Requests,
             Load(r) \/ ResolveCheap(r) \/ ResolveUnreadable(r) \/ ResolveBackoff(r)
      PROVE  TypeOK'
  <2>1. r \in Actors /\ actor[r] \in Doings  BY <1>0 DEF Actors
  <2>2. PICK d : actor' = [actor EXCEPT ![r] = d] /\ d \in Doings
    <3>1. CASE Load(r)
      <4>1. [Resting EXCEPT !.at = "loaded", !.env = row.env, !.oauth = row.oauth] \in Doings
        BY <1>0 DEF Doings, Resting
      <4> QED  BY <3>1, <4>1 DEF Load
    <3>2. CASE ResolveCheap(r)  BY <1>0, <2>1, <3>2, DoingUpdates DEF ResolveCheap
    <3>3. CASE ResolveUnreadable(r)
      <4>1. actor' = [actor EXCEPT ![r] = [@ EXCEPT !.at = "wait", !.job = "file"]]
        BY <3>3 DEF ResolveUnreadable, TypeOK
      <4> QED  BY <1>0, <2>1, <4>1, DoingUpdates
    <3>4. CASE ResolveBackoff(r)  BY <1>0, <2>1, <3>4, DoingUpdates DEF ResolveBackoff
    <3> QED  BY <1>1, <3>1, <3>2, <3>3, <3>4
  <2>3. actor' \in [Actors -> Doings]  BY <2>1, <2>2, ActorUpdate
  <2> QED
    BY <1>1, <2>3 DEF Load, ResolveCheap, ResolveUnreadable, ResolveBackoff, TypeOK
<1>2. ASSUME NEW r \in Requests, ResolveFlight(r) PROVE TypeOK'
  <2>1. actor[r] \in Doings /\ r \in Actors  BY DEF TypeOK, Actors
  <2>2. actor' \in [Actors -> Doings]
    BY <1>2, <2>1 DEF ResolveFlight, TypeOK, Doings
  <2>3. inflight' \in [Instances -> Requests \cup {None}]
    BY <1>2 DEF ResolveFlight, TypeOK
  <2> QED  BY <1>2, <2>2, <2>3 DEF ResolveFlight, TypeOK
<1>3. ASSUME NEW r \in Requests, Settle(r) PROVE TypeOK'
  <2>1. r \in Actors /\ actor[r] \in Doings  BY <1>0 DEF Actors
  <2>2. PICK d : actor' = [actor EXCEPT ![r] = d] /\ d \in Doings
    BY <1>0, <1>3, <2>1, DoingUpdates DEF Settle
  <2>3. actor' \in [Actors -> Doings]  BY <2>1, <2>2, ActorUpdate
  <2>4. /\ reports' \subseteq [seq : 1 .. MaxReports, of : {Cleared} \cup Envelopes]
        /\ seq' \in 0 .. MaxReports
    BY <1>0, <1>3, <2>1, CredentialAssumption DEF Settle, TypeOK
  <2> QED  BY <1>3, <2>3, <2>4 DEF Settle, TypeOK
<1>4. ASSUME NEW x \in reports, LandReport(x) PROVE TypeOK'
  <2>1. x \in [seq : 0 .. MaxReports, of : {Cleared} \cup Envelopes]
    BY CredentialAssumption DEF TypeOK
  <2>2. row' \in Rows
    BY <1>4, <2>1, RowParts, RowUpdates DEF LandReport
  <2> QED  BY <1>4, <2>2 DEF LandReport, TypeOK
<1>5. ASSUME NEW a \in Work, NEW e \in {Cleared} \cup Envelopes, End(a, e),
             row' \in {row, Condemned(row, "filed"), Condemned(row, "refused"),
                       [row EXCEPT !.env = actor[a].got, !.err = "none"]},
             UNCHANGED <<idp, backoff, health>>, holder' \in {holder, None},
             faults' \in 0 .. MaxFaults, spoiled' \subseteq Nat
      PROVE  TypeOK'
  <2>1. actor[a].got \in {Cleared} \cup Envelopes  BY DEF TypeOK, Work, Actors, Doings
  <2>2. row' \in Rows
    <3>1. /\ Condemned(row, "filed") \in Rows /\ Condemned(row, "refused") \in Rows
          /\ [row EXCEPT !.env = actor[a].got, !.err = "none"] \in Rows
      BY <2>1, RowParts, RowUpdates
    <3> QED  BY <1>5, <3>1, RowParts
  <2> QED  BY <1>5, <2>2, EndActors DEF TypeOK
<1>6. LazyOutcome \in {Cleared} \cup Envelopes  BY RowParts DEF LazyOutcome
<1>7. ASSUME NEW r \in Requests, File(r) PROVE TypeOK'
  BY <1>5, <1>7 DEF File, Work, TypeOK
<1>8. ASSUME NEW a \in Work, NEW held \in BOOLEAN, StartCall(a, held),
             UNCHANGED <<row, idp, backoff, inflight, health, faults, spoiled>>
      PROVE  TypeOK'
  <2>1. a \in Actors /\ actor[a] \in Doings /\ backoff \in BOOLEAN
    BY DEF TypeOK, Work, Actors
  <2>2. actor' = [actor EXCEPT ![a] = [@ EXCEPT !.at = "dial", !.blind = (held # backoff)]]
    BY <1>8, <2>1 DEF StartCall, TypeOK
  <2>3. actor' \in [Actors -> Doings]  BY <1>0, <2>1, <2>2, DoingUpdates DEF TypeOK
  <2> QED  BY <1>8, <2>3 DEF StartCall, TypeOK, Work
<1>9. ASSUME NEW r \in Requests, TakeLazy(r) PROVE TypeOK'
  <2>1. PICK held \in BackoffReads :
          IF LazyNeedsCall(held) THEN StartCall(r, held) /\ UNCHANGED inflight
                                 ELSE End(r, LazyOutcome) /\ UNCHANGED holder
    BY <1>9 DEF TakeLazy
  <2>2. held \in BOOLEAN  BY DEF BackoffReads, TypeOK
  <2>3. CASE LazyNeedsCall(held)  BY <1>8, <1>9, <2>1, <2>2, <2>3 DEF TakeLazy, Work
  <2>4. CASE ~LazyNeedsCall(held)
    BY <1>5, <1>6, <1>9, <2>1, <2>4 DEF TakeLazy, Work, TypeOK
  <2> QED  BY <2>3, <2>4
<1>10. ASSUME NEW a \in Work, TakeForce(a) PROVE TypeOK'
  <2>1. PICK held \in BackoffReads :
          IF ForceNeedsCall(a, held)
          THEN StartCall(a, held) /\ UNCHANGED <<row, inflight>>
          ELSE /\ row' = IF ForceCondemns(a) THEN Condemned(row, "filed") ELSE row
               /\ End(a, Cleared) /\ UNCHANGED holder
    BY <1>10 DEF TakeForce
  <2>2. held \in BOOLEAN  BY DEF BackoffReads, TypeOK
  <2>3. CASE ForceNeedsCall(a, held)  BY <1>8, <1>10, <2>1, <2>2, <2>3 DEF TakeForce, Work
  <2>4. CASE ~ForceNeedsCall(a, held)
    BY <1>5, <1>10, <2>1, <2>4 DEF TakeForce, TypeOK
  <2> QED  BY <2>3, <2>4
<1>11. ASSUME NEW a \in Work, DialRotates(a) PROVE TypeOK'
  <2>1. a \in Actors /\ actor[a] \in Doings  BY DEF TypeOK, Work, Actors
  <2>2. issued + 1 \in Envelopes  BY <1>11, RowParts DEF DialRotates, Envelopes
  <2>3. actor' \in [Actors -> Doings]
    BY <1>11, <2>1, <2>2 DEF DialRotates, TypeOK, Doings
  <2>4. PICK rotates \in BOOLEAN :
          LET n == issued + 1
              t == IF rotates THEN n ELSE Token(row.env)
          IN /\ cred' = [cred EXCEPT ![n] = Renewal(t)]
             /\ live' = IF rotates THEN (live \ {Token(row.env)}) \cup {n} ELSE live
    BY <1>11 DEF DialRotates
  <2>5. cred' \in [{Cleared} \cup Envelopes -> Credentials]
    <3>1. cred[row.env].grant \in Nat /\ Token(row.env) \in Nat /\ issued + 1 \in Nat
      BY RowParts DEF Credentials
    <3>2. \A t \in Nat : Renewal(t) \in Credentials  BY <3>1 DEF Renewal, Credentials
    <3> QED  BY <2>4, <3>1, <3>2 DEF TypeOK
  <2>6. live' \subseteq Envelopes  BY <2>2, <2>4 DEF TypeOK
  <2> QED  BY <1>11, <2>2, <2>3, <2>5, <2>6 DEF DialRotates, TypeOK
<1>12. ASSUME NEW a \in Work, DialRefused(a) \/ DialFails(a) PROVE TypeOK'
  <2>0. a \in Actors /\ actor[a] \in Doings  BY DEF TypeOK, Work, Actors
  <2>1. actor' \in [Actors -> Doings]
    <3>1. PICK reply \in {"refused", "failed"} :
            actor' = [actor EXCEPT ![a] = [@ EXCEPT !.at = "answered", !.reply = reply,
                                                    !.blind = FALSE]]
      BY <1>12, <2>0 DEF DialRefused, DialFails, TypeOK
    <3>2. [actor[a] EXCEPT !.at = "answered", !.reply = reply, !.blind = FALSE] \in Doings
      BY <1>0, <2>0, DoingUpdates
    <3> QED  BY <2>0, <3>1, <3>2, ActorUpdate
  <2>2. live' \subseteq Envelopes /\ spoiled' \subseteq Nat /\ faults' \in 0 .. MaxFaults
    <3>1. /\ live' \subseteq live /\ spoiled' \subseteq spoiled \cup live
          /\ faults' = faults \/ (faults < MaxFaults /\ faults' = faults + 1)
      BY <1>12 DEF DialRefused, DialFails
    <3> QED  BY <3>1, CredentialAssumption DEF TypeOK
  <2>3. backoff' \in BOOLEAN  BY <1>12 DEF DialRefused, DialFails, TypeOK
  <2>4. UNCHANGED <<row, cred, issued, holder, inflight, health>>
    BY <1>12 DEF DialRefused, DialFails
  <2> QED  BY <2>1, <2>2, <2>3, <2>4 DEF TypeOK
<1>13. ASSUME NEW a \in Work, Commit(a) PROVE TypeOK'
  <2>1. actor[a].reply \in {"renewed", "refused", "failed"}
        /\ actor[a].got \in {Cleared} \cup Envelopes
    BY <1>13 DEF Commit, LockInv, TypeOK, Work, Actors, Doings
  <2>2. CASE actor[a].reply = "renewed"  BY <1>5, <1>13, <2>1, <2>2 DEF Commit, TypeOK
  <2>3. CASE actor[a].reply = "refused"  BY <1>5, <1>13, <2>1, <2>3 DEF Commit, TypeOK
  <2>4. CASE actor[a].reply = "failed"  BY <1>5, <1>6, <1>13, <2>1, <2>4 DEF Commit, TypeOK
  <2> QED  BY <2>1, <2>2, <2>3, <2>4
<1>14. ASSUME NEW a \in Work, Abort(a) PROVE TypeOK'
  <2>1. Token(row.env) \in Nat /\ spoiled \subseteq Nat  BY RowParts DEF TypeOK
  <2>2. spoiled' \subseteq Nat  BY <1>14, <2>1 DEF Abort
  <2>3. faults' \in 0 .. MaxFaults  BY <1>14, CredentialAssumption DEF Abort, TypeOK
  <2> QED  BY <1>5, <1>14, <2>2, <2>3 DEF Abort
<1>15. ASSUME NEW a \in Work, LockTimeout(a) PROVE TypeOK'
  BY <1>5, <1>6, <1>15 DEF LockTimeout, TypeOK
<1>16. ASSUME NEW w \in Sweeps, SweepRow(w) PROVE TypeOK'
  <2>1. actor' \in [Actors -> Doings]
    <3>1. w \in Actors /\ row.env \in {Cleared} \cup Envelopes  BY RowParts DEF Actors
    <3>2. [Resting EXCEPT !.at = "wait", !.job = "force", !.env = row.env] \in Doings
      BY <3>1 DEF Resting, Doings
    <3> QED  BY <1>16, <3>1, <3>2, ActorUpdate DEF SweepRow
  <2> QED  BY <1>16, <2>1 DEF SweepRow, TypeOK
<1>17. ASSUME NEW u \in Users, Exchange(u) PROVE TypeOK'
  <2>1. issued + 1 \in Envelopes  BY <1>17, RowParts DEF Exchange, Envelopes
  <2>2. actor' \in [Actors -> Doings]
    BY <1>17, <2>1 DEF Exchange, TypeOK, Actors, Doings, Resting
  <2>3. cred' \in [{Cleared} \cup Envelopes -> Credentials]
    BY <1>17, <2>1 DEF Exchange, TypeOK, Credentials
  <2> QED  BY <1>17, <2>1, <2>2, <2>3 DEF Exchange, TypeOK
<1>18. ASSUME NEW u \in Users, Reconnect(u) \/ LoadEdit(u) PROVE TypeOK'
  <2>0. u \in Actors  BY DEF Actors
  <2>1. actor' \in [Actors -> Doings]
    BY <1>0, <1>18, <2>0, DoingUpdates, ActorUpdate DEF Reconnect, LoadEdit
  <2>2. row' \in Rows
    <3>1. [row EXCEPT !.env = actor[u].env, !.err = "none"] \in Rows
      BY <1>0, <2>0, RowParts, RowUpdates
    <3>2. ResettingHealth([row EXCEPT !.env = actor[u].env, !.err = "none"]) \in Rows
      BY <3>1, RowUpdates
    <3> QED  BY <1>18, <3>2, RowParts DEF Reconnect, LoadEdit
  <2> QED  BY <1>18, <2>1, <2>2 DEF Reconnect, LoadEdit, TypeOK
<1>19. ASSUME NEW u \in Users, WriteEdit(u) PROVE TypeOK'
  <2>1. actor' \in [Actors -> Doings]
    BY <1>19, DoingUpdates, <1>0, ActorUpdate DEF WriteEdit, Actors
  <2>2. ASSUME NEW e \in {Cleared} \cup Envelopes,
               row' = ResettingHealth([row EXCEPT !.env = e, !.oauth = FALSE,
                                         !.err = IF actor[u].oauth THEN "none" ELSE @])
        PROVE  row' \in Rows
    <3> DEFINE written == [row EXCEPT !.env = e, !.oauth = FALSE,
                                     !.err = IF actor[u].oauth THEN "none" ELSE @]
    <3>1. written \in Rows  BY RowParts DEF Rows
    <3>2. ResettingHealth(written) \in Rows  BY <3>1, RowUpdates
    <3> QED  BY <2>2, <3>2
  <2>3. row' \in Rows /\ issued' \in Envelopes
    BY <1>19, <2>2, RowParts DEF WriteEdit, TypeOK
  <2>4. cred' \in [{Cleared} \cup Envelopes -> Credentials]
    <3>1. issued + 1 \in Nat  BY RowParts
    <3>2. [Blank EXCEPT !.kind = "plain", !.grant = issued + 1] \in Credentials
      BY <3>1 DEF Blank, Credentials
    <3> QED  BY <1>19, <3>2 DEF WriteEdit, TypeOK
  <2> QED  BY <1>19, <2>1, <2>3, <2>4 DEF WriteEdit, TypeOK
<1>20. ASSUME NEW e \in Envelopes, Age(e) PROVE TypeOK'
  <2>1. cred' \in [{Cleared} \cup Envelopes -> Credentials]
    BY <1>20 DEF Age, TypeOK, Credentials
  <2> QED  BY <1>20, <2>1 DEF Age, TypeOK
<1>21. ASSUME BackoffEnds \/ Revoke PROVE TypeOK'
  <2>1. live' \subseteq Envelopes  BY <1>21 DEF BackoffEnds, Revoke, TypeOK
  <2>2. spoiled' \subseteq Nat  BY <1>21 DEF BackoffEnds, Revoke, TypeOK
  <2>3. faults' \in 0 .. MaxFaults
    BY <1>21, CredentialAssumption DEF BackoffEnds, Revoke, TypeOK
  <2> QED  BY <1>21, <2>1, <2>2, <2>3 DEF BackoffEnds, Revoke, TypeOK
<1>22. CASE UNCHANGED vars  BY <1>22 DEF vars, TypeOK
<1> QED
  BY <1>1, <1>2, <1>3, <1>4, <1>7, <1>9, <1>10, <1>11, <1>12, <1>13, <1>14, <1>15,
     <1>16, <1>17, <1>18, <1>19, <1>20, <1>21, <1>22 DEF Next, Work

-----------------------------------------------------------------------------
(* The invariant.                                                           *)

LEMMA InitInv == Init => IInv
<1> SUFFICES ASSUME Init PROVE IInv
  OBVIOUS
<1> USE DEF Init
<1>1. TypeOK  BY InitType
<1>2. \A a \in Actors : actor[a] = Resting
  OBVIOUS
<1>3. Work \subseteq Actors /\ Users \subseteq Actors /\ None \notin Work
  BY CredentialAssumption DEF Work, Actors
<1>4. \A a \in Actors : actor[a].at = "idle"  BY <1>2 DEF Resting
<1>5. \A a \in Actors : ~Busy(a) /\ ~Renewed(a) /\ ~Pending(a)
  BY <1>4 DEF Busy, Renewed, Pending, Queued
<1>6. cred[1].token = 1 /\ cred[Cleared] = Blank /\ row.env = 1 /\ row.oauth
      /\ row.err = "none" /\ row.traffic.of = Cleared /\ issued = 1
  BY CredentialAssumption DEF Envelopes, Cleared, Silent
<1>7. \A e \in Envelopes : e <= 1 => e = 1  BY DEF Envelopes
<1>8. LockInv  BY <1>3, <1>4, <1>5 DEF LockInv
<1>9. HeldInv /\ MarkerInv
  BY <1>3, <1>4, <1>5, <1>6 DEF HeldInv, MarkerInv, ReplacedStaysReplaced, Kind, Blank, Busy
<1>10. IssuedInv  BY <1>3, <1>5, <1>6, <1>7 DEF IssuedInv, Token, Blank
<1>11. GoodInv /\ PrivateInv
  BY <1>3, <1>5, <1>6 DEF GoodInv, PrivateInv, Good, Token
<1>12. RefusedInv /\ GrantInv
  BY <1>3, <1>4, <1>5, <1>6
  DEF RefusedInv, RefusalIsEarned, GrantInv, HealthIsOfThisConnection, Cleared
<1> QED  BY <1>1, <1>8, <1>9, <1>10, <1>11, <1>12 DEF IInv

\* Steps that write neither the credential nor what the lock protects.
LEMMA QuietStep ==
  ASSUME IInv, TypeOK', UNCHANGED <<idp, backoff, holder, spoiled>>,
         row'.env = row.env, row'.oauth = row.oauth,
         row'.err = row.err \/ (holder = None /\ row'.err = "filed"),
         row'.traffic = row.traffic \/ row'.traffic.of = row.env,
         \A a \in Work : \/ actor'[a] = actor[a]
                         \/ ~Busy(a) /\ actor'[a].at \notin {"dial", "answered"},
         \A u \in Users : \/ actor'[u] = actor[u]
                          \/ actor'[u].at = "loaded" /\ actor'[u].oauth = row.oauth
                          \/ actor'[u].at = "idle"
  PROVE  IInv'
<1> USE DEF IInv, idp
<1>1. \A a \in Work : /\ Busy(a)' <=> Busy(a)
                      /\ Renewed(a)' <=> Renewed(a)
                      /\ Busy(a) => actor'[a] = actor[a]
                      /\ Renewed(a) => Busy(a)
                      /\ actor[a].at = "answered" => Busy(a)
  BY DEF Busy, Renewed
<1>2. \A u \in Users : Pending(u)' => Pending(u) /\ actor'[u] = actor[u]
  BY DEF Pending, Queued
<1>3. \A e : Kind(e)' = Kind(e) /\ Token(e)' = Token(e) /\ (Good(e)' <=> Good(e))
  BY DEF Kind, Token, Good
<1>4. \A a \in Work : holder = None => ~Busy(a)
  BY CredentialAssumption DEF LockInv, Work
<1>5. LockInv'  BY <1>1 DEF LockInv, Busy
<1>6. HeldInv'  BY <1>1, <1>3, <1>4 DEF HeldInv, Busy
<1>7. MarkerInv'  BY <1>3 DEF MarkerInv, ReplacedStaysReplaced
<1>8. IssuedInv'  BY <1>1, <1>2, <1>3 DEF IssuedInv
<1>9. GoodInv'  BY <1>1, <1>2, <1>3 DEF GoodInv
<1>10. PrivateInv'  BY <1>1, <1>2, <1>3 DEF PrivateInv
<1>11. RefusedInv'  BY <1>1, <1>3 DEF RefusedInv, RefusalIsEarned, Busy
<1>12. GrantInv'  BY <1>1 DEF GrantInv, HealthIsOfThisConnection, IssuedInv
<1> QED  BY <1>5, <1>6, <1>7, <1>8, <1>9, <1>10, <1>11, <1>12

\* Work ends without a write that the lock protects: a lookup under the lock that
\* needs no call, a filing, or a wait that is given up.
LEMMA EndQuietly ==
  ASSUME IInv, TypeOK', NEW a \in Work, ~Busy(a), NEW e \in {Cleared} \cup Envelopes, End(a, e),
         UNCHANGED <<idp, backoff, holder, spoiled>>,
         row' = row \/ (holder = None /\ row' = Condemned(row, "filed"))
  PROVE  IInv'
<1>1. \A b \in Work : \/ actor'[b] = actor[b]
                      \/ ~Busy(b) /\ actor'[b].at \notin {"dial", "answered"}
  <2>1. TypeOK  BY DEF IInv
  <2>2. /\ actor'[a].at \in {"idle", "sent"}
        /\ \A x \in Actors : x # a =>
             \/ actor'[x] = actor[x]
             \/ x \in Requests /\ actor[x].at = "joined" /\ actor'[x].at \in {"idle", "sent"}
    BY <2>1, EndActors
  <2> QED  BY <2>2 DEF Work, Actors, Busy
<1>2. \A u \in Users : actor'[u] = actor[u]
  <2>1. TypeOK  BY DEF IInv
  <2>2. \A x \in Actors : x # a => actor'[x] = actor[x] \/ x \in Requests
    BY <2>1, EndActors
  <2> QED  BY <2>2, CredentialAssumption DEF Work, Actors
<1>3. /\ row'.env = row.env /\ row'.oauth = row.oauth /\ row'.traffic = row.traffic
      /\ row'.err = row.err \/ (holder = None /\ row'.err = "filed")
  BY RowParts DEF IInv, Condemned, Rows
<1> QED  BY <1>1, <1>2, <1>3, QuietStep

\* The lock is granted for a token call.
LEMMA TakeStep ==
  ASSUME IInv, TypeOK', NEW a \in Work, ~Busy(a), holder = None, holder' = a,
         actor' = [actor EXCEPT ![a].at = "dial", ![a].blind = (FALSE # backoff)],
         Kind(row.env) = "oauth", row.err = "none",
         UNCHANGED <<row, idp, backoff, spoiled>>
  PROVE  IInv'
<1> USE DEF IInv, idp
<1>1. \A b \in Work : ~Busy(b) /\ ~Renewed(b) /\ ~Renewed(b)'
  BY CredentialAssumption DEF LockInv, Busy, Renewed, Work, Actors, TypeOK
<1>2. \A b \in Work : Busy(b)' <=> b = a
  BY <1>1 DEF Busy, Work, Actors, TypeOK
<1>3. \A b \in Work : actor'[b].at # "answered"
  BY <1>1 DEF Busy, Work, Actors, TypeOK
<1>4. \A u \in Users : u \in Actors /\ actor'[u] = actor[u] /\ (Pending(u)' <=> Pending(u))
  BY CredentialAssumption DEF Work, Actors, Pending, Queued, TypeOK
<1>5. \A e : Kind(e)' = Kind(e) /\ Token(e)' = Token(e) /\ (Good(e)' <=> Good(e))
  BY DEF Kind, Token, Good
<1>6. LockInv'  BY <1>2, <1>3, <1>4 DEF LockInv
<1>7. HeldInv'
  <2>1. actor'[a].blind = (FALSE # backoff)
    <3>1. (FALSE # backoff) \in BOOLEAN  OBVIOUS
    <3> QED  BY <3>1, CallStarts
  <2>2. ASSUME backoff PROVE actor'[a].blind
    <3>1. backoff = TRUE  BY <2>2 DEF TypeOK
    <3> QED  BY <2>1, <3>1
  <2> QED  BY <1>2, <1>5, <2>2 DEF HeldInv, Busy
<1>8. MarkerInv'  BY <1>4, <1>5 DEF MarkerInv, ReplacedStaysReplaced
<1>9. IssuedInv'  BY <1>1, <1>4, <1>5 DEF IssuedInv
<1>10. GoodInv' /\ PrivateInv'  BY <1>1, <1>4, <1>5 DEF GoodInv, PrivateInv
<1>11. RefusedInv' /\ GrantInv'
  BY <1>1, <1>3, <1>5 DEF RefusedInv, RefusalIsEarned, GrantInv, HealthIsOfThisConnection
<1> QED  BY <1>6, <1>7, <1>8, <1>9, <1>10, <1>11

\* What a token call under way means: no other is, and no edit is past its guard.
LEMMA HolderFacts ==
  ASSUME IInv, NEW a \in Work, Busy(a)
  PROVE  /\ holder = a /\ holder # None
         /\ \A b \in Work : Busy(b) => b = a
         /\ Kind(row.env) = "oauth" /\ row.err = "none" /\ row.oauth
BY CredentialAssumption
DEF IInv, LockInv, HeldInv, MarkerInv, ReplacedStaysReplaced, Work, TypeOK, Rows

\* A token call is answered without new tokens.
LEMMA DialStep ==
  ASSUME IInv, TypeOK', NEW a \in Work, DialRefused(a) \/ DialFails(a)
  PROVE  IInv'
<1> USE DEF IInv, idp
<1>0. a \in Actors /\ actor[a].at = "dial" /\ Busy(a)
  BY DEF DialRefused, DialFails, Busy, Work, Actors
<1>1. /\ holder = a /\ holder # None /\ (\A b \in Work : Busy(b) => b = a)
      /\ Kind(row.env) = "oauth" /\ row.err = "none" /\ row.oauth
  BY <1>0, HolderFacts
<1>2. \A b \in Work : ~Renewed(b)  BY <1>0, <1>1 DEF Busy, Renewed
<1>3. /\ actor'[a].at = "answered" /\ actor'[a].reply \in {"refused", "failed"}
      /\ \A x \in Actors : x # a => actor'[x] = actor[x]
      /\ actor'[a].reply = "refused" => DialRefused(a)
  <2>1. \E reply \in {"refused", "failed"} :
          /\ actor' = [actor EXCEPT ![a] = [@ EXCEPT !.at = "answered", !.reply = reply,
                                                    !.blind = FALSE]]
          /\ reply = "refused" => DialRefused(a)
    <3>1. CASE DialRefused(a)  BY <1>0, <3>1 DEF DialRefused, TypeOK
    <3>2. CASE DialFails(a)  BY <1>0, <3>2 DEF DialFails, TypeOK
    <3> QED  BY <3>1, <3>2
  <2>2. actor[a] \in Doings /\ actor \in [Actors -> Doings]  BY <1>0 DEF TypeOK
  <2> QED  BY <1>0, <2>1, <2>2 DEF Doings
<1>4. \A b \in Work : ~Renewed(b)' /\ (Busy(b)' <=> Busy(b)) /\ (b # a => ~Busy(b))
  BY <1>0, <1>1, <1>2, <1>3 DEF Renewed, Busy, Work, Actors
<1>5. \A u \in Users : actor'[u] = actor[u] /\ (Pending(u)' <=> Pending(u))
  <2>1. \A u \in Users : u \in Actors /\ u # a
    BY CredentialAssumption DEF Work, Actors
  <2> QED  BY <1>3, <2>1 DEF Pending, Queued
<1>6. UNCHANGED <<row, cred, issued, holder>>  BY DEF DialRefused, DialFails
<1>7. \A e : Kind(e)' = Kind(e) /\ Token(e)' = Token(e)
  BY <1>6 DEF Kind, Token
<1>8. live' \subseteq live /\ live \cup spoiled \subseteq live' \cup spoiled'
  BY DEF DialRefused, DialFails
<1>9. \A e : Good(e) => Good(e)'  BY <1>7, <1>8 DEF Good
<1>10. LockInv'
  <2>1. \A b \in Work : Busy(b)' <=> holder' = b  BY <1>4, <1>6 DEF LockInv
  <2>2. \A b \in Work : actor'[b].at = "answered" => actor'[b].reply # "none"
    BY <1>3, <1>4, <2>1 DEF Busy, Work, Actors, LockInv
  <2>3. \A u \in Users : actor'[u].at \in {"idle", "loaded", "wait"}  BY <1>5 DEF LockInv
  <2> QED  BY <2>1, <2>2, <2>3 DEF LockInv
<1>11. HeldInv'
  <2>1. \A b \in Work : actor'[b].at # "dial"  BY <1>3, <1>4 DEF Busy
  <2> QED  BY <1>1, <1>6, <1>7, <2>1 DEF HeldInv
<1>12. MarkerInv'  BY <1>5, <1>6, <1>7 DEF MarkerInv, ReplacedStaysReplaced
<1>13. IssuedInv'  BY <1>4, <1>5, <1>6, <1>7 DEF IssuedInv
<1>14. GoodInv' /\ PrivateInv'
  BY <1>2, <1>4, <1>5, <1>6, <1>7, <1>9 DEF GoodInv, PrivateInv
<1>15. RefusedInv'
  <2>1. \A b \in Work : actor'[b].at = "answered" /\ actor'[b].reply = "refused" =>
          b = a /\ Token(row.env) \notin live'
    BY <1>3, <1>4, <1>8 DEF Busy, DialRefused
  <2> QED  BY <1>1, <1>6, <1>7, <2>1 DEF RefusedInv, RefusalIsEarned
<1>16. GrantInv'  BY <1>4, <1>6 DEF GrantInv, HealthIsOfThisConnection
<1> QED  BY <1>10, <1>11, <1>12, <1>13, <1>14, <1>15, <1>16

\* A token call is answered with new tokens: a new envelope, not stored yet.
LEMMA RotateStep ==
  ASSUME IInv, TypeOK', NEW a \in Work, DialRotates(a)
  PROVE  IInv'
<1> USE DEF IInv, idp
<1>n. PICK n \in Nat : n = issued + 1  BY RowParts
<1>0. a \in Actors /\ actor[a].at = "dial" /\ Busy(a) /\ Token(row.env) \in live
  BY DEF DialRotates, Busy, Work, Actors
<1>1. /\ holder = a /\ holder # None /\ (\A b \in Work : Busy(b) => b = a)
      /\ Kind(row.env) = "oauth" /\ row.err = "none" /\ row.oauth
  BY <1>0, HolderFacts
<1>2. PICK t \in {n, Token(row.env)} :
        /\ cred' = [cred EXCEPT ![n] = Renewal(t)]
        /\ t = n => live' = (live \ {Token(row.env)}) \cup {n}
        /\ t # n => live' = live
  <2>1. PICK rotates \in BOOLEAN :
          LET m == issued + 1
              t == IF rotates THEN m ELSE Token(row.env)
          IN /\ cred' = [cred EXCEPT ![m] = Renewal(t)]
             /\ live' = IF rotates THEN (live \ {Token(row.env)}) \cup {m} ELSE live
    BY DEF DialRotates
  <2>2. Token(row.env) <= issued /\ issued \in Nat /\ Token(row.env) \in Nat
    BY <1>1, RowParts DEF IssuedInv, Cleared, MarkerInv, Kind
  <2>3. Token(row.env) # n  BY <1>n, <2>2
  <2> QED  BY <2>1, <2>3, <1>n
<1>3. /\ actor'[a].at = "answered" /\ actor'[a].reply = "renewed" /\ actor'[a].got = n
      /\ \A x \in Actors : x # a => actor'[x] = actor[x]
  BY <1>0, <1>n DEF DialRotates, TypeOK, Doings
<1>4. /\ \A b \in Work : Busy(b)' <=> Busy(b)
      /\ \A b \in Work : Renewed(b)' <=> b = a
  BY <1>0, <1>1, <1>3 DEF Renewed, Busy, Work, Actors
<1>5. \A u \in Users : actor'[u] = actor[u] /\ (Pending(u)' <=> Pending(u))
  <2>1. \A u \in Users : u \in Actors /\ u # a
    BY CredentialAssumption DEF Work, Actors
  <2> QED  BY <1>3, <2>1 DEF Pending, Queued
<1>6. UNCHANGED <<row, backoff, holder, spoiled>> /\ issued' = n /\ n \in Envelopes
  BY RowParts, <1>n DEF DialRotates
<1>7. \A e \in {Cleared} \cup Envelopes : e <= issued =>
        Kind(e)' = Kind(e) /\ Token(e)' = Token(e) /\ cred'[e].grant = cred[e].grant
  BY <1>2, <1>n, RowParts DEF Kind, Token, TypeOK, Envelopes, Cleared
<1>8. /\ Kind(n)' = "oauth" /\ Token(n)' \in {n, Token(row.env)} /\ Token(n)' \in live'
      /\ cred'[n].grant = cred[row.env].grant
  <2>1. cred'[n] = Renewal(t)  BY <1>2, <1>6 DEF TypeOK
  <2>2. t \in live'
    <3>1. t # n => t = Token(row.env)  BY <1>2
    <3> QED  BY <1>0, <1>2, <3>1
  <2> QED  BY <1>2, <2>1, <2>2 DEF Kind, Token, Renewal
<1>9. row.env \in {Cleared} \cup Envelopes /\ row.env <= issued /\ issued \in Nat
      /\ row.traffic.of <= issued /\ row.traffic.of \in {Cleared} \cup Envelopes
  BY RowParts DEF IssuedInv, GrantInv, Rows
<1>10. \A u \in Users : Pending(u) =>
         /\ actor[u].env \in Envelopes /\ actor[u].env <= issued /\ actor[u].env # n
         /\ Token(actor[u].env) <= issued /\ Token(actor[u].env) # n
         /\ Token(actor[u].env) # Token(row.env) /\ Good(actor[u].env)
  BY <1>n, RowParts DEF IssuedInv, GoodInv, PrivateInv, Envelopes
<1>11. LockInv'
  <2>1. \A b \in Work : actor'[b].at = "answered" => b = a
    BY <1>4, <1>1 DEF Busy
  <2> QED  BY <1>3, <1>4, <1>5, <1>6, <2>1 DEF LockInv
<1>12. HeldInv'
  <2>1. \A b \in Work : actor'[b].at # "dial"  BY <1>1, <1>3, <1>4 DEF Busy
  <2> QED  BY <1>1, <1>6, <1>7, <1>9, <2>1 DEF HeldInv
<1>13. MarkerInv'
  <2>1. Kind(Cleared)' = Kind(Cleared)  BY <1>7, RowParts DEF Cleared
  <2> QED  BY <1>1, <1>5, <1>6, <2>1 DEF MarkerInv, ReplacedStaysReplaced
<1>14. IssuedInv'
  <2>1. \A e \in Envelopes : e <= n => e <= issued \/ e = n
    BY <1>9, <1>n DEF Envelopes
  <2>2. \A e \in Envelopes : e <= n => Token(e)' <= n
    <3>1. Token(n)' <= n
      <4>1. Token(row.env) <= issued /\ Token(row.env) \in Nat
        BY <1>9, RowParts DEF IssuedInv, Cleared
      <4> QED  BY <1>8, <1>9, <1>n, <4>1
    <3>2. \A e \in Envelopes : Token(e) \in Nat  BY RowParts
    <3>3. ASSUME NEW e \in Envelopes, e <= issued PROVE Token(e)' <= n
      BY <1>7, <1>9, <1>n, <3>2, <3>3 DEF IssuedInv
    <3> QED  BY <2>1, <3>1, <3>3
  <2>3. Token(Cleared)' = 0  BY <1>7, <1>9 DEF IssuedInv, Cleared, Token
  <2>4. \A b \in Work : Renewed(b)' => actor'[b].got \in 1 .. n
    BY <1>3, <1>4, <1>9, <1>n
  <2>5. \A u \in Users : Pending(u)' => /\ actor'[u].env \in 1 .. n
                                        /\ Token(actor[u].env)' # 0
    BY <1>5, <1>7, <1>9, <1>10, <1>n DEF IssuedInv, Token
  <2>6. row'.env <= issued'  BY <1>6, <1>9, <1>n, RowParts DEF Envelopes, Cleared
  <2> QED  BY <1>6, <2>2, <2>3, <2>4, <2>5, <2>6 DEF IssuedInv, Token
<1>15. GoodInv'
  <2>1. \A u \in Users : Pending(u) => Good(actor[u].env)'
    BY <1>2, <1>5, <1>6, <1>7, <1>10 DEF Good, Token, Kind
  <2>2. Good(n)'  BY <1>8 DEF Good
  <2> QED  BY <1>3, <1>4, <1>5, <2>1, <2>2 DEF GoodInv
<1>16. PrivateInv'
  <2>1. \A u \in Users : Pending(u) => Token(actor[u].env)' = Token(actor[u].env)
    BY <1>5, <1>7, <1>10 DEF Token
  <2> QED
    BY <1>3, <1>4, <1>5, <1>6, <1>7, <1>8, <1>9, <1>10, <2>1 DEF PrivateInv, Token
<1>17. RefusedInv'
  <2>1. \A b \in Work : actor'[b].at = "answered" => b = a  BY <1>1, <1>4 DEF Busy
  <2> QED  BY <1>1, <1>3, <1>6, <2>1 DEF RefusedInv, RefusalIsEarned
<1>18. GrantInv'
  <2>1. cred'[row.env].grant = cred[row.env].grant
        /\ cred'[row.traffic.of].grant = cred[row.traffic.of].grant
    BY <1>7, <1>9
  <2>2. HealthIsOfThisConnection'  BY <1>6, <2>1 DEF GrantInv, HealthIsOfThisConnection
  <2>3. row'.traffic.of <= issued'
    BY <1>6, <1>9, <1>n, RowParts DEF Envelopes, Cleared
  <2>4. \A b \in Work : Renewed(b)' => cred'[actor'[b].got].grant = cred'[row'.env].grant
    BY <1>3, <1>4, <1>6, <1>8, <2>1
  <2> QED  BY <2>2, <2>3, <2>4 DEF GrantInv
<1> QED  BY <1>11, <1>12, <1>13, <1>14, <1>15, <1>16, <1>17, <1>18

\* The transaction commits what the answer calls for, or fails.
LEMMA EndOfCall ==
  ASSUME IInv, TypeOK', NEW a \in Work, Commit(a) \/ Abort(a)
  PROVE  IInv'
<1> USE DEF IInv, idp
<1>0. a \in Actors /\ actor[a].at = "answered" /\ Busy(a)
      /\ actor[a].reply \in {"renewed", "refused", "failed"}
  BY DEF Commit, Abort, Busy, Work, Actors, LockInv, TypeOK, Doings
<1>1. /\ holder = a /\ holder # None /\ (\A b \in Work : Busy(b) => b = a)
      /\ Kind(row.env) = "oauth" /\ row.err = "none" /\ row.oauth
  BY <1>0, HolderFacts
<1>2. \E e \in {Cleared} \cup Envelopes : End(a, e)
  <2>1. LazyOutcome \in {Cleared} \cup Envelopes  BY RowParts DEF LazyOutcome
  <2>2. actor[a].got \in {Cleared} \cup Envelopes  BY <1>0 DEF TypeOK, Doings
  <2> QED  BY <1>0, <2>1, <2>2 DEF Commit, Abort
<1>3. /\ actor'[a].at \in {"idle", "sent"}
      /\ \A x \in Actors : x # a =>
           \/ actor'[x] = actor[x]
           \/ x \in Requests /\ actor[x].at = "joined" /\ actor'[x].at \in {"idle", "sent"}
  BY <1>2, EndActors
<1>4. \A b \in Work : /\ ~Busy(b)' /\ ~Renewed(b)' /\ actor'[b].at \notin {"dial", "answered"}
                      /\ Renewed(b) => b = a
  BY <1>1, <1>3 DEF Busy, Renewed, Work, Actors
<1>5. \A u \in Users : actor'[u] = actor[u] /\ (Pending(u)' <=> Pending(u))
  BY <1>3, CredentialAssumption DEF Work, Actors, Pending, Queued
<1>6. UNCHANGED <<cred, issued, live, backoff>> /\ holder' = None /\ spoiled \subseteq spoiled'
  BY DEF Commit, Abort
<1>7. \A e : Kind(e)' = Kind(e) /\ Token(e)' = Token(e) /\ (Good(e) => Good(e)')
  BY <1>6 DEF Kind, Token, Good
<1>8. row.traffic = row'.traffic /\ row'.oauth = row.oauth
      /\ (row'.err = "refused" => actor[a].reply = "refused")
      /\ \/ row'.env = row.env
         \/ Renewed(a) /\ row'.env = actor[a].got
  BY <1>0, <1>1, RowParts DEF Commit, Abort, Condemned, Rows, Renewed
<1>9. Renewed(a) => /\ actor[a].got \in 1 .. issued /\ Good(actor[a].got)
                    /\ cred[actor[a].got].grant = cred[row.env].grant
  BY DEF IssuedInv, GoodInv, GrantInv
<1>10. Kind(row'.env) = "oauth"  BY <1>1, <1>8, <1>9 DEF Good
<1>11. LockInv'
  <2>1. \A b \in Work : ~(holder' = b)  BY <1>6, CredentialAssumption DEF Work
  <2> QED  BY <1>4, <1>5, <2>1 DEF LockInv
<1>12. HeldInv'  BY <1>4 DEF HeldInv
<1>13. MarkerInv'  BY <1>1, <1>5, <1>7, <1>8 DEF MarkerInv, ReplacedStaysReplaced
<1>14. IssuedInv'
  BY <1>4, <1>5, <1>6, <1>7, <1>8, <1>9, RowParts DEF IssuedInv, Envelopes
<1>15. Good(row.env)'
  <2>1. CASE ~Renewed(a)
    BY <1>1, <1>4, <1>7, <1>8, <2>1 DEF GoodInv
  <2>2. CASE Renewed(a) /\ Commit(a)
    <3>1. row'.env = actor[a].got  BY <2>2, RowParts DEF Commit, Renewed, Rows
    <3> QED  BY <1>7, <1>9, <2>2, <3>1
  <2>3. CASE Renewed(a) /\ Abort(a)
    <3>1. Token(row.env) \in live \cup spoiled'  BY <2>3 DEF Abort, Renewed
    <3>2. row'.env = row.env  BY <2>3 DEF Abort
    <3> QED  BY <1>1, <1>6, <1>7, <3>1, <3>2 DEF Good
  <2> QED  BY <2>1, <2>2, <2>3
<1>16. GoodInv'  BY <1>4, <1>5, <1>7, <1>15 DEF GoodInv
<1>17. PrivateInv'  BY <1>4, <1>5, <1>7, <1>8 DEF PrivateInv
<1>18. RefusedInv'
  <2>1. row'.err = "refused" => row'.env = row.env /\ actor[a].reply = "refused"
    BY <1>8 DEF Renewed
  <2> QED  BY <1>0, <1>4, <1>6, <1>7, <2>1 DEF RefusedInv, RefusalIsEarned
<1>19. GrantInv'
  BY <1>4, <1>6, <1>8, <1>9 DEF GrantInv, HealthIsOfThisConnection
<1> QED  BY <1>11, <1>12, <1>13, <1>14, <1>16, <1>17, <1>18, <1>19

\* A reconnect is exchanged: a new grant with a token nobody has.
LEMMA ExchangeStep ==
  ASSUME IInv, TypeOK', NEW u \in Users, Exchange(u)
  PROVE  IInv'
<1> USE DEF IInv, idp
<1>n. PICK n \in Nat : n = issued + 1  BY RowParts
<1>0. u \in Actors /\ u \notin Work  BY CredentialAssumption DEF Work, Actors
<1>1. /\ actor'[u].at = "wait" /\ actor'[u].job = "reconnect" /\ actor'[u].env = n
      /\ \A x \in Actors : x # u => actor'[x] = actor[x]
  BY <1>0, <1>n DEF Exchange, TypeOK, Resting
<1>2. /\ \A a \in Work : actor'[a] = actor[a]
      /\ \A a \in Work : (Busy(a)' <=> Busy(a)) /\ (Renewed(a)' <=> Renewed(a))
      /\ \A v \in Users : v # u => actor'[v] = actor[v] /\ (Pending(v)' <=> Pending(v))
  BY <1>0, <1>1 DEF Work, Actors, Busy, Renewed, Pending, Queued
<1>3. UNCHANGED <<row, backoff, holder, spoiled>> /\ issued' = n /\ n \in Envelopes
      /\ live' = live \cup {n}
  BY <1>n, RowParts DEF Exchange
<1>4. \A e \in {Cleared} \cup Envelopes : e <= issued =>
        Kind(e)' = Kind(e) /\ Token(e)' = Token(e) /\ cred'[e].grant = cred[e].grant
  BY <1>n, RowParts DEF Exchange, Kind, Token, TypeOK, Envelopes, Cleared
<1>5. cred'[n] = [kind |-> "oauth", grant |-> n, token |-> n, expiry |-> "fresh"]
  BY <1>3, <1>n DEF Exchange, TypeOK
<1>6. row.env \in {Cleared} \cup Envelopes /\ row.env <= issued /\ issued \in Nat
      /\ Token(row.env) <= issued /\ Token(row.env) \in Nat
      /\ row.traffic.of <= issued /\ row.traffic.of \in {Cleared} \cup Envelopes
  BY RowParts DEF IssuedInv, GrantInv, Rows, Cleared
<1>7. \A a \in Work : Renewed(a) =>
        /\ actor[a].got \in Envelopes /\ actor[a].got <= issued
        /\ Token(actor[a].got) <= issued /\ Token(actor[a].got) \in Nat
  BY RowParts DEF IssuedInv, Envelopes
<1>8. \A v \in Users : Pending(v) =>
        /\ actor[v].env \in Envelopes /\ actor[v].env <= issued
        /\ Token(actor[v].env) <= issued /\ Token(actor[v].env) \in Nat
        /\ Good(actor[v].env) /\ Token(actor[v].env) # 0
  BY RowParts DEF IssuedInv, GoodInv, Envelopes
<1>9. \A e \in {Cleared} \cup Envelopes : e <= issued /\ Good(e) => Good(e)'
  BY <1>3, <1>4 DEF Good, Kind, Token
<1>10. LockInv'
  <2>1. \A v \in Users : actor'[v].at \in {"idle", "loaded", "wait"}
    BY <1>1, <1>2 DEF LockInv
  <2> QED  BY <1>2, <1>3, <2>1 DEF LockInv
<1>11. HeldInv'  BY <1>2, <1>3, <1>4, <1>6 DEF HeldInv, Kind
<1>12. MarkerInv'
  <2>1. Kind(Cleared)' = Kind(Cleared)  BY <1>4, <1>6 DEF Cleared, Kind
  <2>2. ReplacedStaysReplaced'  BY <1>3, <1>4, <1>6 DEF MarkerInv, ReplacedStaysReplaced, Kind
  <2>3. \A v \in Users : actor'[v].at = "loaded" /\ row'.oauth => actor'[v].oauth
    BY <1>1, <1>2, <1>3 DEF MarkerInv
  <2> QED  BY <2>1, <2>2, <2>3 DEF MarkerInv, Kind
<1>13. IssuedInv'
  <2>1. \A e \in Envelopes : e <= n => e <= issued \/ e = n
    BY <1>6, <1>n DEF Envelopes
  <2>2. Token(n)' = n  BY <1>5 DEF Token
  <2>3. \A e \in Envelopes : e <= n => Token(e)' <= n
    <3>1. \A e \in Envelopes : Token(e) \in Nat  BY RowParts
    <3>2. ASSUME NEW e \in Envelopes, e <= issued PROVE Token(e)' <= n
      BY <1>4, <1>6, <1>n, <3>1, <3>2 DEF IssuedInv
    <3> QED  BY <2>1, <2>2, <3>2
  <2>4. Token(Cleared)' = 0  BY <1>4, <1>6 DEF IssuedInv, Cleared, Token
  <2>5. \A a \in Work : Renewed(a)' => actor'[a].got \in 1 .. n
    BY <1>2, <1>7, <1>6, <1>n DEF Envelopes
  <2>6. \A v \in Users : Pending(v)' => /\ actor'[v].env \in 1 .. n
                                        /\ Token(actor[v].env)' # 0
    BY <1>1, <1>2, <1>4, <1>6, <1>8, <1>n, <2>2 DEF Envelopes, Token
  <2>7. row'.env <= issued'  BY <1>3, <1>6, <1>n DEF Envelopes, Cleared
  <2> QED  BY <1>3, <2>3, <2>4, <2>5, <2>6, <2>7 DEF IssuedInv, Token
<1>14. GoodInv'
  <2>1. Kind(row.env)' = Kind(row.env)  BY <1>3, <1>4, <1>6 DEF Kind
  <2>2. Good(row.env) => Good(row.env)'  BY <1>3, <1>9, <1>6 DEF Good, Kind, Token
  <2>3. \A a \in Work : Renewed(a)' => Good(actor[a].got)'
    BY <1>2, <1>7, <1>9 DEF GoodInv, Good, Kind, Token
  <2>4. \A v \in Users : v # u /\ Pending(v)' => Good(actor[v].env)'
    BY <1>2, <1>8, <1>9 DEF Good, Kind, Token
  <2>5. Good(actor[u].env)'  BY <1>1, <1>3, <1>5 DEF Good, Kind, Token
  <2> QED  BY <1>2, <1>3, <2>1, <2>2, <2>3, <2>4, <2>5 DEF GoodInv
<1>15. PrivateInv'
  <2>1. Token(row.env)' = Token(row.env)  BY <1>3, <1>4, <1>6 DEF Token
  <2>2. \A a \in Work : Renewed(a)' => Token(actor[a].got)' = Token(actor[a].got)
    BY <1>2, <1>4, <1>7 DEF Token
  <2>3. \A v \in Users : v # u /\ Pending(v)' => Token(actor[v].env)' = Token(actor[v].env)
    BY <1>2, <1>4, <1>8 DEF Token
  <2>4. Token(actor[u].env)' = n  BY <1>1, <1>5 DEF Token
  <2>5. \A v \in Users : v # u /\ Pending(v)' =>
          Token(actor[v].env)' # n /\ Token(actor[v].env)' # Token(row.env)'
    BY <1>2, <1>6, <1>8, <1>n, <2>1, <2>3 DEF PrivateInv
  <2>6. Token(row.env)' # n  BY <1>6, <1>n, <2>1
  <2>7. \A a \in Work : Renewed(a)' =>
          /\ Token(actor[a].got)' # n
          /\ \A v \in Users : v # u /\ Pending(v)' =>
               Token(actor[v].env)' # Token(actor[a].got)'
    BY <1>2, <1>6, <1>7, <1>n, <2>2, <2>3 DEF PrivateInv
  <2>8. \A v, w \in Users : v # u /\ w # u /\ v # w /\ Pending(v)' /\ Pending(w)' =>
          Token(actor[v].env)' # Token(actor[w].env)'
    BY <1>2, <2>3 DEF PrivateInv
  <2> QED  BY <2>4, <2>5, <2>6, <2>7, <2>8 DEF PrivateInv
<1>16. RefusedInv'
  <2>1. Token(row.env)' = Token(row.env) /\ Token(row.env) # n
    BY <1>3, <1>4, <1>6, <1>n DEF Token
  <2> QED  BY <1>2, <1>3, <2>1 DEF RefusedInv, RefusalIsEarned
<1>17. GrantInv'
  <2>1. /\ cred'[row.env].grant = cred[row.env].grant
        /\ cred'[row.traffic.of].grant = cred[row.traffic.of].grant
    BY <1>4, <1>6
  <2>2. HealthIsOfThisConnection'  BY <1>3, <2>1 DEF GrantInv, HealthIsOfThisConnection
  <2>3. row'.traffic.of <= issued'
    BY <1>3, <1>6, <1>n DEF Envelopes, Cleared
  <2>4. \A a \in Work : Renewed(a)' => cred'[actor'[a].got].grant = cred'[row'.env].grant
    BY <1>2, <1>3, <1>4, <1>7, <2>1 DEF GrantInv
  <2> QED  BY <2>2, <2>3, <2>4 DEF GrantInv
<1> QED  BY <1>10, <1>11, <1>12, <1>13, <1>14, <1>15, <1>16, <1>17

\* A completion stores its own grant, or finds that it is stale.
LEMMA ReconnectStep ==
  ASSUME IInv, TypeOK', NEW u \in Users, Reconnect(u)
  PROVE  IInv'
<1> USE DEF IInv, idp
<1>0. u \in Actors /\ u \notin Work /\ Pending(u) /\ holder = None
  BY CredentialAssumption DEF Work, Actors, Reconnect, Pending
<1>1. /\ actor'[u] = Resting
      /\ \A x \in Actors : x # u => actor'[x] = actor[x]
  BY <1>0 DEF Reconnect, TypeOK
<1>2. \A a \in Work : ~Busy(a)  BY <1>0, CredentialAssumption DEF LockInv, Work
<1>3. \A a \in Work : /\ actor'[a] = actor[a] /\ actor'[a].at \notin {"dial", "answered"}
                      /\ ~Busy(a)' /\ ~Renewed(a)' /\ ~Renewed(a)
  BY <1>0, <1>1, <1>2 DEF Work, Actors, Busy, Renewed
<1>4. \A v \in Users : /\ v # u => actor'[v] = actor[v] /\ (Pending(v)' <=> Pending(v))
                       /\ ~Pending(u)'
  BY <1>1 DEF Work, Actors, Pending, Queued, Resting
<1>5. UNCHANGED <<idp, backoff, holder, spoiled>>  BY DEF Reconnect
<1>6. \A e : Kind(e)' = Kind(e) /\ Token(e)' = Token(e) /\ (Good(e)' <=> Good(e))
  BY <1>5 DEF Kind, Token, Good
<1>7. row'.oauth = row.oauth
      /\ \/ /\ row'.env = actor[u].env /\ row'.err = "none" /\ row'.traffic = Silent
            /\ row.oauth
         \/ row' = row
  <2>1. CASE row.oauth /\ row.env # Cleared
    <3>1. row' = ResettingHealth([row EXCEPT !.env = actor[u].env, !.err = "none"])
      BY <2>1 DEF Reconnect
    <3> QED  BY <2>1, <3>1, RowParts DEF ResettingHealth, Rows
  <2>2. CASE ~(row.oauth /\ row.env # Cleared)  BY <2>2 DEF Reconnect
  <2> QED  BY <2>1, <2>2
<1>8. actor[u].env \in 1 .. issued /\ Good(actor[u].env)  BY <1>0 DEF IssuedInv, GoodInv
<1>9. LockInv'
  <2>1. \A v \in Users : actor'[v].at \in {"idle", "loaded", "wait"}
    BY <1>1, <1>4 DEF LockInv, Resting
  <2> QED  BY <1>2, <1>3, <1>5, <2>1 DEF LockInv
<1>10. HeldInv'  BY <1>3 DEF HeldInv
<1>11. MarkerInv'
  <2>1. ReplacedStaysReplaced'  BY <1>6, <1>7 DEF MarkerInv, ReplacedStaysReplaced
  <2>2. \A v \in Users : actor'[v].at = "loaded" /\ row'.oauth => actor'[v].oauth
    BY <1>1, <1>4, <1>7 DEF MarkerInv, Resting
  <2> QED  BY <1>6, <2>1, <2>2 DEF MarkerInv
<1>12. IssuedInv'
  BY <1>3, <1>4, <1>5, <1>6, <1>7, <1>8, RowParts DEF IssuedInv, Envelopes
<1>13. GoodInv' /\ PrivateInv'
  BY <1>0, <1>3, <1>4, <1>6, <1>7, <1>8 DEF GoodInv, PrivateInv
<1>14. RefusedInv'  BY <1>3, <1>5, <1>6, <1>7 DEF RefusedInv, RefusalIsEarned
<1>15. GrantInv'
  BY <1>3, <1>5, <1>7, RowParts DEF GrantInv, HealthIsOfThisConnection, Silent, Cleared
<1> QED  BY <1>9, <1>10, <1>11, <1>12, <1>13, <1>14, <1>15

\* An edit writes when nobody is in a token call: its guard waits for the lock when
\* it knew of the OAuth credential, and there is none to refresh when it did not.
LEMMA EditStep ==
  ASSUME IInv, TypeOK', NEW u \in Users, WriteEdit(u)
  PROVE  IInv'
<1> USE DEF IInv, idp
<1>n. PICK n \in Nat : n = issued + 1  BY RowParts
<1>0. u \in Actors /\ u \notin Work /\ actor[u].at = "loaded"
  BY CredentialAssumption DEF Work, Actors, WriteEdit
<1>1. /\ actor'[u] = Resting
      /\ \A x \in Actors : x # u => actor'[x] = actor[x]
  BY <1>0 DEF WriteEdit, TypeOK
<1>2. \A a \in Work : ~Busy(a)
  <2>1. SUFFICES ASSUME NEW a \in Work, Busy(a) PROVE FALSE
    OBVIOUS
  <2>2. holder # None /\ row.oauth  BY <2>1, HolderFacts
  <2>3. actor[u].oauth  BY <1>0, <2>2 DEF MarkerInv
  <2> QED  BY <2>2, <2>3 DEF WriteEdit
<1>3. \A a \in Work : /\ actor'[a] = actor[a] /\ actor'[a].at \notin {"dial", "answered"}
                      /\ ~Busy(a)' /\ ~Renewed(a)' /\ ~Renewed(a)
  BY <1>0, <1>1, <1>2 DEF Work, Actors, Busy, Renewed
<1>4. \A v \in Users : /\ v # u => actor'[v] = actor[v]
                       /\ Pending(v)' => v # u /\ Pending(v)
  BY <1>1 DEF Work, Actors, Pending, Queued, Resting
<1>5. UNCHANGED <<live, backoff, holder, spoiled>>  BY DEF WriteEdit
<1>6. /\ row'.oauth = FALSE /\ row'.err \in {"none", row.err} /\ row'.traffic = Silent
      /\ \/ row'.env = Cleared /\ UNCHANGED <<cred, issued>>
         \/ /\ row'.env = n /\ issued' = n /\ n \in Envelopes
            /\ cred' = [cred EXCEPT ![n] = [Blank EXCEPT !.kind = "plain", !.grant = n]]
  <2>1. ASSUME NEW e, row' = ResettingHealth([row EXCEPT !.env = e, !.oauth = FALSE,
                                    !.err = IF actor[u].oauth THEN "none" ELSE @])
        PROVE  /\ row'.oauth = FALSE /\ row'.err \in {"none", row.err}
               /\ row'.traffic = Silent /\ row'.env = e
    BY <2>1, RowParts DEF ResettingHealth, Rows
  <2> QED  BY <1>n, <2>1, RowParts DEF WriteEdit
<1>7. \A e \in {Cleared} \cup Envelopes : e <= issued =>
        Kind(e)' = Kind(e) /\ Token(e)' = Token(e)
  BY <1>6, <1>n, RowParts DEF Kind, Token, TypeOK, Envelopes, Cleared
<1>8. Kind(row.env)' \in {"plain", "none"} /\ Token(row.env)' = 0
  <2>1. CASE row'.env = Cleared /\ UNCHANGED <<cred, issued>>
    BY <2>1 DEF Kind, Token, MarkerInv, IssuedInv
  <2>2. CASE /\ row'.env = n /\ issued' = n /\ n \in Envelopes
             /\ cred' = [cred EXCEPT ![n] = [Blank EXCEPT !.kind = "plain", !.grant = n]]
    BY <2>2 DEF Kind, Token, TypeOK, Blank
  <2> QED  BY <1>6, <2>1, <2>2
<1>9. \A v \in Users : Pending(v) =>
        /\ actor[v].env \in Envelopes /\ actor[v].env <= issued
        /\ Good(actor[v].env) /\ Token(actor[v].env) # 0
  BY RowParts DEF IssuedInv, GoodInv, Envelopes
<1>10. \A v \in Users : Pending(v)' =>
         /\ Token(actor[v].env)' = Token(actor[v].env) /\ Good(actor[v].env)'
  BY <1>4, <1>5, <1>7, <1>9 DEF Token, Kind, Good
<1>11. LockInv'
  <2>1. \A v \in Users : actor'[v].at \in {"idle", "loaded", "wait"}
    BY <1>1, <1>4 DEF LockInv, Resting
  <2> QED  BY <1>2, <1>3, <1>5, <2>1 DEF LockInv
<1>12. HeldInv'  BY <1>3 DEF HeldInv
<1>13. MarkerInv'
  <2>1. Kind(Cleared)' = Kind(Cleared)  BY <1>7, RowParts DEF Cleared, Kind
  <2> QED  BY <1>6, <1>8, <2>1 DEF MarkerInv, ReplacedStaysReplaced, Kind
<1>14. IssuedInv'
  <2>1. issued <= issued' /\ row'.env <= issued'
    BY <1>6, <1>n, RowParts DEF Cleared
  <2>2. ASSUME NEW e \in Envelopes, e <= issued' PROVE Token(e)' <= issued'
    <3>1. e \in Nat /\ Token(e) \in Nat  BY RowParts DEF Envelopes
    <3>2. CASE e <= issued
      BY <1>6, <1>7, <1>n, <2>1, <3>1, <3>2, RowParts DEF IssuedInv
    <3>3. CASE ~(e <= issued)
      <4>1. row'.env = e  BY <1>6, <1>n, <2>2, <3>1, <3>3, RowParts
      <4>2. Token(e)' = 0  BY <1>8, <4>1 DEF Token
      <4> QED  BY <1>6, <1>n, <4>2, RowParts
    <3> QED  BY <3>2, <3>3
  <2>3. Token(Cleared)' = 0  BY <1>7, RowParts DEF IssuedInv, Cleared, Token
  <2>4. \A v \in Users : Pending(v)' => /\ actor'[v].env \in 1 .. issued'
                                        /\ Token(actor[v].env)' # 0
    BY <1>4, <1>6, <1>9, <1>10, <1>n, <2>1, RowParts DEF Envelopes
  <2> QED  BY <1>3, <2>1, <2>2, <2>3, <2>4 DEF IssuedInv, Token
<1>15. GoodInv'  BY <1>3, <1>8, <1>10 DEF GoodInv
<1>16. PrivateInv'
  <2>1. \A v, w \in Users : v # w /\ Pending(v)' /\ Pending(w)' =>
          Token(actor[v].env)' # Token(actor[w].env)'
    BY <1>4, <1>10 DEF PrivateInv
  <2>2. \A v \in Users : Pending(v)' => Token(actor[v].env)' # Token(row.env)'
    BY <1>4, <1>8, <1>9, <1>10
  <2> QED  BY <1>3, <2>1, <2>2 DEF PrivateInv
<1>17. RefusedInv'
  <2>1. 0 \notin live'  BY <1>5 DEF TypeOK, Envelopes
  <2> QED  BY <1>3, <1>8, <2>1 DEF RefusedInv, RefusalIsEarned
<1>18. GrantInv'
  BY <1>3, <1>6, <1>n, RowParts DEF GrantInv, HealthIsOfThisConnection, Silent, Cleared
<1> QED  BY <1>11, <1>12, <1>13, <1>14, <1>15, <1>16, <1>17, <1>18

\* A token ages, a backoff expires, a subscription is revoked.
LEMMA OutsideStep ==
  ASSUME IInv, TypeOK', (\E e \in Envelopes : Age(e)) \/ BackoffEnds \/ Revoke
  PROVE  IInv'
<1> USE DEF IInv, idp
<1>1. UNCHANGED <<row, issued, holder, actor>> /\ (backoff' => backoff)
      /\ live' \subseteq live /\ live \cup spoiled \subseteq live' \cup spoiled'
  BY DEF Age, BackoffEnds, Revoke
<1>2. \A e \in {Cleared} \cup Envelopes :
        /\ Kind(e)' = Kind(e) /\ Token(e)' = Token(e) /\ cred'[e].grant = cred[e].grant
  <2>1. CASE \E f \in Envelopes : Age(f)
    <3>1. PICK f \in Envelopes, x \in {"near", "expired"} : cred' = [cred EXCEPT ![f].expiry = x]
      BY <2>1 DEF Age
    <3>2. \A e \in {Cleared} \cup Envelopes :
            cred'[e] = IF e = f THEN [cred[e] EXCEPT !.expiry = x] ELSE cred[e]
      BY <3>1 DEF TypeOK
    <3>3. \A e \in {Cleared} \cup Envelopes : cred[e] \in Credentials  BY RowParts
    <3> QED  BY <3>2, <3>3 DEF Kind, Token, Credentials
  <2>2. CASE BackoffEnds \/ Revoke  BY <2>2 DEF BackoffEnds, Revoke, Kind, Token
  <2> QED  BY <2>1, <2>2
<1>3. \A e \in {Cleared} \cup Envelopes : Good(e) => Good(e)'  BY <1>1, <1>2 DEF Good
<1>4. \A a : (Busy(a)' <=> Busy(a)) /\ (Renewed(a)' <=> Renewed(a)) /\ (Pending(a)' <=> Pending(a))
  BY <1>1 DEF Busy, Renewed, Pending, Queued
<1>5. /\ row.env \in {Cleared} \cup Envelopes
      /\ row.traffic.of \in {Cleared} \cup Envelopes
      /\ \A a \in Work : actor[a].got \in {Cleared} \cup Envelopes
      /\ \A u \in Users : actor[u].env \in {Cleared} \cup Envelopes
      /\ Cleared \in {Cleared} \cup Envelopes
  BY RowParts DEF TypeOK, Doings, Work, Actors, Rows
<1>6. LockInv'  BY <1>1, <1>4 DEF LockInv
<1>7. HeldInv'  BY <1>1, <1>2, <1>4, <1>5 DEF HeldInv, Kind
<1>8. MarkerInv'  BY <1>1, <1>2, <1>5 DEF MarkerInv, ReplacedStaysReplaced, Kind
<1>9. IssuedInv'  BY <1>1, <1>2, <1>4, <1>5 DEF IssuedInv, Token
<1>10. GoodInv'  BY <1>1, <1>2, <1>3, <1>4, <1>5 DEF GoodInv, Good, Kind, Token
<1>11. PrivateInv'  BY <1>1, <1>2, <1>4, <1>5 DEF PrivateInv, Token
<1>12. RefusedInv'  BY <1>1, <1>2, <1>5 DEF RefusedInv, RefusalIsEarned, Token
<1>13. GrantInv'  BY <1>1, <1>2, <1>4, <1>5 DEF GrantInv, HealthIsOfThisConnection
<1> QED  BY <1>6, <1>7, <1>8, <1>9, <1>10, <1>11, <1>12, <1>13

LEMMA Step == IInv /\ [Next]_vars => IInv'
<1> SUFFICES ASSUME IInv, [Next]_vars PROVE IInv'
  OBVIOUS
<1>0. TypeOK' /\ TypeOK  BY TypeStep DEF IInv
<1>1. /\ \A a \in Work : a \in Actors /\ a \notin Users
      /\ \A u \in Users : u \in Actors /\ u \notin Work
      /\ row.env \in {Cleared} \cup Envelopes
  BY <1>0, RowParts, CredentialAssumption DEF Work, Actors
<1>2. LazyOutcome \in {Cleared} \cup Envelopes  BY <1>1 DEF LazyOutcome
<1>3. ASSUME NEW r \in Requests,
             \/ Load(r) \/ ResolveCheap(r) \/ ResolveUnreadable(r)
             \/ ResolveBackoff(r) \/ ResolveFlight(r) \/ Settle(r)
      PROVE  IInv'
  <2>1. /\ UNCHANGED <<row, idp, backoff, holder, spoiled>>
        /\ \A x \in Actors : x # r => actor'[x] = actor[x]
        /\ ~Busy(r) /\ actor'[r].at \notin {"dial", "answered"}
    <3>1. r \in Actors /\ actor[r] \in Doings /\ actor \in [Actors -> Doings]
      BY <1>0 DEF TypeOK, Actors
    <3>2. CASE Load(r)  BY <3>1, <3>2 DEF Load, Busy, Resting
    <3>3. CASE ResolveCheap(r) \/ ResolveUnreadable(r)
      BY <3>1, <3>3 DEF ResolveCheap, ResolveUnreadable, Busy, Doings
    <3>4. CASE ResolveBackoff(r)  BY <3>1, <3>4 DEF ResolveBackoff, Stale, Busy, Resting, Doings
    <3>5. CASE ResolveFlight(r)  BY <3>1, <3>5 DEF ResolveFlight, Stale, Busy, Doings
    <3>6. CASE Settle(r)  BY <3>1, <3>6 DEF Settle, Busy, Resting, Doings
    <3> QED  BY <1>3, <3>2, <3>3, <3>4, <3>5, <3>6
  <2>2. \A a \in Work : \/ actor'[a] = actor[a]
                        \/ ~Busy(a) /\ actor'[a].at \notin {"dial", "answered"}
    BY <1>1, <2>1
  <2>3. \A u \in Users : actor'[u] = actor[u]  BY <1>1, <2>1 DEF Work
  <2> QED  BY <1>0, <2>1, <2>2, <2>3, QuietStep
<1>4. ASSUME NEW x \in reports, LandReport(x) PROVE IInv'
  <2>1. /\ row'.env = row.env /\ row'.oauth = row.oauth /\ row'.err = row.err
        /\ row'.traffic = row.traffic \/ row'.traffic.of = row.env
    BY <1>0, <1>4, RowParts DEF LandReport, Rows
  <2>2. UNCHANGED <<idp, backoff, holder, spoiled, actor>>  BY <1>4 DEF LandReport
  <2> QED  BY <1>0, <2>1, <2>2, QuietStep
<1>5. ASSUME NEW r \in Requests, File(r) PROVE IInv'
  BY <1>0, <1>5, EndQuietly DEF File, Queued, Busy, Work
<1>6. ASSUME NEW r \in Requests, TakeLazy(r) PROVE IInv'
  <2>1. r \in Work /\ ~Busy(r) /\ holder = None  BY <1>6 DEF TakeLazy, Queued, Busy, Work
  <2>2. PICK held \in BackoffReads :
          IF LazyNeedsCall(held) THEN StartCall(r, held) /\ UNCHANGED inflight
                                 ELSE End(r, LazyOutcome) /\ UNCHANGED holder
    BY <1>6 DEF TakeLazy
  <2>3. CASE LazyNeedsCall(held)
    <3>1. ~held /\ Kind(row.env) = "oauth" /\ row.err = "none"  BY <2>3 DEF LazyNeedsCall
    <3>2. held = FALSE  BY <1>0, <3>1 DEF BackoffReads, IInv, TypeOK
    <3> QED  BY <1>0, <1>6, <2>1, <2>2, <2>3, <3>1, <3>2, TakeStep DEF TakeLazy, StartCall
  <2>4. CASE ~LazyNeedsCall(held)
    BY <1>0, <1>2, <1>6, <2>1, <2>2, <2>4, EndQuietly DEF TakeLazy
  <2> QED  BY <2>3, <2>4
<1>7. ASSUME NEW a \in Work, TakeForce(a) PROVE IInv'
  <2>1. ~Busy(a) /\ holder = None  BY <1>7 DEF TakeForce, Queued, Busy
  <2>2. PICK held \in BackoffReads :
          IF ForceNeedsCall(a, held)
          THEN StartCall(a, held) /\ UNCHANGED <<row, inflight>>
          ELSE /\ row' = IF ForceCondemns(a) THEN Condemned(row, "filed") ELSE row
               /\ End(a, Cleared) /\ UNCHANGED holder
    BY <1>7 DEF TakeForce
  <2>3. CASE ForceNeedsCall(a, held)
    <3>1. ~held /\ Kind(row.env) = "oauth" /\ row.err = "none"  BY <2>3 DEF ForceNeedsCall
    <3>2. held = FALSE  BY <1>0, <3>1 DEF BackoffReads, IInv, TypeOK
    <3> QED  BY <1>0, <1>7, <2>1, <2>2, <2>3, <3>1, <3>2, TakeStep DEF TakeForce, StartCall
  <2>4. CASE ~ForceNeedsCall(a, held)
    BY <1>0, <1>7, <2>1, <2>2, <2>4, EndQuietly DEF TakeForce
  <2> QED  BY <2>3, <2>4
<1>8. ASSUME NEW a \in Work, LockTimeout(a) PROVE IInv'
  <2>1. ~Busy(a)  BY <1>8 DEF LockTimeout, Queued, Busy
  <2>2. PICK e \in {Cleared} \cup Envelopes : End(a, e)
    BY <1>2, <1>8 DEF LockTimeout
  <2>3. UNCHANGED <<row, idp, backoff, holder, spoiled>>  BY <1>8 DEF LockTimeout
  <2> QED  BY <1>0, <2>1, <2>2, <2>3, EndQuietly
<1>9. ASSUME NEW w \in Sweeps, SweepRow(w) PROVE IInv'
  <2>1. w \in Actors  BY DEF Actors
  <2>2. /\ UNCHANGED <<row, idp, backoff, holder, spoiled>>
        /\ \A x \in Actors : x # w => actor'[x] = actor[x]
        /\ ~Busy(w) /\ actor'[w].at = "wait"
    BY <1>0, <1>9, <2>1 DEF SweepRow, TypeOK, Busy, Resting
  <2>3. \A a \in Work : \/ actor'[a] = actor[a]
                        \/ ~Busy(a) /\ actor'[a].at \notin {"dial", "answered"}
    BY <1>1, <2>2
  <2>4. \A u \in Users : actor'[u] = actor[u]  BY <1>1, <2>2 DEF Work
  <2> QED  BY <1>0, <2>2, <2>3, <2>4, QuietStep
<1>10. ASSUME NEW u \in Users, LoadEdit(u) PROVE IInv'
  <2>1. /\ UNCHANGED <<row, idp, backoff, holder, spoiled>>
        /\ \A x \in Actors : x # u => actor'[x] = actor[x]
        /\ actor'[u].at = "loaded" /\ actor'[u].oauth = row.oauth
    BY <1>0, <1>1, <1>10 DEF LoadEdit, TypeOK, Resting
  <2>2. \A a \in Work : actor'[a] = actor[a]  BY <1>1, <2>1
  <2>3. \A v \in Users : \/ actor'[v] = actor[v]
                         \/ actor'[v].at = "loaded" /\ actor'[v].oauth = row.oauth
    BY <1>1, <2>1
  <2> QED  BY <1>0, <2>1, <2>2, <2>3, QuietStep
<1>11. CASE UNCHANGED vars
  BY <1>0, <1>11, QuietStep DEF vars
<1> QED
  BY <1>0, <1>3, <1>4, <1>5, <1>6, <1>7, <1>8, <1>9, <1>10, <1>11,
     RotateStep, DialStep, EndOfCall, ExchangeStep, ReconnectStep, EditStep, OutsideStep
  DEF Next, Work

LEMMA Invariance == Spec => []IInv
<1>1. Init => IInv  BY InitInv
<1>2. IInv /\ [Next]_vars => IInv'  BY Step
<1> QED  BY <1>1, <1>2, PTL DEF Spec

-----------------------------------------------------------------------------
(* The theorems.                                                            *)

\* Every variable keeps its type, whatever the numbers of actors and the bounds.
THEOREM TypeCorrect == Spec => []TypeOK
<1>1. IInv => TypeOK  BY DEF IInv
<1> QED  BY <1>1, Invariance, PTL

\* Rotation is never clobbered: while nobody holds the credential lock, the stored
\* refresh token (refreshUnderLock, forceUnderLock, complete) is the live one.
THEOREM StoredLives == Spec => []StoredTokenLives
<1>1. IInv => StoredTokenLives
  <2>1. SUFFICES ASSUME IInv, holder = None, Kind(row.env) = "oauth"
                 PROVE  Token(row.env) \in live \cup spoiled
    BY DEF StoredTokenLives
  <2>2. \A a \in Work : ~Renewed(a)
    BY <2>1, CredentialAssumption DEF IInv, LockInv, Work, Busy, Renewed
  <2> QED  BY <2>1, <2>2 DEF IInv, GoodInv, Good
<1> QED  BY <1>1, Invariance, PTL

\* A row is condemned on the provider's word only for the token that was refused
\* (markReauthorizeRequired under the lock of the refused call).
THEOREM RefusalEarned == Spec => []RefusalIsEarned
<1>1. IInv => RefusalIsEarned  BY DEF IInv, RefusedInv
<1> QED  BY <1>1, Invariance, PTL

\* A pasted key stays: no refresh and no reconnect brings the OAuth credential back
\* (the edit of providers.service against refreshUnderLock and complete).
THEOREM ReplacedStays == Spec => []ReplacedStaysReplaced
<1>1. IInv => ReplacedStaysReplaced  BY DEF IInv, MarkerInv
<1> QED  BY <1>1, Invariance, PTL

\* The traffic record displayed was observed on this grant or key (setHealth's
\* incarnation guard against updateResettingHealth and the refresh writes).
THEOREM HealthOwned == Spec => []HealthIsOfThisConnection
<1>1. IInv => HealthIsOfThisConnection  BY DEF IInv, GrantInv
<1> QED  BY <1>1, Invariance, PTL

\* The token endpoint is called only with a credential without an error, and within
\* a backoff only by a caller whose look at the backoff under the lock was answered
\* by no Redis (the locked re-read and the second look of refreshUnderLock and
\* forceUnderLock).
THEOREM CallWarranted == Spec => CallIsWarranted
<1>1. IInv => \A a \in Requests \cup Sweeps :
                actor[a].at = "dial" => row.err = "none" /\ (backoff => actor[a].blind)
  BY DEF IInv, HeldInv, Busy, Work
<1>2. IInv /\ [Next]_vars =>
        [\A a \in Requests \cup Sweeps :
           actor[a].at = "dial" /\ actor'[a].at = "answered" =>
             row.err = "none" /\ (backoff => actor[a].blind)]_vars
  BY <1>1
<1> QED  BY <1>2, Invariance, PTL DEF Spec, CallIsWarranted
=============================================================================
