--------------------------- MODULE FailoverChain ----------------------------
(***************************************************************************)
(* The walk of one request along its chain of members (a provider and a     *)
(* model each), buffered or streaming: the plan cooldown and the breaker    *)
(* decide whether a member is tried, the first event of a stream commits    *)
(* the response to its member, a failure before that moves on to the next.  *)
(* The breaker's record and the pause store are nondeterministic here; an   *)
(* await of either is a step during which the client may go.               *)
(***************************************************************************)
EXTENDS Naturals, Sequences

CONSTANTS
  Length,    \* members of the chain
  Dialect,   \* the members that can be paused by a plan cooldown
  Modes      \* "buffered", "stream"

Members == 1 .. Length

ASSUME ChainAssumption ==
  /\ Length \in Nat \ {0}
  /\ Dialect \subseteq Members
  /\ Modes \subseteq {"buffered", "stream"}

VARIABLES
  mode,       \* which walker runs
  i,          \* the current member
  at,         \* where the walk and its attempt are
  gone,       \* the client's signal: isCallerAbort
  deadline,   \* the composite signal of a buffered cascade leg fired
  heard,      \* bytes came since the watchdog was armed: lastByteAt > armedAt
  timedOut,   \* the watchdog fired on the pending pull of this attempt
  stop,       \* the stream showed a terminal stop reason
  pend,       \* what the breaker is persisting, and how the attempt goes on
  err,        \* the error the attempt threw to the core
  committed,  \* the response belongs to member i
  failures,   \* the failures that entered the trail
  result,     \* the walk's result, or Nothing
  outcome,    \* the outcome of the committed stream, or Nothing
  admitted,   \* history: the members the breaker admitted
  sent,       \* history: the members whose request left the router
  answered,   \* history: the members that answered with an error status
  settled,    \* history: per member, the completions its breaker was told
  cause,      \* history: per member, what ended its attempt
  here        \* history: the client was there when the core caught a failure

walk == <<mode, i, failures, result>>
attempt == <<timedOut, stop, pend, err, committed>>
signals == <<gone, deadline, heard>>
history == <<admitted, sent, answered, settled, cause, here>>
vars == <<walk, at, attempt, signals, outcome, history>>

Nothing == [none |-> TRUE]

\* The provider-error kinds, as far as the walk tells them apart; "circuit" is
\* a breaker's skip, "cancelled" a CallCancelledError and "ssrf" an SsrfError.
\* `status`: an upstream answered with an error status, so it ran nothing.
Kinds == {"circuit", "cancelled", "ssrf", "credential", "unavailable", "bad_request",
          "policy_block", "quota_exhausted", "oversized_response"}
Local(kind) == [kind |-> kind, status |-> FALSE]
Answer(kind) == [kind |-> kind, status |-> TRUE]

Eligible(e) == e.kind \notin {"cancelled", "ssrf", "policy_block", "oversized_response"}

\* outcomeForKind
OutcomeOf(kind) ==
  CASE kind \in {"unavailable", "ssrf"} -> "trip"
    [] kind \in {"bad_request", "policy_block"} -> "success"
    [] OTHER -> "neutral"

Billing(e) ==
  CASE e.kind \in {"circuit", "ssrf", "credential"} -> "not_sent"
    [] e.status -> "rejected"
    [] OTHER -> "uncertain"

Pauses(e) == e.kind = "quota_exhausted" /\ e.status

Init ==
  /\ mode \in Modes
  /\ i = 1
  /\ at = "top"
  /\ gone = FALSE /\ deadline = FALSE /\ heard = FALSE
  /\ timedOut = FALSE /\ stop = FALSE /\ committed = FALSE
  /\ pend = Nothing /\ err = Nothing
  /\ failures = <<>>
  /\ result = Nothing /\ outcome = Nothing
  /\ admitted = {} /\ sent = {} /\ answered = {}
  /\ settled = [j \in Members |-> <<>>]
  /\ cause = [j \in Members |-> "none"]
  /\ here = FALSE

-----------------------------------------------------------------------------
(* The signals. *)

Aborted == gone \/ deadline

\* The client closes the connection, or a shutdown's drain aborts the request;
\* nothing runs between the end of an await and the catch that reads its error.
ClientGoes ==
  /\ ~ gone /\ at \notin {"caught", "over"}
  /\ gone' = TRUE
  /\ UNCHANGED <<walk, at, attempt, deadline, heard, outcome, history>>

\* Only the cascade's cheap leg, which is buffered, has a deadline.
DeadlinePasses ==
  /\ mode = "buffered" /\ ~ deadline /\ at # "over"
  /\ deadline' = TRUE
  /\ UNCHANGED <<walk, at, attempt, gone, heard, outcome, history>>

\* nextWithTimeout: a pull, which for the first event includes admission and
\* build, is watched until its watchdog has fired.
Watched ==
  mode = "stream" /\ ~ timedOut /\ at \in {"admit", "build", "upstream", "settling"}

\* markBytes: the upstream sends bytes that make no event, a keepalive.
KeepAlive ==
  /\ mode = "stream" /\ at = "upstream" /\ ~ heard
  /\ heard' = TRUE
  /\ UNCHANGED <<walk, at, attempt, gone, deadline, outcome, history>>

\* The timer ran out and bytes have come: it is armed anew from the last of them.
Rearm ==
  /\ Watched /\ heard
  /\ heard' = FALSE
  /\ UNCHANGED <<walk, at, attempt, gone, deadline, outcome, history>>

\* The pull was silent for too long.  The attempt is aborted, its pull awaited.
TimeOut ==
  /\ Watched /\ ~ heard
  /\ timedOut' = TRUE
  /\ UNCHANGED <<walk, at, stop, pend, err, committed, signals, outcome, history>>

Cut == Aborted \/ timedOut

-----------------------------------------------------------------------------
(* The walk: runBufferedChain, openStreamChain. *)

NextMember(failure) ==
  /\ failures' = Append(failures, failure)
  /\ i' = i + 1
  /\ at' = "top"
  /\ timedOut' = FALSE /\ stop' = FALSE /\ err' = Nothing /\ pend' = Nothing
  /\ heard' = FALSE
  /\ UNCHANGED <<mode, result, committed, gone, deadline, outcome>>

GiveUp(why, billing) ==
  /\ result' = [ok |-> FALSE, why |-> why, cancelled |-> gone, terminal |-> billing]
  /\ at' = "over"
  /\ UNCHANGED <<mode, i, failures, attempt, signals, outcome>>

StopAborted ==
  /\ at = "top" /\ i \in Members /\ Aborted
  /\ GiveUp("stopped", {"not_sent"})
  /\ UNCHANGED history

Exhausted ==
  /\ at = "top" /\ i \notin Members
  /\ GiveUp("exhausted", {})
  /\ UNCHANGED history

Begin ==
  /\ at = "top" /\ i \in Members /\ ~ Aborted
  /\ at' = IF i \in Dialect THEN "pause" ELSE "admit"
  /\ UNCHANGED <<walk, attempt, signals, outcome, history>>

\* planCooldownFor: a paused member is passed over without being admitted.
ReadPause ==
  /\ at = "pause"
  /\ \/ /\ NextMember([index |-> i, dispatched |-> FALSE, billing |-> "not_sent"])
        /\ UNCHANGED history
     \/ /\ at' = "admit"
        /\ UNCHANGED <<walk, attempt, signals, outcome, history>>

\* The breaker skips or admits.
Skip ==
  /\ at = "admit"
  /\ err' = Local("circuit")
  /\ at' = "caught"
  /\ UNCHANGED <<walk, timedOut, stop, pend, committed, signals, outcome, history>>

Admit ==
  /\ at = "admit"
  /\ admitted' = admitted \cup {i}
  /\ at' = "build"
  /\ UNCHANGED <<walk, attempt, signals, outcome, sent, answered, settled, cause, here>>

\* The error as the walk sees it: the watchdog's own error hides any other.
Seen == IF timedOut THEN Local("unavailable") ELSE err

\* recordPlanCooldown, awaited, for a plan failure an upstream answered.
RecordPause ==
  /\ at = "caught" /\ ~ committed
  /\ i \in Dialect /\ Pauses(Seen)
  /\ at' = "recorded"
  /\ UNCHANGED <<walk, attempt, signals, outcome, history>>

Caught ==
  /\ ~ committed
  /\ \/ at = "caught" /\ ~ (i \in Dialect /\ Pauses(Seen))
     \/ at = "recorded"

\* Mutant: the attempt that ended the walk leaves no billing evidence.
GiveUpUnbilled ==
  /\ Caught /\ ~ Eligible(Seen)
  /\ GiveUp("stop", {})
  /\ UNCHANGED history

GiveUpOnError ==
  /\ Caught /\ ~ Eligible(Seen)
  /\ GiveUp("stop", {Billing(Seen)})
  /\ UNCHANGED history

FailOver ==
  /\ Caught /\ Eligible(Seen)
  /\ NextMember([index |-> i, dispatched |-> Seen.kind # "circuit",
                 billing |-> Billing(Seen)])
  /\ UNCHANGED history

-----------------------------------------------------------------------------
(* One attempt inside its breaker: withBreaker, withBreakerStream. *)

\* What an abort of the attempt is blamed on.
CutBy == CASE gone -> "client" [] ~ gone /\ deadline -> "deadline" [] OTHER -> "watchdog"

\* Mutant: a cancellation is neutral whoever cancelled.
ThrownOutcomeForgiving(e) == IF gone THEN "neutral" ELSE OutcomeOf(e.kind)

\* The completion of a call that threw e.  The streaming wrapper trips on a
\* cancellation the client did not ask for.
ThrownOutcome(e) ==
  CASE gone -> "neutral"
    [] ~ gone /\ e.kind = "cancelled" /\ mode = "stream" -> "trip"
    [] OTHER -> OutcomeOf(e.kind)

Persist(result_, then, e) ==
  /\ pend' = [outcome |-> result_, then |-> then, err |-> e]
  /\ at' = "settling"

Throw(e, by) ==
  /\ Persist(ThrownOutcome(e), "throw", e)
  /\ cause' = [cause EXCEPT ![i] = by]
  /\ answered' = IF e.status THEN answered \cup {i} ELSE answered
  /\ UNCHANGED <<walk, timedOut, stop, err, committed, signals, outcome>>

\* The adapter is built after admission: setup or its credential may fail.
BuildFails ==
  /\ at = "build"
  /\ \E kind \in {"credential", "unavailable"} : Throw(Local(kind), "provider")
  /\ UNCHANGED <<admitted, sent, settled, here>>

\* The address it would be sent to is refused.
Blocked ==
  /\ at = "build" /\ ~ Cut
  /\ Throw(Local("ssrf"), "provider")
  /\ UNCHANGED <<admitted, sent, settled, here>>

\* An aborted call is not sent (openRequest).
Send ==
  /\ at = "build" /\ ~ Cut
  /\ at' = "upstream"
  /\ sent' = sent \cup {i}
  /\ UNCHANGED <<walk, attempt, signals, outcome, admitted, answered, settled, cause, here>>

SendCancelled ==
  /\ at = "build" /\ Cut
  /\ Throw(Local("cancelled"), CutBy)
  /\ UNCHANGED <<admitted, sent, settled, here>>

\* Mutant: the client's signal does not reach the call.
TornByWatchdog ==
  /\ at = "upstream" /\ timedOut
  /\ Throw(Local("cancelled"), CutBy)
  /\ UNCHANGED <<admitted, sent, settled, here>>

\* An aborted call ends at once: the adapters report the cancellation before
\* the response's headers, and a network fault after them.
Torn ==
  /\ at = "upstream" /\ Cut
  /\ \E kind \in {"cancelled", "unavailable"} : Throw(Local(kind), CutBy)
  /\ UNCHANGED <<admitted, sent, settled, here>>

\* The adapter's own deadlines, or the network.
Unreachable ==
  /\ at = "upstream" /\ ~ Cut
  /\ Throw(Local("unavailable"), "provider")
  /\ UNCHANGED <<admitted, sent, settled, here>>

Refused ==
  /\ at = "upstream" /\ ~ Cut /\ ~ committed
  /\ \E kind \in {"unavailable", "bad_request", "quota_exhausted"} :
       Throw(Answer(kind), "provider")
  /\ UNCHANGED <<admitted, sent, settled, here>>

\* A 451: another member might well serve the request and must not be asked to.
Denied ==
  /\ at = "upstream" /\ ~ Cut /\ ~ committed
  /\ Throw(Answer("policy_block"), "law")
  /\ UNCHANGED <<admitted, sent, settled, here>>

Oversized ==
  /\ at = "upstream" /\ ~ Cut /\ mode = "buffered"
  /\ Throw(Local("oversized_response"), "provider")
  /\ UNCHANGED <<admitted, sent, settled, here>>

Served ==
  /\ at = "upstream" /\ ~ Cut /\ mode = "buffered"
  /\ Persist("success", "serve", Nothing)
  /\ UNCHANGED <<walk, timedOut, stop, err, committed, signals, outcome, history>>

\* An event: the first commits the response to this member.
Event ==
  /\ at = "upstream" /\ ~ Cut /\ mode = "stream"
  /\ at' = "frame"
  /\ committed' = TRUE
  /\ result' = IF committed THEN result ELSE [ok |-> TRUE, index |-> i]
  /\ stop' \in {stop, TRUE}
  /\ UNCHANGED <<mode, i, failures, timedOut, pend, err, signals, outcome, history>>

\* An error event is settled before it is passed on, by its kind alone.
ErrorEvent ==
  /\ at = "upstream" /\ ~ Cut /\ mode = "stream"
  /\ \E kind \in {"unavailable", "bad_request"} :
       Persist(OutcomeOf(kind), "throw", Local(kind))
  /\ cause' = [cause EXCEPT ![i] = "provider"]
  /\ UNCHANGED <<walk, timedOut, stop, err, committed, signals, outcome,
                 admitted, sent, answered, settled, here>>

\* The stream ends: without a terminal stop reason it was truncated.
StreamEnds ==
  /\ at = "upstream" /\ ~ Cut /\ mode = "stream"
  /\ Persist(IF stop THEN "success" ELSE "trip", "end", Nothing)
  /\ UNCHANGED <<walk, timedOut, stop, err, committed, signals, outcome, history>>

\* `complete` returned, and the attempt goes on.  The core takes an end before
\* the first event for a failure.
Settle ==
  /\ at = "settling"
  /\ settled' = [settled EXCEPT ![i] = Append(@, pend.outcome)]
  /\ pend' = Nothing
  /\ CASE pend.then = "serve" ->
            /\ result' = [ok |-> TRUE, index |-> i]
            /\ at' = "over" /\ UNCHANGED err
       [] pend.then = "end" /\ committed /\ ~ timedOut ->
            at' = "tail" /\ UNCHANGED <<result, err>>
       [] pend.then = "end" /\ ~ (committed /\ ~ timedOut) ->
            /\ err' = Local("unavailable")
            /\ at' = "caught" /\ UNCHANGED result
       [] OTHER ->
            /\ err' = pend.err
            /\ at' = "caught" /\ UNCHANGED result
  /\ UNCHANGED <<mode, i, failures, timedOut, stop, committed, signals, outcome,
                 admitted, sent, answered, cause, here>>

-----------------------------------------------------------------------------
(* The committed stream: buildFrames, wrapWithSettle, and the pump. *)

\* The outcome is resolved once.
Resolve(status, cancelled) ==
  outcome' = IF outcome = Nothing THEN [status |-> status, cancelled |-> cancelled]
             ELSE outcome

\* The frame is written: the next event is pulled, its watchdog armed.
Pull ==
  /\ at = "frame" /\ ~ gone
  /\ at' = "upstream"
  /\ heard' = FALSE
  /\ UNCHANGED <<walk, attempt, gone, deadline, outcome, history>>

\* Mutant: the suspended breaker generator is not returned.
LeaveUnsettled ==
  /\ at = "frame" /\ gone
  /\ Resolve("error", TRUE)
  /\ at' = "over"
  /\ UNCHANGED <<walk, attempt, signals, history>>

\* The pump stops and returns the frames: the outcome is the client's, and the
\* suspended breaker generator settles neutral in its finally.
Leave ==
  /\ at = "frame" /\ gone
  /\ Resolve("error", TRUE)
  /\ at' = "closing"
  /\ UNCHANGED <<walk, attempt, signals, history>>

Close ==
  /\ at = "closing"
  /\ settled' = [settled EXCEPT ![i] = Append(@, "neutral")]
  /\ at' = "over"
  /\ UNCHANGED <<walk, attempt, signals, outcome, admitted, sent, answered, cause, here>>

\* Mutant: the outcome is left to what follows the terminal frame.
FailFramesUnresolved ==
  /\ at = "caught" /\ committed
  /\ at' = "lastFrame"
  /\ here' = ~ gone
  /\ UNCHANGED <<walk, attempt, signals, outcome, admitted, sent, answered, settled, cause>>

\* Mutant: a failed stream is continued by the next member.
FailFramesOver ==
  /\ at = "caught" /\ committed
  /\ i' = i + 1
  /\ at' = IF i + 1 \in Members THEN "admit" ELSE "lastFrame"
  /\ here' = ~ gone
  /\ UNCHANGED <<mode, failures, result, attempt, signals, outcome, admitted, sent,
                 answered, settled, cause>>

\* A failure after the commit: the outcome is resolved before the terminal
\* error frame is offered.
FailFrames ==
  /\ at = "caught" /\ committed
  /\ Resolve("error", gone)
  /\ at' = "lastFrame"
  /\ here' = ~ gone
  /\ UNCHANGED <<walk, attempt, signals, admitted, sent, answered, settled, cause>>

\* The consumer takes the last frame and pulls once more, or returns at it.
LastPull ==
  /\ at \in {"lastFrame", "tail"} /\ ~ gone
  /\ Resolve(IF at = "tail" THEN "success" ELSE "error", FALSE)
  /\ at' = "over"
  /\ UNCHANGED <<walk, attempt, signals, history>>

LeaveAtLast ==
  /\ at \in {"lastFrame", "tail"} /\ gone
  /\ Resolve("error", TRUE)
  /\ at' = "over"
  /\ UNCHANGED <<walk, attempt, signals, history>>

-----------------------------------------------------------------------------
Walk == \/ StopAborted \/ Exhausted \/ Begin \/ ReadPause \/ Skip \/ Admit
        \/ RecordPause \/ GiveUpOnError \/ FailOver
Call == \/ BuildFails \/ Blocked \/ Send \/ SendCancelled \/ Torn \/ Settle
Upstream == \/ Unreachable \/ Refused \/ Denied \/ Oversized \/ Served
            \/ Event \/ ErrorEvent \/ StreamEnds
Frames == Pull \/ Leave \/ Close \/ FailFrames \/ LastPull \/ LeaveAtLast

Watchdog == Rearm \/ TimeOut

Next == \/ Walk \/ Call \/ Upstream \/ Frames
        \/ ClientGoes \/ DeadlinePasses \/ KeepAlive \/ Watchdog

Spec == Init /\ [][Next]_vars

\* Store calls, builds and aborted calls end; the watchdog's timer and the
\* adapter's deadlines run out; a client reads or leaves.  An upstream need not
\* speak, nor stop sending keepalives.
FairSpec ==
  /\ Spec
  /\ WF_vars(Walk) /\ WF_vars(Call) /\ WF_vars(Frames) /\ WF_vars(Watchdog)
  /\ WF_vars(mode = "buffered" /\ Unreachable)

-----------------------------------------------------------------------------
(* Properties. *)

Causes == {"none", "client", "deadline", "watchdog", "provider", "law"}
Outcomes == {"success", "trip", "neutral"}
Evidence == {"not_sent", "rejected", "uncertain"}
Errors == [kind : Kinds, status : BOOLEAN]

\* The variables keep their types.
TypeOK ==
  /\ mode \in Modes
  /\ i \in 1 .. Length + 1
  /\ at \in {"top", "pause", "admit", "build", "upstream", "settling", "caught",
             "recorded", "frame", "closing", "lastFrame", "tail", "over"}
  /\ {gone, deadline, heard, timedOut, stop, committed, here} \subseteq BOOLEAN
  /\ err \in Errors \cup {Nothing}
  /\ pend \in [outcome : Outcomes, then : {"throw", "serve", "end"},
               err : Errors \cup {Nothing}] \cup {Nothing}
  /\ failures \in Seq([index : Members, dispatched : BOOLEAN, billing : Evidence])
  /\ result \in [ok : {TRUE}, index : Members] \cup
                [ok : {FALSE}, why : {"stopped", "exhausted", "stop"},
                 cancelled : BOOLEAN, terminal : SUBSET Evidence] \cup {Nothing}
  /\ outcome \in [status : {"success", "error"}, cancelled : BOOLEAN] \cup {Nothing}
  /\ admitted \subseteq Members /\ sent \subseteq admitted /\ answered \subseteq sent
  /\ settled \in [Members -> Seq(Outcomes)]
  /\ cause \in [Members -> Causes]

Over == at = "over"

\* The request ends recorded as cancelled by its client.
Cancelled ==
  Over /\ IF committed THEN outcome.cancelled ELSE ~ result.ok /\ result.cancelled

\* The breaker hears exactly once of every attempt it admitted, on every way out
\* of it, and by the time the next member is reached or the request is over: a
\* probe that were never settled would hold its lease until it expires.
SettledOnce ==
  \A j \in Members :
    /\ Len(settled[j]) <= 1
    /\ j \notin admitted => settled[j] = <<>>
    /\ j \in admitted /\ (j < i \/ Over) => Len(settled[j]) = 1

\* Who ended an attempt is who is blamed, whatever error the adapter makes of the
\* cut: its client is never a provider's failure to the breaker, and the watchdog
\* always is one, although the client may go afterwards.
BlameIsRight ==
  \A j \in Members :
    /\ cause[j] = "client" => settled[j] \in {<<>>, <<"neutral">>}
    /\ cause[j] = "watchdog" => settled[j] \in {<<>>, <<"trip">>}

\* A failed walk that is recorded as unbilled ran nothing anywhere: every
\* request it sent was answered by an error status.
UnbilledRanNothing ==
  Over /\ ~ committed /\ ~ result.ok =>
    LET evidence == {failures[k].billing : k \in 1 .. Len(failures)} \cup result.terminal
    IN  evidence # {} /\ evidence \subseteq {"not_sent", "rejected"} => sent \subseteq answered

\* A request whose client cut an attempt short is recorded as cancelled; no
\* request is whose client stayed, and no committed stream is that failed while
\* its client was there, although the client leaves at the terminal frame.
CancellationIsCausal ==
  /\ Over /\ committed => outcome # Nothing
  /\ Over /\ (\E j \in Members : cause[j] = "client") => Cancelled
  /\ Cancelled => gone /\ ~ (committed /\ here)

\* Once the response is committed no other member is sent the request.
NoSwapAfterCommit == [][committed => sent' = sent]_vars

\* A walk commits or ends: an upstream that falls silent, after however many
\* keepalives and at whatever member, does not hold the client for ever; and when
\* the client is gone the request ends, keepalives or not.
WalkEnds ==
  /\ <>[] ~ heard => <>(committed \/ Over)
  /\ gone ~> Over

=============================================================================
