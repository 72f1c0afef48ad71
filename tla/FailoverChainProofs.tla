------------------------- MODULE FailoverChainProofs -------------------------
(***************************************************************************)
(* Proofs about the walk of FailoverChain, for chains of any length.        *)
(*                                                                         *)
(* The argument: only the current member's attempt can be unsettled, and    *)
(* where the walk is says whether it is (Accounted); a committed response   *)
(* never returns to the places from which a member is tried                *)
(* (PastAdmission).  On top of these: whom an attempt is blamed on (Blame), *)
(* what the trail holds (Trail), whose leaving ends a request (Causal), and *)
(* the types (Shapes).                                                      *)
(***************************************************************************)
EXTENDS FailoverChain, TLAPS

\* Where the current member was not admitted yet, and where it was admitted and
\* its breaker has not heard of it.
Fresh == {"top", "pause", "admit"}
Open == {"build", "upstream", "settling", "frame", "closing"}

WalkTypes ==
  /\ i \in Nat /\ i <= Length + 1
  /\ admitted \subseteq Members
  /\ settled \in [Members -> Seq(Outcomes)]
  /\ at = "settling" => pend.outcome \in Outcomes

Accounted ==
  /\ i \notin Members => at \in {"top", "over"}
  /\ \A j \in admitted : j <= i
  /\ at \in Fresh => i \notin admitted
  /\ at \in Open => i \in admitted
  /\ \A j \in Members :
       Len(settled[j]) = IF j \in admitted /\ ~ (j = i /\ at \in Open) THEN 1 ELSE 0

PastAdmission ==
  committed => at \in {"upstream", "settling", "caught", "frame", "closing", "lastFrame",
                       "tail", "over"}

IInv == WalkTypes /\ Accounted /\ PastAdmission

-----------------------------------------------------------------------------
LEMMA InitIInv == Init => IInv
BY ChainAssumption DEF Init, IInv, WalkTypes, Accounted, PastAdmission, Members, Outcomes,
   Fresh, Open

\* One more completion of the current member.
LEMMA SettledOnceMore ==
  ASSUME WalkTypes, i \in Members, NEW o \in Outcomes,
         settled' = [settled EXCEPT ![i] = Append(@, o)]
  PROVE  /\ settled' \in [Members -> Seq(Outcomes)]
         /\ \A j \in Members : Len(settled'[j]) = Len(settled[j]) + (IF j = i THEN 1 ELSE 0)
<1>1. settled[i] \in Seq(Outcomes) BY DEF WalkTypes
<1>2. Append(settled[i], o) \in Seq(Outcomes) /\ Len(Append(settled[i], o)) = Len(settled[i]) + 1
  BY <1>1
<1>3. settled' \in [Members -> Seq(Outcomes)]
  BY <1>2 DEF WalkTypes
<1>4. ASSUME NEW j \in Members
      PROVE  Len(settled'[j]) = Len(settled[j]) + (IF j = i THEN 1 ELSE 0)
  <2>1. CASE j = i BY <2>1, <1>2 DEF WalkTypes
  <2>2. CASE j # i
    <3>1. settled'[j] = settled[j] BY <2>2 DEF WalkTypes
    <3>2. Len(settled[j]) \in Nat BY DEF WalkTypes
    <3>3. QED BY <2>2, <3>1, <3>2
  <2>3. QED BY <2>1, <2>2
<1>5. QED BY <1>3, <1>4

\* The completion of an open attempt leaves no admitted member unaccounted for.
LEMMA AllAccounted ==
  ASSUME IInv, at \in Open, i \in Members, i \in admitted,
         \A j \in Members : Len(settled'[j]) = Len(settled[j]) + (IF j = i THEN 1 ELSE 0)
  PROVE  \A j \in Members : Len(settled'[j]) = IF j \in admitted THEN 1 ELSE 0
<1> SUFFICES ASSUME NEW j \in Members
    PROVE  Len(settled'[j]) = IF j \in admitted THEN 1 ELSE 0
  OBVIOUS
<1>1. Len(settled[j]) = IF j \in admitted /\ j # i THEN 1 ELSE 0
  BY DEF IInv, Accounted
<1>2. Len(settled'[j]) = Len(settled[j]) + (IF j = i THEN 1 ELSE 0)
  OBVIOUS
<1>3. CASE j = i
  <2>1. Len(settled[j]) = 0 BY <1>1, <1>3
  <2>2. QED BY <1>2, <1>3, <2>1
<1>4. CASE j # i
  <2>1. Len(settled[j]) \in Nat BY <1>1
  <2>2. QED BY <1>1, <1>2, <1>4, <2>1
<1>5. QED BY <1>3, <1>4

\* Going to the next member leaves a settled or an unadmitted one behind.
LEMMA NextMemberKeeps ==
  ASSUME IInv, i \in Members, ~ committed, at \notin Open,
         i' = i + 1, at' = "top", UNCHANGED <<admitted, settled, committed>>
  PROVE  IInv'
<1>1. WalkTypes' BY ChainAssumption DEF IInv, WalkTypes, Members
<1>2. Accounted'
  <2>1. \A j \in admitted : j <= i /\ j \in Members BY DEF IInv, Accounted, WalkTypes
  <2>2. i + 1 \notin admitted BY <2>1 DEF Members
  <2>3. \A j \in Members : Len(settled[j]) = IF j \in admitted THEN 1 ELSE 0
    BY DEF IInv, Accounted
  <2>4. QED BY <2>1, <2>2, <2>3 DEF Accounted, Fresh, Open, Members
<1>3. PastAdmission' BY DEF PastAdmission
<1>4. QED BY <1>1, <1>2, <1>3 DEF IInv

\* A move among the places before, within or after the attempt changes nothing.
LEMMA MoveKeeps ==
  ASSUME IInv, UNCHANGED <<i, admitted, settled>>,
         at' = "settling" => pend'.outcome \in Outcomes,
         i \in Members \/ at' \in {"top", "over"},
         at' \in Fresh => at \in Fresh,
         (at \in Open) <=> (at' \in Open),
         committed' => at' \in {"upstream", "settling", "caught", "frame", "closing",
                                "lastFrame", "tail", "over"}
  PROVE  IInv'
<1>1. WalkTypes' BY DEF IInv, WalkTypes
<1>2. Accounted' BY DEF IInv, Accounted, WalkTypes
<1>3. PastAdmission' BY DEF PastAdmission
<1>4. QED BY <1>1, <1>2, <1>3 DEF IInv

LEMMA OutcomesOfErrors ==
  /\ \A kind : OutcomeOf(kind) \in Outcomes
  /\ \A e : ThrownOutcome(e) \in Outcomes
BY DEF OutcomeOf, ThrownOutcome, Outcomes

LEMMA WalkKeeps == ASSUME IInv, Walk PROVE IInv'
<1> USE DEF Fresh, Open
<1>1. CASE StopAborted \/ Exhausted
  BY <1>1, MoveKeeps DEF StopAborted, Exhausted, GiveUp, attempt, history
<1>2. CASE Begin
  BY <1>2, MoveKeeps DEF Begin, walk, attempt, history, IInv, PastAdmission
<1>3. CASE ReadPause
  <2>0. i \in Members /\ ~ committed BY <1>3 DEF ReadPause, IInv, Accounted, PastAdmission
  <2>1. CASE at' = "top"
    BY <1>3, <2>0, <2>1, NextMemberKeeps DEF ReadPause, NextMember, history
  <2>2. CASE at' # "top"
    BY <1>3, <2>0, <2>2, MoveKeeps DEF ReadPause, NextMember, walk, attempt, history
  <2>3. QED BY <2>1, <2>2
<1>4. CASE Skip
  <2>0. i \in Members /\ ~ committed BY <1>4 DEF Skip, IInv, Accounted, PastAdmission
  <2>1. QED BY <1>4, <2>0, MoveKeeps DEF Skip, walk, history
<1>5. CASE Admit
  <2>0. i \in Members /\ ~ committed BY <1>5 DEF Admit, IInv, Accounted, PastAdmission
  <2>1. WalkTypes' BY <1>5, <2>0 DEF Admit, walk, IInv, WalkTypes
  <2>2. Accounted' BY <1>5, <2>0 DEF Admit, walk, IInv, WalkTypes, Accounted, Members
  <2>3. PastAdmission' BY <1>5, <2>0 DEF Admit, attempt, PastAdmission
  <2>4. QED BY <2>1, <2>2, <2>3 DEF IInv
<1>6. CASE RecordPause
  <2>0. i \in Members BY <1>6 DEF RecordPause, IInv, Accounted
  <2>1. QED BY <1>6, <2>0, MoveKeeps DEF RecordPause, walk, attempt, history
<1>7. CASE GiveUpOnError
  BY <1>7, MoveKeeps DEF GiveUpOnError, Caught, GiveUp, attempt, history
<1>8. CASE FailOver
  <2>0. i \in Members /\ ~ committed /\ at \notin Open
    BY <1>8 DEF FailOver, Caught, IInv, Accounted
  <2>1. QED BY <1>8, <2>0, NextMemberKeeps DEF FailOver, NextMember, history
<1>9. QED BY <1>1, <1>2, <1>3, <1>4, <1>5, <1>6, <1>7, <1>8 DEF Walk

\* What an attempt that fails does to the walk.
LEMMA ThrowKeeps ==
  ASSUME IInv, at \in {"build", "upstream"}, NEW e, NEW by, Throw(e, by),
         UNCHANGED <<admitted, settled>>
  PROVE  IInv'
<1>1. i \in Members BY DEF IInv, Accounted
<1>2. pend'.outcome \in Outcomes BY OutcomesOfErrors DEF Throw, Persist
<1>3. QED BY <1>1, <1>2, MoveKeeps DEF Throw, Persist, walk, Fresh, Open

LEMMA CallKeeps == ASSUME IInv, Call PROVE IInv'
<1>1. CASE BuildFails BY <1>1, ThrowKeeps DEF BuildFails
<1>7. CASE Blocked BY <1>7, ThrowKeeps DEF Blocked
<1>2. CASE Send
  <2>0. i \in Members BY <1>2 DEF Send, IInv, Accounted, Open
  <2>1. QED BY <1>2, <2>0, MoveKeeps DEF Send, walk, attempt, Fresh, Open
<1>3. CASE SendCancelled BY <1>3, ThrowKeeps DEF SendCancelled
<1>4. CASE Torn BY <1>4, ThrowKeeps DEF Torn
<1>5. CASE Settle
  <2>0. at = "settling" /\ i \in Members /\ i \in admitted /\ pend.outcome \in Outcomes
    BY <1>5 DEF Settle, IInv, Accounted, WalkTypes, Open
  <2>1. /\ settled' \in [Members -> Seq(Outcomes)]
        /\ \A j \in Members : Len(settled'[j]) = Len(settled[j]) + (IF j = i THEN 1 ELSE 0)
    BY <1>5, <2>0, SettledOnceMore DEF Settle, IInv
  <2>2. at' \in {"over", "tail", "caught"} /\ UNCHANGED <<i, admitted, committed>>
    BY <1>5 DEF Settle
  <2>3. WalkTypes' BY <2>1, <2>2 DEF IInv, WalkTypes
  <2>4. Accounted'
    <3>1. \A j \in Members : Len(settled'[j]) = IF j \in admitted THEN 1 ELSE 0
      BY <2>0, <2>1, AllAccounted DEF Open
    <3>2. QED BY <2>0, <2>2, <3>1 DEF IInv, Accounted, Fresh, Open
  <2>5. PastAdmission' BY <2>2 DEF PastAdmission
  <2>6. QED BY <2>3, <2>4, <2>5 DEF IInv
<1>6. QED BY <1>1, <1>2, <1>3, <1>4, <1>5, <1>7 DEF Call

LEMMA UpstreamKeeps == ASSUME IInv, Upstream PROVE IInv'
<1>1. CASE Unreachable BY <1>1, ThrowKeeps DEF Unreachable
<1>2. CASE Refused BY <1>2, ThrowKeeps DEF Refused
<1>7. CASE Denied BY <1>7, ThrowKeeps DEF Denied
<1>3. CASE Oversized BY <1>3, ThrowKeeps DEF Oversized
<1>4. CASE Served \/ StreamEnds \/ ErrorEvent
  <2>1. at = "upstream" /\ at' = "settling" /\ UNCHANGED <<i, admitted, settled>>
    BY <1>4 DEF Served, StreamEnds, ErrorEvent, Persist, walk, history
  <2>2. pend'.outcome \in Outcomes
    BY <1>4, OutcomesOfErrors DEF Served, StreamEnds, ErrorEvent, Persist, Outcomes
  <2>3. i \in Members BY <2>1 DEF IInv, Accounted
  <2>4. QED BY <2>1, <2>2, <2>3, MoveKeeps DEF Fresh, Open
<1>5. CASE Event
  <2>0. i \in Members BY <1>5 DEF Event, IInv, Accounted
  <2>1. QED BY <1>5, <2>0, MoveKeeps DEF Event, history, Fresh, Open
<1>6. QED BY <1>1, <1>2, <1>3, <1>4, <1>5, <1>7 DEF Upstream

LEMMA FramesKeep == ASSUME IInv, Frames PROVE IInv'
<1> USE DEF Fresh, Open
<1>1. CASE Pull \/ Leave
  <2>0. i \in Members BY <1>1 DEF Pull, Leave, IInv, Accounted
  <2>1. QED BY <1>1, <2>0, MoveKeeps DEF Pull, Leave, walk, attempt, history
<1>2. CASE Close
  <2>0. at = "closing" /\ at' = "over" /\ i \in Members /\ i \in admitted
    BY <1>2 DEF Close, IInv, Accounted
  <2>1. "neutral" \in Outcomes BY DEF Outcomes
  <2>2. /\ settled' \in [Members -> Seq(Outcomes)]
        /\ \A j \in Members : Len(settled'[j]) = Len(settled[j]) + (IF j = i THEN 1 ELSE 0)
    BY <1>2, <2>0, <2>1, SettledOnceMore DEF Close, IInv
  <2>3. UNCHANGED <<i, admitted, committed>> BY <1>2 DEF Close, walk, attempt
  <2>4. WalkTypes' BY <2>0, <2>2, <2>3 DEF IInv, WalkTypes
  <2>5. Accounted'
    <3>1. \A j \in Members : Len(settled'[j]) = IF j \in admitted THEN 1 ELSE 0
      BY <2>0, <2>2, AllAccounted DEF Open
    <3>2. QED BY <2>0, <2>3, <3>1 DEF IInv, Accounted
  <2>6. PastAdmission' BY <2>0 DEF PastAdmission
  <2>7. QED BY <2>4, <2>5, <2>6 DEF IInv
<1>3. CASE FailFrames
  <2>0. i \in Members BY <1>3 DEF FailFrames, IInv, Accounted
  <2>1. QED BY <1>3, <2>0, MoveKeeps DEF FailFrames, walk, attempt
<1>4. CASE LastPull \/ LeaveAtLast
  BY <1>4, MoveKeeps DEF LastPull, LeaveAtLast, walk, attempt, history
<1>5. QED BY <1>1, <1>2, <1>3, <1>4 DEF Frames

LEMMA NextIInv == IInv /\ [Next]_vars => IInv'
<1> SUFFICES ASSUME IInv, [Next]_vars PROVE IInv'
  OBVIOUS
<1>1. CASE Walk \/ Call \/ Upstream \/ Frames
  BY <1>1, WalkKeeps, CallKeeps, UpstreamKeeps, FramesKeep
<1>2. CASE ClientGoes \/ DeadlinePasses \/ KeepAlive \/ Watchdog \/ UNCHANGED vars
  <2>1. UNCHANGED <<i, at, admitted, settled, committed, pend>>
    BY <1>2 DEF ClientGoes, DeadlinePasses, KeepAlive, Watchdog, Rearm, TimeOut, vars,
       walk, attempt, history
  <2>2. QED BY <2>1 DEF IInv, WalkTypes, Accounted, PastAdmission
<1>3. QED BY <1>1, <1>2 DEF Next

LEMMA Accounts == Spec => []IInv
BY InitIInv, NextIInv, PTL DEF Spec

-----------------------------------------------------------------------------
\* The breaker of every admitted member hears of it exactly once, and no other
\* breaker does: for every length of the chain, on every way out of an attempt.
THEOREM EveryAttemptSettles == Spec => []SettledOnce
<1>1. IInv => SettledOnce
  <2> SUFFICES ASSUME IInv, NEW j \in Members
      PROVE  /\ Len(settled[j]) <= 1
             /\ j \notin admitted => settled[j] = <<>>
             /\ j \in admitted /\ (j < i \/ Over) => Len(settled[j]) = 1
    BY DEF SettledOnce
  <2>1. Len(settled[j]) = IF j \in admitted /\ ~ (j = i /\ at \in Open) THEN 1 ELSE 0
    BY DEF IInv, Accounted
  <2>2. settled[j] \in Seq(Outcomes) BY DEF IInv, WalkTypes
  <2>3. j \notin admitted => settled[j] = <<>> BY <2>1, <2>2
  <2>4. QED BY <2>1, <2>3 DEF Over, Open, Members, IInv, WalkTypes
<1>2. QED BY <1>1, Accounts, PTL

\* Once a stream is committed to a member, no request is sent to another.
THEOREM CommitIsFinal == Spec => NoSwapAfterCommit
<1>1. IInv /\ [Next]_vars => [committed => sent' = sent]_vars
  <2> SUFFICES ASSUME IInv, Next, committed PROVE sent' = sent
    BY DEF vars, history
  <2>1. ~ Send BY DEF Send, IInv, PastAdmission
  <2>2. CASE Walk
    BY <2>2 DEF Walk, StopAborted, Exhausted, Begin, ReadPause, Skip, Admit, RecordPause,
       GiveUpOnError, FailOver, history
  <2>3. CASE Call
    BY <2>1, <2>3 DEF Call, BuildFails, Blocked, SendCancelled, Torn, Settle
  <2>4. CASE Upstream
    BY <2>4 DEF Upstream, Unreachable, Refused, Denied, Oversized, Served, Event, ErrorEvent,
       StreamEnds, history
  <2>5. CASE Frames
    BY <2>5 DEF Frames, Pull, Leave, Close, FailFrames, LastPull, LeaveAtLast, history
  <2>6. CASE ClientGoes \/ DeadlinePasses \/ KeepAlive \/ Watchdog
    BY <2>6 DEF ClientGoes, DeadlinePasses, KeepAlive, Watchdog, Rearm, TimeOut, history
  <2>7. QED BY <2>2, <2>3, <2>4, <2>5, <2>6 DEF Next
<1>2. QED BY <1>1, Accounts, PTL DEF Spec, NoSwapAfterCommit

-----------------------------------------------------------------------------
(* Who is blamed for the end of an attempt, what is billed for a failed     *)
(* walk and who is said to have cancelled it, for chains of any length.     *)
(*                                                                         *)
(* The argument: an attempt is blamed when its call throws, and the breaker *)
(* is told afterwards, so that what it is told waits in `pend` (Blame);     *)
(* the trail has one failure per member passed (Trail); and a client that   *)
(* cut an attempt short is gone, so that no further member is tried         *)
(* (Causal).                                                               *)

\* The attempt at the current member goes on, blamed on nobody.
Running == {"build", "upstream", "frame", "closing"}

\* What the breaker of member j was told, or is being told.
Told(j, o) ==
  IF j = i /\ at = "settling" THEN pend.outcome = o ELSE settled[j] = <<o>>

Blame ==
  /\ timedOut => mode = "stream"
  /\ cause \in [Members -> Causes]
  /\ \A j \in Members :
       /\ cause[j] # "none" => j \in admitted
       /\ j = i /\ at \in Running => cause[j] = "none"
       /\ j = i /\ at = "settling" /\ pend.then # "throw" => cause[j] = "none"
       /\ cause[j] = "client" => gone /\ Told(j, "neutral")
       /\ cause[j] = "watchdog" => Told(j, "trip")

\* The trail: the failure of each member passed, "uncertain" for one whose
\* request was sent and not answered by an error status.
Unanswered == sent \ answered

Trail ==
  /\ sent \subseteq admitted
  /\ failures \in Seq([index : Nat, dispatched : BOOLEAN, billing : Evidence])
  /\ Len(failures) = i - 1
  /\ \A j \in Unanswered : j < i => failures[j].billing = "uncertain"
  /\ at \in {"build"} => i \notin sent
  /\ at \in {"caught", "recorded"} /\ i \in Unanswered =>
       err.kind \notin {"circuit", "ssrf", "credential"} /\ ~ err.status
  /\ at = "settling" /\ pend.then \notin {"serve", "end"} /\ i \in Unanswered =>
       pend.err.kind \notin {"circuit", "ssrf", "credential"} /\ ~ pend.err.status
  /\ at \in {"frame", "closing", "lastFrame", "tail"} => committed
  /\ at = "over" /\ ~ committed =>
       result.ok \/ \A j \in Unanswered : j < i \/ "uncertain" \in result.terminal

\* A client that cut an attempt short is followed by the end of the walk alone,
\* and the outcome of a committed stream is resolved once.
Ended ==
  /\ outcome # Nothing
  /\ outcome.cancelled => gone /\ ~ here
  /\ (\E j \in Members : cause[j] = "client") => outcome.cancelled

Causal ==
  /\ committed => mode = "stream"
  /\ at = "settling" /\ pend.then = "serve" => mode = "buffered"
  /\ \A j \in Members : cause[j] = "client" =>
       \/ at \in {"top", "lastFrame", "over"}
       \/ at \in {"settling", "caught", "recorded"} /\ j = i
  /\ ~ committed \/ at \in {"upstream", "settling", "caught", "frame", "tail"} =>
       outcome = Nothing /\ ~ here
  /\ at = "closing" => gone
  /\ committed /\ at \in {"closing", "lastFrame", "over"} => Ended
  /\ at = "over" /\ ~ committed =>
       IF result.ok THEN \A j \in Members : cause[j] # "client" ELSE result.cancelled = gone
-----------------------------------------------------------------------------
(* Blame.                                                                   *)

LEMMA BlameInit == Init => Blame
BY DEF Init, Blame, Members, Causes

\* No attempt starts, ends or is told of.
LEMMA BlameMove ==
  ASSUME IInv, Blame, UNCHANGED <<i, admitted, settled, cause>>, gone => gone',
         timedOut' => mode' = "stream", at # "settling", at' # "settling",
         at' \in Running => at \in Running
  PROVE  Blame'
BY DEF Blame, Told

\* A failure passed leaves its member behind.
LEMMA BlameNext ==
  ASSUME IInv, Blame, i \in Members, at # "settling", at' = "top", i' = i + 1, ~ timedOut',
         UNCHANGED <<admitted, settled, cause, gone>>
  PROVE  Blame'
BY DEF Blame, Told, Running

\* A call throws, and is blamed on whoever the outcome is meant for.
LEMMA BlameThrow ==
  ASSUME IInv, Blame, at \in {"build", "upstream"}, NEW e, NEW by \in Causes, Throw(e, by),
         UNCHANGED <<admitted, settled>>,
         by = "client" => gone,
         by = "watchdog" => ~ gone /\ ThrownOutcome(e) = "trip"
  PROVE  Blame'
<1>1. /\ i \in Members /\ i \in admitted /\ at' = "settling" /\ mode' = mode
      /\ pend'.outcome = ThrownOutcome(e) /\ pend'.then = "throw"
      /\ cause' = [cause EXCEPT ![i] = by]
      /\ UNCHANGED <<i, timedOut, gone>>
  BY DEF Throw, Persist, walk, signals, IInv, Accounted, Open
<1>2. gone => ThrownOutcome(e) = "neutral"
  BY DEF ThrownOutcome
<1>3. cause' \in [Members -> Causes]
  BY <1>1 DEF Blame
<1>4. \A j \in Members : cause'[j] = IF j = i THEN by ELSE cause[j]
  BY <1>1 DEF Blame
<1>5. ASSUME NEW j \in Members
      PROVE  /\ cause'[j] # "none" => j \in admitted
             /\ cause'[j] = "client" => gone /\ Told(j, "neutral")'
             /\ cause'[j] = "watchdog" => Told(j, "trip")'
  <2>1. CASE j = i
    BY <1>1, <1>2, <1>4, <2>1 DEF Told
  <2>2. CASE j # i
    BY <1>1, <1>4, <2>2 DEF Told, Blame
  <2> QED
    BY <2>1, <2>2
<1> QED
  BY <1>1, <1>3, <1>5 DEF Blame, Running

\* The breaker is told what was waiting, or of the client's leaving.
LEMMA BlameTold ==
  ASSUME IInv, Blame, at \in {"settling", "closing"}, at' \notin Running \cup {"settling"},
         NEW o \in Outcomes, at = "settling" => o = pend.outcome,
         settled' = [settled EXCEPT ![i] = Append(@, o)],
         UNCHANGED <<i, admitted, cause, gone, timedOut, mode>>
  PROVE  Blame'
<1>1. i \in Members /\ settled[i] = <<>> /\ settled \in [Members -> Seq(Outcomes)]
  <2>1. i \in Members /\ settled[i] \in Seq(Outcomes) /\ Len(settled[i]) = 0
    BY DEF IInv, Accounted, Open, WalkTypes
  <2> QED
    BY <2>1 DEF IInv, WalkTypes
<1>2. settled'[i] = <<o>> /\ \A j \in Members : j # i => settled'[j] = settled[j]
  BY <1>1
<1>3. ASSUME NEW j \in Members
      PROVE  /\ cause[j] = "client" => gone /\ Told(j, "neutral")'
             /\ cause[j] = "watchdog" => Told(j, "trip")'
  <2>1. CASE j = i /\ at = "settling"
    BY <1>2, <2>1 DEF Told, Blame
  <2>2. CASE j = i /\ at = "closing"
    BY <2>2 DEF Blame, Running
  <2>3. CASE j # i
    BY <1>2, <2>3 DEF Told, Blame
  <2> QED
    BY <2>1, <2>2, <2>3
<1> QED
  BY <1>3 DEF Blame

LEMMA BlameWalk == ASSUME IInv, Blame, Walk PROVE Blame'
<1> USE DEF Running
<1>1. CASE StopAborted \/ Exhausted
  BY <1>1, BlameMove DEF StopAborted, Exhausted, GiveUp, attempt, history, signals, Blame
<1>2. CASE Begin
  BY <1>2, BlameMove DEF Begin, walk, attempt, history, signals, Blame
<1>3. CASE ReadPause
  <2>1. CASE at' = "top"
    BY <1>3, <2>1, BlameNext DEF ReadPause, NextMember, history, signals, IInv, Accounted
  <2>2. CASE at' # "top"
    BY <1>3, <2>2, BlameMove DEF ReadPause, NextMember, walk, attempt, history, signals, Blame
  <2> QED
    BY <2>1, <2>2
<1>4. CASE Skip
  BY <1>4, BlameMove DEF Skip, walk, history, signals, Blame
<1>5. CASE Admit
  <2>1. /\ i \notin admitted /\ admitted' = admitted \cup {i} /\ at' = "build" /\ at = "admit"
        /\ UNCHANGED <<i, settled, cause, gone, mode, timedOut>>
    BY <1>5 DEF Admit, walk, attempt, signals, IInv, Accounted, Fresh
  <2>2. i \in Members => cause[i] = "none"
    BY <2>1 DEF Blame
  <2> QED
    BY <2>1, <2>2 DEF Blame, Told
<1>6. CASE RecordPause
  BY <1>6, BlameMove DEF RecordPause, walk, attempt, history, signals, Blame
<1>7. CASE GiveUpOnError
  BY <1>7, BlameMove DEF GiveUpOnError, Caught, GiveUp, attempt, history, signals, Blame
<1>8. CASE FailOver
  <2>1. i \in Members /\ at \in {"caught", "recorded"}
    BY <1>8 DEF FailOver, Caught, IInv, Accounted
  <2> QED
    BY <1>8, <2>1, BlameNext DEF FailOver, NextMember, history, signals
<1> QED
  BY <1>1, <1>2, <1>3, <1>4, <1>5, <1>6, <1>7, <1>8 DEF Walk

\* A cut is blamed on the client while it is gone, and on the watchdog only when
\* nobody else cut: the call's own error then trips the breaker.
LEMMA CutIsBlamed ==
  ASSUME Blame, Cut, NEW kind \in {"cancelled", "unavailable"}
  PROVE  /\ CutBy \in Causes
         /\ CutBy = "client" => gone
         /\ CutBy = "watchdog" => ~ gone /\ ThrownOutcome(Local(kind)) = "trip"
<1>1. /\ gone => CutBy = "client"
      /\ ~ gone /\ deadline => CutBy = "deadline"
      /\ ~ gone /\ ~ deadline => CutBy = "watchdog"
  BY DEF CutBy
<1>2. CutBy = "watchdog" => ~ gone /\ mode = "stream"
  BY <1>1 DEF Cut, Aborted, Blame
<1>3. Local(kind).kind = kind
  BY DEF Local
<1>4. ~ gone /\ mode = "stream" => ThrownOutcome(Local(kind)) = "trip"
  BY <1>3 DEF ThrownOutcome, OutcomeOf
<1> QED
  BY <1>1, <1>2, <1>4 DEF Causes

LEMMA BlameCall == ASSUME IInv, Blame, Call PROVE Blame'
<1>1. CASE BuildFails \/ Blocked
  <2>1. PICK e : Throw(e, "provider")
    BY <1>1 DEF BuildFails, Blocked
  <2>2. "provider" \in Causes /\ at = "build" /\ UNCHANGED <<admitted, settled>>
    BY <1>1 DEF BuildFails, Blocked, Causes
  <2> QED
    BY <2>1, <2>2, BlameThrow
<1>2. CASE Send
  BY <1>2, BlameMove DEF Send, walk, attempt, signals, Running, Blame
<1>3. CASE SendCancelled \/ Torn
  <2>1. PICK kind \in {"cancelled", "unavailable"} : Throw(Local(kind), CutBy)
    BY <1>3 DEF SendCancelled, Torn
  <2>2. Cut /\ at \in {"build", "upstream"} /\ UNCHANGED <<admitted, settled>>
    BY <1>3 DEF SendCancelled, Torn
  <2> QED
    BY <2>1, <2>2, CutIsBlamed, BlameThrow
<1>4. CASE Settle
  <2>1. /\ at = "settling" /\ at' \in {"over", "tail", "caught"} /\ pend.outcome \in Outcomes
        /\ settled' = [settled EXCEPT ![i] = Append(@, pend.outcome)]
        /\ UNCHANGED <<i, admitted, cause, gone, timedOut, mode>>
    BY <1>4 DEF Settle, IInv, WalkTypes, signals
  <2> QED
    BY <2>1, BlameTold DEF Running
<1> QED
  BY <1>1, <1>2, <1>3, <1>4 DEF Call

LEMMA BlameUpstream == ASSUME IInv, Blame, Upstream PROVE Blame'
<1>1. CASE Unreachable \/ Refused \/ Denied \/ Oversized
  <2>1. PICK e, by : by \in {"provider", "law"} /\ Throw(e, by)
    BY <1>1 DEF Unreachable, Refused, Denied, Oversized
  <2>2. by \in Causes /\ at = "upstream" /\ UNCHANGED <<admitted, settled>>
    BY <1>1, <2>1 DEF Unreachable, Refused, Denied, Oversized, Causes
  <2> QED
    BY <2>1, <2>2, BlameThrow
<1>2. CASE Served \/ StreamEnds
  <2>1. /\ at = "upstream" /\ at' = "settling" /\ i \in Members /\ cause[i] = "none"
        /\ UNCHANGED <<i, admitted, settled, cause, gone, mode, timedOut>>
    BY <1>2 DEF Served, StreamEnds, Persist, walk, history, signals, IInv, Accounted,
       Blame, Running
  <2> QED
    BY <2>1 DEF Blame, Told, Running
<1>3. CASE ErrorEvent
  <2>1. /\ at = "upstream" /\ at' = "settling" /\ i \in Members /\ i \in admitted
        /\ cause' = [cause EXCEPT ![i] = "provider"] /\ pend'.then = "throw"
        /\ UNCHANGED <<i, admitted, settled, gone, mode, timedOut>>
    BY <1>3 DEF ErrorEvent, Persist, walk, signals, IInv, Accounted, Open
  <2>2. cause' \in [Members -> Causes]
    BY <2>1 DEF Blame, Causes
  <2>3. \A j \in Members : cause'[j] = IF j = i THEN "provider" ELSE cause[j]
    BY <2>1 DEF Blame
  <2> QED
    BY <2>1, <2>2, <2>3 DEF Blame, Told, Running
<1>4. CASE Event
  BY <1>4, BlameMove DEF Event, history, signals, Running, Blame
<1> QED
  BY <1>1, <1>2, <1>3, <1>4 DEF Upstream

LEMMA BlameFrames == ASSUME IInv, Blame, Frames PROVE Blame'
<1>1. CASE Pull \/ Leave \/ LastPull \/ LeaveAtLast
  <2>1. /\ UNCHANGED <<i, admitted, settled, cause, gone, timedOut, mode>>
        /\ at # "settling" /\ at' \in {"upstream", "closing", "over"}
        /\ at' # "over" => at = "frame"
    BY <1>1 DEF Pull, Leave, LastPull, LeaveAtLast, walk, attempt, history, signals
  <2> QED
    BY <2>1, BlameMove DEF Running, Blame
<1>2. CASE Close
  <2>1. /\ at = "closing" /\ at' = "over" /\ "neutral" \in Outcomes
        /\ settled' = [settled EXCEPT ![i] = Append(@, "neutral")]
        /\ UNCHANGED <<i, admitted, cause, gone, timedOut, mode>>
    BY <1>2 DEF Close, walk, attempt, signals, Outcomes
  <2> QED
    BY <2>1, BlameTold DEF Running
<1>3. CASE FailFrames
  BY <1>3, BlameMove DEF FailFrames, walk, attempt, signals, Running, Blame
<1> QED
  BY <1>1, <1>2, <1>3 DEF Frames

LEMMA BlameNextStep == IInv /\ Blame /\ [Next]_vars => Blame'
<1> SUFFICES ASSUME IInv, Blame, [Next]_vars PROVE Blame'
  OBVIOUS
<1>1. CASE ClientGoes \/ DeadlinePasses \/ KeepAlive \/ Watchdog \/ UNCHANGED vars
  <2>1. /\ UNCHANGED <<i, at, pend, admitted, settled, cause, mode>> /\ (gone => gone')
        /\ timedOut' => mode = "stream"
    BY <1>1 DEF ClientGoes, DeadlinePasses, KeepAlive, Watchdog, Rearm, TimeOut, Watched,
       vars, walk, attempt, signals, history, Blame
  <2> QED
    BY <2>1 DEF Blame, Told
<1> QED
  BY <1>1, BlameWalk, BlameCall, BlameUpstream, BlameFrames DEF Next

\* Whoever ended an attempt is who the member's breaker hears of, for a chain of
\* any length: a client's leaving is neutral and a silence trips it, whatever
\* error the adapter makes of the cut (withBreaker, withBreakerStream, callCore).
THEOREM BlameStays == Spec => []BlameIsRight
<1>1. Spec => []Blame
  BY Accounts, BlameInit, BlameNextStep, PTL DEF Spec
<1>2. IInv /\ Blame => BlameIsRight
  <2> SUFFICES ASSUME IInv, Blame, NEW j \in Members
      PROVE  /\ cause[j] = "client" => settled[j] \in {<<>>, <<"neutral">>}
             /\ cause[j] = "watchdog" => settled[j] \in {<<>>, <<"trip">>}
    BY DEF BlameIsRight
  <2>1. CASE j = i /\ at = "settling"
    <3>1. settled[j] \in Seq(Outcomes) /\ Len(settled[j]) = 0
      BY <2>1 DEF IInv, WalkTypes, Accounted, Open
    <3> QED
      BY <3>1
  <2>2. CASE ~ (j = i /\ at = "settling")
    BY <2>2 DEF Blame, Told
  <2> QED
    BY <2>1, <2>2
<1> QED
  BY <1>1, <1>2, Accounts, PTL
-----------------------------------------------------------------------------
(* The trail.                                                               *)

\* An error whose bill is not that of a request that ran nothing.
Uncertain(e) == e.kind \notin {"circuit", "ssrf", "credential"} /\ ~ e.status

LEMMA UncertainBill ==
  ASSUME NEW e PROVE Billing(e) \in Evidence /\ (Uncertain(e) => Billing(e) = "uncertain")
<1>1. CASE e.kind \in {"circuit", "ssrf", "credential"} /\ e.status
  BY <1>1 DEF Billing, Evidence, Uncertain
<1>2. CASE ~ (e.kind \in {"circuit", "ssrf", "credential"} /\ e.status)
  BY <1>2 DEF Billing, Evidence, Uncertain
<1> QED
  BY <1>1, <1>2

LEMMA TrailInit == Init => Trail
BY DEF Init, Trail, Unanswered

\* The member stays, and what is known of its failure goes with it.
LEMMA TrailMove ==
  ASSUME Trail, UNCHANGED <<i, failures, sent>>, admitted \subseteq admitted',
         answered \subseteq answered',
         at' = "build" => i \notin sent,
         at' \in {"caught", "recorded"} /\ i \in Unanswered' => Uncertain(err'),
         at' = "settling" /\ pend'.then \notin {"serve", "end"} /\ i \in Unanswered' =>
           Uncertain(pend'.err),
         at' \in {"frame", "closing", "lastFrame", "tail"} => committed',
         at' = "over" /\ ~ committed' =>
           result'.ok \/ \A j \in Unanswered' : j < i \/ "uncertain" \in result'.terminal
  PROVE  Trail'
BY DEF Trail, Unanswered, Uncertain

\* The member is passed, and its failure enters the trail.
LEMMA TrailNext ==
  ASSUME IInv, Trail, i \in Members, UNCHANGED <<sent, answered, admitted>>,
         NEW f \in [index : Nat, dispatched : BOOLEAN, billing : Evidence],
         failures' = Append(failures, f), i' = i + 1, at' = "top",
         i \in Unanswered => f.billing = "uncertain"
  PROVE  Trail'
<1>1. /\ failures' \in Seq([index : Nat, dispatched : BOOLEAN, billing : Evidence])
      /\ Len(failures') = i /\ failures'[i] = f /\ i \in Nat
      /\ \A j \in 1 .. i - 1 : failures'[j] = failures[j]
  BY DEF Trail, IInv, WalkTypes
<1>2. Unanswered \subseteq Members /\ \A j \in Unanswered : j <= i
  BY DEF Trail, Unanswered, IInv, WalkTypes, Accounted
<1>3. ASSUME NEW j \in Unanswered PROVE failures'[j].billing = "uncertain"
  <2>1. CASE j = i
    BY <1>1, <1>3, <2>1
  <2>2. CASE j # i
    <3>1. j \in 1 .. i - 1
      BY <1>1, <1>2, <1>3, <2>2 DEF Members
    <3> QED
      BY <1>1, <1>3, <3>1 DEF Trail
  <2> QED
    BY <2>1, <2>2
<1>4. sent' \subseteq admitted' /\ Unanswered' = Unanswered /\ Len(failures') = i' - 1
  BY <1>1 DEF Trail, Unanswered
<1> QED
  BY <1>1, <1>3, <1>4 DEF Trail

LEMMA TrailThrow ==
  ASSUME Trail, NEW e, NEW by, Throw(e, by), UNCHANGED <<admitted, sent>>,
         i \in sent => Uncertain(e) \/ e.status
  PROVE  Trail'
<1>1. /\ UNCHANGED <<i, failures>> /\ at' = "settling" /\ pend'.err = e
      /\ answered' = IF e.status THEN answered \cup {i} ELSE answered
  BY DEF Throw, Persist, walk
<1>2. i \in Unanswered' => Uncertain(e)
  BY <1>1 DEF Unanswered
<1> QED
  BY <1>1, <1>2, TrailMove

LEMMA TrailGiveUp ==
  ASSUME IInv, Trail, NEW why, NEW billing, GiveUp(why, billing), UNCHANGED history,
         at \in {"top", "caught", "recorded"},
         i \in Unanswered => "uncertain" \in billing
  PROVE  Trail'
<1>1. /\ UNCHANGED <<i, failures, sent, admitted, answered>> /\ at' = "over"
      /\ result'.terminal = billing
  BY DEF GiveUp, history
<1>2. \A j \in Unanswered : j < i \/ j = i
  BY DEF Trail, Unanswered, IInv, WalkTypes, Accounted, Members
<1> QED
  BY <1>1, <1>2, TrailMove DEF Unanswered

LEMMA TrailWalk == ASSUME IInv, Trail, Walk PROVE Trail'
<1>1. CASE StopAborted \/ Exhausted
  <2>1. i \notin Unanswered /\ at = "top"
    BY <1>1 DEF StopAborted, Exhausted, IInv, Accounted, Fresh, Trail, Unanswered, WalkTypes
  <2>2. PICK why, billing : GiveUp(why, billing) /\ UNCHANGED history
    BY <1>1 DEF StopAborted, Exhausted
  <2> QED
    BY <2>1, <2>2, TrailGiveUp
<1>2. CASE Begin
  BY <1>2, TrailMove DEF Begin, walk, attempt, history
<1>3. CASE ReadPause
  <2>0. i \in Members /\ i \notin Unanswered
    BY <1>3 DEF ReadPause, IInv, Accounted, Fresh, Trail, Unanswered
  <2>1. CASE at' = "top"
    <3> DEFINE f == [index |-> i, dispatched |-> FALSE, billing |-> "not_sent"]
    <3>1. NextMember(f) /\ UNCHANGED history
      BY <1>3, <2>1 DEF ReadPause
    <3>2. f \in [index : Nat, dispatched : BOOLEAN, billing : Evidence]
      BY <2>0 DEF Evidence, Members
    <3> HIDE DEF f
    <3> QED
      BY <2>0, <3>1, <3>2, TrailNext DEF NextMember, history
  <2>2. CASE at' # "top"
    BY <1>3, <2>2, TrailMove DEF ReadPause, NextMember, walk, attempt, history
  <2> QED
    BY <2>1, <2>2
<1>4. CASE Skip
  <2>1. i \notin sent /\ at' = "caught" /\ UNCHANGED <<i, failures, sent, answered, admitted>>
    BY <1>4 DEF Skip, walk, history, IInv, Accounted, Fresh, Trail
  <2> QED
    BY <2>1, TrailMove DEF Unanswered
<1>5. CASE Admit
  <2>1. /\ i \notin sent /\ at' = "build" /\ UNCHANGED <<i, failures, sent, answered>>
        /\ admitted \subseteq admitted'
    BY <1>5 DEF Admit, walk, IInv, Accounted, Fresh, Trail
  <2> QED
    BY <2>1, TrailMove
<1>6. CASE RecordPause
  BY <1>6, TrailMove DEF RecordPause, walk, attempt, history, Trail, Uncertain, Unanswered
<1>7. CASE GiveUpOnError \/ FailOver
  <2>1. at \in {"caught", "recorded"} /\ i \in Members
    BY <1>7 DEF GiveUpOnError, FailOver, Caught, IInv, Accounted
  <2>2. i \in Unanswered => Uncertain(Seen)
    BY <2>1 DEF Trail, Seen, Uncertain, Local
  <2>3. Billing(Seen) \in Evidence /\ (i \in Unanswered => Billing(Seen) = "uncertain")
    BY <2>2, UncertainBill
  <2>4. CASE GiveUpOnError
    BY <2>1, <2>3, <2>4, TrailGiveUp DEF GiveUpOnError
  <2>5. CASE FailOver
    <3> DEFINE f == [index |-> i, dispatched |-> Seen.kind # "circuit", billing |-> Billing(Seen)]
    <3>1. NextMember(f) /\ UNCHANGED history
      BY <2>5 DEF FailOver
    <3>2. /\ f \in [index : Nat, dispatched : BOOLEAN, billing : Evidence]
          /\ i \in Unanswered => f.billing = "uncertain"
      BY <2>1, <2>3 DEF Members
    <3> HIDE DEF f
    <3> QED
      BY <2>1, <3>1, <3>2, TrailNext DEF NextMember, history
  <2> QED
    BY <1>7, <2>4, <2>5
<1> QED
  BY <1>1, <1>2, <1>3, <1>4, <1>5, <1>6, <1>7 DEF Walk

LEMMA TrailCall == ASSUME IInv, Trail, Call PROVE Trail'
<1>1. CASE BuildFails \/ Blocked \/ SendCancelled
  <2>1. PICK e, by : Throw(e, by)
    BY <1>1 DEF BuildFails, Blocked, SendCancelled
  <2>2. i \notin sent /\ UNCHANGED <<admitted, sent>>
    BY <1>1 DEF BuildFails, Blocked, SendCancelled, Trail
  <2> QED
    BY <2>1, <2>2, TrailThrow
<1>2. CASE Send
  <2>1. /\ at = "build" /\ at' = "upstream" /\ sent' = sent \cup {i} /\ i \in admitted
        /\ UNCHANGED <<i, failures, admitted, answered>>
    BY <1>2 DEF Send, walk, IInv, Accounted, Open
  <2>2. i \in Nat
    BY DEF IInv, WalkTypes
  <2> QED
    BY <2>1, <2>2 DEF Trail, Unanswered
<1>3. CASE Torn
  <2>1. PICK kind \in {"cancelled", "unavailable"} : Throw(Local(kind), CutBy)
    BY <1>3 DEF Torn
  <2>2. Uncertain(Local(kind)) /\ UNCHANGED <<admitted, sent>>
    BY <1>3 DEF Torn, Uncertain, Local
  <2> QED
    BY <2>1, <2>2, TrailThrow
<1>4. CASE Settle
  <2>1. /\ at = "settling" /\ UNCHANGED <<i, failures, sent, admitted, answered, committed>>
        /\ at' \in {"over", "tail", "caught"}
    BY <1>4 DEF Settle
  <2>2. CASE pend.then = "serve"
    <3>1. at' = "over" /\ result'.ok
      BY <1>4, <2>2 DEF Settle
    <3> QED
      BY <2>1, <3>1, TrailMove
  <2>3. CASE pend.then = "end" /\ committed /\ ~ timedOut
    <3>1. at' = "tail"
      BY <1>4, <2>3 DEF Settle
    <3> QED
      BY <2>1, <2>3, <3>1, TrailMove
  <2>4. CASE pend.then = "end" /\ ~ (committed /\ ~ timedOut)
    <3>1. at' = "caught" /\ err' = Local("unavailable")
      BY <1>4, <2>4 DEF Settle
    <3> QED
      BY <2>1, <3>1, TrailMove DEF Uncertain, Local
  <2>5. CASE pend.then \notin {"serve", "end"}
    <3>1. at' = "caught" /\ err' = pend.err
      BY <1>4, <2>5 DEF Settle
    <3> QED
      BY <2>1, <2>5, <3>1, TrailMove DEF Trail, Unanswered, Uncertain
  <2> QED
    BY <2>2, <2>3, <2>4, <2>5
<1> QED
  BY <1>1, <1>2, <1>3, <1>4 DEF Call

LEMMA TrailUpstream == ASSUME IInv, Trail, Upstream PROVE Trail'
<1>1. CASE Unreachable \/ Refused \/ Denied \/ Oversized
  <2>1. PICK e, by : Throw(e, by) /\ (Uncertain(e) \/ e.status)
    BY <1>1 DEF Unreachable, Refused, Denied, Oversized, Uncertain, Local, Answer
  <2>2. UNCHANGED <<admitted, sent>>
    BY <1>1 DEF Unreachable, Refused, Denied, Oversized
  <2> QED
    BY <2>1, <2>2, TrailThrow
<1>2. CASE Served \/ StreamEnds
  <2>1. /\ at' = "settling" /\ pend'.then \in {"serve", "end"}
        /\ UNCHANGED <<i, failures, sent, admitted, answered>>
    BY <1>2 DEF Served, StreamEnds, Persist, walk, history
  <2> QED
    BY <2>1, TrailMove
<1>3. CASE ErrorEvent
  <2>1. /\ at' = "settling" /\ Uncertain(pend'.err)
        /\ UNCHANGED <<i, failures, sent, admitted, answered>>
    BY <1>3 DEF ErrorEvent, Persist, walk, Local, Uncertain
  <2> QED
    BY <2>1, TrailMove
<1>4. CASE Event
  BY <1>4, TrailMove DEF Event, history
<1> QED
  BY <1>1, <1>2, <1>3, <1>4 DEF Upstream

LEMMA TrailFrames == ASSUME IInv, Trail, Frames PROVE Trail'
<1>1. /\ UNCHANGED <<i, failures, sent, admitted, answered, committed>>
      /\ committed
      /\ at' \in {"upstream", "closing", "over", "lastFrame"}
  BY DEF Frames, Pull, Leave, Close, FailFrames, LastPull, LeaveAtLast, walk, attempt, history,
     Trail
<1> QED
  BY <1>1, TrailMove

LEMMA TrailNextStep == IInv /\ Trail /\ [Next]_vars => Trail'
<1> SUFFICES ASSUME IInv, Trail, [Next]_vars PROVE Trail'
  OBVIOUS
<1>1. CASE ClientGoes \/ DeadlinePasses \/ KeepAlive \/ Watchdog \/ UNCHANGED vars
  <2>1. UNCHANGED <<i, at, pend, err, failures, result, sent, answered, admitted, committed>>
    BY <1>1 DEF ClientGoes, DeadlinePasses, KeepAlive, Watchdog, Rearm, TimeOut, vars,
       walk, attempt, history
  <2> QED
    BY <2>1 DEF Trail, Unanswered
<1> QED
  BY <1>1, TrailWalk, TrailCall, TrailUpstream, TrailFrames DEF Next

\* A failed walk recorded as unbilled sent no request that was not answered by
\* an error status, however long the chain and whatever cut its attempts
\* (terminalBilling, failuresUnbilled).
THEOREM UnbilledStays == Spec => []UnbilledRanNothing
<1>1. Spec => []Trail
  BY Accounts, TrailInit, TrailNextStep, PTL DEF Spec
<1>2. IInv /\ Trail => UnbilledRanNothing
  <2> DEFINE evidence == {failures[k].billing : k \in 1 .. Len(failures)} \cup result.terminal
  <2> SUFFICES ASSUME IInv, Trail, Over, ~ committed, ~ result.ok,
                      evidence \subseteq {"not_sent", "rejected"}, NEW j \in sent
      PROVE  j \in answered
    BY DEF UnbilledRanNothing
  <2>1. "uncertain" \notin evidence
    OBVIOUS
  <2> SUFFICES ASSUME j \in Unanswered PROVE FALSE
    BY DEF Unanswered
  <2>2. j < i
    BY <2>1 DEF Trail, Over
  <2>3. failures[j].billing = "uncertain"
    BY <2>2 DEF Trail
  <2>4. j \in Nat /\ j >= 1 /\ i \in Nat /\ Len(failures) = i - 1
    BY DEF Trail, Unanswered, IInv, WalkTypes, Members
  <2>5. j \in 1 .. Len(failures)
    BY <2>2, <2>4
  <2> QED
    BY <2>1, <2>3, <2>5
<1> QED
  BY <1>1, <1>2, Accounts, PTL
-----------------------------------------------------------------------------
(* Cancellation.                                                            *)

LEMMA AnOutcome ==
  ASSUME NEW status, NEW cancelled PROVE [status |-> status, cancelled |-> cancelled] # Nothing
<1>1. DOMAIN [status |-> status, cancelled |-> cancelled] = {"status", "cancelled"}
  OBVIOUS
<1>2. DOMAIN Nothing = {"none"}
  BY DEF Nothing
<1> QED
  BY <1>1, <1>2

\* Resolving an outcome that is open, and one that is not.
LEMMA Resolved ==
  ASSUME NEW status, NEW cancelled, Resolve(status, cancelled)
  PROVE  /\ outcome # Nothing => outcome' = outcome
         /\ outcome = Nothing => outcome' # Nothing /\ outcome'.cancelled = cancelled
BY AnOutcome DEF Resolve

LEMMA CausalInit == Init => Causal
BY DEF Init, Causal, Members

LEMMA CausalWalk == ASSUME IInv, Blame, Causal, Walk PROVE Causal'
<1>1. ~ committed
  BY DEF Walk, StopAborted, Exhausted, Begin, ReadPause, Skip, Admit, RecordPause,
     GiveUpOnError, FailOver, Caught, IInv, PastAdmission
<1>2. CASE StopAborted \/ Exhausted \/ GiveUpOnError
  <2>1. /\ UNCHANGED <<mode, cause, outcome, here, committed, gone>> /\ at' = "over"
        /\ ~ result'.ok /\ result'.cancelled = gone
    BY <1>2 DEF StopAborted, Exhausted, GiveUpOnError, GiveUp, attempt, signals, history
  <2> QED
    BY <1>1, <2>1 DEF Causal
<1>3. CASE Begin
  <2>1. \A j \in Members : cause[j] # "client"
    BY <1>3 DEF Begin, Aborted, Blame
  <2> QED
    BY <1>1, <1>3, <2>1 DEF Begin, walk, attempt, signals, history, Causal
<1>4. CASE ReadPause \/ FailOver
  <2>1. /\ UNCHANGED <<mode, cause, outcome, here, committed>>
        /\ at' = "top" \/ (at = "pause" /\ at' = "admit")
    BY <1>4 DEF ReadPause, FailOver, NextMember, walk, attempt, history
  <2> QED
    BY <1>1, <2>1 DEF Causal
<1>5. CASE Skip \/ Admit \/ RecordPause
  <2>1. /\ UNCHANGED <<i, mode, cause, outcome, here, committed>>
        /\ \/ at = "admit" /\ at' \in {"caught", "build"}
           \/ at = "caught" /\ at' = "recorded"
    BY <1>5 DEF Skip, Admit, RecordPause, walk, attempt, history
  <2> QED
    BY <1>1, <2>1 DEF Causal
<1> QED
  BY <1>2, <1>3, <1>4, <1>5 DEF Walk

LEMMA CausalThrow ==
  ASSUME IInv, Blame, Causal, at \in {"build", "upstream"}, NEW e, NEW by, Throw(e, by),
         UNCHANGED here
  PROVE  Causal'
<1>1. /\ UNCHANGED <<i, mode, committed, outcome, here>> /\ at' = "settling"
      /\ pend'.then = "throw" /\ cause' = [cause EXCEPT ![i] = by] /\ i \in Members
  BY DEF Throw, Persist, walk, IInv, Accounted
<1>2. \A j \in Members : j # i => cause'[j] = cause[j]
  BY <1>1 DEF Blame
<1>3. \A j \in Members : cause[j] # "client"
  BY DEF Causal
<1> QED
  BY <1>1, <1>2, <1>3 DEF Causal, IInv, PastAdmission

LEMMA CausalCall == ASSUME IInv, Blame, Causal, Call PROVE Causal'
<1>1. CASE BuildFails \/ Blocked \/ SendCancelled \/ Torn
  <2>1. PICK e, by : Throw(e, by)
    BY <1>1 DEF BuildFails, Blocked, SendCancelled, Torn
  <2>2. at \in {"build", "upstream"} /\ UNCHANGED here
    BY <1>1 DEF BuildFails, Blocked, SendCancelled, Torn
  <2> QED
    BY <2>1, <2>2, CausalThrow
<1>2. CASE Send
  <2>1. /\ UNCHANGED <<i, mode, cause, outcome, here, committed>>
        /\ at = "build" /\ at' = "upstream"
    BY <1>2 DEF Send, walk, attempt, history
  <2> QED
    BY <2>1 DEF Causal, IInv, PastAdmission
<1>3. CASE Settle
  <2>1. /\ at = "settling" /\ UNCHANGED <<i, mode, cause, outcome, here, committed, gone>>
        /\ i \in Members
    BY <1>3 DEF Settle, signals, IInv, Accounted
  <2>2. CASE pend.then = "serve"
    <3>1. at' = "over" /\ result'.ok
      BY <1>3, <2>2 DEF Settle
    <3>2. ~ committed /\ cause[i] = "none"
      BY <2>1, <2>2 DEF Causal, Blame
    <3>3. \A j \in Members : cause[j] # "client"
      BY <2>1, <3>2 DEF Causal
    <3> QED
      BY <2>1, <3>1, <3>2, <3>3 DEF Causal
  <2>3. CASE pend.then = "end" /\ committed /\ ~ timedOut
    <3>1. at' = "tail"
      BY <1>3, <2>3 DEF Settle
    <3>2. cause[i] = "none"
      BY <2>1, <2>3 DEF Blame
    <3> QED
      BY <2>1, <2>3, <3>1, <3>2 DEF Causal
  <2>4. CASE pend.then # "serve" /\ ~ (pend.then = "end" /\ committed /\ ~ timedOut)
    <3>1. at' = "caught"
      BY <1>3, <2>4 DEF Settle
    <3> QED
      BY <2>1, <3>1 DEF Causal
  <2> QED
    BY <2>2, <2>3, <2>4
<1> QED
  BY <1>1, <1>2, <1>3 DEF Call

LEMMA CausalUpstream == ASSUME IInv, Blame, Causal, Upstream PROVE Causal'
<1>1. CASE Unreachable \/ Refused \/ Denied \/ Oversized
  <2>1. PICK e, by : Throw(e, by)
    BY <1>1 DEF Unreachable, Refused, Denied, Oversized
  <2>2. at = "upstream" /\ UNCHANGED here
    BY <1>1 DEF Unreachable, Refused, Denied, Oversized
  <2> QED
    BY <2>1, <2>2, CausalThrow
<1>2. CASE Served \/ StreamEnds
  <2>1. /\ at = "upstream" /\ at' = "settling"
        /\ UNCHANGED <<i, mode, cause, outcome, here, committed>>
        /\ pend'.then = "serve" => mode = "buffered"
    BY <1>2 DEF Served, StreamEnds, Persist, walk, history
  <2> QED
    BY <2>1 DEF Causal
<1>3. CASE ErrorEvent
  <2>1. /\ at = "upstream" /\ at' = "settling" /\ i \in Members
        /\ UNCHANGED <<i, mode, outcome, here, committed>> /\ pend'.then = "throw"
        /\ cause' = [cause EXCEPT ![i] = "provider"]
    BY <1>3 DEF ErrorEvent, Persist, walk, IInv, Accounted
  <2>2. \A j \in Members : cause'[j] # "client"
    BY <2>1 DEF Causal, Blame
  <2> QED
    BY <2>1, <2>2 DEF Causal
<1>4. CASE Event
  <2>1. /\ at = "upstream" /\ at' = "frame" /\ mode = "stream"
        /\ UNCHANGED <<i, mode, cause, outcome, here>>
    BY <1>4 DEF Event, history
  <2> QED
    BY <2>1 DEF Causal
<1> QED
  BY <1>1, <1>2, <1>3, <1>4 DEF Upstream

LEMMA CausalFrames == ASSUME IInv, Blame, Causal, Trail, Frames PROVE Causal'
<1>0. committed
  BY DEF Trail, Frames, Pull, Leave, Close, FailFrames, LastPull, LeaveAtLast
<1>1. CASE Pull
  <2>1. /\ UNCHANGED <<i, mode, cause, outcome, here, committed>>
        /\ at = "frame" /\ at' = "upstream"
    BY <1>1 DEF Pull, walk, attempt, history
  <2> QED
    BY <2>1 DEF Causal
<1>2. CASE Leave
  <2>1. /\ UNCHANGED <<i, mode, cause, here, committed, gone>> /\ gone
        /\ at = "frame" /\ at' = "closing" /\ Resolve("error", TRUE)
    BY <1>2 DEF Leave, walk, attempt, history, signals
  <2> QED
    BY <1>0, <2>1, Resolved DEF Causal, Ended
<1>3. CASE Close
  <2>1. /\ UNCHANGED <<i, mode, cause, outcome, here, committed, gone>>
        /\ at = "closing" /\ at' = "over"
    BY <1>3 DEF Close, walk, attempt, signals
  <2> QED
    BY <1>0, <2>1 DEF Causal, Ended
<1>4. CASE FailFrames
  <2>1. /\ UNCHANGED <<i, mode, cause, committed, gone>> /\ here' = ~ gone
        /\ at = "caught" /\ at' = "lastFrame" /\ Resolve("error", gone)
    BY <1>4 DEF FailFrames, walk, attempt, signals
  <2>2. outcome' # Nothing /\ outcome'.cancelled = gone
    BY <1>0, <2>1, Resolved DEF Causal
  <2>3. (\E j \in Members : cause[j] = "client") => gone
    BY DEF Blame
  <2> QED
    BY <1>0, <2>1, <2>2, <2>3 DEF Causal, Ended
<1>5. CASE (LastPull \/ LeaveAtLast) /\ at = "lastFrame"
  <2>1. /\ UNCHANGED <<i, mode, cause, here, committed, gone>> /\ at' = "over"
    BY <1>5 DEF LastPull, LeaveAtLast, walk, attempt, history, signals
  <2>2. outcome' = outcome
    BY <1>0, <1>5 DEF LastPull, LeaveAtLast, Resolve, Causal, Ended
  <2> QED
    BY <1>0, <1>5, <2>1, <2>2 DEF Causal, Ended
<1>6. CASE (LastPull \/ LeaveAtLast) /\ at = "tail"
  <2>1. /\ UNCHANGED <<i, mode, cause, here, committed, gone>> /\ at' = "over"
    BY <1>6 DEF LastPull, LeaveAtLast, walk, attempt, history, signals
  <2>2. outcome = Nothing /\ ~ here /\ \A j \in Members : cause[j] # "client"
    BY <1>0, <1>6 DEF Causal
  <2>3. CASE LastPull
    <3>1. Resolve("success", FALSE)
      BY <1>6, <2>3 DEF LastPull
    <3> QED
      BY <1>0, <2>1, <2>2, <3>1, Resolved DEF Causal, Ended
  <2>4. CASE LeaveAtLast
    <3>1. Resolve("error", TRUE) /\ gone
      BY <2>4 DEF LeaveAtLast
    <3> QED
      BY <1>0, <2>1, <2>2, <3>1, Resolved DEF Causal, Ended
  <2> QED
    BY <1>6, <2>3, <2>4
<1> QED
  BY <1>1, <1>2, <1>3, <1>4, <1>5, <1>6 DEF Frames, LastPull, LeaveAtLast

LEMMA CausalNextStep == IInv /\ Blame /\ Trail /\ Causal /\ [Next]_vars => Causal'
<1> SUFFICES ASSUME IInv, Blame, Trail, Causal, [Next]_vars PROVE Causal'
  OBVIOUS
<1>1. CASE ClientGoes
  <2>1. /\ UNCHANGED <<i, at, mode, pend, cause, outcome, here, committed, result>>
        /\ ~ gone /\ gone' /\ at # "over"
    BY <1>1 DEF ClientGoes, walk, attempt, history
  <2> QED
    BY <2>1 DEF Causal, Ended
<1>2. CASE DeadlinePasses \/ KeepAlive \/ Watchdog \/ UNCHANGED vars
  <2>1. UNCHANGED <<i, at, mode, pend, cause, outcome, here, committed, result, gone>>
    BY <1>2 DEF DeadlinePasses, KeepAlive, Watchdog, Rearm, TimeOut, vars, walk, attempt,
       history, signals
  <2> QED
    BY <2>1 DEF Causal, Ended
<1> QED
  BY <1>1, <1>2, CausalWalk, CausalCall, CausalUpstream, CausalFrames DEF Next

\* A request is recorded as cancelled by its client exactly when a client's
\* leaving, and not what followed its end, was why: for a chain of any length
\* (resultOf, buildFrames, wrapWithSettle).
THEOREM CancellationStays == Spec => []CancellationIsCausal
<1>1. Spec => [](Blame /\ Trail /\ Causal)
  BY Accounts, BlameInit, BlameNextStep, TrailInit, TrailNextStep, CausalInit, CausalNextStep,
     PTL DEF Spec
<1>2. Blame /\ Causal => CancellationIsCausal
  <2> SUFFICES ASSUME Blame, Causal PROVE CancellationIsCausal
    OBVIOUS
  <2>1. CASE ~ Over
    BY <2>1 DEF CancellationIsCausal, Cancelled
  <2>2. CASE Over /\ committed
    BY <2>2 DEF CancellationIsCausal, Cancelled, Causal, Ended, Over
  <2>3. CASE Over /\ ~ committed
    BY <2>3 DEF CancellationIsCausal, Cancelled, Causal, Blame, Over
  <2> QED
    BY <2>1, <2>2, <2>3
<1> QED
  BY <1>1, <1>2, PTL
-----------------------------------------------------------------------------
(* The types: what waits while the breaker persists, what the core catches, *)
(* and that the request of a running attempt was sent.                      *)

\* What the breaker is persisting while an attempt waits for it.
Waits ==
  [outcome : Outcomes, then : {"throw"}, err : Errors]
  \cup [outcome : Outcomes, then : {"serve", "end"}, err : {Nothing}]

Failure == [index : Members, dispatched : BOOLEAN, billing : Evidence]

Results ==
  [ok : {TRUE}, index : Members]
  \cup [ok : {FALSE}, why : {"stopped", "exhausted", "stop"}, cancelled : BOOLEAN,
        terminal : SUBSET Evidence]
  \cup {Nothing}

Verdicts == [status : {"success", "error"}, cancelled : BOOLEAN] \cup {Nothing}

Places == {"top", "pause", "admit", "build", "upstream", "settling", "caught", "recorded",
           "frame", "closing", "lastFrame", "tail", "over"}

\* Where the walk is and what it has so far.
WalkShape ==
  /\ mode \in Modes /\ i \in 1 .. Length + 1 /\ at \in Places
  /\ failures \in Seq(Failure) /\ result \in Results /\ outcome \in Verdicts
  /\ gone \in BOOLEAN /\ deadline \in BOOLEAN /\ heard \in BOOLEAN /\ timedOut \in BOOLEAN
  /\ stop \in BOOLEAN /\ committed \in BOOLEAN /\ here \in BOOLEAN

\* What the attempt threw, and what its breaker is being told.
ErrorShape ==
  /\ err \in Errors \cup {Nothing} /\ pend \in Waits \cup {Nothing}
  /\ at = "settling" => pend \in Waits
  /\ at \in {"caught", "recorded"} => err \in Errors

\* Whose request was sent and answered.
SentShape ==
  /\ sent \subseteq admitted /\ answered \subseteq sent
  /\ at \in {"upstream", "frame"} => i \in sent

Shapes == WalkShape /\ ErrorShape /\ SentShape

\* What a failed attempt bills is a kind of evidence.
LEMMA BillingType == \A e : Billing(e) \in Evidence
BY DEF Billing, Evidence

\* At first.
LEMMA ShapesInit == Init => Shapes
<1> SUFFICES ASSUME Init PROVE Shapes
  OBVIOUS
<1>1. 1 \in 1 .. Length + 1
  BY ChainAssumption
<1>2. WalkShape
  <2>1. result \in Results /\ outcome \in Verdicts
    BY DEF Init, Results, Verdicts
  <2>2. failures \in Seq(Failure) /\ at \in Places
    BY DEF Init, Places
  <2>3. \A x \in {gone, deadline, heard, timedOut, stop, committed, here} : x \in BOOLEAN
    BY DEF Init
  <2> QED  BY <1>1, <2>1, <2>2, <2>3 DEF Init, WalkShape
<1>3. ErrorShape
  BY DEF Init, ErrorShape
<1>4. SentShape
  BY DEF Init, SentShape
<1> QED  BY <1>2, <1>3, <1>4 DEF Shapes

\* The walk ends without a member.
LEMMA ShapesGiveUp ==
  ASSUME IInv, Shapes, NEW why \in {"stopped", "exhausted", "stop"},
         NEW billing \in SUBSET Evidence, GiveUp(why, billing), UNCHANGED history
  PROVE  Shapes'
<1> USE DEF attempt, signals, history, GiveUp
<1>1. WalkShape'
  <2>1. [ok |-> FALSE, why |-> why, cancelled |-> gone, terminal |-> billing] \in Results
    BY DEF Shapes, WalkShape, Results
  <2> QED  BY <2>1 DEF Shapes, WalkShape, Places
<1>2. ErrorShape' /\ SentShape'
  BY DEF Shapes, ErrorShape, SentShape
<1> QED  BY <1>1, <1>2 DEF Shapes

\* The walk goes on with the next member.
LEMMA ShapesNext ==
  ASSUME IInv, Shapes, i \in Members, NEW f \in Failure, NextMember(f), UNCHANGED history
  PROVE  Shapes'
<1> USE DEF signals, history, NextMember
<1>1. WalkShape'
  <2>1. i + 1 \in 1 .. Length + 1
    BY ChainAssumption DEF Members
  <2>2. Append(failures, f) \in Seq(Failure)
    BY DEF Shapes, WalkShape
  <2> QED  BY <2>1, <2>2 DEF Shapes, WalkShape, Places
<1>2. ErrorShape' /\ SentShape'
  BY DEF Shapes, ErrorShape, SentShape
<1> QED  BY <1>1, <1>2 DEF Shapes

\* A step that only moves the walk.
LEMMA ShapesMove ==
  ASSUME IInv, Shapes, UNCHANGED <<walk, attempt, signals, outcome, admitted, sent, answered>>,
         at' \in Places \ {"settling", "caught"}, here' \in BOOLEAN,
         at' = "recorded" => at = "caught",
         at' \in {"upstream", "frame"} => at \in {"upstream", "frame"}
  PROVE  Shapes'
<1> USE DEF walk, attempt, signals
<1>1. WalkShape'
  BY DEF Shapes, WalkShape
<1>2. ErrorShape' /\ SentShape'
  BY DEF Shapes, ErrorShape, SentShape
<1> QED  BY <1>1, <1>2 DEF Shapes

\* The walk's own steps.
LEMMA ShapesWalk == ASSUME IInv, Shapes, Walk PROVE Shapes'
<1>0. here \in BOOLEAN
  BY DEF Shapes, WalkShape
<1>1. CASE StopAborted \/ Exhausted
  <2>1. {"not_sent"} \in SUBSET Evidence /\ {} \in SUBSET Evidence
    BY DEF Evidence
  <2> QED  BY <1>1, <2>1, ShapesGiveUp DEF StopAborted, Exhausted
<1>2. CASE Begin
  BY <1>0, <1>2, ShapesMove DEF Begin, history, Places
<1>3. CASE ReadPause
  <2> DEFINE f == [index |-> i, dispatched |-> FALSE, billing |-> "not_sent"]
  <2>1. i \in Members
    BY <1>3 DEF ReadPause, IInv, Accounted
  <2>2. f \in Failure
    BY <2>1 DEF Failure, Evidence
  <2>3. CASE NextMember(f) /\ UNCHANGED history
    <3> HIDE DEF f
    <3> QED  BY <2>1, <2>2, <2>3, ShapesNext
  <2>4. CASE at' = "admit" /\ UNCHANGED <<walk, attempt, signals, outcome, history>>
    BY <1>0, <2>4, ShapesMove DEF history, Places
  <2> QED  BY <1>3, <2>3, <2>4 DEF ReadPause
<1>4. CASE Skip
  <2>1. Local("circuit") \in Errors
    BY DEF Local, Errors, Kinds
  <2>2. /\ at' = "caught" /\ err' = Local("circuit")
        /\ UNCHANGED <<walk, timedOut, stop, pend, committed, signals, outcome, history>>
    BY <1>4 DEF Skip
  <2>3. WalkShape'
    BY <2>2 DEF Shapes, WalkShape, Places, walk, signals, history
  <2>4. ErrorShape' /\ SentShape'
    BY <2>1, <2>2 DEF Shapes, ErrorShape, SentShape, history
  <2> QED  BY <2>3, <2>4 DEF Shapes
<1>5. CASE Admit
  <2>1. /\ at' = "build" /\ admitted' = admitted \cup {i}
        /\ UNCHANGED <<walk, attempt, signals, outcome, sent, answered, here>>
    BY <1>5 DEF Admit
  <2>2. WalkShape'
    BY <2>1 DEF Shapes, WalkShape, Places, walk, signals, attempt
  <2>3. ErrorShape' /\ SentShape'
    BY <2>1 DEF Shapes, ErrorShape, SentShape, attempt
  <2> QED  BY <2>2, <2>3 DEF Shapes
<1>6. CASE RecordPause
  BY <1>0, <1>6, ShapesMove DEF RecordPause, history, Places
<1>7. CASE GiveUpOnError
  <2>1. {Billing(Seen)} \in SUBSET Evidence
    BY BillingType
  <2> QED  BY <1>7, <2>1, ShapesGiveUp DEF GiveUpOnError
<1>8. CASE FailOver
  <2> DEFINE f == [index |-> i, dispatched |-> Seen.kind # "circuit", billing |-> Billing(Seen)]
  <2>1. i \in Members
    BY <1>8 DEF FailOver, Caught, IInv, Accounted
  <2>2. f \in Failure
    BY <2>1, BillingType DEF Failure
  <2>3. NextMember(f) /\ UNCHANGED history
    BY <1>8 DEF FailOver
  <2> HIDE DEF f
  <2> QED  BY <2>1, <2>2, <2>3, ShapesNext
<1> QED  BY <1>1, <1>2, <1>3, <1>4, <1>5, <1>6, <1>7, <1>8 DEF Walk

\* An attempt waits for its breaker.
LEMMA ShapesPersist ==
  ASSUME IInv, Shapes, at' = "settling", pend' \in Waits,
         UNCHANGED <<walk, timedOut, stop, err, committed, signals, outcome, admitted, sent, here>>,
         answered' \subseteq sent
  PROVE  Shapes'
<1> USE DEF walk, signals
<1>1. WalkShape'
  BY DEF Shapes, WalkShape, Places
<1>2. ErrorShape' /\ SentShape'
  BY DEF Shapes, ErrorShape, SentShape
<1> QED  BY <1>1, <1>2 DEF Shapes

\* So does one that throws; only a request that was sent is answered.
LEMMA ShapesThrow ==
  ASSUME IInv, Shapes, NEW kind \in Kinds, NEW s \in BOOLEAN, NEW by,
         NEW e, e = [kind |-> kind, status |-> s],
         Throw(e, by), s => at = "upstream", UNCHANGED <<admitted, sent, here>>
  PROVE  Shapes'
<1>1. e \in Errors /\ e.status = s
  BY DEF Errors
<1>2. ThrownOutcome(e) \in Outcomes
  BY OutcomesOfErrors
<1>3. pend' \in Waits /\ at' = "settling"
  <2>1. [outcome |-> ThrownOutcome(e), then |-> "throw", err |-> e] \in Waits
    BY <1>1, <1>2 DEF Waits
  <2> QED  BY <2>1 DEF Throw, Persist
<1>4. answered' \subseteq sent
  BY <1>1 DEF Throw, Shapes, SentShape
<1> QED  BY <1>3, <1>4, ShapesPersist DEF Throw

\* The steps of an attempt.
LEMMA ShapesCall == ASSUME IInv, Shapes, Call PROVE Shapes'
<1>0. {"credential", "unavailable", "ssrf", "cancelled"} \subseteq Kinds
  BY DEF Kinds
<1>1. CASE BuildFails
  <2>1. PICK kind \in Kinds : Throw(Local(kind), "provider")
    BY <1>0, <1>1 DEF BuildFails
  <2> QED  BY <1>1, <2>1, ShapesThrow DEF BuildFails, Local
<1>2. CASE Blocked
  BY <1>0, <1>2, ShapesThrow DEF Blocked, Local
<1>3. CASE Send
  <2>1. /\ at' = "upstream" /\ sent' = sent \cup {i} /\ i \in admitted
        /\ UNCHANGED <<walk, attempt, signals, outcome, admitted, answered, here>>
    BY <1>3 DEF Send, IInv, Accounted, Open
  <2>2. WalkShape'
    BY <2>1 DEF Shapes, WalkShape, Places, walk, signals, attempt
  <2>3. ErrorShape' /\ SentShape'
    BY <2>1 DEF Shapes, ErrorShape, SentShape, attempt, walk
  <2> QED  BY <2>2, <2>3 DEF Shapes
<1>4. CASE SendCancelled
  BY <1>0, <1>4, ShapesThrow DEF SendCancelled, Local
<1>5. CASE Torn
  <2>1. PICK kind \in Kinds : Throw(Local(kind), CutBy)
    BY <1>0, <1>5 DEF Torn
  <2> QED  BY <1>5, <2>1, ShapesThrow DEF Torn, Local
<1>6. CASE Settle
  <2>1. /\ pend \in Waits /\ i \in Members /\ pend' = Nothing
        /\ UNCHANGED <<mode, i, failures, timedOut, stop, committed, signals, outcome,
                       admitted, sent, answered, here>>
    BY <1>6 DEF Settle, Shapes, ErrorShape, IInv, Accounted
  <2>2. \/ at' = "over" /\ result' = [ok |-> TRUE, index |-> i] /\ err' = err
        \/ at' = "tail" /\ UNCHANGED <<result, err>>
        \/ at' = "caught" /\ result' = result /\ err' \in Errors
    <3>1. Local("unavailable") \in Errors
      BY DEF Local, Errors, Kinds
    <3>2. pend.then \notin {"serve", "end"} => pend.err \in Errors
      BY <2>1 DEF Waits
    <3>3. CASE pend.then = "serve"
      BY <1>6, <3>3 DEF Settle
    <3>4. CASE pend.then = "end"
      BY <1>6, <3>1, <3>4 DEF Settle
    <3>5. CASE pend.then \notin {"serve", "end"}
      BY <1>6, <3>2, <3>5 DEF Settle
    <3> QED  BY <3>3, <3>4, <3>5
  <2>3. result' \in Results
    <3>1. [ok |-> TRUE, index |-> i] \in Results
      BY <2>1 DEF Results
    <3> QED  BY <2>2, <3>1 DEF Shapes, WalkShape
  <2>4. WalkShape'
    BY <2>1, <2>2, <2>3 DEF Shapes, WalkShape, Places, signals
  <2>5. ErrorShape' /\ SentShape'
    BY <2>1, <2>2 DEF Shapes, ErrorShape, SentShape
  <2> QED  BY <2>4, <2>5 DEF Shapes
<1> QED  BY <1>1, <1>2, <1>3, <1>4, <1>5, <1>6 DEF Call

\* What the upstream answers.
LEMMA ShapesUpstream == ASSUME IInv, Shapes, Upstream PROVE Shapes'
<1>0. {"unavailable", "bad_request", "quota_exhausted", "policy_block", "oversized_response"}
        \subseteq Kinds
  BY DEF Kinds
<1>1. CASE Unreachable
  BY <1>0, <1>1, ShapesThrow DEF Unreachable, Local
<1>2. CASE Refused
  <2>1. PICK kind \in Kinds : Throw(Answer(kind), "provider")
    BY <1>0, <1>2 DEF Refused
  <2> QED  BY <1>2, <2>1, ShapesThrow DEF Refused, Answer
<1>3. CASE Denied
  BY <1>0, <1>3, ShapesThrow DEF Denied, Answer
<1>4. CASE Oversized
  BY <1>0, <1>4, ShapesThrow DEF Oversized, Local
<1>5. CASE Served \/ StreamEnds
  <2>1. \E o \in Outcomes, then \in {"serve", "end"} : Persist(o, then, Nothing)
    BY <1>5 DEF Served, StreamEnds, Outcomes
  <2>2. pend' \in Waits /\ at' = "settling"
    BY <2>1 DEF Persist, Waits
  <2>3. UNCHANGED <<walk, timedOut, stop, err, committed, signals, outcome, history>>
    BY <1>5 DEF Served, StreamEnds
  <2> QED  BY <2>2, <2>3, ShapesPersist DEF history, Shapes, SentShape
<1>6. CASE ErrorEvent
  <2>1. PICK kind \in Kinds : Persist(OutcomeOf(kind), "throw", Local(kind))
    BY <1>0, <1>6 DEF ErrorEvent
  <2>2. Local(kind) \in Errors /\ OutcomeOf(kind) \in Outcomes
    BY OutcomesOfErrors DEF Local, Errors
  <2>3. pend' \in Waits /\ at' = "settling"
    BY <2>1, <2>2 DEF Persist, Waits
  <2> QED  BY <1>6, <2>3, ShapesPersist DEF ErrorEvent, Shapes, SentShape
<1>7. CASE Event
  <2>1. /\ at = "upstream" /\ at' = "frame" /\ committed' = TRUE /\ stop' \in {stop, TRUE}
        /\ result' = IF committed THEN result ELSE [ok |-> TRUE, index |-> i]
        /\ UNCHANGED <<mode, i, failures, timedOut, pend, err, signals, outcome, history>>
    BY <1>7 DEF Event
  <2>2. i \in Members
    BY <2>1 DEF IInv, Accounted
  <2>3. result' \in Results
    BY <2>1, <2>2 DEF Shapes, WalkShape, Results
  <2>4. WalkShape'
    BY <2>1, <2>3 DEF Shapes, WalkShape, Places, signals, history
  <2>5. ErrorShape' /\ SentShape'
    BY <2>1 DEF Shapes, ErrorShape, SentShape, history
  <2> QED  BY <2>4, <2>5 DEF Shapes
<1> QED  BY <1>1, <1>2, <1>3, <1>4, <1>5, <1>6, <1>7 DEF Upstream

\* The steps of a committed stream.
LEMMA ShapesFrames == ASSUME IInv, Shapes, Frames PROVE Shapes'
<1>0. here \in BOOLEAN /\ gone \in BOOLEAN /\ outcome \in Verdicts
  BY DEF Shapes, WalkShape
<1>1. CASE Pull
  <2>1. /\ UNCHANGED <<walk, attempt, gone, deadline, outcome, history>>
        /\ at = "frame" /\ at' = "upstream" /\ heard' \in BOOLEAN
    BY <1>1 DEF Pull
  <2>2. WalkShape'
    BY <2>1 DEF Shapes, WalkShape, Places, walk, attempt, history
  <2>3. ErrorShape' /\ SentShape'
    BY <2>1 DEF Shapes, ErrorShape, SentShape, walk, attempt, history
  <2> QED  BY <2>2, <2>3 DEF Shapes
<1>2. CASE Close
  BY <1>0, <1>2, ShapesMove DEF Close, Places
<1>3. CASE Leave \/ FailFrames \/ LastPull \/ LeaveAtLast
  <2>1. /\ UNCHANGED <<walk, attempt, signals, admitted, sent, answered>>
        /\ at' \in {"closing", "lastFrame", "over"} /\ here' \in BOOLEAN
    BY <1>0, <1>3 DEF Leave, FailFrames, LastPull, LeaveAtLast, history
  <2>2. \E s \in {"success", "error"}, c \in BOOLEAN : Resolve(s, c)
    BY <1>0, <1>3 DEF Leave, FailFrames, LastPull, LeaveAtLast
  <2>3. outcome' \in Verdicts
    BY <1>0, <2>2 DEF Resolve, Verdicts
  <2>4. WalkShape'
    BY <2>1, <2>3 DEF Shapes, WalkShape, Places, walk, attempt, signals
  <2>5. ErrorShape' /\ SentShape'
    BY <2>1 DEF Shapes, ErrorShape, SentShape, walk, attempt
  <2> QED  BY <2>4, <2>5 DEF Shapes
<1> QED  BY <1>1, <1>2, <1>3 DEF Frames

\* Every step.
LEMMA ShapesNextStep == IInv /\ Shapes /\ [Next]_vars => Shapes'
<1> SUFFICES ASSUME IInv, Shapes, [Next]_vars PROVE Shapes'
  OBVIOUS
<1>1. CASE Walk \/ Call \/ Upstream \/ Frames
  BY <1>1, ShapesWalk, ShapesCall, ShapesUpstream, ShapesFrames
<1>2. CASE ClientGoes \/ DeadlinePasses \/ KeepAlive \/ Watchdog \/ UNCHANGED vars
  <2>1. /\ UNCHANGED <<walk, at, stop, pend, err, committed, outcome, history>>
        /\ gone' \in {gone, TRUE} /\ deadline' \in {deadline, TRUE}
        /\ heard' \in {heard, TRUE, FALSE} /\ timedOut' \in {timedOut, TRUE}
    BY <1>2 DEF ClientGoes, DeadlinePasses, KeepAlive, Watchdog, Rearm, TimeOut, vars,
       attempt, signals
  <2>2. WalkShape'
    BY <2>1 DEF Shapes, WalkShape, walk, history
  <2>3. ErrorShape' /\ SentShape'
    BY <2>1 DEF Shapes, ErrorShape, SentShape, walk, history
  <2> QED  BY <2>2, <2>3 DEF Shapes
<1> QED  BY <1>1, <1>2 DEF Next

\* The variables keep their types.
THEOREM TypeCorrect == Spec => []TypeOK
<1>1. IInv /\ Blame /\ Shapes => TypeOK
  <2> SUFFICES ASSUME IInv, Blame, Shapes PROVE TypeOK
    OBVIOUS
  <2>1. pend \in [outcome : Outcomes, then : {"throw", "serve", "end"},
                  err : Errors \cup {Nothing}] \cup {Nothing}
    BY DEF Shapes, ErrorShape, Waits
  <2>2. /\ admitted \subseteq Members /\ settled \in [Members -> Seq(Outcomes)]
        /\ cause \in [Members -> Causes]
    BY DEF IInv, WalkTypes, Blame
  <2> QED  BY <2>1, <2>2 DEF TypeOK, Shapes, WalkShape, ErrorShape, SentShape, Results,
              Verdicts, Failure, Places
<1> QED  BY <1>1, Accounts, BlameInit, BlameNextStep, ShapesInit, ShapesNextStep, PTL DEF Spec
=============================================================================
