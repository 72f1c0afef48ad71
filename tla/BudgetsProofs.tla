---------------------------- MODULE BudgetsProofs ----------------------------
(***************************************************************************)
(* Proofs about Budgets, for any keys, jobs, requests, ceilings and         *)
(* overlapping occurrences.                                                 *)
(*                                                                         *)
(* The spend counters: the ledger only grows, so what an occurrence has     *)
(* read stays below it until it is written, however late (ReadsBehind); and *)
(* the script keeps the larger of two values.                               *)
(*                                                                         *)
(* The reservations: a pending total that is not blurred contains the        *)
(* ceiling of every job that holds its key.  The history variable counted    *)
(* says which ceilings the total contains, and each script changes the two   *)
(* alike; the invariant relates counted to the holders (RInv, below).        *)
(***************************************************************************)
EXTENDS Budgets, FoldTheorems

Occ == [at : OccStates, todo : Seq(Keys), value : Nat, rows : SUBSET Jobs, raced : BOOLEAN]

CounterTypes ==
  /\ ledger \in [Keys -> Nat] /\ spend \in [Keys -> Nat]
  /\ row \in [Jobs -> Rows]
  /\ occ \in [Occurrences -> Occ]

\* An occurrence works on the first of the keys it has left, and holds no
\* more than the ledger has.
ReadsBehind ==
  \A o \in Occurrences :
    /\ occ[o].at \in {"readSpend", "writeSpend", "readPending", "writePending"} =>
         occ[o].todo # <<>>
    /\ occ[o].at = "writeSpend" => occ[o].value <= ledger[Head(occ[o].todo)]

IInv == CounterTypes /\ ReadsBehind /\ SpendIsBacked

-----------------------------------------------------------------------------
LEMMA InitIInv == Init => IInv
BY BudgetAssumption DEF Init, IInv, CounterTypes, Occ, OccStates, ReadsBehind, SpendIsBacked,
   Waiting, Rows

\* Going on to the next keys of a list keeps the types.
LEMMA GoOnType ==
  ASSUME NEW s \in Seq(Keys)
  PROVE  /\ GoOn(s) \in Occ
         /\ GoOn(s).at = (IF s = <<>> THEN "stamp" ELSE "readSpend")
         /\ GoOn(s).todo = s
BY DEF GoOn, Occ, OccStates, Waiting

\* What metering a cost does to the ledger.
LEMMA MeteredGrows ==
  ASSUME CounterTypes, NEW x, NEW c \in Nat
  PROVE  Metered(x, c) \in [Keys -> Nat] /\ \A k \in Keys : Metered(x, c)[k] >= ledger[k]
BY DEF CounterTypes, Metered

\* A growing ledger breaks nothing that was read from it.
LEMMA LedgerKeeps ==
  ASSUME IInv, ledger' \in [Keys -> Nat], \A k \in Keys : ledger'[k] >= ledger[k],
         row' \in [Jobs -> Rows], UNCHANGED <<spend, occ>>
  PROVE  IInv'
<1>1. CounterTypes'
  BY DEF IInv, CounterTypes
<1>2. ReadsBehind'
  <2>1. \A o \in Occurrences : occ[o].todo # <<>> => Head(occ[o].todo) \in Keys
    BY DEF IInv, CounterTypes, Occ
  <2>2. \A o \in Occurrences : occ[o].value \in Nat
    BY DEF IInv, CounterTypes, Occ
  <2>3. QED BY <2>1, <2>2 DEF IInv, CounterTypes, ReadsBehind
<1>3. SpendIsBacked'
  BY DEF IInv, CounterTypes, SpendIsBacked
<1>4. QED BY <1>1, <1>2, <1>3 DEF IInv

\* A submission, a poller or a request leaves the reconciler alone, except
\* that an insert marks what it holds as raced.
LEMMA JobKeeps ==
  ASSUME IInv, NEW j \in Jobs,
         \/ Insert(j) \/ SubmitStep(j) \/ AbandonSubmit(j)
         \/ \E c \in Costs : Record(j, c)
         \/ Finish(j) \/ ReleaseFinished(j)
  PROVE  IInv'
<1>1. CASE Insert(j)
  <2>1. CounterTypes'
    <3>1. row' \in [Jobs -> Rows]
      BY <1>1 DEF Insert, IInv, CounterTypes, Rows
    <3>2. occ' \in [Occurrences -> Occ]
      BY <1>1 DEF Insert, IInv, CounterTypes, Occ
    <3>3. QED BY <1>1, <3>1, <3>2 DEF Insert, redis, IInv, CounterTypes
  <2>2. \A o \in Occurrences : /\ occ'[o].at = occ[o].at /\ occ'[o].todo = occ[o].todo
                               /\ occ'[o].value = occ[o].value
    BY <1>1 DEF Insert, IInv, CounterTypes, Occ
  <2>3. ReadsBehind' /\ SpendIsBacked'
    BY <1>1, <2>2 DEF Insert, redis, IInv, ReadsBehind, SpendIsBacked
  <2>4. QED BY <2>1, <2>3 DEF IInv
<1>2. CASE \E c \in Costs : Record(j, c)
  <2>1. PICK c \in Costs : Record(j, c)
    BY <1>2
  <2>2. c \in Nat
    BY BudgetAssumption
  <2>3. row' \in [Jobs -> Rows]
    BY <2>1 DEF Record, IInv, CounterTypes, Rows
  <2>4. QED BY <2>1, <2>2, <2>3, MeteredGrows, LedgerKeeps DEF Record, IInv, redis
<1>3. CASE SubmitStep(j) \/ AbandonSubmit(j) \/ Finish(j) \/ ReleaseFinished(j)
  <2>1. UNCHANGED <<ledger, spend, occ>>
    BY <1>3 DEF SubmitStep, AbandonSubmit, Finish, ReleaseFinished, Reserve, ReserveFault,
       RollBack, EndReserve, Create, ReleaseRejected, redis
  <2>2. row' \in [Jobs -> Rows]
    BY <1>3 DEF SubmitStep, AbandonSubmit, Finish, ReleaseFinished, Reserve, ReserveFault,
       RollBack, EndReserve, Create, ReleaseRejected, IInv, CounterTypes, Rows
  <2>3. QED BY <2>1, <2>2, LedgerKeeps DEF IInv, CounterTypes
<1>4. QED BY <1>1, <1>2, <1>3

LEMMA RequestKeeps ==
  ASSUME IInv, NEW r \in Requests, Check(r) \/ CheckFault(r) \/ \E c \in Costs : Log(r, c)
  PROVE  IInv'
<1>1. CASE Check(r) \/ CheckFault(r)
  BY <1>1, LedgerKeeps DEF Check, CheckFault, redis, jobs, IInv, CounterTypes
<1>2. CASE \E c \in Costs : Log(r, c)
  <2>1. PICK c \in Costs : Log(r, c)
    BY <1>2
  <2>2. ledger' \in [Keys -> Nat] /\ \A k \in Keys : ledger'[k] >= ledger[k]
    BY <2>1, BudgetAssumption, MeteredGrows DEF Log, IInv
  <2>3. UNCHANGED <<row, spend, occ>>
    BY <2>1 DEF Log, redis, jobs
  <2> QED  BY <2>2, <2>3, LedgerKeeps DEF IInv, CounterTypes
<1>3. QED BY <1>1, <1>2

\* The reconciler's own steps.
LEMMA ReconcileKeeps ==
  ASSUME IInv, NEW o \in Occurrences, Reconcile(o) \/ AbortOccurrence(o)
  PROVE  IInv' /\ \A k \in Keys : spend'[k] >= spend[k]
<1> DEFINE k == Head(occ[o].todo)
<1>1. UNCHANGED <<ledger, row>>
  BY DEF Reconcile, Start, ReadSpend, WriteSpend, ReadPending, WritePending, Stamp,
     AbortOccurrence, jobs
<1>2. occ[o] \in Occ /\ (occ[o].todo # <<>> => k \in Keys /\ Tail(occ[o].todo) \in Seq(Keys))
  BY DEF IInv, CounterTypes, Occ
<1>3. Waiting \in Occ /\ Waiting.at = "idle"
  BY DEF Waiting, Occ, OccStates
<1>4. /\ occ' = [occ EXCEPT ![o] = occ'[o]] /\ occ'[o] \in Occ
      /\ occ'[o].at \in {"readSpend", "writeSpend", "readPending", "writePending"} =>
           occ'[o].todo # <<>>
      /\ occ'[o].at = "writeSpend" => occ'[o].value <= ledger[Head(occ'[o].todo)]
  <2>1. CASE Start(o)
    BY <2>1, GoOnType, BudgetAssumption DEF Start, IInv, CounterTypes
  <2>2. CASE ReadSpend(o)
    <3>1. ledger[k] \in Nat
      BY <1>2, <2>2 DEF ReadSpend, IInv, CounterTypes, ReadsBehind
    <3>2. occ'[o] = [at |-> "writeSpend", todo |-> occ[o].todo, value |-> ledger[k],
                     rows |-> occ[o].rows, raced |-> occ[o].raced]
      BY <1>2, <2>2 DEF ReadSpend, IInv, CounterTypes, Occ
    <3>3. occ' = [occ EXCEPT ![o] = occ'[o]]
      BY <2>2 DEF ReadSpend, IInv, CounterTypes
    <3>4. occ[o].todo # <<>>
      BY <2>2 DEF ReadSpend, IInv, ReadsBehind
    <3>5. QED BY <1>2, <3>1, <3>2, <3>3, <3>4 DEF Occ, OccStates
  <2>3. CASE WriteSpend(o)
    <3>1. occ'[o] = [at |-> "readPending", todo |-> occ[o].todo, value |-> 0,
                     rows |-> occ[o].rows, raced |-> occ[o].raced]
      BY <1>2, <2>3 DEF WriteSpend, IInv, CounterTypes, Occ
    <3>2. occ' = [occ EXCEPT ![o] = occ'[o]]
      BY <2>3 DEF WriteSpend, IInv, CounterTypes
    <3>3. occ[o].todo # <<>>
      BY <2>3 DEF WriteSpend, IInv, ReadsBehind
    <3>4. QED BY <1>2, <3>1, <3>2, <3>3 DEF Occ, OccStates
  <2>4. CASE ReadPending(o)
    <3>1. occ'[o] = [occ[o] EXCEPT !.at = "writePending", !.raced = FALSE,
                                   !.rows = PendingRows(k)]
      BY <2>4 DEF ReadPending, IInv, CounterTypes
    <3>2. occ' = [occ EXCEPT ![o] = occ'[o]]
      BY <2>4 DEF ReadPending, IInv, CounterTypes
    <3>3. occ[o].todo # <<>>
      BY <2>4 DEF ReadPending, IInv, ReadsBehind
    <3>4. PendingRows(k) \in SUBSET Jobs
      BY DEF PendingRows
    <3>5. QED BY <1>2, <3>1, <3>2, <3>3, <3>4 DEF Occ, OccStates
  <2>5. CASE WritePending(o)
    <3>1. occ[o].todo # <<>>
      BY <2>5 DEF WritePending, IInv, ReadsBehind
    <3>2. QED BY <1>2, <2>5, <3>1, GoOnType DEF WritePending, IInv, CounterTypes
  <2>6. CASE Stamp(o) \/ AbortOccurrence(o)
    BY <1>3, <2>6 DEF Stamp, AbortOccurrence, IInv, CounterTypes
  <2>7. QED BY <2>1, <2>2, <2>3, <2>4, <2>5, <2>6 DEF Reconcile
<1>5. /\ spend' \in [Keys -> Nat]
      /\ \A q \in Keys : spend'[q] >= spend[q] /\ spend'[q] <= ledger[q]
  <2>1. CASE WriteSpend(o)
    <3>1. occ[o].value \in Nat /\ occ[o].value <= ledger[k] /\ k \in Keys
      BY <1>2, <2>1 DEF WriteSpend, IInv, ReadsBehind, Occ
    <3>2. spend' = [spend EXCEPT ![k] = Raised(spend[k], occ[o].value)]
      BY <2>1 DEF WriteSpend
    <3>3. QED BY <3>1, <3>2 DEF IInv, CounterTypes, SpendIsBacked, Raised
  <2>2. CASE ~ WriteSpend(o)
    <3>1. spend' = spend
      BY <2>2 DEF Reconcile, Start, ReadSpend, ReadPending, WritePending, Stamp,
         AbortOccurrence, redis
    <3>2. QED BY <3>1 DEF IInv, CounterTypes, SpendIsBacked
  <2>3. QED BY <2>1, <2>2
<1>6. CounterTypes' /\ ReadsBehind'
  <2>1. \A p \in Occurrences \ {o} : occ'[p] = occ[p]
    BY <1>4 DEF IInv, CounterTypes
  <2>2. QED BY <1>1, <1>4, <1>5, <2>1 DEF IInv, CounterTypes, ReadsBehind
<1>7. QED BY <1>1, <1>5, <1>6 DEF IInv, SpendIsBacked

-----------------------------------------------------------------------------
\* The step of the invariant, and what it says of the counters.
LEMMA NextIInv ==
  ASSUME IInv, [Next]_vars
  PROVE  IInv' /\ \A k \in Keys : spend'[k] >= spend[k]
<1>1. ASSUME UNCHANGED <<ledger, spend, row, occ>>
      PROVE  IInv' /\ \A k \in Keys : spend'[k] >= spend[k]
  BY <1>1 DEF IInv, CounterTypes, ReadsBehind, SpendIsBacked
<1>2. ASSUME UNCHANGED spend PROVE \A k \in Keys : spend'[k] >= spend[k]
  BY <1>2 DEF IInv, CounterTypes
<1>3. ASSUME NEW j \in Jobs,
             \/ Insert(j) \/ SubmitStep(j) \/ AbandonSubmit(j)
             \/ \E c \in Costs : Record(j, c)
             \/ Finish(j) \/ ReleaseFinished(j)
      PROVE  UNCHANGED spend
  BY <1>3 DEF SubmitStep, AbandonSubmit, Finish, ReleaseFinished, Reserve, ReserveFault,
     RollBack, EndReserve, Create, ReleaseRejected, Insert, Record, redis
<1>4. ASSUME NEW r \in Requests, Check(r) \/ CheckFault(r) \/ \E c \in Costs : Log(r, c)
      PROVE  UNCHANGED spend
  BY <1>4 DEF Check, CheckFault, Log, redis
<1>5. CASE GoStale \/ UNCHANGED vars
  BY <1>1, <1>5 DEF GoStale, vars, redis, jobs
<1>6. QED BY <1>2, <1>3, <1>4, <1>5, JobKeeps, RequestKeeps, ReconcileKeeps DEF Next

\* Whatever occurrences overlap, repeat, abort or write late, no counter
\* exceeds the ledger.
THEOREM CounterBacked == Spec => []SpendIsBacked
<1>1. IInv => SpendIsBacked BY DEF IInv
<1>2. IInv /\ [Next]_vars => IInv' BY NextIInv
<1>3. QED BY InitIInv, <1>1, <1>2, PTL DEF Spec

\* No step lowers a counter.
THEOREM CounterMonotone == Spec => SpendNeverFalls
<1>1. IInv /\ [Next]_vars => IInv' BY NextIInv
<1>2. IInv /\ [Next]_vars => [\A k \in Keys : spend'[k] >= spend[k]]_vars BY NextIInv
<1>3. QED BY InitIInv, <1>1, <1>2, PTL DEF Spec, SpendNeverFalls
-----------------------------------------------------------------------------
(* The reservations.  A pending total that is not blurred covers the jobs it *)
(* counts, and counts every job that holds its key (TotalsCover): a key is    *)
(* reserved once by a job and given up before it is released, or with the     *)
(* row (JobFits); and what a reconciler has read is not behind the rows, or   *)
(* it is marked as raced (ReadsCover).                                        *)

JobFits(j) ==
  /\ submit[j] = "idle" => row[j] = "none"
  /\ submit[j] \in {"reserving", "rejected", "faulted", "creating"} => row[j] = "submitting"
  /\ submit[j] = "releasing" => row[j] = "terminal"
  /\ row[j] = "none" => held[j] = <<>> /\ submit[j] = "idle"
  /\ poll[j] # <<>> => row[j] = "terminal"
  /\ Range(held[j]) \subseteq Applies(j) /\ IsInjective(held[j])
  /\ submit[j] = "reserving" =>
       /\ Range(todo[j]) \subseteq Applies(j) /\ IsInjective(todo[j])
       /\ Range(todo[j]) \cap Range(held[j]) = {}

ReadsCover ==
  \A o \in Occurrences : occ[o].at = "writePending" /\ ~ occ[o].raced =>
    PendingRows(Head(occ[o].todo)) \subseteq occ[o].rows

TotalsCover ==
  \A k \in Keys : ~ blurred[k] =>
    Holders(k) \subseteq counted[k] /\ pending[k] >= Total(counted[k])

RInv == TypeOK /\ (\A j \in Jobs : JobFits(j)) /\ ReadsCover /\ TotalsCover

\* The first of a list of keys, and the others.
LEMMA TailKeys ==
  ASSUME NEW s \in Seq(Keys), s # <<>>
  PROVE  /\ Head(s) \in Keys /\ Tail(s) \in Seq(Keys) /\ Head(s) \in Range(s)
         /\ Range(Tail(s)) \subseteq Range(s)
         /\ IsInjective(s) => IsInjective(Tail(s)) /\ Head(s) \notin Range(Tail(s))
<1>1. /\ Len(s) \in Nat \ {0} /\ Head(s) = s[1] /\ DOMAIN s = 1 .. Len(s)
      /\ Tail(s) \in Seq(Keys) /\ Len(Tail(s)) = Len(s) - 1
      /\ DOMAIN Tail(s) = 1 .. Len(s) - 1
      /\ \A i \in 1 .. Len(s) - 1 : Tail(s)[i] = s[i + 1]
  OBVIOUS
<1>2. Head(s) \in Keys /\ Head(s) \in Range(s)
  BY <1>1 DEF Range
<1>3. Range(Tail(s)) \subseteq Range(s)
  BY <1>1 DEF Range
<1>4. ASSUME IsInjective(s) PROVE IsInjective(Tail(s)) /\ Head(s) \notin Range(Tail(s))
  <2>1. \A a, b \in 1 .. Len(s) : s[a] = s[b] => a = b
    BY <1>1, <1>4 DEF IsInjective
  <2>2. \A a, b \in 1 .. Len(s) - 1 : Tail(s)[a] = Tail(s)[b] => a = b
    BY <1>1, <2>1
  <2>3. \A a \in 1 .. Len(s) - 1 : Tail(s)[a] # s[1]
    BY <1>1, <2>1
  <2> QED  BY <1>1, <2>2, <2>3 DEF IsInjective, Range
<1> QED  BY <1>1, <1>2, <1>3, <1>4

\* A list of keys that gets one more.
LEMMA AppendKeys ==
  ASSUME NEW s \in Seq(Keys), NEW k \in Keys
  PROVE  /\ Append(s, k) \in Seq(Keys) /\ Range(Append(s, k)) = Range(s) \cup {k}
         /\ IsInjective(s) /\ k \notin Range(s) => IsInjective(Append(s, k))
<1> DEFINE t == Append(s, k)
<1>1. /\ Len(s) \in Nat /\ DOMAIN s = 1 .. Len(s)
      /\ t \in Seq(Keys) /\ DOMAIN t = 1 .. Len(s) + 1
      /\ \A i \in 1 .. Len(s) : t[i] = s[i]
      /\ t[Len(s) + 1] = k
  OBVIOUS
<1> HIDE DEF t
<1>2. Range(t) = Range(s) \cup {k}
  <2>1. Range(t) \subseteq Range(s) \cup {k}
    BY <1>1 DEF Range
  <2>2. Range(s) \subseteq Range(t)
    BY <1>1 DEF Range
  <2>3. Len(s) + 1 \in DOMAIN t
    BY <1>1
  <2>4. k \in Range(t)
    BY <1>1, <2>3 DEF Range
  <2> QED  BY <2>1, <2>2, <2>4
<1>3. ASSUME IsInjective(s), k \notin Range(s) PROVE IsInjective(t)
  <2>1. \A a, b \in 1 .. Len(s) : s[a] = s[b] => a = b
    BY <1>1, <1>3 DEF IsInjective
  <2>2. \A a \in 1 .. Len(s) : s[a] # k
    BY <1>1, <1>3 DEF Range
  <2> SUFFICES ASSUME NEW a \in 1 .. Len(s) + 1, NEW b \in 1 .. Len(s) + 1, t[a] = t[b]
               PROVE  a = b
    BY <1>1 DEF IsInjective
  <2> QED  BY <1>1, <2>1, <2>2
<1> QED  BY <1>1, <1>2, <1>3 DEF t

\* Totals of ceilings.
LEMMA TotalFacts ==
  ASSUME NEW S \in SUBSET Jobs
  PROVE  /\ Total(S) \in Nat
         /\ \A T \in SUBSET S : Total(T) <= Total(S)
         /\ \A j \in Jobs \ S : Total(S \cup {j}) = Total(S) + Ceiling[j]
         /\ \A j \in S : Total(S \ {j}) = Total(S) - Ceiling[j]
<1>1. \A T : Total(T) = SumOf(Ceiling, T)
  BY DEF Total, SumOf
<1>2. IsFiniteSet(S) /\ \A x \in Jobs : Ceiling[x] \in Nat
  BY BudgetAssumption, FS_Subset
<1>3. SumOf(Ceiling, S) \in Nat
  BY <1>2, SumType
<1>4. \A T \in SUBSET S : SumOf(Ceiling, T) <= SumOf(Ceiling, S)
  BY <1>2, SumGrows
<1>5. \A j \in Jobs \ S : SumOf(Ceiling, S \cup {j}) = SumOf(Ceiling, S) + Ceiling[j]
  BY <1>2, SumAdds
<1>6. \A j \in S : SumOf(Ceiling, S \ {j}) = SumOf(Ceiling, S) - Ceiling[j]
  <2> TAKE j \in S
  <2>1. SumOf(Ceiling, S) = Ceiling[j] + SumOf(Ceiling, S \ {j})
    BY <1>2, SumRemoves
  <2>2. SumOf(Ceiling, S \ {j}) \in Nat
    <3>1. IsFiniteSet(S \ {j})
      BY <1>2, FS_Subset
    <3> QED  BY <1>2, <3>1, SumType
  <2> QED  BY <1>2, <1>3, <2>1, <2>2
<1> QED  BY <1>1, <1>3, <1>4, <1>5, <1>6

\* Nothing is reserved or released, and nobody becomes a holder.
LEMMA UntouchedCovers ==
  ASSUME TotalsCover, Untouched, \A k \in Keys : Holders(k)' \subseteq Holders(k)
  PROVE  TotalsCover'
BY DEF TotalsCover, Untouched, history

\* A key is reserved: its total grows by the ceiling of the new holder.
LEMMA ReservedCovers ==
  ASSUME TypeOK, TotalsCover, NEW j \in Jobs, NEW k \in Keys, Reserved(j, k),
         \A q \in Keys \ {k} : Holders(q)' \subseteq Holders(q),
         Holders(k)' \subseteq Holders(k) \cup {j}
  PROVE  /\ TotalsCover'
         /\ pending' \in [Keys -> Nat] /\ counted' \in [Keys -> SUBSET Jobs]
         /\ blurred' \in [Keys -> BOOLEAN]
<1>1. /\ pending \in [Keys -> Nat] /\ counted \in [Keys -> SUBSET Jobs]
      /\ blurred \in [Keys -> BOOLEAN] /\ Ceiling[j] \in Nat
  BY BudgetAssumption DEF TypeOK
<1>2. /\ pending'[k] = pending[k] + Ceiling[j] /\ counted'[k] = counted[k] \cup {j}
      /\ \A q \in Keys \ {k} : pending'[q] = pending[q] /\ counted'[q] = counted[q]
      /\ blurred' = blurred
  BY <1>1 DEF Reserved
<1>3. Total(counted'[k]) <= Total(counted[k]) + Ceiling[j]
  <2>1. counted[k] \in SUBSET Jobs
    BY <1>1
  <2>2. Total(counted[k]) \in Nat
    BY <2>1, TotalFacts
  <2>3. CASE j \in counted[k]
    <3>1. counted'[k] = counted[k]
      BY <1>2, <2>3
    <3> QED  BY <1>1, <2>2, <3>1
  <2>4. CASE j \notin counted[k]
    <3>1. Total(counted[k] \cup {j}) = Total(counted[k]) + Ceiling[j]
      BY <2>1, <2>4, TotalFacts
    <3> QED  BY <1>1, <1>2, <2>2, <3>1
  <2> QED  BY <2>3, <2>4
<1>4. \A q \in Keys : Total(counted[q]) \in Nat /\ Total(counted'[q]) \in Nat
  <2> TAKE q \in Keys
  <2>1. counted[q] \in SUBSET Jobs /\ counted'[q] \in SUBSET Jobs
    BY <1>1, <1>2
  <2> QED  BY <2>1, TotalFacts
<1>5. TotalsCover'
  <2> SUFFICES ASSUME NEW q \in Keys, ~ blurred[q]
               PROVE  Holders(q)' \subseteq counted'[q] /\ pending'[q] >= Total(counted'[q])
    BY <1>2 DEF TotalsCover
  <2>1. Holders(q) \subseteq counted[q] /\ pending[q] >= Total(counted[q])
    BY DEF TotalsCover
  <2>2. CASE q = k
    <3> DEFINE old == Total(counted[k])
              new == Total(counted'[k])
    <3>1. old \in Nat /\ new \in Nat /\ new <= old + Ceiling[j]
      BY <1>3, <1>4
    <3>2. pending[k] >= old /\ pending[k] \in Nat
      BY <1>1, <2>1, <2>2
    <3> HIDE DEF old, new
    <3>3. pending'[k] >= new
      BY <1>1, <1>2, <3>1, <3>2
    <3>4. Holders(k)' \subseteq counted'[k]
      BY <1>2, <2>1, <2>2
    <3> QED  BY <2>2, <3>3, <3>4 DEF new
  <2>3. CASE q # k
    BY <1>2, <2>1, <2>3
  <2> QED  BY <2>2, <2>3
<1>6. /\ pending' \in [Keys -> Nat] /\ counted' \in [Keys -> SUBSET Jobs]
      /\ blurred' \in [Keys -> BOOLEAN]
  BY <1>1 DEF Reserved
<1> QED  BY <1>5, <1>6

\* A key is released by a job that no longer holds it.  The release of a job the
\* total does not contain blurs the total.
LEMMA ReleasedCovers ==
  ASSUME TypeOK, TotalsCover, NEW j \in Jobs, NEW k \in Keys, Released(j, k),
         \A q \in Keys : Holders(q)' \subseteq Holders(q), j \notin Holders(k)'
  PROVE  /\ TotalsCover'
         /\ pending' \in [Keys -> Nat] /\ counted' \in [Keys -> SUBSET Jobs]
         /\ blurred' \in [Keys -> BOOLEAN]
<1>1. /\ pending \in [Keys -> Nat] /\ counted \in [Keys -> SUBSET Jobs]
      /\ blurred \in [Keys -> BOOLEAN] /\ Ceiling[j] \in Nat
  BY BudgetAssumption DEF TypeOK
<1>2. /\ pending'[k] = Lowered(pending[k], Ceiling[j]) /\ counted'[k] = counted[k] \ {j}
      /\ blurred'[k] <=> blurred[k] \/ j \notin counted[k]
      /\ \A q \in Keys \ {k} : /\ pending'[q] = pending[q] /\ counted'[q] = counted[q]
                               /\ blurred'[q] = blurred[q]
  BY <1>1 DEF Released
<1>3. TotalsCover'
  <2> SUFFICES ASSUME NEW q \in Keys, ~ blurred'[q]
               PROVE  Holders(q)' \subseteq counted'[q] /\ pending'[q] >= Total(counted'[q])
    BY DEF TotalsCover
  <2>1. ~ blurred[q]
    BY <1>2
  <2>2. Holders(q) \subseteq counted[q] /\ pending[q] >= Total(counted[q])
    BY <2>1 DEF TotalsCover
  <2>3. CASE q = k
    <3>1. j \in counted[k] /\ counted[k] \in SUBSET Jobs
      BY <1>1, <1>2, <2>3
    <3> DEFINE S == counted[k]
    <3> HIDE DEF S
    <3>2. Total(S) \in Nat /\ Total(S \ {j}) = Total(S) - Ceiling[j] /\ Total(S \ {j}) \in Nat
      <4>1. S \in SUBSET Jobs /\ j \in S /\ S \ {j} \in SUBSET Jobs
        BY <3>1 DEF S
      <4> QED  BY <4>1, TotalFacts
    <3>3. pending[k] >= Total(S) /\ counted'[k] = S \ {j}
      BY <1>2, <2>2, <2>3 DEF S
    <3>4. Holders(q)' \subseteq counted'[q]
      BY <1>2, <2>2, <2>3
    <3> DEFINE new == Total(S \ {j})
               old == Total(S)
    <3>5. new = old - Ceiling[j] /\ new \in Nat /\ old \in Nat
      BY <3>2
    <3>6. pending[k] >= old
      BY <3>3
    <3> HIDE DEF new, old
    <3>7. pending'[k] >= new
      BY <1>1, <1>2, <3>5, <3>6 DEF Lowered
    <3> QED  BY <2>3, <3>3, <3>4, <3>7 DEF new
  <2>4. CASE q # k
    BY <1>2, <2>2, <2>4
  <2> QED  BY <2>3, <2>4
<1>4. /\ pending' \in [Keys -> Nat] /\ counted' \in [Keys -> SUBSET Jobs]
      /\ blurred' \in [Keys -> BOOLEAN]
  <2>1. Lowered(pending[k], Ceiling[j]) \in Nat
    BY <1>1 DEF Lowered
  <2> QED  BY <1>1, <2>1 DEF Released
<1> QED  BY <1>3, <1>4
-----------------------------------------------------------------------------
(* The steps of a job. *)

SubmitStates == {"idle", "reserving", "rejected", "faulted", "creating", "releasing", "over"}

JobTypes ==
  /\ row \in [Jobs -> Rows] /\ submit \in [Jobs -> SubmitStates]
  /\ held \in [Jobs -> Seq(Keys)] /\ todo \in [Jobs -> Seq(Keys)]
  /\ poll \in [Jobs -> Seq(Keys)]

TotalTypes ==
  /\ pending \in [Keys -> Nat] /\ counted \in [Keys -> SUBSET Jobs]
  /\ blurred \in [Keys -> BOOLEAN]

OtherTypes ==
  /\ ledger \in [Keys -> Nat] /\ spend \in [Keys -> Nat] /\ fresh \in BOOLEAN
  /\ req \in [Requests -> {"new", "admitted", "unchecked", "over"}]
  /\ faults \in 0 .. MaxFaults

LEMMA TypeParts == TypeOK <=> JobTypes /\ TotalTypes /\ OtherTypes /\ occ \in [Occurrences -> Occ]
BY DEF TypeOK, JobTypes, TotalTypes, OtherTypes, Occ, SubmitStates

Alone(j) ==
  \A i \in Jobs \ {j} : /\ row'[i] = row[i] /\ submit'[i] = submit[i] /\ held'[i] = held[i]
                        /\ todo'[i] = todo[i] /\ poll'[i] = poll[i]

\* A step of one job that is consistent, takes up no key and starts no row.
Recedes(j) ==
  /\ JobTypes' /\ Alone(j) /\ JobFits(j)'
  /\ row'[j] \in Live => row[j] \in Live
  /\ Range(held'[j]) \subseteq Range(held[j])

LEMMA JobsKeep ==
  ASSUME \A i \in Jobs : JobFits(i), NEW j \in Jobs, Alone(j), JobFits(j)'
  PROVE  \A i \in Jobs : JobFits(i)'
<1> SUFFICES ASSUME NEW i \in Jobs \ {j} PROVE JobFits(i)'
  OBVIOUS
<1>1. /\ row'[i] = row[i] /\ submit'[i] = submit[i] /\ held'[i] = held[i]
      /\ todo'[i] = todo[i] /\ poll'[i] = poll[i]
  BY DEF Alone
<1>2. JobFits(i)
  OBVIOUS
<1> QED  BY <1>1, <1>2 DEF JobFits

\* Such a step leaves every key with the holders it had, or fewer.
LEMMA RecedesShrinks ==
  ASSUME NEW j \in Jobs, Recedes(j), NEW k
  PROVE  Holders(k)' \subseteq Holders(k) /\ PendingRows(k)' \subseteq PendingRows(k)
<1>1. \A i \in Jobs : row'[i] \in Live => row[i] \in Live
  BY DEF Recedes, Alone
<1>2. \A i \in Jobs : k \in Range(held'[i]) => k \in Range(held[i])
  BY DEF Recedes, Alone
<1> QED  BY <1>1, <1>2 DEF Holders, PendingRows

\* What has been read stays ahead of rows that only end.
LEMMA ReadsKeep ==
  ASSUME ReadsCover, UNCHANGED occ, \A k : PendingRows(k)' \subseteq PendingRows(k)
  PROVE  ReadsCover'
<1> SUFFICES ASSUME NEW o \in Occurrences, occ[o].at = "writePending", ~ occ[o].raced
             PROVE  PendingRows(Head(occ[o].todo))' \subseteq occ[o].rows
  BY DEF ReadsCover
<1>1. PendingRows(Head(occ[o].todo)) \subseteq occ[o].rows
  BY DEF ReadsCover
<1>2. PendingRows(Head(occ[o].todo))' \subseteq PendingRows(Head(occ[o].todo))
  OBVIOUS
<1> QED  BY <1>1, <1>2

\* A job's step that recedes, and does to the totals what they bear.
LEMMA RecedeKeeps ==
  ASSUME RInv, NEW j \in Jobs, Recedes(j), UNCHANGED occ, OtherTypes',
         TotalTypes', TotalsCover'
  PROVE  RInv'
<1>1. \A i \in Jobs : JobFits(i)'
  BY JobsKeep DEF RInv, Recedes
<1>2. ReadsCover'
  BY RecedesShrinks, ReadsKeep DEF RInv
<1>3. TypeOK'
  <2>1. occ' \in [Occurrences -> Occ]
    BY TypeParts DEF RInv
  <2> QED  BY <2>1 DEF Recedes, TypeOK, JobTypes, TotalTypes, OtherTypes, Occ, SubmitStates
<1> QED  BY <1>1, <1>2, <1>3 DEF RInv

\* A step that also leaves the totals alone.
LEMMA RecedeUntouched ==
  ASSUME RInv, NEW j \in Jobs, Recedes(j), UNCHANGED occ, OtherTypes', Untouched
  PROVE  RInv'
<1>1. TotalTypes'
  BY TypeParts DEF RInv, TotalTypes, Untouched, history
<1>2. TotalsCover'
  BY RecedesShrinks, UntouchedCovers DEF RInv
<1> QED  BY <1>1, <1>2, RecedeKeeps

\* A step that releases a key the job has given up.
LEMMA RecedeReleased ==
  ASSUME RInv, NEW j \in Jobs, Recedes(j), UNCHANGED occ, OtherTypes',
         NEW k \in Keys, Released(j, k), row'[j] \notin Live \/ k \notin Range(held'[j])
  PROVE  RInv'
<1>1. j \notin Holders(k)'
  BY DEF Holders
<1>2. TotalsCover' /\ TotalTypes'
  <2>1. \A q \in Keys : Holders(q)' \subseteq Holders(q)
    BY RecedesShrinks
  <2> QED  BY <1>1, <2>1, ReleasedCovers DEF RInv, TotalTypes
<1> QED  BY <1>2, RecedeKeeps

\* A fault, or none, is counted.
LEMMA FaultsKeep ==
  ASSUME OtherTypes, Fault \/ UNCHANGED faults, UNCHANGED <<ledger, spend, fresh, req>>
  PROVE  OtherTypes'
<1>1. faults' \in 0 .. MaxFaults
  BY BudgetAssumption DEF OtherTypes, Fault
<1> QED  BY <1>1 DEF OtherTypes

\* The loop over the keys ended, or the process died.
LEMMA EndReserveKeeps ==
  ASSUME RInv, NEW j \in Jobs, EndReserve(j) \/ AbandonSubmit(j)
  PROVE  RInv'
<1>1. JobTypes /\ OtherTypes /\ JobFits(j)
  BY TypeParts DEF RInv
<1>2. UNCHANGED <<ledger, spend, fresh, req, held, todo, poll, occ>> /\ Untouched
  BY DEF EndReserve, AbandonSubmit, redis, Untouched
<1>3. OtherTypes'
  BY <1>1, <1>2, FaultsKeep DEF EndReserve, AbandonSubmit
<1>4. JobTypes' /\ Alone(j)
  BY <1>1, <1>2 DEF EndReserve, AbandonSubmit, JobTypes, Alone, Rows, SubmitStates
<1>5. JobFits(j)' /\ (row'[j] \in Live => row[j] \in Live)
  BY <1>1, <1>2 DEF EndReserve, AbandonSubmit, JobTypes, JobFits, Live
<1> QED  BY <1>2, <1>3, <1>4, <1>5, RecedeUntouched DEF Recedes

\* The upstream's answer.
LEMMA CreateKeeps ==
  ASSUME RInv, NEW j \in Jobs, Create(j)
  PROVE  RInv'
<1>1. JobTypes /\ OtherTypes /\ JobFits(j)
  BY TypeParts DEF RInv
<1>2. UNCHANGED <<ledger, spend, fresh, req, held, poll, occ, faults>> /\ Untouched
  BY DEF Create, redis, Untouched
<1>3. OtherTypes'
  BY <1>1, <1>2, FaultsKeep
<1>4. JobTypes' /\ Alone(j)
  <2>1. held[j] \in Seq(Keys)
    BY <1>1 DEF JobTypes
  <2>2. /\ row' \in [Jobs -> Rows] /\ submit' \in [Jobs -> SubmitStates]
        /\ \A i \in Jobs \ {j} : row'[i] = row[i] /\ submit'[i] = submit[i]
    BY <1>1 DEF Create, JobTypes, Rows, SubmitStates
  <2>3. todo' \in [Jobs -> Seq(Keys)] /\ \A i \in Jobs \ {j} : todo'[i] = todo[i]
    BY <1>1, <2>1 DEF Create, JobTypes
  <2> QED  BY <1>1, <1>2, <2>2, <2>3 DEF JobTypes, Alone
<1>5. JobFits(j)' /\ (row'[j] \in Live => row[j] \in Live)
  BY <1>1, <1>2 DEF Create, JobTypes, JobFits, Live
<1> QED  BY <1>2, <1>3, <1>4, <1>5, RecedeUntouched DEF Recedes

\* A key is taken, unless it does not fit.
LEMMA ReserveKeeps ==
  ASSUME RInv, NEW j \in Jobs, Reserve(j)
  PROVE  RInv'
<1>1. JobTypes /\ OtherTypes /\ JobFits(j) /\ TypeOK /\ TotalsCover
  BY TypeParts DEF RInv
<1>2. UNCHANGED <<ledger, spend, fresh, req, row, poll, occ, faults>>
  BY DEF Reserve
<1>3. OtherTypes'
  BY <1>1, <1>2, FaultsKeep
<1>4. /\ submit[j] = "reserving" /\ todo[j] \in Seq(Keys) /\ todo[j] # <<>>
      /\ held[j] \in Seq(Keys)
  BY <1>1 DEF Reserve, JobTypes
<1>5. CASE ~ Fits(j, Head(todo[j]))
  <2>1. /\ submit' = [submit EXCEPT ![j] = "rejected"]
        /\ Untouched /\ UNCHANGED <<held, todo>>
    BY <1>5 DEF Reserve
  <2>2. JobTypes' /\ Alone(j)
    BY <1>1, <1>2, <2>1 DEF JobTypes, Alone, SubmitStates
  <2>3. JobFits(j)'
    BY <1>1, <1>2, <1>4, <2>1 DEF JobTypes, JobFits
  <2> QED  BY <1>2, <1>3, <2>1, <2>2, <2>3, RecedeUntouched DEF Recedes
<1>6. CASE Fits(j, Head(todo[j]))
  <2>1. PICK k \in Keys : k = Head(todo[j])
    BY <1>4
  <2>2. /\ Reserved(j, k) /\ UNCHANGED submit
        /\ held' = [held EXCEPT ![j] = Append(held[j], k)]
        /\ todo' = [todo EXCEPT ![j] = Tail(todo[j])]
    BY <1>6, <2>1 DEF Reserve
  <2>3. /\ k \in Keys /\ Tail(todo[j]) \in Seq(Keys) /\ k \in Range(todo[j])
        /\ Range(Tail(todo[j])) \subseteq Range(todo[j])
        /\ IsInjective(todo[j]) => IsInjective(Tail(todo[j])) /\ k \notin Range(Tail(todo[j]))
    BY <1>4, <2>1, TailKeys
  <2>4. /\ Append(held[j], k) \in Seq(Keys) /\ Range(Append(held[j], k)) = Range(held[j]) \cup {k}
        /\ IsInjective(held[j]) /\ k \notin Range(held[j]) => IsInjective(Append(held[j], k))
    BY <1>4, <2>3, AppendKeys
  <2>5. JobTypes' /\ Alone(j)
    BY <1>1, <1>2, <2>2, <2>3, <2>4 DEF JobTypes, Alone
  <2>6. /\ Range(held'[j]) = Range(held[j]) \cup {k} /\ held'[j] = Append(held[j], k)
        /\ todo'[j] = Tail(todo[j])
    BY <1>1, <2>2, <2>4 DEF JobTypes
  <2>7. JobFits(j)'
    BY <1>1, <1>2, <1>4, <2>2, <2>3, <2>4, <2>6 DEF JobFits
  <2>8. \A i \in Jobs : JobFits(i)'
    BY <2>5, <2>7, JobsKeep DEF RInv
  <2>9. \A q \in Keys \ {k} : Holders(q)' \subseteq Holders(q)
    BY <1>2, <2>5, <2>6 DEF Holders, Alone
  <2>10. Holders(k)' \subseteq Holders(k) \cup {j}
    BY <1>2, <2>5 DEF Holders, Alone
  <2>11. TotalsCover' /\ TotalTypes'
    BY <1>1, <2>2, <2>3, <2>9, <2>10, ReservedCovers DEF TotalTypes
  <2>12. ReadsCover'
    BY <1>2, ReadsKeep DEF RInv, PendingRows
  <2>13. TypeOK'
    <3>1. occ' \in [Occurrences -> Occ]
      BY <1>2, TypeParts DEF RInv
    <3> QED  BY <1>3, <2>5, <2>11, <3>1
             DEF TypeOK, JobTypes, TotalTypes, OtherTypes, Occ, SubmitStates
  <2> QED  BY <2>8, <2>11, <2>12, <2>13 DEF RInv
<1> QED  BY <1>5, <1>6

\* A script that failed may have reserved a key the job will not hold.
LEMMA ReserveFaultKeeps ==
  ASSUME RInv, NEW j \in Jobs, ReserveFault(j)
  PROVE  RInv'
<1> DEFINE k == Head(todo[j])
<1>1. JobTypes /\ OtherTypes /\ JobFits(j) /\ TypeOK /\ TotalsCover
  BY TypeParts DEF RInv
<1>2. /\ UNCHANGED <<ledger, spend, fresh, req, row, held, todo, poll, occ>>
      /\ submit' = [submit EXCEPT ![j] = "faulted"]
  BY DEF ReserveFault
<1>3. OtherTypes'
  BY <1>1, <1>2, FaultsKeep DEF ReserveFault
<1>4. Recedes(j)
  <2>1. JobTypes' /\ Alone(j)
    BY <1>1, <1>2 DEF JobTypes, Alone, SubmitStates
  <2>2. JobFits(j)'
    BY <1>1, <1>2 DEF ReserveFault, JobTypes, JobFits
  <2> QED  BY <1>2, <2>1, <2>2 DEF Recedes
<1>5. CASE Untouched
  BY <1>2, <1>3, <1>4, <1>5, RecedeUntouched
<1>6. CASE Reserved(j, k)
  <2>1. k \in Keys
    BY <1>1, TailKeys DEF ReserveFault, JobTypes
  <2>2. \A q : Holders(q)' \subseteq Holders(q)
    BY <1>4, RecedesShrinks
  <2> HIDE DEF k
  <2>3. TotalsCover' /\ TotalTypes'
    BY <1>1, <1>6, <2>1, <2>2, ReservedCovers DEF TotalTypes
  <2> QED  BY <1>2, <1>3, <1>4, <2>3, RecedeKeeps
<1> QED  BY <1>5, <1>6 DEF ReserveFault

\* A key is given up, then released; a failing release is skipped.
LEMMA RollBackKeeps ==
  ASSUME RInv, NEW j \in Jobs, RollBack(j)
  PROVE  RInv'
<1> DEFINE k == Head(held[j])
<1>1. JobTypes /\ OtherTypes /\ JobFits(j)
  BY TypeParts DEF RInv
<1>2. /\ UNCHANGED <<ledger, spend, fresh, req, row, submit, todo, poll, occ>>
      /\ held' = [held EXCEPT ![j] = Tail(held[j])]
      /\ submit[j] \in {"rejected", "faulted"} /\ held[j] # <<>>
  BY DEF RollBack
<1>3. OtherTypes'
  BY <1>1, <1>2, FaultsKeep DEF RollBack
<1>4. /\ k \in Keys /\ Tail(held[j]) \in Seq(Keys)
      /\ Range(Tail(held[j])) \subseteq Range(held[j])
      /\ IsInjective(Tail(held[j])) /\ k \notin Range(Tail(held[j]))
  BY <1>1, <1>2, TailKeys DEF JobTypes, JobFits
<1>5. held'[j] = Tail(held[j])
  BY <1>1, <1>2 DEF JobTypes
<1> HIDE DEF k
<1>6. Recedes(j)
  <2>1. JobTypes' /\ Alone(j)
    BY <1>1, <1>2, <1>4 DEF JobTypes, Alone
  <2>2. JobFits(j)'
    BY <1>1, <1>2, <1>4, <1>5 DEF JobTypes, JobFits
  <2> QED  BY <1>2, <1>4, <1>5, <2>1, <2>2 DEF Recedes
<1>7. CASE Untouched
  BY <1>2, <1>3, <1>6, <1>7, RecedeUntouched
<1>8. CASE Released(j, k)
  BY <1>2, <1>3, <1>4, <1>5, <1>6, <1>8, RecedeReleased
<1> QED  BY <1>7, <1>8 DEF RollBack, k

\* The release after a rejection: the row is terminal.
LEMMA ReleaseRejectedKeeps ==
  ASSUME RInv, NEW j \in Jobs, ReleaseRejected(j)
  PROVE  RInv'
<1> DEFINE k == Head(todo[j])
<1>1. JobTypes /\ OtherTypes /\ JobFits(j)
  BY TypeParts DEF RInv
<1>2. /\ UNCHANGED <<ledger, spend, fresh, req, row, held, poll, occ>>
      /\ submit[j] = "releasing" /\ row[j] = "terminal"
  BY <1>1 DEF ReleaseRejected, JobFits
<1>3. OtherTypes'
  BY <1>1, <1>2, FaultsKeep DEF ReleaseRejected
<1>4. todo[j] # <<>> => k \in Keys /\ Tail(todo[j]) \in Seq(Keys)
  BY <1>1 DEF JobTypes
<1>5. Recedes(j)
  <2>1. JobTypes' /\ Alone(j)
    BY <1>1, <1>2, <1>4 DEF ReleaseRejected, JobTypes, Alone, SubmitStates
  <2>2. submit'[j] \in {"releasing", "over"}
    BY <1>1, <1>2 DEF ReleaseRejected, JobTypes
  <2>3. JobFits(j)'
    BY <1>1, <1>2, <2>2 DEF JobFits
  <2> QED  BY <1>2, <2>1, <2>3 DEF Recedes
<1>6. CASE Untouched
  BY <1>2, <1>3, <1>5, <1>6, RecedeUntouched
<1>7. CASE Released(j, k) /\ todo[j] # <<>>
  <2>1. row'[j] \notin Live /\ k \in Keys
    BY <1>2, <1>4, <1>7 DEF Live
  <2> HIDE DEF k
  <2> QED  BY <1>2, <1>3, <1>5, <1>7, <2>1, RecedeReleased
<1> QED  BY <1>6, <1>7 DEF ReleaseRejected

\* The release after the end: the row is terminal.
LEMMA ReleaseFinishedKeeps ==
  ASSUME RInv, NEW j \in Jobs, ReleaseFinished(j)
  PROVE  RInv'
<1> DEFINE k == Head(poll[j])
<1>1. JobTypes /\ OtherTypes /\ JobFits(j)
  BY TypeParts DEF RInv
<1>2. /\ UNCHANGED <<ledger, spend, fresh, req, row, submit, held, todo, occ>>
      /\ poll[j] # <<>> /\ row[j] = "terminal"
  BY <1>1 DEF ReleaseFinished, JobFits
<1>3. OtherTypes'
  BY <1>1, <1>2, FaultsKeep DEF ReleaseFinished
<1>4. k \in Keys /\ Tail(poll[j]) \in Seq(Keys)
  BY <1>1, <1>2 DEF JobTypes
<1>5. Recedes(j)
  <2>1. JobTypes' /\ Alone(j)
    <3>1. <<>> \in Seq(Keys)
      OBVIOUS
    <3>2. poll' \in [Jobs -> Seq(Keys)] /\ \A i \in Jobs \ {j} : poll'[i] = poll[i]
      BY <1>1, <1>4, <3>1 DEF ReleaseFinished, JobTypes
    <3> QED  BY <1>1, <1>2, <3>2 DEF JobTypes, Alone
  <2>2. JobFits(j)'
    BY <1>1, <1>2 DEF JobFits
  <2> QED  BY <1>2, <2>1, <2>2 DEF Recedes
<1>6. CASE Untouched
  BY <1>2, <1>3, <1>5, <1>6, RecedeUntouched
<1>7. CASE Released(j, k)
  <2>1. row'[j] \notin Live
    BY <1>2 DEF Live
  <2> HIDE DEF k
  <2> QED  BY <1>2, <1>3, <1>4, <1>5, <1>7, <2>1, RecedeReleased
<1> QED  BY <1>6, <1>7 DEF ReleaseFinished

\* The results' cost is metered, or the job ends.
LEMMA EndKeeps ==
  ASSUME RInv, NEW j \in Jobs, Finish(j) \/ \E c \in Costs : Record(j, c)
  PROVE  RInv'
<1>1. JobTypes /\ OtherTypes /\ JobFits(j) /\ CounterTypes
  BY TypeParts DEF RInv, TypeOK, CounterTypes, Occ
<1>2. UNCHANGED <<spend, fresh, req, submit, held, todo, occ, faults>> /\ Untouched
  BY DEF Finish, Record, redis, Untouched
<1>3. ledger' \in [Keys -> Nat]
  <2>1. CASE Finish(j)
    BY <1>1, <2>1 DEF Finish, OtherTypes
  <2>2. CASE \E c \in Costs : Record(j, c)
    BY <1>1, <2>2, MeteredGrows, BudgetAssumption DEF Record
  <2> QED  BY <2>1, <2>2
<1>4. OtherTypes'
  BY <1>1, <1>2, <1>3 DEF OtherTypes
<1>5. JobTypes' /\ Alone(j)
  BY <1>1, <1>2, BudgetAssumption DEF Finish, Record, JobTypes, Alone, Rows
<1>6. /\ row[j] \in Live /\ submit'[j] = submit[j]
      /\ submit[j] \notin {"reserving", "rejected", "faulted", "creating", "releasing", "idle"}
  BY <1>1, <1>2 DEF Finish, Record, JobFits, Live
<1>7. /\ row'[j] \in {"terminal", "settling"} /\ (row'[j] = "settling" => row[j] = "live")
      /\ poll'[j] # <<>> => row'[j] = "terminal"
  BY <1>1 DEF Finish, Record, JobTypes, JobFits
<1>8. JobFits(j)'
  BY <1>1, <1>2, <1>6, <1>7 DEF JobFits
<1> QED  BY <1>2, <1>4, <1>5, <1>6, <1>8, RecedeUntouched DEF Recedes

\* A row appears.  What a reconciler has read and not yet written lacks it, and
\* is marked.
LEMMA InsertKeeps ==
  ASSUME RInv, NEW j \in Jobs, Insert(j)
  PROVE  RInv'
<1>1. JobTypes /\ TotalTypes /\ OtherTypes /\ JobFits(j) /\ occ \in [Occurrences -> Occ]
  BY TypeParts DEF RInv
<1>2. /\ UNCHANGED <<ledger, spend, fresh, req, held, poll, faults>> /\ Untouched
      /\ submit[j] = "idle" /\ row[j] = "none" /\ held[j] = <<>> /\ poll[j] = <<>>
  BY <1>1 DEF Insert, redis, Untouched, JobFits
<1>3. KeysOf[j] \in Seq(Keys) /\ IsInjective(KeysOf[j]) /\ Range(KeysOf[j]) = Applies(j)
  BY BudgetAssumption DEF Applies
<1>4. JobTypes' /\ Alone(j)
  BY <1>1, <1>2, <1>3 DEF Insert, JobTypes, Alone, Rows, SubmitStates
<1>5. JobFits(j)'
  <2>1. row'[j] = "submitting" /\ submit'[j] = "reserving" /\ todo'[j] = KeysOf[j]
    BY <1>1 DEF Insert, JobTypes
  <2>2. Range(held[j]) = {} /\ IsInjective(held[j])
    BY <1>2 DEF Range, IsInjective
  <2> QED  BY <1>2, <1>3, <2>1, <2>2 DEF JobFits, Applies
<1>6. \A i \in Jobs : JobFits(i)'
  BY <1>4, <1>5, JobsKeep DEF RInv
<1>7. \A q \in Keys : Holders(q)' \subseteq Holders(q)
  <2> SUFFICES ASSUME NEW q \in Keys, NEW i \in Jobs, row'[i] \in Live, q \in Range(held'[i])
               PROVE  row[i] \in Live /\ q \in Range(held[i])
    BY DEF Holders
  <2>1. i # j
    BY <1>2 DEF Range
  <2> QED  BY <1>4, <2>1 DEF Alone
<1>8. TotalsCover'
  BY <1>2, <1>7, UntouchedCovers DEF RInv
<1>9. \A o \in Occurrences : /\ occ'[o] \in Occ
                             /\ occ'[o].at = occ[o].at /\ occ'[o].todo = occ[o].todo
                             /\ occ'[o].rows = occ[o].rows
                             /\ occ'[o].raced <=> occ[o].raced \/ occ[o].at = "writePending"
  BY <1>1 DEF Insert, Occ
<1>10. ReadsCover'
  <2> SUFFICES ASSUME NEW o \in Occurrences, occ'[o].at = "writePending", ~ occ'[o].raced
               PROVE  FALSE
    BY DEF ReadsCover
  <2> QED  BY <1>9
<1>11. TypeOK'
  <2>1. occ' \in [Occurrences -> Occ]
    BY <1>9 DEF Insert
  <2>2. TotalTypes' /\ OtherTypes'
    BY <1>1, <1>2 DEF TotalTypes, OtherTypes, Untouched, history
  <2> QED  BY <1>4, <2>1, <2>2
           DEF TypeOK, JobTypes, TotalTypes, OtherTypes, Occ, SubmitStates
<1> QED  BY <1>6, <1>8, <1>10, <1>11 DEF RInv

LEMMA JobStepKeeps ==
  ASSUME RInv, NEW j \in Jobs,
         \/ Insert(j) \/ SubmitStep(j) \/ AbandonSubmit(j)
         \/ \E c \in Costs : Record(j, c)
         \/ Finish(j) \/ ReleaseFinished(j)
  PROVE  RInv'
<1>1. CASE SubmitStep(j)
  BY <1>1, ReserveKeeps, ReserveFaultKeeps, RollBackKeeps, EndReserveKeeps, CreateKeeps,
     ReleaseRejectedKeeps DEF SubmitStep
<1> QED  BY <1>1, InsertKeeps, EndReserveKeeps, EndKeeps, ReleaseFinishedKeeps

-----------------------------------------------------------------------------
(* The other steps. *)

\* Nothing the reservations depend on changes.
LEMMA AsideKeeps ==
  ASSUME RInv, OtherTypes', UNCHANGED <<jobs, pending, history, occ>>
  PROVE  RInv'
<1>1. UNCHANGED <<row, submit, held, todo, poll, pending, counted, blurred, occ>>
  BY DEF jobs, history
<1>2. \A j \in Jobs : JobFits(j)'
  BY <1>1 DEF RInv, JobFits
<1>3. ReadsCover' /\ TotalsCover'
  BY <1>1 DEF RInv, ReadsCover, TotalsCover, PendingRows, Holders
<1>4. TypeOK'
  BY <1>1, TypeParts DEF RInv, TypeOK, OtherTypes
<1> QED  BY <1>2, <1>3, <1>4 DEF RInv

LEMMA RequestStepKeeps ==
  ASSUME RInv, NEW r \in Requests, Check(r) \/ CheckFault(r) \/ \E c \in Costs : Log(r, c)
  PROVE  RInv'
<1>1. OtherTypes /\ CounterTypes
  BY TypeParts DEF RInv, TypeOK, CounterTypes, Occ
<1>2. UNCHANGED <<spend, fresh, jobs, pending, history, occ>>
  BY DEF Check, CheckFault, Log, redis
<1>3. ledger' \in [Keys -> Nat]
  <2>1. CASE Check(r) \/ CheckFault(r)
    BY <1>1, <2>1 DEF Check, CheckFault, OtherTypes
  <2>2. CASE \E c \in Costs : Log(r, c)
    BY <1>1, <2>2, MeteredGrows, BudgetAssumption DEF Log
  <2> QED  BY <2>1, <2>2
<1>4. req' \in [Requests -> {"new", "admitted", "unchecked", "over"}]
  BY <1>1, BudgetAssumption DEF Check, CheckFault, Log, OtherTypes
<1>5. faults' \in 0 .. MaxFaults
  BY <1>1, BudgetAssumption DEF Check, CheckFault, Log, Fault, OtherTypes
<1>6. OtherTypes'
  BY <1>1, <1>2, <1>3, <1>4, <1>5 DEF OtherTypes
<1> QED  BY <1>2, <1>6, AsideKeeps

\* A reconciler moves.  One that goes to write a total has just read the rows.
LEMMA OccKeeps ==
  ASSUME RInv, NEW o \in Occurrences, UNCHANGED jobs, OtherTypes', TotalTypes', TotalsCover',
         occ' = [occ EXCEPT ![o] = occ'[o]], occ'[o] \in Occ,
         occ'[o].at = "writePending" => PendingRows(Head(occ'[o].todo)) \subseteq occ'[o].rows
  PROVE  RInv'
<1>1. UNCHANGED <<row, submit, held, todo, poll>>
  BY DEF jobs
<1>2. \A j \in Jobs : JobFits(j)'
  BY <1>1 DEF RInv, JobFits
<1>3. occ' \in [Occurrences -> Occ] /\ \A p \in Occurrences \ {o} : occ'[p] = occ[p]
  BY TypeParts DEF RInv
<1>4. ReadsCover'
  <2> SUFFICES ASSUME NEW p \in Occurrences, occ'[p].at = "writePending", ~ occ'[p].raced
               PROVE  PendingRows(Head(occ'[p].todo)) \subseteq occ'[p].rows
    BY <1>1 DEF ReadsCover, PendingRows
  <2> QED  BY <1>3 DEF RInv, ReadsCover
<1>5. TypeOK'
  <2>1. JobTypes'
    BY <1>1, TypeParts DEF RInv, JobTypes
  <2> QED  BY <1>3, <2>1 DEF TypeOK, JobTypes, TotalTypes, OtherTypes, Occ, SubmitStates
<1> QED  BY <1>2, <1>4, <1>5 DEF RInv

\* The total is replaced by what was read, which covers the holders unless it
\* was raced.
LEMMA WriteCovers ==
  ASSUME RInv, NEW o \in Occurrences, WritePending(o), occ[o].todo # <<>>
  PROVE  TotalTypes' /\ TotalsCover'
<1>1. TotalTypes /\ JobTypes /\ occ[o] \in Occ
  BY TypeParts DEF RInv
<1>2. PICK k \in Keys : k = Head(occ[o].todo)
  BY <1>1 DEF Occ
<1>3. PICK S \in SUBSET Jobs : S = occ[o].rows
  BY <1>1 DEF Occ
<1>4. Total(S) \in Nat
  BY TotalFacts
<1>5. /\ pending' = [pending EXCEPT ![k] = Total(S)] /\ counted' = [counted EXCEPT ![k] = S]
      /\ blurred' = [blurred EXCEPT ![k] = occ[o].raced]
      /\ UNCHANGED <<row, held>>
  BY <1>2, <1>3 DEF WritePending, Replaced, jobs
<1>6. TotalTypes'
  <2>1. occ[o].raced \in BOOLEAN
    BY <1>1 DEF Occ
  <2> QED  BY <1>1, <1>4, <1>5, <2>1 DEF TotalTypes
<1>7. TotalsCover'
  <2> SUFFICES ASSUME NEW q \in Keys, ~ blurred'[q]
               PROVE  Holders(q) \subseteq counted'[q] /\ pending'[q] >= Total(counted'[q])
    BY <1>5 DEF TotalsCover, Holders
  <2>1. CASE q = k
    <3>1. ~ occ[o].raced /\ pending'[q] = Total(S) /\ counted'[q] = S
      BY <1>1, <1>5, <2>1 DEF TotalTypes
    <3>2. PendingRows(k) \subseteq S
      BY <1>2, <1>3, <3>1 DEF RInv, ReadsCover, WritePending
    <3>3. Holders(k) \subseteq PendingRows(k)
      BY DEF RInv, JobFits, Holders, PendingRows
    <3> QED  BY <1>4, <2>1, <3>1, <3>2, <3>3
  <2>2. CASE q # k
    <3>1. pending'[q] = pending[q] /\ counted'[q] = counted[q] /\ blurred'[q] = blurred[q]
      BY <1>1, <1>5, <2>2 DEF TotalTypes
    <3> QED  BY <3>1 DEF RInv, TotalsCover
  <2> QED  BY <2>1, <2>2
<1> QED  BY <1>6, <1>7

LEMMA ReconcileStepKeeps ==
  ASSUME RInv, IInv, NEW o \in Occurrences, Reconcile(o) \/ AbortOccurrence(o)
  PROVE  RInv'
<1>1. TotalTypes /\ JobTypes /\ OtherTypes /\ occ[o] \in Occ /\ occ \in [Occurrences -> Occ]
  BY TypeParts DEF RInv
<1>2. UNCHANGED <<ledger, jobs, req>>
  BY DEF Reconcile, Start, ReadSpend, WriteSpend, ReadPending, WritePending, Stamp,
     AbortOccurrence, redis
<1>3. OtherTypes'
  <2>1. IInv'
    BY ReconcileKeeps
  <2>2. (Fault \/ UNCHANGED faults) /\ (fresh' = TRUE \/ UNCHANGED fresh)
    BY DEF Reconcile, Start, ReadSpend, WriteSpend, ReadPending, WritePending, Stamp,
       AbortOccurrence, redis
  <2>3. faults' \in 0 .. MaxFaults /\ fresh' \in BOOLEAN
    <3>1. MaxFaults \in Nat /\ faults \in 0 .. MaxFaults
      BY <1>1, BudgetAssumption DEF OtherTypes
    <3>2. faults' \in 0 .. MaxFaults
      BY <2>2, <3>1 DEF Fault
    <3> QED  BY <1>1, <2>2, <3>2 DEF OtherTypes
  <2> QED  BY <1>1, <1>2, <2>1, <2>3 DEF OtherTypes, IInv, CounterTypes
<1>4. CASE WritePending(o)
  <2>1. occ[o].todo # <<>>
    BY <1>4 DEF WritePending, IInv, ReadsBehind
  <2>2. Tail(occ[o].todo) \in Seq(Keys)
    BY <1>1, <2>1 DEF Occ
  <2>3. /\ occ' = [occ EXCEPT ![o] = occ'[o]] /\ occ'[o] \in Occ
        /\ occ'[o].at # "writePending"
    BY <1>1, <1>4, <2>2, GoOnType DEF WritePending
  <2> QED  BY <1>2, <1>3, <1>4, <2>1, <2>3, WriteCovers, OccKeeps
<1>5. CASE ~ WritePending(o)
  <2>1. UNCHANGED <<pending, history>>
    BY <1>5 DEF Reconcile, Start, ReadSpend, WriteSpend, ReadPending, Stamp,
       AbortOccurrence, redis
  <2>2. TotalTypes' /\ TotalsCover'
    BY <1>1, <1>2, <2>1 DEF RInv, TotalTypes, TotalsCover, history, jobs, Holders
  <2>3. /\ occ' = [occ EXCEPT ![o] = occ'[o]] /\ occ'[o] \in Occ
        /\ occ'[o].at = "writePending" => PendingRows(Head(occ'[o].todo)) \subseteq occ'[o].rows
    <3>1. CASE Start(o)
      BY <1>1, <3>1, GoOnType, BudgetAssumption DEF Start
    <3>2. CASE ReadSpend(o)
      <4>1. ledger[Head(occ[o].todo)] \in Nat
        BY <1>1, <3>2 DEF ReadSpend, IInv, CounterTypes, ReadsBehind, Occ
      <4> QED  BY <1>1, <3>2, <4>1 DEF ReadSpend, Occ, OccStates
    <3>3. CASE WriteSpend(o)
      BY <1>1, <3>3 DEF WriteSpend, Occ, OccStates
    <3>4. CASE ReadPending(o)
      <4> DEFINE S == PendingRows(Head(occ[o].todo))
      <4>1. S \in SUBSET Jobs
        BY DEF PendingRows
      <4>2. occ' = [occ EXCEPT ![o].at = "writePending", ![o].raced = FALSE, ![o].rows = S]
        BY <3>4 DEF ReadPending
      <4> HIDE DEF S
      <4>3. /\ occ' = [occ EXCEPT ![o] = occ'[o]] /\ occ'[o] \in Occ
            /\ occ'[o].rows = S /\ occ'[o].todo = occ[o].todo
        BY <1>1, <4>1, <4>2 DEF Occ, OccStates
      <4> QED  BY <4>3 DEF S
    <3>5. CASE Stamp(o) \/ AbortOccurrence(o)
      <4>1. Waiting \in Occ /\ Waiting.at = "idle"
        BY DEF Waiting, Occ, OccStates
      <4> QED  BY <1>1, <3>5, <4>1 DEF Stamp, AbortOccurrence
    <3> QED  BY <1>5, <3>1, <3>2, <3>3, <3>4, <3>5 DEF Reconcile
  <2> QED  BY <1>2, <1>3, <2>2, <2>3, OccKeeps
<1> QED  BY <1>4, <1>5

-----------------------------------------------------------------------------
\* Nothing exists: nothing is held, counted or read.
LEMMA InitRInv == Init => RInv
<1> SUFFICES ASSUME Init PROVE RInv
  OBVIOUS
<1>1. TypeOK
  <2>1. Waiting \in Occ
    BY DEF Waiting, Occ, OccStates
  <2>2. occ \in [Occurrences -> Occ]
    BY <2>1 DEF Init
  <2>3. JobTypes
    BY DEF Init, JobTypes, Rows, SubmitStates
  <2>4. TotalTypes /\ OtherTypes
    <3>1. 0 \in 0 .. MaxFaults
      BY BudgetAssumption
    <3> QED  BY <3>1 DEF Init, TotalTypes, OtherTypes
  <2> QED  BY <2>2, <2>3, <2>4, TypeParts
<1>2. \A j \in Jobs : JobFits(j)
  <2> SUFFICES ASSUME NEW j \in Jobs PROVE JobFits(j)
    OBVIOUS
  <2>1. /\ row[j] = "none" /\ submit[j] = "idle" /\ held[j] = <<>> /\ todo[j] = <<>>
        /\ poll[j] = <<>>
    BY DEF Init
  <2>2. Range(held[j]) = {} /\ IsInjective(held[j])
    BY <2>1 DEF Range, IsInjective
  <2> QED  BY <2>1, <2>2 DEF JobFits
<1>3. ReadsCover
  BY DEF Init, ReadsCover, Waiting
<1>4. TotalsCover
  <2>1. Total({}) = 0
    <3>1. Total({}) = SumOf(Ceiling, {})
      BY DEF Total, SumOf
    <3> QED  BY <3>1, FS_EmptySet, SumUnfolds
  <2>2. \A k \in Keys : Holders(k) = {}
    BY DEF Init, Holders, Live
  <2> QED  BY <2>1, <2>2 DEF Init, TotalsCover
<1> QED  BY <1>1, <1>2, <1>3, <1>4 DEF RInv

LEMMA NextRInv ==
  ASSUME RInv, IInv, [Next]_vars
  PROVE  RInv'
<1>1. CASE GoStale \/ UNCHANGED vars
  <2>1. OtherTypes'
    BY <1>1, TypeParts DEF RInv, GoStale, vars, redis, OtherTypes
  <2> QED  BY <1>1, <2>1, AsideKeeps DEF GoStale, vars, redis
<1> QED  BY <1>1, JobStepKeeps, RequestStepKeeps, ReconcileStepKeeps DEF Next

\* The types, from any number of jobs, keys and occurrences.
THEOREM TypeCorrect == Spec => []TypeOK
<1>1. Init => RInv /\ IInv BY InitRInv, InitIInv
<1>2. RInv /\ IInv /\ [Next]_vars => (RInv /\ IInv)' BY NextRInv, NextIInv
<1>3. RInv /\ IInv => TypeOK BY DEF RInv
<1> QED  BY <1>1, <1>2, <1>3, PTL DEF Spec

\* What covers the jobs counted covers the jobs that hold a key.
LEMMA CoversHolders ==
  ASSUME RInv, NEW k \in Keys, ~ blurred[k]
  PROVE  /\ pending[k] >= Total(Holders(k)) /\ Total(Holders(k)) \in Nat
         /\ Holders(k) \in SUBSET Jobs
<1>1. PICK S \in SUBSET Jobs : S = counted[k]
  BY DEF RInv, TypeOK
<1>2. Holders(k) \in SUBSET S /\ Holders(k) \in SUBSET Jobs /\ pending[k] >= Total(S)
  BY <1>1 DEF RInv, TotalsCover, Holders
<1>3. PICK H : H = Holders(k)
  OBVIOUS
<1>4. Total(H) <= Total(S) /\ Total(S) \in Nat /\ Total(H) \in Nat
  BY <1>2, <1>3, TotalFacts
<1>5. pending[k] \in Nat
  BY DEF RInv, TypeOK
<1>6. pending[k] >= Total(H)
  BY <1>2, <1>4, <1>5
<1> QED  BY <1>2, <1>3, <1>4, <1>6

\* A pending total covers every reservation that was granted on it and not given
\* up, unless it is blurred, and the code does blur totals: a job was submitted
\* between the occurrence's read of the rows and its SET of the total
\* (reconcilePending), or a ceiling was released that the total did not contain
\* (releaseForBatch after such a SET).  Up to the next reconciliation of that key
\* nothing is said of it.  Rollbacks, lost replies, crashes, abandoned submissions
\* and every other reconciliation keep the total covering.
THEOREM ReservationsCovered == Spec => []PendingCovers
<1>1. Init => RInv /\ IInv BY InitRInv, InitIInv
<1>2. RInv /\ IInv /\ [Next]_vars => (RInv /\ IInv)' BY NextRInv, NextIInv
<1>3. RInv => PendingCovers BY CoversHolders DEF PendingCovers
<1> QED  BY <1>1, <1>2, <1>3, PTL DEF Spec

\* A grant: the only step that makes a job a holder takes a key that fits beside
\* what was spent and what is pending.
LEMMA GrantFits ==
  ASSUME RInv, [Next]_vars, NEW k \in Keys, NEW j \in Jobs,
         j \in Holders(k)', j \notin Holders(k)
  PROVE  /\ Fits(j, k) /\ Holders(k)' \subseteq Holders(k) \cup {j}
<1>1. JobTypes /\ (\A i \in Jobs : JobFits(i))
  BY TypeParts DEF RInv
<1>2. ASSUME UNCHANGED <<row, held>> PROVE FALSE
  BY <1>2 DEF Holders
<1>3. ASSUME NEW i \in Jobs, Alone(i), row'[i] \in Live => row[i] \in Live,
             Range(held'[i]) \subseteq Range(held[i])
      PROVE  FALSE
  BY <1>3 DEF Alone, Holders
<1>4. PICK i \in Jobs : \/ Insert(i) \/ SubmitStep(i) \/ AbandonSubmit(i)
                        \/ \E c \in Costs : Record(i, c)
                        \/ Finish(i) \/ ReleaseFinished(i)
  <2>1. CASE \E r \in Requests : Check(r) \/ CheckFault(r) \/ \E c \in Costs : Log(r, c)
    BY <1>2, <2>1 DEF Check, CheckFault, Log, jobs
  <2>2. CASE \E o \in Occurrences : Reconcile(o) \/ AbortOccurrence(o)
    BY <1>2, <2>2 DEF Reconcile, Start, ReadSpend, WriteSpend, ReadPending, WritePending,
       Stamp, AbortOccurrence, jobs
  <2>3. CASE GoStale \/ UNCHANGED vars
    BY <1>2, <2>3 DEF GoStale, vars, jobs
  <2> QED  BY <2>1, <2>2, <2>3 DEF Next
<1>5. /\ ~ EndReserve(i) /\ ~ AbandonSubmit(i) /\ ~ Create(i) /\ ~ RollBack(i)
      /\ ~ ReserveFault(i) /\ ~ ReleaseRejected(i) /\ ~ ReleaseFinished(i) /\ ~ Finish(i)
      /\ ~ \E c \in Costs : Record(i, c)
  <2>1. ASSUME \/ EndReserve(i) \/ AbandonSubmit(i) \/ Create(i) \/ ReserveFault(i)
               \/ ReleaseRejected(i) \/ ReleaseFinished(i) \/ Finish(i)
               \/ \E c \in Costs : Record(i, c)
        PROVE  FALSE
    <3>1. UNCHANGED held
      BY <2>1 DEF EndReserve, AbandonSubmit, Create, ReserveFault, ReleaseRejected,
         ReleaseFinished, Finish, Record
    <3>2. \A n \in Jobs : row'[n] \in Live => row[n] \in Live
      BY <1>1, <2>1 DEF EndReserve, AbandonSubmit, Create, ReserveFault, ReleaseRejected,
         ReleaseFinished, Finish, Record, Live, JobTypes, JobFits
    <3> QED  BY <3>1, <3>2 DEF Holders
  <2>2. ASSUME RollBack(i) PROVE FALSE
    <3>1. held[i] \in Seq(Keys) /\ held[i] # <<>> /\ UNCHANGED row
      BY <1>1, <2>2 DEF RollBack, JobTypes
    <3>2. Range(Tail(held[i])) \subseteq Range(held[i])
      BY <3>1, TailKeys
    <3>3. \A n \in Jobs : Range(held'[n]) \subseteq Range(held[n])
      BY <1>1, <2>2, <3>2 DEF RollBack, JobTypes
    <3> QED  BY <3>1, <3>3 DEF Holders
  <2> QED  BY <2>1, <2>2
<1>6. ~ Insert(i)
  <2> SUFFICES ASSUME Insert(i) PROVE FALSE
    OBVIOUS
  <2>1. held[i] = <<>> /\ UNCHANGED held /\ \A n \in Jobs \ {i} : row'[n] = row[n]
    BY <1>1 DEF Insert, JobFits, JobTypes
  <2> QED  BY <2>1 DEF Holders, Range
<1>7. Reserve(i)
  BY <1>4, <1>5, <1>6 DEF SubmitStep
<1>8. PICK q \in Keys : q = Head(todo[i])
  BY <1>1, <1>7 DEF Reserve, JobTypes
<1>9. /\ UNCHANGED row
      /\ \/ UNCHANGED held
         \/ Fits(i, q) /\ held' = [held EXCEPT ![i] = Append(held[i], q)]
  BY <1>7, <1>8 DEF Reserve
<1>10. Fits(i, q) /\ held' = [held EXCEPT ![i] = Append(held[i], q)]
  BY <1>2, <1>9
<1>11. Range(Append(held[i], q)) = Range(held[i]) \cup {q}
  BY <1>1, AppendKeys DEF JobTypes
<1>12. /\ Range(held'[i]) = Range(held[i]) \cup {q}
       /\ \A n \in Jobs \ {i} : held'[n] = held[n]
  BY <1>1, <1>10, <1>11 DEF JobTypes
<1>13. i = j /\ q = k
  BY <1>9, <1>12 DEF Holders
<1>14. Holders(k)' \subseteq Holders(k) \cup {j}
  BY <1>9, <1>12, <1>13 DEF Holders
<1> QED  BY <1>10, <1>13, <1>14

\* A granted reservation fits beside what was spent and what the other jobs have
\* reserved on that key, unless the key's total is blurred (ReservationsCovered).
THEOREM GrantsFit == Spec => ReservationFits
<1> DEFINE A == \A k \in Keys :
                  (~ blurred[k] /\ \E j \in Holders(k)' : j \notin Holders(k)) =>
                    spend[k] + Total(Holders(k)') <= Amount[k]
<1>1. Init => RInv /\ IInv BY InitRInv, InitIInv
<1>2. RInv /\ IInv /\ [Next]_vars => (RInv /\ IInv)' BY NextRInv, NextIInv
<1>3. RInv /\ IInv /\ [Next]_vars => A
  <2> SUFFICES ASSUME RInv, IInv, [Next]_vars, NEW k \in Keys, ~ blurred[k],
                      NEW j \in Holders(k)', j \notin Holders(k)
               PROVE  spend[k] + Total(Holders(k)') <= Amount[k]
    OBVIOUS
  <2>1. j \in Jobs
    BY DEF Holders
  <2>2. Fits(j, k) /\ Holders(k)' \subseteq Holders(k) \cup {j}
    BY <2>1, GrantFits
  <2>3. PICK H \in SUBSET Jobs : H = Holders(k)
    BY DEF Holders
  <2>4. PICK G : G = Holders(k)'
    OBVIOUS
  <2>5. j \in Jobs \ H /\ G \in SUBSET (H \cup {j}) /\ H \cup {j} \in SUBSET Jobs
    BY <2>1, <2>2, <2>3, <2>4
  <2>6. /\ Total(H \cup {j}) = Total(H) + Ceiling[j] /\ Total(G) <= Total(H \cup {j})
        /\ Total(H) \in Nat /\ Total(G) \in Nat
    BY <2>3, <2>5, TotalFacts
  <2>7. pending[k] >= Total(H)
    BY <2>3, CoversHolders
  <2>8. /\ spend[k] + pending[k] + Ceiling[j] <= Amount[k] /\ pending[k] \in Nat
        /\ spend[k] \in Nat /\ Amount[k] \in Nat /\ Ceiling[j] \in Nat
    BY <2>1, <2>2, BudgetAssumption DEF Fits, RInv, TypeOK
  <2>9. spend[k] + Total(G) <= Amount[k]
    BY <2>6, <2>7, <2>8
  <2> QED  BY <2>4, <2>9
<1>4. RInv /\ IInv /\ [Next]_vars => [A]_vars BY <1>3
<1> QED  BY <1>1, <1>2, <1>4, PTL DEF Spec, ReservationFits

\* Only the gate admits a request, when none of its keys is exhausted.
LEMMA AdmitReads ==
  ASSUME TypeOK, [Next]_vars, NEW r \in Requests, Admitted(r)
  PROVE  \A k \in Applies(r) : ~ Exhausted(k)
<1>1. req \in [Requests -> {"new", "admitted", "unchecked", "over"}]
  BY DEF TypeOK
<1>2. req'[r] # req[r]
  BY DEF Admitted
<1>3. PICK q \in Requests : Check(q) \/ CheckFault(q) \/ \E c \in Costs : Log(q, c)
  <2>1. CASE \E j \in Jobs : \/ Insert(j) \/ SubmitStep(j) \/ AbandonSubmit(j)
                             \/ \E c \in Costs : Record(j, c)
                             \/ Finish(j) \/ ReleaseFinished(j)
    BY <1>2, <2>1 DEF Insert, SubmitStep, AbandonSubmit, Record, Finish, ReleaseFinished,
       Reserve, ReserveFault, RollBack, EndReserve, Create, ReleaseRejected
  <2>2. CASE \E o \in Occurrences : Reconcile(o) \/ AbortOccurrence(o)
    BY <1>2, <2>2 DEF Reconcile, Start, ReadSpend, WriteSpend, ReadPending, WritePending,
       Stamp, AbortOccurrence
  <2>3. CASE GoStale \/ UNCHANGED vars
    BY <1>2, <2>3 DEF GoStale, vars
  <2>4. \/ \E j \in Jobs : \/ Insert(j) \/ SubmitStep(j) \/ AbandonSubmit(j)
                           \/ \E c \in Costs : Record(j, c)
                           \/ Finish(j) \/ ReleaseFinished(j)
        \/ \E q \in Requests : Check(q) \/ CheckFault(q) \/ \E c \in Costs : Log(q, c)
        \/ \E o \in Occurrences : Reconcile(o) \/ AbortOccurrence(o)
        \/ GoStale \/ UNCHANGED vars
    BY DEF Next
  <2> QED  BY <2>1, <2>2, <2>3, <2>4
<1>4. r = q /\ Check(r)
  BY <1>1, <1>2, <1>3 DEF Admitted, Check, CheckFault, Log
<1>5. \A k \in Applies(r) : ~ Exhausted(k)
  BY <1>1, <1>4 DEF Admitted, Check
<1> QED  BY <1>5

\* A request that passes the gate is given nothing that a job has reserved on a key
\* whose total is not blurred; on a blurred one (ReservationsCovered) the code may
\* admit it onto reserved money.
THEOREM AdmissionSpares == Spec => AdmissionSparesReservations
<1> DEFINE A == \A r \in Requests : Admitted(r) => \A k \in Applies(r) : blurred[k] \/ Spares(k)
<1>1. Init => RInv /\ IInv BY InitRInv, InitIInv
<1>2. RInv /\ IInv /\ [Next]_vars => (RInv /\ IInv)' BY NextRInv, NextIInv
<1>3. RInv /\ IInv /\ [Next]_vars => A
  <2> SUFFICES ASSUME RInv, IInv, [Next]_vars, NEW r \in Requests, Admitted(r),
                      NEW k \in Applies(r), ~ blurred[k]
               PROVE  Spares(k)
    OBVIOUS
  <2>1. \A q \in Applies(r) : ~ Exhausted(q)
    BY AdmitReads DEF RInv
  <2>2. k \in Keys
    BY BudgetAssumption DEF Applies, Range
  <2>3. pending[k] >= Total(Holders(k)) /\ Total(Holders(k)) \in Nat
    BY <2>2, CoversHolders
  <2>4. spend[k] \in Nat /\ pending[k] \in Nat /\ Amount[k] \in Nat
    BY <2>2, BudgetAssumption DEF RInv, TypeOK
  <2>5. ~ (spend[k] + pending[k] >= Amount[k])
    BY <2>1 DEF Exhausted
  <2>6. PICK t \in Nat : t = Total(Holders(k)) /\ pending[k] >= t
    BY <2>3
  <2>7. spend[k] + t < Amount[k]
    BY <2>4, <2>5, <2>6
  <2> QED  BY <2>6, <2>7 DEF Spares
<1>4. RInv /\ IInv /\ [Next]_vars => [A]_vars BY <1>3
<1> QED  BY <1>1, <1>2, <1>4, PTL DEF Spec, AdmissionSparesReservations
==============================================================================
