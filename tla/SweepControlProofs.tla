------------------------- MODULE SweepControlProofs -------------------------
(***************************************************************************)
(* Theorems about SweepControl for every set of tasks, every number of     *)
(* live sweeps and every limit, and any number of stalls and restarts.     *)
(***************************************************************************)
EXTENDS SweepControl, FiniteSetTheorems, TLAPS

(* The active run waits for a live sweep that was not abandoned.           *)
CurrentRuns == current # 0 => current \in live \ aborted

(* A query that never returns keeps its lane from ending.                  *)
StuckNeverOver == \A h \in stuck : lane[h] # "over"

(* What a visible lane has taken and holds stays within VISIBLE_BATCH.     *)
Held(s) == IF lane[<<s, "visible">>] = "claimed"
           THEN Cardinality(batch[<<s, "visible">>]) ELSE 0
WithinBatch == \A s \in Sweep : handled[s] + Held(s) <= VisibleBatch

IInv ==
  /\ TypeOK
  /\ CurrentRuns
  /\ StuckNeverOver
  /\ WithinBatch
  /\ OneSweepCounted
  /\ PokeIsAnswered

USE DEF Sweep, Lane

-----------------------------------------------------------------------------
(* Cardinalities.                                                          *)

LEMMA SweepsFinite ==
  ASSUME NEW S \in SUBSET Sweep
  PROVE  IsFiniteSet(S) /\ Cardinality(S) \in Nat
<1>1. IsFiniteSet(1 .. MaxSweeps)
  BY ConstantsAssumption, FS_Interval
<1>2. IsFiniteSet(S)
  BY <1>1, FS_Subset
<1> QED BY <1>2, FS_CardinalityType

LEMMA TasksFinite ==
  ASSUME NEW S \in SUBSET Task
  PROVE  IsFiniteSet(S) /\ Cardinality(S) \in Nat
<1>1. IsFiniteSet(S)
  BY ConstantsAssumption, FS_Subset
<1> QED BY <1>1, FS_CardinalityType

LEMMA SmallerSet ==
  ASSUME NEW T \in SUBSET Sweep, NEW S \in SUBSET T
  PROVE  Cardinality(S) <= Cardinality(T)
BY SweepsFinite, FS_Subset

LEMMA MinOfTwo ==
  ASSUME NEW a \in Int, NEW b \in Int
  PROVE  Min({a, b}) = IF a <= b THEN a ELSE b
<1> DEFINE m == IF a <= b THEN a ELSE b
<1>1. m \in {a, b} /\ \A y \in {a, b} : m <= y
  OBVIOUS
<1>2. \A x \in {a, b} : (\A y \in {a, b} : x <= y) => x = m
  OBVIOUS
<1> QED BY <1>1, <1>2 DEF Min

-----------------------------------------------------------------------------
(* The initial states, and the start of a run.                             *)

LEMMA InitEstablishes == Init => IInv
<1> SUFFICES ASSUME Init PROVE IInv
  OBVIOUS
<1> USE ConstantsAssumption DEF Init
<1>1. Cardinality({}) = 0
  BY FS_EmptySet
<1>2. TypeOK
  <2>1. /\ 0 \in 0 .. MaxSweeps /\ 0 \in 0 .. MaxAttempts
        /\ 0 \in 0 .. VisibleBatch /\ 0 \in 0 .. MaxStalls
        /\ 0 \in 0 .. MaxRestarts /\ 0 <= MaxAbandoned
    OBVIOUS
  <2>2. /\ attempts \in [Task -> 0 .. MaxAttempts]
        /\ handled \in [Sweep -> 0 .. VisibleBatch]
    BY <2>1
  <2>3. row \in [Task -> {"absent", "due", "leased", "done"}]
    OBVIOUS
  <2>4. lane \in [Sweep \X Lane -> {"claiming", "claimed", "working", "over"}]
    OBVIOUS
  <2>5. batch \in [Sweep \X Lane -> SUBSET Task]
    OBVIOUS
  <2> QED BY <1>1, <2>1, <2>2, <2>3, <2>4, <2>5 DEF TypeOK
<1>3. CurrentRuns /\ StuckNeverOver /\ PokeIsAnswered
  BY DEF CurrentRuns, StuckNeverOver, PokeIsAnswered
<1>4. WithinBatch
  <2> SUFFICES ASSUME NEW s \in Sweep PROVE handled[s] + Held(s) <= VisibleBatch
    BY DEF WithinBatch
  <2>1. <<s, "visible">> \in Sweep \X Lane
    OBVIOUS
  <2>2. handled[s] = 0 /\ lane[<<s, "visible">>] = "over"
    BY <2>1
  <2> QED BY <2>2 DEF Held
<1>5. OneSweepCounted
  <2>1. Counted = {}
    BY DEF Counted
  <2> QED BY <1>1, <2>1 DEF OneSweepCounted
<1> QED BY <1>2, <1>3, <1>4, <1>5 DEF IInv

(* What RunSweep leaves behind, whatever sweeps were live and held.        *)
LEMMA RunSweepKeeps ==
  ASSUME IInv, NEW alive \in SUBSET Sweep, NEW held \in SUBSET alive,
         Cardinality(held) <= MaxAbandoned,
         RunSweep(alive, held)
  PROVE  /\ current' \in 0 .. MaxSweeps
         /\ live' \subseteq Sweep /\ alive \subseteq live'
         /\ current' # 0 => current' \in live' \ alive
         /\ Cardinality(held \cup ({current'} \ {0})) <= MaxAbandoned
         /\ lane' \in [Sweep \X Lane -> {"claiming", "claimed", "working", "over"}]
         /\ batch' \in [Sweep \X Lane -> SUBSET Task]
         /\ handled' \in [Sweep -> 0 .. VisibleBatch]
         /\ \A s \in alive : \A l \in Lane :
              lane'[<<s, l>>] = lane[<<s, l>>] /\ batch'[<<s, l>>] = batch[<<s, l>>]
         /\ WithinBatch'
<1> USE ConstantsAssumption
<1>1. CASE Stands(held)
  <2>1. PICK s \in Sweep \ alive :
          /\ current' = s
          /\ live' = alive \cup {s}
          /\ lane' = [h \in Sweep \X Lane |->
                       IF h[1] = s THEN "claiming" ELSE lane[h]]
          /\ batch' = [h \in Sweep \X Lane |-> IF h[1] = s THEN {} ELSE batch[h]]
          /\ handled' = [handled EXCEPT ![s] = 0]
    BY <1>1 DEF RunSweep
  <2>2. Cardinality(held \cup ({s} \ {0})) <= MaxAbandoned
    <3>1. IsFiniteSet(held) /\ Cardinality(held) \in Nat
      BY SweepsFinite
    <3>2. held \cup ({s} \ {0}) = held \cup {s} /\ s \notin held
      OBVIOUS
    <3>3. Cardinality(held \cup {s}) = Cardinality(held) + 1
      BY <3>1, <3>2, FS_AddElement
    <3> QED BY <1>1, <3>1, <3>2, <3>3 DEF Stands
  <2>3. /\ lane \in [Sweep \X Lane -> {"claiming", "claimed", "working", "over"}]
        /\ batch \in [Sweep \X Lane -> SUBSET Task]
        /\ handled \in [Sweep -> 0 .. VisibleBatch]
    BY DEF IInv, TypeOK
  <2>4. WithinBatch'
    <3> SUFFICES ASSUME NEW r \in Sweep PROVE (handled[r] + Held(r) <= VisibleBatch)'
      BY DEF WithinBatch
    <3>1. CASE r = s
      <4>1. handled'[r] = 0 /\ lane'[<<r, "visible">>] = "claiming"
        BY <2>1, <2>3, <3>1
      <4> QED BY <4>1 DEF Held
    <3>2. CASE r # s
      <4>1. /\ handled'[r] = handled[r]
            /\ lane'[<<r, "visible">>] = lane[<<r, "visible">>]
            /\ batch'[<<r, "visible">>] = batch[<<r, "visible">>]
        BY <2>1, <2>3, <3>2
      <4>2. handled[r] + Held(r) <= VisibleBatch
        BY DEF IInv, WithinBatch
      <4> QED BY <4>1, <4>2 DEF Held
    <3> QED BY <3>1, <3>2
  <2>5. \A t \in alive : \A l \in Lane :
          lane'[<<t, l>>] = lane[<<t, l>>] /\ batch'[<<t, l>>] = batch[<<t, l>>]
    BY <2>1, <2>3
  <2> QED BY <2>1, <2>2, <2>3, <2>4, <2>5
<1>2. CASE ~ Stands(held)
  <2>1. current' = 0 /\ live' = alive /\ UNCHANGED <<lane, batch, handled>>
    BY <1>2 DEF RunSweep, lanes
  <2>2. held \cup ({current'} \ {0}) = held
    BY <2>1
  <2>3. WithinBatch'
    BY <2>1 DEF IInv, WithinBatch, Held
  <2>4. /\ lane \in [Sweep \X Lane -> {"claiming", "claimed", "working", "over"}]
        /\ batch \in [Sweep \X Lane -> SUBSET Task]
        /\ handled \in [Sweep -> 0 .. VisibleBatch]
    BY DEF IInv, TypeOK
  <2>5. 0 \in 0 .. MaxSweeps
    OBVIOUS
  <2> QED BY <2>1, <2>2, <2>3, <2>4, <2>5
<1> QED BY <1>1, <1>2

(* The same of a run that has ended.                                       *)
LEMMA ContinueKeeps ==
  ASSUME IInv, NEW alive \in SUBSET Sweep, NEW held \in SUBSET alive,
         Cardinality(held) <= MaxAbandoned,
         Continue(alive, held)
  PROVE  /\ current' \in 0 .. MaxSweeps
         /\ live' \subseteq Sweep /\ alive \subseteq live'
         /\ current' # 0 => current' \in live' \ alive
         /\ Cardinality(held \cup ({current'} \ {0})) <= MaxAbandoned
         /\ lane' \in [Sweep \X Lane -> {"claiming", "claimed", "working", "over"}]
         /\ batch' \in [Sweep \X Lane -> SUBSET Task]
         /\ handled' \in [Sweep -> 0 .. VisibleBatch]
         /\ \A s \in alive : \A l \in Lane :
              lane'[<<s, l>>] = lane[<<s, l>>] /\ batch'[<<s, l>>] = batch[<<s, l>>]
         /\ WithinBatch'
         /\ trailing' = FALSE
<1>1. CASE trailing
  <2>1. RunSweep(alive, held) /\ trailing' = FALSE
    BY <1>1 DEF Continue
  <2> QED BY <2>1, RunSweepKeeps
<1>2. CASE ~ trailing
  <2>1. current' = 0 /\ live' = alive /\ trailing' = FALSE
        /\ UNCHANGED <<lane, batch, handled>>
    BY <1>2 DEF Continue, lanes
  <2>2. held \cup ({current'} \ {0}) = held
    BY <2>1
  <2>3. WithinBatch'
    BY <2>1 DEF IInv, WithinBatch, Held
  <2>4. /\ lane \in [Sweep \X Lane -> {"claiming", "claimed", "working", "over"}]
        /\ batch \in [Sweep \X Lane -> SUBSET Task]
        /\ handled \in [Sweep -> 0 .. VisibleBatch]
    BY DEF IInv, TypeOK
  <2>5. 0 \in 0 .. MaxSweeps
    BY ConstantsAssumption
  <2> QED BY <2>1, <2>2, <2>3, <2>4, <2>5
<1> QED BY <1>1, <1>2
-----------------------------------------------------------------------------
(* The rows and the lanes: what sweeps there are does not change.          *)

LEMMA LanesKeep ==
  ASSUME IInv,
         row' \in [Task -> {"absent", "due", "leased", "done"}],
         attempts' \in [Task -> 0 .. MaxAttempts],
         begun' \subseteq Task,
         lane' \in [Sweep \X Lane -> {"claiming", "claimed", "working", "over"}],
         batch' \in [Sweep \X Lane -> SUBSET Task],
         handled' \in [Sweep -> 0 .. VisibleBatch],
         StuckNeverOver', WithinBatch',
         stuck' \subseteq live \X Lane,
         stalls' \in 0 .. MaxStalls,
         UNCHANGED <<sweeping, restarts>>
  PROVE  IInv'
<1>1. UNCHANGED <<current, trailing, live, aborted, unsettled>>
  BY DEF sweeping
<1>2. TypeOK'
  BY <1>1 DEF IInv, TypeOK
<1>3. CurrentRuns' /\ PokeIsAnswered'
  BY <1>1 DEF IInv, CurrentRuns, PokeIsAnswered
<1>4. OneSweepCounted'
  BY <1>1 DEF IInv, OneSweepCounted, Counted
<1> QED BY <1>2, <1>3, <1>4 DEF IInv

LEMMA RowsKeep ==
  ASSUME IInv,
         row' \in [Task -> {"absent", "due", "leased", "done"}],
         UNCHANGED <<attempts, begun, sweeping, lanes, faults>>
  PROVE  IInv'
<1>1. UNCHANGED <<attempts, begun, lane, batch, handled, stuck, stalls, restarts>>
  BY DEF lanes, faults
<1>2. /\ attempts' \in [Task -> 0 .. MaxAttempts]
      /\ begun' \subseteq Task
      /\ lane' \in [Sweep \X Lane -> {"claiming", "claimed", "working", "over"}]
      /\ batch' \in [Sweep \X Lane -> SUBSET Task]
      /\ handled' \in [Sweep -> 0 .. VisibleBatch]
      /\ stuck' \subseteq live \X Lane
      /\ stalls' \in 0 .. MaxStalls
  BY <1>1 DEF IInv, TypeOK
<1>3. StuckNeverOver' /\ WithinBatch'
  BY <1>1 DEF IInv, StuckNeverOver, WithinBatch, Held
<1> QED BY <1>1, <1>2, <1>3, LanesKeep

LEMMA RowStep ==
  ASSUME IInv, NEW t \in Task, Commit(t) \/ Close(t) \/ LeaseLapses(t)
  PROVE  IInv'
<1>1. row' \in [Task -> {"absent", "due", "leased", "done"}]
  BY DEF Commit, Close, LeaseLapses, IInv, TypeOK
<1> QED BY <1>1, RowsKeep DEF Commit, Close, LeaseLapses

LEMMA MostRowsSmall ==
  ASSUME IInv, NEW s \in Sweep, NEW l \in Lane
  PROVE  /\ MostRows(s, l) \in Nat
         /\ l = "visible" => handled[s] + MostRows(s, l) <= VisibleBatch
<1> USE ConstantsAssumption
<1>1. handled[s] \in 0 .. VisibleBatch
  BY DEF IInv, TypeOK
<1>2. CASE l = "visible"
  BY <1>1, <1>2, MinOfTwo DEF MostRows
<1>3. CASE l # "visible"
  BY <1>3 DEF MostRows
<1> QED BY <1>2, <1>3

LEMMA StuckLanes ==
  ASSUME IInv
  PROVE  \A h \in stuck : h \in live \X Lane /\ h \in Sweep \X Lane /\ lane[h] # "over"
<1>1. stuck \subseteq live \X Lane /\ live \subseteq Sweep
  BY DEF IInv, TypeOK
<1>2. \A h \in live \X Lane : h \in Sweep \X Lane
  BY <1>1
<1>3. \A h \in stuck : h \in live \X Lane
  BY <1>1
<1>4. \A h \in stuck : lane[h] # "over"
  BY DEF IInv, StuckNeverOver
<1> QED BY <1>2, <1>3, <1>4

LEMMA ClaimKeeps ==
  ASSUME IInv, NEW s \in Sweep, NEW l \in Lane, Claim(s, l)
  PROVE  IInv'
<1>1. PICK rows \in SUBSET Due(l) :
        /\ Cardinality(rows) = Min({Cardinality(Due(l)), MostRows(s, l)})
        /\ row' = [t \in Task |-> IF t \in rows THEN "leased" ELSE row[t]]
        /\ attempts' = [t \in Task |->
                          IF t \in rows THEN attempts[t] + 1 ELSE attempts[t]]
        /\ batch' = [batch EXCEPT ![<<s, l>>] = rows]
  BY DEF Claim
<1>2. /\ s \in live /\ <<s, l>> \notin stuck
      /\ lane' = [lane EXCEPT ![<<s, l>>] = "claimed"]
      /\ UNCHANGED <<begun, sweeping, handled, stuck, stalls, restarts>>
  BY DEF Claim, faults
<1>3. /\ row \in [Task -> {"absent", "due", "leased", "done"}]
      /\ attempts \in [Task -> 0 .. MaxAttempts]
      /\ begun \subseteq Task
      /\ lane \in [Sweep \X Lane -> {"claiming", "claimed", "working", "over"}]
      /\ batch \in [Sweep \X Lane -> SUBSET Task]
      /\ handled \in [Sweep -> 0 .. VisibleBatch]
      /\ stuck \subseteq live \X Lane
      /\ stalls \in 0 .. MaxStalls
  BY DEF IInv, TypeOK
<1>4. rows \subseteq Task /\ \A t \in rows : attempts[t] < MaxAttempts
  BY DEF Due
<1>5. /\ row' \in [Task -> {"absent", "due", "leased", "done"}]
      /\ attempts' \in [Task -> 0 .. MaxAttempts]
  <2> SUFFICES ASSUME NEW t \in Task
               PROVE  (IF t \in rows THEN attempts[t] + 1 ELSE attempts[t])
                        \in 0 .. MaxAttempts
    BY <1>1, <1>3
  <2> QED BY <1>3, <1>4, ConstantsAssumption
<1>6. /\ lane' \in [Sweep \X Lane -> {"claiming", "claimed", "working", "over"}]
      /\ batch' \in [Sweep \X Lane -> SUBSET Task]
  BY <1>1, <1>2, <1>3, <1>4
<1>7. StuckNeverOver'
  BY <1>2, <1>3 DEF IInv, StuckNeverOver
<1>8. Cardinality(rows) <= MostRows(s, l) /\ Cardinality(rows) \in Nat
  <2>1. Due(l) \subseteq Task
    BY DEF Due
  <2> QED BY <1>1, <1>4, <2>1, TasksFinite, MostRowsSmall, MinOfTwo
<1>9. WithinBatch'
  <2> SUFFICES ASSUME NEW r \in Sweep PROVE handled[r] + Held(r)' <= VisibleBatch
    BY <1>2 DEF WithinBatch
  <2>1. handled[r] + Held(r) <= VisibleBatch
    BY DEF IInv, WithinBatch
  <2>2. CASE r = s /\ l = "visible"
    <3>1. lane'[<<r, "visible">>] = "claimed" /\ batch'[<<r, "visible">>] = rows
      BY <1>1, <1>2, <1>3, <2>2
    <3>2. handled[r] \in Nat
      BY <1>3, ConstantsAssumption
    <3>3. Held(r)' = Cardinality(rows)
      BY <3>1 DEF Held
    <3>4. MostRows(s, l) \in Nat /\ handled[r] + MostRows(s, l) <= VisibleBatch
      BY <2>2, MostRowsSmall
    <3> QED BY <1>8, <3>2, <3>3, <3>4, ConstantsAssumption
  <2>3. CASE ~ (r = s /\ l = "visible")
    <3>1. /\ lane'[<<r, "visible">>] = lane[<<r, "visible">>]
          /\ batch'[<<r, "visible">>] = batch[<<r, "visible">>]
      BY <1>1, <1>2, <1>3, <2>3
    <3> QED BY <2>1, <3>1 DEF Held
  <2> QED BY <2>2, <2>3
<1> QED BY <1>2, <1>3, <1>5, <1>6, <1>7, <1>9, LanesKeep

LEMMA TakeKeeps ==
  ASSUME IInv, NEW s \in Sweep, NEW l \in Lane, Take(s, l)
  PROVE  IInv'
<1> DEFINE taken == IF l = "visible" THEN Cardinality(batch[<<s, l>>]) ELSE 0
<1>1. /\ s \in live /\ <<s, l>> \notin stuck /\ lane[<<s, l>>] = "claimed"
      /\ UNCHANGED <<row, attempts, sweeping, stuck, stalls, restarts>>
  BY DEF Take, faults, queue
<1>2. /\ row \in [Task -> {"absent", "due", "leased", "done"}]
      /\ attempts \in [Task -> 0 .. MaxAttempts]
      /\ begun \subseteq Task
      /\ lane \in [Sweep \X Lane -> {"claiming", "claimed", "working", "over"}]
      /\ batch \in [Sweep \X Lane -> SUBSET Task]
      /\ handled \in [Sweep -> 0 .. VisibleBatch]
      /\ stuck \subseteq live \X Lane
      /\ stalls \in 0 .. MaxStalls
  BY DEF IInv, TypeOK
<1>3. /\ begun' \subseteq Task
      /\ lane' \in [Sweep \X Lane -> {"claiming", "claimed", "working", "over"}]
      /\ batch' \in [Sweep \X Lane -> SUBSET Task]
      /\ lane'[<<s, l>>] # "claimed"
      /\ \A h \in (Sweep \X Lane) \ {<<s, l>>} :
           lane'[h] = lane[h] /\ batch'[h] = batch[h]
  <2>1. CASE Begins(s, l)
    <3>1. /\ begun' = begun \cup batch[<<s, l>>]
          /\ lane' = [lane EXCEPT ![<<s, l>>] = "working"]
          /\ batch' = batch
      BY <2>1 DEF Take
    <3> QED BY <1>2, <3>1
  <2>2. CASE ~ Begins(s, l)
    <3>1. /\ begun' = begun
          /\ lane' = [lane EXCEPT ![<<s, l>>] = "over"]
          /\ batch' = [batch EXCEPT ![<<s, l>>] = {}]
      BY <2>2 DEF Take
    <3> QED BY <1>2, <3>1
  <2> QED BY <2>1, <2>2
<1>4. taken \in Nat /\ handled[s] + taken <= VisibleBatch
      /\ handled' = [handled EXCEPT ![s] = @ + taken]
  <2>1. batch[<<s, l>>] \subseteq Task /\ handled[s] \in 0 .. VisibleBatch
    BY <1>2
  <2>2. CASE l = "visible"
    <3>1. Held(s) = taken
      BY <1>1, <2>2 DEF Held
    <3>2. handled[s] + Held(s) <= VisibleBatch
      BY DEF IInv, WithinBatch
    <3>3. Cardinality(batch[<<s, l>>]) \in Nat
      BY <2>1, TasksFinite
    <3> QED BY <2>2, <3>1, <3>2, <3>3 DEF Take
  <2>3. CASE l # "visible"
    <3>1. handled' = handled
      BY <2>3 DEF Take
    <3>2. handled' = [handled EXCEPT ![s] = @ + 0]
      BY <1>2, <2>1, <3>1, ConstantsAssumption
    <3> QED BY <2>1, <2>3, <3>2, ConstantsAssumption
  <2> QED BY <2>2, <2>3
<1> HIDE DEF taken
<1>5. handled' \in [Sweep -> 0 .. VisibleBatch]
  <2>1. handled[s] + taken \in 0 .. VisibleBatch
    BY <1>2, <1>4, ConstantsAssumption
  <2> QED BY <1>2, <1>4, <2>1
<1>6. StuckNeverOver'
  <2>1. \A h \in stuck : h \in (Sweep \X Lane) \ {<<s, l>>} /\ lane[h] # "over"
    BY <1>1, StuckLanes
  <2> QED BY <1>1, <1>3, <2>1 DEF StuckNeverOver
<1>7. WithinBatch'
  <2> SUFFICES ASSUME NEW r \in Sweep PROVE handled'[r] + Held(r)' <= VisibleBatch
    BY DEF WithinBatch
  <2>1. handled[r] + Held(r) <= VisibleBatch
    BY DEF IInv, WithinBatch
  <2>2. CASE r = s
    <3>1. handled'[r] = handled[r] + taken
      BY <1>2, <1>4, <2>2
    <3>2. CASE l = "visible"
      <4>1. Held(r)' = 0
        BY <1>3, <2>2, <3>2 DEF Held
      <4> QED BY <1>2, <1>4, <2>2, <3>1, <4>1, ConstantsAssumption
    <3>3. CASE l # "visible"
      <4>1. Held(r)' = Held(r)
        BY <1>3, <3>3 DEF Held
      <4>2. taken = 0
        BY <3>3 DEF taken
      <4> QED BY <1>2, <2>1, <3>1, <4>1, <4>2, ConstantsAssumption
    <3> QED BY <3>2, <3>3
  <2>3. CASE r # s
    <3>1. handled'[r] = handled[r]
      BY <1>2, <1>4, <2>3
    <3>2. Held(r)' = Held(r)
      BY <1>3, <2>3 DEF Held
    <3> QED BY <2>1, <3>1, <3>2
  <2> QED BY <2>2, <2>3
<1> QED BY <1>1, <1>2, <1>3, <1>5, <1>6, <1>7, LanesKeep

LEMMA StopWaitingKeeps ==
  ASSUME IInv, NEW s \in Sweep, NEW l \in Lane, NEW t \in Task,
         StopWaiting(s, l, t)
  PROVE  IInv'
<1> DEFINE next == IF batch[<<s, l>>] # {t} THEN "working"
                   ELSE IF ClaimsAgain(s, l) THEN "claiming" ELSE "over"
<1>1. /\ <<s, l>> \notin stuck
      /\ lane' = [lane EXCEPT ![<<s, l>>] = next]
      /\ batch' = [batch EXCEPT ![<<s, l>>] = @ \ {t}]
      /\ UNCHANGED <<row, attempts, begun, handled, sweeping, stuck, stalls,
                     restarts>>
  BY DEF StopWaiting, faults, queue
<1>2. /\ row \in [Task -> {"absent", "due", "leased", "done"}]
      /\ attempts \in [Task -> 0 .. MaxAttempts]
      /\ begun \subseteq Task
      /\ lane \in [Sweep \X Lane -> {"claiming", "claimed", "working", "over"}]
      /\ batch \in [Sweep \X Lane -> SUBSET Task]
      /\ handled \in [Sweep -> 0 .. VisibleBatch]
      /\ stuck \subseteq live \X Lane
      /\ stalls \in 0 .. MaxStalls
  BY DEF IInv, TypeOK
<1>3. next \in {"claiming", "working", "over"}
  OBVIOUS
<1> HIDE DEF next
<1>4. /\ lane' \in [Sweep \X Lane -> {"claiming", "claimed", "working", "over"}]
      /\ batch' \in [Sweep \X Lane -> SUBSET Task]
  BY <1>1, <1>2, <1>3
<1>5. StuckNeverOver'
  <2>1. \A h \in stuck : h \in (Sweep \X Lane) \ {<<s, l>>} /\ lane[h] # "over"
    BY <1>1, StuckLanes
  <2>2. \A h \in (Sweep \X Lane) \ {<<s, l>>} : lane'[h] = lane[h]
    BY <1>1, <1>2
  <2> QED BY <1>1, <2>1, <2>2 DEF StuckNeverOver
<1>6. WithinBatch'
  <2> SUFFICES ASSUME NEW r \in Sweep PROVE handled[r] + Held(r)' <= VisibleBatch
    BY <1>1 DEF WithinBatch
  <2>1. handled[r] + Held(r) <= VisibleBatch
    BY DEF IInv, WithinBatch
  <2>2. CASE <<s, l>> = <<r, "visible">>
    <3>1. Held(r)' = 0
      BY <1>1, <1>2, <1>3, <2>2 DEF Held
    <3> QED BY <1>2, <3>1, ConstantsAssumption
  <2>3. CASE <<s, l>> # <<r, "visible">>
    <3>1. /\ lane'[<<r, "visible">>] = lane[<<r, "visible">>]
          /\ batch'[<<r, "visible">>] = batch[<<r, "visible">>]
      BY <1>1, <1>2, <2>3
    <3> QED BY <2>1, <3>1 DEF Held
  <2> QED BY <2>2, <2>3
<1> QED BY <1>1, <1>2, <1>4, <1>5, <1>6, LanesKeep

LEMMA StallKeeps ==
  ASSUME IInv, NEW s \in Sweep, NEW l \in Lane, Stall(s, l)
  PROVE  IInv'
<1>1. /\ s \in live /\ lane[<<s, l>>] # "over" /\ stalls < MaxStalls
      /\ stuck' = stuck \cup {<<s, l>>} /\ stalls' = stalls + 1
      /\ UNCHANGED <<row, attempts, begun, sweeping, lane, batch, handled, restarts>>
  BY DEF Stall, queue, lanes
<1>2. /\ row \in [Task -> {"absent", "due", "leased", "done"}]
      /\ attempts \in [Task -> 0 .. MaxAttempts]
      /\ begun \subseteq Task
      /\ lane \in [Sweep \X Lane -> {"claiming", "claimed", "working", "over"}]
      /\ batch \in [Sweep \X Lane -> SUBSET Task]
      /\ handled \in [Sweep -> 0 .. VisibleBatch]
      /\ stuck \subseteq live \X Lane
      /\ stalls \in 0 .. MaxStalls
  BY DEF IInv, TypeOK
<1>3. stuck' \subseteq live \X Lane /\ stalls' \in 0 .. MaxStalls
  BY <1>1, <1>2, ConstantsAssumption
<1>4. StuckNeverOver' /\ WithinBatch'
  BY <1>1 DEF IInv, StuckNeverOver, WithinBatch, Held
<1> QED BY <1>1, <1>2, <1>3, <1>4, LanesKeep

-----------------------------------------------------------------------------
(* The sweeps: the rows, and what is stuck, do not change.                 *)

(* A run that ends or begins: alive sweeps were live before and keep their *)
(* lanes, a new one is not among them.                                     *)
LEMMA SweepsKeep ==
  ASSUME IInv, NEW alive \in SUBSET live,
         \A h \in stuck : h[1] \in alive,
         alive \subseteq live', live' \subseteq Sweep,
         aborted' \subseteq alive, unsettled' \subseteq aborted',
         current' \in 0 .. MaxSweeps,
         current' # 0 => current' \in live' \ aborted',
         Cardinality(unsettled' \cup ({current'} \ {0})) <= MaxAbandoned,
         trailing' \in BOOLEAN, trailing' => current' # 0,
         lane' \in [Sweep \X Lane -> {"claiming", "claimed", "working", "over"}],
         batch' \in [Sweep \X Lane -> SUBSET Task],
         handled' \in [Sweep -> 0 .. VisibleBatch],
         \A s \in alive : \A l \in Lane : lane'[<<s, l>>] = lane[<<s, l>>],
         WithinBatch',
         UNCHANGED <<queue, begun, faults>>
  PROVE  IInv'
<1>1. UNCHANGED <<row, attempts, begun, stuck, stalls, restarts>>
  BY DEF queue, faults
<1>2. Cardinality(unsettled') <= MaxAbandoned
  <2>1. unsettled' \cup ({current'} \ {0}) \in SUBSET Sweep
    BY DEF IInv, TypeOK
  <2>2. unsettled' \in SUBSET (unsettled' \cup ({current'} \ {0}))
    OBVIOUS
  <2>3. /\ Cardinality(unsettled') <= Cardinality(unsettled' \cup ({current'} \ {0}))
        /\ Cardinality(unsettled') \in Nat
        /\ Cardinality(unsettled' \cup ({current'} \ {0})) \in Nat
    BY <2>1, <2>2, SmallerSet, SweepsFinite
  <2> QED BY <2>3, ConstantsAssumption
<1>3. stuck' \subseteq live' \X Lane
  <2>1. \A h \in stuck : h \in live \X Lane
    BY StuckLanes
  <2>2. \A h \in stuck : h \in live' \X Lane
    BY <2>1
  <2> QED BY <1>1, <2>2
<1>4. TypeOK'
  <2>1. aborted' \subseteq live'
    OBVIOUS
  <2> QED BY <1>1, <1>2, <1>3, <2>1 DEF IInv, TypeOK
<1>5. StuckNeverOver'
  <2> SUFFICES ASSUME NEW h \in stuck PROVE lane'[h] # "over"
    BY <1>1 DEF StuckNeverOver
  <2>1. h \in live \X Lane /\ lane[h] # "over"
    BY StuckLanes
  <2>2. h = <<h[1], h[2]>> /\ h[1] \in alive /\ h[2] \in Lane
    BY <2>1
  <2>3. lane'[<<h[1], h[2]>>] = lane[<<h[1], h[2]>>]
    BY <2>2
  <2> QED BY <2>1, <2>2, <2>3
<1>6. CurrentRuns' /\ PokeIsAnswered'
  BY DEF CurrentRuns, PokeIsAnswered
<1>7. OneSweepCounted'
  BY DEF OneSweepCounted, Counted
<1> QED BY <1>4, <1>5, <1>6, <1>7 DEF IInv

LEMMA SweepTypes ==
  ASSUME IInv
  PROVE  /\ live \subseteq Sweep /\ aborted \subseteq live
         /\ unsettled \subseteq aborted /\ unsettled \subseteq live
         /\ Cardinality(unsettled) <= MaxAbandoned
         /\ Cardinality(Counted) <= MaxAbandoned
         /\ current \in 0 .. MaxSweeps /\ trailing \in BOOLEAN
         /\ current # 0 => current \in live \ aborted
         /\ trailing => current # 0
         /\ \A h \in stuck : h[1] \in live
         /\ lane \in [Sweep \X Lane -> {"claiming", "claimed", "working", "over"}]
         /\ batch \in [Sweep \X Lane -> SUBSET Task]
         /\ handled \in [Sweep -> 0 .. VisibleBatch]
<1>1. \A h \in stuck : h[1] \in live
  BY StuckLanes
<1>2. unsettled \subseteq live
  BY DEF IInv, TypeOK
<1> QED BY <1>1, <1>2 DEF IInv, TypeOK, CurrentRuns, OneSweepCounted, PokeIsAnswered

(* Fewer sweeps are held against the next.                                 *)
LEMMA HeldLess ==
  ASSUME IInv, NEW held \in SUBSET unsettled
  PROVE  /\ Cardinality(held) <= MaxAbandoned
         /\ Cardinality(held \cup ({current} \ {0})) <= MaxAbandoned
<1>1. Counted \in SUBSET Sweep /\ unsettled \in SUBSET Sweep
  BY SweepTypes DEF Counted
<1>2. held \cup ({current} \ {0}) \in SUBSET Counted
  BY DEF Counted
<1>3. /\ Cardinality(held) <= Cardinality(unsettled)
      /\ Cardinality(held) \in Nat /\ Cardinality(unsettled) \in Nat
  BY <1>1, SmallerSet, SweepsFinite
<1>4. /\ Cardinality(held \cup ({current} \ {0})) <= Cardinality(Counted)
      /\ Cardinality(held \cup ({current} \ {0})) \in Nat
      /\ Cardinality(Counted) \in Nat
  BY <1>1, <1>2, SmallerSet, SweepsFinite
<1> QED BY <1>3, <1>4, SweepTypes, ConstantsAssumption

LEMMA PokeKeeps ==
  ASSUME IInv, Poke
  PROVE  IInv'
<1>1. RunSweep(live, unsettled) /\ current = 0
      /\ UNCHANGED <<trailing, aborted, unsettled>> /\ UNCHANGED <<queue, begun, faults>>
  BY DEF Poke
<1>2. trailing = FALSE
  BY <1>1, SweepTypes
<1>3. live \in SUBSET Sweep /\ unsettled \in SUBSET live
      /\ Cardinality(unsettled) <= MaxAbandoned
  BY SweepTypes
<1>4. /\ current' \in 0 .. MaxSweeps
      /\ live' \subseteq Sweep /\ live \subseteq live'
      /\ current' # 0 => current' \in live' \ live
      /\ Cardinality(unsettled \cup ({current'} \ {0})) <= MaxAbandoned
      /\ lane' \in [Sweep \X Lane -> {"claiming", "claimed", "working", "over"}]
      /\ batch' \in [Sweep \X Lane -> SUBSET Task]
      /\ handled' \in [Sweep -> 0 .. VisibleBatch]
      /\ \A s \in live : \A l \in Lane : lane'[<<s, l>>] = lane[<<s, l>>]
      /\ WithinBatch'
  BY <1>1, <1>3, RunSweepKeeps
<1>5. /\ current' # 0 => current' \in live' \ aborted'
      /\ aborted' \subseteq live /\ unsettled' \subseteq aborted'
      /\ \A h \in stuck : h[1] \in live
      /\ Cardinality(unsettled' \cup ({current'} \ {0})) <= MaxAbandoned
      /\ trailing' \in BOOLEAN /\ (trailing' => current' # 0)
  BY <1>1, <1>2, <1>4, SweepTypes
<1> QED BY <1>1, <1>4, <1>5, SweepsKeep

(* The sweeps and their lanes stay, and perhaps fewer are held.            *)
LEMMA HoldKeeps ==
  ASSUME IInv, unsettled' \subseteq unsettled,
         trailing' \in BOOLEAN, trailing' => current # 0,
         UNCHANGED <<queue, begun, current, live, aborted, lanes, faults>>
  PROVE  IInv'
<1>1. UNCHANGED <<lane, batch, handled>>
  BY DEF lanes
<1>2. WithinBatch'
  BY <1>1 DEF IInv, WithinBatch, Held
<1>3. Cardinality(unsettled' \cup ({current'} \ {0})) <= MaxAbandoned
  BY HeldLess
<1>4. /\ live \in SUBSET live /\ live \subseteq live' /\ live' \subseteq Sweep
      /\ aborted' \subseteq live /\ unsettled' \subseteq aborted'
      /\ current' \in 0 .. MaxSweeps
      /\ current' # 0 => current' \in live' \ aborted'
      /\ \A h \in stuck : h[1] \in live
  BY SweepTypes
<1>5. /\ lane' \in [Sweep \X Lane -> {"claiming", "claimed", "working", "over"}]
      /\ batch' \in [Sweep \X Lane -> SUBSET Task]
      /\ handled' \in [Sweep -> 0 .. VisibleBatch]
      /\ \A s \in live : \A l \in Lane : lane'[<<s, l>>] = lane[<<s, l>>]
  BY <1>1, SweepTypes
<1> QED BY <1>2, <1>3, <1>4, <1>5, SweepsKeep

LEMMA PokeDuringRunKeeps ==
  ASSUME IInv, PokeDuringRun
  PROVE  IInv'
BY HoldKeeps DEF PokeDuringRun

LEMMA ForgetKeeps ==
  ASSUME IInv, NEW s \in Sweep, Forget(s)
  PROVE  IInv'
BY HoldKeeps, SweepTypes DEF Forget

LEMMA AbandonKeeps ==
  ASSUME IInv, Abandon
  PROVE  IInv'
<1> DEFINE held == unsettled \cup {current}
<1>1. /\ current # 0 /\ aborted' = aborted \cup {current}
      /\ unsettled' = held /\ Continue(live, held)
      /\ UNCHANGED <<queue, begun, faults>>
  BY DEF Abandon
<1>2. held = Counted
  BY <1>1 DEF Counted
<1>3. live \in SUBSET Sweep /\ held \in SUBSET live /\ Cardinality(held) <= MaxAbandoned
  BY <1>1, <1>2, SweepTypes
<1> HIDE DEF held
<1>4. /\ current' \in 0 .. MaxSweeps
      /\ live' \subseteq Sweep /\ live \subseteq live'
      /\ current' # 0 => current' \in live' \ live
      /\ Cardinality(held \cup ({current'} \ {0})) <= MaxAbandoned
      /\ lane' \in [Sweep \X Lane -> {"claiming", "claimed", "working", "over"}]
      /\ batch' \in [Sweep \X Lane -> SUBSET Task]
      /\ handled' \in [Sweep -> 0 .. VisibleBatch]
      /\ \A s \in live : \A l \in Lane : lane'[<<s, l>>] = lane[<<s, l>>]
      /\ WithinBatch'
      /\ trailing' = FALSE
  BY <1>1, <1>3, ContinueKeeps
<1>5. /\ aborted' \subseteq live /\ unsettled' \subseteq aborted'
      /\ current' # 0 => current' \in live' \ aborted'
      /\ \A h \in stuck : h[1] \in live
      /\ Cardinality(unsettled' \cup ({current'} \ {0})) <= MaxAbandoned
  BY <1>1, <1>4, SweepTypes DEF held
<1> QED BY <1>1, <1>4, <1>5, SweepsKeep

LEMMA SweepSettlesKeeps ==
  ASSUME IInv, NEW s \in Sweep, SweepSettles(s)
  PROVE  IInv'
<1> DEFINE alive == live \ {s}
           held == unsettled \ {s}
<1>1. /\ s \in live /\ \A l \in Lane : lane[<<s, l>>] = "over"
      /\ aborted' = aborted \ {s} /\ unsettled' = held
      /\ UNCHANGED <<queue, begun, faults>>
  BY DEF SweepSettles
<1>2. \A h \in stuck : h[1] \in alive
  <2> SUFFICES ASSUME NEW h \in stuck, h[1] = s PROVE FALSE
    BY SweepTypes
  <2>1. h \in live \X Lane /\ lane[h] # "over"
    BY StuckLanes
  <2>2. h = <<s, h[2]>> /\ h[2] \in Lane
    BY <2>1
  <2> QED BY <1>1, <2>1, <2>2
<1>3. /\ alive \in SUBSET Sweep /\ alive \in SUBSET live
      /\ held \in SUBSET alive /\ held \in SUBSET unsettled
      /\ aborted' \subseteq alive /\ unsettled' \subseteq aborted'
  BY <1>1, SweepTypes
<1>4. CASE current = s
  <2>1. Continue(alive, held)
    BY <1>1, <1>4 DEF SweepSettles
  <2>2. Cardinality(held) <= MaxAbandoned
    BY <1>3, HeldLess
  <2> HIDE DEF alive, held
  <2>3. /\ current' \in 0 .. MaxSweeps
        /\ live' \subseteq Sweep /\ alive \subseteq live'
        /\ current' # 0 => current' \in live' \ alive
        /\ Cardinality(held \cup ({current'} \ {0})) <= MaxAbandoned
        /\ lane' \in [Sweep \X Lane -> {"claiming", "claimed", "working", "over"}]
        /\ batch' \in [Sweep \X Lane -> SUBSET Task]
        /\ handled' \in [Sweep -> 0 .. VisibleBatch]
        /\ \A r \in alive : \A l \in Lane : lane'[<<r, l>>] = lane[<<r, l>>]
        /\ WithinBatch'
        /\ trailing' = FALSE
    BY <1>3, <2>1, <2>2, ContinueKeeps
  <2>4. /\ current' # 0 => current' \in live' \ aborted'
        /\ Cardinality(unsettled' \cup ({current'} \ {0})) <= MaxAbandoned
    BY <1>1, <1>3, <2>3
  <2> QED BY <1>1, <1>2, <1>3, <2>3, <2>4, SweepsKeep
<1>5. CASE current # s
  <2>1. live' = alive /\ UNCHANGED <<current, trailing, lane, batch, handled>>
    BY <1>1, <1>5 DEF SweepSettles, lanes
  <2>2. WithinBatch'
    BY <2>1 DEF IInv, WithinBatch, Held
  <2>3. Cardinality(unsettled' \cup ({current'} \ {0})) <= MaxAbandoned
    BY <1>1, <1>3, <2>1, HeldLess
  <2>4. current' # 0 => current' \in live' \ aborted'
    BY <1>1, <1>5, <2>1, SweepTypes
  <2>5. /\ alive \subseteq live' /\ live' \subseteq Sweep
        /\ current' \in 0 .. MaxSweeps
        /\ trailing' \in BOOLEAN /\ (trailing' => current' # 0)
        /\ lane' \in [Sweep \X Lane -> {"claiming", "claimed", "working", "over"}]
        /\ batch' \in [Sweep \X Lane -> SUBSET Task]
        /\ handled' \in [Sweep -> 0 .. VisibleBatch]
        /\ \A r \in alive : \A l \in Lane : lane'[<<r, l>>] = lane[<<r, l>>]
    BY <1>3, <2>1, SweepTypes
  <2> HIDE DEF alive, held
  <2> QED BY <1>1, <1>2, <1>3, <2>2, <2>3, <2>4, <2>5, SweepsKeep
<1> QED BY <1>4, <1>5

LEMMA RestartKeeps ==
  ASSUME IInv, Restart
  PROVE  IInv'
<1> USE ConstantsAssumption
<1>1. /\ restarts < MaxRestarts /\ restarts' = restarts + 1
      /\ current' = 0 /\ trailing' = FALSE
      /\ live' = {} /\ aborted' = {} /\ unsettled' = {}
      /\ lane' = [h \in Sweep \X Lane |-> "over"]
      /\ batch' = [h \in Sweep \X Lane |-> {}]
      /\ handled' = [s \in Sweep |-> 0]
      /\ stuck' = {}
      /\ UNCHANGED <<row, attempts, begun, stalls>>
  BY DEF Restart, queue
<1>2. Cardinality({}) = 0
  BY FS_EmptySet
<1>3. /\ row' \in [Task -> {"absent", "due", "leased", "done"}]
      /\ attempts' \in [Task -> 0 .. MaxAttempts]
      /\ begun' \subseteq Task
      /\ stalls' \in 0 .. MaxStalls /\ restarts' \in 0 .. MaxRestarts
  BY <1>1 DEF IInv, TypeOK
<1>4. /\ lane' \in [Sweep \X Lane -> {"claiming", "claimed", "working", "over"}]
      /\ batch' \in [Sweep \X Lane -> SUBSET Task]
      /\ handled' \in [Sweep -> 0 .. VisibleBatch]
  <2>1. 0 \in 0 .. VisibleBatch
    OBVIOUS
  <2> QED BY <1>1, <2>1
<1>5. TypeOK'
  <2>1. current' \in 0 .. MaxSweeps /\ trailing' \in BOOLEAN
    <3>1. 0 \in 0 .. MaxSweeps
      BY MaxSweeps \in Nat
    <3> QED BY <1>1, <3>1
  <2>2. /\ live' \subseteq Sweep /\ aborted' \subseteq live'
        /\ unsettled' \subseteq aborted' /\ stuck' \subseteq live' \X Lane
    BY <1>1
  <2>3. Cardinality(unsettled') <= MaxAbandoned
    BY <1>1, <1>2
  <2> QED BY <1>3, <1>4, <2>1, <2>2, <2>3 DEF TypeOK
<1>6. CurrentRuns' /\ StuckNeverOver' /\ PokeIsAnswered'
  BY <1>1 DEF CurrentRuns, StuckNeverOver, PokeIsAnswered
<1>7. WithinBatch'
  <2> SUFFICES ASSUME NEW s \in Sweep PROVE (handled[s] + Held(s) <= VisibleBatch)'
    BY DEF WithinBatch
  <2>1. <<s, "visible">> \in Sweep \X Lane
    OBVIOUS
  <2>2. handled'[s] = 0 /\ lane'[<<s, "visible">>] = "over"
    BY <1>1, <2>1
  <2> QED BY <2>2 DEF Held
<1>8. OneSweepCounted'
  <2>1. Counted' = {}
    BY <1>1 DEF Counted
  <2> QED BY <1>2, <2>1 DEF OneSweepCounted
<1> QED BY <1>5, <1>6, <1>7, <1>8 DEF IInv

LEMMA StepKeeps == IInv /\ [Next]_vars => IInv'
<1> SUFFICES ASSUME IInv, [Next]_vars PROVE IInv'
  OBVIOUS
<1>1. CASE \E t \in Task : Commit(t) \/ Close(t) \/ LeaseLapses(t)
  BY <1>1, RowStep
<1>2. CASE Poke
  BY <1>2, PokeKeeps
<1>3. CASE PokeDuringRun
  BY <1>3, PokeDuringRunKeeps
<1>4. CASE Abandon
  BY <1>4, AbandonKeeps
<1>5. CASE Restart
  BY <1>5, RestartKeeps
<1>6. CASE \E s \in Sweep : SweepSettles(s) \/ Forget(s)
  BY <1>6, SweepSettlesKeeps, ForgetKeeps
<1>7. CASE \E s \in Sweep, l \in Lane :
             \/ Claim(s, l) \/ Take(s, l) \/ Stall(s, l)
             \/ \E t \in Task : StopWaiting(s, l, t)
  BY <1>7, ClaimKeeps, TakeKeeps, StallKeeps, StopWaitingKeeps
<1>8. CASE UNCHANGED vars
  <2>1. unsettled' \subseteq unsettled /\ trailing' = trailing
    BY <1>8 DEF vars
  <2>2. UNCHANGED <<queue, begun, current, live, aborted, lanes, faults>>
    BY <1>8 DEF vars, queue, lanes, faults
  <2> QED BY <2>1, <2>2, HoldKeeps, SweepTypes
<1> QED BY <1>1, <1>2, <1>3, <1>4, <1>5, <1>6, <1>7, <1>8 DEF Next

-----------------------------------------------------------------------------
(* The theorems.                                                           *)

(* The invariant: what is live, abandoned and held fits together.          *)
THEOREM Invariant == Spec => []IInv
BY InitEstablishes, StepKeeps, PTL DEF Spec

(* Every variable keeps its type; no row is claimed more than MaxAttempts  *)
(* times and no visible lane takes more than VISIBLE_BATCH rows.           *)
THEOREM TypeCorrect == Spec => []TypeOK
<1>1. IInv => TypeOK
  BY DEF IInv
<1> QED BY Invariant, <1>1, PTL

(* The active sweep and the abandoned ones held against it are at most     *)
(* maxAbandoned together.                                                  *)
THEOREM OneSweep == Spec => []OneSweepCounted
<1>1. IInv => OneSweepCounted
  BY DEF IInv
<1> QED BY Invariant, <1>1, PTL

(* No poke is left waiting beside an idle queue.                           *)
THEOREM PokesAnswered == Spec => []PokeIsAnswered
<1>1. IInv => PokeIsAnswered
  BY DEF IInv
<1> QED BY Invariant, <1>1, PTL

(* What a step of a lane leaves of the other lanes' work, and of its own.  *)
LEMMA LaneWorks ==
  ASSUME IInv, NEW r \in Sweep, NEW l \in Lane,
         \/ Claim(r, l) \/ Take(r, l) \/ Stall(r, l)
         \/ \E t \in Task : StopWaiting(r, l, t),
         NEW s \in aborted, NEW k \in Lane, lane'[<<s, k>>] = "working"
  PROVE  lane[<<s, k>>] = "working" /\ batch'[<<s, k>>] \subseteq batch[<<s, k>>]
<1>1. /\ lane \in [Sweep \X Lane -> {"claiming", "claimed", "working", "over"}]
      /\ batch \in [Sweep \X Lane -> SUBSET Task]
      /\ s \in Sweep /\ <<s, k>> \in Sweep \X Lane
  BY SweepTypes
<1>2. CASE Claim(r, l)
  <2>1. /\ lane' = [lane EXCEPT ![<<r, l>>] = "claimed"]
        /\ \E rows \in SUBSET Due(l) : batch' = [batch EXCEPT ![<<r, l>>] = rows]
    BY <1>2 DEF Claim
  <2>2. <<s, k>> # <<r, l>>
    BY <1>1, <2>1
  <2> QED BY <1>1, <2>1, <2>2
<1>3. CASE Take(r, l)
  <2>1. CASE Begins(r, l)
    <3>1. r \notin aborted /\ batch' = batch
          /\ lane' = [lane EXCEPT ![<<r, l>>] = "working"]
      BY <1>3, <2>1 DEF Take, Begins
    <3>2. <<s, k>> # <<r, l>>
      BY <3>1
    <3> QED BY <1>1, <3>1, <3>2
  <2>2. CASE ~ Begins(r, l)
    <3>1. /\ lane' = [lane EXCEPT ![<<r, l>>] = "over"]
          /\ batch' = [batch EXCEPT ![<<r, l>>] = {}]
      BY <1>3, <2>2 DEF Take
    <3> QED BY <1>1, <3>1
  <2> QED BY <2>1, <2>2
<1>4. CASE Stall(r, l)
  BY <1>4 DEF Stall, lanes
<1>5. CASE \E t \in Task : StopWaiting(r, l, t)
  <2>1. PICK t \in Task : StopWaiting(r, l, t)
    BY <1>5
  <2>2. /\ lane[<<r, l>>] = "working"
        /\ batch' = [batch EXCEPT ![<<r, l>>] = @ \ {t}]
    BY <2>1 DEF StopWaiting
  <2>3. PICK v : lane' = [lane EXCEPT ![<<r, l>>] = v]
    BY <2>1 DEF StopWaiting
  <2> QED BY <1>1, <2>2, <2>3
<1> QED BY <1>2, <1>3, <1>4, <1>5

(* A sweep begins no task once it is abandoned, whatever its claims return *)
(* after that.                                                             *)
THEOREM AbandonedBegins == Spec => AbandonedBeginsNothing
<1> DEFINE Keeps == \A s \in aborted \cap live' : Working(s)' \subseteq Working(s)
<1>1. IInv /\ [Next]_vars => Keeps
  <2> SUFFICES ASSUME IInv, [Next]_vars,
                      NEW s \in aborted, s \in live',
                      NEW k \in Lane, lane'[<<s, k>>] = "working"
               PROVE  /\ lane[<<s, k>>] = "working"
                      /\ batch'[<<s, k>>] \subseteq batch[<<s, k>>]
    BY DEF Working
  <2>1. s \in live /\ s # current
    BY SweepTypes
  <2>2. live \in SUBSET Sweep /\ unsettled \in SUBSET live
        /\ Cardinality(unsettled) <= MaxAbandoned
    BY SweepTypes
  <2>3. CASE \E t \in Task : Commit(t) \/ Close(t) \/ LeaseLapses(t)
    BY <2>3 DEF Commit, Close, LeaseLapses, lanes
  <2>4. CASE Poke
    <3>1. RunSweep(live, unsettled)
      BY <2>4 DEF Poke
    <3>2. \A r \in live : \A l \in Lane :
            lane'[<<r, l>>] = lane[<<r, l>>] /\ batch'[<<r, l>>] = batch[<<r, l>>]
      BY <2>2, <3>1, RunSweepKeeps
    <3> QED BY <2>1, <3>2
  <2>5. CASE PokeDuringRun
    BY <2>5 DEF PokeDuringRun, lanes
  <2>6. CASE Abandon
    <3> DEFINE held == unsettled \cup {current}
    <3>1. current # 0 /\ Continue(live, held)
      BY <2>6 DEF Abandon
    <3>2. held = Counted
      BY <3>1 DEF Counted
    <3>3. held \in SUBSET live /\ Cardinality(held) <= MaxAbandoned
      BY <3>1, <3>2, SweepTypes
    <3> HIDE DEF held
    <3>4. \A r \in live : \A l \in Lane :
            lane'[<<r, l>>] = lane[<<r, l>>] /\ batch'[<<r, l>>] = batch[<<r, l>>]
      BY <2>2, <3>1, <3>3, ContinueKeeps
    <3> QED BY <2>1, <3>4
  <2>7. CASE Restart
    BY <2>7 DEF Restart
  <2>8. CASE \E r \in Sweep : Forget(r)
    BY <2>8 DEF Forget, lanes
  <2>9. CASE \E r \in Sweep : SweepSettles(r)
    <3>1. PICK r \in Sweep : SweepSettles(r)
      BY <2>9
    <3>2. CASE current = r
      <4> DEFINE alive == live \ {r}
                 held == unsettled \ {r}
      <4>1. Continue(alive, held)
        BY <3>1, <3>2 DEF SweepSettles
      <4>2. Cardinality(held) <= MaxAbandoned
        BY HeldLess
      <4>3. alive \in SUBSET Sweep /\ held \in SUBSET alive /\ s \in alive
        BY <2>1, <2>2, <3>2
      <4> HIDE DEF alive, held
      <4>4. \A q \in alive : \A l \in Lane :
              lane'[<<q, l>>] = lane[<<q, l>>] /\ batch'[<<q, l>>] = batch[<<q, l>>]
        BY <4>1, <4>2, <4>3, ContinueKeeps
      <4> QED BY <4>3, <4>4
    <3>3. CASE current # r
      BY <3>1, <3>3 DEF SweepSettles, lanes
    <3> QED BY <3>2, <3>3
  <2>10. CASE \E r \in Sweep, l \in Lane :
                \/ Claim(r, l) \/ Take(r, l) \/ Stall(r, l)
                \/ \E t \in Task : StopWaiting(r, l, t)
    BY <2>10, LaneWorks
  <2>11. CASE UNCHANGED vars
    BY <2>11 DEF vars
  <2> QED BY <2>3, <2>4, <2>5, <2>6, <2>7, <2>8, <2>9, <2>10, <2>11 DEF Next
<1>2. Keeps => [Keeps]_vars
  OBVIOUS
<1> QED BY Invariant, <1>1, <1>2, PTL DEF Spec, AbandonedBeginsNothing
=============================================================================
