--------------------------- MODULE AgentRunsProofs ---------------------------
(***************************************************************************)
(* Theorems about AgentRuns for every number of runs, deliveries,          *)
(* dispatchers and restarts.                                               *)
(***************************************************************************)
EXTENDS AgentRuns, TLAPS

(* A delivery that was sent or has a session was made for a run.           *)
DeliveriesMade ==
  \A d \in Delivery : d \in sending \/ turn[d] # "none" => runOf[d] \in Run

(* A run an event has inserted is not visible before its commit.           *)
InsertingAbsent == \A r \in inserting : state[r] = "absent"

(* A run that does not exist has no delivery, and neither has a run left   *)
(* queued on a deleted agent: the deletion cancelled every run that had    *)
(* one and no session had taken.                                           *)
Undeliverable(r) ==
  \/ state[r] = "absent"
  \/ agent = "DELETED" /\ state[r] = "QUEUED"

UndeliverableUndelivered ==
  \A r \in Run : Undeliverable(r) => \A d \in Delivery : runOf[d] # r

IInv ==
  /\ TypeOK
  /\ DeliveriesMade
  /\ InsertingAbsent
  /\ UndeliverableUndelivered

USE DEF Run, Delivery, AgentStatus, Ends, Status, Active, Age, Turn, Running,
        Ended

LEMMA InitEstablishes == Init => IInv
<1> SUFFICES ASSUME Init PROVE IInv
  OBVIOUS
<1> USE ConstantsAssumption DEF Init
<1>1. TypeOK
  <2>1. 0 \in 0 .. MaxRuns /\ 0 \in 0 .. MaxDeliveries /\ 0 \in 0 .. MaxCrashes
    OBVIOUS
  <2>2. session \in [Run -> 0 .. MaxDeliveries]
    BY <2>1
  <2>3. picked \in [Dispatcher -> 0 .. MaxRuns]
    BY <2>1
  <2>4. runOf \in [Delivery -> 0 .. MaxRuns]
    BY <2>1
  <2> QED BY <2>1, <2>2, <2>3, <2>4 DEF TypeOK
<1>2. DeliveriesMade /\ InsertingAbsent
  BY DEF DeliveriesMade, InsertingAbsent
<1>3. UndeliverableUndelivered
  BY DEF UndeliverableUndelivered
<1> QED BY <1>1, <1>2, <1>3 DEF IInv

(* The terminal writes: rows keep their types, no ended run is queued.     *)
LEMMA EndKeeps ==
  ASSUME TypeOK, NEW S, NEW status \in Ends, End(S, status)
  PROVE  /\ state' \in [Run -> Status]
         /\ age' \in [Run -> Age]
         /\ session' \in [Run -> 0 .. MaxDeliveries]
         /\ \A r \in Run : age'[r] = "null" <=> state'[r] # "RUNNING"
         /\ \A r \in Run :
              state'[r] = IF r \in S THEN status ELSE state[r]
BY DEF End, TypeOK

(* An end of runs that exist, the rest of the state unchanged or typed.    *)
LEMMA EndingKeeps ==
  ASSUME IInv, NEW S, NEW status \in Ends, End(S, status),
         \A r \in S \cap Run : state[r] # "absent",
         agent' = agent, runOf' = runOf, inserting' = inserting
  PROVE  InsertingAbsent' /\ UndeliverableUndelivered'
<1>1. \A r \in Run : state'[r] = IF r \in S THEN status ELSE state[r]
  BY EndKeeps DEF IInv
<1>2. InsertingAbsent'
  BY <1>1 DEF IInv, TypeOK, InsertingAbsent
<1>3. \A r \in Run : Undeliverable(r)' => Undeliverable(r)
  BY <1>1 DEF Undeliverable
<1>4. UndeliverableUndelivered'
  BY <1>3 DEF IInv, UndeliverableUndelivered
<1> QED BY <1>2, <1>4

LEMMA QueueingKeeps ==
  ASSUME IInv, (\E r \in Run : Queueing(r)) \/ Eventing
  PROVE  IInv'
<1> USE ConstantsAssumption DEF IInv, TypeOK, DeliveriesMade, InsertingAbsent,
      UndeliverableUndelivered, Undeliverable, rows, made, events
<1>1. ASSUME NEW r \in Run, Queueing(r) PROVE IInv'
  <2>1. CreateRun(r)
    BY <1>1 DEF Queueing, RunNow, RetryRun, QueueScheduled
  <2>2. state[r] = "absent"
    BY <2>1 DEF CreateRun, NextNumber, Numbered
  <2> QED BY <2>1, <2>2 DEF CreateRun, AgentLockable
<1>2. CASE AdmitEvent
  BY <1>2 DEF AdmitEvent
<1>3. ASSUME NEW q \in Run, InsertEventRun(q) PROVE IInv'
  <2>1. state[q] = "absent"
    BY <1>3 DEF InsertEventRun, NextNumber, Numbered
  <2> QED BY <1>3, <2>1 DEF InsertEventRun
<1>4. ASSUME NEW q \in Run, CommitEventRun(q) PROVE IInv'
  <2> USE <1>4 DEF CommitEventRun
  <2>1. state[q] = "absent" /\ age[q] = "null"
    OBVIOUS
  <2>2. TypeOK'
    BY <2>1
  <2>3. DeliveriesMade'
    OBVIOUS
  <2>4. InsertingAbsent'
    OBVIOUS
  <2>5. UndeliverableUndelivered'
    BY <2>1
  <2> QED BY <2>2, <2>3, <2>4, <2>5
<1> HIDE DEF IInv
<1> QED BY <1>1, <1>2, <1>3, <1>4 DEF Eventing

LEMMA LifecycleKeeps ==
  ASSUME IInv, Lifecycle
  PROVE  IInv'
<1> USE DEF rows, made, events
<1>1. ASSUME NEW from, NEW to \in AgentStatus \ {"DELETED"}, ChangeStatus(from, to)
      PROVE  IInv'
  BY <1>1 DEF ChangeStatus, IInv, TypeOK, DeliveriesMade, InsertingAbsent,
              UndeliverableUndelivered, Undeliverable
<1>2. CASE Remove
  <2> DEFINE S == {r \in Run : Undelivered(r)}
  <2>1. End(S, "CANCELLED") /\ agent' = "DELETED"
    BY <1>2 DEF Remove
  <2>2. \A r \in Run : r \in S <=> Undelivered(r)
    OBVIOUS
  <2> HIDE DEF S
  <2>3. TypeOK'
    BY <1>2, <2>1, EndKeeps DEF Remove, IInv, TypeOK
  <2>4. \A r \in Run : state'[r] = IF r \in S THEN "CANCELLED" ELSE state[r]
    BY <2>1, EndKeeps DEF IInv
  <2>5. \A r \in Run : Undeliverable(r)' => state[r] = "absent"
    BY <2>2, <2>4 DEF Undeliverable, Undelivered
  <2>6. UndeliverableUndelivered'
    BY <1>2, <2>5 DEF Remove, IInv, UndeliverableUndelivered, Undeliverable
  <2>7. DeliveriesMade' /\ InsertingAbsent'
    BY <1>2, <2>2, <2>4
       DEF Remove, AgentLockable, IInv, DeliveriesMade, InsertingAbsent
  <2> QED BY <2>3, <2>6, <2>7 DEF IInv
<1> QED BY <1>1, <1>2 DEF Lifecycle, Deploy, Pause, Resume, Archive, Restore

(* The runs failRun and cancelRun write are active ones.                   *)
LEMMA UnendedActive ==
  ASSUME NEW r
  PROVE  \A q \in Unended(r) \cap Run : q = r /\ state[q] \in Active
BY DEF Unended

LEMMA DispatchKeeps ==
  ASSUME IInv, NEW p \in Dispatcher, Dispatch(p)
  PROVE  IInv'
<1> USE DEF rows, made, events
<1>0. 0 \in 0 .. MaxRuns /\ \A r \in Run : r \in 0 .. MaxRuns
  BY ConstantsAssumption
<1>1. CASE Pick(p)
  BY <1>0, <1>1 DEF Pick, IInv, TypeOK, DeliveriesMade, InsertingAbsent,
     UndeliverableUndelivered, Undeliverable
<1>2. CASE Block(p)
  <2>1. End(Unended(picked[p]), "FAILED")
    BY <1>2 DEF Block, FailRun
  <2>2. TypeOK'
    BY <1>0, <1>2, <2>1, EndKeeps DEF Block, IInv, TypeOK
  <2>3. InsertingAbsent' /\ UndeliverableUndelivered'
    BY <1>2, <2>1, EndingKeeps, UnendedActive DEF Block
  <2> QED BY <1>2, <2>2, <2>3 DEF Block, IInv, DeliveriesMade
<1>3. CASE Claim(p)
  <2> DEFINE r == picked[p]
  <2>1. r \in Run
    BY <1>3 DEF Claim, IInv, TypeOK
  <2>2. PICK d \in Delivery : /\ runOf' = [runOf EXCEPT ![d] = r]
                              /\ sending' = sending \cup {d}
    BY <1>3 DEF Claim, Unused
  <2>3. /\ state' = [state EXCEPT ![r] = "RUNNING"]
        /\ age' = [age EXCEPT ![r] = "fresh"]
        /\ picked' = [picked EXCEPT ![p] = 0]
        /\ UNCHANGED <<agent, session, turn, events, revived, crashes>>
        /\ agent = "LIVE" /\ state[r] = "QUEUED" /\ inserting = {}
    BY <1>3 DEF Claim, Claimable, AgentLockable
  <2> HIDE DEF r
  <2>4. TypeOK'
    BY <1>0, <2>1, <2>2, <2>3 DEF IInv, TypeOK
  <2>5. DeliveriesMade'
    BY <2>1, <2>2, <2>3 DEF IInv, TypeOK, DeliveriesMade
  <2>6. InsertingAbsent'
    BY <2>3 DEF InsertingAbsent
  <2>7. UndeliverableUndelivered'
    BY <2>1, <2>2, <2>3
       DEF IInv, TypeOK, UndeliverableUndelivered, Undeliverable
  <2> QED BY <2>4, <2>5, <2>6, <2>7 DEF IInv
<1>4. CASE Defer(p)
  BY <1>0, <1>4 DEF Defer, IInv, TypeOK, DeliveriesMade, InsertingAbsent,
     UndeliverableUndelivered, Undeliverable
<1> QED BY <1>1, <1>2, <1>3, <1>4 DEF Dispatch

LEMMA SendsKeep ==
  ASSUME IInv, NEW d \in Delivery, Sends(d)
  PROVE  IInv'
<1> USE DEF rows, made, events
<1>1. CASE SendLands(d)
  BY <1>1 DEF SendLands, TurnStep, IInv, TypeOK, DeliveriesMade,
     InsertingAbsent, UndeliverableUndelivered, Undeliverable
<1>2. CASE SendResolves(d)
  <2>1. d \in 0 .. MaxDeliveries
    BY ConstantsAssumption
  <2> QED BY <1>2, <2>1 DEF SendResolves, IInv, TypeOK, DeliveriesMade,
     InsertingAbsent, UndeliverableUndelivered, Undeliverable
<1>3. CASE SendRejects(d)
  <2>1. End(Unended(runOf[d]), "FAILED")
    BY <1>3 DEF SendRejects, FailRun
  <2>2. TypeOK'
    BY <1>3, <2>1, EndKeeps DEF SendRejects, IInv, TypeOK
  <2>3. InsertingAbsent' /\ UndeliverableUndelivered'
    BY <1>3, <2>1, EndingKeeps, UnendedActive DEF SendRejects
  <2> QED BY <1>3, <2>2, <2>3 DEF SendRejects, IInv, DeliveriesMade
<1> QED BY <1>1, <1>2, <1>3 DEF Sends

LEMMA RecoveringKeeps ==
  ASSUME IInv, Recovering
  PROVE  IInv'
<1> USE DEF rows, made, events
<1>1. ASSUME NEW r \in Run, TimeOut(r) PROVE IInv'
  <2>1. End(Unended(r), "FAILED")
    BY <1>1 DEF TimeOut, FailRun
  <2>2. TypeOK'
    BY <1>1, <2>1, EndKeeps DEF TimeOut, IInv, TypeOK
  <2>3. InsertingAbsent' /\ UndeliverableUndelivered'
    BY <1>1, <2>1, EndingKeeps, UnendedActive DEF TimeOut
  <2> QED BY <1>1, <2>2, <2>3 DEF TimeOut, IInv, DeliveriesMade
<1>2. ASSUME NEW r \in Run, Recover(r) PROVE IInv'
  <2>1. CASE agent \in {"LIVE", "PAUSED"}
    <3>1. /\ state' = [state EXCEPT ![r] = "QUEUED"]
          /\ age' = [age EXCEPT ![r] = "null"]
          /\ inserting = {} /\ Running(r)
          /\ UNCHANGED <<agent, session, picked, made, turn, events, revived,
                         crashes>>
      BY <1>2, <2>1 DEF Recover, RecoveredAge, Abandoned, AgentLockable
    <3>2. TypeOK'
      BY <3>1 DEF IInv, TypeOK
    <3>3. DeliveriesMade' /\ InsertingAbsent'
      BY <3>1 DEF IInv, DeliveriesMade, InsertingAbsent
    <3>4. \A q \in Run : Undeliverable(q)' => Undeliverable(q)
      BY <2>1, <3>1 DEF IInv, TypeOK, Undeliverable
    <3>5. UndeliverableUndelivered'
      BY <3>1, <3>4 DEF IInv, UndeliverableUndelivered
    <3> QED BY <3>2, <3>3, <3>5 DEF IInv
  <2>2. CASE agent \notin {"LIVE", "PAUSED"}
    <3>1. End({r}, "CANCELLED") /\ state[r] # "absent"
      BY <1>2, <2>2 DEF Recover, Abandoned
    <3>2. TypeOK'
      BY <1>2, <3>1, EndKeeps DEF Recover, IInv, TypeOK
    <3>3. InsertingAbsent' /\ UndeliverableUndelivered'
      BY <1>2, <3>1, EndingKeeps DEF Recover
    <3> QED BY <1>2, <3>2, <3>3 DEF Recover, IInv, DeliveriesMade
  <2> QED BY <2>1, <2>2
<1> QED BY <1>1, <1>2 DEF Recovering

LEMMA ReportsKeep ==
  ASSUME IInv, NEW d \in Delivery, Reports(d)
  PROVE  IInv'
<1> USE DEF rows, made, events, TurnStep
<1>1. CASE SessionStarted(d)
  <2> DEFINE r == runOf[d]
  <2>1. /\ turn[d] = "new" /\ turn' = [turn EXCEPT ![d] = "started"]
        /\ UNCHANGED <<agent, picked, made, events, crashes>>
    BY <1>1 DEF SessionStarted
  <2>2. r \in Run
    BY <2>1 DEF IInv, DeliveriesMade
  <2>3. DeliveriesMade'
    BY <2>1 DEF IInv, TypeOK, DeliveriesMade
  <2>4. CASE MayStart(r)
    <3>1. /\ state' = [state EXCEPT ![r] = "RUNNING"]
          /\ session' = [session EXCEPT ![r] = d]
          /\ age' = [age EXCEPT ![r] = IF @ = "null" THEN "fresh" ELSE @]
          /\ revived' = IF Running(r) THEN revived ELSE revived \cup {r}
          /\ state[r] # "absent"
      BY <1>1, <2>4 DEF SessionStarted, MayStart
    <3> HIDE DEF r
    <3>2. d \in 0 .. MaxDeliveries
      BY ConstantsAssumption
    <3>3. TypeOK'
      BY <2>1, <2>2, <3>1, <3>2 DEF IInv, TypeOK
    <3>4. InsertingAbsent'
      BY <2>1, <2>2, <3>1 DEF IInv, TypeOK, InsertingAbsent
    <3>5. UndeliverableUndelivered'
      BY <2>1, <2>2, <3>1
         DEF IInv, TypeOK, UndeliverableUndelivered, Undeliverable
    <3> QED BY <2>3, <3>3, <3>4, <3>5 DEF IInv
  <2>5. CASE ~MayStart(r)
    <3>1. UNCHANGED <<rows, revived>>
      BY <1>1, <2>5 DEF SessionStarted
    <3> QED BY <2>1, <2>3, <3>1 DEF IInv, TypeOK, InsertingAbsent,
          UndeliverableUndelivered, Undeliverable
  <2> QED BY <2>4, <2>5
<1>2. CASE StartUnrecorded(d) \/ SessionCompleted(d) \/ SessionVanishes(d)
  <2>1. /\ turn[d] # "none"
        /\ \E to \in {"started", "finishing", "over"} :
             turn' = [turn EXCEPT ![d] = to]
        /\ UNCHANGED <<agent, rows, picked, made, events, revived, crashes>>
    BY <1>2 DEF StartUnrecorded, SessionCompleted, SessionVanishes
  <2> QED BY <2>1 DEF IInv, TypeOK, DeliveriesMade, InsertingAbsent,
        UndeliverableUndelivered, Undeliverable
<1>3. CASE FinishRun(d) \/ SessionFailed(d) \/ TurnCancelled(d)
  <2>1. /\ turn[d] # "none" /\ turn' = [turn EXCEPT ![d] = "over"]
        /\ \E status \in Ends : End(Unended(runOf[d]), status)
        /\ UNCHANGED <<agent, picked, made, events, revived, crashes>>
    BY <1>3 DEF FinishRun, SessionFailed, TurnCancelled, FailRun, CancelRun
  <2>2. TypeOK'
    BY <2>1, EndKeeps DEF IInv, TypeOK
  <2>3. InsertingAbsent' /\ UndeliverableUndelivered'
    BY <2>1, EndingKeeps, UnendedActive
  <2>4. DeliveriesMade'
    BY <2>1 DEF IInv, TypeOK, DeliveriesMade
  <2> QED BY <2>2, <2>3, <2>4 DEF IInv
<1> QED BY <1>1, <1>2, <1>3 DEF Reports

LEMMA OthersKeep ==
  ASSUME IInv, (\E r \in Run : Ages(r) \/ StopRun(r)) \/ Crash
  PROVE  IInv'
<1> USE DEF rows, made, events
<1>1. ASSUME NEW r \in Run, Ages(r) PROVE IInv'
  BY <1>1 DEF Ages, IInv, TypeOK, DeliveriesMade, InsertingAbsent,
     UndeliverableUndelivered, Undeliverable
<1>2. ASSUME NEW r \in Run, StopRun(r) PROVE IInv'
  <2>1. End(Unended(r), "CANCELLED")
    BY <1>2 DEF StopRun, CancelRun
  <2>2. TypeOK'
    BY <1>2, <2>1, EndKeeps DEF StopRun, IInv, TypeOK
  <2>3. InsertingAbsent' /\ UndeliverableUndelivered'
    BY <1>2, <2>1, EndingKeeps, UnendedActive DEF StopRun
  <2> QED BY <1>2, <2>2, <2>3 DEF StopRun, IInv, DeliveriesMade
<1>3. CASE Crash
  <2>1. crashes' \in 0 .. MaxCrashes
    BY <1>3, ConstantsAssumption DEF Crash, IInv, TypeOK
  <2>2. picked' \in [Dispatcher -> 0 .. MaxRuns]
    BY <1>3, ConstantsAssumption DEF Crash
  <2>3. /\ turn' \in [Delivery -> Turn]
        /\ \A d \in Delivery :
             turn'[d] # "none" => turn[d] # "none" \/ d \in sending
    BY <1>3 DEF Crash, IInv, TypeOK
  <2>4. TypeOK'
    BY <1>3, <2>1, <2>2, <2>3 DEF Crash, IInv, TypeOK
  <2>5. DeliveriesMade'
    BY <1>3, <2>3 DEF Crash, IInv, DeliveriesMade
  <2>6. InsertingAbsent' /\ UndeliverableUndelivered'
    BY <1>3 DEF Crash, IInv, InsertingAbsent, UndeliverableUndelivered,
       Undeliverable
  <2> QED BY <2>4, <2>5, <2>6 DEF IInv
<1> QED BY <1>1, <1>2, <1>3

LEMMA StutterKeeps ==
  ASSUME IInv, UNCHANGED vars
  PROVE  IInv'
BY DEF vars, IInv, TypeOK, DeliveriesMade, InsertingAbsent,
   UndeliverableUndelivered, Undeliverable

LEMMA NextKeeps ==
  ASSUME IInv, [Next]_vars
  PROVE  IInv'
<1>1. CASE \E r \in Run : Queueing(r) \/ Ages(r) \/ StopRun(r)
  BY <1>1, QueueingKeeps, OthersKeep
<1>2. CASE Eventing
  BY <1>2, QueueingKeeps
<1>3. CASE Lifecycle
  BY <1>3, LifecycleKeeps
<1>4. CASE \E p \in Dispatcher : Dispatch(p)
  BY <1>4, DispatchKeeps
<1>5. CASE Recovering
  BY <1>5, RecoveringKeeps
<1>6. CASE \E d \in Delivery : Sends(d) \/ Reports(d)
  BY <1>6, SendsKeep, ReportsKeep
<1>7. CASE Crash
  BY <1>7, OthersKeep
<1>8. CASE UNCHANGED vars
  BY <1>8, StutterKeeps
<1> HIDE DEF Run, Delivery
<1> QED BY <1>1, <1>2, <1>3, <1>4, <1>5, <1>6, <1>7, <1>8 DEF Next

(* The invariant holds in every reachable state.                           *)
THEOREM Invariant == Spec => []IInv
BY InitEstablishes, NextKeeps, PTL DEF Spec

(* Every variable keeps its type, and startedAt is set exactly while a run *)
(* is running, for every number of runs, deliveries and dispatchers.       *)
THEOREM TypeCorrect == Spec => []TypeOK
<1>1. IInv => TypeOK
  BY DEF IInv
<1> QED BY Invariant, <1>1, PTL

-----------------------------------------------------------------------------
(* A terminal write starts nothing.                                        *)
LEMMA EndStartsNothing ==
  ASSUME IInv, NEW S, NEW status \in Ends, End(S, status)
  PROVE  \A r \in Run : Running(r)' => Running(r)
BY EndKeeps DEF IInv

(* Only a claim and the report of a session take a run to RUNNING: the     *)
(* agent is not deleted then, and either the run is marked as revived or   *)
(* no other run is running.                                                *)
WhoStarts ==
  /\ revived \subseteq revived'
  /\ \A r \in Run :
       ~Running(r) /\ Running(r)' =>
         /\ agent # "DELETED"
         /\ r \in revived' \/ \A q \in Run \ {r} : ~Running(q)'

LEMMA ClaimStarts ==
  ASSUME IInv, NEW p \in Dispatcher, Claim(p)
  PROVE  WhoStarts
<1> DEFINE r == picked[p]
<1>1. /\ r \in Run /\ agent = "LIVE"
      /\ \A q \in Run \ {r} : ~Running(q)
      /\ state' = [state EXCEPT ![r] = "RUNNING"]
      /\ revived' = revived
  BY DEF IInv, TypeOK, Claim, Claimable
<1> HIDE DEF r
<1> QED BY <1>1 DEF WhoStarts, IInv, TypeOK

LEMMA ReportStarts ==
  ASSUME IInv, NEW d \in Delivery, SessionStarted(d)
  PROVE  WhoStarts
<1> DEFINE r == runOf[d]
<1>1. r \in Run
  BY DEF IInv, DeliveriesMade, SessionStarted, TurnStep
<1>2. ~Undeliverable(r)
  BY <1>1 DEF IInv, UndeliverableUndelivered
<1>3. CASE MayStart(r) /\ ~Running(r)
  <2>1. /\ state' = [state EXCEPT ![r] = "RUNNING"]
        /\ revived' = revived \cup {r}
        /\ state[r] = "QUEUED"
    BY <1>3 DEF SessionStarted, MayStart
  <2> HIDE DEF r
  <2> QED BY <1>1, <1>2, <2>1 DEF WhoStarts, Undeliverable, IInv, TypeOK
<1>4. CASE ~(MayStart(r) /\ ~Running(r))
  <2>1. state' = state /\ revived' = revived
    BY <1>1, <1>4 DEF SessionStarted, rows, IInv, TypeOK, MayStart
  <2> QED BY <2>1 DEF WhoStarts
<1> QED BY <1>3, <1>4

(* Every other step takes no run to RUNNING.                               *)
StartsNothing ==
  /\ revived' = revived
  /\ \A r \in Run : Running(r)' => Running(r)

LEMMA OthersStartNothing ==
  ASSUME IInv, [Next]_vars,
         \A p \in Dispatcher : ~Claim(p),
         \A d \in Delivery : ~SessionStarted(d)
  PROVE  StartsNothing
<1> USE DEF rows, made, events, StartsNothing
<1>1. ASSUME NEW r \in Run, Queueing(r) \/ Ages(r) \/ StopRun(r)
      PROVE  StartsNothing
  <2>1. CASE Queueing(r)
    BY <1>1, <2>1 DEF Queueing, RunNow, RetryRun, QueueScheduled, CreateRun,
       IInv, TypeOK
  <2>2. CASE Ages(r)
    BY <2>2 DEF Ages
  <2>3. CASE StopRun(r)
    BY <2>3, EndStartsNothing DEF StopRun, CancelRun
  <2> QED BY <1>1, <2>1, <2>2, <2>3
<1>2. CASE Eventing
  BY <1>2 DEF Eventing, AdmitEvent, InsertEventRun, CommitEventRun, IInv, TypeOK
<1>3. CASE Lifecycle
  <2>1. CASE Remove
    BY <2>1, EndStartsNothing DEF Remove
  <2>2. CASE ~Remove
    BY <1>3, <2>2 DEF Lifecycle, Deploy, Pause, Resume, Archive, Restore,
       ChangeStatus
  <2> QED BY <2>1, <2>2
<1>4. ASSUME NEW p \in Dispatcher, Dispatch(p) PROVE StartsNothing
  <2>1. CASE Block(p)
    BY <2>1, EndStartsNothing DEF Block, FailRun
  <2>2. CASE Pick(p) \/ Defer(p)
    BY <2>2 DEF Pick, Defer
  <2> QED BY <1>4, <2>1, <2>2 DEF Dispatch
<1>5. CASE Recovering
  <2>1. ASSUME NEW r \in Run, TimeOut(r) PROVE StartsNothing
    BY <2>1, EndStartsNothing DEF TimeOut, FailRun
  <2>2. ASSUME NEW r \in Run, Recover(r) PROVE StartsNothing
    <3>1. CASE agent \in {"LIVE", "PAUSED"}
      BY <2>2, <3>1 DEF Recover, IInv, TypeOK
    <3>2. CASE agent \notin {"LIVE", "PAUSED"}
      BY <2>2, <3>2, EndStartsNothing DEF Recover
    <3> QED BY <3>1, <3>2
  <2> QED BY <1>5, <2>1, <2>2 DEF Recovering
<1>6. ASSUME NEW d \in Delivery, Sends(d) \/ Reports(d) PROVE StartsNothing
  <2>1. CASE SendLands(d) \/ SendResolves(d)
    BY <2>1 DEF SendLands, SendResolves
  <2>2. CASE SendRejects(d)
    BY <2>2, EndStartsNothing DEF SendRejects, FailRun
  <2>3. CASE StartUnrecorded(d) \/ SessionCompleted(d) \/ SessionVanishes(d)
    BY <2>3 DEF StartUnrecorded, SessionCompleted, SessionVanishes
  <2>4. CASE FinishRun(d) \/ SessionFailed(d) \/ TurnCancelled(d)
    BY <2>4, EndStartsNothing
       DEF FinishRun, SessionFailed, TurnCancelled, FailRun, CancelRun
  <2> QED BY <1>6, <2>1, <2>2, <2>3, <2>4 DEF Sends, Reports
<1>7. CASE Crash
  BY <1>7 DEF Crash
<1>8. CASE UNCHANGED vars
  BY <1>8 DEF vars
<1> HIDE DEF Run, Delivery, StartsNothing
<1> QED BY <1>1, <1>2, <1>3, <1>4, <1>5, <1>6, <1>7, <1>8 DEF Next

LEMMA StepStarts ==
  ASSUME IInv, [Next]_vars
  PROVE  WhoStarts
<1>1. CASE \E p \in Dispatcher : Claim(p)
  BY <1>1, ClaimStarts
<1>2. CASE \E d \in Delivery : SessionStarted(d)
  BY <1>2, ReportStarts
<1>3. CASE ~(\E p \in Dispatcher : Claim(p))
           /\ ~(\E d \in Delivery : SessionStarted(d))
  <2>1. StartsNothing
    BY <1>3, OthersStartNothing
  <2> QED BY <2>1 DEF WhoStarts, StartsNothing
<1> QED BY <1>1, <1>2, <1>3

(* No interleaving of claims, recoveries, stops and reports makes two runs *)
(* of the agent active, except a report that revives a queued run.         *)
THEOREM OneActive == Spec => []OneActiveUnlessRevived
<1>1. Init => OneActiveUnlessRevived
  BY DEF Init, OneActiveUnlessRevived
<1>2. IInv /\ OneActiveUnlessRevived /\ [Next]_vars => OneActiveUnlessRevived'
  BY StepStarts DEF WhoStarts, OneActiveUnlessRevived
<1> QED BY Invariant, <1>1, <1>2, PTL DEF Spec

(* A deleted agent starts nothing, however late a claim, a send or a       *)
(* session's report comes.                                                 *)
THEOREM DeletedStarts == Spec => DeletedStartsNothing
<1>1. IInv /\ [Next]_vars =>
        [\A r \in Run :
           agent = "DELETED" /\ ~Running(r) => state'[r] # "RUNNING"]_state
  BY StepStarts DEF WhoStarts
<1> QED BY Invariant, <1>1, PTL DEF Spec, DeletedStartsNothing

-----------------------------------------------------------------------------
(* Each step is a step of RunLifecycle, or stutters there.                 *)
USE DEF Life!Ends, Life!Status

Steps == [Life!Next]_(Life!vars)

LEMMA RowsStutter ==
  ASSUME UNCHANGED <<state, session>>
  PROVE  Steps
BY DEF Steps, Life!vars

(* The terminal writes of one run.                                         *)
LEMMA EndSteps ==
  ASSUME IInv, NEW r \in Run, NEW status \in Ends, End(Unended(r), status),
         status = "SUCCEEDED" => state[r] # "QUEUED"
  PROVE  Steps
<1>1. session' = session
  BY DEF End
<1>2. CASE state[r] \notin Active
  <2>1. state' = state
    BY <1>2 DEF End, Unended, IInv, TypeOK
  <2> QED BY <1>1, <2>1, RowsStutter
<1>3. CASE state[r] \in Active
  <2>1. state' = [state EXCEPT ![r] = status]
    BY <1>3 DEF End, Unended, IInv, TypeOK
  <2>2. CASE status = "SUCCEEDED"
    <3>1. Life!Succeed(r)
      BY <1>1, <1>3, <2>1, <2>2 DEF Life!Succeed
    <3> QED BY <3>1 DEF Steps, Life!Next
  <2>3. CASE status = "FAILED"
    <3>1. Life!Fail(r)
      BY <1>1, <1>3, <2>1, <2>3 DEF Life!Fail
    <3> QED BY <3>1 DEF Steps, Life!Next
  <2>4. CASE status = "CANCELLED"
    <3>1. Life!Cancel({r})
      BY <1>1, <1>3, <2>1, <2>4 DEF Life!Cancel, IInv, TypeOK
    <3> QED BY <3>1 DEF Steps, Life!Next
  <2> QED BY <2>2, <2>3, <2>4
<1> QED BY <1>2, <1>3

LEMMA QueueSteps ==
  ASSUME IInv, NEW r \in Run, state[r] = "absent",
         state' = [state EXCEPT ![r] = "QUEUED"], session' = session
  PROVE  Steps
<1>1. Life!Queue(r)
  BY DEF Life!Queue
<1> QED BY <1>1 DEF Steps, Life!Next

LEMMA QueueingSteps ==
  ASSUME IInv, (\E r \in Run : Queueing(r)) \/ Eventing
  PROVE  Steps
<1> USE DEF rows
<1>1. ASSUME NEW r \in Run, Queueing(r) PROVE Steps
  <2>1. CreateRun(r)
    BY <1>1 DEF Queueing, RunNow, RetryRun, QueueScheduled
  <2>2. state[r] = "absent"
    BY <2>1 DEF CreateRun, NextNumber, Numbered
  <2> QED BY <2>1, <2>2, QueueSteps DEF CreateRun
<1>2. CASE AdmitEvent \/ \E r \in Run : InsertEventRun(r)
  BY <1>2, RowsStutter DEF AdmitEvent, InsertEventRun
<1>3. ASSUME NEW r \in Run, CommitEventRun(r) PROVE Steps
  BY <1>3, QueueSteps DEF CommitEventRun, IInv, InsertingAbsent
<1> QED BY <1>1, <1>2, <1>3 DEF Eventing

LEMMA LifecycleSteps ==
  ASSUME IInv, Lifecycle
  PROVE  Steps
<1>1. CASE Remove
  <2> DEFINE S == {r \in Run : Undelivered(r)}
  <2>1. S \in SUBSET Run /\ \A r \in S : state[r] \in Active
    BY DEF Undelivered, UndeliveredRunning
  <2>2. End(S, "CANCELLED")
    BY <1>1 DEF Remove
  <2> HIDE DEF S
  <2>3. Life!Cancel(S)
    BY <2>1, <2>2 DEF Life!Cancel, End
  <2> QED BY <2>1, <2>3 DEF Steps, Life!Next
<1>2. CASE ~Remove
  BY <1>2, RowsStutter DEF Lifecycle, Deploy, Pause, Resume, Archive, Restore,
     ChangeStatus, rows
<1> QED BY <1>1, <1>2

(* Linking a session, seen as the abstract linked.                         *)
LEMMA LinkedUpdate ==
  ASSUME TypeOK, NEW r \in Run, NEW d \in Delivery,
         session' = [session EXCEPT ![r] = d]
  PROVE  [q \in Run |-> session'[q] # 0]
           = [[q \in Run |-> session[q] # 0] EXCEPT ![r] = TRUE]
<1>1. d # 0
  OBVIOUS
<1>2. session'[r] = d /\ \A q \in Run : q # r => session'[q] = session[q]
  BY DEF TypeOK
<1> DEFINE linked  == [q \in Run |-> session[q] # 0]
           linkedN == [q \in Run |-> session'[q] # 0]
<1> HIDE DEF Run
<1>3. ASSUME NEW q \in Run PROVE linkedN[q] = [linked EXCEPT ![r] = TRUE][q]
  <2>1. CASE q = r
    BY <1>1, <1>2, <2>1, Zenon
  <2>2. CASE q # r
    BY <1>2, <2>2, Zenon
  <2> QED BY <2>1, <2>2
<1> QED BY <1>3, Zenon

(* A run is taken to RUNNING, with or without its session.                 *)
LEMMA StartSteps ==
  ASSUME IInv, NEW r \in Run, state[r] = "QUEUED",
         state' = [state EXCEPT ![r] = "RUNNING"],
         \/ session' = session
         \/ \E d \in Delivery : session' = [session EXCEPT ![r] = d]
  PROVE  Steps
<1> DEFINE linked  == [q \in Run |-> session[q] # 0]
           linkedN == [q \in Run |-> session'[q] # 0]
<1>1. linkedN \in {linked, [linked EXCEPT ![r] = TRUE]}
  <2>1. CASE session' = session
    BY <2>1
  <2>2. ASSUME NEW d \in Delivery, session' = [session EXCEPT ![r] = d]
        PROVE  linkedN = [linked EXCEPT ![r] = TRUE]
    BY <2>2, LinkedUpdate DEF IInv
  <2> QED BY <2>1, <2>2
<1>2. Life!Start(r)
  BY <1>1 DEF Life!Start
<1> QED BY <1>2 DEF Steps, Life!Next

LEMMA LinkSteps ==
  ASSUME IInv, NEW r \in Run, NEW d \in Delivery, Running(r),
         state' = state, session' = [session EXCEPT ![r] = d]
  PROVE  Steps
<1>1. Life!Link(r)
  BY LinkedUpdate DEF Life!Link, IInv
<1> QED BY <1>1 DEF Steps, Life!Next

LEMMA DispatchSteps ==
  ASSUME IInv, NEW p \in Dispatcher, Dispatch(p)
  PROVE  Steps
<1> USE DEF rows
<1>1. CASE Pick(p) \/ Defer(p)
  BY <1>1, RowsStutter DEF Pick, Defer
<1>2. CASE Block(p)
  <2>1. picked[p] \in Run /\ End(Unended(picked[p]), "FAILED")
    BY <1>2 DEF Block, FailRun, IInv, TypeOK
  <2> QED BY <2>1, EndSteps
<1>3. CASE Claim(p)
  <2>1. /\ picked[p] \in Run /\ state[picked[p]] = "QUEUED"
        /\ state' = [state EXCEPT ![picked[p]] = "RUNNING"]
        /\ session' = session
    BY <1>3 DEF Claim, Claimable, IInv, TypeOK
  <2> QED BY <2>1, StartSteps
<1> QED BY <1>1, <1>2, <1>3 DEF Dispatch

LEMMA SendsSteps ==
  ASSUME IInv, NEW d \in Delivery, Sends(d)
  PROVE  Steps
<1> USE DEF rows
<1>1. CASE SendLands(d)
  BY <1>1, RowsStutter DEF SendLands
<1>2. CASE d \in sending /\ ~SendLands(d)
  <2>1. runOf[d] \in Run
    BY <1>2 DEF IInv, DeliveriesMade
  <2>2. CASE SendResolves(d)
    BY <2>1, <2>2, LinkSteps, RowsStutter DEF SendResolves
  <2>3. CASE SendRejects(d)
    BY <2>1, <2>3, EndSteps DEF SendRejects, FailRun
  <2> QED BY <1>2, <2>2, <2>3 DEF Sends
<1> QED BY <1>1, <1>2 DEF Sends, SendLands, SendResolves, SendRejects

LEMMA RecoveringSteps ==
  ASSUME IInv, Recovering
  PROVE  Steps
<1>1. ASSUME NEW r \in Run, TimeOut(r) PROVE Steps
  BY <1>1, EndSteps DEF TimeOut, FailRun
<1>2. ASSUME NEW r \in Run, Recover(r) PROVE Steps
  <2>1. Running(r) /\ session[r] = 0
    BY <1>2 DEF Recover, Abandoned
  <2>2. CASE agent \in {"LIVE", "PAUSED"}
    <3>1. Life!Redeliver(r)
      BY <1>2, <2>1, <2>2 DEF Recover, Life!Redeliver
    <3> QED BY <3>1 DEF Steps, Life!Next
  <2>3. CASE agent \notin {"LIVE", "PAUSED"}
    <3>1. Life!Cancel({r})
      BY <1>2, <2>1, <2>3 DEF Recover, End, Life!Cancel
    <3> QED BY <3>1 DEF Steps, Life!Next
  <2> QED BY <2>2, <2>3
<1> QED BY <1>1, <1>2 DEF Recovering

LEMMA ReportsSteps ==
  ASSUME IInv, NEW d \in Delivery, Reports(d)
  PROVE  Steps
<1> USE DEF rows
<1>1. CASE StartUnrecorded(d) \/ SessionCompleted(d) \/ SessionVanishes(d)
  BY <1>1, RowsStutter DEF StartUnrecorded, SessionCompleted, SessionVanishes
<1>2. CASE ~(StartUnrecorded(d) \/ SessionCompleted(d) \/ SessionVanishes(d))
  <2>1. turn[d] # "none"
    BY <1>2 DEF Reports, SessionStarted, FinishRun, SessionFailed,
       TurnCancelled, TurnStep
  <2>2. runOf[d] \in Run
    BY <2>1 DEF IInv, DeliveriesMade
  <2>3. CASE FinishRun(d) \/ SessionFailed(d) \/ TurnCancelled(d)
    BY <2>2, <2>3, EndSteps
       DEF FinishRun, SessionFailed, TurnCancelled, FailRun, CancelRun
  <2>4. CASE SessionStarted(d) /\ ~MayStart(runOf[d])
    BY <2>4, RowsStutter DEF SessionStarted
  <2>5. CASE SessionStarted(d) /\ MayStart(runOf[d])
    <3>1. /\ state' = [state EXCEPT ![runOf[d]] = "RUNNING"]
          /\ session' = [session EXCEPT ![runOf[d]] = d]
          /\ state[runOf[d]] \in Active
      BY <2>5 DEF SessionStarted, MayStart
    <3>2. CASE state[runOf[d]] = "QUEUED"
      BY <2>2, <3>1, <3>2, StartSteps
    <3>3. CASE state[runOf[d]] = "RUNNING"
      <4>1. state' = state
        BY <2>2, <3>1, <3>3 DEF IInv, TypeOK
      <4> QED BY <2>2, <3>1, <3>3, <4>1, LinkSteps
    <3> QED BY <3>1, <3>2, <3>3
  <2> QED BY <1>2, <2>3, <2>4, <2>5 DEF Reports
<1> QED BY <1>1, <1>2

LEMMA OthersStep ==
  ASSUME IInv, (\E r \in Run : Ages(r) \/ StopRun(r)) \/ Crash
  PROVE  Steps
<1> USE DEF rows
<1>1. ASSUME NEW r \in Run, StopRun(r) PROVE Steps
  BY <1>1, EndSteps DEF StopRun, CancelRun
<1>2. CASE (\E r \in Run : Ages(r)) \/ Crash
  BY <1>2, RowsStutter DEF Ages, Crash
<1> QED BY <1>1, <1>2

LEMMA NextSteps ==
  ASSUME IInv, [Next]_vars
  PROVE  Steps
<1>1. CASE \E r \in Run : Queueing(r) \/ Ages(r) \/ StopRun(r)
  BY <1>1, QueueingSteps, OthersStep
<1>2. CASE Eventing
  BY <1>2, QueueingSteps
<1>3. CASE Lifecycle
  BY <1>3, LifecycleSteps
<1>4. CASE \E p \in Dispatcher : Dispatch(p)
  BY <1>4, DispatchSteps
<1>5. CASE Recovering
  BY <1>5, RecoveringSteps
<1>6. CASE \E d \in Delivery : Sends(d) \/ Reports(d)
  BY <1>6, SendsSteps, ReportsSteps
<1>7. CASE Crash
  BY <1>7, OthersStep
<1>8. CASE UNCHANGED vars
  BY <1>8, RowsStutter DEF vars
<1> HIDE DEF Run, Delivery
<1> QED BY <1>1, <1>2, <1>3, <1>4, <1>5, <1>6, <1>7, <1>8 DEF Next

(* Whatever sessions, recovery, people and the deletion of the agent do,   *)
(* each row goes through RunLifecycle: queued once, redelivered only while *)
(* no session is linked, succeeded only from RUNNING, ended once.          *)
THEOREM Refinement == Spec => ImplementsLifecycle
<1>1. Init => Life!Init
  BY DEF Init, Life!Init
<1>2. IInv /\ [Next]_vars => [Life!Next]_(Life!vars)
  BY NextSteps DEF Steps
<1> QED BY Invariant, <1>1, <1>2, PTL DEF Spec, ImplementsLifecycle, Life!Spec
=============================================================================
