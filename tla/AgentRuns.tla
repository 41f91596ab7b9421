----------------------------- MODULE AgentRuns ------------------------------
(***************************************************************************)
(* The runs of one deployed team agent: the API and the triggers queue     *)
(* them (agent-runs.service.ts, custom-agent-dispatch.ts), dispatchers     *)
(* claim one at a time and hand it to the session runtime, the session's   *)
(* events settle it (hooks/audit.ts, channels/crm.ts, run-runtime.ts), the *)
(* recovery returns or times out what got stuck, and the agent's own       *)
(* lifecycle pauses, deletes and redeploys beside it                       *)
(* (agent-definitions.service.ts).                                         *)
(*                                                                         *)
(* Every statement of the code on agents and runs names one agent, so one  *)
(* is modelled.  Runs are numbered in the order they were created.         *)
(* WAITING_FOR_APPROVAL is read by the code but written nowhere.           *)
(***************************************************************************)
EXTENDS Naturals

CONSTANTS
  MaxRuns,       \* bound on the runs of the agent
  MaxDeliveries, \* bound on the deliveries of all runs
  Dispatcher,    \* passes of drainAgentRuns or of the schedule at one time
  MaxCrashes     \* bound on restarts of the agent process

ASSUME ConstantsAssumption ==
  /\ MaxRuns \in Nat \ {0}
  /\ MaxDeliveries \in Nat \ {0}
  /\ MaxCrashes \in Nat

Run      == 1 .. MaxRuns
Delivery == 1 .. MaxDeliveries

VARIABLES
  agent,    \* status of the agent
  state,    \* status of each run
  session,  \* the delivery whose session is linked to the run; 0 for none
  age,      \* how long ago startedAt is
  picked,   \* the run a dispatcher has selected; 0 for none
  runOf,    \* the run of each delivery; 0 for a delivery not made yet
  sending,  \* the deliveries whose send has not settled
  turn,     \* what the session of each delivery is doing
  admitted, \* an event found the agent LIVE and has not inserted its run
  inserting,\* the runs events have inserted and not committed
  revived,  \* runs a session report took from QUEUED to RUNNING
  crashes

vars == <<agent, state, session, age, picked, runOf, sending, turn, admitted,
          inserting, revived, crashes>>
made == <<runOf, sending>>
events == <<admitted, inserting>>
rows == <<state, session, age>>

AgentStatus == {"DRAFT", "LIVE", "PAUSED", "ARCHIVED", "DELETED"}
Ends        == {"SUCCEEDED", "FAILED", "CANCELLED"}
Status      == {"absent", "QUEUED", "RUNNING"} \cup Ends
Active      == {"QUEUED", "RUNNING"}

(* startedAt: null, within the delivery lease, past it, past the           *)
(* execution timeout.                                                      *)
Age == {"null", "fresh", "stale", "overrun"}

Turn == {"none", "new", "started", "finishing", "over"}

(* Types, and that startedAt is set exactly while a run is running.        *)
TypeOK ==
  /\ agent \in AgentStatus
  /\ state \in [Run -> Status]
  /\ session \in [Run -> 0 .. MaxDeliveries]
  /\ age \in [Run -> Age]
  /\ \A r \in Run : age[r] = "null" <=> state[r] # "RUNNING"
  /\ picked \in [Dispatcher -> 0 .. MaxRuns]
  /\ runOf \in [Delivery -> 0 .. MaxRuns]
  /\ sending \subseteq Delivery
  /\ turn \in [Delivery -> Turn]
  /\ admitted \in BOOLEAN
  /\ inserting \subseteq Run
  /\ revived \subseteq Run
  /\ crashes \in 0 .. MaxCrashes

Init ==
  /\ agent \in {"DRAFT", "LIVE"}
  /\ state = [r \in Run |-> "absent"]
  /\ session = [r \in Run |-> 0]
  /\ age = [r \in Run |-> "null"]
  /\ picked = [p \in Dispatcher |-> 0]
  /\ runOf = [d \in Delivery |-> 0]
  /\ sending = {}
  /\ turn = [d \in Delivery |-> "none"]
  /\ admitted = FALSE
  /\ inserting = {}
  /\ revived = {}
  /\ crashes = 0

-----------------------------------------------------------------------------
Running(r) == state[r] = "RUNNING"
Ended(r)   == state[r] \in Ends

(* Terminal writes on locked runs.  The startedAt of an ended run is never *)
(* read again; the model drops it.                                         *)
End(S, status) ==
  /\ state' = [r \in Run |-> IF r \in S THEN status ELSE state[r]]
  /\ age' = [r \in Run |-> IF r \in S THEN "null" ELSE age[r]]
  /\ UNCHANGED session

(* failRun, cancelRun: a run that has ended stays as it is.                *)
Unended(r)   == {r} \cap {q \in Run : state[q] \in Active}
FailRun(r)   == End(Unended(r), "FAILED")
CancelRun(r) == End(Unended(r), "CANCELLED")

(* The session of one delivery moves on.                                   *)
TurnStep(d, from, to) ==
  /\ turn[d] \in from
  /\ turn' = [turn EXCEPT ![d] = to]

-----------------------------------------------------------------------------
(* Queueing.                                                               *)

(* Inserting a run takes a shared lock on the agent's row that its foreign *)
(* key names; every FOR UPDATE of that row waits for the commit.           *)
AgentLockable == inserting = {}

Numbered == {r \in Run : state[r] # "absent" \/ r \in inserting}

NextNumber(r) ==
  /\ \A q \in Numbered : q < r
  /\ \A q \in 1 .. r - 1 : \E n \in Numbered : q <= n

CreateRun(r) ==
  /\ agent = "LIVE" /\ AgentLockable /\ NextNumber(r)
  /\ state' = [state EXCEPT ![r] = "QUEUED"]
  /\ UNCHANGED <<agent, session, age, picked, made, turn, events, revived, crashes>>

Idle == \A q \in Run : state[q] \notin Active

(* A person's run or retry: the agent's row is locked, LIVE and idle.      *)
RunNow(r)   == Idle /\ CreateRun(r)
RetryRun(r) == Idle /\ (\E q \in Run : Ended(q)) /\ CreateRun(r)

(* queueDueAgentRuns locks the agent's row too; the agent may be busy.     *)
QueueScheduled(r) == CreateRun(r)

(* queueEventAgentRuns locks no agent row: it looks at the agent, inserts  *)
(* the run with its createdAt, and the run appears when that commits.      *)
AdmitEvent ==
  /\ agent = "LIVE" /\ ~admitted
  /\ admitted' = TRUE
  /\ UNCHANGED <<agent, rows, picked, made, turn, inserting, revived, crashes>>

InsertEventRun(r) ==
  /\ admitted /\ admitted' = FALSE
  /\ NextNumber(r) /\ inserting' = inserting \cup {r}
  /\ UNCHANGED <<agent, rows, picked, made, turn, revived, crashes>>

CommitEventRun(r) ==
  /\ r \in inserting /\ inserting' = inserting \ {r}
  /\ state' = [state EXCEPT ![r] = "QUEUED"]
  /\ UNCHANGED <<agent, session, age, picked, made, turn, admitted, revived,
                 crashes>>

-----------------------------------------------------------------------------
(* The agent's lifecycle.                                                  *)

ChangeStatus(from, to) ==
  /\ AgentLockable
  /\ agent \in from /\ agent' = to
  /\ UNCHANGED <<rows, picked, made, turn, events, revived, crashes>>

Deploy  == ChangeStatus(AgentStatus \ {"DELETED"}, "LIVE")
Pause   == ChangeStatus({"LIVE"}, "PAUSED")
Resume  == ChangeStatus({"PAUSED"}, "LIVE")
Archive == ChangeStatus({"LIVE", "PAUSED"}, "ARCHIVED")
Restore == ChangeStatus({"ARCHIVED"}, "PAUSED")

(* Fault: only the runs under delivery are cancelled.                      *)
UndeliveredRunning(r) == Running(r) /\ session[r] = 0

Undelivered(r) == state[r] = "QUEUED" \/ UndeliveredRunning(r)

(* A run a session has taken is left to that session.                      *)
Remove ==
  /\ AgentLockable
  /\ agent # "DELETED" /\ agent' = "DELETED"
  /\ End({r \in Run : Undelivered(r)}, "CANCELLED")
  /\ UNCHANGED <<picked, made, turn, events, revived, crashes>>

-----------------------------------------------------------------------------
(* Dispatch.                                                               *)

(* pendingAgentRunIds: the oldest queued run of an idle live agent.        *)
Pick(p) ==
  /\ picked[p] = 0 /\ agent = "LIVE"
  /\ \A q \in Run : ~Running(q)
  /\ \E r \in Run :
       /\ state[r] = "QUEUED" /\ \A q \in 1 .. r - 1 : state[q] # "QUEUED"
       /\ picked' = [picked EXCEPT ![p] = r]
  /\ UNCHANGED <<agent, rows, made, turn, events, revived, crashes>>

(* ... unless an integration its manifest needs is missing.                *)
Block(p) ==
  /\ picked[p] # 0
  /\ FailRun(picked[p])
  /\ picked' = [picked EXCEPT ![p] = 0]
  /\ UNCHANGED <<agent, made, turn, events, revived, crashes>>

Unused == {d \in Delivery : runOf[d] = 0}

(* Fault: the claim without its look for another active run.               *)
ClaimableBeside(r) == agent = "LIVE" /\ state[r] = "QUEUED"

(* Fault: the claim counts queued runs as active, the way runNow does.     *)
ClaimableIdle(r) ==
  /\ agent = "LIVE" /\ state[r] = "QUEUED"
  /\ \A q \in Run \ {r} : state[q] \notin Active

Claimable(r) ==
  /\ agent = "LIVE" /\ state[r] = "QUEUED"
  /\ \A q \in Run \ {r} : ~Running(q)

(* The claim of dispatchAgentRun, under the lock of the agent's row.       *)
Claim(p) ==
  LET r == picked[p] IN
  /\ r # 0 /\ AgentLockable /\ Claimable(r)
  /\ \E d \in Unused :
       /\ \A e \in Unused : d <= e
       /\ runOf' = [runOf EXCEPT ![d] = r]
       /\ sending' = sending \cup {d}
  /\ state' = [state EXCEPT ![r] = "RUNNING"]
  /\ age' = [age EXCEPT ![r] = "fresh"]
  /\ picked' = [picked EXCEPT ![p] = 0]
  /\ UNCHANGED <<agent, session, turn, events, revived, crashes>>

(* Another pass was first, or the agent left LIVE: the run stays as it is. *)
Defer(p) ==
  /\ picked[p] # 0
  /\ ~Claimable(picked[p]) \/ Unused = {}
  /\ picked' = [picked EXCEPT ![p] = 0]
  /\ UNCHANGED <<agent, rows, made, turn, events, revived, crashes>>

(* The runtime opens a session for a delivery under way.                   *)
SendLands(d) ==
  /\ d \in sending
  /\ TurnStep(d, {"none"}, "new")
  /\ UNCHANGED <<agent, rows, picked, made, events, revived, crashes>>

(* The send resolves, at once or minutes later: link its session.          *)
SendResolves(d) ==
  LET r == runOf[d] IN
  /\ d \in sending /\ turn[d] # "none"
  /\ sending' = sending \ {d}
  /\ session' = IF Running(r) THEN [session EXCEPT ![r] = d] ELSE session
  /\ UNCHANGED <<agent, state, age, picked, runOf, turn, events, revived,
                 crashes>>

(* The send, or the write of its session id, throws.                       *)
SendRejects(d) ==
  /\ d \in sending
  /\ sending' = sending \ {d}
  /\ FailRun(runOf[d])
  /\ UNCHANGED <<agent, picked, runOf, turn, events, revived, crashes>>

-----------------------------------------------------------------------------
(* Recovery, at the start of every pendingAgentRunIds.                     *)

(* Fault: the timeout only looks at runs of a live agent.                  *)
OverrunIfLive(r) ==
  agent = "LIVE" /\ Running(r) /\ session[r] # 0 /\ age[r] = "overrun"

Overrun(r) == Running(r) /\ session[r] # 0 /\ age[r] = "overrun"

TimeOut(r) ==
  /\ Overrun(r)
  /\ FailRun(r)
  /\ UNCHANGED <<agent, picked, made, turn, events, revived, crashes>>

(* Fault: the recovery forgets that a session may have taken the run.      *)
AbandonedAnyway(r) == Running(r) /\ age[r] \in {"stale", "overrun"}

Abandoned(r) ==
  Running(r) /\ session[r] = 0 /\ age[r] \in {"stale", "overrun"}

RecoveredAge(r) == [age EXCEPT ![r] = "null"]

Recover(r) ==
  /\ Abandoned(r) /\ AgentLockable
  /\ IF agent \in {"LIVE", "PAUSED"}
     THEN /\ state' = [state EXCEPT ![r] = "QUEUED"]
          /\ age' = RecoveredAge(r)
          /\ UNCHANGED session
     ELSE End({r}, "CANCELLED")
  /\ UNCHANGED <<agent, picked, made, turn, events, revived, crashes>>

Ages(r) ==
  /\ Running(r) /\ age[r] \in {"fresh", "stale"}
  /\ age' = [age EXCEPT ![r] = IF @ = "fresh" THEN "stale" ELSE "overrun"]
  /\ UNCHANGED <<agent, state, session, picked, made, turn, events,
                 revived, crashes>>

-----------------------------------------------------------------------------
(* What a session reports.                                                 *)

MayStart(r) == state[r] \in Active

(* persistRunEvent on session.started.                                     *)
SessionStarted(d) ==
  LET r == runOf[d] IN
  /\ TurnStep(d, {"new"}, "started")
  /\ IF MayStart(r)
     THEN /\ state' = [state EXCEPT ![r] = "RUNNING"]
          /\ session' = [session EXCEPT ![r] = d]
          /\ age' = [age EXCEPT ![r] = IF @ = "null" THEN "fresh" ELSE @]
          /\ revived' = IF Running(r) THEN revived ELSE revived \cup {r}
     ELSE UNCHANGED <<rows, revived>>
  /\ UNCHANGED <<agent, picked, made, events, crashes>>

(* The audit hook swallows its errors: the report is lost.                 *)
StartUnrecorded(d) ==
  /\ TurnStep(d, {"new"}, "started")
  /\ UNCHANGED <<agent, rows, picked, made, events, revived, crashes>>

(* session.completed reads the run, then finishRun locks it.               *)
SessionCompleted(d) ==
  /\ TurnStep(d, {"started"}, IF Running(runOf[d]) THEN "finishing" ELSE "over")
  /\ UNCHANGED <<agent, rows, picked, made, events, revived, crashes>>

(* finishRun, or NEVER_SETTLED when it throws.                             *)
FinishRun(d) ==
  /\ TurnStep(d, {"finishing"}, "over")
  /\ \E status \in {"SUCCEEDED", "FAILED"} :
       /\ status = "SUCCEEDED" => state[runOf[d]] # "QUEUED"
       /\ End(Unended(runOf[d]), status)
  /\ UNCHANGED <<agent, picked, made, events, revived, crashes>>

(* turn.failed and session.failed.                                         *)
SessionFailed(d) ==
  /\ TurnStep(d, {"started"}, "over")
  /\ FailRun(runOf[d])
  /\ UNCHANGED <<agent, picked, made, events, revived, crashes>>

TurnCancelled(d) ==
  /\ TurnStep(d, {"started"}, "over")
  /\ CancelRun(runOf[d])
  /\ UNCHANGED <<agent, picked, made, events, revived, crashes>>

SessionVanishes(d) ==
  /\ TurnStep(d, {"new", "started"}, "over")
  /\ UNCHANGED <<agent, rows, picked, made, events, revived, crashes>>

(* A person stops a run (the poke that follows is TurnCancelled).          *)
StopRun(r) ==
  /\ state[r] \in Active
  /\ CancelRun(r)
  /\ UNCHANGED <<agent, picked, made, turn, events, revived, crashes>>

-----------------------------------------------------------------------------
(* The agent process restarts.  A send under way may still have landed;    *)
(* the sessions outlive the process, its half-done handlers do not.        *)
Crash ==
  /\ crashes < MaxCrashes /\ crashes' = crashes + 1
  /\ \E landed \in SUBSET sending :
       turn' = [d \in Delivery |->
                  CASE turn[d] = "finishing" -> "over"
                    [] turn[d] = "none" /\ d \in sending ->
                         IF d \in landed THEN "new" ELSE "over"
                    [] OTHER -> turn[d]]
  /\ sending' = {}
  /\ picked' = [p \in Dispatcher |-> 0]
  /\ admitted' = FALSE /\ inserting' = {}
  /\ UNCHANGED <<agent, rows, runOf, revived>>

-----------------------------------------------------------------------------
Queueing(r)  == RunNow(r) \/ RetryRun(r) \/ QueueScheduled(r)
Eventing     == AdmitEvent \/ \E r \in Run : InsertEventRun(r) \/ CommitEventRun(r)
Lifecycle    == Deploy \/ Pause \/ Resume \/ Archive \/ Restore \/ Remove
Dispatch(p)  == Pick(p) \/ Block(p) \/ Claim(p) \/ Defer(p)
Recovering   == \E r \in Run : TimeOut(r) \/ Recover(r)
Sends(d)     == SendLands(d) \/ SendResolves(d) \/ SendRejects(d)

Reports(d) ==
  \/ SessionStarted(d) \/ StartUnrecorded(d) \/ SessionCompleted(d)
  \/ FinishRun(d) \/ SessionFailed(d) \/ TurnCancelled(d) \/ SessionVanishes(d)

Next ==
  \/ \E r \in Run : Queueing(r) \/ Ages(r) \/ StopRun(r)
  \/ Eventing
  \/ Lifecycle
  \/ \E p \in Dispatcher : Dispatch(p)
  \/ Recovering
  \/ \E d \in Delivery : Sends(d) \/ Reports(d)
  \/ Crash

Spec == Init /\ [][Next]_vars

(***************************************************************************)
(* Fairness.  Each minute's tick recovers, selects and claims; time        *)
(* passes; a transaction ends.  Nothing is assumed of a send, a session, an event or a person. *)
(***************************************************************************)
Fairness ==
  /\ WF_vars(Recovering)
  /\ \A p \in Dispatcher : WF_vars(Pick(p)) /\ WF_vars(Block(p) \/ Claim(p) \/ Defer(p))
  /\ \A r \in Run : WF_vars(Ages(r)) /\ WF_vars(CommitEventRun(r))

FairSpec == Spec /\ Fairness

-----------------------------------------------------------------------------
(* One run of the agent is active at a time (the claim's look for another  *)
(* active run under the agent's lock).  The code falls short of it: a late *)
(* report revives a run.                                                   *)
OneActiveRun ==
  \A q, r \in Run : Running(q) /\ Running(r) => q = r

(* Two runs of the agent are active together only if a session of an       *)
(* abandoned delivery took one of them from the queue: no interleaving of  *)
(* claims, recoveries and reports of running sessions gets there.          *)
OneActiveUnlessRevived ==
  \A q, r \in Run :
    Running(q) /\ Running(r) /\ q # r => q \in revived \/ r \in revived

(* A deleted agent starts nothing: not from the queue, and not by a late   *)
(* report of a session whose delivery was given up (remove cancels what no *)
(* session has taken, and an ended run drops every report).                *)
DeletedStartsNothing ==
  [][\A r \in Run :
       agent = "DELETED" /\ ~Running(r) => state'[r] # "RUNNING"]_state

(* Deleting an agent stops its future work: nothing of it is left queued.  *)
(* The code falls short of it: an event inserts a run without the lock.    *)
DeletedLeavesNoQueue ==
  agent = "DELETED" => \A r \in Run : state[r] # "QUEUED"

(* What the row of a run goes through, whatever its sessions, the          *)
(* recovery, the API and the agent's deletion do to it.                    *)
Life == INSTANCE RunLifecycle WITH linked <- [r \in Run |-> session[r] # 0]

ImplementsLifecycle == Life!Spec

(* Every run that runs ends, or goes back to the queue: a delivery that    *)
(* never lands is recovered and a session that never reports times out.    *)
RunningEnds == \A r \in Run : Running(r) ~> ~Running(r)

(* A queued run of an agent that stays live starts or ends, unless the     *)
(* bound of the model on deliveries has stopped the dispatchers.           *)
QueuedRunStarts ==
  \A r \in Run :
    (state[r] = "QUEUED" /\ agent = "LIVE")
      ~> (state[r] # "QUEUED" \/ agent # "LIVE" \/ Unused = {})
=============================================================================
