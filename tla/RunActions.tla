----------------------------- MODULE RunActions -----------------------------
(***************************************************************************)
(* The actions of one team-agent run (lib/run-runtime.ts): the tool calls  *)
(* of its session that write to the CRM or post to Slack, the ledger of    *)
(* AgentAction rows they claim and complete, the result the session        *)
(* stages, and how the end of the run weighs that ledger.                  *)
(*                                                                         *)
(* A call is a call id of the session runtime; one execution of its tool   *)
(* may follow another (a replay after a restart, a redelivered session) or *)
(* run beside it.  A replayed call has the arguments of the first.         *)
(***************************************************************************)
EXTENDS Naturals

CONSTANTS
  Calls,           \* tool calls of the session
  KindOf,          \* what each call does: "slack" or "crm"
  Executions,      \* executions of those calls, replays included
  CallOf,          \* the call of each execution
  MaxClaims,       \* at least the executions of one call
  Declared,        \* external action types of the approved manifest
  NoActionTrigger, \* the run's trigger is an event, a schedule or a webhook
  NoKey,           \* the replay key of a row that does not exist
  Crashing         \* executions a restart of the agent may cut short

Kind == {"slack", "crm"}

(* A call of a kind the manifest does not approve is refused at its start. *)
ASSUME ConstantsAssumption ==
  /\ Declared \subseteq Kind
  /\ KindOf \in [Calls -> Declared]
  /\ CallOf \in [Executions -> Calls]
  /\ MaxClaims \in Nat
  /\ NoKey \notin Executions
  /\ NoActionTrigger \in BOOLEAN
  /\ Crashing \subseteq Executions

VARIABLES
  run,       \* status of the run
  staged,    \* its result: "declined" if it says that no action was needed
  closing,   \* what session.completed read of the staged result; "idle" if none
  action,    \* the ledger: one row per call
  required,  \* kinds whose absence the end of the run has put on the ledger
  exec,      \* where each execution is, and the claim it took
  effects    \* the keys under which each call's effect was accepted

vars == <<run, staged, closing, action, required, exec, effects>>

Ended     == {"SUCCEEDED", "FAILED", "CANCELLED"}
RowStatus == {"absent", "PLANNED", "RUNNING"} \cup Ended
Result    == {"plain", "declined"}

Over  == {"returned", "threw", "crashed"}
Stage == {"idle", "plan", "claim", "claimed", "ready", "posting", "accepted",
          "outside", "noting", "failing"} \cup Over

(* claim numbers the claims of a row: it stands for startedAt, which every *)
(* claim renews and every later write compares.                            *)
Row  == [status : RowStatus, claim : 0 .. MaxClaims, lapsed : BOOLEAN,
         external : BOOLEAN, key : Executions \cup {NoKey}]
Exec == [stage : Stage, claim : 0 .. MaxClaims, receipt : BOOLEAN]

(* Types, and that a row runs only under a claim and carries a replay key  *)
(* from its creation.                                                      *)
RowOK(row) ==
  /\ row.status = "absent" <=> row.key = NoKey
  /\ row.status \in {"RUNNING", "SUCCEEDED", "FAILED"} => row.claim > 0
  /\ row.lapsed => row.status = "RUNNING"

TypeOK ==
  /\ run \in {"RUNNING"} \cup Ended
  /\ staged \in Result
  /\ closing \in Result \cup {"idle"}
  /\ action \in [Calls -> Row]
  /\ \A c \in Calls : RowOK(action[c])
  /\ required \subseteq Declared
  /\ exec \in [Executions -> Exec]
  /\ effects \in [Calls -> SUBSET (Calls \cup Executions)]

Absent  == [status |-> "absent", claim |-> 0, lapsed |-> FALSE,
            external |-> FALSE, key |-> NoKey]
Waiting == [stage |-> "idle", claim |-> 0, receipt |-> FALSE]

Init ==
  /\ run = "RUNNING"
  /\ staged = "plain"
  /\ closing = "idle"
  /\ action = [c \in Calls |-> Absent]
  /\ required = {}
  /\ exec = [e \in Executions |-> Waiting]
  /\ effects = [c \in Calls |-> {}]

-----------------------------------------------------------------------------
RowOf(e)  == action[CallOf[e]]
At(e, s)  == exec[e].stage = s
Slack(e)  == KindOf[CallOf[e]] = "slack"
Active    == run = "RUNNING"

(* The claim of an execution that is over is never read again.             *)
Moved(x, s)    == [x EXCEPT !.stage = s, !.claim = IF s \in Over THEN 0 ELSE x.claim]
Goto(e, s)     == exec' = [exec EXCEPT ![e] = Moved(exec[e], s)]
SetRow(e, row) == action' = [action EXCEPT ![CallOf[e]] = row]

runVars == <<run, staged, closing, required>>

(* The comparison every later write of an execution makes.                 *)
Held(row, claim) == row.status = "RUNNING" /\ row.claim = claim
Holds(e) == Held(RowOf(e), exec[e].claim)

-----------------------------------------------------------------------------
(* One execution of a tool call.                                           *)

(* It reads the run and the row: a completed action is returned as it is,  *)
(* whatever became of the run; any other call needs a running run and      *)
(* valid arguments.                                                        *)
Start(e) ==
  /\ At(e, "idle")
  /\ \/ RowOf(e).status = "SUCCEEDED" /\ Goto(e, "returned")
     \/ RowOf(e).status # "SUCCEEDED" /\ Goto(e, "threw")
     \/ /\ RowOf(e).status # "SUCCEEDED" /\ Active
        /\ Goto(e, IF RowOf(e).status = "absent" THEN "plan" ELSE "claim")
  /\ UNCHANGED <<runVars, action, effects>>

PlannedRow(e) ==
  [status |-> "PLANNED", claim |-> 0, lapsed |-> FALSE, external |-> FALSE, key |-> e]

(* Under the advisory lock on the key the row is found or created; its     *)
(* metadata, with the replay key, is the creator's.                        *)
Plan(e) ==
  /\ At(e, "plan")
  /\ IF RowOf(e).status = "absent"
     THEN SetRow(e, PlannedRow(e)) /\ Goto(e, "claim")
     ELSE /\ Goto(e, IF RowOf(e).status = "SUCCEEDED" THEN "returned" ELSE "claim")
          /\ UNCHANGED action
  /\ UNCHANGED <<runVars, effects>>

Claimable(row) ==
  row.status \in {"PLANNED", "FAILED"} \/ (row.status = "RUNNING" /\ row.lapsed)

ClaimedRow(row) ==
  [row EXCEPT !.status = "RUNNING", !.claim = @ + 1, !.lapsed = FALSE]

(* Mutant: a lost claim is taken for a completed action.                   *)
LostClaimTrusted(row) == "returned"

(* An execution that loses the claim returns the winner's result if there  *)
(* is one already.                                                         *)
LostClaim(row) == IF row.status = "SUCCEEDED" THEN "returned" ELSE "threw"

(* The run's status is not read again here.                                *)
Claim(e) ==
  /\ At(e, "claim")
  /\ IF Claimable(RowOf(e))
     THEN /\ RowOf(e).claim < MaxClaims
          /\ SetRow(e, ClaimedRow(RowOf(e)))
          /\ exec' = [exec EXCEPT ![e] = [@ EXCEPT !.stage = "claimed",
                                                   !.claim = RowOf(e).claim + 1]]
     ELSE Goto(e, LostClaim(RowOf(e))) /\ UNCHANGED action
  /\ UNCHANGED <<runVars, effects>>

(* Mutants: the claim is not compared; a lapsed claim is left alone.       *)
SettleableByAnyone(row, claim) == row.status = "RUNNING"
SettleableFresh(row, claim)    == Held(row, claim) /\ ~row.lapsed

Settleable(row, claim) == Held(row, claim)

(* The catch clause: it fails the claim this execution took, no other.     *)
FailClaim(e) ==
  /\ At(e, "failing")
  /\ IF Settleable(RowOf(e), exec[e].claim)
     THEN SetRow(e, [RowOf(e) EXCEPT !.status = "FAILED", !.lapsed = FALSE])
     ELSE UNCHANGED action
  /\ Goto(e, "threw")
  /\ UNCHANGED <<runVars, effects>>

CompletedRow(row) ==
  [row EXCEPT !.status = "SUCCEEDED", !.lapsed = FALSE, !.external = TRUE]

-----------------------------------------------------------------------------
(* create_crm_activity.                                                    *)

ActivityId(e) == CallOf[e]

(* One transaction under the run's lock: the activity under the action's   *)
(* id, which a second writer finds there, and the completed row, whoever   *)
(* holds the claim now.  The answer to the commit may be lost.             *)
WriteActivity(e) ==
  /\ At(e, "claimed") /\ ~Slack(e)
  /\ Active
  /\ SetRow(e, CompletedRow(RowOf(e)))
  /\ effects' = [effects EXCEPT ![CallOf[e]] = @ \cup {ActivityId(e)}]
  /\ Goto(e, "returned") \/ Goto(e, "failing")
  /\ UNCHANGED runVars

RejectActivity(e) ==
  /\ At(e, "claimed") /\ ~Slack(e)
  /\ Goto(e, "failing")
  /\ UNCHANGED <<runVars, action, effects>>

-----------------------------------------------------------------------------
(* post_slack_message.                                                     *)

(* assertRunActive, the token, and the opening of a direct message.        *)
Connect(e) ==
  /\ At(e, "claimed") /\ Slack(e)
  /\ (Active /\ Goto(e, "ready")) \/ Goto(e, "failing")
  /\ UNCHANGED <<runVars, action, effects>>

(* Mutant: the run is not read again before the post.                      *)
MayPostHeld(e) == Holds(e)

MayPost(e) == Active /\ Holds(e)

(* holdRunActionClaim, a transaction of its own just before the post.      *)
HoldClaim(e) ==
  /\ At(e, "ready")
  /\ Goto(e, IF MayPost(e) THEN "posting" ELSE "failing")
  /\ UNCHANGED <<runVars, action, effects>>

(* Mutant: every attempt draws its own key.                                *)
PostKeyOwn(e) == e

PostKey(e) == RowOf(e).key

(* Slack takes the message, and its receipt arrives or is lost.            *)
Deliver(e) ==
  /\ At(e, "posting")
  /\ effects' = [effects EXCEPT ![CallOf[e]] = @ \cup {PostKey(e)}]
  /\ \/ exec' = [exec EXCEPT ![e] = [@ EXCEPT !.stage = "accepted", !.receipt = TRUE]]
     \/ Goto(e, "failing")
  /\ UNCHANGED <<runVars, action>>

Refuse(e) ==
  /\ At(e, "posting")
  /\ Goto(e, "failing")
  /\ UNCHANGED <<runVars, action, effects>>

Complete(e) ==
  /\ At(e, "accepted")
  /\ IF Holds(e)
     THEN SetRow(e, CompletedRow(RowOf(e))) /\ Goto(e, "returned")
     ELSE Goto(e, "outside") /\ UNCHANGED action
  /\ UNCHANGED <<runVars, effects>>

(* Mutant: a delivery is only noted on a row the stop cancelled.           *)
NotableCancelled(row) == row.status = "CANCELLED" /\ ~row.external

Notable(row) == row.status # "SUCCEEDED" /\ ~row.external

(* recordDeliveryOutsideClaim: a look, then an update guarded again.       *)
LookOutside(e) ==
  /\ At(e, "outside")
  /\ Goto(e, IF Notable(RowOf(e)) THEN "noting" ELSE "failing")
  /\ UNCHANGED <<runVars, action, effects>>

NoteDelivery(e) ==
  /\ At(e, "noting")
  /\ IF Notable(RowOf(e))
     THEN SetRow(e, [RowOf(e) EXCEPT !.external = TRUE])
     ELSE UNCHANGED action
  /\ Goto(e, "failing")
  /\ UNCHANGED <<runVars, effects>>

-----------------------------------------------------------------------------
(* The run.                                                                *)

(* noActionNeededRefusal: a person's run of an agent that declares actions *)
(* may not end without them.                                               *)
MayDecline == NoActionTrigger \/ Declared = {}

(* finish_run: stageRunResult under the run's lock.                        *)
StageResult(r) ==
  /\ Active /\ staged # r
  /\ r = "declined" => MayDecline
  /\ staged' = r
  /\ UNCHANGED <<run, closing, action, required, exec, effects>>

(* session.completed reads the run and its result ...                      *)
ReadResult ==
  /\ Active /\ closing = "idle"
  /\ closing' = staged
  /\ UNCHANGED <<run, staged, action, required, exec, effects>>

RowsOf(k)    == {c \in Calls : KindOf[c] = k /\ action[c].status # "absent"}

(* Mutant: a row of the kind is enough.                                    *)
PerformedOnLedger(k) == RowsOf(k) # {}

Performed(k) == \E c \in RowsOf(k) : action[c].status = "SUCCEEDED"
Missing      == {k \in Declared : ~Performed(k)}

(* Mutant: the trigger alone excuses the run.                              *)
NoneNeededByTrigger(r) == MayDecline

NoneNeeded(r) == r = "declined" /\ MayDecline

(* ... and finishRun decides under the run's lock.  A missing action fails *)
(* the run, and gets a row of its own when it has none.                    *)
FinishRun ==
  /\ closing # "idle"
  /\ closing' = "idle"
  /\ \/ ~Active /\ UNCHANGED <<run, staged, required>>
     \/ /\ Active /\ (NoneNeeded(closing) \/ Missing = {})
        /\ run' = "SUCCEEDED" /\ staged' = closing
        /\ UNCHANGED required
     \/ /\ Active /\ ~NoneNeeded(closing)
        /\ \E k \in Missing :
             required' = IF RowsOf(k) = {} THEN required \cup {k} ELSE required
        /\ run' = "FAILED"
        /\ UNCHANGED staged
  /\ UNCHANGED <<action, exec, effects>>

(* failRun: a failed turn, a lost delivery, a result that did not settle.  *)
(* The actions of the run stay as they are.                                *)
FailRun ==
  /\ Active
  /\ run' = "FAILED"
  /\ UNCHANGED <<staged, closing, action, required, exec, effects>>

CancelledRow(row) ==
  IF row.status \in {"PLANNED", "RUNNING"}
  THEN [row EXCEPT !.status = "CANCELLED", !.lapsed = FALSE] ELSE row

(* cancelRun, by a person or by the time limit of a run.                   *)
CancelRun ==
  /\ Active
  /\ run' = "CANCELLED"
  /\ action' = [c \in Calls |-> CancelledRow(action[c])]
  /\ UNCHANGED <<staged, closing, required, exec, effects>>

-----------------------------------------------------------------------------
(* The environment.                                                        *)

(* Five minutes pass since the claim of a row.                             *)
Lapse(c) ==
  /\ action[c].status = "RUNNING" /\ ~action[c].lapsed
  /\ action' = [action EXCEPT ![c].lapsed = TRUE]
  /\ UNCHANGED <<runVars, exec, effects>>

(* The agent restarts under an execution.                                  *)
Crash(e) ==
  /\ e \in Crashing
  /\ exec[e].stage \notin Over \cup {"idle"}
  /\ Goto(e, "crashed")
  /\ UNCHANGED <<runVars, action, effects>>

-----------------------------------------------------------------------------
Step(e) ==
  \/ Plan(e) \/ Claim(e) \/ FailClaim(e)
  \/ WriteActivity(e) \/ RejectActivity(e)
  \/ Connect(e) \/ HoldClaim(e) \/ Deliver(e) \/ Refuse(e)
  \/ Complete(e) \/ LookOutside(e) \/ NoteDelivery(e)

RunNext ==
  \/ \E r \in Result : StageResult(r)
  \/ ReadResult \/ FinishRun \/ FailRun \/ CancelRun

Next ==
  \/ \E e \in Executions : Start(e) \/ Step(e) \/ Crash(e)
  \/ \E c \in Calls : Lapse(c)
  \/ RunNext

Spec     == Init /\ [][Next]_vars
FairSpec == Spec /\ \A e \in Executions : WF_vars(Step(e))
-----------------------------------------------------------------------------
(* Safety.                                                                 *)

(* A run that succeeded performed every action its manifest declares,      *)
(* except where its trigger lets it say that none was needed: finishRun    *)
(* weighs the ledger while executions still claim, fail and complete it.   *)
SuccessIsEarned ==
  run = "SUCCEEDED" =>
    \/ staged = "declined" /\ (NoActionTrigger \/ Declared = {})
    \/ \A k \in Declared : \E c \in Calls : KindOf[c] = k /\ effects[c] # {}

(* Whatever is replayed, and however claims lapse and are taken over, the  *)
(* effect of one call is always asked for under one key, which the CRM and *)
(* Slack use to tell a repetition: one activity id, one client message id. *)
OneKeyPerCall ==
  \A c \in Calls : \A k, l \in effects[c] : k = l

(* A tool call that reported success has its effect and a completed row,   *)
(* also when another execution performed it.                               *)
ReportedSuccessIsReal ==
  \A e \in Executions : At(e, "returned") =>
    RowOf(e).status = "SUCCEEDED" /\ effects[CallOf[e]] # {}

(* Once an execution that got Slack's receipt has ended, the ledger knows  *)
(* of the delivery, though its claim may have lapsed, been taken over or   *)
(* been cancelled meanwhile (recordDeliveryOutsideClaim).                  *)
ReceiptIsRecorded ==
  \A e \in Executions :
    exec[e].receipt /\ exec[e].stage \in {"failing", "returned", "threw"} =>
      RowOf(e).external

(* A claim whose lease is running is nobody else's to end: another         *)
(* execution may only complete the action, and the end of the run may      *)
(* cancel it.                                                              *)
FreshClaimKept ==
  [][ \A e \in Executions :
        Holds(e) /\ ~RowOf(e).lapsed /\ UNCHANGED exec[e] =>
          \/ Holds(e)'
          \/ RowOf(e)'.status = "SUCCEEDED"
          \/ Active /\ RowOf(e)'.status = "CANCELLED" ]_vars

(* Once the run has ended, nothing new is begun: no activity is written,   *)
(* and the only messages Slack still takes are those whose post was under  *)
(* way when it ended.                                                      *)
NothingBegunAfterEnd ==
  [][ ~Active =>
        /\ \A e \in Executions : At(e, "posting")' => At(e, "posting")
        /\ \A c \in Calls : effects'[c] # effects[c] =>
             \E e \in Executions : At(e, "posting") /\ CallOf[e] = c ]_vars

-----------------------------------------------------------------------------
(* Liveness.                                                               *)

Outstanding(c) == action[c].status \in {"PLANNED", "RUNNING"}

(* Stopping a run leaves no action outstanding, also those an execution    *)
(* under way plans or claims after the stop.  The code keeps it under      *)
(* FairSpec unless the agent restarts.                                     *)
CancelSettlesActions ==
  <>[](run = "CANCELLED" => \A c \in Calls : ~Outstanding(c))
=============================================================================
