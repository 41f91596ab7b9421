-------------------------- MODULE RunActionsProofs --------------------------
(***************************************************************************)
(* What RunActions guarantees for any set of calls and executions.  The    *)
(* invariant relates each execution to the row of its call: claims in hand *)
(* are positive, distinct and at most the row's, a receipt in hand means   *)
(* an effect, and rows only grow: a completed row stays completed, a       *)
(* recorded delivery stays recorded.                                       *)
(***************************************************************************)
EXTENDS RunActions, TLAPS

InHand == {"claimed", "ready", "posting", "accepted", "outside", "noting", "failing"}
Posted == {"accepted", "outside", "noting"}

(* What the effects and the ledger say of one call.                        *)
RowInv(c) ==
  /\ action[c].status = "absent" => action[c] = Absent
  /\ KindOf[c] = "crm" => effects[c] \subseteq {c}
  /\ KindOf[c] = "slack" => effects[c] \subseteq {action[c].key} \cap Executions
  /\ action[c].status = "SUCCEEDED" => effects[c] # {} /\ action[c].external

(* What the stage of one execution says of its row.                        *)
ExecInv(e) ==
  /\ exec[e].stage \in InHand <=> exec[e].claim > 0
  /\ exec[e].claim =< RowOf(e).claim
  /\ exec[e].stage \in InHand \cup {"claim"} => RowOf(e).status # "absent"
  /\ exec[e].stage \in {"ready", "posting"} \cup Posted => Slack(e)
  /\ exec[e].receipt =>
       exec[e].stage \in Posted \cup {"failing"} \cup Over /\ effects[CallOf[e]] # {}
  /\ exec[e].stage \in Posted => exec[e].receipt
  /\ At(e, "returned") => RowOf(e).status = "SUCCEEDED"
  /\ exec[e].receipt /\ exec[e].stage \in {"failing", "returned", "threw"} =>
       RowOf(e).external

ClaimsDistinct ==
  \A e, f \in Executions :
    e # f /\ CallOf[e] = CallOf[f] /\ exec[e].claim = exec[f].claim => exec[e].claim = 0

IInv ==
  /\ TypeOK
  /\ \A c \in Calls : RowInv(c)
  /\ \A e \in Executions : ExecInv(e)
  /\ ClaimsDistinct
  /\ SuccessIsEarned

(* No step takes back what a row or the effects of a call say.             *)
Grows(c) ==
  /\ action[c].claim =< action'[c].claim
  /\ action'[c].status = "absent" => action[c].status = "absent"
  /\ action[c].status = "SUCCEEDED" => action'[c].status = "SUCCEEDED"
  /\ action[c].external => action'[c].external
  /\ effects[c] \subseteq effects'[c]

USE DEF Kind, Ended, RowStatus, Result, Over, Stage, InHand, Posted

(* Constants: the call of an execution is a call, its kind one of two.     *)
LEMMA Calling ==
  ASSUME NEW e \in Executions
  PROVE  CallOf[e] \in Calls /\ KindOf[CallOf[e]] \in {"slack", "crm"}
BY ConstantsAssumption

(* What Goto does to the record of the execution, and to no other.         *)
LEMMA Going ==
  ASSUME exec \in [Executions -> Exec], NEW e \in Executions, NEW s \in Stage, Goto(e, s)
  PROVE  /\ exec' \in [Executions -> Exec]
         /\ exec'[e].stage = s
         /\ exec'[e].receipt = exec[e].receipt
         /\ exec'[e].claim = IF s \in Over THEN 0 ELSE exec[e].claim
         /\ \A f \in Executions \ {e} : exec'[f] = exec[f]
<1>1. exec[e] \in Exec
  OBVIOUS
<1>2. 0 \in 0 .. MaxClaims
  BY ConstantsAssumption
<1>3. Moved(exec[e], s) \in Exec
  BY <1>1, <1>2 DEF Exec, Moved
<1> QED
  BY <1>1, <1>3 DEF Goto, Moved, Exec

(* What SetRow does to the ledger.                                         *)
LEMMA Setting ==
  ASSUME action \in [Calls -> Row], NEW e \in Executions, NEW row \in Row, SetRow(e, row)
  PROVE  /\ action' \in [Calls -> Row]
         /\ action'[CallOf[e]] = row
         /\ \A c \in Calls \ {CallOf[e]} : action'[c] = action[c]
BY Calling DEF SetRow

(* A step of one execution: only its own row and record need a look.       *)
LEMMA Actor ==
  ASSUME IInv, NEW e \in Executions, UNCHANGED runVars,
         exec' \in [Executions -> Exec], action' \in [Calls -> Row],
         effects' \in [Calls -> SUBSET (Calls \cup Executions)],
         \A f \in Executions \ {e} : exec'[f] = exec[f],
         \A c \in Calls \ {CallOf[e]} : action'[c] = action[c] /\ effects'[c] = effects[c],
         Grows(CallOf[e]), RowOK(action'[CallOf[e]]), RowInv(CallOf[e])', ExecInv(e)',
         \/ exec'[e].claim \in {0, exec[e].claim}
         \/ exec'[e].claim = RowOf(e).claim + 1
  PROVE  IInv' /\ \A c \in Calls : Grows(c)
<1>1. CallOf[e] \in Calls
  BY Calling
<1>2. \A c \in Calls : Grows(c)
  <2> SUFFICES ASSUME NEW c \in Calls, c # CallOf[e]
               PROVE  Grows(c)
    OBVIOUS
  <2>1. action[c] \in Row
    BY DEF IInv, TypeOK
  <2>2. action[c].claim \in Nat
    BY <2>1, ConstantsAssumption DEF Row
  <2> QED
    BY <2>2 DEF Grows
<1>3. \A c \in Calls : RowOK(action'[c])
  BY DEF IInv, TypeOK
<1>4. TypeOK'
  BY <1>3 DEF IInv, TypeOK, runVars
<1>5. \A c \in Calls : RowInv(c)'
  BY DEF IInv, RowInv
<1>6. \A f \in Executions : ExecInv(f)'
  <2> SUFFICES ASSUME NEW f \in Executions, f # e
               PROVE  ExecInv(f)'
    OBVIOUS
  <2>1. Grows(CallOf[f]) /\ ExecInv(f) /\ exec'[f] = exec[f]
    BY <1>2, Calling DEF IInv
  <2>2. action[CallOf[f]] \in Row /\ action'[CallOf[f]] \in Row /\ exec[f] \in Exec
    BY Calling DEF IInv, TypeOK
  <2>3. /\ action[CallOf[f]].claim \in Nat
        /\ action'[CallOf[f]].claim \in Nat
        /\ exec[f].claim \in Nat
    BY <2>2, ConstantsAssumption DEF Row, Exec
  <2> QED
    BY <2>1, <2>3 DEF ExecInv, Grows, RowOf, Slack, At
<1>7. ClaimsDistinct'
  <2> SUFFICES ASSUME NEW f \in Executions, f # e, CallOf[f] = CallOf[e],
                      exec'[f].claim = exec'[e].claim
               PROVE  exec'[e].claim = 0
    BY DEF IInv, ClaimsDistinct
  <2>1. exec'[f].claim = exec[f].claim /\ exec[f].claim =< RowOf(e).claim
    BY DEF IInv, ExecInv, RowOf
  <2>2. exec[f] \in Exec /\ action[CallOf[e]] \in Row
    BY <1>1 DEF IInv, TypeOK
  <2>3. exec[f].claim \in Nat /\ RowOf(e).claim \in Nat
    BY <2>2, ConstantsAssumption DEF Exec, Row, RowOf
  <2> QED
    BY <2>1, <2>3 DEF IInv, ClaimsDistinct
<1>8. SuccessIsEarned'
  BY <1>2, ConstantsAssumption DEF IInv, SuccessIsEarned, Grows, runVars
<1> QED
  BY <1>2, <1>4, <1>5, <1>6, <1>7, <1>8 DEF IInv

-----------------------------------------------------------------------------
(* The typed parts of a state in which the invariant holds.                *)
LEMMA Parts ==
  ASSUME IInv, NEW e \in Executions
  PROVE  /\ action \in [Calls -> Row] /\ exec \in [Executions -> Exec]
         /\ effects \in [Calls -> SUBSET (Calls \cup Executions)]
         /\ RowOf(e) \in Row /\ exec[e] \in Exec
         /\ RowOf(e).claim \in Nat /\ exec[e].claim \in Nat
         /\ RowOK(RowOf(e)) /\ RowInv(CallOf[e]) /\ ExecInv(e)
<1>1. CallOf[e] \in Calls
  BY Calling
<1>2. action \in [Calls -> Row] /\ exec \in [Executions -> Exec]
  BY DEF IInv, TypeOK
<1>3. RowOf(e) \in Row /\ exec[e] \in Exec
  BY <1>1, <1>2 DEF RowOf
<1>4. RowOf(e).claim \in Nat /\ exec[e].claim \in Nat
  BY <1>3, ConstantsAssumption DEF Row, Exec
<1> QED
  BY <1>1, <1>2, <1>3, <1>4 DEF IInv, TypeOK, RowOf

(* A step that only moves an execution: what its new stage says must hold. *)
LEMMA Moving ==
  ASSUME IInv, NEW e \in Executions, NEW s \in Stage, Goto(e, s),
         UNCHANGED <<runVars, action, effects>>,
         s \in InHand <=> exec[e].claim > 0 /\ s \notin Over,
         s = "claim" => RowOf(e).status # "absent",
         s \in {"ready", "posting"} \cup Posted => Slack(e),
         exec[e].receipt => s \in Posted \cup {"failing"} \cup Over,
         s \in Posted => exec[e].receipt,
         s = "returned" => RowOf(e).status = "SUCCEEDED",
         exec[e].receipt /\ s \in {"failing", "returned", "threw"} => RowOf(e).external
  PROVE  IInv' /\ \A c \in Calls : Grows(c)
<1>1. CallOf[e] \in Calls
  BY Calling
<1>2. /\ exec' \in [Executions -> Exec]
      /\ exec'[e].stage = s /\ exec'[e].receipt = exec[e].receipt
      /\ exec'[e].claim = IF s \in Over THEN 0 ELSE exec[e].claim
      /\ \A f \in Executions \ {e} : exec'[f] = exec[f]
  BY Parts, Going
<1>3. Grows(CallOf[e])
  BY Parts DEF Grows, RowOf
<1>4. RowInv(CallOf[e])' /\ RowOK(action'[CallOf[e]])
  BY Parts DEF RowInv, RowOf
<1>5. ExecInv(e)'
  <2>1. exec[e].claim \in Nat /\ RowOf(e).claim \in Nat /\ ExecInv(e)
    BY Parts
  <2>2. exec[e].claim > 0 => RowOf(e).status # "absent"
    BY <2>1 DEF ExecInv
  <2>3. RowOf(e)' = RowOf(e) /\ Slack(e)' = Slack(e)
    BY DEF RowOf, Slack
  <2>4. exec'[e].stage \in InHand <=> exec'[e].claim > 0
    BY <1>2, <2>1
  <2>5. exec'[e].claim =< RowOf(e)'.claim
    BY <1>2, <2>1, <2>3 DEF ExecInv
  <2> QED
    BY <1>2, <2>1, <2>2, <2>3, <2>4, <2>5 DEF ExecInv, At
<1> QED
  BY <1>1, <1>2, <1>3, <1>4, <1>5, Actor, Parts

LEMMA StartStep ==
  ASSUME IInv, NEW e \in Executions, Start(e)
  PROVE  IInv' /\ \A c \in Calls : Grows(c)
<1>1. PICK s \in {"returned", "threw", "plan", "claim"} :
        /\ Goto(e, s)
        /\ s = "claim" => RowOf(e).status # "absent"
        /\ s = "returned" => RowOf(e).status = "SUCCEEDED"
  BY DEF Start
<1>2. exec[e].claim \in Nat /\ ~(exec[e].claim > 0) /\ ~exec[e].receipt
  BY Parts DEF Start, At, ExecInv, Exec
<1> QED
  BY <1>1, <1>2, Moving DEF Start

LEMMA ConnectStep ==
  ASSUME IInv, NEW e \in Executions, Connect(e)
  PROVE  IInv' /\ \A c \in Calls : Grows(c)
<1>1. PICK s \in {"ready", "failing"} : Goto(e, s)
  BY DEF Connect
<1>2. exec[e].claim > 0 /\ ~exec[e].receipt
  BY Parts DEF Connect, At, ExecInv, Exec
<1> QED
  BY <1>1, <1>2, Moving DEF Connect

LEMMA HoldClaimStep ==
  ASSUME IInv, NEW e \in Executions, HoldClaim(e)
  PROVE  IInv' /\ \A c \in Calls : Grows(c)
<1>1. PICK s \in {"posting", "failing"} : Goto(e, s)
  BY DEF HoldClaim
<1>2. exec[e].claim > 0 /\ ~exec[e].receipt /\ Slack(e)
  BY Parts DEF HoldClaim, At, ExecInv, Exec
<1> QED
  BY <1>1, <1>2, Moving DEF HoldClaim

LEMMA RefuseStep ==
  ASSUME IInv, NEW e \in Executions, Refuse(e) \/ RejectActivity(e)
  PROVE  IInv' /\ \A c \in Calls : Grows(c)
<1>1. exec[e].claim > 0 /\ ~exec[e].receipt
  BY Parts DEF Refuse, RejectActivity, At, ExecInv, Exec
<1> QED
  BY <1>1, Moving DEF Refuse, RejectActivity

LEMMA LookOutsideStep ==
  ASSUME IInv, NEW e \in Executions, LookOutside(e)
  PROVE  IInv' /\ \A c \in Calls : Grows(c)
<1>1. PICK s \in {"noting", "failing"} : Goto(e, s) /\ (s = "failing" => ~Notable(RowOf(e)))
  BY DEF LookOutside
<1>2. exec[e].claim > 0 /\ exec[e].receipt /\ Slack(e)
  BY Parts DEF LookOutside, At, ExecInv, Exec
<1>3. s = "failing" => RowOf(e).external
  BY <1>1, Parts DEF Notable, RowInv, RowOf
<1> QED
  BY <1>1, <1>2, <1>3, Moving DEF LookOutside

LEMMA CrashStep ==
  ASSUME IInv, NEW e \in Executions, Crash(e)
  PROVE  IInv' /\ \A c \in Calls : Grows(c)
BY Moving DEF Crash

-----------------------------------------------------------------------------
(* Steps that write the row or add an effect.                              *)

LEMMA PlanStep ==
  ASSUME IInv, NEW e \in Executions, Plan(e)
  PROVE  IInv' /\ \A c \in Calls : Grows(c)
<1>1. exec[e].claim = 0 /\ ~exec[e].receipt
  BY Parts DEF Plan, At, ExecInv, Exec
<1>2. CASE RowOf(e).status # "absent"
  <2>1. PICK s \in {"returned", "claim"} :
          Goto(e, s) /\ (s = "returned" => RowOf(e).status = "SUCCEEDED")
    BY <1>2 DEF Plan
  <2>2. UNCHANGED <<runVars, action, effects>>
    BY <1>2 DEF Plan
  <2> QED
    BY <1>1, <1>2, <2>1, <2>2, Moving
<1>3. CASE RowOf(e).status = "absent"
  <2>1. SetRow(e, PlannedRow(e)) /\ Goto(e, "claim") /\ UNCHANGED <<runVars, effects>>
    BY <1>3 DEF Plan
  <2>2. PlannedRow(e) \in Row
    BY ConstantsAssumption DEF PlannedRow, Absent, Row
  <2>3. /\ action' \in [Calls -> Row] /\ action'[CallOf[e]] = PlannedRow(e)
        /\ \A c \in Calls \ {CallOf[e]} : action'[c] = action[c]
    BY <2>1, <2>2, Parts, Setting
  <2>4. /\ exec' \in [Executions -> Exec]
        /\ exec'[e].stage = "claim" /\ exec'[e].receipt = exec[e].receipt
        /\ exec'[e].claim = 0
        /\ \A f \in Executions \ {e} : exec'[f] = exec[f]
    BY <1>1, <2>1, Parts, Going
  <2>5. RowOf(e) = Absent /\ RowInv(CallOf[e])
    BY <1>3, Parts DEF RowInv, RowOf
  <2>6. Grows(CallOf[e])
    BY <2>1, <2>3, <2>5 DEF Grows, RowOf, Absent, PlannedRow
  <2>7. RowOK(action'[CallOf[e]])
    BY <2>3, ConstantsAssumption DEF RowOK, PlannedRow, Absent
  <2>8. RowInv(CallOf[e])'
    <3>1. KindOf[CallOf[e]] = "slack" => effects[CallOf[e]] = {}
      BY <2>5, ConstantsAssumption DEF RowInv, RowOf, Absent
    <3>2. action'[CallOf[e]].status = "PLANNED"
      BY <2>3 DEF PlannedRow, Absent
    <3> QED
      BY <2>1, <2>5, <3>1, <3>2 DEF RowInv
  <2>9. ExecInv(e)'
    BY <1>1, <2>3, <2>4 DEF ExecInv, RowOf, At, PlannedRow, Absent
  <2> QED
    BY <2>1, <2>3, <2>4, <2>6, <2>7, <2>8, <2>9, Actor, Parts
<1> QED
  BY <1>2, <1>3

LEMMA ClaimStep ==
  ASSUME IInv, NEW e \in Executions, Claim(e)
  PROVE  IInv' /\ \A c \in Calls : Grows(c)
<1>1. exec[e].claim = 0 /\ ~exec[e].receipt /\ RowOf(e).status # "absent"
  BY Parts DEF Claim, At, ExecInv, Exec
<1>2. CASE ~Claimable(RowOf(e))
  <2>1. /\ Goto(e, LostClaim(RowOf(e)))
        /\ UNCHANGED <<runVars, action, effects>>
    BY <1>2 DEF Claim
  <2>2. LostClaim(RowOf(e)) \in {"returned", "threw"}
    BY DEF LostClaim
  <2>3. LostClaim(RowOf(e)) = "returned" => RowOf(e).status = "SUCCEEDED"
    BY DEF LostClaim
  <2> QED
    BY <1>1, <2>1, <2>2, <2>3, Moving
<1>3. CASE Claimable(RowOf(e))
  <2> DEFINE row == ClaimedRow(RowOf(e))
             mine == [exec[e] EXCEPT !.stage = "claimed", !.claim = RowOf(e).claim + 1]
  <2>1. /\ SetRow(e, row) /\ RowOf(e).claim < MaxClaims
        /\ exec' = [exec EXCEPT ![e] = mine]
        /\ UNCHANGED <<runVars, effects>>
    BY <1>3 DEF Claim
  <2>2. RowOf(e).claim + 1 \in 0 .. MaxClaims
    BY <2>1, Parts, ConstantsAssumption
  <2>3. row \in Row /\ mine \in Exec
    BY <2>2, Parts DEF ClaimedRow, Row, Exec
  <2>4. /\ row.status = "RUNNING" /\ row.claim = RowOf(e).claim + 1 /\ ~row.lapsed
        /\ row.key = RowOf(e).key /\ row.external = RowOf(e).external
    BY Parts DEF ClaimedRow, Row
  <2>5. mine.stage = "claimed" /\ mine.claim = RowOf(e).claim + 1 /\ mine.receipt = exec[e].receipt
    BY Parts DEF Exec
  <2> HIDE DEF row, mine
  <2>6. /\ action' \in [Calls -> Row] /\ action'[CallOf[e]] = row
        /\ \A c \in Calls \ {CallOf[e]} : action'[c] = action[c]
    BY <2>1, <2>3, Parts, Setting
  <2>7. /\ exec' \in [Executions -> Exec] /\ exec'[e] = mine
        /\ \A f \in Executions \ {e} : exec'[f] = exec[f]
    BY <2>1, <2>3, Parts
  <2>8. RowOf(e).status # "SUCCEEDED"
    BY <1>3 DEF Claimable
  <2>9. Grows(CallOf[e])
    BY <2>1, <2>4, <2>6, <2>8, Parts DEF Grows, RowOf
  <2>10. RowOK(action'[CallOf[e]])
    BY <1>1, <2>4, <2>6, Parts DEF RowOK
  <2>11. RowInv(CallOf[e])'
    BY <2>1, <2>4, <2>6, Parts DEF RowInv, RowOf
  <2>12. ExecInv(e)'
    BY <1>1, <2>4, <2>5, <2>6, <2>7, Parts DEF ExecInv, RowOf, At
  <2> QED
    BY <2>1, <2>5, <2>6, <2>7, <2>9, <2>10, <2>11, <2>12, Actor, Parts
<1> QED
  BY <1>2, <1>3

(* A step that writes the row under its claim and adds no effect.          *)
LEMMA Writing ==
  ASSUME IInv, NEW e \in Executions, NEW s \in {"returned", "threw", "failing"},
         NEW row \in Row, SetRow(e, row), Goto(e, s), UNCHANGED <<runVars, effects>>,
         exec[e].stage \in InHand,
         row.claim = RowOf(e).claim, row.key = RowOf(e).key, row.status # "absent",
         RowOf(e).status = "SUCCEEDED" => row.status = "SUCCEEDED",
         RowOf(e).external => row.external, RowOK(row),
         row.status = "SUCCEEDED" => effects[CallOf[e]] # {} /\ row.external,
         s = "returned" => row.status = "SUCCEEDED",
         exec[e].receipt => row.external
  PROVE  IInv' /\ \A c \in Calls : Grows(c)
<1>1. /\ exec' \in [Executions -> Exec]
      /\ exec'[e].stage = s /\ exec'[e].receipt = exec[e].receipt
      /\ exec'[e].claim = IF s \in Over THEN 0 ELSE exec[e].claim
      /\ \A f \in Executions \ {e} : exec'[f] = exec[f]
  BY Parts, Going
<1>2. /\ action' \in [Calls -> Row] /\ action'[CallOf[e]] = row
      /\ \A c \in Calls \ {CallOf[e]} : action'[c] = action[c]
  BY Parts, Setting
<1>3. Grows(CallOf[e])
  BY <1>2, Parts DEF Grows, RowOf
<1>4. RowInv(CallOf[e])'
  BY <1>2, Parts DEF RowInv, RowOf
<1>5. ExecInv(e)'
  <2>1. exec[e].claim > 0 /\ exec[e].claim =< row.claim
    BY Parts DEF ExecInv
  <2>2. exec'[e].stage \in InHand <=> exec'[e].claim > 0
    BY <1>1, <2>1
  <2>3. exec'[e].claim =< row.claim
    BY <1>1, <2>1, Parts
  <2>4. exec[e].receipt => effects[CallOf[e]] # {}
    BY Parts DEF ExecInv
  <2> QED
    BY <1>1, <1>2, <2>2, <2>3, <2>4 DEF ExecInv, RowOf, At
<1> QED
  BY <1>1, <1>2, <1>3, <1>4, <1>5, Actor, Parts

LEMMA FailClaimStep ==
  ASSUME IInv, NEW e \in Executions, FailClaim(e)
  PROVE  IInv' /\ \A c \in Calls : Grows(c)
<1>1. At(e, "failing") /\ Goto(e, "threw") /\ UNCHANGED <<runVars, effects>>
  BY DEF FailClaim
<1>2. exec[e].claim > 0 /\ RowOf(e).status # "absent" /\ (exec[e].receipt => RowOf(e).external)
  BY <1>1, Parts DEF ExecInv, At
<1>3. CASE ~Settleable(RowOf(e), exec[e].claim)
  <2>1. UNCHANGED action
    BY <1>3 DEF FailClaim
  <2> QED
    BY <1>1, <1>2, <2>1, Moving
<1>4. CASE Settleable(RowOf(e), exec[e].claim)
  <2> DEFINE row == [RowOf(e) EXCEPT !.status = "FAILED", !.lapsed = FALSE]
  <2>1. SetRow(e, row)
    BY <1>4 DEF FailClaim
  <2>2. RowOf(e).status = "RUNNING" /\ RowOf(e).claim = exec[e].claim
    BY <1>4 DEF Settleable, Held
  <2>3. /\ row \in Row /\ row.status = "FAILED" /\ row.claim = RowOf(e).claim
        /\ ~row.lapsed /\ row.key = RowOf(e).key /\ row.external = RowOf(e).external
    BY Parts DEF Row
  <2> HIDE DEF row
  <2>4. RowOK(row)
    BY <1>2, <2>2, <2>3, Parts DEF RowOK
  <2> QED
    BY <1>1, <1>2, <2>1, <2>2, <2>3, <2>4, Writing DEF At
<1> QED
  BY <1>3, <1>4

(* A completed row keeps its claim and its key.                            *)
LEMMA Completed ==
  ASSUME IInv, NEW e \in Executions, RowOf(e).status # "absent", RowOf(e).claim > 0
  PROVE  LET row == CompletedRow(RowOf(e)) IN
         /\ row \in Row /\ row.status = "SUCCEEDED" /\ row.claim = RowOf(e).claim
         /\ row.key = RowOf(e).key /\ row.external /\ RowOK(row)
<1> DEFINE row == CompletedRow(RowOf(e))
<1>1. /\ row \in Row /\ row.status = "SUCCEEDED" /\ row.claim = RowOf(e).claim
      /\ row.key = RowOf(e).key /\ row.external /\ ~row.lapsed
  BY Parts DEF Row, CompletedRow
<1> HIDE DEF row
<1>2. RowOK(row)
  BY <1>1, Parts DEF RowOK
<1> QED
  BY <1>1, <1>2 DEF row

LEMMA CompleteStep ==
  ASSUME IInv, NEW e \in Executions, Complete(e)
  PROVE  IInv' /\ \A c \in Calls : Grows(c)
<1>1. /\ exec[e].stage = "accepted" /\ exec[e].claim > 0 /\ exec[e].receipt
      /\ RowOf(e).status # "absent" /\ effects[CallOf[e]] # {} /\ Slack(e)
      /\ exec[e].claim =< RowOf(e).claim
  BY Parts DEF Complete, At, ExecInv
<1>2. UNCHANGED <<runVars, effects>>
  BY DEF Complete
<1>3. CASE Holds(e)
  <2>1. SetRow(e, CompletedRow(RowOf(e))) /\ Goto(e, "returned")
    BY <1>3 DEF Complete
  <2>2. RowOf(e).claim > 0
    BY <1>1, Parts
  <2> QED
    BY <1>1, <1>2, <2>1, <2>2, Completed, Writing
<1>4. CASE ~Holds(e)
  <2>1. Goto(e, "outside") /\ UNCHANGED action
    BY <1>4 DEF Complete
  <2> QED
    BY <1>1, <1>2, <2>1, Moving
<1> QED
  BY <1>3, <1>4

LEMMA NoteDeliveryStep ==
  ASSUME IInv, NEW e \in Executions, NoteDelivery(e)
  PROVE  IInv' /\ \A c \in Calls : Grows(c)
<1>1. /\ exec[e].stage = "noting" /\ exec[e].claim > 0 /\ exec[e].receipt
      /\ RowOf(e).status # "absent" /\ Slack(e)
  BY Parts DEF NoteDelivery, At, ExecInv
<1>2. Goto(e, "failing") /\ UNCHANGED <<runVars, effects>>
  BY DEF NoteDelivery
<1>3. CASE Notable(RowOf(e))
  <2> DEFINE row == [RowOf(e) EXCEPT !.external = TRUE]
  <2>1. SetRow(e, row) /\ RowOf(e).status # "SUCCEEDED"
    BY <1>3 DEF NoteDelivery, Notable
  <2>2. /\ row \in Row /\ row.status = RowOf(e).status /\ row.claim = RowOf(e).claim
        /\ row.lapsed = RowOf(e).lapsed /\ row.key = RowOf(e).key /\ row.external
    BY Parts DEF Row
  <2> HIDE DEF row
  <2>3. RowOK(row)
    BY <2>2, Parts DEF RowOK
  <2> QED
    BY <1>1, <1>2, <2>1, <2>2, <2>3, Writing
<1>4. CASE ~Notable(RowOf(e))
  <2>1. UNCHANGED action
    BY <1>4 DEF NoteDelivery
  <2>2. RowOf(e).external
    BY <1>4, Parts DEF Notable, RowInv, RowOf
  <2> QED
    BY <1>1, <1>2, <2>1, <2>2, Moving
<1> QED
  BY <1>3, <1>4

LEMMA WriteActivityStep ==
  ASSUME IInv, NEW e \in Executions, WriteActivity(e)
  PROVE  IInv' /\ \A c \in Calls : Grows(c)
<1>1. /\ exec[e].stage = "claimed" /\ exec[e].claim > 0 /\ ~exec[e].receipt
      /\ RowOf(e).status # "absent" /\ exec[e].claim =< RowOf(e).claim
  BY Parts DEF WriteActivity, At, ExecInv, Exec
<1>2. RowOf(e).claim > 0
  BY <1>1, Parts
<1>3. KindOf[CallOf[e]] = "crm" /\ CallOf[e] \in Calls
  BY Calling DEF WriteActivity, Slack
<1> DEFINE row == CompletedRow(RowOf(e))
<1>4. /\ row \in Row /\ row.status = "SUCCEEDED" /\ row.claim = RowOf(e).claim
      /\ row.key = RowOf(e).key /\ row.external /\ RowOK(row)
  BY <1>1, <1>2, Completed
<1>5. SetRow(e, row)
  BY DEF WriteActivity
<1> HIDE DEF row
<1>6. /\ action' \in [Calls -> Row] /\ action'[CallOf[e]] = row
      /\ \A c \in Calls \ {CallOf[e]} : action'[c] = action[c]
  BY <1>4, <1>5, Parts, Setting
<1>7. /\ effects' = [effects EXCEPT ![CallOf[e]] = @ \cup {CallOf[e]}]
      /\ UNCHANGED runVars
  BY DEF WriteActivity, ActivityId
<1>8. /\ effects' \in [Calls -> SUBSET (Calls \cup Executions)]
      /\ effects'[CallOf[e]] = effects[CallOf[e]] \cup {CallOf[e]}
      /\ \A c \in Calls \ {CallOf[e]} : effects'[c] = effects[c]
  BY <1>3, <1>7, Parts
<1>9. PICK s \in {"returned", "failing"} : Goto(e, s)
  BY DEF WriteActivity
<1>10. /\ exec' \in [Executions -> Exec]
       /\ exec'[e].stage = s /\ exec'[e].receipt = exec[e].receipt
       /\ exec'[e].claim = IF s \in Over THEN 0 ELSE exec[e].claim
       /\ \A f \in Executions \ {e} : exec'[f] = exec[f]
  BY <1>9, Parts, Going
<1>11. Grows(CallOf[e])
  BY <1>4, <1>6, <1>8, Parts DEF Grows, RowOf
<1>12. RowInv(CallOf[e])'
  BY <1>3, <1>4, <1>6, <1>8, Parts DEF RowInv
<1>13. ExecInv(e)'
  <2>1. exec'[e].stage \in InHand <=> exec'[e].claim > 0
    BY <1>1, <1>10
  <2>2. exec'[e].claim =< row.claim
    BY <1>1, <1>4, <1>10, Parts
  <2> QED
    BY <1>1, <1>4, <1>6, <1>8, <1>10, <2>1, <2>2 DEF ExecInv, RowOf, At
<1> QED
  BY <1>4, <1>6, <1>7, <1>8, <1>10, <1>11, <1>12, <1>13, Actor, Parts

LEMMA DeliverStep ==
  ASSUME IInv, NEW e \in Executions, Deliver(e)
  PROVE  IInv' /\ \A c \in Calls : Grows(c)
<1>1. /\ exec[e].stage = "posting" /\ exec[e].claim > 0 /\ ~exec[e].receipt
      /\ RowOf(e).status # "absent" /\ Slack(e)
  BY Parts DEF Deliver, At, ExecInv, Exec
<1>2. KindOf[CallOf[e]] = "slack" /\ CallOf[e] \in Calls
  BY <1>1, Calling DEF Slack
<1>3. RowOf(e).key \in Executions
  BY <1>1, Parts DEF RowOK, Row
<1>4. /\ effects' = [effects EXCEPT ![CallOf[e]] = @ \cup {RowOf(e).key}]
      /\ UNCHANGED <<runVars, action>>
  BY DEF Deliver, PostKey
<1>5. /\ effects' \in [Calls -> SUBSET (Calls \cup Executions)]
      /\ effects'[CallOf[e]] = effects[CallOf[e]] \cup {RowOf(e).key}
      /\ \A c \in Calls \ {CallOf[e]} : effects'[c] = effects[c]
  BY <1>2, <1>3, <1>4, Parts
<1>6. /\ exec' \in [Executions -> Exec]
      /\ exec'[e].claim = exec[e].claim
      /\ \/ exec'[e].stage = "accepted" /\ exec'[e].receipt
         \/ exec'[e].stage = "failing" /\ ~exec'[e].receipt
      /\ \A f \in Executions \ {e} : exec'[f] = exec[f]
  <2>1. CASE Goto(e, "failing")
    BY <1>1, <2>1, Parts, Going
  <2>2. CASE exec' = [exec EXCEPT ![e] = [@ EXCEPT !.stage = "accepted", !.receipt = TRUE]]
    <3> DEFINE mine == [exec[e] EXCEPT !.stage = "accepted", !.receipt = TRUE]
    <3>1. /\ mine \in Exec /\ mine.stage = "accepted" /\ mine.receipt
          /\ mine.claim = exec[e].claim
      BY Parts DEF Exec
    <3>2. exec' = [exec EXCEPT ![e] = mine]
      BY <2>2
    <3> HIDE DEF mine
    <3> QED
      BY <3>1, <3>2, Parts
  <2> QED
    BY <2>1, <2>2 DEF Deliver
<1>7. Grows(CallOf[e])
  BY <1>4, <1>5, Parts DEF Grows, RowOf
<1>8. RowInv(CallOf[e])' /\ RowOK(action'[CallOf[e]])
  BY <1>1, <1>2, <1>3, <1>4, <1>5, Parts DEF RowInv, RowOf
<1>9. ExecInv(e)'
  <2>1. RowOf(e)' = RowOf(e) /\ Slack(e)' = Slack(e)
    BY <1>4 DEF RowOf, Slack
  <2> QED
    BY <1>1, <1>5, <1>6, <2>1, Parts DEF ExecInv, At
<1> QED
  BY <1>2, <1>4, <1>5, <1>6, <1>7, <1>8, <1>9, Actor, Parts

-----------------------------------------------------------------------------
(* Steps of the run and of its environment.                                *)

(* They leave executions and effects alone and may relabel rows that are   *)
(* neither absent nor completed.                                           *)
LEMMA Relabelling ==
  ASSUME IInv, UNCHANGED <<exec, effects>>, action' \in [Calls -> Row],
         \A c \in Calls :
           /\ action'[c].claim = action[c].claim /\ action'[c].key = action[c].key
           /\ action'[c].external = action[c].external
           /\ action'[c].status = "absent" <=> action[c].status = "absent"
           /\ action'[c].status = "SUCCEEDED" <=> action[c].status = "SUCCEEDED"
           /\ action[c].status = "absent" => action'[c] = action[c]
           /\ RowOK(action'[c]),
         run' \in {"RUNNING"} \cup Ended, staged' \in Result,
         closing' \in Result \cup {"idle"}, required' \subseteq Declared,
         SuccessIsEarned'
  PROVE  IInv' /\ \A c \in Calls : Grows(c)
<1>1. TypeOK'
  BY DEF IInv, TypeOK
<1>2. \A c \in Calls : Grows(c)
  <2> SUFFICES ASSUME NEW c \in Calls PROVE Grows(c)
    OBVIOUS
  <2>1. action[c] \in Row
    BY DEF IInv, TypeOK
  <2>2. action[c].claim \in Nat
    BY <2>1, ConstantsAssumption DEF Row
  <2> QED
    BY <2>2 DEF Grows
<1>3. \A c \in Calls : RowInv(c)'
  BY DEF IInv, RowInv
<1>4. \A e \in Executions : ExecInv(e)'
  <2> SUFFICES ASSUME NEW e \in Executions PROVE ExecInv(e)'
    OBVIOUS
  <2> QED
    BY Calling DEF IInv, ExecInv, RowOf, Slack, At
<1>5. ClaimsDistinct'
  BY DEF IInv, ClaimsDistinct
<1> QED
  BY <1>1, <1>2, <1>3, <1>4, <1>5 DEF IInv

(* The same for a step that leaves the ledger alone.                       *)
LEMMA RunOnly ==
  ASSUME IInv, UNCHANGED <<action, exec, effects>>,
         run' \in {"RUNNING"} \cup Ended, staged' \in Result,
         closing' \in Result \cup {"idle"}, required' \subseteq Declared,
         SuccessIsEarned'
  PROVE  IInv' /\ \A c \in Calls : Grows(c)
<1>1. action' \in [Calls -> Row] /\ \A c \in Calls : RowOK(action'[c])
  BY DEF IInv, TypeOK
<1> QED
  BY <1>1, Relabelling

LEMMA StageResultStep ==
  ASSUME IInv, NEW r \in Result, StageResult(r)
  PROVE  IInv' /\ \A c \in Calls : Grows(c)
<1>1. SuccessIsEarned'
  BY DEF StageResult, Active, SuccessIsEarned
<1> QED
  BY <1>1, RunOnly DEF IInv, TypeOK, StageResult

LEMMA ReadResultStep ==
  ASSUME IInv, ReadResult
  PROVE  IInv' /\ \A c \in Calls : Grows(c)
<1>1. SuccessIsEarned'
  BY DEF ReadResult, Active, SuccessIsEarned
<1> QED
  BY <1>1, RunOnly DEF IInv, TypeOK, ReadResult

LEMMA FailRunStep ==
  ASSUME IInv, FailRun
  PROVE  IInv' /\ \A c \in Calls : Grows(c)
<1>1. SuccessIsEarned'
  BY DEF FailRun, SuccessIsEarned
<1> QED
  BY <1>1, RunOnly DEF IInv, TypeOK, FailRun

LEMMA FinishRunStep ==
  ASSUME IInv, FinishRun
  PROVE  IInv' /\ \A c \in Calls : Grows(c)
<1>1. UNCHANGED <<action, exec, effects>> /\ closing \in Result /\ closing' = "idle"
  BY DEF FinishRun, IInv, TypeOK
<1>2. CASE ~Active /\ UNCHANGED <<run, staged, required>>
  <2>1. SuccessIsEarned'
    BY <1>1, <1>2 DEF IInv, SuccessIsEarned
  <2> QED
    BY <1>1, <1>2, <2>1, RunOnly DEF IInv, TypeOK
<1>3. CASE /\ NoneNeeded(closing) \/ Missing = {}
           /\ run' = "SUCCEEDED" /\ staged' = closing /\ UNCHANGED required
  <2>1. SuccessIsEarned'
    <3>1. CASE NoneNeeded(closing)
      BY <1>3, <3>1 DEF NoneNeeded, MayDecline, SuccessIsEarned
    <3>2. CASE Missing = {}
      <4> SUFFICES ASSUME NEW k \in Declared
                   PROVE  \E c \in Calls : KindOf[c] = k /\ effects'[c] # {}
        BY DEF SuccessIsEarned
      <4>1. PICK c \in RowsOf(k) : action[c].status = "SUCCEEDED"
        BY <3>2 DEF Missing, Performed
      <4>2. c \in Calls /\ KindOf[c] = k
        BY <4>1 DEF RowsOf
      <4> QED
        BY <1>1, <4>1, <4>2 DEF IInv, RowInv
    <3> QED
      BY <1>3, <3>1, <3>2
  <2> QED
    BY <1>1, <1>3, <2>1, RunOnly DEF IInv, TypeOK
<1>4. CASE /\ \E k \in Missing :
                required' = IF RowsOf(k) = {} THEN required \cup {k} ELSE required
           /\ run' = "FAILED" /\ UNCHANGED staged
  <2>1. SuccessIsEarned'
    BY <1>4 DEF SuccessIsEarned
  <2>2. required' \subseteq Declared
    BY <1>4 DEF Missing, IInv, TypeOK
  <2> QED
    BY <1>1, <1>4, <2>1, <2>2, RunOnly DEF IInv, TypeOK
<1> QED
  BY <1>2, <1>3, <1>4 DEF FinishRun

LEMMA CancelRunStep ==
  ASSUME IInv, CancelRun
  PROVE  IInv' /\ \A c \in Calls : Grows(c)
<1>1. /\ run' = "CANCELLED" /\ UNCHANGED <<staged, closing, required, exec, effects>>
      /\ action' = [c \in Calls |-> CancelledRow(action[c])]
  BY DEF CancelRun
<1>2. SuccessIsEarned'
  BY <1>1 DEF SuccessIsEarned
<1>3. ASSUME NEW row \in Row, RowOK(row)
      PROVE  LET new == CancelledRow(row) IN
             /\ new \in Row /\ RowOK(new)
             /\ new.claim = row.claim /\ new.key = row.key /\ new.external = row.external
             /\ new.status = "absent" <=> row.status = "absent"
             /\ new.status = "SUCCEEDED" <=> row.status = "SUCCEEDED"
             /\ row.status = "absent" => new = row
  <2>1. CASE row.status \in {"PLANNED", "RUNNING"}
    <3> DEFINE new == [row EXCEPT !.status = "CANCELLED", !.lapsed = FALSE]
    <3>1. /\ new \in Row /\ new.status = "CANCELLED" /\ ~new.lapsed
          /\ new.claim = row.claim /\ new.key = row.key /\ new.external = row.external
      BY DEF Row
    <3>2. CancelledRow(row) = new
      BY <2>1 DEF CancelledRow
    <3> HIDE DEF new
    <3> QED
      BY <1>3, <2>1, <3>1, <3>2 DEF RowOK
  <2>2. CASE row.status \notin {"PLANNED", "RUNNING"}
    BY <1>3, <2>2 DEF CancelledRow
  <2> QED
    BY <2>1, <2>2
<1>4. \A c \in Calls : action[c] \in Row /\ RowOK(action[c])
  BY DEF IInv, TypeOK
<1>5. \A c \in Calls : action'[c] = CancelledRow(action[c])
  BY <1>1
<1>6. action' \in [Calls -> Row]
  BY <1>1, <1>3, <1>4
<1>7. staged' \in Result /\ closing' \in Result \cup {"idle"} /\ required' \subseteq Declared
  BY <1>1 DEF IInv, TypeOK
<1> QED
  BY <1>1, <1>2, <1>3, <1>4, <1>5, <1>6, <1>7, Relabelling

LEMMA LapseStep ==
  ASSUME IInv, NEW c \in Calls, Lapse(c)
  PROVE  IInv' /\ \A d \in Calls : Grows(d)
<1> DEFINE row == [action[c] EXCEPT !.lapsed = TRUE]
<1>1. action[c] \in Row /\ RowOK(action[c]) /\ action[c].status = "RUNNING"
  BY DEF IInv, TypeOK, Lapse
<1>2. /\ row \in Row /\ row.status = action[c].status /\ row.claim = action[c].claim
      /\ row.key = action[c].key /\ row.external = action[c].external
  BY <1>1 DEF Row
<1>3. action' = [action EXCEPT ![c] = row]
  BY DEF Lapse
<1>4. UNCHANGED <<runVars, exec, effects>>
  BY DEF Lapse
<1> HIDE DEF row
<1>5. action' \in [Calls -> Row] /\ action'[c] = row
      /\ \A d \in Calls \ {c} : action'[d] = action[d]
  BY <1>2, <1>3 DEF IInv, TypeOK
<1>6. RowOK(row)
  BY <1>1, <1>2 DEF RowOK
<1>7. \A d \in Calls : RowOK(action[d])
  BY DEF IInv, TypeOK
<1>8. /\ run' \in {"RUNNING"} \cup Ended /\ staged' \in Result
      /\ closing' \in Result \cup {"idle"} /\ required' \subseteq Declared
      /\ SuccessIsEarned'
  BY <1>4 DEF runVars, IInv, TypeOK, SuccessIsEarned
<1> QED
  BY <1>1, <1>2, <1>4, <1>5, <1>6, <1>7, <1>8, Relabelling

-----------------------------------------------------------------------------
LEMMA Initially == Init => IInv
<1> SUFFICES ASSUME Init PROVE IInv
  OBVIOUS
<1>1. Absent \in Row /\ Waiting \in Exec /\ RowOK(Absent)
  BY ConstantsAssumption DEF Absent, Row, Waiting, Exec, RowOK
<1>2. \A c \in Calls : action[c] = Absent /\ effects[c] = {}
  BY DEF Init
<1>3. \A e \in Executions : exec[e] = Waiting /\ RowOf(e) = Absent
  BY <1>2, Calling DEF Init, RowOf
<1>4. TypeOK
  BY <1>1, <1>2 DEF Init, TypeOK
<1>5. \A c \in Calls : RowInv(c)
  <2>1. Absent.status = "absent"
    BY DEF Absent
  <2> QED
    BY <1>2, <2>1 DEF RowInv
<1>6. \A e \in Executions : ExecInv(e)
  BY <1>3 DEF ExecInv, Absent, Waiting, At
<1>7. ClaimsDistinct
  BY <1>3 DEF ClaimsDistinct, Waiting
<1>8. SuccessIsEarned
  BY DEF Init, SuccessIsEarned
<1> QED
  BY <1>4, <1>5, <1>6, <1>7, <1>8 DEF IInv

LEMMA Stuttering ==
  ASSUME IInv, UNCHANGED vars
  PROVE  IInv'
<1>1. SuccessIsEarned' /\ action' \in [Calls -> Row] /\ \A c \in Calls : RowOK(action'[c])
  BY DEF vars, IInv, TypeOK, SuccessIsEarned
<1> QED
  BY <1>1, RunOnly DEF vars, IInv, TypeOK

LEMMA Stepping ==
  ASSUME IInv, Next
  PROVE  IInv' /\ \A c \in Calls : Grows(c)
<1>1. ASSUME NEW e \in Executions, Start(e) \/ Step(e) \/ Crash(e)
      PROVE  IInv' /\ \A c \in Calls : Grows(c)
  BY <1>1, StartStep, PlanStep, ClaimStep, FailClaimStep, WriteActivityStep,
     ConnectStep, HoldClaimStep, DeliverStep, RefuseStep, CompleteStep,
     LookOutsideStep, NoteDeliveryStep, CrashStep DEF Step
<1>2. CASE RunNext
  BY <1>2, StageResultStep, ReadResultStep, FinishRunStep, FailRunStep, CancelRunStep
     DEF RunNext
<1> QED
  BY <1>1, <1>2, LapseStep DEF Next

(* The invariant of the ledger.                                            *)
THEOREM Invariant == Spec => []IInv
<1>1. Init => IInv
  BY Initially
<1>2. IInv /\ [Next]_vars => IInv'
  BY Stepping, Stuttering
<1> QED
  BY <1>1, <1>2, PTL DEF Spec

(* Every variable keeps its type, and a row runs only under a claim.       *)
THEOREM TypeCorrect == Spec => []TypeOK
<1>1. IInv => TypeOK
  BY DEF IInv
<1> QED
  BY <1>1, Invariant, PTL

(* A run that succeeded without declining performed what it declares.      *)
THEOREM Earned == Spec => []SuccessIsEarned
<1>1. IInv => SuccessIsEarned
  BY DEF IInv
<1> QED
  BY <1>1, Invariant, PTL

(* Every attempt at one call asks for its effect under the same key.       *)
THEOREM OneKey == Spec => []OneKeyPerCall
<1>1. IInv => OneKeyPerCall
  <2> SUFFICES ASSUME IInv, NEW c \in Calls, NEW k \in effects[c], NEW l \in effects[c]
               PROVE  k = l
    BY DEF OneKeyPerCall
  <2>1. KindOf[c] \in {"slack", "crm"} /\ RowInv(c)
    BY ConstantsAssumption DEF IInv
  <2> QED
    BY <2>1 DEF RowInv
<1> QED
  BY <1>1, Invariant, PTL

(* A tool call that reported success has its effect and a completed row.   *)
THEOREM ReportsTrue == Spec => []ReportedSuccessIsReal
<1>1. IInv => ReportedSuccessIsReal
  <2> SUFFICES ASSUME IInv, NEW e \in Executions, At(e, "returned")
               PROVE  RowOf(e).status = "SUCCEEDED" /\ effects[CallOf[e]] # {}
    BY DEF ReportedSuccessIsReal
  <2>1. RowOf(e).status = "SUCCEEDED"
    BY Parts DEF ExecInv
  <2> QED
    BY <2>1, Parts DEF RowInv, RowOf
<1> QED
  BY <1>1, Invariant, PTL

(* A delivery whose receipt arrived is on the ledger once its execution is *)
(* over.                                                                   *)
THEOREM ReceiptsRecorded == Spec => []ReceiptIsRecorded
<1>1. IInv => ReceiptIsRecorded
  BY Parts DEF ReceiptIsRecorded, ExecInv
<1> QED
  BY <1>1, Invariant, PTL

(* A step leaves the holder of a fresh claim its claim, unless the action  *)
(* is completed or the run stopped.                                        *)
LEMMA ClaimKept ==
  ASSUME IInv, Next, NEW e \in Executions,
         Holds(e), ~RowOf(e).lapsed, UNCHANGED exec[e]
  PROVE  \/ Holds(e)'
         \/ RowOf(e)'.status = "SUCCEEDED"
         \/ Active /\ RowOf(e)'.status = "CANCELLED"
<1>1. /\ RowOf(e).status = "RUNNING" /\ RowOf(e).claim = exec[e].claim
      /\ CallOf[e] \in Calls /\ action[CallOf[e]] \in Row /\ action \in [Calls -> Row]
  BY Parts, Calling DEF Holds, Held
<1>2. exec[e].claim # 0
  BY <1>1, Parts DEF RowOK
<1>3. UNCHANGED RowOf(e) => Holds(e)'
  BY DEF Holds, Held
<1>4. ASSUME NEW f \in Executions, Start(f) \/ Step(f) \/ Crash(f)
      PROVE  Holds(e)' \/ RowOf(e)'.status = "SUCCEEDED"
  <2>1. CASE UNCHANGED action
    BY <1>3, <2>1 DEF RowOf
  <2>2. CASE CallOf[f] = CallOf[e]
    <3>1. RowOf(f) = RowOf(e)
      BY <2>2 DEF RowOf
    <3>2. CASE Plan(f)
      BY <1>1, <2>1, <3>1, <3>2 DEF Plan
    <3>3. CASE Claim(f)
      BY <1>1, <2>1, <3>1, <3>3 DEF Claim, Claimable
    <3>4. CASE FailClaim(f)
      <4>1. CASE f = e
        <5>1. exec'[e].claim = 0
          BY <3>4, <4>1, Parts, Going DEF FailClaim
        <5> QED
          BY <1>2, <5>1
      <4>2. CASE f # e
        <5>1. exec[f].claim # exec[e].claim
          <6>1. ClaimsDistinct
            BY DEF IInv
          <6> QED
            BY <1>2, <2>2, <4>2, <6>1 DEF ClaimsDistinct
        <5>2. ~Settleable(RowOf(f), exec[f].claim)
          BY <1>1, <3>1, <5>1 DEF Settleable, Held
        <5> QED
          BY <2>1, <3>4, <5>2 DEF FailClaim
      <4> QED
        BY <4>1, <4>2
    <3>5. CASE WriteActivity(f) \/ Complete(f)
      <4>1. CASE SetRow(f, CompletedRow(RowOf(f)))
        <5>1. RowOf(e)' = CompletedRow(RowOf(e))
          BY <1>1, <2>2, <3>1, <4>1 DEF SetRow, RowOf
        <5>2. CompletedRow(RowOf(e)).status = "SUCCEEDED"
          BY Parts DEF CompletedRow, Row
        <5> QED
          BY <5>1, <5>2
      <4> QED
        BY <2>1, <3>5, <4>1 DEF WriteActivity, Complete
    <3>6. CASE NoteDelivery(f)
      <4>1. CASE SetRow(f, [RowOf(f) EXCEPT !.external = TRUE])
        <5> DEFINE row == [RowOf(e) EXCEPT !.external = TRUE]
        <5>1. row.status = RowOf(e).status /\ row.claim = RowOf(e).claim
          BY Parts DEF Row
        <5>2. RowOf(e)' = row
          BY <1>1, <2>2, <3>1, <4>1 DEF SetRow, RowOf
        <5> HIDE DEF row
        <5> QED
          BY <5>1, <5>2 DEF Holds, Held
      <4> QED
        BY <2>1, <3>6, <4>1 DEF NoteDelivery
    <3>7. CASE Start(f) \/ Crash(f) \/ RejectActivity(f) \/ Connect(f) \/ HoldClaim(f)
               \/ Deliver(f) \/ Refuse(f) \/ LookOutside(f)
      BY <2>1, <3>7 DEF Start, Crash, RejectActivity, Connect, HoldClaim, Deliver,
         Refuse, LookOutside
    <3> QED
      BY <1>4, <3>2, <3>3, <3>4, <3>5, <3>6, <3>7 DEF Step
  <2>3. CASE CallOf[f] # CallOf[e]
    <3>1. UNCHANGED action \/ \E row : SetRow(f, row)
      BY <1>4 DEF Start, Crash, Step, Plan, Claim, FailClaim, WriteActivity,
         RejectActivity, Connect, HoldClaim, Deliver, Refuse, Complete, LookOutside,
         NoteDelivery
    <3>2. CASE \E row : SetRow(f, row)
      BY <1>1, <1>3, <2>3, <3>2 DEF SetRow, RowOf
    <3> QED
      BY <2>1, <3>1, <3>2
  <2> QED
    BY <2>2, <2>3
<1>5. ASSUME NEW c \in Calls, Lapse(c)
      PROVE  Holds(e)'
  <2> DEFINE row == [action[c] EXCEPT !.lapsed = TRUE]
  <2>1. action' = [action EXCEPT ![c] = row]
    BY <1>5 DEF Lapse
  <2>2. row.status = action[c].status /\ row.claim = action[c].claim
    BY <1>1 DEF Row
  <2> HIDE DEF row
  <2> QED
    BY <1>1, <2>1, <2>2 DEF Holds, Held, RowOf
<1>6. CASE RunNext
  <2>1. CASE UNCHANGED action
    BY <1>3, <2>1 DEF RowOf
  <2>2. CASE CancelRun
    <3> DEFINE new == [RowOf(e) EXCEPT !.status = "CANCELLED", !.lapsed = FALSE]
    <3>1. new.status = "CANCELLED"
      BY Parts DEF Row
    <3>2. RowOf(e)' = new
      BY <1>1, <2>2 DEF CancelRun, CancelledRow, RowOf
    <3> QED
      BY <2>2, <3>1, <3>2 DEF CancelRun
  <2> QED
    BY <1>6, <2>1, <2>2 DEF RunNext, StageResult, ReadResult, FinishRun, FailRun
<1> QED
  BY <1>4, <1>5, <1>6 DEF Next

(* A claim whose lease is running is nobody else's to end.                 *)
THEOREM FreshClaims == Spec => FreshClaimKept
<1>1. ASSUME IInv, [Next]_vars, NEW e \in Executions,
             Holds(e), ~RowOf(e).lapsed, UNCHANGED exec[e]
      PROVE  \/ Holds(e)'
             \/ RowOf(e)'.status = "SUCCEEDED"
             \/ Active /\ RowOf(e)'.status = "CANCELLED"
  <2>1. CASE UNCHANGED vars
    BY <1>1, <2>1 DEF vars, Holds, Held, RowOf
  <2> QED
    BY <1>1, <2>1, ClaimKept
<1>2. IInv /\ [Next]_vars =>
        [\A e \in Executions :
           Holds(e) /\ ~RowOf(e).lapsed /\ UNCHANGED exec[e] =>
             \/ Holds(e)'
             \/ RowOf(e)'.status = "SUCCEEDED"
             \/ Active /\ RowOf(e)'.status = "CANCELLED"]_vars
  BY <1>1
<1> QED
  BY <1>2, Invariant, PTL DEF Spec, FreshClaimKept

(* Once the run has ended no post begins and no activity is written: only  *)
(* posts under way may still be taken.                                     *)
THEOREM EndBeginsNothing == Spec => NothingBegunAfterEnd
<1>1. ASSUME IInv, [Next]_vars, ~Active, NEW e \in Executions, At(e, "posting")'
      PROVE  At(e, "posting")
  <2>1. CASE UNCHANGED exec
    BY <1>1, <2>1 DEF At
  <2>2. ASSUME NEW f \in Executions, Start(f) \/ Step(f) \/ Crash(f)
        PROVE  At(e, "posting")
    <3>1. CASE \E s \in Stage \ {"posting"} : Goto(f, s)
      BY <1>1, <3>1, Parts, Going DEF At
    <3>2. CASE Claim(f) \/ Deliver(f)
      <4>1. exec \in [Executions -> Exec]
        BY <1>1 DEF IInv, TypeOK
      <4>2. CASE \E s \in Stage \ {"posting"} : Goto(f, s)
        BY <4>2, <3>1
      <4>3. CASE \E mine : mine.stage # "posting" /\ exec' = [exec EXCEPT ![f] = mine]
        BY <1>1, <4>1, <4>3 DEF At
      <4>4. CASE Claim(f) /\ Claimable(RowOf(f))
        <5> DEFINE mine == [exec[f] EXCEPT !.stage = "claimed", !.claim = RowOf(f).claim + 1]
        <5>1. mine.stage = "claimed"
          BY <1>1, Parts DEF Exec
        <5>2. exec' = [exec EXCEPT ![f] = mine]
          BY <4>4 DEF Claim
        <5> HIDE DEF mine
        <5> QED
          BY <4>3, <5>1, <5>2
      <4>5. CASE Claim(f) /\ ~Claimable(RowOf(f))
        BY <4>2, <4>5 DEF Claim, LostClaim
      <4>6. CASE exec' = [exec EXCEPT ![f] = [@ EXCEPT !.stage = "accepted", !.receipt = TRUE]]
        <5> DEFINE mine == [exec[f] EXCEPT !.stage = "accepted", !.receipt = TRUE]
        <5>1. mine.stage = "accepted"
          BY <1>1, Parts DEF Exec
        <5>2. exec' = [exec EXCEPT ![f] = mine]
          BY <4>6
        <5> HIDE DEF mine
        <5> QED
          BY <4>3, <5>1, <5>2
      <4> QED
        BY <3>2, <4>2, <4>4, <4>5, <4>6 DEF Deliver
    <3>3. CASE HoldClaim(f)
      BY <1>1, <3>1, <3>3 DEF HoldClaim, MayPost
    <3> QED
      BY <2>2, <3>1, <3>2, <3>3 DEF Step, Start, Plan, FailClaim, WriteActivity,
         RejectActivity, Connect, Refuse, Complete, LookOutside, NoteDelivery, Crash
  <2> QED
    BY <1>1, <2>1, <2>2 DEF Next, RunNext, StageResult, ReadResult, FinishRun, FailRun,
       CancelRun, Lapse, vars
<1>2. ASSUME IInv, [Next]_vars, ~Active, NEW c \in Calls, effects'[c] # effects[c]
      PROVE  \E e \in Executions : At(e, "posting") /\ CallOf[e] = c
  <2>1. PICK e \in Executions : Deliver(e)
    BY <1>2 DEF Next, RunNext, Step, vars, Start, Plan, Claim, FailClaim, WriteActivity,
       RejectActivity, Connect, HoldClaim, Refuse, Complete, LookOutside, NoteDelivery,
       Crash, StageResult, ReadResult, FinishRun, FailRun, CancelRun, Lapse, runVars
  <2>2. effects \in [Calls -> SUBSET (Calls \cup Executions)]
    BY <1>2 DEF IInv, TypeOK
  <2> QED
    BY <1>2, <2>1, <2>2 DEF Deliver
<1>3. IInv /\ [Next]_vars =>
        [~Active =>
           /\ \A e \in Executions : At(e, "posting")' => At(e, "posting")
           /\ \A c \in Calls : effects'[c] # effects[c] =>
                \E e \in Executions : At(e, "posting") /\ CallOf[e] = c]_vars
  BY <1>1, <1>2
<1> QED
  BY <1>3, Invariant, PTL DEF Spec, NothingBegunAfterEnd
=============================================================================
