-------------------------- MODULE AgentTasksProofs --------------------------
(***************************************************************************)
(* Theorems about AgentTasks for every set of rows, records, kinds and     *)
(* attempts.                                                               *)
(***************************************************************************)
EXTENDS AgentTasks, TLAPS

(* Only rows of the visible lane are handled without a session.            *)
HandledVisible ==
  \A t \in Task, a \in Attempt :
    work[t][a] \in {"handling", "answered"} => LaneOf(t) = "visible"

(* What a settle under way may write over: a record its task owns,         *)
(* COMPLETE only by COMPLETE, and PENDING only for a row that is finished. *)
SettlesGuarded ==
  \A c \in settling :
    /\ Owns(c.task)
    /\ "COMPLETE" \in c.from => c.status = "COMPLETE"
    /\ "PENDING" \in c.from => Finished(c.task)

(* A row the sweep listed has no live lease, unless it was claimed since.  *)
ListedUnleased ==
  sweep.scanned =>
    \A t \in sweep.landed \cup sweep.untargeted \cup sweep.dead :
      Open(t) /\ Leased(t) => t \in sweep.reclaimed

(* A settle that may write over PENDING and read before a request about    *)
(* the same contact was marked carries a date the mark has passed.         *)
Fresh(t) ==
  /\ SubjectOf[t] \in Contact
  /\ asking[t] = "marked" /\ Open(t) /\ row[t].attempts = 0

OlderSettlesDated ==
  \A t \in Task, c \in settling :
    Fresh(t) /\ SubjectOf[c.task] = SubjectOf[t] /\ "PENDING" \in c.from
      => c.task \in touched

(* Only a rep's request reads and queues.                                  *)
AskedRequested ==
  \A t \in Task : asking[t] \in {"read", "queued"} => t \in Requested

IInv ==
  /\ TypeOK
  /\ AskedRequested
  /\ HandledVisible
  /\ SettlesGuarded
  /\ ListedUnleased
  /\ OlderSettlesDated

USE DEF Record, Attempt, Lane, Stage, Ask, EnrichmentStatus

-----------------------------------------------------------------------------
(* What the operators the actions share do.                                *)

LEMMA EndedTyped ==
  ASSUME NEW r \in Row,
         NEW outcome \in {"ran", "stopped", "direct", "landed", "untargeted",
                          "retired"}
  PROVE  /\ Ended(r, outcome) \in Row
         /\ Ended(r, outcome).state = "finished"
         /\ Ended(r, outcome).lease = "none"
         /\ Ended(r, outcome).attempts = r.attempts
BY DEF Ended, Row

LEMMA SettleCallsKeep ==
  ASSUME settling \subseteq Settle, NEW T \in SUBSET Task,
         NEW s \in EnrichmentStatus, SettleCalls(T, s)
  PROVE  /\ settling' \subseteq Settle
         /\ \A c \in settling' : c \in settling \/ (Owns(c.task) /\ c.from = {})
<1> DEFINE New(t) == [task |-> t, status |-> s, from |-> {}, read |-> FALSE]
<1>1. \A c \in settling' : c \in settling \/ \E t \in T : Owns(t) /\ c = New(t)
  BY DEF SettleCalls
<1>2. \A t \in T : New(t) \in Settle /\ New(t).from = {} /\ New(t).task = t
  BY DEF Settle
<1> HIDE DEF New
<1> QED BY <1>1, <1>2

LEMMA WriteKeeps ==
  ASSUME TypeOK, NEW guard \in BOOLEAN, NEW r, guard => r \in Record,
         NEW s \in EnrichmentStatus, WriteStatusIf(guard, r, s)
  PROVE  /\ status' \in [Record -> EnrichmentStatus]
         /\ caughtUp' \subseteq Task /\ touched' \subseteq Task
         /\ unmoved' \subseteq Task
         /\ touched \subseteq touched'
         /\ guard => \A t \in Task : SubjectOf[t] = r /\ Finished(t) => t \in touched'
         /\ \A q \in Record : status'[q] = IF guard /\ q = r THEN s ELSE status[q]
BY DEF WriteStatusIf, WriteStatus, TypeOK, About, dates

(* A step that closes rows at most.                                        *)
RowsClose ==
  /\ row' \in [Task -> Row]
  /\ \A t \in Task : Finished(t) \/ Open(t)' => row'[t] = row[t]

LEMMA CompletedKeeps ==
  ASSUME TypeOK, NEW t \in Task, NEW outcome \in {"ran", "stopped", "direct"},
         row' = CompletedRow(t, outcome)
  PROVE  RowsClose
<1>1. row[t] \in Row
  BY DEF TypeOK
<1>2. CASE Open(t)
  <2> DEFINE e == Ended(row[t], outcome)
  <2>1. row' = [row EXCEPT ![t] = e]
    BY <1>2 DEF CompletedRow
  <2>2. e \in Row /\ e.state = "finished"
    BY <1>1, EndedTyped
  <2> HIDE DEF e
  <2> QED BY <1>2, <2>1, <2>2 DEF RowsClose, TypeOK, Open, Finished
<1>3. CASE ~Open(t)
  BY <1>3 DEF CompletedRow, RowsClose, TypeOK
<1> QED BY <1>2, <1>3

(* A step that closes rows at most, begins settles and moves one piece of  *)
(* work keeps the invariant.                                               *)
StatusMoves ==
  /\ status' \in [Record -> EnrichmentStatus]
  /\ caughtUp' \subseteq Task /\ touched' \subseteq Task
  /\ unmoved' \subseteq Task /\ touched \subseteq touched'

LEMMA QuietKeeps ==
  ASSUME IInv, RowsClose, StatusMoves,
         work' \in [Task -> [Attempt -> Stage]], HandledVisible',
         settling' \subseteq Settle,
         \A c \in settling' : c \in settling \/ (Owns(c.task) /\ c.from = {}),
         UNCHANGED <<asking, sweep, crashes>>
  PROVE  IInv'
<1>1. TypeOK' /\ AskedRequested'
  BY DEF IInv, TypeOK, AskedRequested, RowsClose, StatusMoves
<1>2. SettlesGuarded'
  <2> SUFFICES ASSUME NEW c \in settling', c \in settling
               PROVE  /\ Owns(c.task)
                      /\ "COMPLETE" \in c.from => c.status = "COMPLETE"
                      /\ "PENDING" \in c.from => Finished(c.task)'
    BY DEF SettlesGuarded
  <2>1. c.task \in Task
    BY DEF IInv, TypeOK, Settle
  <2> QED BY <2>1 DEF IInv, SettlesGuarded, RowsClose, Finished
<1>3. ListedUnleased'
  <2>1. sweep.scanned => sweep.landed \cup sweep.untargeted \cup sweep.dead
                           \subseteq Task
    BY DEF IInv, TypeOK, Sweep
  <2> QED BY <2>1 DEF IInv, ListedUnleased, RowsClose, Open, Leased
<1>4. \A t \in Task : Fresh(t)' => Fresh(t)
  BY DEF Fresh, RowsClose, Open
<1>5. OlderSettlesDated'
  <2> SUFFICES ASSUME NEW t \in Task, NEW c \in settling', Fresh(t)',
                      SubjectOf[c.task] = SubjectOf[t], "PENDING" \in c.from
               PROVE  c.task \in touched'
    BY DEF OlderSettlesDated
  <2>1. c \in settling /\ Fresh(t)
    BY <1>4
  <2> QED BY <2>1 DEF IInv, OlderSettlesDated, StatusMoves
<1> QED BY <1>1, <1>2, <1>3, <1>5 DEF IInv

LEMMA StepKeeps ==
  ASSUME IInv, NEW t \in Task, NEW a \in Attempt,
         NEW from, NEW to \in Stage, Step(t, a, from, to),
         to \in {"handling", "answered"} => LaneOf(t) = "visible"
  PROVE  work' \in [Task -> [Attempt -> Stage]] /\ HandledVisible'
BY DEF Step, IInv, TypeOK, HandledVisible, LaneOf

LEMMA WriteMoves ==
  ASSUME TypeOK, NEW guard \in BOOLEAN, NEW r, guard => r \in Record,
         NEW s \in EnrichmentStatus, WriteStatusIf(guard, r, s)
  PROVE  StatusMoves
BY WriteKeeps DEF StatusMoves

LEMMA UnchangedMoves ==
  ASSUME TypeOK
  PROVE  /\ UNCHANGED row => RowsClose
         /\ UNCHANGED <<status, dates>> => StatusMoves
         /\ UNCHANGED settling =>
              /\ settling' \subseteq Settle
              /\ \A c \in settling' : c \in settling \/ (Owns(c.task) /\ c.from = {})
BY DEF TypeOK, RowsClose, StatusMoves, dates

-----------------------------------------------------------------------------
(* The lanes and what their sessions report.                               *)

LEMMA VisibleKeeps ==
  ASSUME IInv, NEW t \in Task, NEW a \in Attempt,
         Visible(t, a) \/ AbortClaimed(t, a)
  PROVE  IInv'
<1>0. TypeOK /\ (Owns(t) => SubjectOf[t] \in Record)
  BY DEF IInv, Owns
<1>1. CASE BeginDirect(t, a)
  <2>1. MarksRunning(t) \in BOOLEAN /\ (MarksRunning(t) => SubjectOf[t] \in Record)
    BY <1>0 DEF MarksRunning
  <2>2. StatusMoves
    BY <1>0, <1>1, <2>1, WriteMoves DEF BeginDirect
  <2> QED BY <1>0, <1>1, <2>2, StepKeeps, UnchangedMoves, QuietKeeps
        DEF BeginDirect
<1>2. CASE SkipBrand(t, a)
  <2>1. LaneOf(t) = "visible"
    BY <1>2 DEF SkipBrand, LaneOf, DirectKinds
  <2>2. PICK guard \in {{"RUNNING"}, EnrichmentStatus \ {"COMPLETE"}} :
          WriteStatusIf(status[SubjectOf[t]] \in guard, SubjectOf[t], "SKIPPED")
    BY <1>2 DEF SkipBrand
  <2> DEFINE g == status[SubjectOf[t]] \in guard
  <2>3. g \in BOOLEAN /\ WriteStatusIf(g, SubjectOf[t], "SKIPPED")
    BY <2>2
  <2>4. SubjectOf[t] \in Record
    BY <1>0, <1>2 DEF SkipBrand
  <2> HIDE DEF g
  <2>5. StatusMoves
    BY <1>0, <2>3, <2>4, WriteMoves
  <2> QED BY <1>0, <1>2, <2>1, <2>5, StepKeeps, UnchangedMoves, QuietKeeps
        DEF SkipBrand
<1>3. CASE AnswerDirect(t, a)
  <2>1. PICK answer \in {"COMPLETE", "SKIPPED", "FAILED"}, to \in {"over", "answered"} :
          /\ Step(t, a, "handling", to)
          /\ WriteStatusIf(/\ Owns(t)
                           /\ \/ answer = "COMPLETE"
                              \/ status[SubjectOf[t]] = "RUNNING",
                           SubjectOf[t], answer)
          /\ UNCHANGED <<row, settling, asking, sweep, crashes>>
    BY <1>3 DEF AnswerDirect
  <2>2. LaneOf(t) = "visible"
    BY <2>1 DEF Step, IInv, HandledVisible
  <2>3. StatusMoves
    BY <1>0, <2>1, WriteMoves
  <2> QED BY <1>0, <2>1, <2>2, <2>3, StepKeeps, UnchangedMoves, QuietKeeps
<1>4. CASE CompleteDirect(t, a)
  <2>1. RowsClose
    BY <1>0, <1>4, CompletedKeeps DEF CompleteDirect
  <2> QED BY <1>0, <1>4, <2>1, StepKeeps, UnchangedMoves, QuietKeeps
        DEF CompleteDirect
<1>5. CASE ThrowDirect(t, a)
  <2>1. /\ settling' \subseteq Settle
        /\ \A c \in settling' : c \in settling \/ (Owns(c.task) /\ c.from = {})
    BY <1>0, <1>5, SettleCallsKeep DEF ThrowDirect, TypeOK
  <2> QED BY <1>0, <1>5, <2>1, StepKeeps, UnchangedMoves, QuietKeeps
        DEF ThrowDirect
<1>6. CASE AbortClaimed(t, a)
  BY <1>0, <1>6, StepKeeps, UnchangedMoves, QuietKeeps DEF AbortClaimed
<1> QED BY <1>1, <1>2, <1>3, <1>4, <1>5, <1>6 DEF Visible

LEMMA ResearchKeeps ==
  ASSUME IInv, NEW t \in Task, NEW a \in Attempt,
         Research(t, a) \/ Session(t, a)
  PROVE  IInv'
<1>0. TypeOK /\ (Owns(t) => SubjectOf[t] \in Record)
  BY DEF IInv, Owns
<1>1. CASE BeginResearch(t, a)
  <2>1. MarksRunning(t) \in BOOLEAN /\ (MarksRunning(t) => SubjectOf[t] \in Record)
    BY <1>0 DEF MarksRunning
  <2>2. StatusMoves
    BY <1>0, <1>1, <2>1, WriteMoves DEF BeginResearch
  <2> QED BY <1>0, <1>1, <2>2, StepKeeps, UnchangedMoves, QuietKeeps
        DEF BeginResearch
<1>2. CASE StartAccepted(t, a) \/ SessionLost(t, a)
  <2>1. /\ \E from, to \in Stage :
             /\ to \notin {"handling", "answered"} /\ Step(t, a, from, to)
        /\ UNCHANGED <<row, settling, status, dates, asking, sweep, crashes>>
    BY <1>2 DEF StartAccepted, SessionLost
  <2> QED BY <1>0, <2>1, StepKeeps, UnchangedMoves, QuietKeeps
<1>3. CASE StartRejected(t, a) \/ TurnFailed(t, a)
  <2>1. /\ \E from \in Stage : Step(t, a, from, "over")
        /\ SettleCalls({t}, "FAILED")
        /\ UNCHANGED <<row, status, dates, asking, sweep, crashes>>
    BY <1>3 DEF StartRejected, TurnFailed
  <2>2. /\ settling' \subseteq Settle
        /\ \A c \in settling' : c \in settling \/ (Owns(c.task) /\ c.from = {})
    BY <1>0, <2>1, SettleCallsKeep DEF TypeOK
  <2> QED BY <1>0, <2>1, <2>2, StepKeeps, UnchangedMoves, QuietKeeps
<1>4. CASE SessionWaiting(t, a) \/ SessionCompleted(t, a) \/ TurnCancelled(t, a)
  <2>1. PICK outcome \in {"ran", "stopped"}, s \in EnrichmentStatus :
          /\ \E from \in Stage, to \in {"over", "waited"} : Step(t, a, from, to)
          /\ CloseTask(t, outcome, s)
    BY <1>4 DEF SessionWaiting, SessionCompleted, TurnCancelled
  <2>2. RowsClose
    BY <1>0, <2>1, CompletedKeeps DEF CloseTask
  <2>3. /\ settling' \subseteq Settle
        /\ \A c \in settling' : c \in settling \/ (Owns(c.task) /\ c.from = {})
    BY <1>0, <2>1, SettleCallsKeep DEF CloseTask, TypeOK
  <2> QED BY <1>0, <2>1, <2>2, <2>3, StepKeeps, UnchangedMoves, QuietKeeps
        DEF CloseTask
<1> QED BY <1>1, <1>2, <1>3, <1>4 DEF Research, Session

-----------------------------------------------------------------------------
(* Intake and leases: steps of one row that leave finished rows alone.     *)
RowMoves(t) ==
  /\ row' \in [Task -> Row]
  /\ \A u \in Task \ {t} : row'[u] = row[u]
  /\ Finished(t) => row'[t] = row[t]
  /\ Open(t)' /\ Leased(t)' => Open(t) /\ Leased(t)

LEMMA RowMovesKeep ==
  ASSUME IInv, NEW t \in Task, RowMoves(t), asking' \in [Task -> Ask],
         AskedRequested', StatusMoves, \A u \in Task : Fresh(u)' => Fresh(u),
         UNCHANGED <<work, settling, sweep, crashes>>
  PROVE  IInv'
<1>1. TypeOK'
  BY DEF IInv, TypeOK, RowMoves, StatusMoves
<1>2. HandledVisible'
  BY DEF IInv, HandledVisible
<1>3. SettlesGuarded'
  <2>1. \A c \in settling : c.task \in Task
    BY DEF IInv, TypeOK, Settle
  <2> QED BY <2>1 DEF IInv, SettlesGuarded, RowMoves, Finished
<1>4. ListedUnleased'
  <2>1. sweep.scanned => sweep.landed \cup sweep.untargeted \cup sweep.dead
                           \subseteq Task
    BY DEF IInv, TypeOK, Sweep
  <2> QED BY <2>1 DEF IInv, ListedUnleased, RowMoves, Open, Leased
<1>5. OlderSettlesDated'
  BY DEF IInv, OlderSettlesDated, StatusMoves
<1> QED BY <1>1, <1>2, <1>3, <1>4, <1>5 DEF IInv

LEMMA CreateMoves ==
  ASSUME TypeOK, NEW t \in Task, NEW due \in BOOLEAN, CreateRow(t, due)
  PROVE  RowMoves(t)
<1> DEFINE new == [AbsentRow EXCEPT !.state = "open", !.due = due]
<1>1. new \in Row /\ new.lease = "none"
  <2>1. 0 \in 0 .. MaxAttempts
    BY ConstantsAssumption
  <2>2. AbsentRow \in Row /\ AbsentRow.lease = "none"
    BY <2>1 DEF AbsentRow, Row
  <2>3. new.lease = "none"
    BY <2>2 DEF Row
  <2> QED BY <2>2, <2>3 DEF Row
<1>2. row' = [row EXCEPT ![t] = new] /\ row[t].state = "absent"
  BY DEF CreateRow
<1> HIDE DEF new
<1> QED BY <1>1, <1>2 DEF RowMoves, TypeOK, Finished, Open, Leased

(* The mark dates every settle that may still answer an older look: its    *)
(* row is finished, and the mark has just written the record.              *)
LEMMA MarkKeeps ==
  ASSUME IInv, NEW t \in Task, EnrichMark(t)
  PROVE  IInv'
<1>0. TypeOK /\ \A c \in settling : c.task \in Task
  BY DEF IInv, TypeOK, Settle
<1> DEFINE g == t \in unmoved /\ Owns(t)
<1>1. g \in BOOLEAN /\ (g => SubjectOf[t] \in Record)
  BY DEF Owns
<1>2. /\ WriteStatusIf(g, SubjectOf[t], "PENDING")
      /\ asking' = [asking EXCEPT ![t] = IF t \in unmoved THEN "marked" ELSE "done"]
      /\ UNCHANGED <<row, work, settling, sweep, crashes>>
  BY DEF EnrichMark
<1>3. SubjectOf[t] \in Contact /\ t \in unmoved => g
  <2>1. t \in Requested
    BY DEF EnrichMark, IInv, AskedRequested
  <2> QED BY <2>1, ConstantsAssumption DEF Owns
<1> HIDE DEF g
<1>4. /\ StatusMoves
      /\ g => \A u \in Task : SubjectOf[u] = SubjectOf[t] /\ Finished(u) => u \in touched'
  BY <1>0, <1>1, <1>2, WriteKeeps, WriteMoves
<1>5. TypeOK' /\ AskedRequested'
  BY <1>2, <1>4 DEF IInv, TypeOK, AskedRequested, StatusMoves
<1>6. HandledVisible' /\ SettlesGuarded' /\ ListedUnleased'
  BY <1>2 DEF IInv, HandledVisible, SettlesGuarded, ListedUnleased, Finished,
     Open, Leased
<1>7. OlderSettlesDated'
  <2> SUFFICES ASSUME NEW u \in Task, NEW c \in settling, Fresh(u)',
                      SubjectOf[c.task] = SubjectOf[u], "PENDING" \in c.from
               PROVE  c.task \in touched'
    BY <1>2 DEF OlderSettlesDated
  <2>1. CASE u = t
    <3>1. g
      BY <1>0, <1>2, <1>3, <2>1 DEF Fresh, TypeOK
    <3> QED BY <1>0, <1>4, <2>1, <3>1 DEF IInv, SettlesGuarded
  <2>2. CASE u # t
    <3>1. Fresh(u)
      BY <1>0, <1>2, <2>2 DEF Fresh, TypeOK, Open
    <3> QED BY <1>4, <3>1 DEF IInv, OlderSettlesDated, StatusMoves
  <2> QED BY <2>1, <2>2
<1> QED BY <1>5, <1>6, <1>7 DEF IInv

LEMMA IntakeKeeps ==
  ASSUME IInv, NEW t \in Task, Intake(t) \/ LeaseExpires(t)
  PROVE  IInv'
<1>0. TypeOK /\ row[t] \in Row /\ row \in [Task -> Row] /\ AskedRequested
  BY DEF IInv, TypeOK
<1>1. CASE Enqueue(t)
  <2>1. RowMoves(t) /\ StatusMoves
    BY <1>0, <1>1, CreateMoves, UnchangedMoves DEF Enqueue
  <2>2. \A u \in Task : Fresh(u)' => Fresh(u)
    BY <1>1, <2>1 DEF Enqueue, RowMoves, Fresh, Open
  <2> QED BY <1>0, <1>1, <2>1, <2>2, RowMovesKeep
        DEF Enqueue, TypeOK, AskedRequested
<1>2. CASE ScheduleMove(t) \/ DueArrives(t)
  <2>1. PICK due \in BOOLEAN : row' = [row EXCEPT ![t].due = due]
    BY <1>2 DEF ScheduleMove, DueArrives
  <2> DEFINE new == [row[t] EXCEPT !.due = due]
  <2>2. /\ new \in Row /\ new.lease = row[t].lease /\ new.state = row[t].state
        /\ new.attempts = row[t].attempts
    BY <1>0 DEF Row
  <2>3. row' = [row EXCEPT ![t] = new] /\ Open(t)
    BY <1>2, <2>1 DEF ScheduleMove, DueArrives
  <2> HIDE DEF new
  <2>4. RowMoves(t)
    BY <1>0, <2>2, <2>3 DEF RowMoves, Finished, Open, Leased
  <2>5. UNCHANGED <<work, settling, status, dates, asking, sweep, crashes>>
    BY <1>2 DEF ScheduleMove, DueArrives
  <2>6. \A u \in Task : Fresh(u)' => Fresh(u)
    BY <1>0, <2>2, <2>3, <2>5 DEF Fresh, Open
  <2> QED BY <1>0, <2>4, <2>5, <2>6, RowMovesKeep, UnchangedMoves
        DEF TypeOK, AskedRequested
<1>3. CASE ScheduleLook(t) \/ EnrichRead(t)
  <2>1. PICK to \in {"booking", "read"} : asking' = [asking EXCEPT ![t] = to]
    BY <1>3 DEF ScheduleLook, EnrichRead
  <2>2. UNCHANGED <<row, work, settling, sweep, crashes>> /\ StatusMoves
    BY <1>0, <1>3 DEF ScheduleLook, EnrichRead, StatusMoves, TypeOK, dates
  <2>3. \A u \in Task : Fresh(u)' => Fresh(u)
    BY <1>0, <2>1, <2>2 DEF Fresh, Open, TypeOK
  <2>4. RowMoves(t)
    BY <1>0, <2>2 DEF RowMoves, Finished, Open, Leased
  <2>5. AskedRequested'
    BY <1>0, <1>3, <2>1 DEF AskedRequested, ScheduleLook, EnrichRead, TypeOK
  <2> QED BY <1>0, <2>1, <2>2, <2>3, <2>4, <2>5, RowMovesKeep DEF TypeOK
<1>4. CASE ScheduleCreate(t) \/ (EnrichQueue(t) /\ ~OpenTwin(t))
  <2>1. /\ \E due \in BOOLEAN : CreateRow(t, due)
        /\ \E to \in {"done", "queued"} : asking' = [asking EXCEPT ![t] = to]
        /\ UNCHANGED <<work, settling, status, dates, sweep, crashes>>
    BY <1>4 DEF ScheduleCreate, EnrichQueue
  <2>2. RowMoves(t) /\ StatusMoves
    BY <1>0, <2>1, CreateMoves, UnchangedMoves
  <2>3. \A u \in Task : Fresh(u)' => Fresh(u)
    BY <1>0, <2>1, <2>2 DEF RowMoves, Fresh, Open, TypeOK
  <2>4. AskedRequested'
    BY <1>0, <1>4 DEF AskedRequested, ScheduleCreate, EnrichQueue, TypeOK
  <2> QED BY <1>0, <2>1, <2>2, <2>3, <2>4, RowMovesKeep DEF TypeOK
<1>5. CASE EnrichQueue(t) /\ OpenTwin(t)
  <2>1. /\ asking' = [asking EXCEPT ![t] = "done"]
        /\ UNCHANGED <<row, work, settling, status, dates, sweep, crashes>>
    BY <1>5 DEF EnrichQueue
  <2>2. \A u \in Task : Fresh(u)' => Fresh(u)
    BY <1>0, <2>1 DEF Fresh, Open, TypeOK
  <2>3. RowMoves(t)
    BY <1>0, <2>1 DEF RowMoves, Finished, Open, Leased
  <2> QED BY <1>0, <2>1, <2>2, <2>3, RowMovesKeep, UnchangedMoves
        DEF TypeOK, AskedRequested
<1>6. CASE EnrichMark(t)
  BY <1>6, MarkKeeps
<1>7. CASE LeaseExpires(t)
  <2> DEFINE new == [row[t] EXCEPT !.lease = "dead"]
  <2>1. /\ new \in Row /\ new.lease = "dead" /\ new.state = row[t].state
        /\ new.attempts = row[t].attempts
    BY <1>0 DEF Row
  <2>2. row' = [row EXCEPT ![t] = new] /\ Open(t)
    BY <1>7 DEF LeaseExpires
  <2> HIDE DEF new
  <2>3. RowMoves(t)
    BY <1>0, <2>1, <2>2 DEF RowMoves, Finished, Open, Leased
  <2>4. UNCHANGED <<work, settling, status, dates, asking, sweep, crashes>>
    BY <1>7 DEF LeaseExpires
  <2>5. \A u \in Task : Fresh(u)' => Fresh(u)
    BY <1>0, <2>1, <2>2, <2>4 DEF Fresh, Open
  <2> QED BY <1>0, <2>3, <2>4, <2>5, RowMovesKeep, UnchangedMoves
        DEF TypeOK, AskedRequested
<1> QED BY <1>1, <1>2, <1>3, <1>4, <1>5, <1>6, <1>7 DEF Intake

-----------------------------------------------------------------------------
(* Claims.                                                                 *)

LEMMA NextAttempt ==
  ASSUME NEW n \in 0 .. MaxAttempts, ~(n >= MaxAttempts)
  PROVE  n + 1 \in Attempt /\ n + 1 \in 0 .. MaxAttempts /\ n + 1 # 0
<1>1. MaxAttempts \in Nat
  BY ConstantsAssumption
<1> QED BY <1>1

(* A claim takes open rows without a live lease, and leaves the others.    *)
LEMMA ClaimRows ==
  ASSUME IInv, NEW lane \in Lane, NEW S \in Chosen(lane),
         row' = [t \in Task |-> IF t \in S THEN ClaimedRow(row[t]) ELSE row[t]]
  PROVE  /\ S \subseteq Task
         /\ \A t \in S : Open(t) /\ ~Leased(t) /\ row[t].attempts + 1 \in Attempt
         /\ row' \in [Task -> Row]
         /\ \A t \in Task \ S : row'[t] = row[t]
         /\ \A t \in S : row'[t].state = "open" /\ row'[t].attempts # 0
<1>1. S \subseteq Task /\ S \subseteq Claimable(lane)
  BY DEF Chosen, Claimable
<1>2. ASSUME NEW t \in S
      PROVE  /\ row[t] \in Row /\ Open(t) /\ ~Leased(t)
             /\ row[t].attempts + 1 \in Attempt
             /\ row[t].attempts + 1 \in 0 .. MaxAttempts
             /\ row[t].attempts + 1 # 0
  <2>1. row[t] \in Row /\ Open(t) /\ ~Leased(t) /\ ~Exhausted(t)
    BY <1>1 DEF Claimable, IInv, TypeOK
  <2>2. row[t].attempts \in 0 .. MaxAttempts /\ ~(row[t].attempts >= MaxAttempts)
    BY <2>1 DEF Row, Exhausted
  <2> HIDE DEF Attempt
  <2> QED BY <2>1, <2>2, NextAttempt
<1>3. ASSUME NEW t \in S
      PROVE  /\ ClaimedRow(row[t]) \in Row
             /\ ClaimedRow(row[t]).state = row[t].state
             /\ ClaimedRow(row[t]).attempts = row[t].attempts + 1
  BY <1>2 DEF ClaimedRow, Row
<1>4. \A t \in Task : row'[t] = IF t \in S THEN ClaimedRow(row[t]) ELSE row[t]
  OBVIOUS
<1>5. row' \in [Task -> Row]
  BY <1>1, <1>3 DEF IInv, TypeOK
<1>6. ASSUME NEW t \in S
      PROVE  row'[t].state = "open" /\ row'[t].attempts # 0
  <2>1. row'[t] = ClaimedRow(row[t])
    BY <1>1, <1>4
  <2> QED BY <1>2, <1>3, <2>1 DEF Open
<1> QED BY <1>1, <1>2, <1>4, <1>5, <1>6

LEMMA ClaimKeeps ==
  ASSUME IInv, NEW lane \in Lane, ClaimDue(lane)
  PROVE  IInv'
<1>1. PICK S \in Chosen(lane) :
        /\ row' = [t \in Task |-> IF t \in S THEN ClaimedRow(row[t]) ELSE row[t]]
        /\ work' = [t \in Task |->
                      IF t \in S
                      THEN [work[t] EXCEPT ![row[t].attempts + 1] = "claimed"]
                      ELSE work[t]]
        /\ sweep' = IF sweep.scanned
                    THEN [sweep EXCEPT !.reclaimed = @ \cup S] ELSE sweep
        /\ UNCHANGED <<settling, status, dates, asking, crashes>>
  BY DEF ClaimDue
<1>2. /\ S \subseteq Task
      /\ \A t \in S : Open(t) /\ ~Leased(t) /\ row[t].attempts + 1 \in Attempt
      /\ row' \in [Task -> Row]
      /\ \A t \in Task \ S : row'[t] = row[t]
      /\ \A t \in S : row'[t].state = "open" /\ row'[t].attempts # 0
  BY <1>1, ClaimRows
<1>3. /\ work' \in [Task -> [Attempt -> Stage]]
      /\ \A t \in Task, a \in Attempt :
           work'[t][a] = work[t][a] \/ work'[t][a] = "claimed"
  BY <1>1, <1>2 DEF IInv, TypeOK
<1>4. /\ sweep' \in Sweep
      /\ sweep'.scanned = sweep.scanned /\ sweep'.landed = sweep.landed
      /\ sweep'.untargeted = sweep.untargeted /\ sweep'.dead = sweep.dead
      /\ sweep.reclaimed \subseteq sweep'.reclaimed
      /\ sweep.scanned => S \subseteq sweep'.reclaimed
  BY <1>1, <1>2 DEF IInv, TypeOK, Sweep
<1>5. TypeOK'
  BY <1>1, <1>2, <1>3, <1>4 DEF IInv, TypeOK, dates
<1>6. HandledVisible' /\ AskedRequested'
  BY <1>1, <1>3 DEF IInv, HandledVisible, AskedRequested
<1>7. SettlesGuarded'
  <2>1. \A c \in settling : c.task \in Task
    BY DEF IInv, TypeOK, Settle
  <2> QED BY <1>1, <1>2, <2>1 DEF IInv, SettlesGuarded, Finished, Open
<1>8. ListedUnleased'
  <2> SUFFICES ASSUME sweep.scanned, NEW t \in sweep.landed \cup sweep.untargeted
                                               \cup sweep.dead,
                      Open(t)', Leased(t)', t \notin S
               PROVE  t \in sweep.reclaimed
    BY <1>4 DEF ListedUnleased
  <2>1. t \in Task
    BY DEF IInv, TypeOK, Sweep
  <2> QED BY <1>2, <2>1 DEF IInv, ListedUnleased, Open, Leased
<1>9. OlderSettlesDated'
  <2>1. \A t \in Task : Fresh(t)' => Fresh(t)
    BY <1>1, <1>2 DEF Fresh, Open
  <2> QED BY <1>1, <2>1 DEF IInv, OlderSettlesDated, dates
<1> QED BY <1>5, <1>6, <1>7, <1>8, <1>9 DEF IInv

-----------------------------------------------------------------------------
(* Settling.                                                               *)

LEMMA ReadKeeps ==
  ASSUME IInv, NEW c \in settling, SettleRead(c)
  PROVE  IInv'
<1> DEFINE from == Settleable(c.task, c.status)
           new == [c EXCEPT !.from = from, !.read = TRUE]
<1>1. c \in Settle /\ c.task \in Task
  BY DEF IInv, TypeOK, Settle
<1>2. /\ settling' = (settling \ {c}) \cup {new}
      /\ UNCHANGED <<row, work, status, dates, asking, sweep, crashes>>
  BY DEF SettleRead
<1>3. /\ from \subseteq EnrichmentStatus
      /\ "COMPLETE" \in from => c.status = "COMPLETE"
      /\ "PENDING" \in from => Finished(c.task) /\ ~HasOpenRequest(c.task)
  BY DEF Settleable
<1> HIDE DEF from
<1>4. /\ new \in Settle /\ new.task = c.task /\ new.status = c.status
      /\ new.from = from
  BY <1>1, <1>3 DEF Settle
<1> HIDE DEF new
<1>5. TypeOK' /\ AskedRequested'
  BY <1>2, <1>4 DEF IInv, TypeOK, AskedRequested, dates
<1>6. HandledVisible' /\ ListedUnleased'
  BY <1>2 DEF IInv, HandledVisible, ListedUnleased, Open, Leased
<1>7. SettlesGuarded'
  BY <1>2, <1>3, <1>4 DEF IInv, SettlesGuarded, Finished
<1>8. OlderSettlesDated'
  <2> SUFFICES ASSUME NEW t \in Task, Fresh(t), SubjectOf[c.task] = SubjectOf[t],
                      "PENDING" \in from
               PROVE  FALSE
    BY <1>2, <1>4 DEF IInv, OlderSettlesDated, Fresh, Open, dates
  <2>1. t # c.task
    BY <1>3 DEF Fresh, Open, Finished
  <2>2. HasOpenRequest(c.task)
    BY <2>1 DEF HasOpenRequest, About, Fresh
  <2> QED BY <1>3, <2>2
<1> QED BY <1>5, <1>6, <1>7, <1>8 DEF IInv

LEMMA WriteSettleKeeps ==
  ASSUME IInv, NEW c \in settling, SettleWrite(c)
  PROVE  IInv'
<1>1. c.status \in EnrichmentStatus /\ TypeOK
  BY DEF IInv, TypeOK, Settle
<1> DEFINE g == SettleMatches(c)
<1>2. g \in BOOLEAN /\ (g => SubjectOf[c.task] \in Record)
  <2>1. Owns(c.task)
    BY DEF IInv, SettlesGuarded
  <2> QED BY <2>1 DEF Owns, SettleMatches
<1>3. /\ settling' = settling \ {c}
      /\ WriteStatusIf(g, SubjectOf[c.task], c.status)
      /\ UNCHANGED <<row, work, asking, sweep, crashes>>
  BY DEF SettleWrite
<1> HIDE DEF g
<1>4. StatusMoves
  BY <1>1, <1>2, <1>3, WriteMoves
<1>5. RowsClose
  BY <1>1, <1>3, UnchangedMoves
<1> QED BY <1>3, <1>4, <1>5, QuietKeeps DEF IInv, TypeOK, HandledVisible

-----------------------------------------------------------------------------
(* The sweep and the restart.                                              *)

LEMMA ScanKeeps ==
  ASSUME IInv, SweepScan
  PROVE  IInv'
<1>1. PICK landed \in SUBSET StaleRows, untargeted \in SUBSET StaleRows,
           dead \in SUBSET StaleRows :
        sweep' = [scanned |-> TRUE, reclaimed |-> {}, landed |-> landed,
                  untargeted |-> untargeted, dead |-> dead]
  BY DEF SweepScan
<1>2. UNCHANGED <<row, work, settling, status, dates, asking, crashes>>
  BY DEF SweepScan
<1>3. \A t \in StaleRows : t \in Task /\ ~Leased(t)
  BY DEF StaleRows
<1>4. TypeOK'
  BY <1>1, <1>2, <1>3 DEF IInv, TypeOK, Sweep, dates
<1>5. ListedUnleased'
  BY <1>1, <1>2, <1>3 DEF ListedUnleased, Open, Leased
<1>6. AskedRequested' /\ HandledVisible' /\ SettlesGuarded' /\ OlderSettlesDated'
  BY <1>2 DEF IInv, AskedRequested, HandledVisible, SettlesGuarded, Finished,
     OlderSettlesDated, Fresh, Open, dates
<1> QED BY <1>4, <1>5, <1>6 DEF IInv

(* What the pass makes of a row: it closes an open one or frees a lease.   *)
LEMMA SweptClosesOrFrees ==
  ASSUME IInv, sweep.scanned, NEW t \in Task
  PROVE  /\ SweptRow(t) \in Row
         /\ SweptRow(t).attempts = row[t].attempts
         /\ Finished(t) => SweptRow(t) = row[t]
         /\ SweptRow(t).state \in {row[t].state, "finished"}
         /\ Open(t) /\ Leased(t) => SweptRow(t) = row[t]
<1>1. row[t] \in Row
  BY DEF IInv, TypeOK
<1> DEFINE listed == sweep.landed \cup sweep.untargeted \cup sweep.dead
<1>2. t \in listed /\ StillStale(t) => Open(t) /\ ~Leased(t)
  BY DEF IInv, ListedUnleased, StillStale
<1>3. Retirable(t) => Open(t) /\ ~Leased(t)
  BY DEF Retirable
<1>4. CASE t \in sweep.landed /\ StillStale(t)
  <2>1. SweptRow(t) = Ended(row[t], "landed")
    BY <1>4 DEF SweptRow
  <2> QED BY <1>1, <1>2, <1>4, <2>1, EndedTyped DEF Open, Finished
<1>5. CASE ~(t \in sweep.landed /\ StillStale(t))
           /\ t \in sweep.untargeted /\ StillStale(t)
  <2>1. SweptRow(t) = Ended(row[t], "untargeted")
    BY <1>5 DEF SweptRow
  <2> QED BY <1>1, <1>2, <1>5, <2>1, EndedTyped DEF Open, Finished
<1>6. CASE ~(t \in sweep.landed /\ StillStale(t))
           /\ ~(t \in sweep.untargeted /\ StillStale(t)) /\ Retirable(t)
  <2>1. SweptRow(t) = Ended(row[t], "retired")
    BY <1>6 DEF SweptRow
  <2> QED BY <1>1, <1>3, <1>6, <2>1, EndedTyped DEF Open, Finished
<1>7. CASE ~(t \in sweep.landed /\ StillStale(t))
           /\ ~(t \in sweep.untargeted /\ StillStale(t)) /\ ~Retirable(t)
           /\ t \in sweep.dead /\ StillStale(t)
  <2>1. SweptRow(t) = [row[t] EXCEPT !.lease = "none"]
    BY <1>7 DEF SweptRow
  <2> QED BY <1>1, <1>2, <1>7, <2>1 DEF Row, Open, Finished
<1>8. CASE ~(t \in sweep.landed /\ StillStale(t))
           /\ ~(t \in sweep.untargeted /\ StillStale(t)) /\ ~Retirable(t)
           /\ ~(t \in sweep.dead /\ StillStale(t))
  <2>1. SweptRow(t) = row[t]
    BY <1>8 DEF SweptRow
  <2> QED BY <1>1, <2>1
<1> QED BY <1>4, <1>5, <1>6, <1>7, <1>8

LEMMA ApplyKeeps ==
  ASSUME IInv, SweepApply
  PROVE  IInv'
<1>1. /\ sweep.scanned /\ row' = [t \in Task |-> SweptRow(t)]
      /\ sweep' = IdleSweep
      /\ UNCHANGED <<work, status, dates, asking, crashes>>
  BY DEF SweepApply
<1>2. /\ settling' \subseteq Settle
      /\ \A c \in settling' : c \in settling \/ (Owns(c.task) /\ c.from = {})
  <2> DEFINE T == {t \in Task : Open(t) /\ row'[t].outcome = "retired"}
  <2>1. SettleCalls(T, "FAILED") /\ T \in SUBSET Task
    BY DEF SweepApply
  <2> HIDE DEF T
  <2> QED BY <2>1, SettleCallsKeep DEF IInv, TypeOK
<1>3. /\ row' \in [Task -> Row]
      /\ \A t \in Task : /\ row'[t].attempts = row[t].attempts
                         /\ Finished(t) => row'[t] = row[t]
                         /\ row'[t].state \in {row[t].state, "finished"}
  BY <1>1, SweptClosesOrFrees
<1>4. sweep' \in Sweep /\ ~sweep'.scanned
  BY <1>1 DEF IdleSweep, Sweep
<1>5. TypeOK' /\ AskedRequested' /\ HandledVisible' /\ ListedUnleased'
  BY <1>1, <1>2, <1>3, <1>4 DEF IInv, TypeOK, AskedRequested, HandledVisible,
     ListedUnleased, dates
<1>6. SettlesGuarded'
  <2> SUFFICES ASSUME NEW c \in settling', c \in settling
               PROVE  /\ Owns(c.task)
                      /\ "COMPLETE" \in c.from => c.status = "COMPLETE"
                      /\ "PENDING" \in c.from => Finished(c.task)'
    BY <1>2 DEF SettlesGuarded
  <2>1. c.task \in Task
    BY DEF IInv, TypeOK, Settle
  <2> QED BY <1>3, <2>1 DEF IInv, SettlesGuarded, Finished
<1>7. OlderSettlesDated'
  <2> SUFFICES ASSUME NEW t \in Task, NEW c \in settling', Fresh(t)',
                      SubjectOf[c.task] = SubjectOf[t], "PENDING" \in c.from
               PROVE  c.task \in touched
    BY <1>1 DEF OlderSettlesDated, dates
  <2>1. c \in settling /\ Fresh(t)
    BY <1>1, <1>2, <1>3 DEF Fresh, Open
  <2> QED BY <2>1 DEF IInv, OlderSettlesDated
<1> QED BY <1>5, <1>6, <1>7 DEF IInv

LEMMA CrashKeeps ==
  ASSUME IInv, Crash
  PROVE  IInv'
<1>1. /\ work' \in [Task -> [Attempt -> Stage]]
      /\ \A t \in Task, a \in Attempt : work'[t][a] \notin {"handling", "answered"}
  <2>1. PICK landed \in SUBSET (Task \X Attempt) :
          work' = [t \in Task |-> [a \in Attempt |->
                     CASE work[t][a] = "sending" ->
                            IF <<t, a>> \in landed THEN "turn" ELSE "over"
                       [] work[t][a] \in {"claimed", "handling", "answered"} -> "over"
                       [] OTHER -> work[t][a]]]
    BY DEF Crash
  <2> HIDE DEF Attempt
  <2>2. ASSUME NEW t \in Task, NEW a \in Attempt
        PROVE  work'[t][a] \in Stage \ {"handling", "answered"}
    <3>1. work[t][a] \in Stage
      BY DEF IInv, TypeOK
    <3>2. CASE work[t][a] \in {"sending", "claimed", "handling", "answered"}
      BY <2>1, <3>2
    <3>3. CASE work[t][a] \notin {"sending", "claimed", "handling", "answered"}
      <4>1. work'[t][a] = work[t][a]
        BY <2>1, <3>3
      <4> QED BY <3>1, <3>3, <4>1
    <3> QED BY <3>2, <3>3
  <2> QED BY <2>1, <2>2
<1>2. /\ settling' = {} /\ sweep' = IdleSweep
      /\ UNCHANGED <<row, status, dates, asking>>
  BY DEF Crash
<1>3. sweep' \in Sweep /\ ~sweep'.scanned
  BY <1>2 DEF IdleSweep, Sweep
<1>4. crashes' \in 0 .. MaxCrashes
  <2>1. MaxCrashes \in Nat /\ crashes \in 0 .. MaxCrashes
    BY ConstantsAssumption DEF IInv, TypeOK
  <2> QED BY <2>1 DEF Crash
<1>5. TypeOK'
  BY <1>1, <1>2, <1>3, <1>4 DEF IInv, TypeOK, dates
<1>6. /\ AskedRequested' /\ HandledVisible' /\ ListedUnleased'
      /\ SettlesGuarded' /\ OlderSettlesDated'
  BY <1>1, <1>2, <1>3 DEF IInv, AskedRequested, HandledVisible, ListedUnleased,
     SettlesGuarded, OlderSettlesDated
<1> QED BY <1>5, <1>6 DEF IInv

-----------------------------------------------------------------------------
LEMMA InitEstablishes == Init => IInv
<1> SUFFICES ASSUME Init PROVE IInv
  OBVIOUS
<1>1. TypeOK
  <2>1. 0 \in 0 .. MaxAttempts /\ 0 \in 0 .. MaxCrashes
    BY ConstantsAssumption
  <2>2. AbsentRow \in Row
    BY <2>1 DEF AbsentRow, Row
  <2>3. IdleSweep \in Sweep
    BY DEF IdleSweep, Sweep
  <2>4. status \in [Record -> EnrichmentStatus]
    BY DEF Init
  <2> QED BY <2>1, <2>2, <2>3, <2>4 DEF Init, TypeOK
<1>2. AskedRequested /\ HandledVisible /\ SettlesGuarded /\ OlderSettlesDated
  BY DEF Init, AskedRequested, HandledVisible, SettlesGuarded, OlderSettlesDated
<1>3. ListedUnleased
  BY DEF Init, IdleSweep, ListedUnleased
<1> QED BY <1>1, <1>2, <1>3 DEF IInv

LEMMA NextKeeps ==
  ASSUME IInv, [Next]_vars
  PROVE  IInv'
<1>1. CASE \E t \in Task : Intake(t) \/ LeaseExpires(t)
  BY <1>1, IntakeKeeps
<1>2. CASE \E lane \in Lane : ClaimDue(lane)
  BY <1>2, ClaimKeeps
<1>3. CASE \E t \in Task, a \in Attempt :
             AbortClaimed(t, a) \/ Visible(t, a) \/ Research(t, a) \/ Session(t, a)
  BY <1>3, VisibleKeeps, ResearchKeeps
<1>4. CASE Settling
  BY <1>4, ReadKeeps, WriteSettleKeeps DEF Settling
<1>5. CASE Sweeping
  BY <1>5, ScanKeeps, ApplyKeeps DEF Sweeping
<1>6. CASE Crash
  BY <1>6, CrashKeeps
<1>7. CASE UNCHANGED vars
  BY <1>7 DEF vars, dates, IInv, TypeOK, AskedRequested, HandledVisible,
     SettlesGuarded, ListedUnleased, OlderSettlesDated, Fresh, Open, Leased,
     Finished
<1> HIDE DEF Lane, Attempt
<1> QED BY <1>1, <1>2, <1>3, <1>4, <1>5, <1>6, <1>7 DEF Next

(* The invariant holds in every reachable state.                           *)
THEOREM Invariant == Spec => []IInv
BY InitEstablishes, NextKeeps, PTL DEF Spec

(* Every variable keeps its type; no claim takes a row past MAX_ATTEMPTS.  *)
THEOREM TypeCorrect == Spec => []TypeOK
<1>1. IInv => TypeOK
  BY DEF IInv
<1> QED BY Invariant, <1>1, PTL

-----------------------------------------------------------------------------
LEMMA FinishedStays ==
  ASSUME IInv, [Next]_vars, NEW t \in Task, Finished(t)
  PROVE  row'[t] = row[t]
<1>0. TypeOK /\ row \in [Task -> Row]
  BY DEF IInv, TypeOK
<1>1. ASSUME NEW u \in Task, Intake(u) \/ LeaseExpires(u) PROVE row'[t] = row[t]
  BY <1>0, <1>1 DEF Intake, Enqueue, DueArrives, ScheduleMove, ScheduleLook,
     ScheduleCreate, EnrichRead, EnrichQueue, EnrichMark, CreateRow,
     LeaseExpires, Open, Finished
<1>2. ASSUME NEW lane \in Lane, ClaimDue(lane) PROVE row'[t] = row[t]
  <2>1. PICK S \in Chosen(lane) :
          row' = [u \in Task |-> IF u \in S THEN ClaimedRow(row[u]) ELSE row[u]]
    BY <1>2 DEF ClaimDue
  <2>2. t \notin S
    BY <2>1, ClaimRows DEF Open, Finished
  <2> QED BY <2>1, <2>2
<1>3. ASSUME NEW u \in Task, NEW a \in Attempt,
             AbortClaimed(u, a) \/ Visible(u, a) \/ Research(u, a) \/ Session(u, a)
      PROVE  row'[t] = row[t]
  <2>1. \/ UNCHANGED row
        \/ \E outcome \in {"ran", "stopped", "direct"} :
             row' = CompletedRow(u, outcome)
    BY <1>3 DEF AbortClaimed, Visible, BeginDirect, SkipBrand, AnswerDirect,
       CompleteDirect, ThrowDirect, Research, BeginResearch, StartAccepted,
       StartRejected, Session, SessionWaiting, SessionCompleted, TurnCancelled,
       TurnFailed, SessionLost, CloseTask
  <2>2. RowsClose \/ UNCHANGED row
    BY <1>0, <2>1, CompletedKeeps
  <2> QED BY <2>2 DEF RowsClose
<1>4. CASE Settling \/ SweepScan \/ Crash \/ UNCHANGED vars
  BY <1>4 DEF Settling, SettleRead, SettleWrite, SweepScan, Crash, vars
<1>5. CASE SweepApply
  BY <1>5, SweptClosesOrFrees DEF SweepApply
<1> HIDE DEF Lane, Attempt
<1> QED BY <1>1, <1>2, <1>3, <1>4, <1>5 DEF Next, Sweeping

(* A row is finished once, whoever closes it: a session's report, a late   *)
(* handler, the stale sweep or the retirement.                             *)
THEOREM FinishedOnce == Spec => FirstFinishWins
<1>1. IInv /\ [Next]_vars =>
        [\A t \in Task : Finished(t) => row'[t] = row[t]]_row
  BY FinishedStays
<1> QED BY Invariant, <1>1, PTL DEF Spec, FirstFinishWins

(* The stale sweep never touches a row with a live lease, whatever was     *)
(* claimed again after it listed it.                                       *)
THEOREM LeaseUntouched == Spec => LiveLeaseUntouched
<1>1. ASSUME IInv, [Next]_vars, NEW t \in Task, Open(t), Leased(t),
             sweep' # sweep
      PROVE  row'[t] = row[t]
  <2>1. CASE \E lane \in Lane : ClaimDue(lane)
    <3>1. PICK lane \in Lane : ClaimDue(lane)
      BY <2>1
    <3>2. PICK S \in Chosen(lane) :
            row' = [u \in Task |-> IF u \in S THEN ClaimedRow(row[u]) ELSE row[u]]
      BY <3>1 DEF ClaimDue
    <3>3. t \notin S
      BY <1>1, <3>2, ClaimRows
    <3> QED BY <3>2, <3>3
  <2>2. CASE SweepApply
    BY <1>1, <2>2, SweptClosesOrFrees DEF SweepApply
  <2>3. CASE SweepScan \/ Crash
    BY <2>3 DEF SweepScan, Crash
  <2>4. CASE ~(\E lane \in Lane : ClaimDue(lane)) /\ ~SweepApply /\ ~SweepScan
             /\ ~Crash
    <3>1. \A u \in Task : Intake(u) \/ LeaseExpires(u) => sweep' = sweep
      BY DEF Intake, Enqueue, DueArrives, ScheduleMove, ScheduleLook,
         ScheduleCreate, EnrichRead, EnrichQueue, EnrichMark, LeaseExpires
    <3>2. \A u \in Task, a \in Attempt :
            AbortClaimed(u, a) \/ Visible(u, a) \/ Research(u, a) \/ Session(u, a)
              => sweep' = sweep
      BY DEF AbortClaimed, Visible, BeginDirect, SkipBrand, AnswerDirect,
         CompleteDirect, ThrowDirect, Research, BeginResearch, StartAccepted,
         StartRejected, Session, SessionWaiting, SessionCompleted,
         TurnCancelled, TurnFailed, SessionLost, CloseTask
    <3>3. Settling \/ UNCHANGED vars => sweep' = sweep
      BY DEF Settling, SettleRead, SettleWrite, vars
    <3> HIDE DEF Lane, Attempt
    <3> QED BY <1>1, <2>4, <3>1, <3>2, <3>3 DEF Next, Sweeping
  <2> QED BY <2>1, <2>2, <2>3, <2>4
<1>2. IInv /\ [Next]_vars =>
        [\A t \in Task :
           (Open(t) /\ Leased(t) /\ sweep' # sweep) => row'[t] = row[t]]_<<row, sweep>>
  BY <1>1
<1> QED BY Invariant, <1>2, PTL DEF Spec, LiveLeaseUntouched

-----------------------------------------------------------------------------
(* What a step may make of an enrichment status.                           *)
StatusFollows ==
  \A r \in Record :
    /\ status[r] = "COMPLETE" => status'[r] \in {"COMPLETE", "PENDING"}
    /\ (status[r] = "PENDING" /\ \E t \in Task : Fresh(t) /\ SubjectOf[t] = r)
         => status'[r] \in {"PENDING", "RUNNING"}

(* A guarded write follows if what it may write over and with does.        *)
LEMMA WriteFollows ==
  ASSUME TypeOK, NEW guard \in BOOLEAN, NEW r, guard => r \in Record,
         NEW s \in EnrichmentStatus, WriteStatusIf(guard, r, s),
         guard /\ status[r] = "COMPLETE" => s \in {"COMPLETE", "PENDING"},
         guard /\ status[r] = "PENDING"
               /\ (\E t \in Task : Fresh(t) /\ SubjectOf[t] = r)
           => s \in {"PENDING", "RUNNING"}
  PROVE  StatusFollows
<1>1. \A q \in Record : status'[q] = IF guard /\ q = r THEN s ELSE status[q]
  BY WriteKeeps
<1> QED BY <1>1 DEF StatusFollows

LEMMA MarksFollow ==
  ASSUME IInv, NEW t \in Task,
         \/ WriteStatusIf(MarksRunning(t), SubjectOf[t], "RUNNING")
         \/ \E g \in BOOLEAN :
              WriteStatusIf(g /\ Owns(t), SubjectOf[t], "PENDING")
  PROVE  StatusFollows
<1>1. TypeOK /\ (Owns(t) => SubjectOf[t] \in Record)
  BY DEF IInv, Owns
<1>2. CASE WriteStatusIf(MarksRunning(t), SubjectOf[t], "RUNNING")
  <2> DEFINE g == MarksRunning(t)
  <2>1. /\ g \in BOOLEAN /\ (g => SubjectOf[t] \in Record)
        /\ g => status[SubjectOf[t]] # "COMPLETE"
    BY <1>1 DEF MarksRunning
  <2>2. WriteStatusIf(g, SubjectOf[t], "RUNNING")
    BY <1>2
  <2> HIDE DEF g
  <2> QED BY <1>1, <2>1, <2>2, WriteFollows
<1>3. ASSUME NEW h \in BOOLEAN,
             WriteStatusIf(h /\ Owns(t), SubjectOf[t], "PENDING")
      PROVE  StatusFollows
  <2> DEFINE g == h /\ Owns(t)
  <2>1. g \in BOOLEAN /\ (g => SubjectOf[t] \in Record)
    BY <1>1
  <2>2. WriteStatusIf(g, SubjectOf[t], "PENDING")
    BY <1>3
  <2> HIDE DEF g
  <2> QED BY <1>1, <2>1, <2>2, WriteFollows
<1> QED BY <1>2, <1>3

(* The visible lane answers about companies only.                          *)
LEMMA VisibleOwnsCompany ==
  ASSUME NEW t \in Task, LaneOf(t) = "visible", Owns(t)
  PROVE  /\ SubjectOf[t] \in Record
         /\ \A u \in Task : Fresh(u) => SubjectOf[u] # SubjectOf[t]
BY ConstantsAssumption DEF LaneOf, DirectKinds, Owns, ContactStatusKinds, Fresh

LEMMA AnswersFollow ==
  ASSUME IInv, NEW t \in Task, NEW a \in Attempt,
         SkipBrand(t, a) \/ AnswerDirect(t, a)
  PROVE  StatusFollows
<1>0. TypeOK
  BY DEF IInv
<1>1. LaneOf(t) = "visible"
  BY DEF SkipBrand, AnswerDirect, Step, LaneOf, DirectKinds, IInv, HandledVisible
<1>2. PICK g \in BOOLEAN, s \in EnrichmentStatus :
        /\ WriteStatusIf(g, SubjectOf[t], s)
        /\ g => Owns(t)
        /\ g /\ status[SubjectOf[t]] = "COMPLETE" => s = "COMPLETE"
  <2>1. CASE SkipBrand(t, a)
    <3>1. PICK guard \in {{"RUNNING"}, EnrichmentStatus \ {"COMPLETE"}} :
            WriteStatusIf(status[SubjectOf[t]] \in guard, SubjectOf[t], "SKIPPED")
      BY <2>1 DEF SkipBrand
    <3> DEFINE h == status[SubjectOf[t]] \in guard
    <3>2. /\ h \in BOOLEAN /\ WriteStatusIf(h, SubjectOf[t], "SKIPPED")
          /\ h => Owns(t) /\ status[SubjectOf[t]] # "COMPLETE"
      BY <2>1, <3>1 DEF SkipBrand
    <3> HIDE DEF h
    <3> QED BY <3>2
  <2>2. CASE AnswerDirect(t, a)
    <3>1. PICK answer \in {"COMPLETE", "SKIPPED", "FAILED"} :
            WriteStatusIf(/\ Owns(t)
                          /\ \/ answer = "COMPLETE"
                             \/ status[SubjectOf[t]] = "RUNNING",
                          SubjectOf[t], answer)
      BY <2>2 DEF AnswerDirect
    <3> DEFINE h == /\ Owns(t)
                    /\ \/ answer = "COMPLETE"
                       \/ status[SubjectOf[t]] = "RUNNING"
    <3>2. /\ h \in BOOLEAN /\ WriteStatusIf(h, SubjectOf[t], answer)
          /\ h => Owns(t)
          /\ h /\ status[SubjectOf[t]] = "COMPLETE" => answer = "COMPLETE"
      BY <3>1
    <3> HIDE DEF h
    <3> QED BY <3>2
  <2> QED BY <2>1, <2>2
<1>3. g => SubjectOf[t] \in Record /\
           \A u \in Task : Fresh(u) => SubjectOf[u] # SubjectOf[t]
  BY <1>1, <1>2, VisibleOwnsCompany
<1> QED BY <1>0, <1>2, <1>3, WriteFollows

(* A settle writes COMPLETE only over what COMPLETE may replace, and       *)
(* nothing over a fresh request.                                           *)
LEMMA SettlesFollow ==
  ASSUME IInv, NEW c \in settling, SettleWrite(c)
  PROVE  StatusFollows
<1>1. TypeOK /\ c.status \in EnrichmentStatus /\ c.task \in Task
  BY DEF IInv, TypeOK, Settle
<1> DEFINE g == SettleMatches(c)
           r == SubjectOf[c.task]
<1>2. g \in BOOLEAN /\ (g => r \in Record)
  BY DEF IInv, SettlesGuarded, Owns, SettleMatches
<1>3. WriteStatusIf(g, r, c.status)
  BY DEF SettleWrite
<1>4. g /\ status[r] = "COMPLETE" => c.status = "COMPLETE"
  BY DEF SettleMatches, IInv, SettlesGuarded
<1>5. g /\ status[r] = "PENDING" => \A t \in Task : ~(Fresh(t) /\ SubjectOf[t] = r)
  BY DEF SettleMatches, IInv, OlderSettlesDated
<1> HIDE DEF g, r
<1> QED BY <1>1, <1>2, <1>3, <1>4, <1>5, WriteFollows

LEMMA NextFollows ==
  ASSUME IInv, [Next]_vars
  PROVE  StatusFollows
<1>0. status' = status => StatusFollows
  BY DEF StatusFollows
<1>1. ASSUME NEW t \in Task, Intake(t) \/ LeaseExpires(t) PROVE StatusFollows
  <2>1. CASE EnrichMark(t)
    <3>1. \E g \in BOOLEAN : WriteStatusIf(g /\ Owns(t), SubjectOf[t], "PENDING")
      BY <2>1 DEF EnrichMark
    <3> QED BY <3>1, MarksFollow
  <2>2. CASE ~EnrichMark(t)
    BY <1>0, <1>1, <2>2 DEF Intake, Enqueue, DueArrives, ScheduleMove,
       ScheduleLook, ScheduleCreate, EnrichRead, EnrichQueue, LeaseExpires
  <2> QED BY <2>1, <2>2
<1>2. ASSUME NEW t \in Task, NEW a \in Attempt,
             AbortClaimed(t, a) \/ Visible(t, a) \/ Research(t, a) \/ Session(t, a)
      PROVE  StatusFollows
  <2>1. CASE BeginDirect(t, a) \/ BeginResearch(t, a)
    BY <2>1, MarksFollow DEF BeginDirect, BeginResearch
  <2>2. CASE SkipBrand(t, a) \/ AnswerDirect(t, a)
    BY <2>2, AnswersFollow
  <2>3. CASE ~(BeginDirect(t, a) \/ BeginResearch(t, a))
             /\ ~(SkipBrand(t, a) \/ AnswerDirect(t, a))
    BY <1>0, <1>2, <2>3 DEF AbortClaimed, Visible, CompleteDirect, ThrowDirect,
       Research, StartAccepted, StartRejected, Session, SessionWaiting,
       SessionCompleted, TurnCancelled, TurnFailed, SessionLost, CloseTask
  <2> QED BY <2>1, <2>2, <2>3
<1>3. CASE Settling
  <2>1. ASSUME NEW c \in settling, SettleRead(c) PROVE StatusFollows
    BY <1>0, <2>1 DEF SettleRead
  <2> QED BY <1>3, <2>1, SettlesFollow DEF Settling
<1>4. CASE (\E lane \in Lane : ClaimDue(lane)) \/ Sweeping \/ Crash
           \/ UNCHANGED vars
  BY <1>0, <1>4 DEF ClaimDue, Sweeping, SweepScan, SweepApply, Crash, vars
<1> HIDE DEF Lane, Attempt
<1> QED BY <1>1, <1>2, <1>3, <1>4 DEF Next

(* No late failure, retirement, cancelled turn or new attempt takes a      *)
(* COMPLETE record back: only a rep's new request does.                    *)
THEOREM CompleteKept == Spec => CompleteStands
<1>1. IInv /\ [Next]_vars =>
        [\A r \in Record : status[r] = "COMPLETE"
           => status'[r] \in {"COMPLETE", "PENDING"}]_status
  BY NextFollows DEF StatusFollows
<1> QED BY Invariant, <1>1, PTL DEF Spec, CompleteStands

(* A marked request is not answered by an older task that settles late,    *)
(* however settle's reads, its write and the request's steps interleave.   *)
THEOREM FreshKept == Spec => FreshRequestStands
<1>1. IInv /\ [Next]_vars =>
        [\A t \in Task :
           (/\ SubjectOf[t] \in Contact
            /\ asking[t] = "marked" /\ Open(t) /\ row[t].attempts = 0
            /\ status[SubjectOf[t]] = "PENDING")
             => status'[SubjectOf[t]] \in {"PENDING", "RUNNING"}]_status
  BY NextFollows DEF StatusFollows, Fresh
<1> QED BY Invariant, <1>1, PTL DEF Spec, FreshRequestStands

-----------------------------------------------------------------------------
(* The queue's promise: TaskLifecycle.  First, all that a step may make of *)
(* the rows.                                                               *)
Creates  == \E t \in Task, due \in BOOLEAN : CreateRow(t, due)
Redates  == \E t \in Task, due \in BOOLEAN : row' = [row EXCEPT ![t].due = due]
Lapses   == \E t \in Task : Open(t) /\ row' = [row EXCEPT ![t].lease = "dead"]
Claims   == \E lane \in Lane : \E S \in Chosen(lane) :
              row' = [t \in Task |-> IF t \in S THEN ClaimedRow(row[t]) ELSE row[t]]
Finishes == \E t \in Task, a \in Attempt, o \in {"ran", "stopped", "direct"} :
              work[t][a] # "none" /\ row' = CompletedRow(t, o)
Clears   == sweep.scanned /\ row' = [t \in Task |-> SweptRow(t)]

RowStep ==
  UNCHANGED row \/ Creates \/ Redates \/ Lapses \/ Claims \/ Finishes \/ Clears

LEMMA NextRows == ASSUME [Next]_vars PROVE RowStep
<1>1. ASSUME NEW t \in Task, Intake(t) \/ LeaseExpires(t) PROVE RowStep
  <2>1. CASE Enqueue(t) \/ ScheduleCreate(t) \/ EnrichQueue(t)
    <3>1. UNCHANGED row \/ \E due \in BOOLEAN : CreateRow(t, due)
      BY <2>1 DEF Enqueue, ScheduleCreate, EnrichQueue
    <3> QED BY <3>1 DEF RowStep, Creates
  <2>2. CASE ScheduleMove(t) \/ DueArrives(t)
    BY <2>2 DEF ScheduleMove, DueArrives, RowStep, Redates
  <2>3. CASE LeaseExpires(t)
    BY <2>3 DEF LeaseExpires, RowStep, Lapses
  <2>4. CASE ScheduleLook(t) \/ EnrichRead(t) \/ EnrichMark(t)
    BY <2>4 DEF ScheduleLook, EnrichRead, EnrichMark, RowStep
  <2> QED BY <1>1, <2>1, <2>2, <2>3, <2>4 DEF Intake
<1>2. ASSUME NEW lane \in Lane, ClaimDue(lane) PROVE RowStep
  BY <1>2 DEF ClaimDue, RowStep, Claims
<1>3. ASSUME NEW t \in Task, NEW a \in Attempt,
             AbortClaimed(t, a) \/ Visible(t, a) \/ Research(t, a) \/ Session(t, a)
      PROVE  RowStep
  <2>1. \/ UNCHANGED row
        \/ \E o \in {"ran", "stopped", "direct"} :
             work[t][a] # "none" /\ row' = CompletedRow(t, o)
    BY <1>3 DEF AbortClaimed, Visible, BeginDirect, SkipBrand, AnswerDirect,
       CompleteDirect, ThrowDirect, Research, BeginResearch, StartAccepted,
       StartRejected, Session, SessionWaiting, SessionCompleted, TurnCancelled,
       TurnFailed, SessionLost, CloseTask, Step
  <2> QED BY <2>1 DEF RowStep, Finishes
<1>4. Settling \/ SweepScan \/ Crash \/ UNCHANGED vars => UNCHANGED row
  <2>1. Settling => UNCHANGED row
    BY DEF Settling, SettleRead, SettleWrite
  <2>2. SweepScan => UNCHANGED row
    BY DEF SweepScan
  <2>3. Crash \/ UNCHANGED vars => UNCHANGED row
    BY DEF Crash, vars
  <2> QED BY <2>1, <2>2, <2>3
<1>5. CASE SweepApply
  BY <1>5 DEF SweepApply, RowStep, Clears
<1> HIDE DEF Lane, Attempt
<1>6. UNCHANGED row => RowStep
  BY DEF RowStep
<1> QED BY <1>1, <1>2, <1>3, <1>4, <1>5, <1>6 DEF Next, Sweeping

(* What is worked was claimed as often; what landed was; a row that does   *)
(* not exist has no past.                                                  *)
WorkCounted ==
  \A t \in Task, a \in Attempt : work[t][a] # "none" => a <= row[t].attempts
LandedTried == sweep.scanned => \A t \in sweep.landed : row[t].attempts > 0
AbsentIsNew ==
  \A t \in Task : row[t].state = "absent" =>
    row[t].attempts = 0 /\ ~Leased(t) /\ row[t].outcome = "none"

Counted == WorkCounted /\ LandedTried /\ AbsentIsNew

(* A row that exists as its lifecycle sees it; and what each kind of step  *)
(* makes of the rows there.                                                *)
Same(t) ==
  /\ row'[t].state = row[t].state /\ row'[t].attempts = row[t].attempts
  /\ Leased(t)' <=> Leased(t)
  /\ row'[t].outcome = row[t].outcome

OthersSame(S) == \A u \in Task \ S : Same(u)

Opened(t) ==
  /\ row[t].state = "absent" /\ row'[t].state = "open"
  /\ row'[t].attempts = row[t].attempts
  /\ Leased(t)' <=> Leased(t)
  /\ row'[t].outcome = row[t].outcome

Lapsed(t) ==
  /\ ~Leased(t)'
  /\ row'[t].state = row[t].state /\ row'[t].attempts = row[t].attempts
  /\ row'[t].outcome = row[t].outcome

Taken(t) ==
  /\ Open(t) /\ ~Leased(t) /\ row[t].attempts < MaxAttempts
  /\ row'[t].state = "open" /\ row'[t].attempts = row[t].attempts + 1
  /\ Leased(t)'
  /\ row'[t].outcome = row[t].outcome

Worked(t, o) ==
  /\ Open(t) /\ row[t].attempts > 0
  /\ row'[t].state = "finished" /\ row'[t].attempts = row[t].attempts
  /\ ~Leased(t)'
  /\ row'[t].outcome = o

Removed(t, o) ==
  /\ Open(t) /\ ~Leased(t)
  /\ o \in {"landed", "untargeted", "retired"}
  /\ o = "landed" => row[t].attempts > 0
  /\ o = "retired" => row[t].attempts = MaxAttempts
  /\ row'[t].state = "finished" /\ row'[t].attempts = row[t].attempts
  /\ ~Leased(t)'
  /\ row'[t].outcome = o

RowsFollow ==
  \/ OthersSame({})
  \/ \E t \in Task : Opened(t) /\ OthersSame({t})
  \/ \E t \in Task : Lapsed(t) /\ OthersSame({t})
  \/ \E S \in SUBSET Task : (\A t \in S : Taken(t)) /\ OthersSame(S)
  \/ \E t \in Task, o \in {"ran", "stopped", "direct"} :
       Worked(t, o) /\ OthersSame({t})
  \/ \A t \in Task : Same(t) \/ Removed(t, row'[t].outcome)

LEMMA RowFields ==
  ASSUME TypeOK, NEW t \in Task
  PROVE  /\ row[t] \in Row /\ row[t].attempts \in 0 .. MaxAttempts
         /\ row[t].attempts \in Nat /\ MaxAttempts \in Nat
<1>1. MaxAttempts \in Nat
  BY ConstantsAssumption
<1>2. row[t] \in Row
  BY DEF TypeOK
<1>3. row[t].attempts \in 0 .. MaxAttempts
  BY <1>2 DEF Row
<1> QED BY <1>1, <1>2, <1>3

(* One row is replaced.                                                    *)
LEMMA OneRow ==
  ASSUME TypeOK, NEW t \in Task, NEW new, row' = [row EXCEPT ![t] = new]
  PROVE  row'[t] = new /\ OthersSame({t})
<1>1. row'[t] = new /\ \A u \in Task \ {t} : row'[u] = row[u]
  BY DEF TypeOK
<1> QED BY <1>1 DEF OthersSame, Same, Leased

LEMMA EndedKeeps ==
  ASSUME NEW r \in Row, NEW o
  PROVE  /\ Ended(r, o).state = "finished" /\ Ended(r, o).lease = "none"
         /\ Ended(r, o).attempts = r.attempts /\ Ended(r, o).outcome = o
BY DEF Ended, Row

LEMMA CreatesFollow == ASSUME TypeOK, AbsentIsNew, Creates PROVE RowsFollow
<1>1. PICK t \in Task, due \in BOOLEAN : CreateRow(t, due)
  BY DEF Creates
<1> DEFINE new == [AbsentRow EXCEPT !.state = "open", !.due = due]
<1>2. /\ new.state = "open" /\ new.attempts = 0 /\ new.lease = "none"
      /\ new.outcome = "none"
  BY DEF AbsentRow
<1>3. row[t].state = "absent" /\ row' = [row EXCEPT ![t] = new]
  BY <1>1 DEF CreateRow
<1>4. row[t].attempts = 0 /\ ~Leased(t) /\ row[t].outcome = "none"
  BY <1>3 DEF AbsentIsNew
<1> HIDE DEF new
<1>5. row'[t] = new /\ OthersSame({t})
  BY <1>3, OneRow
<1>6. Opened(t)
  BY <1>2, <1>3, <1>4, <1>5 DEF Opened, Leased
<1> QED BY <1>5, <1>6 DEF RowsFollow

LEMMA RedatesFollow == ASSUME TypeOK, Redates PROVE RowsFollow
<1>1. PICK t \in Task, due \in BOOLEAN : row' = [row EXCEPT ![t].due = due]
  BY DEF Redates
<1> DEFINE new == [row[t] EXCEPT !.due = due]
<1>2. /\ new.state = row[t].state /\ new.attempts = row[t].attempts
      /\ new.lease = row[t].lease /\ new.outcome = row[t].outcome
  BY RowFields DEF Row
<1>3. row' = [row EXCEPT ![t] = new]
  BY <1>1
<1> HIDE DEF new
<1>4. row'[t] = new /\ OthersSame({t})
  BY <1>3, OneRow
<1>5. Same(t)
  BY <1>2, <1>4 DEF Same, Leased
<1>6. OthersSame({})
  BY <1>4, <1>5 DEF OthersSame
<1> QED BY <1>6 DEF RowsFollow

LEMMA LapsesFollow == ASSUME TypeOK, Lapses PROVE RowsFollow
<1>1. PICK t \in Task : row' = [row EXCEPT ![t].lease = "dead"]
  BY DEF Lapses
<1> DEFINE new == [row[t] EXCEPT !.lease = "dead"]
<1>2. /\ new.state = row[t].state /\ new.attempts = row[t].attempts
      /\ new.lease = "dead" /\ new.outcome = row[t].outcome
  BY RowFields DEF Row
<1>3. row' = [row EXCEPT ![t] = new]
  BY <1>1
<1> HIDE DEF new
<1>4. row'[t] = new /\ OthersSame({t})
  BY <1>3, OneRow
<1>5. Lapsed(t)
  BY <1>2, <1>4 DEF Lapsed, Leased
<1> QED BY <1>4, <1>5 DEF RowsFollow

LEMMA ClaimsFollow == ASSUME IInv, Claims PROVE RowsFollow
<1>1. PICK lane \in Lane : \E S \in Chosen(lane) :
        row' = [t \in Task |-> IF t \in S THEN ClaimedRow(row[t]) ELSE row[t]]
  BY DEF Claims
<1>2. PICK S \in Chosen(lane) :
        row' = [t \in Task |-> IF t \in S THEN ClaimedRow(row[t]) ELSE row[t]]
  BY <1>1
<1>3. TypeOK
  BY DEF IInv
<1>4. /\ S \subseteq Task
      /\ \A t \in S : Open(t) /\ ~Leased(t) /\ row[t].attempts + 1 \in Attempt
      /\ \A t \in Task \ S : row'[t] = row[t]
  BY <1>2, ClaimRows
<1>5. ASSUME NEW t \in S PROVE Taken(t)
  <2>1. row[t] \in Row /\ row[t].attempts \in Nat /\ MaxAttempts \in Nat
    BY <1>3, <1>4, RowFields
  <2>2. /\ ClaimedRow(row[t]).state = row[t].state
        /\ ClaimedRow(row[t]).attempts = row[t].attempts + 1
        /\ ClaimedRow(row[t]).lease = "live"
        /\ ClaimedRow(row[t]).outcome = row[t].outcome
    BY <2>1 DEF ClaimedRow, Row
  <2>3. row'[t] = ClaimedRow(row[t])
    BY <1>2, <1>4
  <2>4. row[t].attempts < MaxAttempts
    BY <1>4, <2>1
  <2> QED BY <1>4, <2>2, <2>3, <2>4 DEF Taken, Leased, Open
<1>6. OthersSame(S)
  BY <1>4 DEF OthersSame, Same, Leased
<1> QED BY <1>4, <1>5, <1>6 DEF RowsFollow

LEMMA FinishesFollow == ASSUME TypeOK, WorkCounted, Finishes PROVE RowsFollow
<1>1. PICK t \in Task, a \in Attempt, o \in {"ran", "stopped", "direct"} :
        work[t][a] # "none" /\ row' = CompletedRow(t, o)
  BY DEF Finishes
<1>2. CASE Open(t)
  <2> DEFINE new == Ended(row[t], o)
  <2>1. /\ new.state = "finished" /\ new.attempts = row[t].attempts
        /\ new.lease = "none" /\ new.outcome = o
    BY RowFields, EndedKeeps
  <2>2. row' = [row EXCEPT ![t] = new]
    BY <1>1, <1>2 DEF CompletedRow
  <2> HIDE DEF new
  <2>3. row'[t] = new /\ OthersSame({t})
    BY <2>2, OneRow
  <2>4. row[t].attempts > 0
    <3>1. a <= row[t].attempts /\ row[t].attempts \in Nat
      BY <1>1, RowFields DEF WorkCounted
    <3> QED BY <3>1
  <2>5. Worked(t, o)
    BY <1>2, <2>1, <2>3, <2>4 DEF Worked, Leased
  <2> QED BY <2>3, <2>5 DEF RowsFollow
<1>3. CASE ~Open(t)
  <2>1. UNCHANGED row
    BY <1>1, <1>3 DEF CompletedRow
  <2>2. OthersSame({})
    BY <2>1 DEF OthersSame, Same, Leased
  <2> QED BY <2>2 DEF RowsFollow
<1> QED BY <1>2, <1>3

LEMMA ClearsFollow == ASSUME IInv, LandedTried, Clears PROVE RowsFollow
<1>0. TypeOK /\ sweep.scanned
  BY DEF IInv, Clears
<1>1. ASSUME NEW t \in Task PROVE Same(t) \/ Removed(t, row'[t].outcome)
  <2>1. row'[t] = SweptRow(t)
    BY DEF Clears
  <2>2. /\ row[t] \in Row /\ row[t].attempts \in 0 .. MaxAttempts
        /\ row[t].attempts \in Nat /\ MaxAttempts \in Nat
    BY <1>0, RowFields
  <2>3. t \in sweep.landed \cup sweep.untargeted \cup sweep.dead /\ StillStale(t)
          => Open(t) /\ ~Leased(t)
    BY <1>0 DEF IInv, ListedUnleased, StillStale
  <2> DEFINE landed == t \in sweep.landed /\ StillStale(t)
             untargeted == t \in sweep.untargeted /\ StillStale(t)
             dead == t \in sweep.dead /\ StillStale(t)
  <2>4. CASE landed
    <3>1. row'[t] = Ended(row[t], "landed")
      BY <2>1, <2>4 DEF SweptRow
    <3>2. row[t].attempts > 0
      BY <1>0, <2>4 DEF LandedTried
    <3> QED BY <2>2, <2>3, <2>4, <3>1, <3>2, EndedKeeps DEF Removed, Leased
  <2>5. CASE ~landed /\ untargeted
    <3>1. row'[t] = Ended(row[t], "untargeted")
      BY <2>1, <2>5 DEF SweptRow
    <3> QED BY <2>2, <2>3, <2>5, <3>1, EndedKeeps DEF Removed, Leased
  <2>6. CASE ~landed /\ ~untargeted /\ Retirable(t)
    <3>1. row'[t] = Ended(row[t], "retired")
      BY <2>1, <2>6 DEF SweptRow
    <3>2. Open(t) /\ ~Leased(t) /\ row[t].attempts = MaxAttempts
      BY <2>2, <2>6 DEF Retirable, Exhausted
    <3> QED BY <2>2, <3>1, <3>2, EndedKeeps DEF Removed, Leased
  <2>7. CASE ~landed /\ ~untargeted /\ ~Retirable(t) /\ dead
    <3>1. row'[t] = [row[t] EXCEPT !.lease = "none"]
      BY <2>1, <2>7 DEF SweptRow
    <3>2. ~Leased(t)
      BY <2>3, <2>7
    <3> QED BY <2>2, <3>1, <3>2 DEF Same, Leased, Row
  <2>8. CASE ~landed /\ ~untargeted /\ ~Retirable(t) /\ ~dead
    <3>1. row'[t] = row[t]
      BY <2>1, <2>8 DEF SweptRow
    <3> QED BY <3>1 DEF Same, Leased
  <2> QED BY <2>4, <2>5, <2>6, <2>7, <2>8
<1> QED BY <1>1 DEF RowsFollow

LEMMA StepsFollow == ASSUME IInv, Counted, RowStep PROVE RowsFollow
<1>0. TypeOK
  BY DEF IInv
<1>1. UNCHANGED row => RowsFollow
  <2>1. UNCHANGED row => OthersSame({})
    BY DEF OthersSame, Same, Leased
  <2> QED BY <2>1 DEF RowsFollow
<1> QED BY <1>0, <1>1, CreatesFollow, RedatesFollow, LapsesFollow, ClaimsFollow,
     FinishesFollow, ClearsFollow DEF RowStep, Counted

(* A step takes back no attempt of a row and unmakes none.                 *)
RowsGrow ==
  \A t \in Task : /\ row'[t].attempts >= row[t].attempts
                  /\ row'[t].state = "absent" => row[t].state = "absent"

LEMMA RowsOnlyGrow == ASSUME TypeOK, RowsFollow PROVE RowsGrow
<1> SUFFICES ASSUME NEW t \in Task
             PROVE  /\ row'[t].attempts >= row[t].attempts
                    /\ row'[t].state = "absent" => row[t].state = "absent"
  BY DEF RowsGrow
<1>1. row[t].attempts \in Nat
  BY RowFields
<1>2. Same(t) \/ Opened(t) \/ Lapsed(t) \/ Taken(t) \/ (\E o : Worked(t, o))
        \/ (\E o : Removed(t, o))
  BY DEF RowsFollow, OthersSame
<1> QED BY <1>1, <1>2 DEF Same, Opened, Lapsed, Taken, Worked, Removed

LEMMA AbsentStaysNew == ASSUME AbsentIsNew, RowsFollow PROVE AbsentIsNew'
<1> SUFFICES ASSUME NEW t \in Task, row'[t].state = "absent"
             PROVE  /\ row'[t].attempts = 0 /\ ~Leased(t)'
                    /\ row'[t].outcome = "none"
  BY DEF AbsentIsNew
<1>1. Same(t) \/ Opened(t) \/ Lapsed(t) \/ Taken(t) \/ (\E o : Worked(t, o))
        \/ (\E o : Removed(t, o))
  BY DEF RowsFollow, OthersSame
<1> QED BY <1>1 DEF Same, Opened, Lapsed, Taken, Worked, Removed, AbsentIsNew

(* Work is begun by a claim, which counts it, and goes on from there.      *)
WorkFollows ==
  \A t \in Task, a \in Attempt :
    work'[t][a] # "none" => work[t][a] # "none" \/ a <= row'[t].attempts

LEMMA NextWork == ASSUME IInv, [Next]_vars PROVE WorkFollows
<1>0. work \in [Task -> [Attempt -> Stage]] /\ TypeOK
  BY DEF IInv, TypeOK
<1>1. ASSUME NEW t \in Task, NEW a \in Attempt, NEW from, NEW to, Step(t, a, from, to),
             from # "none"
      PROVE  WorkFollows
  BY <1>0, <1>1 DEF Step, WorkFollows
<1>2. UNCHANGED work => WorkFollows
  BY DEF WorkFollows
<1>3. ASSUME NEW t \in Task, Intake(t) \/ LeaseExpires(t) PROVE WorkFollows
  BY <1>2, <1>3 DEF Intake, LeaseExpires, Enqueue, DueArrives, ScheduleMove,
     ScheduleLook, ScheduleCreate, EnrichRead, EnrichQueue, EnrichMark
<1>4. ASSUME NEW lane \in Lane, ClaimDue(lane) PROVE WorkFollows
  <2>1. PICK S \in Chosen(lane) :
          /\ row' = [t \in Task |-> IF t \in S THEN ClaimedRow(row[t]) ELSE row[t]]
          /\ work' = [t \in Task |->
                        IF t \in S
                        THEN [work[t] EXCEPT ![row[t].attempts + 1] = "claimed"]
                        ELSE work[t]]
    BY <1>4 DEF ClaimDue
  <2> SUFFICES ASSUME NEW t \in Task, NEW a \in Attempt, work'[t][a] # "none",
                      work[t][a] = "none"
               PROVE  a <= row'[t].attempts
    BY DEF WorkFollows
  <2>2. t \in S /\ a = row[t].attempts + 1
    BY <1>0, <2>1
  <2>3. row'[t] = ClaimedRow(row[t]) /\ row[t] \in Row /\ row[t].attempts \in Nat
    BY <1>0, <2>1, <2>2, RowFields
  <2>4. ClaimedRow(row[t]).attempts = row[t].attempts + 1
    BY <2>3 DEF ClaimedRow, Row
  <2> QED BY <2>2, <2>3, <2>4
<1>5. ASSUME NEW t \in Task, NEW a \in Attempt,
             AbortClaimed(t, a) \/ Visible(t, a) \/ Research(t, a) \/ Session(t, a)
      PROVE  WorkFollows
  <2>1. \E from, to : from # "none" /\ Step(t, a, from, to)
    BY <1>5 DEF AbortClaimed, Visible, BeginDirect, SkipBrand, AnswerDirect,
       CompleteDirect, ThrowDirect, Research, BeginResearch, StartAccepted,
       StartRejected, Session, SessionWaiting, SessionCompleted, TurnCancelled,
       TurnFailed, SessionLost
  <2> QED BY <1>1, <2>1
<1>6. Settling \/ Sweeping \/ UNCHANGED vars => UNCHANGED work
  <2>1. Settling => UNCHANGED work
    BY DEF Settling, SettleRead, SettleWrite
  <2>2. Sweeping \/ UNCHANGED vars => UNCHANGED work
    BY DEF Sweeping, SweepScan, SweepApply, vars
  <2> QED BY <2>1, <2>2
<1>7. CASE Crash
  <2>1. \A t \in Task, a \in Attempt : work[t][a] = "none" => work'[t][a] = "none"
    BY <1>7 DEF Crash
  <2> QED BY <2>1 DEF WorkFollows
<1> HIDE DEF Lane, Attempt
<1> QED BY <1>2, <1>3, <1>4, <1>5, <1>6, <1>7 DEF Next

(* A pass lists as landed only a row that was claimed.                     *)
ListFollows ==
  sweep'.scanned =>
    \/ sweep.scanned /\ sweep'.landed = sweep.landed
    \/ \A t \in sweep'.landed : t \in Task /\ row[t].attempts > 0

LEMMA NextLists == ASSUME IInv, [Next]_vars PROVE ListFollows
<1>1. UNCHANGED sweep => ListFollows
  BY DEF ListFollows
<1>2. ASSUME NEW t \in Task, Intake(t) \/ LeaseExpires(t) PROVE ListFollows
  BY <1>1, <1>2 DEF Intake, LeaseExpires, Enqueue, DueArrives, ScheduleMove,
     ScheduleLook, ScheduleCreate, EnrichRead, EnrichQueue, EnrichMark
<1>3. ASSUME NEW lane \in Lane, ClaimDue(lane) PROVE ListFollows
  <2>1. \E S : sweep' = IF sweep.scanned
                        THEN [sweep EXCEPT !.reclaimed = @ \cup S] ELSE sweep
    BY <1>3 DEF ClaimDue
  <2>2. sweep \in Sweep
    BY DEF IInv, TypeOK
  <2> QED BY <2>1, <2>2 DEF ListFollows, Sweep
<1>4. ASSUME NEW t \in Task, NEW a \in Attempt,
             AbortClaimed(t, a) \/ Visible(t, a) \/ Research(t, a) \/ Session(t, a)
      PROVE  ListFollows
  <2>1. UNCHANGED sweep
    BY <1>4 DEF AbortClaimed, Visible, BeginDirect, SkipBrand, AnswerDirect,
       CompleteDirect, ThrowDirect, Research, BeginResearch, StartAccepted,
       StartRejected, Session, SessionWaiting, SessionCompleted, TurnCancelled,
       TurnFailed, SessionLost, CloseTask
  <2> QED BY <1>1, <2>1
<1>5. Settling \/ UNCHANGED vars => UNCHANGED sweep
  <2>1. Settling => UNCHANGED sweep
    BY DEF Settling, SettleRead, SettleWrite
  <2> QED BY <2>1 DEF vars
<1>6. CASE SweepScan
  <2>1. \A t \in sweep'.landed : t \in Task /\ FinishedElsewhere(t)
    BY <1>6 DEF SweepScan, StaleRows
  <2> QED BY <2>1 DEF ListFollows, FinishedElsewhere
<1>7. CASE SweepApply \/ Crash
  BY <1>7 DEF SweepApply, Crash, IdleSweep, ListFollows
<1> HIDE DEF Lane, Attempt
<1> QED BY <1>1, <1>2, <1>3, <1>4, <1>5, <1>6, <1>7 DEF Next, Sweeping

LEMMA CountedKeeps ==
  ASSUME IInv, Counted, [Next]_vars
  PROVE  Counted' /\ RowsFollow
<1>0. TypeOK /\ RowsFollow
  BY NextRows, StepsFollow DEF IInv
<1>1. RowsGrow /\ AbsentIsNew'
  BY <1>0, RowsOnlyGrow, AbsentStaysNew DEF Counted
<1>2. TypeOK'
  BY NextKeeps DEF IInv
<1>3. \A t \in Task : row[t].attempts \in Nat /\ row'[t].attempts \in Nat
  <2> TAKE t \in Task
  <2>1. row'[t] \in Row
    BY <1>2 DEF TypeOK
  <2>2. row'[t].attempts \in 0 .. MaxAttempts
    BY <2>1 DEF Row
  <2> QED BY <1>0, <2>2, RowFields
<1>4. WorkCounted'
  <2> SUFFICES ASSUME NEW t \in Task, NEW a \in Attempt, work'[t][a] # "none"
               PROVE  a <= row'[t].attempts
    BY DEF WorkCounted
  <2>1. work[t][a] # "none" \/ a <= row'[t].attempts
    BY NextWork DEF WorkFollows
  <2>2. work[t][a] # "none" => a <= row[t].attempts
    BY DEF Counted, WorkCounted
  <2>3. a \in Nat
    BY ConstantsAssumption
  <2> QED BY <1>1, <1>3, <2>1, <2>2, <2>3 DEF RowsGrow
<1>5. LandedTried'
  <2> SUFFICES ASSUME sweep'.scanned, NEW t \in sweep'.landed
               PROVE  row'[t].attempts > 0
    BY DEF LandedTried
  <2>1. t \in Task
    BY <1>2 DEF TypeOK, Sweep
  <2>2. row[t].attempts > 0
    BY NextLists DEF ListFollows, Counted, LandedTried
  <2> QED BY <1>1, <1>3, <2>1, <2>2 DEF RowsGrow
<1> QED BY <1>0, <1>1, <1>4, <1>5 DEF Counted

-----------------------------------------------------------------------------
(* Each step is a step of TaskLifecycle, or stutters there.                *)
StateOf   == [t \in Task |-> row[t].state]
TriesOf   == [t \in Task |-> row[t].attempts]
LeasedOf  == {t \in Task : Leased(t)}
OutcomeOf == [t \in Task |-> row[t].outcome]

Steps == [TaskLife!Next]_(TaskLife!vars)

LEMMA MapsSame ==
  ASSUME OthersSame({})
  PROVE  UNCHANGED <<StateOf, TriesOf, LeasedOf, OutcomeOf>>
<1>1. \A t \in Task : Same(t)
  BY DEF OthersSame
<1>2. StateOf' = StateOf /\ TriesOf' = TriesOf /\ OutcomeOf' = OutcomeOf
  BY <1>1 DEF Same, StateOf, TriesOf, OutcomeOf
<1>3. LeasedOf' = LeasedOf
  BY <1>1 DEF Same, LeasedOf
<1> QED BY <1>2, <1>3

LEMMA SameSteps == ASSUME OthersSame({}) PROVE Steps
<1>1. UNCHANGED TaskLife!vars
  BY MapsSame DEF TaskLife!vars, StateOf, TriesOf, LeasedOf, OutcomeOf
<1> QED BY <1>1 DEF Steps

(* One row moves: what its lifecycle's variables become.                   *)
LEMMA MapsOne ==
  ASSUME NEW t \in Task, OthersSame({t})
  PROVE  /\ StateOf' = [StateOf EXCEPT ![t] = row'[t].state]
         /\ TriesOf' = [TriesOf EXCEPT ![t] = row'[t].attempts]
         /\ OutcomeOf' = [OutcomeOf EXCEPT ![t] = row'[t].outcome]
         /\ (Leased(t)' <=> Leased(t)) => LeasedOf' = LeasedOf
         /\ ~Leased(t)' => LeasedOf' = LeasedOf \ {t}
<1>1. \A u \in Task : u # t => Same(u)
  BY DEF OthersSame
<1>2. StateOf' = [StateOf EXCEPT ![t] = row'[t].state]
  BY <1>1 DEF Same, StateOf
<1>3. TriesOf' = [TriesOf EXCEPT ![t] = row'[t].attempts]
  BY <1>1 DEF Same, TriesOf
<1>4. OutcomeOf' = [OutcomeOf EXCEPT ![t] = row'[t].outcome]
  BY <1>1 DEF Same, OutcomeOf
<1>5. /\ (Leased(t)' <=> Leased(t)) => LeasedOf' = LeasedOf
      /\ ~Leased(t)' => LeasedOf' = LeasedOf \ {t}
  BY <1>1 DEF Same, LeasedOf
<1> QED BY <1>2, <1>3, <1>4, <1>5

LEMMA OpenedSteps ==
  ASSUME NEW t \in Task, Opened(t), OthersSame({t})
  PROVE  Steps
<1>1. StateOf[t] = "absent"
  BY DEF Opened, StateOf
<1>2. /\ StateOf' = [StateOf EXCEPT ![t] = "open"]
      /\ TriesOf' = TriesOf /\ OutcomeOf' = OutcomeOf /\ LeasedOf' = LeasedOf
  <2>1. TriesOf[t] = row'[t].attempts /\ OutcomeOf[t] = row'[t].outcome
    BY DEF Opened, TriesOf, OutcomeOf
  <2> QED BY <2>1, MapsOne DEF Opened, TriesOf, OutcomeOf
<1>3. TaskLife!OpenRow(t)
  BY <1>1, <1>2 DEF TaskLife!OpenRow, StateOf, TriesOf, LeasedOf, OutcomeOf
<1> QED BY <1>3 DEF Steps, TaskLife!Next

LEMMA LapsedSteps ==
  ASSUME NEW t \in Task, Lapsed(t), OthersSame({t})
  PROVE  Steps
<1>1. /\ StateOf' = StateOf /\ TriesOf' = TriesOf /\ OutcomeOf' = OutcomeOf
      /\ LeasedOf' = LeasedOf \ {t}
  <2>1. \A u \in Task : /\ row'[u].state = row[u].state
                        /\ row'[u].attempts = row[u].attempts
                        /\ row'[u].outcome = row[u].outcome
    BY DEF Lapsed, OthersSame, Same
  <2>2. LeasedOf' = LeasedOf \ {t}
    BY MapsOne DEF Lapsed
  <2> QED BY <2>1, <2>2 DEF StateOf, TriesOf, OutcomeOf
<1>2. TaskLife!Expire(t)
  BY <1>1 DEF TaskLife!Expire, StateOf, TriesOf, LeasedOf, OutcomeOf
<1> QED BY <1>2 DEF Steps, TaskLife!Next

LEMMA WorkedSteps ==
  ASSUME NEW t \in Task, NEW o \in {"ran", "stopped", "direct"}, Worked(t, o),
         OthersSame({t})
  PROVE  Steps
<1>1. StateOf[t] = "open" /\ TriesOf[t] > 0
  BY DEF Worked, Open, StateOf, TriesOf
<1>2. /\ StateOf' = [StateOf EXCEPT ![t] = "finished"] /\ TriesOf' = TriesOf
      /\ OutcomeOf' = [OutcomeOf EXCEPT ![t] = o]
      /\ LeasedOf' = LeasedOf \ {t}
  <2>1. TriesOf[t] = row'[t].attempts
    BY DEF Worked, TriesOf
  <2> QED BY <2>1, MapsOne DEF Worked, TriesOf
<1>3. TaskLife!Finish(t, o)
  BY <1>1, <1>2 DEF TaskLife!Finish, StateOf, TriesOf, LeasedOf, OutcomeOf
<1> QED BY <1>3 DEF Steps, TaskLife!Next, TaskLife!ByWork

LEMMA TakenSteps ==
  ASSUME NEW S \in SUBSET Task, \A t \in S : Taken(t), OthersSame(S)
  PROVE  Steps
<1>1. \A t \in Task : t \notin S => Same(t)
  BY DEF OthersSame
<1>2. \A t \in S : StateOf[t] = "open" /\ t \notin LeasedOf /\ TriesOf[t] < MaxAttempts
  BY DEF Taken, Open, StateOf, TriesOf, LeasedOf
<1>3. StateOf' = StateOf /\ OutcomeOf' = OutcomeOf
  <2>1. \A t \in Task : row'[t].state = row[t].state /\ row'[t].outcome = row[t].outcome
    BY <1>1 DEF Same, Taken, Open
  <2> QED BY <2>1 DEF StateOf, OutcomeOf
<1>4. TriesOf' = [t \in Task |-> IF t \in S THEN TriesOf[t] + 1 ELSE TriesOf[t]]
  <2>1. \A t \in Task :
          row'[t].attempts = IF t \in S THEN row[t].attempts + 1 ELSE row[t].attempts
    BY <1>1 DEF Same, Taken
  <2> QED BY <2>1 DEF TriesOf
<1>5. LeasedOf' = LeasedOf \cup S
  BY <1>1 DEF Same, Taken, LeasedOf
<1>6. TaskLife!Claim(S)
  BY <1>2, <1>3, <1>4, <1>5 DEF TaskLife!Claim, StateOf, TriesOf, LeasedOf, OutcomeOf
<1> QED BY <1>6 DEF Steps, TaskLife!Next

LEMMA ClearedSteps ==
  ASSUME NEW S \in SUBSET Task, NEW why \in [S -> TaskLife!Cleared],
         \A t \in S : Removed(t, why[t]), OthersSame(S)
  PROVE  Steps
<1>0. DOMAIN why = S /\ \A t \in Task : t \notin S => Same(t)
  BY DEF OthersSame
<1>1. \A t \in S :
        /\ StateOf[t] = "open" /\ t \notin LeasedOf
        /\ why[t] = "landed" => TriesOf[t] > 0
        /\ why[t] = "retired" => TriesOf[t] = MaxAttempts
  BY DEF Removed, Open, StateOf, TriesOf, LeasedOf
<1>2. StateOf' = [t \in Task |-> IF t \in S THEN "finished" ELSE StateOf[t]]
  <2>1. \A t \in Task :
          row'[t].state = IF t \in S THEN "finished" ELSE row[t].state
    BY <1>0 DEF Same, Removed
  <2> QED BY <2>1 DEF StateOf
<1>3. OutcomeOf' = [t \in Task |-> IF t \in S THEN why[t] ELSE OutcomeOf[t]]
  <2>1. \A t \in Task :
          row'[t].outcome = IF t \in S THEN why[t] ELSE row[t].outcome
    BY <1>0 DEF Same, Removed
  <2> QED BY <2>1 DEF OutcomeOf
<1>4. TriesOf' = TriesOf /\ LeasedOf' = LeasedOf
  <2>1. \A t \in Task :
          row'[t].attempts = row[t].attempts /\ (Leased(t)' <=> Leased(t))
    BY <1>0 DEF Same, Removed
  <2> QED BY <2>1 DEF TriesOf, LeasedOf
<1>5. TaskLife!Clear(why)
  BY <1>0, <1>1, <1>2, <1>3, <1>4
     DEF TaskLife!Clear, StateOf, TriesOf, LeasedOf, OutcomeOf
<1>6. TaskLife!Next
  BY <1>5 DEF TaskLife!Next
<1> QED BY <1>6 DEF Steps

LEMMA RemovedSteps ==
  ASSUME \A t \in Task : Same(t) \/ Removed(t, row'[t].outcome)
  PROVE  Steps
<1>1. PICK S \in SUBSET Task : S = {t \in Task : ~Same(t)}
  OBVIOUS
<1>2. PICK why : why = [t \in S |-> row'[t].outcome]
  OBVIOUS
<1>3. \A t \in S : Removed(t, why[t])
  BY <1>1, <1>2
<1>4. why \in [S -> TaskLife!Cleared]
  <2>1. \A t \in S : why[t] \in {"landed", "untargeted", "retired"}
    BY <1>3 DEF Removed
  <2> QED BY <1>2, <2>1 DEF TaskLife!Cleared
<1>5. OthersSame(S)
  BY <1>1 DEF OthersSame
<1> QED BY <1>3, <1>4, <1>5, ClearedSteps

(* No row is worked beyond its claims, and none that was never claimed is  *)
(* listed as done.                                                         *)
THEOREM Counting == Spec => []Counted
<1>1. Init => Counted
  BY DEF Init, Counted, WorkCounted, LandedTried, AbsentIsNew, AbsentRow,
     IdleSweep, Leased
<1>2. IInv /\ Counted /\ [Next]_vars => Counted'
  BY CountedKeeps
<1> QED BY Invariant, <1>1, <1>2, PTL DEF Spec

(* Whatever sessions, handlers, sweeps and restarts do, the rows of the    *)
(* queue go through TaskLifecycle: claimed only without a live lease and   *)
(* MaxAttempts times at most, ended by work only after a claim, cleared    *)
(* under no lease and worn out only after the last attempt, ended once.    *)
THEOREM Refinement == Spec => ImplementsTaskLifecycle
<1>1. Init => TaskLife!Init
  BY DEF Init, TaskLife!Init, AbsentRow, Leased
<1>2. IInv /\ Counted /\ [Next]_vars => [TaskLife!Next]_(TaskLife!vars)
  <2> SUFFICES ASSUME IInv, Counted, [Next]_vars PROVE Steps
    BY DEF Steps
  <2>1. RowsFollow
    BY CountedKeeps
  <2> QED BY <2>1, SameSteps, OpenedSteps, LapsedSteps, TakenSteps, WorkedSteps,
          RemovedSteps DEF RowsFollow
<1> QED BY Invariant, Counting, <1>1, <1>2, PTL
        DEF Spec, ImplementsTaskLifecycle, TaskLife!Spec
=============================================================================
