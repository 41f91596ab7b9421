----------------------------- MODULE AgentTasks -----------------------------
(***************************************************************************)
(* The agent's durable work queue: rows of AgentTask, the two lanes that   *)
(* claim them (apps/agent/agent/lib/dispatch.ts), the sessions that work   *)
(* them, the sweep that closes stale rows (stale-tasks.ts) and the         *)
(* enrichment status each of them writes on the record it is about         *)
(* (enrichment.ts, brand.ts).                                              *)
(*                                                                         *)
(* Time is abstract.  A lease is "live" until LeaseExpires makes it        *)
(* "dead"; a row booked for later becomes due by DueArrives.  The date     *)
(* comparisons of the code become sets: caughtUp holds the tasks whose     *)
(* subject has enrichedAt >= startedAt, touched the finished tasks whose   *)
(* subject has updatedAt >= finishedAt, unmoved the requests whose subject *)
(* still has the updatedAt the request read.                               *)
(***************************************************************************)
EXTENDS Naturals, FiniteSets

CONSTANTS
  Task,        \* ids of AgentTask rows, each used once
  Contact,     \* contacts a task may be about
  Company,     \* companies a task may be about
  NoSubject,   \* the subject of a task about no record
  KindOf,      \* [Task -> kind]
  SubjectOf,   \* [Task -> record or NoSubject]
  Priority,    \* [Task -> Nat]
  Requested,   \* the tasks a rep's "enrich" creates; the CRM creates the others
  MaxAttempts, \* MAX_ATTEMPTS
  Batch,       \* LIMIT of one claimDue
  MaxSettling, \* bound on settle() calls under way at once
  MaxCrashes   \* bound on restarts of the agent process

Record == Contact \cup Company

DirectKinds == {"brand", "portrait", "slack-people-match",
                "slack-channel-join", "agent-event"}

Kind == DirectKinds \cup
  {"meeting-prep", "identify", "profile", "recheck", "company-profile",
   "workspace-profile", "field-backfill"}

ContactStatusKinds == {"identify", "profile", "recheck"}
CompanyStatusKinds == {"brand"}

Lane == {"visible", "research"}
LaneOf(t) == IF KindOf[t] \in DirectKinds THEN "visible" ELSE "research"

EnrichmentStatus == {"PENDING", "RUNNING", "COMPLETE", "FAILED", "SKIPPED"}

ASSUME ConstantsAssumption ==
  /\ KindOf \in [Task -> Kind]
  /\ SubjectOf \in [Task -> Record \cup {NoSubject}]
  /\ NoSubject \notin Record
  /\ Contact \cap Company = {}
  /\ Priority \in [Task -> Nat]
  /\ Requested \subseteq Task
  /\ \A t \in Requested :
       SubjectOf[t] \in Contact => KindOf[t] \in ContactStatusKinds
  /\ MaxAttempts \in Nat \ {0}
  /\ Batch \in Nat \ {0}
  /\ MaxSettling \in Nat \ {0} /\ MaxCrashes \in Nat

VARIABLES
  row,      \* the AgentTask rows
  work,     \* what the k-th claim of a task is doing, per task and k
  settling, \* calls of settle() that have not written yet
  status,   \* enrichmentStatus of each record
  caughtUp, touched, unmoved, \* the date comparisons, see above
  asking,   \* where the request that creates a task stands
  sweep,    \* the running pass of reconcileStaleTasks
  crashes   \* restarts so far

vars == <<row, work, settling, status, caughtUp, touched, unmoved, asking,
          sweep, crashes>>
dates == <<caughtUp, touched, unmoved>>

Attempt == 1 .. MaxAttempts

Row == [state : {"absent", "open", "finished"}, attempts : 0 .. MaxAttempts,
        lease : {"none", "live", "dead"}, due : BOOLEAN,
        outcome : {"none", "ran", "stopped", "direct", "landed", "untargeted",
                   "retired"}]

Stage == {"none", "claimed", "handling", "answered", "sending", "turn",
          "waited", "over"}

(* A rep's request, or the recheck tool's booking, on its way to a row.    *)
Ask == {"no", "booking", "read", "queued", "marked", "done"}

Settle == [task : Task, status : EnrichmentStatus,
           from : SUBSET EnrichmentStatus, read : BOOLEAN]

(* The three lists a pass makes when it scans, and the rows claimed since. *)
Sweep == [scanned : BOOLEAN,
          landed : SUBSET Task, untargeted : SUBSET Task, dead : SUBSET Task,
          reclaimed : SUBSET Task]

IdleSweep == [scanned |-> FALSE, landed |-> {}, untargeted |-> {}, dead |-> {},
              reclaimed |-> {}]

TypeOK ==
  /\ row \in [Task -> Row]
  /\ work \in [Task -> [Attempt -> Stage]]
  /\ settling \subseteq Settle
  /\ status \in [Record -> EnrichmentStatus]
  /\ caughtUp \subseteq Task /\ touched \subseteq Task /\ unmoved \subseteq Task
  /\ asking \in [Task -> Ask]
  /\ sweep \in Sweep
  /\ crashes \in 0 .. MaxCrashes

AbsentRow == [state |-> "absent", attempts |-> 0, lease |-> "none",
              due |-> FALSE, outcome |-> "none"]

Init ==
  /\ row = [t \in Task |-> AbsentRow]
  /\ work = [t \in Task |-> [a \in Attempt |-> "none"]]
  /\ settling = {}
  /\ status \in [Record -> {"PENDING", "COMPLETE", "FAILED"}]
  /\ caughtUp = {} /\ touched = {} /\ unmoved = {}
  /\ asking = [t \in Task |-> "no"]
  /\ sweep = IdleSweep
  /\ crashes = 0

-----------------------------------------------------------------------------
Open(t)      == row[t].state = "open"
Finished(t)  == row[t].state = "finished"
Leased(t)    == row[t].lease = "live"
Exhausted(t) == row[t].attempts >= MaxAttempts
About(r)     == {t \in Task : SubjectOf[t] = r}

(* ownsContactStatus, ownsCompanyStatus: the task's kind writes the status *)
(* of the record the task is about.                                        *)
Owns(t) ==
  \/ SubjectOf[t] \in Contact /\ KindOf[t] \in ContactStatusKinds
  \/ SubjectOf[t] \in Company /\ KindOf[t] \in CompanyStatusKinds

SameWork(t, u) == KindOf[t] = KindOf[u] /\ SubjectOf[t] = SubjectOf[u]

(* One UPDATE of a record's row: @updatedAt moves, and enrichedAt with it  *)
(* when the record is COMPLETE.                                            *)
WriteStatus(r, s) ==
  /\ status' = [status EXCEPT ![r] = s]
  /\ unmoved' = unmoved \ About(r)
  /\ touched' = touched \cup {t \in About(r) : Finished(t)}
  /\ caughtUp' = IF s = "COMPLETE"
                 THEN caughtUp \cup {t \in About(r) : Open(t) /\ row[t].attempts > 0}
                 ELSE caughtUp

(* updateMany with a status guard: no row matches, nothing is written.     *)
WriteStatusIf(guard, r, s) ==
  IF guard THEN WriteStatus(r, s) ELSE UNCHANGED <<status, dates>>

(* UNLESS_COMPLETE.  (Fault: without the guard.)                           *)
MarksRunningAlways(t) == Owns(t)

MarksRunning(t) == Owns(t) /\ status[SubjectOf[t]] # "COMPLETE"

(* A finished row's lease is never read again; the model drops it.         *)
Ended(r, outcome) ==
  [r EXCEPT !.state = "finished", !.outcome = outcome, !.lease = "none",
            !.due = TRUE]

(* Fault: completeTask without finishedAt: null in its where.              *)
CompletedRowAgain(t, outcome) == [row EXCEPT ![t] = Ended(@, outcome)]

(* completeTask: the first one to finish a row decides its outcome.        *)
CompletedRow(t, outcome) ==
  IF Open(t) THEN [row EXCEPT ![t] = Ended(@, outcome)] ELSE row

(* Calls of settle() begin; they have read nothing yet.  A task that owns  *)
(* no status returns at once.  MaxSettling bounds the calls under way.     *)
SettleCalls(T, s) ==
  /\ settling' = settling \cup
       {[task |-> t, status |-> s, from |-> {}, read |-> FALSE] :
          t \in {u \in T : Owns(u)}}
  /\ Cardinality(settling') <= MaxSettling

Step(t, a, from, to) ==
  /\ work[t][a] = from
  /\ work' = [work EXCEPT ![t][a] = to]

-----------------------------------------------------------------------------
(* Creating rows.                                                          *)

OpenTwin(t) == \E u \in Task : Open(u) /\ SameWork(t, u)

CreateRow(t, due) ==
  /\ row[t].state = "absent"
  /\ row' = [row EXCEPT ![t] = [AbsentRow EXCEPT !.state = "open", !.due = due]]

(* AgentTriggerService.enqueue: look and create under one advisory lock.   *)
Enqueue(t) ==
  /\ t \notin Requested /\ KindOf[t] # "recheck"
  /\ asking[t] = "no" /\ ~OpenTwin(t)
  /\ CreateRow(t, TRUE)
  /\ UNCHANGED <<work, settling, status, dates, asking, sweep, crashes>>

(* scheduleTask, called by the recheck tool inside a turn: look, then move *)
(* the open row's dueAt or create a row for later.  Nothing holds a lock   *)
(* between the look and the write.                                         *)
ScheduleMove(t) ==
  /\ KindOf[t] = "recheck" /\ Open(t) /\ row[t].due
  /\ \E u \in About(SubjectOf[t]), a \in Attempt : work[u][a] = "turn"
  /\ row' = [row EXCEPT ![t].due = FALSE]
  /\ UNCHANGED <<work, settling, status, dates, asking, sweep, crashes>>

ScheduleLook(t) ==
  /\ KindOf[t] = "recheck" /\ row[t].state = "absent"
  /\ asking[t] = "no" /\ ~OpenTwin(t)
  /\ \E u \in About(SubjectOf[t]), a \in Attempt : work[u][a] = "turn"
  /\ asking' = [asking EXCEPT ![t] = "booking"]
  /\ UNCHANGED <<row, work, settling, status, dates, sweep, crashes>>

ScheduleCreate(t) ==
  /\ asking[t] = "booking"
  /\ asking' = [asking EXCEPT ![t] = "done"]
  /\ CreateRow(t, FALSE)
  /\ UNCHANGED <<work, settling, status, dates, sweep, crashes>>

DueArrives(t) ==
  /\ Open(t) /\ ~row[t].due
  /\ row' = [row EXCEPT ![t].due = TRUE]
  /\ UNCHANGED <<work, settling, status, dates, asking, sweep, crashes>>

(* A rep asks for a fresh look: enrich() reads updatedAt, enqueues, and    *)
(* marks the record PENDING only if nobody wrote it in between.            *)
EnrichRead(t) ==
  /\ t \in Requested /\ row[t].state = "absent" /\ asking[t] = "no"
  /\ asking' = [asking EXCEPT ![t] = "read"]
  /\ unmoved' = unmoved \cup {t}
  /\ UNCHANGED <<row, work, settling, status, caughtUp, touched, sweep, crashes>>

EnrichQueue(t) ==
  /\ asking[t] = "read"
  /\ IF OpenTwin(t)
     THEN /\ asking' = [asking EXCEPT ![t] = "done"]
          /\ UNCHANGED row
     ELSE /\ asking' = [asking EXCEPT ![t] = "queued"]
          /\ CreateRow(t, TRUE)
  /\ UNCHANGED <<work, settling, status, dates, sweep, crashes>>

EnrichMark(t) ==
  /\ asking[t] = "queued"
  /\ asking' = [asking EXCEPT ![t] = IF t \in unmoved THEN "marked" ELSE "done"]
  /\ WriteStatusIf(t \in unmoved /\ Owns(t), SubjectOf[t], "PENDING")
  /\ UNCHANGED <<row, work, settling, sweep, crashes>>

-----------------------------------------------------------------------------
(* Claiming.                                                               *)

Claimable(lane) ==
  {t \in Task : /\ LaneOf(t) = lane /\ Open(t) /\ row[t].due
                /\ ~Leased(t) /\ ~Exhausted(t)}

(* The LIMIT rows of highest priority.                                     *)
Chosen(lane) ==
  {S \in SUBSET Claimable(lane) :
     /\ S # {} /\ Cardinality(S) <= Batch
     /\ Cardinality(S) = Batch \/ S = Claimable(lane)
     /\ \A t \in S, u \in Claimable(lane) \ S : Priority[t] >= Priority[u]}

ClaimedRow(r) == [r EXCEPT !.lease = "live", !.attempts = @ + 1]

(* claimDue.  The new leasedUntil is after the now of a sweep under way.    *)
ClaimDue(lane) ==
  \E S \in Chosen(lane) :
    /\ row' = [t \in Task |-> IF t \in S THEN ClaimedRow(row[t]) ELSE row[t]]
    /\ work' = [t \in Task |->
                  IF t \in S
                  THEN [work[t] EXCEPT ![row[t].attempts + 1] = "claimed"]
                  ELSE work[t]]
    /\ sweep' = IF sweep.scanned
                THEN [sweep EXCEPT !.reclaimed = @ \cup S] ELSE sweep
    /\ UNCHANGED <<settling, status, dates, asking, crashes>>

(* The sweep reached its time limit: a claimed row it did not begin is     *)
(* left to its lease.                                                      *)
AbortClaimed(t, a) ==
  /\ Step(t, a, "claimed", "over")
  /\ UNCHANGED <<row, settling, status, dates, asking, sweep, crashes>>

(* Leases are 6 and 30 minutes; a row is begun in the seconds after its    *)
(* claim or not at all, so no lease dies on a claim that was not begun.    *)
LeaseExpires(t) ==
  /\ Open(t) /\ Leased(t)
  /\ \A a \in Attempt : work[t][a] # "claimed"
  /\ row' = [row EXCEPT ![t].lease = "dead"]
  /\ UNCHANGED <<work, settling, status, dates, asking, sweep, crashes>>

-----------------------------------------------------------------------------
(* The visible lane: the work itself, no session.                          *)

(* runBrand marks the company RUNNING before it calls the vendor.          *)
BeginDirect(t, a) ==
  /\ LaneOf(t) = "visible"
  /\ Step(t, a, "claimed", "handling")
  /\ WriteStatusIf(MarksRunning(t), SubjectOf[t], "RUNNING")
  /\ UNCHANGED <<row, settling, asking, sweep, crashes>>

(* runBrand without a key or a domain: nothing to look up.                 *)
SkipBrand(t, a) ==
  /\ KindOf[t] = "brand" /\ Owns(t)
  /\ Step(t, a, "claimed", "answered")
  /\ \E guard \in {{"RUNNING"}, EnrichmentStatus \ {"COMPLETE"}} :
       WriteStatusIf(status[SubjectOf[t]] \in guard, SubjectOf[t], "SKIPPED")
  /\ UNCHANGED <<row, settling, asking, sweep, crashes>>

(* The vendor's answer: COMPLETE is written whatever the status is, the    *)
(* other answers only over RUNNING, and a retryable one leaves the row.    *)
AnswerDirect(t, a) ==
  /\ \E answer \in {"COMPLETE", "SKIPPED", "FAILED"}, retryable \in BOOLEAN :
       /\ retryable => Owns(t) /\ answer = "FAILED"
       /\ Step(t, a, "handling", IF retryable THEN "over" ELSE "answered")
       /\ WriteStatusIf(/\ Owns(t)
                        /\ \/ answer = "COMPLETE"
                           \/ status[SubjectOf[t]] = "RUNNING",
                        SubjectOf[t], answer)
  /\ UNCHANGED <<row, settling, asking, sweep, crashes>>

CompleteDirect(t, a) ==
  /\ Step(t, a, "answered", "over")
  /\ row' = CompletedRow(t, "direct")
  /\ UNCHANGED <<settling, status, dates, asking, sweep, crashes>>

(* reconcileDirect after a throw, on time or late.                         *)
ThrowDirect(t, a) ==
  /\ Step(t, a, "handling", "over")
  /\ SettleCalls({t}, "FAILED")
  /\ UNCHANGED <<row, status, dates, asking, sweep, crashes>>

-----------------------------------------------------------------------------
(* The research lane: one session per row, and what the session reports.   *)

BeginResearch(t, a) ==
  /\ LaneOf(t) = "research"
  /\ Step(t, a, "claimed", "sending")
  /\ WriteStatusIf(MarksRunning(t), SubjectOf[t], "RUNNING")
  /\ UNCHANGED <<row, settling, asking, sweep, crashes>>

(* reconcileStart, however late the send lands.                            *)
StartAccepted(t, a) ==
  /\ Step(t, a, "sending", "turn")
  /\ UNCHANGED <<row, settling, status, dates, asking, sweep, crashes>>

StartRejected(t, a) ==
  /\ Step(t, a, "sending", "over")
  /\ SettleCalls({t}, "FAILED")
  /\ UNCHANGED <<row, status, dates, asking, sweep, crashes>>

(* closeTask: finish the row unless it is finished, then settle.           *)
CloseTask(t, outcome, s) ==
  /\ row' = CompletedRow(t, outcome)
  /\ SettleCalls({t}, s)
  /\ UNCHANGED <<status, dates, asking, sweep, crashes>>

SessionWaiting(t, a) ==
  Step(t, a, "turn", "waited") /\ CloseTask(t, "ran", "COMPLETE")

(* The same session may later report that it completed.                    *)
SessionCompleted(t, a) ==
  /\ Step(t, a, "turn", "over") \/ Step(t, a, "waited", "over")
  /\ CloseTask(t, "ran", "COMPLETE")

TurnCancelled(t, a) ==
  Step(t, a, "turn", "over") /\ CloseTask(t, "stopped", "SKIPPED")

(* turn.failed settles the record and leaves the row to its lease.         *)
TurnFailed(t, a) ==
  /\ Step(t, a, "turn", "over")
  /\ SettleCalls({t}, "FAILED")
  /\ UNCHANGED <<row, status, dates, asking, sweep, crashes>>

(* session.failed does nothing for a task; a report may also never come.   *)
SessionLost(t, a) ==
  /\ Step(t, a, "turn", "over")
  /\ UNCHANGED <<row, settling, status, dates, asking, sweep, crashes>>

-----------------------------------------------------------------------------
(* settle(): reads first, one guarded write after.                         *)

HasOpenRequest(t) ==
  \E u \in About(SubjectOf[t]) \ {t} : Open(u)

(* Fault: a skipped turn is not settled over RUNNING.                      *)
SettleableKept(t, s) == IF s = "SKIPPED" THEN {} ELSE {"RUNNING"}

(* settleable: what the status may be for the write to apply.              *)
Settleable(t, s) ==
  {"RUNNING"}
    \cup (IF s = "COMPLETE" THEN {"COMPLETE"} ELSE {})
    \cup (IF s \in {"COMPLETE", "FAILED"} /\ Finished(t) /\ ~HasOpenRequest(t)
          THEN {"PENDING"} ELSE {})

SettleRead(c) ==
  /\ c \in settling /\ ~c.read
  /\ settling' = (settling \ {c}) \cup
       {[c EXCEPT !.from = Settleable(c.task, c.status), !.read = TRUE]}
  /\ UNCHANGED <<row, work, status, dates, asking, sweep, crashes>>

(* Fault: settle without updatedAt < finishedAt.                           *)
SettleMatchesUndated(c) == status[SubjectOf[c.task]] \in c.from

SettleMatches(c) ==
  LET now == status[SubjectOf[c.task]]
  IN  now \in c.from /\ (now = "PENDING" => c.task \notin touched)

SettleWrite(c) ==
  /\ c \in settling /\ c.read
  /\ settling' = settling \ {c}
  /\ WriteStatusIf(SettleMatches(c), SubjectOf[c.task], c.status)
  /\ UNCHANGED <<row, work, asking, sweep, crashes>>

-----------------------------------------------------------------------------
(* reconcileStaleTasks, one guarded update at a time.                      *)

FinishedElsewhere(t) ==
  /\ row[t].attempts > 0 /\ Owns(t)
  /\ status[SubjectOf[t]] = "COMPLETE" /\ t \in caughtUp

UntargetedFieldBackfill(t) ==
  KindOf[t] = "field-backfill" /\ SubjectOf[t] = NoSubject

StaleRows == {t \in Task : Open(t) /\ row[t].due /\ ~Leased(t)}

(* Fault: retireExhausted with > for >=.                                   *)
RetirableLate(t) == Open(t) /\ row[t].attempts > MaxAttempts /\ ~Leased(t)

(* Fault: retireExhausted without its look at the lease.                   *)
RetirableLeased(t) == Open(t) /\ Exhausted(t)

Retirable(t) == Open(t) /\ Exhausted(t) /\ ~Leased(t)

SweepScan ==
  /\ ~sweep.scanned
  /\ StaleRows # {} \/ \E t \in Task : Retirable(t)
  /\ LET untargeted == {t \in StaleRows : UntargetedFieldBackfill(t)}
         landed == {t \in StaleRows \ untargeted : FinishedElsewhere(t)}
     IN  sweep' = [scanned |-> TRUE, reclaimed |-> {},
                   landed |-> landed, untargeted |-> untargeted,
                   dead |-> {t \in StaleRows \ (landed \cup untargeted) :
                               ~Exhausted(t) /\ row[t].lease = "dead"}]
  /\ UNCHANGED <<row, work, settling, status, dates, asking, crashes>>

(* Fault: the updates without their lease guard.                           *)
StillStaleUnguarded(t) == Open(t)

(* Each guarded update of the pass matches a row that is still open and    *)
(* whose leasedUntil is before the pass's own now.                         *)
StillStale(t) == Open(t) /\ t \notin sweep.reclaimed

(* What the pass's updates make of a row.  They match disjoint rows and    *)
(* each re-checks its own guard, so the model applies them together: the   *)
(* two that close, retireExhausted with its own now, the release.          *)
SweptRow(t) ==
  IF t \in sweep.landed /\ StillStale(t) THEN Ended(row[t], "landed")
  ELSE IF t \in sweep.untargeted /\ StillStale(t) THEN Ended(row[t], "untargeted")
  ELSE IF Retirable(t) THEN Ended(row[t], "retired")
  ELSE IF t \in sweep.dead /\ StillStale(t) THEN [row[t] EXCEPT !.lease = "none"]
  ELSE row[t]

SweepApply ==
  /\ sweep.scanned
  /\ row' = [t \in Task |-> SweptRow(t)]
  /\ SettleCalls({t \in Task : Open(t) /\ row'[t].outcome = "retired"}, "FAILED")
  /\ sweep' = IdleSweep
  /\ UNCHANGED <<work, status, dates, asking, crashes>>

-----------------------------------------------------------------------------
(* The agent process restarts: what it held in memory is gone.  A send     *)
(* under way may have reached the session runtime, which outlives it.      *)
Crash ==
  /\ crashes < MaxCrashes
  /\ crashes' = crashes + 1
  /\ \E landed \in SUBSET {p \in Task \X Attempt : work[p[1]][p[2]] = "sending"} :
       work' = [t \in Task |-> [a \in Attempt |->
                  CASE work[t][a] = "sending" ->
                         IF <<t, a>> \in landed THEN "turn" ELSE "over"
                    [] work[t][a] \in {"claimed", "handling", "answered"} -> "over"
                    [] OTHER -> work[t][a]]]
  /\ settling' = {}
  /\ sweep' = IdleSweep
  /\ UNCHANGED <<row, status, dates, asking>>

-----------------------------------------------------------------------------
Visible(t, a) ==
  \/ BeginDirect(t, a) \/ SkipBrand(t, a) \/ AnswerDirect(t, a)
  \/ CompleteDirect(t, a) \/ ThrowDirect(t, a)

Research(t, a) ==
  \/ BeginResearch(t, a) \/ StartAccepted(t, a) \/ StartRejected(t, a)

Session(t, a) ==
  \/ SessionWaiting(t, a) \/ SessionCompleted(t, a) \/ TurnCancelled(t, a)
  \/ TurnFailed(t, a) \/ SessionLost(t, a)

Intake(t) ==
  \/ Enqueue(t) \/ DueArrives(t)
  \/ ScheduleMove(t) \/ ScheduleLook(t) \/ ScheduleCreate(t)
  \/ EnrichRead(t) \/ EnrichQueue(t) \/ EnrichMark(t)

Settling == \E c \in settling : SettleRead(c) \/ SettleWrite(c)
Sweeping == SweepScan \/ SweepApply

Next ==
  \/ \E t \in Task : Intake(t) \/ LeaseExpires(t)
  \/ \E lane \in Lane : ClaimDue(lane)
  \/ \E t \in Task, a \in Attempt :
       AbortClaimed(t, a) \/ Visible(t, a) \/ Research(t, a) \/ Session(t, a)
  \/ Settling
  \/ Sweeping
  \/ Crash

Spec == Init /\ [][Next]_vars

(***************************************************************************)
(* Fairness.  The cron ticks every minute and each tick sweeps and claims; *)
(* a lease ends when its time does; code the process has begun goes on.    *)
(* Nothing is assumed of a session, of a vendor's answer or of a rep.      *)
(***************************************************************************)
Fairness ==
  /\ \A lane \in Lane : WF_vars(ClaimDue(lane))
  /\ WF_vars(Sweeping)
  /\ WF_vars(Settling)
  /\ WF_vars(\E t \in Task : LeaseExpires(t))
  /\ WF_vars(\E t \in Task : DueArrives(t))
  /\ WF_vars(\E t \in Task, a \in Attempt :
               AbortClaimed(t, a) \/ BeginDirect(t, a) \/ BeginResearch(t, a))

FairSpec == Spec /\ Fairness

-----------------------------------------------------------------------------
(* A row is finished once: whichever of a session's report, a late direct  *)
(* handler, the stale sweep and the retirement closes it first decides its *)
(* outcome and nothing changes the row after (completeTask,                *)
(* retireExhausted and the sweep's guarded updates).                       *)
FirstFinishWins ==
  [][\A t \in Task : Finished(t) => row'[t] = row[t]]_row

(* A live lease is never touched by the stale-task sweep, even when the    *)
(* sweep listed the row as stale and it was claimed again meanwhile.       *)
LiveLeaseUntouched ==
  [][\A t \in Task :
       (Open(t) /\ Leased(t) /\ sweep' # sweep) => row'[t] = row[t]]_<<row, sweep>>

(* A record that reads COMPLETE leaves that status only because a rep      *)
(* asked again: no late failure, retirement, cancelled turn or new attempt *)
(* takes it back (UNLESS_COMPLETE and settleable).                         *)
CompleteStands ==
  [][\A r \in Record :
       status[r] = "COMPLETE" => status'[r] \in {"COMPLETE", "PENDING"}]_status

(* A fresh look at a contact that the rep saw marked PENDING and nobody    *)
(* has claimed yet is not answered by an older task that settles late:     *)
(* settleable's look for an open request and its write are apart, and the  *)
(* date guard is what holds between them.                                  *)
FreshRequestStands ==
  [][\A t \in Task :
       (/\ SubjectOf[t] \in Contact
        /\ asking[t] = "marked" /\ Open(t) /\ row[t].attempts = 0
        /\ status[SubjectOf[t]] = "PENDING")
         => status'[SubjectOf[t]] \in {"PENDING", "RUNNING"}]_status

(* Whatever its sessions and handlers do, a row that is due ends: it is    *)
(* finished by its work, found already done, or retired.                   *)
DueWorkEnds ==
  \A t \in Task : (Open(t) /\ row[t].due) ~> (Finished(t) \/ ~row[t].due)

(* Every record that reads RUNNING stops doing so.                         *)
ResearchingEnds ==
  \A r \in Record : (status[r] = "RUNNING") ~> (status[r] # "RUNNING")

(* A look booked for a later day is not closed before that day comes.      *)
BookedLookStands ==
  [][\A t \in Task :
       (Open(t) /\ ~row[t].due) => row'[t].state # "finished"]_row

-----------------------------------------------------------------------------
(* Whatever sessions, handlers, sweeps and restarts do, the rows of the    *)
(* queue go through TaskLifecycle: a live lease is cleared by nobody, no   *)
(* row is worn out before its last attempt or ended by work that no claim  *)
(* began, and its first end stands.                                        *)
TaskLife == INSTANCE TaskLifecycle WITH
  state   <- [t \in Task |-> row[t].state],
  tries   <- [t \in Task |-> row[t].attempts],
  leased  <- {t \in Task : Leased(t)},
  outcome <- [t \in Task |-> row[t].outcome]

ImplementsTaskLifecycle == TaskLife!Spec
=============================================================================
