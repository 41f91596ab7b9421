---------------------------- MODULE SweepControl ----------------------------
(***************************************************************************)
(* How one agent process turns pokes into sweeps of the task queue:        *)
(* collapsing() folds the pokes that arrive during a sweep into one        *)
(* trailing run (lib/pool.ts), drainAll() abandons a sweep that takes too  *)
(* long, refuses to start beside one that has not settled and forgets it   *)
(* after a grace period (lib/dispatch.ts), and the two lanes claim tasks   *)
(* and look at the abort signal between items.                             *)
(*                                                                         *)
(* A poke is the API's call after a commit or the minute's schedule; one   *)
(* that is lost is a step that is not taken.  Time is abstract: a sweep    *)
(* may be abandoned whenever it runs.  A lease lasts longer than a sweep   *)
(* may run, so it lapses only once its sweep was aborted, settled or lost. *)
(***************************************************************************)
EXTENDS Naturals, FiniteSets, FiniteSetsExt

CONSTANTS
  Task,         \* rows of AgentTask
  Visible,      \* those of a kind in DIRECT_KINDS
  MaxSweeps,    \* sweeps that may be live at once; a settled one's id is reused
  MaxAbandoned, \* DISPATCH.sweep.maxAbandoned
  MaxAttempts,  \* MAX_ATTEMPTS
  Batch,        \* how many rows one claimDue takes
  VisibleBatch, \* VISIBLE_BATCH
  MaxStalls,    \* bound on the queries that never return
  MaxRestarts   \* bound on restarts of the process

ASSUME ConstantsAssumption ==
  /\ IsFiniteSet(Task) /\ Visible \subseteq Task
  /\ MaxSweeps \in Nat \ {0} /\ MaxAbandoned \in Nat \ {0}
  /\ MaxAttempts \in Nat \ {0}
  /\ Batch \in Nat \ {0} /\ VisibleBatch \in Nat \ {0}
  /\ MaxStalls \in Nat /\ MaxRestarts \in Nat

Sweep == 1 .. MaxSweeps
Lane  == {"visible", "research"}
LaneOf(t) == IF t \in Visible THEN "visible" ELSE "research"

VARIABLES
  row,       \* of each task: absent, due, leased or done
  attempts,  \* how often it was claimed
  begun,     \* the tasks some sweep has begun to work
  current,   \* the sweep the active run waits for; 0 when none is active
  trailing,  \* a poke waits for the active run to end
  live,      \* the sweeps whose promise has not settled
  aborted,   \* those whose signal is aborted
  unsettled, \* unsettledSweeps: the abandoned ones not yet forgotten
  lane,      \* where each lane of each live sweep is
  batch,     \* the rows a lane claimed and still waits for
  handled,   \* how many rows each visible lane has taken
  stuck,     \* the lanes whose query never returns
  stalls,    \* how many queries have stalled
  restarts   \* how often the process restarted

vars == <<row, attempts, begun, current, trailing, live, aborted, unsettled,
          lane, batch, handled, stuck, stalls, restarts>>
queue    == <<row, attempts>>
sweeping == <<current, trailing, live, aborted, unsettled>>
lanes    == <<lane, batch, handled>>
faults   == <<stuck, stalls, restarts>>

(* Types; no row is claimed more than MaxAttempts times, no lane takes     *)
(* more than VISIBLE_BATCH rows, and no more than maxAbandoned sweeps are  *)
(* held against the next one.                                              *)
TypeOK ==
  /\ row \in [Task -> {"absent", "due", "leased", "done"}]
  /\ attempts \in [Task -> 0 .. MaxAttempts]
  /\ begun \subseteq Task
  /\ current \in 0 .. MaxSweeps /\ trailing \in BOOLEAN
  /\ live \subseteq Sweep /\ aborted \subseteq live /\ unsettled \subseteq aborted
  /\ Cardinality(unsettled) <= MaxAbandoned
  /\ lane \in [Sweep \X Lane -> {"claiming", "claimed", "working", "over"}]
  /\ batch \in [Sweep \X Lane -> SUBSET Task]
  /\ handled \in [Sweep -> 0 .. VisibleBatch]
  /\ stuck \subseteq live \X Lane
  /\ stalls \in 0 .. MaxStalls /\ restarts \in 0 .. MaxRestarts

Init ==
  /\ row = [t \in Task |-> "absent"] /\ attempts = [t \in Task |-> 0]
  /\ begun = {}
  /\ current = 0 /\ trailing = FALSE
  /\ live = {} /\ aborted = {} /\ unsettled = {}
  /\ lane = [h \in Sweep \X Lane |-> "over"]
  /\ batch = [h \in Sweep \X Lane |-> {}]
  /\ handled = [s \in Sweep |-> 0]
  /\ stuck = {} /\ stalls = 0 /\ restarts = 0

-----------------------------------------------------------------------------
(* The rows.                                                               *)

(* Someone commits a task; its poke is another step, or never comes.       *)
Commit(t) ==
  /\ row[t] = "absent"
  /\ row' = [row EXCEPT ![t] = "due"]
  /\ UNCHANGED <<attempts, begun, sweeping, lanes, faults>>

(* A direct handler or a session closes the row, in time or late.          *)
Close(t) ==
  /\ row[t] = "leased" /\ t \in begun
  /\ row' = [row EXCEPT ![t] = "done"]
  /\ UNCHANGED <<attempts, begun, sweeping, lanes, faults>>

LeaseLapses(t) ==
  /\ row[t] = "leased"
  /\ \A s \in live \ aborted : t \notin batch[<<s, LaneOf(t)>>]
  /\ row' = [row EXCEPT ![t] = "due"]
  /\ UNCHANGED <<attempts, begun, sweeping, lanes, faults>>

-----------------------------------------------------------------------------
(* collapsing() and drainAll().  What an await continues runs before any   *)
(* other event, so the end of a run and the start of its trailing one are  *)
(* one step, and a run that refuses to start ends in the step it began.    *)

StandsOnceMore(held) == Cardinality(held) <= MaxAbandoned

Stands(held) == Cardinality(held) < MaxAbandoned

(* The collapsed function runs: it refuses, or starts both lanes, each of  *)
(* which calls claimDue.  alive and held are the live and unsettled sweeps.*)
RunSweep(alive, held) ==
  IF Stands(held)
  THEN \E s \in Sweep \ alive :
         /\ 1 .. s - 1 \subseteq alive
         /\ current' = s
         /\ live' = alive \cup {s}
         /\ lane' = [h \in Sweep \X Lane |->
                       IF h[1] = s THEN "claiming" ELSE lane[h]]
         /\ batch' = [h \in Sweep \X Lane |-> IF h[1] = s THEN {} ELSE batch[h]]
         /\ handled' = [handled EXCEPT ![s] = 0]
  ELSE /\ current' = 0
       /\ live' = alive
       /\ UNCHANGED lanes

ContinueUnlessRejected(alive, held) ==
  IF alive # live
  THEN /\ trailing' = FALSE
       /\ IF trailing THEN RunSweep(alive, held)
          ELSE current' = 0 /\ live' = alive /\ UNCHANGED lanes
  ELSE current' = 0 /\ UNCHANGED <<live, trailing, lanes>>

(* What the caller of the active run does once it has settled, resolved or *)
(* rejected: it runs the trailing call if there is one.                    *)
Continue(alive, held) ==
  /\ trailing' = FALSE
  /\ IF trailing THEN RunSweep(alive, held)
     ELSE current' = 0 /\ live' = alive /\ UNCHANGED lanes

Poke ==
  /\ current = 0
  /\ RunSweep(live, unsettled)
  /\ UNCHANGED <<queue, begun, trailing, aborted, unsettled, faults>>

PokeDuringRun ==
  /\ current # 0
  /\ trailing' = TRUE
  /\ UNCHANGED <<queue, begun, current, live, aborted, unsettled, lanes, faults>>

(* Both lanes are over.  The active run ends with its sweep; an abandoned  *)
(* sweep only stops being held against the next.                           *)
SweepSettles(s) ==
  /\ s \in live
  /\ \A l \in Lane : lane[<<s, l>>] = "over"
  /\ aborted' = aborted \ {s}
  /\ unsettled' = unsettled \ {s}
  /\ IF current = s THEN Continue(live \ {s}, unsettled')
     ELSE live' = live \ {s} /\ UNCHANGED <<current, trailing, lanes>>
  /\ UNCHANGED <<queue, begun, faults>>

(* timeoutMs after the start: the signal aborts and the run rejects.       *)
Abandon ==
  /\ current # 0
  /\ aborted' = aborted \cup {current}
  /\ unsettled' = unsettled \cup {current}
  /\ Continue(live, unsettled')
  /\ UNCHANGED <<queue, begun, faults>>

ForgetSettled(s) ==
  /\ s \in unsettled \ live
  /\ unsettled' = unsettled \ {s}
  /\ UNCHANGED <<queue, begun, current, trailing, live, aborted, lanes, faults>>

(* abandonGraceMs after it was abandoned.                                  *)
Forget(s) ==
  /\ s \in unsettled
  /\ unsettled' = unsettled \ {s}
  /\ UNCHANGED <<queue, begun, current, trailing, live, aborted, lanes, faults>>

-----------------------------------------------------------------------------
(* The lanes.  A lane that waits for no query moves in the step that lets  *)
(* it: all the rows of one claim fit the lane's concurrency.               *)

Due(l) == {t \in Task : /\ row[t] = "due" /\ LaneOf(t) = l
                        /\ attempts[t] < MaxAttempts}

MostRows(s, l) ==
  IF l = "visible" THEN Min({Batch, VisibleBatch - handled[s]}) ELSE Batch

(* The database answers claimDue; the lane has not resumed.                *)
Claim(s, l) ==
  /\ s \in live /\ lane[<<s, l>>] = "claiming" /\ <<s, l>> \notin stuck
  /\ \E rows \in SUBSET Due(l) :
       /\ Cardinality(rows) = Min({Cardinality(Due(l)), MostRows(s, l)})
       /\ row' = [t \in Task |-> IF t \in rows THEN "leased" ELSE row[t]]
       /\ attempts' = [t \in Task |->
                         IF t \in rows THEN attempts[t] + 1 ELSE attempts[t]]
       /\ batch' = [batch EXCEPT ![<<s, l>>] = rows]
  /\ lane' = [lane EXCEPT ![<<s, l>>] = "claimed"]
  /\ UNCHANGED <<begun, sweeping, handled, faults>>

BeginsWhatItClaimed(s, l) == batch[<<s, l>>] # {}

(* The lane sees what it claimed: it begins all of it or, once aborted,    *)
(* nothing.  Nothing claimed ends the lane.                                *)
Begins(s, l) == s \notin aborted /\ batch[<<s, l>>] # {}

Take(s, l) ==
  /\ s \in live /\ lane[<<s, l>>] = "claimed" /\ <<s, l>> \notin stuck
  /\ IF Begins(s, l)
     THEN /\ begun' = begun \cup batch[<<s, l>>]
          /\ lane' = [lane EXCEPT ![<<s, l>>] = "working"]
          /\ UNCHANGED batch
     ELSE /\ lane' = [lane EXCEPT ![<<s, l>>] = "over"]
          /\ batch' = [batch EXCEPT ![<<s, l>>] = {}]
          /\ UNCHANGED begun
  /\ handled' = IF l = "visible"
                THEN [handled EXCEPT ![s] = @ + Cardinality(batch[<<s, l>>])]
                ELSE handled
  /\ UNCHANGED <<queue, sweeping, faults>>

(* The visible lane claims again unless aborted or at VISIBLE_BATCH.       *)
ClaimsAgain(s, l) ==
  l = "visible" /\ s \notin aborted /\ handled[s] < VisibleBatch

(* settledWithin: the handler or the send settles, or its time is up; the  *)
(* lane moves on when it waits for none.                                   *)
StopWaiting(s, l, t) ==
  /\ s \in live /\ lane[<<s, l>>] = "working" /\ <<s, l>> \notin stuck
  /\ t \in batch[<<s, l>>]
  /\ batch' = [batch EXCEPT ![<<s, l>>] = @ \ {t}]
  /\ lane' = [lane EXCEPT ![<<s, l>>] =
                IF batch[<<s, l>>] # {t} THEN "working"
                ELSE IF ClaimsAgain(s, l) THEN "claiming" ELSE "over"]
  /\ UNCHANGED <<queue, begun, sweeping, handled, faults>>

-----------------------------------------------------------------------------
(* Faults: a query that never returns (one that returns late is a step     *)
(* taken late), and the process that loses all but the rows.               *)

Stall(s, l) ==
  /\ s \in live /\ lane[<<s, l>>] # "over" /\ <<s, l>> \notin stuck
  /\ stalls < MaxStalls
  /\ stuck' = stuck \cup {<<s, l>>}
  /\ stalls' = stalls + 1
  /\ UNCHANGED <<queue, begun, sweeping, lanes, restarts>>

Restart ==
  /\ restarts < MaxRestarts
  /\ restarts' = restarts + 1
  /\ current' = 0 /\ trailing' = FALSE
  /\ live' = {} /\ aborted' = {} /\ unsettled' = {}
  /\ lane' = [h \in Sweep \X Lane |-> "over"]
  /\ batch' = [h \in Sweep \X Lane |-> {}]
  /\ handled' = [s \in Sweep |-> 0]
  /\ stuck' = {}
  /\ UNCHANGED <<queue, begun, stalls>>

-----------------------------------------------------------------------------
Next ==
  \/ \E t \in Task : Commit(t) \/ Close(t) \/ LeaseLapses(t)
  \/ Poke \/ PokeDuringRun \/ Abandon \/ Restart
  \/ \E s \in Sweep : SweepSettles(s) \/ Forget(s)
  \/ \E s \in Sweep, l \in Lane :
       \/ Claim(s, l) \/ Take(s, l) \/ Stall(s, l)
       \/ \E t \in Task : StopWaiting(s, l, t)

Spec == Init /\ [][Next]_vars

(* The schedule pokes every minute whatever came of the last minute, the   *)
(* timers fire, and a query that is not stuck answers.  Nothing promises   *)
(* that a handler closes its row or that the API's pokes arrive.           *)
Fairness ==
  /\ WF_vars(Poke) /\ WF_vars(Abandon)
  /\ \A s \in Sweep :
       /\ WF_vars(SweepSettles(s)) /\ WF_vars(Forget(s))
       /\ \A l \in Lane :
            /\ WF_vars(Claim(s, l)) /\ WF_vars(Take(s, l))
            /\ \A t \in Task : WF_vars(StopWaiting(s, l, t))
  /\ \A t \in Task : WF_vars(LeaseLapses(t))

FairSpec == Spec /\ Fairness

-----------------------------------------------------------------------------
(* A poke that arrived during a run is answered by a run after it, also    *)
(* when that run was abandoned: none is left waiting beside an idle queue. *)
PokeIsAnswered == trailing => current # 0

(* One sweep works the queue: an abandoned one that has neither settled    *)
(* nor been forgotten keeps the next from starting (maxAbandoned is 1).    *)
Counted == unsettled \cup ({current} \ {0})
OneSweepCounted == Cardinality(Counted) <= MaxAbandoned

(* A sweep begins no task once it is abandoned, also when the claim it was *)
(* waiting for then returns rows.                                          *)
Working(s) == {t \in Task : \E l \in Lane :
                               lane[<<s, l>>] = "working" /\ t \in batch[<<s, l>>]}
AbandonedBeginsNothing ==
  [][\A s \in aborted \cap live' : Working(s)' \subseteq Working(s)]_vars

(* A due task is begun, unless sweeps that were abandoned between claiming *)
(* it and beginning it used up its attempts: a sweep that hangs for ever   *)
(* stops the queue for its grace period and no longer.                     *)
DueTaskBegins ==
  \A t \in Task :
    row[t] = "due" ~> (t \in begun \/ attempts[t] = MaxAttempts)

(* docs/agent.md says of an abandoned sweep that it leaves unsettledSweeps *)
(* only when it truly settles, and that until then a new sweep is refused  *)
(* rather than stacked on top of stuck work.  The code forgets the sweep   *)
(* after its grace period, settled or not, and falls short of it.          *)
RefusedRatherThanStacked == Cardinality(live) <= 1
=============================================================================
