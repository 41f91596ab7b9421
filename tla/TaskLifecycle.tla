---------------------------- MODULE TaskLifecycle ----------------------------
(***************************************************************************)
(* What the work queue promises of its rows, whoever writes them: a row is *)
(* opened once; it is claimed while it has no live lease, MaxAttempts      *)
(* times at most; work ends only a row that was claimed; and what nobody   *)
(* works is cleared away, for worn out only after its last attempt, and    *)
(* never under a live lease.  A row's first end is its last state.         *)
(* AgentTasks implements it.                                               *)
(***************************************************************************)
EXTENDS Naturals

CONSTANTS Task, MaxAttempts

VARIABLES state, tries, leased, outcome

vars == <<state, tries, leased, outcome>>

ByWork  == {"ran", "stopped", "direct"}
Cleared == {"landed", "untargeted", "retired"}

Init ==
  /\ state = [t \in Task |-> "absent"] /\ tries = [t \in Task |-> 0]
  /\ leased = {} /\ outcome = [t \in Task |-> "none"]

OpenRow(t) ==
  /\ state[t] = "absent"
  /\ state' = [state EXCEPT ![t] = "open"]
  /\ UNCHANGED <<tries, leased, outcome>>

(* A lane claims several rows at once.                                     *)
Claim(S) ==
  /\ \A t \in S : state[t] = "open" /\ t \notin leased /\ tries[t] < MaxAttempts
  /\ tries' = [t \in Task |-> IF t \in S THEN tries[t] + 1 ELSE tries[t]]
  /\ leased' = leased \cup S
  /\ UNCHANGED <<state, outcome>>

Expire(t) ==
  /\ leased' = leased \ {t}
  /\ UNCHANGED <<state, tries, outcome>>

(* The work of any of a row's claims may end it, also after its lease.     *)
Finish(t, o) ==
  /\ state[t] = "open" /\ tries[t] > 0
  /\ state' = [state EXCEPT ![t] = "finished"]
  /\ outcome' = [outcome EXCEPT ![t] = o]
  /\ leased' = leased \ {t}
  /\ UNCHANGED tries

(* A sweep clears several rows at once, each for its own reason.           *)
Clear(why) ==
  /\ \A t \in DOMAIN why :
       /\ state[t] = "open" /\ t \notin leased
       /\ why[t] = "landed" => tries[t] > 0
       /\ why[t] = "retired" => tries[t] = MaxAttempts
  /\ state' = [t \in Task |-> IF t \in DOMAIN why THEN "finished" ELSE state[t]]
  /\ outcome' = [t \in Task |-> IF t \in DOMAIN why THEN why[t] ELSE outcome[t]]
  /\ UNCHANGED <<tries, leased>>

Next ==
  \/ \E t \in Task : OpenRow(t) \/ Expire(t) \/ \E o \in ByWork : Finish(t, o)
  \/ \E S \in SUBSET Task : Claim(S) \/ \E why \in [S -> Cleared] : Clear(why)

Spec == Init /\ [][Next]_vars
=============================================================================
