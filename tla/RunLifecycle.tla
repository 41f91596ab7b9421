---------------------------- MODULE RunLifecycle ----------------------------
(***************************************************************************)
(* What the run of a team agent promises, whoever writes its row: it is    *)
(* queued once, it may go back to the queue only while no session is       *)
(* linked to it, it succeeds only from RUNNING, and its first end is its   *)
(* last state.  AgentRuns implements it.                                   *)
(***************************************************************************)
CONSTANT Run

VARIABLES state, linked

vars == <<state, linked>>

Ends   == {"SUCCEEDED", "FAILED", "CANCELLED"}
Status == {"absent", "QUEUED", "RUNNING"} \cup Ends

Init ==
  /\ state = [r \in Run |-> "absent"]
  /\ linked = [r \in Run |-> FALSE]

Queue(r) ==
  /\ state[r] = "absent"
  /\ state' = [state EXCEPT ![r] = "QUEUED"]
  /\ UNCHANGED linked

Start(r) ==
  /\ state[r] = "QUEUED"
  /\ state' = [state EXCEPT ![r] = "RUNNING"]
  /\ linked' \in {linked, [linked EXCEPT ![r] = TRUE]}

Link(r) ==
  /\ state[r] = "RUNNING"
  /\ linked' = [linked EXCEPT ![r] = TRUE]
  /\ UNCHANGED state

Redeliver(r) ==
  /\ state[r] = "RUNNING" /\ ~linked[r]
  /\ state' = [state EXCEPT ![r] = "QUEUED"]
  /\ UNCHANGED linked

Succeed(r) ==
  /\ state[r] = "RUNNING"
  /\ state' = [state EXCEPT ![r] = "SUCCEEDED"]
  /\ UNCHANGED linked

Fail(r) ==
  /\ state[r] \in {"QUEUED", "RUNNING"}
  /\ state' = [state EXCEPT ![r] = "FAILED"]
  /\ UNCHANGED linked

(* Deleting the agent cancels several runs at once.                        *)
Cancel(S) ==
  /\ \A r \in S : state[r] \in {"QUEUED", "RUNNING"}
  /\ state' = [r \in Run |-> IF r \in S THEN "CANCELLED" ELSE state[r]]
  /\ UNCHANGED linked

Next ==
  \/ \E r \in Run :
       Queue(r) \/ Start(r) \/ Link(r) \/ Redeliver(r) \/ Succeed(r) \/ Fail(r)
  \/ \E S \in SUBSET Run : Cancel(S)

Spec == Init /\ [][Next]_vars
=============================================================================
