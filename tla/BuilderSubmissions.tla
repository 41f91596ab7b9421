-------------------------- MODULE BuilderSubmissions --------------------------
(***************************************************************************)
(* One builder conversation: the API stores what a person submits and      *)
(* answers (conversations.service.ts), dispatchers hand the submissions to *)
(* the conversation's session one at a time and recover those whose send   *)
(* never settled (custom-agent-dispatch.ts), and the session's events link *)
(* it, show its questions and open the conversation for the next message   *)
(* (hooks/audit.ts, builder-input.ts, channels/crm.ts).                    *)
(*                                                                         *)
(* Every statement of this code names one conversation, so one is          *)
(* modelled.  Submissions are numbered in the order they were created,     *)
(* questions in the order their session asked them (sequence, stepIndex).  *)
(* A restart of the agent process is sends that never settle.              *)
(***************************************************************************)
EXTENDS Naturals, FiniteSets

CONSTANTS
  MaxSubmissions, \* bound on the submissions of the conversation
  MaxQuestions,   \* bound on the questions its session asks
  MaxAttempts,    \* DISPATCH.builder.maxAttempts
  MaxTurns        \* bound on the deliveries that reach the session

ASSUME ConstantsAssumption ==
  /\ MaxSubmissions \in Nat \ {0}
  /\ MaxQuestions \in Nat
  /\ MaxAttempts \in Nat \ {0}
  /\ MaxTurns \in Nat

Submission == 1 .. MaxSubmissions
Question   == 1 .. MaxQuestions

(* An attempt that settles late is answered by one more delivery.          *)
MostTries == 2 * MaxAttempts - 1
Attempt   == 1 .. MostTries
Delivery  == Submission \X Attempt

VARIABLES
  present,   \* the conversation has not been removed
  linked,    \* its sessionId is set
  open,      \* its continuationToken is set: the session takes a message
  question,  \* its pendingInputRequest; 0 for none
  recorded,  \* the newest question on record; 0 for none
  status,    \* of each submission
  tries,     \* attemptCount of each submission
  answers,   \* the question a submission answers; 0 for none
  checked,   \* the questions some client's answer has been checked against
  sending,   \* the deliveries whose send has not settled
  turn,      \* what the session does with each delivery
  opened,    \* the runtime's session: none, opened, reported to the hook
  asked,     \* how many questions the session has asked
  overruled  \* submissions a send that threw changed after its own lease

vars == <<present, linked, open, question, recorded, status, tries,
          answers, checked, sending, turn, opened, asked, overruled>>
conversation == <<present, linked, open, question, recorded>>
rows         == <<status, tries, answers>>
runtime      == <<sending, turn, opened, asked>>

Status == {"absent", "PENDING", "SENDING", "ACCEPTED", "FAILED"}
Turn   == {"none", "given", "working", "over"}

(* Types; no submission is delivered more than MostTries times.            *)
TypeOK ==
  /\ present \in BOOLEAN /\ linked \in BOOLEAN /\ open \in BOOLEAN
  /\ question \in 0 .. MaxQuestions /\ recorded \in 0 .. MaxQuestions
  /\ status \in [Submission -> Status]
  /\ tries \in [Submission -> 0 .. MostTries]
  /\ answers \in [Submission -> 0 .. MaxQuestions]
  /\ checked \subseteq Question
  /\ sending \subseteq Delivery
  /\ turn \in [Delivery -> Turn]
  /\ opened \in {"none", "opened", "reported"}
  /\ asked \in 0 .. MaxQuestions
  /\ overruled \subseteq Submission

(* createBuilder stores the conversation with its first submission.        *)
Init ==
  /\ present = TRUE /\ linked = FALSE /\ open = FALSE
  /\ question = 0 /\ recorded = 0
  /\ status = [s \in Submission |-> IF s = 1 THEN "PENDING" ELSE "absent"]
  /\ tries = [s \in Submission |-> 0]
  /\ answers = [s \in Submission |-> 0]
  /\ checked = {}
  /\ sending = {}
  /\ turn = [d \in Delivery |-> "none"]
  /\ opened = "none"
  /\ asked = 0
  /\ overruled = {}

-----------------------------------------------------------------------------
(* The API.                                                                *)

NextNumber(s) == status[s] = "absent" /\ \A t \in 1 .. s - 1 : status[t] # "absent"

Create(s, q) ==
  /\ NextNumber(s)
  /\ status' = [status EXCEPT ![s] = "PENDING"]
  /\ answers' = [answers EXCEPT ![s] = q]
  /\ UNCHANGED <<conversation, tries, checked, runtime, overruled>>

SubmitBuilder(s) == Create(s, 0)

(* answerBuilderQuestion reads the conversation, and inserts the answer    *)
(* later, whatever the conversation has become.                            *)
CheckAnswer(q) ==
  /\ linked /\ open /\ question = q
  /\ checked' = checked \cup {q}
  /\ UNCHANGED <<conversation, rows, runtime, overruled>>

Answered(q) == \E s \in Submission : answers[s] = q

(* The unique index on (conversationId, inputRequestId).                   *)
InsertAnswer(s, q) ==
  /\ q \in checked /\ ~Answered(q)
  /\ Create(s, q)

(* The rows, questions and events of the conversation go with it.  What is *)
(* under way finds no row from here on, so the model ends with it.         *)
Remove ==
  /\ present' = FALSE
  /\ linked' = FALSE /\ open' = FALSE /\ question' = 0 /\ recorded' = 0
  /\ status' = [s \in Submission |-> "absent"]
  /\ answers' = [s \in Submission |-> 0]
  /\ checked' = {}
  /\ sending' = {} /\ turn' = [d \in Delivery |-> "none"]
  /\ UNCHANGED <<tries, opened, asked, overruled>>

-----------------------------------------------------------------------------
(* Dispatch.                                                               *)

Sending(s) == status[s] = "SENDING"

(* Fault: the claim does not look for a submission already under way.      *)
ClaimableBeside(s) ==
  /\ status[s] = "PENDING" /\ (linked => open)
  /\ \A t \in 1 .. s - 1 : status[t] # "PENDING"

(* Fault: the claim takes any pending submission.                          *)
ClaimableAnyOrder(s) ==
  /\ status[s] = "PENDING" /\ (linked => open)
  /\ \A t \in Submission : ~Sending(t)

Claimable(s) ==
  /\ status[s] = "PENDING" /\ (linked => open)
  /\ \A t \in Submission : ~Sending(t)
  /\ \A t \in 1 .. s - 1 : status[t] # "PENDING"

(* The claim of dispatchBuilderSubmission, under the conversation's lock.  *)
Claim(s) ==
  /\ Claimable(s)
  /\ status' = [status EXCEPT ![s] = "SENDING"]
  /\ tries' = [tries EXCEPT ![s] = @ + 1]
  /\ open' = FALSE
  /\ sending' = sending \cup {<<s, tries[s] + 1>>}
  /\ UNCHANGED <<present, linked, question, recorded, answers, checked, turn,
                 opened, asked, overruled>>

(* The runtime takes the message, into the session of the conversation.    *)
SendLands(d) ==
  /\ d \in sending /\ turn[d] = "none"
  /\ Cardinality({e \in Delivery : turn[e] # "none"}) < MaxTurns
  /\ turn' = [turn EXCEPT ![d] = "given"]
  /\ opened' = IF opened = "none" THEN "opened" ELSE opened
  /\ UNCHANGED <<conversation, rows, checked, sending, asked, overruled>>

(* Fault: the question stays up when the message that answers it is taken. *)
QuestionOnAcceptKept == question

QuestionOnAccept == 0

Accept(s) ==
  /\ status' = [status EXCEPT ![s] = "ACCEPTED"]
  /\ question' = QuestionOnAccept

(* The send resolves, at once or minutes later.                            *)
SendResolves(s, k) ==
  /\ <<s, k>> \in sending /\ turn[<<s, k>>] # "none"
  /\ sending' = sending \ {<<s, k>>}
  /\ Accept(s)
  /\ linked' = TRUE
  /\ UNCHANGED <<present, open, recorded, tries, answers, checked, turn,
                 opened, asked, overruled>>

(* A try that failed is repeated while it was one of the first MaxAttempts.*)
AfterFailure(k) == IF k < MaxAttempts THEN "PENDING" ELSE "FAILED"

(* The send throws.  The update of the row names the submission only.      *)
SendRejects(s, k) ==
  /\ <<s, k>> \in sending
  /\ sending' = sending \ {<<s, k>>}
  /\ status' = [status EXCEPT ![s] = AfterFailure(k)]
  /\ open' = TRUE
  /\ overruled' = IF ~(Sending(s) /\ tries[s] = k)
                  THEN overruled \cup {s} ELSE overruled
  /\ UNCHANGED <<present, linked, question, recorded, tries, answers,
                 checked, turn, opened, asked>>

(* Fault: a submission on its last attempt is not recovered.               *)
RecoverableWhileTries(s) == Sending(s) /\ tries[s] < MaxAttempts

Recoverable(s) == Sending(s)

(* recoverBuilderSubmissions, at the start of every pass: the lease of a   *)
(* send may run out at any time before the send settles.                   *)
Recover(s) ==
  /\ Recoverable(s)
  /\ status' = [status EXCEPT ![s] = AfterFailure(tries[s])]
  /\ open' = TRUE
  /\ UNCHANGED <<present, linked, question, recorded, tries, answers,
                 checked, runtime, overruled>>

-----------------------------------------------------------------------------
(* What the session reports.  Its events come in the order of its turns.   *)

(* persistBuilderLifecycle on session.started.  The hook swallows errors.  *)
SessionStarted ==
  /\ opened = "opened" /\ opened' = "reported"
  /\ \/ linked' = TRUE /\ open' = FALSE
     \/ UNCHANGED <<linked, open>>
  /\ UNCHANGED <<present, question, recorded, rows, checked, sending, turn,
                 asked, overruled>>

Working == {d \in Delivery : turn[d] = "working"}

(* ... and on message.received: the turn of this delivery begins.          *)
MessageReceived(d) ==
  /\ opened = "reported" /\ turn[d] = "given" /\ Working = {}
  /\ turn' = [turn EXCEPT ![d] = "working"]
  /\ \/ Accept(d[1])
     \/ UNCHANGED <<status, question>>
  /\ UNCHANGED <<present, linked, open, recorded, tries, answers,
                 checked, sending, opened, asked, overruled>>

Ask ==
  /\ Working # {} /\ asked < MaxQuestions
  /\ asked' = asked + 1
  /\ UNCHANGED <<conversation, rows, checked, sending, turn, opened, overruled>>

(* Fault: a question is shown whenever its event arrives.                  *)
SupersedesAny(q) == TRUE

(* Neither a replay nor older than the newest question on record.          *)
Supersedes(q) == q > recorded

(* persistBuilderInputRequest, of an event that may come late or again.    *)
InputRequested(q) ==
  /\ q <= asked /\ linked /\ Supersedes(q)
  /\ recorded' = q /\ question' = q /\ open' = TRUE
  /\ UNCHANGED <<present, linked, rows, checked, runtime, overruled>>

TurnEnds(d) ==
  /\ turn[d] = "working"
  /\ turn' = [turn EXCEPT ![d] = "over"]
  /\ UNCHANGED <<present, linked, recorded, rows, checked, sending, opened,
                 asked, overruled>>

SessionWaiting(d) == TurnEnds(d) /\ open' = TRUE /\ UNCHANGED question

(* turn.failed, turn.cancelled and session.failed.                         *)
TurnFailed(d) == TurnEnds(d) /\ open' = TRUE /\ question' = 0

(* session.completed leaves the conversation closed.                       *)
SessionCompleted(d) == TurnEnds(d) /\ question' = 0 /\ UNCHANGED open

(* The runtime loses the turn: no event tells.                             *)
TurnVanishes(d) ==
  /\ turn[d] \in {"given", "working"}
  /\ turn' = [turn EXCEPT ![d] = "over"]
  /\ UNCHANGED <<conversation, rows, checked, sending, opened, asked, overruled>>

-----------------------------------------------------------------------------
Clients(s)    == SubmitBuilder(s) \/ \E q \in Question : InsertAnswer(s, q)
Dispatch(s)   == Claim(s) \/ Recover(s)
Settles(d)    == SendResolves(d[1], d[2]) \/ SendRejects(d[1], d[2])
TurnEvents(d) == \/ MessageReceived(d) \/ SessionWaiting(d) \/ TurnFailed(d)
                 \/ SessionCompleted(d) \/ TurnVanishes(d)

Next ==
  /\ present
  /\ \/ \E s \in Submission : Clients(s) \/ Dispatch(s)
     \/ \E q \in Question : CheckAnswer(q) \/ InputRequested(q)
     \/ \E d \in Delivery : SendLands(d) \/ Settles(d) \/ TurnEvents(d)
     \/ SessionStarted \/ Ask \/ Remove

Spec == Init /\ [][Next]_vars

(* Every tick recovers and claims, and time passes.  Nothing is assumed of *)
(* a send, a session or a person.                                          *)
Fairness ==
  /\ WF_vars(\E s \in Submission : Claim(s))
  /\ \A s \in Submission : WF_vars(Recover(s))

FairSpec == Spec /\ Fairness

-----------------------------------------------------------------------------
(* At most one submission of a conversation is under delivery, whatever    *)
(* sends settle late and whatever the recovery returns to the queue.       *)
OneUnderWay ==
  \A s, t \in Submission : Sending(s) /\ Sending(t) => s = t

(* A question whose answer the session has taken is not asked again: no    *)
(* replayed or late event puts it back up.                                 *)
AnsweredIsNotAsked ==
  \A s \in Submission :
    answers[s] # 0 /\ status[s] = "ACCEPTED" => question # answers[s]

(* A message is sent after a later one only when a send of it threw after  *)
(* its lease, over a row that had moved on.                                *)
OrderUnlessOverruled ==
  [][\A s, t \in Submission :
       s < t /\ tries'[s] > tries[s] /\ tries[t] > 0 => s \in overruled]_tries

(* Messages of a conversation are delivered in its order.  The code falls  *)
(* short of it: a send that throws after its lease returns a message to    *)
(* the queue whose successor was sent meanwhile.                           *)
DeliveredInOrder ==
  [][\A s, t \in Submission :
       s < t /\ tries'[s] > tries[s] => tries[t] = 0]_tries

(* As long as the session keeps opening the conversation, or has not taken *)
(* it, every message ends accepted or failed: sends that never settle,     *)
(* throw late or die with the process are recovered, and not for ever.     *)
Waiting(s) == status[s] \in {"PENDING", "SENDING"}
Closed     == linked /\ ~open

EveryMessageEnds ==
  []<>~Closed => \A s \in Submission : Waiting(s) ~> ~Waiting(s)
=============================================================================
