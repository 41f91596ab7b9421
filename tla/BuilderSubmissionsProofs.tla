---------------------- MODULE BuilderSubmissionsProofs ----------------------
(***************************************************************************)
(* Theorems about BuilderSubmissions for any number of submissions,        *)
(* questions, attempts and turns.                                          *)
(***************************************************************************)
EXTENDS BuilderSubmissions, FiniteSetTheorems, TLAPS

(* The question on show is the newest on record, and nobody answers a      *)
(* newer one.                                                              *)
QuestionsRecorded ==
  /\ question \in {0, recorded}
  /\ \A q \in checked : q <= recorded
  /\ \A s \in Submission : answers[s] <= recorded

(* A delivery was made by a claim of its submission.                       *)
DeliveriesTried ==
  \A s \in Submission, k \in Attempt :
    <<s, k>> \in sending \/ turn[<<s, k>>] # "none" => k <= tries[s]

(* A submission is tried beyond MaxAttempts only for sends that settled.   *)
Spent(s) == {k \in 1 .. MaxAttempts - 1 : k <= tries[s] /\ <<s, k>> \notin sending}
Load(s)  == tries[s] + (IF status[s] = "PENDING" THEN 1 ELSE 0)
WithinTries ==
  \A s \in Submission : Load(s) <= MaxAttempts + Cardinality(Spent(s))

(* Submissions are created in order, and none is tried before.             *)
CreatedInOrder ==
  present =>
    /\ \A s \in Submission : status[s] = "absent" => tries[s] = 0
    /\ \A s, t \in Submission :
         s < t /\ status[s] = "absent" => status[t] = "absent"

(* One that waits although a later one was tried was overruled.            *)
LaterOverruled ==
  \A s, t \in Submission :
    s < t /\ tries[t] > 0 /\ Waiting(s) => s \in overruled

IInv ==
  /\ TypeOK
  /\ QuestionsRecorded
  /\ AnsweredIsNotAsked
  /\ OneUnderWay
  /\ DeliveriesTried
  /\ WithinTries
  /\ CreatedInOrder
  /\ LaterOverruled

USE DEF Submission, Question, Attempt, Delivery, MostTries, Status, Turn

LEMMA Types ==
  ASSUME IInv
  PROVE  /\ present \in BOOLEAN /\ linked \in BOOLEAN /\ open \in BOOLEAN
         /\ question \in 0 .. MaxQuestions /\ recorded \in 0 .. MaxQuestions
         /\ status \in [Submission -> Status]
         /\ tries \in [Submission -> 0 .. MostTries]
         /\ answers \in [Submission -> 0 .. MaxQuestions]
         /\ checked \subseteq Question
         /\ sending \subseteq Delivery
         /\ turn \in [Delivery -> Turn]
         /\ opened \in {"none", "opened", "reported"}
         /\ asked \in 0 .. MaxQuestions
         /\ overruled \subseteq Submission
BY DEF IInv, TypeOK

LEMMA SpentFinite ==
  ASSUME NEW S \in SUBSET (1 .. MaxAttempts - 1)
  PROVE  IsFiniteSet(S) /\ Cardinality(S) \in Nat /\ Cardinality(S) <= MaxAttempts - 1
<1> USE ConstantsAssumption
<1>1. IsFiniteSet(1 .. MaxAttempts - 1)
      /\ Cardinality(1 .. MaxAttempts - 1) = MaxAttempts - 1
  <2>1. 1 \in Int /\ MaxAttempts - 1 \in Int
    OBVIOUS
  <2>2. /\ IsFiniteSet(1 .. MaxAttempts - 1)
        /\ Cardinality(1 .. MaxAttempts - 1) =
             IF 1 > MaxAttempts - 1 THEN 0 ELSE (MaxAttempts - 1) - 1 + 1
    BY <2>1, FS_Interval
  <2> QED BY <2>2
<1>2. IsFiniteSet(S) /\ Cardinality(S) <= MaxAttempts - 1
  BY <1>1, FS_Subset
<1> QED BY <1>2, FS_CardinalityType

LEMMA SpentGrows ==
  ASSUME NEW S \in SUBSET (1 .. MaxAttempts - 1), NEW T \in SUBSET S
  PROVE  Cardinality(T) <= Cardinality(S)
BY SpentFinite, FS_Subset

LEMMA SpentMore ==
  ASSUME NEW S \in SUBSET (1 .. MaxAttempts - 1), NEW k, k \notin S
  PROVE  Cardinality(S \cup {k}) = Cardinality(S) + 1
BY SpentFinite, FS_AddElement

LEMMA InitEstablishes == Init => IInv
<1> SUFFICES ASSUME Init PROVE IInv
  OBVIOUS
<1> USE ConstantsAssumption DEF Init
<1>1. 0 \in 0 .. MaxQuestions /\ 0 \in 0 .. MostTries
  OBVIOUS
<1>2. /\ tries \in [Submission -> 0 .. MostTries]
      /\ answers \in [Submission -> 0 .. MaxQuestions]
  BY <1>1
<1>3. status \in [Submission -> Status] /\ turn \in [Delivery -> Turn]
  OBVIOUS
<1>4. TypeOK
  BY <1>1, <1>2, <1>3 DEF TypeOK
<1>5. QuestionsRecorded /\ AnsweredIsNotAsked
  BY DEF QuestionsRecorded, AnsweredIsNotAsked
<1>6. OneUnderWay /\ DeliveriesTried
  <2>1. \A s \in Submission, k \in Attempt : <<s, k>> \in Delivery
    OBVIOUS
  <2> QED BY <2>1 DEF OneUnderWay, DeliveriesTried, Sending
<1>7. WithinTries
  <2> SUFFICES ASSUME NEW s \in Submission
               PROVE  Load(s) <= MaxAttempts + Cardinality(Spent(s))
    BY DEF WithinTries
  <2>1. Cardinality(Spent(s)) \in Nat
    BY SpentFinite DEF Spent
  <2>2. Load(s) \in 0 .. 1
    BY DEF Load
  <2> QED BY <2>1, <2>2
<1>8. CreatedInOrder /\ LaterOverruled
  BY DEF CreatedInOrder, LaterOverruled
<1> QED BY <1>4, <1>5, <1>6, <1>7, <1>8 DEF IInv

-----------------------------------------------------------------------------
(* Kinds of steps.                                                         *)

RowsFit ==
  OneUnderWay /\ DeliveriesTried /\ WithinTries /\ CreatedInOrder /\ LaterOverruled

(* The submissions and their sends stay as they are.                       *)
LEMMA RowsSame ==
  ASSUME IInv, UNCHANGED <<present, status, tries, sending, overruled>>,
         \A s \in Submission, k \in Attempt :
           turn'[<<s, k>>] # "none" => <<s, k>> \in sending \/ turn[<<s, k>>] # "none"
  PROVE  RowsFit'
<1>1. OneUnderWay'
  BY DEF IInv, OneUnderWay, Sending
<1>2. DeliveriesTried'
  BY DEF IInv, DeliveriesTried
<1>3. WithinTries'
  BY DEF IInv, WithinTries, Load, Spent
<1>4. CreatedInOrder' /\ LaterOverruled'
  BY DEF IInv, CreatedInOrder, LaterOverruled, Waiting
<1> QED BY <1>1, <1>2, <1>3, <1>4 DEF RowsFit

(* A submission's status moves, and perhaps a send of it settles; one that *)
(* returns to the queue was under way, or is overruled.                    *)
LEMMA StatusMoves ==
  ASSUME IInv, NEW s \in Submission, NEW st \in {"PENDING", "ACCEPTED", "FAILED"},
         status' = [status EXCEPT ![s] = st], status[s] # "absent",
         UNCHANGED <<present, tries>>,
         sending' \subseteq sending, overruled \subseteq overruled',
         \A t \in Submission, k \in Attempt :
           turn'[<<t, k>>] # "none" => turn[<<t, k>>] # "none",
         st = "PENDING" => Sending(s) \/ s \in overruled',
         st = "PENDING" => tries[s] + 1 <= MaxAttempts + Cardinality(Spent(s)')
  PROVE  RowsFit' /\ status' \in [Submission -> Status]
<1> USE ConstantsAssumption
<1>1. /\ status \in [Submission -> Status]
      /\ tries \in [Submission -> 0 .. MostTries]
  BY Types
<1>2. \A t \in Submission : status'[t] = IF t = s THEN st ELSE status[t]
  BY <1>1
<1>3. OneUnderWay'
  BY <1>2 DEF IInv, OneUnderWay, Sending
<1>4. DeliveriesTried'
  BY DEF IInv, DeliveriesTried
<1>5. WithinTries'
  <2> SUFFICES ASSUME NEW t \in Submission
               PROVE  Load(t)' <= MaxAttempts + Cardinality(Spent(t)')
    BY DEF WithinTries
  <2>1. Load(t) <= MaxAttempts + Cardinality(Spent(t))
    BY DEF IInv, WithinTries
  <2>2. /\ Spent(t)' \in SUBSET (1 .. MaxAttempts - 1)
        /\ Spent(t) \in SUBSET (Spent(t)')
    BY DEF Spent
  <2>3. /\ Cardinality(Spent(t)) <= Cardinality(Spent(t)')
        /\ Cardinality(Spent(t)) \in Nat /\ Cardinality(Spent(t)') \in Nat
    BY <2>2, SpentGrows, SpentFinite
  <2>4. tries[t] \in Nat /\ tries'[t] = tries[t]
    BY <1>1
  <2>5. CASE t = s /\ st = "PENDING"
    <3>1. Load(t)' = tries[t] + 1
      BY <1>2, <2>5 DEF Load
    <3> QED BY <2>5, <3>1
  <2>6. CASE ~ (t = s /\ st = "PENDING")
    <3>1. Load(t)' <= Load(t) /\ Load(t) \in Nat /\ Load(t)' \in Nat
      BY <1>2, <2>4, <2>6 DEF Load
    <3> QED BY <2>1, <2>3, <3>1
  <2> QED BY <2>5, <2>6
<1>6. CreatedInOrder'
  <2>1. \A t \in Submission : status'[t] = "absent" <=> status[t] = "absent"
    BY <1>2
  <2> QED BY <2>1 DEF IInv, CreatedInOrder
<1>7. LaterOverruled'
  <2> SUFFICES ASSUME NEW t \in Submission, NEW u \in Submission,
                      t < u, tries[u] > 0, Waiting(t)'
               PROVE  t \in overruled'
    BY DEF LaterOverruled
  <2>1. Waiting(t) => t \in overruled
    BY DEF IInv, LaterOverruled
  <2>2. CASE t = s
    BY <1>2, <2>1, <2>2 DEF Waiting, Sending
  <2>3. CASE t # s
    BY <1>2, <2>1, <2>3 DEF Waiting
  <2> QED BY <2>2, <2>3
<1>8. status' \in [Submission -> Status]
  BY <1>1
<1> QED BY <1>3, <1>4, <1>5, <1>6, <1>7, <1>8 DEF RowsFit

(* A delivery's submission exists.                                         *)
LEMMA DeliveredExists ==
  ASSUME IInv, present, NEW s \in Submission, NEW k \in Attempt,
         <<s, k>> \in sending \/ turn[<<s, k>>] # "none"
  PROVE  status[s] # "absent" /\ k <= tries[s]
<1>1. k <= tries[s]
  BY DEF IInv, DeliveriesTried
<1>2. tries[s] # 0
  BY <1>1, Types, ConstantsAssumption
<1> QED BY <1>1, <1>2 DEF IInv, CreatedInOrder

(* Accepting a message takes the question down.                            *)
LEMMA AcceptKeepsQuestions ==
  ASSUME IInv, question' = 0, UNCHANGED <<recorded, answers, checked>>
  PROVE  QuestionsRecorded' /\ AnsweredIsNotAsked'
BY Types DEF IInv, QuestionsRecorded, AnsweredIsNotAsked

(* No message is accepted and the question stays or goes.                  *)
LEMMA OthersKeepQuestions ==
  ASSUME IInv, question' \in {0, question}, UNCHANGED <<recorded, answers, checked>>,
         \A s \in Submission : status'[s] = "ACCEPTED" => status[s] = "ACCEPTED"
  PROVE  QuestionsRecorded' /\ AnsweredIsNotAsked'
BY Types DEF IInv, QuestionsRecorded, AnsweredIsNotAsked

-----------------------------------------------------------------------------
(* The API.                                                                *)

LEMMA CreateKeeps ==
  ASSUME IInv, present, NEW s \in Submission, NEW q \in 0 .. MaxQuestions,
         q <= recorded, Create(s, q)
  PROVE  IInv'
<1> USE ConstantsAssumption
<1>1. /\ status[s] = "absent" /\ \A t \in 1 .. s - 1 : status[t] # "absent"
      /\ status' = [status EXCEPT ![s] = "PENDING"]
      /\ answers' = [answers EXCEPT ![s] = q]
      /\ UNCHANGED <<present, linked, open, question, recorded, tries, checked,
                     sending, turn, opened, asked, overruled>>
  BY DEF Create, NextNumber, conversation, runtime
<1>2. /\ status \in [Submission -> Status] /\ answers \in [Submission -> 0 .. MaxQuestions]
      /\ tries \in [Submission -> 0 .. MostTries]
      /\ recorded \in 0 .. MaxQuestions
  BY Types
<1>3. \A t \in Submission : /\ status'[t] = IF t = s THEN "PENDING" ELSE status[t]
                            /\ answers'[t] = IF t = s THEN q ELSE answers[t]
  BY <1>1, <1>2
<1>4. /\ \A t \in Submission : status[t] = "absent" => tries[t] = 0
      /\ \A t, u \in Submission : t < u /\ status[t] = "absent" => status[u] = "absent"
  BY DEF IInv, CreatedInOrder
<1>5. TypeOK'
  <2>1. status' \in [Submission -> Status] /\ answers' \in [Submission -> 0 .. MaxQuestions]
    BY <1>1, <1>2
  <2> QED BY <1>1, <2>1, Types DEF TypeOK
<1>6. QuestionsRecorded' /\ AnsweredIsNotAsked'
  BY <1>1, <1>3 DEF IInv, QuestionsRecorded, AnsweredIsNotAsked
<1>7. OneUnderWay' /\ DeliveriesTried'
  BY <1>1, <1>3 DEF IInv, OneUnderWay, DeliveriesTried, Sending
<1>8. WithinTries'
  <2> SUFFICES ASSUME NEW t \in Submission
               PROVE  Load(t)' <= MaxAttempts + Cardinality(Spent(t)')
    BY DEF WithinTries
  <2>1. Load(t) <= MaxAttempts + Cardinality(Spent(t))
    BY DEF IInv, WithinTries
  <2>2. Spent(t)' = Spent(t) /\ Cardinality(Spent(t)) \in Nat
    BY <1>1, SpentFinite DEF Spent
  <2>3. CASE t = s
    <3>1. Load(t)' = 1
      BY <1>1, <1>3, <1>4, <2>3 DEF Load
    <3> QED BY <2>2, <3>1
  <2>4. CASE t # s
    <3>1. Load(t)' = Load(t)
      BY <1>1, <1>3, <2>4 DEF Load
    <3> QED BY <2>1, <2>2, <3>1
  <2> QED BY <2>3, <2>4
<1>9. CreatedInOrder'
  <2>1. \A t \in Submission : status'[t] = "absent" => tries'[t] = 0
    BY <1>1, <1>3, <1>4
  <2>2. \A t, u \in Submission : t < u /\ status'[t] = "absent" => status'[u] = "absent"
    <3> SUFFICES ASSUME NEW t \in Submission, NEW u \in Submission,
                        t < u, status'[t] = "absent"
                 PROVE  status'[u] = "absent"
      OBVIOUS
    <3>1. status[t] = "absent" /\ status[u] = "absent"
      BY <1>3, <1>4
    <3>2. u # s
      <4> SUFFICES ASSUME u = s PROVE FALSE
        OBVIOUS
      <4>1. t \in 1 .. s - 1
        OBVIOUS
      <4> QED BY <1>1, <3>1, <4>1
    <3> QED BY <1>3, <3>1, <3>2
  <2> QED BY <2>1, <2>2 DEF CreatedInOrder
<1>10. LaterOverruled'
  <2> SUFFICES ASSUME NEW t \in Submission, NEW u \in Submission,
                      t < u, tries[u] > 0, Waiting(t)'
               PROVE  t \in overruled
    BY <1>1 DEF LaterOverruled
  <2>1. CASE t = s
    <3>1. status[u] = "absent"
      BY <1>1, <1>4, <2>1
    <3> QED BY <1>4, <3>1
  <2>2. CASE t # s
    BY <1>3, <2>2 DEF IInv, LaterOverruled, Waiting
  <2> QED BY <2>1, <2>2
<1> QED BY <1>5, <1>6, <1>7, <1>8, <1>9, <1>10 DEF IInv

LEMMA ClientsKeep ==
  ASSUME IInv, present, NEW s \in Submission, Clients(s)
  PROVE  IInv'
<1>1. CASE SubmitBuilder(s)
  <2>1. 0 \in 0 .. MaxQuestions /\ 0 <= recorded
    BY Types, ConstantsAssumption
  <2> QED BY <1>1, <2>1, CreateKeeps DEF SubmitBuilder
<1>2. CASE \E q \in Question : InsertAnswer(s, q)
  <2>1. PICK q \in Question : InsertAnswer(s, q)
    BY <1>2
  <2>2. q \in 0 .. MaxQuestions /\ q <= recorded /\ Create(s, q)
    BY <2>1 DEF InsertAnswer, IInv, QuestionsRecorded
  <2> QED BY <2>2, CreateKeeps
<1> QED BY <1>1, <1>2 DEF Clients

LEMMA RemoveKeeps ==
  ASSUME IInv, Remove
  PROVE  IInv'
<1> USE ConstantsAssumption
<1>1. /\ present' = FALSE
      /\ linked' = FALSE /\ open' = FALSE /\ question' = 0 /\ recorded' = 0
      /\ status' = [s \in Submission |-> "absent"]
      /\ answers' = [s \in Submission |-> 0]
      /\ checked' = {}
      /\ sending' = {} /\ turn' = [d \in Delivery |-> "none"]
      /\ UNCHANGED <<tries, opened, asked, overruled>>
  BY DEF Remove
<1>2. TypeOK'
  <2>1. 0 \in 0 .. MaxQuestions
    OBVIOUS
  <2>2. /\ status' \in [Submission -> Status]
        /\ answers' \in [Submission -> 0 .. MaxQuestions]
        /\ turn' \in [Delivery -> Turn]
    BY <1>1, <2>1
  <2>3. present' \in BOOLEAN /\ linked' \in BOOLEAN /\ open' \in BOOLEAN
    BY <1>1
  <2> QED BY <1>1, <2>1, <2>2, <2>3, Types DEF TypeOK
<1>3. QuestionsRecorded' /\ AnsweredIsNotAsked'
  BY <1>1 DEF QuestionsRecorded, AnsweredIsNotAsked
<1>4. OneUnderWay' /\ DeliveriesTried'
  <2>1. \A s \in Submission, k \in Attempt : <<s, k>> \in Delivery
    OBVIOUS
  <2> QED BY <1>1, <2>1 DEF OneUnderWay, DeliveriesTried, Sending
<1>5. WithinTries'
  <2> SUFFICES ASSUME NEW t \in Submission
               PROVE  Load(t)' <= MaxAttempts + Cardinality(Spent(t)')
    BY DEF WithinTries
  <2>1. Load(t) <= MaxAttempts + Cardinality(Spent(t))
    BY DEF IInv, WithinTries
  <2>2. /\ Spent(t)' \in SUBSET (1 .. MaxAttempts - 1)
        /\ Spent(t) \in SUBSET (Spent(t)')
    BY <1>1 DEF Spent
  <2>3. /\ Cardinality(Spent(t)) <= Cardinality(Spent(t)')
        /\ Cardinality(Spent(t)) \in Nat /\ Cardinality(Spent(t)') \in Nat
    BY <2>2, SpentGrows, SpentFinite
  <2>4. tries[t] \in Nat
    BY Types
  <2>5. Load(t)' <= Load(t) /\ Load(t) \in Nat /\ Load(t)' \in Nat
    BY <1>1, <2>4 DEF Load
  <2> QED BY <2>1, <2>3, <2>5
<1>6. CreatedInOrder' /\ LaterOverruled'
  BY <1>1 DEF CreatedInOrder, LaterOverruled, Waiting
<1> QED BY <1>2, <1>3, <1>4, <1>5, <1>6 DEF IInv

-----------------------------------------------------------------------------
(* Dispatch.                                                               *)

LEMMA ClaimKeeps ==
  ASSUME IInv, present, NEW s \in Submission, Claim(s)
  PROVE  IInv'
<1> USE ConstantsAssumption
<1> DEFINE n == tries[s] + 1
<1>1. /\ status[s] = "PENDING"
      /\ \A t \in Submission : status[t] # "SENDING"
      /\ \A t \in 1 .. s - 1 : status[t] # "PENDING"
      /\ status' = [status EXCEPT ![s] = "SENDING"]
      /\ tries' = [tries EXCEPT ![s] = n]
      /\ open' = FALSE
      /\ sending' = sending \cup {<<s, n>>}
      /\ UNCHANGED <<present, linked, question, recorded, answers, checked, turn,
                     opened, asked, overruled>>
  BY Types DEF Claim, Claimable, Sending
<1>2. /\ status \in [Submission -> Status] /\ tries \in [Submission -> 0 .. MostTries]
  BY Types
<1>3. n \in Attempt
  <2>1. Load(s) <= MaxAttempts + Cardinality(Spent(s))
    BY DEF IInv, WithinTries
  <2>2. Load(s) = tries[s] + 1 /\ tries[s] \in Nat
    BY <1>1, <1>2 DEF Load
  <2>3. Cardinality(Spent(s)) <= MaxAttempts - 1 /\ Cardinality(Spent(s)) \in Nat
    BY SpentFinite DEF Spent
  <2> QED BY <2>1, <2>2, <2>3
<1> HIDE DEF n
<1>4. \A t \in Submission : /\ status'[t] = IF t = s THEN "SENDING" ELSE status[t]
                            /\ tries'[t] = IF t = s THEN n ELSE tries[t]
  BY <1>1, <1>2
<1>5. TypeOK'
  <2>1. status' \in [Submission -> Status] /\ tries' \in [Submission -> 0 .. MostTries]
    BY <1>1, <1>2, <1>3
  <2>2. sending' \subseteq Delivery
    BY <1>1, <1>3, Types
  <2>3. open' \in BOOLEAN
    BY <1>1
  <2> QED BY <1>1, <2>1, <2>2, <2>3, Types DEF TypeOK
<1>6. QuestionsRecorded' /\ AnsweredIsNotAsked'
  BY <1>1, <1>4, OthersKeepQuestions
<1>7. OneUnderWay'
  BY <1>1, <1>4 DEF OneUnderWay, Sending
<1>8. DeliveriesTried'
  <2> SUFFICES ASSUME NEW t \in Submission, NEW k \in Attempt,
                      <<t, k>> \in sending' \/ turn[<<t, k>>] # "none"
               PROVE  k <= tries'[t]
    BY <1>1 DEF DeliveriesTried
  <2>1. CASE <<t, k>> = <<s, n>>
    BY <1>3, <1>4, <2>1
  <2>2. CASE <<t, k>> # <<s, n>>
    <3>1. k <= tries[t]
      BY <1>1, <2>2 DEF IInv, DeliveriesTried
    <3>2. tries[t] <= tries'[t] /\ tries[t] \in Int /\ tries'[t] \in Int
      BY <1>2, <1>3, <1>4 DEF n
    <3> QED BY <3>1, <3>2
  <2> QED BY <2>1, <2>2
<1>9. WithinTries'
  <2> SUFFICES ASSUME NEW t \in Submission
               PROVE  Load(t)' <= MaxAttempts + Cardinality(Spent(t)')
    BY DEF WithinTries
  <2>1. Load(t) <= MaxAttempts + Cardinality(Spent(t))
    BY DEF IInv, WithinTries
  <2>2. Load(t)' = Load(t)
    BY <1>1, <1>2, <1>4 DEF Load, n
  <2>3. Spent(t)' = Spent(t)
    <3> SUFFICES ASSUME NEW k \in 1 .. MaxAttempts - 1
                 PROVE  (k <= tries'[t] /\ <<t, k>> \notin sending') <=>
                        (k <= tries[t] /\ <<t, k>> \notin sending)
      BY DEF Spent
    <3>1. CASE t = s
      <4>1. (k <= n) <=> (k <= tries[s] \/ k = n)
        BY <1>2 DEF n
      <4>2. k <= tries[s] => k # n
        BY <1>2 DEF n
      <4> QED BY <1>1, <1>4, <3>1, <4>1, <4>2
    <3>2. CASE t # s
      BY <1>1, <1>4, <3>2
    <3> QED BY <3>1, <3>2
  <2> QED BY <2>1, <2>2, <2>3
<1>10. CreatedInOrder'
  BY <1>1, <1>4 DEF IInv, CreatedInOrder
<1>11. LaterOverruled'
  <2> SUFFICES ASSUME NEW t \in Submission, NEW u \in Submission,
                      t < u, tries'[u] > 0, Waiting(t)'
               PROVE  t \in overruled
    BY <1>1 DEF LaterOverruled
  <2>1. Waiting(t)
    BY <1>1, <1>4 DEF Waiting
  <2>2. CASE u = s
    <3>1. t \in 1 .. s - 1
      BY <2>2
    <3> QED BY <1>1, <2>1, <3>1 DEF Waiting
  <2>3. CASE u # s
    BY <1>4, <2>1, <2>3 DEF IInv, LaterOverruled
  <2> QED BY <2>2, <2>3
<1> QED BY <1>5, <1>6, <1>7, <1>8, <1>9, <1>10, <1>11 DEF IInv

LEMMA RecoverKeeps ==
  ASSUME IInv, present, NEW s \in Submission, Recover(s)
  PROVE  IInv'
<1> USE ConstantsAssumption
<1> DEFINE st == AfterFailure(tries[s])
<1>1. /\ status[s] = "SENDING" /\ status' = [status EXCEPT ![s] = st] /\ open' = TRUE
      /\ UNCHANGED <<present, linked, question, recorded, tries, answers,
                     checked, sending, turn, opened, asked, overruled>>
  BY DEF Recover, Recoverable, Sending, runtime
<1>2. st \in {"PENDING", "ACCEPTED", "FAILED"} /\ st # "ACCEPTED"
      /\ (st = "PENDING" => tries[s] < MaxAttempts)
  BY DEF AfterFailure
<1> HIDE DEF st
<1>3. tries[s] \in Nat /\ Cardinality(Spent(s)') \in Nat
  <2>1. tries[s] \in Nat
    BY Types
  <2>2. Spent(s)' \in SUBSET (1 .. MaxAttempts - 1)
    BY DEF Spent
  <2>3. Cardinality(Spent(s)') \in Nat
    BY <2>2, SpentFinite
  <2> QED BY <2>1, <2>3
<1>4. RowsFit' /\ status' \in [Submission -> Status]
  <2>1. st = "PENDING" => tries[s] + 1 <= MaxAttempts + Cardinality(Spent(s)')
    BY <1>2, <1>3
  <2> QED BY <1>1, <1>2, <2>1, StatusMoves DEF Sending
<1>5. QuestionsRecorded' /\ AnsweredIsNotAsked'
  <2>1. \A t \in Submission : status'[t] = "ACCEPTED" => status[t] = "ACCEPTED"
    BY <1>1, <1>2, Types
  <2> QED BY <1>1, <2>1, OthersKeepQuestions
<1>6. TypeOK'
  <2>1. open' \in BOOLEAN
    BY <1>1
  <2> QED BY <1>1, <1>4, <2>1, Types DEF TypeOK
<1> QED BY <1>4, <1>5, <1>6 DEF IInv, RowsFit

LEMMA SendRejectsKeeps ==
  ASSUME IInv, present, NEW s \in Submission, NEW k \in Attempt, SendRejects(s, k)
  PROVE  IInv'
<1> USE ConstantsAssumption
<1> DEFINE st == AfterFailure(k)
<1>1. /\ <<s, k>> \in sending /\ sending' = sending \ {<<s, k>>}
      /\ status' = [status EXCEPT ![s] = st] /\ open' = TRUE
      /\ overruled' = IF ~(Sending(s) /\ tries[s] = k)
                      THEN overruled \cup {s} ELSE overruled
      /\ UNCHANGED <<present, linked, question, recorded, tries, answers,
                     checked, turn, opened, asked>>
  BY DEF SendRejects
<1>2. st \in {"PENDING", "ACCEPTED", "FAILED"} /\ st # "ACCEPTED"
      /\ (st = "PENDING" => k < MaxAttempts)
  BY DEF AfterFailure
<1> HIDE DEF st
<1>3. status[s] # "absent" /\ k <= tries[s]
  BY <1>1, DeliveredExists
<1>4. tries[s] \in Nat
  BY Types
<1>5. st = "PENDING" => tries[s] + 1 <= MaxAttempts + Cardinality(Spent(s)')
  <2> SUFFICES ASSUME st = "PENDING"
               PROVE  tries[s] + 1 <= MaxAttempts + Cardinality(Spent(s)')
    OBVIOUS
  <2>1. k \in 1 .. MaxAttempts - 1 /\ k \notin Spent(s)
    BY <1>1, <1>2 DEF Spent
  <2>2. Spent(s)' = Spent(s) \cup {k}
    BY <1>1, <1>3, <2>1 DEF Spent
  <2>3. Cardinality(Spent(s)') = Cardinality(Spent(s)) + 1
        /\ Cardinality(Spent(s)) \in Nat
    BY <2>1, <2>2, SpentMore, SpentFinite DEF Spent
  <2>4. Load(s) <= MaxAttempts + Cardinality(Spent(s))
    BY DEF IInv, WithinTries
  <2>5. tries[s] <= Load(s) /\ Load(s) \in Nat
    BY <1>4 DEF Load
  <2> QED BY <1>4, <2>3, <2>4, <2>5
<1>6. RowsFit' /\ status' \in [Submission -> Status]
  <2>1. overruled \subseteq overruled' /\ (Sending(s) \/ s \in overruled')
    BY <1>1
  <2>2. sending' \subseteq sending
    BY <1>1
  <2> QED BY <1>1, <1>2, <1>3, <1>5, <2>1, <2>2, StatusMoves
<1>7. QuestionsRecorded' /\ AnsweredIsNotAsked'
  <2>1. \A t \in Submission : status'[t] = "ACCEPTED" => status[t] = "ACCEPTED"
    BY <1>1, <1>2, Types
  <2> QED BY <1>1, <2>1, OthersKeepQuestions
<1>8. TypeOK'
  <2>1. open' \in BOOLEAN /\ sending' \subseteq Delivery /\ overruled' \subseteq Submission
    BY <1>1, Types
  <2> QED BY <1>1, <1>6, <2>1, Types DEF TypeOK
<1> QED BY <1>6, <1>7, <1>8 DEF IInv, RowsFit

LEMMA SendResolvesKeeps ==
  ASSUME IInv, present, NEW s \in Submission, NEW k \in Attempt, SendResolves(s, k)
  PROVE  IInv'
<1>1. /\ <<s, k>> \in sending /\ sending' = sending \ {<<s, k>>}
      /\ status' = [status EXCEPT ![s] = "ACCEPTED"] /\ question' = 0 /\ linked' = TRUE
      /\ UNCHANGED <<present, open, recorded, tries, answers, checked, turn,
                     opened, asked, overruled>>
  BY DEF SendResolves, Accept, QuestionOnAccept
<1>2. status[s] # "absent"
  BY <1>1, DeliveredExists
<1>3. RowsFit' /\ status' \in [Submission -> Status]
  <2>1. sending' \subseteq sending
    BY <1>1
  <2> QED BY <1>1, <1>2, <2>1, StatusMoves
<1>4. QuestionsRecorded' /\ AnsweredIsNotAsked'
  BY <1>1, AcceptKeepsQuestions
<1>5. TypeOK'
  <2>1. linked' \in BOOLEAN /\ question' \in 0 .. MaxQuestions /\ sending' \subseteq Delivery
    BY <1>1, Types, ConstantsAssumption
  <2> QED BY <1>1, <1>3, <2>1, Types DEF TypeOK
<1> QED BY <1>3, <1>4, <1>5 DEF IInv, RowsFit

-----------------------------------------------------------------------------
(* The session, and what its events tell.                                  *)

(* The submissions stay, and so do the questions, or they go.              *)
LEMMA SessionKeeps ==
  ASSUME IInv, question' \in {0, question}, TypeOK',
         UNCHANGED <<present, recorded, status, tries, answers, checked, sending, overruled>>,
         \A s \in Submission, k \in Attempt :
           turn'[<<s, k>>] # "none" => <<s, k>> \in sending \/ turn[<<s, k>>] # "none"
  PROVE  IInv'
<1>1. RowsFit'
  BY RowsSame
<1>2. QuestionsRecorded' /\ AnsweredIsNotAsked'
  BY OthersKeepQuestions
<1> QED BY <1>1, <1>2 DEF IInv, RowsFit

LEMMA CheckAnswerKeeps ==
  ASSUME IInv, NEW q \in Question, CheckAnswer(q)
  PROVE  IInv'
<1>1. /\ question = q /\ checked' = checked \cup {q}
      /\ UNCHANGED <<present, linked, open, question, recorded, status, tries, answers,
                     sending, turn, opened, asked, overruled>>
  BY DEF CheckAnswer, conversation, rows, runtime
<1>2. TypeOK'
  <2>1. checked' \subseteq Question
    BY <1>1, Types
  <2> QED BY <1>1, <2>1, Types DEF TypeOK
<1>3. RowsFit'
  BY <1>1, RowsSame
<1>4. QuestionsRecorded' /\ AnsweredIsNotAsked'
  <2>1. q # 0
    OBVIOUS
  <2>2. q = recorded
    BY <1>1, <2>1 DEF IInv, QuestionsRecorded
  <2> QED BY <1>1, <2>2 DEF IInv, QuestionsRecorded, AnsweredIsNotAsked
<1> QED BY <1>2, <1>3, <1>4 DEF IInv, RowsFit

LEMMA SendLandsKeeps ==
  ASSUME IInv, NEW d \in Delivery, SendLands(d)
  PROVE  IInv'
<1>1. /\ d \in sending /\ turn' = [turn EXCEPT ![d] = "given"]
      /\ opened' = IF opened = "none" THEN "opened" ELSE opened
      /\ UNCHANGED <<present, linked, open, question, recorded, status, tries, answers,
                     checked, sending, asked, overruled>>
  BY DEF SendLands, conversation, rows
<1>2. TypeOK'
  <2>1. turn' \in [Delivery -> Turn] /\ opened' \in {"none", "opened", "reported"}
    BY <1>1, Types
  <2> QED BY <1>1, <2>1, Types DEF TypeOK
<1>3. \A s \in Submission, k \in Attempt :
        turn'[<<s, k>>] # "none" => <<s, k>> \in sending \/ turn[<<s, k>>] # "none"
  BY <1>1, Types
<1> QED BY <1>1, <1>2, <1>3, SessionKeeps

LEMMA SessionStartedKeeps ==
  ASSUME IInv, SessionStarted
  PROVE  IInv'
<1>1. /\ opened' = "reported"
      /\ (linked' = TRUE /\ open' = FALSE) \/ UNCHANGED <<linked, open>>
      /\ UNCHANGED <<present, question, recorded, status, tries, answers, checked,
                     sending, turn, asked, overruled>>
  BY DEF SessionStarted, rows
<1>2. TypeOK'
  <2>1. linked' \in BOOLEAN /\ open' \in BOOLEAN
    BY <1>1, Types
  <2> QED BY <1>1, <2>1, Types DEF TypeOK
<1> QED BY <1>1, <1>2, SessionKeeps

LEMMA AskKeeps ==
  ASSUME IInv, Ask
  PROVE  IInv'
<1>1. /\ asked < MaxQuestions /\ asked' = asked + 1
      /\ UNCHANGED <<present, linked, open, question, recorded, status, tries, answers,
                     checked, sending, turn, opened, overruled>>
  BY DEF Ask, conversation, rows
<1>2. TypeOK'
  <2>1. asked' \in 0 .. MaxQuestions
    BY <1>1, Types, ConstantsAssumption
  <2> QED BY <1>1, <2>1, Types DEF TypeOK
<1> QED BY <1>1, <1>2, SessionKeeps

LEMMA InputRequestedKeeps ==
  ASSUME IInv, NEW q \in Question, InputRequested(q)
  PROVE  IInv'
<1>1. /\ q > recorded /\ recorded' = q /\ question' = q /\ open' = TRUE
      /\ UNCHANGED <<present, linked, status, tries, answers, checked, sending, turn,
                     opened, asked, overruled>>
  BY DEF InputRequested, Supersedes, rows, runtime
<1>2. TypeOK'
  <2>1. open' \in BOOLEAN /\ question' \in 0 .. MaxQuestions /\ recorded' \in 0 .. MaxQuestions
    BY <1>1
  <2> QED BY <1>1, <2>1, Types DEF TypeOK
<1>3. RowsFit'
  BY <1>1, RowsSame
<1>4. \A s \in Submission : answers[s] <= recorded /\ answers[s] \in Int
  <2>1. answers \in [Submission -> 0 .. MaxQuestions]
    BY Types
  <2>2. \A s \in Submission : answers[s] <= recorded
    BY DEF IInv, QuestionsRecorded
  <2> QED BY <2>1, <2>2
<1>5. \A c \in checked : c <= recorded /\ c \in Int
  BY Types DEF IInv, QuestionsRecorded
<1>6. recorded \in Int
  BY Types
<1>7. QuestionsRecorded'
  BY <1>1, <1>4, <1>5, <1>6 DEF QuestionsRecorded
<1>8. AnsweredIsNotAsked'
  BY <1>1, <1>4, <1>6 DEF AnsweredIsNotAsked
<1> QED BY <1>2, <1>3, <1>7, <1>8 DEF IInv, RowsFit

LEMMA MessageReceivedKeeps ==
  ASSUME IInv, present, NEW s \in Submission, NEW k \in Attempt,
         MessageReceived(<<s, k>>)
  PROVE  IInv'
<1>1. /\ turn[<<s, k>>] = "given" /\ turn' = [turn EXCEPT ![<<s, k>>] = "working"]
      /\ \/ status' = [status EXCEPT ![s] = "ACCEPTED"] /\ question' = 0
         \/ UNCHANGED <<status, question>>
      /\ UNCHANGED <<present, linked, open, recorded, tries, answers,
                     checked, sending, opened, asked, overruled>>
  BY DEF MessageReceived, Accept, QuestionOnAccept
<1>2. turn' \in [Delivery -> Turn]
  BY <1>1, Types
<1>3. ASSUME NEW t \in Submission, NEW j \in Attempt, turn'[<<t, j>>] # "none"
      PROVE  turn[<<t, j>>] # "none"
  <2> DEFINE d == <<s, k>> e == <<t, j>>
  <2>1. d \in Delivery /\ e \in Delivery /\ turn \in [Delivery -> Turn]
    BY Types
  <2>2. turn[d] = "given" /\ turn' = [turn EXCEPT ![d] = "working"]
    BY <1>1
  <2> HIDE DEF d, e
  <2>3. turn'[e] # "none" => turn[e] # "none"
    BY <2>1, <2>2
  <2> QED BY <1>3, <2>3 DEF e
<1>4. CASE status' = [status EXCEPT ![s] = "ACCEPTED"] /\ question' = 0
  <2>1. status[s] # "absent"
    BY <1>1, DeliveredExists
  <2>2. sending' \subseteq sending /\ overruled \subseteq overruled'
    BY <1>1
  <2>3. RowsFit' /\ status' \in [Submission -> Status]
    BY <1>1, <1>3, <1>4, <2>1, <2>2, StatusMoves
  <2>4. QuestionsRecorded' /\ AnsweredIsNotAsked'
    BY <1>1, <1>4, AcceptKeepsQuestions
  <2>5. question' \in 0 .. MaxQuestions
    BY <1>4, ConstantsAssumption
  <2>6. TypeOK'
    BY <1>1, <1>2, <2>3, <2>5, Types DEF TypeOK
  <2> QED BY <2>3, <2>4, <2>6 DEF IInv, RowsFit
<1>5. CASE UNCHANGED <<status, question>>
  <2>1. TypeOK'
    BY <1>1, <1>2, <1>5, Types DEF TypeOK
  <2> QED BY <1>1, <1>3, <1>5, <2>1, SessionKeeps
<1> QED BY <1>1, <1>4, <1>5

LEMMA TurnEndsKeeps ==
  ASSUME IInv, NEW d \in Delivery, turn[d] # "none",
         turn' = [turn EXCEPT ![d] = "over"],
         open' \in {TRUE, open}, question' \in {0, question},
         UNCHANGED <<present, linked, recorded, status, tries, answers, checked, sending,
                     opened, asked, overruled>>
  PROVE  IInv'
<1>1. turn' \in [Delivery -> Turn] /\ open' \in BOOLEAN /\ question' \in 0 .. MaxQuestions
  <2>1. turn' \in [Delivery -> Turn]
    BY Types
  <2>2. open' \in BOOLEAN
    BY Types
  <2>3. question' \in 0 .. MaxQuestions
    BY Types, ConstantsAssumption
  <2> QED BY <2>1, <2>2, <2>3
<1>2. TypeOK'
  BY <1>1, Types DEF TypeOK
<1>3. \A s \in Submission, k \in Attempt :
        turn'[<<s, k>>] # "none" => <<s, k>> \in sending \/ turn[<<s, k>>] # "none"
  BY Types
<1> QED BY <1>2, <1>3, SessionKeeps

LEMMA TurnEventsKeep ==
  ASSUME IInv, present, NEW d \in Delivery, TurnEvents(d)
  PROVE  IInv'
<1>1. CASE MessageReceived(d)
  <2>1. PICK s \in Submission : \E k \in Attempt : d = <<s, k>>
    OBVIOUS
  <2>2. PICK k \in Attempt : d = <<s, k>>
    BY <2>1
  <2> QED BY <1>1, <2>2, MessageReceivedKeeps
<1>2. CASE SessionWaiting(d)
  BY <1>2, TurnEndsKeeps DEF SessionWaiting, TurnEnds, rows
<1>3. CASE TurnFailed(d)
  BY <1>3, TurnEndsKeeps DEF TurnFailed, TurnEnds, rows
<1>4. CASE SessionCompleted(d)
  BY <1>4, TurnEndsKeeps DEF SessionCompleted, TurnEnds, rows
<1>5. CASE TurnVanishes(d)
  BY <1>5, TurnEndsKeeps DEF TurnVanishes, conversation, rows
<1> QED BY <1>1, <1>2, <1>3, <1>4, <1>5 DEF TurnEvents

LEMMA SettlesKeeps ==
  ASSUME IInv, present, NEW d \in Delivery, Settles(d)
  PROVE  IInv'
<1>1. d[1] \in Submission /\ d[2] \in Attempt
  OBVIOUS
<1> QED BY <1>1, SendResolvesKeeps, SendRejectsKeeps DEF Settles

LEMMA StepKeeps ==
  ASSUME IInv, [Next]_vars
  PROVE  IInv'
<1>1. CASE Next
  <2>1. present
    BY <1>1 DEF Next
  <2>2. ASSUME NEW s \in Submission, Clients(s) \/ Dispatch(s) PROVE IInv'
    BY <2>1, <2>2, ClientsKeep, ClaimKeeps, RecoverKeeps DEF Dispatch
  <2>3. ASSUME NEW q \in Question, CheckAnswer(q) \/ InputRequested(q) PROVE IInv'
    BY <2>3, CheckAnswerKeeps, InputRequestedKeeps
  <2>4. ASSUME NEW d \in Delivery, SendLands(d) \/ Settles(d) \/ TurnEvents(d) PROVE IInv'
    BY <2>1, <2>4, SendLandsKeeps, SettlesKeeps, TurnEventsKeep
  <2>5. CASE SessionStarted \/ Ask \/ Remove
    BY <2>5, SessionStartedKeeps, AskKeeps, RemoveKeeps
  <2> QED BY <1>1, <2>2, <2>3, <2>4, <2>5 DEF Next
<1>2. CASE UNCHANGED vars
  <2>1. UNCHANGED <<present, linked, open, question, recorded, status, tries, answers,
                    checked, sending, turn, opened, asked, overruled>>
    BY <1>2 DEF vars
  <2>2. TypeOK'
    BY <2>1, Types DEF TypeOK
  <2> QED BY <2>1, <2>2, SessionKeeps
<1> QED BY <1>1, <1>2

-----------------------------------------------------------------------------
(* Theorems.                                                               *)

(* The inductive invariant.                                                *)
THEOREM Invariant == Spec => []IInv
BY InitEstablishes, StepKeeps, PTL DEF Spec

(* Every variable keeps its type; in particular no submission is sent more *)
(* than MostTries times, whatever sends settle late (attemptCount).        *)
THEOREM TypeCorrect == Spec => []TypeOK
<1>1. IInv => TypeOK
  BY DEF IInv
<1> QED BY <1>1, Invariant, PTL

(* One submission of a conversation is under delivery at a time.           *)
THEOREM OneDelivery == Spec => []OneUnderWay
<1>1. IInv => OneUnderWay
  BY DEF IInv
<1> QED BY <1>1, Invariant, PTL

(* An answered question does not come back up.                             *)
THEOREM AnswerStands == Spec => []AnsweredIsNotAsked
<1>1. IInv => AnsweredIsNotAsked
  BY DEF IInv
<1> QED BY <1>1, Invariant, PTL

(* Only a claim counts an attempt, of the oldest that waits.               *)
LEMMA OnlyClaims ==
  ASSUME Next, NEW s \in Submission, tries'[s] # tries[s]
  PROVE  \E t \in Submission : Claim(t)
<1>1. CASE \E t \in Submission : Clients(t) \/ Dispatch(t)
  BY <1>1 DEF Clients, SubmitBuilder, InsertAnswer, Create, Dispatch, Recover
<1>2. CASE \E q \in Question : CheckAnswer(q) \/ InputRequested(q)
  BY <1>2 DEF CheckAnswer, InputRequested, rows
<1>3. CASE \E d \in Delivery : SendLands(d) \/ Settles(d) \/ TurnEvents(d)
  BY <1>3 DEF SendLands, Settles, SendResolves, SendRejects, TurnEvents, MessageReceived,
              SessionWaiting, TurnFailed, SessionCompleted, TurnVanishes, TurnEnds, rows
<1>4. CASE SessionStarted \/ Ask \/ Remove
  BY <1>4 DEF SessionStarted, Ask, Remove, rows
<1> QED BY <1>1, <1>2, <1>3, <1>4 DEF Next

(* The claim takes messages in order but for those a late rejection        *)
(* returned to the queue (dispatchBuilderSubmission).                      *)
THEOREM OrderKept == Spec => OrderUnlessOverruled
<1>1. IInv /\ [Next]_vars =>
        [\A s, t \in Submission :
           s < t /\ tries'[s] > tries[s] /\ tries[t] > 0 => s \in overruled]_tries
  <2> SUFFICES ASSUME IInv, [Next]_vars, NEW s \in Submission, NEW t \in Submission,
                      s < t, tries'[s] > tries[s], tries[t] > 0, tries' # tries
               PROVE  s \in overruled
    OBVIOUS
  <2>1. Next
    BY DEF vars
  <2>2. tries'[s] # tries[s]
    BY Types
  <2>3. PICK c \in Submission : Claim(c)
    BY <2>1, <2>2, OnlyClaims
  <2>4. c = s
    BY <2>2, <2>3, Types DEF Claim
  <2>5. Waiting(s)
    BY <2>3, <2>4 DEF Claim, Claimable, Waiting
  <2> QED BY <2>5 DEF IInv, LaterOverruled
<1> QED BY <1>1, Invariant, PTL DEF Spec, OrderUnlessOverruled
=============================================================================
