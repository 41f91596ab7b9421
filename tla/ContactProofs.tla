---------------------------- MODULE ContactProofs ----------------------------
(***************************************************************************)
(* Theorems about the two ways into a contact's record: FormFiling, for    *)
(* any forms and deliveries, cap, contacts, hours and faults, and          *)
(* ContactFacts, for all values, any number of sessions, old rows, reps    *)
(* and sweeps, and any number of failures.  The two modules share no       *)
(* variable; each has its invariant and its step lemmas here.              *)
(***************************************************************************)
EXTENDS ContactFacts, FormFiling, FiniteSetTheorems, TLAPS

Attaching == {"claim", "note", "visitor", "tell"}
Charged   == {"create", "release"}
Unsettled == Steps \ {"note", "visitor", "tell"}

(* Where a delivery is tells what it holds: a form while it files one, a   *)
(* contact while it attaches, a slot from the charge to the insert or, if  *)
(* it died on the way, for ever.                                           *)
StagesMatch ==
  \A d \in Delivery :
    /\ form[d] # NoForm <=> stage[d] \in Steps
    /\ form[d] # NoForm => form[d] \in stored
    /\ target[d] # 0 <=> stage[d] \in Attaching
    /\ target[d] # 0 => contacts[target[d]] # "none"
    /\ made[d] => target[d] # 0
    /\ stage[d] \in Charged => held[d] # 0
    /\ held[d] # 0 => stage[d] \in Charged \cup {"over"}
MadeExist == \A c \in Contact : madeIn[c] # 0 => contacts[c] # "none"

(* Only who claimed a form writes its note, and one delivery claims it.    *)
NotedOnce ==
  \A f \in Form : /\ notes[f] # {} => f \in filed
                  /\ \A d, e \in notes[f] : d = e
NotingAlone ==
  \A d \in Delivery : stage[d] = "note" =>
    /\ form[d] \in filed /\ notes[form[d]] = {}
    /\ \A e \in Delivery : stage[e] = "note" /\ form[e] = form[d] => e = d

(* While an address is deleted, what is past the check began before.       *)
DeletedKnown ==
  suppressed => /\ Passing \subseteq ahead
                /\ pass # "idle" => stale

(* Without faults and moves: the contact a delivery attaches to, or lost   *)
(* to, is there; a stored form is settled or somebody files it; who claimed*)
(* a form comes to its note; who made a contact comes to tell the agent.   *)
Quiet == faults = 0 /\ ~moved
ContactsStand ==
  Quiet => \A d \in Delivery :
             /\ stage[d] \in {"release", "raced"} => Active # {}
             /\ stage[d] \in Attaching => contacts[target[d]] = "active"
FormsSettle ==
  Quiet => \A f \in stored :
             \/ f \in filed \cup Skipped
             \/ \E d \in Delivery : form[d] = f /\ stage[d] \in Unsettled
NotesFollow ==
  Quiet => \A f \in filed :
             \/ notes[f] # {}
             \/ \E d \in Delivery : form[d] = f /\ stage[d] = "note"
WordFollows ==
  Quiet => \A c \in Contact :
             madeIn[c] # 0 /\ contacts[c] # "gone" =>
               \/ c \in told
               \/ \E d \in Delivery : made[d] /\ target[d] = c

(* The equation of SlotsAccountedFor; the cap is a type of the counter.    *)
Accounted ==
  \A h \in Hour :
    slots[h] = Cardinality({c \in Contact : madeIn[c] = h})
               + Cardinality({d \in Delivery : held[d] = h})

FilingShape    == FilingTypeOK /\ StagesMatch /\ MadeExist
Noting   == NotedOnce /\ NotingAlone
Whole    == ContactsStand /\ FormsSettle /\ NotesFollow /\ WordFollows
FilingInv == FilingShape /\ Accounted /\ Noting /\ DeletedKnown /\ Whole

(* What a step of d leaves alone, and what d goes on with or lets go.      *)
Others(d) ==
  \A e \in Delivery \ {d} :
    /\ stage'[e] = stage[e] /\ form'[e] = form[e] /\ target'[e] = target[e]
    /\ held'[e] = held[e] /\ made'[e] = made[e]
    /\ e \in ahead => e \in ahead'
GoesOn(d, s) ==
  /\ Others(d)
  /\ stage'[d] = s /\ form'[d] = form[d] /\ target'[d] = target[d]
  /\ held'[d] = held[d] /\ made'[d] = made[d]
  /\ d \in ahead => d \in ahead'
LetsGo(d, s) ==
  /\ Others(d)
  /\ stage'[d] = s /\ form'[d] = NoForm /\ target'[d] = 0 /\ made'[d] = FALSE

(* The types of what a step of a delivery writes of its own.               *)
OwnTypes ==
  /\ stage \in [Delivery -> Steps \cup {"idle", "next", "over"}]
  /\ left \in [Delivery -> SUBSET Form] /\ form \in [Delivery -> Form \cup {NoForm}]
  /\ target \in [Delivery -> 0 .. MaxContacts] /\ made \in [Delivery -> BOOLEAN]
  /\ ahead \subseteq Delivery

(* What stands behind the counter of an hour.                              *)
MadeWith(h) == {c \in Contact : madeIn[c] = h}
Holders(h)  == {d \in Delivery : held[d] = h}

USE DEF Contact, Hour, Steps, Attaching, Charged, crm, clock, forms, own, mail, ghost

-----------------------------------------------------------------------------
(* FormFiling: types.  A released slot is one its hour has counted.      *)

LEMMA InitTypes == ASSUME FilingInit PROVE FilingTypeOK
<1>1. 0 \in 0 .. MaxContacts /\ 0 \in 0 .. MaxHours /\ 1 \in Hour /\ 0 \in 0 .. Cap
      /\ 0 \in 0 .. MaxFaults
  BY FilingAssumption
<1>2. OwnTypes
  BY <1>1 DEF FilingInit, OwnTypes
<1> QED
  BY <1>1, <1>2 DEF FilingInit, FilingTypeOK, OwnTypes

LEMMA GoesTypes ==
  ASSUME FilingTypeOK, NEW d \in Delivery, NEW s \in Steps \cup {"idle", "next", "over"},
         Goes(d, s), UNCHANGED <<left, form, target, made, ahead>>
  PROVE  OwnTypes'
BY DEF FilingTypeOK, OwnTypes, Goes

LEMMA OnFormTypes ==
  ASSUME FilingTypeOK, NEW d \in Delivery, OnForm(d)
  PROVE  OwnTypes'
BY FilingAssumption DEF FilingTypeOK, OwnTypes, OnForm, Goes, Leaves

LEMMA ThrowsTypes ==
  ASSUME FilingTypeOK, NEW d \in Delivery, Throws(d)
  PROVE  OwnTypes'
BY FilingAssumption DEF FilingTypeOK, OwnTypes, Throws, Goes, Leaves

LEMMA AfterAttachTypes ==
  ASSUME FilingTypeOK, NEW d \in Delivery, AfterAttach(d)
  PROVE  OwnTypes'
BY GoesTypes, OnFormTypes DEF AfterAttach

LEMMA FoundTypes ==
  ASSUME FilingTypeOK, NEW d \in Delivery, Found(d, "claim"),
         UNCHANGED <<left, form, made, ahead>>
  PROVE  OwnTypes'
BY FilingAssumption DEF FilingTypeOK, OwnTypes, Found, Active, Goes

LEMMA RepAddsTypes == ASSUME FilingTypeOK, RepAdds PROVE FilingTypeOK'
BY DEF FilingTypeOK, RepAdds, Coming

LEMMA HourPassesTypes == ASSUME FilingTypeOK, HourPasses PROVE FilingTypeOK'
BY FilingAssumption DEF FilingTypeOK, HourPasses

LEMMA RepsTypes ==
  ASSUME FilingTypeOK, NEW c \in Contact,
         Archive(c) \/ Restore(c) \/ Purge(c)
  PROVE  FilingTypeOK'
<1>1. CASE Archive(c)
  BY <1>1 DEF FilingTypeOK, Archive
<1>2. CASE Restore(c)
  BY <1>2 DEF FilingTypeOK, Restore
<1>3. CASE Purge(c)
  <2>1. contacts' \in [Contact -> {"none", "active", "archived", "gone"}]
    BY <1>3 DEF FilingTypeOK, Purge
  <2>2. told' \subseteq Contact /\ visitor' \in 0 .. MaxContacts
    BY <1>3, FilingAssumption DEF FilingTypeOK, Purge
  <2>3. ahead' \subseteq Delivery
    BY <1>3 DEF FilingTypeOK, Purge, Passing
  <2>4. stale' \in BOOLEAN /\ moved' \in BOOLEAN
    BY <1>3 DEF FilingTypeOK, Purge
  <2> QED
    BY <1>3, <2>1, <2>2, <2>3, <2>4 DEF FilingTypeOK, Purge
<1> QED
  BY <1>1, <1>2, <1>3

LEMMA PassTypes ==
  ASSUME FilingTypeOK, ReadContext \/ Resolve \/ CreateFromMail \/ EndPass
  PROVE  FilingTypeOK'
BY DEF FilingTypeOK, ReadContext, Resolve, CreateFromMail, EndPass, Coming

LEMMA DeliverTypes ==
  ASSUME FilingTypeOK, NEW d \in Delivery, NEW batch \in SUBSET Form, Deliver(d, batch)
  PROVE  FilingTypeOK'
BY DEF FilingTypeOK, Deliver, Goes

LEMMA SubmissionTypes ==
  ASSUME FilingTypeOK, NEW d \in Delivery, NEW f \in Form, Submission(d, f)
  PROVE  FilingTypeOK'
<1>1. OwnTypes'
  BY DEF FilingTypeOK, OwnTypes, Submission, Goes
<1> QED
  BY <1>1 DEF FilingTypeOK, OwnTypes, Submission

LEMMA FinishTypes ==
  ASSUME FilingTypeOK, NEW d \in Delivery, Finish(d)
  PROVE  FilingTypeOK'
BY GoesTypes DEF FilingTypeOK, OwnTypes, Finish

LEMMA CheckSuppressedTypes ==
  ASSUME FilingTypeOK, NEW d \in Delivery, CheckSuppressed(d)
  PROVE  FilingTypeOK'
BY GoesTypes DEF FilingTypeOK, OwnTypes, CheckSuppressed

LEMMA FindContactTypes ==
  ASSUME FilingTypeOK, NEW d \in Delivery, FindContact(d)
  PROVE  FilingTypeOK'
<1>1. OwnTypes'
  BY GoesTypes, FoundTypes DEF FindContact
<1> QED
  BY <1>1 DEF FilingTypeOK, OwnTypes, FindContact

LEMMA TakeTypes ==
  ASSUME FilingTypeOK, NEW d \in Delivery, Take(d)
  PROVE  FilingTypeOK'
<1>1. OwnTypes'
  BY GoesTypes DEF Take
<1>2. /\ hour \in Hour /\ hour \in 0 .. MaxHours
      /\ slots \in [Hour -> 0 .. Cap] /\ held \in [Delivery -> 0 .. MaxHours]
  BY FilingAssumption DEF FilingTypeOK
<1>3. slots' \in [Hour -> 0 .. Cap]
  <2>1. slots[hour] < Cap => slots[hour] + 1 \in 0 .. Cap
    BY <1>2, FilingAssumption
  <2> QED
    BY <1>2, <2>1 DEF Take, Room
<1>4. held' \in [Delivery -> 0 .. MaxHours]
  BY <1>2 DEF Take
<1> QED
  BY <1>1, <1>3, <1>4 DEF FilingTypeOK, OwnTypes, Take

LEMMA CreateTypes ==
  ASSUME FilingTypeOK, NEW d \in Delivery, Create(d)
  PROVE  FilingTypeOK'
<1>1. CASE Active = {}
  <2>1. PICK c \in Coming :
          /\ contacts' = [contacts EXCEPT ![c] = "active"]
          /\ madeIn' = [madeIn EXCEPT ![c] = held[d]]
          /\ held' = [held EXCEPT ![d] = 0]
          /\ target' = [target EXCEPT ![d] = c] /\ made' = [made EXCEPT ![d] = TRUE]
          /\ stage' = [stage EXCEPT ![d] = "claim"]
    BY <1>1 DEF Create, Goes
  <2>2. /\ contacts' \in [Contact -> {"none", "active", "archived", "gone"}]
        /\ madeIn' \in [Contact -> 0 .. MaxHours]
    BY <2>1 DEF FilingTypeOK, Coming
  <2>3. /\ held' \in [Delivery -> 0 .. MaxHours] /\ OwnTypes'
    BY <2>1, FilingAssumption DEF FilingTypeOK, OwnTypes, Coming, Create
  <2> QED
    BY <2>2, <2>3 DEF FilingTypeOK, OwnTypes, Create
<1>2. CASE Active # {}
  BY <1>2, GoesTypes DEF FilingTypeOK, OwnTypes, Create
<1> QED
  BY <1>1, <1>2

LEMMA FiniteSubsets ==
  /\ \A S \in SUBSET Delivery : IsFiniteSet(S) /\ Cardinality(S) \in Nat
  /\ \A S \in SUBSET Contact : IsFiniteSet(S) /\ Cardinality(S) \in Nat
<1>1. IsFiniteSet(1 .. MaxContacts)
  <2>1. 1 \in Int /\ MaxContacts \in Int
    BY FilingAssumption
  <2> QED
    BY <2>1, FS_Interval
<1>2. IsFiniteSet(Delivery)
  BY FilingAssumption
<1>3. \A S \in SUBSET Delivery : IsFiniteSet(S)
  BY <1>2, FS_Subset
<1>4. \A S \in SUBSET Contact : IsFiniteSet(S)
  BY <1>1, FS_Subset
<1> QED
  BY <1>3, <1>4, FS_CardinalityType

LEMMA ReleasedTypes ==
  ASSUME FilingTypeOK, Accounted, NEW d \in Delivery, held[d] # 0, slots' = Released(d)
  PROVE  slots' \in [Hour -> 0 .. Cap]
<1>1. held[d] \in Hour /\ slots[held[d]] \in 0 .. Cap
  BY FilingAssumption DEF FilingTypeOK
<1>2. slots[held[d]] # 0
  <2> DEFINE H == {e \in Delivery : held[e] = held[d]}
             M == {c \in Contact : madeIn[c] = held[d]}
  <2>1. IsFiniteSet(H) /\ Cardinality(H) \in Nat /\ Cardinality(M) \in Nat
    BY FiniteSubsets
  <2>2. Cardinality(H) # 0
    BY <2>1, d \in H, FS_EmptySet
  <2>3. slots[held[d]] = Cardinality(M) + Cardinality(H)
    BY <1>1 DEF Accounted
  <2> QED
    BY <2>1, <2>2, <2>3
<1> QED
  BY <1>1, <1>2, FilingAssumption DEF FilingTypeOK, Released

LEMMA ReleaseTypes ==
  ASSUME FilingTypeOK, StagesMatch, Accounted, NEW d \in Delivery, Release(d)
  PROVE  FilingTypeOK'
<1>1. OwnTypes'
  BY GoesTypes DEF Release
<1>2. slots' \in [Hour -> 0 .. Cap]
  BY ReleasedTypes DEF StagesMatch, Release
<1>3. held' \in [Delivery -> 0 .. MaxHours]
  BY FilingAssumption DEF FilingTypeOK, Release
<1> QED
  BY <1>1, <1>2, <1>3 DEF FilingTypeOK, OwnTypes, Release

LEMMA RacedTypes ==
  ASSUME FilingTypeOK, NEW d \in Delivery, Raced(d)
  PROVE  FilingTypeOK'
<1>1. OwnTypes'
  BY FoundTypes, ThrowsTypes DEF Raced
<1> QED
  BY <1>1 DEF FilingTypeOK, OwnTypes, Raced

LEMMA ClaimTypes ==
  ASSUME FilingTypeOK, StagesMatch, NEW d \in Delivery, Claim(d)
  PROVE  FilingTypeOK'
<1>1. OwnTypes'
  BY GoesTypes, AfterAttachTypes, ThrowsTypes DEF Claim
<1>2. form[d] \in stored
  BY DEF StagesMatch, Claim
<1>3. filed' \subseteq stored /\ reason' \in [Form -> {"none", "deleted", "cap"}]
  BY <1>2 DEF FilingTypeOK, Claim
<1> QED
  BY <1>1, <1>3 DEF FilingTypeOK, OwnTypes, Claim

LEMMA WriteNoteTypes ==
  ASSUME FilingTypeOK, StagesMatch, NEW d \in Delivery, WriteNote(d)
  PROVE  FilingTypeOK'
<1>1. OwnTypes'
  BY GoesTypes, ThrowsTypes DEF WriteNote
<1>2. form[d] \in Form
  BY DEF FilingTypeOK, StagesMatch, WriteNote
<1>3. notes' \in [Form -> SUBSET Delivery]
  BY <1>2 DEF FilingTypeOK, WriteNote
<1> QED
  BY <1>1, <1>3 DEF FilingTypeOK, OwnTypes, WriteNote

LEMMA UpsertVisitorTypes ==
  ASSUME FilingTypeOK, NEW d \in Delivery, UpsertVisitor(d)
  PROVE  FilingTypeOK'
<1>1. OwnTypes'
  BY AfterAttachTypes, ThrowsTypes DEF UpsertVisitor
<1>2. visitor' \in 0 .. MaxContacts
  BY DEF FilingTypeOK, UpsertVisitor
<1> QED
  BY <1>1, <1>2 DEF FilingTypeOK, OwnTypes, UpsertVisitor

LEMMA TellTypes ==
  ASSUME FilingTypeOK, StagesMatch, NEW d \in Delivery, Tell(d)
  PROVE  FilingTypeOK'
<1>1. OwnTypes'
  BY OnFormTypes DEF Tell
<1>2. target[d] \in Contact
  BY FilingAssumption DEF FilingTypeOK, StagesMatch, Tell
<1>3. told' \subseteq Contact
  BY <1>2 DEF FilingTypeOK, Tell, Told
<1> QED
  BY <1>1, <1>3 DEF FilingTypeOK, OwnTypes, Tell

LEMMA SkipTypes ==
  ASSUME FilingTypeOK, NEW d \in Delivery, Skip(d)
  PROVE  FilingTypeOK'
<1>1. OwnTypes'
  BY OnFormTypes DEF Skip
<1>2. reason' \in [Form -> {"none", "deleted", "cap"}]
  BY DEF FilingTypeOK, Skip
<1> QED
  BY <1>1, <1>2 DEF FilingTypeOK, OwnTypes, Skip

LEMMA CounterFailsTypes ==
  ASSUME FilingTypeOK, NEW d \in Delivery, CounterFails(d)
  PROVE  FilingTypeOK'
<1>1. OwnTypes'
  BY GoesTypes DEF CounterFails
<1>2. faults' \in 0 .. MaxFaults
  BY FilingAssumption DEF FilingTypeOK, CounterFails
<1> QED
  BY <1>1, <1>2 DEF FilingTypeOK, OwnTypes, CounterFails

LEMMA DiesTypes ==
  ASSUME FilingTypeOK, StagesMatch, Accounted, NEW d \in Delivery, Dies(d)
  PROVE  FilingTypeOK'
<1>1. OwnTypes'
  BY ThrowsTypes DEF Dies
<1>2. faults' \in 0 .. MaxFaults
  BY FilingAssumption DEF FilingTypeOK, Dies
<1>3. slots' \in [Hour -> 0 .. Cap]
  BY ReleasedTypes DEF FilingTypeOK, StagesMatch, Dies
<1>4. held' \in [Delivery -> 0 .. MaxHours]
  <2>1. held' = held \/ held' = [held EXCEPT ![d] = 0]
    BY DEF Dies
  <2>2. held \in [Delivery -> 0 .. MaxHours] /\ 0 \in 0 .. MaxHours
    BY FilingAssumption DEF FilingTypeOK
  <2> QED
    BY <2>1, <2>2
<1> QED
  BY <1>1, <1>2, <1>3, <1>4 DEF FilingTypeOK, OwnTypes, Dies

-----------------------------------------------------------------------------
(* FormFiling: the counter of an hour and who stands behind it.          *)

LEMMA SlotsUntouched ==
  ASSUME Accounted, UNCHANGED <<slots, held, madeIn>>
  PROVE  Accounted'
BY DEF Accounted

LEMMA InitSlots == ASSUME FilingInit PROVE Accounted
<1> SUFFICES ASSUME NEW h \in Hour
             PROVE  slots[h] = Cardinality(MadeWith(h)) + Cardinality(Holders(h))
  BY DEF Accounted, MadeWith, Holders
<1>1. MadeWith(h) = {} /\ Holders(h) = {} /\ slots[h] = 0
  BY DEF FilingInit, MadeWith, Holders
<1> QED
  BY <1>1, FS_EmptySet

LEMMA TakeSlots ==
  ASSUME FilingTypeOK, StagesMatch, Accounted, NEW d \in Delivery, Take(d)
  PROVE  Accounted'
<1>1. CASE ~ Room
  BY <1>1, SlotsUntouched DEF Take
<1>2. CASE Room
  <2>1. held[d] = 0 /\ hour \in Hour
    BY FilingAssumption DEF FilingTypeOK, StagesMatch, Take
  <2>2. slots' = [slots EXCEPT ![hour] = @ + 1] /\ held' = [held EXCEPT ![d] = hour]
    BY <1>2 DEF Take
  <2> SUFFICES ASSUME NEW h \in Hour
               PROVE  slots'[h] = Cardinality(MadeWith(h)') + Cardinality(Holders(h)')
    BY DEF Accounted, MadeWith, Holders
  <2>3. MadeWith(h)' = MadeWith(h)
    BY DEF MadeWith, Take
  <2>4. slots[h] = Cardinality(MadeWith(h)) + Cardinality(Holders(h))
    BY DEF Accounted, MadeWith, Holders
  <2>5. /\ IsFiniteSet(Holders(h)) /\ Cardinality(Holders(h)) \in Nat
        /\ Cardinality(MadeWith(h)) \in Nat
    BY FiniteSubsets DEF Holders, MadeWith
  <2>6. CASE h = hour
    <3>1. Holders(h)' = Holders(h) \cup {d} /\ d \notin Holders(h)
      BY <2>1, <2>2, <2>6 DEF FilingTypeOK, Holders
    <3>2. Cardinality(Holders(h)') = Cardinality(Holders(h)) + 1
      BY <2>5, <3>1, FS_AddElement
    <3>3. slots'[h] = slots[h] + 1
      BY <2>2, <2>6 DEF FilingTypeOK
    <3> QED
      BY <2>3, <2>4, <2>5, <3>2, <3>3
  <2>7. CASE h # hour
    <3>1. Holders(h)' = Holders(h) /\ slots'[h] = slots[h]
      BY <2>1, <2>2, <2>7 DEF FilingTypeOK, Holders
    <3> QED
      BY <2>3, <2>4, <3>1
  <2> QED
    BY <2>6, <2>7
<1> QED
  BY <1>1, <1>2

LEMMA CreateSlots ==
  ASSUME FilingTypeOK, StagesMatch, MadeExist, Accounted, NEW d \in Delivery, Create(d)
  PROVE  Accounted'
<1>1. CASE Active # {}
  BY <1>1, SlotsUntouched DEF Create
<1>2. CASE Active = {}
  <2>1. PICK c \in Coming : /\ madeIn' = [madeIn EXCEPT ![c] = held[d]]
                            /\ held' = [held EXCEPT ![d] = 0]
    BY <1>2 DEF Create
  <2>2. c \in Contact /\ madeIn[c] = 0 /\ held[d] # 0 /\ UNCHANGED slots
    BY DEF Coming, MadeExist, StagesMatch, Create
  <2> SUFFICES ASSUME NEW h \in Hour
               PROVE  slots'[h] = Cardinality(MadeWith(h)') + Cardinality(Holders(h)')
    BY DEF Accounted, MadeWith, Holders
  <2>3. slots[h] = Cardinality(MadeWith(h)) + Cardinality(Holders(h)) /\ h # 0
    BY DEF Accounted, MadeWith, Holders
  <2>4. /\ IsFiniteSet(Holders(h)) /\ Cardinality(Holders(h)) \in Nat
        /\ IsFiniteSet(MadeWith(h)) /\ Cardinality(MadeWith(h)) \in Nat
    BY FiniteSubsets DEF Holders, MadeWith
  <2>5. CASE h = held[d]
    <3>1. Holders(h)' = Holders(h) \ {d} /\ d \in Holders(h)
      BY <2>1, <2>3, <2>5 DEF FilingTypeOK, Holders
    <3>2. MadeWith(h)' = MadeWith(h) \cup {c} /\ c \notin MadeWith(h)
      BY <2>1, <2>2, <2>3, <2>5 DEF FilingTypeOK, MadeWith
    <3>3. Cardinality(Holders(h)') = Cardinality(Holders(h)) - 1
      BY <2>4, <3>1, FS_RemoveElement
    <3>4. Cardinality(MadeWith(h)') = Cardinality(MadeWith(h)) + 1
      BY <2>4, <3>2, FS_AddElement
    <3> QED
      BY <2>2, <2>3, <2>4, <3>3, <3>4
  <2>6. CASE h # held[d]
    <3>1. Holders(h)' = Holders(h)
      BY <2>1, <2>3, <2>6 DEF FilingTypeOK, Holders
    <3>2. MadeWith(h)' = MadeWith(h)
      BY <2>1, <2>2, <2>3, <2>6 DEF FilingTypeOK, MadeWith
    <3> QED
      BY <2>2, <2>3, <3>1, <3>2
  <2> QED
    BY <2>5, <2>6
<1> QED
  BY <1>1, <1>2

LEMMA ReleasedSlots ==
  ASSUME FilingTypeOK, Accounted, NEW d \in Delivery, held[d] # 0,
         slots' = Released(d), held' = [held EXCEPT ![d] = 0], UNCHANGED madeIn
  PROVE  Accounted'
<1> SUFFICES ASSUME NEW h \in Hour
             PROVE  slots'[h] = Cardinality(MadeWith(h)') + Cardinality(Holders(h)')
  BY DEF Accounted, MadeWith, Holders
<1>1. MadeWith(h)' = MadeWith(h)
  BY DEF MadeWith
<1>2. slots[h] = Cardinality(MadeWith(h)) + Cardinality(Holders(h)) /\ h # 0
  BY DEF Accounted, MadeWith, Holders
<1>3. /\ IsFiniteSet(Holders(h)) /\ Cardinality(Holders(h)) \in Nat
      /\ Cardinality(MadeWith(h)) \in Nat
  BY FiniteSubsets DEF Holders, MadeWith
<1>4. CASE h = held[d]
  <2>1. Holders(h)' = Holders(h) \ {d} /\ d \in Holders(h)
    BY <1>2, <1>4 DEF FilingTypeOK, Holders
  <2>2. Cardinality(Holders(h)') = Cardinality(Holders(h)) - 1
    BY <1>3, <2>1, FS_RemoveElement
  <2>3. slots'[h] = slots[h] - 1
    BY <1>4 DEF FilingTypeOK, Released
  <2> QED
    BY <1>1, <1>2, <1>3, <2>2, <2>3
<1>5. CASE h # held[d]
  <2>1. Holders(h)' = Holders(h) /\ slots'[h] = slots[h]
    BY <1>2, <1>5 DEF FilingTypeOK, Holders, Released
  <2> QED
    BY <1>1, <1>2, <2>1
<1> QED
  BY <1>4, <1>5

LEMMA ReleaseSlots ==
  ASSUME FilingTypeOK, StagesMatch, Accounted, NEW d \in Delivery, Release(d)
  PROVE  Accounted'
BY ReleasedSlots DEF StagesMatch, Release

LEMMA DiesSlots ==
  ASSUME FilingTypeOK, StagesMatch, Accounted, NEW d \in Delivery, Dies(d)
  PROVE  Accounted'
BY ReleasedSlots, SlotsUntouched DEF StagesMatch, Dies

-----------------------------------------------------------------------------
(* FormFiling: what reps, time and a pass over a mailbox leave as it was.*)

LEMMA FormsUntouched ==
  ASSUME FilingInv, UNCHANGED <<stored, filed, reason, notes, stage, form, faults>>,
         Quiet' => Quiet
  PROVE  (Noting /\ FormsSettle /\ NotesFollow)'
BY DEF FilingInv, Noting, NotedOnce, NotingAlone, Whole, FormsSettle, NotesFollow, Skipped

LEMMA RepAddsInv ==
  ASSUME FilingInv, RepAdds
  PROVE  (StagesMatch /\ MadeExist /\ Noting /\ DeletedKnown /\ Whole)'
<1>1. PICK c \in Coming : contacts' = [contacts EXCEPT ![c] = "active"]
  BY DEF RepAdds
<1>2. /\ contacts'[c] = "active" /\ contacts[c] = "none" /\ c \in Contact
      /\ \A b \in Contact \ {c} : contacts'[b] = contacts[b]
      /\ \A e \in Delivery : target[e] # 0 => target[e] \in Contact
  BY <1>1 DEF FilingInv, FilingShape, FilingTypeOK, Coming
<1>3. (StagesMatch /\ MadeExist)'
  BY <1>2 DEF FilingInv, FilingShape, StagesMatch, MadeExist, RepAdds
<1>4. (Noting /\ FormsSettle /\ NotesFollow)'
  BY FormsUntouched DEF RepAdds, Quiet
<1>5. DeletedKnown'
  BY DEF DeletedKnown, RepAdds
<1>6. (ContactsStand /\ WordFollows)'
  BY <1>2 DEF FilingInv, FilingShape, StagesMatch, MadeExist, Whole, ContactsStand, WordFollows,
              Active, Quiet, RepAdds
<1> QED
  BY <1>3, <1>4, <1>5, <1>6 DEF Whole

LEMMA ArchiveInv ==
  ASSUME FilingInv, NEW c \in Contact, Archive(c)
  PROVE  (StagesMatch /\ MadeExist /\ Noting /\ DeletedKnown /\ Whole)'
<1>1. /\ contacts'[c] = "archived" /\ contacts[c] = "active"
      /\ \A b \in Contact \ {c} : contacts'[b] = contacts[b]
      /\ \A e \in Delivery : target[e] # 0 => target[e] \in Contact
  BY DEF FilingInv, FilingShape, FilingTypeOK, Archive, Active
<1>2. Quiet' => Quiet /\ \A e \in Delivery : stage[e] \in {"idle", "over"}
  BY DEF Archive, Quiet, Working
<1>3. (StagesMatch /\ MadeExist)'
  BY <1>1 DEF FilingInv, FilingShape, StagesMatch, MadeExist, Archive
<1>4. (Noting /\ FormsSettle /\ NotesFollow)'
  BY <1>2, FormsUntouched DEF Archive
<1>5. DeletedKnown'
  BY DEF FilingInv, DeletedKnown, Passing, Archive
<1>6. (ContactsStand /\ WordFollows)'
  BY <1>1, <1>2 DEF FilingInv, Whole, ContactsStand, WordFollows, Archive
<1> QED
  BY <1>3, <1>4, <1>5, <1>6 DEF Whole

LEMMA RestoreInv ==
  ASSUME FilingInv, NEW c \in Contact, Restore(c)
  PROVE  (StagesMatch /\ MadeExist /\ Noting /\ DeletedKnown /\ Whole)'
<1>1. /\ contacts'[c] = "active" /\ contacts[c] = "archived"
      /\ \A b \in Contact \ {c} : contacts'[b] = contacts[b]
      /\ \A e \in Delivery : target[e] # 0 => target[e] \in Contact
  BY DEF FilingInv, FilingShape, FilingTypeOK, Restore
<1>2. (StagesMatch /\ MadeExist)'
  BY <1>1 DEF FilingInv, FilingShape, StagesMatch, MadeExist, Restore
<1>3. (Noting /\ FormsSettle /\ NotesFollow)'
  BY FormsUntouched DEF Restore, Quiet
<1>4. DeletedKnown'
  BY DEF FilingInv, DeletedKnown, Passing, Restore
<1>5. (ContactsStand /\ WordFollows)'
  BY <1>1 DEF FilingInv, FilingShape, StagesMatch, Whole, ContactsStand, WordFollows, Active,
              Quiet, Restore
<1> QED
  BY <1>2, <1>3, <1>4, <1>5 DEF Whole

LEMMA PurgeInv ==
  ASSUME FilingInv, NEW c \in Contact, Purge(c)
  PROVE  (StagesMatch /\ MadeExist /\ Noting /\ DeletedKnown /\ Whole)'
<1>1. /\ contacts'[c] = "gone"
      /\ \A b \in Contact \ {c} : contacts'[b] = contacts[b]
      /\ \A e \in Delivery : target[e] # 0 => target[e] \in Contact
  BY DEF FilingInv, FilingShape, FilingTypeOK, Purge
<1>2. Quiet' => Quiet /\ \A e \in Delivery : stage[e] \in {"idle", "over"}
  BY DEF Purge, Quiet, Working
<1>3. (StagesMatch /\ MadeExist)'
  BY <1>1 DEF FilingInv, FilingShape, StagesMatch, MadeExist, Purge
<1>4. (Noting /\ FormsSettle /\ NotesFollow)'
  BY <1>2, FormsUntouched DEF Purge
<1>5. DeletedKnown'
  BY DEF DeletedKnown, Passing, Purge
<1>6. (ContactsStand /\ WordFollows)'
  BY <1>1, <1>2 DEF FilingInv, Whole, ContactsStand, WordFollows, Purge
<1> QED
  BY <1>3, <1>4, <1>5, <1>6 DEF Whole

LEMMA HourPassesInv ==
  ASSUME FilingInv, HourPasses
  PROVE  (StagesMatch /\ MadeExist /\ Noting /\ DeletedKnown /\ Whole)'
<1>1. (Noting /\ FormsSettle /\ NotesFollow)'
  BY FormsUntouched DEF HourPasses, Quiet
<1> QED
  BY <1>1 DEF FilingInv, FilingShape, StagesMatch, MadeExist, DeletedKnown, Passing, Whole,
              ContactsStand, WordFollows, Active, Quiet, HourPasses

LEMMA ReadContextInv ==
  ASSUME FilingInv, ReadContext
  PROVE  (StagesMatch /\ MadeExist /\ Noting /\ DeletedKnown /\ Whole)'
<1>1. (Noting /\ FormsSettle /\ NotesFollow)'
  BY FormsUntouched DEF ReadContext, Quiet
<1> QED
  BY <1>1 DEF FilingInv, FilingShape, StagesMatch, MadeExist, DeletedKnown, Whole, ContactsStand,
              WordFollows, Active, Quiet, ReadContext, Declined

LEMMA ResolveInv ==
  ASSUME FilingInv, Resolve
  PROVE  (StagesMatch /\ MadeExist /\ Noting /\ DeletedKnown /\ Whole)'
<1>1. (Noting /\ FormsSettle /\ NotesFollow)'
  BY FormsUntouched DEF Resolve, Quiet
<1> QED
  BY <1>1 DEF FilingInv, FilingShape, StagesMatch, MadeExist, DeletedKnown, Passing, Whole,
              ContactsStand, WordFollows, Active, Quiet, Resolve

LEMMA CreateFromMailInv ==
  ASSUME FilingInv, CreateFromMail
  PROVE  (StagesMatch /\ MadeExist /\ Noting /\ DeletedKnown /\ Whole)'
<1>1. \A b \in Contact : \/ contacts'[b] = contacts[b]
                         \/ contacts[b] = "none" /\ contacts'[b] = "active"
  BY DEF FilingInv, FilingShape, FilingTypeOK, CreateFromMail, Coming
<1>2. \A e \in Delivery : target[e] # 0 => target[e] \in Contact
  BY DEF FilingInv, FilingShape, FilingTypeOK
<1>3. (StagesMatch /\ MadeExist)'
  BY <1>1, <1>2 DEF FilingInv, FilingShape, StagesMatch, MadeExist, CreateFromMail
<1>4. (Noting /\ FormsSettle /\ NotesFollow)'
  BY FormsUntouched DEF CreateFromMail, Quiet
<1>5. DeletedKnown'
  BY DEF FilingInv, DeletedKnown, Passing, CreateFromMail
<1>6. (ContactsStand /\ WordFollows)'
  BY <1>1, <1>2 DEF FilingInv, FilingShape, StagesMatch, MadeExist, Whole, ContactsStand,
                    WordFollows, Active, Quiet, CreateFromMail
<1> QED
  BY <1>3, <1>4, <1>5, <1>6 DEF Whole

LEMMA EndPassInv ==
  ASSUME FilingInv, EndPass
  PROVE  (StagesMatch /\ MadeExist /\ Noting /\ DeletedKnown /\ Whole)'
<1>1. (Noting /\ FormsSettle /\ NotesFollow)'
  BY FormsUntouched DEF EndPass, Quiet
<1> QED
  BY <1>1 DEF FilingInv, FilingShape, StagesMatch, MadeExist, DeletedKnown, Passing, Whole,
              ContactsStand, WordFollows, Active, Quiet, EndPass

-----------------------------------------------------------------------------
(* FormFiling: a delivery.  The first step of each proof says what its   *)
(* action does to the delivery and what it leaves to the others; the rest*)
(* needs no more of the action.                                          *)

LEMMA LeavesIsLettingGo ==
  ASSUME FilingTypeOK, NEW d \in Delivery, NEW s, Goes(d, s), Leaves(d), UNCHANGED held
  PROVE  LetsGo(d, s) /\ held'[d] = held[d]
BY DEF FilingTypeOK, Goes, Leaves, LetsGo, Others

LEMMA GoesIsGoingOn ==
  ASSUME FilingTypeOK, NEW d \in Delivery, NEW s, Goes(d, s),
         UNCHANGED <<form, target, made, ahead, held>>
  PROVE  GoesOn(d, s)
BY DEF FilingTypeOK, Goes, GoesOn, Others

LEMMA AfterAttachStep ==
  ASSUME FilingTypeOK, NEW d \in Delivery, AfterAttach(d), UNCHANGED held
  PROVE  \/ made[d] /\ GoesOn(d, "tell")
         \/ ~made[d] /\ LetsGo(d, "next") /\ held'[d] = held[d]
BY LeavesIsLettingGo, GoesIsGoingOn DEF AfterAttach, OnForm

LEMMA DeliverInv ==
  ASSUME FilingInv, NEW d \in Delivery, NEW batch \in SUBSET Form, Deliver(d, batch)
  PROVE  (StagesMatch /\ MadeExist /\ Noting /\ DeletedKnown /\ Whole)'
<1>1. /\ stage[d] = "idle" /\ GoesOn(d, "next")
      /\ UNCHANGED <<crm, slots, forms, Skipped, mail, moved, faults>>
  BY GoesIsGoingOn DEF FilingInv, FilingShape, Skipped, Deliver
<1>2. (StagesMatch /\ MadeExist)'
  BY <1>1 DEF FilingInv, FilingShape, StagesMatch, MadeExist, GoesOn, Others
<1>3. Noting'
  BY <1>1 DEF FilingInv, Noting, NotedOnce, NotingAlone, GoesOn, Others
<1>4. DeletedKnown'
  BY <1>1 DEF FilingInv, DeletedKnown, Passing, GoesOn, Others
<1>5. (ContactsStand /\ FormsSettle)'
  BY <1>1 DEF FilingInv, Whole, ContactsStand, FormsSettle, Unsettled, Quiet, Active,
              GoesOn, Others
<1>6. (NotesFollow /\ WordFollows)'
  BY <1>1 DEF FilingInv, Whole, ContactsStand, NotesFollow, WordFollows, Quiet, GoesOn,
              Others
<1> QED
  BY <1>2, <1>3, <1>4, <1>5, <1>6 DEF Whole

LEMMA FinishInv ==
  ASSUME FilingInv, NEW d \in Delivery, Finish(d)
  PROVE  (StagesMatch /\ MadeExist /\ Noting /\ DeletedKnown /\ Whole)'
<1>1. /\ stage[d] = "next" /\ GoesOn(d, "over")
      /\ UNCHANGED <<crm, slots, forms, Skipped, mail, moved, faults>>
  BY GoesIsGoingOn DEF FilingInv, FilingShape, Skipped, Finish
<1>2. (StagesMatch /\ MadeExist)'
  BY <1>1 DEF FilingInv, FilingShape, StagesMatch, MadeExist, GoesOn, Others
<1>3. Noting'
  BY <1>1 DEF FilingInv, Noting, NotedOnce, NotingAlone, GoesOn, Others
<1>4. DeletedKnown'
  BY <1>1 DEF FilingInv, DeletedKnown, Passing, GoesOn, Others
<1>5. (ContactsStand /\ FormsSettle)'
  BY <1>1 DEF FilingInv, Whole, ContactsStand, FormsSettle, Unsettled, Quiet, Active,
              GoesOn, Others
<1>6. (NotesFollow /\ WordFollows)'
  BY <1>1 DEF FilingInv, Whole, ContactsStand, NotesFollow, WordFollows, Quiet, GoesOn,
              Others
<1> QED
  BY <1>2, <1>3, <1>4, <1>5, <1>6 DEF Whole

LEMMA CheckSuppressedInv ==
  ASSUME FilingInv, NEW d \in Delivery, CheckSuppressed(d)
  PROVE  (StagesMatch /\ MadeExist /\ Noting /\ DeletedKnown /\ Whole)'
<1>1. /\ stage[d] = "check"
      /\ \/ suppressed /\ GoesOn(d, "deleted")
         \/ ~suppressed /\ GoesOn(d, "find")
      /\ UNCHANGED <<crm, slots, forms, Skipped, mail, moved, faults>>
  BY GoesIsGoingOn DEF FilingInv, FilingShape, Skipped, CheckSuppressed, Declined
<1>2. (StagesMatch /\ MadeExist)'
  BY <1>1 DEF FilingInv, FilingShape, StagesMatch, MadeExist, GoesOn, Others
<1>3. Noting'
  BY <1>1 DEF FilingInv, Noting, NotedOnce, NotingAlone, GoesOn, Others
<1>4. DeletedKnown'
  BY <1>1 DEF FilingInv, DeletedKnown, Passing, GoesOn, Others
<1>5. (ContactsStand /\ FormsSettle)'
  BY <1>1 DEF FilingInv, Whole, ContactsStand, FormsSettle, Unsettled, Quiet, Active,
              GoesOn, Others
<1>6. (NotesFollow /\ WordFollows)'
  BY <1>1 DEF FilingInv, Whole, ContactsStand, NotesFollow, WordFollows, Quiet, GoesOn,
              Others
<1> QED
  BY <1>2, <1>3, <1>4, <1>5, <1>6 DEF Whole

LEMMA CounterFailsInv ==
  ASSUME FilingInv, NEW d \in Delivery, CounterFails(d)
  PROVE  (StagesMatch /\ MadeExist /\ Noting /\ DeletedKnown /\ Whole)'
<1>1. /\ stage[d] = "charge" /\ GoesOn(d, "cap")
      /\ faults' # 0
      /\ UNCHANGED <<crm, slots, forms, Skipped, mail, moved>>
  BY GoesIsGoingOn DEF FilingInv, FilingShape, Skipped, FilingTypeOK, CounterFails
<1>2. (StagesMatch /\ MadeExist)'
  BY <1>1 DEF FilingInv, FilingShape, StagesMatch, MadeExist, GoesOn, Others
<1>3. Noting'
  BY <1>1 DEF FilingInv, Noting, NotedOnce, NotingAlone, GoesOn, Others
<1>4. DeletedKnown'
  BY <1>1 DEF FilingInv, DeletedKnown, Passing, GoesOn, Others
<1>5. (ContactsStand /\ FormsSettle)'
  BY <1>1 DEF FilingInv, Whole, ContactsStand, FormsSettle, Unsettled, Quiet, Active,
              GoesOn, Others
<1>6. (NotesFollow /\ WordFollows)'
  BY <1>1 DEF FilingInv, Whole, ContactsStand, NotesFollow, WordFollows, Quiet, GoesOn,
              Others
<1> QED
  BY <1>2, <1>3, <1>4, <1>5, <1>6 DEF Whole

LEMMA SubmissionInv ==
  ASSUME FilingInv, NEW d \in Delivery, NEW f \in Form, Submission(d, f)
  PROVE  (StagesMatch /\ MadeExist /\ Noting /\ DeletedKnown /\ Whole)'
<1>1. /\ stage[d] = "next" /\ stored' = stored \cup {f}
      /\ \/ f \in filed \cup Skipped /\ GoesOn(d, "next")
         \/ /\ f \notin filed \cup Skipped
            /\ Others(d)
            /\ stage'[d] = "check" /\ form'[d] = f /\ target'[d] = target[d]
            /\ held'[d] = held[d] /\ made'[d] = made[d] /\ (d \in ahead => d \in ahead')
      /\ UNCHANGED <<crm, slots, filed, Skipped, notes, mail, moved, faults>>
  BY DEF FilingInv, FilingShape, Skipped, FilingTypeOK, Submission, Goes, GoesOn, Others
<1>2. (StagesMatch /\ MadeExist)'
  BY <1>1, FilingAssumption DEF FilingInv, FilingShape, StagesMatch, MadeExist, GoesOn, Others
<1>3. Noting'
  BY <1>1 DEF FilingInv, Noting, NotedOnce, NotingAlone, GoesOn, Others
<1>4. DeletedKnown'
  BY <1>1 DEF FilingInv, DeletedKnown, Passing, GoesOn, Others
<1>5. (ContactsStand /\ FormsSettle)'
  BY <1>1 DEF FilingInv, Whole, ContactsStand, FormsSettle, Unsettled, Quiet, Active,
              GoesOn, Others
<1>6. (NotesFollow /\ WordFollows)'
  BY <1>1 DEF FilingInv, Whole, ContactsStand, NotesFollow, WordFollows, Quiet, GoesOn,
              Others
<1> QED
  BY <1>2, <1>3, <1>4, <1>5, <1>6 DEF Whole

LEMMA FindContactInv ==
  ASSUME FilingInv, NEW d \in Delivery, FindContact(d)
  PROVE  (StagesMatch /\ MadeExist /\ Noting /\ DeletedKnown /\ Whole)'
<1>1. /\ stage[d] = "find"
      /\ \/ /\ Others(d)
            /\ stage'[d] = "claim" /\ form'[d] = form[d] /\ target'[d] \in Active
            /\ held'[d] = held[d] /\ made'[d] = made[d] /\ (d \in ahead => d \in ahead')
         \/ GoesOn(d, "charge")
      /\ UNCHANGED <<crm, slots, forms, Skipped, mail, moved, faults>>
  BY DEF FilingInv, FilingShape, Skipped, FilingTypeOK, FindContact, Found, Goes, GoesOn, Others
<1>2. (StagesMatch /\ MadeExist)'
  BY <1>1 DEF FilingInv, FilingShape, StagesMatch, MadeExist, Active, GoesOn, Others
<1>3. Noting'
  BY <1>1 DEF FilingInv, Noting, NotedOnce, NotingAlone, GoesOn, Others
<1>4. DeletedKnown'
  BY <1>1 DEF FilingInv, DeletedKnown, Passing, GoesOn, Others
<1>5. (ContactsStand /\ FormsSettle)'
  BY <1>1 DEF FilingInv, FilingShape, Whole, ContactsStand, FormsSettle, Unsettled, Quiet,
              Active, GoesOn, Others
<1>6. (NotesFollow /\ WordFollows)'
  BY <1>1 DEF FilingInv, FilingShape, StagesMatch, MadeExist, Whole, ContactsStand,
              NotesFollow, WordFollows, Quiet, GoesOn, Others
<1> QED
  BY <1>2, <1>3, <1>4, <1>5, <1>6 DEF Whole

LEMMA TakeInv ==
  ASSUME FilingInv, NEW d \in Delivery, Take(d)
  PROVE  (StagesMatch /\ MadeExist /\ Noting /\ DeletedKnown /\ Whole)'
<1>1. /\ stage[d] = "charge" /\ hour # 0
      /\ \/ /\ Others(d)
            /\ stage'[d] = "create" /\ form'[d] = form[d] /\ target'[d] = target[d]
            /\ held'[d] = hour /\ made'[d] = made[d] /\ (d \in ahead => d \in ahead')
         \/ GoesOn(d, "cap")
      /\ UNCHANGED <<crm, forms, Skipped, mail, moved, faults>>
  BY DEF FilingInv, FilingShape, Skipped, FilingTypeOK, Take, Goes, GoesOn, Others
<1>2. (StagesMatch /\ MadeExist)'
  BY <1>1 DEF FilingInv, FilingShape, StagesMatch, MadeExist, GoesOn, Others
<1>3. Noting'
  BY <1>1 DEF FilingInv, Noting, NotedOnce, NotingAlone, GoesOn, Others
<1>4. DeletedKnown'
  BY <1>1 DEF FilingInv, DeletedKnown, Passing, GoesOn, Others
<1>5. (ContactsStand /\ FormsSettle)'
  BY <1>1 DEF FilingInv, Whole, ContactsStand, FormsSettle, Unsettled, Quiet, Active,
              GoesOn, Others
<1>6. (NotesFollow /\ WordFollows)'
  BY <1>1 DEF FilingInv, Whole, ContactsStand, NotesFollow, WordFollows, Quiet, GoesOn,
              Others
<1> QED
  BY <1>2, <1>3, <1>4, <1>5, <1>6 DEF Whole

LEMMA CreateInv ==
  ASSUME FilingInv, NEW d \in Delivery, Create(d)
  PROVE  (StagesMatch /\ MadeExist /\ Noting /\ DeletedKnown /\ Whole)'
<1>1. /\ stage[d] = "create"
      /\ \/ \E c \in Coming :
              /\ contacts'[c] = "active" /\ madeIn'[c] = held[d]
              /\ \A b \in Contact \ {c} : contacts'[b] = contacts[b] /\ madeIn'[b] = madeIn[b]
              /\ Others(d)
              /\ stage'[d] = "claim" /\ form'[d] = form[d] /\ target'[d] = c
              /\ held'[d] = 0 /\ made'[d] = TRUE /\ (d \in ahead => d \in ahead')
         \/ Active # {} /\ GoesOn(d, "release") /\ UNCHANGED <<contacts, madeIn>>
      /\ UNCHANGED <<told, suppressed, slots, forms, Skipped, mail, moved, faults>>
  <2>1. CASE Active = {}
    <3>1. PICK c \in Coming :
            /\ contacts' = [contacts EXCEPT ![c] = "active"]
            /\ madeIn' = [madeIn EXCEPT ![c] = held[d]]
            /\ held' = [held EXCEPT ![d] = 0]
            /\ target' = [target EXCEPT ![d] = c] /\ made' = [made EXCEPT ![d] = TRUE]
            /\ stage' = [stage EXCEPT ![d] = "claim"]
      BY <2>1 DEF Create, Goes
    <3>2. /\ contacts'[c] = "active" /\ madeIn'[c] = held[d]
          /\ \A b \in Contact \ {c} : contacts'[b] = contacts[b] /\ madeIn'[b] = madeIn[b]
      BY <3>1 DEF FilingInv, FilingShape, FilingTypeOK, Coming
    <3>3. /\ Others(d)
          /\ stage'[d] = "claim" /\ form'[d] = form[d] /\ target'[d] = c
          /\ held'[d] = 0 /\ made'[d] = TRUE /\ (d \in ahead => d \in ahead')
      BY <3>1 DEF FilingInv, FilingShape, FilingTypeOK, Create, Others
    <3> QED
      BY <3>2, <3>3 DEF Create, Skipped
  <2>2. CASE Active # {}
    BY <2>2, GoesIsGoingOn DEF FilingInv, FilingShape, Skipped, Create
  <2> QED
    BY <2>1, <2>2
<1>2. \A e \in Delivery : target[e] # 0 => target[e] \in Contact
  BY DEF FilingInv, FilingShape, FilingTypeOK
<1>3. (StagesMatch /\ MadeExist)'
  BY <1>1, <1>2 DEF FilingInv, FilingShape, StagesMatch, MadeExist, Active, Coming, GoesOn,
                    Others
<1>4. Noting'
  BY <1>1 DEF FilingInv, Noting, NotedOnce, NotingAlone, GoesOn, Others
<1>5. DeletedKnown'
  BY <1>1 DEF FilingInv, DeletedKnown, Passing, GoesOn, Others
<1>6. (ContactsStand /\ FormsSettle)'
  BY <1>1, <1>2 DEF FilingInv, FilingShape, StagesMatch, Whole, ContactsStand, FormsSettle,
                    Unsettled, Quiet, Active, Coming, GoesOn, Others
<1>7. (NotesFollow /\ WordFollows)'
  BY <1>1 DEF FilingInv, FilingShape, StagesMatch, MadeExist, Whole, ContactsStand,
              NotesFollow, WordFollows, Quiet, Coming, GoesOn, Others
<1> QED
  BY <1>3, <1>4, <1>5, <1>6, <1>7 DEF Whole

LEMMA ReleaseInv ==
  ASSUME FilingInv, NEW d \in Delivery, Release(d)
  PROVE  (StagesMatch /\ MadeExist /\ Noting /\ DeletedKnown /\ Whole)'
<1>1. /\ stage[d] = "release"
      /\ Others(d)
      /\ stage'[d] = "raced" /\ form'[d] = form[d] /\ target'[d] = target[d]
      /\ held'[d] = 0 /\ made'[d] = made[d] /\ (d \in ahead => d \in ahead')
      /\ UNCHANGED <<crm, forms, Skipped, mail, moved, faults>>
  BY DEF FilingInv, FilingShape, Skipped, FilingTypeOK, Release, Goes, Others
<1>2. (StagesMatch /\ MadeExist)'
  BY <1>1 DEF FilingInv, FilingShape, StagesMatch, MadeExist, Others
<1>3. Noting'
  BY <1>1 DEF FilingInv, Noting, NotedOnce, NotingAlone, Others
<1>4. DeletedKnown'
  BY <1>1 DEF FilingInv, DeletedKnown, Passing, Others
<1>5. (ContactsStand /\ FormsSettle)'
  BY <1>1 DEF FilingInv, Whole, ContactsStand, FormsSettle, Unsettled, Quiet, Active,
              Others
<1>6. (NotesFollow /\ WordFollows)'
  BY <1>1 DEF FilingInv, Whole, ContactsStand, NotesFollow, WordFollows, Quiet, Others
<1> QED
  BY <1>2, <1>3, <1>4, <1>5, <1>6 DEF Whole

LEMMA RacedInv ==
  ASSUME FilingInv, NEW d \in Delivery, Raced(d)
  PROVE  (StagesMatch /\ MadeExist /\ Noting /\ DeletedKnown /\ Whole)'
<1>1. /\ stage[d] = "raced"
      /\ \/ /\ Others(d)
            /\ stage'[d] = "claim" /\ form'[d] = form[d] /\ target'[d] \in Active
            /\ held'[d] = held[d] /\ made'[d] = made[d] /\ (d \in ahead => d \in ahead')
         \/ Active = {} /\ LetsGo(d, "over") /\ held'[d] = held[d]
      /\ UNCHANGED <<crm, slots, forms, Skipped, mail, moved, faults>>
  <2>1. CASE Winner # {}
    BY <2>1 DEF FilingInv, FilingShape, Skipped, FilingTypeOK, Raced, Found, Goes, Others, Winner
  <2>2. CASE Winner = {}
    BY <2>2, LeavesIsLettingGo DEF FilingInv, FilingShape, Skipped, Raced, Throws, Winner
  <2> QED
    BY <2>1, <2>2
<1>2. (StagesMatch /\ MadeExist)'
  BY <1>1 DEF FilingInv, FilingShape, StagesMatch, MadeExist, Active, LetsGo, Others
<1>3. Noting'
  BY <1>1 DEF FilingInv, Noting, NotedOnce, NotingAlone, LetsGo, Others
<1>4. DeletedKnown'
  BY <1>1 DEF FilingInv, DeletedKnown, Passing, LetsGo, Others
<1>5. (ContactsStand /\ FormsSettle)'
  BY <1>1 DEF FilingInv, FilingShape, Whole, ContactsStand, FormsSettle, Unsettled, Quiet,
              Active, LetsGo, Others
<1>6. (NotesFollow /\ WordFollows)'
  BY <1>1 DEF FilingInv, FilingShape, StagesMatch, MadeExist, Whole, ContactsStand,
              NotesFollow, WordFollows, Quiet, LetsGo, Others
<1> QED
  BY <1>2, <1>3, <1>4, <1>5, <1>6 DEF Whole

LEMMA ClaimInv ==
  ASSUME FilingInv, NEW d \in Delivery, Claim(d)
  PROVE  (StagesMatch /\ MadeExist /\ Noting /\ DeletedKnown /\ Whole)'
<1>1. /\ stage[d] = "claim" /\ form[d] \in Form
      /\ \/ /\ form[d] \in filed /\ UNCHANGED <<filed, Skipped>>
            /\ \/ made[d] /\ GoesOn(d, "tell")
               \/ ~made[d] /\ LetsGo(d, "next") /\ held'[d] = held[d]
         \/ /\ contacts[target[d]] = "gone" /\ UNCHANGED <<filed, Skipped>>
            /\ LetsGo(d, "over") /\ held'[d] = held[d]
         \/ /\ form[d] \notin filed /\ filed' = filed \cup {form[d]}
            /\ Skipped \subseteq Skipped' \cup {form[d]}
            /\ GoesOn(d, "note")
      /\ UNCHANGED <<crm, slots, stored, notes, mail, moved, faults>>
  <2>0. stage[d] = "claim" /\ form[d] \in Form
    BY DEF FilingInv, FilingShape, FilingTypeOK, StagesMatch, Claim
  <2>1. CASE ~ Claimable(form[d])
    BY <2>0, <2>1, AfterAttachStep DEF FilingInv, FilingShape, Skipped, Claim, Claimable
  <2>2. CASE Claimable(form[d]) /\ Lost(d)
    BY <2>0, <2>2, LeavesIsLettingGo DEF FilingInv, FilingShape, Skipped, Claim, Throws, Lost
  <2>3. CASE Claimable(form[d]) /\ ~ Lost(d)
    BY <2>0, <2>3, GoesIsGoingOn
       DEF FilingInv, FilingShape, Skipped, FilingTypeOK, StagesMatch, Claim, Claimable
  <2> QED
    BY <2>1, <2>2, <2>3
<1>2. (StagesMatch /\ MadeExist)'
  BY <1>1 DEF FilingInv, FilingShape, StagesMatch, MadeExist, GoesOn, LetsGo, Others
<1>3. Noting'
  BY <1>1 DEF FilingInv, Noting, NotedOnce, NotingAlone, GoesOn, LetsGo, Others
<1>4. DeletedKnown'
  BY <1>1 DEF FilingInv, DeletedKnown, Passing, GoesOn, LetsGo, Others
<1>5. ContactsStand'
  BY <1>1 DEF FilingInv, Whole, ContactsStand, Quiet, Active, GoesOn, LetsGo, Others
<1>6. FormsSettle'
  <2> SUFFICES ASSUME Quiet', NEW f \in stored', f \notin (filed \cup Skipped)'
               PROVE  \E e \in Delivery : form'[e] = f /\ stage'[e] \in Unsettled
    BY DEF FormsSettle, Unsettled
  <2>1. Quiet /\ f \in stored /\ f \notin filed' /\ filed \subseteq filed' /\ f \notin Skipped
    BY <1>1 DEF Quiet
  <2>2. PICK e \in Delivery : form[e] = f /\ stage[e] \in Unsettled
    BY <2>1 DEF FilingInv, Whole, FormsSettle
  <2>3. e # d
    BY <1>1, <2>1, <2>2 DEF FilingInv, Whole, ContactsStand
  <2> QED
    BY <1>1, <2>2, <2>3 DEF GoesOn, LetsGo, Others
<1>7. (NotesFollow /\ WordFollows)'
  BY <1>1 DEF FilingInv, Whole, ContactsStand, NotesFollow, WordFollows, Quiet, GoesOn,
              LetsGo, Others
<1> QED
  BY <1>2, <1>3, <1>4, <1>5, <1>6, <1>7 DEF Whole

LEMMA WriteNoteInv ==
  ASSUME FilingInv, NEW d \in Delivery, WriteNote(d)
  PROVE  (StagesMatch /\ MadeExist /\ Noting /\ DeletedKnown /\ Whole)'
<1>1. /\ stage[d] = "note" /\ form[d] \in Form /\ filed \subseteq Form
      /\ \/ /\ contacts[target[d]] = "gone" /\ UNCHANGED notes
            /\ LetsGo(d, "over") /\ held'[d] = held[d]
         \/ /\ notes'[form[d]] = notes[form[d]] \cup {d}
            /\ \A f \in Form \ {form[d]} : notes'[f] = notes[f]
            /\ GoesOn(d, "visitor")
      /\ UNCHANGED <<crm, slots, stored, filed, Skipped, mail, moved, faults>>
  <2>0. stage[d] = "note" /\ form[d] \in Form /\ filed \subseteq Form
    BY DEF FilingInv, FilingShape, FilingTypeOK, StagesMatch, WriteNote
  <2>1. CASE Lost(d)
    BY <2>0, <2>1, LeavesIsLettingGo DEF FilingInv, FilingShape, Skipped, WriteNote, Throws, Lost
  <2>2. CASE ~ Lost(d)
    BY <2>0, <2>2, GoesIsGoingOn
       DEF FilingInv, FilingShape, Skipped, FilingTypeOK, StagesMatch, WriteNote
  <2> QED
    BY <2>1, <2>2
<1>2. (StagesMatch /\ MadeExist)'
  BY <1>1 DEF FilingInv, FilingShape, StagesMatch, MadeExist, GoesOn, LetsGo, Others
<1>3. Noting'
  BY <1>1 DEF FilingInv, Noting, NotedOnce, NotingAlone, GoesOn, LetsGo, Others
<1>4. DeletedKnown'
  BY <1>1 DEF FilingInv, DeletedKnown, Passing, GoesOn, LetsGo, Others
<1>5. (ContactsStand /\ FormsSettle)'
  BY <1>1 DEF FilingInv, Whole, ContactsStand, FormsSettle, Unsettled, Quiet, Active,
              GoesOn, LetsGo, Others
<1>6. (NotesFollow /\ WordFollows)'
  BY <1>1 DEF FilingInv, Whole, ContactsStand, NotesFollow, WordFollows, Quiet, GoesOn,
              LetsGo, Others
<1> QED
  BY <1>2, <1>3, <1>4, <1>5, <1>6 DEF Whole

LEMMA UpsertVisitorInv ==
  ASSUME FilingInv, NEW d \in Delivery, UpsertVisitor(d)
  PROVE  (StagesMatch /\ MadeExist /\ Noting /\ DeletedKnown /\ Whole)'
<1>1. /\ stage[d] = "visitor"
      /\ \/ contacts[target[d]] = "gone" /\ LetsGo(d, "over") /\ held'[d] = held[d]
         \/ made[d] /\ GoesOn(d, "tell")
         \/ ~made[d] /\ LetsGo(d, "next") /\ held'[d] = held[d]
      /\ UNCHANGED <<crm, slots, stored, filed, Skipped, notes, mail, moved, faults>>
  <2>1. CASE Lost(d)
    BY <2>1, LeavesIsLettingGo DEF FilingInv, FilingShape, Skipped, UpsertVisitor, Throws, Lost
  <2>2. CASE ~ Lost(d)
    BY <2>2, AfterAttachStep DEF FilingInv, FilingShape, Skipped, UpsertVisitor
  <2> QED
    BY <2>1, <2>2
<1>2. (StagesMatch /\ MadeExist)'
  BY <1>1 DEF FilingInv, FilingShape, StagesMatch, MadeExist, GoesOn, LetsGo, Others
<1>3. Noting'
  BY <1>1 DEF FilingInv, Noting, NotedOnce, NotingAlone, GoesOn, LetsGo, Others
<1>4. DeletedKnown'
  BY <1>1 DEF FilingInv, DeletedKnown, Passing, GoesOn, LetsGo, Others
<1>5. (ContactsStand /\ FormsSettle)'
  BY <1>1 DEF FilingInv, Whole, ContactsStand, FormsSettle, Unsettled, Quiet, Active,
              GoesOn, LetsGo, Others
<1>6. (NotesFollow /\ WordFollows)'
  BY <1>1 DEF FilingInv, Whole, ContactsStand, NotesFollow, WordFollows, Quiet, GoesOn,
              LetsGo, Others
<1> QED
  BY <1>2, <1>3, <1>4, <1>5, <1>6 DEF Whole

LEMMA TellInv ==
  ASSUME FilingInv, NEW d \in Delivery, Tell(d)
  PROVE  (StagesMatch /\ MadeExist /\ Noting /\ DeletedKnown /\ Whole)'
<1>1. /\ stage[d] = "tell" /\ told' = told \cup {target[d]}
      /\ LetsGo(d, "next") /\ held'[d] = held[d]
      /\ UNCHANGED <<contacts, madeIn, suppressed, slots, forms, Skipped, mail, moved, faults>>
  BY LeavesIsLettingGo DEF FilingInv, FilingShape, Skipped, Tell, Told, OnForm
<1>2. (StagesMatch /\ MadeExist)'
  BY <1>1 DEF FilingInv, FilingShape, StagesMatch, MadeExist, LetsGo, Others
<1>3. Noting'
  BY <1>1 DEF FilingInv, Noting, NotedOnce, NotingAlone, LetsGo, Others
<1>4. DeletedKnown'
  BY <1>1 DEF FilingInv, DeletedKnown, Passing, LetsGo, Others
<1>5. (ContactsStand /\ FormsSettle)'
  BY <1>1 DEF FilingInv, Whole, ContactsStand, FormsSettle, Unsettled, Quiet, Active,
              LetsGo, Others
<1>6. (NotesFollow /\ WordFollows)'
  BY <1>1 DEF FilingInv, Whole, ContactsStand, NotesFollow, WordFollows, Quiet, LetsGo,
              Others
<1> QED
  BY <1>2, <1>3, <1>4, <1>5, <1>6 DEF Whole

LEMMA SkipInv ==
  ASSUME FilingInv, NEW d \in Delivery, Skip(d)
  PROVE  (StagesMatch /\ MadeExist /\ Noting /\ DeletedKnown /\ Whole)'
<1>1. /\ stage[d] \in {"deleted", "cap"}
      /\ Skipped' = Skipped \cup {form[d]}
      /\ LetsGo(d, "next") /\ held'[d] = held[d]
      /\ UNCHANGED <<crm, slots, stored, filed, notes, mail, moved, faults>>
  <2>1. form[d] \in Form /\ stage[d] # "none"
    BY DEF FilingInv, FilingShape, Skipped, FilingTypeOK, StagesMatch, Skip
  <2> QED
    BY <2>1, LeavesIsLettingGo DEF FilingInv, FilingShape, Skipped, FilingTypeOK, Skip, OnForm
<1>2. (StagesMatch /\ MadeExist)'
  BY <1>1 DEF FilingInv, FilingShape, StagesMatch, MadeExist, LetsGo, Others
<1>3. Noting'
  BY <1>1 DEF FilingInv, Noting, NotedOnce, NotingAlone, LetsGo, Others
<1>4. DeletedKnown'
  BY <1>1 DEF FilingInv, DeletedKnown, Passing, LetsGo, Others
<1>5. (ContactsStand /\ FormsSettle)'
  BY <1>1 DEF FilingInv, FilingShape, Whole, ContactsStand, FormsSettle, Unsettled, Quiet,
              Active, LetsGo, Others
<1>6. (NotesFollow /\ WordFollows)'
  BY <1>1 DEF FilingInv, FilingShape, StagesMatch, MadeExist, Whole, ContactsStand,
              NotesFollow, WordFollows, Quiet, LetsGo, Others
<1> QED
  BY <1>2, <1>3, <1>4, <1>5, <1>6 DEF Whole

LEMMA DiesInv ==
  ASSUME FilingInv, NEW d \in Delivery, Dies(d)
  PROVE  (StagesMatch /\ MadeExist /\ Noting /\ DeletedKnown /\ Whole)'
<1>1. /\ stage[d] \in Steps \cup {"next"} /\ faults' # 0
      /\ LetsGo(d, "over")
      /\ held'[d] = held[d] \/ (stage[d] = "create" /\ held'[d] = 0)
      /\ UNCHANGED <<crm, forms, Skipped, mail, moved>>
  <2>1. CASE UNCHANGED held
    BY <2>1, LeavesIsLettingGo DEF FilingInv, FilingShape, Skipped, FilingTypeOK, Dies, Throws
  <2>2. CASE stage[d] = "create" /\ held' = [held EXCEPT ![d] = 0]
    BY <2>2 DEF FilingInv, FilingShape, Skipped, FilingTypeOK, Dies, Throws, Goes, Leaves,
                LetsGo, Others
  <2> QED
    BY <2>1, <2>2 DEF FilingInv, FilingShape, Skipped, Dies
<1>2. (StagesMatch /\ MadeExist)'
  BY <1>1 DEF FilingInv, FilingShape, StagesMatch, MadeExist, LetsGo, Others
<1>3. Noting'
  BY <1>1 DEF FilingInv, Noting, NotedOnce, NotingAlone, LetsGo, Others
<1>4. DeletedKnown'
  BY <1>1 DEF FilingInv, DeletedKnown, Passing, LetsGo, Others
<1>5. (ContactsStand /\ FormsSettle)'
  BY <1>1 DEF FilingInv, Whole, ContactsStand, FormsSettle, Unsettled, Quiet, Active,
              LetsGo, Others
<1>6. (NotesFollow /\ WordFollows)'
  BY <1>1 DEF FilingInv, Whole, ContactsStand, NotesFollow, WordFollows, Quiet, LetsGo,
              Others
<1> QED
  BY <1>2, <1>3, <1>4, <1>5, <1>6 DEF Whole

-----------------------------------------------------------------------------
(* FormFiling: the theorems.                                             *)

LEMMA InitFiling == ASSUME FilingInit PROVE FilingInv
<1>1. FilingTypeOK /\ Accounted
  BY InitTypes, InitSlots
<1>2. StagesMatch /\ MadeExist /\ DeletedKnown
  BY FilingAssumption DEF FilingInit, StagesMatch, MadeExist, DeletedKnown
<1>3. Noting /\ Whole
  BY DEF FilingInit, Noting, NotedOnce, NotingAlone, Whole, ContactsStand, FormsSettle,
         NotesFollow, WordFollows
<1> QED
  BY <1>1, <1>2, <1>3 DEF FilingInv, FilingShape

LEMMA TypesStep == ASSUME FilingInv, FilingNext PROVE FilingTypeOK'
<1> USE DEF FilingInv, FilingShape
<1>1. CASE \E c \in Contact : Archive(c) \/ Restore(c) \/ Purge(c)
  BY <1>1, RepsTypes
<1>2. CASE RepAdds \/ HourPasses
  BY <1>2, RepAddsTypes, HourPassesTypes
<1>3. CASE ReadContext \/ Resolve \/ CreateFromMail \/ EndPass
  BY <1>3, PassTypes
<1>4. ASSUME NEW d \in Delivery,
             \/ \E batch \in SUBSET Form : Deliver(d, batch)
             \/ Files(d) \/ CounterFails(d) \/ Dies(d)
      PROVE  FilingTypeOK'
  BY <1>4, DeliverTypes, SubmissionTypes, FinishTypes, CheckSuppressedTypes,
     FindContactTypes, TakeTypes, CreateTypes, ReleaseTypes, RacedTypes, ClaimTypes,
     WriteNoteTypes, UpsertVisitorTypes, TellTypes, SkipTypes, CounterFailsTypes, DiesTypes
     DEF Files
<1> QED
  BY <1>1, <1>2, <1>3, <1>4 DEF FilingNext

LEMMA SlotsStep == ASSUME FilingInv, FilingNext PROVE Accounted'
<1> USE DEF FilingInv, FilingShape
<1>1. ASSUME \/ RepAdds \/ HourPasses \/ ReadContext \/ Resolve \/ CreateFromMail \/ EndPass
             \/ \E c \in Contact : Archive(c) \/ Restore(c) \/ Purge(c)
      PROVE  UNCHANGED <<slots, held, madeIn>>
  BY <1>1 DEF RepAdds, HourPasses, ReadContext, Resolve, CreateFromMail, EndPass, Archive,
              Restore, Purge
<1>2. ASSUME NEW d \in Delivery,
             \/ \E batch \in SUBSET Form : Deliver(d, batch)
             \/ \E f \in Form : Submission(d, f)
             \/ Finish(d) \/ CheckSuppressed(d) \/ FindContact(d) \/ Raced(d) \/ Claim(d)
             \/ WriteNote(d) \/ UpsertVisitor(d) \/ Tell(d) \/ Skip(d) \/ CounterFails(d)
      PROVE  UNCHANGED <<slots, held, madeIn>>
  BY <1>2 DEF Deliver, Submission, Finish, CheckSuppressed, FindContact, Raced, Claim,
              WriteNote, UpsertVisitor, Tell, Skip, CounterFails
<1>3. ASSUME NEW d \in Delivery, Take(d) \/ Create(d) \/ Release(d) \/ Dies(d)
      PROVE  Accounted'
  BY <1>3, TakeSlots, CreateSlots, ReleaseSlots, DiesSlots
<1> QED
  BY <1>1, <1>2, <1>3, SlotsUntouched DEF FilingNext, Files

LEMMA PartsStep ==
  ASSUME FilingInv, FilingNext
  PROVE  (StagesMatch /\ MadeExist /\ Noting /\ DeletedKnown /\ Whole)'
BY RepAddsInv, ArchiveInv, RestoreInv, PurgeInv, HourPassesInv, ReadContextInv, ResolveInv,
   CreateFromMailInv, EndPassInv, DeliverInv, SubmissionInv, FinishInv, CheckSuppressedInv,
   FindContactInv, TakeInv, CreateInv, ReleaseInv, RacedInv, ClaimInv, WriteNoteInv,
   UpsertVisitorInv, TellInv, SkipInv, CounterFailsInv, DiesInv
   DEF FilingNext, Files

LEMMA FilingStutters == ASSUME FilingInv, UNCHANGED filingVars PROVE FilingInv'
<1> USE DEF filingVars, FilingInv
<1>1. FilingShape'
  BY DEF FilingShape, FilingTypeOK, StagesMatch, MadeExist
<1>2. Accounted'
  BY SlotsUntouched
<1>3. (Noting /\ FormsSettle /\ NotesFollow)'
  BY FormsUntouched DEF Quiet
<1>4. (DeletedKnown /\ ContactsStand /\ WordFollows)'
  BY DEF DeletedKnown, Passing, Whole, Quiet, ContactsStand, Active, WordFollows
<1> QED
  BY <1>1, <1>2, <1>3, <1>4 DEF Whole

(* Every step of a delivery, a rep and a pass preserves the invariant      *)
(* (tracking-ingest, tracking-filing and tracking-counter.service.ts,      *)
(* create, archive, restore and purge of contacts.service.ts, and          *)
(* mailbox-match.service.ts).                                              *)
THEOREM FilingInvariant == FilingSpec => []FilingInv
<1>1. FilingInit => FilingInv
  BY InitFiling
<1>2. FilingInv /\ [FilingNext]_filingVars => FilingInv'
  BY TypesStep, SlotsStep, PartsStep, FilingStutters DEF FilingInv, FilingShape
<1> QED
  BY <1>1, <1>2, PTL DEF FilingSpec

(* Types; a form is filed once it is stored, and no hour makes more        *)
(* contacts than the cap (take of tracking-counter.service.ts).            *)
THEOREM FilingTypes == FilingSpec => []FilingTypeOK
<1>1. FilingInv => FilingTypeOK
  BY DEF FilingInv, FilingShape
<1> QED
  BY <1>1, FilingInvariant, PTL

(* An hour's counter is the contacts made with it and the slots that are   *)
(* held: take charges one, create turns it into a contact, and release     *)
(* hands it back (tracking-filing.service.ts).                             *)
THEOREM SlotsCounted == FilingSpec => []SlotsAccountedFor
<1>1. FilingInv => SlotsAccountedFor
  <2> SUFFICES ASSUME FilingInv, NEW h \in Hour PROVE slots[h] <= Cap
    BY DEF FilingInv, Accounted, SlotsAccountedFor
  <2>1. slots[h] \in 0 .. Cap
    BY DEF FilingInv, FilingShape, FilingTypeOK
  <2> QED BY <2>1, FilingAssumption
<1> QED
  BY <1>1, FilingInvariant, PTL

LEMMA WholeFollows == ASSUME FilingInv PROVE FilingIsWhole
<1>1. ASSUME NEW f \in Form PROVE Cardinality(notes[f]) <= 1
  <2>1. \A d, e \in notes[f] : d = e
    BY DEF FilingInv, Noting, NotedOnce
  <2>2. CASE notes[f] = {}
    BY <2>2, FS_EmptySet
  <2>3. CASE notes[f] # {}
    <3>1. PICK d \in notes[f] : TRUE
      BY <2>3
    <3>2. notes[f] = {d}
      BY <2>1
    <3>3. Cardinality({d}) = 1
      BY FS_Singleton
    <3> QED
      BY <3>2, <3>3
  <2> QED
    BY <2>2, <2>3
<1>2. ASSUME faults = 0, ~moved, Working = {}
      PROVE  /\ stored \subseteq filed \cup Skipped
             /\ \A f \in filed : notes[f] # {}
             /\ \A c \in Active : madeIn[c] # 0 => c \in told
  <2>1. Quiet /\ \A d \in Delivery : stage[d] \notin Steps
    BY <1>2 DEF Quiet, Working
  <2>2. stored \subseteq filed \cup Skipped
    BY <2>1 DEF FilingInv, Whole, FormsSettle, Unsettled
  <2>3. \A f \in filed : notes[f] # {}
    BY <2>1 DEF FilingInv, Whole, NotesFollow
  <2>4. \A d \in Delivery : ~ made[d]
    BY <2>1 DEF FilingInv, FilingShape, StagesMatch
  <2>5. \A c \in Active : madeIn[c] # 0 => c \in told
    BY <2>1, <2>4 DEF FilingInv, Whole, WordFollows, Active
  <2> QED
    BY <2>2, <2>3, <2>5
<1> QED
  BY <1>1, <1>2 DEF FilingIsWhole

(* A form is noted once however often it arrives; without a fault, and     *)
(* with no contact moved under a delivery, every stored form ends filed or *)
(* refused, each filed one has its note, and the agent hears of each       *)
(* contact that filing made (file and attach of tracking-filing.service.ts).*)
THEOREM FiledWhole == FilingSpec => []FilingIsWhole
BY WholeFollows, FilingInvariant, PTL

LEMMA ReturnsByEarlier ==
  ASSUME FilingInv, FilingNext, suppressed, suppressed', Returns
  PROVE  \/ \E d \in ahead : stage[d] = "create" /\ stage'[d] = "claim"
         \/ stale /\ pass = "creating"
<1>1. PICK c \in Contact : contacts[c] = "none" /\ contacts'[c] = "active"
  BY DEF Returns
<1>2. contacts' # contacts
  BY <1>1
<1>3. ~ (RepAdds \/ \E b \in Contact : Archive(b) \/ Restore(b) \/ Purge(b))
  BY <1>1 DEF FilingInv, FilingShape, FilingTypeOK, RepAdds, Archive, Restore, Purge, Active
<1>4. CASE CreateFromMail
  BY <1>4 DEF FilingInv, DeletedKnown, CreateFromMail
<1>5. ASSUME NEW d \in Delivery, Create(d)
      PROVE  d \in ahead /\ stage[d] = "create" /\ stage'[d] = "claim"
  <2>1. stage[d] = "create" /\ d \in ahead
    BY <1>5 DEF FilingInv, DeletedKnown, Passing, Create
  <2>2. Goes(d, "claim")
    BY <1>2, <1>5 DEF Create
  <2> QED
    BY <2>1, <2>2 DEF FilingInv, FilingShape, FilingTypeOK, Goes
<1>6. ASSUME \/ HourPasses \/ ReadContext \/ Resolve \/ EndPass
             \/ \E d \in Delivery :
                  \/ \E batch \in SUBSET Form : Deliver(d, batch)
                  \/ \E f \in Form : Submission(d, f)
                  \/ Finish(d) \/ CheckSuppressed(d) \/ FindContact(d) \/ Take(d)
                  \/ Release(d) \/ Raced(d) \/ Claim(d) \/ WriteNote(d)
                  \/ UpsertVisitor(d) \/ Tell(d) \/ Skip(d) \/ CounterFails(d) \/ Dies(d)
      PROVE  contacts' = contacts
  BY <1>6 DEF HourPasses, ReadContext, Resolve, EndPass, Deliver, Submission, Finish,
              CheckSuppressed, FindContact, Take, Release, Raced, Claim, WriteNote,
              UpsertVisitor, Tell, Skip, CounterFails, Dies
<1> QED
  BY <1>2, <1>3, <1>4, <1>5, <1>6 DEF FilingNext, Files

(* Who has an address that a rep deleted comes back only by a delivery or  *)
(* a pass that read the deleted addresses before (isSuppressed of          *)
(* tracking-filing.service.ts, context of mailbox-match.service.ts).       *)
THEOREM DeletedReturns == FilingSpec => DeletedStaysUnlessEarlier
<1>1. FilingInv /\ [FilingNext]_filingVars
        => [suppressed /\ suppressed' /\ Returns
              => \/ \E d \in ahead : stage[d] = "create" /\ stage'[d] = "claim"
                 \/ stale /\ pass = "creating"]_filingVars
  BY ReturnsByEarlier
<1> QED
  BY <1>1, FilingInvariant, PTL DEF FilingSpec, DeletedStaysUnlessEarlier

HIDE DEF Contact, Hour, Steps, Attaching, Charged, crm, clock, forms, own, mail, ghost

-----------------------------------------------------------------------------
(* A row that an operation will touch exists, and what a call brings is a  *)
(* value.                                                                  *)
SubjectsStored ==
  \A o \in Rep \cup Sweeper : pc[o] \in {"scan", "write", "dismiss"} => subject[o] \in Stored
RowsStored  == \A o \in Op : rows[o] \subseteq Stored
OfferIsReal == \A c \in Call : pc[c] \in {"offer", "scan", "write"} => offer[c] # Blank
CallsOwn    == \A c \in Call : subject[c] = None

(* A transaction that nobody overlapped has every applied row in its scan. *)
ScannedAll ==
  ~overlapped => \A o \in Op : pc[o] = "write" => At("APPLIED") \subseteq rows[o] \cup {RowOf(o)}

(* While a person's value stands, the rule that protects it holds of it,   *)
(* and what began since has read it and applies nothing.                   *)
Standing ==
  theirs => /\ author = "typed" /\ field # "bare" /\ record # Blank
            /\ field = "name" => record \notin Handle
            /\ field = "column" => At("APPLIED") = {}
ReadSince ==
  theirs => \A o \in (Call \cup Sweeper) \ early :
              /\ pc[o] \notin {"scan", "write"}
              /\ pc[o] = "read" => seen[o] = record

Shape == TypeOK /\ SubjectsStored /\ RowsStored /\ OfferIsReal /\ CallsOwn

IInv ==
  /\ Shape
  /\ ScannedAll /\ OneAppliedUnlessOverlapped /\ RecordShowsApplied
  /\ Standing /\ ReadSince

USE DEF Fact, Op, None, Status, contact, facts, mine

-----------------------------------------------------------------------------
(* ContactFacts: the shape.                                                 *)

LEMMA InitShape == ASSUME Init PROVE Shape
<1>1. PICK was \in [Legacy -> Value] :
        value = [f \in Fact |-> IF f \in Legacy THEN was[f] ELSE Blank]
  BY DEF Init
<1>2. \A f \in Stored : value[f] # Blank
  BY <1>1, ConstantsAssumption DEF Init, Stored
<1>3. TypeOK
  BY <1>1, <1>2 DEF Init, TypeOK
<1> QED
  BY <1>3 DEF Init, Shape, SubjectsStored, RowsStored, OfferIsReal, CallsOwn

LEMMA InitInv == ASSUME Init PROVE IInv
<1>1. Shape /\ At("APPLIED") = {}
  BY InitShape, ConstantsAssumption DEF Init, At
<1> QED
  BY <1>1 DEF Init, IInv, ScannedAll, OneAppliedUnlessOverlapped, RecordShowsApplied,
              Standing, ReadSince

LEMMA ScanShape ==
  ASSUME Shape, NEW o \in Op, Scan(o)
  PROVE  Shape'
BY ConstantsAssumption
   DEF Shape, TypeOK, SubjectsStored, RowsStored, OfferIsReal, CallsOwn, Stored, At,
       Scan, Live, SupersededBy

LEMMA WriteShape ==
  ASSUME Shape, NEW o \in Op, Write(o)
  PROVE  Shape'
BY ConstantsAssumption
   DEF Shape, TypeOK, SubjectsStored, RowsStored, OfferIsReal, CallsOwn, Stored, At,
       Write, RowOf, NewValue, Recorded, Ends

LEMMA FailShape ==
  ASSUME Shape, NEW o \in Op, NEW e \in Fault, Fail(o, e)
  PROVE  Shape'
BY ConstantsAssumption
   DEF Shape, TypeOK, SubjectsStored, RowsStored, OfferIsReal, CallsOwn, Stored, At,
       Fail, Over, Ends

LEMMA ReadContactShape ==
  ASSUME Shape, NEW c \in Call, ReadContact(c)
  PROVE  Shape'
BY ConstantsAssumption
   DEF Shape, TypeOK, SubjectsStored, RowsStored, OfferIsReal, CallsOwn, Stored, At,
       ReadContact

LEMMA RecordFactShape ==
  ASSUME Shape, NEW c \in Call, NEW v \in Value, NEW verified \in BOOLEAN,
         RecordFact(c, v, verified)
  PROVE  Shape'
BY ConstantsAssumption
   DEF Shape, TypeOK, SubjectsStored, RowsStored, OfferIsReal, CallsOwn, Stored, At,
       RecordFact, Over, Ends

LEMMA OfferShape ==
  ASSUME Shape, NEW c \in Call, Offer(c)
  PROVE  Shape'
BY ConstantsAssumption
   DEF Shape, TypeOK, SubjectsStored, RowsStored, OfferIsReal, CallsOwn, Stored, At,
       Offer, Over, Ends

LEMMA DecideShape ==
  ASSUME Shape, NEW r \in Rep, NEW f \in Fact, NEW d \in {"scan", "dismiss"}, Decide(r, f, d)
  PROVE  Shape'
BY ConstantsAssumption
   DEF Shape, TypeOK, SubjectsStored, RowsStored, OfferIsReal, CallsOwn, Stored, At,
       Decide

LEMMA DismissShape ==
  ASSUME Shape, NEW r \in Rep, Dismiss(r)
  PROVE  Shape'
BY ConstantsAssumption
   DEF Shape, TypeOK, SubjectsStored, RowsStored, OfferIsReal, CallsOwn, Stored, At,
       Dismiss, Over, Ends

LEMMA TypeShape ==
  ASSUME Shape, NEW v \in Value \cup {Blank}, Type(v)
  PROVE  Shape'
BY ConstantsAssumption
   DEF Shape, TypeOK, SubjectsStored, RowsStored, OfferIsReal, CallsOwn, Stored, At,
       Type, Protected

LEMMA ListProposalsShape ==
  ASSUME Shape, NEW w \in Sweeper, ListProposals(w)
  PROVE  Shape'
BY ConstantsAssumption
   DEF Shape, TypeOK, SubjectsStored, RowsStored, OfferIsReal, CallsOwn, Stored, At,
       ListProposals

LEMMA SweepFieldShape ==
  ASSUME Shape, NEW w \in Sweeper, SweepField(w)
  PROVE  Shape'
BY ConstantsAssumption
   DEF Shape, TypeOK, SubjectsStored, RowsStored, OfferIsReal, CallsOwn, Stored, At,
       SweepField, Keeps, Over, Ends

LEMMA SettleShape ==
  ASSUME Shape, NEW w \in Sweeper, Settle(w)
  PROVE  Shape'
BY ConstantsAssumption
   DEF Shape, TypeOK, SubjectsStored, RowsStored, OfferIsReal, CallsOwn, Stored, At,
       Settle, Over, Ends

-----------------------------------------------------------------------------
(* What is applied: one row, and it is on the record.                      *)

LEMMA ScanApplied ==
  ASSUME IInv, NEW o \in Op, Scan(o)
  PROVE  ScannedAll' /\ OneAppliedUnlessOverlapped' /\ RecordShowsApplied'
<1>1. rows' = [rows EXCEPT ![o] = Live \ {subject[o]}] /\ pc' = [pc EXCEPT ![o] = "write"]
      /\ UNCHANGED <<contact, facts, subject, overlapped>>
  BY DEF Scan
<1>2. At("APPLIED") \subseteq Live /\ At("APPLIED")' = At("APPLIED")
  BY <1>1 DEF Live, SupersededBy, At
<1>3. At("APPLIED") \subseteq rows'[o] \cup {RowOf(o)}
  <2>1. rows'[o] = Live \ {subject[o]}
    BY <1>1 DEF IInv, Shape, TypeOK
  <2>2. CASE o \in Call
    BY <1>2, <2>1, <2>2, ConstantsAssumption DEF IInv, Shape, CallsOwn, At
  <2>3. CASE o \notin Call
    BY <1>2, <2>1, <2>3 DEF RowOf
  <2> QED BY <2>2, <2>3
<1>4. \A p \in Op : RowOf(p)' = RowOf(p)
  BY <1>1 DEF RowOf
<1>5. ScannedAll'
  BY <1>1, <1>2, <1>3, <1>4 DEF IInv, Shape, TypeOK, ScannedAll
<1> QED
  BY <1>1, <1>2, <1>5 DEF IInv, OneAppliedUnlessOverlapped, RecordShowsApplied

LEMMA WriteApplied ==
  ASSUME IInv, NEW o \in Op, Write(o)
  PROVE  ScannedAll' /\ OneAppliedUnlessOverlapped' /\ RecordShowsApplied'
<1>1. CASE overlapped'
  BY <1>1 DEF ScannedAll, OneAppliedUnlessOverlapped, RecordShowsApplied
<1>2. CASE ~overlapped'
  <2>1. ~overlapped /\ pc[o] = "write" /\ (\A p \in Op \ {o} : pc[p] # "write")
    BY <1>2 DEF Write
  <2>2. At("APPLIED") \subseteq rows[o] \cup {RowOf(o)}
    BY <2>1 DEF IInv, ScannedAll
  <2>3. At("APPLIED") \subseteq Live
    BY DEF Live, SupersededBy
  <2>4. At("APPLIED")' \subseteq {RowOf(o)}
    BY <2>2, <2>3 DEF Write, At
  <2>5. \A p \in Op : pc'[p] # "write"
    BY <2>1 DEF Write, Ends, IInv, Shape, TypeOK
  <2>6. RowOf(o) \in Fact => value'[RowOf(o)] = NewValue(o)
    BY DEF Write, IInv, Shape, TypeOK
  <2>7. field' # "bare" => record' = NewValue(o)
    BY DEF Write, Recorded
  <2>8. At("APPLIED")' \subseteq Fact
    BY DEF At
  <2> QED
    BY <2>4, <2>5, <2>6, <2>7, <2>8 DEF ScannedAll, OneAppliedUnlessOverlapped, RecordShowsApplied
<1> QED BY <1>1, <1>2

LEMMA FailApplied ==
  ASSUME IInv, NEW o \in Op, NEW e \in Fault, Fail(o, e)
  PROVE  ScannedAll' /\ OneAppliedUnlessOverlapped' /\ RecordShowsApplied'
BY ConstantsAssumption
   DEF IInv, Shape, TypeOK, ScannedAll, OneAppliedUnlessOverlapped, RecordShowsApplied, At, RowOf,
       Fail, Over, Ends

LEMMA ReadContactApplied ==
  ASSUME IInv, NEW c \in Call, ReadContact(c)
  PROVE  ScannedAll' /\ OneAppliedUnlessOverlapped' /\ RecordShowsApplied'
BY ConstantsAssumption
   DEF IInv, Shape, TypeOK, ScannedAll, OneAppliedUnlessOverlapped, RecordShowsApplied, At, RowOf,
       ReadContact

LEMMA RecordFactApplied ==
  ASSUME IInv, NEW c \in Call, NEW v \in Value, NEW verified \in BOOLEAN,
         RecordFact(c, v, verified)
  PROVE  ScannedAll' /\ OneAppliedUnlessOverlapped' /\ RecordShowsApplied'
BY ConstantsAssumption
   DEF IInv, Shape, TypeOK, ScannedAll, OneAppliedUnlessOverlapped, RecordShowsApplied, At, RowOf,
       RecordFact, Over, Ends

LEMMA OfferApplied ==
  ASSUME IInv, NEW c \in Call, Offer(c)
  PROVE  ScannedAll' /\ OneAppliedUnlessOverlapped' /\ RecordShowsApplied'
BY ConstantsAssumption
   DEF IInv, Shape, TypeOK, ScannedAll, OneAppliedUnlessOverlapped, RecordShowsApplied, At, RowOf,
       Offer, Over, Ends

LEMMA DecideApplied ==
  ASSUME IInv, NEW r \in Rep, NEW f \in Fact, NEW d \in {"scan", "dismiss"}, Decide(r, f, d)
  PROVE  ScannedAll' /\ OneAppliedUnlessOverlapped' /\ RecordShowsApplied'
BY ConstantsAssumption
   DEF IInv, Shape, TypeOK, ScannedAll, OneAppliedUnlessOverlapped, RecordShowsApplied, At, RowOf,
       Decide

LEMMA DismissApplied ==
  ASSUME IInv, NEW r \in Rep, Dismiss(r)
  PROVE  ScannedAll' /\ OneAppliedUnlessOverlapped' /\ RecordShowsApplied'
BY ConstantsAssumption
   DEF IInv, Shape, TypeOK, ScannedAll, OneAppliedUnlessOverlapped, RecordShowsApplied, At, RowOf,
       Dismiss, Over, Ends

LEMMA TypeApplied ==
  ASSUME IInv, NEW v \in Value \cup {Blank}, Type(v)
  PROVE  ScannedAll' /\ OneAppliedUnlessOverlapped' /\ RecordShowsApplied'
BY ConstantsAssumption
   DEF IInv, Shape, TypeOK, ScannedAll, OneAppliedUnlessOverlapped, RecordShowsApplied, At, RowOf,
       Type, Protected

LEMMA ListProposalsApplied ==
  ASSUME IInv, NEW w \in Sweeper, ListProposals(w)
  PROVE  ScannedAll' /\ OneAppliedUnlessOverlapped' /\ RecordShowsApplied'
BY ConstantsAssumption
   DEF IInv, Shape, TypeOK, ScannedAll, OneAppliedUnlessOverlapped, RecordShowsApplied, At, RowOf,
       ListProposals

LEMMA SweepFieldApplied ==
  ASSUME IInv, NEW w \in Sweeper, SweepField(w)
  PROVE  ScannedAll' /\ OneAppliedUnlessOverlapped' /\ RecordShowsApplied'
BY ConstantsAssumption
   DEF IInv, Shape, TypeOK, ScannedAll, OneAppliedUnlessOverlapped, RecordShowsApplied, At, RowOf,
       SweepField, Over, Ends

LEMMA SettleApplied ==
  ASSUME IInv, NEW w \in Sweeper, Settle(w)
  PROVE  ScannedAll' /\ OneAppliedUnlessOverlapped' /\ RecordShowsApplied'
BY ConstantsAssumption
   DEF IInv, Shape, TypeOK, ScannedAll, OneAppliedUnlessOverlapped, RecordShowsApplied, At, RowOf,
       Settle, Over, Ends

-----------------------------------------------------------------------------
(* What a person typed stands.                                             *)

LEMMA ScanStanding ==
  ASSUME IInv, NEW o \in Op, Scan(o)
  PROVE  Standing' /\ ReadSince'
BY ConstantsAssumption
   DEF IInv, Shape, TypeOK, SubjectsStored, Standing, ReadSince, At, Stored,
       Scan, Live, SupersededBy

LEMMA WriteStanding ==
  ASSUME IInv, NEW o \in Op, Write(o)
  PROVE  Standing' /\ ReadSince'
BY ConstantsAssumption
   DEF IInv, Shape, TypeOK, SubjectsStored, Standing, ReadSince, At, Stored,
       Write, Live, SupersededBy, NewValue, Recorded, Ends

LEMMA FailStanding ==
  ASSUME IInv, NEW o \in Op, NEW e \in Fault, Fail(o, e)
  PROVE  Standing' /\ ReadSince'
BY ConstantsAssumption
   DEF IInv, Shape, TypeOK, SubjectsStored, Standing, ReadSince, At, Stored,
       Fail, Over, Ends

LEMMA ReadContactStanding ==
  ASSUME IInv, NEW c \in Call, ReadContact(c)
  PROVE  Standing' /\ ReadSince'
BY ConstantsAssumption
   DEF IInv, Shape, TypeOK, SubjectsStored, Standing, ReadSince, At, Stored,
       ReadContact

LEMMA RecordFactStanding ==
  ASSUME IInv, NEW c \in Call, NEW v \in Value, NEW verified \in BOOLEAN,
         RecordFact(c, v, verified)
  PROVE  Standing' /\ ReadSince'
BY ConstantsAssumption
   DEF IInv, Shape, TypeOK, SubjectsStored, Standing, ReadSince, At, Stored,
       RecordFact, Over, Ends, Refused, Applies, FillsBlank, HumanOwns, AppliedRow

LEMMA OfferStanding ==
  ASSUME IInv, NEW c \in Call, Offer(c)
  PROVE  Standing' /\ ReadSince'
BY ConstantsAssumption
   DEF IInv, Shape, TypeOK, SubjectsStored, Standing, ReadSince, At, Stored,
       Offer, Over, Ends

LEMMA DecideStanding ==
  ASSUME IInv, NEW r \in Rep, NEW f \in Fact, NEW d \in {"scan", "dismiss"}, Decide(r, f, d)
  PROVE  Standing' /\ ReadSince'
BY ConstantsAssumption
   DEF IInv, Shape, TypeOK, SubjectsStored, Standing, ReadSince, At, Stored,
       Decide

LEMMA DismissStanding ==
  ASSUME IInv, NEW r \in Rep, Dismiss(r)
  PROVE  Standing' /\ ReadSince'
BY ConstantsAssumption
   DEF IInv, Shape, TypeOK, SubjectsStored, Standing, ReadSince, At, Stored,
       Dismiss, Over, Ends

LEMMA TypeStanding ==
  ASSUME IInv, NEW v \in Value \cup {Blank}, Type(v)
  PROVE  Standing' /\ ReadSince'
BY ConstantsAssumption
   DEF IInv, Shape, TypeOK, SubjectsStored, Standing, ReadSince, At, Stored,
       Type, Protected

LEMMA ListProposalsStanding ==
  ASSUME IInv, NEW w \in Sweeper, ListProposals(w)
  PROVE  Standing' /\ ReadSince'
BY ConstantsAssumption
   DEF IInv, Shape, TypeOK, SubjectsStored, Standing, ReadSince, At, Stored,
       ListProposals

LEMMA SweepFieldStanding ==
  ASSUME IInv, NEW w \in Sweeper, SweepField(w)
  PROVE  Standing' /\ ReadSince'
BY ConstantsAssumption
   DEF IInv, Shape, TypeOK, SubjectsStored, Standing, ReadSince, At, Stored,
       SweepField, Over, Ends, Refused, Applies, FillsBlank, HumanOwns, AppliedRow

LEMMA SettleStanding ==
  ASSUME IInv, NEW w \in Sweeper, Settle(w)
  PROVE  Standing' /\ ReadSince'
BY ConstantsAssumption
   DEF IInv, Shape, TypeOK, SubjectsStored, Standing, ReadSince, At, Stored,
       Settle, Over, Ends

-----------------------------------------------------------------------------
(* The theorems.                                                           *)

LEMMA ShapeStep ==
  ASSUME IInv, [Next]_vars
  PROVE  Shape'
<1>1. ASSUME NEW c \in Call, Recording(c) PROVE Shape'
  BY <1>1, ReadContactShape, RecordFactShape, OfferShape DEF Recording, IInv
<1>2. ASSUME NEW r \in Rep, Deciding(r) PROVE Shape'
  BY <1>2, DecideShape, DismissShape DEF Deciding, IInv
<1>3. ASSUME NEW w \in Sweeper, Sweeping(w) PROVE Shape'
  BY <1>3, ListProposalsShape, SweepFieldShape, SettleShape DEF Sweeping, IInv
<1>4. ASSUME NEW o \in Op, Applying(o) PROVE Shape'
  BY <1>4, ScanShape, WriteShape DEF Applying, IInv
<1>5. ASSUME UNCHANGED vars PROVE Shape'
  BY <1>5 DEF vars, IInv, Shape, TypeOK, SubjectsStored, RowsStored, OfferIsReal, CallsOwn, Stored
<1> QED
  BY <1>1, <1>2, <1>3, <1>4, <1>5, FailShape, TypeShape DEF Next, IInv

LEMMA AppliedStep ==
  ASSUME IInv, [Next]_vars
  PROVE  ScannedAll' /\ OneAppliedUnlessOverlapped' /\ RecordShowsApplied'
<1>1. ASSUME NEW c \in Call, Recording(c) PROVE ScannedAll' /\ OneAppliedUnlessOverlapped' /\ RecordShowsApplied'
  BY <1>1, ReadContactApplied, RecordFactApplied, OfferApplied DEF Recording
<1>2. ASSUME NEW r \in Rep, Deciding(r) PROVE ScannedAll' /\ OneAppliedUnlessOverlapped' /\ RecordShowsApplied'
  BY <1>2, DecideApplied, DismissApplied DEF Deciding
<1>3. ASSUME NEW w \in Sweeper, Sweeping(w) PROVE ScannedAll' /\ OneAppliedUnlessOverlapped' /\ RecordShowsApplied'
  BY <1>3, ListProposalsApplied, SweepFieldApplied, SettleApplied DEF Sweeping
<1>4. ASSUME NEW o \in Op, Applying(o) PROVE ScannedAll' /\ OneAppliedUnlessOverlapped' /\ RecordShowsApplied'
  BY <1>4, ScanApplied, WriteApplied DEF Applying
<1>5. ASSUME UNCHANGED vars PROVE ScannedAll' /\ OneAppliedUnlessOverlapped' /\ RecordShowsApplied'
  BY <1>5 DEF vars, IInv, ScannedAll, OneAppliedUnlessOverlapped, RecordShowsApplied, At, RowOf
<1> QED
  BY <1>1, <1>2, <1>3, <1>4, <1>5, FailApplied, TypeApplied DEF Next

LEMMA StandingStep ==
  ASSUME IInv, [Next]_vars
  PROVE  Standing' /\ ReadSince'
<1>1. ASSUME NEW c \in Call, Recording(c) PROVE Standing' /\ ReadSince'
  BY <1>1, ReadContactStanding, RecordFactStanding, OfferStanding DEF Recording
<1>2. ASSUME NEW r \in Rep, Deciding(r) PROVE Standing' /\ ReadSince'
  BY <1>2, DecideStanding, DismissStanding DEF Deciding
<1>3. ASSUME NEW w \in Sweeper, Sweeping(w) PROVE Standing' /\ ReadSince'
  BY <1>3, ListProposalsStanding, SweepFieldStanding, SettleStanding DEF Sweeping
<1>4. ASSUME NEW o \in Op, Applying(o) PROVE Standing' /\ ReadSince'
  BY <1>4, ScanStanding, WriteStanding DEF Applying
<1>5. ASSUME UNCHANGED vars PROVE Standing' /\ ReadSince'
  BY <1>5 DEF vars, IInv, Standing, ReadSince, At
<1> QED
  BY <1>1, <1>2, <1>3, <1>4, <1>5, FailStanding, TypeStanding DEF Next

(* Every operation preserves the invariant (facts.ts, blank-facts.ts,      *)
(* decideFact and update of contacts.service.ts).                          *)
THEOREM Invariant == Spec => []IInv
<1>1. Init => IInv
  BY InitInv
<1>2. IInv /\ [Next]_vars => IInv'
  BY ShapeStep, AppliedStep, StandingStep DEF IInv
<1> QED
  BY <1>1, <1>2, PTL DEF Spec

(* Every variable keeps its type; a fact that exists has a value, and one  *)
(* without a column is not written on the contact.                         *)
THEOREM TypeCorrect == Spec => []TypeOK
<1>1. IInv => TypeOK
  BY DEF IInv, Shape
<1> QED BY <1>1, Invariant, PTL

(* Without overlapping transactions a field has one applied fact.          *)
THEOREM OneApplied == Spec => []OneAppliedUnlessOverlapped
<1>1. IInv => OneAppliedUnlessOverlapped
  BY DEF IInv
<1> QED BY <1>1, Invariant, PTL

(* The contact says what its applied fact says until someone types.        *)
THEOREM RecordShows == Spec => []RecordShowsApplied
<1>1. IInv => RecordShowsApplied
  BY DEF IInv
<1> QED BY <1>1, Invariant, PTL

(* What a person typed into a field no fact was applied to is replaced     *)
(* only by an operation that had begun before.                             *)
THEOREM PersonStands == Spec => PersonOutranks
<1> DEFINE Allowed == theirs /\ author' = "found"
                        => \E o \in early : pc[o] = "write" /\ pc'[o] # "write"
<1>1. ASSUME IInv, Next, theirs, author' = "found"
      PROVE  \E o \in early : pc[o] = "write" /\ pc'[o] # "write"
  <2>1. author # "found"
    BY <1>1 DEF IInv, Standing
  <2>2. PICK o \in Op : Write(o)
    BY <1>1, <2>1 DEF Next, Recording, Deciding, Sweeping, Applying, Fail, ReadContact, RecordFact,
       Offer, Decide, Dismiss, Type, ListProposals, SweepField, Settle, Scan
  <2>3. o \in Call \cup Sweeper
    BY <1>1, <2>2 DEF Write
  <2>4. o \in early
    BY <1>1, <2>2, <2>3 DEF IInv, ReadSince, Write
  <2>5. pc[o] = "write" /\ pc'[o] # "write"
    BY <1>1, <2>2 DEF IInv, Shape, TypeOK, Write, Ends
  <2> QED BY <2>4, <2>5
<1>2. IInv /\ [Next]_vars => [Allowed]_vars
  BY <1>1
<1> QED BY <1>2, Invariant, PTL DEF Spec, PersonOutranks
=============================================================================
