------------------------------ MODULE FormFiling ------------------------------
(***************************************************************************)
(* Forms posted from a website under one email address: a batch of them is *)
(* stored and filed one after the other (tracking-ingest.service.ts,       *)
(* tracking-filing.service.ts) against an hourly cap on new contacts       *)
(* (tracking-counter.service.ts), while reps add, archive, restore and     *)
(* delete the contact with that address (contacts.service.ts) and a pass   *)
(* over a mailbox looks for it (mailbox-match.service.ts).                 *)
(*                                                                         *)
(* No step of filing shares a transaction with another.  The address is    *)
(* one a human reads; the forms that name none are refused as soon as they *)
(* are stored and are left out.  Two deliveries of one form have the same  *)
(* dedupe key.                                                             *)
(***************************************************************************)
EXTENDS Naturals, FiniteSets

CONSTANTS
  Form,        \* the forms, each a dedupe key
  NoForm,      \* no form
  Delivery,    \* batches that reach the API
  MaxContacts, \* bound on the contacts that ever have the address
  MaxHours,    \* bound on the hours of the counter
  Cap,         \* CONTACTS_PER_HOUR
  MaxFaults    \* bound on statements that throw and processes that stop

ASSUME FilingAssumption ==
  /\ NoForm \notin Form /\ IsFiniteSet(Delivery)
  /\ MaxContacts \in Nat /\ MaxHours \in Nat \ {0}
  /\ Cap \in Nat /\ MaxFaults \in Nat

Contact == 1 .. MaxContacts
Hour    == 1 .. MaxHours

VARIABLES
  contacts,   \* the contacts: none yet, active, archived, gone
  madeIn,     \* the hour whose slot filing made one with; 0 for a rep's
  told,       \* the contacts filing made and asked the agent about
  suppressed, \* a rep deleted the address
  hour,       \* the hour it is
  slots,      \* the counter of each hour
  stored,     \* the forms on record
  filed,      \* those with a filedAt
  reason,     \* the skipReason of each
  notes,      \* the deliveries that wrote each form's note
  visitor,    \* the contact the browser was identified as; 0 for none
  stage,      \* where each delivery is
  left,       \* the forms it still has to store
  form,       \* the form it is filing
  target,     \* the contact it attaches that to; 0 for none
  held,       \* the hour whose slot it holds; 0 for none
  made,       \* it made that contact
  pass,       \* the pass over a mailbox: idle, matching, creating
  stale,      \* it read the suppressed addresses before a deletion
  ahead,      \* the deliveries that passed the check before a deletion
  moved,      \* a contact was archived or deleted during a delivery
  faults

filingVars == <<contacts, madeIn, told, suppressed, hour, slots, stored, filed,
                reason, notes, visitor, stage, left, form, target, held, made,
                pass, stale, ahead, moved, faults>>
crm   == <<contacts, madeIn, told, suppressed>>
clock == <<hour, slots>>
forms == <<stored, filed, reason, notes, visitor>>
own   == <<left, form, target, held, made>>
mail  == <<pass, stale>>
ghost == <<pass, stale, ahead, moved, faults>>

Steps == {"check", "find", "charge", "create", "release", "raced", "claim",
          "note", "visitor", "tell", "deleted", "cap"}

(* Types; a form is filed once it is stored, and no hour makes more        *)
(* contacts than the cap.                                                  *)
FilingTypeOK ==
  /\ contacts \in [Contact -> {"none", "active", "archived", "gone"}]
  /\ madeIn \in [Contact -> 0 .. MaxHours] /\ told \subseteq Contact
  /\ suppressed \in BOOLEAN
  /\ hour \in Hour /\ slots \in [Hour -> 0 .. Cap]
  /\ stored \subseteq Form
  /\ filed \subseteq stored
  /\ reason \in [Form -> {"none", "deleted", "cap"}]
  /\ notes \in [Form -> SUBSET Delivery]
  /\ visitor \in 0 .. MaxContacts
  /\ stage \in [Delivery -> Steps \cup {"idle", "next", "over"}]
  /\ left \in [Delivery -> SUBSET Form]
  /\ form \in [Delivery -> Form \cup {NoForm}]
  /\ target \in [Delivery -> 0 .. MaxContacts]
  /\ held \in [Delivery -> 0 .. MaxHours]
  /\ made \in [Delivery -> BOOLEAN]
  /\ pass \in {"idle", "matching", "creating"} /\ stale \in BOOLEAN
  /\ ahead \subseteq Delivery /\ moved \in BOOLEAN
  /\ faults \in 0 .. MaxFaults

FilingInit ==
  /\ contacts = [c \in Contact |-> "none"] /\ madeIn = [c \in Contact |-> 0]
  /\ told = {} /\ suppressed = FALSE
  /\ hour = 1 /\ slots = [h \in Hour |-> 0]
  /\ stored = {} /\ filed = {} /\ reason = [f \in Form |-> "none"]
  /\ notes = [f \in Form |-> {}] /\ visitor = 0
  /\ stage = [d \in Delivery |-> "idle"] /\ left = [d \in Delivery |-> {}]
  /\ form = [d \in Delivery |-> NoForm] /\ target = [d \in Delivery |-> 0]
  /\ held = [d \in Delivery |-> 0] /\ made = [d \in Delivery |-> FALSE]
  /\ pass = "idle" /\ stale = FALSE
  /\ ahead = {} /\ moved = FALSE /\ faults = 0

Active  == {c \in Contact : contacts[c] = "active"}
Coming  == {c \in Contact : /\ contacts[c] = "none"
                            /\ \A b \in 1 .. c - 1 : contacts[b] # "none"}
Skipped == {f \in Form : reason[f] # "none"}
Passing == {d \in Delivery : stage[d] \in {"find", "charge", "create"}}
Working == {d \in Delivery : stage[d] \notin {"idle", "over"}}

(* Fault: nobody asks what a rep deleted.                                  *)
DeclinedNever == FALSE
Declined == suppressed

-----------------------------------------------------------------------------
(* Reps and time.                                                          *)

(* create looks for an active contact, and the unique index looks again.   *)
(* A contact added by hand lifts the suppression.                          *)
RepAdds ==
  /\ Active = {}
  /\ \E c \in Coming : contacts' = [contacts EXCEPT ![c] = "active"]
  /\ suppressed' = FALSE
  /\ UNCHANGED <<madeIn, told, clock, forms, stage, own, ghost>>

Archive(c) ==
  /\ c \in Active
  /\ contacts' = [contacts EXCEPT ![c] = "archived"]
  /\ moved' = (moved \/ Working # {})
  /\ UNCHANGED <<madeIn, told, suppressed, clock, forms, stage, own, mail, ahead,
                 faults>>

(* The index on the address covers the active contacts only.               *)
Restore(c) ==
  /\ contacts[c] = "archived" /\ Active = {}
  /\ contacts' = [contacts EXCEPT ![c] = "active"]
  /\ UNCHANGED <<madeIn, told, suppressed, clock, forms, stage, own, ghost>>

(* purge, by a rep or by the retention: the address is suppressed, and the *)
(* browser and the forms lose the contact.                                 *)
Purge(c) ==
  /\ contacts[c] \in {"active", "archived"}
  /\ contacts' = [contacts EXCEPT ![c] = "gone"]
  /\ told' = told \ {c}
  /\ suppressed' = TRUE
  /\ visitor' = IF visitor = c THEN 0 ELSE visitor
  /\ ahead' = ahead \cup Passing
  /\ moved' = (moved \/ Working # {})
  /\ stale' = (pass # "idle")
  /\ UNCHANGED <<madeIn, clock, stored, filed, reason, notes, stage, own, pass,
                 faults>>

HourPasses ==
  /\ hour < MaxHours /\ hour' = hour + 1
  /\ UNCHANGED <<crm, slots, forms, stage, own, ghost>>

-----------------------------------------------------------------------------
(* A pass over a mailbox with messages of that address, in a thread we     *)
(* answered.                                                               *)

(* context is read once for the pass, which leaves the address out when it *)
(* is suppressed.                                                          *)
ReadContext ==
  /\ pass = "idle" /\ ~ Declined
  /\ pass' = "matching"
  /\ UNCHANGED <<crm, clock, forms, stage, own, stale, ahead, moved, faults>>

(* resolve takes any contact with the address, an archived one too.        *)
Resolve ==
  /\ pass = "matching"
  /\ \A c \in Contact : contacts[c] \notin {"active", "archived"}
  /\ pass' = "creating"
  /\ UNCHANGED <<crm, clock, forms, stage, own, stale, ahead, moved, faults>>

(* createContact looks again in the transaction that makes one.            *)
CreateFromMail ==
  /\ pass = "creating"
  /\ pass' = "matching"
  /\ \/ /\ \E c \in Contact : contacts[c] \in {"active", "archived"}
        /\ UNCHANGED contacts
     \/ /\ Active = {}
        /\ \E c \in Coming : contacts' = [contacts EXCEPT ![c] = "active"]
  /\ UNCHANGED <<madeIn, told, suppressed, clock, forms, stage, own, stale, ahead,
                 moved, faults>>

(* The pass ends, also because a statement of it throws.                   *)
EndPass ==
  /\ pass # "idle"
  /\ pass' = "idle" /\ stale' = FALSE
  /\ UNCHANGED <<crm, clock, forms, stage, own, ahead, moved, faults>>

-----------------------------------------------------------------------------
(* A delivery.                                                             *)

Goes(d, step) == stage' = [stage EXCEPT ![d] = step]
Leaves(d) ==
  /\ form' = [form EXCEPT ![d] = NoForm] /\ target' = [target EXCEPT ![d] = 0]
  /\ made' = [made EXCEPT ![d] = FALSE]
  /\ ahead' = ahead \ {d}
OnForm(d) == Goes(d, "next") /\ Leaves(d) /\ UNCHANGED left

(* What throws ends the loop: the rest of the batch is not stored.         *)
Throws(d) == Goes(d, "over") /\ Leaves(d) /\ left' = [left EXCEPT ![d] = {}]

Deliver(d, batch) ==
  /\ stage[d] = "idle" /\ batch # {}
  /\ Goes(d, "next")
  /\ left' = [left EXCEPT ![d] = batch]
  /\ UNCHANGED <<crm, clock, forms, form, target, held, made, ghost>>

(* submission: the row is made unless there is one, and filed unless that  *)
(* one was filed or refused.                                               *)
Submission(d, f) ==
  /\ stage[d] = "next" /\ f \in left[d]
  /\ left' = [left EXCEPT ![d] = @ \ {f}]
  /\ stored' = stored \cup {f}
  /\ IF f \notin filed \cup Skipped
     THEN Goes(d, "check") /\ form' = [form EXCEPT ![d] = f]
     ELSE UNCHANGED <<stage, form>>
  /\ UNCHANGED <<crm, clock, filed, reason, notes, visitor, target, held, made,
                 ghost>>

Finish(d) ==
  /\ stage[d] = "next" /\ left[d] = {}
  /\ Goes(d, "over")
  /\ UNCHANGED <<crm, clock, forms, own, ghost>>

CheckSuppressed(d) ==
  /\ stage[d] = "check"
  /\ Goes(d, IF Declined THEN "deleted" ELSE "find")
  /\ UNCHANGED <<crm, clock, forms, own, ghost>>

Found(d, step) ==
  /\ Active # {}
  /\ \E c \in Active : target' = [target EXCEPT ![d] = c]
  /\ Goes(d, step)

FindContact(d) ==
  /\ stage[d] = "find"
  /\ IF Active # {} THEN Found(d, "claim") ELSE Goes(d, "charge") /\ UNCHANGED target
  /\ UNCHANGED <<crm, clock, forms, left, form, held, made, ghost>>

Room == slots[hour] < Cap

(* take: the check and the charge are one statement.                       *)
Take(d) ==
  /\ stage[d] = "charge"
  /\ IF Room
     THEN /\ slots' = [slots EXCEPT ![hour] = @ + 1]
          /\ held' = [held EXCEPT ![d] = hour]
          /\ Goes(d, "create")
     ELSE Goes(d, "cap") /\ UNCHANGED <<slots, held>>
  /\ UNCHANGED <<crm, hour, forms, left, form, target, made, ghost>>

(* The insert wins on the unique index, or loses to an active contact.     *)
Create(d) ==
  /\ stage[d] = "create"
  /\ IF Active = {}
     THEN \E c \in Coming :
            /\ contacts' = [contacts EXCEPT ![c] = "active"]
            /\ madeIn' = [madeIn EXCEPT ![c] = held[d]]
            /\ held' = [held EXCEPT ![d] = 0]
            /\ target' = [target EXCEPT ![d] = c] /\ made' = [made EXCEPT ![d] = TRUE]
            /\ Goes(d, "claim")
     ELSE Goes(d, "release") /\ UNCHANGED <<contacts, madeIn, held, target, made>>
  /\ UNCHANGED <<told, suppressed, clock, forms, left, form, ghost>>

(* Fault: the slot of a create that lost is not handed back.               *)
ReleasedNone(d) == slots
Released(d) == [slots EXCEPT ![held[d]] = @ - 1]

Release(d) ==
  /\ stage[d] = "release"
  /\ slots' = Released(d)
  /\ held' = [held EXCEPT ![d] = 0]
  /\ Goes(d, "raced")
  /\ UNCHANGED <<crm, hour, forms, left, form, target, made, ghost>>

Winner == Active

(* The loser attaches to the winner, or throws when that has gone.         *)
Raced(d) ==
  /\ stage[d] = "raced"
  /\ IF Winner # {} THEN Found(d, "claim") /\ UNCHANGED <<left, form, made, ahead>>
     ELSE Throws(d)
  /\ UNCHANGED <<crm, clock, forms, held, mail, moved, faults>>

-----------------------------------------------------------------------------
(* attach.                                                                 *)

AfterAttach(d) ==
  IF made[d] THEN Goes(d, "tell") /\ UNCHANGED <<left, form, target, made, ahead>>
             ELSE OnForm(d)

(* Every row that names a contact has it as a foreign key.                 *)
Lost(d) == contacts[target[d]] = "gone"

Claimable(f) == f \notin filed

Claim(d) ==
  /\ stage[d] = "claim"
  /\ IF ~ Claimable(form[d]) THEN AfterAttach(d) /\ UNCHANGED <<filed, reason>>
     ELSE IF Lost(d) THEN Throws(d) /\ UNCHANGED <<filed, reason>>
     ELSE /\ filed' = filed \cup {form[d]}
          /\ reason' = [reason EXCEPT ![form[d]] = "none"]
          /\ Goes(d, "note")
          /\ UNCHANGED <<left, form, target, made, ahead>>
  /\ UNCHANGED <<crm, clock, stored, notes, visitor, held, mail, moved, faults>>

WriteNote(d) ==
  /\ stage[d] = "note"
  /\ IF Lost(d) THEN Throws(d) /\ UNCHANGED notes
     ELSE /\ notes' = [notes EXCEPT ![form[d]] = @ \cup {d}]
          /\ Goes(d, "visitor")
          /\ UNCHANGED <<left, form, target, made, ahead>>
  /\ UNCHANGED <<crm, clock, stored, filed, reason, visitor, held, mail, moved, faults>>

UpsertVisitor(d) ==
  /\ stage[d] = "visitor"
  /\ IF Lost(d) THEN Throws(d) /\ UNCHANGED visitor
     ELSE visitor' = target[d] /\ AfterAttach(d)
  /\ UNCHANGED <<crm, clock, stored, filed, reason, notes, held, mail, moved, faults>>

(* Fault: the agent is told by the delivery that filed the form.           *)
ToldIfFiled(d) == IF d \in notes[form[d]] THEN {target[d]} ELSE {}
Told(d) == {target[d]}

(* contactCreated; a task has no foreign key.                              *)
Tell(d) ==
  /\ stage[d] = "tell"
  /\ told' = told \cup Told(d)
  /\ OnForm(d)
  /\ UNCHANGED <<contacts, madeIn, suppressed, clock, forms, held, mail, moved, faults>>

(* skip names the row only.                                                *)
Skip(d) ==
  /\ stage[d] \in {"deleted", "cap"}
  /\ reason' = [reason EXCEPT ![form[d]] = stage[d]]
  /\ OnForm(d)
  /\ UNCHANGED <<crm, clock, stored, filed, notes, visitor, held, mail, moved, faults>>

-----------------------------------------------------------------------------
(* Faults.                                                                 *)

(* A counter that cannot be read refuses the write.                        *)
CounterFails(d) ==
  /\ stage[d] = "charge" /\ faults < MaxFaults
  /\ faults' = faults + 1
  /\ Goes(d, "cap")
  /\ UNCHANGED <<crm, clock, forms, own, mail, ahead, moved>>

(* A statement throws, or the process stops.  A create that throws hands   *)
(* its slot back, a company that cannot be made does not.                  *)
Dies(d) ==
  /\ stage[d] \in Steps \cup {"next"} /\ faults < MaxFaults
  /\ faults' = faults + 1
  /\ Throws(d)
  /\ \/ UNCHANGED <<slots, held>>
     \/ /\ stage[d] = "create"
        /\ slots' = Released(d) /\ held' = [held EXCEPT ![d] = 0]
  /\ UNCHANGED <<crm, hour, forms, mail, moved>>

-----------------------------------------------------------------------------
Files(d) ==
  \/ \E f \in Form : Submission(d, f)
  \/ Finish(d) \/ CheckSuppressed(d) \/ FindContact(d) \/ Take(d) \/ Create(d)
  \/ Release(d) \/ Raced(d) \/ Claim(d) \/ WriteNote(d) \/ UpsertVisitor(d)
  \/ Tell(d) \/ Skip(d)

FilingNext ==
  \/ RepAdds \/ HourPasses
  \/ ReadContext \/ Resolve \/ CreateFromMail \/ EndPass
  \/ \E c \in Contact : Archive(c) \/ Restore(c) \/ Purge(c)
  \/ \E d \in Delivery : \/ \E batch \in SUBSET Form : Deliver(d, batch)
                         \/ Files(d) \/ CounterFails(d) \/ Dies(d)

FilingSpec == FilingInit /\ [][FilingNext]_filingVars

-----------------------------------------------------------------------------
(* The counter of an hour is what filing made with it and what deliveries  *)
(* under way, or dead, still hold: a create that lost a race kept nothing. *)
(* It never passes the cap, so neither do the contacts of the hour.        *)
SlotsAccountedFor ==
  \A h \in Hour :
    /\ slots[h] = Cardinality({c \in Contact : madeIn[c] = h})
                  + Cardinality({d \in Delivery : held[d] = h})
    /\ slots[h] <= Cap

(* However often and by however many deliveries a form arrives, it is      *)
(* noted once.  Unless one died, or a contact moved under one, every stored*)
(* form ends filed or refused, what follows the claim of it is done by     *)
(* somebody, and the agent was asked about each contact that filing made,  *)
(* also when another delivery of the form won the claim.                   *)
FilingIsWhole ==
  /\ \A f \in Form : Cardinality(notes[f]) <= 1
  /\ (faults = 0 /\ ~moved /\ Working = {}) =>
       /\ stored \subseteq filed \cup Skipped
       /\ \A f \in filed : notes[f] # {}
       /\ \A c \in Active : madeIn[c] # 0 => c \in told

(* Who has an address that a rep deleted comes back only by a delivery, or *)
(* a pass over a mailbox, that had read the deleted addresses before.      *)
Returns == \E c \in Contact : contacts[c] = "none" /\ contacts'[c] = "active"

DeletedStaysUnlessEarlier ==
  [][suppressed /\ suppressed' /\ Returns
       => \/ \E d \in ahead : stage[d] = "create" /\ stage'[d] = "claim"
          \/ stale /\ pass = "creating"]_filingVars

(* docs/tracking.md: deleted contacts stay deleted, of email and of forms. *)
DeletedStaysDeleted == [][suppressed /\ suppressed' => ~ Returns]_filingVars

(* docs/telemetry.md: the submissions with the cap's reason are those the  *)
(* hourly cap refused.                                                     *)
FiledIsNotCapped == \A f \in filed : reason[f] # "cap"
=============================================================================
