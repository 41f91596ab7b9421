----------------------------- MODULE ContactFacts -----------------------------
(***************************************************************************)
(* One field of one contact, and what is known of it: sessions of the      *)
(* agent record facts (lib/facts.ts), a rep accepts or dismisses those     *)
(* that wait and types over the field (contacts.service.ts), and every     *)
(* minute a sweep fills the blanks from facts that wait                    *)
(* (lib/blank-facts.ts).  All of them read first and write later, in a     *)
(* transaction that looks at little of what they read.                     *)
(*                                                                         *)
(* Values are equal when sameValue says so.  Of the evidence only the band *)
(* is kept: VERIFIED or less.  The order of the scores is left out: the    *)
(* sweep may take any proposal for the best.  A transaction that           *)
(* supersedes works on the rows its first statement saw, where they still  *)
(* match when it commits (READ COMMITTED).                                 *)
(***************************************************************************)
CONSTANTS
  Value,   \* what the field may say
  Handle,  \* the names among them that read like the email address
  Blank,   \* no value; of a name, the one made from the address
  Call,    \* calls of recordFact; the row a call stores has its name
  Legacy,  \* rows from before, when less was applied
  Rep,     \* decisions under way
  Sweeper, \* passes of sweepBlankFacts
  Fault    \* transactions that may fail

ASSUME ConstantsAssumption ==
  /\ Handle \subseteq Value /\ Blank \notin Value
  /\ Call \cap Legacy = {} /\ Call \cap Rep = {} /\ Call \cap Sweeper = {}
  /\ Rep \cap Sweeper = {} /\ Blank \notin Call \cup Legacy

Fact == Call \cup Legacy
Op   == Call \cup Rep \cup Sweeper
None == Blank

VARIABLES
  field,      \* a column of the contact, its name, or a fact without a column
  record,     \* what the contact says
  author,     \* who wrote it: nobody, typed, accepted, found
  status,     \* of each row
  value,      \* of each row
  pc,         \* where each operation is
  seen,       \* the record it read
  subject,    \* the row it will apply or decide; None for a call's own
  offer,      \* the value a call brings
  rows,       \* the rows it listed, or its transaction scanned
  failed,     \* the transactions that failed
  theirs,     \* a person typed the record, and no rule lets the agent replace it
  early,      \* what had begun when a person typed the record, and goes on
  overlapped  \* two transactions that apply a fact have overlapped

vars == <<field, record, author, status, value, pc, seen, subject, offer, rows,
          failed, theirs, early, overlapped>>
contact == <<field, record, author, theirs>>
facts   == <<status, value>>
mine    == <<seen, subject, offer, rows>>

Status == {"absent", "PROPOSED", "APPLIED", "DISMISSED", "SUPERSEDED"}
At(s)  == {f \in Fact : status[f] = s}
Stored == {f \in Fact : status[f] # "absent"}

(* Types; a field without a column writes nothing on the contact.          *)
TypeOK ==
  /\ field \in {"column", "name", "bare"}
  /\ record \in Value \cup {Blank}
  /\ field = "bare" => record = Blank
  /\ author \in {"nobody", "typed", "accepted", "found"}
  /\ status \in [Fact -> Status]
  /\ value \in [Fact -> Value \cup {Blank}]
  /\ \A f \in Stored : value[f] # Blank
  /\ pc \in [Op -> {"idle", "read", "offer", "scan", "write", "settle",
                    "dismiss", "done"}]
  /\ seen \in [Op -> Value \cup {Blank}]
  /\ subject \in [Op -> Fact \cup {None}]
  /\ offer \in [Op -> Value \cup {Blank}]
  /\ rows \in [Op -> SUBSET Fact]
  /\ failed \subseteq Fault
  /\ theirs \in BOOLEAN /\ early \subseteq Op /\ overlapped \in BOOLEAN

Init ==
  /\ field \in {"column", "name", "bare"}
  /\ record = Blank /\ author = "nobody"
  /\ \E was \in [Legacy -> Value] :
       value = [f \in Fact |-> IF f \in Legacy THEN was[f] ELSE Blank]
  /\ status = [f \in Fact |-> IF f \in Legacy THEN "PROPOSED" ELSE "absent"]
  /\ pc = [o \in Op |-> "idle"]
  /\ seen = [o \in Op |-> Blank] /\ subject = [o \in Op |-> None]
  /\ offer = [o \in Op |-> Blank] /\ rows = [o \in Op |-> {}]
  /\ failed = {} /\ theirs = FALSE /\ early = {} /\ overlapped = FALSE

-----------------------------------------------------------------------------
(* The rules of lib/facts.ts, of the record that was read and whether a    *)
(* fact was applied when the facts were read.                              *)

(* Fault: what stands in a column is nobody's.                             *)
HumanOwnsName(r, found) == field = "name" /\ r \notin Handle \cup {Blank}

HumanOwns(r, found) ==
  \/ field = "name" /\ r \notin Handle \cup {Blank}
  \/ field = "column" /\ ~found /\ r # Blank

(* Fault: a fact without a column has no blank to fill.                    *)
IsEmptyColumn(r, found) ==
  /\ ~found
  /\ field = "name" \/ (field = "column" /\ r = Blank)

IsEmpty(r, found) == ~found /\ (field = "column" => r = Blank)

FillsBlank(r, found) == ~HumanOwns(r, found) /\ IsEmpty(r, found)

(* A row with this status and this value.                                  *)
Known(s, v) == \E f \in At(s) : value[f] = v

(* One of the applied rows, if there is one.                               *)
AppliedRow == IF At("APPLIED") = {} THEN {None} ELSE At("APPLIED")

-----------------------------------------------------------------------------
(* Applying a fact: the transactions of recordFact, decideFact and the     *)
(* sweep's fill.                                                           *)

Ends(o) ==
  /\ pc' = [pc EXCEPT ![o] = IF o \in Call THEN "done" ELSE "idle"]
  /\ seen' = [seen EXCEPT ![o] = Blank]
  /\ subject' = [subject EXCEPT ![o] = None]
  /\ offer' = [offer EXCEPT ![o] = Blank]
  /\ rows' = [rows EXCEPT ![o] = {}]

Over(o) == Ends(o) /\ early' = early \ {o}

(* Fault: only the rows that wait are superseded.                          *)
SupersededByWaiting == {"PROPOSED"}

SupersededBy == {"APPLIED", "PROPOSED"}

Live == UNION {At(s) : s \in SupersededBy}

Scan(o) ==
  /\ pc[o] = "scan"
  /\ pc' = [pc EXCEPT ![o] = "write"]
  /\ rows' = [rows EXCEPT ![o] = Live \ {subject[o]}]
  /\ UNCHANGED <<contact, facts, seen, subject, offer, failed, early, overlapped>>

RowOf(o) == IF o \in Call THEN o ELSE subject[o]
NewValue(o) == IF o \in Call THEN offer[o] ELSE value[subject[o]]

(* Fault: a value that stands is left alone.                               *)
RecordedIfBlank(v) == IF field = "bare" \/ record # Blank THEN record ELSE v

Recorded(v) == IF field = "bare" THEN record ELSE v

(* The update of the row itself names its id only.                         *)
Write(o) ==
  /\ pc[o] = "write"
  /\ status' = [f \in Fact |-> IF f = RowOf(o) THEN "APPLIED"
                               ELSE IF f \in rows[o] \cap Live THEN "SUPERSEDED"
                               ELSE status[f]]
  /\ value' = [value EXCEPT ![RowOf(o)] = NewValue(o)]
  /\ record' = Recorded(NewValue(o))
  /\ author' = IF o \in Rep THEN "accepted" ELSE "found"
  /\ theirs' = FALSE
  /\ early' = {}
  /\ overlapped' = (overlapped \/ \E p \in Op \ {o} : pc[p] = "write")
  /\ Ends(o)
  /\ UNCHANGED <<field, failed>>

(* A transaction fails: a lost connection, or a deadlock of two that hold  *)
(* each other's rows.                                                      *)
Fail(o, e) ==
  /\ pc[o] \in {"offer", "scan", "write", "settle", "dismiss"} /\ e \notin failed
  /\ failed' = failed \cup {e}
  /\ Over(o)
  /\ UNCHANGED <<contact, facts, overlapped>>

-----------------------------------------------------------------------------
(* recordFact reads the contact, then the facts, and decides.              *)

ReadContact(c) ==
  /\ pc[c] = "idle"
  /\ pc' = [pc EXCEPT ![c] = "read"]
  /\ seen' = [seen EXCEPT ![c] = record]
  /\ UNCHANGED <<contact, facts, subject, offer, rows, failed, early, overlapped>>

Refused(c, v, current) ==
  \/ Known("DISMISSED", v)
  \/ current # None /\ value[current] = v
  \/ HumanOwns(seen[c], current # None)

Applies(c, verified, current) == verified \/ FillsBlank(seen[c], current # None)

RecordFact(c, v, verified) ==
  /\ pc[c] = "read"
  /\ \E current \in AppliedRow :
       LET applies == Applies(c, verified, current) IN
       IF Refused(c, v, current) \/ (~applies /\ Known("PROPOSED", v))
       THEN Over(c)
       ELSE /\ pc' = [pc EXCEPT ![c] = IF applies THEN "scan" ELSE "offer"]
            /\ offer' = [offer EXCEPT ![c] = v]
            /\ seen' = [seen EXCEPT ![c] = Blank]
            /\ UNCHANGED <<subject, rows, early>>
  /\ UNCHANGED <<contact, facts, failed, overlapped>>

Offer(c) ==
  /\ pc[c] = "offer"
  /\ status' = [status EXCEPT ![c] = "PROPOSED"]
  /\ value' = [value EXCEPT ![c] = offer[c]]
  /\ Over(c)
  /\ UNCHANGED <<contact, failed, overlapped>>

-----------------------------------------------------------------------------
(* People: decideFact, and ContactsService.update on the field.            *)

Decide(r, f, decision) ==
  /\ pc[r] = "idle" /\ f \in At("PROPOSED")
  /\ pc' = [pc EXCEPT ![r] = decision]
  /\ subject' = [subject EXCEPT ![r] = f]
  /\ UNCHANGED <<contact, facts, seen, offer, rows, failed, early, overlapped>>

(* The dismissal names the row only, whatever has become of it.            *)
Dismiss(r) ==
  /\ pc[r] = "dismiss"
  /\ status' = [status EXCEPT ![subject[r]] = "DISMISSED"]
  /\ Over(r)
  /\ UNCHANGED <<contact, value, failed, overlapped>>

(* A value a person typed may be replaced where a fact was applied, a name *)
(* where it reads like the address.                                        *)
Protected(v) ==
  /\ v # Blank
  /\ IF field = "name" THEN v \notin Handle ELSE At("APPLIED") = {}

(* Clearing a column leaves it blank for anyone.                           *)
Type(v) ==
  /\ field # "bare" /\ v # record
  /\ record' = v
  /\ author' = IF v = Blank THEN "nobody" ELSE "typed"
  /\ theirs' = Protected(v)
  /\ early' = IF v = Blank THEN {} ELSE {o \in Op : pc[o] \notin {"idle", "done"}}
  /\ UNCHANGED <<field, facts, pc, mine, failed, overlapped>>

-----------------------------------------------------------------------------
(* sweepBlankFacts lists the proposals with their contact, then reads the  *)
(* applied facts, and fills or settles.                                    *)

ListProposals(w) ==
  /\ pc[w] = "idle" /\ At("PROPOSED") # {}
  /\ pc' = [pc EXCEPT ![w] = "read"]
  /\ rows' = [rows EXCEPT ![w] = At("PROPOSED")]
  /\ seen' = [seen EXCEPT ![w] = record]
  /\ UNCHANGED <<contact, facts, subject, offer, failed, early, overlapped>>

(* What a group may keep: one row of each value that is not on record.     *)
Keeps(group, v) ==
  {kept \in SUBSET {f \in group : value[f] # v} :
     /\ {value[f] : f \in kept} = {value[f] : f \in group} \ {v}
     /\ \A f, g \in kept : value[f] = value[g] => f = g}

OnRecord(w, current) ==
  IF current # None THEN value[current]
  ELSE IF field = "column" THEN seen[w] ELSE Blank

SweepField(w) ==
  /\ pc[w] = "read"
  /\ \E current \in AppliedRow :
       IF FillsBlank(seen[w], current # None)
       THEN \E best \in rows[w] :
              /\ pc' = [pc EXCEPT ![w] = "scan"]
              /\ subject' = [subject EXCEPT ![w] = best]
              /\ rows' = [rows EXCEPT ![w] = {}]
              /\ seen' = [seen EXCEPT ![w] = Blank]
              /\ UNCHANGED <<offer, early>>
       ELSE \E kept \in Keeps(rows[w], OnRecord(w, current)) :
              IF kept = rows[w] THEN Over(w)
              ELSE /\ pc' = [pc EXCEPT ![w] = "settle"]
                   /\ rows' = [rows EXCEPT ![w] = @ \ kept]
                   /\ seen' = [seen EXCEPT ![w] = Blank]
                   /\ UNCHANGED <<subject, offer, early>>
  /\ UNCHANGED <<contact, facts, failed, overlapped>>

(* The update names the rows only.                                         *)
Settle(w) ==
  /\ pc[w] = "settle"
  /\ status' = [f \in Fact |-> IF f \in rows[w] THEN "SUPERSEDED" ELSE status[f]]
  /\ Over(w)
  /\ UNCHANGED <<contact, value, failed, overlapped>>

-----------------------------------------------------------------------------
Recording(c) == \/ ReadContact(c) \/ Offer(c)
                \/ \E v \in Value, verified \in BOOLEAN : RecordFact(c, v, verified)
Deciding(r)  == Dismiss(r) \/ \E f \in Fact : Decide(r, f, "scan") \/ Decide(r, f, "dismiss")
Sweeping(w)  == ListProposals(w) \/ SweepField(w) \/ Settle(w)
Applying(o)  == Scan(o) \/ Write(o)

Next ==
  \/ \E c \in Call : Recording(c)
  \/ \E r \in Rep : Deciding(r)
  \/ \E w \in Sweeper : Sweeping(w)
  \/ \E o \in Op : Applying(o) \/ \E e \in Fault : Fail(o, e)
  \/ \E v \in Value \cup {Blank} : Type(v)

Spec == Init /\ [][Next]_vars

(* The schedule sweeps every minute, and a statement ends.  Nothing is     *)
(* assumed of a session or a rep.                                          *)
Fairness == \A w \in Sweeper : WF_vars(Sweeping(w) \/ Applying(w))

FairSpec == Spec /\ Fairness

-----------------------------------------------------------------------------
(* A field has one applied fact, unless two transactions overlapped and    *)
(* neither saw the other's row.                                            *)
OneAppliedUnlessOverlapped ==
  \A f, g \in At("APPLIED") : f = g \/ overlapped

(* The contact says what its applied fact says until someone types, also   *)
(* after decisions and settlements that came late over a row that had      *)
(* moved on.                                                               *)
RecordShowsApplied ==
  field # "bare" /\ author \in {"accepted", "found"} /\ ~overlapped
    => \A f \in At("APPLIED") : record = value[f]

(* What the agent found replaces what a person typed into a field without  *)
(* an applied fact only by an operation that had begun before.             *)
PersonOutranks ==
  [][theirs /\ author' = "found"
       => \E o \in early : pc[o] = "write" /\ pc'[o] # "write"]_vars

(* A field that nobody filled does not stay blank beside a proposal.       *)
Fillable ==
  /\ At("APPLIED") = {} /\ At("PROPOSED") # {}
  /\ record \in IF field = "name" THEN Handle \cup {Blank} ELSE {Blank}

BlankIsFilled == Fillable ~> ~Fillable

(* docs/agent.md says lib/facts.ts never overwrites a human: what a person *)
(* typed, but for a name made from the address, stands against everything  *)
(* that begins afterwards.                                                 *)
TypedValueStands ==
  [][author = "typed" /\ ~(field = "name" /\ record \in Handle)
       /\ author' = "found" /\ record' # record
       => \E o \in early : pc[o] = "write" /\ pc'[o] # "write"]_vars
=============================================================================
