------------------------------ MODULE MailSync ------------------------------
(***************************************************************************)
(* One person's mailbox or calendar and the passes that read it: a cron's  *)
(* ticks claim its MailboxSync row under a lease (mailbox-sync.service.ts, *)
(* sync-state.service.ts), "sync now" runs without one                     *)
(* (google-sync.service.ts), and both read on from the row's cursor        *)
(* (gmail-sync, outlook-sync and calendar-sync.service.ts) while the row   *)
(* is removed by a disconnect and made again from the grant                *)
(* (google- and microsoft-connection.service.ts).                          *)
(*                                                                         *)
(* Messages are numbered in the order the mailbox received them, which is  *)
(* the order of Gmail's history and of Outlook's receivedDateTime; no two  *)
(* were received in one second.  Of a calendar, the changes of its events  *)
(* are numbered, in the order of Google's sync tokens.  A cursor is the    *)
(* number of the last before it.  Time is abstract: retryAfter lies in the *)
(* future until it passes.                                                 *)
(***************************************************************************)
EXTENDS Integers, FiniteSets, FiniteSetsExt

CONSTANTS
  Pass,        \* passes that may run at once, ticks of the cron or by hand
  ByHand,      \* those a person may ask for with sync now
  MaxMail,     \* bound on the messages received
  Fileable,    \* the messages the thread writer files, the others it leaves out
  GmailBudget, \* MAX_MESSAGES_PER_TICK of gmail-sync.service.ts
  Budget,      \* and of outlook-sync.service.ts
  CalendarBudget, \* what MAX_PAGES_PER_TICK of calendar-sync.service.ts holds
  HistoryPage, \* how many ids one answer of Gmail's history holds
  MaxRows,     \* bound on how often the sync row is made
  MaxFaults    \* bound on disconnects, failed calls, writes that throw, crashes

(* Outlook reads the cursor's own second again: a budget of one would not  *)
(* get past it.                                                            *)
ASSUME ConstantsAssumption ==
  /\ IsFiniteSet(Pass) /\ ByHand \subseteq Pass
  /\ MaxMail \in Nat /\ Fileable \subseteq 1 .. MaxMail
  /\ GmailBudget \in Nat \ {0} /\ Budget \in Nat \ {0, 1}
  /\ CalendarBudget \in Nat \ {0} /\ HistoryPage \in Nat \ {0}
  /\ MaxRows \in Nat \ {0} /\ MaxFaults \in Nat

Mail == 1 .. MaxMail
None == -1

VARIABLES
  provider, \* gmail, outlook or calendar; never changes
  received, \* how many messages the mailbox has received
  granted,  \* the account's scope covers the source
  id,       \* which MailboxSync row there is; 0 for none
  rows,     \* how many rows there have been
  broken,   \* its status is NEEDS_RECONNECT; the other statuses only inform
  cursor,   \* of that row; None when it is null
  waits,    \* its retryAfter lies in the future
  since,    \* the furthest start: mail up to it is not to be read;
            \* 0 for a calendar, whose window is read whole
  ensuring, \* a reconcile that found the grant and no row
  leaving,  \* a disconnect that removed the row and not yet the grant
  pc,       \* where each pass is
  fresh,    \* the ticks whose row still has the updatedAt they read
  claim,    \* the row each tick holds; 0 for none, also in sync now
  row,      \* the row each pass works
  at,       \* the cursor it read there
  todo,     \* the messages it has yet to read
  reach,    \* the cursor it will leave
  tried,    \* the messages some pass has asked for
  handled,  \* those that were filed, or left out by a rule
  beyond,   \* those past the page of history a pass moved its cursor over
  overtaken,\* ticks whose lease ended before they did
  faults

vars == <<provider, received, granted, id, rows, broken, cursor, waits, since,
          ensuring, leaving, pc, fresh, claim, row, at, todo, reach, tried,
          handled, beyond, overtaken, faults>>
account == <<provider, received, granted, rows, ensuring, leaving>>
state   == <<id, broken, cursor, waits, since, fresh, overtaken>>
mine    == <<claim, row, at, todo, reach>>
mail    == <<tried, handled, beyond>>

(* Types; what was handled was asked for.                                  *)
TypeOK ==
  /\ provider \in {"gmail", "outlook", "calendar"} /\ received \in 0 .. MaxMail
  /\ granted \in BOOLEAN
  /\ rows \in 0 .. MaxRows /\ id \in 0 .. rows
  /\ broken \in BOOLEAN
  /\ cursor \in None .. received /\ waits \in BOOLEAN /\ since \in None .. received
  /\ ensuring \in BOOLEAN /\ leaving \in BOOLEAN
  /\ pc \in [Pass -> {"off", "listed", "claimed", "read", "open", "listing",
                      "reading"}]
  /\ fresh \subseteq Pass /\ overtaken \subseteq Pass
  /\ claim \in [Pass -> 0 .. rows] /\ row \in [Pass -> 0 .. rows]
  /\ at \in [Pass -> None .. received] /\ reach \in [Pass -> None .. received]
  /\ todo \in [Pass -> SUBSET (1 .. received)]
  /\ handled \subseteq tried /\ tried \subseteq 1 .. received
  /\ beyond \subseteq 1 .. received
  /\ faults \in 0 .. MaxFaults

Init ==
  /\ provider \in {"gmail", "outlook", "calendar"}
  /\ received = 0 /\ granted = TRUE
  /\ id = 0 /\ rows = 0 /\ broken = FALSE /\ cursor = None /\ waits = FALSE
  /\ since = IF provider = "calendar" THEN 0 ELSE None
  /\ ensuring = FALSE /\ leaving = FALSE
  /\ pc = [p \in Pass |-> "off"]
  /\ fresh = {} /\ overtaken = {}
  /\ claim = [p \in Pass |-> 0] /\ row = [p \in Pass |-> 0]
  /\ at = [p \in Pass |-> None] /\ reach = [p \in Pass |-> None]
  /\ todo = [p \in Pass |-> {}]
  /\ tried = {} /\ handled = {} /\ beyond = {}
  /\ faults = 0

-----------------------------------------------------------------------------
(* The mailbox and its owner.                                              *)

(* Mail received while there is no row lies before the next start.         *)
MailArrives ==
  /\ id # 0 /\ received < MaxMail
  /\ received' = received + 1
  /\ UNCHANGED <<provider, granted, rows, ensuring, leaving, state, pc, mine,
                 mail, faults>>

(* onConnected, from a tick or the settings page, finds a grant and no     *)
(* row, and makes one later with an upsert.                                *)
FindGrant ==
  /\ granted /\ id = 0 /\ ~ ensuring /\ rows < MaxRows
  /\ ensuring' = TRUE
  /\ UNCHANGED <<provider, received, granted, rows, leaving, state, pc, mine,
                 mail, faults>>

Freed == overtaken \cup {p \in Pass : claim[p] # 0 /\ claim[p] = id}

Ensure ==
  /\ ensuring
  /\ ensuring' = FALSE
  /\ broken' = FALSE /\ waits' = FALSE /\ fresh' = {} /\ overtaken' = Freed
  /\ IF id = 0
     THEN rows' = rows + 1 /\ id' = rows + 1 /\ cursor' = None
     ELSE UNCHANGED <<rows, id, cursor>>
  /\ UNCHANGED <<provider, received, granted, leaving, since, pc, mine, mail,
                 faults>>

(* revoke removes the row and then asks Google, which may refuse.          *)
RemoveRow ==
  /\ granted /\ ~ leaving /\ id # 0 /\ faults < MaxFaults
  /\ faults' = faults + 1
  /\ leaving' = TRUE
  /\ id' = 0 /\ cursor' = None /\ waits' = FALSE /\ broken' = FALSE
  /\ fresh' = {}
  /\ UNCHANGED <<provider, received, granted, rows, ensuring, since, overtaken,
                 pc, mine, mail>>

DropGrant ==
  /\ leaving
  /\ leaving' = FALSE
  /\ granted' \in (IF provider = "outlook" THEN {FALSE} ELSE BOOLEAN)
  /\ UNCHANGED <<provider, received, rows, ensuring, state, pc, mine, mail,
                 faults>>

Reconnect ==
  /\ ~ granted
  /\ granted' = TRUE
  /\ UNCHANGED <<provider, received, rows, ensuring, leaving, state, pc, mine,
                 mail, faults>>

RetryAfterPasses ==
  /\ waits
  /\ waits' = FALSE
  /\ overtaken' = Freed
  /\ UNCHANGED <<account, id, broken, cursor, since, fresh, pc, mine, mail,
                 faults>>

-----------------------------------------------------------------------------
(* Starting a pass.                                                        *)

Due == id # 0 /\ ~ broken /\ ~ waits

ListDue(p) ==
  /\ pc[p] = "off" /\ Due
  /\ pc' = [pc EXCEPT ![p] = "listed"]
  /\ fresh' = fresh \cup {p}
  /\ UNCHANGED <<account, id, broken, cursor, waits, since, overtaken, mine,
                 mail, faults>>

(* The claim asks again for the updatedAt it listed and for a row due.     *)
ClaimableUnchecked(p) == id # 0
Claimable(p) == p \in fresh /\ Due

Claim(p) ==
  /\ pc[p] = "listed"
  /\ IF Claimable(p)
     THEN /\ pc' = [pc EXCEPT ![p] = "claimed"]
          /\ waits' = TRUE /\ fresh' = {}
          /\ claim' = [claim EXCEPT ![p] = id]
          /\ overtaken' = overtaken \ {p}
     ELSE /\ pc' = [pc EXCEPT ![p] = "off"]
          /\ fresh' = fresh \ {p}
          /\ UNCHANGED <<waits, claim, overtaken>>
  /\ UNCHANGED <<account, id, broken, cursor, since, row, at, todo, reach, mail,
                 faults>>

(* What a pass leaves behind is of no further use.                         *)
Over(p) ==
  /\ pc' = [pc EXCEPT ![p] = "off"]
  /\ claim' = [claim EXCEPT ![p] = 0] /\ row' = [row EXCEPT ![p] = 0]
  /\ at' = [at EXCEPT ![p] = None] /\ reach' = [reach EXCEPT ![p] = None]
  /\ todo' = [todo EXCEPT ![p] = {}]

(* The tick releases the row it claimed, if that is still there.           *)
Release(p) ==
  IF claim[p] # 0 /\ claim[p] = id
  THEN waits' = FALSE /\ fresh' = {} /\ overtaken' = Freed \ {p}
  ELSE overtaken' = overtaken \ {p} /\ UNCHANGED <<waits, fresh>>

(* runOne reads the row again; sync now begins here, without a claim.      *)
ReadRow(p) ==
  /\ pc[p] \in {"off", "claimed"}
  /\ IF id = 0
     THEN /\ pc[p] = "claimed"
          /\ Over(p) /\ Release(p)
     ELSE /\ pc' = [pc EXCEPT ![p] = "read"]
          /\ row' = [row EXCEPT ![p] = id]
          /\ at' = [at EXCEPT ![p] = cursor]
          /\ reach' = [reach EXCEPT ![p] = IF cursor = None /\ provider # "calendar"
                                         THEN received ELSE None]
          /\ UNCHANGED <<claim, todo, waits, fresh, overtaken>>
  /\ UNCHANGED <<account, id, broken, cursor, since, mail, faults>>

-----------------------------------------------------------------------------
(* What a pass writes.  A row that is gone makes the write throw, and so   *)
(* does the tick's own report of that: the pass is over.                   *)

Writes(p, b, c, w) ==
  /\ Over(p)
  /\ IF row[p] = id
     THEN /\ broken' = b /\ cursor' = c /\ waits' = w /\ fresh' = {}
          /\ overtaken' = (IF w THEN overtaken ELSE Freed) \ {p}
     ELSE /\ overtaken' = overtaken \ {p}
          /\ UNCHANGED <<broken, cursor, waits, fresh>>
  /\ UNCHANGED <<id, since>>

(* handleFailure: unauthorized, rate-limited, and anything else.           *)
Fails(p) ==
  /\ faults < MaxFaults
  /\ faults' = faults + 1
  /\ \/ Writes(p, TRUE, cursor, FALSE)
     \/ Writes(p, FALSE, cursor, TRUE)
     \/ Writes(p, FALSE, cursor, FALSE)

(* accessTokenFor: no grant skips the mailbox, and the tick releases it.   *)
Skip(p) ==
  /\ pc[p] = "read" /\ ~ granted
  /\ Over(p) /\ Release(p)
  /\ UNCHANGED <<account, id, broken, cursor, since, mail, faults>>

RefreshFails(p) ==
  /\ pc[p] = "read" /\ granted /\ faults < MaxFaults
  /\ faults' = faults + 1
  /\ Writes(p, TRUE, cursor, FALSE)
  /\ UNCHANGED <<account, mail>>

(* A token: markRunning leaves retryAfter alone.  The profile is asked for *)
(* next; only a pass without a cursor uses the answer.  A calendar lists.  *)
Open(p) ==
  /\ pc[p] = "read" /\ granted
  /\ IF row[p] = id
     THEN /\ pc' = [pc EXCEPT ![p] = IF at[p] = None /\ provider # "calendar"
                                     THEN "open" ELSE "listing"]
          /\ broken' = FALSE /\ fresh' = {}
          /\ UNCHANGED <<mine, overtaken>>
     ELSE Over(p) /\ overtaken' = overtaken \ {p} /\ UNCHANGED <<broken, fresh>>
  /\ UNCHANGED <<account, id, cursor, waits, since, mail, faults>>

-----------------------------------------------------------------------------
(* Reading.                                                                *)

(* A pass without a cursor starts from now: Gmail's historyId of the       *)
(* profile, Outlook's moment before the first call.                        *)
Start(p) ==
  /\ pc[p] = "open"
  /\ pc' = [pc EXCEPT ![p] = "reading"]
  /\ reach' = IF provider = "gmail"
              THEN [reach EXCEPT ![p] = received] ELSE reach
  /\ UNCHANGED <<account, state, claim, row, at, todo, mail, faults>>

First(S, n) == {k \in S : Cardinality({j \in S : j < k}) < n}

(* Gmail: the ids after the cursor that are not on record, a budget.       *)
(* The cursor moves to the history's end only when none remains.           *)
GmailPage(p) == First((at[p] + 1) .. received, HistoryPage)
GmailTodo(p) == GmailPage(p) \ (handled \cap Fileable)
GmailReachEnd(p) == received
GmailReach(p) == IF Cardinality(GmailTodo(p)) > GmailBudget THEN at[p] ELSE received

(* listHistory's nextPageToken is not followed.                            *)
GmailBeyond(p) == ((at[p] + 1) .. GmailReach(p)) \ GmailPage(p)

(* Outlook: everything from the cursor's second on, a budget of it; the    *)
(* cursor follows what was read.                                           *)
OutlookTodo(p) == IF at[p] = 0 THEN 1 .. received ELSE at[p] .. received
OutlookReachWhole(p) ==
  IF Cardinality(OutlookTodo(p)) > Budget THEN at[p] ELSE received
OutlookReach(p) == Max({at[p]} \cup First(OutlookTodo(p), Budget))

(* Calendar: everything after the cursor, or the window when there is none.*)
(* The pages past the budget are dropped, and the cursor stays.            *)
CalendarTodo(p) == IF at[p] = None THEN 1 .. received ELSE (at[p] + 1) .. received
CalendarReach(p) ==
  IF Cardinality(CalendarTodo(p)) > CalendarBudget THEN None ELSE received

List(p) ==
  /\ pc[p] = "listing"
  /\ pc' = [pc EXCEPT ![p] = "reading"]
  /\ \/ /\ provider = "gmail"
        /\ todo' = [todo EXCEPT ![p] = First(GmailTodo(p), GmailBudget)]
        /\ reach' = [reach EXCEPT ![p] = GmailReach(p)]
        /\ beyond' = beyond \cup GmailBeyond(p)
     \/ /\ provider = "outlook"
        /\ todo' = [todo EXCEPT ![p] = First(OutlookTodo(p), Budget)]
        /\ reach' = [reach EXCEPT ![p] = OutlookReach(p)]
        /\ beyond' = beyond
     \/ /\ provider = "calendar"
        /\ todo' = [todo EXCEPT ![p] = First(CalendarTodo(p), CalendarBudget)]
        /\ reach' = [reach EXCEPT ![p] = CalendarReach(p)]
        /\ beyond' = beyond
  /\ UNCHANGED <<account, state, claim, row, at, tried, handled, faults>>

(* The profile, Outlook's folders or the list itself.                      *)
CallFails(p) ==
  /\ pc[p] \in {"open", "listing"} /\ Fails(p)
  /\ UNCHANGED <<account, mail>>

(* Google no longer keeps that history: Gmail drops the gap by design, a   *)
(* calendar reads its window again.                                        *)
HistoryExpired(p) ==
  /\ pc[p] = "listing" /\ provider # "outlook" /\ faults < MaxFaults
  /\ faults' = faults + 1
  /\ Writes(p, FALSE, None, FALSE)
  /\ UNCHANGED <<account, mail>>

(* The next message is fetched and offered to the thread writer, or the    *)
(* next event to apply, which files it, finds it filed, or leaves it out   *)
(* by a rule.                                                              *)
ReadMessage(p) ==
  /\ pc[p] = "reading" /\ todo[p] # {}
  /\ LET k == Min(todo[p]) IN
       /\ todo' = [todo EXCEPT ![p] = @ \ {k}]
       /\ tried' = tried \cup {k} /\ handled' = handled \cup {k}
  /\ UNCHANGED <<account, state, pc, claim, row, at, reach, beyond, faults>>

(* Gmail's getMessage fails: the message is passed over.                   *)
MessageFails(p) ==
  /\ pc[p] = "reading" /\ todo[p] # {} /\ provider = "gmail"
  /\ faults < MaxFaults
  /\ faults' = faults + 1
  /\ todo' = [todo EXCEPT ![p] = @ \ {Min(todo[p])}]
  /\ tried' = tried \cup {Min(todo[p])}
  /\ UNCHANGED <<account, state, pc, claim, row, at, reach, handled, beyond>>

(* The next page fails, or the writer throws: a tick's catch marks the row *)
(* FAILED, sync now leaves it as it is.                                    *)
PageFails(p) ==
  /\ pc[p] = "reading" /\ todo[p] # {} /\ provider # "gmail" /\ Fails(p)
  /\ UNCHANGED <<account, mail>>

StoreThrows(p) ==
  /\ pc[p] = "reading" /\ todo[p] # {} /\ faults < MaxFaults
  /\ faults' = faults + 1
  /\ IF claim[p] # 0 /\ claim[p] = id
     THEN /\ Over(p) /\ broken' = FALSE /\ waits' = FALSE /\ fresh' = {}
          /\ overtaken' = Freed \ {p}
     ELSE /\ Over(p) /\ overtaken' = overtaken \ {p}
          /\ UNCHANGED <<broken, waits, fresh>>
  /\ UNCHANGED <<account, id, cursor, since, mail>>

Settle(p) ==
  /\ pc[p] = "reading" /\ todo[p] = {}
  /\ Over(p)
  /\ IF row[p] = id
     THEN /\ broken' = FALSE /\ waits' = FALSE
          /\ cursor' = IF reach[p] = None THEN cursor ELSE reach[p]
          /\ fresh' = {} /\ overtaken' = Freed \ {p}
          /\ since' = IF at[p] = None /\ provider # "calendar"
                      THEN Max({since, reach[p]}) ELSE since
     ELSE /\ overtaken' = overtaken \ {p}
          /\ UNCHANGED <<broken, cursor, waits, fresh, since>>
  /\ UNCHANGED <<account, id, mail, faults>>

(* The API process stops: every pass is gone, the lease is left to lapse.  *)
Crash ==
  /\ faults < MaxFaults
  /\ faults' = faults + 1
  /\ pc' = [p \in Pass |-> "off"] /\ fresh' = {} /\ overtaken' = {}
  /\ claim' = [p \in Pass |-> 0] /\ row' = [p \in Pass |-> 0]
  /\ at' = [p \in Pass |-> None] /\ reach' = [p \in Pass |-> None]
  /\ todo' = [p \in Pass |-> {}]
  /\ ensuring' = FALSE /\ leaving' = FALSE
  /\ UNCHANGED <<provider, received, granted, rows, id, broken, cursor, waits,
                 since, mail>>

-----------------------------------------------------------------------------
(* What a pass that meets no fault does next.                              *)
Step(p) ==
  \/ Claim(p) \/ (pc[p] = "claimed" /\ ReadRow(p)) \/ Skip(p) \/ Open(p)
  \/ Start(p) \/ List(p) \/ ReadMessage(p) \/ Settle(p)

SyncNow(p) == p \in ByHand /\ pc[p] = "off" /\ ReadRow(p)

Fault(p) ==
  \/ RefreshFails(p) \/ CallFails(p) \/ HistoryExpired(p)
  \/ MessageFails(p) \/ PageFails(p) \/ StoreThrows(p)

Next ==
  \/ MailArrives \/ FindGrant \/ Ensure \/ RemoveRow \/ DropGrant \/ Reconnect
  \/ RetryAfterPasses \/ Crash
  \/ \E p \in Pass : ListDue(p) \/ SyncNow(p) \/ Step(p) \/ Fault(p)

Spec == Init /\ [][Next]_vars

(* The cron ticks, time passes, and a call is answered or fails; faults    *)
(* are finitely many.                                                      *)
Fairness ==
  /\ WF_vars(RetryAfterPasses) /\ WF_vars(\E p \in Pass : ListDue(p))
  /\ \A p \in Pass : WF_vars(Step(p))

FairSpec == Spec /\ Fairness

-----------------------------------------------------------------------------
(* The cursor follows the reading: no pass, however old, leaves a cursor   *)
(* past a message received after the start that none has asked for, but    *)
(* for what Gmail's history held beyond its first page; in Outlook and in  *)
(* a calendar, past one that was not handled.                              *)
CursorFollowsReading ==
  \A k \in 1 .. received :
    since # None /\ since < k /\ k <= cursor
      => k \in IF provider = "gmail" THEN tried \cup beyond ELSE handled

(* One tick works a mailbox, unless its lease lapsed or another pass       *)
(* cleared it before it was done.                                          *)
OneTickUnlessOvertaken ==
  \A p, q \in Pass :
    claim[p] # 0 /\ claim[p] = claim[q] /\ p # q
      => p \in overtaken \/ q \in overtaken

(* Outlook catches up: whatever arrived after the start is read, as long   *)
(* as the mailbox stays connected.                                         *)
Connected == granted /\ id # 0 /\ ~ broken
CaughtUp  == (since + 1) .. received \subseteq handled

MailIsRead ==
  (provider = "outlook" /\ cursor # None) ~> (CaughtUp \/ ~ Connected)

(* calendar-sync.service.ts, "Page budget reached; continuing next tick":  *)
(* the changes past a budget are read by a later pass.                     *)
CalendarContinues ==
  (provider = "calendar" /\ id # 0) ~> (CaughtUp \/ ~ Connected)

(* docs/plan/gmail-calendar-plan.md says the cursor only advances on a     *)
(* settled pass, so that at worst a window is read again: what lies before *)
(* the cursor has been handled.                                            *)
AtWorstReadAgain ==
  \A k \in 1 .. received :
    since # None /\ since < k /\ k <= cursor => k \in handled
=============================================================================
