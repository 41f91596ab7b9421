---------------------------- MODULE MailSyncProofs ----------------------------
(***************************************************************************)
(* Theorems about MailSync for any number of passes, messages, rows and    *)
(* faults, every budget and every page of history.                         *)
(***************************************************************************)
EXTENDS MailSync, FiniteSetTheorems, WellFoundedInduction, TLAPS

(* A reconcile under way has a row to make.                                *)
RoomForRow == ensuring => rows < MaxRows

(* What some pass has asked for: in Outlook and in a calendar all that was *)
(* handled, in Gmail also those it could not fetch and those past the page.*)
Asked == IF provider = "gmail" THEN tried \cup beyond ELSE handled

(* Once there is a cursor there is a start, which a calendar always has.   *)
(* Of mail, exactly a pass with a cursor lists.                            *)
Started ==
  /\ cursor # None => since # None
  /\ provider = "calendar" => since # None
  /\ \A p \in Pass : at[p] # None => since # None
ListsFromCursor ==
  \A p \in Pass : /\ pc[p] = "listing" => at[p] # None \/ provider = "calendar"
                  /\ pc[p] = "open" => at[p] = None /\ provider # "calendar"

(* Also the cursor an old pass holds follows the reading, and the one it   *)
(* will leave does but for what it has yet to read.                        *)
AtFollows ==
  \A p \in Pass, k \in 1 .. received :
    since # None /\ since < k /\ k <= at[p] => k \in Asked
ReachFollows ==
  \A p \in Pass, k \in 1 .. received :
    pc[p] = "reading" /\ (at[p] # None \/ provider = "calendar")
      /\ since < k /\ k <= reach[p]
      => k \in Asked \cup todo[p]

(* A tick that holds the row keeps the others off it until it is overtaken.*)
Lease ==
  \A p \in Pass : claim[p] # 0 /\ claim[p] = id /\ p \notin overtaken => waits

Reading == Started /\ ListsFromCursor /\ CursorFollowsReading /\ AtFollows /\ ReachFollows
Shape   == TypeOK /\ RoomForRow

IInv == Shape /\ Reading /\ Lease /\ OneTickUnlessOvertaken

USE DEF Mail, None, account, state, mine, mail

-----------------------------------------------------------------------------
(* Finite sets of integers.                                                *)

LEMMA HasMax ==
  ASSUME NEW S \in SUBSET Int, IsFiniteSet(S), S # {}
  PROVE  \E x \in S : \A y \in S : x >= y
<1> DEFINE Above(x) == {j \in S : j > x}
<1> DEFINE T == {Above(x) : x \in S}
<1>1. T \subseteq FiniteSubsetsOf(S) /\ T # {}
  <2>1. \A x \in S : Above(x) \in SUBSET S
    OBVIOUS
  <2>2. \A x \in S : IsFiniteSet(Above(x))
    BY <2>1, FS_Subset
  <2>3. \A x \in S : Above(x) \in FiniteSubsetsOf(S)
    BY <2>1, <2>2 DEF FiniteSubsetsOf
  <2>4. \A x \in S : Above(x) \in T
    OBVIOUS
  <2>5. \A U \in T : \E x \in S : U = Above(x)
    OBVIOUS
  <2> HIDE DEF Above, T
  <2> QED BY <2>3, <2>4, <2>5
<1>2. PICK U \in T : \A V \in T : ~ (<<V, U>> \in StrictSubsetOrdering(S))
  BY <1>1, FS_StrictSubsetOrderingWellFounded, WFMin
<1>3. PICK x \in S : U = Above(x)
  OBVIOUS
<1>4. \A y \in S : y > x => Above(y) \subseteq Above(x) /\ Above(y) # Above(x)
  <2> SUFFICES ASSUME NEW y \in S, y > x
               PROVE  Above(y) \subseteq Above(x) /\ Above(y) # Above(x)
    OBVIOUS
  <2>0. \A z \in S : z > y => z > x
    <3> TAKE z \in S
    <3>1. x \in Int /\ y \in Int /\ z \in Int
      OBVIOUS
    <3> QED BY <3>1
  <2>1. Above(y) \subseteq Above(x)
    BY <2>0
  <2>2. y \in Above(x) /\ y \notin Above(y)
    OBVIOUS
  <2> QED BY <2>1, <2>2
<1>5. \A y \in S : y > x => <<Above(y), Above(x)>> \in StrictSubsetOrdering(S)
  BY <1>4 DEF StrictSubsetOrdering
<1>6. \A y \in S : ~ (y > x)
  BY <1>2, <1>3, <1>5
<1> QED BY <1>6

LEMMA HasMin ==
  ASSUME NEW S \in SUBSET Int, IsFiniteSet(S), S # {}
  PROVE  \E x \in S : \A y \in S : x =< y
<1> DEFINE Below(x) == {j \in S : j < x}
<1> DEFINE T == {Below(x) : x \in S}
<1>1. T \subseteq FiniteSubsetsOf(S) /\ T # {}
  <2>1. \A x \in S : Below(x) \in SUBSET S
    OBVIOUS
  <2>2. \A x \in S : IsFiniteSet(Below(x))
    BY <2>1, FS_Subset
  <2>3. \A x \in S : Below(x) \in FiniteSubsetsOf(S)
    BY <2>1, <2>2 DEF FiniteSubsetsOf
  <2>4. \A x \in S : Below(x) \in T
    OBVIOUS
  <2>5. \A U \in T : \E x \in S : U = Below(x)
    OBVIOUS
  <2> HIDE DEF Below, T
  <2> QED BY <2>3, <2>4, <2>5
<1>2. PICK U \in T : \A V \in T : ~ (<<V, U>> \in StrictSubsetOrdering(S))
  BY <1>1, FS_StrictSubsetOrderingWellFounded, WFMin
<1>3. PICK x \in S : U = Below(x)
  OBVIOUS
<1>4. \A y \in S : y < x => Below(y) \subseteq Below(x) /\ Below(y) # Below(x)
  <2> SUFFICES ASSUME NEW y \in S, y < x
               PROVE  Below(y) \subseteq Below(x) /\ Below(y) # Below(x)
    OBVIOUS
  <2>0. \A z \in S : z < y => z < x
    <3> TAKE z \in S
    <3>1. x \in Int /\ y \in Int /\ z \in Int
      OBVIOUS
    <3> QED BY <3>1
  <2>1. Below(y) \subseteq Below(x)
    BY <2>0
  <2>2. y \in Below(x) /\ y \notin Below(y)
    OBVIOUS
  <2> QED BY <2>1, <2>2
<1>5. \A y \in S : y < x => <<Below(y), Below(x)>> \in StrictSubsetOrdering(S)
  BY <1>4 DEF StrictSubsetOrdering
<1>6. \A y \in S : ~ (y < x)
  BY <1>2, <1>3, <1>5
<1> QED BY <1>6

LEMMA MaxIn ==
  ASSUME NEW S \in SUBSET Int, IsFiniteSet(S), S # {}
  PROVE  Max(S) \in S /\ \A y \in S : Max(S) >= y
BY HasMax DEF Max

LEMMA MinIn ==
  ASSUME NEW S \in SUBSET Int, IsFiniteSet(S), S # {}
  PROVE  Min(S) \in S
BY HasMin DEF Min
-----------------------------------------------------------------------------
(* First(S, n): the n smallest of S.                                       *)

LEMMA RangeFinite ==
  ASSUME NEW n \in Nat, NEW S, S \subseteq 0 .. n
  PROVE  S \in SUBSET Int /\ IsFiniteSet(S) /\ Cardinality(S) \in Nat
<1>1. IsFiniteSet(0 .. n)
  BY FS_Interval
<1>2. IsFiniteSet(S)
  BY <1>1, FS_Subset
<1>3. Cardinality(S) \in Nat
  BY <1>2, FS_CardinalityType
<1>4. S \in SUBSET Int
  OBVIOUS
<1> QED BY <1>2, <1>3, <1>4

LEMMA FirstSubset == ASSUME NEW S, NEW n PROVE First(S, n) \in SUBSET S
BY DEF First

(* All of a set that holds no more than n.                                 *)
LEMMA FirstAll ==
  ASSUME NEW S \in SUBSET Int, IsFiniteSet(S), NEW n \in Nat, Cardinality(S) <= n
  PROVE  First(S, n) = S
<1>1. ASSUME NEW k \in S PROVE Cardinality({j \in S : j < k}) < n
  <2> DEFINE T == {j \in S : j < k}
  <2>1. T \in SUBSET S
    OBVIOUS
  <2>2. k \in S /\ ~ (k < k) /\ k \in Int
    OBVIOUS
  <2>3. k \notin T
    BY <2>2
  <2>4. T # S
    BY <2>2, <2>3
  <2> HIDE DEF T
  <2>5. Cardinality(T) <= Cardinality(S) /\ Cardinality(T) # Cardinality(S)
    BY <2>1, <2>4, FS_Subset
  <2>6. Cardinality(T) \in Nat /\ Cardinality(S) \in Nat
    BY <2>1, FS_Subset, FS_CardinalityType
  <2>7. Cardinality(T) < n
    BY <2>5, <2>6
  <2> QED BY <2>7 DEF T
<1> QED BY <1>1 DEF First

(* What is smaller than one of the first is one of the first.              *)
LEMMA FirstDown ==
  ASSUME NEW S \in SUBSET Int, IsFiniteSet(S), NEW n \in Nat,
         NEW m \in First(S, n), NEW k \in S, k <= m
  PROVE  k \in First(S, n)
<1> DEFINE T == {j \in S : j < k}
           U == {j \in S : j < m}
<1>1. \A j \in S : j < k => j < m
  <2> TAKE j \in S
  <2>1. j \in Int /\ k \in Int /\ m \in Int
    BY DEF First
  <2> QED BY <2>1
<1>2. T \in SUBSET U /\ U \in SUBSET S
  BY <1>1
<1>3. Cardinality(U) < n
  BY DEF First
<1> HIDE DEF T, U
<1>4. IsFiniteSet(U) /\ IsFiniteSet(T)
  BY <1>2, FS_Subset
<1>5. Cardinality(T) <= Cardinality(U)
  BY <1>2, <1>4, FS_Subset
<1>6. Cardinality(T) \in Nat /\ Cardinality(U) \in Nat
  BY <1>4, FS_CardinalityType
<1>7. Cardinality(T) < n
  BY <1>3, <1>5, <1>6
<1> QED BY <1>7 DEF First, T

-----------------------------------------------------------------------------
(* What a pass lists.                                                      *)

LEMMA Bounds ==
  ASSUME TypeOK, NEW p \in Pass
  PROVE  received \in Nat /\ at[p] \in Int /\ -1 <= at[p] /\ at[p] <= received
         /\ reach[p] \in Int /\ -1 <= reach[p] /\ reach[p] <= received
<1>1. received \in 0 .. MaxMail
  BY DEF TypeOK
<1>2. received \in Nat
  BY <1>1, ConstantsAssumption
<1>3. at[p] \in -1 .. received /\ reach[p] \in -1 .. received
  BY DEF TypeOK
<1> QED BY <1>2, <1>3

LEMMA GmailLists ==
  ASSUME TypeOK, NEW p \in Pass, at[p] # None
  PROVE  /\ First(GmailTodo(p), GmailBudget) \in SUBSET (1 .. received)
         /\ GmailReach(p) \in -1 .. received
         /\ GmailBeyond(p) \in SUBSET (1 .. received)
         /\ \A k \in 1 .. received :
              at[p] < k /\ k <= GmailReach(p)
                => k \in (handled \cup GmailBeyond(p)) \cup First(GmailTodo(p), GmailBudget)
<1> DEFINE Page == GmailPage(p)
           Todo == GmailTodo(p)
<1>0. received \in Nat /\ at[p] \in Int /\ 0 <= at[p] /\ at[p] <= received
  BY Bounds
<1>1. ((at[p] + 1) .. received) \in SUBSET (1 .. received)
  BY <1>0
<1>2. Page \in SUBSET (1 .. received)
  BY <1>1, FirstSubset DEF GmailPage
<1>3. Todo = Page \ (handled \cap Fileable)
  BY DEF GmailTodo
<1>4. Todo \in SUBSET (1 .. received)
  BY <1>2, <1>3
<1> HIDE DEF Page, Todo
<1>5. Todo \in SUBSET Int /\ IsFiniteSet(Todo) /\ Cardinality(Todo) \in Nat
  <2>1. received \in Nat /\ Todo \subseteq 0 .. received
    BY <1>0, <1>4
  <2> QED BY <2>1, RangeFinite
<1>6. First(Todo, GmailBudget) \in SUBSET (1 .. received)
  BY <1>4, FirstSubset
<1>7. GmailReach(p) = IF Cardinality(Todo) > GmailBudget THEN at[p] ELSE received
  BY DEF GmailReach, Todo
<1>8. GmailReach(p) \in -1 .. received
  BY <1>0, <1>7
<1>9. GmailBeyond(p) = ((at[p] + 1) .. GmailReach(p)) \ Page
  BY DEF GmailBeyond, Page
<1>10. GmailBeyond(p) \in SUBSET (1 .. received)
  BY <1>0, <1>8, <1>9
<1>11. ASSUME NEW k \in 1 .. received, at[p] < k, k <= GmailReach(p)
       PROVE  k \in (handled \cup GmailBeyond(p)) \cup First(Todo, GmailBudget)
  <2>1. Cardinality(Todo) <= GmailBudget
    BY <1>0, <1>5, <1>7, <1>11, ConstantsAssumption
  <2>2. First(Todo, GmailBudget) = Todo
    BY <2>1, <1>5, FirstAll, ConstantsAssumption
  <2>3. k \in (at[p] + 1) .. GmailReach(p)
    BY <1>0, <1>8, <1>11
  <2> QED BY <2>2, <2>3, <1>3, <1>9
<1> QED BY <1>6, <1>8, <1>10, <1>11 DEF Todo

LEMMA OutlookLists ==
  ASSUME TypeOK, NEW p \in Pass, at[p] # None
  PROVE  /\ First(OutlookTodo(p), Budget) \in SUBSET (1 .. received)
         /\ OutlookReach(p) \in -1 .. received
         /\ \A k \in 1 .. received :
              at[p] < k /\ k <= OutlookReach(p) => k \in First(OutlookTodo(p), Budget)
<1> DEFINE Todo == OutlookTodo(p)
           Now  == First(Todo, Budget)
           Ends == {at[p]} \cup Now
<1>0. received \in Nat /\ at[p] \in Int /\ 0 <= at[p] /\ at[p] <= received
  BY Bounds
<1>1. Todo \in SUBSET (1 .. received) /\ \A k \in 1 .. received : at[p] < k => k \in Todo
  BY <1>0 DEF OutlookTodo
<1> HIDE DEF Todo
<1>2. Todo \in SUBSET Int /\ IsFiniteSet(Todo)
  <2>1. received \in Nat /\ Todo \subseteq 0 .. received
    BY <1>0, <1>1
  <2> QED BY <2>1, RangeFinite
<1>3. Now \in SUBSET (1 .. received)
  BY <1>1, FirstSubset
<1> HIDE DEF Now
<1>4. Ends \subseteq 0 .. received /\ Ends # {}
  <2>1. at[p] \in 0 .. received /\ Now \subseteq 0 .. received
    BY <1>0, <1>3
  <2> QED BY <2>1
<1>5. OutlookReach(p) = Max(Ends)
  BY DEF OutlookReach, Now, Todo
<1> HIDE DEF Ends
<1>6. Ends \in SUBSET Int /\ IsFiniteSet(Ends)
  BY <1>0, <1>4, RangeFinite
<1>7. Max(Ends) \in Ends
  BY <1>4, <1>6, MaxIn
<1>8. Max(Ends) \in 0 .. received
  BY <1>4, <1>7
<1>9. ASSUME NEW k \in 1 .. received, at[p] < k, k <= Max(Ends)
      PROVE  k \in Now
  <2>1. Max(Ends) # at[p]
    BY <1>0, <1>8, <1>9
  <2>2. Max(Ends) \in Now
    BY <1>7, <2>1 DEF Ends
  <2>3. k \in Todo
    BY <1>1, <1>9
  <2> QED BY <1>2, <1>9, <2>2, <2>3, FirstDown, ConstantsAssumption DEF Now
<1> QED BY <1>0, <1>3, <1>5, <1>8, <1>9 DEF Now, Todo

LEMMA CalendarLists ==
  ASSUME TypeOK, NEW p \in Pass
  PROVE  /\ First(CalendarTodo(p), CalendarBudget) \in SUBSET (1 .. received)
         /\ CalendarReach(p) \in -1 .. received
         /\ \A k \in 1 .. received :
              at[p] < k /\ k <= CalendarReach(p)
                => k \in First(CalendarTodo(p), CalendarBudget)
<1> DEFINE Todo == CalendarTodo(p)
<1>0. received \in Nat /\ at[p] \in Int /\ -1 <= at[p] /\ at[p] <= received
  BY Bounds
<1>1. Todo \in SUBSET (1 .. received) /\ \A k \in 1 .. received : at[p] < k => k \in Todo
  <2>1. CASE at[p] = None
    BY <2>1 DEF CalendarTodo
  <2>2. CASE at[p] # None
    BY <1>0, <2>2 DEF CalendarTodo
  <2> QED BY <2>1, <2>2
<1>2. CalendarReach(p) = IF Cardinality(Todo) > CalendarBudget THEN -1 ELSE received
  BY DEF CalendarReach
<1> HIDE DEF Todo
<1>3. Todo \in SUBSET Int /\ IsFiniteSet(Todo) /\ Cardinality(Todo) \in Nat
  <2>1. received \in Nat /\ Todo \subseteq 0 .. received
    BY <1>0, <1>1
  <2> QED BY <2>1, RangeFinite
<1>4. First(Todo, CalendarBudget) \in SUBSET (1 .. received)
  BY <1>1, FirstSubset
<1>5. CalendarReach(p) \in -1 .. received
  BY <1>0, <1>2
<1>6. ASSUME NEW k \in 1 .. received, at[p] < k, k <= CalendarReach(p)
      PROVE  k \in First(Todo, CalendarBudget)
  <2>1. Cardinality(Todo) <= CalendarBudget
    BY <1>0, <1>2, <1>3, <1>6, ConstantsAssumption
  <2>2. First(Todo, CalendarBudget) = Todo
    BY <1>3, <2>1, FirstAll, ConstantsAssumption
  <2> QED BY <1>1, <1>6, <2>2
<1> QED BY <1>4, <1>5, <1>6 DEF Todo

LEMMA NextToRead ==
  ASSUME TypeOK, NEW p \in Pass, todo[p] # {}
  PROVE  Min(todo[p]) \in todo[p] /\ todo[p] \in SUBSET (1 .. received)
<1>1. todo[p] \in SUBSET (1 .. received)
  BY DEF TypeOK
<1>2. received \in Nat
  BY Bounds
<1>3. todo[p] \in SUBSET Int /\ IsFiniteSet(todo[p])
  <2>1. todo[p] \subseteq 0 .. received
    BY <1>1, <1>2
  <2> QED BY <1>2, <2>1, RangeFinite
<1> QED BY <1>1, <1>3, MinIn

-----------------------------------------------------------------------------
(* A pass that is over.                                                    *)

LEMMA Ranges ==
  ASSUME TypeOK
  PROVE  /\ received \in Nat /\ rows \in Nat /\ MaxMail \in Nat /\ MaxRows \in Nat /\ MaxFaults \in Nat
         /\ rows <= MaxRows /\ 0 \in 0 .. rows /\ None \in None .. received
         /\ id \in 0 .. rows /\ cursor \in None .. received /\ since \in None .. received
         /\ faults \in Nat /\ faults <= MaxFaults
BY ConstantsAssumption DEF TypeOK

LEMMA OverTypes ==
  ASSUME TypeOK, NEW p \in Pass, Over(p)
  PROVE  /\ pc' \in [Pass -> {"off", "listed", "claimed", "read", "open", "listing", "reading"}]
         /\ claim' \in [Pass -> 0 .. rows] /\ row' \in [Pass -> 0 .. rows]
         /\ at' \in [Pass -> None .. received] /\ reach' \in [Pass -> None .. received]
         /\ todo' \in [Pass -> SUBSET (1 .. received)]
<1>1. 0 \in 0 .. rows /\ None \in None .. received
  BY Ranges
<1> QED BY <1>1 DEF TypeOK, Over

LEMMA WritesShape ==
  ASSUME Shape, NEW p \in Pass, NEW b \in BOOLEAN, NEW c \in {cursor, None}, NEW w \in BOOLEAN,
         Writes(p, b, c, w), UNCHANGED <<account, mail>>, faults' \in 0 .. MaxFaults
  PROVE  Shape'
<1>1. Over(p) /\ c \in None .. received
  BY Ranges DEF Writes, Shape
<1>2. /\ pc' \in [Pass -> {"off", "listed", "claimed", "read", "open", "listing", "reading"}]
         /\ claim' \in [Pass -> 0 .. rows] /\ row' \in [Pass -> 0 .. rows]
         /\ at' \in [Pass -> None .. received] /\ reach' \in [Pass -> None .. received]
         /\ todo' \in [Pass -> SUBSET (1 .. received)]
  BY <1>1, OverTypes DEF Shape
<1>3. broken' \in BOOLEAN /\ cursor' \in None .. received /\ waits' \in BOOLEAN
      /\ fresh' \in SUBSET Pass
  BY <1>1 DEF Writes, Shape, TypeOK
<1>4. overtaken' \in SUBSET Pass
  BY DEF Writes, Freed, Shape, TypeOK
<1>5. id' = id /\ since' = since
  BY DEF Writes
<1> QED
  BY <1>2, <1>3, <1>4, <1>5 DEF Shape, TypeOK, RoomForRow

LEMMA MaxOfTwo ==
  ASSUME NEW a \in Int, NEW b \in Int
  PROVE  Max({a, b}) = IF a >= b THEN a ELSE b
<1> DEFINE m == IF a >= b THEN a ELSE b
<1>1. m \in {a, b} /\ \A y \in {a, b} : m >= y
  OBVIOUS
<1>2. \A x \in {a, b} : (\A y \in {a, b} : x >= y) => x = m
  OBVIOUS
<1> QED BY <1>1, <1>2 DEF Max

(* The cursors of the passes that remain stay as they were.                *)
LEMMA OverFollows ==
  ASSUME IInv, NEW p \in Pass, Over(p), UNCHANGED <<account, mail>>,
         since' \in None .. received, since <= since'
  PROVE  /\ \A q \in Pass : at'[q] # None => since' # None
         /\ provider' = "calendar" => since' # None
         /\ ListsFromCursor' /\ AtFollows' /\ ReachFollows'
<1>1. \A q \in Pass : at'[q] \in {at[q], None}
  BY DEF Over, IInv, Shape, TypeOK
<1>2. \A q \in Pass : pc'[q] \in {"listing", "open", "reading"}
        => pc'[q] = pc[q] /\ at'[q] = at[q] /\ reach'[q] = reach[q] /\ todo'[q] = todo[q]
  BY DEF Over, IInv, Shape, TypeOK
<1>3. Asked' = Asked /\ received' = received
  BY DEF Asked
<1>4. \A q \in Pass : at[q] \in Int /\ reach[q] \in Int
  BY Bounds DEF IInv, Shape
<1>5. since \in Int /\ since' \in Int /\ received \in Nat /\ -1 <= since
  BY Ranges DEF IInv, Shape
<1>6. \A q \in Pass : at'[q] # None => since' # None
  BY <1>1, <1>5 DEF IInv, Reading, Started
<1>11. provider' = "calendar" => since' # None
  BY <1>5 DEF IInv, Reading, Started
<1>7. ListsFromCursor'
  BY <1>2 DEF IInv, Reading, ListsFromCursor
<1>8. ASSUME NEW q \in Pass, NEW k \in 1 .. received, since' < k, k <= at'[q]
      PROVE  k \in Asked
  <2>1. k \in Int /\ 1 <= k
    BY <1>5
  <2>2. at'[q] = at[q] /\ at[q] # None
    BY <1>1, <1>8, <2>1
  <2>3. since # None /\ since < k
    BY <1>5, <1>8, <2>1, <2>2 DEF IInv, Reading, Started
  <2> QED BY <1>8, <2>2, <2>3 DEF IInv, Reading, AtFollows
<1>9. ASSUME NEW q \in Pass, NEW k \in 1 .. received, pc'[q] = "reading",
             at'[q] # None \/ provider = "calendar", since' < k, k <= reach'[q]
      PROVE  k \in Asked \cup todo'[q]
  <2>1. /\ pc[q] = "reading" /\ (at[q] # None \/ provider = "calendar")
        /\ k <= reach[q] /\ todo'[q] = todo[q]
    BY <1>2, <1>9
  <2>2. since < k
    BY <1>5, <1>9
  <2> QED BY <2>1, <2>2 DEF IInv, Reading, ReachFollows
<1>10. AtFollows' /\ ReachFollows'
  BY <1>3, <1>8, <1>9 DEF AtFollows, ReachFollows
<1> QED BY <1>6, <1>7, <1>10, <1>11

LEMMA OverReading ==
  ASSUME IInv, NEW p \in Pass, Over(p), UNCHANGED <<account, mail, since>>,
         cursor' \in {cursor, None}
  PROVE  Reading'
<1>1. since' \in None .. received /\ since <= since'
  BY Ranges DEF IInv, Shape
<1>2. CursorFollowsReading'
  BY Ranges DEF IInv, Shape, Reading, CursorFollowsReading
<1>3. cursor' # None => since' # None
  BY DEF IInv, Reading, Started
<1> QED BY <1>1, <1>2, <1>3, OverFollows DEF Reading, Started

-----------------------------------------------------------------------------
(* The shape of the state.                                                 *)

LEMMA MailArrivesShape ==
  ASSUME IInv, MailArrives
  PROVE  Shape'
BY ConstantsAssumption
   DEF IInv, Shape, TypeOK, RoomForRow,
       MailArrives

LEMMA FindGrantShape ==
  ASSUME IInv, FindGrant
  PROVE  Shape'
BY ConstantsAssumption
   DEF IInv, Shape, TypeOK, RoomForRow,
       FindGrant

LEMMA EnsureShape ==
  ASSUME IInv, Ensure
  PROVE  Shape'
<1>1. /\ rows \in Nat /\ MaxRows \in Nat /\ rows < MaxRows /\ id \in 0 .. rows
      /\ None \in None .. received /\ cursor \in None .. received
  BY Ranges DEF IInv, Shape, Ensure, RoomForRow
<1>2. rows' \in 0 .. MaxRows /\ rows <= rows' /\ id' \in 0 .. rows' /\ cursor' \in None .. received
  BY <1>1 DEF Ensure
<1>3. claim \in [Pass -> 0 .. rows'] /\ row \in [Pass -> 0 .. rows']
  <2>1. 0 .. rows \subseteq 0 .. rows'
    BY <1>1, <1>2
  <2> QED BY <2>1 DEF IInv, Shape, TypeOK
<1>4. overtaken' \in SUBSET Pass
  BY DEF Ensure, Freed, IInv, Shape, TypeOK
<1> QED
  BY <1>2, <1>3, <1>4 DEF Ensure, IInv, Shape, TypeOK, RoomForRow

LEMMA RemoveRowShape ==
  ASSUME IInv, RemoveRow
  PROVE  Shape'
<1>1. 0 \in 0 .. rows /\ None \in None .. received /\ faults' \in 0 .. MaxFaults
  BY Ranges DEF IInv, Shape, RemoveRow
<1> QED
  BY <1>1 DEF RemoveRow, IInv, Shape, TypeOK, RoomForRow

LEMMA DropGrantShape ==
  ASSUME IInv, DropGrant
  PROVE  Shape'
BY ConstantsAssumption
   DEF IInv, Shape, TypeOK, RoomForRow,
       DropGrant

LEMMA ReconnectShape ==
  ASSUME IInv, Reconnect
  PROVE  Shape'
BY ConstantsAssumption
   DEF IInv, Shape, TypeOK, RoomForRow,
       Reconnect

LEMMA RetryAfterPassesShape ==
  ASSUME IInv, RetryAfterPasses
  PROVE  Shape'
BY ConstantsAssumption
   DEF IInv, Shape, TypeOK, RoomForRow,
       RetryAfterPasses, Freed

LEMMA CrashShape ==
  ASSUME IInv, Crash
  PROVE  Shape'
<1>1. /\ 0 \in 0 .. rows /\ None \in None .. received
      /\ faults \in Nat /\ faults <= MaxFaults /\ MaxFaults \in Nat
  BY Ranges DEF IInv, Shape
<1>2. /\ pc' \in [Pass -> {"off", "listed", "claimed", "read", "open", "listing", "reading"}]
      /\ claim' \in [Pass -> 0 .. rows] /\ row' \in [Pass -> 0 .. rows]
      /\ at' \in [Pass -> None .. received] /\ reach' \in [Pass -> None .. received]
      /\ todo' \in [Pass -> SUBSET (1 .. received)]
  BY <1>1 DEF Crash
<1>3. faults' \in 0 .. MaxFaults
  BY <1>1 DEF Crash
<1> QED
  BY <1>2, <1>3 DEF Crash, IInv, Shape, TypeOK, RoomForRow

LEMMA ListDueShape ==
  ASSUME IInv, NEW p \in Pass, ListDue(p)
  PROVE  Shape'
BY ConstantsAssumption
   DEF IInv, Shape, TypeOK, RoomForRow,
       ListDue

LEMMA ClaimShape ==
  ASSUME IInv, NEW p \in Pass, Claim(p)
  PROVE  Shape'
<1>1. pc' \in [Pass -> {"off", "listed", "claimed", "read", "open", "listing", "reading"}]
  BY DEF Claim, IInv, Shape, TypeOK
<1>2. claim' \in [Pass -> 0 .. rows]
  BY DEF Claim, IInv, Shape, TypeOK
<1>3. waits' \in BOOLEAN /\ fresh' \in SUBSET Pass /\ overtaken' \in SUBSET Pass
  BY DEF Claim, IInv, Shape, TypeOK
<1> QED
  BY <1>1, <1>2, <1>3 DEF Claim, IInv, Shape, TypeOK, RoomForRow

LEMMA ReadRowShape ==
  ASSUME IInv, NEW p \in Pass, ReadRow(p)
  PROVE  Shape'
BY ConstantsAssumption
   DEF IInv, Shape, TypeOK, RoomForRow,
       ReadRow, Over, Release, Freed

LEMMA SkipShape ==
  ASSUME IInv, NEW p \in Pass, Skip(p)
  PROVE  Shape'
<1>1. Shape /\ Over(p)
  BY DEF IInv, Skip
<1>2. /\ pc' \in [Pass -> {"off", "listed", "claimed", "read", "open", "listing", "reading"}]
         /\ claim' \in [Pass -> 0 .. rows] /\ row' \in [Pass -> 0 .. rows]
         /\ at' \in [Pass -> None .. received] /\ reach' \in [Pass -> None .. received]
         /\ todo' \in [Pass -> SUBSET (1 .. received)]
  BY <1>1, OverTypes DEF Shape
<1>3. /\ broken' \in BOOLEAN /\ waits' \in BOOLEAN /\ fresh' \in SUBSET Pass
      /\ faults' \in 0 .. MaxFaults
  BY <1>1, Ranges DEF Skip, Release, Shape, TypeOK
<1>4. overtaken' \in SUBSET Pass
  BY <1>1 DEF Skip, Release, Freed, Shape, TypeOK
<1>5. cursor' \in None .. received /\ since' \in None .. received
  BY <1>1 DEF Skip, Shape, TypeOK
<1>6. UNCHANGED <<account, id, mail>>
  BY DEF Skip
<1> QED
  BY <1>1, <1>2, <1>3, <1>4, <1>5, <1>6 DEF Shape, TypeOK, RoomForRow

LEMMA RefreshFailsShape ==
  ASSUME IInv, NEW p \in Pass, RefreshFails(p)
  PROVE  Shape'
<1>1. Shape /\ UNCHANGED <<account, mail>> /\ faults' = faults + 1 /\ faults < MaxFaults
  BY DEF IInv, RefreshFails, Fails
<1>2. faults' \in 0 .. MaxFaults
  BY <1>1, Ranges DEF Shape
<1>3. \E b, w \in BOOLEAN, c \in {cursor, None} : Writes(p, b, c, w)
  BY DEF RefreshFails
<1> QED
  BY <1>1, <1>2, <1>3, WritesShape

LEMMA OpenShape ==
  ASSUME IInv, NEW p \in Pass, Open(p)
  PROVE  Shape'
<1>1. CASE Over(p)
  <2>1. /\ pc' \in [Pass -> {"off", "listed", "claimed", "read", "open", "listing", "reading"}]
         /\ claim' \in [Pass -> 0 .. rows] /\ row' \in [Pass -> 0 .. rows]
         /\ at' \in [Pass -> None .. received] /\ reach' \in [Pass -> None .. received]
         /\ todo' \in [Pass -> SUBSET (1 .. received)]
    BY <1>1, OverTypes DEF IInv, Shape
  <2> QED BY <2>1 DEF Open, IInv, Shape, TypeOK, RoomForRow
<1>2. CASE /\ UNCHANGED mine
           /\ pc' = [pc EXCEPT ![p] = IF at[p] = None /\ provider # "calendar"
                                       THEN "open" ELSE "listing"]
  BY <1>2 DEF Open, IInv, Shape, TypeOK, RoomForRow
<1> QED BY <1>1, <1>2 DEF Open

LEMMA StartShape ==
  ASSUME IInv, NEW p \in Pass, Start(p)
  PROVE  Shape'
BY ConstantsAssumption
   DEF IInv, Shape, TypeOK, RoomForRow,
       Start

LEMMA ReadMessageShape ==
  ASSUME IInv, NEW p \in Pass, ReadMessage(p)
  PROVE  Shape'
BY ConstantsAssumption, NextToRead
   DEF IInv, Shape, TypeOK, RoomForRow,
       ReadMessage

LEMMA SettleShape ==
  ASSUME IInv, NEW p \in Pass, Settle(p)
  PROVE  Shape'
<1>1. Shape /\ Over(p)
  BY DEF IInv, Settle
<1>2. /\ pc' \in [Pass -> {"off", "listed", "claimed", "read", "open", "listing", "reading"}]
         /\ claim' \in [Pass -> 0 .. rows] /\ row' \in [Pass -> 0 .. rows]
         /\ at' \in [Pass -> None .. received] /\ reach' \in [Pass -> None .. received]
         /\ todo' \in [Pass -> SUBSET (1 .. received)]
  BY <1>1, OverTypes DEF Shape
<1>3. /\ broken' \in BOOLEAN /\ waits' \in BOOLEAN /\ fresh' \in SUBSET Pass
      /\ faults' \in 0 .. MaxFaults
  BY <1>1, Ranges DEF Settle, Release, Shape, TypeOK
<1>4. overtaken' \in SUBSET Pass
  BY <1>1 DEF Settle, Release, Freed, Shape, TypeOK
<1>5. cursor' \in None .. received /\ since' \in None .. received
  <2>1. reach[p] \in None .. received
    BY <1>1 DEF Shape, TypeOK
  <2>2. Max({since, reach[p]}) \in None .. received
    BY <1>1, <2>1, Ranges, MaxOfTwo DEF Shape
  <2> QED BY <1>1, <2>1, <2>2, Ranges DEF Settle, Shape
<1>6. UNCHANGED <<account, id, mail>>
  BY DEF Settle
<1> QED
  BY <1>1, <1>2, <1>3, <1>4, <1>5, <1>6 DEF Shape, TypeOK, RoomForRow

LEMMA CallFailsShape ==
  ASSUME IInv, NEW p \in Pass, CallFails(p)
  PROVE  Shape'
<1>1. Shape /\ UNCHANGED <<account, mail>> /\ faults' = faults + 1 /\ faults < MaxFaults
  BY DEF IInv, CallFails, Fails
<1>2. faults' \in 0 .. MaxFaults
  BY <1>1, Ranges DEF Shape
<1>3. \E b, w \in BOOLEAN, c \in {cursor, None} : Writes(p, b, c, w)
  BY DEF CallFails, Fails
<1> QED
  BY <1>1, <1>2, <1>3, WritesShape

LEMMA HistoryExpiredShape ==
  ASSUME IInv, NEW p \in Pass, HistoryExpired(p)
  PROVE  Shape'
<1>1. Shape /\ UNCHANGED <<account, mail>> /\ faults' = faults + 1 /\ faults < MaxFaults
  BY DEF IInv, HistoryExpired, Fails
<1>2. faults' \in 0 .. MaxFaults
  BY <1>1, Ranges DEF Shape
<1>3. \E b, w \in BOOLEAN, c \in {cursor, None} : Writes(p, b, c, w)
  BY DEF HistoryExpired
<1> QED
  BY <1>1, <1>2, <1>3, WritesShape

LEMMA MessageFailsShape ==
  ASSUME IInv, NEW p \in Pass, MessageFails(p)
  PROVE  Shape'
<1>1. Min(todo[p]) \in 1 .. received
  BY NextToRead DEF IInv, Shape, MessageFails
<1>2. todo' \in [Pass -> SUBSET (1 .. received)]
  BY DEF MessageFails, IInv, Shape, TypeOK
<1>3. faults' \in 0 .. MaxFaults
  BY Ranges DEF IInv, Shape, MessageFails
<1>4. handled' \subseteq tried' /\ tried' \subseteq 1 .. received
  BY <1>1 DEF MessageFails, IInv, Shape, TypeOK
<1> QED
  BY <1>2, <1>3, <1>4 DEF MessageFails, IInv, Shape, TypeOK, RoomForRow

LEMMA PageFailsShape ==
  ASSUME IInv, NEW p \in Pass, PageFails(p)
  PROVE  Shape'
<1>1. Shape /\ UNCHANGED <<account, mail>> /\ faults' = faults + 1 /\ faults < MaxFaults
  BY DEF IInv, PageFails, Fails
<1>2. faults' \in 0 .. MaxFaults
  BY <1>1, Ranges DEF Shape
<1>3. \E b, w \in BOOLEAN, c \in {cursor, None} : Writes(p, b, c, w)
  BY DEF PageFails, Fails
<1> QED
  BY <1>1, <1>2, <1>3, WritesShape

LEMMA StoreThrowsShape ==
  ASSUME IInv, NEW p \in Pass, StoreThrows(p)
  PROVE  Shape'
<1>1. Shape /\ Over(p)
  BY DEF IInv, StoreThrows
<1>2. /\ pc' \in [Pass -> {"off", "listed", "claimed", "read", "open", "listing", "reading"}]
         /\ claim' \in [Pass -> 0 .. rows] /\ row' \in [Pass -> 0 .. rows]
         /\ at' \in [Pass -> None .. received] /\ reach' \in [Pass -> None .. received]
         /\ todo' \in [Pass -> SUBSET (1 .. received)]
  BY <1>1, OverTypes DEF Shape
<1>3. /\ broken' \in BOOLEAN /\ waits' \in BOOLEAN /\ fresh' \in SUBSET Pass
      /\ faults' \in 0 .. MaxFaults
  <2>1. faults' \in 0 .. MaxFaults
    BY <1>1, Ranges DEF StoreThrows, Shape
  <2>2. broken \in BOOLEAN /\ waits \in BOOLEAN /\ fresh \in SUBSET Pass
    BY <1>1 DEF Shape, TypeOK
  <2> QED BY <2>1, <2>2 DEF StoreThrows
<1>4. overtaken' \in SUBSET Pass
  BY <1>1 DEF StoreThrows, Release, Freed, Shape, TypeOK
<1>5. cursor' \in None .. received /\ since' \in None .. received
  BY <1>1 DEF StoreThrows, Shape, TypeOK
<1>6. UNCHANGED <<account, id, mail>>
  BY DEF StoreThrows
<1> QED
  BY <1>1, <1>2, <1>3, <1>4, <1>5, <1>6 DEF Shape, TypeOK, RoomForRow

LEMMA ListShape ==
  ASSUME IInv, NEW p \in Pass, List(p)
  PROVE  Shape'
<1>1. at[p] # None \/ provider = "calendar"
  BY DEF IInv, Reading, ListsFromCursor, List
<1>2. PICK T \in SUBSET (1 .. received), x \in None .. received :
        todo' = [todo EXCEPT ![p] = T] /\ reach' = [reach EXCEPT ![p] = x]
  <2>1. CASE provider = "gmail"
    BY <1>1, <2>1, GmailLists DEF List, IInv, Shape
  <2>2. CASE provider = "outlook"
    BY <1>1, <2>2, OutlookLists DEF List, IInv, Shape
  <2>3. CASE provider = "calendar"
    BY <2>3, CalendarLists DEF List, IInv, Shape
  <2> QED BY <2>1, <2>2, <2>3 DEF List
<1>3. todo' \in [Pass -> SUBSET (1 .. received)] /\ reach' \in [Pass -> None .. received]
  BY <1>2 DEF IInv, Shape, TypeOK
<1>4. beyond' \subseteq 1 .. received
  <2>1. CASE provider = "gmail"
    <3>1. GmailBeyond(p) \in SUBSET (1 .. received)
      BY <1>1, <2>1, GmailLists DEF IInv, Shape
    <3> QED BY <2>1, <3>1 DEF List, IInv, Shape, TypeOK
  <2>2. CASE provider # "gmail"
    BY <2>2 DEF List, IInv, Shape, TypeOK
  <2> QED BY <2>1, <2>2
<1>5. pc' \in [Pass -> {"off", "listed", "claimed", "read", "open", "listing", "reading"}]
  BY DEF List, IInv, Shape, TypeOK
<1> QED
  BY <1>3, <1>4, <1>5 DEF List, IInv, Shape, TypeOK, RoomForRow

-----------------------------------------------------------------------------
(* The cursors.                                                            *)

LEMMA MailArrivesReading ==
  ASSUME IInv, MailArrives
  PROVE  Reading'
BY ConstantsAssumption
   DEF IInv, Shape, TypeOK, Reading, Started, ListsFromCursor, CursorFollowsReading, AtFollows,
       ReachFollows, Asked,
       MailArrives

LEMMA FindGrantReading ==
  ASSUME IInv, FindGrant
  PROVE  Reading'
BY ConstantsAssumption
   DEF IInv, Shape, TypeOK, Reading, Started, ListsFromCursor, CursorFollowsReading, AtFollows,
       ReachFollows, Asked,
       FindGrant

LEMMA EnsureReading ==
  ASSUME IInv, Ensure
  PROVE  Reading'
BY ConstantsAssumption
   DEF IInv, Shape, TypeOK, Reading, Started, ListsFromCursor, CursorFollowsReading, AtFollows,
       ReachFollows, Asked,
       Ensure, Freed

LEMMA RemoveRowReading ==
  ASSUME IInv, RemoveRow
  PROVE  Reading'
BY ConstantsAssumption
   DEF IInv, Shape, TypeOK, Reading, Started, ListsFromCursor, CursorFollowsReading, AtFollows,
       ReachFollows, Asked,
       RemoveRow

LEMMA DropGrantReading ==
  ASSUME IInv, DropGrant
  PROVE  Reading'
BY ConstantsAssumption
   DEF IInv, Shape, TypeOK, Reading, Started, ListsFromCursor, CursorFollowsReading, AtFollows,
       ReachFollows, Asked,
       DropGrant

LEMMA ReconnectReading ==
  ASSUME IInv, Reconnect
  PROVE  Reading'
BY ConstantsAssumption
   DEF IInv, Shape, TypeOK, Reading, Started, ListsFromCursor, CursorFollowsReading, AtFollows,
       ReachFollows, Asked,
       Reconnect

LEMMA RetryAfterPassesReading ==
  ASSUME IInv, RetryAfterPasses
  PROVE  Reading'
BY ConstantsAssumption
   DEF IInv, Shape, TypeOK, Reading, Started, ListsFromCursor, CursorFollowsReading, AtFollows,
       ReachFollows, Asked,
       RetryAfterPasses, Freed

LEMMA CrashReading ==
  ASSUME IInv, Crash
  PROVE  Reading'
BY ConstantsAssumption
   DEF IInv, Shape, TypeOK, Reading, Started, ListsFromCursor, CursorFollowsReading, AtFollows,
       ReachFollows, Asked,
       Crash

LEMMA ListDueReading ==
  ASSUME IInv, NEW p \in Pass, ListDue(p)
  PROVE  Reading'
BY ConstantsAssumption
   DEF IInv, Shape, TypeOK, Reading, Started, ListsFromCursor, CursorFollowsReading, AtFollows,
       ReachFollows, Asked,
       ListDue

LEMMA ClaimReading ==
  ASSUME IInv, NEW p \in Pass, Claim(p)
  PROVE  Reading'
BY ConstantsAssumption
   DEF IInv, Shape, TypeOK, Reading, Started, ListsFromCursor, CursorFollowsReading, AtFollows,
       ReachFollows, Asked,
       Claim, Claimable, Due

LEMMA ReadRowReading ==
  ASSUME IInv, NEW p \in Pass, ReadRow(p)
  PROVE  Reading'
<1>1. CASE id = 0
  BY <1>1, OverReading DEF ReadRow
<1>2. CASE id # 0
  <2>1. /\ pc' = [pc EXCEPT ![p] = "read"] /\ at' = [at EXCEPT ![p] = cursor]
        /\ UNCHANGED <<account, mail, since, cursor, todo>>
        /\ \A q \in Pass \ {p} : reach'[q] = reach[q]
    BY <1>2 DEF ReadRow, IInv, Shape, TypeOK
  <2>2. /\ pc'[p] = "read" /\ at'[p] = cursor
        /\ \A q \in Pass \ {p} : pc'[q] = pc[q] /\ at'[q] = at[q]
    BY <2>1 DEF IInv, Shape, TypeOK
  <2>3. Asked' = Asked
    BY <2>1 DEF Asked
  <2>4. Started' /\ ListsFromCursor' /\ CursorFollowsReading'
    BY <2>1, <2>2 DEF IInv, Reading, Started, ListsFromCursor, CursorFollowsReading
  <2>5. AtFollows'
    BY <2>1, <2>2, <2>3 DEF IInv, Reading, AtFollows, CursorFollowsReading, Asked
  <2>6. ReachFollows'
    BY <2>1, <2>2, <2>3 DEF IInv, Reading, ReachFollows
  <2> QED BY <2>4, <2>5, <2>6 DEF Reading
<1> QED BY <1>1, <1>2

LEMMA SkipReading ==
  ASSUME IInv, NEW p \in Pass, Skip(p)
  PROVE  Reading'
<1>1. Over(p) /\ cursor' \in {cursor, None} /\ UNCHANGED <<account, mail, since>>
  BY DEF Skip
<1> QED BY <1>1, OverReading

LEMMA RefreshFailsReading ==
  ASSUME IInv, NEW p \in Pass, RefreshFails(p)
  PROVE  Reading'
<1>1. Over(p) /\ cursor' \in {cursor, None} /\ UNCHANGED <<account, mail, since>>
  BY DEF RefreshFails, Writes
<1> QED BY <1>1, OverReading

LEMMA OpenReading ==
  ASSUME IInv, NEW p \in Pass, Open(p)
  PROVE  Reading'
BY ConstantsAssumption
   DEF IInv, Shape, TypeOK, Reading, Started, ListsFromCursor, CursorFollowsReading, AtFollows,
       ReachFollows, Asked,
       Open, Over

LEMMA StartReading ==
  ASSUME IInv, NEW p \in Pass, Start(p)
  PROVE  Reading'
BY ConstantsAssumption
   DEF IInv, Shape, TypeOK, Reading, Started, ListsFromCursor, CursorFollowsReading, AtFollows,
       ReachFollows, Asked,
       Start

LEMMA ReadMessageReading ==
  ASSUME IInv, NEW p \in Pass, ReadMessage(p)
  PROVE  Reading'
BY ConstantsAssumption, NextToRead
   DEF IInv, Shape, TypeOK, Reading, Started, ListsFromCursor, CursorFollowsReading, AtFollows,
       ReachFollows, Asked,
       ReadMessage

LEMMA SettleReading ==
  ASSUME IInv, NEW p \in Pass, Settle(p)
  PROVE  Reading'
<1>1. Over(p) /\ UNCHANGED <<account, mail>> /\ todo[p] = {} /\ pc[p] = "reading"
  BY DEF Settle
<1>2. CASE row[p] # id
  BY <1>1, <1>2, OverReading DEF Settle
<1>5. CASE row[p] = id /\ reach[p] = None
  <2>1. since \in Int /\ -1 <= since
    BY Ranges DEF IInv, Shape
  <2>2. Max({since, -1}) = since
    BY <2>1, MaxOfTwo
  <2>3. cursor' = cursor /\ since' = since
    BY <1>5, <2>2 DEF Settle
  <2> QED BY <1>1, <2>3, OverReading
<1>3. CASE row[p] = id /\ reach[p] # None /\ (at[p] # None \/ provider = "calendar")
  <2>1. cursor' = reach[p] /\ since' = since
    BY <1>3 DEF Settle
  <2>2. since # None /\ since' \in None .. received /\ since <= since'
    BY <1>3, <2>1, Ranges DEF IInv, Shape, Reading, Started
  <2>3. \A k \in 1 .. received : since < k /\ k <= reach[p] => k \in Asked
    BY <1>1, <1>3 DEF IInv, Reading, ReachFollows
  <2>4. CursorFollowsReading'
    BY <1>1, <2>1, <2>3 DEF CursorFollowsReading, Asked
  <2> QED BY <1>1, <2>1, <2>2, <2>4, OverFollows DEF Reading, Started
<1>4. CASE /\ row[p] = id /\ reach[p] # None
           /\ at[p] = None /\ provider # "calendar"
  <2>1. cursor' = reach[p] /\ since' = Max({since, reach[p]})
    BY <1>4 DEF Settle
  <2>2. /\ since \in Int /\ reach[p] \in Int /\ -1 <= since /\ since <= received
        /\ -1 <= reach[p] /\ reach[p] <= received /\ received \in Nat
    BY Ranges, Bounds DEF IInv, Shape
  <2>3. since' = IF since >= reach[p] THEN since ELSE reach[p]
    BY <2>1, <2>2, MaxOfTwo
  <2>4. since' \in None .. received /\ since <= since' /\ cursor' <= since' /\ cursor' \in Int
    BY <2>1, <2>2, <2>3
  <2>5. CursorFollowsReading'
    BY <1>1, <2>2, <2>4 DEF CursorFollowsReading
  <2>6. cursor' # None => since' # None
    BY <2>1, <2>2, <2>3
  <2> QED BY <1>1, <2>4, <2>5, <2>6, OverFollows DEF Reading, Started
<1> QED BY <1>2, <1>3, <1>4, <1>5

LEMMA CallFailsReading ==
  ASSUME IInv, NEW p \in Pass, CallFails(p)
  PROVE  Reading'
<1>1. Over(p) /\ cursor' \in {cursor, None} /\ UNCHANGED <<account, mail, since>>
  BY DEF CallFails, Fails, Writes
<1> QED BY <1>1, OverReading

LEMMA HistoryExpiredReading ==
  ASSUME IInv, NEW p \in Pass, HistoryExpired(p)
  PROVE  Reading'
<1>1. Over(p) /\ cursor' \in {cursor, None} /\ UNCHANGED <<account, mail, since>>
  BY DEF HistoryExpired, Writes
<1> QED BY <1>1, OverReading

LEMMA MessageFailsReading ==
  ASSUME IInv, NEW p \in Pass, MessageFails(p)
  PROVE  Reading'
BY ConstantsAssumption, NextToRead
   DEF IInv, Shape, TypeOK, Reading, Started, ListsFromCursor, CursorFollowsReading, AtFollows,
       ReachFollows, Asked,
       MessageFails

LEMMA PageFailsReading ==
  ASSUME IInv, NEW p \in Pass, PageFails(p)
  PROVE  Reading'
<1>1. Over(p) /\ cursor' \in {cursor, None} /\ UNCHANGED <<account, mail, since>>
  BY DEF PageFails, Fails, Writes
<1> QED BY <1>1, OverReading

LEMMA StoreThrowsReading ==
  ASSUME IInv, NEW p \in Pass, StoreThrows(p)
  PROVE  Reading'
<1>1. Over(p) /\ cursor' \in {cursor, None} /\ UNCHANGED <<account, mail, since>>
  BY DEF StoreThrows
<1> QED BY <1>1, OverReading

LEMMA ListReading ==
  ASSUME IInv, NEW p \in Pass, List(p)
  PROVE  Reading'
<1>1. at[p] # None \/ provider = "calendar"
  BY DEF IInv, Reading, ListsFromCursor, List
<1>2. Asked \subseteq Asked'
  BY DEF Asked, List
<1>3. UNCHANGED <<provider, received, since, cursor, at>>
  BY DEF List
<1>4. Started' /\ ListsFromCursor'
  BY <1>3 DEF IInv, Shape, TypeOK, Reading, Started, ListsFromCursor, List
<1>5. CursorFollowsReading' /\ AtFollows'
  BY <1>2, <1>3 DEF IInv, Reading, CursorFollowsReading, AtFollows, Asked
<1>6. ASSUME NEW k \in 1 .. received, since < k, k <= reach'[p]
      PROVE  k \in Asked' \cup todo'[p]
  <2>1. since # None /\ at[p] \in Int /\ k \in Int
    BY <1>1, Bounds DEF IInv, Shape, Reading, Started
  <2>2. CASE k <= at[p]
    BY <1>2, <1>6, <2>1, <2>2 DEF IInv, Reading, AtFollows
  <2>3. CASE at[p] < k /\ provider = "gmail"
    <3>1. /\ reach'[p] = GmailReach(p) /\ todo'[p] = First(GmailTodo(p), GmailBudget)
          /\ beyond' = beyond \cup GmailBeyond(p) /\ UNCHANGED <<provider, tried, handled>>
      BY <2>3 DEF List, IInv, Shape, TypeOK
    <3>2. k \in (handled \cup GmailBeyond(p)) \cup First(GmailTodo(p), GmailBudget)
      BY <1>1, <1>6, <2>3, <3>1, GmailLists DEF IInv, Shape
    <3>3. handled \subseteq tried
      BY DEF IInv, Shape, TypeOK
    <3> QED BY <2>3, <3>1, <3>2, <3>3 DEF Asked
  <2>4. CASE at[p] < k /\ provider = "outlook"
    <3>1. reach'[p] = OutlookReach(p) /\ todo'[p] = First(OutlookTodo(p), Budget)
      BY <2>4 DEF List, IInv, Shape, TypeOK
    <3> QED BY <1>1, <1>6, <2>4, <3>1, OutlookLists DEF IInv, Shape
  <2>5. CASE at[p] < k /\ provider = "calendar"
    <3>1. reach'[p] = CalendarReach(p) /\ todo'[p] = First(CalendarTodo(p), CalendarBudget)
      BY <2>5 DEF List, IInv, Shape, TypeOK
    <3> QED BY <1>6, <2>5, <3>1, CalendarLists DEF IInv, Shape
  <2>6. provider \in {"gmail", "outlook", "calendar"}
    BY DEF IInv, Shape, TypeOK
  <2> QED BY <2>1, <2>2, <2>3, <2>4, <2>5, <2>6
<1>7. \A q \in Pass \ {p} : pc'[q] = pc[q] /\ reach'[q] = reach[q] /\ todo'[q] = todo[q]
  BY DEF List, IInv, Shape, TypeOK
<1>8. ReachFollows'
  BY <1>2, <1>3, <1>6, <1>7 DEF IInv, Reading, ReachFollows
<1> QED BY <1>4, <1>5, <1>8 DEF Reading

-----------------------------------------------------------------------------
(* The lease.                                                              *)

LEMMA MailArrivesLease ==
  ASSUME IInv, MailArrives
  PROVE  Lease' /\ OneTickUnlessOvertaken'
BY ConstantsAssumption
   DEF IInv, Shape, TypeOK, Lease, OneTickUnlessOvertaken,
       MailArrives

LEMMA FindGrantLease ==
  ASSUME IInv, FindGrant
  PROVE  Lease' /\ OneTickUnlessOvertaken'
BY ConstantsAssumption
   DEF IInv, Shape, TypeOK, Lease, OneTickUnlessOvertaken,
       FindGrant

LEMMA EnsureLease ==
  ASSUME IInv, Ensure
  PROVE  Lease' /\ OneTickUnlessOvertaken'
BY ConstantsAssumption
   DEF IInv, Shape, TypeOK, Lease, OneTickUnlessOvertaken,
       Ensure, Freed

LEMMA RemoveRowLease ==
  ASSUME IInv, RemoveRow
  PROVE  Lease' /\ OneTickUnlessOvertaken'
BY ConstantsAssumption
   DEF IInv, Shape, TypeOK, Lease, OneTickUnlessOvertaken,
       RemoveRow

LEMMA DropGrantLease ==
  ASSUME IInv, DropGrant
  PROVE  Lease' /\ OneTickUnlessOvertaken'
BY ConstantsAssumption
   DEF IInv, Shape, TypeOK, Lease, OneTickUnlessOvertaken,
       DropGrant

LEMMA ReconnectLease ==
  ASSUME IInv, Reconnect
  PROVE  Lease' /\ OneTickUnlessOvertaken'
BY ConstantsAssumption
   DEF IInv, Shape, TypeOK, Lease, OneTickUnlessOvertaken,
       Reconnect

LEMMA RetryAfterPassesLease ==
  ASSUME IInv, RetryAfterPasses
  PROVE  Lease' /\ OneTickUnlessOvertaken'
BY ConstantsAssumption
   DEF IInv, Shape, TypeOK, Lease, OneTickUnlessOvertaken,
       RetryAfterPasses, Freed

LEMMA CrashLease ==
  ASSUME IInv, Crash
  PROVE  Lease' /\ OneTickUnlessOvertaken'
BY ConstantsAssumption
   DEF IInv, Shape, TypeOK, Lease, OneTickUnlessOvertaken,
       Crash

LEMMA ListDueLease ==
  ASSUME IInv, NEW p \in Pass, ListDue(p)
  PROVE  Lease' /\ OneTickUnlessOvertaken'
BY ConstantsAssumption
   DEF IInv, Shape, TypeOK, Lease, OneTickUnlessOvertaken,
       ListDue

LEMMA ClaimLease ==
  ASSUME IInv, NEW p \in Pass, Claim(p)
  PROVE  Lease' /\ OneTickUnlessOvertaken'
BY ConstantsAssumption
   DEF IInv, Shape, TypeOK, Lease, OneTickUnlessOvertaken,
       Claim, Claimable, Due

LEMMA ReadRowLease ==
  ASSUME IInv, NEW p \in Pass, ReadRow(p)
  PROVE  Lease' /\ OneTickUnlessOvertaken'
BY ConstantsAssumption
   DEF IInv, Shape, TypeOK, Lease, OneTickUnlessOvertaken,
       ReadRow, Over, Release, Freed

LEMMA SkipLease ==
  ASSUME IInv, NEW p \in Pass, Skip(p)
  PROVE  Lease' /\ OneTickUnlessOvertaken'
BY ConstantsAssumption
   DEF IInv, Shape, TypeOK, Lease, OneTickUnlessOvertaken,
       Skip, Over, Release, Freed

LEMMA RefreshFailsLease ==
  ASSUME IInv, NEW p \in Pass, RefreshFails(p)
  PROVE  Lease' /\ OneTickUnlessOvertaken'
BY ConstantsAssumption
   DEF IInv, Shape, TypeOK, Lease, OneTickUnlessOvertaken,
       RefreshFails, Writes, Over, Freed

LEMMA OpenLease ==
  ASSUME IInv, NEW p \in Pass, Open(p)
  PROVE  Lease' /\ OneTickUnlessOvertaken'
BY ConstantsAssumption
   DEF IInv, Shape, TypeOK, Lease, OneTickUnlessOvertaken,
       Open, Over

LEMMA StartLease ==
  ASSUME IInv, NEW p \in Pass, Start(p)
  PROVE  Lease' /\ OneTickUnlessOvertaken'
BY ConstantsAssumption
   DEF IInv, Shape, TypeOK, Lease, OneTickUnlessOvertaken,
       Start

LEMMA ReadMessageLease ==
  ASSUME IInv, NEW p \in Pass, ReadMessage(p)
  PROVE  Lease' /\ OneTickUnlessOvertaken'
BY ConstantsAssumption
   DEF IInv, Shape, TypeOK, Lease, OneTickUnlessOvertaken,
       ReadMessage

LEMMA SettleLease ==
  ASSUME IInv, NEW p \in Pass, Settle(p)
  PROVE  Lease' /\ OneTickUnlessOvertaken'
BY ConstantsAssumption
   DEF IInv, Shape, TypeOK, Lease, OneTickUnlessOvertaken,
       Settle, Over, Freed

LEMMA CallFailsLease ==
  ASSUME IInv, NEW p \in Pass, CallFails(p)
  PROVE  Lease' /\ OneTickUnlessOvertaken'
BY ConstantsAssumption
   DEF IInv, Shape, TypeOK, Lease, OneTickUnlessOvertaken,
       CallFails, Fails, Writes, Over, Freed

LEMMA HistoryExpiredLease ==
  ASSUME IInv, NEW p \in Pass, HistoryExpired(p)
  PROVE  Lease' /\ OneTickUnlessOvertaken'
BY ConstantsAssumption
   DEF IInv, Shape, TypeOK, Lease, OneTickUnlessOvertaken,
       HistoryExpired, Writes, Over, Freed

LEMMA MessageFailsLease ==
  ASSUME IInv, NEW p \in Pass, MessageFails(p)
  PROVE  Lease' /\ OneTickUnlessOvertaken'
BY ConstantsAssumption
   DEF IInv, Shape, TypeOK, Lease, OneTickUnlessOvertaken,
       MessageFails

LEMMA PageFailsLease ==
  ASSUME IInv, NEW p \in Pass, PageFails(p)
  PROVE  Lease' /\ OneTickUnlessOvertaken'
BY ConstantsAssumption
   DEF IInv, Shape, TypeOK, Lease, OneTickUnlessOvertaken,
       PageFails, Fails, Writes, Over, Freed

LEMMA StoreThrowsLease ==
  ASSUME IInv, NEW p \in Pass, StoreThrows(p)
  PROVE  Lease' /\ OneTickUnlessOvertaken'
BY ConstantsAssumption
   DEF IInv, Shape, TypeOK, Lease, OneTickUnlessOvertaken,
       StoreThrows, Over, Freed

LEMMA ListLease ==
  ASSUME IInv, NEW p \in Pass, List(p)
  PROVE  Lease' /\ OneTickUnlessOvertaken'
BY ConstantsAssumption
   DEF IInv, Shape, TypeOK, Lease, OneTickUnlessOvertaken,
       List

-----------------------------------------------------------------------------
(* The theorems.                                                           *)

LEMMA ShapeStep ==
  ASSUME IInv, [Next]_vars
  PROVE  Shape'
<1>1. ASSUME NEW p \in Pass, ListDue(p) \/ SyncNow(p) \/ Step(p) PROVE Shape'
  BY <1>1, ListDueShape, ReadRowShape, ClaimShape, SkipShape, OpenShape, StartShape, ListShape,
     ReadMessageShape, SettleShape DEF SyncNow, Step
<1>2. ASSUME NEW p \in Pass, Fault(p) PROVE Shape'
  BY <1>2, RefreshFailsShape, CallFailsShape, HistoryExpiredShape, MessageFailsShape, PageFailsShape,
     StoreThrowsShape DEF Fault
<1>3. ASSUME UNCHANGED vars PROVE Shape'
  BY <1>3 DEF vars, IInv, Shape, TypeOK, RoomForRow
<1> QED
  BY <1>1, <1>2, <1>3, MailArrivesShape, FindGrantShape, EnsureShape, RemoveRowShape, DropGrantShape,
     ReconnectShape, RetryAfterPassesShape, CrashShape DEF Next

LEMMA ReadingStep ==
  ASSUME IInv, [Next]_vars
  PROVE  Reading'
<1>1. ASSUME NEW p \in Pass, ListDue(p) \/ SyncNow(p) \/ Step(p) PROVE Reading'
  BY <1>1, ListDueReading, ReadRowReading, ClaimReading, SkipReading, OpenReading, StartReading, ListReading,
     ReadMessageReading, SettleReading DEF SyncNow, Step
<1>2. ASSUME NEW p \in Pass, Fault(p) PROVE Reading'
  BY <1>2, RefreshFailsReading, CallFailsReading, HistoryExpiredReading, MessageFailsReading, PageFailsReading,
     StoreThrowsReading DEF Fault
<1>3. ASSUME UNCHANGED vars PROVE Reading'
  BY <1>3 DEF vars, IInv, Reading, Started, ListsFromCursor, CursorFollowsReading, AtFollows,
          ReachFollows, Asked
<1> QED
  BY <1>1, <1>2, <1>3, MailArrivesReading, FindGrantReading, EnsureReading, RemoveRowReading, DropGrantReading,
     ReconnectReading, RetryAfterPassesReading, CrashReading DEF Next

LEMMA LeaseStep ==
  ASSUME IInv, [Next]_vars
  PROVE  Lease' /\ OneTickUnlessOvertaken'
<1>1. ASSUME NEW p \in Pass, ListDue(p) \/ SyncNow(p) \/ Step(p) PROVE Lease' /\ OneTickUnlessOvertaken'
  BY <1>1, ListDueLease, ReadRowLease, ClaimLease, SkipLease, OpenLease, StartLease, ListLease,
     ReadMessageLease, SettleLease DEF SyncNow, Step
<1>2. ASSUME NEW p \in Pass, Fault(p) PROVE Lease' /\ OneTickUnlessOvertaken'
  BY <1>2, RefreshFailsLease, CallFailsLease, HistoryExpiredLease, MessageFailsLease, PageFailsLease,
     StoreThrowsLease DEF Fault
<1>3. ASSUME UNCHANGED vars PROVE Lease' /\ OneTickUnlessOvertaken'
  BY <1>3 DEF vars, IInv, Lease, OneTickUnlessOvertaken
<1> QED
  BY <1>1, <1>2, <1>3, MailArrivesLease, FindGrantLease, EnsureLease, RemoveRowLease, DropGrantLease,
     ReconnectLease, RetryAfterPassesLease, CrashLease DEF Next

LEMMA InitInv == ASSUME Init PROVE IInv
<1>0. 0 \in 0 .. MaxMail /\ 0 \in 0 .. MaxRows /\ 0 \in 0 .. MaxFaults
  BY ConstantsAssumption
<1>1. TypeOK
  <2>1. received = 0 /\ rows = 0 /\ id = 0 /\ faults = 0 /\ cursor = -1 /\ since \in {-1, 0}
    BY DEF Init
  <2>2. /\ received \in 0 .. MaxMail /\ rows \in 0 .. MaxRows /\ id \in 0 .. rows
        /\ faults \in 0 .. MaxFaults /\ cursor \in None .. received /\ since \in None .. received
        /\ 0 \in 0 .. rows /\ None \in None .. received
    BY <1>0, <2>1
  <2>3. claim \in [Pass -> 0 .. rows] /\ row \in [Pass -> 0 .. rows]
    BY <2>2 DEF Init
  <2>4. at \in [Pass -> None .. received] /\ reach \in [Pass -> None .. received]
    BY <2>2 DEF Init
  <2>5. /\ pc \in [Pass -> {"off", "listed", "claimed", "read", "open", "listing", "reading"}]
        /\ todo \in [Pass -> SUBSET (1 .. received)]
    BY DEF Init
  <2> QED BY <2>2, <2>3, <2>4, <2>5 DEF Init, TypeOK
<1>2. RoomForRow /\ Lease /\ OneTickUnlessOvertaken
  BY DEF Init, RoomForRow, Lease, OneTickUnlessOvertaken
<1>3. Reading
  BY DEF Init, Reading, Started, ListsFromCursor, CursorFollowsReading, AtFollows, ReachFollows
<1> QED BY <1>1, <1>2, <1>3 DEF IInv, Shape

(* Every step of a pass, of the cron, of the mailbox's owner and every     *)
(* fault preserves the invariant (sync-state.service.ts and the three sync *)
(* services).                                                              *)
THEOREM Invariant == Spec => []IInv
<1>1. Init => IInv
  BY InitInv
<1>2. IInv /\ [Next]_vars => IInv'
  BY ShapeStep, ReadingStep, LeaseStep DEF IInv
<1> QED BY <1>1, <1>2, PTL DEF Spec

(* Every variable keeps its type; no cursor lies past what was received.   *)
THEOREM TypeCorrect == Spec => []TypeOK
<1>1. IInv => TypeOK
  BY DEF IInv, Shape
<1> QED BY <1>1, Invariant, PTL

(* No pass, however old, leaves a cursor past a message nobody asked for,  *)
(* but for what lay beyond Gmail's first page of history.                  *)
THEOREM CursorFollows == Spec => []CursorFollowsReading
<1>1. IInv => CursorFollowsReading
  BY DEF IInv, Reading
<1> QED BY <1>1, Invariant, PTL

(* One tick works a mailbox, unless it was overtaken.                      *)
THEOREM OneTick == Spec => []OneTickUnlessOvertaken
<1>1. IInv => OneTickUnlessOvertaken
  BY DEF IInv
<1> QED BY <1>1, Invariant, PTL
===============================================================================
