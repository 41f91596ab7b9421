---------------------------- MODULE MCAgentTasks ----------------------------
(***************************************************************************)
(* Instances of AgentTasks for TLC: which rows can exist, what they are    *)
(* about and how urgent they are.                                          *)
(***************************************************************************)
EXTENDS AgentTasks, TLC

CONSTANTS t1, t2, t3, k1, c1

On(f) == [t \in Task |-> f[t]]

(* A contact asked about twice.                                            *)
TwoRequests      == On(t1 :> "identify" @@ t2 :> "identify")
TwoRequestsAbout == On(t1 :> k1 @@ t2 :> k1)
TwoRequestsRank  == On(t1 :> 100 @@ t2 :> 100)

(* A contact being looked up, and the recheck its session books.           *)
RequestAndBooking == On(t1 :> "identify" @@ t2 :> "recheck")

(* A contact whose fields are being filled while its rechecks are booked.  *)
Bookings      == On(t1 :> "field-backfill" @@ t2 :> "recheck" @@ t3 :> "recheck")
BookingsAbout == On(t1 :> k1 @@ t2 :> k1 @@ t3 :> k1)
BookingsRank  == On(t1 :> 100 @@ t2 :> 0 @@ t3 :> 0)

(* A company's logo beside a backfill about no record.                     *)
Logos      == On(t1 :> "brand" @@ t2 :> "brand" @@ t3 :> "field-backfill")
LogosAbout == On(t1 :> c1 @@ t2 :> c1 @@ t3 :> NoSubject)
LogosRank  == On(t1 :> 900 @@ t2 :> 900 @@ t3 :> 20)
=============================================================================
