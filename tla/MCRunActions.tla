---------------------------- MODULE MCRunActions ----------------------------
(***************************************************************************)
(* Instances of RunActions for TLC.                                        *)
(***************************************************************************)
EXTENDS RunActions, TLC

CONSTANTS post, note, p1, p2, n1

(* One post, executed twice, and one note.                                 *)
ReplayedKind   == (post :> "slack") @@ (note :> "crm")
ReplayedCallOf == (p1 :> post) @@ (p2 :> post) @@ (n1 :> note)
=============================================================================
