---------------------------- MODULE MCFormFiling ----------------------------
(* Two forms delivered by two batches, in any combination: the forms and   *)
(* the batches may change places.                                          *)
EXTENDS FormFiling, TLC

Interchangeable == Permutations(Form) \cup Permutations(Delivery)
=============================================================================
