----------------------------- MODULE MCDelivery ------------------------------
(***************************************************************************)
(* Instances of EventDelivery for TLC.                                     *)
(***************************************************************************)
EXTENDS EventDelivery, TLC
=============================================================================
