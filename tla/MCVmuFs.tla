------------------------------ MODULE MCVmuFs ------------------------------
(* The card layer on a card of a few blocks; the .cfg files give the       *)
(* constants their values.                                                 *)
EXTENDS VmuFs
=============================================================================
