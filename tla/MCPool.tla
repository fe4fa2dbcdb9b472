------------------------------- MODULE MCPool -------------------------------
(* Instantiates Pool for TLC: two size classes, two nodes per block. *)
EXTENDS Pool

MCClasses == {"small", "large"}
=============================================================================
