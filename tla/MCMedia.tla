------------------------------- MODULE MCMedia -------------------------------
(***************************************************************************)
(* A small instance of MediaProperties for TLC: two candidates of the peer, *)
(* which the facade treats alike.                                          *)
(***************************************************************************)
EXTENDS MediaProperties, TLC

CONSTANTS c1, c2
=============================================================================
