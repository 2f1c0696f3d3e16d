------------------------- MODULE MCContinuousCaption -------------------------
(***************************************************************************)
(* A small instance of ContinuousCaption for TLC: an input with two        *)
(* windows, one with two of which one lacks its model input, and one       *)
(* with none.                                                              *)
(***************************************************************************)
EXTENDS ContinuousCaptionProperties, TLC

CONSTANTS a, b, e, a1, a2, b1, b2

Owners == (a1 :> a) @@ (a2 :> a) @@ (b1 :> b) @@ (b2 :> b)
=============================================================================
