-------------------------- MODULE MCClipPublication --------------------------
(***************************************************************************)
(* Small instances of ClipPublication for TLC.                             *)
(***************************************************************************)
EXTENDS ClipPublicationProperties, TLC

CONSTANTS d1, d2, c1, c2, b1, b2, a1, a2

\* Two spans of one chunk.
OneBatch == c1 :> b1 @@ c2 :> b1
OwnActions == c1 :> a1 @@ c2 :> a2

\* Two views of one span, which share its action file.
TwoBatches == c1 :> b1 @@ c2 :> b2
TwoActions == c1 :> a1 @@ c2 :> a1

DriverSymmetry == Permutations(Driver)
=============================================================================
