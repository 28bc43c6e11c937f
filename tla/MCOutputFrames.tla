---------------------------- MODULE MCOutputFrames ----------------------------
(* OutputFrames with one consumer of the first of two streams and two of   *)
(* the second.                                                             *)
EXTENDS OutputFrames, TLC

CONSTANTS c1, c2, c3

OneAndTwo == c1 :> 0 @@ c2 :> 1 @@ c3 :> 1
=============================================================================
