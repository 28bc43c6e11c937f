-------------------------- MODULE MCLibcameraPipeline --------------------------
(* Instances of LibcameraPipeline: a video stream and a still stream, and  *)
(* a camera whose shutter moves, and that may be stopped.                  *)
EXTENDS LibcameraPipeline

VideoOrAll == {{1}, {1, 2}}
Video == {{1}}

MovedThrice == {[moves |-> 3, stops |-> FALSE]}
MovedAndStopped == {[moves |-> 3, stops |-> TRUE]}

=============================================================================
