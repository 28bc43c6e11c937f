----------------------------- MODULE FrameService -----------------------------
(***************************************************************************)
(* What the image pipeline promises to the application, without saying     *)
(* how: requests are answered in order on every stream, each of them once, *)
(* with the first usable frame that its settings are effective on.         *)
(* ProcessingUnit.tla is shown to implement it.                            *)
(***************************************************************************)
EXTENDS Integers, Sequences, FiniteSetsExt

CONSTANTS
    Ports,          \* one per output stream
    Seqs            \* sequence numbers of frames

VARIABLES
    requests,       \* [wants: ports, setting: a sequence, reprocess: BOOLEAN]
    captured,       \* sequences of the raw frames taken
    skip,           \* sequences whose frames are not to be shown
    served          \* per port, pairs of a request's number and a sequence

vars == <<requests, captured, skip, served>>

Init ==
    /\ requests = <<>> /\ captured = {}
    /\ served = [p \in Ports |-> <<>>]

Ask == \E r \in [wants : (SUBSET Ports) \ {{}}, setting : Seqs, reprocess : BOOLEAN] :
    /\ requests' = Append(requests, r)
    /\ UNCHANGED <<captured, skip, served>>

Capture == \E s \in Seqs :
    /\ \A t \in captured : s > t
    /\ captured' = captured \cup {s}
    /\ UNCHANGED <<requests, skip, served>>

LastServed(p) == IF served[p] = <<>> THEN 0 ELSE served[p][Len(served[p])][1]

Waiting(p) == {r \in DOMAIN requests : r > LastServed(p) /\ p \in requests[r].wants}

(* The frames a request may be answered with: the first one its settings   *)
(* are effective on; to reprocess, the frame it names or a later one if    *)
(* that frame is no longer kept.                                           *)
FramesFor(r) ==
    LET from == {s \in captured \ skip : s >= requests[r].setting} IN
    IF requests[r].reprocess \/ from = {} THEN from ELSE {Min(from)}

Serve(p) ==
    /\ Waiting(p) # {}
    /\ \E s \in FramesFor(Min(Waiting(p))) :
         served' = [served EXCEPT ![p] = Append(@, <<Min(Waiting(p)), s>>)]
    /\ UNCHANGED <<requests, captured, skip>>

Next == Ask \/ Capture \/ \E p \in Ports : Serve(p)

Spec == Init /\ [][Next]_vars

(* A request whose frame has been taken is due an answer.  One to          *)
(* reprocess waits for the frame after those that are used up, which the   *)
(* sensor need not send.                                                   *)
Due(p) == {r \in Waiting(p) : ~requests[r].reprocess /\ FramesFor(r) # {}}

Progress == \A p \in Ports : []<>(Due(p) = {})

=============================================================================
