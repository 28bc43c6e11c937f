--------------------------- MODULE MCProcessingUnit ---------------------------
(* Instances of ProcessingUnit: its ports and pipes, and what happens to   *)
(* frames.                                                                 *)
EXTENDS ProcessingUnit

VideoOrBoth == {{1}, {1, 2}}

OnePipe  == [zsl |-> FALSE, pipeOf |-> <<"video", "video">>,
             lost |-> 0, gaps |-> {1}, skip |-> {}]
TwoPipes == [OnePipe EXCEPT !.pipeOf = <<"video", "still">>]
Zsl      == [TwoPipes EXCEPT !.zsl = TRUE]

EachTrouble == {[OnePipe EXCEPT !.lost = 1], [OnePipe EXCEPT !.gaps = {1, 2}],
                [OnePipe EXCEPT !.skip = {1}], TwoPipes, Zsl}
TwoPipesLossy == {[TwoPipes EXCEPT !.lost = 1]}

=============================================================================
