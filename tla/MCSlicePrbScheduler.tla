------------------------ MODULE MCSlicePrbScheduler ------------------------
(* Instances of SlicePrbScheduler for TLC: three UEs of two slices on a     *)
(* carrier of five RBs, with lists that the decoder accepts and refuses.     *)
EXTENDS SlicePrbScheduler, TLC

CONSTANTS u1, u2, u3, sliceA, sliceB, s1, s2

MCUEs == {u1, u2, u3}
MCNssai == {sliceA, sliceB}
MCUeNssai == (u1 :> sliceA) @@ (u2 :> sliceA) @@ (u3 :> sliceB)
MCBwpStart == [u \in MCUEs |-> IF u = u3 THEN 1 ELSE 0]
MCBwpSize == [u \in MCUEs |-> IF u = u3 THEN 4 ELSE 5]
MCSymbols == {s1, s2}

Quota(n, ded) == [wellFormed |-> TRUE, nssai |-> n, min |-> 0, max |-> 100, dedicated |-> ded]

\* Split, twice the same slice (sliceB unmatched), a closed slice, the empty list,
\* and lists that must be refused: dedicated above max, malformed,
\* a ratio that is in range only modulo 256, too long.
MCCtrlLists ==
    {<<Quota(sliceA, 60), Quota(sliceB, 40)>>,
     <<Quota(sliceA, 40), Quota(sliceA, 20)>>,
     <<Quota(sliceA, 0), Quota(sliceB, 100)>>,
     <<>>,
     <<Quota(sliceB, 34), [Quota(sliceA, 67) EXCEPT !.max = 50]>>,
     <<[Quota(sliceA, 67) EXCEPT !.wellFormed = FALSE]>>,
     <<[Quota(sliceA, 67) EXCEPT !.dedicated = 256 + 67]>>,
     <<Quota(sliceA, 20), Quota(sliceB, 20), Quota(sliceA, 20)>>}

SplitSymbols == [u \in MCUEs |-> IF u = u3 THEN {s2} ELSE IF u = u2 THEN {s1} ELSE MCSymbols]

MCSlBitmaps == {SplitSymbols}

OneBeam == {[u \in MCUEs |-> 0]}
MCPlacements == OneBeam \cup {[u \in MCUEs |-> IF u = u3 THEN 1 ELSE 0]}

MCGrids == {{0} \X {s1}}
=============================================================================
