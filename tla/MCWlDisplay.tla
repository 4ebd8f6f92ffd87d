---------------------------- MODULE MCWlDisplay ----------------------------
(***************************************************************************)
(* WlDisplay with a built-in monitor and one at a connector, which have    *)
(* one size in common, and a custom mode stored with an overlap, as far to *)
(* the right and to the top as is in reach of the sizes 2 and 4: two steps *)
(* to the right, or four to the top, monitors would be left overlapping.   *)
(***************************************************************************)
EXTENDS WlDisplay

MCKind   == <<"edp", "hdmi">>
MCModes  == <<{2, 4}, {2}>>
MCFirst  == {{1, 2}}
MCFar    == <<16380, -16382>>
MCPos    == {MCFar}
MCConf(i, size, p) == [on |-> TRUE, pos |-> p, size |-> size, primary |-> i = 1]
MCModeN1 == [x \in {"n1"} |-> <<MCConf(1, 4, <<16378, -16384>>), MCConf(2, 2, MCFar)>>]
MCCustom == {[modes |-> MCModeN1, id |-> "n1"]}
=============================================================================
