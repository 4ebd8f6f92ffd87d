------------------------------- MODULE MCScale -------------------------------
(***************************************************************************)
(* Scale with a map that two decimals change, one that is refused, one for *)
(* two screens, and one whose two decimals are refused.  The recommended   *)
(* factor is forced by a file: it has more than two decimals.              *)
(***************************************************************************)
EXTENDS Scale

One(n) == [x \in {"ALL"} |-> n]

MCFactors == {One(1333), One(0), [x \in {"eDP-1", "HDMI-1"} |-> IF x = "eDP-1" THEN 2000 ELSE 1750],
              One(4)}

==============================================================================
