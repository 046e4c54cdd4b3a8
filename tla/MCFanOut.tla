------------------------------ MODULE MCFanOut ------------------------------
(***************************************************************************)
(* Two maps of one batch share the limiter: "left" has three items, one of  *)
(* which may be undefined, over two workers, "right" has one or two.        *)
(***************************************************************************)
EXTENDS FanOut

CONSTANTS left, right

BothMaps == {left, right}
ThreeAndOne == [m \in BothMaps |-> IF m = left THEN 3 ELSE 1]
ThreeAndTwo == [m \in BothMaps |-> IF m = left THEN 3 ELSE 2]
NoneUndefined == [m \in BothMaps |-> {}]
ThirdUndefined == [m \in BothMaps |-> IF m = left THEN {3} ELSE {}]
TwoWorkers == [m \in BothMaps |-> 2]
=============================================================================
