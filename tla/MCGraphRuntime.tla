--------------------------- MODULE MCGraphRuntime ---------------------------
(***************************************************************************)
(* Two graphs for TLC.  "Release" is a fan-out, a write beside it, a gate   *)
(* below the fan-out, a deployment behind the gate, and a reduction that    *)
(* joins the fan-out and the write: two branches that fail independently.   *)
(* "Small" leaves the reduction out and reviews instead of fanning out: it  *)
(* is for the runs whose state space a refused write or a free choice of    *)
(* reconciliations makes large.                                             *)
(***************************************************************************)
EXTENDS GraphRuntime

CONSTANTS review, write, gate, deploy, map, reduce

ReleaseNodes == {map, write, gate, deploy, reduce}
ReleaseDeps == [n \in ReleaseNodes |->
  CASE n = gate -> {map} [] n = deploy -> {gate} [] n = reduce -> {map, write}
    [] OTHER -> {}]
ReleaseAncestors == [n \in ReleaseNodes |->
  CASE n = gate -> {map} [] n = deploy -> {gate, map} [] n = reduce -> {map, write}
    [] OTHER -> {}]
ReleaseRank == [n \in ReleaseNodes |->
  CASE n = map -> 1 [] n = gate -> 2 [] n = write -> 3 [] n = reduce -> 4 [] OTHER -> 5]

SmallNodes == {review, write, gate, deploy}
SmallDeps == [n \in SmallNodes |->
  CASE n = gate -> {review} [] n = deploy -> {gate} [] OTHER -> {}]
SmallAncestors == [n \in SmallNodes |->
  CASE n = gate -> {review} [] n = deploy -> {gate, review} [] OTHER -> {}]
SmallRank == [n \in SmallNodes |->
  CASE n = review -> 1 [] n = gate -> 2 [] n = write -> 3 [] OTHER -> 4]
=============================================================================
