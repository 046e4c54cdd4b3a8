----------------------------- MODULE MCPluginHost -----------------------------
(***************************************************************************)
(* Two installers over a shipped bundle and two versions, so that any two of  *)
(* the builds may have the same; and a table of two jobs.                    *)
(***************************************************************************)
EXTENDS PluginHost, TLC

CONSTANTS first, second, old, new

TwoInstallers == {first, second}
TwoVersions == {old, new}
Alike == Permutations(TwoInstallers) \cup Permutations(TwoVersions)
=============================================================================
