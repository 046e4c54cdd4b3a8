----------------------------- MODULE MCAgentCall -----------------------------
(***************************************************************************)
(* Two calls that share a provider, on both platforms and in every           *)
(* environment.                                                             *)
(***************************************************************************)
EXTENDS AgentCall

CONSTANTS first, second

TwoCalls == {first, second}
BothPlatforms == {"posix", "win32"}
=============================================================================
