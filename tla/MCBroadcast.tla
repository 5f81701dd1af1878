---------------------------- MODULE MCBroadcast ----------------------------
(* Constants for model-checking Broadcast.                                 *)
EXTENDS Broadcast, TLC

\* Refs typed in full: each names one announcement.
FullRefs == {{a} : a \in Announcements}

\* The messages are alike.
Symmetric == Permutations(Commands)
=============================================================================
