--------------------------- MODULE MCEscalations ----------------------------
(* Constants for model-checking Escalations.                               *)
EXTENDS Escalations, TLC

\* A reference so short that it matches two rows: handling it has every
\* behaviour that handling one in full has.
ShortRefs == {{1, 2}}

\* The messages are alike.
Symmetric == Permutations(Messages)
=============================================================================
