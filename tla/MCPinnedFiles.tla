--------------------------- MODULE MCPinnedFiles ---------------------------
(* Instances of PinnedFiles for TLC.                                        *)
EXTENDS PinnedFiles, TLC

CONSTANTS h1, h2

(* The last replacement is larger, the others have the same size. *)
SameThenLarger == [g \in Generations |-> IF g < MaxGeneration THEN 1 ELSE 2]

SwapHandlers == Permutations(Handlers)
=============================================================================
