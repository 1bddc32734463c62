--------------------------- MODULE MCLoopDetectors ---------------------------
(* LoopDetectors for TLC: answers that run one command or none.            *)
EXTENDS LoopDetectors

CONSTANTS out1 \* what the command answers

CommandLists == {<<>>, <<[tool |-> "cmd", out |-> out1]>>}
=============================================================================
