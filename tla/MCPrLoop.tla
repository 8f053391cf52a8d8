------------------------------ MODULE MCPrLoop ------------------------------
(* Two reviewers and two heads; the configurations choose the policy, who  *)
(* pushes, what CI answers and the bounds.                                 *)
EXTENDS PrLoop

CONSTANTS r1, r2, h1, h2
=============================================================================
