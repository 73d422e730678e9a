---------------------------- MODULE MCGeneration ----------------------------
(* Two requests with different prompts and one that extends the second.   *)
EXTENDS Generation

CONSTANTS a, b, r1, r2, r3

MCPrompts == [r \in {r1, r2, r3} |->
                CASE r = r1 -> <<a>> [] r = r2 -> <<b, b>> [] r = r3 -> <<b, b, a>>]
=============================================================================
