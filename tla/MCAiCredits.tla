---------------------------- MODULE MCAiCredits ----------------------------
(* Two completions of one prompt and one of a dearer kind, racing for one wallet *)
EXTENDS AiCredits, TLC

CONSTANTS r1, r2, r3, p1, p2

MCRequests == {r1, r2, r3}
MCPrompts == {p1, p2}
MCPromptOf == r1 :> p1 @@ r2 :> p1 @@ r3 :> p2
MCCost == r1 :> 1 @@ r2 :> 1 @@ r3 :> 2

=============================================================================
