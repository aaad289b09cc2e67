------------------------ MODULE MCWhatsAppAssistant ------------------------
(* Up to two institutes: one with two children, one with one *)
EXTENDS WhatsAppAssistant

CONSTANTS c1, c2, s1, s2, s3

MCNumber == [one |-> 1, two |-> 2]
MCMenu == <<c1, c2>>
MCChildrenOf == c1 :> <<s1, s2>> @@ c2 :> <<s3>>
=============================================================================
