--------------------------- MODULE MC_DvrSession ---------------------------
(* Model-checking instance of DvrSession: the chipset infotype 11 and the *)
(* two it falls through into, of which the firmware answers 11 and 19;    *)
(* one alarm type; both dialects; one unsolicited control message, three  *)
(* frames, and every combination of the firmware's reply habits.          *)
EXTENDS DvrSession

MC_Firmwares == [rel : BOOLEAN, ka : BOOLEAN, oem : BOOLEAN]
MC_InfoTypes == {11, 19, 20}
MC_Answered == {11, 19}

\* A firmware that answers every request.
MC_Replying == {[rel |-> TRUE, ka |-> TRUE, oem |-> TRUE]}
=============================================================================
