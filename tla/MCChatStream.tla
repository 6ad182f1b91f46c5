---------------------------- MODULE MCChatStream ----------------------------
(* Small instances of ChatStream. *)
EXTENDS ChatStream

CONSTANTS c1, c2, r1, r2
MCChats == {c1, c2}
MCIds == {r1, r2}
MCGivings == {[c \in MCChats |-> r1], [c \in MCChats |-> IF c = c1 THEN r1 ELSE r2]}
=============================================================================
