---------------------------- MODULE MCTagCodec -----------------------------
(* Tags of up to two characters over a, 1 and ':', one ten-character tag   *)
(* whose length prefix has two digits, and fields of up to two tags.       *)
EXTENDS TagCodec

MCAlphabet == {"a", "1", ":"}
MCLongTag == [i \in 1..10 |-> IF i = 1 THEN "1" ELSE "a"]
=============================================================================
