------------------------------- MODULE MCEdit -------------------------------
(***************************************************************************)
(* Small instances of Edit for TLC: a buffer of 5 characters moved two at  *)
(* a time, and a screen of 3 rows of 3 characters.                         *)
(***************************************************************************)
EXTENDS Edit, TLC

CONSTANT Letter

MCChars == {Letter, Enter, Tab}
MCFiles == {NoFile, <<Enter, Letter, Tab>>} \cup [1 .. MaxLength -> {Letter}]
=============================================================================
