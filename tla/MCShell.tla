------------------------------ MODULE MCShell ------------------------------
(***************************************************************************)
(* Small instances of Shell for TLC: commands of two characters, a history *)
(* of two commands, an output of four characters, and a screen of 6 rows   *)
(* of 3 characters; all the scripts of at most 5 characters.               *)
(***************************************************************************)
EXTENDS Shell, TLC

CONSTANT Letter

MCChars == {Letter, Space}
MCOutputs ==
  {<<>>, <<Letter>>, <<Letter, NewLine, Letter>>, <<Letter, Letter, Letter, NewLine>>}
MCBanners == {<<>>, <<Letter, NewLine>>}
MCScripts == UNION {[1 .. n -> {Letter, NewLine, Backslash}] : n \in 0 .. 5}
=============================================================================
