----------------------------- MODULE MCPrograms -----------------------------
(***************************************************************************)
(* Small instances of Programs for TLC: five files, with blocks of two and *)
(* three bytes, and buffers of two bytes.  Name 6 is free, and so is name  *)
(* 7, which is as long as NameLimit allows.                                *)
(***************************************************************************)
EXTENDS Programs, TLC

\* a, a-, a/a, a/b/a, a/b/b, b, b/aaaaa; '-' is 1, '/' is 2, a is 3, b is 4.
MCText ==
  <<<<3>>, <<3, 1>>, <<3, 2, 3>>, <<3, 2, 4, 2, 3>>, <<3, 2, 4, 2, 4>>,
    <<4>>, <<4, 2, 3, 3, 3, 3, 3>>>>
MCPaths == {<<>>, <<3, 2>>, <<3, 2, 4, 2>>, <<4, 2>>}
MCFirstChunk == [n \in Names |-> IF n % 2 = 0 THEN 2 ELSE 0]
MCImage ==
  1 :> [name |-> 1, data |-> <<0, 1, 0, 1, 1>>] @@
  2 :> [name |-> 2, data |-> <<0, 0, 1, 0>>] @@
  3 :> [name |-> 3, data |-> <<>>] @@
  4 :> [name |-> 4, data |-> <<1>>] @@
  5 :> [name |-> 5, data |-> <<1, 1, 1>>] @@
  6 :> [name |-> 7, data |-> <<0, 0, 0, 0, 0, 0>>]
=============================================================================
