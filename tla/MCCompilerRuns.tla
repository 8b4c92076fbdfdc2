--------------------------- MODULE MCCompilerRuns ---------------------------
(***************************************************************************)
(* Families of programs for TLC.  Integers of 11 bits, a stack of 60 words *)
(* at most and two structures above it.                                    *)
(***************************************************************************)
EXTENDS CompilerRuns

\* Names of many variables, and of fields after a first one.
Many == <<"c1", "c2", "c3", "c4", "c5", "c6", "c7", "c8", "c9", "c10", "c11", "c12", "c13", "c14",
          "c15", "c16", "c17">>

MCIdentifiers ==
  {"main", "x", "y", "z", "a", "b", "f", "g", "h", "inc", "load8", "p", "q", "r", "S", "T",
   "k", "s", "t"} \cup {Many[i] : i \in DOMAIN Many}
MCIntegerValue ==
  ("0" :> 0) @@ ("1" :> 1) @@ ("2" :> 2) @@ ("3" :> 3) @@ ("7" :> 7) @@ ("11" :> 11) @@ ("15" :> 15)
    @@ ("32" :> 32) @@ ("33" :> 33) @@ ("38" :> 38) @@ ("39" :> 39) @@ ("45" :> 45) @@ ("47" :> 47)
    @@ ("49" :> 49) @@ ("60" :> 60) @@ ("61" :> 61) @@ ("62" :> 62) @@ ("69" :> 69)
    @@ ("111" :> 111) @@ ("120" :> 120) @@ ("124" :> 124) @@ ("182" :> 182) @@ ("195" :> 195)
    @@ ("258" :> 258)
MCFields ==
  ("a" :> 0) @@ ("b" :> 1) @@ [f \in Range(Many) |-> CHOOSE i \in DOMAIN Many : Many[i] = f]

One(tokens) == {<<t>> : t \in tokens}

Parameter(name) == <<name, ":", "u64">>
Main == <<"fn", "main", "(">> \o Parameter("x") \o <<",">> \o Parameter("y")
        \o <<")", "->", "u64", "{">>

\* Arithmetic: levels of operators, parentheses.
Arithmetics ==
  [prefix |-> Main \o <<"return">>, suffix |-> <<";", "}">>,
   phrases |-> One({"x", "-", "*", "/", "<<", "&", "|", ")"}) \cup {<<"(", "3">>}, length |-> 7,
   once |-> FALSE, inputs |-> {<<3, 0>>, <<13, 0>>}, structures |-> <<>>]

\* Calls while registers are in use, some with effects on the variables.
Calls ==
  [prefix |-> <<"fn", "g", "(">> \o Parameter("a") \o <<",">> \o Parameter("b")
              \o <<")", "->", "u64", "{", "return", "a", "-", "b", "*", "2", ";", "}">>
              \o <<"fn", "inc", "(", "p", ":", "&", "u64", ")", "->", "u64", "{",
                   "*", "p", "=", "*", "p", "+", "1", ";", "return", "*", "p", ";", "}">>
              \o Main \o <<"let", "z", "=", "y", "+", "1", ";", "return">>,
   suffix |-> <<";", "}">>,
   phrases |-> One({"x", "z", "-", ",", ")"})
               \cup {<<"g", "(">>, <<"inc", "(", "&", "x", ")">>},
   length |-> 8, once |-> FALSE, inputs |-> {<<13, 2>>}, structures |-> <<>>]

\* Conditions.
Conditions ==
  [prefix |-> Main \o <<"while">>,
   suffix |-> <<"{", "x", "=", "x", "+", "1", ";", "if", "x", ">", "3", "{",
                "return", "x", ";", "}", "}", "return", "0", ";", "}">>,
   phrases |-> One({"&&", "||"}) \cup {<<"x", "<", "y">>, <<"x", "==", "2">>, <<"y", ">=", "3">>,
                <<"x", "!=", "y">>, <<"y", "<=", "x">>, <<"2", ">", "y">>},
   length |-> 5, once |-> FALSE,
   inputs |-> {<<0, 1>>, <<1, 3>>, <<2, 2>>, <<3, 0>>}, structures |-> <<>>]

\* Nested control, with code that cannot be reached.
Controls ==
  [prefix |-> Main \o <<"let", "z", "=", "0", ";">>,
   suffix |-> <<"return", "z", ";", "}">>,
   phrases |-> {<<"if", "x", "<", "y", "{">>, <<"while", "x", "<", "2", "{">>, <<"loop", "{">>,
                <<"}">>, <<"}", "else", "{">>, <<"}", "else", "if", "y", "==", "1", "{">>,
                <<"x", "=", "x", "+", "1", ";">>, <<"break", ";">>,
                <<"return", "x", ";">>},
   length |-> 7, once |-> FALSE, inputs |-> {<<0, 1>>, <<1, 3>>, <<3, 0>>},
   structures |-> <<>>]

Structure == <<"struct", "S", "{", "a", ":", "u64", ",", "b", ":", "&", "S", "}">>
PointerMain ==
  Structure \o <<"fn", "main", "(", "p", ":", "&", "S", ",", "x", ":", "u64", ")", "->", "u64", "{",
                 "let", "q", "=", "p", ".", "b", ";", "let", "r", "=", "&", "x", ";">>
S1 == 488
S2 == 504
Two == [a \in {S1, S1 + 8, S2, S2 + 8} |->
          CASE a = S1 -> 1 [] a = S1 + 8 -> S2 [] a = S2 -> 2 [] a = S2 + 8 -> S1]

\* The value of paths, pointers and casts.
Pointers ==
  [prefix |-> PointerMain \o <<"return", "(">>, suffix |-> <<")", "as", "u64", ";", "}">>,
   phrases |-> One({"p", "q", "r", "x", "*", "&"})
               \cup {<<".", "a">>, <<".", "b">>, <<"as", "&", "S">>, <<"as", "u64">>,
                     <<"+", "sizeof", "(", "S", ")">>},
   length |-> 6, once |-> FALSE, inputs |-> {<<S1, 3>>}, structures |-> Two]

\* Assignments to variables, to fields and to what pointers point to.
Assignments ==
  [prefix |-> PointerMain, suffix |-> <<"return", "x", ";", "}">>,
   phrases |-> One({"p", "q", "x", "*", "&", "=", ";", "null"})
               \cup {<<".", "a">>, <<".", "b">>},
   length |-> 7, once |-> FALSE, inputs |-> {<<S1, 3>>}, structures |-> Two]

\* Functions declared before they are defined.
Forwards ==
  LET header(f) == <<"fn", f, "(">> \o Parameter("a") \o <<")">>
      result == <<"->", "u64">>
  IN [prefix |-> <<>>,
      suffix |-> Main \o <<"return", "h", "(", "f", "(", "x", ")", ")", ";", "}">>,
      phrases |-> {header("f") \o result \o <<";">>, header("g") \o result \o <<";">>,
                   header("f") \o <<"{", "}">>,
                   header("f") \o result \o <<"{", "return", "a", "-", "k", ";", "}">>,
                   header("g") \o result \o <<"{", "return", "f", "(", "a", ")", "+", "k", ";", "}">>,
                   header("h") \o result \o <<"{", "if", "a", "<", "1", "{", "return", "2", ";", "}",
                     "return", "g", "(", "a", "-", "1", ")", "-", "f", "(", "f", "(", "a", ")", ")",
                     ";", "}">>,
                   header("k") \o result \o <<"{", "loop", "{", "}", "}">>,
                   <<"const", "k", ":", "u64", "=", "2", ";">>},
      length |-> 6, once |-> TRUE, inputs |-> {<<1, 0>>, <<3, 0>>}, structures |-> <<>>]

\* Programs in which what is returned is the last argument of a call, computed
\* with n values in registers.
Deeper(f0, n) ==
  LET parameters == FlattenSeq([i \in 1 .. n |-> Parameter(Many[i]) \o <<",">>])
  IN [f0 EXCEPT !.prefix = <<"fn", "h", "(">> \o parameters
                           \o <<"a", ":", "u64", ")", "->", "u64", "{", "return", "a", "-", "c1", ";", "}">>
                           \o @ \o <<"h", "(">> \o FlattenSeq([i \in 1 .. n |-> <<"x", ",">>]),
                !.suffix = <<")">> \o @]

\* A load from r12, which has an encoding of its own, then from r14.  Loads
\* from r13 are the subject of another run.
Loads ==
  [Pointers EXCEPT !.prefix = PointerMain \o <<"return">>, !.suffix = <<";", "}">>, !.length = 5,
     !.phrases = One({"p", "*", "&"})
                   \cup {<<".", "a">>, <<".", "b">>, <<"as", "u64">>, <<"as", "&", "S">>}]
FifthLoads == Deeper(Loads, 4)
SeventhLoads == Deeper(Loads, 6)

\* All the registers, and calls made while they are in use.
ManyRegisters == Deeper([Calls EXCEPT !.length = 6], 5)

\* Static data, read by a function in machine code (base.toy:12).
Statics ==
  [prefix |-> <<"fn", "load8", "(", "p", ":", "&", "u64", ")", "->", "u64",
                "[", "69", ",", "15", ",", "182", ",", "0", ",", "195", "]",
                "static", "s", "=", "[", "1", ",", "258", "]", ";",
                "fn", "f", "(", ")", "{", "}", "static", "t", "=", "[", "0", "]", ";">>
              \o Main \o <<"return", "load8", "(">>, suffix |-> <<")", ";", "}">>,
   phrases |-> One({"s", "t", "+", "-", "x", "1", ")"}) \cup {<<"load8", "(">>},
   length |-> 6, once |-> FALSE, inputs |-> {<<0, 1>>, <<1, 0>>}, structures |-> <<>>]

\* A structure and a frame of more than 16 words, whose offsets take 4 bytes.
RECURSIVE Lets(_), ManyFields(_)
Lets(n) ==
  IF n = 0 THEN <<>>
  ELSE Lets(n - 1) \o <<"let", Many[n], "=", IF n = 1 THEN "x" ELSE Many[n - 1], "+", "1", ";">>
ManyFields(n) ==
  IF n = 0 THEN <<"a", ":", "u64">> ELSE ManyFields(n - 1) \o <<",", Many[n], ":", "u64">>

Large ==
  [prefix |-> <<"struct", "T", "{">> \o ManyFields(17) \o <<"}", "fn", "main", "(", "p", ":", "&", "T", ",">>
              \o Parameter("x") \o <<")", "->", "u64", "{">> \o Lets(17),
   suffix |-> <<"return", "c1", "+", "c2", "+", "p", ".", "c16", ";", "}">>,
   phrases |-> One({"c1", "c17", "*", "&", "=", ";"})
               \cup {<<"p", ".", "c15">>, <<"p", ".", "c16">>}, length |-> 5, once |-> FALSE,
   inputs |-> {<<S1, 3>>}, structures |-> [a \in {S1 + 8 * i : i \in 0 .. 17} |-> (a - S1) \div 8]]

\* Operators, numbers, quoted characters and comments of a program.
Texts ==
  [prefix |-> "fn main(x:u64,y:u64)->u64{if x", suffix |-> "y{}return y/*;-*/-'-';}",
   phrases |-> {"<", "=", ">", "-", "&", "|", "!", " ", "1", "'", "/*", "*/", "/", "x"}, length |-> 3,
   once |-> FALSE, inputs |-> {<<2, 3>>, <<3, 3>>}, structures |-> <<>>]

\* Keywords, and words that only look like them.
Words ==
  [prefix |-> "fn main()->u64{return 1;}", suffix |-> "", phrases |-> Keywords \cup {"x", "0", "_", "\n", "\r"}, length |-> 2,
   once |-> FALSE, inputs |-> {}, structures |-> <<>>]

MCScanned == {"Texts", "Words"}

MCFamilies ==
  [Arithmetics |-> [Arithmetics EXCEPT !.length = 6], Calls |-> [Calls EXCEPT !.length = 7],
   ManyRegisters |-> ManyRegisters, Conditions |-> Conditions,
   Controls |-> Controls, Pointers |-> Pointers, FifthLoads |-> FifthLoads,
   SeventhLoads |-> SeventhLoads, Assignments |-> Assignments, Statics |-> Statics,
   Large |-> Large, Forwards |-> Forwards, Texts |-> Texts, Words |-> Words]

\* A load from r13.
MCLoadFamilies == [SixthLoads |-> Deeper(Loads, 5)]
=============================================================================
