---------------------------- MODULE ToyLanguage -----------------------------
(***************************************************************************)
(* What a Toy program means (doc/toyc.md), defined on its tokens and       *)
(* without compiling it: an expression is split at the last operator that  *)
(* binds the least, a statement is executed, a function call has variables *)
(* of its own.  The compiler's code must compute the same.                 *)
(*                                                                         *)
(* Variables have addresses, which programs can observe: those the code    *)
(* gives them in the first function; the frame of a called function is     *)
(* FrameGap bytes lower.  What only a wrong program does (to use a word    *)
(* that is not a variable or a field) is undefined.                        *)
(***************************************************************************)
EXTENDS ToyMachine, SequencesExt

CONSTANTS
  Fields,       \* the rank of each field; no two structures share a name
  Literals,     \* the value of each token that is an integer
  FrameGap,     \* the distance between the frames of two nested calls
  LoopLimit     \* the iterations and calls after which a program is "running"

LanguageAssumption ==
  /\ \A f \in DOMAIN Fields : Fields[f] \in Nat
  /\ \A t \in DOMAIN Literals : Literals[t] \in Nat
  /\ FrameGap \in Nat \ {0} /\ FrameGap % 8 = 0
  /\ LoopLimit \in Nat \ {0}

ASSUME LanguageAssumption

-----------------------------------------------------------------------------
(***************************************************************************)
(* Splitting tokens outside brackets.                                      *)
(***************************************************************************)
Openers == {"(", "{", "["}
Closers == {")", "}", "]"}

\* The number of brackets around the i-th token; two that match have the same.
Level(tokens, i) ==
  LET opened == {j \in 1 .. i - 1 : tokens[j] \in Openers}
      closed == {j \in 1 .. i : tokens[j] \in Closers}
  IN Cardinality(opened) - Cardinality(closed)

Outer(tokens, which) ==
  {i \in DOMAIN tokens : tokens[i] \in which /\ Level(tokens, i) = 0}

\* The first outer token of which after the i-th, or one after the end.
NextOuter(tokens, i, which) ==
  LET next == {j \in Outer(tokens, which) : j > i}
  IN IF next = {} THEN Len(tokens) + 1 ELSE Min(next)

Before(tokens, i) == SubSeq(tokens, 1, i - 1)
After(tokens, i) == SubSeq(tokens, i + 1, Len(tokens))
Between(tokens, i, j) == SubSeq(tokens, i + 1, j - 1)

RECURSIVE Split(_, _)
Split(tokens, separator) ==
  IF tokens = <<>> THEN <<>>
  ELSE LET i == NextOuter(tokens, 0, {separator})
       IN <<Before(tokens, i)>> \o Split(After(tokens, i), separator)

-----------------------------------------------------------------------------
(***************************************************************************)
(* Declarations: the functions, constants and sizes of a program.  A       *)
(* forward declaration says nothing that the definition does not say.      *)
(***************************************************************************)
Function(tokens) ==
  LET open == NextOuter(tokens, 0, {"("})
      close == NextOuter(tokens, open, {")"})
      body == NextOuter(tokens, close, {"{"})
      params == Split(Between(tokens, open, close), ",")
  IN [params |-> [i \in DOMAIN params |-> Head(params[i])],
      result |-> tokens[close + 1] = "->",
      body |-> Between(tokens, body, Len(tokens)), machine |-> Last(tokens) = "]"]

\* Static data: no two arrays follow each other, for what the program knows.
StaticGap == 16
Static(program, name, values) ==
  LET address == CodeBase + StaticGap * (1 + Cardinality(DOMAIN program.statics))
  IN [program EXCEPT !.statics = (name :> address) @@ @,
                     !.data = [a \in address .. address + Len(values) - 1 |->
                                 Literals[Head(values[a - address + 1])] % 256] @@ @]

\* A declaration of static data ends at ";", a function in machine code at "]".
RECURSIVE Declarations(_, _)
Declarations(tokens, program) ==
  IF tokens = <<>> THEN program
  ELSE LET end == NextOuter(tokens, 0, IF Head(tokens) = "static" THEN {";"}
                                       ELSE {"}", ";", "]"})
           one == SubSeq(tokens, 1, end)
           name == tokens[2]
       IN Declarations(After(tokens, end),
            CASE one[end] = ";" /\ Head(one) = "fn" -> program
              [] Head(one) = "fn" ->
                   [program EXCEPT !.functions = (name :> Function(one)) @@ @]
              [] Head(one) = "const" ->
                   [program EXCEPT !.constants = (name :> Literals[one[end - 1]]) @@ @]
              [] Head(one) = "struct" ->
                   [program EXCEPT !.sizes = (name :> 8 * Len(Split(Between(one, 3, end), ","))) @@ @]
              [] Head(one) = "static" -> Static(program, name, Split(Between(one, 4, end - 1), ",")))

Program(tokens) ==
  Declarations(tokens, [functions |-> <<>>, constants |-> <<>>, sizes |-> <<>>,
                        statics |-> <<>>, data |-> <<>>])

-----------------------------------------------------------------------------
(***************************************************************************)
(* Expressions.  s is the state of the execution: s.value is the value of  *)
(* the expression, s.status is "next" while the execution goes on.         *)
(***************************************************************************)
Going(s) == s.status = "next"
End(s, status) == IF Going(s) THEN [s EXCEPT !.status = status] ELSE s
Value(s, value) == IF Going(s) THEN [s EXCEPT !.value = value] ELSE s

Load(s) ==
  CASE ~ Going(s) -> s
    [] s.value \in DOMAIN s.memory -> Value(s, s.memory[s.value])
    [] OTHER -> End(s, "undefined")

Store(s, address, value) ==
  CASE ~ Going(s) -> s
    [] address \in DOMAIN s.memory -> [s EXCEPT !.memory[address] = value]
    [] OTHER -> End(s, "undefined")

\* A new variable, at an address of the frame.
Declare(s, name, address, value) ==
  IF ~ Going(s) THEN s
  ELSE [s EXCEPT !.variables = (name :> address) @@ @, !.memory = (address :> value) @@ @]

BinaryLevels == <<{"|"}, {"&"}, {"<<", ">>"}, {"+", "-"}, {"*", "/"}>>
BinaryOps == UNION {BinaryLevels[l] : l \in DOMAIN BinaryLevels}

\* * and & are unary at the start, and after another operator or "as".
IsBinary(tokens, i) == i > 1 /\ tokens[i - 1] \notin BinaryOps \cup {"as"}

\* The operators at which to split: the last one of each level, 0 if none.
LastBinary(tokens, level) ==
  LET ops == {i \in Outer(tokens, BinaryLevels[level]) : IsBinary(tokens, i)}
  IN IF ops = {} THEN 0 ELSE Max(ops)

LastOuter(tokens, which) ==
  LET found == Outer(tokens, which) IN IF found = {} THEN 0 ELSE Max(found)

\* What tokens do, as an expression, the address of one, a condition, a
\* statement or several.
RECURSIVE Do(_, _, _)
Eval(tokens, s) == Do("expression", tokens, s)
Address(tokens, s) == Do("address", tokens, s)
Test(tokens, s) == Do("condition", tokens, s)
ExecStmt(tokens, s) == Do("statement", tokens, s)
Exec(tokens, s) == Do("statements", tokens, s)

RECURSIVE Arguments(_, _, _)
RECURSIVE Call(_, _, _)
RECURSIVE Repeat(_, _, _)

\* The values of the arguments, the first one first.
Arguments(segments, s, values) ==
  IF segments = <<>> \/ ~ Going(s) THEN Value(s, values)
  ELSE LET t == Eval(Head(segments), s)
       IN Arguments(Tail(segments), t, Append(values, t.value))

Binary(tokens, i, s) ==
  LET left == Eval(Before(tokens, i), s)
      right == Eval(After(tokens, i), left)
  IN CASE ~ Going(right) -> right
       [] tokens[i] = "/" /\ right.value = 0 -> End(right, "trap")
       [] OTHER -> Value(right, Arithmetic(tokens[i], left.value, right.value))

Primitive(tokens, s) ==
  LET t == Head(tokens) IN
  CASE t \in DOMAIN Literals -> Value(s, Literals[t])
    [] t = "null" -> Value(s, 0)
    [] t = "sizeof" -> Value(s, s.program.sizes[tokens[3]])
    [] t = "(" -> Eval(Between(tokens, 1, Len(tokens)), s)
    [] Len(tokens) > 1 ->
         LET args == Arguments(Split(Between(tokens, 2, Len(tokens)), ","), s, <<>>)
         IN IF Going(args) THEN Call(t, args.value, args) ELSE args
    [] t \in DOMAIN s.variables -> Load(Value(s, s.variables[t]))
    [] t \in DOMAIN s.constants -> Value(s, s.constants[t])
    [] t \in DOMAIN s.program.statics -> Value(s, s.program.statics[t])
    [] OTHER -> End(s, "undefined")

Expression(tokens, s) ==
  LET levels == {l \in DOMAIN BinaryLevels : LastBinary(tokens, l) # 0}
      cast == LastOuter(tokens, {"as"})
      dot == LastOuter(tokens, {"."})
  IN CASE ~ Going(s) -> s
       [] levels # {} -> Binary(tokens, LastBinary(tokens, Min(levels)), s)
       [] cast # 0 -> Eval(Before(tokens, cast), s)
       [] Head(tokens) = "&" -> Address(Tail(tokens), s)
       [] Head(tokens) = "*" \/ dot # 0 -> Load(Address(tokens, s))
       [] OTHER -> Primitive(tokens, s)

\* The address of the word that an expression names.
AddressOf(tokens, s) ==
  LET cast == LastOuter(tokens, {"as"})
      dot == LastOuter(tokens, {"."})
      object == Eval(Before(tokens, dot), s)
  IN CASE ~ Going(s) -> s
       [] cast # 0 -> Address(Before(tokens, cast), s)
       [] Head(tokens) = "*" -> Eval(Tail(tokens), s)
       [] dot # 0 -> Value(object, (object.value + 8 * Fields[Last(tokens)]) % 2 ^ Bits)
       [] Head(tokens) = "(" -> Address(Between(tokens, 1, Len(tokens)), s)
       [] OTHER -> Value(s, s.variables[Head(tokens)])

\* The value of a condition is TRUE or FALSE.
Condition(tokens, s) ==
  LET or == LastOuter(tokens, {"||"})
      and == LastOuter(tokens, {"&&"})
      op == LastOuter(tokens, ComparisonOps)
      i == IF or # 0 THEN or ELSE and
      first == Test(Before(tokens, i), s)
      left == Eval(Before(tokens, op), s)
      right == Eval(After(tokens, op), left)
  IN CASE i # 0 -> IF Going(first) /\ first.value = (or = 0)
                     THEN Test(After(tokens, i), first) ELSE first
       [] OTHER -> IF Going(right) THEN Value(right, Holds(tokens[op], left.value, right.value))
                   ELSE right

-----------------------------------------------------------------------------
(***************************************************************************)
(* Statements.                                                             *)
(***************************************************************************)
\* Where the first statement ends.
RECURSIVE StmtEnd(_)
StmtEnd(tokens) ==
  LET close == NextOuter(tokens, 0, {"}"})
  IN CASE Head(tokens) \in {"{", "while", "loop"} -> close
       [] Head(tokens) = "if" ->
            IF close < Len(tokens) /\ tokens[close + 1] = "else"
              THEN close + 1 + StmtEnd(After(tokens, close + 1)) ELSE close
       [] OTHER -> NextOuter(tokens, 0, {";"})

If(tokens, s) ==
  LET open == NextOuter(tokens, 0, {"{"})
      close == NextOuter(tokens, open, {"}"})
      cond == Test(Between(tokens, 1, open), s)
  IN CASE ~ Going(cond) -> cond
       [] cond.value -> Exec(Between(tokens, open, close), cond)
       [] close = Len(tokens) -> cond
       [] OTHER -> ExecStmt(After(tokens, close + 1), cond)

\* A loop without condition repeats while TRUE.
Repeat(condition, body, s) ==
  LET cond == IF condition = <<>> THEN Value(s, TRUE) ELSE Test(condition, s)
      once == Exec(body, cond)
  IN CASE s.fuel = 0 -> End(s, "running")
       [] ~ Going(cond) \/ ~ cond.value -> cond
       [] once.status = "break" -> [once EXCEPT !.status = "next"]
       [] ~ Going(once) -> once
       [] OTHER -> Repeat(condition, body, [once EXCEPT !.fuel = @ - 1])

\* The address is known before the value.
Assign(tokens, s) ==
  LET i == LastOuter(tokens, {"="})
      place == Address(Before(tokens, i), s)
      right == Eval(After(tokens, i), place)
  IN Store(right, place.value, right.value)

Let(tokens, s) ==
  LET right == Eval(Between(tokens, LastOuter(tokens, {"="}), Len(tokens)), s)
      t == [right EXCEPT !.count = @ + 1]
  IN Declare(t, tokens[2], t.base - 8 * t.count, t.value)

Statement(tokens, s) ==
  LET t == Head(tokens)
      last == Len(tokens)
      open == NextOuter(tokens, 0, {"{"})
  IN CASE ~ Going(s) -> s
       [] t = "{" -> Exec(Between(tokens, 1, last), s)
       [] t = "if" -> If(tokens, s)
       [] t \in {"while", "loop"} ->
            Repeat(Between(tokens, 1, open), Between(tokens, open, last), s)
       [] t = "break" -> End(s, "break")
       [] t = "return" ->
            End(IF last = 2 THEN s ELSE Eval(Between(tokens, 1, last), s), "return")
       [] t = "let" -> Let(tokens, s)
       [] t = "const" ->
            [s EXCEPT !.constants = (tokens[2] :> Literals[tokens[last - 1]]) @@ @]
       [] Outer(tokens, {"="}) # {} -> Assign(Before(tokens, last), s)
       [] OTHER -> Eval(Before(tokens, last), s)

Statements(tokens, s) ==
  IF tokens = <<>> \/ ~ Going(s) THEN s
  ELSE LET end == StmtEnd(tokens)
       IN Exec(After(tokens, end), ExecStmt(SubSeq(tokens, 1, end), s))

-----------------------------------------------------------------------------
(***************************************************************************)
(* Functions.                                                              *)
(***************************************************************************)
\* The body of f, with its arguments at the top of the frame below base.
Body(f, values, base, s) ==
  LET fn == s.program.functions[f]
      arity == Len(values)
      address(i) == base - 8 * (arity - i + 1)
      addresses == {address(i) : i \in 1 .. arity}
  IN Exec(fn.body,
       [s EXCEPT !.base = base, !.count = arity, !.constants = s.program.constants,
                 !.variables = [n \in {fn.params[i] : i \in 1 .. arity} |->
                                  address(CHOOSE i \in 1 .. arity : fn.params[i] = n)],
                 !.memory = [a \in addresses |-> values[(a - address(1)) \div 8 + 1]] @@ @])

\* The functions in machine code: load8, which returns a byte.
CallMachine(f, values, s) ==
  IF f = "load8" /\ Head(values) \in DOMAIN s.program.data
    THEN Value(s, s.program.data[Head(values)])
    ELSE End(s, "undefined")

\* A function that has a result returns one; the variables of the frame end.
Call(f, values, s) ==
  LET t == Body(f, values, s.base - FrameGap, [s EXCEPT !.fuel = @ - 1])
  IN CASE s.fuel = 0 -> End(s, "running")
       [] s.program.functions[f].machine -> CallMachine(f, values, s)
       [] s.base < 2 * FrameGap -> End(s, "undefined")
       [] t.status \in {"next", "return"} ->
            [s EXCEPT !.memory = [a \in DOMAIN s.memory |-> t.memory[a]], !.fuel = t.fuel,
                      !.value = t.value,
                      !.status = IF t.status = "return" \/ ~ s.program.functions[f].result
                                   THEN "next" ELSE "no result"]
       [] OTHER -> [s EXCEPT !.status = t.status]

Do(what, tokens, s) ==
  CASE what = "expression" -> Expression(tokens, s)
    [] what = "address" -> AddressOf(tokens, s)
    [] what = "condition" -> Condition(tokens, s)
    [] what = "statement" -> Statement(tokens, s)
    [] what = "statements" -> Statements(tokens, s)

\* What the function main of a program does with arguments and structures.
Meaning(tokens, main, values, structures) ==
  Body(main, values, StackTop,
       [status |-> "next", value |-> 0, memory |-> structures, base |-> 0, count |-> 0,
        variables |-> <<>>, constants |-> <<>>, program |-> Program(tokens), fuel |-> LoopLimit])
=============================================================================
