---------------------------- MODULE CompilerRuns ----------------------------
(***************************************************************************)
(* The compiler against the language: programs are written one phrase at a *)
(* time, as long as the compiler does not refuse what is written, and the  *)
(* code of those it accepts is run.  A family of programs is a prefix and  *)
(* a suffix, and the phrases that may be written between them: tokens, or  *)
(* texts that the scanner reads.                                           *)
(***************************************************************************)
EXTENDS Compiler, Scanner, ToyLanguage

CONSTANTS
  Families, \* name -> [prefix, suffix, phrases, length, once, inputs, structures]
  Scanned,  \* the names of those that are written in characters
  MaxLexeme, \* no word or number of their texts has more characters
  Steps     \* the instructions after which code is "running"

VARIABLES
  family,   \* the name of a family
  added,    \* the tokens written between its prefix and its suffix
  compiled  \* the compiler, after it read the program

vars == <<family, added, compiled>>

RECURSIVE Tokens(_), Joined(_)
Tokens(phrases) == IF phrases = <<>> THEN <<>> ELSE Head(phrases) \o Tokens(Tail(phrases))
Joined(phrases) == IF phrases = <<>> THEN "" ELSE Head(phrases) \o Joined(Tail(phrases))

-----------------------------------------------------------------------------
(***************************************************************************)
(* The tokens of a text, from what a token looks like.                     *)
(***************************************************************************)
Keywords ==
  {"as", "break", "const", "else", "fn", "if", "let", "loop", "null", "return", "sizeof",
   "static", "struct", "u64", "while"}
Signs ==
  (Punctuation \ {"'"}) \cup {"!=", "&", "&&", "<", "<<", "<=", "=", "==", ">", ">>", ">=",
                              "|", "||", "-", "->"}
Blanks == {" ", "\t", "\n"}

Chars(w) == {CharAt(w, i) : i \in 1 .. Len(w)}
IsNumber(w) == Chars(w) \subseteq Digits
IsWord(w) == Chars(w) \subseteq Letters \cup Digits /\ CharAt(w, 1) \in Letters
IsQuoted(w) == Len(w) = 3 /\ CharAt(w, 1) = "'" /\ CharAt(w, 2) \in Printable /\ CharAt(w, 3) = "'"

IsLexeme(w) == w \in Blanks \cup Signs \/ IsNumber(w) \/ IsWord(w) \/ IsQuoted(w)

RECURSIVE Decimal(_)
Decimal(w) ==
  IF w = "" THEN 0
  ELSE 10 * Decimal(SubSeq(w, 1, Len(w) - 1)) + CharCode[CharAt(w, Len(w))] - CharCode["0"]

LexemeToken(w) ==
  CASE w \in Keywords \cup Signs -> <<"token", w>>
    [] IsNumber(w) -> <<"integer", Decimal(w)>>
    [] IsQuoted(w) -> <<"integer", CharCode[CharAt(w, 2)]>>
    [] OTHER -> <<"identifier", w>>

\* The longest one is taken, until there is none.  A comment goes to the first
\* "*/" that does not share its star; it must have one.
RECURSIVE Lexemes(_, _)
Lexemes(text, i) ==
  LET least(S) == CHOOSE j \in S : \A k \in S : j <= k
      most(S) == CHOOSE j \in S : \A k \in S : k <= j
      comment == CharAt(text, i) = "/" /\ CharAt(text, i + 1) = "*"
      ends == IF comment THEN {j \in i + 3 .. Len(text) : SubSeq(text, j - 1, j) = "*/"}
              ELSE {j \in i .. least({Len(text), i + MaxLexeme - 1}) : IsLexeme(SubSeq(text, i, j))}
      word == SubSeq(text, i, most(ends))
  IN CASE i > Len(text) -> <<>>
       [] ends = {} -> <<(<<"token", "invalid">>)>>
       [] comment -> Lexemes(text, least(ends) + 1)
       [] OTHER -> (IF word \in Blanks THEN <<>> ELSE <<LexemeToken(word)>>)
                     \o Lexemes(text, i + Len(word))

\* What the scanner gives, or panics with, for what is no token.
Refused == {<<"token", "invalid">>} \cup {<<"token", PANICS[e]>> : e \in DOMAIN PANICS}

-----------------------------------------------------------------------------
\* What the compiler is given in the families of texts.
Text(name, phrases) == Families[name].prefix \o Joined(phrases) \o Families[name].suffix

\* The spelling of the tokens, as the parser takes them.
Spelled(tokens) ==
  <<>> \o [i \in DOMAIN tokens |->
             IF tokens[i][1] = "integer" THEN ToString(tokens[i][2]) ELSE tokens[i][2]]

\* The tokens the parser is given, and those it should be given.
Source(name, phrases) ==
  IF name \in Scanned THEN Spelled(Scan(Text(name, phrases)))
  ELSE Families[name].prefix \o Tokens(phrases) \o Families[name].suffix
Intended(name, phrases) ==
  IF name \in Scanned THEN Spelled(Lexemes(Text(name, phrases), 1)) ELSE Source(name, phrases)

\* The compiler may accept the program if more is written: what it refuses,
\* if anything, is that the source ends.
ATEND == {0, 20, 21, 22, 23, 25, 32, 37, 40}
Unfinished(c) == c.src = <<>> /\ c.error \in ATEND
Viable(name, phrases) == Unfinished(Compile(Families[name].prefix \o Tokens(phrases)))

\* The brackets still to close, with a phrase each.
Unclosed(phrases) ==
  LET tokens == Tokens(phrases)
      of(which) == {i \in DOMAIN tokens : tokens[i] \in which}
  IN Cardinality(of(Openers)) - Cardinality(of(Closers))

Init ==
  /\ family \in DOMAIN Families
  /\ added = <<>>
  /\ compiled = Compile(Source(family, <<>>))

Promising(name, phrases) ==
  /\ Unclosed(phrases) \in 0 .. Families[name].length - Len(phrases)
  /\ Viable(name, phrases)

Next ==
  \E phrase \in Families[family].phrases :
    /\ Len(added) < Families[family].length
    /\ Families[family].once => phrase \notin Range(added)
    /\ family \notin Scanned => Promising(family, Append(added, phrase))
    /\ added' = Append(added, phrase)
    /\ compiled' = Compile(Source(family, added'))
    /\ UNCHANGED family

Spec == Init /\ [][Next]_vars

-----------------------------------------------------------------------------
Functions == {f \in DOMAIN compiled.symbols : compiled.symbols[f].kind = "fn"}
Entries == {compiled.symbols[f].value : f \in Functions}

\* The effect of running the code: the result and the structures.
CodeEffect(arguments, structures) ==
  LET m == RunCode(compiled.code,
                   Machine(compiled.symbols["main"].value, arguments, structures), Steps)
  IN <<m.status, IF m.status = "done" THEN m.registers[R8] ELSE 0,
       [a \in DOMAIN structures |-> IF m.status = "done" THEN m.memory[a] ELSE 0]>>

\* The effect the program should have.
ProgramEffect(s, structures) ==
  LET done == s.status = "return"
  IN <<IF done THEN "done" ELSE s.status, IF done THEN s.value ELSE 0,
       [a \in DOMAIN structures |-> IF done THEN s.memory[a] ELSE 0]>>

\* The words an instruction drops from the stack, or pushes on it.
Dropped(insn) ==
  CASE insn.op = "pop" -> 1
    [] insn.op = "push" -> -1
    [] insn.op = "add" /\ insn.m.base = RSP -> insn.n \div 8
    [] OTHER -> 0

\* The places the code reaches from an entry, with the words it has pushed.
FollowingInsn(insn, depth) ==
  CASE insn.op \in {"ret", "invalid"} -> {}
    [] insn.op = "jmp" -> {<<insn.next + insn.n, depth>>}
    [] insn.op \in ComparisonOps -> {<<insn.next, depth>>, <<insn.next + insn.n, depth>>}
    [] OTHER -> {<<insn.next, depth - Dropped(insn)>>}

Following(code, place) ==
  IF place[2] \in 0 .. Len(code) THEN FollowingInsn(Decode(code, place[1]), place[2]) ELSE {}

RECURSIVE Reached(_, _, _)
Reached(code, seen, frontier) ==
  IF frontier = {} THEN seen
  ELSE LET new == UNION {Following(code, place) : place \in frontier} \ seen
       IN Reached(code, seen \cup new, new)

Places(code) ==
  LET start == {<<entry, 0>> : entry \in Entries} IN Reached(code, start, start)

\* The variable that an instruction accesses is in the frame; the calls it
\* makes are to functions.
FrameUsed(insn, depth) ==
  CASE insn.op = "invalid" -> FALSE
    [] insn.op = "ret" -> depth = 0
    [] insn.op = "call" -> insn.next + insn.n \in Entries
    [] insn.m.kind = "memory" /\ insn.m.base = RSP -> insn.m.disp \div 8 \in 0 .. depth - 1
    [] OTHER -> Dropped(insn) <= depth

-----------------------------------------------------------------------------
(***************************************************************************)
(* Properties.                                                             *)
(***************************************************************************)
\* The state has the right shape: a program that compiles was read to its end,
\* and all the functions it declares are defined (parser.toy:701-734).
TypeOK ==
  /\ family \in DOMAIN Families
  /\ Range(added) \subseteq Families[family].phrases
  /\ Len(added) <= Families[family].length
  /\ compiled.error \in Nat
  /\ compiled.error = 0 =>
       /\ compiled.src = <<>> /\ compiled.values = <<>> /\ "main" \in Functions
       /\ \A n \in DOMAIN compiled.symbols : compiled.symbols[n].kind # "forward_fn"

\* The code of a program that the compiler accepts does what the program
\* means: it gives the same result, traps or does not end when the program
\* does, and leaves the structures the same.  This is about all that
\* parser.toy keeps between tokens and uses later: the registers in use and
\* those saved around a call (backend.toy:52-59, 203-225), the load erased
\* when it turns out to be an address (backend.toy:148-150), the chains of
\* jumps filled when their target is known (backend.toy:25-41), and the
\* order of the operators (parser.toy:349-432).
CodeRight ==
  compiled.error = 0 =>
    \A input \in Families[family].inputs :
      LET structures == Families[family].structures
          meaning == Meaning(Intended(family, added), "main", input, structures)
      IN meaning.status # "undefined" =>
           CodeEffect(input, structures) = ProgramEffect(meaning, structures)

\* The scanner makes of a text the tokens of the language: the longest
\* operators and words, the values of numbers and quoted characters, nothing of
\* blanks and comments (scanner.c:94-173).  It refuses some pairs of operators
\* that it could read one by one, but only those that no program may contain.
ScannedRight ==
  family \in Scanned =>
    LET tokens == Scan(Text(family, added))
        lexemes == Lexemes(Text(family, added), 1)
        refused == {i \in DOMAIN tokens : tokens[i] \in Refused}
    IN IF refused = {} THEN tokens = lexemes
       ELSE /\ \E n \in refused : IsPrefix(SubSeq(tokens, 1, n - 1), lexemes)
            /\ Compile(Spelled(lexemes)).error # 0

\* Whatever way control comes to an instruction of a function, the stack has
\* the same depth there, the one for which the offsets of the variables were
\* computed (frame_size, backend.toy:52-59, 172-193): a variable is in the
\* frame, a return drops exactly the frame, no path leaves the code, and a
\* call goes to the start of a function.
FramesConsistent ==
  compiled.error = 0 =>
    LET places == Places(compiled.code)
    IN /\ \A p \in places : FrameUsed(Decode(compiled.code, p[1]), p[2])
       /\ \A p, q \in places : p[1] = q[1] => p[2] = q[2]

\* A load reads the memory at the address in a register: as the comment of
\* tc_write_load_insn says, mov r{z+8},[r{z+8}+offset] (backend.c:168).
LoadsAddressed ==
  compiled.error = 0 =>
    \A p \in Places(compiled.code) :
      LET insn == Decode(compiled.code, p[1])
      IN insn.op = "read" => insn.m.kind # "rip"
=============================================================================
