------------------------------ MODULE Compiler ------------------------------
(***************************************************************************)
(* The Toy compiler: the recursive descent parser that checks a program    *)
(* and emits its code in one pass.  It exists in C (tools/toyc), to build  *)
(* the disk image, and in Toy (src/toyc), with the same functions.  An     *)
(* operator stands for each one; its argument c and its result are the     *)
(* Compiler structure, to which out parameters and the variables local to  *)
(* a loop are added.  The functions of expressions and statements call     *)
(* each other through Parse(rule, c), where rule says which one.           *)
(*                                                                         *)
(* The source is a sequence of tokens (see Scanner).  The limit of the     *)
(* memory for the symbols and the values is left out.                      *)
(***************************************************************************)
EXTENDS Integers, Sequences

CONSTANTS
  Identifiers,   \* the tokens that are identifiers
  IntegerValue,  \* the value of each token that is an integer
  MAX_REGISTERS, \* 8
  MAX_CODE_SIZE  \* the bytes of the memory for the code (20480)

CompilerAssumption ==
  /\ MAX_REGISTERS \in 1 .. 8
  /\ MAX_CODE_SIZE \in Nat
  /\ \A t \in DOMAIN IntegerValue : IntegerValue[t] \in Nat
  /\ Identifiers \cap DOMAIN IntegerValue = {}

ASSUME CompilerAssumption

NULL == 0
u64 == "u64"  \* the null type

\* A symbol; members are the fields of a structure, or the result and the
\* parameters of a function, the last one first.
Symbol(name, kind, value, type, dim) ==
  [name |-> name, kind |-> kind, value |-> value, type |-> type, dim |-> dim,
   members |-> <<>>]

\* The compiler before it reads source.
Compiler(source) ==
  [src |-> source, error |-> 0, code |-> <<>>, mark |-> 0, values |-> <<>>,
   symbols |-> <<>>, result |-> Symbol("", "none", 0, u64, 0), register |-> 0,
   frame |-> 0, type |-> u64, dim |-> 0, members |-> <<>>, count |-> 0,
   comparison |-> "", thenRefs |-> NULL, elseRefs |-> NULL, breakRefs |-> NULL,
   inLoop |-> FALSE, reachable |-> TRUE]

\* panic(e), unless ok; all operators leave a compiler that failed as it is.
Check(c, ok, e) == IF c.error = 0 /\ ~ ok THEN [c EXCEPT !.error = e] ELSE c

-----------------------------------------------------------------------------
(***************************************************************************)
(* Tokens.                                                                 *)
(***************************************************************************)
Token(c) ==
  IF c.error # 0 THEN "none" ELSE IF c.src = <<>> THEN "end" ELSE Head(c.src)

ReadToken(c) ==
  IF c.error # 0 \/ c.src = <<>> THEN c ELSE [c EXCEPT !.src = Tail(@)]

ParseToken(c, token) == ReadToken(Check(c, Token(c) = token, 20))
ParseInteger(c) == ReadToken(Check(c, Token(c) \in DOMAIN IntegerValue, 21))
ParseIdentifier(c) == ReadToken(Check(c, Token(c) \in Identifiers, 22))
ParseSymbol(c) == Check(ParseIdentifier(c), Token(c) \in DOMAIN c.symbols, 33)

-----------------------------------------------------------------------------
(***************************************************************************)
(* The backend.  The code is a sequence of bytes; an address is the number *)
(* of a byte.  Registers z and y hold the top of a stack of values: they   *)
(* are r8 to r15, the numbers 0 to 7 in an instruction.  The bytes of each *)
(* instruction are those of the numbers in backend.c, the lowest first;    *)
(* their bit fields are disjoint, so that + is | and * is <<.              *)
(***************************************************************************)
Bytes32(n) == <<n % 256, (n \div 256) % 256, (n \div 65536) % 256, (n \div 16777216) % 256>>

\* load32, as a signed number.
Load32(code, at) ==
  LET high == code[at + 3]
  IN code[at] + 256 * code[at + 1] + 65536 * code[at + 2]
       + 16777216 * (IF high >= 128 THEN high - 256 ELSE high)

Store32(code, at, n) ==
  [i \in DOMAIN code |-> IF i \in at .. at + 3 THEN Bytes32(n)[i - at + 1] ELSE code[i]]

dst(c) == Len(c.code) + 1

\* mem_allocate at dst and store8, store16 or store32
Write(c0, bytes) ==
  LET c == Check(c0, Len(c0.code) + Len(bytes) <= MAX_CODE_SIZE, 1)
  IN IF c.error # 0 THEN c ELSE [c EXCEPT !.code = @ \o bytes]

\* A jump or a call whose target is not known holds the distance to the last
\* one with the same target, or 0.
WritePlaceholder(c, last) == Write(c, Bytes32(IF last = NULL THEN 0 ELSE dst(c) - last))

\* The placeholder that was just written.
Placeholder(c) == dst(c) - 4

RECURSIVE tc_fill_placeholders(_, _, _)
tc_fill_placeholders(code, placeholder, value) ==
  IF placeholder = NULL THEN code
  ELSE LET offset == Load32(code, placeholder)
           filled == Store32(code, placeholder, value - (placeholder + 4))
       IN IF offset = 0 THEN filled
          ELSE tc_fill_placeholders(filled, placeholder - offset, value)

FillHere(c, placeholder) ==
  IF c.error # 0 THEN c
  ELSE [c EXCEPT !.code = tc_fill_placeholders(@, placeholder, dst(c))]

\* The distance from the end of an instruction whose last 4 bytes come next.
Offset32(c, value) == Bytes32(value - (dst(c) + 4))

\* tc_new_register
NewRegister(c) == [Check(c, c.register < MAX_REGISTERS, 105) EXCEPT !.register = @ + 1]

\* push r{n-1+8}, ..., push r8
Pushes(n) == [i \in 1 .. 2 * n |-> IF i % 2 = 1 THEN \h41 ELSE \h50 + n - i \div 2]

\* The frame does not grow with what is pushed.
WrongSaveRegisters(c, n) == Write([c EXCEPT !.register = 0], Pushes(n))

\* tc_save_registers
SaveRegisters(c, n) == Write([c EXCEPT !.frame = @ + n, !.register = 0], Pushes(n))

\* xor or mov; constants have less than 32 bits (movabs is left out).
WriteCst(c, value) ==
  LET z == c.register
  IN Write(NewRegister(c), IF value = 0 THEN <<\h4d, \h31, \hc0 + 9 * z>>
                           ELSE <<\h41, \hb8 + z>> \o Bytes32(value))

\* The address of a function or of static data: lea r{z+8},[rip+offset32].
WriteStatic(c, value) ==
  LET d == Write(NewRegister(c), <<\h4c, \h8d, \h05 + 8 * c.register>>)
  IN Write(d, Offset32(d, value))

\* From registers z and y to z.
BinaryInsn(op, z, y) ==
  LET both == \hc0 + 8 * z + y IN
  CASE op = "+" -> <<\h4d, \h03, both>>
    [] op = "-" -> <<\h4d, \h2b, both>>
    [] op = "*" -> <<\h4d, \h0f, \haf, both>>
    [] op = "/" -> <<\h31, \hd2, \h4c, \h89, \hc0 + 8 * z, \h49, \hf7, \hf0 + y,
                     \h49, \h89, \hc0 + z>>
    [] op = "&" -> <<\h4d, \h23, both>>
    [] op = "|" -> <<\h4d, \h0b, both>>
    [] op = "<<" -> <<\h44, \h89, \hc1 + 8 * y, \h49, \hd3, \he0 + z>>
    [] op = ">>" -> <<\h44, \h89, \hc1 + 8 * y, \h49, \hd3, \he8 + z>>

WriteBinary(c, op) ==
  LET y == c.register - 1
  IN Write([c EXCEPT !.register = y], BinaryInsn(op, y - 1, y))

\* The jumps that follow cmp r8,r9.
JUMP_INSTRUCTIONS ==
  [op \in {"<", "==", ">", "<=", "!=", ">="} |->
     CASE op = "<" -> \h82 [] op = "==" -> \h84 [] op = ">" -> \h87
       [] op = "<=" -> \h86 [] op = "!=" -> \h85 [] op = ">=" -> \h83]

WriteJump(c, op, last) ==
  WritePlaceholder(Write([c EXCEPT !.register = 0],
                         <<\h4d, \h39, \hc8, \h0f, JUMP_INSTRUCTIONS[op]>>), last)
WriteGoto(c, last) == WritePlaceholder(Write(c, <<\he9>>), last)
WriteLoop(c, target) == LET d == Write(c, <<\he9>>) IN Write(d, Offset32(d, target))

\* The offset of a slot takes no byte, one or four.
MemInsn(insn, modrm, sib, slot) ==
  insn \o <<modrm + (CASE slot = 0 -> 0 [] slot < 16 -> \h40 [] OTHER -> \h80)>> \o sib
    \o (CASE slot = 0 -> <<>> [] slot < 16 -> <<8 * slot>> [] OTHER -> Bytes32(8 * slot))

\* mov r{z+8},[r{z+8}+offset]
WriteLoad(c, field) ==
  LET z == c.register - 1
  IN Write([c EXCEPT !.mark = Len(c.code)],
           MemInsn(<<\h4d, \h8b>>, 9 * z, IF z = 4 THEN <<\h24>> ELSE <<>>, field))

EraseLoad(c) == IF c.error # 0 THEN c ELSE [c EXCEPT !.code = SubSeq(@, 1, c.mark)]

\* mov [r8+offset],r9
WriteStore(c, field) == Write([c EXCEPT !.register = 0], MemInsn(<<\h4d, \h89>>, \h08, <<>>, field))

\* add, whose first byte is rex; there is nothing to add for slot 0.
IncrementInsn(rex, modrm, slot) ==
  CASE slot = 0 -> <<>>
    [] slot \in 1 .. 15 -> <<rex, \h83, modrm, 8 * slot>>
    [] OTHER -> <<rex, \h81, modrm>> \o Bytes32(8 * slot)

WriteAddressOf(c, field) == Write(c, IncrementInsn(\h49, \hc0 + c.register - 1, field))

\* What accesses a variable, from rsp.
FrameInsn(c, insn, z, variable) == MemInsn(insn, \h04 + 8 * z, <<\h24>>, c.frame - variable)

WritePtr(c, variable) ==
  Write(NewRegister(c), FrameInsn(c, <<\h4c, \h8d>>, c.register, variable))

WriteGet(c, variable) ==
  Write(NewRegister([c EXCEPT !.mark = Len(c.code)]),
        FrameInsn(c, <<\h4c, \h8b>>, c.register, variable))

EraseGet(c) == [EraseLoad(c) EXCEPT !.register = @ - 1]

WriteSet(c, variable) ==
  Write([c EXCEPT !.register = 0], FrameInsn(c, <<\h4c, \h89>>, 0, variable))

WriteFn(c, arity) ==
  SaveRegisters(Check([c EXCEPT !.frame = 0], arity <= MAX_REGISTERS, 107), arity)

\* add rsp,offset; ret
WriteReturn(c) ==
  Write([c EXCEPT !.register = 0], IncrementInsn(\h48, \hc4, c.frame) \o <<\hc3>>)

WriteCall(c, f, saved) ==
  LET s == c.symbols[f]
      call == Write(c, <<\he8>>)
      called == IF s.kind = "forward_fn"
                  THEN [WritePlaceholder(call, s.value) EXCEPT !.symbols[f].value = dst(call)]
                  ELSE Write(call, Offset32(call, s.value))
      void == s.members[1].kind = "void"
      moved == IF void THEN [called EXCEPT !.register = saved]
               ELSE [Check(Write(called, IF saved = 0 THEN <<>>
                                         ELSE <<\h4d, \h89, \hc0 + saved>>),
                           saved < MAX_REGISTERS, 108) EXCEPT !.register = saved + 1]
      pops == [i \in 1 .. 2 * saved |-> IF i % 2 = 1 THEN \h41 ELSE \h58 + i \div 2 - 1]
  IN IF c.error # 0 THEN c ELSE Write([moved EXCEPT !.frame = @ - saved], pops)

-----------------------------------------------------------------------------
(***************************************************************************)
(* Symbols and types.  Symbols have distinct names, by which they are      *)
(* known.                                                                  *)
(***************************************************************************)
\* tc_add_symbol
AddSymbol(c0, s) ==
  LET c == Check(c0, s.name \notin DOMAIN c0.symbols, 30)
  IN IF c.error # 0 THEN c
     ELSE [c EXCEPT !.symbols =
             [n \in DOMAIN @ \cup {s.name} |-> IF n = s.name THEN s ELSE @[n]]]

RECURSIVE ParseStars(_)
ParseStars(c) ==
  CASE Token(c) = "&" -> ParseStars([ReadToken(c) EXCEPT !.dim = @ + 1])
    [] Token(c) = "&&" -> ParseStars([ReadToken(c) EXCEPT !.dim = @ + 2])
    [] OTHER -> c

ParseType(c0) ==
  LET c == ParseStars([c0 EXCEPT !.dim = 0]) IN
  IF Token(c) = "u64" THEN [ReadToken(c) EXCEPT !.type = u64]
  ELSE LET d == ParseSymbol(c)
       IN [Check(d, c.dim # 0 /\ d.symbols[Token(c)].kind = "struct", 42)
             EXCEPT !.type = Token(c)]

ParseConst(c0) ==
  LET name == ParseToken(c0, "const")
      type == ParseType(ParseToken(ParseIdentifier(name), ":"))
      value == ParseToken(type, "=")
      c == ParseInteger(value)
  IN IF c.error # 0 THEN c
     ELSE ParseToken(AddSymbol(c, Symbol(Token(name), "const", IntegerValue[Token(value)],
                                         type.type, type.dim)), ";")

\* Integers up to the token close, as bytes of the code.
RECURSIVE ParseBytes(_, _, _)
ParseBytes(c, first, close) ==
  IF Token(c) \in {close, "none"} THEN ReadToken(c)
  ELSE LET value == IF first THEN c ELSE ParseToken(c, ",")
           d == ParseInteger(value)
       IN IF d.error # 0 THEN d
          ELSE ParseBytes(Write(d, <<IntegerValue[Token(value)] % 256>>), FALSE, close)

\* There is at least one.
ParseStatic(c0) ==
  LET name == ParseToken(c0, "static")
      c == ParseIdentifier(name)
      d == ParseToken(AddSymbol(c, Symbol(Token(name), "static", dst(c), u64, 1)), "=")
      open == ParseToken(d, "[")
  IN ParseToken(ParseBytes(Check(open, Token(open) # "]", 21), TRUE, "]"), ";")

\* The fields of a structure or the parameters of a function.
RECURSIVE ParseMembers(_, _, _, _)
ParseMembers(c0, members, kind, close) ==
  IF Token(c0) \in {close, "none"} THEN [ReadToken(c0) EXCEPT !.members = members]
  ELSE LET name == IF members = <<>> THEN c0 ELSE ParseToken(c0, ",")
           c == ParseType(ParseToken(ParseIdentifier(name), ":"))
           known == {members[i].name : i \in DOMAIN members}
       IN ParseMembers(Check(c, Token(name) \notin known, 30),
                       <<Symbol(Token(name), kind, Len(members), c.type, c.dim)>> \o members,
                       kind, close)

ParseStruct(c0) ==
  LET name == ParseToken(c0, "struct")
      c == AddSymbol(ParseIdentifier(name), Symbol(Token(name), "struct", 0, u64, 0))
      d == ParseMembers(ParseToken(c, "{"), <<>>, "field", "}")
  IN IF d.error # 0 THEN d
     ELSE [d EXCEPT !.symbols[Token(name)].value = Len(d.members),
                    !.symbols[Token(name)].members = d.members]

-----------------------------------------------------------------------------
(***************************************************************************)
(* Values: what is known of the values in the registers.                   *)
(***************************************************************************)
Push(c, origin, slot, type, dim) ==
  LET value == [origin |-> origin, slot |-> slot, type |-> type, dim |-> dim]
  IN Check([c EXCEPT !.values = Append(@, value)], dim # 0 \/ type = u64, 44)

PushInteger(c) == Push(c, "other", 0, u64, 0)

\* In the code, the type of a structure or of a declared function is the list of
\* its members, which is no type.
PushSymbol(c, s) ==
  LET listed == s.kind \in {"struct", "forward_fn"} /\ s.members # <<>>
      origin == CASE s.kind = "field" -> "address"
                  [] s.kind = "variable" -> "variable"
                  [] s.kind = "void" -> "void"
                  [] OTHER -> "other"
  IN IF s.kind = "fn" THEN Push(c, origin, s.value, u64, 0)
     ELSE Check(Push(c, origin, s.value, s.type, s.dim), ~ listed, 44)

Top(c) == c.values[Len(c.values)]

PopValueOrVoid(c) ==
  IF c.error # 0 THEN c ELSE [c EXCEPT !.values = SubSeq(@, 1, Len(@) - 1)]
Pop(c) == PopValueOrVoid(Check(c, Top(c).origin # "void", 45))

\* value_type_check of the top value.
CheckTop(c, type, dim) ==
  LET v == Top(c) IN Check(c, (v.origin = "null" /\ dim # 0) \/ (v.type = type /\ v.dim = dim), 43)

\* Pops the two top values, unless one is void or there is a fault.
PopTwo(c, fault) == LET d == Pop(Pop(c)) IN Check(d, fault = 0, fault)

Left(c) == c.values[Len(c.values) - 1]

IntegerFault(left, right) ==
  CASE left.type # u64 \/ left.dim # 0 -> 50
    [] right.type # u64 \/ right.dim # 0 -> 51
    [] OTHER -> 0

SubFault(left, right) ==
  IF left.type # right.type \/ left.dim # right.dim THEN 52 ELSE 0

ComparisonFault(left, right) ==
  IF \/ left.dim # 0 /\ right.origin = "null"
     \/ left.type = right.type /\ left.dim = right.dim
    THEN 0 ELSE 54

\* tc_check_integer_expr and tc_check_add_or_sub_expr
CheckBinary(c, op) ==
  LET right == Top(c)
      left == Left(c)
  IN CASE c.error # 0 -> c
       [] op \notin {"+", "-"} -> PushInteger(PopTwo(c, IntegerFault(left, right)))
       [] right.dim = 0 -> Push(PopTwo(c, 0), "other", 0, left.type, left.dim)
       [] op = "-" /\ left.dim # 0 -> PushInteger(PopTwo(c, SubFault(left, right)))
       [] OTHER -> PopTwo(c, 53)

-----------------------------------------------------------------------------
(***************************************************************************)
(* Expressions.                                                            *)
(***************************************************************************)
\* The operators of the binary expressions, and the rule of their operands.
Operators ==
  [expr |-> {"|"}, bit_and |-> {"&"}, shift |-> {"<<", ">>"}, add |-> {"+", "-"},
   mult |-> {"*", "/"}]
OperandRule ==
  [expr |-> "bit_and", bit_and |-> "shift", shift |-> "add", add |-> "mult", mult |-> "cast"]

RECURSIVE Parse(_, _)
RECURSIVE ParseFields(_), ParseOperands(_, _), ParseArguments(_, _), CheckArguments(_, _, _)

\* The arguments are popped, the last one first.
CheckArguments(c, parameters, count) ==
  IF c.error # 0 \/ parameters = <<>> \/ count = 0
    THEN Check(c, parameters = <<>> /\ count = 0, 46)
    ELSE LET p == Head(parameters)
         IN CheckArguments(Pop(CheckTop(Check(c, Top(c).origin # "void", 45), p.type, p.dim)),
                           Tail(parameters), count - 1)

ParseArguments(c, count) ==
  IF Token(c) \in {")", "none"} THEN [ReadToken(c) EXCEPT !.count = count]
  ELSE ParseArguments(Parse("expr", IF count = 0 THEN c ELSE ParseToken(c, ",")), count + 1)

ParseFnArguments(c, f) ==
  LET saved == c.register
      s == c.symbols[f]
      open == ParseToken(Check(c, s.kind \in {"fn", "forward_fn"}, 34), "(")
      args == ParseArguments(IF saved = 0 THEN open ELSE SaveRegisters(open, saved), 0)
      checked == CheckArguments(args, Tail(s.members), args.count)
  IN IF args.error # 0 THEN args
     ELSE WriteCall(PushSymbol(checked, s.members[1]), f, saved)

ParseSizeof(c) ==
  LET name == ParseToken(ParseToken(c, "sizeof"), "(")
      d == ParseSymbol(name)
      s == d.symbols[Token(name)]
  IN IF d.error # 0 THEN d
     ELSE ParseToken(WriteCst(PushInteger(Check(d, s.kind = "struct", 47)), 8 * s.value), ")")

ParseName(c) ==
  LET name == Token(c)
      d == ParseSymbol(c)
      s == d.symbols[name]
      value == PushSymbol(d, s)
  IN CASE d.error # 0 -> d
       [] Token(d) = "(" -> ParseFnArguments(d, name)
       [] s.kind = "variable" -> WriteGet(value, s.value)
       [] s.kind = "const" -> WriteCst(value, s.value)
       [] s.kind \in {"static", "fn"} -> WriteStatic(value, s.value)
       [] OTHER -> Check(value, FALSE, 35)

ParsePrimitive(c) ==
  LET t == Token(c) IN
  CASE c.error # 0 -> c
    [] t \in DOMAIN IntegerValue -> WriteCst(PushInteger(ReadToken(c)), IntegerValue[t])
    [] t \in Identifiers -> ParseName(c)
    [] t = "sizeof" -> ParseSizeof(c)
    [] t = "null" -> WriteCst(Push(ReadToken(c), "null", 0, u64, 0), 0)
    [] OTHER -> ParseToken(Parse("expr", ParseToken(c, "(")), ")")

\* Paths: fields of structures.
ParseFields(c) ==
  IF Token(c) # "." THEN c
  ELSE LET d == Pop(ReadToken(c))
           v == Top(c)
           name == Token(d)
           e == ParseIdentifier(Check(d, v.type # u64 /\ v.dim = 1, 48))
           fields == e.symbols[v.type].members
           known == {i \in DOMAIN fields : fields[i].name = name}
           field == fields[CHOOSE i \in known : TRUE]
       IN IF e.error # 0 \/ known = {} THEN Check(e, FALSE, 33)
          ELSE ParseFields(WriteLoad(PushSymbol(e, field), field.value))

ParsePath(c) == ParseFields(Parse("primitive", c))

ParsePointer(c) ==
  CASE Token(c) = "*" ->
         LET d == Parse("pointer", ReadToken(c))
             v == Top(d)
             e == Check(Pop(d), v.dim # 0, 49)
         IN IF d.error # 0 THEN d
            ELSE WriteLoad(Push(e, "address", 0, v.type, v.dim - 1), 0)
    [] Token(c) = "&" ->
         LET d == Parse("path", ReadToken(c))
             v == Top(d)
             e == Pop(d)
             place == CASE v.origin = "address" -> WriteAddressOf(EraseLoad(e), v.slot)
                        [] v.origin = "variable" -> WritePtr(EraseGet(e), v.slot)
                        [] OTHER -> Check(e, FALSE, 36)
         IN IF d.error # 0 THEN d ELSE Push(place, "other", 0, v.type, v.dim + 1)
    [] OTHER -> Parse("path", c)

ParseCast(c) ==
  LET d == Parse("pointer", c)
      v == Top(d)
      e == ParseType(Pop(ReadToken(d)))
  IN IF Token(d) # "as" THEN d
     ELSE Push(e, IF v.origin = "null" THEN "other" ELSE v.origin, 0, e.type, e.dim)

\* Operators group to the right.
WrongParseOperands(c, rule) ==
  IF Token(c) \notin Operators[rule] THEN c
  ELSE LET d == Parse(IF rule = "mult" THEN "cast" ELSE rule, ReadToken(c))
       IN WriteBinary(CheckBinary(d, Token(c)), Token(c))

\* What is left after a shift is not another one.
ParseOperands(c, rule) ==
  IF Token(c) \notin Operators[rule] THEN c
  ELSE LET d == Parse(OperandRule[rule], ReadToken(c))
           e == WriteBinary(CheckBinary(d, Token(c)), Token(c))
       IN IF rule = "shift" THEN e ELSE ParseOperands(e, rule)

\* tc_parse_bit_and_expr, tc_parse_shift_expr, tc_parse_add_expr and
\* tc_parse_mult_expr.
ParseBinary(c, rule) == ParseOperands(Parse(OperandRule[rule], c), rule)

-----------------------------------------------------------------------------
(***************************************************************************)
(* Conditions.  thenRefs and elseRefs are the placeholders to fill when    *)
(* the address of the two branches is known.                               *)
(***************************************************************************)
Comparisons == {"<", "==", ">", "<=", "!=", ">="}

\* The jumps TC_LT + TC_GE - token.
Opposite(op) ==
  CASE op = "<" -> ">=" [] op = "==" -> "!=" [] op = ">" -> "<="
    [] op = "<=" -> ">" [] op = "!=" -> "==" [] op = ">=" -> "<"

ParseComparison(c) ==
  LET left == Parse("expr", c)
      op == Token(left)
      d == Parse("expr", ReadToken(Check(left, op \in Comparisons, 25)))
  IN IF d.error # 0 THEN d ELSE [PopTwo(d, ComparisonFault(Left(d), Top(d))) EXCEPT !.comparison = op]

RECURSIVE ParseAnds(_)
ParseAnds(c) ==
  IF Token(c) # "&&" THEN c
  ELSE LET jump == WriteJump(ReadToken(c), Opposite(c.comparison), c.elseRefs)
       IN ParseAnds(Parse("comparison", [jump EXCEPT !.elseRefs = Placeholder(jump)]))

RECURSIVE ParseOrs(_)
ParseOrs(c) ==
  IF Token(c) # "||" THEN c
  ELSE LET jump == WriteJump(ReadToken(c), c.comparison, c.thenRefs)
           d == [FillHere(jump, c.elseRefs) EXCEPT !.thenRefs = Placeholder(jump), !.elseRefs = NULL]
       IN ParseOrs(ParseAnds(Parse("comparison", d)))

ParseBoolean(c) ==
  LET d == ParseOrs(ParseAnds(Parse("comparison", [c EXCEPT !.thenRefs = NULL, !.elseRefs = NULL])))
  IN IF d.error # 0 THEN d
     ELSE LET jump == WriteJump(d, Opposite(d.comparison), d.elseRefs)
          IN [jump EXCEPT !.elseRefs = Placeholder(jump)]

-----------------------------------------------------------------------------
(***************************************************************************)
(* Statements.  reachable is the result of the functions: whether the end  *)
(* of the statement can be reached.                                        *)
(***************************************************************************)
RECURSIVE ParseStmts(_)
ParseStmts(c) ==
  IF Token(c) \in {"}", "none"} THEN ReadToken(c)
  ELSE ParseStmts(Parse("stmt", Check(c, c.reachable, 37)))

ParseBlock(c) == ParseStmts([ParseToken(c, "{") EXCEPT !.reachable = TRUE])

ParseAssignment(c) ==
  LET v == Top(c)
      place == CASE v.origin = "address" -> EraseLoad(c)
                 [] v.origin = "variable" -> EraseGet(c)
                 [] OTHER -> Check(c, FALSE, 38)
      d == Parse("expr", ParseToken(place, "="))
      e == PopTwo(d, ComparisonFault(Left(d), Top(d)))
  IN IF d.error # 0 THEN d
     ELSE IF v.origin = "address" THEN WriteStore(e, v.slot) ELSE WriteSet(e, v.slot)

ParseExprOrAssign(c) ==
  LET d == Parse("expr", c)
      e == IF Token(d) = "=" THEN ParseAssignment(d)
           ELSE IF d.error = 0 /\ Top(d).origin # "void"
             THEN [PopValueOrVoid(d) EXCEPT !.register = 0]
           ELSE PopValueOrVoid(d)
  IN [ParseToken(e, ";") EXCEPT !.reachable = TRUE]

ParseReturn(c0) ==
  LET c == ParseToken(c0, "return")
      void == c.result.kind = "void"
      d == Parse("expr", Check(c, ~ void, 56))
      value == IF Token(c) = ";" THEN Check(c, void, 55)
               ELSE Pop(CheckTop(Check(d, Top(d).origin # "void", 45), c.result.type, c.result.dim))
  IN [WriteReturn(ParseToken(value, ";")) EXCEPT !.reachable = FALSE]

ParseBreak(c0) ==
  LET c == ParseToken(ParseToken(Check(c0, c0.inLoop, 39), "break"), ";")
      jump == WriteGoto(c, c.breakRefs)
  IN [jump EXCEPT !.breakRefs = Placeholder(jump), !.reachable = FALSE]

\* The body of the loop that starts at start; c.thenRefs lead to it and
\* c.elseRefs, with the breaks, out of it.
ParseLoopBody(c, start) ==
  LET body == Parse("block", [FillHere(c, c.thenRefs)
                            EXCEPT !.breakRefs = c.elseRefs, !.inLoop = TRUE])
  IN [FillHere(WriteLoop(body, start), body.breakRefs)
        EXCEPT !.breakRefs = c.breakRefs, !.inLoop = c.inLoop,
               !.reachable = body.breakRefs # NULL]

\* A while loop always has an end, the one of its condition.
ParseWhileOrLoop(c) ==
  ParseLoopBody(IF Token(c) = "while" THEN Parse("boolean", ReadToken(c))
                ELSE [ReadToken(c) EXCEPT !.thenRefs = NULL, !.elseRefs = NULL],
                dst(c))

\* c.reachable is about the end of the first branch.
ParseElse(c, elseRefs) ==
  LET jump == IF c.reachable THEN WriteGoto(c, NULL) ELSE c
      filled == FillHere(jump, elseRefs)
      else == IF Token(filled) = "{" THEN Parse("block", filled) ELSE Parse("if", filled)
  IN [IF c.reachable THEN FillHere(else, Placeholder(jump)) ELSE else
        EXCEPT !.reachable = c.reachable \/ @]

ParseIf(c) ==
  LET cond == Parse("boolean", ParseToken(c, "if"))
      then == Parse("block", FillHere(cond, cond.thenRefs))
  IN IF Token(then) = "else" THEN ParseElse(ReadToken(then), cond.elseRefs)
     ELSE [FillHere(then, cond.elseRefs) EXCEPT !.reachable = TRUE]

ParseStmt(c) ==
  CASE c.error # 0 -> c
    [] Token(c) = "if" -> Parse("if", c)
    [] Token(c) \in {"while", "loop"} -> ParseWhileOrLoop(c)
    [] Token(c) = "break" -> ParseBreak(c)
    [] Token(c) = "return" -> ParseReturn(c)
    [] OTHER -> ParseExprOrAssign(c)

Parse(rule, c) ==
  CASE rule \in DOMAIN Operators -> ParseBinary(c, rule)
    [] rule = "cast" -> ParseCast(c)
    [] rule = "pointer" -> ParsePointer(c)
    [] rule = "path" -> ParsePath(c)
    [] rule = "primitive" -> ParsePrimitive(c)
    [] rule = "comparison" -> ParseComparison(c)
    [] rule = "boolean" -> ParseBoolean(c)
    [] rule = "block" -> ParseBlock(c)
    [] rule = "if" -> ParseIf(c)
    [] rule = "stmt" -> ParseStmt(c)

\* The value in register 0 becomes the variable s, or one of its own type.
AddVariable(c, s, typed) ==
  LET v == Top(c)
      d == Check(c, v.origin # "void", 45)
      checked == Check(IF typed THEN CheckTop(d, s.type, s.dim) ELSE d,
                       typed \/ v.origin # "null", 57)
      variable == IF typed THEN s ELSE [s EXCEPT !.type = v.type, !.dim = v.dim]
  IN IF c.error # 0 THEN c ELSE SaveRegisters(AddSymbol(PopValueOrVoid(checked), variable), 1)

ParseLetValue(c, name, variable) ==
  LET typed == Token(c) = ":"
      type == IF typed THEN ParseType(ReadToken(c)) ELSE c
      value == ParseToken(Parse("expr", ParseToken(type, "=")), ";")
  IN AddVariable(value, Symbol(name, "variable", variable, type.type, type.dim), typed)

ParseLet(c, variable) ==
  LET name == ParseToken(c, "let")
  IN ParseLetValue(ParseIdentifier(name), Token(name), variable)

-----------------------------------------------------------------------------
(***************************************************************************)
(* Functions and programs.                                                 *)
(***************************************************************************)
\* tc_add_or_resolve_fn_symbol
AddOrResolve(c, name) ==
  LET s == c.symbols[name]
      d == FillHere(Check(c, s.kind = "forward_fn", 31), s.value)
  IN CASE c.error # 0 -> c
       [] name \notin DOMAIN c.symbols -> AddSymbol(c, Symbol(name, "fn", dst(c), u64, 0))
       [] OTHER -> IF d.error # 0 THEN d
                   ELSE [d EXCEPT !.symbols[name].kind = "fn", !.symbols[name].value = dst(d)]

\* tc_check_fn_parameters: the result and the parameters of two declarations.
CheckFnParameters(c, forward, members) ==
  LET same(i) == /\ forward[i].kind = members[i].kind
                 /\ forward[i].type = members[i].type
                 /\ forward[i].dim = members[i].dim
  IN IF forward = <<>> THEN c
     ELSE Check(Check(c, \A i \in DOMAIN forward \cap DOMAIN members : same(i), 58),
                Len(forward) = Len(members), 59)

SetSignature(c, f, result) ==
  LET members == <<result>> \o c.members
  IN IF c.error # 0 THEN c
     ELSE [CheckFnParameters(c, c.symbols[f].members, members)
             EXCEPT !.symbols[f].members = members, !.result = result]

ParseResult(c, f) ==
  LET d == ParseType(ReadToken(c))
  IN IF Token(c) = "->" THEN SetSignature(d, f, Symbol("", "variable", 0, d.type, d.dim))
     ELSE SetSignature(c, f, Symbol("", "void", 0, u64, 0))

ParseFnParameters(c, f) ==
  ParseResult(ParseMembers(ParseToken(c, "("), <<>>, "variable", ")"), f)

RECURSIVE AddParameters(_, _, _)
AddParameters(c, params, arity) ==
  IF params = <<>> THEN c
  ELSE AddParameters(AddSymbol(c, [Head(params) EXCEPT !.value = arity - @]),
                     Tail(params), arity)

RECURSIVE ParseFnStmts(_, _)
ParseFnStmts(c0, variable) ==
  LET c == Check(c0, c0.reachable, 40) IN
  CASE Token(c0) \in {"}", "none"} -> c0
    [] Token(c) = "const" -> ParseFnStmts(ParseConst(c), variable)
    [] Token(c) = "let" -> ParseFnStmts(ParseLet(c, variable), variable + 1)
    [] OTHER -> ParseFnStmts(Parse("stmt", c), variable)

EndFn(c) ==
  IF c.reachable THEN WriteReturn(Check(c, c.result.kind = "void", 41)) ELSE c

ParseFnBody(c, f) ==
  LET params == Tail(c.symbols[f].members)
      arity == Len(params)
      start == WriteFn(ParseToken(AddParameters(c, params, arity), "{"), arity)
      body == [start EXCEPT !.reachable = TRUE, !.inLoop = FALSE]
  IN CASE c.error # 0 -> c
       [] Token(c) = "[" -> ParseBytes(ReadToken(c), TRUE, "]")
       [] Token(c) = ";" -> [ReadToken(c) EXCEPT !.symbols[f].kind = "forward_fn",
                                                 !.symbols[f].value = NULL]
       [] OTHER -> ReadToken(EndFn(ParseFnStmts(body, arity + 1)))

\* The symbols of the function are dropped; the others may have changed.
ParseFnRest(c, f) == [ParseFnBody(c, f) EXCEPT !.symbols = [n \in DOMAIN c.symbols |-> @[n]]]

ParseFnNamed(c, f) == ParseFnRest(ParseFnParameters(AddOrResolve(c, f), f), f)

ParseFn(c) ==
  LET name == ParseToken(c, "fn") IN ParseFnNamed(ParseIdentifier(name), Token(name))

RECURSIVE ParseProgram(_)
ParseProgram(c) ==
  CASE Token(c) = "fn" -> ParseProgram(ParseFn(c))
    [] Token(c) = "struct" -> ParseProgram(ParseStruct(c))
    [] Token(c) = "static" -> ParseProgram(ParseStatic(c))
    [] Token(c) = "const" -> ParseProgram(ParseConst(c))
    [] OTHER -> Check(c, Token(c) = "end", 23)

\* Functions that are declared but never defined are accepted.
WrongCheckSymbols(c) == c

\* tc_check_symbols
CheckSymbols(c) ==
  Check(c, \A n \in DOMAIN c.symbols : c.symbols[n].kind # "forward_fn", 32)

Compile(source) == CheckSymbols(ParseProgram(Compiler(source)))
=============================================================================
