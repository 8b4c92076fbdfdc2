----------------------------- MODULE ToyMachine -----------------------------
(***************************************************************************)
(* The processor: the instructions of x86-64 that the code written by the  *)
(* compiler can contain, decoded from their bytes.  An integer, as a       *)
(* register, has Bits bits.  Memory is made of words at multiples of 8;    *)
(* the stack grows down from the word StackTop, which holds the return     *)
(* address of the first function, and byte i of the code is at CodeBase    *)
(* + i.                                                                    *)
(***************************************************************************)
EXTENDS Integers, Sequences, TLC

LOCAL B == INSTANCE Bitwise

CONSTANTS
  Bits,      \* 64
  StackTop,  \* the first word of the stack; the words above hold structures
  MemoryTop, \* the last word of the memory
  CodeBase,  \* where the code is
  JUNK       \* what registers and words hold before they are written

MachineAssumption ==
  /\ Bits \in Nat \ {0}
  /\ StackTop \in Nat \ {0} /\ StackTop % 8 = 0
  /\ MemoryTop >= StackTop /\ MemoryTop % 8 = 0
  /\ CodeBase \in MemoryTop + 8 .. 2 ^ Bits - 1
  /\ JUNK \in 0 .. 2 ^ Bits - 1

ASSUME MachineAssumption

HALT == 0  \* the return address of the first function

Registers == 0 .. 15
RAX == 0
RCX == 1
RDX == 2
RSP == 4
R8 == 8

\* The value of x op y; the count of a shift is taken modulo Bits.
Arithmetic(op, x, y) ==
  CASE op = "+" -> (x + y) % 2 ^ Bits
    [] op = "-" -> (x - y) % 2 ^ Bits
    [] op = "*" -> (x * y) % 2 ^ Bits
    [] op = "/" -> x \div y
    [] op = "&" -> B!&(x, y)
    [] op = "|" -> B!|(x, y)
    [] op = "<<" -> (x * 2 ^ (y % Bits)) % 2 ^ Bits
    [] op = ">>" -> x \div 2 ^ (y % Bits)

Holds(op, x, y) ==
  CASE op = "<" -> x < y [] op = "==" -> x = y [] op = ">" -> x > y
    [] op = "<=" -> x <= y [] op = "!=" -> x # y [] op = ">=" -> x >= y

ArithmeticOps == {"+", "-", "*", "/", "&", "|", "<<", ">>"}
ComparisonOps == {"<", "==", ">", "<=", "!=", ">="}

-----------------------------------------------------------------------------
(***************************************************************************)
(* Decoding.  An operand is a register, or the memory at a register, or at *)
(* the next instruction, plus a displacement.                              *)
(***************************************************************************)
Byte(code, at) == IF at \in DOMAIN code THEN code[at] ELSE \h06  \* no instruction

Signed8(b) == IF b >= 128 THEN b - 256 ELSE b
Signed32(code, at) ==
  Byte(code, at) + 256 * Byte(code, at + 1) + 65536 * Byte(code, at + 2)
    + 16777216 * Signed8(Byte(code, at + 3))

\* A prefix 0100WR0B: R and B are the high bits of two registers.
IsRex(b) == b \in \h40 .. \h4f
RexR(rex) == 8 * ((rex \div 4) % 2)
RexB(rex) == 8 * (rex % 2)

\* mod = 0 and rm = 5 is not the register 5, nor 13: it is relative to rip.
Operand(kind, reg, base, disp, size) ==
  [kind |-> kind, reg |-> reg, base |-> base, disp |-> disp, size |-> size]

Displaced(code, at, mod, rm, reg, base, size) ==
  CASE mod = 3 -> Operand("register", reg, base, 0, size)
    [] mod = 0 /\ rm = 5 -> Operand("rip", reg, 0, Signed32(code, at), size + 4)
    [] mod = 0 -> Operand("memory", reg, base, 0, size)
    [] mod = 1 -> Operand("memory", reg, base, Signed8(Byte(code, at)), size + 1)
    [] mod = 2 -> Operand("memory", reg, base, Signed32(code, at), size + 4)

\* The operand whose first byte b is at an address; a second byte gives the
\* base when rm = 4.
ModRM(code, at, b, rex) ==
  LET reg == ((b \div 8) % 8) + RexR(rex)
  IN IF b \div 64 # 3 /\ b % 8 = 4
       THEN Displaced(code, at + 2, b \div 64, 4, reg, (Byte(code, at + 1) % 8) + RexB(rex), 2)
       ELSE Displaced(code, at + 1, b \div 64, b % 8, reg, (b % 8) + RexB(rex), 1)

Insn(op, operand, n, next) == [op |-> op, m |-> operand, n |-> n, next |-> next]
InRegister(r) == Operand("register", 0, r, 0, 0)
Invalid(at) == Insn("invalid", InRegister(0), 0, at)

OperandOps ==
  (\h03 :> "+") @@ (\h2b :> "-") @@ (\h23 :> "&") @@ (\h0b :> "|") @@ (\h31 :> "xor")
    @@ (\h39 :> "cmp") @@ (\h89 :> "write") @@ (\h8b :> "read") @@ (\h8d :> "lea")
    @@ (\hf7 :> "div") @@ (\hd3 :> "shift") @@ (\h83 :> "add8") @@ (\h81 :> "add32")
ExtendedOps == (\haf :> "*") @@ (\hb6 :> "byte")
JumpOps ==
  (\h82 :> "<") @@ (\h84 :> "==") @@ (\h87 :> ">") @@ (\h86 :> "<=") @@ (\h85 :> "!=")
    @@ (\h83 :> ">=")

WithOperand(code, op, m, next) ==
  CASE op = "add8" -> Insn("add", m, Signed8(Byte(code, next)), next + 1)
    [] op = "add32" -> Insn("add", m, Signed32(code, next), next + 4)
    [] OTHER -> Insn(op, m, 0, next)

DecodeOperand(code, op, m, at) == WithOperand(code, op, m, at + m.size)

\* The instruction with an opcode before an address.
DecodeOpcode(code, opcode, second, at, rex) ==
  CASE opcode \in DOMAIN OperandOps ->
         DecodeOperand(code, OperandOps[opcode], ModRM(code, at, second, rex), at)
    [] opcode = \h0f /\ second \in DOMAIN ExtendedOps ->
         DecodeOperand(code, ExtendedOps[second],
                       ModRM(code, at + 1, Byte(code, at + 1), rex), at + 1)
    [] opcode = \h0f /\ second \in DOMAIN JumpOps ->
         Insn(JumpOps[second], InRegister(0), Signed32(code, at + 1), at + 5)
    [] opcode \in \h50 .. \h57 -> Insn("push", InRegister((opcode % 8) + RexB(rex)), 0, at)
    [] opcode \in \h58 .. \h5f -> Insn("pop", InRegister((opcode % 8) + RexB(rex)), 0, at)
    [] opcode \in \hb8 .. \hbf ->
         Insn("cst", InRegister((opcode % 8) + RexB(rex)), Signed32(code, at), at + 4)
    [] opcode = \hc3 -> Insn("ret", InRegister(0), 0, at)
    [] opcode = \he8 -> Insn("call", InRegister(0), Signed32(code, at), at + 4)
    [] opcode = \he9 -> Insn("jmp", InRegister(0), Signed32(code, at), at + 4)
    [] OTHER -> Invalid(at)

DecodeFrom(code, at, rex) == DecodeOpcode(code, Byte(code, at), Byte(code, at + 1), at + 1, rex)

\* The instruction at an address.
Decode(code, pc) ==
  IF IsRex(Byte(code, pc)) THEN DecodeFrom(code, pc + 1, Byte(code, pc))
  ELSE DecodeFrom(code, pc, 0)

-----------------------------------------------------------------------------
(***************************************************************************)
(* Execution.                                                              *)
(***************************************************************************)
Machine(entry, arguments, memory) ==
  [pc |-> entry, status |-> "running", compared |-> <<0, 0>>,
   registers |-> [r \in Registers |->
                    CASE r = RSP -> StackTop
                      [] r - R8 \in 0 .. Len(arguments) - 1 -> arguments[r - R8 + 1]
                      [] OTHER -> JUNK],
   memory |-> [a \in {8 * k : k \in 0 .. MemoryTop \div 8} |->
                 CASE a \in DOMAIN memory -> memory[a] [] a = StackTop -> HALT [] OTHER -> JUNK]]

Stop(m, status) == [m EXCEPT !.status = status]
Put(m, r, v) == [m EXCEPT !.registers[r] = v]

\* The address of an operand in memory.
Effective(m, insn) ==
  IF insn.m.kind = "rip" THEN CodeBase + insn.next + insn.m.disp
  ELSE (m.registers[insn.m.base] + insn.m.disp) % 2 ^ Bits

Read(m, insn, address) ==
  IF insn.m.kind = "register" THEN m.registers[insn.m.base] ELSE m.memory[address]

PutOperand(m, insn, address, v) ==
  IF insn.m.kind = "register" THEN Put(m, insn.m.base, v) ELSE [m EXCEPT !.memory[address] = v]

Pushed(m, v) ==
  [m EXCEPT !.memory[m.registers[RSP] - 8] = v, !.registers[RSP] = @ - 8]
Popped(m) == [m EXCEPT !.registers[RSP] = @ + 8]

\* m is at the next instruction; x is the operand, r the register of insn.
Operate(m, insn, address, x, r) ==
  CASE insn.op \in ArithmeticOps -> Put(m, r, Arithmetic(insn.op, m.registers[r], x))
    [] insn.op = "xor" -> PutOperand(m, insn, address, B!^^(x, m.registers[r]))
    [] insn.op = "cmp" -> [m EXCEPT !.compared = <<x, m.registers[r]>>]
    [] insn.op = "read" -> Put(m, r, x)
    [] insn.op = "write" -> PutOperand(m, insn, address, m.registers[r])
    [] insn.op = "add" /\ r % 8 = 0 -> PutOperand(m, insn, address, (x + insn.n) % 2 ^ Bits)
    [] insn.op = "shift" /\ r % 8 = 4 ->
         PutOperand(m, insn, address, Arithmetic("<<", x, m.registers[RCX]))
    [] insn.op = "shift" /\ r % 8 = 5 ->
         PutOperand(m, insn, address, Arithmetic(">>", x, m.registers[RCX]))
    [] insn.op = "div" /\ r % 8 = 6 /\ m.registers[RDX] = 0 ->
         IF x = 0 THEN Stop(m, "trap")
         ELSE Put(Put(m, RDX, m.registers[RAX] % x), RAX, m.registers[RAX] \div x)
    [] OTHER -> Stop(m, "fault")

\* m is at the next instruction.
Execute(m, insn, code, address) ==
  LET sp == m.registers[RSP]
  IN CASE insn.op = "lea" -> Put(m, insn.m.reg, address)
       [] insn.op = "byte" -> Put(m, insn.m.reg, code[address - CodeBase])
       [] insn.op = "cst" -> Put(m, insn.m.base, insn.n)
       [] insn.op = "push" -> Pushed(m, m.registers[insn.m.base])
       [] insn.op = "pop" -> Put(Popped(m), insn.m.base, m.memory[sp])
       [] insn.op = "call" -> Pushed([m EXCEPT !.pc = @ + insn.n], CodeBase + m.pc)
       [] insn.op = "ret" ->
            IF m.memory[sp] = HALT THEN Stop(Popped(m), "done")
            ELSE [Popped(m) EXCEPT !.pc = m.memory[sp] - CodeBase]
       [] insn.op = "jmp" -> [m EXCEPT !.pc = @ + insn.n]
       [] insn.op \in ComparisonOps ->
            IF Holds(insn.op, m.compared[1], m.compared[2]) THEN [m EXCEPT !.pc = @ + insn.n]
            ELSE m
       [] OTHER -> Operate(m, insn, address, Read(m, insn, address), insn.m.reg)

\* The words that an instruction accesses exist, and the byte of the code.
Accessible(m, insn, code, address) ==
  CASE insn.op \in {"push", "call"} -> m.registers[RSP] - 8 \in DOMAIN m.memory
    [] insn.op \in {"pop", "ret"} -> m.registers[RSP] \in DOMAIN m.memory
    [] insn.op = "byte" -> address - CodeBase \in DOMAIN code
    [] insn.op = "lea" \/ insn.m.kind = "register" -> TRUE
    [] OTHER -> address \in DOMAIN m.memory

StepAt(code, m, insn, address) ==
  IF insn.op # "invalid" /\ Accessible(m, insn, code, address)
    THEN Execute([m EXCEPT !.pc = insn.next], insn, code, address)
    ELSE Stop(m, "fault")

StepInsn(code, m, insn) == StepAt(code, m, insn, Effective(m, insn))

RECURSIVE RunCode(_, _, _)
RunCode(code, m, fuel) ==
  IF m.status # "running" \/ fuel = 0 THEN m
  ELSE RunCode(code, StepInsn(code, m, Decode(code, m.pc)), fuel - 1)
=============================================================================
