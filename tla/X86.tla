-------------------------------- MODULE X86 --------------------------------
(* What the processor does with the instructions that functions are made of: how
   they are encoded, which address an operand names and which general registers
   they write.  Taken from the manual of the processor, not from the program.

   An instruction is a record of rows, empty for what it does not have:
     prefixes  bytes              rex     its four low bits, W R X B
     op        one or two bytes   modrm   a record of mod, reg and rm
     sib       a record of scale, index and base
     disp      bytes, the lowest first
     imm       bytes                                                          *)
EXTENDS Integers, Sequences, SequencesExt

RAX == 0
RCX == 1
RDX == 2
RSP == 4
Volatile == {0, 1, 2, 8, 9, 10, 11}    \* what a function may leave changed

Byte == 0..255

Rex(i, bit) == IF i.rex = << >> THEN 0 ELSE (i.rex[1] \div bit) % 2
Wide(i) == Rex(i, 8) = 1

Direct(i)    == i.modrm # << >> /\ i.modrm[1].mod = 3
HasMemory(i) == i.modrm # << >> /\ i.modrm[1].mod # 3
HasSib(i)    == HasMemory(i) /\ i.modrm[1].rm = 4

\* An operand without a base: an address relative to rip, or an absolute one.
Relative(i) == HasMemory(i) /\ i.modrm[1].mod = 0 /\ i.modrm[1].rm = 5
Baseless(i) == HasSib(i) /\ i.modrm[1].mod = 0 /\ i.sib[1].base = 5

DispLength(i) ==
  IF ~HasMemory(i) THEN 0
  ELSE IF i.modrm[1].mod = 1 THEN 1
       ELSE IF i.modrm[1].mod = 2 \/ Relative(i) \/ Baseless(i) THEN 4 ELSE 0

\* The prefixes of the instructions known here, the one-byte opcodes with ModRM,
\* and how many bytes of immediate there are.
KnownPrefixes == {\h66, \h67, \hF2, \hF3}
WithOperand   == {\h38, \h39, \h3A, \h3B, \h63, \h80, \h81, \h83, \h84, \h85,
                  \h88, \h89, \h8A, \h8B, \h8D, \hF6, \hF7, \hFF}
Jcc(i)        == i.op[1] = \h0F /\ i.op[2] \in \h80..\h8F
TakesModRM(i) == IF i.op[1] = \h0F THEN ~Jcc(i) ELSE i.op[1] \in WithOperand

Small == {\h80, \h83, \h04, \h0C, \h24, \h2C, \h34, \h3C, \hA8} \cup \h70..\h7F \cup \hB0..\hB7
Full  == {\h81, \h05, \h0D, \h25, \h2D, \h35, \h3D, \hA9}
ImmediateLength(i) ==
  LET op   == i.op[1]
      word == \h66 \in ToSet(i.prefixes) /\ ~Wide(i)
  IN  CASE op \in Small -> 1
        [] op \in Full -> IF word THEN 2 ELSE 4
        [] op = \hF6 -> IF i.modrm[1].reg < 2 THEN 1 ELSE 0
        [] op = \hF7 -> IF i.modrm[1].reg > 1 THEN 0 ELSE IF word THEN 2 ELSE 4
        [] op \in \hB8..\hBF -> IF Wide(i) THEN 8 ELSE IF word THEN 2 ELSE 4
        [] op = \hE8 \/ Jcc(i) -> 4
        [] OTHER -> 0

Optional(S) == {<< >>} \cup {<<x>> : x \in S}
RexParts   == Optional(0..15)
ModRMParts == Optional([mod : 0..3, reg : 0..7, rm : 0..7])
SibParts   == {<<x>> : x \in [scale : 0..3, index : 0..7, base : 0..7]}

\* The parts fit together; of an opcode that is not known here ModRM and the
\* immediate may be anything.
IsInstruction(i) ==
  /\ i.prefixes \in Seq(KnownPrefixes) /\ i.op \in Seq(Byte) /\ i.imm \in Seq(Byte) /\ i.disp \in Seq(Byte)
  /\ Len(i.op) = (IF i.op[1] = \h0F THEN 2 ELSE 1)
  /\ i.op[1] \notin KnownPrefixes \cup 64..79
  /\ i.rex \in RexParts /\ i.modrm \in ModRMParts
  /\ i.op[1] \in WithOperand => i.modrm # << >>
  /\ IF HasSib(i) THEN i.sib \in SibParts ELSE i.sib = << >>
  /\ Len(i.disp) = DispLength(i)

\* What holds of it when the opcode is.
IsFormed(i) == (i.modrm # << >> <=> TakesModRM(i)) /\ Len(i.imm) = ImmediateLength(i)

OperandLength(i) == Len(i.prefixes) + Len(i.rex) + Len(i.op) + Len(i.modrm) + Len(i.sib) + Len(i.disp)
Length(i) == OperandLength(i) + Len(i.imm)

Encoding(i) ==
  i.prefixes \o [k \in DOMAIN i.rex |-> 64 + i.rex[k]] \o i.op
    \o [k \in DOMAIN i.modrm |-> 64 * i.modrm[k].mod + 8 * i.modrm[k].reg + i.modrm[k].rm]
    \o [k \in DOMAIN i.sib |-> 64 * i.sib[k].scale + 8 * i.sib[k].index + i.sib[k].base]
    \o i.disp \o i.imm

\* Where each instruction of a row begins, and where the last one ends.
Starts(code) ==
  LET start[k \in 1..(Len(code) + 1)] ==
        IF k = 1 THEN 1 ELSE start[k - 1] + Length(code[k - 1])
  IN  start

\* The bytes are those of the instructions, which may go on behind them.
Assembled(bytes, code) ==
  /\ Starts(code)[Len(code) + 1] > Len(bytes)
  /\ \A k \in DOMAIN code : \A j \in DOMAIN Encoding(code[k]) :
       LET p == Starts(code)[k] + j - 1
       IN  p <= Len(bytes) => bytes[p] = Encoding(code[k])[j]

-----------------------------------------------------------------------------
(* Addresses. *)

Base(i) ==
  IF ~HasMemory(i) \/ Relative(i) \/ Baseless(i) THEN {}
  ELSE {(IF HasSib(i) THEN i.sib[1].base ELSE i.modrm[1].rm) + 8 * Rex(i, 1)}

\* The index 4 stands for none.
Index(i) == IF HasSib(i) THEN {i.sib[1].index + 8 * Rex(i, 2)} \ {RSP} ELSE {}

Signed(b) == IF b < 128 THEN b ELSE b - 256

Displacement(i) ==
  CASE Len(i.disp) = 1 -> Signed(i.disp[1])
    [] Len(i.disp) = 4 -> i.disp[1] + 256 * i.disp[2] + 65536 * i.disp[3] + 16777216 * Signed(i.disp[4])
    [] OTHER -> 0

\* The displacement at which an instruction reaches from what the registers hold.
Reached(i, holders) == IF (Base(i) \cup Index(i)) \cap holders = {} THEN {} ELSE {Displacement(i)}

-----------------------------------------------------------------------------
(* Registers. *)

RegOperand(i) == i.modrm[1].reg + 8 * Rex(i, 4)
RmOperand(i)  == i.modrm[1].rm + 8 * Rex(i, 1)
OpOperand(i)  == (i.op[1] % 8) + 8 * Rex(i, 1)

\* Without a REX prefix 4 to 7 name the second byte of the first four.
OfByte(i, r) == IF i.rex = << >> /\ r \in 4..7 THEN r - 4 ELSE r

\* Into the reg operand, into the rm operand, and those that only compare.
IntoReg == {\h63, \h8A, \h8B, \h8D}
IntoRm  == {\h80, \h81, \h83, \h88, \h89}
OnBytes == {\h80, \h88, \h8A, \hF6} \cup \hB0..\hB7
Accumulating == {\h04, \h05, \h0C, \h0D, \h24, \h25, \h2C, \h2D, \h34, \h35}

\* The registers that one of the instructions known here writes.
WholeOverwritten(i) ==
  LET op  == i.op[1]
      ext == i.modrm[1].reg
  IN  CASE op = \h0F -> IF i.op[2] \in {\hB6, \hB7, \hBE, \hBF} THEN {RegOperand(i)} ELSE {}
        [] op \in IntoReg -> {RegOperand(i)}
        [] op \in IntoRm  -> IF Direct(i) /\ ~(op < \h88 /\ ext = 7) THEN {RmOperand(i)} ELSE {}
        [] op \in \hB0..\hBF -> {OpOperand(i)}
        [] op \in \h50..\h57 -> {RSP}
        [] op \in \h58..\h5F -> {RSP, OpOperand(i)}
        [] op \in Accumulating -> {RAX}
        [] op = \hE8 -> Volatile
        [] op = \hFF -> (IF ext = 2 THEN Volatile ELSE {}) \cup (IF ext = 6 THEN {RSP} ELSE {})
                          \cup (IF ext \in {0, 1} /\ Direct(i) THEN {RmOperand(i)} ELSE {})
        [] op \in {\hF6, \hF7} -> (IF ext \in {2, 3} /\ Direct(i) THEN {RmOperand(i)} ELSE {})
                                    \cup (IF ext > 3 THEN {RAX} ELSE {})
                                    \cup (IF ext > 3 /\ op = \hF7 THEN {RDX} ELSE {})
        [] OTHER -> {}

Overwritten(i) == {IF i.op[1] \in OnBytes THEN OfByte(i, r) ELSE r : r \in WholeOverwritten(i)}

\* The registers that get the whole of what one of the others holds.
Copied(i, holders) ==
  LET op == i.op[1]
  IN  CASE op = \h8B /\ Direct(i) /\ Wide(i) /\ RmOperand(i) \in holders -> {RegOperand(i)}
        [] op = \h89 /\ Direct(i) /\ Wide(i) /\ RegOperand(i) \in holders -> {RmOperand(i)}
        [] op = \h8D /\ Wide(i) /\ Index(i) = {} /\ Displacement(i) = 0 -> IF Base(i) \cap holders = {} THEN {} ELSE {RegOperand(i)}
        [] OTHER -> {}

\* The registers that hold a value behind an instruction.
AfterIt(i, holders) == (holders \ Overwritten(i)) \cup Copied(i, holders)

\* The registers that hold what RCX held at the start, before each instruction
\* of a row; what comes back from memory does not count.
Holders(code) ==
  LET held[k \in 1..(Len(code) + 1)] ==
        IF k = 1 THEN {RCX}
        ELSE AfterIt(code[k - 1], held[k - 1])
  IN  held
=============================================================================
