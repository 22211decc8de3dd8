---------------------------- MODULE MemberLayouts ----------------------------
(* src/analyze-members.cpp: the offsets at which the virtual functions of a class
   access members, read off their first bytes by a decoder that knows some
   instructions, passes over others, and ends at the rest.

   Registers have their numbers.  What lies behind the last byte reads as 0: it
   never makes an access, and the position is behind the end all the same.    *)
EXTENDS Integers, Sequences, SequencesExt, FiniteSets, FiniteSetsExt, X86

ThisRegister == 1                          \* RCX
CallerSaved  == {0, 1, 2, 8, 9, 10, 11}    \* invalidate_caller_saved
MaxOffset    == \h4000
AnyByte      == 256                        \* in a pattern, any byte

StubBytes ==
  {<<\hC3>>, <<\hCC>>, <<\h33, \hC0, \hC3>>, <<\h32, \hC0, \hC3>>, <<\hB0, AnyByte, \hC3>>,
   <<\h0F, \h57, \hC0, \hC3>>, <<\hB8, AnyByte, AnyByte, AnyByte, AnyByte, \hC3>>,
   <<\h48, \h8D, \h05, AnyByte, AnyByte, AnyByte, AnyByte, \hC3>>}

is_stub(bytes) ==
  bytes = << >> \/ \E p \in StubBytes : /\ Len(p) <= Len(bytes)
                                        /\ \A k \in DOMAIN p : p[k] \in {AnyByte, bytes[k]}

-----------------------------------------------------------------------------
(* The parts of an instruction. *)

ByteAt(bytes, p) == IF p \in DOMAIN bytes THEN bytes[p] ELSE 0

PrefixBytes == {\h66, \h67, \hF2, \hF3}

\* The prefixes from pos on, the REX byte if one follows, and where the opcode is.
HeadAt(bytes, pos) ==
  LET past == CHOOSE p \in pos..(Len(bytes) + 1) :
                /\ \A q \in pos..(p - 1) : bytes[q] \in PrefixBytes
                /\ p = Len(bytes) + 1 \/ bytes[p] \notin PrefixBytes
      rex  == IF ByteAt(bytes, past) \div 16 = 4 THEN bytes[past] % 16 ELSE 0
  IN  [prefixes |-> {bytes[q] : q \in pos..(past - 1)},
       wide     |-> rex \div 8 = 1,
       r        |-> 8 * ((rex \div 4) % 2),
       b        |-> 8 * (rex % 2),
       at       |-> IF ByteAt(bytes, past) \div 16 = 4 THEN past + 1 ELSE past]

\* ModRM and SIB, of which only the base counts; next is where they end.
Operand(bytes, head, m) ==
  LET modrm == ByteAt(bytes, m)
      sib   == modrm \div 64 # 3 /\ modrm % 8 = 4
  IN  [mod  |-> modrm \div 64,
       ext  |-> (modrm \div 8) % 8,
       reg  |-> ((modrm \div 8) % 8) + head.r,
       base |-> (IF sib THEN ByteAt(bytes, m + 1) % 8 ELSE modrm % 8) + head.b,
       rip  |-> modrm \div 64 = 0 /\ modrm % 8 = 5,
       next |-> IF sib THEN m + 2 ELSE m + 1]

DispSize(o) == IF o.mod = 1 THEN 1 ELSE IF o.mod = 2 THEN 4 ELSE 0

\* The member an operand names: a positive displacement that is not too large.
MemberAt(bytes, o) ==
  LET p == o.next
  IN  IF p + DispSize(o) - 1 > Len(bytes) THEN {}
      ELSE CASE o.mod = 1 -> {bytes[p]} \cap 1..127
             [] o.mod = 2 /\ bytes[p + 2] = 0 /\ bytes[p + 3] = 0 ->
                  {bytes[p] + 256 * bytes[p + 1]} \cap 1..(MaxOffset - 1)
             [] OTHER -> {}

Accessed(bytes, regs, o, size, kinds) ==
  {[offset |-> d, size |-> size, access |-> kinds] : d \in IF o.base \in regs THEN MemberAt(bytes, o) ELSE {}}

-----------------------------------------------------------------------------
(* decode_function, one round of its loop for each sort of opcode.  The state has
   the position, the registers that are taken to hold this, and the accesses.  *)

Moved(st, pos, regs, accesses) == [pos |-> pos, regs |-> regs, accesses |-> st.accesses \cup accesses]

IsFloatMove(head, op2) == op2 \in {\h10, \h11, \h28, \h29, \h2E, \h2F} \/ (op2 \in {\h6F, \h7F} /\ \h66 \in head.prefixes)

\* A MOVDQA with a long displacement is taken to have 4 bytes.
FloatSize(head, op2, mod) ==
  IF \/ op2 \in {\h10, \h11} /\ {\hF2, \hF3} \cap head.prefixes = {}
     \/ op2 \in {\h28, \h29}
     \/ op2 \in {\h6F, \h7F} /\ mod = 1
  THEN 16 ELSE IF \hF2 \in head.prefixes THEN 8 ELSE 4

FloatMove(bytes, st, head, op2, m) ==
  LET o == Operand(bytes, head, m)
  IN  Moved(st, o.next + DispSize(o), st.regs,
           Accessed(bytes, st.regs, o, FloatSize(head, op2, o.mod),
                    {"float", IF op2 \in {\h11, \h29, \h7F} THEN "write" ELSE "read"}))

\* MOVZX and MOVSX.
Widen(bytes, st, head, op2, m) ==
  LET o == Operand(bytes, head, m)
  IN  Moved(st, o.next + DispSize(o), st.regs \ {o.reg},
           Accessed(bytes, st.regs, o, IF op2 \in {\hB6, \hBE} THEN 1 ELSE 2, {"read"}))

\* Any other two bytes: an operand in memory is passed over, a ModRM byte that
\* names registers is not.
Unknown0F(bytes, st, head, m) ==
  LET o == Operand(bytes, head, m)
  IN  Moved(st, IF m > Len(bytes) \/ o.mod = 3 THEN m ELSE o.next + DispSize(o) + (IF o.rip THEN 4 ELSE 0), st.regs, {})

TwoBytes(bytes, st, head) ==
  LET m   == head.at + 2
      op2 == ByteAt(bytes, m - 1)
  IN  IF op2 \in \h80..\h8F THEN Moved(st, m + 4, st.regs, {})
      ELSE IF IsFloatMove(head, op2) THEN FloatMove(bytes, st, head, op2, m)
      ELSE IF op2 \in {\hB6, \hB7, \hBE, \hBF} THEN Widen(bytes, st, head, op2, m)
      ELSE Unknown0F(bytes, st, head, m)

Moves    == {\h88, \h89, \h8A, \h8B}
Compares == {\h38, \h39, \h3A, \h3B, \h84, \h85}
Group1   == \h80..\h83
HasModRM(head, op) == op \in Moves \cup Compares \cup Group1 \cup {\h8D} \/ (op = \h63 /\ head.wide)

\* Variant: the immediate has one byte in all of the group.
ShortImmediate(op) == IF op \in Group1 THEN 1 ELSE 0

Immediate(op) == IF op = \h81 THEN 4 ELSE IF op \in Group1 THEN 1 ELSE 0

OperandSize(head, op) ==
  IF op \in {\h88, \h8A, \h38, \h3A, \h84, \h80} THEN 1
  ELSE IF op = \h63 THEN 4
  ELSE IF head.wide THEN 8 ELSE IF \h66 \in head.prefixes THEN 2 ELSE 4

Copy(regs, from, to) == IF from \in regs THEN regs \cup {to} ELSE regs \ {to}

OneByte(bytes, st, head, op) ==
  LET o       == Operand(bytes, head, head.at + 1)
      compare == op \in Compares \/ (op \in Group1 /\ o.ext = 7)
      write   == op \in {\h88, \h89} \/ (op \in Group1 /\ o.ext # 7)
      lea     == op = \h8D
      kinds   == IF lea THEN {"ref"} ELSE IF compare THEN {"compare", "read"}
                 ELSE IF write THEN {"write"} ELSE {"read"}
      direct  == IF op \in {\h8A, \h8B} THEN Copy(st.regs, o.base, o.reg)
                 ELSE IF op \in {\h88, \h89} THEN Copy(st.regs, o.reg, o.base)
                 ELSE IF compare \/ lea THEN st.regs
                 ELSE st.regs \ {IF write THEN o.base ELSE o.reg}
      loaded  == IF write \/ compare \/ (lea /\ (o.base \notin st.regs \/ o.mod = 0)) THEN st.regs
                 ELSE st.regs \ {o.reg}
  IN  IF o.mod = 3 THEN Moved(st, o.next + Immediate(op), direct, {})
      ELSE IF o.rip THEN Moved(st, o.next + 4 + Immediate(op), st.regs, {})
      ELSE Moved(st, o.next + DispSize(o) + Immediate(op), loaded,
                Accessed(bytes, st.regs, o, OperandSize(head, op), kinds))

PassedOpcodes == {\hF6, \hF7, \hFF}

\* What these access is not reported, and of what they write only the registers
\* that a call may change are forgotten.
Passed(bytes, st, head, op) ==
  LET o    == Operand(bytes, head, head.at + 1)
      next == o.next + DispSize(o) + (IF o.rip THEN 4 ELSE 0)
  IN  IF op = \hFF /\ o.ext = 4 THEN Moved(st, Len(bytes) + 1, st.regs, {})
      ELSE IF op = \hFF THEN Moved(st, next, IF o.ext = 2 THEN st.regs \ CallerSaved ELSE st.regs, {})
      ELSE Moved(st, next + (IF o.ext # 0 THEN 0 ELSE IF op = \hF6 THEN 1 ELSE 4), st.regs, {})

\* Opcodes without an operand in memory: how many bytes follow.
Following(head, op) ==
  CASE op \in \h50..\h5F \cup {\h90} -> 0
    [] op \in \h70..\h7F \cup \hB0..\hB7 \cup {\h04, \h0C, \h24, \h2C, \h34, \h3C, \hA8} -> 1
    [] op \in {\h05, \h0D, \h25, \h2D, \h35, \h3D, \hA9, \hE8} -> 4
    [] op \in \hB8..\hBF -> IF head.wide THEN 8 ELSE 4
PlainOpcodes ==
  \h50..\h5F \cup \h70..\h7F \cup \hB0..\hBF \cup {\h90, \hE8}
    \cup {\h04, \h05, \h0C, \h0D, \h24, \h25, \h2C, \h2D, \h34, \h35, \h3C, \h3D, \hA8, \hA9}

Simple(st, head, op) ==
  Moved(st, head.at + 1 + Following(head, op),
       IF op = \hE8 THEN st.regs \ CallerSaved
       ELSE IF op \in \hB8..\hBF THEN st.regs \ {op - \hB8 + head.b}
       ELSE st.regs,
       {})

\* "If we can't decode, bail out": so do a return, a jump and a breakpoint.
Round(bytes, st) ==
  LET head == HeadAt(bytes, st.pos)
      op   == ByteAt(bytes, head.at)
  IN  IF op = \h0F THEN TwoBytes(bytes, st, head)
      ELSE IF HasModRM(head, op) THEN OneByte(bytes, st, head, op)
      ELSE IF op \in PassedOpcodes THEN Passed(bytes, st, head, op)
      ELSE IF op \in PlainOpcodes THEN Simple(st, head, op)
      ELSE Moved(st, Len(bytes) + 1, st.regs, {})

\* The loop goes on while there are bytes.
GoOn(bytes, st) == IF st.pos > Len(bytes) THEN st ELSE Round(bytes, st)

decode_function(bytes) ==
  LET st[n \in 0..Len(bytes)] ==
        IF n = 0 THEN [pos |-> 1, regs |-> {ThisRegister}, accesses |-> {}]
        ELSE GoOn(bytes, st[n - 1])
  IN  st[Len(bytes)].accesses

-----------------------------------------------------------------------------
(* The accesses of each function, by offset. *)
Merged(accesses) ==
  LET all == UNION {accesses[i] : i \in DOMAIN accesses}
  IN  [o \in {a.offset : a \in all} |->
         [size   |-> Max({a.size : a \in {x \in all : x.offset = o}}),
          access |-> UNION {a.access : a \in {x \in all : x.offset = o}},
          funcs  |-> {i \in DOMAIN accesses : \E a \in accesses[i] : a.offset = o}]]

\* analyze_class: stubs are passed over.
analyze_class(functions) ==
  Merged([i \in {j \in DOMAIN functions : ~is_stub(functions[j].bytes)} |-> decode_function(functions[i].bytes)])

\* process_module: classes without an access are left out.
NonEmpty(layouts) == [c \in {x \in DOMAIN layouts : layouts[x] # << >>} |-> layouts[c]]
LayoutsOf(vtables) ==
  NonEmpty([c \in {v.class : v \in vtables} |-> analyze_class((CHOOSE v \in vtables : v.class = c).functions)])

-----------------------------------------------------------------------------
(* What a function accesses, by the instructions that its bytes are made of, and
   the instructions of which the analysis makes what they are.                 *)

\* It ends at an opcode it does not know, a return and a jump among them.
Ends(i) ==
  LET op == i.op[1]
  IN  \/ op \notin {\h0F, \h82} \cup WithOperand \cup PlainOpcodes
      \/ op = \h63 /\ ~Wide(i)
      \/ op = \hFF /\ i.modrm[1].reg = 4

\* A register that holds this stays as it is.
Untouched(i, holders) == Overwritten(i) \cap holders = {}

MembersOf(i, holders) == Reached(i, holders) \cap 1..(MaxOffset - 1)

\* A whole register may be copied; of a part the analysis takes it for a copy.
CopiesWhole(i, holders) ==
  LET op == i.op[1]
  IN  ~(op \in {\h89, \h8B} /\ Wide(i))
        => /\ op \in {\h8A, \h8B} => RmOperand(i) \notin holders
           /\ op \in {\h88, \h89} => RegOperand(i) \notin holders

\* The address that lea yields is not this again.
OtherAddress(i, holders) ==
  /\ HasMemory(i) /\ Copied(i, holders) = {}
  /\ Untouched(i, holders) \/ (i.modrm[1].mod # 0 /\ Base(i) \cap holders # {})

Opcode0FFollowed(i) ==
  \/ Jcc(i)
  \/ /\ ~Relative(i)
     /\ \/ i.op[2] \in {\h10, \h11, \h28, \h29, \h2E, \h2F, \hB6, \hB7, \hBE, \hBF}
        \/ i.op[2] \in {\h6F, \h7F} /\ \h66 \in ToSet(i.prefixes)

OperandFollowed(i, holders) ==
  /\ Relative(i) => Untouched(i, holders)
  /\ Direct(i) => CopiesWhole(i, holders)
  /\ i.op[1] \in OnBytes => Overwritten(i) = WholeOverwritten(i)
  /\ i.op[1] = \h8D => OtherAddress(i, holders)

\* What FF, F6 and F7 access is not reported.
PassedFollowed(i, holders) ==
  /\ MembersOf(i, holders) = {}
  /\ i.op[1] # \hFF => i.modrm[1].reg # 1
  /\ (i.op[1] = \hFF /\ i.modrm[1].reg = 2) \/ Untouched(i, holders)

SimpleFollowed(i, holders) ==
  /\ i.op[1] \in PlainOpcodes
  /\ i.op[1] \in \hB8..\hBF \cup {\hE8} \/ Untouched(i, holders)
  /\ i.op[1] = \h90 => i.rex = << >>

\* No operand is indexed by this or goes without a base, no address has 32 bits
\* and no immediate 16.
Followed(i, holders) ==
  /\ IsFormed(i) /\ \h67 \notin ToSet(i.prefixes)
  /\ Index(i) \cap holders = {} /\ ~Baseless(i) /\ Len(i.imm) # 2
  /\ CASE i.op[1] = \h0F -> Opcode0FFollowed(i)
       [] i.op[1] \in PassedOpcodes -> PassedFollowed(i, holders)
       [] i.op[1] \in WithOperand \ PassedOpcodes -> OperandFollowed(i, holders)
       [] OTHER -> SimpleFollowed(i, holders)

\* The instructions that begin within the bytes, up to the one at which it ends.
Begun(bytes, code) ==
  {k \in DOMAIN code : \A j \in 1..k : Starts(code)[j] <= Len(bytes) /\ (j < k => ~Ends(code[j]))}
Run(bytes, code) == {k \in Begun(bytes, code) : ~Ends(code[k])}

AllFollowed(bytes, code) ==
  /\ \A k \in Begun(bytes, code) : IsInstruction(code[k])
  /\ \A k \in Run(bytes, code) : Followed(code[k], Holders(code)[k])

\* Of an instruction that is cut off the operand must be there.
MembersAccessed(bytes, code) ==
  UNION {MembersOf(code[k], Holders(code)[k]) :
           k \in {x \in Run(bytes, code) : Starts(code)[x] + OperandLength(code[x]) - 1 <= Len(bytes)}}
=============================================================================
