----------------------------- MODULE SockFilter -----------------------------
(***************************************************************************)
(* The socket filter of a capture on its way from a file to the kernel:    *)
(* dabba reads it (dabba/sock-filter.c), the message carries it, dabbad    *)
(* converts it (dabbad/sock-filter.c) and checks it                        *)
(* (libdabba/sock-filter.c) before it is attached, and converts it back    *)
(* when captures are listed.  The widths of the fields are parameters.     *)
(***************************************************************************)
EXTENDS Integers, Sequences, SequencesExt

CONSTANTS
    Word,      \* 2^32: k, and the arithmetic on instruction indices
    Short,     \* 2^16: code, and the length of a program
    Byte,      \* 2^8: jt and jf
    MemWords,  \* BPF_MEMWORDS: the scratch memory of a filter
    Text,      \* a line of the file that does not begin with a brace
    Malformed  \* a line with a brace that sscanf() cannot read

ASSUME WidthsAssumption ==
    /\ Word \in Nat \ {0}
    /\ Short \in Nat \ {0}
    /\ Byte \in Nat \ {0}
    /\ MemWords \in Nat
    /\ Byte + Short <= Word

(* An instruction in a message, all fields uint32, and in a sock_fprog. *)
Wire == [code : 0..(Word - 1), jt : 0..(Word - 1), jf : 0..(Word - 1),
         k : 0..(Word - 1)]
Native == [code : 0..(Short - 1), jt : 0..(Byte - 1), jf : 0..(Byte - 1),
           k : 0..(Word - 1)]

-----------------------------------------------------------------------------
(* Reading the file, and the conversions. *)

(* sock_filter_parse() fails at the first malformed line. *)
Readable(file) == Malformed \notin ToSet(file)

(* Lines that are no instructions are skipped; %d of a negative number wraps. *)
Parsed(file) == SelectSeq(file, LAMBDA line : line # Text)

(* Mutant: the two branches are exchanged. *)
ToNativeSwapped(prog) ==
    [n \in 1..(Len(prog) % Short) |->
        [code |-> prog[n].code % Short, jt |-> prog[n].jf % Byte,
         jf |-> prog[n].jt % Byte, k |-> prog[n].k]]

(* dabbad_pbuf_sfp_2_sfp(): code, jt, jf and the length lose their high bits. *)
ToNative(prog) ==
    [n \in 1..(Len(prog) % Short) |->
        [code |-> prog[n].code % Short, jt |-> prog[n].jt % Byte,
         jf |-> prog[n].jf % Byte, k |-> prog[n].k]]

(* dabbad_sfp_2_pbuf_sfp(): the fields of a message hold every value. *)
ToWire(prog) ==
    [n \in 1..Len(prog) |->
        [code |-> prog[n].code, jt |-> prog[n].jt, jf |-> prog[n].jf,
         k |-> prog[n].k]]

-----------------------------------------------------------------------------
(* ldab_sock_filter_is_valid(), one operator per case of its switch *)

(* BPF_CLASS, and what the other bits of a code stand for in each class *)
ClassOf(code) == code % 8
ModeOf(code) == (code \div 32) % 8
OpOf(code) == (code \div 16) % 16
ByConstant(code) == (code \div 8) % 2 = 0

LD == 0
LDX == 1
ST == 2
STX == 3
ALU == 4
JMP == 5
RET == 6
MEM == 3
DIV == 3
JA == 0

(* Immediate, packet, scratch memory and length loads. *)
ValidLoad(ins) ==
    /\ ModeOf(ins.code) \in 0..5
    /\ ModeOf(ins.code) = MEM => ins.k < MemWords

ValidStore(ins) == ins.k < MemWords

(* ADD to NEG; no division by the constant 0. *)
ValidAlu(ins) ==
    /\ OpOf(ins.code) \in 0..8
    /\ OpOf(ins.code) = DIV => ~(ByConstant(ins.code) /\ ins.k = 0)

(* Mutant: a jump right behind the end passes. *)
ValidJumpOffByOne(ins, n, len) ==
    \/ /\ OpOf(ins.code) = JA
       /\ (n + ins.k) % Word <= len
    \/ /\ OpOf(ins.code) \in 1..4
       /\ n + ins.jt <= len
       /\ n + ins.jf <= len

(***************************************************************************)
(* JA, or JEQ, JGT, JGE and JSET, at position n, counted from 1: the index *)
(* of the next instruction, counted from 0, is n.  It is a uint32_t, so    *)
(* n + k wraps; jt and jf are too small for that.                          *)
(***************************************************************************)
ValidJump(ins, n, len) ==
    \/ /\ OpOf(ins.code) = JA
       /\ (n + ins.k) % Word < len
    \/ /\ OpOf(ins.code) \in 1..4
       /\ n + ins.jt < len
       /\ n + ins.jf < len

ValidInstruction(ins, n, len) ==
    LET class == ClassOf(ins.code)
    IN  /\ class \in {LD, LDX} => ValidLoad(ins)
        /\ class \in {ST, STX} => ValidStore(ins)
        /\ class = ALU => ValidAlu(ins)
        /\ class = JMP => ValidJump(ins, n, len)

IsValid(prog) ==
    /\ prog # <<>>
    /\ \A n \in 1..Len(prog) : ValidInstruction(prog[n], n, Len(prog))
    /\ ClassOf(prog[Len(prog)].code) = RET

-----------------------------------------------------------------------------
(* Reference: what a filter does when it is run. *)

(* The positions that may follow position n; none after a return. *)
After(prog, n) ==
    LET ins == prog[n]
        class == ClassOf(ins.code)
    IN  IF class = RET THEN {}
        ELSE IF class # JMP THEN {n + 1}
        ELSE IF OpOf(ins.code) = JA THEN {((n + ins.k) % Word) + 1}
        ELSE {n + ins.jt + 1, n + ins.jf + 1}

(* Wherever it starts, the filter stays inside the program. *)
StaysInside(prog) ==
    \A n \in 1..Len(prog) : After(prog, n) \subseteq 1..Len(prog)

(* It goes forward only, so it returns after Len(prog) steps at most. *)
GoesForward(prog) ==
    \A n \in 1..Len(prog) : \A m \in After(prog, n) : m > n

(* It reads and writes inside the scratch memory, and divides by no constant 0. *)
UsesMemory(ins) ==
    \/ ClassOf(ins.code) \in {ST, STX}
    \/ ClassOf(ins.code) \in {LD, LDX} /\ ModeOf(ins.code) = MEM
OperandsFit(prog) ==
    \A n \in 1..Len(prog) :
        /\ UsesMemory(prog[n]) => prog[n].k < MemWords
        /\ ClassOf(prog[n].code) = ALU /\ OpOf(prog[n].code) = DIV /\ prog[n].k = 0
              => ~ByConstant(prog[n].code)

(* No unconditional jump wraps around. *)
NoWrap(prog) == \A n \in 1..Len(prog) : n + prog[n].k < Word

(* The message says nothing that a sock_fprog cannot hold. *)
Fits(prog) == prog \in Seq(Native) /\ Len(prog) < Short
=============================================================================
