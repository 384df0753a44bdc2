--------------------------------- MODULE MIPS ---------------------------------
(***************************************************************************)
(* The instruction set as src/src/mips.h, the decode switch of            *)
(* PipeState::pipeStageDecode and the arithmetic switch of                 *)
(* PipeState::pipeStageExecute define it.  Operators only: the modules ISA *)
(* (one instruction per step) and Pipeline (five stages) share them, so    *)
(* they agree on what an instruction computes and differ in WHEN.          *)
(*                                                                         *)
(* Data abstraction.  The 32-bit word is a number of Word and one address  *)
(* unit is one word, so "pc + 4" is (pc + 1) % WordSize.  The R-type and   *)
(* I-type arithmetic instructions are one kind, "alu", whose result is the *)
(* constant operator Alu.  HI and LO are one register, HILO.               *)
(***************************************************************************)
EXTENDS Integers

CONSTANTS
  WordSize,          \* number of words: 2^32 / 4 in the program
  NumRegs,           \* 32 in the program
  V0,                \* the register SYSCALL reads, R2
  RA,                \* the link register, R31
  ExitCode,          \* the value of V0 that ends the run, 0xA
  StartPC,           \* 0x00400000
  Alu(_, _, _, _),   \* what an arithmetic instruction computes
  Mul(_, _)          \* what MULT, MULTU, DIV, DIVU leave in HI and LO

Word == 0 .. (WordSize - 1)
Regs == 0 .. (NumRegs - 1)
NoReg == -1          \* Pipe_Op.reg_src1, reg_src2, reg_dst when there is none

ASSUME MIPSAssumption ==
  /\ WordSize \in Nat \ {0}
  /\ NumRegs \in Nat \ {0}
  /\ V0 \in Regs \ {0}
  /\ RA \in Regs \ {0}
  /\ ExitCode \in Word
  /\ StartPC \in Word

\* The operations within a kind: SUBOP_*, BROP_* and the I-type opcodes.
AluFns == {"sll", "srl", "sra", "sllv", "srlv", "srav", "add", "sub", "and",
           "or", "xor", "nor", "slt", "sltu", "lui"}
Conditions == {"beq", "bne", "blez", "bgtz", "bltz", "bgez"}
Fns == AluFns \cup Conditions \cup {"jr", "jalr", "-"}

ASSUME AluAssumption ==
  /\ \A fn \in AluFns, a, b, imm \in Word : Alu(fn, a, b, imm) \in Word
  /\ \A a, b \in Word : Mul(a, b) \in Word

(***************************************************************************)
(* An instruction after decoding: its operation, its registers and its     *)
(* immediate.  "jump" is J and JAL (dst = RA), "branch" the conditional    *)
(* branches, with link when dst = RA, "jumpreg" JR and JALR.               *)
(***************************************************************************)
Kinds == {"alu", "mult", "mfhilo", "mthilo", "load", "store", "branch",
          "jump", "jumpreg", "syscall", "other"}

Instruction ==
  {i \in [kind : Kinds, fn : Fns, src1 : Regs \cup {NoReg},
          src2 : Regs \cup {NoReg}, dst : Regs \cup {NoReg}, imm : Word] :
     /\ i.kind = "alu" => i.fn \in AluFns
     /\ i.kind = "branch" => i.fn \in Conditions
     /\ i.fn = "jalr" => i.kind = "jumpreg"
     /\ i.kind = "store" => i.src2 \in Regs
     /\ i.kind \in {"store", "other"} => i.dst = NoReg}

\* The word 0, which malloc + memset leaves in an op: SLL R0, R0, 0.
Nop == [kind |-> "alu", fn |-> "sll", src1 |-> 0, src2 |-> 0, dst |-> 0,
        imm |-> 0]

IsMem(i) == i.kind \in {"load", "store"}
IsStore(i) == i.kind = "store"
IsBranch(i) == i.kind \in {"branch", "jump", "jumpreg"}

\* Mutant: no uint32_t wrap-around.
NextPCUnwrapped(pc) == pc + 1

NextPC(pc) == (pc + 1) % WordSize

\* The comparisons are on int32_t: the upper half of Word is negative.
Negative(v) == v >= (WordSize + 1) \div 2

ConditionHolds(fn, a, b) ==
  CASE fn = "beq" -> a = b
    [] fn = "bne" -> a # b
    [] fn = "bltz" -> Negative(a)
    [] fn = "bgez" -> ~Negative(a)
    [] fn = "blez" -> Negative(a) \/ a = 0
    [] fn = "bgtz" -> ~(Negative(a) \/ a = 0)
    [] OTHER -> FALSE

Taken(i, a, b) ==
  \/ i.kind \in {"jump", "jumpreg"}
  \/ i.kind = "branch" /\ ConditionHolds(i.fn, a, b)

\* The destination of a branch whose first source holds a.
Target(i, pc, a) ==
  CASE i.kind = "branch" -> (pc + 1 + i.imm) % WordSize
    [] i.kind = "jumpreg" -> a
    [] OTHER -> i.imm

\* The address of a load or store whose base register holds a.
Effective(i, a) == (a + i.imm) % WordSize

\* What an instruction other than a load writes to its dst.
Result(i, pc, a, b, hilo) ==
  CASE i.kind = "alu" -> Alu(i.fn, a, b, i.imm)
    [] i.kind = "mfhilo" -> hilo
    [] IsBranch(i) -> NextPC(pc)
    [] OTHER -> 0

\* HI and LO after an instruction.
HiLoAfter(i, a, b, hilo) ==
  CASE i.kind = "mult" -> Mul(a, b)
    [] i.kind = "mthilo" -> a
    [] OTHER -> hilo

\* The write to the register file: R0 and "no register" are never written.
Written(regs, r, v) ==
  IF r \in {NoReg, 0} THEN regs ELSE [regs EXCEPT ![r] = v]

\* A register operand: R0 reads 0, and "no register" leaves the 0 of memset.
Operand(regs, r) == IF r \in {NoReg, 0} THEN 0 ELSE regs[r]
===============================================================================
