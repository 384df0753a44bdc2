---------------------------------- MODULE ISA ----------------------------------
(***************************************************************************)
(* What the simulator promises the program it runs: the architectural      *)
(* machine, one whole instruction per step, no pipeline, no prediction, no *)
(* caches.  Pipeline is shown to implement it.                             *)
(*                                                                         *)
(* One freedom is the code's own.  Pipe_Op.branch_dest = 0 doubles as the  *)
(* mark "already taken", so a taken branch to address 0 is never checked   *)
(* against the path the front end followed: its successor is left open.    *)
(***************************************************************************)
EXTENDS MIPS

CONSTANTS
  Programs,          \* the programs the loader may have placed in memory
  InitMem            \* the data memory it leaves

VARIABLES
  prog,              \* the text section: fixed once loaded
  pc, regs, hilo, mem, halted

isaVars == <<prog, pc, regs, hilo, mem, halted>>

Fetched == prog[pc]
Src1 == Operand(regs, Fetched.src1)
Src2 == Operand(regs, Fetched.src2)
Address == Effective(Fetched, Src1)
IsExit == Fetched.kind = "syscall" /\ Src1 = ExitCode

Successors ==
  IF ~Taken(Fetched, Src1, Src2) THEN {NextPC(pc)}
  ELSE IF Target(Fetched, pc, Src1) = 0 THEN Word
  ELSE {Target(Fetched, pc, Src1)}

ISAInit ==
  /\ prog \in Programs
  /\ pc = StartPC
  /\ regs = [r \in Regs |-> 0]
  /\ hilo = 0
  /\ mem = InitMem
  /\ halted = FALSE

\* Any instruction but the exit system call.
Instr ==
  /\ ~halted
  /\ ~IsExit
  /\ pc' \in Successors
  /\ regs' = Written(regs, Fetched.dst,
                     IF Fetched.kind = "load" THEN mem[Address]
                     ELSE Result(Fetched, pc, Src1, Src2, hilo))
  /\ hilo' = HiLoAfter(Fetched, Src1, Src2, hilo)
  /\ mem' = IF IsStore(Fetched) THEN [mem EXCEPT ![Address] = Src2] ELSE mem
  /\ UNCHANGED <<prog, halted>>

\* SYSCALL with 0xA in V0: the machine stops, the PC still at the call.
Exit ==
  /\ ~halted
  /\ IsExit
  /\ halted' = TRUE
  /\ regs' = Written(regs, Fetched.dst, 0)
  /\ UNCHANGED <<prog, pc, hilo, mem>>

ISANext == Instr \/ Exit

ISASpec == ISAInit /\ [][ISANext]_isaVars
================================================================================
