------------------------------- MODULE MCPipeline -------------------------------
(***************************************************************************)
(* Small instances of Pipeline for TLC: families of programs over an       *)
(* address space of a few words, each slot of a family ranging over a few  *)
(* instructions.                                                           *)
(***************************************************************************)
EXTENDS PipelineProperties, Assembly, TLC

MCInitMem == [a \in Word |-> (2 * a + 1) % WordSize]

\* Values: loads, stores and arithmetic feeding each other through every
\* distance the forwarding covers, then the exit call.
DataSlot == {addi(2, 1, 1), add(1, 1, 2), lw(1, 2, 1), lw(2, 1, 0),
             sw(1, 2, 0), sw(2, 0, 1), mult(2, 1), mflo(1)}
DataPrograms ==
  {[a \in Word |->
      CASE a = 1 -> first
        [] a \in DOMAIN body -> body[a]
        [] a = 5 -> addi(2, 0, ExitCode)
        [] a = 6 -> syscall
        [] OTHER -> mtlo(2)]
     : first \in {addi(2, 0, 2), lw(2, 0, 3)}, body \in [2 .. 4 -> DataSlot]}

\* Control: branches of every kind at a distance of each other at which one's
\* recovery meets another's.
ControlSlot == {beq(1, 2, 1), bgezal(2, 1), j(1), jal(3), jr(1), jalr(2, 1),
                addi(1, 1, 1), syscall}
ControlPrograms ==
  {[a \in Word |-> IF a = 0 THEN addi(2, 2, 1) ELSE body[a]]
     : body \in [Word \ {0} -> ControlSlot]}

\* Loops that load, store, call and return, and one that ends.
LivePrograms ==
  {[a \in Word |-> IF a = 0 THEN lw(1, 0, 1) ELSE body[a]] :
     body \in {<<sw(1, 0, 2), lw(2, 0, 2), j(1)>>,
               <<jal(3), bne(1, 2, 3), jr(1)>>,
               <<lw(2, 1, 1), undefined, jalr(2, 1)>>,
               <<sw(1, 2, 0), lw(2, 0, 3), syscall>>}}
===============================================================================
