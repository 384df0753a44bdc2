-------------------------------- MODULE Assembly --------------------------------
(***************************************************************************)
(* The instructions the program families of the MC modules are written in, *)
(* and small instances of Alu and Mul.                                     *)
(***************************************************************************)
EXTENDS MIPS

MCAlu(fn, a, b, imm) ==
  (CASE fn = "and" -> IF a = b THEN a ELSE 0
     [] OTHER -> a + b + imm) % WordSize
MCMul(a, b) == (a * b + 1) % WordSize

I(kind, fn, src1, src2, dst, imm) ==
  [kind |-> kind, fn |-> fn, src1 |-> src1, src2 |-> src2, dst |-> dst,
   imm |-> imm]

addi(d, s, n) == I("alu", "add", s, NoReg, d, n)
add(d, s, t) == I("alu", "add", s, t, d, 0)
lw(d, s, n) == I("load", "-", s, NoReg, d, n)
sw(t, s, n) == I("store", "-", s, t, NoReg, n)
beq(s, t, n) == I("branch", "beq", s, t, NoReg, n)
bne(s, t, n) == I("branch", "bne", s, t, NoReg, n)
bgezal(s, n) == I("branch", "bgez", s, NoReg, RA, n)
j(a) == I("jump", "-", NoReg, NoReg, NoReg, a)
jal(a) == I("jump", "-", NoReg, NoReg, RA, a)
jr(s) == I("jumpreg", "jr", s, 0, 0, 0)
jalr(d, s) == I("jumpreg", "jalr", s, 0, d, 0)
mult(s, t) == I("mult", "-", s, t, 0, 0)
mflo(d) == I("mfhilo", "-", 0, 0, d, 0)
mtlo(s) == I("mthilo", "-", s, 0, 0, 0)
syscall == I("syscall", "-", V0, NoReg, 0, 0)
undefined == I("other", "-", NoReg, NoReg, NoReg, 0)
================================================================================
