---------------------------- MODULE MacroExpand ----------------------------
(* The macros of gas that expand into several instructions by computation:   *)
(* li (load_const), the zero and sign extensions (riscv_ext) and vmsge       *)
(* (vector_macro), in gas/config/tc-riscv.c.  The expansion is assembled one *)
(* instruction at a time and then executed on one register, or on one        *)
(* element of the vector registers.                                          *)
EXTENDS Integers, Sequences

CONSTANTS
  W,        \* bits of offsetT (64 in the code)
  Xlen,     \* bits of a register
  N,        \* bits of an RV32 register (32)
  I,        \* RISCV_IMM_BITS (12)
  Byte, Half,   \* bits of a byte and of a half-word (8, 16)
  Inputs    \* what is assembled

(* What is assumed of the constants.                                        *)
ConstantsOK ==
  /\ {W, Xlen, N, I, Byte, Half} \subseteq Nat \ {0}
  /\ Xlen \in {N, W} /\ N < W /\ I < N /\ Byte < Half /\ Half < N

VARIABLES
  in,      \* the macro and its operands
  ep,      \* load_const: X_add_number of this call
  calls,   \* load_const: the callers, [shift, lower]
  code,    \* instructions assembled
  phase, pc,
  reg      \* the registers while the code runs
vars == <<in, ep, calls, code, phase, pc, reg>>

Wrap(x, bits) == ((x + 2^(bits - 1)) % 2^bits) - 2^(bits - 1)
Signed(bits) == -(2^(bits - 1)) .. (2^(bits - 1) - 1)

---------------------------------------------------------------------------
(* Instructions.                                                             *)
Insn(op, imm) == [op |-> op, imm |-> imm, zero |-> FALSE]
InsnX0(op, imm) == [op |-> op, imm |-> imm, zero |-> TRUE]
VInsn(op, d, s, t) == [op |-> op, d |-> d, s |-> s, t |-> t]

(* What they do (the ISA manual): x is the register, zero says that the      *)
(* source is x0; v0 is the mask, lt the outcome of the comparison.           *)
Scalar(i, old) ==
  LET x == IF i.zero THEN 0 ELSE old
  IN CASE i.op = "lui" -> Wrap(Wrap(i.imm * 2^I, N), Xlen)
       [] i.op = "addi" -> Wrap(x + i.imm, Xlen)
       [] i.op = "addiw" -> Wrap(Wrap(x + i.imm, N), Xlen)
       [] i.op = "slli" -> Wrap(x * 2^i.imm, Xlen)
       [] i.op = "srli" -> Wrap((x % 2^Xlen) \div 2^i.imm, Xlen)
       [] i.op = "srai" -> x \div 2^i.imm

Vector(i, r) ==
  CASE i.op = "vmslt" -> [r EXCEPT ![i.d] = in.lt]
    [] i.op = "vmslt v0.t" -> IF r["v0"] THEN [r EXCEPT ![i.d] = in.lt] ELSE r
    [] i.op = "vmnand" -> [r EXCEPT ![i.d] = ~(r[i.s] /\ r[i.t])]
    [] i.op = "vmandnot" -> [r EXCEPT ![i.d] = r[i.s] /\ ~r[i.t]]
    [] i.op = "vmor" -> [r EXCEPT ![i.d] = r[i.s] \/ r[i.t]]
    [] i.op = "vmxor" -> [r EXCEPT ![i.d] = r[i.s] # r[i.t]]

---------------------------------------------------------------------------
(* load_const                                                                *)

IsSext32(x) == x \in Signed(N)
(* IS_ZEXT_32BIT_NUM: the bits above the low word are all clear or all set.  *)
IsZext32(x) == x \in -(2^N) .. (2^N - 1)

normalize_constant_expr(x) == IF Xlen = N /\ IsZext32(x) THEN Wrap(x, N) ELSE x

Lower(x) == Wrap(x, I)
Upper(x) == Wrap(x - Lower(x), W)
Shift(u) == CHOOSE s \in I..(W - 1) :
              /\ (u \div 2^s) % 2 = 1
              /\ \A t \in I..(s - 1) : (u \div 2^t) % 2 = 0

Reduces(x) == Xlen > N /\ ~IsSext32(x)

LoadConstReduce ==
  /\ phase = "load_const" /\ Reduces(ep)
  /\ LET u == Upper(ep)
     IN /\ calls' = <<[shift |-> Shift(u), lower |-> Lower(ep)]>> \o calls
        /\ ep' = u \div 2^Shift(u)
  /\ UNCHANGED <<in, code, phase, pc, reg>>

\* Mutant: addi also where registers are wider.
Add32_addi == "addi"
Add32 == IF Xlen > N THEN "addiw" ELSE "addi"
UpperImm(u) == (u % 2^N) \div 2^I

LoadConstBase ==
  /\ phase = "load_const" /\ ~Reduces(ep)
  /\ LET u == Upper(ep)
         lui == IF u # 0 THEN <<Insn("lui", UpperImm(u))>> ELSE <<>>
         add == IF Lower(ep) # 0 \/ u = 0
                THEN <<IF u = 0 THEN InsnX0(Add32, Lower(ep)) ELSE Insn(Add32, Lower(ep))>>
                ELSE <<>>
     IN code' = lui \o add
  /\ phase' = "return"
  /\ UNCHANGED <<in, ep, calls, pc, reg>>

LoadConstReturn ==
  /\ phase = "return"
  /\ IF calls = <<>> THEN phase' = "run" /\ UNCHANGED <<calls, code>>
     ELSE LET c == Head(calls)
          IN /\ code' = code \o <<Insn("slli", c.shift)>>
                          \o (IF c.lower # 0 THEN <<Insn("addi", c.lower)>> ELSE <<>>)
             /\ calls' = Tail(calls)
             /\ phase' = phase
  /\ UNCHANGED <<in, ep, pc, reg>>

---------------------------------------------------------------------------
(* riscv_ext and vector_macro.  The mask is v0; vm = 0 selects it and is     *)
(* its number.  A temporary of v0 counts as none.                            *)

ExtBits == [byte |-> Byte, half |-> Half, word |-> N]

riscv_ext(shift, sign) ==
  <<Insn("slli", shift), Insn(IF sign THEN "srai" ELSE "srli", shift)>>

MaskedOverlap(vd) ==
  <<VInsn("vmslt", "vt", "vt", "vt"), VInsn("vmandnot", vd, "v0", "vt")>>
MaskedTemp(vd) ==
  <<VInsn("vmslt", "vt", "vt", "vt"), VInsn("vmandnot", "vt", "v0", "vt"),
    VInsn("vmandnot", vd, vd, "v0"), VInsn("vmor", vd, "vt", vd)>>

vector_macro(i) ==
  IF ~i.masked THEN <<VInsn("vmslt", i.vd, i.vd, i.vd), VInsn("vmnand", i.vd, i.vd, i.vd)>>
  ELSE IF i.temp THEN IF i.vd = "v0" THEN MaskedOverlap(i.vd) ELSE MaskedTemp(i.vd)
  ELSE <<VInsn("vmslt v0.t", i.vd, i.vd, i.vd), VInsn("vmxor", i.vd, i.vd, "v0")>>

(* macro: the error of a masked vmsge into v0 without a temporary ends it.   *)
MacroError(i) == i.k = "vmsge" /\ i.masked /\ ~i.temp /\ i.vd = "v0"

Macro ==
  /\ phase = "macro"
  /\ IF in.k = "li"
     THEN phase' = "load_const" /\ ep' = normalize_constant_expr(in.v) /\ UNCHANGED code
     ELSE /\ phase' = IF MacroError(in) THEN "error" ELSE "run"
          /\ code' = IF in.k = "ext" THEN riscv_ext(Xlen - ExtBits[in.bits], in.sign)
                     ELSE IF MacroError(in) THEN <<>> ELSE vector_macro(in)
          /\ UNCHANGED ep
  /\ UNCHANGED <<in, calls, pc, reg>>

Execute ==
  /\ phase = "run"
  /\ IF pc > Len(code) THEN phase' = "done" /\ UNCHANGED <<reg, pc>>
     ELSE /\ reg' = IF in.k = "vmsge" THEN Vector(code[pc], reg)
                    ELSE [reg EXCEPT !["x"] = Scalar(code[pc], @)]
          /\ pc' = pc + 1 /\ phase' = phase
  /\ UNCHANGED <<in, ep, calls, code>>

Finished == phase \in {"done", "error"} /\ UNCHANGED vars

Init ==
  /\ in \in Inputs
  /\ reg = [x |-> in.x, v0 |-> in.v0, vd |-> in.old, vt |-> in.vt]
  /\ ep = 0 /\ calls = <<>> /\ code = <<>> /\ phase = "macro" /\ pc = 1

Next == Macro \/ LoadConstReduce \/ LoadConstBase \/ LoadConstReturn \/ Execute \/ Finished

Spec == Init /\ [][Next]_vars

---------------------------------------------------------------------------
(* The value the macro stands for, in the manual's words.                    *)
Low(x, bits) == x % 2^bits
Meaning ==
  CASE in.k = "li" -> Wrap(in.v, Xlen)
    [] in.k = "ext" -> IF in.sign THEN Wrap(in.x, ExtBits[in.bits])
                       ELSE Wrap(Low(in.x, ExtBits[in.bits]), Xlen)
(* A masked vmsge writes the elements whose mask bit is set; into the mask   *)
(* itself it leaves the others clear.                                        *)
VectorMeaning == IF in.masked /\ ~in.v0 THEN in.old ELSE ~in.lt

(* The instructions of a macro, executed, leave what the macro means: for    *)
(* li every constant, the ends of the 32-bit range, where lui and addiw wrap, *)
(* and those that need SLLI included.                                        *)
RightValue ==
  phase = "done" =>
    IF in.k = "vmsge" THEN reg[in.vd] = VectorMeaning ELSE reg["x"] = Meaning

(* Every immediate and shift amount fits its field, or md_assemblef would    *)
(* reject an instruction the user never wrote.                               *)
Encodable ==
  \A j \in DOMAIN code :
    CASE code[j].op = "lui" -> code[j].imm \in 0..(2^(N - I) - 1)
      [] code[j].op \in {"addi", "addiw"} -> code[j].imm \in Signed(I)
      [] code[j].op \in {"slli", "srli", "srai"} -> code[j].imm \in 0..(Xlen - 1)
      [] OTHER -> TRUE

=============================================================================
