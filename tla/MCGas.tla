-------------------------------- MODULE MCGas --------------------------------
(***************************************************************************)
(* The assembler's passes over one file, in small instances: GasRelax,     *)
(* MacroExpand for both widths of registers, and GasFixups.  stage says    *)
(* which of them a behaviour is about; the others stay where they are.     *)
(***************************************************************************)
EXTENDS GasRelax, GasFixups

VARIABLES stage,
          in, ep, calls, code, phase, mpc, reg   \* MacroExpand

macroVars == <<in, ep, calls, code, phase, mpc, reg>>
Idle == "idle"
IdleMacro ==
  /\ in = Idle /\ ep = Idle /\ calls = Idle /\ code = Idle /\ phase = Idle
  /\ mpc = Idle /\ reg = Idle

-----------------------------------------------------------------------------
(* GasRelax: reaches scaled down so that the boundaries of all forms lie   *)
(* within a few frags.  "b" beq, "c" c.beqz, "j" c.j.                      *)
F(t, x, to, off, skip, j, c) ==
  [type |-> t, fix |-> x, to |-> to, off |-> off, skip |-> skip, jump |-> j, rvc |-> c]

BranchFrags(n, fixes, kinds) ==
  {F("branch", x, to, 0, 0, k = "j", k # "b") : x \in fixes, to \in 1 .. n + 1, k \in kinds}
Elsewhere == {F("branch", 0, 0, 0, 0, k = "j", k # "b") : k \in {"b", "c", "j"}}
OrgFrags == {F("org", x, to, n, 0, FALSE, FALSE) : x \in {0, 12}, to \in {0, 1}, n \in {20, 36}}
AlignFrags == {F("align", x, 0, n, s, FALSE, FALSE) : x \in {0, 6}, n \in {4, 8}, s \in {0, 2}}

MCFragSets ==
  {[n |-> 0, frags |-> {}],
   [n |-> 3, frags |-> BranchFrags(3, {0, 12}, {"b", "c"}) \cup OrgFrags],
   [n |-> 3, frags |-> BranchFrags(3, {0, 6}, {"b", "c"}) \cup AlignFrags],
   [n |-> 2, frags |-> BranchFrags(2, {0, 6, 12}, {"b", "c", "j"}) \cup Elsewhere
                         \cup OrgFrags \cup AlignFrags]}

-----------------------------------------------------------------------------
(* MacroExpand: widths in about the proportion 64 : 32 : 12.               *)
Signed(bits) == -(2^(bits - 1)) .. (2^(bits - 1) - 1)
Macro == [k |-> "none", v |-> 0, x |-> 0, v0 |-> FALSE, old |-> FALSE, vt |-> FALSE,
          bits |-> "byte", sign |-> FALSE, masked |-> FALSE, temp |-> FALSE, vd |-> "vd",
          lt |-> FALSE]
Li == {[Macro EXCEPT !.k = "li", !.v = v] : v \in Signed(12)}
Ext(xlen, kinds) ==
  {[Macro EXCEPT !.k = "ext", !.x = x, !.bits = b[1], !.sign = b[2]] :
     x \in Signed(xlen), b \in kinds}
Ext32 == {<<"byte", TRUE>>, <<"half", TRUE>>, <<"half", FALSE>>}
Vmsge ==
  {i \in {[Macro EXCEPT !.k = "vmsge", !.masked = m, !.temp = t, !.vd = d, !.lt = l,
                        !.v0 = b, !.old = IF d = "v0" THEN b ELSE o, !.vt = o] :
            m \in BOOLEAN, t \in BOOLEAN, d \in {"v0", "vd"}, l \in BOOLEAN,
            b \in BOOLEAN, o \in BOOLEAN} :
     i.temp => i.masked}

M64 == INSTANCE MacroExpand WITH
         W <- 12, Xlen <- 12, N <- 6, I <- 2, Byte <- 2, Half <- 3, pc <- mpc,
         Inputs <- Li \cup Ext(12, Ext32 \cup {<<"word", FALSE>>}) \cup Vmsge
M32 == INSTANCE MacroExpand WITH
         W <- 12, Xlen <- 6, N <- 6, I <- 2, Byte <- 2, Half <- 3, pc <- mpc,
         Inputs <- Li \cup Ext(6, Ext32) \cup Vmsge

ASSUME GasAssumption == M64!ConstantsOK /\ M32!ConstantsOK

-----------------------------------------------------------------------------
(* A file of GasFixups has up to three instructions in two sections.        *)
MCInit ==
  /\ Init /\ FixupsInit
  /\ \/ stage = "relax" /\ IdleMacro /\ relax
     \/ stage = "macro64" /\ Last = 1 /\ M64!Init /\ relax
     \/ stage = "macro32" /\ Last = 1 /\ M32!Init /\ relax
     \/ stage = "fixups" /\ Last = 1 /\ IdleMacro

MCNext ==
  \/ stage = "relax" /\ Next /\ UNCHANGED <<stage, macroVars, fixupVars>>
  \/ stage = "macro64" /\ M64!Next /\ UNCHANGED <<stage, vars, fixupVars>>
  \/ stage = "macro32" /\ M32!Next /\ UNCHANGED <<stage, vars, fixupVars>>
  \/ stage = "fixups" /\ FixupsNext /\ UNCHANGED <<stage, vars, macroVars>>

mcVars == <<stage, vars, macroVars, fixupVars>>

\* The assembler is one sequential program: it takes its next step.
MCSpec == MCInit /\ [][MCNext]_mcVars /\ WF_mcVars(MCNext)

\* The instructions of a macro (load_const, riscv_ext, vector_macro), executed, leave
\* what the macro means, in registers of both widths, and every immediate and shift
\* amount fits its field.
RightValue ==
  /\ stage = "macro64" => M64!RightValue /\ M64!Encodable
  /\ stage = "macro32" => M32!RightValue /\ M32!Encodable

\* The loops of relax_segment and write_object_file come to an end, with a cause
\* where they give up and with no error that the end does not bear out.
Terminates == stage = "relax" ~> EndsRightly
=============================================================================
