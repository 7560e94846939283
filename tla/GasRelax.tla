------------------------------ MODULE GasRelax ------------------------------
(***************************************************************************)
(* The assembler's relaxation of one section: relax_segment and the loop    *)
(* around it (gas/write.c), the lengths of RISC-V branches                  *)
(* (relaxed_branch_length, riscv_relax_frag) and the final conversion       *)
(* (cvt_frag_to_fill, md_convert_frag_branch in gas/config/tc-riscv.c).     *)
(*                                                                          *)
(* A frag has a fixed part and a variable one: a branch, the padding of an  *)
(* alignment or of .org, or nothing.  A label is the start of a frag.       *)
(***************************************************************************)
EXTENDS Integers, Sequences

CONSTANTS
    FragSets,   \* what a program is made of: [n, frags], n of these frags
    RvcBranch,  \* RVC_BRANCH_REACH: size of the range of a compressed branch
    RvcJump,    \* RVC_JUMP_REACH
    Branch      \* RISCV_BRANCH_REACH

(***************************************************************************)
(* A frag: type "fill", "branch", "align" or "org"; fix, bytes of the fixed *)
(* part; to, the frag of the symbol (0: none, or in another section, weak   *)
(* or undefined); off, the offset of .org or the boundary of the alignment, *)
(* 1 << fr_offset; skip, the limit of the padding (0: none); jump, rvc:     *)
(* RELAX_BRANCH_UNCOND and RELAX_BRANCH_RVC.                                *)
(***************************************************************************)
FragTypes == {"fill", "branch", "align", "org"}
Frag ==
    {f \in [type : FragTypes, fix : Int, to : Nat, off : Int, skip : Nat,
            jump : BOOLEAN, rvc : BOOLEAN] : f.type = "align" => f.off > 0}

ASSUME ReachAssumption ==
    /\ {RvcBranch, RvcJump, Branch} \subseteq Nat \ {0}
    /\ RvcBranch <= Branch /\ RvcJump <= Branch

\* The frag that subseg_finish adds at the end.
LastFrag == [type |-> "fill", fix |-> 0, to |-> 0, off |-> 0, skip |-> 0, jump |-> FALSE, rvc |-> FALSE]

ASSUME FragsAssumption ==
    \A s \in FragSets : s.n \in Nat /\ \A f \in s.frags : f \in Frag /\ f.to <= s.n + 1

VARIABLES
    prog,       \* the frags
    addr,       \* fr_address
    last,       \* last_fr_address
    var,        \* fr_var of branches
    len,        \* RELAX_BRANCH_LENGTH (fr_subtype) of branches
    pc,         \* "estimate", "relax", "check", "convert", "done", "fatal", "abort"
    at,         \* the frag the loop is at
    here,       \* address of the estimating loop
    stretch, stretched,
    iterations, \* max_iterations
    pass,       \* rsi.pass
    changed,    \* ret of relax_segment
    errors      \* .org errors: [at, fix, target]

vars == <<prog, addr, last, var, len, pc, at, here, stretch, stretched,
          iterations, pass, changed, errors>>

Frags == 1 .. Len(prog)
Last == Len(prog)

\* Frags are allocated zeroed; the substate of a branch starts at the worst case.
Init ==
    /\ \E s \in FragSets : \E p \in [1 .. s.n -> s.frags] : prog = Append(p, LastFrag)
    /\ addr = [i \in Frags |-> 0] /\ last = [i \in Frags |-> 0]
    /\ var = [i \in Frags |-> IF prog[i].rvc THEN 2 ELSE 4]
    /\ len = [i \in Frags |-> 8]
    /\ pc = "estimate" /\ at = 1 /\ here = 0
    /\ stretch = 0 /\ stretched = FALSE /\ iterations = 0
    /\ pass = 0 /\ changed = FALSE /\ errors = {}

---------------------------------------------------------------------------
(* Sizes *)

\* (bfd_vma) (val + range/2) < range
Fits(val, range) == val + range \div 2 \in 0 .. range - 1

\* relaxed_branch_length, with the addresses a.
relaxed_branch_length(f, i, a) ==
    LET val == a[f.to] - (a[i] + f.fix)
    IN IF f.to = 0 THEN IF f.jump THEN 4 ELSE 8
       ELSE IF f.rvc /\ Fits(val, IF f.jump THEN RvcJump ELSE RvcBranch) THEN 2
       ELSE IF f.jump \/ Fits(val, Branch) THEN 4
       ELSE IF f.rvc THEN 6 ELSE 8

\* relax_align with the limit on the padding.
relax_align(f, a) ==
    LET pad == (- a) % f.off
    IN IF f.skip # 0 /\ pad > f.skip THEN 0 ELSE pad

OrgTarget(f, a) == f.off + (IF f.to = 0 THEN 0 ELSE a[f.to])

---------------------------------------------------------------------------
(* relax_segment *)

\* The first guess: a forward label still has the address of the pass before.
\* md_estimate_size_before_relax leaves the substate alone.
Estimate ==
    LET f == prog[at]
        a == [addr EXCEPT ![at] = here]
        size == IF f.type = "branch" THEN relaxed_branch_length(f, at, a)
                ELSE IF f.type = "align" THEN relax_align(f, here + f.fix)
                ELSE 0
    IN /\ pc = "estimate"
       /\ addr' = a
       /\ var' = IF f.type = "branch" THEN [var EXCEPT ![at] = size] ELSE var
       /\ IF at < Last
            THEN at' = at + 1 /\ here' = here + f.fix + size /\ UNCHANGED <<pc, iterations>>
            ELSE at' = 1 /\ here' = 0 /\ pc' = "relax" /\ iterations' = Last * Last
       /\ stretch' = 0 /\ stretched' = FALSE
       /\ UNCHANGED <<prog, last, len, pass, changed, errors>>

\* The end of the loop over the frags: around again, out, or as_fatal.
NextFrag(growth) ==
    IF at < Last
      THEN /\ at' = at + 1 /\ stretch' = stretch + growth /\ stretched' = (stretched \/ growth # 0)
           /\ UNCHANGED <<pc, iterations>>
      ELSE /\ at' = 1 /\ stretch' = 0 /\ stretched' = FALSE
           /\ iterations' = iterations - 1
           /\ pc' = IF ~ stretched /\ growth = 0 THEN "check"
                    ELSE IF iterations > 1 THEN "relax" ELSE "fatal"

\* The frag at the loop moves by what those before it have grown.
Moved == [addr EXCEPT ![at] = @ + stretch]

RelaxFill ==
    /\ pc = "relax" /\ prog[at].type = "fill"
    /\ addr' = Moved
    /\ NextFrag(0)
    /\ UNCHANGED <<prog, last, var, len, here, pass, changed, errors>>

\* riscv_relax_frag
\* Mutant: the substate keeps the length of the first call.
RelaxBranch_stale ==
    LET new == relaxed_branch_length(prog[at], at, Moved)
    IN /\ pc = "relax" /\ prog[at].type = "branch"
       /\ addr' = Moved
       /\ var' = [var EXCEPT ![at] = new]
       /\ len' = IF len[at] = 8 THEN [len EXCEPT ![at] = new] ELSE len
       /\ NextFrag(new - var[at])
       /\ UNCHANGED <<prog, last, here, pass, changed, errors>>
RelaxBranch ==
    LET new == relaxed_branch_length(prog[at], at, Moved)
    IN /\ pc = "relax" /\ prog[at].type = "branch"
       /\ addr' = Moved
       /\ var' = [var EXCEPT ![at] = new]
       /\ len' = [len EXCEPT ![at] = new]
       /\ NextFrag(new - var[at])
       /\ UNCHANGED <<prog, last, here, pass, changed, errors>>

RelaxAlign ==
    LET f == prog[at]
    IN /\ pc = "relax" /\ f.type = "align"
       /\ addr' = Moved
       /\ NextFrag(relax_align(f, Moved[at] + f.fix) - relax_align(f, addr[at] + f.fix))
       /\ UNCHANGED <<prog, last, var, len, here, pass, changed, errors>>

\* Growth may be negative, but never below nothing; backwards is an error
\* from the third pass on, and the frag is then left as it is.
\* Mutant: backwards is never an error.
RelaxOrg_silent ==
    LET f == prog[at]
        target == OrgTarget(f, Moved)
        after == addr[at + 1] + stretch
    IN /\ pc = "relax" /\ f.type = "org"
       /\ addr' = Moved
       /\ NextFrag(IF Moved[at] + f.fix <= target THEN target - after ELSE 0)
       /\ changed' = (changed \/ (Moved[at] + f.fix > target /\ pass < 2))
       /\ UNCHANGED <<prog, errors, last, var, len, here, pass>>
RelaxOrg ==
    LET f == prog[at]
        target == OrgTarget(f, Moved)
        after == addr[at + 1] + stretch
    IN /\ pc = "relax" /\ f.type = "org"
       /\ addr' = Moved
       /\ \/ /\ Moved[at] + f.fix <= target
             /\ NextFrag(target - after)
             /\ UNCHANGED <<prog, changed, errors>>
          \/ /\ Moved[at] + f.fix > target /\ pass < 2
             /\ NextFrag(0)
             /\ changed' = TRUE
             /\ UNCHANGED <<prog, errors>>
          \/ /\ Moved[at] + f.fix > target /\ pass >= 2
             /\ NextFrag(0)
             /\ errors' = errors \cup {[at |-> at, fix |-> f.fix, off |-> f.off, to |-> f.to]}
             /\ prog' = [prog EXCEPT ![at] = [f EXCEPT
                   !.type = "align", !.skip = 0, !.off = 1, !.fix = after - Moved[at]]]
             /\ UNCHANGED changed
       /\ UNCHANGED <<last, var, len, here, pass>>

---------------------------------------------------------------------------
(* The loop of write_object_file and size_seg *)

\* Another round unless nothing has moved since the last one.
\* Only the first two passes are told apart.
\* Mutant: a request for another round is kept for the rounds after it.
Check_keeps ==
    /\ pc = "check"
    /\ last' = addr /\ pass' = (IF pass < 2 THEN pass + 1 ELSE pass)
    /\ changed' = (changed \/ last # addr)
    /\ pc' = IF changed \/ last # addr THEN "estimate" ELSE "convert"
    /\ UNCHANGED <<prog, addr, var, len, at, here, stretch, stretched, iterations, errors>>
Check ==
    /\ pc = "check"
    /\ last' = addr /\ pass' = (IF pass < 2 THEN pass + 1 ELSE pass)
    /\ changed' = FALSE
    /\ pc' = IF changed \/ last # addr THEN "estimate" ELSE "convert"
    /\ UNCHANGED <<prog, addr, var, len, at, here, stretch, stretched, iterations, errors>>

\* The assertions of md_convert_frag_branch and cvt_frag_to_fill, frag by frag.
Convert ==
    LET f == prog[at]
        good == f.type = "branch" =>
                    len[at] = var[at] /\ addr[at + 1] - addr[at] = f.fix + var[at]
    IN /\ pc = "convert"
       /\ pc' = IF ~ good THEN "abort" ELSE IF at < Last THEN pc ELSE "done"
       /\ at' = IF good /\ at < Last THEN at + 1 ELSE at
       /\ UNCHANGED <<prog, addr, last, var, len, here, stretch, stretched,
                      iterations, pass, changed, errors>>

Stopped == pc \in {"done", "fatal", "abort"} /\ UNCHANGED vars

Next ==
    \/ Estimate \/ RelaxFill \/ RelaxBranch \/ RelaxAlign \/ RelaxOrg
    \/ Check \/ Convert \/ Stopped

Spec == Init /\ [][Next]_vars

---------------------------------------------------------------------------
(* md_convert_frag_branch: what a branch becomes *)

\* An instruction: its size, the range of its displacement (0: that of jal,
\* left to the linker), the bytes to its target if that is in the sequence
\* (0: the symbol), and whether its condition is the inverted one.
Insn(size, range, over, inv) == [size |-> size, range |-> range, over |-> over, inv |-> inv]
Jal == Insn(4, 0, 0, FALSE)

\* Mutant: the inverted branch of the compressed form skips the jump only.
Form_skip(f, n) ==
    IF n = 2 THEN <<Insn(2, IF f.jump THEN RvcJump ELSE RvcBranch, 0, FALSE)>>
    ELSE IF n = 4 THEN IF f.jump THEN <<Jal>> ELSE <<Insn(4, Branch, 0, FALSE)>>
    ELSE IF n = 6 THEN <<Insn(2, RvcBranch, 4, TRUE), Jal>>
    ELSE <<Insn(4, Branch, 8, TRUE), Jal>>
Form(f, n) ==
    IF n = 2 THEN <<Insn(2, IF f.jump THEN RvcJump ELSE RvcBranch, 0, FALSE)>>
    ELSE IF n = 4 THEN IF f.jump THEN <<Jal>> ELSE <<Insn(4, Branch, 0, FALSE)>>
    ELSE IF n = 6 THEN <<Insn(2, RvcBranch, 6, TRUE), Jal>>
    ELSE <<Insn(4, Branch, 8, TRUE), Jal>>

---------------------------------------------------------------------------
(* Properties *)

Branches == {i \in Frags : prog[i].type = "branch"}
From(i) == addr[i] + prog[i].fix

\* md_convert_frag_branch: every branch, executed, comes to its symbol when
\* its condition holds and behind the frag when it does not; displacements
\* fit their fields at the final addresses, and no shorter form would do.
\* The three gas_assert of the conversion hold: relax_segment leaves fr_var,
\* the substate and the addresses in agreement.
BranchArrives ==
    /\ pc # "abort"
    /\ pc = "done" =>
        \A i \in Branches :
            LET f == prog[i]
                form == Form(f, len[i])
                last1 == form[Len(form)]
                start == From(i) + (IF Len(form) = 2 THEN form[1].size ELSE 0)
            IN /\ (IF Len(form) = 2 THEN form[1].size ELSE 0) + last1.size = addr[i + 1] - From(i)
               /\ last1.over = 0 /\ ~ last1.inv
               /\ Len(form) = 2 => form[1].inv /\ form[1].over = addr[i + 1] - From(i)
               /\ f.to # 0 /\ last1.range # 0 => Fits(addr[f.to] - start, last1.range)
               /\ f.to # 0 => \A n \in {2, 4} : n < len[i] /\ (n = 2 => f.rvc) /\ Len(Form(f, n)) = 1 =>
                     ~ Fits(addr[f.to] - From(i), Form(f, n)[1].range)

\* relax_align, rs_org: at the end every alignment ends on its boundary or
\* would need more than its limit, and every .org ends at its target, unless
\* it was reported.
PadsHold ==
    pc = "done" =>
        \A i \in Frags :
            LET f == prog[i]
                pad == addr[i + 1] - (addr[i] + f.fix)
            IN /\ f.type = "align" =>
                    \/ addr[i + 1] % f.off = 0 /\ pad \in 0 .. f.off - 1
                    \/ f.skip # 0 /\ pad = 0
               /\ f.type = "org" => addr[i + 1] = OrgTarget(f, addr)

\* How relax_segment may end.  "Don't error on first few frag relax passes":
\* an .org that was reported is backwards in the final layout too.  "Until
\* nothing further to relax": without alignments it does not give up.
EndsRightly ==
    \/ pc = "done" /\ \A e \in errors : addr[e.at] + e.fix > OrgTarget(e, addr)
    \/ pc = "fatal" /\ \E i \in Frags : prog[i].type = "align"

---------------------------------------------------------------------------
(* Why the properties hold *)

TypeOK ==
    /\ prog \in Seq(Frag) /\ prog # << >> /\ prog[Last].type = "fill"
    /\ \A i \in Frags : prog[i].to <= Last
    /\ addr \in [Frags -> Int] /\ var \in [Frags -> Int] /\ len \in [Frags -> Int]
    /\ pc \in {"estimate", "relax", "check", "convert", "done", "fatal"}
    /\ at \in Frags /\ {here, stretch, iterations} \subseteq Int
    /\ {stretched, changed} \subseteq BOOLEAN

\* The bytes of the variable part, as far as the frag itself says.
Size(k) ==
    CASE prog[k].type = "branch" -> var[k]
      [] prog[k].type = "align" -> relax_align(prog[k], addr[k] + prog[k].fix)
      [] OTHER -> 0

\* Where a frag begins in the layout in the making.
Place(k) ==
    IF k # at THEN addr[k] ELSE IF pc = "estimate" THEN here ELSE addr[k] + stretch

\* Frags follow each other; only the padding of .org is not told by its size.
Contiguous ==
    \A k \in 1 .. Last - 1 :
        prog[k].type # "org" /\ (pc = "estimate" => k < at) =>
            Place(k + 1) = addr[k] + prog[k].fix + Size(k)

\* A frag that another trip would leave as it is.
Settled(k) ==
    /\ prog[k].type = "branch" => len[k] = var[k] /\ var[k] = relaxed_branch_length(prog[k], k, addr)
    /\ prog[k].type = "org" /\ ~ changed => addr[k + 1] = OrgTarget(prog[k], addr)

\* As long as nothing grows in a trip, the frags behind it are settled.
Fixpoint ==
    /\ pc = "relax" /\ ~ stretched => stretch = 0 /\ \A k \in 1 .. at - 1 : Settled(k)
    /\ pc \in {"check", "convert", "done"} => stretch = 0 /\ \A k \in Frags : Settled(k)
    /\ pc = "check" => at = 1
    /\ pc \in {"convert", "done"} => ~ changed

IInv == TypeOK /\ Contiguous /\ Fixpoint
=============================================================================
