---------------------------- MODULE RelaxDelete ----------------------------
(***************************************************************************)
(* How the linker takes bytes out of one input section (bfd/elfnn-riscv.c, *)
(* _bfd_riscv_relax_section).  In pass 0 a shortened instruction turns one *)
(* of its two relocs into R_RISCV_DELETE; when all relocs were looked at,  *)
(* riscv_relax_resolve_delete_relocs moves every byte that stays just      *)
(* once, block by block, while relocs and symbols are adjusted for each    *)
(* DELETE on its own.  In pass 1 the excess NOPs of R_RISCV_ALIGN are      *)
(* deleted at once.  RelaxLayout and RelaxHiLo decide what is shortened;   *)
(* here every instruction that may be is or is not.                        *)
(*                                                                         *)
(* Offsets count parcels of two bytes.                                     *)
(***************************************************************************)
EXTENDS Integers, Sequences, FiniteSets

CONSTANTS
    Objects,    \* sections as the assembler writes them
    NReloc,     \* sec->reloc_count
    NopBytes,   \* the bytes of alignment directives
    Locals,     \* local symbols
    Globals,    \* global symbols, link hash entries defined in the section
    HashLists,  \* HashLists[w]: elf_sym_hashes, the global symbols of the object in
                \* order, without and with --wrap
    Versioned,  \* global symbols with a version
    Trips       \* bound on the trips of pass 0 that shorten something

Labels == Locals \cup Globals

\* A symbol stands twice in elf_sym_hashes only as an effect of --wrap or
\* of a version.
ASSUME HashesAssumption ==
    /\ HashLists \in [BOOLEAN -> Seq(Globals)]
    /\ \A w \in BOOLEAN : LET hashes == HashLists[w] IN
          /\ Globals \subseteq {hashes[k] : k \in DOMAIN hashes}
          /\ \A j, k \in DOMAIN hashes :
                j # k /\ hashes[j] = hashes[k] => w \/ hashes[j] \in Versioned

---------------------------------------------------------------------------
(* How relocs and symbols lie in a section of n parcels *)

InsnTypes == {"CALL", "HI20", "ALIGN", "OTHER"}
Types == InsnTypes \cup {"RELAX", "DELETE", "NONE"}

\* The parcels a reloc is about.
Extent(r) == CASE r.type = "CALL" -> 4
               [] r.type = "HI20" -> 2
               [] r.type = "OTHER" -> 1
               [] r.type \in {"ALIGN", "DELETE"} -> r.add
               [] OTHER -> 0

End(r) == r.off + Extent(r)

\* In the order of their parcels, each R_RISCV_RELAX behind the reloc it is about.
InOrder(rels) ==
    /\ \A j, k \in 1 .. NReloc :
          j < k => End(rels[j]) <= rels[k].off \/ (k = j + 1 /\ rels[k].type = "RELAX")
    /\ \A k \in 1 .. NReloc :
          rels[k].type = "RELAX" => /\ k > 1 /\ rels[k - 1].off = rels[k].off
                                    /\ rels[k - 1].type # "RELAX"

Inside(rels, n) ==
    \A k \in 1 .. NReloc :
        /\ rels[k].type \in {"ALIGN", "DELETE"} => rels[k].add > 0
        /\ rels[k].type \in InsnTypes \cup {"DELETE"} => End(rels[k]) <= n

\* Offset p is not between two parcels of one reloc.
Boundary(p, rels) == \A k \in 1 .. NReloc : p <= rels[k].off \/ End(rels[k]) <= p

SymsFit(s, rels, n) ==
    \A l \in Labels : /\ s[l].val + s[l].size <= n
                      /\ Boundary(s[l].val, rels) /\ Boundary(s[l].val + s[l].size, rels)

Relocs == [1 .. NReloc -> [type : Types, off : Nat, add : Nat]]

\* Bytes have names of their own.
Section(o, n) ==
    /\ n \in Nat
    /\ o.contents \in [0 .. n - 1 -> Nat]
    /\ \A j, k \in 0 .. n - 1 : o.contents[j] = o.contents[k] => j = k
    /\ o.relocs \in Relocs
    /\ \A k \in 1 .. NReloc : /\ o.relocs[k].type \in InsnTypes \cup {"RELAX"}
                              /\ o.relocs[k].type = "ALIGN" =>
                                   \A p \in o.relocs[k].off .. End(o.relocs[k]) - 1 : o.contents[p] \in NopBytes
    /\ InOrder(o.relocs) /\ Inside(o.relocs, n)
    /\ o.sym \in [Labels -> [val : Nat, size : Nat]]
    /\ SymsFit(o.sym, o.relocs, n)

ASSUME ObjectsAssumption ==
    /\ NReloc \in Nat
    /\ \A o \in Objects : Section(o, Cardinality(DOMAIN o.contents))

---------------------------------------------------------------------------
VARIABLES
    contents,   \* this_hdr.contents: offset -> byte, never shortened
    size,       \* sec->size
    relocs,     \* data->relocs
    sym,        \* value and size of each symbol
    i,          \* index of the loop over the relocs
    total,      \* delete_total
    pc,         \* the loop: "relax", "resolve", "align", "done"
    trips,      \* trips taken
    wrap        \* link_info->wrap_hash # NULL

vars == <<contents, size, relocs, sym, i, total, pc, trips, wrap>>

Hashes == HashLists[wrap]

Init ==
    \E o \in Objects :
        /\ contents = o.contents
        /\ size = Cardinality(DOMAIN o.contents)
        /\ relocs = o.relocs
        /\ sym = o.sym
        /\ i = 1 /\ total = 0 /\ pc = "relax" /\ trips = 0
        /\ wrap \in BOOLEAN

---------------------------------------------------------------------------
(* _riscv_relax_delete_bytes (addr, count, delete_total, toaddr) *)

\* memmove, from behind the bytes all earlier DELETEs have freed.
\* Mutant: the bytes freed by earlier DELETEs are forgotten.
MoveNoTotal(addr, count, toaddr) ==
    [k \in DOMAIN contents |->
        IF addr <= k /\ k < toaddr - count THEN contents[k + count] ELSE contents[k]]
Move(addr, count, toaddr) ==
    [k \in DOMAIN contents |->
        IF addr <= k /\ k < toaddr - count THEN contents[k + count + total] ELSE contents[k]]

\* Relocs behind the deleted bytes move, up to the old end of the section.
ShiftReloc(r, addr, count) ==
    IF r.off > addr /\ r.off < size THEN [r EXCEPT !.off = @ - count] ELSE r

\* A symbol behind the bytes moves; one that contains them shrinks.
ShiftSym(s, addr, count) ==
    IF s.val > addr /\ s.val <= size
      THEN [s EXCEPT !.val = @ - count]
      ELSE IF s.val <= addr /\ s.val + s.size > addr /\ s.val + s.size <= size
             THEN [s EXCEPT !.size = @ - count]
             ELSE s

\* Entries of sym_hashes that are adjusted: with --wrap and for versioned
\* symbols the first of several equal ones.
\* Mutant: only versions are thought of.
AdjustedNoWrap(g) ==
    {j \in DOMAIN Hashes :
        /\ Hashes[j] = g
        /\ g \in Versioned => \A k \in 1 .. j - 1 : Hashes[k] # g}
Adjusted(g) ==
    {j \in DOMAIN Hashes :
        /\ Hashes[j] = g
        /\ wrap \/ g \in Versioned => \A k \in 1 .. j - 1 : Hashes[k] # g}

ShiftTimes(l) == IF l \in Locals THEN 1 ELSE Cardinality(Adjusted(l))

ShiftedSym(l, addr, count) ==
    LET shifted[n \in 0 .. Len(Hashes) + 1] ==
            IF n = 0 THEN sym[l] ELSE ShiftSym(shifted[n - 1], addr, count)
    IN shifted[ShiftTimes(l)]

\* rels: the relocs, with what the caller changes after the call.
DeleteBytes(addr, count, toaddr, rels) ==
    /\ contents' = Move(addr, count, toaddr)
    /\ size' = size - count
    /\ relocs' = [j \in DOMAIN rels |-> ShiftReloc(rels[j], addr, count)]
    /\ sym' = [l \in Labels |-> ShiftedSym(l, addr, count)]

---------------------------------------------------------------------------
(* Pass 0: _bfd_riscv_relax_section looks at each reloc *)

\* The reloc is followed by its R_RISCV_RELAX.
Paired(j) ==
    /\ j < NReloc
    /\ relocs[j + 1].type = "RELAX"
    /\ relocs[j + 1].off = relocs[j].off

\* _riscv_relax_delete_piecewise
Piecewise(rels, j, addr, count) ==
    [rels EXCEPT ![j] = [type |-> "DELETE", off |-> addr, add |-> count]]

\* _bfd_riscv_relax_call: AUIPC+JALR of 4 parcels becomes a jump of len.
RelaxCall(len) ==
    /\ pc = "relax" /\ i <= NReloc /\ trips < Trips
    /\ relocs[i].type = "CALL" /\ Paired(i)
    /\ relocs' = Piecewise([relocs EXCEPT ![i].type = "OTHER"],
                           i + 1, relocs[i].off + len, 4 - len)
    /\ i' = i + 2
    /\ UNCHANGED <<contents, size, sym, total, pc, trips>>

\* _bfd_riscv_relax_lui, _pc, _tls_le: the instruction is not needed.
\* Mutant: R_RISCV_RELAX is reused although nothing of the instruction stays.
RelaxDropNext ==
    /\ pc = "relax" /\ i <= NReloc /\ trips < Trips
    /\ relocs[i].type = "HI20" /\ Paired(i)
    /\ relocs' = Piecewise(relocs, i + 1, relocs[i].off, 2)
    /\ i' = i + 2
    /\ UNCHANGED <<contents, size, sym, total, pc, trips>>
RelaxDrop ==
    /\ pc = "relax" /\ i <= NReloc /\ trips < Trips
    /\ relocs[i].type = "HI20" /\ Paired(i)
    /\ relocs' = Piecewise(relocs, i, relocs[i].off, 2)
    /\ i' = i + 2
    /\ UNCHANGED <<contents, size, sym, total, pc, trips>>

\* _bfd_riscv_relax_lui: LUI becomes C.LUI.
RelaxCLui ==
    /\ pc = "relax" /\ i <= NReloc /\ trips < Trips
    /\ relocs[i].type = "HI20" /\ Paired(i)
    /\ relocs' = Piecewise([relocs EXCEPT ![i].type = "OTHER"],
                           i + 1, relocs[i].off + 1, 1)
    /\ i' = i + 2
    /\ UNCHANGED <<contents, size, sym, total, pc, trips>>

\* No relaxation, no R_RISCV_RELAX, or out of reach.
KeepReloc ==
    /\ pc = "relax" /\ i <= NReloc
    /\ i' = IF relocs[i].type \in {"CALL", "HI20"} /\ Paired(i) THEN i + 2 ELSE i + 1
    /\ UNCHANGED <<contents, size, relocs, sym, total, pc, trips>>

StartResolve ==
    /\ pc = "relax" /\ i > NReloc
    /\ pc' = "resolve" /\ i' = 1 /\ total' = 0
    /\ UNCHANGED <<contents, size, relocs, sym, trips>>

---------------------------------------------------------------------------
(* riscv_relax_resolve_delete_relocs *)

FirstIn(S) == CHOOSE j \in S : \A k \in S : j <= k

Deletes(j) == {k \in j .. NReloc : relocs[k].type = "DELETE"}

\* The next DELETE behind reloc j, or 0: toaddr is its offset or the end.
NextDelete(j) ==
    LET later == {k \in Deletes(j) : relocs[k].off > relocs[j].off}
    IN IF later = {} THEN 0 ELSE FirstIn(later)

ToAddr(j) == IF NextDelete(j) = 0 THEN size ELSE relocs[NextDelete(j)].off

\* Where the loop goes on: at the next DELETE.
Resume(j) == IF NextDelete(j) = 0 THEN NReloc + 1 ELSE NextDelete(j)

\* One round of the loop; R_RISCV_NONE is written once the bytes are deleted.
ResolveDelete ==
    /\ pc = "resolve" /\ Deletes(i) # {}
    /\ LET j == FirstIn(Deletes(i))
           addr == relocs[j].off
           count == relocs[j].add
       IN /\ DeleteBytes(addr, count, ToAddr(j), [relocs EXCEPT ![j].type = "NONE"])
          /\ total' = total + count
          /\ i' = Resume(j)
    /\ UNCHANGED <<pc, trips>>

\* `again' starts another trip of pass 0, else pass 1 follows.
ResolveDone ==
    /\ pc = "resolve" /\ Deletes(i) = {}
    /\ i' = 1 /\ total' = 0
    /\ IF total # 0
         THEN pc' = "relax" /\ trips' = trips + 1
         ELSE pc' = "align" /\ trips' = trips
    /\ UNCHANGED <<contents, size, relocs, sym>>

---------------------------------------------------------------------------
(* Pass 1: _bfd_riscv_relax_align, _riscv_relax_delete_immediate *)

\* The NOPs needed depend on the address; NOPs not needed are deleted.
AlignFrom(r, nop) == r.off + nop

RelaxAlign(nop) ==
    /\ pc = "align" /\ i <= NReloc
    /\ relocs[i].type = "ALIGN" /\ nop <= relocs[i].add
    /\ LET r == relocs[i]
           rels == [relocs EXCEPT ![i].type = "NONE"]
       IN IF nop = r.add
            THEN relocs' = rels /\ UNCHANGED <<contents, size, sym>>
            ELSE DeleteBytes(AlignFrom(r, nop), r.add - nop, size, rels)
    /\ i' = i + 1
    /\ UNCHANGED <<total, pc, trips>>

KeepInAlign ==
    /\ pc = "align" /\ i <= NReloc /\ relocs[i].type # "ALIGN"
    /\ i' = i + 1
    /\ UNCHANGED <<contents, size, relocs, sym, total, pc, trips>>

AlignDone ==
    /\ pc = "align" /\ i > NReloc
    /\ pc' = "done"
    /\ UNCHANGED <<contents, size, relocs, sym, i, total, trips>>

Stopped == pc = "done" /\ UNCHANGED <<contents, size, relocs, sym, i, total, pc, trips>>

Step ==
    \/ \E len \in 1 .. 2 : RelaxCall(len)
    \/ RelaxDrop \/ RelaxCLui \/ KeepReloc
    \/ StartResolve \/ ResolveDelete \/ ResolveDone
    \/ \E j \in DOMAIN relocs : \E nop \in 0 .. relocs[j].add : j = i /\ RelaxAlign(nop)
    \/ KeepInAlign \/ AlignDone
    \/ Stopped

Next == Step /\ UNCHANGED wrap

Spec == Init /\ [][Next]_vars

---------------------------------------------------------------------------
(* What a section is while some of its bytes have moved and some have not *)

\* Up to here the bytes are in place; behind it they are `total' too high.
Placed == IF pc = "resolve" /\ i <= NReloc THEN relocs[i].off ELSE size

ByteAt(k) == IF k < Placed THEN contents[k] ELSE contents[k + total]

BytesAt(from, n) == {ByteAt(k) : k \in from .. from + n - 1}

Text == [k \in 0 .. size - 1 |-> ByteAt(k)]
At == [j \in 1 .. NReloc |-> IF relocs[j].type \in InsnTypes THEN ByteAt(relocs[j].off) ELSE -1]
Before == [l \in Labels |-> BytesAt(0, sym[l].val)]
Span == [l \in Labels |-> BytesAt(sym[l].val, sym[l].size)]
Slack == UNION {BytesAt(relocs[j].off, relocs[j].add) : j \in Deletes(1)}
Nops == NopBytes \cap BytesAt(0, size)

Edit == INSTANCE SectionEdit WITH
    NoByte <- -1, Anchors <- 1 .. NReloc,
    text <- Text, at <- At, before <- Before, span <- Span, slack <- Slack, nops <- Nops

---------------------------------------------------------------------------
(* Properties *)

\* Moving each byte once, with offsets and symbols adjusted one DELETE at a
\* time, is an edit of the section: only bytes that were given up go, the
\* others keep their order, relocs their instruction, symbols their bytes.
ImplementsEdit == Edit!Spec

\* An instruction keeps its R_RISCV_RELAX, and the R_RISCV_RELAX of a deleted
\* instruction never becomes that of a neighbour assembled with norelax.
PairsStay ==
    [][\A j \in 1 .. NReloc :
          relocs[j].type \in {"CALL", "HI20"} /\ relocs'[j].type = relocs[j].type
            => (Paired(j) <=> Paired(j)')]_vars

---------------------------------------------------------------------------
(* The inductive invariant *)

TypeOK ==
    /\ relocs \in Relocs
    /\ sym \in [Labels -> [val : Nat, size : Nat]]
    /\ size \in Nat /\ total \in Nat
    /\ i \in 1 .. NReloc + 1
    /\ pc \in {"relax", "resolve", "align", "done"}
    /\ wrap \in BOOLEAN

\* The bytes that were freed are behind the section: behind Placed, everything is
\* `total' too high.
Freed ==
    /\ contents \in [DOMAIN contents -> Nat] /\ DOMAIN contents \subseteq Nat
    /\ 0 .. size + total - 1 \subseteq DOMAIN contents
    /\ pc # "resolve" => total = 0

\* The loop stands at the first DELETE that is left.
AtDelete ==
    pc = "resolve" => \/ i = 1 /\ total = 0
                      \/ i <= NReloc /\ relocs[i].type = "DELETE" /\ Deletes(1) = Deletes(i)
                      \/ i = NReloc + 1 /\ Deletes(1) = {}

Distinct == \A j, k \in 0 .. size - 1 : ByteAt(j) = ByteAt(k) => j = k

PadsAreNops ==
    \A j \in 1 .. NReloc : relocs[j].type = "ALIGN" => BytesAt(relocs[j].off, relocs[j].add) \subseteq NopBytes

IInv ==
    /\ TypeOK /\ Freed /\ AtDelete /\ Distinct /\ PadsAreNops
    /\ InOrder(relocs) /\ Inside(relocs, size) /\ SymsFit(sym, relocs, size)
=============================================================================
