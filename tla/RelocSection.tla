---------------------------- MODULE RelocSection ----------------------------
(***************************************************************************)
(* riscv_elf_relocate_section (bfd/elfnn-riscv.c) in a static, non-PIC link *)
(* for what a section's relocations do to each other: %pcrel_hi and         *)
(* %got_pcrel_hi, whose values are remembered for the %pcrel_lo that name   *)
(* their auipc and are resolved when the section has been walked; the lui   *)
(* that replaces an auipc too far from its symbol; the entries of the GOT,  *)
(* shared by all sections and initialised by the first that uses them; and  *)
(* the pairs SET_ULEB128, SUB_ULEB128.  An error ends the section's walk.   *)
(***************************************************************************)
EXTENDS Integers, Sequences

CONSTANTS
    Linkers,    \* records [span, programs, values], as below
    GotAddr,    \* address of the GOT entry of each symbol
    Space,      \* number of addresses, 2^XLEN
    R           \* RISCV_IMM_REACH

(***************************************************************************)
(* A linker and what it is given: span, the bytes that lui and auipc reach, *)
(* 2^32, all of them in the 32-bit linker; programs, sequences of input     *)
(* sections [base, relocs]; values, functions from symbols to addresses.    *)
(* A relocation: type "hi", "got", "lo", "set" or "sub"; off, its offset,   *)
(* which orders the list; sym, its symbol; add, its addend; label, for a    *)
(* "lo", the place of the auipc: <<section, offset>>; secsym: the label is  *)
(* a section symbol.                                                        *)
(***************************************************************************)
Types == {"hi", "got", "lo", "set", "sub"}
Symbols == DOMAIN GotAddr
Addresses == 0 .. Space - 1
Relocations ==
    [type : Types, off : Nat, sym : Symbols, add : Int, label : Nat \X Nat, secsym : BOOLEAN]

\* gas emits SET_ULEB128 with its SUB_ULEB128; one left alone at the end of a
\* section the linker drops.
NoLoneSet(l) ==
    \A i \in 1 .. Len(l) : l[i].type = "set" => i < Len(l) /\ l[i + 1].type \in {"set", "sub"}

ASSUME WordsAssumption ==
    /\ Space \in Nat \ {0} /\ R \in Nat \ {0} /\ R % 2 = 0 /\ Space % R = 0
    /\ GotAddr \in [Symbols -> Addresses]

ASSUME LinkersAssumption ==
    \A l \in Linkers :
       /\ l.span \in 1 .. Space
       /\ l.values \subseteq [Symbols -> Addresses]
       /\ \A p \in l.programs :
            /\ p \in Seq([base : Nat, relocs : Seq(Relocations)])
            /\ \A s \in 1 .. Len(p) : NoLoneSet(p[s].relocs)

VARIABLES
    span,     \* the linker's
    prog,     \* the input sections
    value,    \* value of each symbol
    sec, at,  \* the section and the relocation the walk is at
    hi,       \* pcrel_relocs.hi_relocs: address :> [value, type]
    lo,       \* pcrel_relocs.lo_relocs, the last one first
    uleb,     \* uleb128_set_rel: its index, or 0
    got,      \* GOT entries: [done, val], done: the low bit of the offset
    code,     \* what was written: <<section, index>> :> [op, imm]
    unresolved  \* an error was reported (config.make_executable)

relocVars == <<span, prog, value, sec, at, hi, lo, uleb, got, code, unresolved>>

input == <<span, prog, value>>

None == [x \in {} |-> x]

RelocInit ==
    /\ \E l \in Linkers : span = l.span /\ prog \in l.programs /\ value \in l.values
    /\ sec = 1 /\ at = 1
    /\ hi = None /\ lo = << >> /\ uleb = 0
    /\ got = [s \in Symbols |-> [done |-> FALSE, val |-> 0]]
    /\ code = None /\ unresolved = FALSE

---------------------------------------------------------------------------
(* Arithmetic of addresses *)

Wrap(x) == x % Space
Signed(x) == LET y == x % span IN IF y < span \div 2 THEN y ELSE y - span

\* RISCV_CONST_HIGH_PART, VALID_UTYPE_IMM, ENCODE_ITYPE_IMM as read back.
HighPart(x) == LET y == Wrap(x + R \div 2) IN y - (y % R)
ValidUtype(x) == Wrap(Signed(x)) = x
LowImm(x) == LET y == x % R IN IF y < R \div 2 THEN y ELSE y - R

---------------------------------------------------------------------------
(* The walk *)

Walking == sec <= Len(prog) /\ at <= Len(prog[sec].relocs)
Rel == prog[sec].relocs[at]
Pc == Wrap(prog[sec].base + Rel.off)
AddressOf(label) == Wrap(prog[label[1]].base + label[2])

\* The tables are made for a section and freed at its end.
NextSection ==
    /\ sec' = sec + 1 /\ at' = 1
    /\ hi' = None /\ lo' = << >> /\ uleb' = 0

Fail ==
    /\ unresolved' = TRUE
    /\ NextSection
    /\ UNCHANGED <<input, code>>

Advance == at' = at + 1 /\ UNCHANGED <<input, sec, unresolved>>

Write(i, op, imm) ==
    [k \in DOMAIN code \cup {<<sec, i>>} |->
        IF k = <<sec, i>> THEN [op |-> op, imm |-> imm] ELSE code[k]]

\* riscv_zero_pcrel_hi_reloc: whether the auipc becomes a lui.
ZeroPcrelHi(addr) ==
    span < Space /\ ~ ValidUtype(HighPart(Wrap(addr - Pc))) /\ ValidUtype(HighPart(addr))

\* riscv_record_pcrel_hi_reloc
\* Mutant: the value of a lui is recorded relative to the pc too.
RecordHi_pc(v, absolute) ==
    hi' = [a \in DOMAIN hi \cup {Pc} |->
             IF a = Pc THEN [value |-> Wrap(v - Pc), type |-> Rel.type] ELSE hi[a]]
RecordHi(v, absolute) ==
    hi' = [a \in DOMAIN hi \cup {Pc} |->
             IF a = Pc THEN [value |-> IF absolute THEN v ELSE Wrap(v - Pc), type |-> Rel.type]
             ELSE hi[a]]

\* perform_relocation of the high part of v.
PerformHi(v, absolute) ==
    LET x == IF absolute THEN v ELSE Wrap(v - Pc)
    IN IF span = Space \/ ValidUtype(HighPart(x))
         THEN /\ code' = Write(at, IF absolute THEN "lui" ELSE "auipc", HighPart(x))
              /\ RecordHi(v, absolute)
              /\ Advance /\ UNCHANGED <<lo, uleb>>
         ELSE Fail

PcrelHi ==
    LET v == value[Rel.sym]
    IN /\ Walking /\ Rel.type = "hi"
       /\ PerformHi(Wrap(v + Rel.add), ZeroPcrelHi(v))
       /\ UNCHANGED got

\* The entry is initialised once; the flag is the low bit of its offset.
GotAfter(s) == IF got[s].done THEN got[s] ELSE [done |-> TRUE, val |-> value[s]]

GotHi ==
    LET g == GotAddr[Rel.sym]
    IN /\ Walking /\ Rel.type = "got"
       /\ got' = [got EXCEPT ![Rel.sym] = GotAfter(Rel.sym)]
       /\ IF Rel.add # 0 THEN Fail ELSE PerformHi(g, ZeroPcrelHi(g))

\* riscv_record_pcrel_lo_reloc
PcrelLo ==
    /\ Walking /\ Rel.type = "lo"
    /\ IF Rel.secsym /\ Rel.add # 0 THEN Fail
       ELSE /\ lo' = <<at>> \o lo
            /\ Advance /\ UNCHANGED <<hi, uleb, code>>
    /\ UNCHANGED got

SetUleb128 ==
    /\ Walking /\ Rel.type = "set"
    /\ IF uleb # 0 THEN Fail
       ELSE uleb' = at /\ Advance /\ UNCHANGED <<hi, lo, code>>
    /\ UNCHANGED got

\* The addend of SUB_ULEB128 is ignored.
SubUleb128 ==
    /\ Walking /\ Rel.type = "sub"
    /\ IF uleb = 0 \/ prog[sec].relocs[uleb].off # Rel.off THEN Fail
       ELSE LET set == prog[sec].relocs[uleb]
            IN /\ code' = Write(at, "uleb", Wrap(value[set.sym] - value[Rel.sym] + set.add))
               /\ uleb' = 0
               /\ Advance /\ UNCHANGED <<hi, lo>>
    /\ UNCHANGED got

---------------------------------------------------------------------------
(* riscv_resolve_pcrel_lo_relocs, from the last relocation to the first *)

LoRel == prog[sec].relocs[lo[1]]
LoAt == AddressOf(LoRel.label)

Dangerous ==
    \/ LoAt \notin DOMAIN hi
    \/ hi[LoAt].type = "got" /\ LoRel.add # 0
    \/ HighPart(hi[LoAt].value) # HighPart(Wrap(hi[LoAt].value + LoRel.add))

\* Mutant: a missing or unsuitable high part ends the section in silence.
ResolveLo_stops ==
    /\ sec <= Len(prog) /\ at > Len(prog[sec].relocs)
    /\ IF lo = << >> \/ Dangerous THEN NextSection /\ UNCHANGED <<input, code, unresolved>>
       ELSE /\ code' = Write(lo[1], "lo", LowImm(hi[LoAt].value + LoRel.add))
            /\ lo' = Tail(lo)
            /\ UNCHANGED <<input, sec, at, hi, uleb, unresolved>>
    /\ UNCHANGED got
ResolveLo ==
    /\ sec <= Len(prog) /\ at > Len(prog[sec].relocs)
    /\ IF lo = << >> THEN NextSection /\ UNCHANGED <<input, code, unresolved>>
       ELSE IF Dangerous THEN Fail
       ELSE /\ code' = Write(lo[1], "lo", LowImm(hi[LoAt].value + LoRel.add))
            /\ lo' = Tail(lo)
            /\ UNCHANGED <<input, sec, at, hi, uleb, unresolved>>
    /\ UNCHANGED got

Stopped == sec > Len(prog) /\ UNCHANGED relocVars

RelocNext ==
    \/ PcrelHi \/ GotHi \/ PcrelLo \/ SetUleb128 \/ SubUleb128 \/ ResolveLo \/ Stopped

RelocSpec == RelocInit /\ [][RelocNext]_relocVars

---------------------------------------------------------------------------
(* Properties *)

Linked == sec > Len(prog) /\ ~ unresolved
Relocs == UNION {{<<s, i>> : i \in 1 .. Len(prog[s].relocs)} : s \in 1 .. Len(prog)}
At(k) == prog[k[1]].relocs[k[2]]
PcOf(k) == Wrap(prog[k[1]].base + At(k).off)

IsHigh(k) == At(k).type \in {"hi", "got"}

\* The address that the high part h and the low part k give when executed, and
\* the one asked for.
Executed(h, k) ==
    Wrap((IF code[h].op = "lui" THEN 0 ELSE PcOf(h)) + Signed(code[h].imm) + code[k].imm)
Wanted(h, k) ==
    IF At(h).type = "got" THEN GotAddr[At(h).sym]
    ELSE Wrap(value[At(h).sym] + At(h).add + At(k).add)

PairOf(h, k) ==
    IsHigh(h) /\ PcOf(h) = AddressOf(At(k).label) /\ Executed(h, k) = Wanted(h, k)

\* perform_relocation of a hi and its lo: in a program that links, the two
\* instructions executed give the address of the symbol plus both addends, or
\* that of its GOT entry, whatever their order, and whether an auipc or a lui.
PairGivesAddress ==
    Linked => \A k \in Relocs : At(k).type = "lo" => \E h \in Relocs : PairOf(h, k)

\* A program that links has every GOT entry that it uses filled with the
\* value of its symbol.
GotFilled ==
    Linked => \A k \in Relocs : At(k).type = "got" => got[At(k).sym].val = value[At(k).sym]

\* No relocation is left out of a program that links: what relocate_section
\* did not apply, it reported ("We already reported the error via a callback").
EachApplied ==
    Linked => \A k \in Relocs : At(k).type # "set" => k \in DOMAIN code

\* The SET_ULEB128 j and the SUB_ULEB128 k of one uleb128.
UlebOf(j, k) ==
    At(j).type = "set" /\ At(k).type = "sub" /\ j[1] = k[1] /\ At(j).off = At(k).off

\* "it must be paired with": a program that links has the value of both
\* labels in each uleb128, from a SET and a SUB at its offset.
UlebPaired ==
    Linked =>
        /\ \A k \in Relocs : At(k).type = "sub" =>
              \E j \in Relocs :
                  UlebOf(j, k) /\ code[k].imm = Wrap(value[At(j).sym] + At(j).add - value[At(k).sym])
        /\ \A j \in Relocs : At(j).type = "set" => \E k \in Relocs : UlebOf(j, k)

\* riscv_elf_relocate_section leaves nothing of a program that links undone:
\* every relocation is applied, every uleb128 has both of its labels, and
\* every GOT entry in use is filled by the first use of it.
AllApplied == EachApplied /\ UlebPaired /\ GotFilled

---------------------------------------------------------------------------
(* The inductive invariant: what the walk has done behind it, as long as no *)
(* error was reported.                                                      *)

Passed(k) == k[1] < sec \/ (k[1] = sec /\ k[2] < at)
Waits(k) == k[1] = sec /\ \E n \in 1 .. Len(lo) : lo[n] = k[2]

InputOK ==
    /\ span \in 1 .. Space
    /\ value \in [Symbols -> Addresses]
    /\ prog \in Seq([base : Nat, relocs : Seq(Relocations)])
    /\ \A s \in 1 .. Len(prog) : NoLoneSet(prog[s].relocs)

\* The walk is at a relocation or at the end of a section; the list of low
\* parts holds each of those behind it at most once; only what is behind it
\* and not on the list is written.
WalkOK ==
    /\ sec \in Nat \ {0} /\ at \in Nat \ {0} /\ uleb \in Nat /\ unresolved \in BOOLEAN
    /\ sec <= Len(prog) => at <= Len(prog[sec].relocs) + 1
    /\ lo \in Seq(Nat)
    /\ \A n \in 1 .. Len(lo) : lo[n] \in 1 .. at - 1 /\ prog[sec].relocs[lo[n]].type = "lo"
    /\ \A m, n \in 1 .. Len(lo) : lo[m] = lo[n] => m = n
    /\ \A k \in DOMAIN code : k \in Nat \X Nat /\ Passed(k) /\ ~ Waits(k)

\* A GOT entry is either untouched or holds its symbol's value.
GotOK ==
    /\ got \in [Symbols -> [done : BOOLEAN, val : Addresses]]
    /\ \A s \in Symbols : got[s].done => got[s].val = value[s]

\* What the instruction of a high part is to hold, as a lui or an auipc.
Target(h) ==
    IF At(h).type = "got" THEN GotAddr[At(h).sym] ELSE Wrap(value[At(h).sym] + At(h).add)
HiValue(h, op) == IF op = "lui" THEN Target(h) ELSE Wrap(Target(h) - PcOf(h))

HighDone(k) ==
    /\ k \in DOMAIN code /\ code[k].imm = HighPart(HiValue(k, code[k].op))
    /\ span = Space \/ ValidUtype(code[k].imm)
    /\ At(k).type = "got" => got[At(k).sym].done
HighsDone == \A k \in Relocs : Passed(k) /\ IsHigh(k) => HighDone(k)

\* The table of high parts tells what was written at each of its addresses.
TableOK ==
    \A a \in DOMAIN hi : \E h \in Relocs :
        /\ Passed(h) /\ IsHigh(h) /\ PcOf(h) = a
        /\ hi[a] = [value |-> HiValue(h, code[h].op), type |-> At(h).type]

LowDone(k) == k \in DOMAIN code /\ \E h \in Relocs : Passed(h) /\ PairOf(h, k)
LowsDone == \A k \in Relocs : Passed(k) /\ At(k).type = "lo" => Waits(k) \/ LowDone(k)

SubDone(k) ==
    /\ k \in DOMAIN code
    /\ \E j \in Relocs :
          UlebOf(j, k) /\ code[k].imm = Wrap(value[At(j).sym] + At(j).add - value[At(k).sym])
UlebDone ==
    /\ uleb # 0 =>
          sec <= Len(prog) /\ at = uleb + 1 /\ prog[sec].relocs[uleb].type = "set"
    /\ \A k \in Relocs : Passed(k) /\ At(k).type = "sub" => SubDone(k)
    /\ \A j \in Relocs : Passed(j) /\ At(j).type = "set" =>
          j = <<sec, uleb>> \/ \E k \in Relocs : UlebOf(j, k)

AllDone == HighsDone /\ TableOK /\ LowsDone /\ UlebDone

RelocInv == InputOK /\ WalkOK /\ GotOK /\ (~ unresolved => AllDone)
=============================================================================
