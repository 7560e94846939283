----------------------------- MODULE GasFixups -----------------------------
(***************************************************************************)
(* The assembler's last pass over the fixups of a section (write.c          *)
(* fixup_segment, tc-riscv.c md_apply_fix), for the pairs auipc %pcrel_hi / *)
(* addi, load or store %pcrel_lo, and the link that follows it.             *)
(*                                                                         *)
(* A %pcrel_lo names the label of its auipc.  The assembler records every   *)
(* auipc of a local target in a table keyed by address, resolves the low    *)
(* part from that table and, when relaxation is off at the end of the file, *)
(* drops the relocations.  Whatever it leaves is resolved by the linker,    *)
(* which may have shortened the calls that carry R_RISCV_RELAX.             *)
(*                                                                         *)
(* Addresses count words: an auipc, addi, load or store is one word, a call *)
(* two and one after the linker relaxed it.                                 *)
(***************************************************************************)
EXTENDS Integers, Sequences

CONSTANTS
  MaxStmts,      \* how many instructions a file has
  StoreTargets,  \* targets whose address a store may use
  LoFirst,       \* may a %pcrel_lo come before its %pcrel_hi
  Narrowing,     \* may a file end in norelax after instructions under relax
  FarAddress,    \* address of the symbol of another section
  TopRange, LowRange   \* values of the top and the low bits of a low part (2^7, 2^5)

Sections == <<"text", "init">>
Radix == TopRange * LowRange

(* "end" is a local label at the end of the section, "glob" a global one at  *)
(* its start, "far" a symbol of another section.                            *)
Targets == {"end", "glob", "far"}

ASSUME FixupsAssumption ==
  /\ MaxStmts \in Nat /\ FarAddress \in Int
  /\ StoreTargets \subseteq Targets
  /\ LoFirst \in BOOLEAN /\ Narrowing \in BOOLEAN
  /\ TopRange \in Nat \ {0} /\ LowRange \in Nat \ {0} /\ Radix % 2 = 0

VARIABLES
  doing,    \* "read", "fix", "link", "done"
  relax,    \* riscv_opts.relax
  insns,    \* the instructions of the file with their fixups, in fix order
  table,    \* riscv_pcrel_hi_fixup_hash: address -> entry
  next,     \* the fixup fixup_segment is at
  error     \* the linker's complaint about a %pcrel_lo

fixupVars == <<doing, relax, insns, table, next, error>>

Index == 1 .. Len(insns)
IsLo(i) == insns[i].kind \in {"loI", "loS"}

----------------------------------------------------------------------------
(* Layout *)

Width(insn) == IF insn.kind = "call" /\ ~insn.short THEN 2 ELSE 1

(* The words that each instruction takes of section sec, and their sums.     *)
Room(sec) == [j \in Index |-> IF insns[j].sec = sec THEN Width(insns[j]) ELSE 0]
Sums(w) == LET n[j \in 0 .. Len(w)] == IF j = 0 THEN 0 ELSE n[j - 1] + w[j] IN n

(* Address of instruction i in its section, and the section's end. *)
Address(i) == Sums(Room(insns[i].sec))[i - 1]
SizeOf(sec) == Sums(Room(sec))[Len(insns)]

(* What the symbol of a %pcrel_hi in section sec is worth. *)
SymbolValue(t, sec) ==
  CASE t = "end" -> SizeOf(sec)
    [] t = "glob" -> 0
    [] t = "far" -> FarAddress

ConstHighPart(v) == ((v + Radix \div 2) \div Radix) * Radix

(* The immediate of a low part: the bits that both formats keep on top, and  *)
(* the ones an I-type keeps where an S-type keeps its register.             *)
TopBits(v) == (v % Radix) \div LowRange
LowBits(v) == v % LowRange

SignedLow(top, low) == LET u == LowRange * top + low
                       IN IF u >= Radix \div 2 THEN u - Radix ELSE u

----------------------------------------------------------------------------
(* Reading the file *)

Word == [imm |-> 0, top |-> 0, mid |-> 0, bot |-> 0]

NewInsn(kind, sec, target, of) ==
  [kind |-> kind, sec |-> sec, target |-> target, of |-> of,
   tcbit |-> relax, short |-> FALSE, fxdone |-> FALSE, word |-> Word]

(* Sections are written one after the other. *)
SectionOpen(sec) ==
  \A i \in Index : insns[i].sec = Sections[2] => sec = Sections[2]

append_insn(insn) ==
  /\ doing = "read"
  /\ Len(insns) < MaxStmts
  /\ SectionOpen(insn.sec)
  /\ insns' = Append(insns, insn)
  /\ UNCHANGED <<doing, relax, table, next, error>>

PcrelHi(sec, t) == append_insn(NewInsn("hi", sec, t, 0))

(* The low part names the auipc at position k, which may be yet to come. *)
PcrelLo(sec, kind, k) ==
  /\ ~LoFirst => k \in Index
  /\ k \in Index => insns[k].kind = "hi" /\ insns[k].sec = sec
  /\ append_insn(NewInsn(kind, sec, "end", k))

riscv_call(sec) == append_insn(NewInsn("call", sec, "far", 0))

s_riscv_option ==
  /\ doing = "read"
  /\ relax' = ~relax
  /\ UNCHANGED <<doing, insns, table, next, error>>

(* Only files whose low parts have their auipc in their own section, and of  *)
(* the kind that the constants allow.                                       *)
WellFormed ==
  /\ \A i \in Index : IsLo(i) =>
       LET k == insns[i].of
       IN /\ k \in Index
          /\ insns[k].kind = "hi" /\ insns[k].sec = insns[i].sec
          /\ insns[i].kind = "loS" => insns[k].target \in StoreTargets
  /\ ~Narrowing /\ ~relax => \A i \in Index : ~insns[i].tcbit

EndOfFile ==
  /\ doing = "read"
  /\ WellFormed
  /\ doing' = "fix"
  /\ UNCHANGED <<relax, insns, table, next, error>>

----------------------------------------------------------------------------
(* fixup_segment, one fixup at a time *)

IsLocalIn(t, here, sec) == t = "end" /\ here = sec

(* The table after riscv_record_pcrel_fixup: the slot of that address is     *)
(* overwritten.                                                             *)
riscv_record_pcrel_fixup(address, entry) ==
  [a \in DOMAIN table \cup {address} |-> IF a = address THEN entry ELSE table[a]]

ApplyHi(i) ==
  LET insn == insns[i]
      target == SymbolValue(insn.target, insn.sec)
      value == target - Address(i)
  IN IF IsLocalIn(insn.target, insn.sec, insn.sec)
     THEN /\ table' = riscv_record_pcrel_fixup(Address(i),
                        [target |-> target, address |-> Address(i),
                         symbol |-> insn.target, sec |-> insn.sec])
          /\ insns' = [insns EXCEPT ![i].word.imm = ConstHighPart(value),
                                    ![i].fxdone = ~relax]
     ELSE UNCHANGED <<table, insns>>

(* Mutant: the section of the entry's symbol is not looked at. *)
Usable_anysection(i) == Address(insns[i].of) \in DOMAIN table

(* The entry is found by address alone, and used when its symbol is local    *)
(* and of the section being fixed.                                          *)
Usable(i) ==
  LET a == Address(insns[i].of)
  IN a \in DOMAIN table /\ IsLocalIn(table[a].symbol, table[a].sec, insns[i].sec)

(* ENCODE_ITYPE_IMM, for stores as well.  It is or-ed to fields that are 0   *)
(* (the register that a store stores is x0).                                *)
EncodeLo(i, value) ==
  [insns[i].word EXCEPT !.top = TopBits(value), !.mid = LowBits(value)]

ApplyLo(i) ==
  /\ IF Usable(i)
     THEN LET e == table[Address(insns[i].of)]
          IN insns' = [insns EXCEPT ![i].word = EncodeLo(i, e.target - e.address),
                                    ![i].fxdone = ~relax]
     ELSE UNCHANGED insns
  /\ UNCHANGED table

md_apply_fix(i) ==
  IF insns[i].kind = "hi" THEN ApplyHi(i)
  ELSE IF IsLo(i) THEN ApplyLo(i)
  ELSE UNCHANGED <<table, insns>>

fixup_segment ==
  /\ doing = "fix"
  /\ next \in Index
  /\ md_apply_fix(next)
  /\ next' = next + 1
  /\ UNCHANGED <<doing, relax, error>>

WriteObject ==
  /\ doing = "fix"
  /\ next > Len(insns)
  /\ doing' = "link"
  /\ UNCHANGED <<relax, insns, table, next, error>>

----------------------------------------------------------------------------
(* The linker: first the calls that fit are shortened, then what relocations *)
(* are left is applied.                                                     *)

Relaxable == {i \in Index : insns[i].kind = "call" /\ insns[i].tcbit}

RelaxCall(i) ==
  /\ doing = "link"
  /\ i \in Relaxable
  /\ ~insns[i].short
  /\ insns' = [insns EXCEPT ![i].short = TRUE]
  /\ UNCHANGED <<doing, relax, table, next, error>>

Value(i) == SymbolValue(insns[i].target, insns[i].sec) - Address(i)

(* The contents of instruction i once its relocation, if any, is applied.    *)
LinkedWord(i) ==
  LET insn == insns[i]
      v == Value(insn.of)
  IN CASE insn.fxdone \/ insn.kind = "call" -> insn.word
       [] ~insn.fxdone /\ insn.kind = "hi" ->
            [insn.word EXCEPT !.imm = ConstHighPart(Value(i))]
       [] ~insn.fxdone /\ insn.kind = "loI" ->
            [insn.word EXCEPT !.top = TopBits(v), !.mid = LowBits(v)]
       [] ~insn.fxdone /\ insn.kind = "loS" ->
            [insn.word EXCEPT !.top = TopBits(v), !.bot = LowBits(v)]

(* A low part whose auipc has no relocation left is an error. *)
MissingHi(i) == IsLo(i) /\ ~insns[i].fxdone /\ insns[insns[i].of].fxdone

relocate_section ==
  /\ doing = "link"
  /\ doing' = "done"
  /\ error' = \E i \in Index : MissingHi(i)
  /\ insns' = IF error' THEN insns   \* the link fails and nothing is kept
             ELSE [i \in Index |-> [insns[i] EXCEPT !.word = LinkedWord(i)]]
  /\ UNCHANGED <<relax, table, next>>

----------------------------------------------------------------------------
FixupsInit ==
  /\ doing = "read"
  /\ relax \in BOOLEAN
  /\ insns = << >>
  /\ table = << >>
  /\ next = 1
  /\ error = FALSE

FixupsNext ==
  \/ \E s \in 1 .. 2, t \in Targets : PcrelHi(Sections[s], t)
  \/ \E s \in 1 .. 2, kind \in {"loI", "loS"}, k \in 1 .. MaxStmts :
       PcrelLo(Sections[s], kind, k)
  \/ \E s \in 1 .. 2 : riscv_call(Sections[s])
  \/ s_riscv_option
  \/ EndOfFile
  \/ fixup_segment
  \/ WriteObject
  \/ \E i \in 1 .. MaxStmts : RelaxCall(i)
  \/ relocate_section

FixupsSpec == FixupsInit /\ [][FixupsNext]_fixupVars

----------------------------------------------------------------------------
(* Properties *)

(* The immediate that instruction i executes with. *)
LowImmediate(i) ==
  SignedLow(insns[i].word.top,
            IF insns[i].kind = "loS" THEN insns[i].word.bot ELSE insns[i].word.mid)

PairGives ==
  doing = "done" /\ ~error =>
    \A i \in Index : IsLo(i) =>
      LET h == insns[i].of
      IN Address(h) + insns[h].word.imm + LowImmediate(i)
           = SymbolValue(insns[h].target, insns[h].sec)

(* Filling in a low part changes the immediate and never the register that   *)
(* a store stores.                                                          *)
StoredRegister ==
  \A i \in Index : insns[i].kind = "loS" => insns[i].word.mid = 0

(* In a linked program an auipc and the instruction that takes its low part  *)
(* from it address the auipc's symbol, wherever relaxation moved the two     *)
(* and whoever, assembler or linker, filled in either half (md_apply_fix).   *)
(* The assembler does not drop the relocation of an auipc that a relocation  *)
(* it keeps still needs: the linker finds a %pcrel_hi for every %pcrel_lo.   *)
(* A store keeps its register.                                              *)
PairAddresses == PairGives /\ ~error /\ StoredRegister

----------------------------------------------------------------------------
(* An inductive invariant, for the files that PairAddresses is about: each   *)
(* low part behind its auipc, relaxation at the end where an instruction     *)
(* was relaxable, no store with a local label.                              *)

Ordinary == ~LoFirst /\ ~Narrowing /\ "end" \notin StoreTargets

Instructions ==
  [kind : {"hi", "loI", "loS", "call"}, sec : {"text", "init"}, target : Targets, of : Nat,
   tcbit : BOOLEAN, short : BOOLEAN, fxdone : BOOLEAN,
   word : [imm : Int, top : Int, mid : Int, bot : Int]]

FixupsTypeOK ==
  /\ doing \in {"read", "fix", "link", "done"} /\ relax \in BOOLEAN
  /\ insns \in Seq(Instructions) /\ next \in 1 .. Len(insns) + 1

Ordered ==
  /\ \A i, j \in Index : i < j /\ insns[i].sec = "init" => insns[j].sec = "init"
  /\ \A i \in Index : IsLo(i) =>
       LET h == insns[i].of
       IN h \in 1 .. i - 1 /\ insns[h].kind = "hi" /\ insns[h].sec = insns[i].sec

IsLocalHi(i) == insns[i].kind = "hi" /\ insns[i].target = "end"

(* An instruction before and after md_apply_fix.                            *)
Untouched(i) == insns[i].word = Word /\ ~insns[i].fxdone
Filled(i) ==
  LET h == insns[i].of
  IN IF IsLocalHi(i)
     THEN insns[i].word = [Word EXCEPT !.imm = ConstHighPart(Value(i))] /\ insns[i].fxdone = ~relax
     ELSE IF IsLo(i) /\ IsLocalHi(h)
     THEN /\ insns[i].word = [Word EXCEPT !.top = TopBits(Value(h)), !.mid = LowBits(Value(h))]
          /\ insns[i].fxdone = ~relax
     ELSE Untouched(i)
FilledTo(n) == \A i \in Index : ~insns[i].short /\ IF i < n THEN Filled(i) ELSE Untouched(i)

(* An entry of the table is an auipc's; it is the one of the section at hand *)
(* unless the next section has come.                                        *)
EntryOf(i) ==
  [target |-> SizeOf(insns[i].sec), address |-> Address(i), symbol |-> "end", sec |-> insns[i].sec]
TableOK ==
  /\ \A a \in DOMAIN table :
       \E i \in 1 .. next - 1 : IsLocalHi(i) /\ Address(i) = a /\ table[a] = EntryOf(i)
  /\ \A i \in 1 .. next - 1 : IsLocalHi(i) =>
       /\ Address(i) \in DOMAIN table
       /\ \/ table[Address(i)].sec = insns[i].sec
          \/ \E j \in i .. next - 1 : insns[j].sec # insns[i].sec

FixupsInv ==
  /\ FixupsTypeOK /\ Ordered
  /\ doing = "read" => next = 1
  /\ doing # "read" => WellFormed
  /\ doing \in {"read", "fix"} => TableOK /\ FilledTo(next)
  /\ doing = "link" => IF relax THEN \A i \in Index : ~insns[i].fxdone
                       ELSE FilledTo(Len(insns) + 1)
  /\ PairAddresses
============================================================================
