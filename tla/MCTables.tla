------------------------------ MODULE MCTables ------------------------------
(***************************************************************************)
(* The linker's walks over its input files, in small links: MergeAttrs;    *)
(* RelocSection as in the 64- and the 32-bit linker; GotPlt with one       *)
(* symbol and with three.  walk says which of them a behaviour is about;   *)
(* the variables of the others stay idle.                                  *)
(***************************************************************************)
EXTENDS MergeAttrs, RelocSection, TLC

VARIABLES walk,
          link, refs, sym, phase, k, size, count, last, rela, broken   \* GotPlt, with got and value

ownVars == <<span, prog, sec, at, hi, lo, uleb, code, unresolved>>
gotVars == <<link, refs, sym, phase, k, size, count, last, rela, broken>>
Idle == "idle"
NoProgram == <<[base |-> 0, relocs |-> << >>]>>
IdleReloc ==
  /\ span = Space /\ prog = NoProgram /\ sec = 1 /\ at = 1 /\ hi = None
  /\ lo = << >> /\ uleb = 0 /\ code = None /\ unresolved = FALSE
IdleGot ==
  /\ link = Idle /\ refs = Idle /\ sym = Idle /\ phase = Idle /\ k = Idle
  /\ size = Idle /\ count = Idle /\ last = Idle /\ rela = Idle /\ broken = Idle

---------------------------------------------------------------------------
(* MergeAttrs: files that differ in base, width, extensions and their      *)
(* versions, flags, privileged spec and stack alignment; some have no      *)
(* attributes, no code, no ISA string or one that cannot be read.          *)
Str(w, exts) == [kind |-> "isa", xlen |-> w, exts |-> exts]

rv32i == [i |-> 2]

Obj(arch) == [attrs |-> TRUE, arch |-> arch, priv |-> 0, unaligned |-> FALSE, stack |-> 0,
              target |-> 32, code |-> TRUE, rvc |-> FALSE, tso |-> FALSE, rve |-> FALSE, float |-> "soft"]

plain == Obj(Str(32, rv32i @@ [m |-> 2]))
comp == [Obj(Str(32, rv32i @@ [c |-> 2] @@ [zicsr |-> 2])) EXCEPT !.rvc = TRUE, !.priv = 2]
newer == [Obj(Str(32, [i |-> 3] @@ [c |-> 1] @@ [d |-> 2])) EXCEPT !.priv = 1, !.tso = TRUE]
double == [Obj(Str(32, rv32i @@ [d |-> 3] @@ [f |-> 2])) EXCEPT !.float = "double", !.stack = 16]
base_e == [Obj(Str(32, [e |-> 1])) EXCEPT !.rve = TRUE]
wide == [Obj(Str(64, rv32i)) EXCEPT !.rvc = TRUE]
bad == [Obj(Empty) EXCEPT !.stack = 8]
data == [Obj(Null) EXCEPT !.code = FALSE, !.stack = 16, !.unaligned = TRUE, !.float = "double"]
other == [Obj(Str(64, rv32i)) EXCEPT !.target = 64]
old == [Obj(Null) EXCEPT !.attrs = FALSE, !.rvc = TRUE]
inx == Obj(Str(32, rv32i @@ [zfinx |-> 1]))
Inputs == {plain, comp, newer, double, base_e, wide, bad, data, old, other, inx}

---------------------------------------------------------------------------
(* RelocSection: two input sections, one with up to three relocations of     *)
(* all kinds, one with an access through the GOT or a %pcrel_lo for the      *)
(* first.                                                                    *)
Syms == {"a", "w"}   \* w: undefined and weak
ValuesOf(samples) == {[s \in Syms |-> IF s = "a" THEN v ELSE 0] : v \in samples}
MCGotAddr == [s \in Syms |-> IF s = "a" THEN 40 ELSE 44]

Reloc(t, o, s, a) ==
    [type |-> t, off |-> o, sym |-> s, add |-> a, label |-> <<1, 0>>, secsym |-> FALSE]
Lo(o, l, a, x) ==
    [type |-> "lo", off |-> o, sym |-> "a", add |-> a, label |-> l, secsym |-> x]

Ulebs(o) == {Reloc(t, o, s, a) : t \in {"set", "sub"}, s \in Syms, a \in {0, 1}}
Pairs(o, addends) ==
    {Reloc(t, o, s, a) : t \in {"hi", "got"}, s \in Syms, a \in addends}
      \cup {Lo(o, <<1, l>>, a, x) : l \in {0, 4}, a \in addends, x \in BOOLEAN}
At1(o) == Pairs(o, {0, 3}) \cup Ulebs(o)
Third == Pairs(8, {0}) \cup {r \in Ulebs(8) : r.add = 0}

\* A uleb128 has both of its relocations at one offset.
Lists64 ==
    {<<r>> : r \in At1(0)} \cup {<<r, s>> : r \in At1(0), s \in At1(4)}
      \cup {<<r, s, t>> : r \in At1(0), s \in At1(4), t \in Third}
      \cup {<<r, s>> : r, s \in Ulebs(4)}
Addends32 == {-5, -1, 0, 3}
Lists32 ==
    {<<r>> : r \in Pairs(0, Addends32)}
      \cup {<<r, s>> : r \in Pairs(0, Addends32), s \in Pairs(4, Addends32)}

Seconds ==
    {<<Reloc("got", 0, "a", 0), Lo(4, <<2, 0>>, 0, FALSE)>>,
     <<Lo(0, <<1, 0>>, 0, FALSE)>>, << >>}

ProgramsOf(bases, lists) ==
    {<<[base |-> b, relocs |-> l], [base |-> b + 16, relocs |-> s]>> :
        b \in bases, l \in {x \in lists : NoLoneSet(x)}, s \in Seconds}
MCLinkers ==
    {[span |-> 64, programs |-> ProgramsOf({48, 100}, Lists64), values |-> ValuesOf({4, 68, 127})],
     [span |-> 128, programs |-> ProgramsOf({0, 48, 100}, Lists32),
      values |-> ValuesOf({0, 3, 4, 52, 53, 67, 68, 92, 99, 104, 124, 127})]}

---------------------------------------------------------------------------
(* GotPlt: every kind of symbol with up to three relocs in every kind of     *)
(* link, and three symbols that share the sections.                          *)
AllLinks ==
  {[mode |-> m, undefweak |-> u, nocopy |-> FALSE] :
     m \in {"static", "pde", "pie", "dll", "symbolic"}, u \in -1..1}
    \cup {[mode |-> "pde", undefweak |-> -1, nocopy |-> TRUE]}
MixLinks == {l \in AllLinks : l.undefweak = -1}

Kind(b, t, d, v, sh) == [bind |-> b, type |-> t, def |-> d, vis |-> v, shared |-> sh]
GlobalKinds ==
  {Kind("global", t, d, v, sh) : t \in {"func", "object", "tls"},
     d \in {"regular", "weak", "undefweak", "script", "undefined"},
     v \in {"default", "hidden", "protected"}, sh \in BOOLEAN}
    \cup {Kind("global", t, "dynamic", "default", FALSE) : t \in {"func", "object", "tls"}}
    \cup {Kind("global", "ifunc", d, v, sh) : d \in {"regular", "weak"},
             v \in {"default", "hidden", "protected"}, sh \in BOOLEAN}
Local(t) == Kind("local", t, "regular", "default", FALSE)
Global(t, d) == Kind("global", t, d, "default", FALSE)
LocalKinds == {Local(t) : t \in {"object", "tls", "ifunc"}}

(* A reloc of check_relocs, and the section it is in.                        *)
RefList ==
  <<<<"GD", "text">>, <<"IE", "text">>, <<"GOT", "text">>, <<"CALL", "text">>,
    <<"PCREL", "text">>, <<"HI", "text">>, <<"W", "data">>, <<"W", "rodata">>>>

(* Up to n relocs, in the order of RefList, repetitions too.                 *)
RefSeqs(n) ==
  {[j \in 1..m |-> RefList[f[j]]] :
     <<m, f>> \in {<<m, f>> \in (1..n) \X [1..n -> DOMAIN RefList] :
                     \A i, j \in 1..n : i <= j => f[i] <= f[j]}}

Fits(kd, x) ==
  /\ x[1] \in {"GD", "IE"} => kd.type = "tls"
  /\ kd.type = "tls" => x[1] \in {"GD", "IE", "GOT"}
  /\ x[1] = "CALL" => kd.type # "object"

Use(kd, xs) == [kd |-> kd, xs |-> xs]
RelocsOf(u) == {u.xs[j][1] : j \in DOMAIN u.xs}

(* Local symbols have GD or IE relocs: with both the linker reserves a word  *)
(* too few.                                                                  *)
OneUses ==
  {u \in {Use(kd, xs) : kd \in GlobalKinds \cup LocalKinds, xs \in RefSeqs(3)} :
     /\ \A j \in DOMAIN u.xs : Fits(u.kd, u.xs[j])
     /\ ~(u.kd.bind = "local" /\ {"GD", "IE"} \subseteq RelocsOf(u))}
AnyMix(l, us) == TRUE

GD == RefList[1]
IE == RefList[2]
GOT == RefList[3]
CALL == RefList[4]
DataWord == RefList[7]
ConstWord == RefList[8]
MixUses ==
  {Use(Local("tls"), <<GD>>), Use(Local("tls"), <<IE>>),
   Use(Global("tls", "regular"), <<GD, IE>>),
   Use(Kind("global", "tls", "regular", "hidden", FALSE), <<GD>>),
   Use(Local("object"), <<GOT, DataWord>>),
   Use(Global("func", "dynamic"), <<CALL, GOT>>),
   Use(Global("object", "dynamic"), <<ConstWord>>),
   Use(Global("object", "regular"), <<GOT>>),
   Use(Global("func", "undefweak"), <<GOT, DataWord>>),
   Use(Global("object", "script"), <<GOT>>),
   Use(Global("object", "abs"), <<DataWord>>),
   Use(Global("ifunc", "regular"), <<CALL>>),
   Use(Global("ifunc", "regular"), <<GOT>>),
   Use(Global("ifunc", "regular"), <<DataWord, CALL, GOT>>),
   Use(Global("ifunc", "regular"), <<DataWord>>),
   Use(Local("ifunc"), <<CALL>>), Use(Local("ifunc"), <<GOT>>)}

(* Left out, as the linker gets them wrong: static links with a pointer to   *)
(* one ifunc and a PLT entry of another, absolute symbols with -Bsymbolic.   *)
PointerOnly(u) == u.kd.type = "ifunc" /\ RelocsOf(u) = {"W"}
HasPlt(u) == u.kd.type = "ifunc" /\ "CALL" \in RelocsOf(u)
MixOnly(l, us) ==
  /\ l.mode = "static" => ~(\E s, t \in DOMAIN us : PointerOnly(us[s]) /\ HasPlt(us[t]))
  /\ l.mode = "symbolic" => \A s \in DOMAIN us : us[s].kd.def # "abs"

G1 == INSTANCE GotPlt WITH Links <- AllLinks, Uses <- OneUses, Symbols <- 1, Considered <- AnyMix
G3 == INSTANCE GotPlt WITH Links <- MixLinks, Uses <- MixUses, Symbols <- 3, Considered <- MixOnly

---------------------------------------------------------------------------
MCInit ==
  /\ Init
  /\ \/ walk = "merge" /\ IdleReloc /\ IdleGot /\ got = Idle /\ value = Idle
     \/ walk = "reloc" /\ RelocInit /\ IdleGot
     \/ walk = "got1" /\ G1!Init /\ IdleReloc
     \/ walk = "got3" /\ G3!Init /\ IdleReloc

\* The command line has no further file.
NoMoreFiles == Cardinality(merged) = MaxInputs /\ UNCHANGED vars

MCNext ==
  /\ UNCHANGED walk
  /\ \/ walk = "merge" /\ (Next \/ NoMoreFiles) /\ UNCHANGED <<ownVars, gotVars, got, value>>
     \/ walk = "reloc" /\ RelocNext /\ UNCHANGED <<vars, gotVars>>
     \/ walk = "got1" /\ G1!Next /\ UNCHANGED <<vars, ownVars>>
     \/ walk = "got3" /\ G3!Next /\ UNCHANGED <<vars, ownVars>>

MCSpec == MCInit /\ [][MCNext]_<<walk, vars, relocVars, gotVars>>

\* riscv_elf_append_rela and bfd_put do not check: every entry written lies in
\* the room the sizing walks reserved, over no other entry, and in a GOT word
\* of its own symbol.
\* No BFD_ASSERT, abort or null pointer of the walks is met, and
\* finish_dynamic_symbol finds what the walks before it should have arranged.
RoomSuffices ==
  /\ walk = "got1" => G1!WritesFit /\ G1!EntriesKept /\ G1!NoInternalError
  /\ walk = "got3" => G3!WritesFit /\ G3!EntriesKept /\ G3!SlotsApart /\ G3!NoInternalError

\* Once the dynamic linker has applied the relocs, every word and call of a
\* link without an error means the symbol it should.
RunTimeRight ==
  /\ walk = "got1" => G1!RunTimeRight
  /\ walk = "got3" => G3!RunTimeRight
=============================================================================
