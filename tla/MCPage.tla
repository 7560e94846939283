------------------------------- MODULE MCPage -------------------------------
(***************************************************************************)
(* The page at work in small instances: the 32-bit linker's wrapper with   *)
(* two factory calls and two argument arrays, or one of the two objdump    *)
(* wrappers with three runs.  what says which; the other one stays in its  *)
(* initial state.                                                          *)
(***************************************************************************)
EXTENDS WebTool, TLC

CONSTANTS m1, m2, j1, j2

Symmetric == Permutations({m1, m2}) \cup Permutations({j1, j2})

VARIABLES what, islib, section, text, data, tags, entry, file, at, pc, ended, runs, cut

dumpVars == <<islib, section, text, data, tags, entry, file, at, pc, ended, runs, cut>>

-----------------------------------------------------------------------------
(* Listings: a text section with one or two functions, one of them called  *)
(* like an address; a data section with no, one or two labels, whose words *)
(* may read as hexadecimal; with or without the attributes at the end.     *)
L(kind, addr, val, asm, says, hex) ==
  [kind |-> kind, addr |-> addr, val |-> val, asm |-> asm, says |-> says, hex |-> hex]
Other(s, says) == L("other", "", s, "", says, FALSE)
Section(s) == <<L("head", "", s, "", {s}, FALSE), Other("", {})>>
Label(a, n) == L("label", a, n, "", {}, FALSE)
Insn(a, i) == L("insn", a, i, "asm", {}, FALSE)
Word(a, w, hex) == L("word", a, w, "", {}, a \in hex)

Functions1 == <<Label("t0", "kernel"), Insn("t0", "i1"), Insn("t4", "i2")>>
Texts ==
  {Section("text") \o f :
     f \in {Functions1, Functions1 \o <<Label("t8", "_main"), Insn("t8", "i1")>>,
            <<Label("t0", "_main"), Insn("t0", "i2"), Label("t4", "kernel"), Word("t4", "w1", {})>>,
            <<Label("t0", "t4"), Insn("t0", "i1"), Label("t4", "kernel"), Insn("t4", "i2")>>}}

Datas(hex) ==
  {Section("data") \o <<Label("d0", "x"), Word("d0", "w1", hex), Word("d4", "w2", hex)>> \o tail :
     tail \in {<< >>, <<Label("dc", "y"), Word("dc", "w1", hex), Word("de", "w2", hex)>>}}

\* What the page knows of x: its last element is that of the second word, of the
\* first, of both (a double), or missing; y stands for a label of the linker.
Value(array, type, minus, words) ==
  [array |-> array, type |-> type, text |-> "source", minus |-> minus, words |-> words]
Pages ==
  {[l \in {"x"} |-> v] :
     v \in {Value(TRUE, "word", TRUE, <<"w2">>), Value(TRUE, "word", TRUE, <<"w1">>),
            Value(TRUE, "double", TRUE, <<"w1", "w2">>), Value(TRUE, "dword", TRUE, <<"w2">>),
            Value(TRUE, "word", FALSE, <<"w2">>), Value(TRUE, "word", FALSE, << >>),
            Value(FALSE, "ascii", FALSE, << >>)}}
Known == [l \in {"x"} |-> Value(TRUE, "word", TRUE, <<"w2">>)]

Input(lib, full, ck, lines, page) ==
  [lib |-> lib, full |-> full, ck |-> ck, lines |-> <<Other("format", {})>> \o lines, page |-> page]
Ends == {<< >>, Section("attr")}

\* Libraries; programs with every text; programs with every data.
Listings ==
  {Input(TRUE, TRUE, FALSE, t \o e, << >>) : t \in Texts, e \in Ends}
    \cup {Input(FALSE, w, c, t \o d \o e, Known) :
            w \in BOOLEAN, c \in BOOLEAN, t \in Texts, d \in {<< >>} \cup Datas({}), e \in Ends}
    \cup {Input(FALSE, w, FALSE, Section("text") \o Functions1 \o d, p) :
            w \in BOOLEAN, p \in Pages,
            d \in UNION {Datas(hex) : hex \in {{"d0"}, {"d4"}, {"de"}, {"d4", "de"}}}}

D32 == INSTANCE DumpTables WITH Wide <- FALSE, Files <- Listings, KernelNames <- {"kernel"},
                                TrapIn <- {"lib", "elf"}, MaxRuns <- 3
D64 == INSTANCE DumpTables WITH Wide <- TRUE, Files <- Listings, KernelNames <- {"kernel"},
                                TrapIn <- {"lib", "elf"}, MaxRuns <- 3

ASSUME DumpAssumption == D32!ConstantsOK /\ D64!ConstantsOK

-----------------------------------------------------------------------------
MCInit == Init /\ D32!Init /\ what \in {"link", "dump32", "dump64"}

MCNext ==
  \/ what = "link" /\ Next /\ UNCHANGED <<what, dumpVars>>
  \/ what = "dump32" /\ D32!Next /\ UNCHANGED <<what, vars>>
  \/ what = "dump64" /\ D64!Next /\ UNCHANGED <<what, vars>>

MCSpec == MCInit /\ [][MCNext]_<<what, vars, dumpVars>>

\* Module.print over a whole listing: the tables of instructions and of data and the
\* entry that the page reads after a run of a program that came to exit are those of
\* this program, whatever was printed before it and however that ended.  Left out, as
\* the code gets them wrong: a run right behind a library run that did not come to
\* exit, which goes on in the library's mode (objdump.js:5707; the run after that is
\* right again); a section in which an address is also a name or a word; and the data
\* of a label with a word that reads as more hexadecimal digits than it has and that
\* the page cannot make up for.
ListingInTables ==
  /\ what = "dump32" => D32!TextTable /\ D32!DataTable /\ D32!EntryIsKernel
  /\ what = "dump64" => D64!TextTable /\ D64!DataTable /\ D64!EntryIsKernel

\* "Disassemble library" (run of objdump.js): after a run of a library that came to
\* exit libtags has the names of its functions, whatever program or library ran before
\* and however it ended; and it has no name twice.
LibraryNames == what = "dump32" => D32!LibraryNames
=============================================================================
