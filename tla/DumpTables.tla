----------------------------- MODULE DumpTables -----------------------------
(***************************************************************************)
(* The web wrapper of objdump (toolchain_build/binaries/objdump.js and      *)
(* objdump64.js): Module.print reads the tool's listing line by line and    *)
(* fills the tables that the page shows.  Its state is made of variables of *)
(* the file, which all instances share and no run clears.  Each run is a    *)
(* new instance; it prints a listing from the first to the last line unless *)
(* the tool traps or print throws.  Between runs the page empties the two   *)
(* tables of instructions and data (they are exported arrays); the other    *)
(* variables are read-only bindings for it.                                 *)
(***************************************************************************)
EXTENDS Integers, Sequences, FiniteSets, Functions

CONSTANTS
    Wide,       \* TRUE: objdump64.js
    Files,      \* inputs: [lib, full, ck, lines, page]
    KernelNames,\* names of labels that contain "kernel"
    TrapIn,     \* kinds of runs ("lib", "elf") in which the tool may trap
    MaxRuns     \* bound on the runs

(***************************************************************************)
(* A line: kind "head" (of a section), "label", "insn", "word" or "other";  *)
(* addr; val, the name or the bytes; asm, the text of the instruction; says, *)
(* which of "text", "data", "attr" occur in it behind some other character;  *)
(* hex, whether the mnemonic behind a word begins with two hexadecimal       *)
(* digits (add, beq, fcvt, ebreak) and so reads as part of it.  full: the    *)
(* addresses of the file have eight digits.  ck: the page's c_kernel is set. *)
(*                                                                           *)
(* page is the page's list_data_instructions, by label: whether the value is *)
(* an array (a string has none of the cases below); type; and of its last    *)
(* element the text in the source, whether that has a "-", and the words it  *)
(* stands for in memory, in the order of addresses.  No words: an empty      *)
(* array.                                                                    *)
(***************************************************************************)
Page == [array : BOOLEAN, type : STRING, text : STRING, minus : BOOLEAN, words : Seq(STRING)]

ConstantsOK ==
  /\ Wide \in BOOLEAN /\ TrapIn \subseteq {"lib", "elf"} /\ MaxRuns \in Nat \ {0}
  /\ \A f \in Files :
        /\ f.lib \in BOOLEAN /\ f.full \in BOOLEAN /\ f.ck \in BOOLEAN
        /\ \A i \in 1 .. Len(f.lines) :
              /\ f.lines[i].kind \in {"head", "label", "insn", "word", "other"}
              /\ f.lines[i].says \subseteq {"text", "data", "attr"}
        /\ \A l \in DOMAIN f.page : f.page[l] \in Page

VARIABLES
    islib,    \* islib32
    section,  \* sectionasm32: "none", "text", "data"
    text,     \* dumptextinstructions32
    data,     \* dumpdatainstructions32
    tags,     \* libtags32
    entry,    \* document.app.$data.entry_elf
    file,     \* the input of the run
    at,       \* lines printed of it
    pc,       \* "ready", "print", "idle": the page has not seen to the last run
    ended,    \* how that ended: "none", "exit", "trap", "throw"
    runs,     \* runs so far
    cut       \* history: the run before, or a row of runs before, began with a
              \* library and none of them came to exit

vars == <<islib, section, text, data, tags, entry, file, at, pc, ended, runs, cut>>

NoFile == [lib |-> FALSE, full |-> TRUE, ck |-> FALSE, lines |-> << >>, page |-> << >>]

Init ==
    /\ islib = FALSE /\ section = "none"
    /\ text = << >> /\ data = << >> /\ tags = << >> /\ entry = "undefined"
    /\ file = NoFile /\ at = 0 /\ pc = "ready" /\ ended = "none" /\ runs = 0 /\ cut = FALSE

---------------------------------------------------------------------------
(* Module.print *)

\* Labels are printed with all digits, lines without leading zeros;
\* objdump64.js takes the zeros off labels too.
LineKey(a) == [addr |-> a, short |-> FALSE]
LabelKey(a) == [addr |-> a, short |-> ~ (file.full \/ Wide)]

\* findIndex(sublist => sublist.includes(address)): any field may be equal,
\* the address, the word, the text of the instruction or the name of the
\* label.  Several words of one label run together are taken for no address.
Has(e, a) == e.key = LineKey(a) \/ e.word = <<a>> \/ e.asm = a \/ e.label = a

Index(t, a) ==
    LET is == {i \in 1 .. Len(t) : Has(t[i], a)}
    IN IF is = {} THEN 0 ELSE CHOOSE i \in is : \A j \in is : i <= j

Entry(key, word, asm, label) == [key |-> key, word |-> word, asm |-> asm, label |-> label]

\* The last section named in the line, in the order text, data, attributes.
SectionAfter(l) ==
    IF "attr" \in l.says THEN "none"
    ELSE IF "data" \in l.says THEN "data"
    ELSE IF "text" \in l.says THEN "text"
    ELSE section

\* The line of an instruction in the text section.
PutInsn(l) ==
    LET i == Index(text, l.addr)
    IN IF i # 0 THEN [text EXCEPT ![i].word = <<l.val>>, ![i].asm = l.asm]
       ELSE Append(text, Entry(LineKey(l.addr), <<l.val>>, l.asm, ""))

\* The types whose negative values are converted; a double gives two words,
\* the low one first.
Converted == {"half", "word", "byte", "float", "double"}

\* What the line of a word puts in front of the words of the last label.  A
\* word that reads as more than it is comes from the page instead: always the
\* last element, converted if negative and of a known type; the text of a
\* value without a "-" as it is, for toString(16) of a string converts
\* nothing; nothing at all if the value is no array.
WordsOf(l) ==
    LET p == file.page[data[Len(data)].label]
    IN IF ~ l.hex THEN <<l.val>>
       ELSE IF ~ p.array THEN << >>
       ELSE IF ~ p.minus THEN <<p.text>>
       ELSE IF p.type \in Converted THEN p.words ELSE <<"undefined">>

\* Mutant: the words of a label in the order of the listing.
PutWordBehind(l) ==
    LET i == Index(data, l.addr)
    IN IF i # 0 THEN [data EXCEPT ![i].word = <<l.val>>]
       ELSE [data EXCEPT ![Len(data)].word = @ \o WordsOf(l)]
PutWord(l) ==
    LET i == Index(data, l.addr)
    IN IF i # 0 THEN [data EXCEPT ![i].word = <<IF l.hex THEN "garbled" ELSE l.val>>, ![i].asm = ""]
       ELSE [data EXCEPT ![Len(data)].word = WordsOf(l) \o @]

\* The page does not know the label, or only an empty array: print throws.
NoValue(name) ==
    name \in DOMAIN file.page => file.page[name].array /\ file.page[name].words = << >>

\* print throws: no data entry to extend, no value of the page for the label,
\* or in objdump64.js a line of a library that is no label.
Throws(l) ==
    IF islib THEN Wide /\ section = "text" /\ l.kind # "label"
    ELSE /\ section = "data" /\ l.kind \in {"insn", "word"} /\ Index(data, l.addr) = 0
         /\ data # << >> => l.hex /\ NoValue(data[Len(data)].label)

\* A line of a library: its functions.  objdump.js keeps each name once.
PrintLib(l) ==
    /\ tags' = IF section = "text" /\ l.kind = "label"
                    /\ (Wide \/ \A i \in 1 .. Len(tags) : tags[i] # l.val)
                 THEN Append(tags, l.val) ELSE tags
    /\ UNCHANGED <<text, data, entry>>

\* The label at which the program is entered.
IsEntry(l) == l.kind = "label" /\ IF file.ck THEN l.val = "_main" ELSE l.val \in KernelNames

\* Mutant: the entry is looked for only while there is none.
EntryAfterOnce(l) ==
    IF section # "none" /\ IsEntry(l) /\ entry = "undefined" THEN l.addr ELSE entry
EntryAfter(l) == IF section # "none" /\ IsEntry(l) THEN l.addr ELSE entry

\* A line of a program.  A line with an instruction or a word reads as either.
PrintElf(l) ==
    /\ text' = IF l.kind \in {"insn", "word"} /\ section = "text" THEN PutInsn(l)
               ELSE IF l.kind = "label" /\ section = "text"
                 THEN Append(text, Entry(LabelKey(l.addr), << >>, "", l.val)) ELSE text
    /\ data' = IF l.kind \in {"insn", "word"} /\ section = "data" THEN PutWord(l)
               ELSE IF l.kind = "label" /\ section = "data"
                 THEN Append(data, Entry(LabelKey(l.addr), << >>, "", l.val)) ELSE data
    /\ entry' = EntryAfter(l)
    /\ UNCHANGED tags

PrintLine ==
    LET l == file.lines[at + 1]
    IN /\ pc = "print" /\ at < Len(file.lines)
       /\ ~ Throws(l)
       /\ IF islib THEN PrintLib(l) ELSE PrintElf(l)
       /\ section' = SectionAfter(l)
       /\ at' = at + 1
       /\ UNCHANGED <<islib, file, pc, ended, runs, cut>>

---------------------------------------------------------------------------
(* run, exit *)

\* The page takes the tables of the last run and empties them.  The mode of a
\* library run that did not come to exit is still on.
TakeTables ==
    /\ pc = "idle" /\ runs < MaxRuns
    /\ text' = << >> /\ data' = << >>
    /\ file' = NoFile /\ at' = 0 /\ pc' = "ready" /\ ended' = "none"
    /\ cut' = ((file.lib \/ cut) /\ ended # "exit")
    /\ UNCHANGED <<islib, section, tags, entry, runs>>

\* run of a new instance.
\* Mutant: a library is not told from a program.
RunNoMode(f) ==
    /\ pc = "ready"
    /\ file' = f /\ pc' = "print"
    /\ runs' = runs + 1
    /\ UNCHANGED <<islib, section, text, data, tags, entry, at, ended, cut>>
Run(f) ==
    /\ pc = "ready"
    /\ file' = f /\ pc' = "print"
    /\ islib' = (islib \/ f.lib)
    /\ runs' = runs + 1
    /\ UNCHANGED <<section, text, data, tags, entry, at, ended, cut>>

\* main returns: exit resets the mode.
\* Mutant: it does not.
ExitKeeps ==
    /\ pc = "print" /\ at = Len(file.lines)
    /\ pc' = "idle" /\ ended' = "exit"
    /\ UNCHANGED <<islib, section, text, data, tags, entry, file, at, runs, cut>>
Exit ==
    /\ pc = "print" /\ at = Len(file.lines)
    /\ islib' = FALSE
    /\ pc' = "idle" /\ ended' = "exit"
    /\ UNCHANGED <<section, text, data, tags, entry, file, at, runs, cut>>

\* The tool traps, or print throws: callMain does not come to exit.
Trap ==
    /\ pc = "print" /\ (IF file.lib THEN "lib" ELSE "elf") \in TrapIn
    /\ pc' = "idle" /\ ended' = "trap"
    /\ UNCHANGED <<islib, section, text, data, tags, entry, file, at, runs, cut>>

PrintThrows ==
    /\ pc = "print" /\ at < Len(file.lines) /\ Throws(file.lines[at + 1])
    /\ pc' = "idle" /\ ended' = "throw"
    /\ UNCHANGED <<islib, section, text, data, tags, entry, file, at, runs, cut>>

Stopped == pc = "idle" /\ runs = MaxRuns /\ UNCHANGED vars

Next ==
    \/ \E f \in Files : Run(f)
    \/ TakeTables \/ PrintLine \/ Exit \/ Trap \/ PrintThrows \/ Stopped

Spec == Init /\ [][Next]_vars

---------------------------------------------------------------------------
(* Properties *)

\* The lines of the file that belong to section s.
In(s) ==
    {i \in 1 .. Len(file.lines) :
        LET heads == {j \in 1 .. i - 1 : file.lines[j].kind = "head"}
        IN heads # {} /\ file.lines[i].kind # "head"
             /\ s \in file.lines[CHOOSE j \in heads : \A k \in heads : k <= j].says}

Items(s) == {i \in In(s) : file.lines[i].kind \in {"insn", "word"}}
LabelsOf(s) == {i \in In(s) : file.lines[i].kind = "label"}

\* A run of a program that came to exit, and not in the mode of a library.
Finished == pc = "idle" /\ ended = "exit" /\ ~ file.lib /\ ~ cut

\* An address of section s is also the name of a label, a word, the text of an
\* instruction or of a value: the tables take the one for the other.
Ambiguous(s) ==
    LET texts == UNION {{file.lines[i].val, file.lines[i].asm} : i \in In(s)}
                   \cup UNION {{p.text} \cup Range(p.words) : p \in Range(file.page)}
    IN \E i \in Items(s) : file.lines[i].addr \in texts

\* Module.print over a whole listing: the table of instructions has each line
\* of the text section of this run once, in the row of its label if that has
\* the same address, and nothing else, in the order of the listing.
TextTable ==
    Finished /\ ~ Ambiguous("text") =>
        /\ \A i \in Items("text") :
              Cardinality({e \in 1 .. Len(text) :
                  /\ text[e].key = LineKey(file.lines[i].addr)
                  /\ text[e].word = <<file.lines[i].val>> /\ text[e].asm = file.lines[i].asm}) = 1
        /\ \A e \in 1 .. Len(text) : text[e].word # << >> =>
              \E i \in Items("text") : text[e].key = LineKey(file.lines[i].addr)
        /\ \A e, d \in 1 .. Len(text) : text[e].key = text[d].key => e = d
        /\ \A e, d \in 1 .. Len(text) : \A i, j \in In("text") :
              e < d /\ text[e].key.addr = file.lines[i].addr /\ text[d].key.addr = file.lines[j].addr
                => i <= j \/ file.lines[i].addr = file.lines[j].addr

\* Line j of the label at line i can be read: it is a word and no more, or the
\* page makes up for it, which it does for the last element of an array,
\* negative and of a type other than double, in a row that is not the label's.
Readable(i, j) ==
    LET l == file.lines[j]
        name == file.lines[i].val
    IN l.hex =>
         /\ LabelKey(file.lines[i].addr) # LineKey(l.addr)
         /\ name \in DOMAIN file.page
         /\ LET p == file.page[name]
            IN p.array /\ p.minus /\ p.type \in Converted /\ p.words = <<l.val>>

\* Module.print over a whole listing: the entry of each data label whose words
\* can be read has the words up to the next label, the last one first (so that
\* the bytes of a little-endian value come in reading order).
DataTable ==
    Finished /\ ~ Ambiguous("data") =>
        \A i \in LabelsOf("data") :
            LET mine == {j \in Items("data") : i < j /\ \A k \in LabelsOf("data") : i < k => j < k}
                n == Cardinality(mine)
            IN (\A j \in mine : Readable(i, j)) =>
                 \E e \in 1 .. Len(data) :
                    /\ data[e].label = file.lines[i].val
                    /\ data[e].word = [k \in 1 .. n |-> file.lines[i + n + 1 - k].val]

\* document.app.$data.entry_elf after a run is the entry label of this
\* program, whatever ran before.
EntryIsKernel ==
    LET es == {i \in LabelsOf("text") : IsEntry(file.lines[i])}
    IN Finished /\ es # {} => \E i \in es : entry = file.lines[i].addr

\* "Disassemble library" (run): after a run of a library that came to exit,
\* whatever ran before, libtags has the names of its functions; it has no name
\* twice, however many libraries with a function of that name were printed.
LibraryNames ==
    /\ pc = "idle" /\ ended = "exit" /\ file.lib =>
          \A i \in LabelsOf("text") : \E t \in 1 .. Len(tags) : tags[t] = file.lines[i].val
    /\ \A t, u \in 1 .. Len(tags) : tags[t] = tags[u] => t = u
=============================================================================
