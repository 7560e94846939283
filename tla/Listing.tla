------------------------------- MODULE Listing -------------------------------
(***************************************************************************)
(* gas and objdump -d together: the mapping symbols that MappingSymbols    *)
(* leaves in a section are all that MapDis knows about it.  The section is *)
(* the second one of the object, behind one with data and code that leaves *)
(* its marks in the disassembler's statics.  Files of other assemblers and *)
(* linkers, with labels and addresses of their own, are listed as well.    *)
(***************************************************************************)
EXTENDS MappingSymbols, Functions

CONSTANTS
    ArchOrder,    \* the architectures in name order
    Objects,      \* files that come from elsewhere
    SkipZeroes    \* zeroes that are skipped (DEFAULT_SKIP_ZEROES)

VARIABLES
    tool,         \* "as", "as-norelax" or "objdump"
    bytes, exact, \* what was assembled, and whether its architectures must show
    obj, doing, sec, table, sym, off, start, stop, pos, cache, riscv_subsets, list

fileVars == <<bytes, exact>>
dumpVars == <<obj, doing, sec, table, sym, off, start, stop, pos, cache, riscv_subsets, list>>
vars == <<tool, mapVars, fileVars, dumpVars>>

Dump == INSTANCE MapDis WITH Archs <- ArchOrder

ASSUME ListingAssumption == Range(ArchOrder) = Archs /\ SkipZeroes \in Nat \ {0}

\* No section is being assembled.
Idle == "idle"
IdleAs ==
  /\ frags = << >> /\ syms = << >> /\ chain = {} /\ mapState = Idle /\ archMap = Idle /\ arch = Idle
  /\ relax = Idle /\ recAlign = Idle /\ lines = Idle /\ step = Idle /\ place = Idle
AsEnds ==
  /\ frags' = << >> /\ syms' = << >> /\ chain' = {} /\ mapState' = Idle /\ archMap' = Idle /\ arch' = Idle
  /\ relax' = Idle /\ recAlign' = Idle /\ lines' = Idle /\ step' = Idle /\ place' = Idle
NoFile == obj = Idle /\ bytes = << >> /\ exact = FALSE

\* A file under .option relax, and one with .option norelax somewhere.
Init ==
    \/ tool = "as" /\ MapInit /\ relax /\ NoFile /\ Dump!Start
    \/ tool = "as-norelax" /\ MapInit /\ NoFile /\ Dump!Start
    \/ tool = "objdump" /\ IdleAs /\ bytes = << >> /\ exact = FALSE /\ Dump!Init

\* The first section of the object: a word of data and one of code.
Before(a) == {[sec |-> 1, val |-> 0, name |-> "d"], [sec |-> 1, val |-> 4, name |-> a]}

\* The object that as writes, all sections at 0, perhaps with a function symbol
\* at the start of the section.  Lines that put code at odd addresses, and
\* alignments that are filled with zeroes (MappingSymbols), are left out.
WriteObject ==
    /\ tool \in {"as", "as-norelax"} /\ step = "done"
    /\ EvenCode /\ ~ ZeroPadded /\ Bytes # << >>
    /\ tool' = "objdump"
    /\ bytes' = Bytes /\ exact' = (tool = "as")
    /\ \E a \in Archs, labels \in SUBSET {[sec |-> 2, val |-> 0, name |-> "f"]} :
          obj' = [sizes |-> <<8, Len(Bytes)>>, vma |-> <<0, 0>>, jumps |-> FALSE,
                  syms |-> Before(a) \cup labels \cup
                           {[sec |-> 2, val |-> y.off, name |-> y.name] : y \in Written}]
    /\ AsEnds
    /\ UNCHANGED <<doing, sec, table, sym, off, start, stop, pos, cache, riscv_subsets, list>>

Next ==
    \/ tool = "as" /\ AsStep(DataSizes, {TRUE}) /\ UNCHANGED <<tool, fileVars, dumpVars>>
    \/ tool = "as-norelax" /\ AsStep(DataSizes \ {0}, Relaxes) /\ UNCHANGED <<tool, fileVars, dumpVars>>
    \/ WriteObject
    \/ tool = "objdump" /\ Dump!Next /\ UNCHANGED <<tool, fileVars, mapVars>>

Spec == Init /\ [][Next]_vars

-----------------------------------------------------------------------------
\* From the source to the listing: every byte is listed, data as data and code as
\* code, and under .option relax for the architecture it was assembled for ("Always
\* add $x+arch at the first instruction of section", riscv_mapping_state), whatever
\* frags, alignments and empty directives stand between them.
ListedAsAssembled ==
    tool = "objdump" /\ bytes # << >> /\ sec = 2 /\ doing \in {"range", "done"} /\ off >= Len(bytes) =>
        \A i \in DOMAIN bytes : bytes[i] # "fill" =>
            /\ list[i] # "none"
            /\ (list[i] = "d") <=> (bytes[i] \in {"d", "zero"})
            /\ exact /\ bytes[i] \in Archs => list[i] = bytes[i]

\* Files of any origin: every byte that objdump lists is listed as what its mapping
\* symbols say, whatever is left in the statics of riscv_search_mapping_symbol.
\* "Repeat until we have disassembled the entire section": no byte of a file whose
\* labels stand at items is left out, and every data item can be printed.
ListedRight ==
    tool = "objdump" =>
        /\ Dump!ListedRight
        /\ bytes = << >> /\ ~ obj.jumps => Dump!WholeSection
=============================================================================
