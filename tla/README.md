# Verification of creator-sail-assembler

creator-sail-assembler builds the GNU assembler, linker and disassembler for
RISC-V as WebAssembly, for the CREATOR simulator. The repository is a fork of
riscv-gnu-toolchain: binutils sources under `binutils/`, a script that
cross-builds them with Emscripten (`assembler_sail.sh`), codemods that turn
Emscripten's loaders into functions a page can call
(`toolchain_build/transform-*.js`) and their committed results
(`toolchain_build/binaries/*.js`).

This directory holds TLA+ models of the parts that carry RISC-V logic or the
project's own logic, TLC configurations that check them on small instances, and
TLAPS proofs about them. All line numbers are those of the sources in this
repository. `PROJECT.json` maps every definition to the lines it models.

| Part | Module | TLC | TLAPS |
|---|---|---|---|
| ld: relaxation and layout | `RelaxLayout` | `MCRelaxLayout` | `RelaxLayoutProofs` |
| ld: relaxation of address pairs, gp | `RelaxHiLo` | `MCRelaxHiLo` | `AddressPairProofs` |
| ld: deletion of bytes | `RelaxDelete`, abstract: `SectionEdit` | `MCRelaxDelete` | `RelaxDeleteProofs` |
| ld: relocation of section contents | `RelocSection` | `MCTables` | `LinkerWalkProofs` |
| ld: GOT, PLT, dynamic relocations | `GotPlt` | `MCTables` | checked only |
| ld: merging of attributes and flags | `MergeAttrs` | `MCTables` | `LinkerWalkProofs` |
| as: options, ISA list, header flags | `GasOptions` | `MCIsa` | `GasOptionsProofs` |
| as: relaxation of branches and alignments | `GasRelax` | `MCGas` | `GasRelaxProofs` |
| as: macro expansion | `MacroExpand` | `MCGas` | checked only |
| as: fixups of address pairs | `GasFixups` | `MCGas`, `MCGasFixups` | `AddressPairProofs` |
| as: mapping symbols | `MappingSymbols` | `MCListing` | `GasRelaxProofs` |
| objdump: what is code and what is data | `MapDis` | `MCListing` | checked only |
| as and objdump together | `Listing` | `MCListing` | checked only |
| Web wrappers of as and ld | `WebTool` | `MCWebTool`, `MCPage` | `WebToolProofs` |
| Web wrapper of objdump | `DumpTables` | `MCPage` | checked only |
| Build script and Makefile rules | `BuildDriver` | `MCBuildDriver` | `BuildDriverProofs` |

To run a check: `tlc -config MCRelaxLayout.cfg MCRelaxLayout`; to check the
proofs: `tlapm RelaxLayoutProofs.tla`. Definitions that are commented as mutants
are what a plausible slip would make of the definition next to them; no
specification uses them. `PROJECT.json` names the property that each one breaks.

`MCTables`, `MCGas` and `MCPage` look at two or three components that
do not interact in one run: a variable (`walk`, `stage`, `what`) says in
the initial state which of them a behaviour is about, and the variables of the
others keep their initial or an idle value. `Listing` is a composition proper:
what the assembler writes is what objdump reads.

## 1. Inventory

### The linker: relaxation and layout (modelled)

*Source*: `bfd/elfnn-riscv.c` (`_bfd_riscv_relax_section` and what it calls),
`ld/ldlang.c` (`lang_relax_sections`, `lang_size_sections_1`,
`size_input_section`), `ld/ldelfgen.c` (`ldelf_map_segments`).

*State*: for each input section its contents, relocs, size, `output_offset` and
`sec_flg0`; for each output section its `vma`; symbol values; `relax_pass`,
`relax_trip`, `relax_again`; the location counter.

*Operations*: relax one section in the current pass; delete bytes; place a
section; start another trip, pass or sizing.

*What is hard*: a decision is taken from a picture that is part old and part new
(the sections before the current one are already placed in this trip, the
current one and its successors still have the addresses of the previous trip)
and is never taken back. Bytes are deleted in several trips; each deletion
shifts relocs and symbols; the whole relaxation may be started again when the
program headers change.

*Correct when*: a shortened jump reaches its target in the final layout;
alignment directives hold in the final layout; deletion keeps instructions and
labels apart; the final layout is a layout; the loop ends at a fixpoint.

### The linker: address pairs, relocation, GOT and PLT, attributes (modelled)

*Source*: `bfd/elfnn-riscv.c`, `bfd/elfxx-riscv.c`, parts of `bfd/elflink.c`,
`bfd/elf-ifunc.c` and `ld/ldlang.c`.

- `_bfd_riscv_relax_lui`, `_bfd_riscv_relax_pc`, `_bfd_riscv_relax_tls_le` and
  the `riscv_pcgp_*` tables. State: lists of high and low parts, `reserve_size`,
  `max_alignment_for_gp`. Hard: the two halves of a pair are judged apart, by
  values left over from other relocs, while `gp` and the symbol still move.
  Correct when no low part outlives its deleted high part and what was made
  relative to gp is in its reach at the end.
- `_riscv_relax_delete_bytes` and `riscv_relax_resolve_delete_relocs`. State: the
  bytes, relocs and symbols of a section. Hard: bytes are moved once while
  offsets are adjusted once per deletion. Correct when it amounts to cutting the
  bytes out.
- `riscv_elf_relocate_section`, the hi and lo tables, the GOT entries. Correct when each low
  part is resolved with the value of its own high part, also when that became a `lui`.
- `riscv_elf_check_relocs`, `size_dynamic_sections`, `relocate_section` and
  `finish_dynamic_symbol` as three walks. Hard: the second must reserve exactly
  what the third writes, from counts and flags that change in between.
- `riscv_merge_attributes`, header flags. Correct when the merged ISA is the
  union of the inputs' and the order of the files does not matter.

### The assembler (modelled)

*Source*: `gas/config/tc-riscv.c`, `gas/write.c`, the subset list of
`bfd/elfxx-riscv.c`.

- Options, the ISA list and the `.option push/pop` stack. Hard: long sequences of
  directives over a linked list with a cached tail, copied, edited and freed.
- Relaxation of branches and alignments (`relax_segment`): a fixpoint over
  lengths that grow and shrink. Correct when it ends and every branch arrives.
- Fixups of address pairs (`md_apply_fix`): resolved from a table that is filled
  on the way, by an option that may have changed since.
- Mapping symbols: made before sizes are known, repaired afterwards. Correct when
  a disassembler tells code from data by what is left.
- Macro expansion (`load_const`, `riscv_ext`, `vector_macro`). Hard at the ends
  of the integer ranges.
- The table-driven encoder of one instruction and the opcode tables are not
  modelled: they keep no state.

### objdump (modelled for `-d`)

*Source*: `opcodes/riscv-dis.c`, `binutils/objdump.c`. Five static variables
remember the last mapping symbol from one address, range and section to the
next. Correct when every byte is listed once, as what it is.

### The web wrappers (modelled)

*Source*: `toolchain_build/transform-{as,ld}{32,64}.js` and the four files they
produce. *State*: per factory call, the variables of the loader's closure
(`runDependencies`, `dependenciesFulfilled`, `calledRun`, `ABORT`, pending
timers); per file, `ofile` or `elfile`, through which the result travels and
which **all** instances share; the page's argument arrays, which `run` empties
in place.

*Operations*: the factory, the end of the WebAssembly instantiation, `run`, the
timer of a deferred run, a dependency met.

*What is hard*: several instances on one event loop; a run called before the
module is there, twice, with a hook, or with `setStatus`; a tool that fails or
traps. *Correct when* a call that returns a file returns the file of the sources
it was given, main is entered once and only in an instantiated module, and a
resolved promise means that `run` works.

The objdump wrapper returns no file: its `print` reads the listing line by line
and fills tables. *Hard*: its parser's state is in variables of the file, which
outlive a run, a trap and an exception.

### The build script (modelled)

*Source*: `assembler_sail.sh`, and the rules of `Makefile32.in`, `Makefile64.in`
and `Makefile` that it uses. *State*: `Makefile.in`, `Makefile`, `config.status`,
`stamps/`, `build-binutils-newlib/`, `toolchain_build/binaries/`. *What is hard*:
the tree is shared by the two architectures and outlives a run; a run may be
interrupted inside any command. *Correct when* exit status 0 means that the files
delivered come from this run's own complete build for this architecture.

### Left out

`new_comp.sh` (superseded), the regression scripts of the upstream toolchain,
and generic BFD, gas, ld, gprof and libiberty code, except where relaxation runs
through it.

## 2. RelaxLayout

Lengths are in two-byte parcels. A call is 4 parcels, `jal` 2, `c.j`/`c.jal` 1.
The input is a set of `Objects`: where items (calls, relaxable high-part
instructions, alignment directives) and labels lie in each section.

| Model | Code |
|---|---|
| `OpenOutput` | `lang_size_sections_1`, output section statement: align and set `vma` |
| `RelaxPass0` | `_bfd_riscv_relax_section` in pass 0, all relocs of one section; `ShortForm`, `PaddedFoff`, `Margin` are `_bfd_riscv_relax_call` |
| `ResolveDelete` | `riscv_relax_resolve_delete_relocs`, one reloc at a time; `DeleteTail`, `Moved` are `_riscv_relax_delete_bytes` |
| `RelaxPass1`, `RelaxAlign`, `RelaxAlignError` | pass 1 and `_bfd_riscv_relax_align` |
| `SkipRelax` | the early returns (`sec_flg0`, `--no-relax`), and the sizing after the last pass |
| `PlaceSection` | `size_input_section` |
| `NextTrip`, `LastTrip` | the loops of `lang_relax_sections` |
| `MapSegments` | `ldelf_map_segments` calling `lang_relax_sections` again |

`hist` is a history variable: the picture from which a call was shortened.

What relax_lui, relax_pc and relax_tls_le decide is open: each such instruction
may be deleted, or cut to its compressed form in an RVC object, in any trip.
The model therefore has every pattern of deletions those functions can cause,
and more.

*Run* `relax_layout`: three input sections in two output sections with
alignments 2, 8 and 4, forward and backward calls, one directive, two rounds
with a header that shrinks from 8 to 6, RV32, static. The reaches are scaled
(`jal` 24 parcels, `c.j` 16, I-immediate 11) so that calls of the 216 objects
lie inside, at and beyond the edge of the range, and the largest alignment, 8,
decides some of them. Three sections are the least at which a section lies
between two ends, and two output sections the least at which the two ways of
computing the margin differ.

| Property | Says |
|---|---|
| `Separated` | deletion never makes items overlap, leave their section, or swallow a label |
| `JumpsInRange` | a call shortened in the mixed picture reaches its target at the end |
| `PadsAligned` | what follows a directive is aligned at the end, although sections moved after it was measured |
| `AlignErrorOnlyIfMixed` | "bytes required for alignment" comes up only when the object has the RVC flag and the directive was assembled without |
| `NothingLeftToShorten` | pass 0 stops only at a fixpoint |
| `FinalLayout` | the last picture is the layout a plain sizing gives |
| `SectionsNeverMoveUp` | no step moves a section up |
| `Terminates` | the loop of trips ends |

*Fairness.* Weak fairness of the linker's own steps: ld is one sequential
program and its next step is always enabled until it has finished.

`JumpsInRange` leaves calls to absolute symbols out; see section 12.

*Proofs* (`RelaxLayoutProofs`). For any number of sections, calls, directives,
labels, trips and rounds, any alignments and any reach, provided `HeadersShrink`
(the program headers do not grow from one round to the next):

- `Invariance`: `IInv` always holds;
- `TypeCorrectness`, `Separation`, `ShortenedCallsReach` (`JumpsInRange`) and
  `NeverMoveUp` (`SectionsNeverMoveUp`) follow;
- `LayoutIsFinal` (`FinalLayout`) from `IInv` and `PrefixLaid`: the sections that
  the walk has passed lie where it placed them;
- `DirectivesAligned` (`PadsAligned`) from `IInv` and `PassOK`, `PadsOK`,
  `PadsDone`: a handled directive is aligned inside its section, stays so because
  `sec_flg0` keeps the section from further relaxation and the directives left in
  it lie behind, and no section is passed with one left;
- `Pass0Fixpoint` (`NothingLeftToShorten`), with `HeadersFixed` in place of
  `HeadersShrink`, from `Quiet`: as long as a trip has changed nothing, it walks
  over a finished layout, so what it decided of the calls behind it still stands.
  When the headers change size, the first trip of a round starts from addresses no
  sizing has given yet; the run, whose headers shrink, checks that case;
- `ErrorOnlyIfMixed` (`AlignErrorOnlyIfMixed`), with `FourByteObjects`: objects
  without RVC have 4-byte instructions at 4-byte offsets, and directives with the
  NOPs that `riscv_frag_align_code` gives them. `FourByteKept` says that relaxation
  keeps them so.

`JumpsInRange` is far from inductive: it speaks of the end, and the decision was
taken earlier, from addresses that never coexisted. `IInv` adds:

- `MarksOK`: marked bytes belong to the section being relaxed, and a call without
  them has the length of its form;
- `Loose`: the mixed picture is never tighter than a layout: each section lies
  at or above the place its predecessors would now give it. Hence sections only
  move down;
- `WalkOK`: what the location counter means at each point of the walk;
- `HistOK`: since a call was shortened, addresses, sizes, and distances within a
  section only decreased (`ShrunkSince`), the test it passed is the one recorded
  (`DecidedFrom`), and every section the walk has placed between the two ends has
  moved down at least as far as the lower end, counted in whole margins
  (`FollowsDown`). So the distance has grown by less than one margin, which the
  test allowed for.

The alignments between the two ends all divide the margin; this is what
`AlignAssumption` (output alignments are powers of two, so the largest is a
multiple of the others, and an input section's alignment divides that of its
output section) is for. The other assumptions say that the input is well formed:
script order, items apart and inside their sections, the first layout a layout,
gas having raised the section's alignment to that of its directives.

*Only model-checked*: `Terminates`, which is liveness.

*Not modelled here*: the relro phase guard (`data_segment_phase == 4`) and
`DATA_SEGMENT_ALIGN`, which `RelaxHiLo` has; other assignments to the location
counter in the script; headers that grow; `htab->max_alignment`, computed once in
the code, is a constant here; calls to PLT entries, undefined weak symbols and
merged sections as targets.

## 3. RelaxHiLo

The pairs of instructions that make an address: `lui`/low part, `auipc`/low part,
`lui`/`add`/low part of TLS. The module follows `_bfd_riscv_relax_section` reloc by
reloc through seven output sections (`.text`, `.text2`, `.rodata`, `.got`, `.data`,
`.sdata`, `.bss`), through passes, trips and rounds, and places the sections as
`lang_size_sections` does, with `DATA_SEGMENT_ALIGN` and `DATA_SEGMENT_RELRO_END`
(`seg` is `"none"`, `"adjust"` or `"relro"` during a walk).

| Model | Code |
|---|---|
| `RelaxLui`, `Near`, `CLuiOk`, `Allowance` | `_bfd_riscv_relax_lui` |
| `RelaxPcHi`, `RelaxPcLo`, `LoSeen`, `RecordHi` | `_bfd_riscv_relax_pc` and the `riscv_pcgp_*` tables |
| `RelaxTlsLe` | `_bfd_riscv_relax_tls_le` |
| `ReserveFor` | `reserve_size`, a variable of `_bfd_riscv_relax_section` that survives from reloc to reloc |
| `CachedMax`, `FillCache`, `Entered`, `Enter` | `max_alignment_for_gp`: filled when needed, cleared when one section is entered |
| `Open`, `Place`, `SegmentAlign`, `RelroEnd`, `SegmentWalk`, `RelroWalk`, `Rewalk` | `lang_size_sections`, `fold_segment_align`, `fold_segment_relro_end` |
| `NextTrip`, `LastTrip`, `MapSegments` | `lang_relax_sections`, `ldelf_map_segments` |
| `GpValue`, `gp` | `__global_pointer$` of the default script, or of an object |

*Run* `hilo`: four links (`Links`). The reaches are scaled (12-bit immediate to
16 or 32, a page to twice that, `c.lui` to 2) and the sizes of code, read-only
data and data vary so that every pair lies inside, at and beyond the edge in some
instance. One link is what it takes to have gp from the script; one to have it
from an object with an object of 16 bytes at its edge; one to have a section with
a large alignment enter the reach of gp while the code shrinks, so that a stale
cache is too small; one to have RELRO, two walks and data that the first walk
puts elsewhere.

| Property | Says |
|---|---|
| `NoOrphanLow` | at the end of a walk, no low part still uses the register of a deleted high part |
| `GpReach` | what became relative to gp or x0 fits in the finished layout |
| `CLuiReach` | what became `c.lui` fits although the data segment may have moved by a page |

*Proofs* (`AddressPairProofs`). `PairsSurvive`: `Spec => []NoOrphanLow`, for every
number of sections, every link, every set of relocs and symbols. The code takes one
decision for each half of a pair, and none looks at the other half, so what has to be
shown is that the decisions of one visit to a section agree. That is not so for
arbitrary objects; `PairsAssumption` states what makes it so, and compiler and
assembler see to it:

- a reloc is in one place, and the low parts of a high part are in its section;
- the halves of a `lui` pair and of a TLS pair name the same symbol, and the addend
  of the low part, which may lie further inside the object than that of the high
  part, stays inside the object and does not carry into the high part (the object is
  aligned for the access, `InOneBlock`);
- the low part of a function's address directly follows its high part: for a
  function `reserve_size` is what the reloc before it left there (section 12,
  `:5198`), and with another reloc in between the two halves may be judged
  differently;
- the label of a `%pcrel_lo` is a plain one, without a size.

`IInv` (stated in `AddressPairProofs`; it was checked with TLC on the instance of the
run before it was proved) has five parts: every section stands at a multiple of its
alignment (`LayoutOK`); the visit stands at a reloc of its section, and a reloc is
what it was in the object or is done with (`VisitOK`); the pcgp table has what the high parts of this
visit recorded (`HiTabOK`); the low part of a high part that has been given up has
been given up, or is ahead and its decision, evaluated now, gives it up too
(`OrphansGo`); the low part passed over has a high part that stays (`PassedOver`).
The two lemmas that carry it are `SameReach`, by which all decisions of one visit see
the same layout and the same allowance, whether `max_alignment_for_gp` comes from the
cache or is computed anew, and `PairDecides`, by which the decision to delete a high
part implies the decision for each of its low parts. From there each action has a
lemma of its own.

*Only model-checked*: `GpReach` and `CLuiReach`. What the code reserves for
alignments and for data that moves (`Allowance`, `reserve_size`, the page for
`c.lui`) is an estimate; whether it suffices depends on the sizes of a link, and
section 12 names inputs for which it does not. The run shows it for the links above.

*Not covered*: headers that grow, relocs whose two halves differ in
`R_RISCV_RELAX`; the bytes that calls and alignments lose are bounded by the
`cut` and `nops` of a link.

## 4. SectionEdit and RelaxDelete

`SectionEdit` says what a deletion promises: a section is a function from offsets
to distinct bytes, a reloc stands at a byte, a symbol has a set of bytes in front
of it and a set it covers. Bytes may be given up, and bytes given up (or NOPs) may
be cut out; everything else stays in its order, and what was cut leaves exactly
those symbols that had it.

`RelaxDelete` is the code: `_riscv_relax_delete_piecewise` turns a reloc into a
`R_RISCV_DELETE`, reusing the `R_RISCV_RELAX` behind it where there is one;
`riscv_relax_resolve_delete_relocs` walks over them, moves each byte once with one
`memmove` per gap (`Move`, `ToAddr`, `delete_total`) but adjusts relocs and
symbols once per deletion (`ShiftReloc`, `ShiftSym`, `Adjusted`); in pass 1
`_bfd_riscv_relax_align` deletes at once. Half-way, contents, relocs and symbols
are at different stages.

`ImplementsEdit` is `Edit!Spec`, with `Edit == INSTANCE SectionEdit WITH ...`: the text of the
abstract section is put together from the part of the contents already moved and
the part that is not (`Front`, `ByteAt`), so that every step of the walk is one cut
and every step of the reloc loop a release. `PairsStay` is about two trips: the
`R_RISCV_RELAX` left behind by a deleted instruction does not make a neighbour
relaxable that was assembled with `norelax`.

*Run* `delete`: a section with two address halves side by side, calls with and
without `R_RISCV_RELAX`, an alignment, 14 local symbols that begin and end at
every boundary between them, and global symbols that stand once and, because of a
version or of `--wrap`, twice in `elf_sym_hashes`. Two trips are the least in
which a left-over reloc can do harm.

*Proofs* (`RelaxDeleteProofs`). For every section (`Section`: relocs in order and
inside, each `R_RISCV_RELAX` behind its reloc, symbols on the boundaries between
the parcels of relocs, NOPs under alignments), every set of symbols and every
`elf_sym_hashes` (`HashesAssumption`), any number of trips:

- `Invariance`: `IInv` always holds;
- `Refinement`: `Spec => ImplementsEdit`;
- `Pairs`: `Spec => PairsStay`.

`IInv` says what holds half-way: the bytes freed so far lie behind the section
(`Freed`), the walk stands at the first DELETE that is left (`AtDelete`), the text
put together from moved and unmoved bytes has every byte once (`Distinct`), and
relocs and symbols lie as `InOrder`, `Inside` and `SymsFit` say although some of
them have been shifted and some not. Each step of the walk is then shown to be a
`Cut`, a `Release` or a stutter of `SectionEdit`; the hard one is the cut, in which
contents, relocs and symbols, hashed twice or once, have to lose the same bytes.

## 5. RelocSection and GotPlt

`RelocSection` is `riscv_elf_relocate_section` of a static link for the
relocations that depend on one another: `%pcrel_hi` and `%got_pcrel_hi` record
their value under the address of the auipc; `%pcrel_lo` is only noted down and
resolved at the end of its section (`ResolveLo`), perhaps with the value of a
`lui` made by `riscv_zero_pcrel_hi_reloc`; `SET_ULEB128` waits for its
`SUB_ULEB128`. There are `Space` addresses and an upper immediate spans `span` of
them: fewer in the 64-bit linker, where a high part can overflow, and all in the
32-bit one, where it wraps. `Linkers` gives for each linker the programs and the
values of symbols it is run with; the instance has both linkers.

`GotPlt` is the life of symbols that need more than a number, in static, pie,
shared and symbolic links:

| Model | Code |
|---|---|
| `CheckReloc` | `riscv_elf_check_relocs`: counts of GOT, PLT and dynamic references |
| `RecordAssignments`, `AdjustDynamicSymbol` | script assignments, `riscv_elf_adjust_dynamic_symbol` |
| `SizeLocal`, `AllocateDynrelocs`, `AllocateIfunc`, `EndSizing` | `riscv_elf_size_dynamic_sections`, `allocate_dynrelocs`, `_bfd_elf_allocate_ifunc_dyn_relocs` |
| `RelocateReference` | `riscv_elf_relocate_section`, one reference at a time |
| `FinishDynamicSymbol` | `riscv_elf_finish_dynamic_symbol`, global then local |

The macros of the file (`RISCV_NEED_DYNAMIC_RELOC`, `RISCV_RESOLVED_LOCALLY`, ...)
are operators of their own. `got` and `rela` hold what was written and where.

| Property | Says |
|---|---|
| `PairGivesAddress` | executed, high and low part give the symbol's address with both addends, or that of its GOT entry |
| `AllApplied` | in a link without error every relocation was applied, each GOT entry is filled and each uleb128 has both its halves |
| `RoomSuffices` | the third walk writes into the room that the second reserved, overwrites nothing, no two symbols share a word, and no assertion fails |
| `RunTimeRight` | after the dynamic linker, each reference amounts to its own definition or to the one found by name |

*Run* `tables`: programs of two sections with up to three of these relocations,
and one symbol of each kind with up to three references of each kind, or three
symbols (ifunc, thread-local, ordinary) that share the sections. Three references
are what it takes to have one counted, one dropped and one written first.

*Proofs* (`LinkerWalkProofs`). For all numbers of addresses, reaches (`R` divides
`Space`), programs and values (`LinkersAssumption`: no `SET_ULEB128` is left alone,
as gas does not leave one), both linkers: `PairsGiveAddresses`
(`PairGivesAddress`) and `NothingLeftOut` (`AllApplied`). `RelocInv`, which TLC
has checked on the run's instance too, says of each relocation behind the walk what
has been done for it, as long as no error was reported: a high part holds the upper
bits of its value and can be read back (`HighsDone`), the table has under each
address the value of a high part that stands there (`TableOK`), a low part waits on
the list or its pair gives the address (`LowsDone`), a `SUB_ULEB128` has met its
`SET_ULEB128` and only the relocation just passed may still wait for one
(`UlebDone`); and a GOT entry once marked as filled holds its symbol's value
(`GotOK`), after an error too. What has been written is never overwritten
(`WalkOK`), so it stays right. The arithmetic is in `PairExecuted`: the upper bits,
sign-extended, and the lower bits, sign-extended, add up to the value modulo
`Space`, given the checks that the code makes (`ValidUtype` for the high part, equal
high parts for the low part).

*Not covered*: in `RelocSection` everything of dynamic links, ADD/SUB/SET,
branches and calls; in `GotPlt` weak aliases of shared objects, garbage
collection, local-exec TLS, the instructions of the PLT, and the inputs listed
under disagreements in section 12, which `Considered` excludes.

## 6. GasOptions and MergeAttrs

`GasOptions` reads one file line by line: `.option` with all its forms,
`.attribute arch` and instructions. ISA lists are what the code has: a linked list
in canonical order with a cached `tail`, several of them alive at once because
`.option push` keeps the list in use on the stack and works on a copy. Ten
extensions stand for the table, chosen so that some imply others (`d` implies `f`
implies `zicsr`), some conflict (`zfinx`, `f`) and two mean compressed code.

| Property | Says |
|---|---|
| `ListIntact` | every live list has exactly what a look-up through its tail finds, and printing and parsing it gives it back |
| `PopRestores` | `.option pop` gives back options and extensions of its push, whatever happened in between (an action property) |
| `HeaderCoversCode` | compressed and TSO code is announced in the header, and the header's calling convention is the one asked for and is supported by the ISA |

`MergeAttrs` merges files into an output, as `ld` does with
`--no-warn-mismatch` too: after an error it goes on, with what the error left in
the static lists `in_subsets` and `out_subsets`.

| Property | Says |
|---|---|
| `MergedIsUnion` | the merged ISA and privileged spec are the union and the newest of the inputs, in any order, also after a file that could not be merged |
| `OneAbi` | a link without error has one calling convention, and one with an error has a reason |

*Run* `isa`: files of five lines with two pushes (pushes inside pushes need four
lines and one more to look). `MergeAttrs` is part of the run `tables`: up to six of
eleven files in any order.

*Proofs* (`GasOptionsProofs`). For any jobs (`JobsAssumption`: strings and edits of
known and unknown extensions), any number of lines and any depth of pushes:
`ListsStayIntact` (`ListIntact`), `HeaderCovers` (`HeaderCoversCode`),
`PopsRestore` (`PopRestores`). `IInv` says that every list in memory is a sorted
chain whose tail is its last element, or the copy of an empty list, whose tail is
wild (`TypeOK`); that every open push has a list of its own, which nothing has
changed since (`StackKept`); that what is in force now or after a pop is announced
(`Announced`); and that the implication rules have been applied to live lists and
nothing conflicts in them (`LegalLists`). From the last, printing and parsing give
a list back, for each list, by induction over its elements.

*Proofs* (`LinkerWalkProofs`). For any set of files (`ConstantsOK`: an ISA string
has one base, no extension `k` and numbers as versions), in any order and number:
`Union` (`MergedIsUnion`) and `AbiIsOne` (`OneAbi`). `IInv` says that the static
lists are empty unless a merge of strings has failed (`Strings`), that the output
covers the inputs' extensions and has no other (`Gathered`), where stack alignment,
privileged spec and flags come from, and that nothing is given up without two files
that clash (`Caused`).

*Not covered*: versions in `GasOptions`, `g`, `q`, `h`, `-mpriv-spec`; one number
stands for a version in `MergeAttrs`. The characters of ISA strings are
abstracted to sequences of names.

## 7. GasRelax, MacroExpand, GasFixups

`GasRelax` is `relax_segment` and its callers: a frag has a fixed part and a
branch, an alignment or an `.org`. Addresses are re-estimated frag by frag with
a running `stretch`; `riscv_relax_frag` reads the target of a forward branch
before it has moved; the loop of `write_object_file` runs again when something
changed; then `md_convert_frag_branch` writes the form that was chosen.
`BranchArrives`: the form written has the length the frag has, arrives at its
label, no shorter one would, and no assertion of the conversion fails. `PadsHold`:
alignments and `.org` hold. `Terminates` is liveness: the inner loop goes on while
frags move, and lengths may shrink again, so nothing decreases; and it ends
rightly (`EndsRightly`), with an `.org` reported only when it is backward at the
end, and giving up only where there are alignments.

*Proofs* (`GasRelaxProofs`). For every program of frags and every reach
(`FragsAssumption`, `ReachAssumption`): `BranchesArrive` (`BranchArrives`) and
`PadsAreFilled` (`PadsHold`). `IInv` has two parts. `Contiguous`: at each moment of
a trip frags follow each other, if the one the loop is at is taken `stretch`
further on. `Fixpoint`: as long as nothing has grown in a trip, no address has
changed since its start, so the frags behind the loop have the length that
`relaxed_branch_length` gives at the present addresses and `.org` is at its target
unless another round has been asked for. `relax_segment` leaves its loop only after
such a trip. That an error once reported is still right in a later layout
(`EndsRightly`) is a claim about the sequence of layouts, no invariant of one of
them, and stays with TLC.

`MacroExpand` is `load_const` (recursion as a stack of calls), `riscv_ext` and
`vector_macro`; the instructions they emit are executed (external: the ISA).
`RightValue`: what is left in the register is what the macro means, and every
immediate fits its field. 64, 32 and 12 bits are scaled to 12, 6 and 2, so that
every value of every width is tried; the roundings and carries at the ends of the
ranges are the same.

`GasFixups` reads a file of `auipc`, low parts, calls and `.option relax`, in two
sections; `md_apply_fix` fills in what it can from `riscv_pcrel_fixup_hash`; the
linker then shortens any of the calls that it may and resolves what is left.
`PairAddresses`: in the linked program each pair gives its symbol's address, no
high part is missed, and a store keeps its source register. The instance of the run
has no store with a local symbol; that case is the run `fixups_store` (section 12).

*Proof* (`AddressPairProofs`). `PairsMeet` is `PairAddresses` for files of any
length, symbols of other sections at any distance and immediates of any width
(`FixupsAssumption`; 12 bits are `TopRange` = 2^7 times `LowRange` = 2^5). Its
hypothesis `Ordinary` leaves out the three kinds of file for which section 12 says
that the claim fails: a low part before its high part, a file that ends in
`norelax` after an instruction under `relax`, a store with a local label.
`FixupsInv` says what each instruction holds before and after `md_apply_fix`
(`FilledTo`) and what the table holds (`TableOK`). Within a section addresses grow
strictly, because no instruction is empty, so a slot is overwritten only by another
section: either the entry is the auipc's own, or the section is done. Hence a low
part finds the entry of its own auipc, or none because the target is not local
(`UsableExactly`). With relaxation off no call may be shortened, and the addresses
that the assembler used are the final ones; with it on the assembler keeps every
relocation and the linker computes both halves from the final addresses, whatever
was filled in before. `HalvesAdd`: the rounded high part and the sign-extended low
part add up to the value.

*Run* `gas`: three frags (two branches that depend on each other through an
alignment or an `.org` need three), all constants, files of three instructions (a
pair with a call to shorten between its halves, two high parts for one low part).

*Fairness*: weak fairness of the next step: gas is one sequential program.

*Not covered*: leb128, dwarf and cfa frags, broken words; `la`, `call` and other
macros with fixed expansions. Distances in `GasFixups` are in words, and in its
instances 4096 is 4.

## 8. MappingSymbols, MapDis, Listing

`MappingSymbols`: `riscv_mapping_state` makes `$d`, `$x` and `$xrv...` while lines
are parsed; a frag may be full at any moment (`FragRoom`, a choice), alignments
are variable parts or NOPs; when sizes are known `riscv_handle_align` may add
symbols for odd padding and `riscv_check_mapping_symbols` removes those that
another one at the same address makes superfluous.

`MapDis`: `disassemble_section` cuts sections at labels into ranges and calls
`print_insn_riscv`, which finds the mapping symbol of an address through five
statics (`cache`). How long an instruction is depends on bytes that are not
modelled, so it is a choice.

`Listing` is the two in sequence. It takes two kinds of files: one under
`.option relax` throughout, and one that may switch it but has no data of size 0.
`WriteObject` hands bytes and symbols over; objdump lists a first section and then this one. `ListedAsAssembled` compares the
listing with what was assembled. `OffsetOrder` is the assertion of the assembler.
`ListedRight` is about the disassembler alone, on files with labels and addresses
anywhere.

*Proof* (`GasRelaxProofs`). `MarksInOrder` is `OffsetOrder` for any number of lines,
any architectures, sizes and alignments and wherever a frag is full
(`MapAssumption`). Order alone is not inductive: the symbol of a new line is
made at the end of the bytes of its frag, and nothing in the order says that the
symbols before it are not further on. `MapInv` adds that (`Inside`), and that
`first_map_symbol` and `last_map_symbol` point to symbols of their frag (`MarksFit`).
Every change of frags is one of two kinds: a symbol at or behind the last one
(`MakeFits`), or frags that get longer or are followed by others (`ExtendSound`). Two
steps are neither. NOPs for an alignment are there before the symbol in front of them
is made, which lies between the two (`NopFragSound`). `riscv_add_odd_padding_symbol`
makes a `$x` one byte behind the end of its frag, and `MapInv` holds again only because
`riscv_handle_align` goes on to write an odd number of bytes there
(`HandleAlignSound`).

*Run* `listing`: four lines (code, empty data, alignment, code is the shortest
sequence in which three symbols meet at an address), and two sections at equal
and at adjacent addresses.

*Not covered*: objdump's `-D` and `--start-address`, `BSF_OBJECT` symbols; the
number of zeroes that is skipped is 4, not 8. Files with code at odd addresses
and files in which relaxation was switched between alignments are not handed over.

## 9. The page: WebTool and DumpTables

### WebTool

One module stands for the four files; `Tool` selects the differences (the 32-bit
factories resolve their promise at once, the 64-bit ones await the
instantiation; a second run asserts in one and returns in the other; only
`as-new64` keeps `dependenciesFulfilled`, and only it reads the output again
while unwinding a trap). Each action is one task of the event loop; `run` is
synchronous and so atomic.

| Model | Code (`as-new64.js` unless named) |
|---|---|
| `createModule` | the factory up to the call of `createWasm` |
| `receiveInstance`, `instantiationFails` | `receiveInstance`, `removeRunDependency`, `abort` |
| `runEarly`, `runHooked`, `runDeferred`, `runNow` | the four ways through `run` |
| `doRun`, `secondRun`, `callMain` | `doRun`, its first test, `callMain` with `exit` and `handleException` |
| `timerFires`, `hookDone` | the `setTimeout` callback, a dependency removed by the page |

How main ends (`ok`, `error`: output removed, `trap`) is a choice: main is the
compiled C program.

*Runs.* `web_as64`, and `page` for the 32-bit linker: two instances, two argument arrays, two calls
with each. Two instances are what it takes to see a file of another instance in
the shared variable; two arrays, to tell the files apart; two calls, to reach
the second-run paths and the emptied array. Instances and arrays are
interchangeable (symmetry). The page may stop at any time, so deadlock is not
checked.

| Property | Says |
|---|---|
| `ReturnsOwnFile` | what `run` returns is the complete output of its own arguments |
| `ReadyMeansRunnable` | after a 64-bit promise is resolved, `run` gives `undefined` only because of a hook's dependency |
| `MainNeedsInstance` | main is entered only in an instantiated module, through its first `doRun` |

`ReturnsOwnFile` leaves out two kinds of calls, which do return another job's
file, visibly in the code: calls with `Module.setStatus`, which return before
the tool has run, and a second run of a 32-bit instance, which returns whatever
`ofile` holds. For ld, the model does not pass an emptied array to a second run.

*Finding `web_postponed`.* A comment at `ld-new64.js:5210` says that a run whose
hook added a dependency "will be called later"; the codemod comments out the
assignment of `dependenciesFulfilled` that would do so. The run is under
`LiveSpec`: the browser ends an instantiation and fires timers, and a hook that
adds a dependency removes it. The run is nevertheless never repeated.

*Proofs* (`WebToolProofs`), for any sets of instances and jobs, any bound on
calls and each of the four tools: `TypeCorrectness` (which has main entered at
most once per instance), `OwnFile`, `Runnable`, `MainAfterInstantiation`. The
invariant has one part per instance (a module that is loading, or failed to
load, has its one dependency; calls reach a 64-bit instance only once it is
live; an instance that was aborted and did not fail to load has run; timers and
main belong to live instances) and one per job (how a recorded result
relates to the flags recorded with it). It is needed because `ReturnsOwnFile`
speaks of a variable that every instance writes: what makes it true is that a
`doRun` which does not throw and does not enter main cannot happen in a first,
undeferred run. Assumptions: the two on `Tool` and `MaxCalls`. Liveness is with
TLC only.

*Not modelled*: Emscripten's file system and system calls, string conversion,
output to the console, `Module` options other than `preRun` and `setStatus`, a
hook that adds more than one dependency.

### DumpTables

`objdump.js` and `objdump64.js` have no result: `Module.print` is called for each
line and fills `instructions`, `data` and `libtags`. The parser's position
(`sectionasm32`), mode, tables and the page's `entry_elf` are variables of the
file. A line is a record of its kind, address and value; `Wide` selects the
64-bit file. A run may end by `exit`, by a trap, or by an exception in `print`
(`PrintThrows`), and the next run starts from what is left. The page empties the
two tables between runs (`TakeTables`; assumed, it is not in this repository). An
address is looked for in all fields of a row (`Has`), as the code does. A word
whose mnemonic reads as further digits comes from the page's
`list_data_instructions` (`WordsOf`): what is put there depends on whether the
page's value is an array, on its sign, its type and its last element.

`cut` is a history variable: the run before was of a library, or itself came
behind such a run, and did not come to `exit`. `islib32` is then still set
(`objdump.js:5707`, `:5745`) and the tables of the next program stay empty; in the
64-bit file, where `print` throws at every library, that program throws as well,
and so does every later one. `ListingInTables` says that this is all that passes
from run to run: a program behind any other run has the right tables, also the
second one behind a cut-off library. Its other hypotheses name what the code gets
wrong within one listing: `Ambiguous` (an address that is also a name or a word)
and `Readable` (a word that the page cannot make up for). The instance contains all of
these; section 12 lists them.

| Property | Says |
|---|---|
| `ListingInTables` | after a run that is not `cut` the tables have the rows of this run's program, each once and in order, readable data words grouped under their label, and the entry is this program's |
| `LibraryNames` | after a library run of `objdump.js` its functions are all in `libtags`, and none is there twice after any number of libraries |

*Run* `page`: three runs over libraries and programs (one or two functions, no, one or
two data labels, each kind of page value, with and without attributes), each of which
may trap anywhere, and the 32-bit linker of `WebTool`. Three, so that a program can
follow a program that followed a library.

*Not covered*: the text of lines (a line is of one kind); library names in the
64-bit file, where `print` throws at every library.

## 10. BuildDriver

The script is a sequence of commands under `set -e`; `pc` is the command it is
at. `Parse` is the option loop (a fold over the words) and the assignment of
words without an option. `Interrupt` ends a run inside a command, and `HalfDone`
says what each leaves behind: an interrupted `rm`, a `config.status` without its
`Makefile`, a partial build, a truncated copy.

`bin` is `toolchain_build/binaries` by file name, twelve names. `CopyLines` is the
table of the eighteen `cp` and `jscodeshift` lines with the names they give. The
contents of a file are the build and the tool it is from and, for a `.js`, the
`.wasm` it loads. A built `.js` loads the name without the 64; the transforms for
as and ld of RV64 replace it (`Renamed`), those for RV32 leave it.
`transform-objdump64.js` does not edit: it returns another file, from a path on the
author's machine (`Desired`), or throws where there is none. A transform that throws
leaves the file as it was and the script goes on (`Transform`).

*Run* `build_runs`: three runs of the script with accepted and refused command
lines for both architectures, on the committed tree and on configured trees. A
success after an interrupted run after a success for the other architecture
needs three. The user need not start the script again, so deadlock is not
checked.

| Property | Says |
|---|---|
| `ExitZeroIsFresh` | after exit 0 each `.js` and `.wasm` of the architecture is whole and from this run's build for it, `objdump64.js` excepted where its transform replaced it |
| `NoStaleStamp` | no stamp or build of an earlier run survives to `configure` and `make build-binutils` |
| `OwnFiles` | at all times, between and inside runs, a built file stands under a name of its own architecture and tool, and a transformed or committed `.js` loads the `.wasm` of these |

*Not modelled*: the comparison of version numbers (one outcome of the dependency
checks), the exported `EM_CACHE`, colours and messages.

*Proofs* (`BuildDriverProofs`). For any number of runs, any tools, command lines
and trees to start from (`TreesAssumption`: they have the form of a tree), wherever
runs are interrupted: `SuccessIsFresh` (`ExitZeroIsFresh`), `StampsAreClean`
(`NoStaleStamp`), `FilesAreOwn` (`OwnFiles`). `IInv` adds `Progress`: what the script
knows of the tree and of the files at each of its commands. `OwnFiles` needs it, and
with it `NoStaleStamp`: the names are those of `set.arch`, the contents those of the
build in the tree, and only the order of template, clean, configure and build makes
the two agree; `CopyLinesFacts` is the part about the names. What `Parse` computes is not needed, only that an accepted line names an architecture.

## 11. Runs

| Run | Instance | Properties |
|---|---|---|
| `relax_layout` | three sections, two output sections, two rounds | nine, section 2 |
| `hilo` | four links | `NoOrphanLow`, `GpReach`, `CLuiReach` |
| `delete` | one section, two trips, with and without `--wrap` | `ImplementsEdit`, `PairsStay` |
| `tables` | six of eleven files; both linkers of `RelocSection`; `GotPlt` with one and three symbols | `MergedIsUnion`, `OneAbi`, `PairGivesAddress`, `AllApplied`, `RoomSuffices`, `RunTimeRight` |
| `isa` | five lines | `ListIntact`, `HeaderCoversCode`, `PopRestores` |
| `gas` | three frags; all constants; three instructions | `BranchArrives`, `PadsHold`, `Terminates`, `RightValue`, `PairAddresses` |
| `listing` | four lines; files from elsewhere | `ListedAsAssembled`, `OffsetOrder`, `ListedRight` |
| `web_as64` | two instances, two arrays | `TypeOK`, `ReturnsOwnFile`, `ReadyMeansRunnable` |
| `page` | the 32-bit linker; three objdump runs | `MainNeedsInstance`, `ListingInTables`, `LibraryNames` |
| `build_runs` | three runs of the script | `ExitZeroIsFresh`, `NoStaleStamp`, `OwnFiles` |
| `fixups_store` | three instructions | `StoredRegister`, violated |
| `web_postponed` | the 64-bit linker | `PostponedRunHappens`, violated |

Deadlock is checked where the program may not stop half-way (`relax_layout`,
`hilo`, `delete`, `tables`, `listing`); elsewhere the user, the page or the end
of the file may end a behaviour at any time. The instances of the passing runs
leave out the inputs of section 12.

## 12. Disagreements between the code and what is said of it

Two have a run that shows them:

- `fixups_store` (`tc-riscv.c:4474`): `md_apply_fix` fills the low part of a store
  as if it were a load, and the bits are or-ed over the source register; the
  comment at `:4460` speaks of the immediate only.
- `web_postponed` (`ld-new64.js:5212`): section 9.

The others were met while modelling. The instances exclude the inputs that show
them, or no property speaks of them; they are listed so that nobody takes the
properties to cover them.

*Linker* (`elfnn-riscv.c`).

- `:4522` The comment at `:4517` explains the allowance for a shortened call by
  alignment alone. The distance to an absolute symbol also grows by each byte
  deleted in front of the call, so such a call may end out of reach.
- `:5198` `reserve_size` is not assigned for a global function symbol; the two
  halves of a pair are judged with what two other relocs left there, and a deleted
  `lui` may keep its low part ("Delete unnecessary LUI", `:4673`).
- `:5008` "so that we can reset the max_alignment_for_gp for the repeated relax
  passes": the reset comes after the early return for `sec_flg0`, so it does not
  happen in a second round.
- `:2507` A `SET_ULEB128` that is the last of its kind in a section is dropped
  without the error that one must be paired.
- `:1561` A local thread-local symbol with GD and IE references gets two words and
  one reloc; three and two or more are written.
- `:2355` In a static executable pointers to ifuncs are appended to `.rela.iplt`
  while PLT entries go there by index: they overwrite each other.
- `:906` The message about an absolute symbol in a position-independent link reads
  `h->root`, also for a local symbol, whose `h` is null.
- `:3313` The GOT word of an absolute symbol gets a RELATIVE reloc, which adds the
  load address.
- `:3832` "Raise an error if there are conflicting attributes" (`:3844`): conflicts
  are looked for in each input and not in the merged string, so `f` and `zfinx`
  together are accepted, and refused when the next file is merged.
- `:3647` The letters merged have no `k`, which the parser accepts.
- `:3931` "Update the output privileged spec to the newest one" (`:3962`): a version
  that is not in the linker's table counts as none and is replaced.

*Assembler* (`tc-riscv.c` unless named).

- `:4568` The manual gives `.option norvc` and `.option arch, -c` the same meaning;
  with `zca` in the list the first stops compression and the second does not.
- `:4624` `.option pop` does not bring back `xlen`.
- `:4591` `.option arch` may change `xlen` and, unlike `.attribute arch`, does not
  set the class of the file again.
- `:413` Without `-mabi`, the ABI is set at the first instruction and at the end;
  the second time does not clear the RVE flag of the first.
- `elfxx-riscv.c:2247` Copying a list that a refused ISA string emptied leaves the
  copy's `tail` unset; the next look-up follows it.
- `elfxx-riscv.c:2301` `.option arch, =rv32imac` of the manual is refused.
- `:4467` Without relaxation, a low part written before its high part keeps its
  relocation while that of the high part is dropped, and the link fails.
- `:4476` A pair is resolved for good by the value of `.option relax` at the end of
  the file, whatever it was at a call in between that the linker then shortens.
- `:695` Under `norelax` an alignment of size 0 followed by data takes the
  `$xrv...` of the section with it: the first instruction gets a plain `$x`.
- `:701` Empty data between two alignments of size 0 leaves two symbols at one
  address.
- `:562` Odd padding behind an alignment that was given up because of its maximum
  has no `$x` behind its `$d`.
- `:4748` A `norelax` alignment in a file that ends under `relax` is filled with
  zeroes (a FIXME in `testsuite/gas/riscv/mapping.s` knows).
- `write.c:3165` "Until nothing further to relax": a compressed branch over a branch
  over an alignment, without linker relaxation, goes around until the loop gives
  up, although the long forms would do (`c.beqz` at 8, 246 bytes, `bge`, 4078
  bytes, `.balign 16`).

*objdump and its wrapper.*

- `riscv-dis.c:1148` A data item is cut at mapping symbols and not at labels; a
  label inside one makes objdump leave out the bytes in front of it.
- `riscv-dis.c:1077` In a section that does not begin with a mapping symbol the
  boundary found in the section before is used.
- `riscv-dis.c:1001` `--visualize-jumps` walks each range twice; the remembered
  state has no lower bound, and the second walk starts with the state in which the
  first one ended.
- `objdump.js:412` Every line is searched for `.data`, where the dot matches any
  character: an operand `<mydata>` counts as the head of a section.
- `objdump.js:335` For words that read as more hexadecimal digits the last element of
  the page's array is taken, whichever word it is; both halves of a double, low one
  first; `undefined` for a negative value of another type. Nothing is put if the
  value is no array: the word is lost.
- `objdump.js:369` A value without a sign is put as it stands in the source:
  `toString(16)` of a string converts nothing.
- `objdump.js:318` In the row of its label such a word is put with its mnemonic.
- `objdump.js:301` The address of a line is looked for in all fields of a row: a
  label called like an address (`face`, `add`) takes the line of that address.
- `objdump.js:5707` The library mode is reset in `exit` only: after a library run
  that traps, the next program's tables stay empty, and its functions are added to
  `libtags`.
- `objdump64.js:218` `print` throws at the first line of a library that is no label,
  so the mode stays on, and no program after it is listed.
- `objdump.js:388` A program without entry label keeps the entry of the last one
  (nothing is promised).

*Web and build.*

- `as-new64.js:4844` With `Module.setStatus`, `run` returns before the tool has run
  (nothing is promised).
- `assembler_sail.sh:410` jscodeshift exits 0 when a transform throws, so exit
  status 0 does not mean that the files were transformed. An untransformed `.js` of
  RV64 loads the `.wasm` of RV32.
- `transform-objdump64.js:16` The file it returns is on the author's machine; elsewhere
  it always throws, and `objdump64.js` is left to load `objdump.wasm`.
- `Makefile:1` The committed file names paths of another machine: `make clean` fails
  in a fresh checkout, before anything is built.
- `assembler_sail.sh:423` The RV32 branch passes `--with-gmp=GMP_EM_DIR`, without `$`.
- `assembler_sail.sh:72` The cache of the first usage example fills no variable and
  is dropped without a message.

## 13. What is proved and what is only checked

Proved for every value of the constants that satisfies the named assumptions of
the module:

| Module | Properties that are theorems | Further hypotheses |
|---|---|---|
| `RelaxLayout` | `TypeOK`, `Separated`, `JumpsInRange`, `SectionsNeverMoveUp`, `FinalLayout`, `PadsAligned` | `HeadersShrink` |
| | `NothingLeftToShorten` | `HeadersFixed` |
| | `AlignErrorOnlyIfMixed` | `HeadersShrink`, `FourByteObjects` |
| `RelaxHiLo` | `NoOrphanLow` | none |
| `RelaxDelete` | `ImplementsEdit` (the refinement of `SectionEdit`), `PairsStay` | none |
| `RelocSection` | `PairGivesAddress`, `AllApplied` | none |
| `MergeAttrs` | `MergedIsUnion`, `OneAbi` | none |
| `GasOptions` | `ListIntact`, `HeaderCoversCode`, `PopRestores` | none |
| `GasRelax` | `BranchArrives`, `PadsHold` | none |
| `GasFixups` | `PairAddresses` | `Ordinary` |
| `MappingSymbols` | `OffsetOrder` | none |
| `WebTool` | `TypeOK`, `ReturnsOwnFile`, `ReadyMeansRunnable`, `MainNeedsInstance` | none |
| `BuildDriver` | `ExitZeroIsFresh`, `NoStaleStamp`, `OwnFiles` | none |

Each proof has the same shape: an invariant (`IInv`, `RelocInv`, `FixupsInv`,
`MapInv`), which TLC has checked on the run's instance, holds initially and is kept by
each action; the property follows from it. The provers have no induction over data,
so `GasOptionsProofs`, `RelaxDeleteProofs`, `AddressPairProofs` and `GasRelaxProofs`
derive it: every non-empty set of naturals has a least member (from the library's
theorem that proper inclusion of finite sets is well-founded), hence induction over
sets of naturals (`Induct`, `InductTo`, `UpToN`), hence facts about functions defined
by recursion and about folds.

Only model-checked:

- liveness (`Terminates` of two modules, `PostponedRunHappens`): fairness and
  `ENABLED` are outside the prover;
- `GpReach` and `CLuiReach` of `RelaxHiLo`, which hold for the links of the run and
  not for all constants, see section 3;
- `GotPlt`, `MacroExpand`, `MapDis`, `Listing`, `DumpTables`:
  `RightValue` is about what recursive functions on
  bit patterns compute; `RunTimeRight` is a case distinction over all kinds of
  symbols and links, which the run goes through; the others have not been tried.

## 14. Not modelled

- The encoder of single instructions and the opcode tables: no state, and a
  model would be a copy of the tables.
- Generic BFD, gas, ld and binutils, gprof, libiberty, the simulators and the
  code for other processors, which make up nearly all of the repository's lines:
  vendored, and not used by the RISC-V tools or only as a library. The parts
  through which the modelled code runs (`ldlang.c`, `ldexp.c`, `ldelfgen.c`,
  `write.c`, `frags.c`, `elflink.c`, `elf-ifunc.c`, `objdump.c`) are modelled as
  far as they do.
- `new_comp.sh`, the regression scripts and allow lists of the upstream
  toolchain: the first is superseded, the others compare text.
- Emscripten's run-time library inside the committed `.js` files.

## 15. Plan

Left to prove: `RoomSuffices` of `GotPlt`. What `allocate_dynrelocs` reserves for a
symbol covers what `finish_dynamic_symbol` and `relocate_section` write for it,
summed over the symbols, for inputs other than those of section 12; the sum is a
recursive function, for which `GasOptionsProofs` has the induction.
