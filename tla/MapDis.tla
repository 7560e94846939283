------------------------------- MODULE MapDis -------------------------------
(***************************************************************************)
(* objdump -d of an object with mapping symbols: disassemble_section cuts  *)
(* each section into ranges at its labels and calls print_insn_riscv for   *)
(* address after address; that one finds the mapping symbol of the address *)
(* with the help of five static variables kept from call to call.          *)
(***************************************************************************)
EXTENDS Integers, Sequences, FiniteSets, FiniteSetsExt, Functions

CONSTANTS
    Archs,       \* architectures that mapping symbols name, a sequence in name order
    Objects,     \* object files that may be listed, see obj
    SkipZeroes   \* zeroes that are skipped (DEFAULT_SKIP_ZEROES)

\* "f" a global or function symbol, "l" a local label.
Labels == {"f", "l"}
ArchNames == Range(Archs)
Names == Labels \cup {"d", "x"} \cup ArchNames

VARIABLES
    obj,      \* the file: sizes and vma of the sections; its symbols, [sec, val,
              \* name]; and jumps, whether objdump --visualize-jumps lists it
    doing,    \* "section", "range", "jumps", "print", "done"
    sec,      \* info->section
    table,    \* sorted_syms = info->symtab
    sym,      \* place in table of the symbol at or behind off, 0 for NULL
    off,      \* addr_offset
    start,    \* off at the start of the range
    stop,     \* nextstop_offset = info->stop_offset
    pos,      \* info->symtab_pos, 0 for -1
    cache,    \* last_map_symbol (0 for -1), last_stop_offset, ...
    riscv_subsets, \* the architecture of the listing
    list      \* what is listed for each byte of the section

vars == <<obj, doing, sec, table, sym, off, start, stop, pos, cache, riscv_subsets, list>>

Sizes == obj.sizes
vma == obj.vma
syms == obj.syms

\* The statics of the disassembler, and objdump at its start.
Start ==
    /\ doing = "section" /\ sec = 0 /\ table = << >> /\ sym = 0
    /\ off = 0 /\ start = 0 /\ stop = 0 /\ pos = 0
    /\ cache = [sym |-> 0, stop |-> 0, bound |-> 0, state |-> "none", sec |-> 0]
    /\ riscv_subsets = "default" /\ list = << >>

Init == obj \in Objects /\ Start

---------------------------------------------------------------------------
(* disassemble_section *)

\* compare_symbols: by value, the section's own first, global symbols first,
\* then by name ($d, $x, $xrv..., labels).
Rank(n) ==
    CASE n = "f" -> 0 [] n = "d" -> 1 [] n = "x" -> 2
      [] n \in ArchNames -> 2 + CHOOSE i \in 1 .. Len(Archs) : Archs[i] = n
      [] n = "l" -> 3 + Len(Archs)

Before(s, a, b) ==
    IF a.val # b.val THEN a.val < b.val
    ELSE IF (a.sec = s) # (b.sec = s) THEN a.sec = s
    ELSE IF a.name # b.name THEN Rank(a.name) < Rank(b.name)
    ELSE a.sec < b.sec

Sorted(s) ==
    [n \in 1 .. Cardinality(syms) |->
        CHOOSE y \in syms : Cardinality({z \in syms : Before(s, z, y)}) = n - 1]

IsMapping(y) == y.name \notin Labels

\* find_symbol_for_address at the start of the section, is_valid_next_sym:
\* the first label of section s in t behind place i, above value v.
NextSym(t, s, i, v) ==
    LET ok == {n \in i + 1 .. Len(t) : t[n].sec = s /\ ~ IsMapping(t[n]) /\ t[n].val > v}
    IN IF ok = {} THEN 0 ELSE Min(ok)

StartSection ==
    /\ doing = "section" /\ sec < Len(Sizes)
    /\ sec' = sec + 1
    /\ table' = Sorted(sec + 1)
    /\ sym' = NextSym(table', sec + 1, 0, -1)
    /\ off' = 0
    /\ list' = [i \in 1 .. Sizes[sec + 1] |-> "none"]
    /\ doing' = "range"
    /\ UNCHANGED <<obj, start, stop, pos, cache, riscv_subsets>>

\* The range up to the next label; sym' is the label that ends it.
StartRange ==
    LET ahead == sym # 0 /\ table[sym].val > vma[sec] + off
        next == IF sym = 0 \/ ahead THEN sym ELSE NextSym(table, sec, sym, table[sym].val)
    IN /\ doing = "range" /\ off < Sizes[sec]
       /\ pos' = IF ahead THEN 0 ELSE sym
       /\ stop' = IF next = 0 THEN Sizes[sec] ELSE table[next].val - vma[sec]
       /\ sym' = next
       /\ start' = off
       /\ doing' = IF obj.jumps /\ sym # 0 THEN "jumps" ELSE "print"
       /\ UNCHANGED <<obj, sec, table, off, cache, riscv_subsets, list>>

EndSection ==
    /\ doing = "range" /\ off >= Sizes[sec]
    /\ doing' = IF sec = Len(Sizes) THEN "done" ELSE "section"
    /\ UNCHANGED <<obj, sec, table, sym, off, start, stop, pos, cache, riscv_subsets, list>>

---------------------------------------------------------------------------
(* riscv_search_mapping_symbol, riscv_update_map_state *)

End(s) == vma[s] + Sizes[s]

Valid(n) == table[n].sec = sec /\ IsMapping(table[n])

Lower(i, j) == IF i <= j THEN i ELSE j

\* The mapping symbol for address mem: at or below mem, from the range's
\* label or the last one found, else backwards from there; 0 if there is none.
Find(mem, last) ==
    LET from == last # 0 /\ stop = cache.stop
        ahead == {n \in (IF from THEN Lower(pos + 1, last) ELSE pos + 1) .. Len(table) :
                     Valid(n) /\ table[n].val <= mem}
        back == {n \in 1 .. (IF from THEN Lower(pos, last) ELSE pos) :
                     Valid(n) /\ table[n].val >= vma[sec]}
    IN IF ahead # {} THEN Max(ahead) ELSE IF back # {} THEN Max(back) ELSE 0

\* Where the region of mapping symbol n ends.
Boundary(n) ==
    LET next == {k \in n + 1 .. Len(table) : table[k].sec = table[n].sec /\ IsMapping(table[k])}
    IN IF next = {} THEN End(sec) ELSE table[Min(next)].val

\* Mutant: the section of the last address is not compared.
CachedAnySection(mem) == mem < cache.bound
Cached(mem) == cache.sec = sec /\ mem < cache.bound

\* The statics after a search for mem.
Search(mem) ==
    LET n == Find(mem, IF mem <= 0 THEN 0 ELSE cache.sym)
    IN IF Cached(mem) THEN cache
       ELSE [sym |-> n, stop |-> stop,
             bound |-> IF n = 0 THEN cache.bound ELSE Boundary(n),
             state |-> IF n # 0 /\ table[n].name = "d" THEN "d" ELSE "x",
             sec |-> sec]

UpdateArch(mem) ==
    LET n == Search(mem).sym
    IN IF ~ Cached(mem) /\ n # 0 /\ table[n].name \in ArchNames THEN table[n].name ELSE riscv_subsets

---------------------------------------------------------------------------
(* riscv_data_length, print_insn_riscv *)

\* The mapping symbols above address mem behind symbol n of the table.
NextMaps(mem, n) ==
    {k \in n + 1 .. Len(table) : n # 0 /\ Valid(k) /\ table[k].val > mem}

\* Bytes from mem to the first of them, or to the end of the section.
Room(mem, n) ==
    IF NextMaps(mem, n) = {} THEN End(sec) - mem
    ELSE table[Min(NextMaps(mem, n))].val - mem

\* Mutant: the end of the section is not looked at.
DataLengthFour(mem, n) ==
    IF NextMaps(mem, n) = {} THEN 4 ELSE IF Room(mem, n) = 3 THEN 2 ELSE Lower(4, Room(mem, n))
DataLength(mem, n) == IF Room(mem, n) = 3 THEN 2 ELSE Lower(4, Room(mem, n))

\* The architecture after it: the search for that symbol already takes over
\* what it names.
DataArch(mem, n) ==
    LET next == NextMaps(mem, n)
    IN IF next # {} /\ table[Min(next)].name \in ArchNames THEN table[Min(next)].name
       ELSE UpdateArch(mem)

\* What the assembler put at offset o: its last mapping symbol decides, code
\* where there is none.
SymsBelow(s, o) == {y \in syms : y.sec = s /\ IsMapping(y) /\ y.val <= vma[s] + o}
Nearest(S) == {y \in S : \A z \in S : z.val < y.val \/ (z.val = y.val /\ Rank(z.name) <= Rank(y.name))}
IsData(s, o) == \E y \in Nearest(SymsBelow(s, o)) : y.name = "d"

\* Code does not run over a symbol or the end of the section, but for a byte
\* that is left over there.  Data taken for code may look like an instruction
\* of any length.
CodeRoom(mem) == Min({End(sec) - mem} \cup {y.val - mem : y \in {z \in syms : z.sec = sec /\ z.val > mem}})
InsnLength(n) ==
    /\ n \in {2, 4}
    /\ ~ IsData(sec, off) => n <= CodeRoom(vma[sec] + off) \/ n = 2

\* One call of print_insn_riscv for n bytes.  buffer_read_memory refuses to
\* read over the end of the range, and the call returns -1: disassemble_bytes
\* gives the range up, and in disassemble_jumps the quotient of -1 by the
\* unsigned opb is added to the 64-bit offset as 2^32 - 1, which ends it too.
PrintInsn(n) ==
    LET mem == vma[sec] + off
        c == Search(mem)
        fits == off + n <= stop
    IN /\ doing \in {"jumps", "print"} /\ off < stop
       /\ IF c.state = "d" THEN n = DataLength(mem, c.sym) ELSE InsnLength(n)
       /\ cache' = c
       /\ riscv_subsets' = IF c.state = "d" THEN DataArch(mem, c.sym) ELSE UpdateArch(mem)
       /\ list' = IF doing = "print" /\ fits
                    THEN [i \in DOMAIN list |->
                            IF i - 1 \in off .. off + n - 1
                              THEN (IF c.state = "d" THEN "d" ELSE riscv_subsets') ELSE list[i]]
                    ELSE list
       /\ off' = IF fits THEN off + n ELSE stop
       /\ UNCHANGED <<obj, doing, sec, table, sym, start, stop, pos>>

\* disassemble_bytes prints "..." for n zeroes of data.
SkipZeros(n) ==
    /\ doing = "print" /\ off + n <= stop
    /\ \A o \in off .. off + n - 1 : IsData(sec, o)
    /\ \/ n >= SkipZeroes /\ (n % 4 = 0 \/ off + n = stop)
       \/ n < 3 /\ off + n = stop
    /\ list' = [i \in DOMAIN list |-> IF i - 1 \in off .. off + n - 1 THEN "d" ELSE list[i]]
    /\ off' = off + n
    /\ UNCHANGED <<obj, doing, sec, table, sym, start, stop, pos, cache, riscv_subsets>>

EndJumps ==
    /\ doing = "jumps" /\ off >= stop
    /\ doing' = "print" /\ off' = start
    /\ UNCHANGED <<obj, sec, table, sym, start, stop, pos, cache, riscv_subsets, list>>

EndRange ==
    /\ doing = "print" /\ off >= stop
    /\ doing' = "range" /\ off' = stop
    /\ UNCHANGED <<obj, sec, table, sym, start, stop, pos, cache, riscv_subsets, list>>

Stopped == doing = "done" /\ UNCHANGED vars

Next ==
    \/ StartSection \/ StartRange \/ EndSection \/ EndJumps \/ EndRange
    \/ \E n \in 1 .. 4 : PrintInsn(n)
    \/ \E n \in 1 .. Len(list) : SkipZeros(n)
    \/ Stopped

Spec == Init /\ [][Next]_vars

---------------------------------------------------------------------------
(* Properties *)

\* Every byte that is listed is listed as what it is: no region is listed
\* with the state of another one ("Return the last map state if the address
\* is still within the range of the last mapping symbol"), and code is decoded
\* for the architecture that the nearest symbol with one names.
ListedRight ==
    \A i \in DOMAIN list :
        LET a == Nearest({y \in SymsBelow(sec, i - 1) : y.name \in ArchNames})
        IN /\ list[i] # "none" => ((list[i] = "d") <=> IsData(sec, i - 1))
           /\ list[i] \notin {"none", "d"} => \A y \in a : list[i] = y.name

\* "Repeat until we have disassembled the entire section": no byte is left
\* out, and no data item has a size that riscv_disassemble_data, which
\* aborts, cannot print.
WholeSection ==
    /\ doing = "range" => \A i \in 1 .. off : list[i] # "none"
    /\ doing = "print" /\ off < stop /\ Search(vma[sec] + off).state = "d"
         => DataLength(vma[sec] + off, Search(vma[sec] + off).sym) \in {1, 2, 4}
=============================================================================
