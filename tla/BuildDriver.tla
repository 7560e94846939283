---------------------------- MODULE BuildDriver ----------------------------
(***************************************************************************)
(* assembler_sail.sh: the script that builds the web versions of as, ld and *)
(* objdump for RV32 or RV64 in the source tree, with the parts of           *)
(* Makefile32.in / Makefile64.in that it calls.                             *)
(*                                                                          *)
(* The tree outlives a run: the script is run again after a success, for    *)
(* the other architecture, or after a command failed or the user pressed    *)
(* Ctrl-C in the middle of one.  It runs under `set -e': the first command  *)
(* that fails ends it.                                                      *)
(***************************************************************************)
EXTENDS Naturals, Sequences, SequencesExt

CONSTANTS
  CommandLines,   \* the argument lists the user types
  Trees,          \* the states of the source tree before the first run
  Env,            \* what the user's machine provides for a word given as a path
  MaxRuns         \* bound: runs of the script

ASSUME MaxRunsAssumption == MaxRuns \in Nat \ {0}

Arch == {"RV32", "RV64"}
Tools == <<"as-new", "ld-new", "objdump">>
None == "none"

VARIABLES
  pc,     \* the command the script is at, or how the last run ended
  tool,   \* index in Tools: the tool whose files are being copied
  set,    \* ARCHITECTURE, CACHE_PATH, GMP_EM_DIR, MPC_EM_DIR, MPFR_EM_DIR
  tree,   \* Makefile.in, Makefile, config.status, stamps/, build-binutils-newlib/
  bin,    \* toolchain_build/binaries: the contents of each file, by name
  id,     \* number of the current run
  blame   \* what made the last run fail: "user" (words, machine, Ctrl-C) or "tree"

vars == <<pc, tool, set, tree, bin, id, blame>>

------------------------------------------------------------------------------
(***************************************************************************)
(* The command line.  A word is an option, a flag or a value.               *)
(***************************************************************************)
OptionOf(w) ==
  CASE w = "--arch" -> "arch"
    [] w = "--cache" -> "cache"
    [] w \in {"--gmp-dir", "--gmp", "--gmp_path"} -> "gmp"
    [] w \in {"--mpc-dir", "--mpc", "--mpc_path"} -> "mpc"
    [] w \in {"--mpfr-dir", "--mpfr", "--mpfr_path"} -> "mpfr"
    [] OTHER -> None

Unset == [arch |-> "", cache |-> "", gmp |-> "", mpc |-> "", mpfr |-> ""]

\* One turn of the option loop.  An option takes the next word, whatever it is.
OptionTurn(s, w) ==
  IF s.end # None THEN s
  ELSE IF s.option # None
    THEN [s EXCEPT !.val[s.option] = w, !.option = None]
  ELSE IF OptionOf(w) # None THEN [s EXCEPT !.option = OptionOf(w)]
  ELSE IF w \in {"-h", "--help"} THEN [s EXCEPT !.end = "help"]
  ELSE IF w = "--unknown" THEN [s EXCEPT !.end = "unknown"]
  ELSE [s EXCEPT !.words = Append(@, w)]

\* Words without an option fill the variables that are still empty: the n-th
\* word one of four variables, CACHE_PATH not being among them.
Fill(val, words) ==
  [v \in DOMAIN val |->
     LET n == CASE v = "arch" -> 1 [] v = "gmp" -> 2 [] v = "mpc" -> 3
                [] v = "mpfr" -> 4 [] OTHER -> Len(words) + 1
     IN  IF val[v] = "" /\ Len(words) >= n THEN words[n] ELSE val[v]]

\* The option loop.
Scan(argv) ==
  FoldLeft(OptionTurn, [val |-> Unset, words |-> <<>>, option |-> None, end |-> None], argv)

\* What comes after it.  An option at the end has no value: `shift 2' fails,
\* which ends the script.
Outcome(s) ==
  LET val == Fill(s.val, s.words)
  IN  [end |-> IF s.end \in {"help", "unknown"} THEN s.end
               ELSE IF s.option # None THEN "shift"
               ELSE IF \E v \in {"arch", "gmp", "mpc", "mpfr"} : val[v] = "" THEN "missing"
               ELSE IF val.arch \notin Arch THEN "architecture"
               ELSE "accepted",
       val |-> val]

Parse(argv) == Outcome(Scan(argv))

------------------------------------------------------------------------------
(***************************************************************************)
(* The source tree.  A Makefile is known by the template it was made from;  *)
(* the committed one names the directory of another machine.  A build       *)
(* directory is known by its architecture, the run that made it and whether *)
(* it is complete.                                                          *)
(***************************************************************************)
NoBuild == [arch |-> None, run |-> 0, whole |-> FALSE]

Makefiles == Arch \cup {"foreign"}
Builds == [arch : Makefiles \cup {None}, run : Nat, whole : BOOLEAN]

(***************************************************************************)
(* The files of toolchain_build/binaries by name.  The page takes those     *)
(* whose names have a 64 for RV64 and the others for RV32.                  *)
(***************************************************************************)
JsNames == {"as-new.js", "as-new64.js", "ld-new.js", "ld-new64.js", "objdump.js", "objdump64.js"}
WasmNames == {"as-new.wasm", "as-new64.wasm", "ld-new.wasm", "ld-new64.wasm",
              "objdump.wasm", "objdump64.wasm"}
Names == JsNames \cup WasmNames

Wide == {"as-new64.js", "as-new64.wasm", "ld-new64.js", "ld-new64.wasm",
         "objdump64.js", "objdump64.wasm"}
ArchOf(n) == IF n \in Wide THEN "RV64" ELSE "RV32"
ToolOf(n) ==
  IF n \in {"as-new.js", "as-new64.js", "as-new.wasm", "as-new64.wasm"} THEN "as-new"
  ELSE IF n \in {"ld-new.js", "ld-new64.js", "ld-new.wasm", "ld-new64.wasm"} THEN "ld-new"
  ELSE "objdump"

\* The .wasm that goes with a .js: what the committed .js files load.
OwnWasm(n) ==
  CASE n = "as-new.js"  -> "as-new.wasm"  [] n = "as-new64.js"  -> "as-new64.wasm"
    [] n = "ld-new.js"  -> "ld-new.wasm"  [] n = "ld-new64.js"  -> "ld-new64.wasm"
    [] n = "objdump.js" -> "objdump.wasm" [] n = "objdump64.js" -> "objdump64.wasm"

\* The contents of a file: the build and the tool it comes from, the name of the
\* .wasm it loads if it is a .js, and what was done to it.
Contents == [build : Builds, tool : {"as-new", "ld-new", "objdump"},
             loads : WasmNames \cup {None},
             state : {"absent", "committed", "built", "torn", "transformed", "desired"}]

\* Of the tree as committed: the .js files, of no build here, and no .wasm.
Committed(n) ==
  [build |-> NoBuild, tool |-> ToolOf(n),
   loads |-> IF n \in JsNames THEN OwnWasm(n) ELSE None,
   state |-> IF n \in JsNames THEN "committed" ELSE "absent"]

\* The tree as committed: a Makefile with absolute names of another machine, no
\* config.status, the stamps of a build that is not there.
Fresh == [makefileIn |-> "RV32", makefile |-> "foreign", config |-> None,
          dirs |-> <<>>, stamp |-> TRUE, build |-> NoBuild]

\* A tree in which configure and a build ended once, before the first run.
Configured(a) == [makefileIn |-> a, makefile |-> a, config |-> a,
                  dirs |-> <<>>, stamp |-> TRUE,
                  build |-> [arch |-> a, run |-> 0, whole |-> TRUE]]

IsTree(t) ==
  /\ DOMAIN t = {"makefileIn", "makefile", "config", "dirs", "stamp", "build"}
  /\ t.makefileIn \in Arch /\ t.makefile \in Makefiles /\ t.stamp \in BOOLEAN /\ t.build \in Builds

ASSUME TreesAssumption == \A t \in Trees : IsTree(t)

Init ==
  /\ pc = "idle" /\ tool = 1 /\ set = Unset /\ id = 0 /\ blame = None
  /\ tree \in Trees
  /\ bin = [n \in Names |-> Committed(n)]

Ended == {"idle", "exit0", "help", "failed"}

Goto(command) == pc' = command /\ UNCHANGED blame
Fails(why) == pc' = "failed" /\ blame' = why

\* The user starts the script: options, words, the required variables.
RunScript ==
  /\ pc \in Ended /\ id < MaxRuns
  /\ id' = id + 1 /\ tool' = 1
  /\ \E argv \in CommandLines :
       LET p == Parse(argv)
       IN  /\ set' = p.val
           /\ CASE p.end = "accepted" -> pc' = "checks" /\ blame' = None
                [] p.end = "help"     -> pc' = "help" /\ blame' = None
                [] OTHER              -> Fails("user")
  /\ UNCHANGED <<tree, bin>>

\* gmp.h, libgmp, mpc.h, ... under the directories given; emcc and emar there and
\* new enough.  The fallbacks through pkg-config and ldconfig are not reached:
\* the directories are required above, and a miss in one of them exits.
CheckDependencies ==
  /\ pc = "checks"
  /\ \/ /\ \A v \in {"gmp", "mpc", "mpfr"} : v \in Env[set[v]]
        /\ Goto("copyIn")
     \/ Fails("user")
  /\ UNCHANGED <<tool, set, tree, bin, id>>

\* Mutant of CopyMakefileIn: both branches copy the same template.
CopyMakefileIn_same ==
  /\ pc = "copyIn"
  /\ tree' = [tree EXCEPT !.makefileIn = "RV64"]
  /\ Goto("clean")
  /\ UNCHANGED <<tool, set, bin, id>>

\* cp MakefileNN.in Makefile.in
CopyMakefileIn ==
  /\ pc = "copyIn"
  /\ tree' = [tree EXCEPT !.makefileIn = set.arch]
  /\ Goto("clean")
  /\ UNCHANGED <<tool, set, bin, id>>

(***************************************************************************)
(* make clean.  Makefile depends on Makefile.in, which is newer now: make   *)
(* first makes Makefile again, by config.status.                            *)
(***************************************************************************)
CanRemake == tree.makefile # "foreign" /\ tree.config # None
Remade == [tree EXCEPT !.makefile = tree.makefileIn]

\* Mutant of MakeClean: the clean rule forgets the stamps.
MakeClean_keepsStamps ==
  /\ pc = "clean" /\ CanRemake
  /\ tree' = [Remade EXCEPT !.build = NoBuild]
  /\ Goto("configure")
  /\ UNCHANGED <<tool, set, bin, id>>

MakeClean ==
  /\ pc = "clean" /\ CanRemake
  /\ tree' = [Remade EXCEPT !.stamp = FALSE, !.build = NoBuild]
  /\ Goto("configure")
  /\ UNCHANGED <<tool, set, bin, id>>

MakeCleanFails ==
  /\ pc = "clean" /\ ~CanRemake
  /\ Fails("tree")
  /\ UNCHANGED <<tool, set, tree, bin, id>>

\* emconfigure ./configure.  The RV32 branch passes the names of the variables.
GivenDirs == <<set.gmp, set.mpfr, set.mpc>>
PassedDirs == IF set.arch = "RV32" THEN <<"GMP_EM_DIR", "MPFR_EM_DIR", "MPC_EM_DIR">>
              ELSE GivenDirs

Configure ==
  /\ pc = "configure"
  /\ tree' = [tree EXCEPT !.makefile = tree.makefileIn,
                          !.config = set.arch, !.dirs = PassedDirs]
  /\ Goto("build")
  /\ UNCHANGED <<tool, set, bin, id>>

\* make build-binutils: nothing to do when the stamp is there.
MakeBuild ==
  /\ pc = "build"
  /\ tree' = IF tree.stamp THEN tree
             ELSE [tree EXCEPT !.stamp = TRUE,
                     !.build = [arch |-> tree.makefile, run |-> id, whole |-> TRUE]]
  /\ Goto("js")
  /\ UNCHANGED <<tool, set, bin, id>>

------------------------------------------------------------------------------
(***************************************************************************)
(* For each tool: cp x.js, jscodeshift on the copy, cp x.wasm.  The lines   *)
(* of the two branches, three for each tool, with the names they give:      *)
(* where the .js goes, the transform and the file it is to edit, where the  *)
(* .wasm goes.                                                              *)
(***************************************************************************)
Lines(t, js, transform, edit, wasm) ==
  [tool |-> t, js |-> js, transform |-> transform, edit |-> edit, wasm |-> wasm]

\* Mutant of CopyLines: the last line of the RV64 branch without the 64.
CopyLines_objdump(a) ==
  IF a = "RV64"
    THEN <<Lines("as-new", "as-new64.js", "as64", "as-new64.js", "as-new64.wasm"),
           Lines("ld-new", "ld-new64.js", "ld64", "ld-new64.js", "ld-new64.wasm"),
           Lines("objdump", "objdump64.js", "objdump64", "objdump64.js", "objdump.wasm")>>
    ELSE <<Lines("as-new", "as-new.js", "as32", "as-new.js", "as-new.wasm"),
           Lines("ld-new", "ld-new.js", "ld32", "ld-new.js", "ld-new.wasm"),
           Lines("objdump", "objdump.js", "objdump32", "objdump.js", "objdump.wasm")>>

CopyLines(a) ==
  IF a = "RV64"
    THEN <<Lines("as-new", "as-new64.js", "as64", "as-new64.js", "as-new64.wasm"),
           Lines("ld-new", "ld-new64.js", "ld64", "ld-new64.js", "ld-new64.wasm"),
           Lines("objdump", "objdump64.js", "objdump64", "objdump64.js", "objdump64.wasm")>>
    ELSE <<Lines("as-new", "as-new.js", "as32", "as-new.js", "as-new.wasm"),
           Lines("ld-new", "ld-new.js", "ld32", "ld-new.js", "ld-new.wasm"),
           Lines("objdump", "objdump.js", "objdump32", "objdump.js", "objdump.wasm")>>

Now == CopyLines(set.arch)[tool]

\* A built .js loads the .wasm that was linked with it, by the name it had there.
BuiltLoads(t) ==
  CASE t = "as-new" -> "as-new.wasm" [] t = "ld-new" -> "ld-new.wasm" [] t = "objdump" -> "objdump.wasm"

BuiltJs(t, build) == [build |-> build, tool |-> t, loads |-> BuiltLoads(t), state |-> "built"]
BuiltWasm(t, build) == [build |-> build, tool |-> t, loads |-> None, state |-> "built"]

\* The name of the .wasm after a transform: those for as and ld of RV64 replace it.
Renamed(transform, loads) ==
  IF transform = "as64" /\ loads = "as-new.wasm" THEN "as-new64.wasm"
  ELSE IF transform = "ld64" /\ loads = "ld-new.wasm" THEN "ld-new64.wasm"
  ELSE loads

\* transform-objdump64.js returns another file, objdump64.js of the page's sources
\* on the author's machine, whatever it is given.
Desired == [build |-> NoBuild, tool |-> "objdump", loads |-> "objdump64.wasm", state |-> "desired"]

Transformed(transform, f) ==
  IF transform = "objdump64" THEN Desired
  ELSE [f EXCEPT !.loads = Renamed(transform, f.loads), !.state = "transformed"]

\* cp fails unless the build is complete.  make build-binutils ended without an
\* error, so it is; NoStaleStamp is why.
CopyJs ==
  /\ pc = "js" /\ tree.build.whole
  /\ bin' = [bin EXCEPT ![Now.js] = BuiltJs(Now.tool, tree.build)]
  /\ Goto("transform")
  /\ UNCHANGED <<tool, set, tree, id>>

\* jscodeshift, called without --fail-on-error, exits 0 when the transform
\* throws; the file is then left as it was.
Transform ==
  /\ pc = "transform"
  /\ \/ bin' = [bin EXCEPT ![Now.edit] = Transformed(Now.transform, bin[Now.edit])]
     \/ UNCHANGED bin
  /\ Goto("wasm")
  /\ UNCHANGED <<tool, set, tree, id>>

CopyWasm ==
  /\ pc = "wasm"
  /\ bin' = [bin EXCEPT ![Now.wasm] = BuiltWasm(Now.tool, tree.build)]
  /\ IF tool = Len(Tools) THEN Goto("exit0") /\ UNCHANGED tool
                          ELSE Goto("js") /\ tool' = tool + 1
  /\ UNCHANGED <<set, tree, id>>

------------------------------------------------------------------------------
(***************************************************************************)
(* A command fails for a reason outside of the tree, or Ctrl-C: what a      *)
(* command leaves half-done stays.                                          *)
(***************************************************************************)
Partial == [arch |-> tree.makefile, run |-> id, whole |-> FALSE]
Torn(f) == [f EXCEPT !.build = [f.build EXCEPT !.whole = FALSE], !.state = "torn"]

HalfDone ==
  CASE pc = "clean" -> \* rm -rf build-* install-* stamps, in this order
         CanRemake /\ tree' \in {Remade, [Remade EXCEPT !.build = NoBuild],
                                 [Remade EXCEPT !.build.whole = FALSE]} /\ UNCHANGED bin
    [] pc = "configure" -> \* config.status is written before Makefile
         tree' \in {tree, [tree EXCEPT !.config = set.arch, !.dirs = PassedDirs]} /\ UNCHANGED bin
    [] pc = "build" -> \* the rule removes stamp and directory, and builds
         ~tree.stamp /\ tree' = [tree EXCEPT !.build = Partial] /\ UNCHANGED bin
    [] pc = "js" ->    \* cp truncates its target first
         tree.build.whole /\ UNCHANGED tree
         /\ bin' = [bin EXCEPT ![Now.js] = Torn(BuiltJs(Now.tool, tree.build))]
    [] pc = "transform" -> \* so does jscodeshift when it writes
         UNCHANGED tree
         /\ bin' \in {bin, [bin EXCEPT ![Now.edit] = Torn(Transformed(Now.transform, bin[Now.edit]))]}
    [] pc = "wasm" ->
         UNCHANGED tree
         /\ bin' = [bin EXCEPT ![Now.wasm] = Torn(BuiltWasm(Now.tool, tree.build))]
    [] OTHER -> UNCHANGED <<tree, bin>>

Interrupt ==
  /\ pc \notin Ended
  /\ HalfDone
  /\ Fails("user")
  /\ UNCHANGED <<tool, set, id>>

Next ==
  \/ RunScript \/ CheckDependencies \/ CopyMakefileIn
  \/ MakeClean \/ MakeCleanFails \/ Configure \/ MakeBuild
  \/ CopyJs \/ Transform \/ CopyWasm
  \/ Interrupt

Spec == Init /\ [][Next]_vars

------------------------------------------------------------------------------

\* What the current run has to have built.
OwnBuild == [arch |-> set.arch, run |-> id, whole |-> TRUE]

\* A file of this run's build, or the one that transform-objdump64.js puts instead.
IsFresh(n) ==
  bin[n].build = OwnBuild \/ (n = "objdump64.js" /\ bin[n].state = "desired")

\* A run that exits 0 leaves, for each tool, the .js and the .wasm of its own
\* architecture, both whole and both from the build this very run made for this
\* architecture: nothing of an earlier, interrupted or other-architecture build
\* is passed on, whatever the tree looked like before.  The one exception is
\* objdump64.js, which its transform may replace by a file from elsewhere.
ExitZeroIsFresh ==
  pc = "exit0" => \A n \in Names : ArchOf(n) = set.arch => IsFresh(n)

\* A stamp may stand without its build, in the tree as committed and after an
\* interrupted make clean, and a build without its stamp: neither survives to
\* the rule of build-binutils, which would do nothing, or build over the other.
NoStaleStamp ==
  pc \in {"configure", "build"} => ~tree.stamp /\ tree.build = NoBuild

\* Contents f are of the architecture and the tool that name n says.
Fits(n, f) ==
  /\ f.build.arch # None => f.build.arch = ArchOf(n) /\ f.tool = ToolOf(n)
  /\ f.state \in {"committed", "transformed", "desired"} => n \in JsNames /\ f.loads = OwnWasm(n)

\* At all times, in the middle of a run and between runs for the two architectures,
\* a file that comes from a build comes from one for the architecture, and from
\* the tool, that its name says (the cp lines of the two branches); and a .js that
\* was transformed, or not touched yet, loads the .wasm of that architecture and
\* tool.  A .js whose transform threw, or is still to come, loads the RV32 name.
OwnFiles == \A n \in Names : Fits(n, bin[n])

------------------------------------------------------------------------------
(* The inductive invariant behind them *)

Commands == {"checks", "copyIn", "clean", "configure", "build", "js", "transform", "wasm"}

TypeOK ==
  /\ pc \in Ended \cup Commands
  /\ tool \in DOMAIN Tools /\ id \in Nat
  /\ IsTree(tree)
  /\ bin \in [Names -> Contents]

\* What the script knows of the tree and of the copies at each command.
Progress ==
  /\ pc \in Commands \cup {"exit0"} => set.arch \in Arch
  /\ pc \in {"checks", "copyIn", "clean", "configure", "build"} => tool = 1
  /\ pc \in {"clean", "configure", "build"} => tree.makefileIn = set.arch
  /\ pc = "build" => tree.makefile = set.arch
  /\ pc \in {"js", "transform", "wasm"} =>
       /\ tree.build = OwnBuild
       /\ \A k \in DOMAIN Tools, n \in Names :
            k < tool /\ ToolOf(n) = Tools[k] /\ ArchOf(n) = set.arch => IsFresh(n)
  /\ pc = "transform" => bin[Now.js] = BuiltJs(Now.tool, OwnBuild)
  /\ pc = "wasm" => IsFresh(Now.js)

IInv == TypeOK /\ Progress /\ NoStaleStamp /\ ExitZeroIsFresh /\ OwnFiles

==============================================================================
