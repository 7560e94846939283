------------------------- MODULE BuildDriverProofs -------------------------
(***************************************************************************)
(* Proofs about BuildDriver for any command lines, any machine, any source  *)
(* tree to begin with and any number of runs, interrupted anywhere.         *)
(*                                                                          *)
(* The argument: make clean leaves neither stamp nor build, so the build    *)
(* that build-binutils makes belongs to this run, and its architecture is   *)
(* the one whose template was copied to Makefile.in before configure made   *)
(* Makefile from it.  So what the copies take is of the architecture of the *)
(* run; CopyLinesFacts says that the names they give are, too, and that the *)
(* transforms put the .wasm's name right.                                   *)
(***************************************************************************)
EXTENDS BuildDriver, TLAPS

\* as-new, ld-new and objdump.
LEMMA ToolsFacts ==
    DOMAIN Tools = 1 .. 3 /\ Len(Tools) = 3
BY DEF Tools

\* The script goes on only with one of the two architectures.
LEMMA ParseArch ==
    ASSUME NEW argv, Parse(argv).end = "accepted"
    PROVE  Parse(argv).val.arch \in Arch
<1>1. ASSUME NEW s, Outcome(s).end = "accepted"
      PROVE  Outcome(s).val.arch \in Arch
  BY <1>1 DEF Outcome
<1> QED
  BY <1>1 DEF Parse

\* Changing fields of the tree leaves it a tree.
LEMMA TreeExcept ==
    ASSUME IsTree(tree), NEW a \in Arch, NEW m \in Makefiles, NEW c, NEW d, NEW b \in Builds,
           NEW st \in BOOLEAN
    PROVE  /\ IsTree([tree EXCEPT !.makefileIn = a])
           /\ IsTree([tree EXCEPT !.makefile = m])
           /\ IsTree([tree EXCEPT !.config = c, !.dirs = d])
           /\ IsTree([tree EXCEPT !.makefile = m, !.config = c, !.dirs = d])
           /\ IsTree([tree EXCEPT !.build = b])
           /\ IsTree([tree EXCEPT !.stamp = st, !.build = b])
           /\ [tree EXCEPT !.makefileIn = a].makefileIn = a
           /\ [tree EXCEPT !.makefile = m].makefileIn = tree.makefileIn
BY DEF IsTree

\* The lines of the script give names of their architecture and tool, edit the
\* file they copied, and name no other file of that tool and architecture.
LEMMA CopyLinesFacts ==
    ASSUME NEW a \in Arch, NEW k \in 1 .. 3
    PROVE  LET r == CopyLines(a)[k]
           IN  /\ r.tool = Tools[k] /\ r.tool \in {"as-new", "ld-new", "objdump"}
               /\ r.js \in JsNames /\ ArchOf(r.js) = a /\ ToolOf(r.js) = r.tool
               /\ r.wasm \in WasmNames /\ ArchOf(r.wasm) = a /\ ToolOf(r.wasm) = r.tool
               /\ r.edit = r.js
               /\ BuiltLoads(r.tool) \in WasmNames
               /\ r.transform = "objdump64" => r.js = "objdump64.js"
               /\ r.transform # "objdump64" => Renamed(r.transform, BuiltLoads(r.tool)) = OwnWasm(r.js)
               /\ \A n \in Names : ToolOf(n) = r.tool /\ ArchOf(n) = a => n \in {r.js, r.wasm}
<1> USE DEF CopyLines, Lines, Tools, JsNames, WasmNames, Names, Wide, ArchOf, ToolOf, OwnWasm,
            BuiltLoads, Renamed
<1>1. CASE a = "RV64"
  BY <1>1
<1>2. CASE a = "RV32"
  BY <1>2
<1> QED
  BY <1>1, <1>2 DEF Arch

\* One file is replaced by contents that its name fits.
LEMMA PutFile ==
    ASSUME bin \in [Names -> Contents], OwnFiles, NEW n \in Names, NEW f \in Contents, Fits(n, f),
           bin' = [bin EXCEPT ![n] = f]
    PROVE  /\ bin' \in [Names -> Contents] /\ OwnFiles'
           /\ bin'[n] = f /\ \A m \in Names : m # n => bin'[m] = bin[m]
<1>1. /\ bin' \in [Names -> Contents]
      /\ bin'[n] = f /\ \A m \in Names : m # n => bin'[m] = bin[m]
  OBVIOUS
<1>2. ASSUME NEW m \in Names
      PROVE  Fits(m, bin'[m])
  BY <1>1, m = n \/ m # n DEF OwnFiles
<1>3. OwnFiles'
  BY <1>2 DEF OwnFiles
<1> QED
  BY <1>1, <1>3

\* What the copies write fits the names they write it to.
LEMMA BuiltFits ==
    ASSUME NEW a \in Arch, NEW k \in 1 .. 3, NEW b \in Builds, b.arch = a
    PROVE  LET r == CopyLines(a)[k]
           IN  /\ r.js \in Names /\ r.edit = r.js /\ r.wasm \in Names
               /\ BuiltJs(r.tool, b) \in Contents /\ Fits(r.js, BuiltJs(r.tool, b))
               /\ BuiltWasm(r.tool, b) \in Contents /\ Fits(r.wasm, BuiltWasm(r.tool, b))
<1> DEFINE r == CopyLines(a)[k]
<1>1. /\ r.tool \in {"as-new", "ld-new", "objdump"} /\ BuiltLoads(r.tool) \in WasmNames
      /\ r.js \in Names /\ r.edit = r.js /\ ArchOf(r.js) = a /\ ToolOf(r.js) = r.tool
      /\ r.wasm \in Names /\ ArchOf(r.wasm) = a /\ ToolOf(r.wasm) = r.tool
  BY CopyLinesFacts DEF Names
<1> HIDE DEF r
<1>2. BuiltJs(r.tool, b) \in Contents /\ BuiltWasm(r.tool, b) \in Contents
  BY <1>1 DEF BuiltJs, BuiltWasm, Contents
<1>3. Fits(r.js, BuiltJs(r.tool, b)) /\ Fits(r.wasm, BuiltWasm(r.tool, b))
  BY <1>1 DEF BuiltJs, BuiltWasm, Fits
<1> QED
  BY <1>1, <1>2, <1>3 DEF r

\* A transform gives the copied .js the name of its own .wasm; the one for
\* objdump64.js puts a file there that has it.
LEMMA TransformFits ==
    ASSUME NEW a \in Arch, NEW k \in 1 .. 3, NEW b \in Builds, b.arch = a
    PROVE  LET r == CopyLines(a)[k]
               f == Transformed(r.transform, BuiltJs(r.tool, b))
           IN  /\ f \in Contents /\ Fits(r.js, f)
               /\ f.build = b \/ (r.js = "objdump64.js" /\ f.state = "desired")
<1> DEFINE r == CopyLines(a)[k]
           f == Transformed(r.transform, BuiltJs(r.tool, b))
<1>1. /\ r.tool \in {"as-new", "ld-new", "objdump"} /\ BuiltLoads(r.tool) \in WasmNames
      /\ r.js \in JsNames /\ ArchOf(r.js) = a /\ ToolOf(r.js) = r.tool
      /\ r.transform = "objdump64" => r.js = "objdump64.js"
      /\ r.transform # "objdump64" => Renamed(r.transform, BuiltLoads(r.tool)) = OwnWasm(r.js)
  BY CopyLinesFacts
<1> HIDE DEF r
<1>2. CASE r.transform = "objdump64"
  <2>1. f = Desired /\ r.js = "objdump64.js"
    BY <1>1, <1>2 DEF Transformed
  <2>2. Desired \in Contents /\ Fits("objdump64.js", Desired) /\ Desired.state = "desired"
    BY DEF Desired, Contents, Fits, NoBuild, Builds, WasmNames, JsNames, OwnWasm
  <2> QED
    BY <2>1, <2>2 DEF r
<1>3. CASE r.transform # "objdump64"
  <2>1. f = [build |-> b, tool |-> r.tool, loads |-> OwnWasm(r.js), state |-> "transformed"]
    BY <1>1, <1>3 DEF Transformed, BuiltJs
  <2>2. OwnWasm(r.js) \in WasmNames
    BY <1>1 DEF OwnWasm, JsNames, WasmNames
  <2>3. f \in Contents
    BY <1>1, <2>1, <2>2 DEF Contents
  <2>4. Fits(r.js, f) /\ f.build = b
    BY <1>1, <2>1 DEF Fits
  <2> QED
    BY <2>3, <2>4 DEF r
<1> QED
  BY <1>2, <1>3

\* A file cut off in the middle says no more than the whole one.
LEMMA TornFits ==
    ASSUME NEW n \in Names, NEW f \in Contents, Fits(n, f)
    PROVE  Torn(f) \in Contents /\ Fits(n, Torn(f))
<1> DEFINE b == [f.build EXCEPT !.whole = FALSE]
<1>1. f.build \in Builds /\ b \in Builds /\ b.arch = f.build.arch
  BY DEF Contents, Builds
<1> HIDE DEF b
<1>2. Torn(f) = [f EXCEPT !.build = b, !.state = "torn"]
  BY DEF Torn, b
<1>3. /\ Torn(f) \in Contents /\ Torn(f).build = b /\ Torn(f).tool = f.tool
      /\ Torn(f).state = "torn"
  BY <1>1, <1>2 DEF Contents
<1> QED
  BY <1>1, <1>3 DEF Fits

\* The lines the script is at, when it copies.
LEMMA AtCopies ==
    ASSUME TypeOK, Progress, pc \in {"js", "transform", "wasm"}
    PROVE  /\ set.arch \in Arch /\ tool \in 1 .. 3 /\ Now = CopyLines(set.arch)[tool]
           /\ tree.build = OwnBuild /\ OwnBuild \in Builds /\ OwnBuild.arch = set.arch
           /\ bin \in [Names -> Contents]
BY ToolsFacts DEF TypeOK, Progress, Commands, Now, OwnBuild, Builds, Makefiles

\* What Interrupt may leave of the tree and of the files.
LEMMA HalfDoneTypes ==
    ASSUME TypeOK, Progress, OwnFiles, pc \in Commands, HalfDone
    PROVE  IsTree(tree') /\ bin' \in [Names -> Contents] /\ OwnFiles'
<1>0. /\ IsTree(tree) /\ tree.build \in Builds /\ tree.makefile \in Makefiles
      /\ NoBuild \in Builds /\ Partial \in Builds
  BY DEF TypeOK, IsTree, Builds, NoBuild, Partial
<1>1. ASSUME bin' = bin
      PROVE  bin' \in [Names -> Contents] /\ OwnFiles'
  BY <1>1 DEF TypeOK, OwnFiles
<1>2. CASE pc = "clean"
  <2>1. IsTree(Remade)
    BY <1>0 DEF Remade, IsTree, Makefiles
  <2>2. IsTree([Remade EXCEPT !.build = NoBuild])
    BY <1>0, <2>1 DEF IsTree
  <2>3. IsTree([Remade EXCEPT !.build.whole = FALSE])
    BY <2>1 DEF IsTree, Builds
  <2> QED
    BY <1>1, <1>2, <2>1, <2>2, <2>3 DEF HalfDone
<1>3. CASE pc = "configure"
  BY <1>0, <1>1, <1>3 DEF HalfDone, IsTree
<1>4. CASE pc = "build"
  BY <1>0, <1>1, <1>4 DEF HalfDone, IsTree
<1>5. CASE pc = "js"
  <2> DEFINE f == BuiltJs(Now.tool, tree.build)
  <2>1. tree' = tree /\ bin' = [bin EXCEPT ![Now.js] = Torn(f)]
    BY <1>5 DEF HalfDone
  <2>2. Now.js \in Names /\ f \in Contents /\ Fits(Now.js, f)
    BY <1>5, AtCopies, BuiltFits
  <2> HIDE DEF f
  <2>3. Torn(f) \in Contents /\ Fits(Now.js, Torn(f))
    BY <2>2, TornFits
  <2> QED
    BY <1>0, <2>1, <2>2, <2>3, PutFile DEF TypeOK
<1>6. CASE pc = "transform"
  <2> DEFINE f == Transformed(Now.transform, bin[Now.edit])
  <2>1. tree' = tree /\ bin' \in {bin, [bin EXCEPT ![Now.edit] = Torn(f)]}
    BY <1>6 DEF HalfDone
  <2>2. Now.edit = Now.js /\ Now.js \in Names
    BY <1>6, AtCopies, BuiltFits
  <2>3. f = Transformed(Now.transform, BuiltJs(Now.tool, OwnBuild))
    BY <1>6, <2>2 DEF Progress
  <2>4. f \in Contents /\ Fits(Now.js, f)
    BY <1>6, <2>3, AtCopies, TransformFits
  <2> HIDE DEF f
  <2>5. Torn(f) \in Contents /\ Fits(Now.js, Torn(f))
    BY <2>2, <2>4, TornFits
  <2>6. CASE bin' = bin
    BY <1>0, <1>1, <2>1, <2>6
  <2>7. CASE bin' = [bin EXCEPT ![Now.js] = Torn(f)]
    BY <1>0, <2>1, <2>2, <2>5, <2>7, PutFile DEF TypeOK
  <2> QED
    BY <2>1, <2>2, <2>6, <2>7
<1>7. CASE pc = "wasm"
  <2> DEFINE f == BuiltWasm(Now.tool, tree.build)
  <2>1. tree' = tree /\ bin' = [bin EXCEPT ![Now.wasm] = Torn(f)]
    BY <1>7 DEF HalfDone
  <2>2. Now.wasm \in Names /\ f \in Contents /\ Fits(Now.wasm, f)
    BY <1>7, AtCopies, BuiltFits
  <2> HIDE DEF f
  <2>3. Torn(f) \in Contents /\ Fits(Now.wasm, Torn(f))
    BY <2>2, TornFits
  <2> QED
    BY <1>0, <2>1, <2>2, <2>3, PutFile DEF TypeOK
<1>8. CASE pc \in {"checks", "copyIn"}
  BY <1>0, <1>1, <1>8 DEF HalfDone
<1> QED
  BY <1>2, <1>3, <1>4, <1>5, <1>6, <1>7, <1>8 DEF Commands

\* Every command keeps the invariant.
LEMMA NextIInv ==
    ASSUME IInv, [Next]_vars
    PROVE  IInv'
<1> USE DEF IInv
<1>0. /\ IsTree(tree) /\ tree.makefileIn \in Arch /\ tree.makefile \in Makefiles
      /\ tree.build \in Builds /\ NoBuild \in Builds
  BY DEF TypeOK, IsTree, Builds, NoBuild
<1>1. CASE RunScript
  <2>1. PICK argv \in CommandLines :
          /\ set' = Parse(argv).val
          /\ \/ Parse(argv).end = "accepted" /\ pc' = "checks"
             \/ pc' \in {"help", "failed"}
    BY <1>1 DEF RunScript, Fails
  <2>2. id' \in Nat /\ tool' = 1 /\ UNCHANGED <<tree, bin>>
    BY <1>1 DEF RunScript, TypeOK
  <2>3. pc' = "checks" => set'.arch \in Arch
    BY <2>1, ParseArch
  <2>4. pc' \in {"checks", "help", "failed"}
    BY <2>1
  <2>5. TypeOK'
    BY <2>2, <2>4, ToolsFacts DEF TypeOK, Ended, Commands
  <2> QED
    BY <2>2, <2>3, <2>4, <2>5 DEF Progress, NoStaleStamp, ExitZeroIsFresh, OwnFiles, Commands
<1>2. CASE CheckDependencies
  <2>1. pc = "checks" /\ pc' \in {"copyIn", "failed"} /\ UNCHANGED <<tool, set, tree, bin, id>>
    BY <1>2 DEF CheckDependencies, Goto, Fails
  <2> QED
    BY <2>1 DEF TypeOK, Progress, NoStaleStamp, ExitZeroIsFresh, OwnFiles, Commands, Ended
<1>3. CASE CopyMakefileIn
  <2>1. /\ pc = "copyIn" /\ pc' = "clean" /\ UNCHANGED <<tool, set, bin, id>>
        /\ tree' = [tree EXCEPT !.makefileIn = set.arch] /\ set.arch \in Arch
    BY <1>3 DEF CopyMakefileIn, Goto, Progress, Commands
  <2>2. IsTree(tree') /\ tree'.makefileIn = set.arch
    BY <1>0, <2>1 DEF IsTree
  <2> QED
    BY <2>1, <2>2 DEF TypeOK, Progress, NoStaleStamp, ExitZeroIsFresh, OwnFiles, Commands, Ended
<1>4. CASE MakeClean
  <2>1. /\ pc = "clean" /\ pc' = "configure" /\ UNCHANGED <<tool, set, bin, id>>
        /\ tree' = [[tree EXCEPT !.makefile = tree.makefileIn]
                       EXCEPT !.stamp = FALSE, !.build = NoBuild]
    BY <1>4 DEF MakeClean, Goto, Remade
  <2>2. /\ IsTree(tree') /\ tree'.makefileIn = tree.makefileIn
        /\ tree'.stamp = FALSE /\ tree'.build = NoBuild
    BY <1>0, <2>1 DEF IsTree, Makefiles
  <2> QED
    BY <2>1, <2>2 DEF TypeOK, Progress, NoStaleStamp, ExitZeroIsFresh, OwnFiles, Commands, Ended
<1>5. CASE MakeCleanFails
  <2>1. pc' = "failed" /\ UNCHANGED <<tool, set, tree, bin, id>>
    BY <1>5 DEF MakeCleanFails, Fails
  <2> QED
    BY <2>1 DEF TypeOK, Progress, NoStaleStamp, ExitZeroIsFresh, OwnFiles, Commands, Ended
<1>6. CASE Configure
  <2>1. /\ pc = "configure" /\ pc' = "build" /\ UNCHANGED <<tool, set, bin, id>>
        /\ tree' = [tree EXCEPT !.makefile = tree.makefileIn, !.config = set.arch, !.dirs = PassedDirs]
    BY <1>6 DEF Configure, Goto
  <2>2. /\ IsTree(tree') /\ tree'.makefileIn = tree.makefileIn
        /\ tree'.makefile = tree.makefileIn
        /\ tree'.stamp = tree.stamp /\ tree'.build = tree.build
    BY <1>0, <2>1 DEF IsTree, Makefiles
  <2> QED
    BY <2>1, <2>2 DEF TypeOK, Progress, NoStaleStamp, ExitZeroIsFresh, OwnFiles, Commands, Ended
<1>7. CASE MakeBuild
  <2>1. /\ pc = "build" /\ pc' = "js" /\ UNCHANGED <<tool, set, bin, id>>
        /\ ~tree.stamp /\ tree.makefile = set.arch /\ set.arch \in Arch
    BY <1>7 DEF MakeBuild, Goto, NoStaleStamp, Progress, Commands
  <2>2. tree' = [tree EXCEPT !.stamp = TRUE, !.build = OwnBuild]
    BY <1>7, <2>1 DEF MakeBuild, OwnBuild
  <2>3. OwnBuild \in Builds
    BY <2>1 DEF OwnBuild, Builds, Makefiles, TypeOK
  <2>4. IsTree(tree') /\ tree'.build = OwnBuild
    BY <1>0, <2>2, <2>3 DEF IsTree
  <2>5. tool = 1 /\ \A k \in DOMAIN Tools : ~(k < tool)
    BY <2>1, ToolsFacts DEF Progress
  <2> QED
    BY <2>1, <2>4, <2>5 DEF TypeOK, Progress, NoStaleStamp, ExitZeroIsFresh, OwnFiles, Commands, Ended, OwnBuild
<1>8. ASSUME pc \in {"js", "transform", "wasm"}
      PROVE  /\ set.arch \in Arch /\ tool \in 1 .. 3 /\ tree.build = OwnBuild
             /\ bin \in [Names -> Contents]
             /\ Now.tool = Tools[tool] /\ Now.js \in Names /\ Now.wasm \in Names
             /\ Now.js # Now.wasm /\ Now.edit = Now.js
             /\ ToolOf(Now.js) = Tools[tool] /\ ToolOf(Now.wasm) = Tools[tool]
             /\ BuiltJs(Now.tool, OwnBuild) \in Contents /\ Fits(Now.js, BuiltJs(Now.tool, OwnBuild))
             /\ BuiltWasm(Now.tool, OwnBuild) \in Contents
             /\ Fits(Now.wasm, BuiltWasm(Now.tool, OwnBuild))
             /\ \A n \in Names : ToolOf(n) = Tools[tool] /\ ArchOf(n) = set.arch => n \in {Now.js, Now.wasm}
  <2>1. Now.js \in JsNames /\ Now.wasm \in WasmNames
    BY <1>8, AtCopies, CopyLinesFacts
  <2>2. Now.js # Now.wasm
    BY <2>1 DEF JsNames, WasmNames
  <2> QED
    BY <1>8, <2>1, <2>2, AtCopies, CopyLinesFacts, BuiltFits DEF Names
<1>9. ASSUME pc \in {"js", "transform", "wasm"}, NEW n \in Names, NEW k \in 1 .. 3, k < tool, ToolOf(n) = Tools[k]
      PROVE  n # Now.js /\ n # Now.wasm
  <2>1. Tools[k] # Tools[tool]
    BY <1>8, <1>9 DEF Tools
  <2> QED
    BY <1>8, <1>9, <2>1
<1>10. CASE CopyJs
  <2>1. /\ pc = "js" /\ pc' = "transform" /\ UNCHANGED <<tool, set, tree, id>>
        /\ bin' = [bin EXCEPT ![Now.js] = BuiltJs(Now.tool, tree.build)]
    BY <1>10 DEF CopyJs, Goto
  <2>2. /\ bin' \in [Names -> Contents] /\ OwnFiles'
        /\ bin'[Now.js] = BuiltJs(Now.tool, OwnBuild)
        /\ \A n \in Names : n # Now.js => bin'[n] = bin[n]
    BY <1>8, <2>1, PutFile
  <2>3. Now' = Now /\ OwnBuild' = OwnBuild
    BY <2>1 DEF Now, OwnBuild
  <2>4. ASSUME NEW k \in DOMAIN Tools, NEW n \in Names,
               k < tool, ToolOf(n) = Tools[k], ArchOf(n) = set.arch
        PROVE  IsFresh(n)'
    <3>1. IsFresh(n) /\ n # Now.js
      BY <1>9, <2>1, <2>4, ToolsFacts DEF Progress
    <3> QED
      BY <2>2, <2>3, <3>1 DEF IsFresh
  <2>5. Progress'
    BY <1>8, <2>1, <2>2, <2>3, <2>4 DEF Progress, Commands
  <2>6. TypeOK'
    BY <2>1, <2>2 DEF TypeOK, Commands
  <2> QED
    BY <2>1, <2>2, <2>5, <2>6 DEF NoStaleStamp, ExitZeroIsFresh
<1>11. CASE Transform
  <2> DEFINE f == Transformed(Now.transform, BuiltJs(Now.tool, OwnBuild))
  <2>1. /\ pc = "transform" /\ pc' = "wasm" /\ UNCHANGED <<tool, set, tree, id>>
        /\ bin[Now.js] = BuiltJs(Now.tool, OwnBuild)
    BY <1>11 DEF Transform, Goto, Progress
  <2>2. bin' = [bin EXCEPT ![Now.js] = f] \/ bin' = bin
    BY <1>8, <1>11, <2>1 DEF Transform
  <2>3. f \in Contents /\ Fits(Now.js, f) /\ (f.build = OwnBuild \/ (Now.js = "objdump64.js" /\ f.state = "desired"))
    BY <2>1, AtCopies, TransformFits
  <2> HIDE DEF f
  <2>4. Now' = Now /\ OwnBuild' = OwnBuild
    BY <2>1 DEF Now, OwnBuild
  <2>5. /\ bin' \in [Names -> Contents] /\ OwnFiles' /\ IsFresh(Now.js)'
        /\ \A n \in Names : n # Now.js => bin'[n] = bin[n]
    <3>1. CASE bin' = [bin EXCEPT ![Now.js] = f]
      <4>1. /\ bin' \in [Names -> Contents] /\ OwnFiles' /\ bin'[Now.js] = f
            /\ \A n \in Names : n # Now.js => bin'[n] = bin[n]
        BY <1>8, <2>1, <2>3, <3>1, PutFile
      <4> QED
        BY <2>3, <2>4, <4>1 DEF IsFresh
    <3>2. CASE bin' = bin
      <4>1. bin'[Now.js].build = OwnBuild
        BY <2>1, <3>2 DEF BuiltJs
      <4> QED
        BY <1>8, <2>1, <2>4, <3>2, <4>1 DEF OwnFiles, IsFresh
    <3> QED
      BY <2>2, <3>1, <3>2
  <2>6. ASSUME NEW k \in DOMAIN Tools, NEW n \in Names,
               k < tool, ToolOf(n) = Tools[k], ArchOf(n) = set.arch
        PROVE  IsFresh(n)'
    <3>1. IsFresh(n) /\ n # Now.js
      BY <1>9, <2>1, <2>6, ToolsFacts DEF Progress
    <3> QED
      BY <2>4, <2>5, <3>1 DEF IsFresh
  <2>7. Progress'
    BY <1>8, <2>1, <2>4, <2>5, <2>6 DEF Progress, Commands
  <2>8. TypeOK'
    BY <2>1, <2>5 DEF TypeOK, Commands
  <2> QED
    BY <2>1, <2>5, <2>7, <2>8 DEF NoStaleStamp, ExitZeroIsFresh
<1>12. CASE CopyWasm
  <2>1. /\ pc = "wasm" /\ UNCHANGED <<set, tree, id>>
        /\ bin' = [bin EXCEPT ![Now.wasm] = BuiltWasm(Now.tool, tree.build)]
        /\ \/ tool = 3 /\ pc' = "exit0" /\ tool' = tool
           \/ tool # 3 /\ pc' = "js" /\ tool' = tool + 1
    BY <1>12, ToolsFacts DEF CopyWasm, Goto
  <2>2. /\ bin' \in [Names -> Contents] /\ OwnFiles'
        /\ bin'[Now.wasm] = BuiltWasm(Now.tool, OwnBuild)
        /\ \A n \in Names : n # Now.wasm => bin'[n] = bin[n]
    BY <1>8, <2>1, PutFile
  <2>3. OwnBuild' = OwnBuild
    BY <2>1 DEF OwnBuild
  <2>4. ASSUME NEW k \in 1 .. 3, NEW n \in Names,
               k <= tool, ToolOf(n) = Tools[k], ArchOf(n) = set.arch
        PROVE  IsFresh(n)'
    <3>1. CASE n = Now.wasm
      <4>1. bin'[n].build = OwnBuild
        BY <2>2, <3>1 DEF BuiltWasm
      <4> QED
        BY <2>3, <4>1 DEF IsFresh
    <3>2. CASE n # Now.wasm
      <4>1. IsFresh(n)
        <5>1. CASE k < tool
          BY <2>1, <2>4, <5>1, ToolsFacts DEF Progress
        <5>2. CASE k = tool
          BY <1>8, <2>1, <2>4, <3>2, <5>2 DEF Progress
        <5> QED
          BY <1>8, <2>1, <2>4, <5>1, <5>2
      <4> QED
        BY <2>2, <2>3, <3>2, <4>1 DEF IsFresh
    <3> QED
      BY <3>1, <3>2
  <2>5. CASE tool = 3
    <3>1. ASSUME NEW n \in Names, ArchOf(n) = set.arch
          PROVE  IsFresh(n)'
      <4>1. PICK k \in 1 .. 3 : ToolOf(n) = Tools[k]
        BY DEF ToolOf, Tools
      <4> QED
        BY <2>4, <2>5, <3>1, <4>1
    <3>2. ExitZeroIsFresh'
      BY <2>1, <3>1 DEF ExitZeroIsFresh
    <3>3. TypeOK' /\ Progress' /\ NoStaleStamp'
      BY <1>8, <2>1, <2>2, <2>5 DEF TypeOK, Progress, NoStaleStamp, Commands, Ended
    <3> QED
      BY <2>2, <3>2, <3>3
  <2>6. CASE tool # 3
    <3>1. /\ tool' \in 1 .. 3 /\ pc' = "js"
          /\ \A k \in 1 .. 3 : k < tool' => k <= tool
      BY <1>8, <2>1, <2>6
    <3>2. Progress'
      BY <1>8, <2>1, <2>3, <2>4, <3>1, ToolsFacts DEF Progress, Commands
    <3>3. TypeOK' /\ NoStaleStamp' /\ ExitZeroIsFresh'
      BY <2>1, <2>2, <3>1, ToolsFacts DEF TypeOK, NoStaleStamp, ExitZeroIsFresh, Commands
    <3> QED
      BY <2>2, <3>2, <3>3
  <2> QED
    BY <2>5, <2>6
<1>13. CASE Interrupt
  <2>1. pc \in Commands /\ HalfDone /\ pc' = "failed" /\ UNCHANGED <<tool, set, id>>
    BY <1>13 DEF Interrupt, Fails, TypeOK
  <2>2. IsTree(tree') /\ bin' \in [Names -> Contents] /\ OwnFiles'
    BY <2>1, HalfDoneTypes
  <2> QED
    BY <2>1, <2>2 DEF TypeOK, Progress, NoStaleStamp, ExitZeroIsFresh, Commands, Ended
<1>14. CASE UNCHANGED vars
  BY <1>14 DEF vars, TypeOK, Progress, NoStaleStamp, ExitZeroIsFresh, OwnFiles, OwnBuild, IsFresh, Now
<1> QED
  BY <1>1, <1>2, <1>3, <1>4, <1>5, <1>6, <1>7, <1>10, <1>11, <1>12, <1>13, <1>14 DEF Next

\* The invariant holds whatever the user runs, and wherever a run is cut short.
THEOREM Invariance ==
    Spec => []IInv
<1>1. Init => IInv
  <2>1. ASSUME NEW n \in Names
        PROVE  Committed(n) \in Contents /\ Fits(n, Committed(n))
    <3>1. n \in JsNames => OwnWasm(n) \in WasmNames
      BY DEF OwnWasm, JsNames, WasmNames
    <3>2. NoBuild \in Builds /\ NoBuild.arch = None /\ ToolOf(n) \in {"as-new", "ld-new", "objdump"}
      BY DEF NoBuild, Builds, ToolOf
    <3>3. CASE n \in JsNames
      BY <3>1, <3>2, <3>3 DEF Committed, Contents, Fits
    <3>4. CASE n \notin JsNames
      BY <3>2, <3>4 DEF Committed, Contents, Fits
    <3> QED
      BY <3>3, <3>4
  <2>2. ASSUME Init
        PROVE  bin \in [Names -> Contents] /\ OwnFiles
    BY <2>1, <2>2 DEF Init, OwnFiles
  <2>3. ASSUME Init
        PROVE  TypeOK /\ Progress /\ NoStaleStamp /\ ExitZeroIsFresh
    BY <2>2, <2>3, TreesAssumption, ToolsFacts DEF Init, TypeOK, Progress, NoStaleStamp,
       ExitZeroIsFresh, Ended, Commands
  <2> QED
    BY <2>2, <2>3 DEF IInv
<1>2. IInv /\ [Next]_vars => IInv'
  BY NextIInv
<1> QED
  BY <1>1, <1>2, PTL DEF Spec

\* A run of assembler_sail.sh that exits 0 leaves the files of the build it made
\* itself, for its own architecture, whatever earlier runs left in the tree.
THEOREM SuccessIsFresh ==
    Spec => []ExitZeroIsFresh
<1>1. IInv => ExitZeroIsFresh
  BY DEF IInv
<1> QED
  BY <1>1, Invariance, PTL

\* Neither a stamp without its build nor a build without its stamp survives
\* to the rule of build-binutils.
THEOREM StampsAreClean ==
    Spec => []NoStaleStamp
<1>1. IInv => NoStaleStamp
  BY DEF IInv
<1> QED
  BY <1>1, Invariance, PTL

\* Whatever is run and interrupted, for whichever architecture, a built file stands
\* under a name of its own architecture and tool, and a transformed .js loads the
\* .wasm of these.
THEOREM FilesAreOwn ==
    Spec => []OwnFiles
<1>1. IInv => OwnFiles
  BY DEF IInv
<1> QED
  BY <1>1, Invariance, PTL

=============================================================================
