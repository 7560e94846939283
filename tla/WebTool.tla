------------------------------ MODULE WebTool ------------------------------
(***************************************************************************)
(* The JavaScript wrapper that makes as and ld callable from a web page:    *)
(* what toolchain_build/transform-*.js turns Emscripten's loader into, that *)
(* is, toolchain_build/binaries/{as-new,as-new64,ld-new,ld-new64}.js.       *)
(*                                                                          *)
(* The page calls the exported factory once per instance and, from then on, *)
(* Module.run(args) on any instance whose promise was resolved.  Everything *)
(* happens on one event loop: each action is one task, and run is atomic.   *)
(* Three things outlive a task: a WebAssembly instantiation under way, a    *)
(* timer set by run when the page supplied Module.setStatus, and a          *)
(* dependency that a preRun hook of the page added.                         *)
(*                                                                          *)
(* The result of a run travels through ofile (elfile in ld), a variable of  *)
(* the JavaScript file that all its instances share.                        *)
(***************************************************************************)
EXTENDS Naturals, Sequences, FiniteSets

CONSTANTS
  Instances,   \* the factory calls the page makes
  Jobs,        \* the argument arrays the page passes to run (a new array, a new job)
  Tool,        \* which of the four files
  MaxCalls     \* bound: calls of run with the same array

Tools == {"as32", "as64", "ld32", "ld64"}

ASSUME ToolAssumption == Tool \in Tools
ASSUME MaxCallsAssumption == MaxCalls \in Nat \ {0}

Wide == Tool \in {"as64", "ld64"}     \* built by the newer Emscripten
IsAs == Tool \in {"as32", "as64"}

VARIABLES
  inst,   \* per instance: the variables of the factory's closure
  ofile,  \* the shared result variable
  args,   \* args[j]: "used" once a run has emptied the array, which run does in place
  res,    \* res[j]: the calls run(j), what the last one gave the page, and how
  ran     \* the jobs whose main was entered (history)

vars == <<inst, ofile, args, res, ran>>

(***************************************************************************)
(* Output files.  Partial: what is in out.o when main traps half-way.       *)
(***************************************************************************)
NoJob == "no job"
Null == [job |-> NoJob, whole |-> FALSE]
File(j) == [job |-> j, whole |-> TRUE]
Partial(j) == [job |-> j, whole |-> FALSE]
Files == [job : Jobs \cup {NoJob}, whole : BOOLEAN]

\* How main can end: the output written; errors reported and the output
\* removed by the tool; a trap or abort() in the middle.
Endings == {"ok", "error", "trap"}

\* The variables of the factory's closure when the factory returns.
Closure(st, ready, deps, hook, setStatus) ==
  [st |-> st, ready |-> ready, deps |-> deps, hook |-> hook,
   setStatus |-> setStatus, armed |-> FALSE, timers |-> <<>>,
   calledRun |-> FALSE, abort |-> FALSE, mains |-> 0]

Init ==
  /\ inst = [i \in Instances |-> Closure("none", FALSE, 0, FALSE, FALSE)]
  /\ ofile = Null
  /\ args = [j \in Jobs |-> "fresh"]
  /\ res = [j \in Jobs |-> [calls |-> 0, kind |-> "none", file |-> Null,
                            deferred |-> FALSE, reused |-> FALSE, hooked |-> FALSE]]
  /\ ran = {}

------------------------------------------------------------------------------
(***************************************************************************)
(* A task of the event loop works on one instance's variables r, the shared *)
(* result o, the array of the job, and may end by throwing.                 *)
(***************************************************************************)
Ended(r, o, threw, entered) == [r |-> r, o |-> o, threw |-> threw, entered |-> entered]

\* callMain, exit, procExit, handleException.  A regular end reads the output
\* into ofile and sets ABORT before ExitStatus is thrown and swallowed.  When
\* the tool removed its output, reading it throws, before ABORT is set.  A
\* trap sets ABORT; as-new64 reads the output once more while unwinding.
callMain(r, o, j, ending) ==
  LET main == [r EXCEPT !.mains = @ + 1]
  IN  CASE ending = "ok"    -> {Ended([main EXCEPT !.abort = TRUE], File(j), FALSE, TRUE)}
        [] ending = "error" -> {Ended(main, o, TRUE, TRUE)}
        [] ending = "trap"  -> {Ended([main EXCEPT !.abort = TRUE], left, TRUE, TRUE) :
                                  left \in IF Tool = "as64" THEN {o, Partial(j)} ELSE {o}}

\* Mutant of secondRun: the 64-bit loaders return too, as the 32-bit ones do.
secondRun_returns(r, o) == {Ended(r, o, FALSE, FALSE)}

\* The assert(!calledRun) of the 64-bit loaders, the plain return of the 32-bit ones.
secondRun(r, o) ==
  IF Wide THEN {Ended([r EXCEPT !.abort = TRUE], o, TRUE, FALSE)}
          ELSE {Ended(r, o, FALSE, FALSE)}

\* run takes the list of sources out of the page's array, in place: doing so
\* to an array that a run has emptied, or to the empty default array, throws.
doRun(r, o, j, ending) ==
  LET run1 == [r EXCEPT !.calledRun = TRUE]
  IN  IF r.calledRun THEN secondRun(r, o)
      ELSE IF r.abort THEN {Ended(run1, o, FALSE, FALSE)}
      ELSE IF j = NoJob \/ args[j] = "used" THEN {Ended(run1, o, TRUE, FALSE)}
      ELSE callMain(run1, o, j, ending)

\* What a doRun that may have consumed job j leaves in the shared state.
Leaves(i, j, e) ==
  /\ inst' = [inst EXCEPT ![i] = e.r]
  /\ ofile' = e.o
  /\ args' = IF e.entered THEN [args EXCEPT ![j] = "used"] ELSE args
  /\ ran' = IF e.entered THEN ran \cup {j} ELSE ran

\* What the call run(j) hands the page.
Gives(i, j, kind, file) ==
  res' = [res EXCEPT ![j] =
    [calls |-> @.calls + 1, kind |-> kind, file |-> file,
     deferred |-> inst[i].setStatus, reused |-> inst[i].calledRun,
     hooked |-> inst[i].hook \/ (inst[i].st = "live" /\ inst[i].deps > 0)]]

------------------------------------------------------------------------------
(***************************************************************************)
(* The factory.  createWasm adds the dependency "wasm-instantiate".  The    *)
(* 32-bit factory resolves its promise at once; the 64-bit one is suspended *)
(* in its await of createWasm.                                              *)
(***************************************************************************)

\* Mutant of createModule: the factory does not await createWasm.
createModule_eager(i) ==
  /\ inst[i].st = "none"
  /\ \E hook, setStatus \in BOOLEAN :
       inst' = [inst EXCEPT ![i] = Closure("loading", TRUE, 1, hook, setStatus)]
  /\ UNCHANGED <<ofile, args, res, ran>>

createModule(i) ==
  /\ inst[i].st = "none"
  /\ \E hook, setStatus \in BOOLEAN :
       inst' = [inst EXCEPT ![i] = Closure("loading", ~Wide, 1, hook, setStatus)]
  /\ UNCHANGED <<ofile, args, res, ran>>

\* removeRunDependency: the last one calls dependenciesFulfilled, when set,
\* with no arguments.  That is run(arguments_), arguments_ being empty.
dependencyRemoved(r) ==
  LET r1 == [r EXCEPT !.deps = @ - 1]
      r2 == [r1 EXCEPT !.armed = FALSE]
  IN  IF r1.deps > 0 \/ ~r1.armed THEN {Ended(r1, ofile, FALSE, FALSE)}
      ELSE IF r2.setStatus THEN {Ended([r2 EXCEPT !.timers = Append(@, NoJob)], ofile, FALSE, FALSE)}
      ELSE doRun(r2, ofile, NoJob, "error")

\* receiveInstance.
receiveInstance(i) ==
  /\ inst[i].st = "loading"
  /\ \E e \in dependencyRemoved([inst[i] EXCEPT !.st = "live", !.ready = TRUE]) :
       Leaves(i, NoJob, e)
  /\ UNCHANGED res

\* The fetch or the compilation failed: abort(reason).  It rejects the promise,
\* which has no effect on one that is already resolved.
instantiationFails(i) ==
  /\ inst[i].st = "loading"
  /\ inst' = [inst EXCEPT ![i].st = "dead", ![i].abort = TRUE]
  /\ UNCHANGED <<ofile, args, res, ran>>

\* Mutant of hookDone: a dependency is removed twice.
hookDone_twice(i) ==
  /\ inst[i].st = "live"
  /\ \E e \in dependencyRemoved(inst[i]) : Leaves(i, NoJob, e)
  /\ UNCHANGED res

\* The dependency that the page's preRun hook added is met.
hookDone(i) ==
  /\ inst[i].st = "live" /\ inst[i].deps > 0
  /\ \E e \in dependencyRemoved(inst[i]) : Leaves(i, NoJob, e)
  /\ UNCHANGED res

------------------------------------------------------------------------------
(***************************************************************************)
(* run(args), called by the page.                                           *)
(***************************************************************************)
\* What ld makes of an array without its first two elements depends on the
\* options left in it: for ld the page passes an emptied array to nobody.
CanCall(i, j) ==
  /\ inst[i].ready
  /\ res[j].calls < MaxCalls
  /\ IsAs \/ res[j].kind \in {"none", "undefined"}

\* First guard: dependencies remain (instantiation, or a hook's).
runEarly(i, j) ==
  /\ CanCall(i, j)
  /\ inst[i].deps > 0
  /\ Gives(i, j, "undefined", Null)
  /\ UNCHANGED <<inst, ofile, args, ran>>

\* Second guard: preRun ran the hook and the hook added a dependency.  Only
\* as-new64 still asks to be called again; as-new calls itself, which returns
\* at the first guard.
runHooked(i, j) ==
  /\ CanCall(i, j)
  /\ inst[i].deps = 0 /\ inst[i].hook
  /\ inst' = [inst EXCEPT ![i].hook = FALSE, ![i].deps = 1,
                          ![i].armed = (Tool = "as64")]
  /\ Gives(i, j, "undefined", Null)
  /\ UNCHANGED <<ofile, args, ran>>

\* Module.setStatus is there: doRun is left to a timer and run returns ofile
\* as it is.
runDeferred(i, j) ==
  /\ CanCall(i, j)
  /\ inst[i].deps = 0 /\ ~inst[i].hook /\ inst[i].setStatus
  /\ inst' = [inst EXCEPT ![i].timers = Append(@, j)]
  /\ Gives(i, j, "file", ofile)
  /\ UNCHANGED <<ofile, args, ran>>

\* Mutant of runNow: the first guard is gone, and preRun has nothing to add.
runNow_unguarded(i, j) ==
  /\ CanCall(i, j)
  /\ ~inst[i].hook /\ ~inst[i].setStatus
  /\ \E ending \in Endings : \E e \in doRun(inst[i], ofile, j, ending) :
       /\ Leaves(i, j, e)
       /\ IF e.threw THEN Gives(i, j, "thrown", Null) ELSE Gives(i, j, "file", e.o)

\* doRun at once.  run returns ofile unless doRun threw.
runNow(i, j) ==
  /\ CanCall(i, j)
  /\ inst[i].deps = 0 /\ ~inst[i].hook /\ ~inst[i].setStatus
  /\ \E ending \in Endings : \E e \in doRun(inst[i], ofile, j, ending) :
       /\ Leaves(i, j, e)
       /\ IF e.threw THEN Gives(i, j, "thrown", Null) ELSE Gives(i, j, "file", e.o)

\* The timer of a deferred run.  An exception ends in the page's console.
timerFires(i) ==
  /\ inst[i].timers # <<>>
  /\ \E ending \in Endings :
       LET r == [inst[i] EXCEPT !.timers = Tail(@)]
       IN  \E e \in doRun(r, ofile, Head(inst[i].timers), ending) :
             Leaves(i, Head(inst[i].timers), e)
  /\ UNCHANGED res

------------------------------------------------------------------------------
Next ==
  \E i \in Instances :
    \/ createModule(i)
    \/ receiveInstance(i)
    \/ instantiationFails(i)
    \/ hookDone(i)
    \/ timerFires(i)
    \/ \E j \in Jobs : runEarly(i, j) \/ runHooked(i, j) \/ runDeferred(i, j) \/ runNow(i, j)

Spec == Init /\ [][Next]_vars

\* An instantiation under way ends, a timer fires, the page's own dependency is
\* met: the event loop sees to the first two, the hook's contract to the third.
LiveSpec ==
  /\ Spec
  /\ \A i \in Instances :
       /\ WF_vars(receiveInstance(i) \/ instantiationFails(i))
       /\ WF_vars(timerFires(i))
       /\ WF_vars(hookDone(i))

------------------------------------------------------------------------------
InstanceType ==
  [st : {"none", "loading", "live", "dead"}, ready : BOOLEAN, deps : 0..1,
   hook : BOOLEAN, setStatus : BOOLEAN, armed : BOOLEAN,
   timers : Seq(Jobs \cup {NoJob}), calledRun : BOOLEAN, abort : BOOLEAN, mains : 0..1]

\* The variables have their types.  Two of them are bounds the wrappers rely on:
\* at most one dependency at a time, and main entered at most once per instance
\* (a second run of the same WebAssembly memory would see gas's old tables).
TypeOK ==
  /\ inst \in [Instances -> InstanceType]
  /\ ofile \in Files
  /\ args \in [Jobs -> {"fresh", "used"}]
  /\ res \in [Jobs -> [calls : 0..MaxCalls, kind : {"none", "undefined", "file", "thrown"},
                       file : Files, deferred : BOOLEAN, reused : BOOLEAN, hooked : BOOLEAN]]
  /\ ran \subseteq Jobs

\* run never hands the page the output of another job, a partial output or a
\* missing one, although ofile is shared by all the instances of a file: when
\* run returns, what it returns is the output of the sources it was given.
\* Outside of it are the calls with Module.setStatus, which return before the
\* tool has run, and in the 32-bit files a second run of an instance, which
\* returns whatever ofile holds where the 64-bit files abort.
ReturnsOwnFile ==
  \A j \in Jobs :
    res[j].kind = "file" /\ ~res[j].deferred /\ (Wide \/ ~res[j].reused)
      => res[j].file = File(j)

\* Once the promise of a 64-bit factory is resolved, run is not lost: it returns
\* undefined only while a dependency of the page's own preRun hook remains.
ReadyMeansRunnable ==
  Wide => \A j \in Jobs : res[j].kind = "undefined" => res[j].hooked

\* main is entered only in an instance that was instantiated, and only through
\* the first doRun of that instance, whatever early, hooked, deferred and
\* repeated calls surround it.
MainNeedsInstance ==
  \A i \in Instances :
    inst[i].mains > 0 => inst[i].st = "live" /\ inst[i].calledRun

\* What the comments of the loaders say of a preRun hook that adds a dependency:
\* run is postponed and called later, once the dependency is met.
PostponedRunHappens ==
  \A j \in Jobs : (res[j].kind = "undefined" /\ res[j].hooked) ~> (j \in ran)
==============================================================================
