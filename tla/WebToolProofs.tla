--------------------------- MODULE WebToolProofs ---------------------------
(***************************************************************************)
(* Proofs about WebTool for any number of instances and jobs and for each   *)
(* of the four files.  InstOK ties the flags of an instance together: it is *)
(* what excludes the silent `if (ABORT) return' of doRun, through which run *)
(* would return an ofile that its own job did not write.                    *)
(***************************************************************************)
EXTENDS WebTool, TLAPS

\* What holds of the closure's variables of every instance.
InstOK(r) ==
  /\ r \in InstanceType
  /\ r.st = "none" => ~r.ready
  /\ r.st \in {"loading", "dead"} => r.deps = 1 /\ (Wide => ~r.ready)
  /\ r.abort /\ r.st # "dead" => r.calledRun
  /\ r.timers # <<>> => r.st = "live"
  /\ r.mains > 0 => r.st = "live" /\ r.calledRun

ResType == [calls : 0..MaxCalls, kind : {"none", "undefined", "file", "thrown"},
            file : Files, deferred : BOOLEAN, reused : BOOLEAN, hooked : BOOLEAN]

\* What holds of the last answer to job j.
ResOK(j, x) ==
  /\ x \in ResType
  /\ x.kind = "file" /\ ~x.deferred /\ (Wide \/ ~x.reused) => x.file = File(j)
  /\ Wide /\ x.kind = "undefined" => x.hooked

\* The inductive invariant.
IInv ==
  /\ inst \in [Instances -> InstanceType]
  /\ \A i \in Instances : InstOK(inst[i])
  /\ ofile \in Files
  /\ args \in [Jobs -> {"fresh", "used"}]
  /\ res \in [Jobs -> ResType]
  /\ \A j \in Jobs : ResOK(j, res[j])
  /\ ran \subseteq Jobs

\* q is a record of the right type that agrees with r where doRun must.
Same(r, q) ==
  /\ q \in InstanceType
  /\ q.st = r.st /\ q.deps = r.deps /\ q.ready = r.ready

\* The updates doRun and callMain make to the flags keep the record's type and
\* the fields they do not name.
LEMMA Updates ==
  ASSUME NEW r \in InstanceType
  PROVE  /\ Same(r, [r EXCEPT !.abort = TRUE])
         /\ [r EXCEPT !.abort = TRUE].calledRun = r.calledRun
         /\ Same(r, [r EXCEPT !.calledRun = TRUE])
         /\ [r EXCEPT !.calledRun = TRUE].calledRun = TRUE
         /\ [r EXCEPT !.calledRun = TRUE].mains = r.mains
         /\ r.mains = 0 => Same(r, [r EXCEPT !.mains = @ + 1])
         /\ [r EXCEPT !.mains = @ + 1].calledRun = r.calledRun
<1>1. r.calledRun \in BOOLEAN /\ r.abort \in BOOLEAN /\ r.mains \in 0..1
  BY DEF InstanceType
<1>2. Same(r, [r EXCEPT !.abort = TRUE]) /\ [r EXCEPT !.abort = TRUE].calledRun = r.calledRun
  BY DEF Same, InstanceType
<1>3. Same(r, [r EXCEPT !.calledRun = TRUE])
  BY DEF Same, InstanceType
<1>4. [r EXCEPT !.calledRun = TRUE].calledRun = TRUE
  BY DEF InstanceType
<1>5. [r EXCEPT !.calledRun = TRUE].mains = r.mains
  BY DEF InstanceType
<1>6. [r EXCEPT !.mains = @ + 1].calledRun = r.calledRun
  BY DEF InstanceType
<1>7. ASSUME r.mains = 0 PROVE Same(r, [r EXCEPT !.mains = @ + 1])
  BY <1>7 DEF Same, InstanceType
<1>. QED
  BY <1>2, <1>3, <1>4, <1>5, <1>6, <1>7

\* What a doRun on a live, unaborted-or-used instance can end in: the type of the
\* closure's variables, and a return without exception only with the job's own
\* output, unless the file is a 32-bit one and the instance was used before.
LEMMA DoRunFacts ==
  ASSUME NEW r \in InstanceType, NEW o \in Files, NEW j \in Jobs \cup {NoJob},
         NEW ending \in Endings, NEW e \in doRun(r, o, j, ending),
         r.abort => r.calledRun, r.mains > 0 => r.calledRun
  PROVE  /\ e.r \in InstanceType /\ e.o \in Files
         /\ e.entered => j \in Jobs
         /\ e.r.calledRun = TRUE
         /\ e.r.st = r.st /\ e.r.deps = r.deps /\ e.r.ready = r.ready
         /\ ~e.threw /\ (Wide \/ ~r.calledRun) => e.o = File(j)
<1>. USE DEF Ended
<1>1. CASE r.calledRun
  <2>. DEFINE q == [r EXCEPT !.abort = TRUE]
  <2>1. Same(r, q) /\ q.calledRun = TRUE
    BY <1>1, Updates
  <2>2. e \in secondRun(r, o)
    BY <1>1 DEF doRun
  <2>3. CASE Wide
    <3>1. e = Ended(q, o, TRUE, FALSE)
      BY <2>2, <2>3 DEF secondRun
    <3>. HIDE DEF q
    <3>. QED
      BY <2>1, <3>1 DEF Same
  <2>4. CASE ~Wide
    <3>1. e = Ended(r, o, FALSE, FALSE)
      BY <2>2, <2>4 DEF secondRun
    <3>. QED
      BY <1>1, <2>4, <3>1
  <2>. QED
    BY <2>3, <2>4
<1>2. CASE ~r.calledRun
  <2>. DEFINE run1 == [r EXCEPT !.calledRun = TRUE]
  <2>1. Same(r, run1) /\ run1.calledRun = TRUE /\ run1.mains = r.mains
    BY Updates
  <2>2. r.mains = 0 /\ ~r.abort
    BY <1>2 DEF InstanceType
  <2>3. CASE j = NoJob \/ args[j] = "used"
    <3>1. e = Ended(run1, o, TRUE, FALSE)
      BY <1>2, <2>2, <2>3 DEF doRun
    <3>. HIDE DEF run1
    <3>. QED
      BY <2>1, <3>1 DEF Same
  <2>4. CASE ~(j = NoJob \/ args[j] = "used")
    <3>1. e \in callMain(run1, o, j, ending)
      BY <1>2, <2>2, <2>4 DEF doRun
    <3>. HIDE DEF run1
    <3>. DEFINE main == [run1 EXCEPT !.mains = @ + 1]
                dead == [main EXCEPT !.abort = TRUE]
    <3>2. Same(run1, main) /\ main.calledRun = TRUE
      BY <2>1, <2>2, Updates DEF Same
    <3>3. Same(main, dead) /\ dead.calledRun = TRUE
      <4>. HIDE DEF main
      <4>. QED
        BY <3>2, Updates DEF Same
    <3>4. j \in Jobs
      BY <2>4
    <3>5. File(j) \in Files /\ Partial(j) \in Files
      BY <3>4 DEF File, Partial, Files
    <3>6. CASE ending = "ok"
      <4>1. e = Ended(dead, File(j), FALSE, TRUE)
        BY <3>1, <3>6 DEF callMain
      <4>. HIDE DEF main, dead
      <4>. QED
        BY <4>1, <2>1, <3>2, <3>3, <3>4, <3>5 DEF Same
    <3>7. CASE ending = "error"
      <4>1. e = Ended(main, o, TRUE, TRUE)
        BY <3>1, <3>7 DEF callMain
      <4>. HIDE DEF main, dead
      <4>. QED
        BY <4>1, <2>1, <3>2, <3>4 DEF Same
    <3>8. CASE ending = "trap"
      <4>1. PICK left \in {o, Partial(j)} : e = Ended(dead, left, TRUE, TRUE)
        BY <3>1, <3>8 DEF callMain
      <4>. HIDE DEF main, dead
      <4>. QED
        BY <4>1, <2>1, <3>2, <3>3, <3>4, <3>5 DEF Same
    <3>. QED
      BY <3>6, <3>7, <3>8 DEF Endings
  <2>. QED
    BY <2>3, <2>4
<1>. QED
  BY <1>1, <1>2

------------------------------------------------------------------------------
\* A step that replaces one instance's record by one that is InstOK, and
\* leaves the answers alone, preserves the invariant.
LEMMA InstStep ==
  ASSUME IInv, NEW i \in Instances, NEW r, InstOK(r),
         inst' = [inst EXCEPT ![i] = r],
         ofile' \in Files, args' \in [Jobs -> {"fresh", "used"}], ran' \subseteq Jobs
  PROVE  /\ inst' \in [Instances -> InstanceType]
         /\ \A k \in Instances : InstOK(inst'[k])
<1>1. r \in InstanceType
  BY DEF InstOK
<1>2. inst' \in [Instances -> InstanceType]
  BY <1>1 DEF IInv
<1>3. ASSUME NEW k \in Instances PROVE InstOK(inst'[k])
  <2>1. CASE k = i
    BY <2>1 DEF IInv
  <2>2. CASE k # i
    BY <2>2 DEF IInv
  <2>. QED
    BY <2>1, <2>2
<1>. QED
  BY <1>2, <1>3

\* The same for the answer to one job.
LEMMA ResStep ==
  ASSUME IInv, NEW j \in Jobs, NEW x, ResOK(j, x), res' = [res EXCEPT ![j] = x]
  PROVE  /\ res' \in [Jobs -> ResType]
         /\ \A k \in Jobs : ResOK(k, res'[k])
<1>1. x \in ResType
  BY DEF ResOK
<1>2. res' \in [Jobs -> ResType]
  BY <1>1 DEF IInv
<1>3. ASSUME NEW k \in Jobs PROVE ResOK(k, res'[k])
  <2>1. CASE k = j
    BY <2>1 DEF IInv
  <2>2. CASE k # j
    BY <2>2 DEF IInv
  <2>. QED
    BY <2>1, <2>2
<1>. QED
  BY <1>2, <1>3

\* A used, live instance is InstOK.
LEMMA UsedOK ==
  ASSUME NEW r \in InstanceType, r.st = "live", r.calledRun = TRUE
  PROVE  InstOK(r)
BY DEF InstOK

\* Leaves keeps the shared state in its types.
LEMMA LeavesTypes ==
  ASSUME IInv, NEW i \in Instances, NEW j, NEW e, Leaves(i, j, e),
         e.o \in Files, e.entered => j \in Jobs
  PROVE  /\ inst' = [inst EXCEPT ![i] = e.r]
         /\ ofile' \in Files /\ args' \in [Jobs -> {"fresh", "used"}] /\ ran' \subseteq Jobs
<1>1. CASE e.entered
  BY <1>1 DEF Leaves, IInv
<1>2. CASE ~e.entered
  BY <1>2 DEF Leaves, IInv
<1>. QED
  BY <1>1, <1>2

------------------------------------------------------------------------------
\* The factory call makes a record with one dependency and no promise kept
\* that a 64-bit file could not keep.
LEMMA CreateStep ==
  ASSUME IInv, NEW i \in Instances, createModule(i)
  PROVE  IInv'
<1>1. PICK hook \in BOOLEAN, setStatus \in BOOLEAN :
        inst' = [inst EXCEPT ![i] = Closure("loading", ~Wide, 1, hook, setStatus)]
  BY DEF createModule
<1>. DEFINE r == Closure("loading", ~Wide, 1, hook, setStatus)
<1>3. InstOK(r)
  <2>1. CASE Wide
    <3>1. r = Closure("loading", FALSE, 1, hook, setStatus)
      BY <2>1
    <3>. QED
      BY <3>1 DEF Closure, InstOK, InstanceType
  <2>2. CASE ~Wide
    <3>1. r = Closure("loading", TRUE, 1, hook, setStatus)
      BY <2>2
    <3>. QED
      BY <2>2, <3>1 DEF Closure, InstOK, InstanceType
  <2>. QED
    BY <2>1, <2>2
<1>4. ofile' \in Files /\ args' \in [Jobs -> {"fresh", "used"}] /\ ran' \subseteq Jobs
  BY DEF createModule, IInv
<1>. HIDE DEF r
<1>5. /\ inst' \in [Instances -> InstanceType]
      /\ \A k \in Instances : InstOK(inst'[k])
  <2>1. inst' = [inst EXCEPT ![i] = r]
    BY <1>1 DEF r
  <2>. QED
    BY <2>1, <1>3, <1>4, InstStep
<1>. QED
  BY <1>4, <1>5 DEF createModule, IInv

\* A failed instantiation leaves the dependency, so no run passes the first guard.
LEMMA FailStep ==
  ASSUME IInv, NEW i \in Instances, instantiationFails(i)
  PROVE  IInv'
<1>. DEFINE r == [inst[i] EXCEPT !.st = "dead", !.abort = TRUE]
<1>1. inst' = [inst EXCEPT ![i] = r]
  BY DEF instantiationFails, IInv
<1>2. InstOK(inst[i]) /\ inst[i].st = "loading"
  BY DEF instantiationFails, IInv
<1>3. InstOK(r)
  BY <1>2 DEF InstOK, InstanceType
<1>4. ofile' \in Files /\ args' \in [Jobs -> {"fresh", "used"}] /\ ran' \subseteq Jobs
  BY DEF instantiationFails, IInv
<1>5. /\ inst' \in [Instances -> InstanceType]
      /\ \A k \in Instances : InstOK(inst'[k])
  <2>. HIDE DEF r
  <2>. QED
    BY <1>1, <1>3, <1>4, InstStep
<1>. QED
  BY <1>4, <1>5 DEF instantiationFails, IInv

\* What removing the only dependency of an instance can end in, with or
\* without a postponed run.
LEMMA RemovedFacts ==
  ASSUME IInv, NEW r, InstOK(r), r.deps = 1, r.st = "live",
         NEW e \in dependencyRemoved(r)
  PROVE  /\ e.r \in InstanceType /\ e.o \in Files /\ ~e.entered
         /\ InstOK(e.r)
<1>. DEFINE r1 == [r EXCEPT !.deps = @ - 1]
            r2 == [r1 EXCEPT !.armed = FALSE]
            r3 == [r2 EXCEPT !.timers = Append(@, NoJob)]
<1>1. r \in InstanceType /\ (r.abort => r.calledRun) /\ (r.mains > 0 => r.calledRun)
  BY DEF InstOK
<1>2. /\ r1 \in InstanceType /\ r1.deps = 0 /\ r1.st = r.st
      /\ r1.abort = r.abort /\ r1.calledRun = r.calledRun /\ r1.mains = r.mains
  BY <1>1 DEF InstanceType
<1>3. /\ r2 \in InstanceType /\ r2.st = r.st
      /\ r2.abort = r.abort /\ r2.calledRun = r.calledRun /\ r2.mains = r.mains
  <2>. HIDE DEF r1
  <2>. QED
    BY <1>2 DEF InstanceType
<1>4. /\ r3 \in InstanceType /\ r3.st = r.st
      /\ r3.abort = r.abort /\ r3.calledRun = r.calledRun /\ r3.mains = r.mains
  <2>. DEFINE q == Append(r2.timers, NoJob)
  <2>1. q \in Seq(Jobs \cup {NoJob})
    <3>. HIDE DEF r2
    <3>1. r2.timers \in Seq(Jobs \cup {NoJob}) /\ NoJob \in Jobs \cup {NoJob}
      BY <1>3 DEF InstanceType
    <3>. QED
      BY <3>1
  <2>2. r3 = [r2 EXCEPT !.timers = q]
    OBVIOUS
  <2>. HIDE DEF r2, r3, q
  <2>. QED
    BY <1>3, <2>1, <2>2 DEF InstanceType
<1>5. \/ e = Ended(r1, ofile, FALSE, FALSE)
      \/ e = Ended(r3, ofile, FALSE, FALSE)
      \/ e \in doRun(r2, ofile, NoJob, "error")
  BY DEF dependencyRemoved
<1>. HIDE DEF r1, r2, r3
<1>6. CASE e = Ended(r1, ofile, FALSE, FALSE)
  <2>1. InstOK(r1)
    BY <1>1, <1>2 DEF InstOK
  <2>. QED
    BY <1>2, <1>6, <2>1 DEF Ended, IInv
<1>7. CASE e = Ended(r3, ofile, FALSE, FALSE)
  <2>1. InstOK(r3)
    BY <1>1, <1>4 DEF InstOK
  <2>. QED
    BY <1>4, <1>7, <2>1 DEF Ended, IInv
<1>8. CASE e \in doRun(r2, ofile, NoJob, "error")
  <2>1. "error" \in Endings /\ ofile \in Files /\ NoJob \in Jobs \cup {NoJob}
    BY DEF Endings, IInv
  <2>4. (r2.abort => r2.calledRun) /\ (r2.mains > 0 => r2.calledRun)
    BY <1>1, <1>3
  <2>2. /\ e.r \in InstanceType /\ e.o \in Files
        /\ e.r.calledRun = TRUE /\ e.r.st = r2.st
    BY <1>3, <1>8, <2>1, <2>4, DoRunFacts
  <2>3. ~e.entered
    BY <1>8 DEF doRun, secondRun, Ended
  <2>. QED
    BY <1>3, <2>2, <2>3, UsedOK
<1>. QED
  BY <1>5, <1>6, <1>7, <1>8

\* The instantiation ends: its dependency goes, the promise is resolved.
LEMMA ReceiveStep ==
  ASSUME IInv, NEW i \in Instances, receiveInstance(i)
  PROVE  IInv'
<1>. DEFINE r == [inst[i] EXCEPT !.st = "live", !.ready = TRUE]
<1>1. InstOK(r) /\ r.st = "live" /\ r.deps = 1
  <2>. InstOK(inst[i])
    BY DEF IInv
  <2>. QED
    BY DEF receiveInstance, InstOK, InstanceType
<1>2. PICK e \in dependencyRemoved(r) : Leaves(i, NoJob, e)
  BY DEF receiveInstance
<1>. HIDE DEF r
<1>3. e.r \in InstanceType /\ e.o \in Files /\ ~e.entered /\ InstOK(e.r)
  BY <1>1, <1>2, RemovedFacts
<1>4. /\ inst' = [inst EXCEPT ![i] = e.r]
      /\ ofile' \in Files /\ args' \in [Jobs -> {"fresh", "used"}] /\ ran' \subseteq Jobs
  BY <1>2, <1>3, LeavesTypes
<1>5. /\ inst' \in [Instances -> InstanceType]
      /\ \A k \in Instances : InstOK(inst'[k])
  BY <1>3, <1>4, InstStep
<1>. QED
  BY <1>4, <1>5 DEF receiveInstance, IInv

\* The page's own dependency is met.
LEMMA HookStep ==
  ASSUME IInv, NEW i \in Instances, hookDone(i)
  PROVE  IInv'
<1>. DEFINE r == inst[i]
<1>1. InstOK(r) /\ r.st = "live" /\ r.deps = 1
  <2>. InstOK(inst[i])
    BY DEF IInv
  <2>. QED
    BY DEF hookDone, InstOK, InstanceType
<1>2. PICK e \in dependencyRemoved(r) : Leaves(i, NoJob, e)
  BY DEF hookDone
<1>. HIDE DEF r
<1>3. e.r \in InstanceType /\ e.o \in Files /\ ~e.entered /\ InstOK(e.r)
  BY <1>1, <1>2, RemovedFacts
<1>4. /\ inst' = [inst EXCEPT ![i] = e.r]
      /\ ofile' \in Files /\ args' \in [Jobs -> {"fresh", "used"}] /\ ran' \subseteq Jobs
  BY <1>2, <1>3, LeavesTypes
<1>5. /\ inst' \in [Instances -> InstanceType]
      /\ \A k \in Instances : InstOK(inst'[k])
  BY <1>3, <1>4, InstStep
<1>. QED
  BY <1>4, <1>5 DEF hookDone, IInv

------------------------------------------------------------------------------
\* An answer that respects the two promises keeps every answer in ResOK.
LEMMA GivesOK ==
  ASSUME IInv, NEW i \in Instances, NEW j \in Jobs, CanCall(i, j),
         NEW kind \in {"undefined", "file", "thrown"}, NEW file \in Files,
         Gives(i, j, kind, file),
         kind = "file" /\ ~inst[i].setStatus /\ (Wide \/ ~inst[i].calledRun)
           => file = File(j),
         Wide /\ kind = "undefined"
           => inst[i].hook \/ (inst[i].st = "live" /\ inst[i].deps > 0)
  PROVE  /\ res' \in [Jobs -> ResType]
         /\ \A k \in Jobs : ResOK(k, res'[k])
<1>. DEFINE h == inst[i].hook \/ (inst[i].st = "live" /\ inst[i].deps > 0)
            x == [calls |-> res[j].calls + 1, kind |-> kind, file |-> file,
                  deferred |-> inst[i].setStatus, reused |-> inst[i].calledRun,
                  hooked |-> h]
<1>1. inst[i] \in InstanceType /\ res[j] \in ResType
  BY DEF IInv
<1>2. /\ inst[i].setStatus \in BOOLEAN /\ inst[i].calledRun \in BOOLEAN
      /\ res[j].calls \in 0..MaxCalls /\ inst[i].hook \in BOOLEAN
  BY <1>1 DEF InstanceType, ResType
<1>3. res[j].calls + 1 \in 0..MaxCalls
  BY <1>2, MaxCallsAssumption DEF CanCall
<1>4. h \in BOOLEAN
  BY <1>2
<1>5. res' = [res EXCEPT ![j] = x]
  BY DEF Gives
<1>6. ResOK(j, x)
  <2>. DEFINE n == res[j].calls + 1
  <2>. HIDE DEF h, n
  <2>1. x.kind = kind /\ x.file = file /\ x.deferred = inst[i].setStatus
        /\ x.reused = inst[i].calledRun /\ x.hooked = h
    OBVIOUS
  <2>2. x \in ResType
    BY <1>2, <1>3, <1>4 DEF ResType, n
  <2>3. Wide /\ kind = "undefined" => h
    BY DEF h
  <2>. HIDE DEF x
  <2>. QED
    BY <2>1, <2>2, <2>3 DEF ResOK
<1>. HIDE DEF x
<1>. QED
  BY <1>5, <1>6, ResStep

\* The page can call run only on an instance whose promise was resolved.
LEMMA CallFacts ==
  ASSUME IInv, NEW i \in Instances, NEW j \in Jobs, CanCall(i, j)
  PROVE  /\ InstOK(inst[i]) /\ inst[i] \in InstanceType
         /\ Wide => inst[i].st = "live"
         /\ inst[i].deps = 0 => inst[i].st = "live"
         /\ Null \in Files
<1>1. InstOK(inst[i]) /\ inst[i].ready
  BY DEF IInv, CanCall
<1>. QED
  BY <1>1 DEF InstOK, InstanceType, Null, Files

\* First guard.
LEMMA EarlyStep ==
  ASSUME IInv, NEW i \in Instances, NEW j \in Jobs, runEarly(i, j)
  PROVE  IInv'
<1>1. /\ res' \in [Jobs -> ResType]
      /\ \A k \in Jobs : ResOK(k, res'[k])
  <2>1. CanCall(i, j) /\ Gives(i, j, "undefined", Null) /\ inst[i].deps > 0
    BY DEF runEarly
  <2>. QED
    BY <2>1, CallFacts, GivesOK
<1>. QED
  BY <1>1 DEF runEarly, IInv

\* Second guard.
LEMMA HookedStep ==
  ASSUME IInv, NEW i \in Instances, NEW j \in Jobs, runHooked(i, j)
  PROVE  IInv'
<1>1. /\ CanCall(i, j) /\ Gives(i, j, "undefined", Null)
      /\ inst[i].deps = 0 /\ inst[i].hook
  BY DEF runHooked
<1>2. /\ res' \in [Jobs -> ResType]
      /\ \A k \in Jobs : ResOK(k, res'[k])
  BY <1>1, CallFacts, GivesOK
<1>3. PICK b \in BOOLEAN : b = (Tool = "as64")
  OBVIOUS
<1>. DEFINE r == [inst[i] EXCEPT !.hook = FALSE, !.deps = 1, !.armed = b]
<1>4. inst' = [inst EXCEPT ![i] = r]
  BY <1>3 DEF runHooked
<1>5. InstOK(r)
  <2>1. InstOK(inst[i]) /\ inst[i].st = "live"
    BY <1>1, CallFacts
  <2>2. inst[i] \in InstanceType /\ b \in BOOLEAN
    BY <2>1, <1>3 DEF InstOK
  <2>3. r \in InstanceType
    <3>. DEFINE q1 == [inst[i] EXCEPT !.hook = FALSE]
                q2 == [q1 EXCEPT !.deps = 1]
                q3 == [q2 EXCEPT !.armed = b]
    <3>1. q1 \in InstanceType
      BY <2>2 DEF InstanceType
    <3>2. q2 \in InstanceType
      <4>. HIDE DEF q1
      <4>. QED
        BY <3>1 DEF InstanceType
    <3>3. q3 \in InstanceType
      <4>. HIDE DEF q2
      <4>. QED
        BY <2>2, <3>2 DEF InstanceType
    <3>. QED
      BY <3>3
  <2>4. /\ r.st = "live" /\ r.abort = inst[i].abort
        /\ r.calledRun = inst[i].calledRun /\ r.mains = inst[i].mains
    BY <2>1, <2>2 DEF InstanceType
  <2>. HIDE DEF r
  <2>. QED
    BY <2>1, <2>3, <2>4 DEF InstOK
<1>6. ofile' \in Files /\ args' \in [Jobs -> {"fresh", "used"}] /\ ran' \subseteq Jobs
  BY DEF runHooked, IInv
<1>7. /\ inst' \in [Instances -> InstanceType]
      /\ \A k \in Instances : InstOK(inst'[k])
  <2>. HIDE DEF r
  <2>. QED
    BY <1>4, <1>5, <1>6, InstStep
<1>. QED
  BY <1>2, <1>6, <1>7 DEF runHooked, IInv

\* The setStatus path: the call is excused, its timer waits on a live instance.
LEMMA DeferredStep ==
  ASSUME IInv, NEW i \in Instances, NEW j \in Jobs, runDeferred(i, j)
  PROVE  IInv'
<1>1. /\ CanCall(i, j) /\ Gives(i, j, "file", ofile)
      /\ inst[i].deps = 0 /\ inst[i].setStatus
  BY DEF runDeferred
<1>2. /\ res' \in [Jobs -> ResType]
      /\ \A k \in Jobs : ResOK(k, res'[k])
  <2>. ofile \in Files
    BY DEF IInv
  <2>. QED
    BY <1>1, GivesOK
<1>. DEFINE r == [inst[i] EXCEPT !.timers = Append(@, j)]
<1>3. inst' = [inst EXCEPT ![i] = r]
  BY DEF runDeferred
<1>4. InstOK(r)
  <2>1. InstOK(inst[i]) /\ inst[i].st = "live"
    BY <1>1, CallFacts
  <2>2. Append(inst[i].timers, j) \in Seq(Jobs \cup {NoJob})
    BY <2>1 DEF InstOK, InstanceType
  <2>. QED
    BY <2>1, <2>2 DEF InstOK, InstanceType
<1>5. ofile' \in Files /\ args' \in [Jobs -> {"fresh", "used"}] /\ ran' \subseteq Jobs
  BY DEF runDeferred, IInv
<1>6. /\ inst' \in [Instances -> InstanceType]
      /\ \A k \in Instances : InstOK(inst'[k])
  <2>. HIDE DEF r
  <2>. QED
    BY <1>3, <1>4, <1>5, InstStep
<1>. QED
  BY <1>2, <1>5, <1>6 DEF runDeferred, IInv

\* doRun inside the call: an answer without exception is the job's own output.
LEMMA NowStep ==
  ASSUME IInv, NEW i \in Instances, NEW j \in Jobs, runNow(i, j)
  PROVE  IInv'
<1>1. CanCall(i, j) /\ inst[i].deps = 0
  BY DEF runNow
<1>2. PICK ending \in Endings : \E e \in doRun(inst[i], ofile, j, ending) :
        /\ Leaves(i, j, e)
        /\ IF e.threw THEN Gives(i, j, "thrown", Null) ELSE Gives(i, j, "file", e.o)
  BY DEF runNow
<1>3. PICK e \in doRun(inst[i], ofile, j, ending) :
        /\ Leaves(i, j, e)
        /\ IF e.threw THEN Gives(i, j, "thrown", Null) ELSE Gives(i, j, "file", e.o)
  BY <1>2
<1>4. /\ InstOK(inst[i]) /\ inst[i] \in InstanceType /\ inst[i].st = "live"
      /\ Null \in Files
  BY <1>1, CallFacts
<1>5. /\ inst[i].abort => inst[i].calledRun
      /\ inst[i].mains > 0 => inst[i].calledRun
      /\ ofile \in Files /\ j \in Jobs \cup {NoJob}
  BY <1>4 DEF InstOK, IInv
<1>6. /\ e.r \in InstanceType /\ e.o \in Files
      /\ e.entered => j \in Jobs
      /\ e.r.calledRun = TRUE /\ e.r.st = "live"
      /\ ~e.threw /\ (Wide \/ ~inst[i].calledRun) => e.o = File(j)
  BY <1>3, <1>4, <1>5, DoRunFacts
<1>7. /\ inst' = [inst EXCEPT ![i] = e.r]
      /\ ofile' \in Files /\ args' \in [Jobs -> {"fresh", "used"}] /\ ran' \subseteq Jobs
  BY <1>3, <1>6, LeavesTypes
<1>8. /\ inst' \in [Instances -> InstanceType]
      /\ \A k \in Instances : InstOK(inst'[k])
  BY <1>6, <1>7, UsedOK, InstStep
<1>9. /\ res' \in [Jobs -> ResType]
      /\ \A k \in Jobs : ResOK(k, res'[k])
  <2>1. CASE e.threw
    BY <1>1, <1>3, <1>4, <2>1, GivesOK
  <2>2. CASE ~e.threw
    BY <1>1, <1>3, <1>6, <2>2, GivesOK
  <2>. QED
    BY <2>1, <2>2
<1>. QED
  BY <1>7, <1>8, <1>9 DEF IInv

\* doRun from a timer.
LEMMA TimerStep ==
  ASSUME IInv, NEW i \in Instances, timerFires(i)
  PROVE  IInv'
<1>. DEFINE r == [inst[i] EXCEPT !.timers = Tail(@)]
            j == Head(inst[i].timers)
<1>1. inst[i].timers # <<>> /\ res' = res
  BY DEF timerFires
<1>2. PICK ending \in Endings : \E e \in doRun(r, ofile, j, ending) : Leaves(i, j, e)
  BY DEF timerFires
<1>3. PICK e \in doRun(r, ofile, j, ending) : Leaves(i, j, e)
  BY <1>2
<1>4. InstOK(inst[i]) /\ inst[i] \in InstanceType /\ inst[i].st = "live"
  BY <1>1 DEF IInv, InstOK
<1>5. j \in Jobs \cup {NoJob} /\ Tail(inst[i].timers) \in Seq(Jobs \cup {NoJob})
  <2>. inst[i].timers \in Seq(Jobs \cup {NoJob})
    BY <1>4 DEF InstanceType
  <2>. QED
    BY <1>1
<1>6. /\ r \in InstanceType /\ r.st = "live" /\ r.abort = inst[i].abort
      /\ r.calledRun = inst[i].calledRun /\ r.mains = inst[i].mains
  BY <1>4, <1>5 DEF InstanceType
<1>7. (r.abort => r.calledRun) /\ (r.mains > 0 => r.calledRun) /\ ofile \in Files
  BY <1>4, <1>6 DEF InstOK, IInv
<1>. HIDE DEF r, j
<1>8. /\ e.r \in InstanceType /\ e.o \in Files
      /\ e.entered => j \in Jobs
      /\ e.r.calledRun = TRUE /\ e.r.st = "live"
  BY <1>3, <1>5, <1>6, <1>7, DoRunFacts
<1>9. /\ inst' = [inst EXCEPT ![i] = e.r]
      /\ ofile' \in Files /\ args' \in [Jobs -> {"fresh", "used"}] /\ ran' \subseteq Jobs
  BY <1>3, <1>8, LeavesTypes
<1>10. /\ inst' \in [Instances -> InstanceType]
       /\ \A k \in Instances : InstOK(inst'[k])
  BY <1>8, <1>9, UsedOK, InstStep
<1>. QED
  BY <1>1, <1>9, <1>10 DEF IInv

------------------------------------------------------------------------------
\* No instance, no answer: the invariant holds at the start.
LEMMA InitIInv == Init => IInv
<1>. SUFFICES ASSUME Init PROVE IInv
  OBVIOUS
<1>. DEFINE c == Closure("none", FALSE, 0, FALSE, FALSE)
            x == [calls |-> 0, kind |-> "none", file |-> Null,
                  deferred |-> FALSE, reused |-> FALSE, hooked |-> FALSE]
<1>1. InstOK(c)
  BY DEF InstOK, InstanceType, Closure
<1>2. Null \in Files
  BY DEF Null, Files
<1>3. \A j \in Jobs : ResOK(j, x)
  BY <1>2, MaxCallsAssumption DEF ResOK, ResType
<1>4. c \in InstanceType /\ (\A j \in Jobs : x \in ResType)
  BY <1>1, <1>3 DEF InstOK, ResOK
<1>5. /\ inst = [i \in Instances |-> c] /\ ofile = Null
      /\ args = [j \in Jobs |-> "fresh"] /\ res = [j \in Jobs |-> x] /\ ran = {}
  BY DEF Init
<1>. HIDE DEF c, x
<1>. QED
  BY <1>1, <1>2, <1>3, <1>4, <1>5 DEF IInv

\* Every task of the event loop preserves the invariant.
LEMMA NextIInv == IInv /\ [Next]_vars => IInv'
<1>. SUFFICES ASSUME IInv, [Next]_vars PROVE IInv'
  OBVIOUS
<1>1. CASE UNCHANGED vars
  BY <1>1 DEF vars, IInv, InstOK, ResOK
<1>2. CASE Next
  <2>1. PICK i \in Instances :
          \/ createModule(i) \/ receiveInstance(i) \/ instantiationFails(i)
          \/ hookDone(i) \/ timerFires(i)
          \/ \E j \in Jobs : runEarly(i, j) \/ runHooked(i, j) \/ runDeferred(i, j) \/ runNow(i, j)
    BY <1>2 DEF Next
  <2>2. CASE \E j \in Jobs : runEarly(i, j) \/ runHooked(i, j) \/ runDeferred(i, j) \/ runNow(i, j)
    BY <2>2, EarlyStep, HookedStep, DeferredStep, NowStep
  <2>. QED
    BY <2>1, <2>2, CreateStep, ReceiveStep, FailStep, HookStep, TimerStep
<1>. QED
  BY <1>1, <1>2

\* IInv holds in every reachable state.
THEOREM Invariance == Spec => []IInv
BY InitIInv, NextIInv, PTL DEF Spec

\* Type correctness, with the bound of one main per instance.
THEOREM TypeCorrectness == Spec => []TypeOK
<1>1. IInv => TypeOK
  BY DEF IInv, TypeOK, ResType
<1>. QED
  BY <1>1, Invariance, PTL

\* Whatever the order of factory calls, instantiations, hooks, timers and runs,
\* and whatever failed before, run never hands out another job's file.
THEOREM OwnFile == Spec => []ReturnsOwnFile
<1>1. IInv => ReturnsOwnFile
  BY DEF IInv, ResOK, ReturnsOwnFile
<1>. QED
  BY <1>1, Invariance, PTL

\* The promise of a 64-bit factory is worth a run.
THEOREM Runnable == Spec => []ReadyMeansRunnable
<1>1. IInv => ReadyMeansRunnable
  BY DEF IInv, ResOK, ReadyMeansRunnable
<1>. QED
  BY <1>1, Invariance, PTL

\* main is entered only in an instantiated module, through its first doRun.
THEOREM MainAfterInstantiation == Spec => []MainNeedsInstance
<1>1. IInv => MainNeedsInstance
  BY DEF IInv, InstOK, MainNeedsInstance
<1>. QED
  BY <1>1, Invariance, PTL
==============================================================================
