----------------------------- MODULE SweepProofs -----------------------------
(***************************************************************************)
(* Proofs about the sweep and its driver, for any conditions, any number   *)
(* of sweeps and faults, and any limits of the watch of which the one on   *)
(* dead sightings is at least two: with one, a sweep that files its status *)
(* and ends between the two looks of a poll would be called vanished.      *)
(*                                                                         *)
(* The invariant adds whose status is in the file, what the driver may     *)
(* conclude from what it has seen so far, and under which condition the    *)
(* sweep is at each of its steps.                                          *)
(***************************************************************************)
EXTENDS Sweep, TLAPS

\* The status in the file is of the last sweep, which has ended: or it was
\* started again with setsid after a start that came and went unseen.
StatusOwn ==
  rcfile # NoStatus =>
    /\ rcfile.id = sweep.id
    /\ sweep.pc \in {"leaving", "none"} \/ sweep.via = "setsid"

\* `run' watches the last sweep, which is up, and has seen it dead only when it
\* is.  From then on the file does not change any more.
Watching ==
  /\ driver.pc = "start" => sweeps < MaxSweeps /\ driver.cmd = "run"
  /\ driver.cmd = "run" =>
       /\ driver.pc \in {"spawn", "watch", "poll"} => driver.told = sweep.id
       /\ driver.pc \in {"watch", "poll"} => sweep.pc # "spawned" \/ sweep.via = "systemd"
       /\ driver.vanished > 0 => sweep.pc = "none"
       /\ driver.vanished > 0 /\ driver.pc = "poll" => driver.seen = rcfile
       /\ driver.seen # NoStatus => rcfile # NoStatus /\ driver.seen.id = driver.told
       /\ driver.pc \in {"start", "spawn"} => driver.seen = NoStatus /\ driver.vanished = 0

\* What an answer says of the sweep.
Answered ==
  driver.cmd = "run" =>
    /\ driver.verdict = "finished" => driver.seen # NoStatus
    /\ driver.verdict = "vanished" => sweep.pc = "none" /\ rcfile = NoStatus
    /\ driver.verdict = "would not start" => sweep.pc = "none"
    /\ driver.pc \notin {"cleanup", "ended"} => driver.verdict = "none"

\* How far the loop over the conditions is.
Progress ==
  /\ sweep.pc \in {"set", "measure", "unset"} \/ sweep.ran => WithConditions
  /\ sweep.pc \in {"spawned", "before"} => sweep.k = 0
  /\ sweep.pc = "set" => sweep.k < Len(Conditions) /\ (sweep.k = 0 \/ sweep.ran)
  /\ sweep.pc = "unset" => sweep.ran
  /\ sweep.pc \in {"core", "fold", "passed"} /\ WithConditions => sweep.ran

\* The condition the sweep is under.
Truthful(c) == \E cond \in Conds : c.label = Label(cond) /\ c.under = {cond}

Conditioned ==
  /\ sweep.pc = "measure" => sweep.start = qdisc /\ sweep.label = Label(qdisc)
  /\ sweep.pc = "core" => sweep.start = "clear" /\ qdisc = "clear"
  /\ sweep.pc # "none" /\ ~WithConditions => qdisc = "clear"
  /\ \A c \in curves \cup e5 : Truthful(c)

Labelled ==
  /\ ~disturbed => Conditioned
  /\ disturbed /\ driver.pc = "spawn" => qdisc # "clear" /\ ~WithConditions

\* All curves are folded.
Folded ==
  /\ sweep.pc = "passed" /\ sweep.ran /\ curves # {} => e5 = curves
  /\ sweep.ran /\ rcfile.status = 0 /\ curves # {} => e5 = curves

IInv == TypeOK /\ StatusOwn /\ Watching /\ Answered /\ HostLeftClean /\ Progress /\ Labelled /\ Folded

-----------------------------------------------------------------------------
\* The constants' own facts: there is a first condition, `clear'.
LEMMA ConditionFacts ==
  /\ Len(Conditions) \in Nat \ {0}
  /\ "clear" \in Conds /\ "none" \in Labels
  /\ \A c \in Conds : Label(c) \in Labels
  /\ \A k \in 0..Len(Conditions) : k < Len(Conditions) => Conditions[k + 1] \in Conds
  /\ Conditions[1] = "clear" /\ Label("clear") = "none"
<1>1. Len(Conditions) \in Nat \ {0} /\ DOMAIN Conditions = 1..Len(Conditions)
  BY ConditionsAssumption
<1>2. "clear" \in Conds  BY <1>1, ConditionsAssumption DEF Conds
<1>3. \A c \in Conds : Label(c) \in Labels  BY DEF Conds, Labels
<1>4. Label("clear") = "none"  BY DEF Label
<1>5. \A k \in 0..Len(Conditions) : k < Len(Conditions) => Conditions[k + 1] \in Conds
  BY <1>1 DEF Conds
<1> QED  BY <1>1, <1>2, <1>3, <1>4, <1>5, ConditionsAssumption

\* The bounds, one by one.
LEMMA Bounds ==
  /\ FailLimit \in Nat \ {0} /\ VanishLimit \in Nat /\ VanishLimit > 1
  /\ MaxSweeps \in Nat \ {0} /\ MaxFaults \in Nat \ {0}
BY BoundsAssumption

\* No status file, and the ones a wrapper writes.
LEMMA StatusFacts ==
  /\ NoStatus \in Status /\ NoStatus.status = -1
  /\ \A id \in 0..MaxSweeps, via \in {"systemd", "setsid"}, status \in {0, 1} :
       LET st == [id |-> id, via |-> via, status |-> status]
       IN  st \in Status /\ st # NoStatus /\ st.id = id /\ st.status = status
BY Bounds DEF NoStatus, Status

\* The fields of a command as the driver begins it.
LEMMA CommandFields ==
  ASSUME NEW cmd \in {"run", "watch"}, NEW pc \in {"start", "watch"}, NEW full \in BOOLEAN,
         NEW told \in 0..MaxSweeps
  PROVE  LET d == Command(cmd, pc, full, told)
         IN  /\ d \in Drivers
             /\ d.cmd = cmd /\ d.pc = pc /\ d.told = told
             /\ d.vanished = 0 /\ d.seen = NoStatus /\ d.verdict = "none"
BY StatusFacts, Bounds DEF Command, Drivers

\* The fields of a sweep as spawn() starts it.
LEMMA SpawnFields ==
  ASSUME NEW via \in {"systemd", "setsid"}, NEW id \in 0..MaxSweeps, driver \in Drivers, Spawn(via, id)
  PROVE  /\ sweep' \in Sweeps
         /\ sweep'.pc = "spawned" /\ sweep'.id = id /\ sweep'.via = via
         /\ sweep'.full = driver.full /\ sweep'.k = 0 /\ sweep'.ran = FALSE
         /\ disturbed' = (qdisc # "clear" /\ ~(driver.full /\ via = "systemd"))
<1>1. sweep' = [pc |-> "spawned", id |-> id, via |-> via, full |-> driver.full, k |-> 0,
                ran |-> FALSE, label |-> "none", start |-> "clear"]
  BY DEF Spawn, NoSweep
<1>2. driver.full \in BOOLEAN  BY DEF Drivers
<1>3. 0 \in 0..Len(Conditions)  BY ConditionFacts
<1>4. sweep' \in Sweeps  BY <1>1, <1>2, <1>3, ConditionFacts DEF Sweeps
<1>5. disturbed' = (qdisc # "clear" /\ ~(driver.full /\ via = "systemd"))  BY Zenon DEF Spawn
<1>6. sweep'.full = driver.full /\ sweep'.ran = FALSE  BY <1>1, Zenon
<1> QED  BY <1>1, <1>4, <1>5, <1>6

\* A step that only moves the sweep leaves its other fields.
Moved(pc) ==
  /\ sweep' \in Sweeps /\ sweep'.pc = pc /\ sweep'.start = qdisc
  /\ sweep'.id = sweep.id /\ sweep'.via = sweep.via /\ sweep'.full = sweep.full
  /\ sweep'.k = sweep.k /\ sweep'.ran = sweep.ran /\ sweep'.label = sweep.label

\* Goto() is such a step.
LEMMA GotoMoves ==
  ASSUME TypeOK,
         NEW pc \in {"none", "before", "set", "core", "fold", "passed", "failed", "leaving"},
         Goto(pc)
  PROVE  Moved(pc)
BY DEF Goto, TypeOK, Sweeps, Moved

\* An answer: `run' goes on to clean up, `watch' ends, and all else stays.
Concludes(d, e, v) ==
  /\ e \in Drivers /\ e.cmd = d.cmd /\ e.verdict = v
  /\ e.pc = IF d.cmd = "run" THEN "cleanup" ELSE "ended"
  /\ e.seen = d.seen /\ e.told = d.told /\ e.vanished = d.vanished

DriverAnswers(v) == Concludes(driver, driver', v)

\* Verdict() is one, whoever asked.
LEMMA VerdictFields ==
  ASSUME NEW d \in Drivers,
         NEW v \in {"would not start", "no answer", "finished", "vanished", "limit"}
  PROVE  Concludes(d, Verdict(d, v), v)
BY DEF Verdict, Drivers, Concludes

\* A step that need not happen counts against the bound.
LEMMA FaultType ==
  ASSUME TypeOK, Fault \/ UNCHANGED faults
  PROVE  faults' \in 0..MaxFaults
BY Bounds DEF TypeOK, Fault

\* A step of a sweep that is alive, short of filing its status, leaves what the
\* driver knows of it true.
LEMMA SweepStep ==
  ASSUME IInv, UNCHANGED <<driver, rcfile, sweeps>>, sweep.pc # "none", sweep'.pc # "spawned",
         sweep'.id = sweep.id, sweep'.via = sweep.via,
         sweep.pc = "leaving" => sweep'.pc = "none"
  PROVE  StatusOwn' /\ Watching' /\ Answered'
<1>1. StatusOwn'  BY DEF IInv, StatusOwn
<1>2. Watching'  BY DEF IInv, Watching
<1>3. Answered'  BY DEF IInv, Answered
<1> QED  BY <1>1, <1>2, <1>3

\* A step of the driver that leaves node B alone.
LEMMA DriverStep ==
  ASSUME IInv, UNCHANGED <<node, sweeps, disturbed>>, driver' \in Drivers,
         faults' \in 0..MaxFaults, driver'.pc = "spawn" => driver.pc = "spawn"
  PROVE  TypeOK' /\ StatusOwn' /\ Progress' /\ Labelled' /\ Folded'
<1> USE DEF node, host
<1>1. TypeOK'  BY DEF IInv, TypeOK
<1>2. StatusOwn'  BY DEF IInv, StatusOwn
<1>3. Progress'  BY DEF IInv, Progress, WithConditions
<1>4. Labelled'  BY DEF IInv, Labelled, Conditioned, Truthful, WithConditions
<1>5. Folded'  BY DEF IInv, Folded
<1> QED  BY <1>1, <1>2, <1>3, <1>4, <1>5

-----------------------------------------------------------------------------
(* The steps of the sweep.                                                 *)

\* The wrapper comes up.
LEMMA UpKeeps ==
  ASSUME IInv, Up
  PROVE  IInv'
<1>0. UNCHANGED <<rcfile, host, driver, sweeps, faults, disturbed>> /\ sweep.pc = "spawned"  BY DEF Up
<1>1. Moved("before")  BY GotoMoves DEF IInv, Up
<1>2. TypeOK'  BY <1>0, <1>1 DEF IInv, TypeOK, host, Moved
<1>3. StatusOwn' /\ Watching' /\ Answered'  BY <1>0, <1>1, SweepStep DEF Moved
<1>4. HostLeftClean'  BY <1>0 DEF IInv, HostLeftClean, host
<1>5. Progress'  BY <1>0, <1>1 DEF IInv, Progress, WithConditions, Moved
<1>6. Labelled'  BY <1>0, <1>1 DEF IInv, Labelled, Conditioned, Truthful, WithConditions, Moved, host
<1>7. Folded'  BY <1>0, <1>1 DEF IInv, Folded, Moved, host
<1> QED  BY <1>2, <1>3, <1>4, <1>5, <1>6, <1>7 DEF IInv

\* What comes before the conditions and the core experiments.
LEMMA BeforeKeeps ==
  ASSUME IInv, Before
  PROVE  IInv'
<1>0. UNCHANGED <<rcfile, host, driver, sweeps, disturbed>> /\ sweep.pc = "before"  BY DEF Before
<1>1. Moved("failed") \/ (Moved("set") /\ WithConditions) \/ (Moved("core") /\ ~WithConditions)
  <2>1. Goto("failed") \/ (Goto("set") /\ WithConditions) \/ (Goto("core") /\ ~WithConditions)
    <3>1. WithConditions \in BOOLEAN  BY DEF WithConditions
    <3> QED  BY <3>1 DEF Before
  <2> QED  BY <2>1, GotoMoves DEF IInv
<1>2. TypeOK'
  <2>1. faults' \in 0..MaxFaults  BY FaultType DEF IInv, Before
  <2> QED  BY <1>0, <1>1, <2>1 DEF IInv, TypeOK, host, Moved
<1>3. StatusOwn' /\ Watching' /\ Answered'  BY <1>0, <1>1, SweepStep DEF Moved
<1>4. HostLeftClean'  BY <1>0 DEF IInv, HostLeftClean, host
<1>5. Progress'  BY <1>0, <1>1, ConditionFacts DEF IInv, Progress, WithConditions, Moved
<1>6. Labelled'  BY <1>0, <1>1 DEF IInv, Labelled, Conditioned, Truthful, WithConditions, Moved, host
<1>7. Folded'  BY <1>0, <1>1 DEF IInv, Folded, Moved, host
<1> QED  BY <1>2, <1>3, <1>4, <1>5, <1>6, <1>7 DEF IInv

\* netem.sh sets a condition, or tc refuses it.
LEMMA SetConditionKeeps ==
  ASSUME IInv, SetCondition
  PROVE  IInv'
<1> DEFINE cond == Conditions[sweep.k + 1]
<1>0. /\ UNCHANGED <<rcfile, curves, e5, driver, sweeps, disturbed>> /\ sweep.pc = "set"
      /\ sweep.k \in 0..Len(Conditions) /\ sweep.k < Len(Conditions) /\ cond \in Conds
  BY ConditionFacts DEF SetCondition, IInv, Progress, TypeOK, Sweeps
<1>1. /\ sweep'.id = sweep.id /\ sweep'.via = sweep.via /\ sweep'.full = sweep.full
      /\ sweep'.ran = sweep.ran /\ sweep'.k = sweep.k + 1
  BY DEF SetCondition, IInv, TypeOK, Sweeps, Skipped, Onward
<1>2. \/ /\ qdisc' = cond /\ label' = Label(cond) /\ UNCHANGED faults
         /\ sweep'.pc = "measure" /\ sweep'.label = Label(cond) /\ sweep'.start = cond
      \/ /\ qdisc' = "clear" /\ UNCHANGED label /\ Fault /\ cond # "clear"
         /\ sweep'.pc = IF sweep.k + 1 < Len(Conditions) THEN "set" ELSE "unset"
         /\ sweep'.label = sweep.label /\ sweep'.start = sweep.start
  BY DEF SetCondition, IInv, TypeOK, Sweeps, Skipped, Onward
<1>3. sweep.k = 0 => cond = "clear"  BY ConditionFacts
<1>4. TypeOK'
  <2>1. faults' \in 0..MaxFaults  BY <1>2, FaultType DEF IInv
  <2>2. Label(cond) \in Labels /\ "clear" \in Conds  BY <1>0, ConditionFacts
  <2>3. sweep' \in Sweeps
    <3>1. sweep.k + 1 \in 0..Len(Conditions)  BY <1>0, ConditionFacts
    <3> QED  BY <1>0, <2>2, <3>1 DEF SetCondition, IInv, TypeOK, Sweeps, Skipped, Onward
  <2>4. qdisc' \in Conds /\ label' \in Labels  BY <1>0, <1>2, <2>2 DEF IInv, TypeOK
  <2> QED  BY <1>0, <2>1, <2>3, <2>4 DEF IInv, TypeOK
<1>5. StatusOwn' /\ Watching' /\ Answered'  BY <1>0, <1>1, <1>2, SweepStep
<1>6. HostLeftClean'
  BY <1>0 DEF IInv, HostLeftClean, Answered, Watching, StatusOwn, Progress, WithConditions
<1>7. Progress'
  BY <1>0, <1>1, <1>2, <1>3, ConditionFacts DEF IInv, Progress, WithConditions
<1>8. Labelled'
  BY <1>0, <1>1, <1>2 DEF IInv, Labelled, Conditioned, Truthful, WithConditions, Progress
<1>9. Folded'  BY <1>0, <1>1, <1>2 DEF IInv, Folded
<1> QED  BY <1>4, <1>5, <1>6, <1>7, <1>8, <1>9 DEF IInv

\* E5 ends under a condition.
LEMMA EndCurveKeeps ==
  ASSUME IInv, EndCurve
  PROVE  IInv'
<1>0. UNCHANGED <<rcfile, qdisc, label, e5, driver, sweeps, disturbed>> /\ sweep.pc = "measure"
  BY DEF EndCurve
<1>1. /\ sweep'.id = sweep.id /\ sweep'.via = sweep.via /\ sweep'.full = sweep.full
      /\ sweep'.ran = TRUE /\ sweep'.k = sweep.k /\ sweep' \in Sweeps
      /\ sweep'.pc = IF sweep.k < Len(Conditions) THEN "set" ELSE "unset"
  BY DEF EndCurve, IInv, TypeOK, Sweeps, Onward
<1>2. curves' = curves \cup {Curve(sweep.label)} \/ curves' = curves  BY DEF EndCurve
<1>3. /\ Curve(sweep.label) \in Curves
      /\ ~disturbed => Truthful(Curve(sweep.label))
  BY <1>0 DEF IInv, TypeOK, Sweeps, Curves, Curve, Labelled, Conditioned, Truthful
<1>4. TypeOK'
  <2>1. faults' \in 0..MaxFaults  BY FaultType DEF IInv, EndCurve
  <2> QED  BY <1>0, <1>1, <1>2, <1>3, <2>1 DEF IInv, TypeOK
<1>5. StatusOwn' /\ Watching' /\ Answered'  BY <1>0, <1>1, SweepStep
<1>6. HostLeftClean'  BY <1>0 DEF IInv, HostLeftClean
<1>7. Progress'  BY <1>0, <1>1, ConditionFacts DEF IInv, Progress, WithConditions
<1>8. Labelled'
  BY <1>0, <1>1, <1>2, <1>3 DEF IInv, Labelled, Conditioned, Truthful, WithConditions, Progress
<1>9. Folded'
  <2>1. rcfile.status = -1
    BY <1>0, StatusFacts DEF IInv, StatusOwn, Progress, WithConditions
  <2> QED  BY <1>0, <1>1, <2>1 DEF Folded
<1> QED  BY <1>4, <1>5, <1>6, <1>7, <1>8, <1>9 DEF IInv

\* netem.sh clears the condition after the last of them.
LEMMA UnsetKeeps ==
  ASSUME IInv, Unset
  PROVE  IInv'
<1>0. /\ UNCHANGED <<rcfile, curves, e5, driver, sweeps, faults, disturbed>>
      /\ sweep.pc = "unset" /\ qdisc' = "clear" /\ label' = "none"
  BY DEF Unset
<1>1. /\ sweep'.id = sweep.id /\ sweep'.via = sweep.via /\ sweep'.full = sweep.full
      /\ sweep'.ran = sweep.ran /\ sweep'.k = sweep.k /\ sweep' \in Sweeps
      /\ sweep'.pc = "core" /\ sweep'.start = "clear"
  BY ConditionFacts DEF Unset, IInv, TypeOK, Sweeps
<1>2. TypeOK'  BY <1>0, <1>1, ConditionFacts DEF IInv, TypeOK
<1>3. StatusOwn' /\ Watching' /\ Answered'  BY <1>0, <1>1, SweepStep
<1>4. HostLeftClean'  BY <1>0 DEF HostLeftClean
<1>5. Progress'  BY <1>0, <1>1 DEF IInv, Progress, WithConditions
<1>6. Labelled'
  BY <1>0, <1>1 DEF IInv, Labelled, Conditioned, Truthful, WithConditions, Progress
<1>7. Folded'  BY <1>0, <1>1 DEF IInv, Folded
<1> QED  BY <1>2, <1>3, <1>4, <1>5, <1>6, <1>7 DEF IInv

\* The core experiments, with a curve of their own where the loop made none.
LEMMA CoreKeeps ==
  ASSUME IInv, Core
  PROVE  IInv'
<1>0. UNCHANGED <<qdisc, label, curves, rcfile, driver, sweeps, faults, disturbed>> /\ sweep.pc = "core"
  BY DEF Core
<1>1. Moved("fold")  BY GotoMoves DEF IInv, Core
<1>2. (sweep.ran /\ e5' = e5) \/ (~sweep.ran /\ e5' = {Curve("none")})
  <2>1. e5' = IF sweep.ran THEN e5 ELSE {Curve("none")}  BY DEF Core
  <2>2. sweep.ran \in BOOLEAN  BY DEF IInv, TypeOK, Sweeps
  <2> QED  BY <2>1, <2>2
<1>3. Curve("none") \in Curves /\ (~disturbed => Truthful(Curve("none")))
  BY <1>0, ConditionFacts
  DEF IInv, TypeOK, Sweeps, Curves, Curve, Labelled, Conditioned, Truthful
<1>4. TypeOK'  BY <1>0, <1>1, <1>2, <1>3 DEF IInv, TypeOK, Moved
<1>5. StatusOwn' /\ Watching' /\ Answered'  BY <1>0, <1>1, SweepStep DEF Moved
<1>6. HostLeftClean'  BY <1>0 DEF IInv, HostLeftClean
<1>7. Progress'  BY <1>0, <1>1 DEF IInv, Progress, WithConditions, Moved
<1>8. Labelled'
  BY <1>0, <1>1, <1>2, <1>3 DEF IInv, Labelled, Conditioned, Truthful, WithConditions, Moved
<1>9. Folded'  BY <1>0, <1>1, <1>2 DEF IInv, Folded, Moved
<1> QED  BY <1>4, <1>5, <1>6, <1>7, <1>8, <1>9 DEF IInv

\* merge_netem.py folds the curves of the conditions.
LEMMA FoldKeeps ==
  ASSUME IInv, Fold
  PROVE  IInv'
<1>0. UNCHANGED <<qdisc, label, curves, rcfile, driver, sweeps, disturbed>> /\ sweep.pc = "fold"
  BY DEF Fold
<1>1. Moved("passed") \/ Moved("failed")  BY GotoMoves DEF IInv, Fold
<1>2. e5' = IF sweep.ran /\ curves # {} THEN curves ELSE e5  BY DEF Fold
<1>3. TypeOK'
  <2>1. faults' \in 0..MaxFaults  BY FaultType DEF IInv, Fold
  <2> QED  BY <1>0, <1>1, <1>2, <2>1 DEF IInv, TypeOK, Moved
<1>4. StatusOwn' /\ Watching' /\ Answered'  BY <1>0, <1>1, SweepStep DEF Moved
<1>5. HostLeftClean'  BY <1>0 DEF IInv, HostLeftClean
<1>6. Progress'  BY <1>0, <1>1 DEF IInv, Progress, WithConditions, Moved
<1>7. Labelled'
  BY <1>0, <1>1, <1>2 DEF IInv, Labelled, Conditioned, Truthful, WithConditions, Moved
<1>8. Folded'  BY <1>0, <1>1, <1>2 DEF IInv, Folded, Moved
<1> QED  BY <1>3, <1>4, <1>5, <1>6, <1>7, <1>8 DEF IInv

\* The wrapper files the exit status.
LEMMA WriteStatusKeeps ==
  ASSUME IInv, WriteStatus
  PROVE  IInv'
<1>0. UNCHANGED <<host, driver, sweeps, faults, disturbed>> /\ sweep.pc \in {"passed", "failed"}
  BY DEF WriteStatus
<1>1. Moved("leaving")  BY GotoMoves DEF IInv, WriteStatus
<1>2. /\ rcfile' \in Status /\ rcfile' # NoStatus /\ rcfile'.id = sweep.id
      /\ rcfile'.status = IF sweep.pc = "passed" THEN 0 ELSE 1
  <2>1. sweep.id \in 0..MaxSweeps /\ sweep.via \in {"systemd", "setsid"}
    BY DEF IInv, TypeOK, Sweeps
  <2> QED  BY <2>1, StatusFacts DEF WriteStatus
<1>3. TypeOK'  BY <1>0, <1>1, <1>2 DEF IInv, TypeOK, host, Moved
<1>4. StatusOwn'  BY <1>0, <1>1, <1>2 DEF IInv, StatusOwn, Moved
<1>5. Watching'  BY <1>0, <1>1, <1>2 DEF IInv, Watching, Moved
<1>6. Answered'  BY <1>0, <1>1 DEF IInv, Answered, Moved
<1>7. HostLeftClean'  BY <1>0 DEF IInv, HostLeftClean, host
<1>8. Progress'  BY <1>0, <1>1 DEF IInv, Progress, WithConditions, Moved
<1>9. Labelled'
  BY <1>0, <1>1 DEF IInv, Labelled, Conditioned, Truthful, WithConditions, Moved, host
<1>10. Folded'  BY <1>0, <1>1, <1>2 DEF IInv, Folded, Moved, host
<1> QED  BY <1>3, <1>4, <1>5, <1>6, <1>7, <1>8, <1>9, <1>10 DEF IInv

\* The wrapper ends, or the sweep is killed wherever it is.
LEMMA EndKeeps ==
  ASSUME IInv, Leave \/ Killed
  PROVE  IInv'
<1>0. UNCHANGED <<rcfile, host, driver, sweeps, disturbed>> /\ sweep.pc # "none"
  BY DEF Leave, Killed
<1>1. Moved("none")  BY GotoMoves DEF IInv, Leave, Killed
<1>2. TypeOK'
  <2>1. faults' \in 0..MaxFaults  BY FaultType DEF IInv, Leave, Killed
  <2> QED  BY <1>0, <1>1, <2>1 DEF IInv, TypeOK, host, Moved
<1>3. StatusOwn' /\ Watching' /\ Answered'  BY <1>0, <1>1, SweepStep DEF Moved
<1>4. HostLeftClean'  BY <1>0 DEF IInv, HostLeftClean, host
<1>5. Progress'  BY <1>0, <1>1 DEF IInv, Progress, WithConditions, Moved
<1>6. Labelled'  BY <1>0, <1>1 DEF IInv, Labelled, Conditioned, Truthful, WithConditions, Moved, host
<1>7. Folded'  BY <1>0, <1>1 DEF IInv, Folded, Moved, host
<1> QED  BY <1>2, <1>3, <1>4, <1>5, <1>6, <1>7 DEF IInv

-----------------------------------------------------------------------------
(* The steps of the driver.                                                *)

\* A command begins knowing nothing.
LEMMA GiveCommandKeeps ==
  ASSUME IInv, GiveCommand
  PROVE  IInv'
<1>0. UNCHANGED <<node, sweeps, faults, disturbed>>  BY DEF GiveCommand
<1>1. 0 \in 0..MaxSweeps /\ sweeps \in 0..MaxSweeps  BY Bounds DEF IInv, TypeOK
<1>2. PICK cmd \in {"run", "watch"}, pc \in {"start", "watch"}, full \in BOOLEAN, told \in 0..MaxSweeps :
        /\ driver' = Command(cmd, pc, full, told)
        /\ cmd = "run" \/ pc = "start" => cmd = "run" /\ pc = "start" /\ sweeps < MaxSweeps
  BY <1>1 DEF GiveCommand
<1>3. /\ driver' \in Drivers /\ driver'.pc = pc /\ driver'.cmd = cmd
      /\ driver'.seen = NoStatus /\ driver'.vanished = 0 /\ driver'.verdict = "none"
  <2>1. driver' = Command(cmd, pc, full, told)  BY <1>2
  <2> QED  BY <2>1, CommandFields
<1>4. TypeOK' /\ StatusOwn' /\ Progress' /\ Labelled' /\ Folded'
  BY <1>0, <1>3, DriverStep DEF IInv, TypeOK
<1>5. Watching'  BY <1>0, <1>2, <1>3 DEF Watching
<1>6. Answered'  BY <1>3 DEF Answered
<1>7. HostLeftClean'  BY <1>3 DEF HostLeftClean
<1> QED  BY <1>4, <1>5, <1>6, <1>7 DEF IInv

\* start_sweep() finds a sweep that runs, or wipes the results and starts one.
LEMMA StartSweepKeeps ==
  ASSUME IInv, NEW via \in {"systemd", "setsid"}, start_sweep(via)
  PROVE  IInv'
<1>0. driver.pc = "start" /\ UNCHANGED faults  BY DEF start_sweep
<1>1. CASE sweep_running
  <2>0. UNCHANGED <<node, sweeps, disturbed>>  BY <1>1 DEF start_sweep
  <2>1. /\ driver' \in Drivers /\ driver'.pc = "watch" /\ driver'.told = sweep.id
        /\ driver'.cmd = driver.cmd /\ driver'.seen = driver.seen
        /\ driver'.vanished = driver.vanished /\ driver'.verdict = driver.verdict
    BY <1>1, ZenonT(60) DEF start_sweep, IInv, TypeOK, Drivers, Sweeps
  <2>2. TypeOK' /\ StatusOwn' /\ Progress' /\ Labelled' /\ Folded'
    BY <1>0, <2>0, <2>1, DriverStep DEF IInv, TypeOK
  <2>3. Watching'
    BY <1>0, <1>1, <2>0, <2>1
    DEF IInv, Watching, node, sweep_running, first_alive
  <2>4. Answered'  BY <1>0, <2>0, <2>1 DEF IInv, Answered, node
  <2>5. HostLeftClean'  BY <2>1 DEF HostLeftClean
  <2> QED  BY <2>2, <2>3, <2>4, <2>5 DEF IInv
<1>2. CASE ~sweep_running
  <2>0. UNCHANGED <<qdisc, label>> /\ rcfile' = NoStatus /\ curves' = {} /\ e5' = {} /\ sweeps' = sweeps + 1
    BY <1>2 DEF start_sweep, Wipe
  <2>1. sweeps + 1 \in 1..MaxSweeps  BY <1>0, Bounds DEF IInv, TypeOK, Watching
  <2>2. Spawn(via, sweeps + 1)  BY <1>2 DEF start_sweep
  <2>1a. sweeps + 1 \in 0..MaxSweeps /\ driver \in Drivers  BY <2>1 DEF IInv, TypeOK
  <2>3. /\ sweep' \in Sweeps /\ sweep'.pc = "spawned" /\ sweep'.id = sweeps + 1 /\ sweep'.via = via
        /\ sweep'.full = driver.full /\ sweep'.k = 0 /\ sweep'.ran = FALSE
        /\ disturbed' = (qdisc # "clear" /\ ~(driver.full /\ via = "systemd"))
    BY <2>1a, <2>2, SpawnFields, Zenon
  <2>4. /\ driver' \in Drivers /\ driver'.pc = "spawn" /\ driver'.told = sweeps + 1
        /\ driver'.cmd = driver.cmd /\ driver'.seen = driver.seen
        /\ driver'.vanished = driver.vanished /\ driver'.verdict = driver.verdict
    BY <1>2, <2>1a, ZenonT(60) DEF start_sweep, Drivers
  <2>5. TypeOK'
    <3>1. disturbed' \in BOOLEAN  BY <2>3
    <3>2. sweeps' \in 0..MaxSweeps  BY <2>0, <2>1
    <3> QED  BY <1>0, <2>0, <2>3, <2>4, <3>1, <3>2, StatusFacts DEF IInv, TypeOK
  <2>6. StatusOwn'  BY <2>0, <2>1, <2>3 DEF StatusOwn
  <2>7. Watching'  BY <1>0, <2>0, <2>1, <2>3, <2>4 DEF IInv, Watching
  <2>8. Answered'  BY <1>0, <2>4 DEF IInv, Answered
  <2>9. HostLeftClean'  BY <2>4 DEF HostLeftClean
  <2>10. Progress'  BY <2>3 DEF Progress
  <2>11. Labelled'  BY <2>0, <2>3 DEF Labelled, Conditioned, WithConditions
  <2>12. Folded'  BY <2>3 DEF Folded
  <2> QED  BY <2>5, <2>6, <2>7, <2>8, <2>9, <2>10, <2>11, <2>12 DEF IInv
<1> QED  BY <1>1, <1>2

\* spawn() sees the process.
LEMMA SpawnSeenKeeps ==
  ASSUME IInv, SpawnSeen
  PROVE  IInv'
<1>0. UNCHANGED <<node, sweeps, faults, disturbed>> /\ driver.pc = "spawn" /\ first_alive
  BY DEF SpawnSeen
<1>1. /\ driver' \in Drivers /\ driver'.pc = "watch" /\ driver'.cmd = driver.cmd
      /\ driver'.seen = driver.seen /\ driver'.told = driver.told
      /\ driver'.vanished = driver.vanished /\ driver'.verdict = driver.verdict
  BY DEF SpawnSeen, IInv, TypeOK, Drivers
<1>2. TypeOK' /\ StatusOwn' /\ Progress' /\ Labelled' /\ Folded'
  BY <1>0, <1>1, DriverStep DEF IInv, TypeOK
<1>3. Watching'  BY <1>0, <1>1 DEF IInv, Watching, node, first_alive
<1>4. Answered'  BY <1>0, <1>1 DEF IInv, Answered, node
<1>5. HostLeftClean'  BY <1>1 DEF HostLeftClean
<1> QED  BY <1>2, <1>3, <1>4, <1>5 DEF IInv

\* spawn() does not see it: setsid, and then nothing more.
LEMMA SpawnMissedKeeps ==
  ASSUME IInv, SpawnMissed
  PROVE  IInv'
<1>0. /\ UNCHANGED <<rcfile, host, sweeps, faults>> /\ driver.pc = "spawn"
      /\ sweep.pc = "none" \/ sweep.via = "systemd"
  BY DEF SpawnMissed
<1>1. CASE sweep.via = "systemd"
  <2>0. UNCHANGED driver /\ Spawn("setsid", sweep.id)  BY <1>1 DEF SpawnMissed
  <2>1. sweep.id \in 0..MaxSweeps /\ driver \in Drivers  BY DEF IInv, TypeOK, Sweeps
  <2>2. /\ sweep' \in Sweeps /\ sweep'.pc = "spawned" /\ sweep'.id = sweep.id /\ sweep'.via = "setsid"
        /\ sweep'.k = 0 /\ sweep'.ran = FALSE /\ disturbed' = (qdisc # "clear")
    <3>1. /\ sweep'.ran = FALSE
          /\ disturbed' = (qdisc # "clear" /\ ~(driver.full /\ "setsid" = "systemd"))
      BY <2>0, <2>1, SpawnFields, Zenon
    <3>2. disturbed' = (qdisc # "clear")  BY <3>1
    <3>3. /\ sweep' \in Sweeps /\ sweep'.pc = "spawned" /\ sweep'.id = sweep.id
          /\ sweep'.via = "setsid" /\ sweep'.k = 0
      BY <2>0, <2>1, SpawnFields
    <3> QED  BY <3>1, <3>2, <3>3
  <2>3. TypeOK'  BY <1>0, <2>0, <2>2 DEF IInv, TypeOK, host
  <2>4. StatusOwn'  BY <1>0, <1>1, <2>2 DEF IInv, StatusOwn
  <2>5. Watching'
    BY <1>0, <2>0, <2>2 DEF IInv, Watching
  <2>6. Answered'  BY <1>0, <2>0 DEF IInv, Answered
  <2>7. HostLeftClean'  BY <1>0, <2>0 DEF HostLeftClean
  <2>8. Progress'  BY <2>2 DEF Progress
  <2>9. Labelled'
    BY <1>0, <2>0, <2>2 DEF IInv, Labelled, Conditioned, Truthful, WithConditions, host
  <2>10. Folded'  BY <2>2 DEF Folded
  <2> QED  BY <2>3, <2>4, <2>5, <2>6, <2>7, <2>8, <2>9, <2>10 DEF IInv
<1>2. CASE sweep.via # "systemd"
  <2>0. UNCHANGED <<node, sweeps, disturbed>> /\ driver' = Verdict(driver, "would not start") /\ sweep.pc = "none"
    BY <1>0, <1>2 DEF SpawnMissed, node
  <2>1. DriverAnswers("would not start")  BY <2>0, VerdictFields DEF IInv, TypeOK, DriverAnswers, Concludes
  <2>2. TypeOK' /\ StatusOwn' /\ Progress' /\ Labelled' /\ Folded'
    BY <1>0, <2>0, <2>1, DriverStep DEF IInv, TypeOK, DriverAnswers, Concludes
  <2>3. Watching'  BY <1>0, <2>0, <2>1 DEF IInv, Watching, node, DriverAnswers, Concludes
  <2>4. Answered'  BY <1>0, <2>0, <2>1 DEF IInv, Answered, node, DriverAnswers, Concludes
  <2>5. HostLeftClean'  BY <2>1 DEF HostLeftClean, DriverAnswers, Concludes
  <2> QED  BY <2>2, <2>3, <2>4, <2>5 DEF IInv
<1> QED  BY <1>1, <1>2

\* No answer to start-sweep.
LEMMA StartLostKeeps ==
  ASSUME IInv, StartLost
  PROVE  IInv'
<1>0. /\ UNCHANGED <<node, sweeps, disturbed>> /\ driver' = Verdict(driver, "no answer")
      /\ driver.pc \in {"start", "spawn"}
  BY DEF StartLost
<1>1. DriverAnswers("no answer")  BY <1>0, VerdictFields DEF IInv, TypeOK, DriverAnswers, Concludes
<1>2. TypeOK' /\ StatusOwn' /\ Progress' /\ Labelled' /\ Folded'
  BY <1>0, <1>1, DriverStep, FaultType DEF IInv, StartLost, DriverAnswers, Concludes
<1>3. Watching'  BY <1>0, <1>1 DEF IInv, Watching, node, DriverAnswers, Concludes
<1>4. Answered'  BY <1>0, <1>1 DEF IInv, Answered, node, DriverAnswers, Concludes
<1>5. HostLeftClean'  BY <1>1 DEF HostLeftClean, DriverAnswers, Concludes
<1> QED  BY <1>2, <1>3, <1>4, <1>5 DEF IInv

\* sweep-poll reads the status.
LEMMA PollStatusKeeps ==
  ASSUME IInv, PollStatus
  PROVE  IInv'
<1>0. UNCHANGED <<node, sweeps, faults, disturbed>> /\ driver.pc = "watch"  BY DEF PollStatus
<1>1. /\ driver' \in Drivers /\ driver'.pc = "poll" /\ driver'.cmd = driver.cmd
      /\ driver'.seen = rcfile /\ driver'.told = driver.told
      /\ driver'.vanished = driver.vanished /\ driver'.verdict = driver.verdict
  BY DEF PollStatus, IInv, TypeOK, Drivers
<1>2. TypeOK' /\ StatusOwn' /\ Progress' /\ Labelled' /\ Folded'
  BY <1>0, <1>1, DriverStep DEF IInv, TypeOK
<1>3. Watching'  BY <1>0, <1>1 DEF IInv, Watching, StatusOwn, node
<1>4. Answered'  BY <1>0, <1>1 DEF IInv, Answered, node
<1>5. HostLeftClean'  BY <1>1 DEF HostLeftClean
<1> QED  BY <1>2, <1>3, <1>4, <1>5 DEF IInv

\* sweep-poll looks for the process, and sweep_watch() draws its conclusion.
LEMMA PollAnsweredKeeps ==
  ASSUME IInv, PollAnswered
  PROVE  IInv'
<1> DEFINE d == [driver EXCEPT !.pc = "watch", !.fails = 0]
<1>0. UNCHANGED <<node, sweeps, faults, disturbed>> /\ driver.pc = "poll"  BY DEF PollAnswered
<1>1. /\ d \in Drivers /\ d.pc = "watch" /\ d.cmd = driver.cmd /\ d.seen = driver.seen
      /\ d.told = driver.told /\ d.vanished = driver.vanished /\ d.verdict = driver.verdict
      /\ driver.vanished \in 0..VanishLimit
  <2>1. 0 \in 0..FailLimit  BY Bounds
  <2> QED  BY <2>1 DEF IInv, TypeOK, Drivers
<1> HIDE DEF d
<1>2. CASE driver.seen # NoStatus
  <2>1. driver' = Verdict(d, "finished")  BY <1>1, <1>2 DEF PollAnswered, d
  <2>2. DriverAnswers("finished")
    <3>1. Concludes(d, driver', "finished")  BY <1>1, <2>1, VerdictFields
    <3> QED  BY <1>1, <3>1 DEF DriverAnswers, Concludes
  <2>3. TypeOK' /\ StatusOwn' /\ Progress' /\ Labelled' /\ Folded'
    BY <1>0, <2>2, DriverStep DEF IInv, TypeOK, DriverAnswers, Concludes
  <2>4. Watching'  BY <1>0, <2>2 DEF IInv, Watching, node, DriverAnswers, Concludes
  <2>5. Answered'  BY <1>0, <1>2, <2>2 DEF IInv, Answered, node, DriverAnswers, Concludes
  <2>6. HostLeftClean'  BY <2>2 DEF HostLeftClean, DriverAnswers, Concludes
  <2> QED  BY <2>3, <2>4, <2>5, <2>6 DEF IInv
<1>3. CASE driver.seen = NoStatus /\ sweep_running
  <2>1. driver' = [d EXCEPT !.vanished = 0]  BY <1>1, <1>3 DEF PollAnswered, d
  <2>2. /\ driver' \in Drivers /\ driver'.pc = "watch" /\ driver'.cmd = driver.cmd
        /\ driver'.seen = driver.seen /\ driver'.told = driver.told
        /\ driver'.vanished = 0 /\ driver'.verdict = driver.verdict
    <3>1. 0 \in 0..VanishLimit  BY Bounds
    <3> QED  BY <1>1, <2>1, <3>1 DEF Drivers
  <2>3. TypeOK' /\ StatusOwn' /\ Progress' /\ Labelled' /\ Folded'
    BY <1>0, <2>2, DriverStep DEF IInv, TypeOK
  <2>4. Watching'  BY <1>0, <2>2 DEF IInv, Watching, node
  <2>5. Answered'  BY <1>0, <2>2 DEF IInv, Answered, node
  <2>6. HostLeftClean'  BY <2>2 DEF HostLeftClean
  <2> QED  BY <2>3, <2>4, <2>5, <2>6 DEF IInv
<1>4. CASE driver.seen = NoStatus /\ ~sweep_running
  \* Whom `run' watches and does not find is dead: it cannot be on its way up.
  <2>1. driver.cmd = "run" => sweep.pc = "none"
    BY <1>0, <1>4 DEF IInv, Watching, TypeOK, Sweeps, sweep_running, first_alive
  <2>2. CASE driver.vanished + 1 < VanishLimit
    <3>1. driver' = [d EXCEPT !.vanished = driver.vanished + 1]  BY <1>1, <1>4, <2>2 DEF PollAnswered, d
    <3>2. /\ driver' \in Drivers /\ driver'.pc = "watch" /\ driver'.cmd = driver.cmd
          /\ driver'.seen = driver.seen /\ driver'.told = driver.told
          /\ driver'.verdict = driver.verdict
      <4>1. driver.vanished + 1 \in 0..VanishLimit  BY <1>1, <2>2, Bounds
      <4> QED  BY <1>1, <3>1, <4>1 DEF Drivers
    <3>3. TypeOK' /\ StatusOwn' /\ Progress' /\ Labelled' /\ Folded'
      BY <1>0, <3>2, DriverStep DEF IInv, TypeOK
    <3>4. Watching'  BY <1>0, <2>1, <3>2 DEF IInv, Watching, node
    <3>5. Answered'  BY <1>0, <3>2 DEF IInv, Answered, node
    <3>6. HostLeftClean'  BY <3>2 DEF HostLeftClean
    <3> QED  BY <3>3, <3>4, <3>5, <3>6 DEF IInv
  <2>3. CASE ~(driver.vanished + 1 < VanishLimit)
    <3>1. driver' = Verdict(d, "vanished")  BY <1>1, <1>4, <2>3 DEF PollAnswered, d
    <3>2. DriverAnswers("vanished")
      <4>1. Concludes(d, driver', "vanished")  BY <1>1, <3>1, VerdictFields
      <4> QED  BY <1>1, <4>1 DEF DriverAnswers, Concludes
    \* It was dead at an earlier look, so the file is as this poll read it.
    <3>3. driver.cmd = "run" => rcfile = NoStatus
      <4>1. driver.vanished > 0  BY <1>1, <2>3, Bounds
      <4> QED  BY <1>0, <1>4, <4>1 DEF IInv, Watching
    <3>4. TypeOK' /\ StatusOwn' /\ Progress' /\ Labelled' /\ Folded'
      BY <1>0, <3>2, DriverStep DEF IInv, TypeOK, DriverAnswers, Concludes
    <3>5. Watching'  BY <1>0, <3>2 DEF IInv, Watching, node, DriverAnswers, Concludes
    <3>6. Answered'  BY <1>0, <2>1, <3>2, <3>3 DEF IInv, Answered, node, DriverAnswers, Concludes
    <3>7. HostLeftClean'  BY <3>2 DEF HostLeftClean, DriverAnswers, Concludes
    <3> QED  BY <3>4, <3>5, <3>6, <3>7 DEF IInv
  <2> QED  BY <2>2, <2>3
<1> QED  BY <1>2, <1>3, <1>4

\* A watch ends, or goes on, without having learnt anything.
LEMMA WatchLostKeeps ==
  ASSUME IInv, PollLost \/ TimeUp
  PROVE  IInv'
<1>0. UNCHANGED <<node, sweeps, disturbed>> /\ driver.pc = "watch"  BY DEF PollLost, TimeUp
<1>1. /\ driver' \in Drivers /\ driver'.pc \in {"watch", "cleanup", "ended"}
      /\ driver'.cmd = driver.cmd /\ driver'.seen = driver.seen /\ driver'.told = driver.told
      /\ driver'.vanished = driver.vanished
      /\ \/ driver'.pc = "watch" /\ driver'.verdict = driver.verdict
         \/ driver'.pc # "watch" /\ driver'.verdict \in {"limit", "lost contact", "interrupted"}
  <2>1. CASE PollLost
    <3>1. driver.fails \in 0..FailLimit  BY DEF IInv, TypeOK, Drivers
    <3>2. driver.fails + 1 < FailLimit => driver.fails + 1 \in 0..FailLimit  BY <3>1, Bounds
    <3> QED  BY <2>1, <3>2 DEF PollLost, IInv, TypeOK, Drivers
  <2>2. CASE TimeUp
    <3>1. CASE driver' = Verdict(driver, "limit")
      BY <3>1, VerdictFields DEF IInv, TypeOK, DriverAnswers, Concludes
    <3>2. CASE driver' = [driver EXCEPT !.pc = "ended", !.verdict = "interrupted"]
      BY <3>2 DEF IInv, TypeOK, Drivers
    <3> QED  BY <2>2, <3>1, <3>2 DEF TimeUp
  <2> QED  BY <2>1, <2>2
<1>2. TypeOK' /\ StatusOwn' /\ Progress' /\ Labelled' /\ Folded'
  BY <1>0, <1>1, DriverStep, FaultType DEF IInv, PollLost, TimeUp
<1>3. Watching'  BY <1>0, <1>1 DEF IInv, Watching, node
<1>4. Answered'  BY <1>0, <1>1 DEF IInv, Answered, node
<1>5. HostLeftClean'  BY <1>0, <1>1 DEF IInv, HostLeftClean, Answered
<1> QED  BY <1>2, <1>3, <1>4, <1>5 DEF IInv

\* netem-clear on node B, at the end of `run'.
LEMMA ClearKeeps ==
  ASSUME IInv, netem_clear
  PROVE  IInv'
<1>0. /\ UNCHANGED <<sweep, rcfile, curves, e5, sweeps, faults>> /\ driver.pc = "cleanup"
      /\ qdisc' = "clear" /\ label' = "none"
      /\ disturbed' = (disturbed \/ sweep.pc \in {"before", "set", "measure", "unset"})
  BY DEF netem_clear
<1>1. /\ driver' \in Drivers /\ driver'.pc = "ended" /\ driver'.cmd = driver.cmd
      /\ driver'.seen = driver.seen /\ driver'.told = driver.told
      /\ driver'.vanished = driver.vanished /\ driver'.verdict = driver.verdict
  BY DEF netem_clear, IInv, TypeOK, Drivers
<1>2. TypeOK'
  <2>1. disturbed' \in BOOLEAN  BY <1>0
  <2> QED  BY <1>0, <1>1, <2>1, ConditionFacts DEF IInv, TypeOK
<1>3. StatusOwn' /\ Progress' /\ Folded'
  BY <1>0 DEF IInv, StatusOwn, Progress, WithConditions, Folded
<1>4. Watching'  BY <1>0, <1>1 DEF IInv, Watching
<1>5. Answered'  BY <1>0, <1>1 DEF IInv, Answered
<1>6. HostLeftClean'  BY <1>0 DEF HostLeftClean
<1>7. Labelled'
  BY <1>0, <1>1 DEF IInv, Labelled, Conditioned, Truthful, WithConditions
<1> QED  BY <1>2, <1>3, <1>4, <1>5, <1>6, <1>7 DEF IInv

\* The session that clears gives no answer, and `run' ends with it.
LEMMA CleanupLostKeeps ==
  ASSUME IInv, CleanupLost
  PROVE  IInv'
<1>0. UNCHANGED <<node, sweeps, disturbed>> /\ driver.pc = "cleanup"  BY DEF CleanupLost
<1>1. /\ driver' \in Drivers /\ driver'.pc = "ended" /\ driver'.cmd = driver.cmd
      /\ driver'.seen = driver.seen /\ driver'.told = driver.told /\ driver'.lost
      /\ driver'.vanished = driver.vanished /\ driver'.verdict = driver.verdict
  BY DEF CleanupLost, IInv, TypeOK, Drivers
<1>2. TypeOK' /\ StatusOwn' /\ Progress' /\ Labelled' /\ Folded'
  BY <1>0, <1>1, DriverStep, FaultType DEF IInv, CleanupLost
<1>3. Watching'  BY <1>0, <1>1 DEF IInv, Watching, node
<1>4. Answered'  BY <1>0, <1>1 DEF IInv, Answered, node
<1>5. HostLeftClean'  BY <1>1 DEF HostLeftClean
<1> QED  BY <1>2, <1>3, <1>4, <1>5 DEF IInv

-----------------------------------------------------------------------------
(* The theorems.                                                           *)

\* Nothing runs at first, and no file is there.
LEMMA Initially == Init => IInv
<1> SUFFICES ASSUME Init PROVE IInv  OBVIOUS
<1>1. sweep \in Sweeps /\ sweep.pc = "none" /\ sweep.ran = FALSE
  BY ConditionFacts, Bounds DEF Init, NoSweep, Sweeps
<1>2. driver \in Drivers /\ driver.pc = "ended" /\ driver.cmd = "none"
  BY StatusFacts, Bounds DEF Init, Command, Drivers
<1>3. TypeOK
  <2>1. 0 \in 0..MaxSweeps /\ 0 \in 0..MaxFaults  BY Bounds
  <2>2. disturbed \in BOOLEAN  BY DEF Init
  <2> QED  BY <1>1, <1>2, <2>1, <2>2, StatusFacts, ConditionFacts DEF Init, TypeOK
<1>4. StatusOwn /\ Watching /\ Answered /\ HostLeftClean
  BY <1>1, <1>2 DEF Init, StatusOwn, Watching, Answered, HostLeftClean
<1>5. Progress /\ Labelled /\ Folded
  BY <1>1, <1>2 DEF Init, Progress, Labelled, Conditioned, Folded
<1> QED  BY <1>3, <1>4, <1>5 DEF IInv

\* The strengthened invariant holds whatever dies, is lost or is given up on.
THEOREM SweepInvariance == Spec => []IInv
<1>1. IInv /\ [Next]_vars => IInv'
  <2> SUFFICES ASSUME IInv, [Next]_vars PROVE IInv'  OBVIOUS
  <2>1. CASE UNCHANGED vars
    <3>1. driver' = driver /\ faults' = faults  BY <2>1 DEF vars
    <3>2. TypeOK' /\ StatusOwn' /\ Progress' /\ Labelled' /\ Folded'
      BY <2>1, <3>1, DriverStep DEF vars, IInv, TypeOK
    <3>3. Watching'  BY <2>1 DEF vars, node, IInv, Watching
    <3>4. Answered'  BY <2>1 DEF vars, node, IInv, Answered
    <3>5. HostLeftClean'  BY <2>1 DEF vars, node, host, IInv, HostLeftClean
    <3> QED  BY <3>2, <3>3, <3>4, <3>5 DEF IInv
  <2>2. ASSUME NEW via \in {"systemd", "setsid"}, start_sweep(via) PROVE IInv'
    BY <2>2, StartSweepKeeps
  <2> QED
    BY <2>1, <2>2, UpKeeps, BeforeKeeps, SetConditionKeeps, EndCurveKeeps, UnsetKeeps, CoreKeeps,
       FoldKeeps, WriteStatusKeeps, EndKeeps, GiveCommandKeeps, SpawnSeenKeeps, SpawnMissedKeeps,
       StartLostKeeps, PollStatusKeeps, PollAnsweredKeeps, WatchLostKeeps, ClearKeeps,
       CleanupLostKeeps
    DEF Next
<1> QED  BY <1>1, Initially, PTL DEF Spec

\* remote-sweep.sh files every curve under the condition it was measured under,
\* and merge_netem.py folds all of them.
THEOREM CurvesLabelled == Spec => []LabelsTrue
<1>1. IInv => LabelsTrue  BY DEF IInv, LabelsTrue, Labelled, Conditioned, Truthful, Folded
<1> QED  BY <1>1, SweepInvariance, PTL

\* sweep_watch() calls a sweep finished by its own status only, and vanished only
\* when it is dead and left none.
THEOREM VerdictsOwn == Spec => []VerdictIsOwn
<1>1. IInv => VerdictIsOwn  BY DEF IInv, VerdictIsOwn, Answered, Watching
<1> QED  BY <1>1, SweepInvariance, PTL

\* cmd_run leaves no condition on node B once it has an answer about its sweep.
THEOREM CleanedUp == Spec => []HostLeftClean
<1>1. IInv => HostLeftClean  BY DEF IInv
<1> QED  BY <1>1, SweepInvariance, PTL
=============================================================================
