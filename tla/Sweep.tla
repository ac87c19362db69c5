-------------------------------- MODULE Sweep --------------------------------
(***************************************************************************)
(* A sweep: detached on node B by nodectl.sh, run by remote-sweep.sh under *)
(* one network condition after the other, watched and cleaned up after by  *)
(* the driver on the workstation (mac/linerate), which only has ssh        *)
(* sessions that may give no answer.  The sweep can be killed at any time, *)
(* the driver interrupted, and either started again.                       *)
(*                                                                         *)
(* A sweep is told from others by its number, and the two attempts of one  *)
(* start by their way of detaching; neither is in the files.               *)
(***************************************************************************)
EXTENDS Integers, Sequences

CONSTANTS
  Conditions,     \* the conditions of remote-sweep.sh, in order
  FailLimit,      \* 20: polls without an answer that end a watch
  VanishLimit,    \* 3: sightings of a dead sweep that end a watch
  MaxSweeps,      \* sweeps that are started
  MaxFaults       \* kills, failures, lost sessions and interrupts

ASSUME ConditionsAssumption ==
  Conditions \in Seq(STRING) /\ Conditions # <<>> /\ Conditions[1] = "clear"
ASSUME BoundsAssumption     ==
  {FailLimit, VanishLimit, MaxSweeps, MaxFaults} \subseteq Nat \ {0} /\ VanishLimit > 1

VARIABLES
  sweep,      \* the processes of the sweep: [pc, id, via, full, k, ran, label, start]
  rcfile,     \* results/sweep.rc
  qdisc,      \* the condition attached to the interface
  label,      \* /tmp/lr_netem_label
  curves,     \* results/raw/netem-*/e5_latency.json: [label, under]
  e5,         \* results/raw/e5_latency.json: the curves in it
  driver,     \* [cmd, pc, full, told, fails, vanished, seen, verdict, lost]
  sweeps, faults,
  disturbed   \* history: the sweep's condition is not its own

host  == <<qdisc, label, curves, e5>>
node  == <<sweep, rcfile, host>>
vars  == <<node, driver, sweeps, faults, disturbed>>

NoStatus == [id |-> 0, via |-> "none", status |-> -1]
NoSweep  == [pc |-> "none", id |-> 0, via |-> "systemd", full |-> FALSE, k |-> 0, ran |-> FALSE,
             label |-> "none", start |-> "clear"]
Command(cmd, pc, full, told) ==
  [cmd |-> cmd, pc |-> pc, full |-> full, told |-> told, fails |-> 0, vanished |-> 0,
   seen |-> NoStatus, verdict |-> "none", lost |-> FALSE]

Init ==
  /\ sweep = NoSweep /\ rcfile = NoStatus
  /\ qdisc = "clear" /\ label = "none" /\ curves = {} /\ e5 = {}
  /\ driver = Command("none", "ended", FALSE, 0)
  /\ sweeps = 0 /\ faults = 0 /\ disturbed = FALSE

\* Something that need not happen happens.
Fault == faults < MaxFaults /\ faults' = faults + 1

-----------------------------------------------------------------------------
(* On node B: the wrapper, run.sh and remote-sweep.sh.                     *)

Label(cond) == IF cond = "clear" THEN "none" ELSE cond

\* The conditions need root, which a unit of systemd has and a process
\* detached with setsid does not.
WithConditions == sweep.full /\ sweep.via = "systemd"

Goto(pc) == sweep' = [sweep EXCEPT !.pc = pc, !.start = qdisc]

\* The launcher has become the wrapper.
Up ==
  /\ sweep.pc = "spawned" /\ Goto("before")
  /\ UNCHANGED <<rcfile, host, driver, sweeps, faults, disturbed>>

\* Self-test, environment, baselines and tiers; the first two may end the sweep.
Before ==
  /\ sweep.pc = "before"
  /\ \/ Goto(IF WithConditions THEN "set" ELSE "core") /\ UNCHANGED faults
     \/ Goto("failed") /\ Fault
  /\ UNCHANGED <<rcfile, host, driver, sweeps, disturbed>>

\* The next condition, or the end of the loop.
Onward(s) == [s EXCEPT !.pc = IF s.k < Len(Conditions) THEN "set" ELSE "unset"]

\* Mutant of Skipped: the condition is measured although it could not be set.
SkippedNot(s) == [s EXCEPT !.pc = "measure", !.label = label, !.start = "clear"]

\* A condition that could not be set: `|| continue'.
Skipped(s) == Onward(s)

\* netem.sh takes off what is attached, attaches the condition and then files
\* its label; where tc refuses it exits in between.  The label is read back for
\* the curve that is measured next.  (The interface it works on is found.)
SetCondition ==
  /\ sweep.pc = "set"
  /\ LET cond == Conditions[sweep.k + 1]
         s    == [sweep EXCEPT !.k = @ + 1]
     IN  \/ /\ qdisc' = cond /\ label' = Label(cond)
            /\ sweep' = [s EXCEPT !.pc = "measure", !.label = Label(cond), !.start = cond]
            /\ UNCHANGED faults
         \/ /\ cond # "clear" /\ Fault
            /\ qdisc' = "clear" /\ UNCHANGED label
            /\ sweep' = Skipped(s)
  /\ UNCHANGED <<rcfile, curves, e5, driver, sweeps, disturbed>>

\* A curve is under the conditions attached while it was measured.
Curve(l) == [label |-> l, under |-> {sweep.start, qdisc}]

\* E5 ends, with a curve or without one.
EndCurve ==
  /\ sweep.pc = "measure"
  /\ \/ curves' = curves \cup {Curve(sweep.label)} /\ UNCHANGED faults
     \/ UNCHANGED curves /\ Fault
  /\ sweep' = Onward([sweep EXCEPT !.ran = TRUE])
  /\ UNCHANGED <<rcfile, qdisc, label, e5, driver, sweeps, disturbed>>

Unset ==
  /\ sweep.pc = "unset"
  /\ qdisc' = "clear" /\ label' = "none"
  /\ sweep' = [sweep EXCEPT !.pc = "core", !.start = "clear"]
  /\ UNCHANGED <<rcfile, curves, e5, driver, sweeps, faults, disturbed>>

\* The core experiments, E5 only where the conditions did not measure it.
Core ==
  /\ sweep.pc = "core"
  /\ e5' = IF sweep.ran THEN e5 ELSE {Curve("none")}
  /\ UNCHANGED <<qdisc, label, curves>> /\ Goto("fold")
  /\ UNCHANGED <<rcfile, driver, sweeps, faults, disturbed>>

\* merge_netem.py folds what there is; the merge of all fragments may fail.
Fold ==
  /\ sweep.pc = "fold"
  /\ e5' = IF sweep.ran /\ curves # {} THEN curves ELSE e5
  /\ UNCHANGED <<qdisc, label, curves>>
  /\ \/ Goto("passed") /\ UNCHANGED faults
     \/ Goto("failed") /\ Fault
  /\ UNCHANGED <<rcfile, driver, sweeps, disturbed>>

\* The wrapper files the exit status; it is alive for a moment after that.
WriteStatus ==
  /\ sweep.pc \in {"passed", "failed"}
  /\ rcfile' = [id |-> sweep.id, via |-> sweep.via,
                status |-> IF sweep.pc = "passed" THEN 0 ELSE 1]
  /\ UNCHANGED host /\ Goto("leaving")
  /\ UNCHANGED <<driver, sweeps, faults, disturbed>>

Leave ==
  /\ sweep.pc = "leaving"
  /\ UNCHANGED host /\ Goto("none")
  /\ UNCHANGED <<rcfile, driver, sweeps, faults, disturbed>>

\* All processes of the sweep are killed, or its unit never ran; nobody is left
\* to clear the condition or to file a status.
Killed ==
  /\ sweep.pc # "none" /\ Fault
  /\ UNCHANGED host /\ Goto("none")
  /\ UNCHANGED <<rcfile, driver, sweeps, disturbed>>

-----------------------------------------------------------------------------
(* The subcommands of nodectl.sh and the driver that calls them.           *)

\* What pgrep finds; a unit counts from the moment systemd has accepted it.
first_alive   == sweep.pc \notin {"none", "spawned"}
sweep_running == first_alive \/ (sweep.pc = "spawned" /\ sweep.via = "systemd")

\* cmd_run after the self-tests and the daemons of node A; cmd_watch.
GiveCommand ==
  /\ driver.pc = "ended"
  /\ \/ sweeps < MaxSweeps /\ \E full \in BOOLEAN : driver' = Command("run", "start", full, 0)
     \/ driver' = Command("watch", "watch", FALSE, sweeps)
  /\ UNCHANGED <<node, sweeps, faults, disturbed>>

\* Mutant of Verdict: the driver cleans up only after a sweep that ended.
VerdictCleansIfFinished(d, v) ==
  [d EXCEPT !.verdict = v,
            !.pc = IF d.cmd = "run" /\ v = "finished" THEN "cleanup" ELSE "ended"]

\* The driver has its answer: cmd_run cleans up, cmd_watch ends.
Verdict(d, v) ==
  [d EXCEPT !.verdict = v, !.pc = IF d.cmd = "run" THEN "cleanup" ELSE "ended"]

Spawn(via, id) ==
  /\ sweep' = [NoSweep EXCEPT !.pc = "spawned", !.id = id, !.via = via, !.full = driver.full]
  /\ disturbed' = (qdisc # "clear" /\ ~(driver.full /\ via = "systemd"))

\* Mutant of Wipe: what an earlier sweep left stays.
WipeNothing == UNCHANGED <<rcfile, curves, e5>>

\* rm -rf results
Wipe == rcfile' = NoStatus /\ curves' = {} /\ e5' = {}

\* start_sweep(), up to the first look for the process.
start_sweep(via) ==
  /\ driver.pc = "start"
  /\ IF sweep_running
       THEN /\ driver' = [driver EXCEPT !.pc = "watch", !.told = sweep.id]
            /\ UNCHANGED <<node, sweeps, disturbed>>
       ELSE /\ sweeps' = sweeps + 1
            /\ Wipe /\ Spawn(via, sweeps + 1)
            /\ driver' = [driver EXCEPT !.pc = "spawn", !.told = sweeps + 1]
            /\ UNCHANGED <<qdisc, label>>
  /\ UNCHANGED faults

\* spawn(): the process is seen, or not: then the unit is stopped and setsid
\* tried, and after that the start has failed.  (What setsid detaches is up
\* before the wait is over, or dead.)  What the first attempt left in results/,
\* if it came and went between two looks, stays there for the second.
SpawnSeen ==
  /\ driver.pc = "spawn" /\ first_alive
  /\ driver' = [driver EXCEPT !.pc = "watch"]
  /\ UNCHANGED <<node, sweeps, faults, disturbed>>

SpawnMissed ==
  /\ driver.pc = "spawn" /\ ~first_alive
  /\ sweep.pc = "none" \/ sweep.via = "systemd"
  /\ IF sweep.via = "systemd" THEN Spawn("setsid", sweep.id) /\ UNCHANGED driver
     ELSE driver' = Verdict(driver, "would not start") /\ UNCHANGED <<sweep, disturbed>>
  /\ UNCHANGED <<rcfile, host, sweeps, faults>>

\* The session of start-sweep gives no answer, whether it did its work or not.
StartLost ==
  /\ driver.pc = "start" \/ (driver.pc = "spawn" /\ first_alive)
  /\ Fault
  /\ driver' = Verdict(driver, "no answer")
  /\ UNCHANGED <<node, sweeps, disturbed>>

\* sweep-poll reads the status first and looks for the process afterwards.
PollStatus ==
  /\ driver.pc = "watch"
  /\ driver' = [driver EXCEPT !.pc = "poll", !.seen = rcfile]
  /\ UNCHANGED <<node, sweeps, faults, disturbed>>

\* The rest of sweep-poll, and what sweep_watch makes of its answer.
PollAnswered ==
  /\ driver.pc = "poll"
  /\ LET d == [driver EXCEPT !.pc = "watch", !.fails = 0]
         v == d.vanished + 1
     IN  driver' = IF d.seen # NoStatus THEN Verdict(d, "finished")
                   ELSE IF sweep_running THEN [d EXCEPT !.vanished = 0]
                   ELSE IF v < VanishLimit THEN [d EXCEPT !.vanished = v]
                   ELSE Verdict(d, "vanished")
  /\ UNCHANGED <<node, sweeps, faults, disturbed>>

\* No answer to a poll; after FailLimit of them the driver gives up, and leaves
\* everything as it is.
PollLost ==
  /\ driver.pc = "watch" /\ Fault
  /\ driver' = IF driver.fails + 1 < FailLimit THEN [driver EXCEPT !.fails = @ + 1]
               ELSE [driver EXCEPT !.pc = "ended", !.verdict = "lost contact"]
  /\ UNCHANGED <<node, sweeps, disturbed>>

\* The limit is over, or the operator's patience.
TimeUp ==
  /\ driver.pc = "watch" /\ Fault
  /\ \/ driver' = Verdict(driver, "limit")
     \/ driver' = [driver EXCEPT !.pc = "ended", !.verdict = "interrupted"]
  /\ UNCHANGED <<node, sweeps, disturbed>>

\* run_cleanup(): netem-clear on node B.
netem_clear ==
  /\ driver.pc = "cleanup"
  /\ qdisc' = "clear" /\ label' = "none"
  /\ driver' = [driver EXCEPT !.pc = "ended"]
  /\ disturbed' = (disturbed \/ sweep.pc \in {"before", "set", "measure", "unset"})
  /\ UNCHANGED <<sweep, rcfile, curves, e5, sweeps, faults>>

CleanupLost ==
  /\ driver.pc = "cleanup" /\ Fault
  /\ driver' = [driver EXCEPT !.pc = "ended", !.lost = TRUE]
  /\ UNCHANGED <<node, sweeps, disturbed>>

Next ==
  \/ Up \/ Before \/ SetCondition \/ EndCurve \/ Unset \/ Core \/ Fold
  \/ WriteStatus \/ Leave \/ Killed
  \/ GiveCommand \/ (\E via \in {"systemd", "setsid"} : start_sweep(via))
  \/ SpawnSeen \/ SpawnMissed \/ StartLost
  \/ PollStatus \/ PollAnswered \/ PollLost \/ TimeUp \/ netem_clear \/ CleanupLost

Spec == Init /\ [][Next]_vars

-----------------------------------------------------------------------------
Labels  == {Label(Conditions[i]) : i \in DOMAIN Conditions}
Conds   == {Conditions[i] : i \in DOMAIN Conditions}
Curves  == [label: Labels, under: SUBSET Conds]
Status  == [id: 0..MaxSweeps, via: {"none", "systemd", "setsid"}, status: {-1, 0, 1}]

Sweeps ==
  [pc: {"none", "spawned", "before", "set", "measure", "unset", "core", "fold", "passed",
        "failed", "leaving"},
   id: 0..MaxSweeps, via: {"systemd", "setsid"}, full: BOOLEAN, k: 0..Len(Conditions),
   ran: BOOLEAN, label: Labels, start: Conds]

Drivers ==
  [cmd: {"none", "run", "watch"}, full: BOOLEAN, told: 0..MaxSweeps,
   pc: {"start", "spawn", "watch", "poll", "cleanup", "ended"},
   fails: 0..FailLimit, vanished: 0..VanishLimit, seen: Status,
   verdict: {"none", "would not start", "no answer", "finished", "vanished", "limit",
             "lost contact", "interrupted"},
   lost: BOOLEAN]

TypeOK ==
  /\ sweep \in Sweeps /\ driver \in Drivers
  /\ rcfile \in Status /\ qdisc \in Conds /\ label \in Labels
  /\ curves \subseteq Curves /\ e5 \subseteq Curves
  /\ sweeps \in 0..MaxSweeps /\ faults \in 0..MaxFaults /\ disturbed \in BOOLEAN

\* A curve is filed under the condition it was measured under, and none of them
\* is lost when they are folded into one fragment: whatever died before, however
\* often tc refused, and whoever watches.  (Not so for a curve during which a
\* driver that had given up cleared the host, nor for a sweep without
\* conditions of its own on a host that was left with one.)
LabelsTrue ==
  /\ TypeOK
  /\ ~disturbed => \A c \in curves \cup e5 : \E cond \in Conds : c.label = Label(cond) /\ c.under = {cond}
  /\ sweep.ran /\ rcfile.status = 0 /\ rcfile.id = sweep.id /\ rcfile.via = sweep.via
       /\ curves # {} => e5 = curves

\* What `run' reports is of the sweep it started, or of the one it was told is
\* running: a status is that sweep's, be it of the first of the two attempts to
\* start it, and a sweep is only called vanished when it is dead and left none,
\* though the process ends between the two looks of a poll and the status of an
\* earlier sweep was in the same file.
VerdictIsOwn ==
  driver.cmd = "run" =>
    /\ driver.verdict = "finished" => driver.seen.id = driver.told
    /\ driver.verdict = "vanished" => sweep.pc = "none" /\ rcfile = NoStatus

\* "The driver clears it whatever the sweep did": once `run' has ended with an
\* answer about its sweep, no condition is left on the host, also when the sweep
\* was killed under one.
HostLeftClean ==
  driver.cmd = "run" /\ driver.pc = "ended" /\ ~driver.lost
    /\ driver.verdict \in {"finished", "vanished", "would not start"} => qdisc = "clear"

\* "The sweep finished": the attempt that runs is the one whose status `run' has
\* read, and it is over when the driver goes on to clean up.
FinishedIsOver ==
  driver.cmd = "run" /\ driver.pc = "cleanup" /\ driver.verdict = "finished" =>
    driver.seen.via = sweep.via /\ sweep.pc \in {"leaving", "none"}
=============================================================================
