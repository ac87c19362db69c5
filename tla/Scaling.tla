------------------------------- MODULE Scaling -------------------------------
(***************************************************************************)
(* The scaling experiment E2: shards that each do a quota of work at the   *)
(* same time, in rounds that alternate strong and weak.  Two programs do   *)
(* it, with three kinds of barrier: run_pool() and run_e2() with           *)
(* std::thread or with OpenMP, and lr_mpi_scale with one rank per shard.   *)
(*                                                                         *)
(* Any set of shards or ranks may fail to be built; `plan' says which ones *)
(* do and in which round.  The file may be refused by the disk.  Wall      *)
(* times and cycles are left out, the order in which clocks are read is    *)
(* not.                                                                    *)
(***************************************************************************)
EXTENDS Integers, FiniteSets

CONSTANTS
  Kinds,           \* of "std::thread", "openmp", "mpi"
  MaxShards,       \* max_shards, and the number of ranks
  Reps,            \* reps
  Quota,           \* packets of a shard in a round
  GuardLimit       \* 8: fruitless cycles a shard tolerates

ASSUME KindsAssumption == Kinds \subseteq {"std::thread", "openmp", "mpi"}
ASSUME BoundsAssumption ==
  {MaxShards, Reps, Quota} \subseteq Nat \ {0} /\ GuardLimit \in Nat

VARIABLES
  kind,
  plan,      \* [round, who]: the shards that cannot be built in a round
  main,      \* run_e2(): [pc, n, round, i]
  w,         \* per shard or rank: [pc, round, done, guard, failed, all_error]
  ready, go, \* the atomics of run_pool()
  clock,     \* "on" between t0 and t1
  rows,      \* per width: pools measured and whether an error is recorded
  fragment   \* the file: whether it was tried to write it, and written

scalingVars == <<kind, plan, main, w, ready, go, clock, rows, fragment>>
pool == <<main, ready, go, clock, rows>>

Shards == 1..MaxShards
Rounds == 1..2 * Reps
Odd(r) == r % 2 = 1
NoFile == [tried |-> FALSE, written |-> FALSE]

\* Round 2k-1 is the strong pool of replicate k, round 2k the weak one.
Blank(pc) == [pc |-> pc, round |-> 1, done |-> 0, guard |-> 0, failed |-> FALSE, all_error |-> FALSE]
Fails(i, r) == plan.round = r /\ i \in plan.who

ScalingInit ==
  /\ kind \in Kinds
  /\ plan \in [round: Rounds, who: SUBSET Shards]
  /\ main = [pc |-> IF kind = "mpi" THEN "none" ELSE "start", n |-> 1, round |-> 1, i |-> 1]
  /\ w = [i \in Shards |-> Blank(IF kind = "mpi" THEN "gather" ELSE "none")]
  /\ ready = 0 /\ go = FALSE /\ clock = "off"
  /\ rows = [n \in Shards |-> [strong |-> 0, weak |-> 0, error |-> FALSE]]
  /\ fragment = NoFile

-----------------------------------------------------------------------------
(* run_pool() and the loop over widths and replicates.                     *)

Team == 1..main.n

\* Without permission to measure the file says so and nothing runs.  Here and
\* below write_file() may fail (stored is FALSE), which ends the program too.
Permission(permitted, stored) ==
  /\ main.pc = "start"
  /\ main' = [main EXCEPT !.pc = IF permitted THEN "build" ELSE "refused"]
  /\ fragment' = IF permitted THEN fragment ELSE [tried |-> TRUE, written |-> stored, ok |-> {}]
  /\ UNCHANGED <<kind, plan, w, ready, go, clock, rows>>

\* Mutant of BuildShard: the pool runs with the shards that could be built.
BuildShardOrNot ==
  /\ main.pc = "build"
  /\ rows' = [rows EXCEPT ![main.n].error = @ \/ Fails(main.i, main.round)]
  /\ main' = IF main.i < main.n THEN [main EXCEPT !.i = @ + 1]
             ELSE [main EXCEPT !.pc = "spawn", !.i = 1]
  /\ ready' = 0 /\ go' = FALSE
  /\ UNCHANGED <<kind, plan, w, clock, fragment>>

\* Shards are built and warmed one after the other; the first that fails ends
\* the pool and the row, whose error is that of shard 0, failed or not.
BuildShard ==
  /\ main.pc = "build"
  /\ IF Fails(main.i, main.round)
       THEN /\ main' = [main EXCEPT !.pc = "row"]
            /\ rows' = [rows EXCEPT ![main.n].error = (main.i = 1)]
       ELSE /\ main' = IF main.i < main.n THEN [main EXCEPT !.i = @ + 1]
                       ELSE [main EXCEPT !.pc = "spawn", !.i = 1]
            /\ UNCHANGED rows
  /\ ready' = 0 /\ go' = FALSE
  /\ UNCHANGED <<kind, plan, w, clock, fragment>>

\* std::thread starts them one by one, OpenMP as a team of which the main
\* thread is one.
Spawn ==
  /\ main.pc = "spawn"
  /\ IF kind = "openmp"
       THEN /\ w' = [i \in Shards |-> IF i \in Team THEN Blank("single") ELSE w[i]]
            /\ main' = [main EXCEPT !.pc = "join"]
       ELSE /\ w' = [w EXCEPT ![main.i] = Blank("arrive")]
            /\ main' = IF main.i < main.n THEN [main EXCEPT !.i = @ + 1] ELSE [main EXCEPT !.pc = "ready"]
  /\ UNCHANGED <<kind, plan, ready, go, clock, rows, fragment>>

\* Mutant of Single: the flag is not raised.
SingleNoGo(i) ==
  /\ w[i].pc = "single"
  /\ clock' = "on"
  /\ w' = [w EXCEPT ![i].pc = "implied"]
  /\ UNCHANGED <<kind, plan, main, ready, go, rows, fragment>>

\* The single region: the first thread there reads the clock, all wait at its
\* end.
Single(i) ==
  /\ w[i].pc = "single"
  /\ clock' = "on" /\ go' = TRUE
  /\ w' = [w EXCEPT ![i].pc = "implied"]
  /\ UNCHANGED <<kind, plan, main, ready, rows, fragment>>

ImpliedBarrier ==
  /\ kind = "openmp" /\ \A i \in Team : w[i].pc = "implied"
  /\ w' = [i \in Shards |-> IF i \in Team THEN Blank("arrive") ELSE w[i]]
  /\ UNCHANGED <<kind, plan, pool, fragment>>

Arrive(i) ==
  /\ w[i].pc = "arrive"
  /\ ready' = ready + 1
  /\ w' = [w EXCEPT ![i].pc = "spin"]
  /\ UNCHANGED <<kind, plan, main, go, clock, rows, fragment>>

Released(i) ==
  /\ w[i].pc = "spin" /\ go
  /\ w' = [w EXCEPT ![i].pc = "run"]
  /\ UNCHANGED <<kind, plan, pool, fragment>>

\* Mutant of StartClock: the main thread does not wait for the others.
StartClockEarly ==
  /\ main.pc = "ready"
  /\ clock' = "on"
  /\ main' = [main EXCEPT !.pc = "go"]
  /\ UNCHANGED <<kind, plan, w, ready, go, rows, fragment>>

StartClock ==
  /\ main.pc = "ready" /\ ready >= main.n
  /\ clock' = "on"
  /\ main' = [main EXCEPT !.pc = "go"]
  /\ UNCHANGED <<kind, plan, w, ready, go, rows, fragment>>

Go ==
  /\ main.pc = "go"
  /\ go' = TRUE
  /\ main' = [main EXCEPT !.pc = "join"]
  /\ UNCHANGED <<kind, plan, w, ready, clock, rows, fragment>>

\* run_e2() adds a pool's numbers to its row, strong and weak in turn.
Counted(row, round) ==
  IF Odd(round) THEN [row EXCEPT !.strong = @ + 1] ELSE [row EXCEPT !.weak = @ + 1]

\* join(), or the end of the parallel region; t1; the next pool begins.
Join ==
  /\ main.pc = "join" /\ \A i \in Team : w[i].pc = "ended"
  /\ clock' = "off"
  /\ rows' = [rows EXCEPT ![main.n] = Counted(@, main.round)]
  /\ main' = IF main.round < 2 * Reps THEN [main EXCEPT !.pc = "build", !.round = @ + 1, !.i = 1]
             ELSE [main EXCEPT !.pc = "row"]
  /\ UNCHANGED <<kind, plan, w, ready, go, fragment>>

\* The row is closed (ok if a strong pool was measured); after the widest one
\* the file is written.
EndRow(stored) ==
  /\ main.pc = "row"
  /\ IF main.n < MaxShards
       THEN /\ main' = [pc |-> "build", n |-> main.n + 1, round |-> 1, i |-> 1]
            /\ UNCHANGED fragment
       ELSE /\ main' = [main EXCEPT !.pc = "exit"]
            /\ fragment' = [tried |-> TRUE, written |-> stored, ok |-> {n \in Shards : rows[n].strong > 0}]
  /\ UNCHANGED <<kind, plan, w, ready, go, clock, rows>>

-----------------------------------------------------------------------------
(* The measured loop, the same in run_pool() and in rank_work().           *)

\* Mutant of RankReturns: a rank whose guard tripped skips the reductions.
RankReturnsOrGuard(r) ==
  IF r.guard > GuardLimit THEN [r EXCEPT !.pc = "errors"]
  ELSE IF Odd(r.round) THEN [r EXCEPT !.pc = "build", !.round = @ + 1]
  ELSE [r EXCEPT !.pc = "reduce"]

\* rank_work() returns to the weak round, or to the reductions.
RankReturns(r) ==
  IF Odd(r.round) THEN [r EXCEPT !.pc = "build", !.round = @ + 1] ELSE [r EXCEPT !.pc = "reduce"]

\* After its quota, or when the guard trips, a thread ends and a rank returns.
AfterWork(r) == IF kind = "mpi" THEN RankReturns(r) ELSE [r EXCEPT !.pc = "ended"]

\* preload() takes what the socket accepts, drain() serves at least one of it.
Cycle(i, staged, drained) ==
  /\ w[i].pc = "run"
  /\ staged <= Quota - w[i].done /\ drained <= staged /\ (staged > 0 => drained > 0)
  /\ LET r == IF staged = 0 THEN [w[i] EXCEPT !.guard = @ + 1]
              ELSE [w[i] EXCEPT !.guard = 0, !.done = @ + drained]
     IN  w' = [w EXCEPT ![i] = IF r.done = Quota \/ r.guard > GuardLimit THEN AfterWork(r) ELSE r]
  /\ UNCHANGED <<kind, plan, pool, fragment>>

-----------------------------------------------------------------------------
(* lr_mpi_scale: main() and rank_work() of one rank.                       *)

\* rank_work() up to the barrier.  A failure leaves it, and the loop, at once.
RankBuild(i) ==
  /\ kind = "mpi" /\ w[i].pc = "build"
  /\ w' = [w EXCEPT ![i] = IF Fails(i, @.round) THEN [@ EXCEPT !.pc = "errors", !.failed = TRUE]
                           ELSE [@ EXCEPT !.pc = "barrier", !.done = 0, !.guard = 0]]
  /\ UNCHANGED <<kind, plan, pool, fragment>>

\* What a rank does after a collective call has returned: the hosts are
\* gathered, the round begins at the barrier, the four reductions of a
\* replicate, the reduction of the errors, the coordination loop.
AfterCollective(r, anyFailed) ==
  CASE r.pc = "gather"  -> [r EXCEPT !.pc = "build"]
    [] r.pc = "barrier" -> [r EXCEPT !.pc = "run"]
    [] r.pc = "reduce"  -> IF r.round < 2 * Reps THEN [r EXCEPT !.pc = "build", !.round = @ + 1]
                           ELSE [r EXCEPT !.pc = "errors"]
    [] r.pc = "errors"  -> [r EXCEPT !.pc = "coordination", !.all_error = anyFailed]
    [] r.pc = "coordination" -> [r EXCEPT !.pc = "write"]

\* MPI: a collective call returns once every rank has made it.  Ranks in
\* different calls wait: a barrier takes no message of a reduction.
Collective(c) ==
  /\ kind = "mpi" /\ \A i \in Shards : w[i].pc = c
  /\ w' = [i \in Shards |-> AfterCollective(w[i], \E j \in Shards : w[j].failed)]
  /\ UNCHANGED <<kind, plan, pool, fragment>>

\* Rank 0 writes the fragment, or complains; every rank finalises.
RankEnd(i, stored) ==
  /\ kind = "mpi" /\ w[i].pc = "write"
  /\ fragment' = IF i # 1 THEN fragment
                 ELSE [tried |-> TRUE, written |-> stored, available |-> ~w[i].all_error]
  /\ w' = [w EXCEPT ![i].pc = "ended"]
  /\ UNCHANGED <<kind, plan, pool>>

-----------------------------------------------------------------------------
Collectives == {"gather", "barrier", "reduce", "errors", "coordination"}
Over == IF kind = "mpi" THEN \A i \in Shards : w[i].pc = "ended" ELSE main.pc \in {"exit", "refused"}

\* The ranks of a job some of whose ranks, not all, could not be built: those
\* wait for the reduction of the errors, the others at the barrier before.
LoneFailure == kind = "mpi" /\ plan.who \notin {{}, Shards}
Hung == LoneFailure /\ \A i \in Shards : w[i].pc = IF i \in plan.who THEN "errors" ELSE "barrier"

Worker(i) ==
  \/ Single(i) \/ Arrive(i) \/ Released(i) \/ RankBuild(i)
  \/ \E stored \in BOOLEAN : RankEnd(i, stored)
  \/ \E staged, drained \in 0..Quota : Cycle(i, staged, drained)
Main ==
  \/ \E permitted, stored \in BOOLEAN : Permission(permitted, stored)
  \/ BuildShard \/ Spawn \/ StartClock \/ Go \/ Join
  \/ \E stored \in BOOLEAN : EndRow(stored)
Joint == ImpliedBarrier \/ \E c \in Collectives : Collective(c)

ScalingNext == Main \/ Joint \/ (\E i \in Shards : Worker(i))
               \/ ((Over \/ Hung) /\ UNCHANGED scalingVars)

ScalingSpec == /\ ScalingInit /\ [][ScalingNext]_scalingVars
               /\ WF_scalingVars(Main) /\ WF_scalingVars(Joint)
               /\ \A i \in Shards : WF_scalingVars(Worker(i))

-----------------------------------------------------------------------------
ScalingTypeOK ==
  /\ kind \in Kinds
  /\ plan \in [round: Rounds, who: SUBSET Shards]
  /\ main \in [pc: {"none", "start", "refused", "build", "spawn", "ready", "go", "join", "row", "exit"},
               n: Shards, round: Rounds, i: Shards]
  /\ w \in [Shards -> [pc: Collectives \cup {"none", "single", "implied", "arrive", "spin", "run",
                                             "build", "write", "ended"},
                       round: Rounds, done: 0..Quota, guard: 0..GuardLimit + 1,
                       failed: BOOLEAN, all_error: BOOLEAN]]
  /\ ready \in 0..MaxShards /\ go \in BOOLEAN /\ clock \in {"on", "off"}
  /\ rows \in [Shards -> [strong: 0..Reps, weak: 0..Reps, error: BOOLEAN]]

\* "Every shard is at the barrier before the timed region opens": while a
\* shard works, the clock of its pool runs and every other shard of the round
\* has been built, warmed and has arrived, with OpenMP at the end of the single
\* region.  So no shard works outside the wall time it is divided by.
AtBarrier(j, r) == w[j].round > r \/ (w[j].round = r /\ w[j].pc \notin {"gather", "build", "barrier"})
Arrived == {"spin", "run", "ended"} \cup (IF kind = "openmp" THEN {"arrive"} ELSE {})
TimedTogether ==
  /\ ScalingTypeOK
  /\ \A i \in Shards : w[i].pc = "run" =>
       IF kind = "mpi" THEN \A j \in Shards : AtBarrier(j, w[i].round)
       ELSE clock = "on" /\ \A j \in Team : w[j].pc \in Arrived

\* A row counts exactly the pools that ran with all their shards, those before
\* the first that could not be built, and names an error only if one failed;
\* the MPI fragment says available exactly when no rank failed.
RowsCountWholePools ==
  /\ main.pc \in {"row", "exit"} =>
       LET failed == plan.who \cap Team # {}
           pools  == rows[main.n].strong + rows[main.n].weak
       IN  /\ pools = IF failed THEN plan.round - 1 ELSE 2 * Reps
           /\ rows[main.n].strong - rows[main.n].weak \in {0, 1}
           /\ rows[main.n].error => failed
  /\ kind = "mpi" /\ fragment.written => (fragment.available <=> plan.who = {})

\* MPI's own rule is that ranks that wait in a collective call wait in the same
\* one.  rank_work() breaks it in one way only: a rank whose shard could not be
\* built returns before the barrier, and waits for the reduction of the errors
\* while the others wait at the barrier of the same round.  A guard that trips,
\* or a rank that is a round's work ahead, never does.
CollectivesMatch ==
  \A i, j \in Shards : {w[i].pc, w[j].pc} \subseteq Collectives =>
    \/ w[i].pc = w[j].pc
    \/ /\ {w[i].pc, w[j].pc} = {"errors", "barrier"}
       /\ w[i].failed # w[j].failed /\ w[i].round = w[j].round

\* Every experiment comes to its end and to writing its file, even when shards
\* could not be built, except lr_mpi_scale when some ranks fail and others do
\* not: that job always ends up hung, and never gets to its file.
FragmentWritten ==
  /\ ~LoneFailure => <>(fragment.tried /\ Over)
  /\ LoneFailure => <>Hung /\ []~fragment.tried

\* "Every experiment writes a fragment even when it cannot run" (the second
\* rule of emit_json.cpp), without the exception.
EveryFragmentWritten == <>fragment.tried
=============================================================================
