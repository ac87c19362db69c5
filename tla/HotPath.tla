------------------------------- MODULE HotPath -------------------------------
(***************************************************************************)
(* The staged measurement every loopback experiment runs: run_hotpath().   *)
(* The thread that drains the shard also stages its traffic: it seals a    *)
(* window of packets into the shard's own socket (Shard::preload), drains  *)
(* them, and repeats until the target is met.                              *)
(***************************************************************************)
EXTENDS Shard

CONSTANTS
  Warmup,       \* warm-up cycles, discarded
  Target,       \* packets to measure
  StageWindow,  \* packets staged per cycle at most (window_for())
  GuardLimit,   \* cycles in a row that may stage nothing (8 in the code)
  SendFails     \* whether the loader's sendto() may fail

ASSUME HotPathAssumption ==
  /\ Warmup \in Nat /\ Target \in Nat \ {0} /\ GuardLimit \in Nat
  /\ StageWindow \in Nat \ {0}
  /\ SendFails \in BOOLEAN

VARIABLES
  phase,    \* where the function is
  cycles,   \* warm-up cycles left
  left,     \* packets the preload() in progress has still to make
  staged,   \* packets it has staged
  done,     \* packets drained since the statistics were reset
  guard     \* cycles in a row that staged nothing

hotVars == <<phase, cycles, left, staged, done, guard>>
vars == <<shardVars, hotVars>>

\* Packets to stage when d have been drained.
Wanted(d) == IF Target - d < StageWindow THEN Target - d ELSE StageWindow

Init ==
  /\ ShardInit
  /\ phase = "stage"
  /\ cycles = Warmup
  /\ left = IF Warmup > 0 THEN StageWindow ELSE Wanted(0)
  /\ staged = 0
  /\ done = 0
  /\ guard = 0

\* One turn of preload()'s loop.  A datagram that does not fit the receive
\* buffer is lost after sendto() has reported success; a packet that cannot
\* be sealed ends the loop.
PreloadPacket ==
  /\ phase = "stage"
  /\ left > 0
  /\ seq' = seq + 1
  /\ \E hk \in HkdfCalls, sealOk \in SealOutcomes :
       LET ks == MaybeRekey(keys, seq, hk)
           d  == SealedFor(ks, seq, seq)
       IN  /\ keys' = ks
           /\ \/ /\ ~sealOk
                 /\ left' = 0
                 /\ UNCHANGED <<rxq, staged, sealed, reused>>
              \/ /\ sealOk
                 /\ left' = left - 1
                 /\ NoteSealed(d)
                 /\ \/ /\ rxq' = IF Len(rxq) < RxCap THEN Append(rxq, d) ELSE rxq
                       /\ staged' = staged + 1
                    \/ /\ SendFails
                       /\ UNCHANGED <<rxq, staged>>
  /\ UNCHANGED <<win, st, call, batch, out, egress, fates, phase, cycles, done, guard>>

\* preload() returned with packets staged: drain them.
Drain ==
  /\ phase = "stage"
  /\ left = 0
  /\ staged > 0
  /\ DrainCall(staged)
  /\ phase' = "drain"
  /\ guard' = IF cycles = 0 THEN 0 ELSE guard
  /\ UNCHANGED <<cycles, left, staged, done>>

\* preload() staged nothing: fatal while warming up, retried a few times later.
StagedNothing ==
  /\ phase = "stage"
  /\ left = 0
  /\ staged = 0
  /\ \/ /\ cycles > 0
        /\ phase' = "failed"
        /\ UNCHANGED <<left, guard>>
     \/ /\ cycles = 0
        /\ guard' = guard + 1
        /\ IF guard + 1 > GuardLimit
           THEN phase' = "finished" /\ UNCHANGED left
           ELSE left' = Wanted(done) /\ UNCHANGED phase
  /\ UNCHANGED <<shardVars, cycles, staged, done>>

Working ==
  /\ phase = "drain"
  /\ DrainStep
  /\ UNCHANGED hotVars

\* Mutant: the statistics of the warm-up are not discarded.
WarmedUp_NoReset ==
  /\ phase = "drain"
  /\ cycles > 0
  /\ DrainReturn
  /\ cycles' = cycles - 1
  /\ phase' = "stage"
  /\ left' = IF cycles = 1 THEN Wanted(0) ELSE StageWindow
  /\ staged' = 0
  /\ UNCHANGED <<st, done, guard>>

\* drain() returned in a warm-up cycle; the last one resets the statistics.
WarmedUp ==
  /\ phase = "drain"
  /\ cycles > 0
  /\ DrainReturn
  /\ cycles' = cycles - 1
  /\ phase' = "stage"
  /\ left' = IF cycles = 1 THEN Wanted(0) ELSE StageWindow
  /\ staged' = 0
  /\ st' = IF cycles = 1 THEN ZeroStats ELSE st
  /\ UNCHANGED <<done, guard>>

\* Mutant: the loop ends one packet short of its target.
Measured_OneShort ==
  /\ phase = "drain"
  /\ cycles = 0
  /\ DrainReturn
  /\ done' = done + call.processed
  /\ staged' = 0
  /\ IF done' < Target - 1
     THEN phase' = "stage" /\ left' = Wanted(done')
     ELSE phase' = "finished" /\ UNCHANGED left
  /\ UNCHANGED <<st, cycles, guard>>

\* drain() returned in a measured cycle.
Measured ==
  /\ phase = "drain"
  /\ cycles = 0
  /\ DrainReturn
  /\ done' = done + call.processed
  /\ staged' = 0
  /\ IF done' < Target
     THEN phase' = "stage" /\ left' = Wanted(done')
     ELSE phase' = "finished" /\ UNCHANGED left
  /\ UNCHANGED <<st, cycles, guard>>

Returned == phase \in {"finished", "failed"} /\ UNCHANGED vars

Next ==
  \/ PreloadPacket \/ Drain \/ StagedNothing
  \/ Working \/ WarmedUp \/ Measured
  \/ Returned

Spec == Init /\ [][Next]_vars /\ WF_vars(Next)

-----------------------------------------------------------------------------
\* Every variable holds a value of its type.
TypeOK ==
  /\ ShardTypeOK
  /\ phase \in {"stage", "drain", "finished", "failed"}
  /\ cycles \in 0 .. Warmup
  /\ left \in 0 .. StageWindow
  /\ staged \in 0 .. StageWindow
  /\ done \in 0 .. Target
  /\ guard \in 0 .. GuardLimit + 1

(***************************************************************************)
(* Every packet that was staged and received verifies, also when it waits  *)
(* in the queue while the shard's own sealing rekeys: no authentication    *)
(* failure and no replay drop, as long as a window is at most one packet   *)
(* longer than an epoch.                                                   *)
(***************************************************************************)
StagedVerify ==
  (Period = 0 \/ StageWindow <= Period + 1) => st.auth_fail = 0 /\ st.replay_drop = 0

(***************************************************************************)
(* The count the cost is divided by is the count of this measurement: a    *)
(* packet drained in a warm-up cycle is not in the statistics, and every   *)
(* packet drained after it is in exactly one counter, but for those that   *)
(* could not be sealed again, which are in none.                           *)
(***************************************************************************)
MeasuredOnce ==
  LET counted == st.packets + st.auth_fail + st.replay_drop
  IN  /\ TypeOK
      /\ phase \in {"stage", "finished"} /\ cycles = 0 =>
           /\ counted <= done
           /\ counted < done => \E i \in DOMAIN fates : fates[i].what = "unsealed"

(***************************************************************************)
(* The measurement ends: it meets its target or gives up.                  *)
(***************************************************************************)
Terminates ==
  <>(phase = "failed" \/ (phase = "finished" /\ (done = Target \/ guard > GuardLimit)))
=============================================================================
