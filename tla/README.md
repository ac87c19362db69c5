# linerate, specified

TLA+ models of linerate: an encrypting packet data plane with its ciphers,
transports and handshake, the measurements built on it, the control channel that
drives a load generator on another node, and the sweep that runs it all.
TLC checks the models on small instances; TLAPS proves their safety properties, those of the
ciphers apart, for every value of their constants.

## 1. The system

linerate measures what it costs to open and re-seal a packet. Its parts, the
state they keep and how they meet:

| part | state | operations | talks to |
|---|---|---|---|
| replay window (`proto.cpp`) | bitmap of words, newest number, two drop counters | `accept`, `reset` | called by the shard |
| key schedule (`proto.cpp`) | chain secret, current epoch, two slots of cipher, salt, tag | `derive`, `for_epoch`, `nonce`, `maybe_rekey` | called by the shard, twice per packet |
| handshake (`proto.cpp`) | ephemeral key, role | `write_init`, `read_init_write_resp`, `read_resp` | the self-test only |
| ciphers (`aead_*.cpp`, `simd_crypto.c`) | key; OpenSSL also a context per direction | `seal`, `open` | called by the shard |
| transports (`transport_*.cpp`) | socket; io_uring also its rings and slots | `recv_batch`, `send_batch` | kernel |
| shard (`worker.cpp`) | schedule, window, `seq_`, statistics, batch slots | `make_packet`, `preload`, `drain`, `reset_stats` | all of the above |
| generator (`worker.cpp`) | counters, a borrowed shard | `emit` | a shard's socket |
| staged measurement (`bench.cpp`) | counts, guard | `run_hotpath` | one shard |
| E5 (`exp_e5_latency.cpp`) | rows, a stop flag | `measure_loopback`, `measure_wire` | a shard and a generator thread, or a peer |
| scaling pools (E2), MPI ranks | ready count and go flag; collectives | `run_pool`, `rank_work` | a shard each |
| control client (`ctrl.cpp`) | one TCP socket | `connect`, `ping`, `start`, `stop` | the daemon |
| load generator daemon (`lr_loadgend.cpp`) | one `Unit` with two threads, `g_stop`, the echo thread | PING, START, STOP, QUIT, shutdown | the client, a shard |
| sweep on the nodes (`nodectl.sh`, `remote-sweep.sh`, `netem.sh`) | status file, log, unit, attached network condition | `start-sweep`, `sweep-poll`, `netem-clear`, `stop-sweep` | the driver |
| driver (`mac/linerate`, `mac/lib`) | session state, instances | `up`, `run`, `watch`, `fetch`, `down` | the nodes over ssh |
| statistics, JSON, merging, analysis | histograms, fragments | quantiles, writer, merges, fits | files |

What is hard to test here: the word-wise shift of the bitmap for one particular
gap; the wrap of the eight-bit epoch number; packets waiting in a queue while
the key moves on; losses, duplicates and reordering between two drains; two
threads on one shard in E5; a reply that is late by a moment; a driver or a
daemon that goes away between two lines; a shutdown that finds the main thread
in any of three waits; completions of io_uring in another order than their
slots; a sweep that has finished but not exited. PROJECT.json lists them, each at
its line, with the properties that watch over it.

What makes each part correct:

- *window*: at most one admission per number, and exactly the verdicts of the
  set of all admitted numbers;
- *schedule*: a key is used with its own salt, no key comes back, the epoch
  before the current one is kept and no other;
- *shard*: no key and nonce twice, nothing forwarded twice, nothing damaged
  forwarded, every drop for a reason, everything sent forwarded in the end;
- *measurements*: the counts are those of the measured interval, and they end;
- *control*: each call takes its own answer, a report is of its own unit,
  nothing is left running, everything ends;
- *ciphers*: every instruction-set path computes the same function, the
  standard's, also in place and for every remainder of a payload;
- *transports*: datagrams in order, once each, none lost, and every call returns;
- *handshake*: both ends have the same keys, nobody else has them, and a
  responder answers only what was sent;
- *pools and ranks*: shards work together and on the clock, a row counts whole
  pools, the program comes to writing its file;
- *sweep*: a curve has the label of its condition, a status is of its own sweep,
  the host is left clean.

## 2. The modules

| module | models | extends |
|---|---|---|
| `ReplayWindow` | `ReplayWindow`: operators over a window record | |
| `AntiReplay` | the abstract window: a set of admitted numbers | |
| `ReplaySystem` | a window and any traffic offered to it | `ReplayWindow` |
| `KeySchedule` | `KeySchedule`: operators over a schedule record | |
| `KeyScheduleSystem` | a schedule and a caller whose numbers never go back | `KeySchedule` |
| `DataPlaneFacts` | lemmas about windows and schedules as values | `ReplayWindow`, `KeySchedule` |
| `Shard` | `Shard::drain` in steps, sealing, the statistics | `ReplayWindow`, `KeySchedule` |
| `HotPath` | `run_hotpath` with `Shard::preload` | `Shard` |
| `HotPathProofs` | theorems about it | `HotPath`, `DataPlaneFacts` |
| `WirePath` | generator, datagram network, draining receiver | `Shard` |
| `WireProofs` | theorems about it | `WirePath`, `DataPlaneFacts` |
| `E5Loopback` | `measure_loopback`: two threads on one shard | `Shard` |
| `ControlChannel` | `ctrl::Client` with `run_e5`, and `lr_loadgend` | |
| `ControlProofs` | theorems about it | `ControlChannel` |
| `Ghash`, `Aes`, `ChaCha`, `Poly1305` | the primitives of `simd_crypto.c`, path by path, as operators | |
| `SimdPrimitives` | each of them compared with its definition | `Ghash`, `Aes`, `Poly1305` |
| `SimdAead` | sealing and opening with them, `aead_simd.cpp` | |
| `DatagramQueue` | the abstract transport: a queue | |
| `Transport` | the four transport back ends under the loop of `drain` | |
| `TransportProofs` | theorems about it | `Transport` |
| `Handshake` | `proto::Handshake`, any number of endpoints | |
| `ProtoProofs` | theorems about the three parts of `proto.cpp` | `ReplaySystem`, `KeyScheduleSystem`, `Handshake`, `DataPlaneFacts` |
| `Scaling` | `run_pool`/`run_e2` and `lr_mpi_scale` | |
| `ExperimentProofs` | theorems about the two experiments with threads of their own | `E5Loopback`, `Scaling`, `DataPlaneFacts` |
| `Sweep`, `MCSweep` | `nodectl.sh`, `remote-sweep.sh`, `netem.sh`, `merge_netem.py` and the driver's `run` and `watch`; the conditions of the instance | |
| `SweepProofs` | theorems about it | `Sweep` |

**ReplayWindow.** A window is a record of the class's members. The bitmap stays
an array of words; a word is the set of its 1 bits, so `<<` and `>>` are `Shl`
and `Shr`, which lose what leaves the word. 64 becomes the constant `WordBits`,
so that small instances have several words. `Verdict` is the answer of `accept`,
`Accept` the object after it. Sequence numbers are naturals: the code's are
64 bits wide and a sender starts at 0, so a wrap is 2^64 packets away, and
`high_ - seq` and `seq - high_` are only formed where they do not go below 0.

**KeySchedule.** Key material is named by what went into HKDF (`Hkdf`), the
chain is the sequence of what it was ratcheted with. A failed HKDF yields
`ZeroMaterial`, or leaves the chain, as in the code. 256 becomes `EpochMod`.
A cipher is present or `NoKey`: an unknown cipher name, for which `make_aead`
answers null, stops a shard in its constructor and is outside the model.

**Shard.** One `drain()` is `DrainCall`, then `RecvBatch`, one step per datagram
(`Skip`, `DropReplayed`, `DropUnauthentic`, `Forward`), `SendBatch`, and so on to
`DrainReturn`. A datagram records the key, nonce and header it was sealed with,
and opens under exactly these. `tsc`, which forwarding preserves, is the
packet's identity. Ticks, bytes, latency and syscalls are not kept. `send_batch`
hands everything over: the code ignores its result. `fates`, `egress`, `sealed`
and `reused` are history variables.

**HotPath.** `preload()` is one step per packet. The socket's buffer is bounded
(`RxCap`), and a datagram that does not fit is lost although `sendto()` reported
success. The staging window (`window_for`, 32 to 8192 packets) and the guard's
8 are constants.

**WirePath.** `lr_gen` or `lr_loadgend` against `lr_sink` or the wire topology of
E5. The network is external and may lose, duplicate, reorder and damage within
budgets. Damage is to the body, the header then having its own number or any of
`HeaderSeqs`: a number behind the window and one beyond it, which moves the window
before the packet fails to verify. An emit may be refused (`MaxRefused`); its
number is spent. A `drain()` on an empty queue changes nothing and is not a step.

**E5Loopback.** `seal()` has a beginning and an end, since that is where the two
threads meet. `shared`, chosen at the start, is TRUE for OpenSSL's ciphers, whose
`enc_` both threads use: overlapped calls may come out right, garbled or refused.
It is FALSE for the ciphers of this repository. The generator thread looks at the
flag, waits for its time, seals, sends and counts in steps of their own, so the flag
may be raised while it waits and a packet may be forwarded before it is counted.
The epoch period is 0 in E5: the
experiment leaves `epoch_packets` at its default (`worker.hpp:75`). So the schedule is
read and never written while both threads run, and the module assumes it.

**ControlChannel.** A line is a record; the number of driver and unit in it is
not on the wire and tells whose answer was taken. A connection has the state the
driver's socket sees: `open`, `half` (the daemon closed in order), `reset`
(closed with unread data, or never accepted), `dead` (the driver has been told)
and `closed`. Connections wait in the backlog and are accepted in the order in which
they were made, also those of drivers that are gone. Start-up, `Listen`, may fail.
A driver killed from outside and one killed by SIGPIPE end in different states.
Time-outs that only re-read a flag (250 ms, 200 ms) are folded into the step
that sees the flag. One packet stands for all the packets of a unit.

**Ghash, Aes, ChaCha, Poly1305, SimdPrimitives.** A 128-bit register is the set
of its one bits, an AES block a sequence of bytes, a ChaCha20 word a term over
the words of the initial state, a Poly1305 limb a number of `W` bits in place of
26. Its `uint32_t` wraps around at `W + 6` bits and its `unsigned long long` at
`2W + 12`, the headroom of the code, in which the carry times five fits with less than
one bit to spare (with `W + 5` bits TLC refutes `PolyExact`); `r` is clamped. The instructions (`_mm_aesenc_si128`, `vmull_p64`, ...) are external and given
by what they compute. A behaviour of `SimdPrimitives` is one computation, a round,
a word or a block at a time. GHASH is compared on pairs of single bits, which is
enough as every operation in it is linear in each operand.

**SimdAead.** How a payload is cut into groups, blocks and tail, which counter
each block gets, and in which order encryption and authentication touch the
buffer. A byte is the set of the symbols it is the exclusive or of, so that a
byte read before or after it was overwritten is told apart; GHASH, being linear,
is the set of its contributions. The block length 16 becomes `Blk`. An input shorter
than a tag is turned away first.

**Transport.** A request of io_uring is executed by the kernel (`KernelStep`),
inside `io_uring_submit` or, with the poller, at any time after it; the caller
waits for completions, reaps them and discards the rest, as the code does.
Datagrams arrive at any moment. `DatagramQueue` is the promise, with what is
socket queue and what is in the caller's slots mapped to its queue.

**Handshake.** Keys are symbolic, the shared secret of two keys is their set, a
binder and a traffic key are the records of what they are derived from. Messages
stay on the network for ever, so late, repeated and misdirected delivery are all
there, and both messages have one length, so either may reach either reader.

**Scaling.** The three barriers: atomics with `std::thread`, OpenMP's implied
barriers with its single region, MPI's collectives. `plan` says which shards
or ranks cannot be built and in which round, any set of them. A rank that fails while
others do not leaves the job in `Hung`: it waits for the reduction of the errors, the
others at the barrier. `write_file` may fail.

**Sweep.** The sweep is one process tree with a position; systemd's unit and
`setsid` differ in being root (the conditions need it) and in when `sweep_running`
sees them. A status file and a curve carry what the files do not say: the number
of the sweep with the attempt, `systemd` or `setsid`, that wrote it, and the
conditions it was measured under. `disturbed` marks sweeps
during which a driver that had given up cleared the host, or which ran without
conditions of their own on a host that was left with one.

## 3. The runs

All runs pass.

| run | what it shows |
|---|---|
| `replay` | three 3-bit words, asked for a width of 7 (rounded to 9), numbers 0..12: gaps below, at and beyond a word and the width all happen, with resets |
| `keyschedule` | periods 0..3, three epochs, numbers to 7, either HKDF call of a derivation failing: the epoch number wraps and is jumped over |
| `hotpath` | windows of 2 over an epoch of 1 and a buffer of 1, one warm-up, sends and seals that fail |
| `wire` | three packets, one of them refused or not, one loss, one duplicate, one damage of a body or also of the number in its header (1 or 6), one stray datagram, any order, a window of 2, so that packets fall behind the window |
| `e5` | both threads, five packets, a buffer of 2, a cipher without state and one with a shared context |
| `control` | two drivers, two units, the second one faulty, a daemon that may not start, binds that fail, a signal, one late reply |
| `primitives` | all pairs of bits, all entries of the S-box, nine AES keys and blocks, up to four Poly1305 blocks in 6-bit limbs, among them the values next to the modulus |
| `aead` | blocks of 2, ten lengths around one block, a group of four blocks and the vector widths, three lengths of associated data, every kind of machine with its accelerators masked at either end or not, in place and not, damaged in payload or header, or cut short |
| `transport` | all four back ends, batches of 2 over a ring of 4, three datagrams |
| `handshake` | two pre-shared keys with two endpoints each, five ephemeral keys |
| `scaling` | up to three shards, two replicates, the guard at 1, any set of shards or ranks failing in any one round, a disk that may refuse the file |
| `sweep` | three conditions, three sweeps, four faults (refused conditions, kills, lost sessions, failures, drivers that give up), three sightings and two lost polls to give up |

The bounds are enough for the mechanisms and no more: two words make a carry,
three make a carry that passes a word; three epochs wrap and leave one that is
neither current nor previous; a batch of two has a first and a last; one
duplicate and one damage suffice for a good and a bad copy of one number; two
drivers for a leftover; a batch of 2 of 3 datagrams is once full and once short;
two endpoints per key make a wrong partner; three sweeps a leftover of a leftover.

Several properties hold under a condition, and each names it. `KeysNeverRecur`
speaks of the time before the first failed HKDF call: zero material comes back.
`MeasuredOnce` bounds the counts always and gives them exactly only as long as no seal
has failed: a packet that was opened and could not be sealed is in no counter.
`AnswersMatch`
holds until a reply is late. `SweepEnds` lets a driver die by SIGPIPE, but only
under a daemon that was told to stop and after a row that says the connection was
lost. `CollectivesMatch` and `FragmentWritten` name the one case in which ranks wait
for ever, that some ranks failed and others did not, and say that it always ends
so. `RowsCountWholePools` is about shards that cannot be built: one whose guard trips
while it works did less than its quota and counts as whole. `AllForwarded` excuses losses, damage and packets the
window has passed; the window is moved before a packet is authenticated, so a
damaged packet counts there, also with a number it was never sent with, and
`DropsJustified` lets it (`WireForged.cfg` below does not). The part of
`DropsJustified` about authentication speaks of two sides that have derived one
key and never rekey (`SameKey`; `WireKeys.cfg` and `WireRekey.cfg` below are the
other cases), and `ForwardedOnce` lets a sequence number be skipped when a packet
could not be sealed: `drain` has taken the number by then.

`StagedVerify` carries its condition: a window at
most one packet longer than an epoch. The code's windows are up to 8192 packets
and nothing ties the period to them, but every measurement in the repository
that rekeys does so with period 0 or through `lr_sink`, which does not stage.
`RingCountsRight` speaks of order only while nothing arrives inside a receive
call, and of io_uring without the poller. `LabelsTrue` speaks of undisturbed
sweeps, `HostLeftClean` of runs that learn how their sweep ended: `watch` never
cleans up, and a driver that loses contact leaves everything as it is.

The type invariants are conjuncts of the first invariant of their module
(`TimedTogether`, `WaitsAreCovered`, `KeysUnshared`, `LabelsTrue`, ...); those of
the window and of the schedule are conjuncts of the invariants their theorems
prove.

### Where the code and its text disagree

Configurations beside those of the runs, each of which TLC refutes:

| configuration | property | the code | the text |
|---|---|---|---|
| `WireKeys.cfg` | `AllForwarded` | `measure_wire()` builds its shard with `bench_key()` (`exp_e5_latency.cpp:146`), the generator it starts seals with `proto::bench_psk()` (`lr_loadgend.cpp:157`), another secret: nothing verifies | `exp_e5_latency.cpp:17-19` "The data plane forwards each packet back, and the generator reads the origin tick out of the header" |
| `WireRekey.cfg` | `OnlyDamageFailsAuth` | a receiver's schedule advances only with what it seals itself (`worker.cpp:191-192`): the first packet of the sender's next epoch finds no cipher | `proto.hpp:30-33` "the epoch number in the header selects the key. One previous epoch is retained so that packets reordered across a rekey boundary still verify." |
| `E5Nonces.cfg` | `NoncesFresh` | the generator thread and `drain()` both number from 0 under one key (`exp_e5_latency.cpp:98`) | `worker.cpp:189-190` "Re-encrypt under a fresh nonce"; `lr_selftest.cpp:271-272` "two packets in one epoch must never share one" |
| `E5Shared.cfg` | `EmittedVerify` | `emit()` and `drain()` seal at once in the one `enc_` of OpenSSL's cipher (`aead_openssl.cpp:38`): a packet may be garbled and fails to verify | `worker.hpp:146-148` "It reuses a shard's sealing so the packets it emits are indistinguishable from those a remote generator sends" |
| `WireForged.cfg` | `OnlyVerifiedMoveWindow` | `accept()` moves the window before the packet is opened (`worker.cpp:180`), on purpose: a damaged number drops good packets behind it | `proto.hpp:26` "a sliding bitmap over 64-bit sequence numbers, RFC 4303 §3.4.3", where the window is updated after the integrity check |
| `E5Loss.cfg` | `LossIsLoss` | `loss_ratio` divides by `gen.sent()`, which counts the settling time too (`exp_e5_latency.cpp:121`) | `schema.md:150-151` documents `loss_ratio`, and `admission.py:50` takes it as the loss |
| `ControlLate.cfg` | `LateCostsOneUnit` | after a time-out the connection stays open and the late line answers the next request (`ctrl.cpp:75`) | `ctrl.cpp:56` "A generator that has wedged must not wedge the sweep with it." |
| `ControlPipe.cfg` | `DriverSurvives` | `send()` without MSG_NOSIGNAL in a process that does not ignore SIGPIPE (`ctrl.cpp:67`) | `ctrl.hpp:60-61` "Every call returns false and fills `err` on a protocol or transport failure" |
| `SweepRetry.cfg` | `FinishedIsOver` | a sweep that systemd started and that failed between two looks of `spawn` is started again by `setsid` (`nodectl.sh:240`) with the first one's status in place, which the first poll reads as the end | `mac/linerate:590` "the sweep finished"; `nodectl.sh:431` "One sweep, one dataset" |
| `ScalingRanks.cfg` | `EveryFragmentWritten` | a rank that cannot build its shard returns before the barrier (`lr_mpi_scale.cpp:67`), and the others wait for ever | `emit_json.cpp:8` "Every experiment writes a fragment even when it cannot run" |

Two more of the sweep are in its model and not in a configuration. A `run` that
gets no answer to `start-sweep`, or waits past its limit, clears the conditions
under a sweep that goes on (`linerate:584`, `linerate:599`), so the curve being
measured has the label of a condition that was taken off, where `netem.sh:4-6`
says it "cannot later be confused with a clean one". And a `start-sweep` that
meets a wrapper which has written its status but not exited is answered
`already-running`; `run` then reports the earlier sweep's status as its own, which
`VerdictIsOwn` allows, since the driver says which sweep it watches.

### Fairness

- `HotPath`: one thread, weak fairness of its next step.
- `WirePath` (`FairSpec`): the generator and the receiver run, and the network
  delivers one of the datagrams it carries. Nothing makes it lose or duplicate.
- `E5Loopback`: both threads run. The two loops end by the clock, which is read
  between two drains, so the ends of settling and of measuring are strongly fair:
  a drain call is bounded by its budget and so the clock is read infinitely often.
- `ControlChannel`: every thread runs. Signals, late replies and the death of a
  driver may happen and need not.
- `Transport`: the kernel executes what was submitted, and the caller goes on.
- `Scaling`: the main thread, every worker, and a collective all ranks have
  entered. A spinning worker is scheduled, as are OpenMP's and MPI's.
- `Handshake` and `Sweep` have none: their properties are about safety.

## 4. The proofs

`ProtoProofs` has three parts. Of the window, for every `WordBits`, `WidthBits`,
`MaxSeq` and `MaxDrops`: `AtMostOnce` is not inductive: a second admission is
prevented by a bit, and the bit must be known to be right. `ReplayIInv` adds `BitmapExact`, every bit says whether
its number was admitted, and `HighIsNewest`, without which a number outside the
map could be ahead of it. The heart is the lemma on `ShiftMap`: bit *p* of the
shifted map is bit *p - shift* of the old one, also across words. From it
follow `NeverTwice`, `BitmapIsExact` and `Refinement`: `ReplaySpec => Promise!Spec`.

Of the schedule, for every period, number of epochs and bound: `ScheduleIInv` is the
types and `SlotsAligned`: slot 0 carries the schedule's epoch, a filled slot the
salt of its key, and the tags of two filled slots differ, which is what makes
the opposite orders of `for_epoch` and `nonce` harmless. `SaltAlwaysMatches` and
`PreviousIsKept` follow, also when HKDF fails. `KeysAlwaysFresh` is about the time
before the first failure, which the history variable `healthy` marks, and uses
`ChainAhead`: the length of the chain a key came from tells it from all later
ones, whatever the epoch number.

Of the handshake, for any pre-shared keys and any number of endpoints and of
ephemeral keys: none of `Agreement`, `ResponderHeard` and `KeysUnshared` is
inductive. `HandshakeIInv` adds `Paired` (an endpoint holds one key, generated for it),
`Sourced` (a two-key binder on the wire was made by a responder that completed
with just these two keys), `Derived` (what a result is made of, and that the
initiator's key is the older) and `Owned` (a key belongs to one endpoint). An
initiator that completes has seen a two-key binder, so by `Sourced` its partner
exists; two results with one sending key have one transcript, and the age of the
keys then tells the roles, `Owned` the endpoints.

`DataPlaneFacts` holds what these proofs share with those of the data plane. Its lemmas are
about a window or a schedule as a value, not about a state: `ShiftAdds` and what
follows from it, that `Accept` keeps a window `Exact` for the set of what it
admitted and that `Verdict` is then the verdict of the set; and what the
constructor, `derive` and `maybe_rekey` leave of a schedule that was `Aligned`.

`WireProofs`, for every window, both rekey periods, every batch and queue, and
every budget of losses, duplicates, damages and strays. `ForwardedOnce` is about
what leaves, and only the window keeps a number from passing twice, so `IInv` ties
the two: `WindowTrue` (the window is exact for the numbers among `fates` that
passed it), `Traced` (what was forwarded has a fate that passed) and, in the types
of every queue, that an undamaged packet of the generator carries its number as its
identity. `Justified` and `Numbered` need the history to be in the order of the
drains. For `DropsJustified` the types also say that, while nobody rekeys, a body is
either damaged or sealed under the generator's one key (`OneKey`). `NoncesFresh`
needs only that everything sealed has a number below `seq_`, and so holds
whatever HKDF, rekeying and the network do.

`HotPathProofs`, for every staging window, period, batch, buffer and target, and
whatever sends, seals and HKDF calls fail. `StagedVerify` is the hard one: a packet
waits while staging and then draining both move the schedule on. `Queued` says the
*i*-th waiting packet is at most (room - *i*) numbers behind the last one sealed,
where room is the staging window less what may still be staged, that the waiting
numbers rise and are all beyond the window; draining takes the oldest packet as it
gives out a number, so the bound is kept. `KeysAt` says a schedule in its *t*-th
turn has the keys of turns *t* and *t - 1*. A staging window of at most one more
than the period spans two turns, and the packet's key is one of the two. The
hypothesis is `StagedVerify`'s own and is needed, as section 3 says. `MeasuredOnce`
needs `Counting`, which follows the counters through the middle of a drain, where
a packet is out of the queue and in no counter yet.

`TransportProofs`, for every batch, ring and number of datagrams. What a call waits
for may have been submitted by an earlier call, so `WaitsAreCovered` needs what is
outstanding between calls: `Covered` bounds it from below by what the call still
waits for, `Bounded` from above by that and one submission queue, which is what
keeps the completion queue within its two queue lengths, and `Counting` says how
far the call is. `QueueImplemented` shows that each step of posix and mmsg is a
step of `DatagramQueue` or a stutter, with `Ringless`, that they have nothing on a ring
and every datagram is in the socket, in the caller's slots or delivered.
`RingCounts` is about io_uring without the poller. `RingInv` says that the ring holds
the requests and completions of the call in progress and of no other (`OwnRing`), so
that `drain_pending()` finds nothing; that every datagram is in the socket, in a
completion, counted or delivered (`Somewhere`); that the socket has the latest ones
(`Latest`); and, while nothing has arrived inside a receive call, that the slots hold
the next ones in order (`InOrder`). The step that needs care is the kernel's: a request
that gets a datagram finds the socket not empty, so none before it in this call has
failed, and its slot is the one after those filled.

`ControlProofs`, for any number of drivers, units and faults, with replies that are late,
lost and cut off, drivers that die and a daemon that is told to stop. A driver may read
behind the daemon, so what is on the wire has to be known: `Reads` says that at most
one OK is on its way to a driver, that what follows an OK is BUSY only, and which line is
the answer to the request just made; `Owes` that the daemon has not yet read a STOP while
an OK is under way, since a driver sends STOP only when it has read OK. So an OK that is
read late is still of the unit the daemon is busy with, and a report that is the next line
to be read is of the row's own unit. `AnswersOwn` and `ReportsOwn` follow, the
second also after late replies: a report carries the fault of its own unit, as
`stop_unit` joins the sender before it is written.

`ExperimentProofs` has two parts. Of E5 on one host, for every batch, buffer, window
and number of packets, with a shared cipher context and without: the shard never rekeys, so
there is one key. `PacketsWereSent` compares what one thread has processed with what the
other has counted, so it needs everything between them: the packets processed, held and
queued together against `sent_`, with the one that is sent and not yet counted (`Conserved`). `Accounted` ties the counters to the packets processed since the reset through
the middle of a drain, where a packet has been taken and is in no counter yet.
`PacketsAlwaysSent` and `RowsCountMeasured` follow.
Of the pools and ranks, for any number of shards, replicates and quota, whichever
shards fail: `CountedIn` says that `ready` is the number of threads that have arrived, so
that the main thread starts the clock when all have, `Together` where the threads may
be at each step of the main thread, and `Tallied` what the row holds so far. For MPI,
`RanksInv` says that all ranks are always in the same stretch between two collective
calls. A rank that failed waits in the last reduction while the others are at the
barrier of its round, and that is the only mismatch `CallsAlwaysMatch` leaves, without
a hypothesis on which ranks fail.

`SweepProofs`, for any sequence of conditions that begins with `clear`, and any
number of sweeps and faults. `VerdictIsOwn` needs `StatusOwn` (the status in the
file is of the last sweep, as `start-sweep` removes the file first) and `Watching`
(what the driver may conclude from what it has seen: having seen the sweep dead
once, the file it then reads is final). It needs two sightings before a sweep
counts as vanished, `VanishLimit > 1`: with one, a sweep that files its status and
ends between the two looks of a poll would be called vanished. The code has 3.
`LabelsTrue` needs `Conditioned`, the condition and label at each step of the loop,
and `Progress`; `HostLeftClean` needs `Answered`.

The constants' assumptions are named in the modules that declare them and
evaluated by TLC in every run that extends them. Each inductive invariant was
checked by TLC on the bounds of its run before it was proved.

Only model-checked:

- all liveness, which is beyond the prover, and with it `AllForwarded`,
  `Terminates`, `CallsReturn` and the others under section 3's fairness;
- the ciphers: their operators are `RECURSIVE`, and what they compute for every
  input is an induction over data, also beyond the prover;
- the behaviour of the configurations listed in section 3 as disagreements.

Every other invariant and action property of the runs is a theorem.

## 5. Not modelled

Floating-point statistics and fits, figures, provisioning of instances and the
GPU kernel: pure computation or pure I/O. The JSON writer: formatting, in program
order, by one thread. OpenSSL's ciphers, which are an ideal AEAD here. The
failure of `io_uring_submit` itself. The daemon's QUIT and unknown commands, which
the client never sends, a hard error of its `accept` and the echo traffic.
`run_hotpath_wire`, which nothing calls. Of the sweep: the log and its cursor,
the daemons of node A, tiers and baselines, `stop-sweep`, which nothing calls, and
the kill of some of a sweep's processes but not of others. The experiments E1, E3,
E4, E6, E7 and the controls: sequential runners over `run_hotpath`.

## 6. Plan

1. `E5Wire`: `WirePath` composed with `ControlChannel`, for the counts of a row.
2. `Handshake` composed with `KeySchedule`, once the data plane uses both.
3. Operators: the buckets and quantiles of the latency histogram against their
   definition, the merge of fragments.
