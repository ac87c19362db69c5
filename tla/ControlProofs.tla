---------------------------- MODULE ControlProofs ----------------------------
(***************************************************************************)
(* Proofs about the control channel, for any number of units, drivers and  *)
(* late replies, and whatever dies when.                                   *)
(*                                                                         *)
(* A late reply puts the driver behind the daemon: it takes the answer to  *)
(* an earlier request for that to the last one.  The report of a unit is   *)
(* still never taken for another's.  At most one OK is on its way, since   *)
(* the unit it is about is active and stays so until a STOP, and the       *)
(* driver sends STOP only when it has read the OK.  If that OK was to an   *)
(* earlier START, the START after it was refused as busy, and it is this   *)
(* refusal that the driver reads where it expects the report.              *)
(***************************************************************************)
EXTENDS ControlChannel, TLAPS

\* Of the lines in s, one is an op; all are ops.
Has(s, op)   == \E i \in 1 .. Len(s) : s[i].op = op
Only(s, ops) == \A i \in 1 .. Len(s) : s[i].op \in ops

\* A report of a unit says what became of it.
Reports(r) ==
  /\ r.fault = (r.no[2] \in FaultUnits)
  /\ r.fault => r.sent = 0

(***************************************************************************)
(* A conversation: where the driver is (at), whose turn it is, the unit of *)
(* the driver's current row (cur), the lines on their way up and down, and *)
(* the unit the daemon is busy with, a set of at most one number.          *)
(***************************************************************************)

\* The driver has read an OK and not yet sent STOP.
Holds(at, turn) == at = "drain" \/ (at = "stop" /\ turn = "driver")
Awaits(at, turn, what) == at = what /\ turn = "daemon"

\* The last line on its way, up or down, is the current START or its answer.
OwnLast(cur, up, down) ==
  IF Len(up) > 0
  THEN up[Len(up)].op = "START" /\ up[Len(up)].no = cur
  ELSE /\ Len(down) > 0
       /\ down[Len(down)].op \in {"OK", "BUSY", "NOPORT"}
       /\ down[Len(down)].no = cur

\* A report can only be the very last line, and, if it is the next one, it is
\* that of the current unit.
OwnReport(cur, up, down) ==
  \A i \in 1 .. Len(down) :
    \/ down[i].op = "BUSY"
    \/ /\ down[i].op = "DONE" /\ i = Len(down) /\ Len(up) = 0
       /\ i = 1 => down[i].no = cur /\ Reports(down[i])

\* What the driver has still to read.
Reads(at, turn, cur, up, down) ==
  /\ at = "ping" =>
       /\ Only(up, {"PING"}) /\ Only(down, {"PONG"})
       /\ turn = "driver" => Len(up) + Len(down) = 0
       /\ turn = "daemon" => Len(up) + Len(down) = 1
  /\ at # "ping" => Only(up, {"START", "STOP"}) /\ Only(down, {"OK", "BUSY", "NOPORT", "DONE"})
  /\ \A i, j \in 1 .. Len(down) : i < j /\ down[i].op = "OK" => down[j].op = "BUSY"
  /\ Has(down, "OK") => at = "start"
  /\ Awaits(at, turn, "start") => OwnLast(cur, up, down)
  /\ Holds(at, turn) => Only(down, {"BUSY"})
  /\ Awaits(at, turn, "stop") => OwnReport(cur, up, down)

\* What the daemon has still to serve.
Owes(at, turn, cur, up, down, busy) ==
  /\ \A i \in 1 .. Len(down) : down[i].op = "OK" => busy = {down[i].no} /\ ~Has(up, "STOP")
  /\ Has(up, "STOP") => busy # {}
  /\ \A i, j \in 1 .. Len(up) : up[i].op = "STOP" /\ up[j].op = "STOP" => i = j
  /\ Holds(at, turn) =>
       /\ busy # {} /\ Only(up, {"START"})
       /\ Len(down) = 0 /\ Len(up) = 0 => busy = {cur}
  /\ Awaits(at, turn, "stop") /\ Len(up) > 0 =>
       /\ up[Len(up)].op = "STOP"
       /\ Len(down) = 0 /\ Len(up) = 1 => busy = {cur}
  /\ busy # {} => Has(down, "OK") \/ Holds(at, turn) \/ Has(up, "STOP")

\* The driver is not behind the daemon.
Level(turn, up, down) ==
  /\ turn = "driver" => Len(up) + Len(down) = 0
  /\ turn = "daemon" => Len(up) + Len(down) = 1
  /\ ~Has(down, "BUSY")

-----------------------------------------------------------------------------
(***************************************************************************)
(* The invariant.                                                          *)
(***************************************************************************)
Turn    == IF waiting THEN "daemon" ELSE "driver"
Current == <<started, driver.no>>
Busy    == IF unit.active THEN {unit.no} ELSE {}

\* The driver may still read replies of its connection ...
Talking == Mine.state \in {"open", "half"} /\ driver.at \in {"ping", "start", "drain", "stop"}
\* ... and the daemon still writes them.
Live == served = started /\ daemon \in {"serve", "stop"}

\* The connections of all drivers, and where the daemon is in them.
Wired ==
  /\ \A d \in 1 .. MaxDrivers : d > started => link[d] = NoLink
  /\ driver.at = "connect" => Mine = NoLink /\ served < started
  /\ Mine.state = "half" => Mine.up = <<>>
  /\ driver.at \in {"start", "drain", "stop"} => driver.no \in 1 .. Units
  /\ waiting => driver.at \in {"ping", "start", "stop"}
  /\ served < started => Mine.down = <<>> /\ driver.at \in {"connect", "ping", "done", "killed", "sigpipe"}
  /\ daemon \in {"serve", "stop", "cleanup"} => served > 0
  /\ daemon = "stop" => unit.active /\ link[served].up # <<>> /\ Head(link[served].up).op = "STOP"

\* The unit, and what its threads have left in it.
UnitTrue ==
  /\ unit.active => daemon \in {"serve", "stop", "cleanup"}
  /\ ~unit.active => unit.sender \in {"none", "ended"}
  /\ unit.sender = "starting" => ~unit.fault /\ unit.sent = 0
  /\ unit.sender = "running" => ~unit.fault /\ unit.no[2] \notin FaultUnits
  /\ unit.sender = "ended" => Reports(unit)

Reading   == Talking => Reads(driver.at, Turn, Current, Mine.up, Mine.down)
Serves    == Talking /\ Live => Owes(driver.at, Turn, Current, Mine.up, Mine.down, Busy)
NotBehind == timeouts = 0 /\ Talking => Level(Turn, Mine.up, Mine.down)

RowsMatch ==
  timeouts = 0 => \A u \in 1 .. Units :
    /\ rows[u].status \in {"started", "answered"} => rows[u].reply.no = <<started, u>>
    /\ rows[u].status = "refused" => rows[u].reply.op = "NOPORT"

IInv ==
  /\ TypeOK /\ Wired /\ UnitTrue
  /\ Reading /\ Serves /\ NotBehind
  /\ RowsMatch /\ FaultsReported

-----------------------------------------------------------------------------
(***************************************************************************)
(* Queues of lines.                                                        *)
(***************************************************************************)

\* A line is put at the end.
LEMMA Appended ==
  ASSUME NEW S, NEW s \in Seq(S), NEW x \in S
  PROVE  /\ Append(s, x) \in Seq(S) /\ Len(Append(s, x)) = Len(s) + 1
         /\ \A i \in 1 .. Len(s) : Append(s, x)[i] = s[i]
         /\ Append(s, x)[Len(s) + 1] = x
         /\ \A ops : Only(Append(s, x), ops) <=> Only(s, ops) /\ x.op \in ops
         /\ \A op : Has(Append(s, x), op) <=> Has(s, op) \/ x.op = op
<1> DEFINE t == Append(s, x)
<1>1. /\ t \in Seq(S) /\ Len(t) = Len(s) + 1 /\ Len(s) \in Nat
      /\ \A i \in 1 .. Len(s) : t[i] = s[i]
      /\ t[Len(s) + 1] = x
  OBVIOUS
<1> HIDE DEF t
<1>2. \A i \in 1 .. Len(t) : i \in 1 .. Len(s) \/ i = Len(s) + 1
  BY <1>1
<1>3. \A ops : Only(t, ops) <=> Only(s, ops) /\ x.op \in ops
  BY <1>1, <1>2 DEF Only
<1>4. \A op : Has(t, op) <=> Has(s, op) \/ x.op = op
  BY <1>1, <1>2 DEF Has
<1> QED  BY <1>1, <1>3, <1>4 DEF t

\* The first line is taken off.
LEMMA Taken ==
  ASSUME NEW S, NEW s \in Seq(S), s # <<>>
  PROVE  /\ Tail(s) \in Seq(S) /\ Len(Tail(s)) = Len(s) - 1 /\ Len(s) \in Nat \ {0}
         /\ Head(s) = s[1] /\ Head(s) \in S
         /\ \A i \in 1 .. Len(s) - 1 : Tail(s)[i] = s[i + 1]
         /\ \A ops : Only(s, ops) <=> Only(Tail(s), ops) /\ Head(s).op \in ops
         /\ \A op : Has(s, op) <=> Has(Tail(s), op) \/ Head(s).op = op
<1> DEFINE t == Tail(s)
           h == Head(s)
<1>1. /\ t \in Seq(S) /\ Len(t) = Len(s) - 1 /\ Len(s) \in Nat \ {0}
      /\ \A i \in 1 .. Len(s) - 1 : t[i] = s[i + 1]
      /\ h = s[1] /\ h \in S
  OBVIOUS
<1> HIDE DEF t, h
<1>2. \A i \in 1 .. Len(s) : i = 1 \/ (i - 1 \in 1 .. Len(t) /\ s[i] = t[i - 1])
  BY <1>1
<1>3. \A i \in 1 .. Len(t) : i + 1 \in 1 .. Len(s) /\ t[i] = s[i + 1]
  BY <1>1
<1>4. \A ops : Only(s, ops) <=> Only(t, ops) /\ h.op \in ops
  BY <1>1, <1>2, <1>3, SMTT(40) DEF Only
<1>5. \A op : Has(s, op) <=> Has(t, op) \/ h.op = op
  BY <1>1, <1>2, <1>3 DEF Has
<1> QED  BY <1>1, <1>4, <1>5 DEF t, h

-----------------------------------------------------------------------------
(***************************************************************************)
(* The steps of a conversation.                                            *)
(***************************************************************************)
Ats   == {"ping", "start", "drain", "stop"}
Turns == {"driver", "daemon"}

\* The driver sends the request for where it is.
LEMMA AskReads ==
  ASSUME NEW at \in {"ping", "start", "stop"}, NEW cur, NEW up \in Seq(Requests),
         NEW down \in Seq(Replies), NEW r \in Requests,
         r.op = RequestOf[at], r.no = cur, Reads(at, "driver", cur, up, down)
  PROVE  Reads(at, "daemon", cur, Append(up, r), down)
<1> DEFINE t == Append(up, r)
<1>1. /\ Len(t) = Len(up) + 1 /\ t[Len(t)] = r /\ Len(up) \in Nat /\ Len(down) \in Nat
      /\ \A ops : Only(t, ops) <=> Only(up, ops) /\ r.op \in ops
  BY Appended
<1> HIDE DEF t
<1>2. /\ at = "ping" => r.op = "PING"
      /\ at = "start" => r.op = "START"
      /\ at = "stop" => r.op = "STOP"
  BY DEF RequestOf
<1>3. CASE at = "ping"
  <2>1. Only(t, {"PING"}) /\ Only(down, {"PONG"}) /\ Len(t) + Len(down) = 1 /\ ~Has(down, "OK")
    BY <1>1, <1>2, <1>3 DEF Reads
  <2>2. \A i, j \in 1 .. Len(down) : i < j /\ down[i].op = "OK" => down[j].op = "BUSY"
    BY DEF Reads
  <2> QED  BY <1>3, <2>1, <2>2 DEF Reads, Awaits, Holds, t
<1>4. CASE at = "start"
  <2>1. Only(t, {"START", "STOP"})  BY <1>1, <1>2, <1>4 DEF Reads
  <2>2. OwnLast(cur, t, down)  BY <1>1, <1>2, <1>4 DEF OwnLast
  <2> QED  BY <1>4, <2>1, <2>2 DEF Reads, Awaits, Holds, t
<1>5. CASE at = "stop"
  <2>1. Only(t, {"START", "STOP"}) /\ Only(down, {"BUSY"})
    BY <1>1, <1>2, <1>5 DEF Reads, Holds
  <2>2. OwnReport(cur, t, down)  BY <2>1 DEF OwnReport, Only
  <2> QED  BY <1>5, <2>1, <2>2 DEF Reads, Awaits, Holds, t
<1> QED  BY <1>3, <1>4, <1>5

LEMMA AskOwes ==
  ASSUME NEW at \in {"ping", "start", "stop"}, NEW cur, NEW up \in Seq(Requests),
         NEW down \in Seq(Replies), NEW r \in Requests, NEW busy,
         r.op = RequestOf[at], r.no = cur,
         Reads(at, "driver", cur, up, down), Owes(at, "driver", cur, up, down, busy)
  PROVE  Owes(at, "daemon", cur, Append(up, r), down, busy)
<1> DEFINE t == Append(up, r)
<1>1. /\ Len(t) = Len(up) + 1 /\ t[Len(t)] = r /\ Len(up) \in Nat /\ Len(down) \in Nat
      /\ \A i \in 1 .. Len(up) : t[i] = up[i]
      /\ \A op : Has(t, op) <=> Has(up, op) \/ r.op = op
  BY Appended
<1> HIDE DEF t
<1>2. /\ at = "ping" => r.op = "PING"
      /\ at = "start" => r.op = "START"
      /\ at = "stop" => r.op = "STOP"
  BY DEF RequestOf
<1>3. CASE at # "stop"
  <2>1. Has(t, "STOP") <=> Has(up, "STOP")  BY <1>1, <1>2, <1>3
  <2>2. \A i, j \in 1 .. Len(t) : t[i].op = "STOP" /\ t[j].op = "STOP" => i = j
    <3>1. \A i \in 1 .. Len(t) : t[i].op = "STOP" => i \in 1 .. Len(up) /\ up[i].op = "STOP"
      BY <1>1, <1>2, <1>3
    <3> QED  BY <3>1 DEF Owes
  <2> QED  BY <1>3, <2>1, <2>2 DEF Owes, Awaits, Holds, t
<1>4. CASE at = "stop"
  <2>1. busy # {} /\ Only(up, {"START"}) /\ Only(down, {"BUSY"}) /\ r.op = "STOP"
        /\ (Len(down) = 0 /\ Len(up) = 0 => busy = {cur})
    BY <1>2, <1>4 DEF Owes, Reads, Holds
  <2>2. \A i \in 1 .. Len(down) : down[i].op # "OK"  BY <2>1 DEF Only
  <2>3. \A i, j \in 1 .. Len(t) : t[i].op = "STOP" /\ t[j].op = "STOP" => i = j
    <3>1. \A i \in 1 .. Len(t) : t[i].op = "STOP" => i = Len(t)
      BY <1>1, <2>1 DEF Only
    <3> QED  BY <3>1
  <2>4. t[Len(t)].op = "STOP" /\ Has(t, "STOP") /\ (Len(down) = 0 /\ Len(t) = 1 => busy = {cur})
    BY <1>1, <2>1
  <2> QED  BY <1>4, <2>1, <2>2, <2>3, <2>4 DEF Owes, Awaits, Holds, t
<1> QED  BY <1>3, <1>4

LEMMA AskLevel ==
  ASSUME NEW up \in Seq(Requests), NEW down \in Seq(Replies), NEW r \in Requests,
         Level("driver", up, down)
  PROVE  Level("daemon", Append(up, r), down)
<1>1. Len(Append(up, r)) = Len(up) + 1 /\ Len(up) \in Nat /\ Len(down) \in Nat  BY Appended
<1> QED  BY <1>1 DEF Level

\* The daemon answers a PING or a START and is busy with `then' from there on.
Answers(q, r, busy, then) ==
  \/ q.op = "PING" /\ r.op = "PONG" /\ then = busy
  \/ q.op = "START" /\ r.op = "BUSY" /\ r.no = q.no /\ busy # {} /\ then = busy
  \/ q.op = "START" /\ r.op = "OK" /\ r.no = q.no /\ busy = {} /\ then = {q.no}
  \/ q.op = "START" /\ r.op = "NOPORT" /\ r.no = q.no /\ busy = {} /\ then = {}
  \/ q.op = "STOP" /\ r.op = "DONE" /\ busy = {r.no} /\ Reports(r) /\ then = {}

LEMMA AnswerReads ==
  ASSUME NEW at \in Ats, NEW turn \in Turns, NEW cur, NEW up \in Seq(Requests), up # <<>>,
         NEW down \in Seq(Replies), NEW r \in Replies, NEW busy, NEW then,
         Answers(Head(up), r, busy, then),
         Reads(at, turn, cur, up, down), Owes(at, turn, cur, up, down, busy)
  PROVE  Reads(at, turn, cur, Tail(up), Append(down, r))
<1> DEFINE u == Tail(up)
           q == Head(up)
           d == Append(down, r)
<1>1. /\ u \in Seq(Requests) /\ Len(u) = Len(up) - 1 /\ Len(up) \in Nat \ {0}
      /\ q = up[1] /\ q \in Requests
      /\ \A i \in 1 .. Len(up) - 1 : u[i] = up[i + 1]
      /\ \A ops : Only(up, ops) <=> Only(u, ops) /\ q.op \in ops
      /\ \A op : Has(up, op) <=> Has(u, op) \/ q.op = op
  BY Taken
<1>2. /\ Len(d) = Len(down) + 1 /\ d[Len(d)] = r /\ Len(down) \in Nat
      /\ \A i \in 1 .. Len(down) : d[i] = down[i]
      /\ \A ops : Only(d, ops) <=> Only(down, ops) /\ r.op \in ops
      /\ \A op : Has(d, op) <=> Has(down, op) \/ r.op = op
  BY Appended
<1>3. Answers(q, r, busy, then)  OBVIOUS
<1> HIDE DEF u, q, d
<1>4. /\ at = "ping" =>
           /\ Only(u, {"PING"}) /\ Only(d, {"PONG"})
           /\ turn = "driver" => Len(u) + Len(d) = 0
           /\ turn = "daemon" => Len(u) + Len(d) = 1
  <2>1. at = "ping" => q.op = "PING" /\ r.op = "PONG"  BY <1>1, <1>3 DEF Reads, Answers
  <2> QED  BY <1>1, <1>2, <2>1 DEF Reads
<1>5. at # "ping" => Only(u, {"START", "STOP"}) /\ Only(d, {"OK", "BUSY", "NOPORT", "DONE"})
  <2>1. at # "ping" => q.op # "PING" /\ r.op \in {"OK", "BUSY", "NOPORT", "DONE"}
    BY <1>1, <1>3 DEF Reads, Answers
  <2> QED  BY <1>1, <1>2, <2>1 DEF Reads
<1>6. \A i, j \in 1 .. Len(d) : i < j /\ d[i].op = "OK" => d[j].op = "BUSY"
  <2> SUFFICES ASSUME NEW i \in 1 .. Len(d), NEW j \in 1 .. Len(d), i < j, d[i].op = "OK"
               PROVE  d[j].op = "BUSY"
    OBVIOUS
  <2>1. i \in 1 .. Len(down) /\ down[i].op = "OK"  BY <1>2
  <2>2. CASE j \in 1 .. Len(down)  BY <1>2, <2>1, <2>2 DEF Reads
  <2>3. CASE j = Len(d)
    <3>1. busy # {} /\ ~Has(up, "STOP") /\ Has(down, "OK")  BY <2>1 DEF Owes, Has
    <3>2. at # "ping"  BY <3>1 DEF Reads
    <3>3. q.op = "START"  BY <1>1, <3>1, <3>2, <1>3 DEF Answers, Reads
    <3>4. r.op = "BUSY"  BY <1>3, <3>1, <3>3 DEF Answers
    <3> QED  BY <1>2, <2>3, <3>4
  <2> QED  BY <1>2, <2>2, <2>3
<1>7. Has(d, "OK") => at = "start"
  <2>1. ASSUME r.op = "OK" PROVE at = "start"
    <3>1. q.op = "START" /\ busy = {}  BY <1>3, <2>1 DEF Answers
    <3>2. at # "ping"  BY <1>1, <3>1 DEF Reads
    <3>3. ~Holds(at, turn)  BY <3>1 DEF Owes
    <3>4. ~Awaits(at, turn, "stop")
      <4>1. SUFFICES ASSUME Awaits(at, turn, "stop") PROVE FALSE  OBVIOUS
      <4>2. up[Len(up)].op = "STOP"  BY <1>1, <4>1 DEF Owes
      <4>3. Has(up, "STOP")  BY <1>1, <4>2 DEF Has
      <4> QED  BY <3>1, <4>3 DEF Owes
    <3> QED  BY <3>2, <3>3, <3>4 DEF Holds, Awaits, Ats, Turns
  <2> QED  BY <1>2, <2>1 DEF Reads
<1>8. Awaits(at, turn, "start") => OwnLast(cur, u, d)
  <2> SUFFICES ASSUME Awaits(at, turn, "start") PROVE OwnLast(cur, u, d)  OBVIOUS
  <2>1. up[Len(up)].op = "START" /\ up[Len(up)].no = cur  BY <1>1 DEF Reads, OwnLast
  <2>2. CASE Len(u) > 0  BY <1>1, <2>1, <2>2 DEF OwnLast
  <2>3. CASE Len(u) = 0
    <3>0. Len(up) = 1 /\ q = up[1]  BY <1>1, <2>3
    <3>1. q.op = "START" /\ q.no = cur  BY <2>1, <3>0
    <3>2. r.op \in {"OK", "BUSY", "NOPORT"} /\ r.no = cur  BY <1>3, <3>1 DEF Answers
    <3> QED  BY <1>2, <2>3, <3>2 DEF OwnLast
  <2> QED  BY <1>1, <2>2, <2>3
<1>9. Holds(at, turn) => Only(d, {"BUSY"})
  <2> SUFFICES ASSUME Holds(at, turn) PROVE Only(d, {"BUSY"})  OBVIOUS
  <2>1. busy # {} /\ q.op = "START" /\ Only(down, {"BUSY"})  BY <1>1 DEF Owes, Reads
  <2>2. r.op = "BUSY"  BY <1>3, <2>1 DEF Answers
  <2> QED  BY <1>2, <2>1, <2>2
<1>10. Awaits(at, turn, "stop") => OwnReport(cur, u, d)
  <2> SUFFICES ASSUME Awaits(at, turn, "stop") PROVE OwnReport(cur, u, d)  OBVIOUS
  <2>1. \A i \in 1 .. Len(down) : down[i].op = "BUSY"  BY <1>1 DEF Reads, OwnReport
  <2>2. /\ up[Len(up)].op = "STOP" /\ Has(up, "STOP") /\ busy # {}
        /\ Len(down) = 0 /\ Len(up) = 1 => busy = {cur}
    BY <1>1 DEF Owes, Has
  <2>3. q.op \in {"START", "STOP"}
    <3>1. at # "ping"  BY DEF Awaits
    <3> QED  BY <1>1, <3>1 DEF Reads
  <2>4. CASE q.op = "START"
    <3>1. r.op = "BUSY"  BY <1>3, <2>2, <2>4 DEF Answers
    <3> QED  BY <1>2, <2>1, <3>1 DEF OwnReport
  <2>5. CASE q.op = "STOP"
    <3>1. r.op = "DONE" /\ busy = {r.no} /\ Reports(r)  BY <1>3, <2>5 DEF Answers
    <3>2. Len(up) = 1  BY <1>1, <2>2, <2>5 DEF Owes
    <3>3. Len(down) = 0 => r.no = cur  BY <2>2, <3>1, <3>2
    <3> QED  BY <1>1, <1>2, <2>1, <3>1, <3>2, <3>3 DEF OwnReport
  <2> QED  BY <2>3, <2>4, <2>5
<1> QED  BY <1>4, <1>5, <1>6, <1>7, <1>8, <1>9, <1>10 DEF Reads, u, d

LEMMA AnswerOwes ==
  ASSUME NEW at \in Ats, NEW turn \in Turns, NEW cur, NEW up \in Seq(Requests), up # <<>>,
         NEW down \in Seq(Replies), NEW r \in Replies, NEW busy, NEW then,
         Answers(Head(up), r, busy, then),
         Reads(at, turn, cur, up, down), Owes(at, turn, cur, up, down, busy)
  PROVE  Owes(at, turn, cur, Tail(up), Append(down, r), then)
<1> DEFINE u == Tail(up)
           q == Head(up)
           d == Append(down, r)
<1>1. /\ u \in Seq(Requests) /\ Len(u) = Len(up) - 1 /\ Len(up) \in Nat \ {0}
      /\ q = up[1] /\ q \in Requests
      /\ \A i \in 1 .. Len(up) - 1 : u[i] = up[i + 1]
      /\ \A ops : Only(up, ops) <=> Only(u, ops) /\ q.op \in ops
      /\ \A op : Has(up, op) <=> Has(u, op) \/ q.op = op
  BY Taken
<1>2. /\ Len(d) = Len(down) + 1 /\ d[Len(d)] = r /\ Len(down) \in Nat
      /\ \A i \in 1 .. Len(down) : d[i] = down[i]
      /\ \A op : Has(d, op) <=> Has(down, op) \/ r.op = op
  BY Appended
<1>3. Answers(q, r, busy, then)  OBVIOUS
<1> HIDE DEF u, q, d
<1>4. \A i, j \in 1 .. Len(u) : u[i].op = "STOP" /\ u[j].op = "STOP" => i = j
  <2>1. \A i \in 1 .. Len(u) : i + 1 \in 1 .. Len(up) /\ u[i] = up[i + 1]  BY <1>1
  <2>2. \A i, j \in 1 .. Len(u) : u[i].op = "STOP" /\ u[j].op = "STOP" => i + 1 = j + 1
    BY <2>1 DEF Owes
  <2> QED  BY <1>1, <2>2
<1>5. Has(u, "STOP") => Has(up, "STOP") /\ busy # {}  BY <1>1 DEF Owes
<1>6. CASE then = busy /\ q.op # "STOP" /\ r.op \in {"PONG", "BUSY"}
  <2>1. \A i \in 1 .. Len(d) : d[i].op = "OK" => i \in 1 .. Len(down) /\ down[i].op = "OK" /\ d[i] = down[i]
    BY <1>2, <1>6
  <2>2. \A i \in 1 .. Len(d) : d[i].op = "OK" => then = {d[i].no} /\ ~Has(u, "STOP")
    BY <1>1, <1>6, <2>1 DEF Owes
  <2>3. Holds(at, turn) =>
          /\ then # {} /\ Only(u, {"START"})
          /\ Len(d) = 0 /\ Len(u) = 0 => then = {cur}
    BY <1>1, <1>2, <1>6 DEF Owes
  <2>4. Awaits(at, turn, "stop") /\ Len(u) > 0 =>
          /\ u[Len(u)].op = "STOP"
          /\ Len(d) = 0 /\ Len(u) = 1 => then = {cur}
    BY <1>1, <1>2 DEF Owes
  <2>5. then # {} => Has(d, "OK") \/ Holds(at, turn) \/ Has(u, "STOP")
    BY <1>1, <1>2, <1>6 DEF Owes
  <2> QED  BY <1>4, <1>5, <1>6, <2>2, <2>3, <2>4, <2>5 DEF Owes, u, d
<1>7. CASE q.op = "START" /\ busy = {}
  <2>1. ~Has(up, "STOP") /\ ~Has(u, "STOP") /\ ~Holds(at, turn)  BY <1>1, <1>7 DEF Owes
  <2>2. ~Awaits(at, turn, "stop")
    <3>1. SUFFICES ASSUME Awaits(at, turn, "stop") PROVE FALSE  OBVIOUS
    <3>2. up[Len(up)].op = "STOP"  BY <1>1, <3>1 DEF Owes
    <3> QED  BY <1>1, <2>1, <3>2 DEF Has
  <2>3. \A i \in 1 .. Len(down) : down[i].op # "OK"  BY <1>7 DEF Owes
  <2>4. \A i \in 1 .. Len(d) : d[i].op = "OK" => r.op = "OK" /\ d[i] = r  BY <1>2, <2>3
  <2>5. CASE r.op = "OK"
    <3>1. then = {r.no}  BY <1>3, <1>7, <2>5 DEF Answers
    <3>2. Has(d, "OK")  BY <1>2, <2>5
    <3> QED  BY <1>4, <2>1, <2>2, <2>4, <3>1, <3>2 DEF Owes, u, d
  <2>6. CASE r.op # "OK"
    <3>1. then = {}  BY <1>3, <1>7, <2>6 DEF Answers
    <3> QED  BY <1>4, <2>1, <2>2, <2>4, <2>6, <3>1 DEF Owes, u, d
  <2> QED  BY <2>5, <2>6
<1>8. CASE q.op = "STOP"
  <2>1. then = {} /\ r.op = "DONE" /\ Has(up, "STOP")  BY <1>1, <1>3, <1>8 DEF Answers
  <2>2. ~Has(u, "STOP")
    <3>1. \A i \in 1 .. Len(u) : i + 1 \in 1 .. Len(up) /\ u[i] = up[i + 1] /\ i + 1 # 1  BY <1>1
    <3>2. 1 \in 1 .. Len(up) /\ up[1].op = "STOP"  BY <1>1, <1>8
    <3> QED  BY <3>1, <3>2 DEF Owes, Has
  <2>3. ~Holds(at, turn)
    <3>1. SUFFICES ASSUME Holds(at, turn) PROVE FALSE  OBVIOUS
    <3>2. q.op = "START"  BY <1>1, <3>1 DEF Owes
    <3> QED  BY <1>8, <3>2
  <2>4. \A i \in 1 .. Len(d) : d[i].op # "OK"
    <3>1. \A i \in 1 .. Len(down) : down[i].op # "OK"  BY <2>1 DEF Owes
    <3> QED  BY <1>2, <2>1, <3>1
  <2>5. ~(Awaits(at, turn, "stop") /\ Len(u) > 0)
    <3>1. SUFFICES ASSUME Awaits(at, turn, "stop"), Len(u) > 0 PROVE FALSE  OBVIOUS
    <3>2. u[Len(u)].op = "STOP"  BY <1>1, <3>1 DEF Owes
    <3> QED  BY <1>1, <2>2, <3>1, <3>2 DEF Has
  <2> QED  BY <1>4, <2>1, <2>2, <2>3, <2>4, <2>5 DEF Owes, u, d
<1> QED  BY <1>3, <1>6, <1>7, <1>8 DEF Answers

LEMMA AnswerLevel ==
  ASSUME NEW at \in Ats, NEW turn \in Turns, NEW cur, NEW up \in Seq(Requests), up # <<>>,
         NEW down \in Seq(Replies), NEW r \in Replies, NEW busy, NEW then,
         Answers(Head(up), r, busy, then),
         Owes(at, turn, cur, up, down, busy), Level(turn, up, down),
         at = "drain" => turn = "driver"
  PROVE  Level(turn, Tail(up), Append(down, r))
<1> DEFINE u == Tail(up)
           q == Head(up)
           d == Append(down, r)
<1>1. /\ Len(u) = Len(up) - 1 /\ Len(up) \in Nat \ {0} /\ q = up[1]
      /\ \A op : Has(up, op) <=> Has(u, op) \/ q.op = op
  BY Taken
<1>2. /\ Len(d) = Len(down) + 1 /\ Len(down) \in Nat
      /\ \A op : Has(d, op) <=> Has(down, op) \/ r.op = op
  BY Appended
<1>3. Answers(q, r, busy, then)  OBVIOUS
<1> HIDE DEF u, q, d
<1>4. turn = "daemon" /\ Len(up) = 1 /\ Len(down) = 0  BY <1>1, <1>2 DEF Level, Turns
<1>5. r.op # "BUSY"
  <2>1. SUFFICES ASSUME r.op = "BUSY" PROVE FALSE  OBVIOUS
  <2>2. busy # {} /\ q.op = "START"  BY <1>3, <2>1 DEF Answers
  <2>3. Has(down, "OK") \/ Holds(at, turn) \/ Has(up, "STOP")  BY <2>2 DEF Owes
  <2>4. ~Has(down, "OK")  BY <1>4 DEF Has
  <2>5. ~Has(up, "STOP")  BY <1>1, <1>4, <2>2 DEF Has
  <2> QED  BY <1>4, <2>3, <2>4, <2>5 DEF Holds
<1> QED  BY <1>1, <1>2, <1>4, <1>5 DEF Level, u, d

\* The driver reads a line it did not want and goes on to the next unit, or
\* gives up on a reply.
LEMMA RefusedReads ==
  ASSUME NEW at \in {"start", "stop"}, NEW cur, NEW next, NEW up \in Seq(Requests),
         NEW down \in Seq(Replies), down # <<>>, Reads(at, "daemon", cur, up, down)
  PROVE  Reads("start", "driver", next, up, Tail(down))
<1> DEFINE d == Tail(down)
<1>1. /\ Len(d) = Len(down) - 1 /\ Len(down) \in Nat \ {0}
      /\ \A i \in 1 .. Len(down) - 1 : d[i] = down[i + 1]
      /\ \A ops : Only(down, ops) => Only(d, ops)
  BY Taken
<1> HIDE DEF d
<1>2. \A i, j \in 1 .. Len(d) : i < j /\ d[i].op = "OK" => d[j].op = "BUSY"
  <2>1. \A i \in 1 .. Len(d) : i + 1 \in 1 .. Len(down) /\ d[i] = down[i + 1]  BY <1>1
  <2>2. \A i, j \in 1 .. Len(d) : i < j => i + 1 < j + 1  BY <1>1
  <2>3. \A i, j \in 1 .. Len(down) : i < j /\ down[i].op = "OK" => down[j].op = "BUSY"
    BY DEF Reads
  <2> QED  BY <2>1, <2>2, <2>3
<1> QED  BY <1>1, <1>2 DEF Reads, Awaits, Holds, d

LEMMA GivenUpReads ==
  ASSUME NEW at \in {"start", "stop"}, NEW cur, NEW next, NEW up \in Seq(Requests),
         NEW down \in Seq(Replies), Reads(at, "daemon", cur, up, down)
  PROVE  Reads("start", "driver", next, up, down)
BY DEF Reads, Awaits, Holds

\* The line is not an OK when a START or a STOP was refused.
LEMMA RefusedOwes ==
  ASSUME NEW at \in {"start", "stop"}, NEW cur, NEW next, NEW up \in Seq(Requests), NEW busy,
         NEW down \in Seq(Replies), down # <<>>, Head(down).op # "OK",
         Owes(at, "daemon", cur, up, down, busy)
  PROVE  Owes("start", "driver", next, up, Tail(down), busy)
<1> DEFINE d == Tail(down)
<1>1. /\ Len(d) = Len(down) - 1 /\ Len(down) \in Nat \ {0}
      /\ \A i \in 1 .. Len(down) - 1 : d[i] = down[i + 1]
      /\ Has(down, "OK") <=> Has(d, "OK")
  BY Taken
<1> HIDE DEF d
<1>2. \A i \in 1 .. Len(d) : i + 1 \in 1 .. Len(down) /\ d[i] = down[i + 1]  BY <1>1
<1>3. \A i \in 1 .. Len(d) : d[i].op = "OK" => busy = {d[i].no} /\ ~Has(up, "STOP")
  BY <1>2 DEF Owes
<1> QED  BY <1>1, <1>3 DEF Owes, Awaits, Holds, d

LEMMA GivenUpOwes ==
  ASSUME NEW at \in {"start", "stop"}, NEW cur, NEW next, NEW up \in Seq(Requests), NEW busy,
         NEW down \in Seq(Replies), Owes(at, "daemon", cur, up, down, busy)
  PROVE  Owes("start", "driver", next, up, down, busy)
BY DEF Owes, Awaits, Holds

\* A line that is read brings the driver level again.
LEMMA ReadLevel ==
  ASSUME NEW up \in Seq(Requests), NEW down \in Seq(Replies), down # <<>>,
         Level("daemon", up, down)
  PROVE  /\ Level("driver", up, Tail(down)) /\ Len(down) = 1 /\ Len(up) = 0
         /\ Head(down).op # "BUSY"
<1>1. Len(Tail(down)) = Len(down) - 1 /\ Len(down) \in Nat \ {0} /\ Len(up) \in Nat
      /\ (Has(down, "BUSY") <=> Has(Tail(down), "BUSY") \/ Head(down).op = "BUSY")
  BY Taken
<1> QED  BY <1>1 DEF Level

\* A PONG is read.
LEMMA PongRead ==
  ASSUME NEW cur, NEW next, NEW up \in Seq(Requests), NEW down \in Seq(Replies), down # <<>>,
         Reads("ping", "daemon", cur, up, down)
  PROVE  /\ Reads("start", "driver", next, up, Tail(down))
         /\ \A busy : Owes("ping", "daemon", cur, up, down, busy)
                        => Owes("start", "driver", next, up, Tail(down), busy)
<1> DEFINE d == Tail(down)
<1>1. Len(d) = 0 /\ Len(up) = 0 /\ Only(down, {"PONG"})
  <2>1. Len(d) = Len(down) - 1 /\ Len(down) \in Nat \ {0} /\ Len(up) \in Nat  BY Taken
  <2> QED  BY <2>1 DEF Reads
<1>2. ~Has(down, "OK")  BY <1>1 DEF Has, Only
<1> HIDE DEF d
<1>3. Reads("start", "driver", next, up, d)
  BY <1>1 DEF Reads, Awaits, Holds, Only, Has
<1>4. ASSUME NEW busy, Owes("ping", "daemon", cur, up, down, busy)
      PROVE  Owes("start", "driver", next, up, d, busy)
  <2>1. busy = {}  BY <1>1, <1>2, <1>4 DEF Owes, Holds, Has
  <2> QED  BY <1>1, <2>1 DEF Owes, Awaits, Holds, Has
<1> QED  BY <1>3, <1>4 DEF d

\* An OK is read.
LEMMA OkRead ==
  ASSUME NEW cur, NEW up \in Seq(Requests), NEW down \in Seq(Replies), down # <<>>,
         Head(down).op = "OK", Reads("start", "daemon", cur, up, down)
  PROVE  /\ Reads("drain", "driver", cur, up, Tail(down))
         /\ \A busy : Owes("start", "daemon", cur, up, down, busy)
                        => Owes("drain", "driver", cur, up, Tail(down), busy)
<1> DEFINE d == Tail(down)
           h == Head(down)
<1>1. /\ Len(d) = Len(down) - 1 /\ Len(down) \in Nat \ {0} /\ Len(up) \in Nat
      /\ h = down[1] /\ \A i \in 1 .. Len(down) - 1 : d[i] = down[i + 1]
  BY Taken
<1> HIDE DEF d, h
<1>2. Only(d, {"BUSY"})
  <2>1. \A i \in 1 .. Len(d) : d[i] = down[i + 1] /\ i + 1 \in 1 .. Len(down) /\ 1 < i + 1  BY <1>1
  <2>2. 1 \in 1 .. Len(down) /\ down[1].op = "OK"  BY <1>1 DEF h
  <2>3. \A i \in 1 .. Len(d) : d[i].op = "BUSY"  BY <2>1, <2>2 DEF Reads
  <2> QED  BY <2>3 DEF Only
<1>3. Reads("drain", "driver", cur, up, d)
  <2>1. ~Has(d, "OK") /\ Only(d, {"OK", "BUSY", "NOPORT", "DONE"})  BY <1>2 DEF Only, Has
  <2>2. \A i, j \in 1 .. Len(d) : i < j /\ d[i].op = "OK" => d[j].op = "BUSY"  BY <1>2 DEF Only
  <2> QED  BY <1>2, <2>1, <2>2 DEF Reads, Awaits, Holds
<1>4. ASSUME NEW busy, Owes("start", "daemon", cur, up, down, busy)
      PROVE  Owes("drain", "driver", cur, up, d, busy)
  <2>1. busy = {h.no} /\ ~Has(up, "STOP")  BY <1>1, <1>4 DEF Owes, h
  <2>2. Only(up, {"START"})  BY <2>1 DEF Reads, Only, Has
  <2>3. Len(d) = 0 /\ Len(up) = 0 => h.no = cur
    <3>1. OwnLast(cur, up, down)  BY DEF Reads, Awaits
    <3>2. SUFFICES ASSUME Len(d) = 0, Len(up) = 0 PROVE h.no = cur  OBVIOUS
    <3>3. Len(down) = 1  BY <1>1, <3>2
    <3>4. down[Len(down)].no = cur  BY <3>1, <3>2 DEF OwnLast
    <3> QED  BY <1>1, <3>3, <3>4
  <2>4. \A i \in 1 .. Len(d) : d[i].op # "OK"  BY <1>2 DEF Only
  <2> QED  BY <1>4, <2>1, <2>2, <2>3, <2>4 DEF Owes, Awaits, Holds
<1> QED  BY <1>3, <1>4 DEF d

\* What the driver learns from a line that it wanted.
LEMMA OwnAnswer ==
  ASSUME NEW at \in {"start", "stop"}, NEW cur, NEW up \in Seq(Requests),
         NEW down \in Seq(Replies), down # <<>>, Reads(at, "daemon", cur, up, down)
  PROVE  /\ at = "stop" => Head(down).op \in {"BUSY", "DONE"}
         /\ at = "stop" /\ Head(down).op = "DONE" => Head(down).no = cur /\ Reports(Head(down))
         /\ at = "start" /\ Len(up) = 0 /\ Len(down) = 1 =>
              Head(down).op \in {"OK", "BUSY", "NOPORT"} /\ Head(down).no = cur
<1>1. Len(down) \in Nat \ {0} /\ Head(down) = down[1] /\ 1 \in 1 .. Len(down)  BY Taken
<1> QED  BY <1>1 DEF Reads, Awaits, OwnLast, OwnReport

-----------------------------------------------------------------------------
(***************************************************************************)
(* The state.                                                              *)
(***************************************************************************)
States == {"none", "open", "half", "reset", "dead", "closed"}

\* One field of one connection changes.
WithState(l, d, x) == [l EXCEPT ![d].state = x]
WithUp(l, d, x)    == [l EXCEPT ![d].up = x]
WithDown(l, d, x)  == [l EXCEPT ![d].down = x]

\* In the connections m that of d has these fields, and the others are as in l.
Changed(l, m, d, state, up, down) ==
  /\ m \in [1 .. MaxDrivers -> Links]
  /\ m[d].state = state /\ m[d].up = up /\ m[d].down = down
  /\ \A e \in 1 .. MaxDrivers : e # d => m[e] = l[e]

LEMMA WithStateFacts ==
  ASSUME NEW l \in [1 .. MaxDrivers -> Links], NEW d \in 1 .. MaxDrivers, NEW x \in States
  PROVE  Changed(l, WithState(l, d, x), d, x, l[d].up, l[d].down)
BY DEF Links, States, WithState, Changed

LEMMA WithUpFacts ==
  ASSUME NEW l \in [1 .. MaxDrivers -> Links], NEW d \in 1 .. MaxDrivers, NEW x \in Seq(Requests)
  PROVE  Changed(l, WithUp(l, d, x), d, l[d].state, x, l[d].down)
BY DEF Links, WithUp, Changed

LEMMA WithDownFacts ==
  ASSUME NEW l \in [1 .. MaxDrivers -> Links], NEW d \in 1 .. MaxDrivers, NEW x \in Seq(Replies)
  PROVE  Changed(l, WithDown(l, d, x), d, l[d].state, l[d].up, x)
BY DEF Links, WithDown, Changed

LEMMA Typed ==
  ASSUME TypeOK
  PROVE  /\ started \in 1 .. MaxDrivers /\ MaxDrivers \in Nat \ {0} /\ Units \in Nat
         /\ link \in [1 .. MaxDrivers -> Links]
         /\ Mine.state \in States /\ Mine.up \in Seq(Requests) /\ Mine.down \in Seq(Replies)
         /\ Current \in Numbers /\ Turn \in Turns /\ served \in 0 .. MaxDrivers
         /\ driver.no \in 0 .. Units
         /\ driver.at \in {"connect", "ping", "start", "drain", "stop", "done", "killed", "sigpipe"}
<1>1. Mine \in Links  BY DEF TypeOK, Mine
<1>2. started \in 1 .. MaxDrivers /\ MaxDrivers \in Nat \ {0} /\ Units \in Nat /\ driver.no \in 0 .. Units
  BY ControlAssumption DEF TypeOK
<1>3. Current \in Numbers  BY <1>2 DEF Current, Numbers
<1>4. served \in 0 .. MaxDrivers
  <2>1. served \in 0 .. started  BY DEF TypeOK
  <2> QED  BY <1>2, <2>1
<1> QED  BY <1>1, <1>2, <1>3, <1>4 DEF TypeOK, Links, States, Turn, Turns

\* The rows stay as they are ...
LEMMA RowsKept ==
  ASSUME RowsMatch, FaultsReported, UNCHANGED <<started, rows>>, timeouts' = 0 => timeouts = 0
  PROVE  RowsMatch' /\ FaultsReported'
BY DEF RowsMatch, FaultsReported

\* ... or that of the current unit is written.
LEMMA RowWritten ==
  ASSUME TypeOK, RowsMatch, FaultsReported, driver.no \in 1 .. Units,
         NEW st \in {"pending", "started", "answered", "refused", "lost", "late"},
         NEW r \in Replies, Row(st, r), started' = started, timeouts' = 0 => timeouts = 0,
         timeouts = 0 /\ st \in {"started", "answered"} => r.no = Current,
         timeouts' = 0 /\ st = "refused" => r.op = "NOPORT",
         st = "answered" => r.no = Current /\ Reports(r)
  PROVE  rows' \in [1 .. Units -> Rows] /\ RowsMatch' /\ FaultsReported'
<1>1. /\ rows' \in [1 .. Units -> Rows]
      /\ rows'[driver.no].status = st /\ rows'[driver.no].reply = r
      /\ \A u \in 1 .. Units : u # driver.no => rows'[u] = rows[u]
  BY DEF Row, TypeOK, Rows
<1>2. RowsMatch'  BY <1>1 DEF RowsMatch, Current
<1>3. st = "answered" => r.fault = (driver.no \in FaultUnits) /\ (driver.no \in FaultUnits => r.sent = 0)
  <2>1. SUFFICES ASSUME st = "answered"
                 PROVE  r.fault = (driver.no \in FaultUnits) /\ (driver.no \in FaultUnits => r.sent = 0)
    OBVIOUS
  <2>2. r.no[2] = driver.no  BY <2>1 DEF Current
  <2>3. Reports(r)  BY <2>1
  <2> QED  BY <2>2, <2>3 DEF Reports
<1>4. FaultsReported'  BY <1>1, <1>3 DEF FaultsReported
<1> QED  BY <1>1, <1>2, <1>4

-----------------------------------------------------------------------------
(***************************************************************************)
(* The steps of the driver.                                                *)
(***************************************************************************)

\* Nothing is asked of a connection that the driver no longer reads.
LEMMA Silent ==
  ASSUME ~Talking'
  PROVE  Reading' /\ Serves' /\ NotBehind'
BY DEF Reading, Serves, NotBehind

\* A call fails: the sweep goes on to the next unit or is over.
LEMMA FailedCall ==
  ASSUME TypeOK, Wired, driver.at \in {"ping", "start", "stop"}, NEW why, NEW r,
         CallFailed(why, r)
  PROVE  /\ waiting' = FALSE
         /\ driver' \in [at : {"start", "done"}, no : 0 .. Units]
         /\ driver'.at = "start" => driver.at # "ping" /\ driver'.no \in 1 .. Units
         /\ driver.at = "ping" => rows' = rows
         /\ driver.at # "ping" => driver.no \in 1 .. Units /\ Row(why, r)
<1>1. driver.no \in 0 .. Units /\ Units \in Nat  BY Typed
<1>2. driver \in [at : {"connect", "ping", "start", "drain", "stop", "done", "killed", "sigpipe"}, no : 0 .. Units]
  BY DEF TypeOK
<1>3. CASE driver.at = "ping"
  <2>1. driver' = [driver EXCEPT !.at = "done"] /\ waiting' = FALSE /\ rows' = rows
    BY <1>3 DEF CallFailed
  <2> QED  BY <1>2, <1>3, <2>1
<1>4. CASE driver.at # "ping"
  <2>1. driver' = NextUnit /\ waiting' = FALSE /\ Row(why, r)  BY <1>4 DEF CallFailed
  <2>2. driver.no \in 1 .. Units  BY <1>4 DEF Wired
  <2> QED  BY <1>1, <1>4, <2>1, <2>2 DEF NextUnit
<1> QED  BY <1>3, <1>4

LEMMA ConnectStep ==
  ASSUME IInv, Connect
  PROVE  IInv'
<1>1. Mine = NoLink /\ driver.at = "connect" /\ served < started  BY DEF IInv, Connect, Wired
<1>2. UNCHANGED <<started, waiting, timeouts, rows, daemonVars>>  BY DEF Connect
<1>3. RowsMatch' /\ FaultsReported'  BY <1>2, RowsKept DEF IInv
<1>4. /\ started \in 1 .. MaxDrivers /\ link \in [1 .. MaxDrivers -> Links] /\ driver.no \in 0 .. Units
      /\ driver \in [at : {"connect", "ping", "start", "drain", "stop", "done", "killed", "sigpipe"}, no : 0 .. Units]
  BY Typed DEF IInv, TypeOK
<1>5. UnitTrue'  BY <1>2 DEF IInv, UnitTrue, daemonVars
<1>6. waiting = FALSE  BY <1>1 DEF IInv, Wired, TypeOK
<1>7. CASE link' = [link EXCEPT ![started].state = "open"] /\ driver' = [driver EXCEPT !.at = "ping"]
  <2>1. /\ link' \in [1 .. MaxDrivers -> Links]
        /\ link'[started].state = "open" /\ link'[started].up = <<>> /\ link'[started].down = <<>>
        /\ \A e \in 1 .. MaxDrivers : e # started => link'[e] = link[e]
    <3>1. link[started].up = <<>> /\ link[started].down = <<>>  BY <1>1 DEF NoLink, Mine
    <3>2. "open" \in States  BY DEF States
    <3>3. link' = WithState(link, started, "open")  BY <1>7 DEF WithState
    <3>4. Changed(link, link', started, "open", link[started].up, link[started].down)
      BY <1>4, <3>2, <3>3, WithStateFacts
    <3> QED  BY <3>1, <3>4 DEF Changed
  <2>2. driver'.at = "ping" /\ driver'.no = driver.no
        /\ driver' \in [at : {"connect", "ping", "start", "drain", "stop", "done", "killed", "sigpipe"}, no : 0 .. Units]
    BY <1>4, <1>7
  <2>3. TypeOK'  BY <1>2, <2>1, <2>2 DEF IInv, TypeOK, daemonVars
  <2>4. served \in 0 .. MaxDrivers /\ served # started
    <3>1. served \in 0 .. started  BY DEF IInv, TypeOK
    <3> QED  BY <1>1, <1>4, <3>1, Typed DEF IInv
  <2>5. Wired'
    <3>1. \A d \in 1 .. MaxDrivers : d > started' => link'[d] = NoLink
      BY <1>2, <1>4, <2>1 DEF IInv, Wired
    <3>2. Mine'.down = <<>> /\ Mine'.state = "open"  BY <1>2, <2>1 DEF Mine
    <3>3. daemon = "stop" => link'[served] = link[served]
      <4>1. daemon = "stop" => served > 0  BY DEF IInv, Wired
      <4> QED  BY <1>4, <2>1, <2>4, <4>1
    <3> QED  BY <1>2, <1>6, <2>2, <3>1, <3>2, <3>3 DEF IInv, Wired, daemonVars
  <2>6. Mine'.up = <<>> /\ Mine'.down = <<>> /\ Turn' = "driver"
    BY <1>2, <1>6, <2>1 DEF Mine, Turn
  <2>7. Reading' /\ NotBehind'
    BY <2>2, <2>6 DEF Reading, NotBehind, Reads, Level, Only, Has, Awaits, Holds
  <2>8. Serves'
    <3>1. ~Live'  BY <1>2, <2>4 DEF Live, daemonVars
    <3> QED  BY <3>1 DEF Serves
  <2> QED  BY <1>3, <1>5, <2>3, <2>5, <2>7, <2>8 DEF IInv
<1>8. CASE driver' = [driver EXCEPT !.at = "done"] /\ link' = link
  <2>2. driver'.at = "done" /\ driver'.no = driver.no
        /\ driver' \in [at : {"connect", "ping", "start", "drain", "stop", "done", "killed", "sigpipe"}, no : 0 .. Units]
    BY <1>4, <1>8
  <2>3. TypeOK'  BY <1>2, <1>8, <2>2 DEF IInv, TypeOK, daemonVars
  <2>5. Wired'  BY <1>2, <1>6, <1>8, <2>2 DEF IInv, Wired, daemonVars, Mine
  <2>6. ~Talking'  BY <2>2 DEF Talking
  <2> QED  BY <1>3, <1>5, <2>3, <2>5, <2>6, Silent DEF IInv
<1> QED  BY <1>7, <1>8 DEF Connect

\* The driver's end of its connection changes, the requests on it do not.
LEMMA DriverSide ==
  ASSUME TypeOK, Wired, NEW x, NEW d, Changed(link, link', started, x, Mine.up, d),
         UNCHANGED <<started, daemonVars>>, x = "half" => Mine.up = <<>>,
         driver'.at # "connect",
         driver'.at \in {"start", "drain", "stop"} => driver'.no \in 1 .. Units,
         waiting' => driver'.at \in {"ping", "start", "stop"},
         served < started => d = <<>> /\ driver'.at \in {"ping", "done", "killed", "sigpipe"}
  PROVE  /\ Wired' /\ link' \in [1 .. MaxDrivers -> Links]
         /\ Mine'.state = x /\ Mine'.up = Mine.up /\ Mine'.down = d
<1>1. started \in 1 .. MaxDrivers /\ served \in 0 .. MaxDrivers /\ MaxDrivers \in Nat  BY Typed
<1>2. /\ link' \in [1 .. MaxDrivers -> Links]
      /\ link'[started].state = x /\ link'[started].up = link[started].up /\ link'[started].down = d
      /\ \A e \in 1 .. MaxDrivers : e # started => link'[e] = link[e]
  BY DEF Changed, Mine
<1>3. Mine'.state = x /\ Mine'.up = Mine.up /\ Mine'.down = d  BY <1>2 DEF Mine
<1>4. \A e \in 1 .. MaxDrivers : e > started' => link'[e] = NoLink  BY <1>1, <1>2 DEF Wired
<1>5. daemon = "stop" => link'[served].up = link[served].up
  <2>1. daemon = "stop" => served \in 1 .. MaxDrivers  BY <1>1 DEF Wired
  <2> QED  BY <1>2, <2>1
<1> QED  BY <1>2, <1>3, <1>4, <1>5 DEF Wired, daemonVars

\* A request goes out on an open connection.
LEMMA RequestSent ==
  ASSUME IInv, driver.at \in {"ping", "start", "stop"}, ~waiting, Mine.state = "open",
         link' = [link EXCEPT ![started].up =
                    Append(@, [op |-> RequestOf[driver.at], no |-> <<started, driver.no>>])],
         waiting' = TRUE, UNCHANGED <<driver, rows, started, timeouts, daemonVars>>
  PROVE  IInv'
<1> DEFINE r == [op |-> RequestOf[driver.at], no |-> Current]
           t == Append(Mine.up, r)
<1>1. /\ TypeOK /\ Wired /\ UnitTrue /\ Reading /\ Serves /\ NotBehind /\ RowsMatch /\ FaultsReported
      /\ started \in 1 .. MaxDrivers /\ link \in [1 .. MaxDrivers -> Links]
      /\ Mine.up \in Seq(Requests) /\ Mine.down \in Seq(Replies)
  BY Typed DEF IInv
<1>2. /\ r \in Requests /\ r.op = RequestOf[driver.at] /\ r.no = Current
  <2>1. RequestOf[driver.at] \in {"PING", "START", "STOP"}  BY DEF RequestOf
  <2>2. Current \in Numbers  BY <1>1, Typed
  <2> QED  BY <2>1, <2>2 DEF Requests
<1>3. /\ t \in Seq(Requests) /\ Len(t) = Len(Mine.up) + 1 /\ Len(Mine.up) \in Nat
      /\ \A i \in 1 .. Len(Mine.up) : t[i] = Mine.up[i]
  BY <1>1, <1>2, Appended
<1>4. link' = WithUp(link, started, t)  BY DEF WithUp, Mine, Current
<1> HIDE DEF r, t
<1>5. Changed(link, link', started, Mine.state, t, Mine.down)
  BY <1>1, <1>3, <1>4, WithUpFacts DEF Mine
<1>6. Mine'.state = "open" /\ Mine'.up = t /\ Mine'.down = Mine.down  BY <1>5 DEF Changed, Mine
<1>7. TypeOK'  BY <1>1, <1>5 DEF TypeOK, Changed, daemonVars
<1>8. Wired'
  <2>1. \A d \in 1 .. MaxDrivers : d > started' => link'[d] = NoLink
    BY <1>1, <1>5 DEF Wired, Changed
  <2>2. ASSUME daemon = "stop" PROVE link'[served].up # <<>> /\ Head(link'[served].up).op = "STOP"
    <3>1. served \in 1 .. MaxDrivers
      <4>1. served \in 0 .. MaxDrivers /\ served > 0  BY <1>1, <2>2, Typed DEF Wired
      <4> QED  BY <1>1, <4>1
    <3>2. link[served].up # <<>> /\ Head(link[served].up).op = "STOP"  BY <1>1, <2>2 DEF Wired
    <3>3. CASE served # started  BY <1>5, <3>1, <3>2, <3>3 DEF Changed
    <3>4. CASE served = started
      <4>1. Mine.up # <<>> /\ Head(Mine.up).op = "STOP"  BY <3>2, <3>4 DEF Mine
      <4>2. Len(Mine.up) > 0 /\ Head(Mine.up) = Mine.up[1]  BY <1>1, <4>1
      <4>3. t # <<>> /\ Head(t) = t[1] /\ t[1] = Mine.up[1]  BY <1>3, <4>2
      <4> QED  BY <1>6, <3>4, <4>1, <4>2, <4>3 DEF Mine
    <3> QED  BY <3>3, <3>4
  <2> QED  BY <1>1, <1>6, <2>1, <2>2 DEF Wired, daemonVars
<1>9. UnitTrue'  BY <1>1 DEF UnitTrue, daemonVars
<1>10. Talking /\ Turn = "driver" /\ Turn' = "daemon" /\ Current' = Current
  BY DEF Talking, Turn, Current
<1>11. Reading'
  <2>1. Reads(driver.at, "driver", Current, Mine.up, Mine.down)  BY <1>1, <1>10 DEF Reading
  <2>2. Reads(driver.at, "daemon", Current, t, Mine.down)  BY <1>1, <1>2, <2>1, AskReads DEF t
  <2> QED  BY <1>6, <1>10, <2>2 DEF Reading
<1>12. Serves'
  <2>1. Live' = Live /\ Busy' = Busy  BY DEF Live, Busy, daemonVars
  <2>2. SUFFICES ASSUME Live PROVE Owes(driver.at, "daemon", Current, t, Mine.down, Busy)
    BY <1>6, <1>10, <2>1 DEF Serves
  <2>3. Reads(driver.at, "driver", Current, Mine.up, Mine.down)  BY <1>1, <1>10 DEF Reading
  <2>4. Owes(driver.at, "driver", Current, Mine.up, Mine.down, Busy)  BY <1>1, <1>10, <2>2 DEF Serves
  <2> QED  BY <1>1, <1>2, <2>3, <2>4, AskOwes DEF t
<1>13. NotBehind'
  <2>1. SUFFICES ASSUME timeouts = 0 PROVE Level("daemon", t, Mine.down)
    BY <1>6, <1>10 DEF NotBehind
  <2>2. Level("driver", Mine.up, Mine.down)  BY <1>1, <1>10, <2>1 DEF NotBehind
  <2> QED  BY <1>1, <1>2, <2>2, AskLevel DEF t
<1>14. RowsMatch' /\ FaultsReported'  BY <1>1, RowsKept
<1> QED  BY <1>7, <1>8, <1>9, <1>11, <1>12, <1>13, <1>14 DEF IInv

\* The driver has no more to read from its connection, and goes on or ends.
LEMMA Cut ==
  ASSUME IInv, NEW x \in States, Changed(link, link', started, x, Mine.up, Mine.down),
         x = "half" => Mine.up = <<>>, UNCHANGED <<started, timeouts, daemonVars>>,
         rows' \in [1 .. Units -> Rows], RowsMatch', FaultsReported',
         waiting' \in BOOLEAN, waiting' => driver'.at \in {"ping", "start", "stop"},
         driver' \in [at : {"ping", "start", "drain", "stop", "done", "killed", "sigpipe"}, no : 0 .. Units],
         driver'.at \in {"start", "drain", "stop"} => driver'.no \in 1 .. Units,
         served < started => driver'.at \in {"ping", "done", "killed", "sigpipe"},
         x \in {"open", "half"} => driver'.at \in {"done", "killed", "sigpipe"}
  PROVE  IInv'
<1>1. TypeOK /\ Wired /\ UnitTrue  BY DEF IInv
<1>2. served < started => Mine.down = <<>>  BY <1>1 DEF Wired
<1>3. Wired' /\ link' \in [1 .. MaxDrivers -> Links] /\ Mine'.state = x
  BY <1>1, <1>2, DriverSide
<1>4. TypeOK'  BY <1>1, <1>3 DEF TypeOK, daemonVars
<1>5. UnitTrue'  BY <1>1 DEF UnitTrue, daemonVars
<1>6. ~Talking'  BY <1>3 DEF Talking
<1> QED  BY <1>3, <1>4, <1>5, <1>6, Silent DEF IInv

\* A call fails without a reply.
LEMMA NoAnswer ==
  ASSUME IInv, driver.at \in {"ping", "start", "stop"}, NEW why \in {"lost", "late"},
         CallFailed(why, NoReply), started' = started, timeouts' = 0 => timeouts = 0
  PROVE  /\ rows' \in [1 .. Units -> Rows] /\ RowsMatch' /\ FaultsReported'
         /\ waiting' = FALSE
         /\ driver' \in [at : {"start", "done"}, no : 0 .. Units]
         /\ driver'.at = "start" => driver.at # "ping" /\ driver'.no \in 1 .. Units
<1>1. TypeOK /\ Wired /\ RowsMatch /\ FaultsReported  BY DEF IInv
<1>2. /\ waiting' = FALSE
      /\ driver' \in [at : {"start", "done"}, no : 0 .. Units]
      /\ driver'.at = "start" => driver.at # "ping" /\ driver'.no \in 1 .. Units
      /\ driver.at = "ping" => rows' = rows
      /\ driver.at # "ping" => driver.no \in 1 .. Units /\ Row(why, NoReply)
  BY <1>1, FailedCall
<1>3. NoReply \in Replies
  BY ControlAssumption DEF NoReply, Replies, Numbers
<1>4. CASE driver.at = "ping"
  <2>1. rows' = rows /\ rows \in [1 .. Units -> Rows]  BY <1>1, <1>2, <1>4 DEF TypeOK
  <2> QED  BY <1>1, <1>2, <2>1, RowsKept
<1>5. CASE driver.at # "ping"
  <2>1. why \in {"pending", "started", "answered", "refused", "lost", "late"}  OBVIOUS
  <2>2. why \notin {"started", "answered", "refused"}  OBVIOUS
  <2>3. rows' \in [1 .. Units -> Rows] /\ RowsMatch' /\ FaultsReported'
    BY <1>1, <1>2, <1>3, <1>5, <2>1, <2>2, RowWritten
  <2> QED  BY <1>2, <2>3
<1> QED  BY <1>4, <1>5

LEMMA SendRequestStep ==
  ASSUME IInv, SendRequest
  PROVE  IInv'
<1>1. /\ TypeOK /\ Wired /\ RowsMatch /\ FaultsReported
      /\ started \in 1 .. MaxDrivers /\ link \in [1 .. MaxDrivers -> Links]
      /\ driver.no \in 0 .. Units
      /\ driver \in [at : {"connect", "ping", "start", "drain", "stop", "done", "killed", "sigpipe"}, no : 0 .. Units]
      /\ rows \in [1 .. Units -> Rows] /\ waiting \in BOOLEAN
  BY Typed DEF IInv, TypeOK
<1>2. driver.at \in {"ping", "start", "stop"} /\ ~waiting /\ UNCHANGED <<started, timeouts, daemonVars>>
  BY DEF SendRequest, RequestOf
<1>3. "dead" \in States /\ "closed" \in States  BY DEF States
<1>4. /\ driver.at \in {"start", "stop"} => driver.no \in 1 .. Units
      /\ served < started => driver.at = "ping"
  BY <1>1, <1>2 DEF Wired
<1>5. CASE /\ Mine.state = "open"
           /\ link' = [link EXCEPT ![started].up =
                         Append(@, [op |-> RequestOf[driver.at], no |-> <<started, driver.no>>])]
           /\ waiting' = TRUE
           /\ UNCHANGED <<driver, rows>>
  BY <1>2, <1>5, RequestSent
<1>6. CASE /\ link' = [link EXCEPT ![started].state = "dead"]
           /\ waiting' = TRUE
           /\ UNCHANGED <<driver, rows>>
  <2>1. Changed(link, link', started, "dead", Mine.up, Mine.down)
    <3>1. link' = WithState(link, started, "dead")  BY <1>6 DEF WithState
    <3> QED  BY <1>1, <1>3, <3>1, WithStateFacts DEF Mine
  <2>2. RowsMatch' /\ FaultsReported' /\ rows' \in [1 .. Units -> Rows]  BY <1>1, <1>2, <1>6, RowsKept
  <2>3. driver' \in [at : {"ping", "start", "drain", "stop", "done", "killed", "sigpipe"}, no : 0 .. Units]
    BY <1>1, <1>2, <1>6
  <2> QED  BY <1>2, <1>3, <1>4, <1>6, <2>1, <2>2, <2>3, Cut
<1>7. CASE /\ link' = [link EXCEPT ![started].state = "dead"]
           /\ CallFailed("lost", NoReply)
  <2>1. Changed(link, link', started, "dead", Mine.up, Mine.down)
    <3>1. link' = WithState(link, started, "dead")  BY <1>7 DEF WithState
    <3> QED  BY <1>1, <1>3, <3>1, WithStateFacts DEF Mine
  <2>2. /\ rows' \in [1 .. Units -> Rows] /\ RowsMatch' /\ FaultsReported' /\ waiting' = FALSE
        /\ driver' \in [at : {"start", "done"}, no : 0 .. Units]
        /\ driver'.at = "start" => driver.at # "ping" /\ driver'.no \in 1 .. Units
    BY <1>2, <1>7, NoAnswer
  <2>3. driver' \in [at : {"ping", "start", "drain", "stop", "done", "killed", "sigpipe"}, no : 0 .. Units]
    BY <2>2
  <2>4. /\ driver'.at \in {"start", "drain", "stop"} => driver'.no \in 1 .. Units
        /\ served < started => driver'.at \in {"ping", "done", "killed", "sigpipe"}
    BY <1>4, <2>2
  <2> QED  BY <1>2, <1>3, <2>1, <2>2, <2>3, <2>4, Cut
<1>8. CASE /\ link' = [link EXCEPT ![started].state = "closed"]
           /\ driver' = [driver EXCEPT !.at = "sigpipe"]
           /\ UNCHANGED <<waiting, rows>>
  <2>1. Changed(link, link', started, "closed", Mine.up, Mine.down)
    <3>1. link' = WithState(link, started, "closed")  BY <1>8 DEF WithState
    <3> QED  BY <1>1, <1>3, <3>1, WithStateFacts DEF Mine
  <2>2. RowsMatch' /\ FaultsReported' /\ rows' \in [1 .. Units -> Rows]  BY <1>1, <1>2, <1>8, RowsKept
  <2>3. driver' \in [at : {"ping", "start", "drain", "stop", "done", "killed", "sigpipe"}, no : 0 .. Units]
        /\ driver'.at = "sigpipe"
    BY <1>1, <1>8
  <2>4. waiting' = FALSE  BY <1>1, <1>2, <1>8
  <2> QED  BY <1>2, <1>3, <1>8, <2>1, <2>2, <2>3, <2>4, Cut
<1> QED  BY <1>5, <1>6, <1>7, <1>8 DEF SendRequest

\* The socket closes.
LEMMA HangupStep ==
  ASSUME IInv, Hangup
  PROVE  IInv'
<1>1. /\ TypeOK /\ Wired /\ RowsMatch /\ FaultsReported
      /\ started \in 1 .. MaxDrivers /\ link \in [1 .. MaxDrivers -> Links]
      /\ driver \in [at : {"connect", "ping", "start", "drain", "stop", "done", "killed", "sigpipe"}, no : 0 .. Units]
      /\ rows \in [1 .. Units -> Rows]
  BY Typed DEF IInv, TypeOK
<1>2. /\ UNCHANGED <<started, timeouts, rows, daemonVars>> /\ waiting' = FALSE
      /\ link' = [link EXCEPT ![started].state = "closed"]
      /\ driver' = IF driver.at = "done" THEN driver ELSE [driver EXCEPT !.at = "killed"]
  BY DEF Hangup
<1>3. "closed" \in States  BY DEF States
<1>4. Changed(link, link', started, "closed", Mine.up, Mine.down)
  <2>1. link' = WithState(link, started, "closed")  BY <1>2 DEF WithState
  <2> QED  BY <1>1, <1>3, <2>1, WithStateFacts DEF Mine
<1>5. RowsMatch' /\ FaultsReported' /\ rows' \in [1 .. Units -> Rows]  BY <1>1, <1>2, RowsKept
<1>6. driver' \in [at : {"ping", "start", "drain", "stop", "done", "killed", "sigpipe"}, no : 0 .. Units]
      /\ driver'.at \in {"done", "killed", "sigpipe"}
  BY <1>1, <1>2
<1> QED  BY <1>2, <1>3, <1>4, <1>5, <1>6, Cut

\* The driver goes on to ask for the next unit, or is done, having read what
\* was asked for (d = Tail(Mine.down)) or not (d = Mine.down).
LEMMA GoesOn ==
  ASSUME IInv, waiting, Talking, NEW d \in Seq(Replies), d \in {Mine.down, Tail(Mine.down)},
         Changed(link, link', started, Mine.state, Mine.up, d),
         UNCHANGED <<started, daemonVars>>, timeouts' \in 0 .. MaxTimeouts, waiting' = FALSE,
         rows' \in [1 .. Units -> Rows], RowsMatch', FaultsReported',
         driver' \in [at : {"start", "drain", "done"}, no : 0 .. Units],
         driver'.at \in {"start", "drain"} => driver'.no \in 1 .. Units,
         served < started => driver'.at = "done" /\ d = <<>>,
         driver'.at # "done" => Reads(driver'.at, "driver", Current', Mine.up, d),
         driver'.at # "done" /\ Owes(driver.at, "daemon", Current, Mine.up, Mine.down, Busy)
           => Owes(driver'.at, "driver", Current', Mine.up, d, Busy),
         driver'.at # "done" /\ timeouts' = 0 => Level("driver", Mine.up, d)
  PROVE  IInv'
<1>1. TypeOK /\ Wired /\ UnitTrue /\ Serves  BY DEF IInv
<1>2. Mine.state = "half" => Mine.up = <<>>  BY <1>1 DEF Wired
<1>3. /\ Wired' /\ link' \in [1 .. MaxDrivers -> Links]
      /\ Mine'.state = Mine.state /\ Mine'.up = Mine.up /\ Mine'.down = d
  BY <1>1, <1>2, DriverSide
<1>4. TypeOK'
  <2>1. driver' \in [at : {"connect", "ping", "start", "drain", "stop", "done", "killed", "sigpipe"}, no : 0 .. Units]
    OBVIOUS
  <2>2. waiting' \in BOOLEAN  OBVIOUS
  <2> QED  BY <1>1, <1>3, <2>1, <2>2 DEF TypeOK, daemonVars
<1>5. UnitTrue'  BY <1>1 DEF UnitTrue, daemonVars
<1>6. Turn = "daemon" /\ Turn' = "driver" /\ Live' = Live /\ Busy' = Busy
  BY DEF Turn, Live, Busy, daemonVars
<1>7. CASE driver'.at = "done"
  <2>1. ~Talking'  BY <1>7 DEF Talking
  <2> QED  BY <1>3, <1>4, <1>5, <2>1, Silent DEF IInv
<1>8. CASE driver'.at # "done"
  <2>1. Reading' /\ NotBehind'  BY <1>3, <1>6, <1>8 DEF Reading, NotBehind
  <2>2. Serves'  BY <1>1, <1>3, <1>6, <1>8 DEF Serves
  <2> QED  BY <1>3, <1>4, <1>5, <2>1, <2>2 DEF IInv
<1> QED  BY <1>7, <1>8

\* A connection that does not change.
LEMMA Unchanged ==
  ASSUME TypeOK
  PROVE  Changed(link, link, started, Mine.state, Mine.up, Mine.down)
BY Typed DEF Changed, Mine

\* A call fails on a connection that is still there.
LEMMA GivesUp ==
  ASSUME IInv, waiting, Mine.state \in {"open", "half"}, Mine.down = <<>>,
         NEW why \in {"lost", "late"}, CallFailed(why, NoReply), link' = link,
         UNCHANGED <<started, daemonVars>>, timeouts' \in 0 .. MaxTimeouts,
         timeouts' = 0 => timeouts = 0, timeouts' = 0 => Mine.up = <<>>
  PROVE  IInv'
<1>1. TypeOK /\ Wired /\ Reading /\ NotBehind  BY DEF IInv
<1>2. driver.at \in {"ping", "start", "stop"}  BY <1>1 DEF Wired
<1>3. /\ rows' \in [1 .. Units -> Rows] /\ RowsMatch' /\ FaultsReported'
      /\ waiting' = FALSE
      /\ driver' \in [at : {"start", "done"}, no : 0 .. Units]
      /\ driver'.at = "start" => driver.at # "ping" /\ driver'.no \in 1 .. Units
  BY <1>2, NoAnswer
<1>4. Talking /\ Turn = "daemon"  BY <1>2 DEF Talking, Turn
<1>5. Mine.up \in Seq(Requests) /\ Mine.down \in Seq(Replies)  BY <1>1, Typed
<1>6. Changed(link, link', started, Mine.state, Mine.up, Mine.down)  BY <1>1, Unchanged
<1>7. driver'.at # "done" => driver'.at = "start" /\ driver.at \in {"start", "stop"}
  BY <1>2, <1>3
<1>8. driver'.at # "done" => Reads(driver'.at, "driver", Current', Mine.up, Mine.down)
  <2>1. Reads(driver.at, "daemon", Current, Mine.up, Mine.down)  BY <1>1, <1>4 DEF Reading
  <2> QED  BY <1>5, <1>7, <2>1, GivenUpReads
<1>9. driver'.at # "done" /\ Owes(driver.at, "daemon", Current, Mine.up, Mine.down, Busy)
        => Owes(driver'.at, "driver", Current', Mine.up, Mine.down, Busy)
  BY <1>5, <1>7, GivenUpOwes
<1>10. timeouts' # 0
  <2>1. SUFFICES ASSUME timeouts' = 0 PROVE FALSE  OBVIOUS
  <2>2. Level("daemon", Mine.up, Mine.down)  BY <1>1, <1>4, <2>1 DEF NotBehind
  <2>3. Len(Mine.up) = 0 /\ Len(Mine.down) = 0  BY <2>1
  <2> QED  BY <2>2, <2>3 DEF Level
<1>11. served < started => driver'.at = "done" /\ Mine.down = <<>>
  BY <1>1, <1>2, <1>7 DEF Wired
<1>12. /\ driver' \in [at : {"start", "drain", "done"}, no : 0 .. Units]
       /\ driver'.at \in {"start", "drain"} => driver'.no \in 1 .. Units
  BY <1>3
<1> QED  BY <1>3, <1>4, <1>5, <1>6, <1>8, <1>9, <1>10, <1>11, <1>12, GoesOn

LEMMA ReplyTimesOutStep ==
  ASSUME IInv, ReplyTimesOut
  PROVE  IInv'
<1>1. timeouts' \in 0 .. MaxTimeouts /\ timeouts' # 0
  <2>1. timeouts \in 0 .. MaxTimeouts /\ MaxTimeouts \in Nat \ {0}
    BY ControlAssumption DEF IInv, TypeOK
  <2>2. timeouts' = IF timeouts < MaxTimeouts THEN timeouts + 1 ELSE timeouts
    BY DEF ReplyTimesOut
  <2> QED  BY <2>1, <2>2
<1>2. /\ waiting /\ Mine.state = "open" /\ Mine.down = <<>> /\ CallFailed("late", NoReply)
      /\ link' = link /\ UNCHANGED <<started, daemonVars>>
  BY DEF ReplyTimesOut
<1> QED  BY <1>1, <1>2, GivesUp

LEMMA ConnectionLostStep ==
  ASSUME IInv, ConnectionLost
  PROVE  IInv'
<1>1. /\ TypeOK /\ Wired
      /\ started \in 1 .. MaxDrivers /\ link \in [1 .. MaxDrivers -> Links]
      /\ timeouts \in 0 .. MaxTimeouts
  BY Typed DEF IInv, TypeOK
<1>2. /\ waiting /\ CallFailed("lost", NoReply) /\ UNCHANGED <<started, timeouts, daemonVars>>
      /\ link' = [link EXCEPT ![started].state = IF @ = "reset" THEN "dead" ELSE @]
  BY DEF ConnectionLost
<1>3. driver.at \in {"ping", "start", "stop"}  BY <1>1, <1>2 DEF Wired
<1>4. CASE Mine.state \in {"reset", "dead"}
  <2>1. Changed(link, link', started, "dead", Mine.up, Mine.down)
    <3>1. link' = WithState(link, started, "dead")  BY <1>2, <1>4 DEF WithState, Mine
    <3>2. "dead" \in States  BY DEF States
    <3> QED  BY <1>1, <3>1, <3>2, WithStateFacts DEF Mine
  <2>2. /\ rows' \in [1 .. Units -> Rows] /\ RowsMatch' /\ FaultsReported' /\ waiting' = FALSE
        /\ driver' \in [at : {"start", "done"}, no : 0 .. Units]
        /\ driver'.at = "start" => driver.at # "ping" /\ driver'.no \in 1 .. Units
    BY <1>2, <1>3, NoAnswer
  <2>3. driver' \in [at : {"ping", "start", "drain", "stop", "done", "killed", "sigpipe"}, no : 0 .. Units]
    BY <2>2
  <2>4. /\ driver'.at \in {"start", "drain", "stop"} => driver'.no \in 1 .. Units
        /\ served < started => driver'.at \in {"ping", "done", "killed", "sigpipe"}
    BY <1>1, <1>3, <2>2 DEF Wired
  <2>5. "dead" \in States  BY DEF States
  <2> QED  BY <1>2, <2>1, <2>2, <2>3, <2>4, <2>5, Cut
<1>5. CASE Mine.state = "half" /\ Mine.down = <<>>
  <2>1. link' = link
    <3>1. link' = [link EXCEPT ![started].state = link[started].state]  BY <1>2, <1>5 DEF Mine
    <3> QED  BY <1>1, <3>1 DEF Links
  <2>2. Mine.up = <<>>  BY <1>1, <1>5 DEF Wired
  <2> QED  BY <1>1, <1>2, <1>5, <2>1, <2>2, GivesUp
<1> QED  BY <1>4, <1>5 DEF ConnectionLost

LEMMA DrainedStep ==
  ASSUME IInv, Drained
  PROVE  IInv'
<1>1. /\ TypeOK /\ Wired /\ UnitTrue /\ Reading /\ Serves /\ NotBehind /\ RowsMatch /\ FaultsReported
      /\ driver \in [at : {"connect", "ping", "start", "drain", "stop", "done", "killed", "sigpipe"}, no : 0 .. Units]
      /\ waiting \in BOOLEAN
  BY DEF IInv, TypeOK
<1>2. /\ driver.at = "drain" /\ driver' = [driver EXCEPT !.at = "stop"]
      /\ UNCHANGED <<started, waiting, timeouts, rows, link, daemonVars>>
  BY DEF Drained
<1>3. /\ driver'.at = "stop" /\ driver'.no = driver.no
      /\ driver' \in [at : {"connect", "ping", "start", "drain", "stop", "done", "killed", "sigpipe"}, no : 0 .. Units]
  BY <1>1, <1>2
<1>4. waiting = FALSE /\ driver.no \in 1 .. Units  BY <1>1, <1>2 DEF Wired
<1>5. TypeOK'  BY <1>1, <1>2, <1>3 DEF TypeOK, daemonVars
<1>6. Wired'  BY <1>1, <1>2, <1>3, <1>4 DEF Wired, daemonVars, Mine
<1>7. UnitTrue'  BY <1>1, <1>2 DEF UnitTrue, daemonVars
<1>8. Turn = "driver" /\ Turn' = "driver" /\ Current' = Current /\ Mine' = Mine /\ Busy' = Busy /\ Live' = Live
  BY <1>2, <1>3, <1>4 DEF Turn, Current, Mine, Busy, Live, daemonVars
<1>9. Talking' = Talking  BY <1>2, <1>3, <1>8 DEF Talking
<1>10. Reading'
  <2>1. SUFFICES ASSUME Talking PROVE Reads("stop", "driver", Current, Mine.up, Mine.down)
    BY <1>3, <1>8, <1>9 DEF Reading
  <2>2. Reads("drain", "driver", Current, Mine.up, Mine.down)  BY <1>1, <1>2, <1>8, <2>1 DEF Reading
  <2> QED  BY <2>2 DEF Reads, Awaits, Holds
<1>11. Serves'
  <2>1. SUFFICES ASSUME Talking, Live PROVE Owes("stop", "driver", Current, Mine.up, Mine.down, Busy)
    BY <1>3, <1>8, <1>9 DEF Serves
  <2>2. Owes("drain", "driver", Current, Mine.up, Mine.down, Busy)  BY <1>1, <1>2, <1>8, <2>1 DEF Serves
  <2> QED  BY <2>2 DEF Owes, Awaits, Holds
<1>12. NotBehind'  BY <1>1, <1>2, <1>8, <1>9 DEF NotBehind
<1>13. RowsMatch' /\ FaultsReported'  BY <1>1, <1>2, RowsKept
<1> QED  BY <1>5, <1>6, <1>7, <1>10, <1>11, <1>12, <1>13 DEF IInv

LEMMA NewDriverStep ==
  ASSUME IInv, NewDriver
  PROVE  IInv'
<1>1. /\ TypeOK /\ Wired /\ UnitTrue
      /\ started \in 1 .. MaxDrivers /\ MaxDrivers \in Nat \ {0} /\ served \in 0 .. started
  BY Typed DEF IInv, TypeOK
<1>2. /\ started < MaxDrivers /\ started' = started + 1 /\ driver.at \in {"done", "killed", "sigpipe"}
      /\ driver' = [at |-> "connect", no |-> 0] /\ rows' = [u \in 1 .. Units |-> NoRow]
      /\ UNCHANGED <<waiting, timeouts, link, daemonVars>>
  BY DEF NewDriver
<1>3. started' \in 1 .. MaxDrivers /\ served \in 0 .. started' /\ served < started'  BY <1>1, <1>2
<1>4. NoRow \in Rows /\ NoRow.status = "pending"
  BY ControlAssumption DEF NoRow, Rows, NoReply, Replies, Numbers
<1>5. rows' \in [1 .. Units -> Rows] /\ \A u \in 1 .. Units : rows'[u].status = "pending"
  BY <1>2, <1>4
<1>6. driver'.at = "connect"
      /\ driver' \in [at : {"connect", "ping", "start", "drain", "stop", "done", "killed", "sigpipe"}, no : 0 .. Units]
  BY <1>2, ControlAssumption
<1>7. TypeOK'  BY <1>1, <1>2, <1>3, <1>5, <1>6 DEF TypeOK, daemonVars
<1>8. Wired'
  <2>1. \A d \in 1 .. MaxDrivers : d > started' => d > started  BY <1>1, <1>2
  <2>2. \A d \in 1 .. MaxDrivers : d > started' => link'[d] = NoLink  BY <1>1, <1>2, <2>1 DEF Wired
  <2>3. started' > started  BY <1>1, <1>2
  <2>4. Mine' = NoLink  BY <1>1, <1>2, <1>3, <2>3 DEF Wired, Mine
  <2>5. NoLink.up = <<>> /\ NoLink.down = <<>> /\ NoLink.state = "none"  BY DEF NoLink
  <2>6. ~waiting  BY <1>1, <1>2 DEF Wired
  <2> QED  BY <1>1, <1>2, <1>3, <1>6, <2>2, <2>4, <2>5, <2>6 DEF Wired, daemonVars
<1>9. UnitTrue'  BY <1>1, <1>2 DEF UnitTrue, daemonVars
<1>10. ~Talking'  BY <1>6 DEF Talking
<1>11. RowsMatch' /\ FaultsReported'  BY <1>5 DEF RowsMatch, FaultsReported
<1> QED  BY <1>7, <1>8, <1>9, <1>10, <1>11, Silent DEF IInv

\* A line is taken that the call did not want ...
LEMMA Refused ==
  ASSUME IInv, waiting, Mine.state \in {"open", "half"}, Mine.down # <<>>,
         Changed(link, link', started, Mine.state, Mine.up, Tail(Mine.down)),
         Head(Mine.down).op \notin Expected[driver.at],
         CallFailed("refused", Head(Mine.down)), UNCHANGED <<started, timeouts, daemonVars>>
  PROVE  IInv'
<1> DEFINE h == Head(Mine.down)
           d == Tail(Mine.down)
<1>1. /\ TypeOK /\ Wired /\ Reading /\ NotBehind /\ RowsMatch /\ FaultsReported
      /\ Mine.up \in Seq(Requests) /\ Mine.down \in Seq(Replies)
      /\ timeouts \in 0 .. MaxTimeouts /\ rows \in [1 .. Units -> Rows]
  BY Typed DEF IInv, TypeOK
<1>2. driver.at \in {"ping", "start", "stop"}  BY <1>1 DEF Wired
<1>3. Talking /\ Turn = "daemon"  BY <1>2 DEF Talking, Turn
<1>4. Reads(driver.at, "daemon", Current, Mine.up, Mine.down)  BY <1>1, <1>3 DEF Reading
<1>5. d \in Seq(Replies) /\ h \in Replies  BY <1>1, Taken
<1>6. /\ waiting' = FALSE
      /\ driver' \in [at : {"start", "done"}, no : 0 .. Units]
      /\ driver'.at = "start" => driver.at # "ping" /\ driver'.no \in 1 .. Units
      /\ driver.at = "ping" => rows' = rows
      /\ driver.at # "ping" => driver.no \in 1 .. Units /\ Row("refused", h)
  BY <1>1, <1>2, FailedCall
<1>7. /\ driver.at = "start" => h.op # "OK"
      /\ driver.at = "stop" => h.op # "DONE"
  BY DEF Expected
<1>8. driver.at # "ping" => h.op # "OK"
  <2>1. CASE driver.at = "stop"
    <3>1. h.op \in {"BUSY", "DONE"}  BY <1>1, <1>4, <2>1, OwnAnswer
    <3> QED  BY <3>1
  <2> QED  BY <1>2, <1>7, <2>1
<1>9. timeouts = 0 => Level("driver", Mine.up, d) /\ h.op # "BUSY" /\ Len(Mine.down) = 1 /\ Len(Mine.up) = 0
  <2>1. timeouts = 0 => Level("daemon", Mine.up, Mine.down)  BY <1>1, <1>3 DEF NotBehind
  <2> QED  BY <1>1, <2>1, ReadLevel
<1>10. driver.at # "ping" /\ timeouts = 0 => h.op = "NOPORT"
  <2>1. CASE driver.at = "start"
    <3>1. timeouts = 0 => h.op \in {"OK", "BUSY", "NOPORT"}  BY <1>1, <1>4, <1>9, <2>1, OwnAnswer
    <3> QED  BY <1>7, <1>9, <2>1, <3>1
  <2>2. CASE driver.at = "stop"
    <3>1. h.op \in {"BUSY", "DONE"}  BY <1>1, <1>4, <2>2, OwnAnswer
    <3> QED  BY <1>7, <1>9, <2>2, <3>1
  <2> QED  BY <1>2, <2>1, <2>2
<1> HIDE DEF h, d
<1>11. rows' \in [1 .. Units -> Rows] /\ RowsMatch' /\ FaultsReported'
  <2>1. CASE driver.at = "ping"  BY <1>1, <1>6, <2>1, RowsKept
  <2>2. CASE driver.at # "ping"
    <3>1. Row("refused", h) /\ driver.no \in 1 .. Units  BY <1>6, <2>2
    <3>2. timeouts' = 0 => timeouts = 0 /\ h.op = "NOPORT"  BY <1>10, <2>2
    <3> QED  BY <1>1, <1>5, <3>1, <3>2, RowWritten
  <2> QED  BY <2>1, <2>2
<1>12. driver'.at # "done" => driver'.at = "start" /\ driver.at \in {"start", "stop"}
  BY <1>2, <1>6
<1>13. driver'.at # "done" => Reads(driver'.at, "driver", Current', Mine.up, d)
  BY <1>1, <1>4, <1>12, RefusedReads DEF d
<1>14. driver'.at # "done" /\ Owes(driver.at, "daemon", Current, Mine.up, Mine.down, Busy)
        => Owes(driver'.at, "driver", Current', Mine.up, d, Busy)
  <2>1. SUFFICES ASSUME driver'.at # "done", Owes(driver.at, "daemon", Current, Mine.up, Mine.down, Busy)
                 PROVE  Owes(driver'.at, "driver", Current', Mine.up, d, Busy)
    OBVIOUS
  <2>2. Head(Mine.down).op # "OK"  BY <1>8, <1>12, <2>1 DEF h
  <2>3. Owes("start", "driver", Current', Mine.up, d, Busy)
    BY <1>1, <1>12, <2>1, <2>2, RefusedOwes DEF d
  <2> QED  BY <1>12, <2>1, <2>3
<1>15. served = started
  <2>1. served \in 0 .. started /\ started \in Nat  BY <1>1, Typed DEF TypeOK
  <2>2. ~(served < started)  BY <1>1 DEF Wired
  <2> QED  BY <2>1, <2>2
<1>16. /\ driver' \in [at : {"start", "drain", "done"}, no : 0 .. Units]
       /\ driver'.at \in {"start", "drain"} => driver'.no \in 1 .. Units
       /\ ~(served < started)
  BY <1>1, <1>6, <1>15, Typed
<1>17. /\ d \in {Mine.down, Tail(Mine.down)}
       /\ Changed(link, link', started, Mine.state, Mine.up, d)
  BY DEF d
<1>18. timeouts' \in 0 .. MaxTimeouts /\ (timeouts' = 0 => Level("driver", Mine.up, d))
  BY <1>1, <1>9
<1> QED  BY <1>3, <1>5, <1>6, <1>11, <1>13, <1>14, <1>16, <1>17, <1>18, GoesOn

\* ... or one that it wanted.
LEMMA Answered ==
  ASSUME IInv, waiting, Mine.state \in {"open", "half"}, Mine.down # <<>>,
         Changed(link, link', started, Mine.state, Mine.up, Tail(Mine.down)),
         Head(Mine.down).op \in Expected[driver.at], waiting' = FALSE,
         \/ driver.at = "ping" /\ driver' = NextUnit /\ UNCHANGED rows
         \/ /\ driver.at = "start"
            /\ driver' = [driver EXCEPT !.at = "drain"]
            /\ Row("started", Head(Mine.down))
         \/ driver.at = "stop" /\ driver' = NextUnit /\ Row("answered", Head(Mine.down)),
         UNCHANGED <<started, timeouts, daemonVars>>
  PROVE  IInv'
<1> DEFINE h == Head(Mine.down)
           d == Tail(Mine.down)
<1>1. /\ TypeOK /\ Wired /\ Reading /\ NotBehind /\ RowsMatch /\ FaultsReported
      /\ Mine.up \in Seq(Requests) /\ Mine.down \in Seq(Replies)
      /\ timeouts \in 0 .. MaxTimeouts /\ rows \in [1 .. Units -> Rows]
      /\ driver \in [at : {"connect", "ping", "start", "drain", "stop", "done", "killed", "sigpipe"}, no : 0 .. Units]
      /\ driver.no \in 0 .. Units /\ Units \in Nat
  BY Typed DEF IInv, TypeOK
<1>2. driver.at \in {"ping", "start", "stop"}  OBVIOUS
<1>3. Talking /\ Turn = "daemon"  BY <1>2 DEF Talking, Turn
<1>4. Reads(driver.at, "daemon", Current, Mine.up, Mine.down)  BY <1>1, <1>3 DEF Reading
<1>5. d \in Seq(Replies) /\ h \in Replies  BY <1>1, Taken
<1>6. /\ driver.at = "start" => h.op = "OK"
      /\ driver.at = "stop" => h.op = "DONE"
  BY DEF Expected
<1>7. timeouts = 0 => Level("driver", Mine.up, d) /\ Len(Mine.down) = 1 /\ Len(Mine.up) = 0
  <2>1. timeouts = 0 => Level("daemon", Mine.up, Mine.down)  BY <1>1, <1>3 DEF NotBehind
  <2> QED  BY <1>1, <2>1, ReadLevel
<1>8. ~(served < started)  BY <1>1 DEF Wired
<1>9. NextUnit \in [at : {"start", "drain", "done"}, no : 0 .. Units]
      /\ (NextUnit.at # "done" => NextUnit.at = "start" /\ NextUnit.no \in 1 .. Units)
  BY <1>1 DEF NextUnit
<1>10. timeouts' \in 0 .. MaxTimeouts /\ (timeouts' = 0 => Level("driver", Mine.up, d))
  BY <1>1, <1>7
<1>11. /\ d \in {Mine.down, Tail(Mine.down)}
       /\ Changed(link, link', started, Mine.state, Mine.up, d)
  OBVIOUS
<1>12. CASE driver.at = "ping" /\ driver' = NextUnit /\ UNCHANGED rows
  <2>1. rows' \in [1 .. Units -> Rows] /\ RowsMatch' /\ FaultsReported'  BY <1>1, <1>12, RowsKept
  <2>2. Reads("start", "driver", Current', Mine.up, d)  BY <1>1, <1>4, <1>12, PongRead
  <2>3. Owes(driver.at, "daemon", Current, Mine.up, Mine.down, Busy)
          => Owes("start", "driver", Current', Mine.up, d, Busy)
    BY <1>1, <1>4, <1>12, PongRead
  <2> HIDE DEF d
  <2> QED  BY <1>3, <1>5, <1>8, <1>9, <1>10, <1>11, <1>12, <2>1, <2>2, <2>3, GoesOn
<1>13. CASE driver.at = "stop" /\ driver' = NextUnit /\ Row("answered", h)
  <2>1. h.no = Current /\ Reports(h) /\ h.op # "OK"  BY <1>1, <1>4, <1>6, <1>13, OwnAnswer
  <2>2. driver.no \in 1 .. Units  BY <1>1, <1>13 DEF Wired
  <2>3. Reads("start", "driver", Current', Mine.up, d)  BY <1>1, <1>4, <1>13, RefusedReads
  <2>4. Owes(driver.at, "daemon", Current, Mine.up, Mine.down, Busy)
          => Owes("start", "driver", Current', Mine.up, d, Busy)
    BY <1>1, <1>13, <2>1, RefusedOwes
  <2> HIDE DEF d, h
  <2>5. rows' \in [1 .. Units -> Rows] /\ RowsMatch' /\ FaultsReported'
    BY <1>1, <1>5, <1>13, <2>1, <2>2, RowWritten
  <2> QED  BY <1>3, <1>5, <1>8, <1>9, <1>10, <1>11, <1>13, <2>3, <2>4, <2>5, GoesOn
<1>14. CASE driver.at = "start" /\ driver' = [driver EXCEPT !.at = "drain"] /\ Row("started", h)
  <2>1. driver.no \in 1 .. Units  BY <1>1, <1>14 DEF Wired
  <2>2. /\ driver'.at = "drain" /\ driver'.no = driver.no
        /\ driver' \in [at : {"start", "drain", "done"}, no : 0 .. Units]
    BY <1>1, <1>14
  <2>3. Current' = Current  BY <2>2 DEF Current
  <2>4. Reads("drain", "driver", Current, Mine.up, d)  BY <1>1, <1>4, <1>6, <1>14, OkRead
  <2>5. Owes("start", "daemon", Current, Mine.up, Mine.down, Busy)
          => Owes("drain", "driver", Current, Mine.up, d, Busy)
    BY <1>1, <1>4, <1>6, <1>14, OkRead
  <2>6. timeouts = 0 => h.no = Current  BY <1>1, <1>4, <1>7, <1>14, OwnAnswer
  <2> HIDE DEF d, h
  <2>7. rows' \in [1 .. Units -> Rows] /\ RowsMatch' /\ FaultsReported'
    BY <1>1, <1>5, <1>14, <2>1, <2>6, RowWritten
  <2>8. driver'.at # "done" => Reads(driver'.at, "driver", Current', Mine.up, d)
    BY <2>2, <2>3, <2>4
  <2>9. driver'.at # "done" /\ Owes(driver.at, "daemon", Current, Mine.up, Mine.down, Busy)
          => Owes(driver'.at, "driver", Current', Mine.up, d, Busy)
    BY <1>14, <2>2, <2>3, <2>5
  <2>10. driver'.at \in {"start", "drain"} => driver'.no \in 1 .. Units  BY <2>1, <2>2
  <2> QED  BY <1>3, <1>5, <1>8, <1>10, <1>11, <2>2, <2>7, <2>8, <2>9, <2>10, GoesOn
<1> QED  BY <1>12, <1>13, <1>14

LEMMA ReceiveReplyStep ==
  ASSUME IInv, ReceiveReply
  PROVE  IInv'
<1>1. /\ started \in 1 .. MaxDrivers /\ link \in [1 .. MaxDrivers -> Links]
      /\ Mine.down \in Seq(Replies)
  BY Typed DEF IInv
<1>2. /\ waiting /\ Mine.state \in {"open", "half"} /\ Mine.down # <<>>
      /\ link' = [link EXCEPT ![started].down = Tail(@)]
      /\ UNCHANGED <<started, timeouts, daemonVars>>
  BY DEF ReceiveReply
<1>3. Changed(link, link', started, Mine.state, Mine.up, Tail(Mine.down))
  <2>1. Tail(Mine.down) \in Seq(Replies)  BY <1>1, <1>2, Taken
  <2>2. link' = WithDown(link, started, Tail(Mine.down))  BY <1>2 DEF WithDown, Mine
  <2> QED  BY <1>1, <2>1, <2>2, WithDownFacts DEF Mine
<1>4. CASE Head(Mine.down).op \notin Expected[driver.at] /\ CallFailed("refused", Head(Mine.down))
  BY <1>2, <1>3, <1>4, Refused
<1>5. CASE /\ Head(Mine.down).op \in Expected[driver.at]
           /\ waiting' = FALSE
           /\ \/ driver.at = "ping" /\ driver' = NextUnit /\ UNCHANGED rows
              \/ /\ driver.at = "start"
                 /\ driver' = [driver EXCEPT !.at = "drain"]
                 /\ Row("started", Head(Mine.down))
              \/ driver.at = "stop" /\ driver' = NextUnit /\ Row("answered", Head(Mine.down))
  BY <1>2, <1>3, <1>5, Answered
<1> QED  BY <1>4, <1>5 DEF ReceiveReply

-----------------------------------------------------------------------------
(***************************************************************************)
(* The steps of the daemon.                                                *)
(***************************************************************************)

\* A step of the daemon or of a unit's threads that no line shows.
LEMMA Quiet ==
  ASSUME IInv, UNCHANGED <<driverVars, link>>, TypeOK', Wired', UnitTrue',
         Talking /\ Live' => Owes(driver.at, Turn, Current, Mine.up, Mine.down, Busy')
  PROVE  IInv'
<1>1. Reading /\ NotBehind /\ RowsMatch /\ FaultsReported  BY DEF IInv
<1>2. /\ driver' = driver /\ Turn' = Turn /\ Current' = Current /\ Mine' = Mine /\ Talking' = Talking
      /\ timeouts' = timeouts /\ rows' = rows /\ started' = started
  BY DEF driverVars, Turn, Current, Mine, Talking
<1>3. Reading' /\ NotBehind'  BY <1>1, <1>2 DEF Reading, NotBehind
<1>4. Serves'  BY <1>2 DEF Serves
<1>5. RowsMatch' /\ FaultsReported'  BY <1>1, <1>2, RowsKept
<1> QED  BY <1>3, <1>4, <1>5 DEF IInv

UnitType ==
  [active : BOOLEAN, no : Numbers, stop : BOOLEAN,
   sender : {"none", "starting", "running", "ended"},
   returner : {"none", "running", "ended"}, fault : BOOLEAN, sent : {0, 1}]

\* The same when the daemon stays where it is, with the unit it has.
LEMMA ThreadStep ==
  ASSUME IInv, UNCHANGED <<driverVars, link, daemon, served>>,
         gstop' \in BOOLEAN, echo' \in BOOLEAN,
         unit' \in UnitType,
         unit'.active = unit.active, unit'.no = unit.no, UnitTrue'
  PROVE  IInv'
<1>1. TypeOK /\ Wired /\ Serves  BY DEF IInv
<1>2. TypeOK'  BY <1>1 DEF TypeOK, UnitType, driverVars
<1>3. Wired'  BY <1>1 DEF Wired, driverVars, Mine
<1>4. Live' = Live /\ Busy' = Busy  BY DEF Live, Busy, driverVars
<1> QED  BY <1>1, <1>2, <1>3, <1>4, Quiet DEF Serves

LEMMA AcceptStep ==
  ASSUME IInv, Accept
  PROVE  IInv'
<1>1. /\ TypeOK /\ Wired /\ UnitTrue /\ Reading
      /\ started \in 1 .. MaxDrivers /\ MaxDrivers \in Nat /\ served \in 0 .. started
  BY Typed DEF IInv, TypeOK
<1>2. /\ daemon = "accept" /\ daemon' = "serve" /\ served' \in served + 1 .. started
      /\ link[served'].state # "none" /\ UNCHANGED <<driverVars, link, gstop, unit, echo>>
  BY DEF Accept
<1>13. /\ served' \in 1 .. started /\ served < started /\ started' = started
       /\ (served' < started \/ served' = started)
  BY <1>1, <1>2 DEF driverVars
<1>3. TypeOK'
  <2>1. served' \in 0 .. started'  BY <1>1, <1>13
  <2> QED  BY <1>1, <1>2, <2>1 DEF TypeOK, driverVars
<1>4. driver.at = "connect" => served' < started
  <2>1. NoLink.state = "none"  BY DEF NoLink
  <2> QED  BY <1>1, <1>2, <1>13, <2>1 DEF Wired, Mine
<1>5. Wired'
  <2>1. served' > 0  BY <1>13
  <2> QED  BY <1>1, <1>2, <1>4, <1>13, <2>1 DEF Wired, driverVars, Mine
<1>6. UnitTrue'  BY <1>1, <1>2 DEF UnitTrue
<1>7. Busy' = {}
  <2>1. ~unit.active  BY <1>1, <1>2 DEF UnitTrue
  <2> QED  BY <1>2, <2>1 DEF Busy
<1>8. ASSUME Talking PROVE Owes(driver.at, Turn, Current, Mine.up, Mine.down, {})
  <2>1. driver.at = "ping" /\ Mine.down = <<>>  BY <1>1, <1>13, <1>8 DEF Talking, Wired
  <2>2. Only(Mine.up, {"PING"})  BY <1>1, <1>8, <2>1 DEF Reading, Reads
  <2>3. ~Has(Mine.up, "STOP") /\ \A i \in 1 .. Len(Mine.up) : Mine.up[i].op # "STOP"
    BY <2>2 DEF Only, Has
  <2>4. Len(Mine.down) = 0  BY <2>1
  <2> QED  BY <2>1, <2>3, <2>4 DEF Owes, Awaits, Holds
<1> QED  BY <1>2, <1>3, <1>5, <1>6, <1>7, <1>8, Quiet

\* Of the daemon's connection a request goes and a reply comes.
Answering(l, d, r) == [l EXCEPT ![d].up = Tail(@), ![d].down = Append(@, r)]

LEMMA AnsweringFacts ==
  ASSUME NEW l \in [1 .. MaxDrivers -> Links], NEW d \in 1 .. MaxDrivers, NEW r \in Replies,
         l[d].up # <<>>
  PROVE  Changed(l, Answering(l, d, r), d, l[d].state, Tail(l[d].up), Append(l[d].down, r))
<1>1. l[d].up \in Seq(Requests) /\ l[d].down \in Seq(Replies)  BY DEF Links
<1>2. Tail(l[d].up) \in Seq(Requests)  BY <1>1, Taken
<1>3. Append(l[d].down, r) \in Seq(Replies)  BY <1>1, Appended
<1> DEFINE u == Tail(l[d].up)
           w == Append(l[d].down, r)
<1>4. Answering(l, d, r) = [l EXCEPT ![d].up = u, ![d].down = w]  BY DEF Answering
<1>5. u \in Seq(Requests) /\ w \in Seq(Replies)  BY <1>2, <1>3
<1> HIDE DEF u, w
<1>6. Changed(l, [l EXCEPT ![d].up = u, ![d].down = w], d, l[d].state, u, w)
  BY <1>5 DEF Links, Changed
<1> QED  BY <1>4, <1>6 DEF u, w

\* The daemon answers a request.
LEMMA Answer ==
  ASSUME IInv, daemon \in {"serve", "stop"}, link[served].up # <<>>, NEW r \in Replies, Send(r),
         UNCHANGED <<driverVars, served, gstop, echo>>, daemon' = "serve",
         unit' \in UnitType,
         UnitTrue',
         Talking /\ served = started => Answers(Head(Mine.up), r, Busy, Busy')
  PROVE  IInv'
<1>1. /\ TypeOK /\ Wired /\ UnitTrue /\ Reading /\ Serves /\ NotBehind /\ RowsMatch /\ FaultsReported
      /\ started \in 1 .. MaxDrivers /\ MaxDrivers \in Nat /\ link \in [1 .. MaxDrivers -> Links]
      /\ Mine.up \in Seq(Requests) /\ Mine.down \in Seq(Replies)
      /\ served \in 0 .. MaxDrivers /\ served \in 0 .. started /\ Turn \in Turns
  BY Typed DEF IInv, TypeOK
<1>2. served \in 1 .. MaxDrivers /\ served \in 1 .. started
  <2>1. served > 0  BY <1>1 DEF Wired
  <2> QED  BY <1>1, <2>1
<1>3. Changed(link, link', served, link[served].state, Tail(link[served].up), Append(link[served].down, r))
  <2>1. link' = Answering(link, served, r)  BY DEF Send, Answering
  <2> QED  BY <1>1, <1>2, <2>1, AnsweringFacts
<1>4. TypeOK'  BY <1>1, <1>3 DEF TypeOK, UnitType, driverVars, Changed
<1>5. /\ driver' = driver /\ Turn' = Turn /\ Current' = Current /\ started' = started /\ waiting' = waiting
      /\ timeouts' = timeouts /\ rows' = rows
  BY DEF driverVars, Turn, Current
<1>6. RowsMatch' /\ FaultsReported'  BY <1>1, <1>5, RowsKept
<1>7. \A e \in 1 .. MaxDrivers : e > started' => link'[e] = NoLink
  <2>1. \A e \in 1 .. MaxDrivers : e > started => e # served  BY <1>1, <1>2
  <2> QED  BY <1>1, <1>3, <1>5, <2>1 DEF Wired, Changed
<1>8. CASE served = started
  <2>1. Mine'.state = Mine.state /\ Mine'.up = Tail(Mine.up) /\ Mine'.down = Append(Mine.down, r)
    BY <1>3, <1>5, <1>8 DEF Changed, Mine
  <2>2. Mine.up # <<>>  BY <1>8 DEF Mine
  <2>3. Wired'
    <3>1. Mine.state # "half"  BY <1>1, <2>2 DEF Wired
    <3>2. driver.at # "connect"
      <4>1. ~(served < started)  BY <1>1, <1>8
      <4> QED  BY <1>1, <4>1 DEF Wired
    <3>3. ~(served' < started')  BY <1>1, <1>5, <1>8
    <3>4. served' > 0  BY <1>2
    <3> QED  BY <1>1, <1>5, <1>7, <2>1, <3>1, <3>2, <3>3, <3>4 DEF Wired
  <2>4. Talking' = Talking  BY <1>5, <2>1 DEF Talking
  <2>5. CASE ~Talking
    BY <1>4, <1>6, <2>3, <2>4, <2>5, Silent DEF IInv
  <2>6. CASE Talking
    <3>1. Live  BY <1>8 DEF Live
    <3>2. /\ Reads(driver.at, Turn, Current, Mine.up, Mine.down)
          /\ Owes(driver.at, Turn, Current, Mine.up, Mine.down, Busy)
          /\ timeouts = 0 => Level(Turn, Mine.up, Mine.down)
      BY <1>1, <2>6, <3>1 DEF Reading, Serves, NotBehind
    <3>3. Answers(Head(Mine.up), r, Busy, Busy') /\ driver.at \in Ats
      BY <1>8, <2>6 DEF Talking, Ats
    <3>4. Reads(driver.at, Turn, Current, Tail(Mine.up), Append(Mine.down, r))
      BY <1>1, <2>2, <3>2, <3>3, AnswerReads
    <3>5. Owes(driver.at, Turn, Current, Tail(Mine.up), Append(Mine.down, r), Busy')
      BY <1>1, <2>2, <3>2, <3>3, AnswerOwes
    <3>6. driver.at = "drain" => Turn = "driver"  BY <1>1 DEF Wired, Turn
    <3>7. timeouts = 0 => Level(Turn, Tail(Mine.up), Append(Mine.down, r))
      BY <1>1, <2>2, <3>2, <3>3, <3>6, AnswerLevel
    <3>8. Reading' /\ Serves' /\ NotBehind'
      BY <1>5, <2>1, <3>4, <3>5, <3>7 DEF Reading, Serves, NotBehind
    <3> QED  BY <1>4, <1>6, <2>3, <3>8 DEF IInv
  <2> QED  BY <2>5, <2>6
<1>9. CASE served # started
  <2>1. Mine' = Mine  BY <1>1, <1>3, <1>5, <1>9 DEF Changed, Mine
  <2>2. Wired'  BY <1>1, <1>5, <1>7, <2>1 DEF Wired
  <2>3. ~Live'  BY <1>5, <1>9 DEF Live
  <2>4. Talking' = Talking  BY <1>5, <2>1 DEF Talking
  <2>5. Reading' /\ Serves' /\ NotBehind'
    BY <1>1, <1>5, <2>1, <2>3, <2>4 DEF Reading, Serves, NotBehind
  <2> QED  BY <1>4, <1>6, <2>2, <2>5 DEF IInv
<1> QED  BY <1>8, <1>9

\* What a request that is served is, and a reply that only names it.
LEMMA Request ==
  ASSUME IInv, daemon \in {"serve", "stop"}, link[served].up # <<>>
  PROVE  /\ Asked \in Requests /\ unit \in UnitType /\ served \in 1 .. MaxDrivers
         /\ \A op \in {"PONG", "OK", "BUSY", "NOPORT", "DONE"} :
              /\ Reply(op, Asked.no) \in Replies
              /\ Reply(op, Asked.no).op = op /\ Reply(op, Asked.no).no = Asked.no
<1>1. /\ TypeOK /\ Wired /\ link \in [1 .. MaxDrivers -> Links] /\ served \in 0 .. MaxDrivers
      /\ MaxDrivers \in Nat
  BY Typed DEF IInv
<1>2. served \in 1 .. MaxDrivers
  <2>1. served > 0  BY <1>1 DEF Wired
  <2> QED  BY <1>1, <2>1
<1>3. link[served].up \in Seq(Requests)  BY <1>1, <1>2 DEF Links
<1>4. Asked \in Requests  BY <1>3, Taken DEF Asked
<1>5. Asked.no \in Numbers  BY <1>4 DEF Requests
<1>6. unit \in UnitType  BY <1>1 DEF TypeOK, UnitType
<1>7. ASSUME NEW op \in {"PONG", "OK", "BUSY", "NOPORT", "DONE"}, NEW n \in Numbers
      PROVE  Reply(op, n) \in Replies /\ Reply(op, n).op = op /\ Reply(op, n).no = n
  BY <1>7 DEF Reply, NoReply, Replies
<1> QED  BY <1>2, <1>4, <1>5, <1>6, <1>7

LEMMA ServePingStep ==
  ASSUME IInv, ServePing
  PROVE  IInv'
<1>1. /\ daemon = "serve" /\ link[served].up # <<>> /\ Asked.op = "PING"
      /\ Send(Reply("PONG", Asked.no)) /\ UNCHANGED <<driverVars, daemonVars>>
  BY DEF ServePing, Serving, Asked
<1>2. /\ Reply("PONG", Asked.no) \in Replies /\ Reply("PONG", Asked.no).op = "PONG" /\ unit \in UnitType
  BY <1>1, Request
<1>3. UnitTrue' /\ Busy' = Busy  BY <1>1 DEF IInv, UnitTrue, Busy, daemonVars
<1>4. served = started => Head(Mine.up) = Asked  BY DEF Asked, Mine
<1>5. served = started => Answers(Head(Mine.up), Reply("PONG", Asked.no), Busy, Busy')
  BY <1>1, <1>2, <1>3, <1>4 DEF Answers
<1>6. UNCHANGED <<driverVars, served, gstop, echo>> /\ daemon' = "serve" /\ unit' \in UnitType
  BY <1>1, <1>2 DEF daemonVars
<1> QED  BY <1>1, <1>2, <1>3, <1>5, <1>6, Answer

LEMMA ServeStartStep ==
  ASSUME IInv, ServeStart
  PROVE  IInv'
<1>1. /\ daemon = "serve" /\ link[served].up # <<>> /\ Asked.op = "START"
      /\ UNCHANGED <<driverVars, daemon, served, gstop, echo>> /\ daemon' = "serve"
  BY DEF ServeStart, Serving, Asked
<1>2. /\ unit \in UnitType /\ Asked.no \in Numbers
      /\ \A op \in {"PONG", "OK", "BUSY", "NOPORT", "DONE"} :
           /\ Reply(op, Asked.no) \in Replies
           /\ Reply(op, Asked.no).op = op /\ Reply(op, Asked.no).no = Asked.no
  <2>1. Asked \in Requests  BY <1>1, Request
  <2> QED  BY <1>1, <2>1, Request DEF Requests
<1>3. UnitTrue  BY DEF IInv
<1>4. served = started => Head(Mine.up) = Asked  BY DEF Asked, Mine
<1>5. CASE unit.active /\ Send(Reply("BUSY", Asked.no)) /\ UNCHANGED unit
  <2>1. UnitTrue' /\ Busy' = Busy /\ Busy # {}  BY <1>1, <1>3, <1>5 DEF UnitTrue, Busy
  <2>2. served = started => Answers(Head(Mine.up), Reply("BUSY", Asked.no), Busy, Busy')
    BY <1>1, <1>2, <1>4, <2>1 DEF Answers
  <2> QED  BY <1>1, <1>2, <1>5, <2>1, <2>2, Answer
<1>6. CASE ~unit.active /\ Send(Reply("OK", Asked.no)) /\ unit' = FreshUnit(Asked.no)
  <2>1. /\ unit' \in UnitType /\ unit'.active = TRUE /\ unit'.no = Asked.no /\ unit'.sender = "starting"
        /\ unit'.fault = FALSE /\ unit'.sent = 0
    BY <1>2, <1>6 DEF FreshUnit, Blank, UnitType
  <2>2. UnitTrue'  BY <1>1, <2>1 DEF UnitTrue
  <2>3. Busy' = {Asked.no} /\ Busy = {}  BY <1>6, <2>1 DEF Busy
  <2>4. served = started => Answers(Head(Mine.up), Reply("OK", Asked.no), Busy, Busy')
    BY <1>1, <1>2, <1>4, <2>3 DEF Answers
  <2> QED  BY <1>1, <1>2, <1>6, <2>1, <2>2, <2>4, Answer
<1>7. CASE ~unit.active /\ Send(Reply("NOPORT", Asked.no)) /\ unit' = Blank
  <2>1. unit' \in UnitType /\ unit'.active = FALSE /\ unit'.sender = "none"
    BY <1>7, ControlAssumption DEF Blank, UnitType, Numbers
  <2>2. UnitTrue'  BY <1>1, <2>1 DEF UnitTrue
  <2>3. Busy' = {} /\ Busy = {}  BY <1>7, <2>1 DEF Busy
  <2>4. served = started => Answers(Head(Mine.up), Reply("NOPORT", Asked.no), Busy, Busy')
    BY <1>1, <1>2, <1>4, <2>3 DEF Answers
  <2> QED  BY <1>1, <1>2, <1>7, <2>1, <2>2, <2>4, Answer
<1> QED  BY <1>5, <1>6, <1>7 DEF ServeStart

LEMMA ServeStopStep ==
  ASSUME IInv, ServeStop
  PROVE  IInv'
<1>1. /\ daemon = "serve" /\ link[served].up # <<>> /\ Asked.op = "STOP"
      /\ UNCHANGED <<driverVars, served, gstop, echo>>
  BY DEF ServeStop, Serving, Asked
<1>2. /\ unit \in UnitType /\ Reply("DONE", Asked.no) \in Replies /\ served \in 1 .. MaxDrivers
  BY <1>1, Request
<1>3. TypeOK /\ Wired /\ UnitTrue /\ Serves  BY DEF IInv
<1>4. CASE ~unit.active /\ Send(Reply("DONE", Asked.no)) /\ UNCHANGED <<daemon, unit>>
  <2>1. UnitTrue' /\ Busy = {}  BY <1>3, <1>4 DEF UnitTrue, Busy
  <2>2. ~(Talking /\ served = started)
    <3>1. SUFFICES ASSUME Talking, served = started PROVE FALSE  OBVIOUS
    <3>2. Owes(driver.at, Turn, Current, Mine.up, Mine.down, Busy)
      BY <1>1, <1>3, <3>1 DEF Serves, Live
    <3>3. Mine.up \in Seq(Requests) /\ Mine.up # <<>> /\ Head(Mine.up).op = "STOP"
      BY <1>1, <1>3, <3>1, Typed DEF Asked, Mine
    <3>4. Has(Mine.up, "STOP")  BY <3>3, Taken
    <3> QED  BY <2>1, <3>2, <3>4 DEF Owes
  <2> QED  BY <1>1, <1>2, <1>4, <2>1, <2>2, Answer
<1>5. CASE unit.active /\ daemon' = "stop" /\ unit' = [unit EXCEPT !.stop = TRUE] /\ UNCHANGED link
  <2>1. /\ unit' \in UnitType /\ unit'.active = unit.active /\ unit'.no = unit.no
        /\ unit'.sender = unit.sender /\ unit'.fault = unit.fault /\ unit'.sent = unit.sent
    BY <1>2, <1>5 DEF UnitType
  <2>2. TypeOK'  BY <1>1, <1>3, <1>5, <2>1 DEF TypeOK, UnitType, driverVars
  <2>3. UnitTrue'  BY <1>1, <1>3, <1>5, <2>1 DEF UnitTrue, Reports
  <2>4. unit'.active /\ link'[served'].up # <<>> /\ Head(link'[served'].up).op = "STOP" /\ served' > 0
    BY <1>1, <1>2, <1>5, <2>1 DEF Asked
  <2>5. Wired'  BY <1>1, <1>3, <1>5, <2>4 DEF Wired, driverVars, Mine
  <2>6. Live' = Live /\ Busy' = Busy  BY <1>1, <1>5, <2>1 DEF Live, Busy, driverVars
  <2> QED  BY <1>1, <1>3, <1>5, <2>2, <2>3, <2>5, <2>6, Quiet DEF Serves
<1> QED  BY <1>4, <1>5 DEF ServeStop

LEMMA UnitStoppedStep ==
  ASSUME IInv, UnitStopped
  PROVE  IInv'
<1> DEFINE r == [op |-> "DONE", no |-> unit.no, fault |-> unit.fault, sent |-> unit.sent]
<1>1. /\ daemon = "stop" /\ unit.sender = "ended" /\ Send(r) /\ daemon' = "serve"
      /\ unit' = [unit EXCEPT !.active = FALSE]
      /\ UNCHANGED <<driverVars, served, gstop, echo>>
  BY DEF UnitStopped, ThreadsJoined
<1>2. Wired /\ UnitTrue  BY DEF IInv
<1>3. /\ unit.active /\ link[served].up # <<>> /\ Head(link[served].up).op = "STOP"
  BY <1>1, <1>2 DEF Wired
<1>4. unit \in UnitType  BY <1>1, <1>3, Request
<1>5. /\ r \in Replies /\ r.op = "DONE" /\ r.no = unit.no
  BY <1>4 DEF UnitType, Replies
<1>6. Reports(r)
  <2>1. Reports(unit)  BY <1>1, <1>2 DEF UnitTrue
  <2> QED  BY <2>1 DEF Reports
<1>7. /\ unit' \in UnitType /\ unit'.active = FALSE /\ unit'.no = unit.no
      /\ unit'.sender = unit.sender /\ unit'.fault = unit.fault /\ unit'.sent = unit.sent
  BY <1>1, <1>4 DEF UnitType
<1>8. UnitTrue'  BY <1>1, <1>2, <1>7 DEF UnitTrue, Reports
<1>9. Busy = {unit.no} /\ Busy' = {}  BY <1>3, <1>7 DEF Busy
<1> HIDE DEF r
<1>10. served = started => Answers(Head(Mine.up), r, Busy, Busy')
  BY <1>3, <1>5, <1>6, <1>9 DEF Answers, Mine
<1> QED  BY <1>1, <1>3, <1>5, <1>7, <1>8, <1>10, Answer

LEMMA LeaveConnectionStep ==
  ASSUME IInv, LeaveConnection
  PROVE  IInv'
<1>1. /\ daemon = "serve" /\ daemon' = "cleanup"
      /\ unit' = [unit EXCEPT !.stop = @ \/ unit.active]
      /\ UNCHANGED <<driverVars, link, served, gstop, echo>>
  BY DEF LeaveConnection
<1>2. TypeOK /\ Wired /\ UnitTrue /\ unit \in UnitType  BY DEF IInv, TypeOK, UnitType
<1>3. /\ unit' \in UnitType /\ unit'.active = unit.active /\ unit'.no = unit.no
      /\ unit'.sender = unit.sender /\ unit'.fault = unit.fault /\ unit'.sent = unit.sent
  <2>1. (unit.stop \/ unit.active) \in BOOLEAN  OBVIOUS
  <2> QED  BY <1>1, <1>2, <2>1 DEF UnitType
<1>4. TypeOK'  BY <1>1, <1>2, <1>3 DEF TypeOK, UnitType, driverVars
<1>5. UnitTrue'  BY <1>1, <1>2, <1>3 DEF UnitTrue, Reports
<1>6. Wired'  BY <1>1, <1>2 DEF Wired, driverVars, Mine
<1>7. ~Live'  BY <1>1 DEF Live
<1> QED  BY <1>1, <1>4, <1>5, <1>6, <1>7, Quiet

\* The daemon has left a connection, and no line of any changes; a socket may.
LEMMA DaemonCloses ==
  ASSUME IInv, UNCHANGED driverVars, TypeOK', UnitTrue', served' = served,
         daemon' \in {"accept", "leave", "failed", "exited"},
         \A e \in 1 .. MaxDrivers : link[e].state = "none" => link'[e] = link[e],
         Mine'.up = Mine.up, Mine'.down = Mine.down,
         \/ Mine'.state = Mine.state
         \/ Mine.state = "open" /\ Mine'.state = "reset"
         \/ Mine.state = "open" /\ Mine'.state = "half" /\ Mine.up = <<>>
  PROVE  IInv'
<1>1. /\ TypeOK /\ Wired /\ Reading /\ NotBehind /\ RowsMatch /\ FaultsReported
      /\ started \in 1 .. MaxDrivers
  BY Typed DEF IInv
<1>2. /\ driver' = driver /\ Turn' = Turn /\ Current' = Current /\ started' = started
      /\ waiting' = waiting /\ timeouts' = timeouts /\ rows' = rows
  BY DEF driverVars, Turn, Current
<1>3. Wired'
  <2>1. \A e \in 1 .. MaxDrivers : e > started' => link'[e] = NoLink
    <3>1. \A e \in 1 .. MaxDrivers : e > started => link[e] = NoLink  BY <1>1 DEF Wired
    <3>2. NoLink.state = "none"  BY DEF NoLink
    <3> QED  BY <1>2, <3>1, <3>2
  <2>2. driver.at = "connect" => Mine' = NoLink
    <3>1. SUFFICES ASSUME driver.at = "connect" PROVE Mine' = NoLink  OBVIOUS
    <3>2. link[started] = NoLink  BY <1>1, <3>1 DEF Wired, Mine
    <3>3. NoLink.state = "none"  BY DEF NoLink
    <3> QED  BY <1>1, <1>2, <3>2, <3>3 DEF Mine
  <2>3. Mine'.state = "half" => Mine'.up = <<>>  BY <1>1 DEF Wired
  <2> QED  BY <1>1, <1>2, <2>1, <2>2, <2>3 DEF Wired
<1>4. ~Live'  BY DEF Live
<1>5. Talking' => Talking  BY <1>2 DEF Talking
<1>6. Reading' /\ Serves' /\ NotBehind'
  BY <1>1, <1>2, <1>4, <1>5 DEF Reading, Serves, NotBehind
<1>7. RowsMatch' /\ FaultsReported'  BY <1>1, <1>2, RowsKept
<1> QED  BY <1>3, <1>6, <1>7 DEF IInv

LEMMA CloseConnectionStep ==
  ASSUME IInv, CloseConnection
  PROVE  IInv'
<1> DEFINE x == IF link[served].state # "open" THEN link[served].state
                ELSE IF link[served].up = <<>> THEN "half" ELSE "reset"
<1>1. /\ daemon = "cleanup" /\ daemon' = "accept" /\ (unit.active => unit.sender = "ended")
      /\ unit' = [unit EXCEPT !.active = FALSE]
      /\ link' = [link EXCEPT ![served].state = x]
      /\ UNCHANGED <<driverVars, served, gstop, echo>>
  BY DEF CloseConnection, ThreadsJoined
<1>2. /\ TypeOK /\ Wired /\ UnitTrue /\ unit \in UnitType
      /\ started \in 1 .. MaxDrivers /\ link \in [1 .. MaxDrivers -> Links]
      /\ served \in 0 .. MaxDrivers /\ MaxDrivers \in Nat
  BY Typed DEF IInv, TypeOK, UnitType
<1>3. served \in 1 .. MaxDrivers
  <2>1. served > 0  BY <1>1, <1>2 DEF Wired
  <2> QED  BY <1>2, <2>1
<1>4. x \in States /\ (link[served].state = "none" => x = "none")
  BY <1>2, <1>3 DEF Links, States
<1>5. Changed(link, link', served, x, link[served].up, link[served].down)
  <2>1. link' = WithState(link, served, x)  BY <1>1 DEF WithState
  <2> HIDE DEF x
  <2> QED  BY <1>2, <1>3, <1>4, <2>1, WithStateFacts
<1>6. /\ unit' \in UnitType /\ unit'.active = FALSE /\ unit'.no = unit.no
      /\ unit'.sender = unit.sender /\ unit'.fault = unit.fault /\ unit'.sent = unit.sent
  BY <1>1, <1>2 DEF UnitType
<1>7. TypeOK'  BY <1>1, <1>2, <1>5, <1>6 DEF TypeOK, UnitType, driverVars, Changed
<1>8. UnitTrue'  BY <1>1, <1>2, <1>6 DEF UnitTrue, Reports
<1>9. started' = started  BY <1>1 DEF driverVars
<1>10. /\ Mine'.up = Mine.up /\ Mine'.down = Mine.down
       /\ \/ Mine'.state = Mine.state
          \/ Mine.state = "open" /\ Mine'.state = "reset"
          \/ Mine.state = "open" /\ Mine'.state = "half" /\ Mine.up = <<>>
  <2>1. CASE served = started  BY <1>5, <1>9, <2>1 DEF Changed, Mine
  <2>2. CASE served # started  BY <1>2, <1>5, <1>9, <2>2 DEF Changed, Mine
  <2> QED  BY <2>1, <2>2
<1>11. \A e \in 1 .. MaxDrivers : link[e].state = "none" => link'[e] = link[e]
  <2>1. link[served].state = "none" => link' = link
    <3>1. SUFFICES ASSUME link[served].state = "none" PROVE link' = link  OBVIOUS
    <3>2. link' = [link EXCEPT ![served].state = link[served].state]  BY <1>1, <3>1
    <3> QED  BY <1>2, <3>2 DEF Links
  <2> QED  BY <1>5, <2>1 DEF Changed
<1> QED  BY <1>1, <1>7, <1>8, <1>10, <1>11, DaemonCloses

LEMMA StopAcceptingStep ==
  ASSUME IInv, StopAccepting
  PROVE  IInv'
<1>1. /\ daemon = "accept" /\ daemon' = "leave" /\ UNCHANGED <<driverVars, link, served, gstop, unit, echo>>
  BY DEF StopAccepting
<1>2. TypeOK'  BY <1>1 DEF IInv, TypeOK, driverVars
<1>3. UnitTrue'  BY <1>1 DEF IInv, UnitTrue
<1>4. Mine' = Mine  BY <1>1 DEF Mine, driverVars
<1> QED  BY <1>1, <1>2, <1>3, <1>4, DaemonCloses

LEMMA ListenStep ==
  ASSUME IInv, Listen
  PROVE  IInv'
<1>1. /\ daemon = "start" /\ daemon' \in {"accept", "failed"}
      /\ UNCHANGED <<driverVars, link, served, gstop, unit, echo>>
  BY DEF Listen
<1>2. TypeOK'  BY <1>1 DEF IInv, TypeOK, driverVars
<1>3. UnitTrue'  BY <1>1 DEF IInv, UnitTrue
<1>4. Mine' = Mine  BY <1>1 DEF Mine, driverVars
<1> QED  BY <1>1, <1>2, <1>3, <1>4, DaemonCloses

LEMMA ExitStep ==
  ASSUME IInv, Exit
  PROVE  IInv'
<1>1. /\ daemon \in {"leave", "failed"} /\ daemon' = "exited"
      /\ UNCHANGED <<driverVars, served, gstop, unit, echo>>
      /\ link' = [d \in DOMAIN link |->
                    IF d > served /\ link[d].state = "open"
                    THEN [link[d] EXCEPT !.state = "reset"] ELSE link[d]]
  BY DEF Exit
<1>2. link \in [1 .. MaxDrivers -> Links] /\ started \in 1 .. MaxDrivers  BY Typed DEF IInv
<1>3. \A d \in 1 .. MaxDrivers :
        /\ link'[d] \in Links /\ link'[d].up = link[d].up /\ link'[d].down = link[d].down
        /\ link'[d] = link[d] \/ (link[d].state = "open" /\ link'[d].state = "reset")
  <2>1. TAKE d \in 1 .. MaxDrivers
  <2>2. link[d] \in Links  BY <1>2
  <2>3. \/ link'[d] = link[d]
        \/ link[d].state = "open" /\ link'[d] = [link[d] EXCEPT !.state = "reset"]
    BY <1>1, <1>2
  <2> QED  BY <2>2, <2>3 DEF Links
<1>4. link' \in [1 .. MaxDrivers -> Links]
  <2>1. DOMAIN link = 1 .. MaxDrivers  BY <1>2
  <2>2. link' = [d \in 1 .. MaxDrivers |-> link'[d]]  BY <1>1, <2>1
  <2> QED  BY <1>3, <2>2
<1>5. TypeOK'  BY <1>1, <1>4 DEF IInv, TypeOK, driverVars
<1>6. UnitTrue'  BY <1>1 DEF IInv, UnitTrue
<1>7. started' = started  BY <1>1 DEF driverVars
<1>8. /\ Mine'.up = Mine.up /\ Mine'.down = Mine.down
      /\ Mine'.state = Mine.state \/ (Mine.state = "open" /\ Mine'.state = "reset")
  BY <1>2, <1>3, <1>7 DEF Mine
<1>9. \A e \in 1 .. MaxDrivers : link[e].state = "none" => link'[e] = link[e]  BY <1>3
<1> QED  BY <1>1, <1>5, <1>6, <1>8, <1>9, DaemonCloses

-----------------------------------------------------------------------------
(***************************************************************************)
(* The threads of a unit.                                                  *)
(***************************************************************************)
LEMMA SenderStartsStep ==
  ASSUME IInv, SenderStarts
  PROVE  IInv'
<1>1. /\ unit.sender = "starting" /\ UNCHANGED <<driverVars, link, daemon, served, gstop, echo>>
      /\ unit' = IF unit.no[2] \in FaultUnits
                 THEN [unit EXCEPT !.sender = "ended", !.fault = TRUE]
                 ELSE [unit EXCEPT !.sender = "running"]
  BY DEF SenderStarts
<1>2. UnitTrue /\ unit \in UnitType /\ gstop \in BOOLEAN /\ echo \in BOOLEAN
  BY DEF IInv, TypeOK, UnitType
<1>3. unit.fault = FALSE /\ unit.sent = 0 /\ unit.active = TRUE
  BY <1>1, <1>2 DEF UnitTrue, UnitType
<1>4. CASE unit.no[2] \in FaultUnits
  <2>1. /\ unit' \in UnitType /\ unit'.active = unit.active /\ unit'.no = unit.no
        /\ unit'.sender = "ended" /\ unit'.fault = TRUE /\ unit'.sent = unit.sent
    BY <1>1, <1>2, <1>4 DEF UnitType
  <2>2. UnitTrue'  BY <1>1, <1>2, <1>3, <1>4, <2>1 DEF UnitTrue, Reports
  <2> QED  BY <1>1, <1>2, <2>1, <2>2, ThreadStep
<1>5. CASE unit.no[2] \notin FaultUnits
  <2>1. /\ unit' \in UnitType /\ unit'.active = unit.active /\ unit'.no = unit.no
        /\ unit'.sender = "running" /\ unit'.fault = unit.fault /\ unit'.sent = unit.sent
    BY <1>1, <1>2, <1>5 DEF UnitType
  <2>2. UnitTrue'  BY <1>1, <1>2, <1>3, <1>5, <2>1 DEF UnitTrue
  <2> QED  BY <1>1, <1>2, <2>1, <2>2, ThreadStep
<1> QED  BY <1>4, <1>5

LEMMA SenderSendsStep ==
  ASSUME IInv, SenderSends
  PROVE  IInv'
<1>1. /\ unit.sender = "running" /\ UNCHANGED <<driverVars, link, daemon, served, gstop, echo>>
      /\ unit' = [unit EXCEPT !.sent = 1]
  BY DEF SenderSends
<1>2. UnitTrue /\ unit \in UnitType /\ gstop \in BOOLEAN /\ echo \in BOOLEAN
  BY DEF IInv, TypeOK, UnitType
<1>3. /\ unit' \in UnitType /\ unit'.active = unit.active /\ unit'.no = unit.no
      /\ unit'.sender = "running" /\ unit'.fault = unit.fault
  BY <1>1, <1>2 DEF UnitType
<1>4. UnitTrue'  BY <1>1, <1>2, <1>3 DEF UnitTrue
<1> QED  BY <1>1, <1>2, <1>3, <1>4, ThreadStep

LEMMA SenderEndsStep ==
  ASSUME IInv, SenderEnds
  PROVE  IInv'
<1>1. /\ unit.sender = "running" /\ UNCHANGED <<driverVars, link, daemon, served, gstop, echo>>
      /\ unit' = [unit EXCEPT !.sender = "ended"]
  BY DEF SenderEnds
<1>2. UnitTrue /\ unit \in UnitType /\ gstop \in BOOLEAN /\ echo \in BOOLEAN
  BY DEF IInv, TypeOK, UnitType
<1>3. /\ unit' \in UnitType /\ unit'.active = unit.active /\ unit'.no = unit.no
      /\ unit'.sender = "ended" /\ unit'.fault = unit.fault
  BY <1>1, <1>2 DEF UnitType
<1>4. unit.fault = FALSE /\ unit.no[2] \notin FaultUnits  BY <1>1, <1>2 DEF UnitTrue, UnitType
<1>5. UnitTrue'
  <2>1. unit'.fault = FALSE /\ unit'.no[2] \notin FaultUnits  BY <1>3, <1>4
  <2>2. Reports(unit')
    <3>1. (unit'.no[2] \in FaultUnits) = FALSE  BY <2>1
    <3>2. unit'.fault = (unit'.no[2] \in FaultUnits)  BY <2>1, <3>1
    <3>3. unit'.fault => unit'.sent = 0  BY <2>1
    <3> QED  BY <3>2, <3>3 DEF Reports
  <2> QED  BY <1>1, <1>2, <1>3, <2>2 DEF UnitTrue
<1> QED  BY <1>1, <1>2, <1>3, <1>5, ThreadStep

LEMMA ReturnerEndsStep ==
  ASSUME IInv, ReturnerEnds
  PROVE  IInv'
<1>1. /\ UNCHANGED <<driverVars, link, daemon, served, gstop, echo>>
      /\ unit' = [unit EXCEPT !.returner = "ended"]
  BY DEF ReturnerEnds
<1>2. UnitTrue /\ unit \in UnitType /\ gstop \in BOOLEAN /\ echo \in BOOLEAN
  BY DEF IInv, TypeOK, UnitType
<1>3. /\ unit' \in UnitType /\ unit'.active = unit.active /\ unit'.no = unit.no
      /\ unit'.sender = unit.sender /\ unit'.fault = unit.fault /\ unit'.sent = unit.sent
  BY <1>1, <1>2 DEF UnitType
<1>4. UnitTrue'  BY <1>1, <1>2, <1>3 DEF UnitTrue, Reports
<1> QED  BY <1>1, <1>2, <1>3, <1>4, ThreadStep

\* A signal, the end of the echo thread, or nothing at all.
LEMMA OutsideStep ==
  ASSUME IInv, gstop' \in BOOLEAN, echo' \in BOOLEAN,
         UNCHANGED <<driverVars, link, daemon, served, unit>>
  PROVE  IInv'
<1>1. UnitTrue /\ unit \in UnitType  BY DEF IInv, TypeOK, UnitType
<1>2. UnitTrue' /\ unit' \in UnitType /\ unit'.active = unit.active /\ unit'.no = unit.no
  BY <1>1 DEF UnitTrue
<1> QED  BY <1>2, ThreadStep

-----------------------------------------------------------------------------
LEMMA ControlInit ==
  ASSUME Init
  PROVE  IInv
<1>1. /\ started = 1 /\ driver = [at |-> "connect", no |-> 0] /\ waiting = FALSE /\ timeouts = 0
      /\ rows = [u \in 1 .. Units |-> NoRow] /\ link = [d \in 1 .. MaxDrivers |-> NoLink]
      /\ daemon = "start" /\ served = 0 /\ gstop = FALSE /\ unit = Blank /\ echo = TRUE
  BY DEF Init
<1>2. Units \in Nat /\ MaxDrivers \in Nat \ {0} /\ MaxTimeouts \in Nat  BY ControlAssumption
<1>3. <<0, 0>> \in Numbers  BY <1>2 DEF Numbers
<1>4. NoRow \in Rows /\ NoRow.status = "pending"  BY <1>3 DEF NoRow, Rows, NoReply, Replies
<1>5. NoLink \in Links  BY DEF NoLink, Links
<1>6. Blank \in UnitType /\ Blank.active = FALSE /\ Blank.sender = "none"
  BY <1>3 DEF Blank, UnitType
<1>7. TypeOK
  <2>1. rows \in [1 .. Units -> Rows] /\ link \in [1 .. MaxDrivers -> Links]  BY <1>1, <1>4, <1>5
  <2>2. started \in 1 .. MaxDrivers /\ timeouts \in 0 .. MaxTimeouts /\ served \in 0 .. started
    BY <1>1, <1>2
  <2>3. driver \in [at : {"connect", "ping", "start", "drain", "stop", "done", "killed", "sigpipe"}, no : 0 .. Units]
    BY <1>1, <1>2
  <2> QED  BY <1>1, <1>6, <2>1, <2>2, <2>3 DEF TypeOK, UnitType
<1>8. Wired
  <2>1. Mine = NoLink /\ \A d \in 1 .. MaxDrivers : link[d] = NoLink  BY <1>1, <1>2 DEF Mine
  <2>2. NoLink.state = "none" /\ NoLink.up = <<>> /\ NoLink.down = <<>>  BY DEF NoLink
  <2>3. driver.at = "connect"  BY <1>1
  <2> QED  BY <1>1, <2>1, <2>2, <2>3 DEF Wired
<1>9. UnitTrue  BY <1>1, <1>6 DEF UnitTrue
<1>10. ~Talking  BY <1>1 DEF Talking
<1>11. \A u \in 1 .. Units : rows[u].status = "pending"  BY <1>1, <1>4
<1>12. RowsMatch /\ FaultsReported  BY <1>11 DEF RowsMatch, FaultsReported
<1> QED  BY <1>7, <1>8, <1>9, <1>10, <1>12 DEF IInv, Reading, Serves, NotBehind

LEMMA ControlNext ==
  ASSUME IInv, [Next]_vars
  PROVE  IInv'
<1>1. CASE Driver
  BY <1>1, ConnectStep, SendRequestStep, ReceiveReplyStep, ConnectionLostStep,
     ReplyTimesOutStep, DrainedStep, HangupStep, NewDriverStep DEF Driver
<1>2. CASE Daemon
  BY <1>2, ListenStep, AcceptStep, ServePingStep, ServeStartStep, ServeStopStep, UnitStoppedStep,
     LeaveConnectionStep, CloseConnectionStep, StopAcceptingStep, ExitStep DEF Daemon
<1>3. CASE Sender  BY <1>3, SenderStartsStep, SenderSendsStep, SenderEndsStep DEF Sender
<1>4. CASE ReturnerEnds  BY <1>4, ReturnerEndsStep
<1>5. gstop \in BOOLEAN /\ echo \in BOOLEAN  BY DEF IInv, TypeOK
<1>6. CASE Signalled  BY <1>5, <1>6, OutsideStep DEF Signalled
<1>7. CASE EchoEnds  BY <1>5, <1>7, OutsideStep DEF EchoEnds
<1>8. CASE Rest \/ UNCHANGED vars  BY <1>5, <1>8, OutsideStep DEF Rest, vars, daemonVars
<1> QED  BY <1>1, <1>2, <1>3, <1>4, <1>6, <1>7, <1>8 DEF Next

(***************************************************************************)
(* The invariant holds, whatever the driver, the daemon, the threads of    *)
(* its unit, the signals and the late replies do in which order.           *)
(***************************************************************************)
THEOREM ControlInvariance == Spec => []IInv
<1>1. Init => IInv  BY ControlInit
<1>2. IInv /\ [Next]_vars => IInv'  BY ControlNext
<1> QED  BY <1>1, <1>2, PTL DEF Spec

(***************************************************************************)
(* The client takes the answer to its own call for one, and is refused     *)
(* only for want of a port, as long as no reply was late (ctrl::Client).   *)
(***************************************************************************)
THEOREM AnswersOwn == Spec => []AnswersMatch
<1>1. IInv => AnswersMatch  BY DEF IInv, RowsMatch, AnswersMatch
<1> QED  BY <1>1, ControlInvariance, PTL

(***************************************************************************)
(* A row's report is that of its own unit and tells its fault (stop_unit), *)
(* also when replies were late and the driver reads behind the daemon.     *)
(***************************************************************************)
THEOREM ReportsOwn == Spec => []FaultsReported
<1>1. IInv => FaultsReported  BY DEF IInv
<1> QED  BY <1>1, ControlInvariance, PTL
=============================================================================
