---------------------------- MODULE ControlChannel ----------------------------
(***************************************************************************)
(* The control channel between the measuring node and the load generator.  *)
(*                                                                         *)
(* The driver is run_e5(): it connects once (Peer, ctrl::Client) and, for  *)
(* each unit of the sweep, sends START, drains its shard for a while and   *)
(* sends STOP (measure_wire).  A request waits for one line of reply; it   *)
(* fails when the connection ends or when no reply comes in time, and the  *)
(* socket is kept either way.  A driver may die, and another be started.   *)
(*                                                                         *)
(* The daemon is lr_loadgend: it serves one connection at a time, and a    *)
(* unit is a sender and a returner thread that poll a stop flag.           *)
(*                                                                         *)
(* Requests and replies carry the number of the unit they are about.  It   *)
(* is not on the wire: it tells whose answer the driver took.              *)
(***************************************************************************)
EXTENDS Integers, Sequences, FiniteSets

CONSTANTS
  Units,        \* units in a sweep (12 in the code)
  FaultUnits,   \* the units whose sender thread cannot start
  BindFails,    \* whether the return port may fail to bind
  MaxDrivers,   \* driver processes started one after the other
  MaxTimeouts,  \* late replies are counted up to this many
  Signals       \* whether the daemon may be told to terminate

ASSUME ControlAssumption ==
  /\ Units \in Nat /\ FaultUnits \subseteq 1 .. Units
  /\ BindFails \in BOOLEAN /\ Signals \in BOOLEAN
  /\ {MaxDrivers, MaxTimeouts} \subseteq Nat \ {0}

VARIABLES
  started,   \* the driver process in question, counted from 1
  driver,    \* what it does, and on which unit
  waiting,   \* it has sent a request and awaits the reply
  timeouts,  \* replies the drivers gave up on
  rows,      \* the result of each unit of its sweep
  link,      \* of each driver, its connection: the state as the driver's
             \* socket sees it, the requests and the replies in flight
  daemon,    \* where the daemon's main thread is
  served,    \* the driver whose connection it took last
  gstop,     \* g_stop
  unit,      \* the Unit object
  echo       \* the echo thread is running

driverVars == <<started, driver, waiting, timeouts, rows>>
daemonVars == <<daemon, served, gstop, unit, echo>>
vars == <<driverVars, link, daemonVars>>

NoReply == [op |-> "none", no |-> <<0, 0>>, fault |-> FALSE, sent |-> 0]
NoRow   == [status |-> "pending", reply |-> NoReply]
NoLink  == [state |-> "none", up |-> <<>>, down |-> <<>>]
Blank   == [active |-> FALSE, no |-> <<0, 0>>, stop |-> FALSE, sender |-> "none",
            returner |-> "none", fault |-> FALSE, sent |-> 0]

Init ==
  /\ started = 1
  /\ driver = [at |-> "connect", no |-> 0]
  /\ waiting = FALSE
  /\ timeouts = 0
  /\ rows = [u \in 1 .. Units |-> NoRow]
  /\ link = [d \in 1 .. MaxDrivers |-> NoLink]
  /\ daemon = "start"
  /\ served = 0
  /\ gstop = FALSE
  /\ unit = Blank
  /\ echo = TRUE

-----------------------------------------------------------------------------
(***************************************************************************)
(* The driver.                                                             *)
(***************************************************************************)
Mine == link[started]

\* listen() has succeeded and the listening socket is not closed.
Listening == daemon \notin {"start", "failed", "exited"}

\* connect(): the listening socket takes it, or nobody listens yet or any more,
\* and E5 falls back to the loopback topology.
Connect ==
  /\ driver.at = "connect"
  /\ \/ /\ Listening
        /\ link' = [link EXCEPT ![started].state = "open"]
        /\ driver' = [driver EXCEPT !.at = "ping"]
     \/ /\ ~Listening
        /\ driver' = [driver EXCEPT !.at = "done"]
        /\ UNCHANGED link
  /\ UNCHANGED <<started, waiting, timeouts, rows, daemonVars>>

RequestOf == [ping |-> "PING", start |-> "START", stop |-> "STOP"]

\* Mutant: the sweep ends one unit early.
NextUnit_OneShort ==
  IF driver.no + 1 < Units THEN [at |-> "start", no |-> driver.no + 1]
  ELSE [at |-> "done", no |-> Units]

\* The unit after the current one, or the end of the sweep.
NextUnit ==
  IF driver.no < Units THEN [at |-> "start", no |-> driver.no + 1]
  ELSE [at |-> "done", no |-> Units]

Row(status, reply) ==
  rows' = [rows EXCEPT ![driver.no] = [status |-> status, reply |-> reply]]

\* A call of the client returned false.
CallFailed(why, reply) ==
  /\ waiting' = FALSE
  /\ IF driver.at = "ping"
     THEN driver' = [driver EXCEPT !.at = "done"] /\ UNCHANGED rows
     ELSE driver' = NextUnit /\ Row(why, reply)

(***************************************************************************)
(* The first half of request(): send the line.  The daemon may have closed *)
(* its end.  If it closed in order ("half") the line is taken, answered by *)
(* a reset, and the socket is dead; if it had unread data, or never took   *)
(* the connection, a reset is waiting ("reset") and the first call on the  *)
(* socket reports it.  A send on a dead socket raises SIGPIPE, which the   *)
(* driver does not ignore.                                                 *)
(***************************************************************************)
SendRequest ==
  /\ driver.at \in DOMAIN RequestOf
  /\ ~waiting
  /\ \/ /\ Mine.state = "open"
        /\ link' = [link EXCEPT ![started].up =
                      Append(@, [op |-> RequestOf[driver.at], no |-> <<started, driver.no>>])]
        /\ waiting' = TRUE
        /\ UNCHANGED <<driver, rows>>
     \/ /\ Mine.state = "half"
        /\ link' = [link EXCEPT ![started].state = "dead"]
        /\ waiting' = TRUE
        /\ UNCHANGED <<driver, rows>>
     \/ /\ Mine.state = "reset"
        /\ link' = [link EXCEPT ![started].state = "dead"]
        /\ CallFailed("lost", NoReply)
     \/ /\ Mine.state = "dead"
        /\ link' = [link EXCEPT ![started].state = "closed"]
        /\ driver' = [driver EXCEPT !.at = "sigpipe"]
        /\ UNCHANGED <<waiting, rows>>
  /\ UNCHANGED <<started, timeouts, daemonVars>>

\* The reply each call of the client insists on.
Expected == [ping |-> {"PONG"}, start |-> {"OK"}, stop |-> {"DONE"}]

\* The second half of request(), and what its callers make of the line.
ReceiveReply ==
  /\ waiting
  /\ Mine.state \in {"open", "half"} /\ Mine.down # <<>>
  /\ link' = [link EXCEPT ![started].down = Tail(@)]
  /\ LET reply == Head(Mine.down)
     IN  \/ /\ reply.op \notin Expected[driver.at]
            /\ CallFailed("refused", reply)
         \/ /\ reply.op \in Expected[driver.at]
            /\ waiting' = FALSE
            /\ \/ driver.at = "ping" /\ driver' = NextUnit /\ UNCHANGED rows
               \/ /\ driver.at = "start"
                  /\ driver' = [driver EXCEPT !.at = "drain"]
                  /\ Row("started", reply)
               \/ driver.at = "stop" /\ driver' = NextUnit /\ Row("answered", reply)
  /\ UNCHANGED <<started, timeouts, daemonVars>>

ConnectionLost ==
  /\ waiting
  /\ \/ Mine.state \in {"reset", "dead"}
     \/ Mine.state = "half" /\ Mine.down = <<>>
  /\ CallFailed("lost", NoReply)
  /\ link' = [link EXCEPT ![started].state = IF @ = "reset" THEN "dead" ELSE @]
  /\ UNCHANGED <<started, timeouts, daemonVars>>

\* SO_RCVTIMEO: 30 seconds without a reply, which may still come.
ReplyTimesOut ==
  /\ waiting
  /\ Mine.state = "open" /\ Mine.down = <<>>
  /\ timeouts' = IF timeouts < MaxTimeouts THEN timeouts + 1 ELSE timeouts
  /\ CallFailed("late", NoReply)
  /\ UNCHANGED <<started, link, daemonVars>>

\* The settling and the measured interval are over.
Drained ==
  /\ driver.at = "drain"
  /\ driver' = [driver EXCEPT !.at = "stop"]
  /\ UNCHANGED <<started, waiting, timeouts, rows, link, daemonVars>>

\* The sweep is over, or its process is killed from outside; the socket closes.
Hangup ==
  /\ Mine.state \in {"open", "half", "reset", "dead"}
  /\ driver.at = "done" \/ started < MaxDrivers
  /\ driver' = IF driver.at = "done" THEN driver ELSE [driver EXCEPT !.at = "killed"]
  /\ waiting' = FALSE
  /\ link' = [link EXCEPT ![started].state = "closed"]
  /\ UNCHANGED <<started, timeouts, rows, daemonVars>>

\* Another sweep, while the daemon may not have noticed the end of the last.
NewDriver ==
  /\ started < MaxDrivers
  /\ driver.at \in {"done", "killed", "sigpipe"} /\ Mine.state \in {"none", "closed"}
  /\ started' = started + 1
  /\ driver' = [at |-> "connect", no |-> 0]
  /\ rows' = [u \in 1 .. Units |-> NoRow]
  /\ UNCHANGED <<waiting, timeouts, link, daemonVars>>

Driver ==
  \/ Connect \/ SendRequest \/ ReceiveReply \/ ConnectionLost \/ ReplyTimesOut
  \/ Drained \/ Hangup \/ NewDriver

-----------------------------------------------------------------------------
(***************************************************************************)
(* The daemon's main thread.                                               *)
(***************************************************************************)
Send(reply) ==
  link' = [link EXCEPT ![served].up = Tail(@), ![served].down = Append(@, reply)]

Reply(op, no) == [NoReply EXCEPT !.op = op, !.no = no]

\* main() up to its loop: the sockets are set up, or the daemon gives up.
Listen ==
  /\ daemon = "start"
  /\ daemon' \in {"accept", "failed"}
  /\ UNCHANGED <<driverVars, link, served, gstop, unit, echo>>

\* accept() takes the connections in the order in which they were made, also
\* those whose driver is gone by then.
Accept ==
  /\ daemon = "accept" /\ ~gstop
  /\ daemon' = "serve"
  /\ served' \in served + 1 .. started
  /\ link[served'].state # "none"
  /\ \A d \in served + 1 .. served' - 1 : link[d].state = "none"
  /\ UNCHANGED <<driverVars, link, gstop, unit, echo>>

\* A request line is complete; its first word decides.
Serving(op) ==
  /\ daemon = "serve" /\ ~gstop
  /\ link[served].up # <<>>
  /\ Head(link[served].up).op = op

Asked == Head(link[served].up)

\* Mutant: a value of the reply holds a newline, and the reply is two lines.
ServePing_TwoLines ==
  /\ Serving("PING")
  /\ link' = [link EXCEPT ![served].up = Tail(@),
                          ![served].down = @ \o <<Reply("PONG", Asked.no), NoReply>>]
  /\ UNCHANGED <<driverVars, daemonVars>>

ServePing ==
  /\ Serving("PING")
  /\ Send(Reply("PONG", Asked.no))
  /\ UNCHANGED <<driverVars, daemonVars>>

\* The Unit that start_unit() sets up, with its two threads.
FreshUnit(no) ==
  [Blank EXCEPT !.active = TRUE, !.no = no,
                !.sender = "starting", !.returner = "running"]

\* start_unit(): busy, or started, or without a return port; the two refusals
\* are ERR lines on the wire.
ServeStart ==
  /\ Serving("START")
  /\ \/ /\ unit.active
        /\ Send(Reply("BUSY", Asked.no))
        /\ UNCHANGED unit
     \/ /\ ~unit.active
        /\ Send(Reply("OK", Asked.no))
        /\ unit' = FreshUnit(Asked.no)
     \/ /\ ~unit.active /\ BindFails
        /\ Send(Reply("NOPORT", Asked.no))
        /\ unit' = Blank
  /\ UNCHANGED <<driverVars, daemon, served, gstop, echo>>

\* stop_unit(): with no unit active it answers at once, and otherwise it raises
\* the flag and joins the threads.
ServeStop ==
  /\ Serving("STOP")
  /\ \/ /\ ~unit.active
        /\ Send(Reply("DONE", Asked.no))
        /\ UNCHANGED <<daemon, unit>>
     \/ /\ unit.active
        /\ daemon' = "stop"
        /\ unit' = [unit EXCEPT !.stop = TRUE]
        /\ UNCHANGED link
  /\ UNCHANGED <<driverVars, served, gstop, echo>>

\* Mutant: the returner is joined, the sender is not.
ThreadsJoined_NotSender == unit.returner = "ended"

ThreadsJoined == unit.sender = "ended" /\ unit.returner = "ended"

\* The counters and the fault are read once the threads are gone.
UnitStopped ==
  /\ daemon = "stop"
  /\ ThreadsJoined
  /\ Send([op |-> "DONE", no |-> unit.no, fault |-> unit.fault, sent |-> unit.sent])
  /\ unit' = [unit EXCEPT !.active = FALSE]
  /\ daemon' = "serve"
  /\ UNCHANGED <<driverVars, served, gstop, echo>>

\* Mutant: the end of a connection leaves its unit alone.
LeaveConnection_LeavesUnit ==
  /\ daemon = "serve"
  /\ gstop \/ (link[served].up = <<>> /\ link[served].state = "closed")
  /\ daemon' = "accept"
  /\ UNCHANGED <<driverVars, link, served, gstop, unit, echo>>

\* Mutant: only the end of the connection ends the loop that serves it.
LeaveConnection_IgnoresStop ==
  /\ daemon = "serve"
  /\ link[served].up = <<>> /\ link[served].state = "closed"
  /\ daemon' = "cleanup"
  /\ unit' = [unit EXCEPT !.stop = @ \/ unit.active]
  /\ UNCHANGED <<driverVars, link, served, gstop, echo>>

\* The connection ended or the daemon is to stop: a unit still active is stopped.
LeaveConnection ==
  /\ daemon = "serve"
  /\ gstop \/ (link[served].up = <<>> /\ link[served].state = "closed")
  /\ daemon' = "cleanup"
  /\ unit' = [unit EXCEPT !.stop = @ \/ unit.active]
  /\ UNCHANGED <<driverVars, link, served, gstop, echo>>

CloseConnection ==
  /\ daemon = "cleanup"
  /\ unit.active => ThreadsJoined
  /\ unit' = [unit EXCEPT !.active = FALSE]
  /\ link' = [link EXCEPT ![served].state =
                IF @ # "open" THEN @ ELSE IF link[served].up = <<>> THEN "half"
                ELSE "reset"]
  /\ daemon' = "accept"
  /\ UNCHANGED <<driverVars, served, gstop, echo>>

Signalled ==
  /\ Signals /\ ~gstop
  /\ gstop' = TRUE
  /\ UNCHANGED <<driverVars, link, daemon, served, unit, echo>>

\* The accept loop ends.  The echo thread is told, ends at its next time-out and
\* is joined; then the listening socket goes, and what it had not accepted.  A
\* daemon that gave up does the same.
StopAccepting ==
  /\ daemon = "accept" /\ gstop
  /\ daemon' = "leave"
  /\ UNCHANGED <<driverVars, link, served, gstop, unit, echo>>

EchoEnds ==
  /\ echo /\ daemon \in {"leave", "failed"}
  /\ echo' = FALSE
  /\ UNCHANGED <<driverVars, link, daemon, served, gstop, unit>>

Exit ==
  /\ daemon \in {"leave", "failed"} /\ ~echo
  /\ daemon' = "exited"
  /\ link' = [d \in DOMAIN link |->
                IF d > served /\ link[d].state = "open"
                THEN [link[d] EXCEPT !.state = "reset"] ELSE link[d]]
  /\ UNCHANGED <<driverVars, served, gstop, unit, echo>>

Daemon ==
  \/ Listen \/ Accept \/ ServePing \/ ServeStart \/ ServeStop \/ UnitStopped
  \/ LeaveConnection \/ CloseConnection \/ StopAccepting \/ Exit

-----------------------------------------------------------------------------
(***************************************************************************)
(* The threads of a unit.                                                  *)
(***************************************************************************)
\* The sender builds its shard and its generator, or leaves a reason.
SenderStarts ==
  /\ unit.sender = "starting"
  /\ unit' = IF unit.no[2] \in FaultUnits
             THEN [unit EXCEPT !.sender = "ended", !.fault = TRUE]
             ELSE [unit EXCEPT !.sender = "running"]
  /\ UNCHANGED <<driverVars, link, daemon, served, gstop, echo>>

\* A packet is sent; one stands for all of them.
SenderSends ==
  /\ unit.sender = "running" /\ ~unit.stop
  /\ unit.sent = 0
  /\ unit' = [unit EXCEPT !.sent = 1]
  /\ UNCHANGED <<driverVars, link, daemon, served, gstop, echo>>

SenderEnds ==
  /\ unit.sender = "running" /\ unit.stop
  /\ unit' = [unit EXCEPT !.sender = "ended"]
  /\ UNCHANGED <<driverVars, link, daemon, served, gstop, echo>>

ReturnerEnds ==
  /\ unit.returner = "running" /\ unit.stop
  /\ unit' = [unit EXCEPT !.returner = "ended"]
  /\ UNCHANGED <<driverVars, link, daemon, served, gstop, echo>>

Sender == SenderStarts \/ SenderSends \/ SenderEnds

\* Nobody has anything left to do.
Rest ==
  /\ driver.at \in {"done", "killed", "sigpipe"}
  /\ Mine.state \in {"none", "closed"}
  /\ started = MaxDrivers
  /\ daemon = "accept" => ~gstop
  /\ UNCHANGED vars

Next ==
  Driver \/ Daemon \/ Signalled \/ EchoEnds \/ Sender \/ ReturnerEnds \/ Rest

(***************************************************************************)
(* Every thread keeps running, and a call of the driver that waits ends at *)
(* the latest by its time-out.  Nothing makes a signal or the death of a   *)
(* driver happen.                                                          *)
(***************************************************************************)
Fairness ==
  /\ WF_vars(Connect \/ SendRequest \/ ReceiveReply \/ ConnectionLost \/ ReplyTimesOut \/ Drained)
  /\ WF_vars(driver.at = "done" /\ Hangup)
  /\ WF_vars(Daemon) /\ WF_vars(EchoEnds) /\ WF_vars(Sender) /\ WF_vars(ReturnerEnds)

Spec == Init /\ [][Next]_vars /\ Fairness

-----------------------------------------------------------------------------
Numbers  == (0 .. MaxDrivers) \X (0 .. Units)
Requests == [op : {"PING", "START", "STOP"}, no : Numbers]
Replies  == [op : {"none", "PONG", "OK", "BUSY", "NOPORT", "DONE"},
             no : Numbers, fault : BOOLEAN, sent : {0, 1}]
Links    == [state : {"none", "open", "half", "reset", "dead", "closed"},
             up : Seq(Requests), down : Seq(Replies)]
Rows     == [status : {"pending", "started", "answered", "refused", "lost", "late"},
             reply : Replies]

\* Every variable holds a value of its type.
TypeOK ==
  /\ started \in 1 .. MaxDrivers
  /\ driver \in [at : {"connect", "ping", "start", "drain", "stop", "done", "killed", "sigpipe"},
                 no : 0 .. Units]
  /\ waiting \in BOOLEAN
  /\ timeouts \in 0 .. MaxTimeouts
  /\ rows \in [1 .. Units -> Rows]
  /\ link \in [1 .. MaxDrivers -> Links]
  /\ daemon \in {"start", "accept", "serve", "stop", "cleanup", "leave", "failed", "exited"}
  /\ served \in 0 .. started
  /\ gstop \in BOOLEAN /\ echo \in BOOLEAN
  /\ unit \in [active : BOOLEAN, no : Numbers, stop : BOOLEAN,
               sender : {"none", "starting", "running", "ended"},
               returner : {"none", "running", "ended"}, fault : BOOLEAN, sent : {0, 1}]

(***************************************************************************)
(* A call of the client succeeds on the answer to that very call: START n  *)
(* on the daemon's OK to START n, STOP on the report of the unit of this   *)
(* row, and not on a line left over from an earlier exchange, as long as   *)
(* no reply has been late; and it then always finds the generator idle,    *)
(* also when the last driver died in the middle of a unit: a START is      *)
(* refused only when the return port cannot be bound.                      *)
(***************************************************************************)
AnswersMatch ==
  /\ TypeOK
  /\ timeouts = 0 => \A u \in 1 .. Units :
       /\ rows[u].status \in {"started", "answered"} => rows[u].reply.no = <<started, u>>
       /\ rows[u].status = "refused" => rows[u].reply.op = "NOPORT"

(***************************************************************************)
(* A unit whose sender could not start is reported with its fault and with *)
(* no packet sent, and a unit that ran is not: the report is of this unit  *)
(* alone, however soon STOP follows START.                                 *)
(***************************************************************************)
FaultsReported ==
  \A u \in 1 .. Units :
    rows[u].status = "answered" =>
      /\ rows[u].reply.fault = (u \in FaultUnits)
      /\ u \in FaultUnits => rows[u].reply.sent = 0

(***************************************************************************)
(* A dropped control connection does not leave a generator sending: its    *)
(* threads end.                                                            *)
(***************************************************************************)
OrphanStops ==
  (unit.active /\ link[unit.no[1]].state = "closed") ~> (unit.sender = "ended")

(***************************************************************************)
(* A daemon told to stop exits, whoever is silent on the connection and    *)
(* whatever unit is running.                                               *)
(***************************************************************************)
ShutsDown == gstop ~> (daemon = "exited")

(***************************************************************************)
(* The sweep comes to its end in one of three ways: with a final result in *)
(* every row (or without a peer, before the first); killed from outside;   *)
(* or by SIGPIPE, and then only under a daemon that was told to stop and   *)
(* after a row that says the connection was lost: the first call that      *)
(* meets the closed connection returns, as ctrl.hpp promises of all.       *)
(***************************************************************************)
SweepEnds ==
  <>[] \/ driver.at = "done" /\ driver.no \in {0, Units}
          /\ \A u \in 1 .. driver.no : rows[u].status \notin {"pending", "started"}
       \/ driver.at = "killed"
       \/ driver.at = "sigpipe" /\ gstop /\ \E u \in 1 .. driver.no - 1 : rows[u].status = "lost"

Failed == {u \in 1 .. Units : rows[u].status \notin {"started", "answered"}}

(***************************************************************************)
(* A generator that is late once does not wedge the sweep: with a daemon   *)
(* that keeps running and units that can start, a reply that came too late *)
(* costs the unit it belonged to and no other.                             *)
(***************************************************************************)
LateCostsOneUnit ==
  driver = [at |-> "done", no |-> Units] /\ ~gstop /\ ~BindFails =>
    Cardinality(Failed) <= timeouts

(***************************************************************************)
(* Every call of the client returns, with false on a transport failure: a  *)
(* daemon that goes away does not take the driver with it.                 *)
(***************************************************************************)
DriverSurvives == driver.at # "sigpipe"
=============================================================================
