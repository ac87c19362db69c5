------------------------------ MODULE Transport ------------------------------
(***************************************************************************)
(* The transport back ends: posix (a system call per datagram), mmsg       *)
(* (recvmmsg and sendmmsg), uring (io_uring, the requests executed inside  *)
(* io_uring_submit) and uring-sqpoll (a kernel thread executes them while  *)
(* the caller goes on).  The caller is the loop of Shard::drain(): receive *)
(* a batch, read the slots it was told about, send as many, again.         *)
(*                                                                         *)
(* Datagrams arrive at any time, also between two requests of one batch.   *)
(***************************************************************************)
EXTENDS Integers, Sequences, FiniteSets

CONSTANTS
  Backends,      \* the back ends tried
  Batch,         \* batch_
  Entries,       \* submission entries of the ring (2 * batch_, at least 8)
  MaxArrivals    \* datagrams that arrive

ASSUME BackendsAssumption == Backends \subseteq {"posix", "mmsg", "uring", "uring-sqpoll"}
ASSUME BoundsAssumption   == {Batch, Entries, MaxArrivals} \subseteq Nat \ {0}

VARIABLES
  backend,    \* the back end opened, "none" before
  sockq,      \* the socket's receive queue
  arrived,    \* how many datagrams have arrived; they are numbered from 1
  slots,      \* the datagram in each receive slot, 0 before the first
  call,       \* the call in progress
  flight,     \* requests submitted to the ring and not yet executed
  cq,         \* completions not yet reaped
  delivered,  \* history: what the caller read (not kept with the poller)
  quiet       \* history: nothing has arrived inside a receive call

vars == <<backend, sockq, arrived, slots, call, flight, cq, delivered, quiet>>
ring == <<flight, cq>>

Uring     == {"uring", "uring-sqpoll"}
Smaller(a, b) == IF a < b THEN a ELSE b

\* pc: unmade; idle; submit, reap, drain (recv_batch); read; send, sending.
Idle == [pc |-> "idle", n |-> 0, i |-> 0, got |-> 0]

Init ==
  /\ backend = "none"
  /\ sockq = <<>> /\ arrived = 0
  /\ slots = [s \in 1..Batch |-> 0]
  /\ call = [Idle EXCEPT !.pc = "unmade"]
  /\ flight = <<>> /\ cq = <<>>
  /\ delivered = <<>> /\ quiet = TRUE

\* What a build and a kernel offer: recvmmsg() or not, a ring or not, and a
\* poller only where there is a ring.
transport_backends(batched, ring_ok, poll_ok) ==
  {"posix"} \cup (IF batched THEN {"mmsg"} ELSE {})
            \cup (IF ring_ok THEN {"uring"} ELSE {})
            \cup (IF ring_ok /\ poll_ok THEN {"uring-sqpoll"} ELSE {})

\* The socket that every back end opens, non-blocking: there is one unless one
\* of these steps fails.  Options that cannot be set are passed over.
OpenSteps == {"socket", "address", "bind"}
lr_open_udp_socket(failing) == failing \cap OpenSteps = {}

\* make_transport(): an offered back end, with its socket and, for io_uring, a
\* ring of its own, which the kernel may refuse although the probe was given one.
make_transport(b, offered, failing) ==
  /\ call.pc = "unmade"
  /\ IF b \in offered /\ lr_open_udp_socket(failing) /\ ~(b \in Uring /\ "ring" \in failing)
       THEN backend' = b /\ call' = Idle
       ELSE UNCHANGED <<backend, call>>
  /\ UNCHANGED <<sockq, arrived, slots, ring, delivered, quiet>>

Arrive ==
  /\ backend # "none" /\ arrived < MaxArrivals
  /\ arrived' = arrived + 1
  /\ sockq' = Append(sockq, arrived + 1)
  /\ quiet' = (quiet /\ call.pc \notin {"submit", "reap", "drain"})
  /\ UNCHANGED <<backend, slots, call, ring, delivered>>

-----------------------------------------------------------------------------
\* What a receive that got `got' datagrams leaves: the caller reads them.
Reading(n, got) == [pc |-> "read", n |-> n, i |-> 0, got |-> got]

\* PosixTransport::recv_batch(), whose max_batch() is 1: one recv().
PosixReceive ==
  /\ call.pc = "idle" /\ backend = "posix" /\ sockq # <<>>
  /\ slots' = [slots EXCEPT ![1] = Head(sockq)]
  /\ sockq' = Tail(sockq)
  /\ call' = Reading(1, 1)
  /\ UNCHANGED <<backend, arrived, ring, delivered, quiet>>

\* Mutant of MmsgReceive: the depth asked for is returned, not recvmmsg()'s count.
MmsgReceiveReturnsDepth(n) ==
  /\ call.pc = "idle" /\ backend = "mmsg" /\ sockq # <<>>
  /\ LET got == Smaller(n, Len(sockq))
     IN  /\ slots' = [s \in 1..Batch |-> IF s <= got THEN sockq[s] ELSE slots[s]]
         /\ sockq' = SubSeq(sockq, got + 1, Len(sockq))
  /\ call' = Reading(n, n)
  /\ UNCHANGED <<backend, arrived, ring, delivered, quiet>>

\* MmsgTransport::recv_batch(): recvmmsg() fills slots from the first on and
\* stops at the first datagram it does not have.
MmsgReceive(n) ==
  /\ call.pc = "idle" /\ backend = "mmsg" /\ sockq # <<>>
  /\ LET got == Smaller(n, Len(sockq))
     IN  /\ slots' = [s \in 1..Batch |-> IF s <= got THEN sockq[s] ELSE slots[s]]
         /\ sockq' = SubSeq(sockq, got + 1, Len(sockq))
         /\ call' = Reading(n, got)
  /\ UNCHANGED <<backend, arrived, ring, delivered, quiet>>

\* On an empty socket both return 0 and the caller asks again.
ReceivesNothing ==
  /\ call.pc = "idle" /\ backend \in {"posix", "mmsg"} /\ sockq = <<>>
  /\ UNCHANGED vars

\* Mutant of SubmitReceives: the requests name the slots from the last on.
SubmitReceivesBackwards(max_n) ==
  /\ call.pc = "idle" /\ backend \in Uring
  /\ LET n == Smaller(max_n, Entries - Len(flight))
     IN  /\ n > 0
         /\ flight' = flight \o [s \in 1..n |-> [kind |-> "recv", slot |-> n + 1 - s]]
         /\ call' = [pc |-> "submit", n |-> n, i |-> 0, got |-> 0]
  /\ UNCHANGED <<backend, sockq, arrived, slots, cq, delivered, quiet>>

\* UringTransport::recv_batch, first part: one request per slot, as many as
\* there are free entries.
SubmitReceives(max_n) ==
  /\ call.pc = "idle" /\ backend \in Uring
  /\ LET n == Smaller(max_n, Entries - Len(flight))
     IN  /\ n > 0
         /\ flight' = flight \o [s \in 1..n |-> [kind |-> "recv", slot |-> s]]
         /\ call' = [pc |-> "submit", n |-> n, i |-> 0, got |-> 0]
  /\ UNCHANGED <<backend, sockq, arrived, slots, cq, delivered, quiet>>

\* The kernel executes the oldest request: a receive takes a datagram or
\* fails with EAGAIN, a send always completes.
KernelStep ==
  /\ flight # <<>>
  /\ LET r  == Head(flight)
         ok == r.kind = "send" \/ sockq # <<>>
     IN  /\ flight' = Tail(flight)
         /\ cq' = Append(cq, [kind |-> r.kind, slot |-> r.slot, ok |-> ok])
         /\ IF r.kind = "recv" /\ ok
              THEN slots' = [slots EXCEPT ![r.slot] = Head(sockq)] /\ sockq' = Tail(sockq)
              ELSE UNCHANGED <<slots, sockq>>
  /\ UNCHANGED <<backend, arrived, call, delivered, quiet>>

\* Mutant of Submitted: recv_batch() drains the ring before it reaps it.
SubmittedDrained ==
  /\ call.pc \in {"submit", "send"} /\ backend \in Uring
  /\ call.pc = "send" => call.got > 0
  /\ backend = "uring" => flight = <<>>
  /\ call' = [call EXCEPT !.pc = IF @ = "submit" THEN "reap" ELSE "sending"]
  /\ cq' = IF call.pc = "submit" THEN <<>> ELSE cq
  /\ UNCHANGED <<backend, sockq, arrived, slots, flight, delivered, quiet>>

\* io_uring_submit returns: without SQPOLL the requests have been executed.
Submitted ==
  /\ call.pc \in {"submit", "send"} /\ backend \in Uring
  /\ call.pc = "send" => call.got > 0
  /\ backend = "uring" => flight = <<>>
  /\ call' = [call EXCEPT !.pc = IF @ = "submit" THEN "reap" ELSE "sending"]
  /\ UNCHANGED <<backend, sockq, arrived, slots, ring, delivered, quiet>>

\* Mutant of Reap: an EAGAIN completion is not one of the n awaited.
ReapDatagramsOnly ==
  /\ call.pc = "reap"
  /\ \/ /\ call.i < call.n /\ cq # <<>>
        /\ cq' = Tail(cq)
        /\ call' = IF Head(cq).ok THEN [call EXCEPT !.i = @ + 1, !.got = @ + 1] ELSE call
     \/ /\ call.i = call.n \/ (cq = <<>> /\ call.got > 0)
        /\ call' = [call EXCEPT !.pc = "drain"]
        /\ UNCHANGED cq
  /\ UNCHANGED <<backend, sockq, arrived, slots, flight, delivered, quiet>>

\* One iteration of the reaping loop.  Any completion with a positive result
\* counts, under the slot it carries; with none ready the loop ends if it has
\* something, and waits if it has nothing.
Reap ==
  /\ call.pc = "reap"
  /\ \/ /\ call.i < call.n /\ cq # <<>>
        /\ cq' = Tail(cq)
        /\ call' = [call EXCEPT !.i = @ + 1, !.got = IF Head(cq).ok THEN @ + 1 ELSE @]
     \/ /\ call.i = call.n \/ (cq = <<>> /\ call.got > 0)
        /\ call' = [call EXCEPT !.pc = "drain"]
        /\ UNCHANGED cq
  /\ UNCHANGED <<backend, sockq, arrived, slots, flight, delivered, quiet>>

\* drain_pending() throws away what has completed meanwhile, one at a time
\* until it finds none.
DrainPending ==
  /\ call.pc = "drain"
  /\ cq' = <<>>
  /\ call' = IF call.got = 0 THEN Idle ELSE [call EXCEPT !.pc = "read", !.i = 0]
  /\ UNCHANGED <<backend, sockq, arrived, slots, flight, delivered, quiet>>

-----------------------------------------------------------------------------
\* Shard::drain() reads slot after slot and then sends what it forwards.
ReadSlot ==
  /\ call.pc = "read"
  /\ delivered' = IF backend = "uring-sqpoll" THEN delivered
                  ELSE Append(delivered, slots[call.i + 1])
  /\ IF call.i + 1 < call.got THEN call' = [call EXCEPT !.i = @ + 1]
     ELSE \E to_send \in 0..call.got :
            call' = IF to_send = 0 THEN Idle ELSE [pc |-> "send", n |-> to_send, i |-> 0, got |-> 0]
  /\ UNCHANGED <<backend, sockq, arrived, slots, ring, quiet>>

\* PosixTransport::send_batch(): one sendto() per datagram.  A refusal left
\* over from an earlier datagram counts as sent, another error ends the call.
PosixSend(fails) ==
  /\ call.pc = "send" /\ backend = "posix"
  /\ call' = IF ~fails /\ call.i + 1 < call.n THEN [call EXCEPT !.i = @ + 1] ELSE Idle
  /\ UNCHANGED <<backend, sockq, arrived, slots, ring, delivered, quiet>>

\* MmsgTransport::send_batch(): a chunk at a time, a refusal counting as the
\* whole chunk; a short chunk or another error ends the call.
MmsgSend(sent) ==
  /\ call.pc = "send" /\ backend = "mmsg"
  /\ LET chunk == Smaller(Batch, call.n - call.i)
     IN  /\ sent <= chunk
         /\ call' = IF sent = chunk /\ call.i + chunk < call.n
                      THEN [call EXCEPT !.i = @ + chunk] ELSE Idle
  /\ UNCHANGED <<backend, sockq, arrived, slots, ring, delivered, quiet>>

\* send_batch() of uring: a chunk is submitted ...
SubmitSends ==
  /\ call.pc = "send" /\ backend \in Uring /\ call.got = 0
  /\ LET chunk == Smaller(Smaller(Batch, call.n - call.i), Entries - Len(flight))
     IN  IF chunk = 0 THEN call' = Idle /\ UNCHANGED flight
         ELSE /\ flight' = flight \o [s \in 1..chunk |-> [kind |-> "send", slot |-> s]]
              /\ call' = [call EXCEPT !.got = chunk]
  /\ UNCHANGED <<backend, sockq, arrived, slots, cq, delivered, quiet>>

\* ... and as many completions are waited for, whatever they complete.
AwaitSend ==
  /\ call.pc = "sending" /\ cq # <<>>
  /\ cq' = Tail(cq)
  /\ call' = IF call.got > 1 THEN [call EXCEPT !.got = @ - 1, !.i = @ + 1]
             ELSE IF call.i + 1 < call.n THEN [call EXCEPT !.pc = "send", !.got = 0, !.i = @ + 1]
             ELSE Idle
  /\ UNCHANGED <<backend, sockq, arrived, slots, flight, delivered, quiet>>

Caller ==
  \/ PosixReceive \/ ReceivesNothing
  \/ \E n \in 1..Batch : MmsgReceive(n) \/ SubmitReceives(n)
  \/ Submitted
  \/ Reap \/ DrainPending \/ ReadSlot \/ SubmitSends \/ AwaitSend
  \/ \E fails \in BOOLEAN : PosixSend(fails)
  \/ \E sent \in 0..Batch : MmsgSend(sent)

Make ==
  \E b \in Backends, batched, ring_ok, poll_ok \in BOOLEAN :
    \E failing \in SUBSET (OpenSteps \cup {"ring"}) :
      make_transport(b, transport_backends(batched, ring_ok, poll_ok), failing)

Next == Make \/ Arrive \/ KernelStep \/ Caller

Spec == Init /\ [][Next]_vars /\ WF_vars(KernelStep) /\ WF_vars(Caller)

-----------------------------------------------------------------------------
Datagrams == 0..MaxArrivals
Requests  == [kind: {"recv", "send"}, slot: 1..Batch]
Results   == [kind: {"recv", "send"}, slot: 1..Batch, ok: BOOLEAN]

Calls     == [pc: {"unmade", "idle", "submit", "reap", "drain", "read", "send", "sending"},
              n: 0..Batch, i: 0..Batch, got: 0..Batch]

TypeOK ==
  /\ backend \in Backends \cup {"none"}
  /\ sockq \in Seq(Datagrams) /\ delivered \in Seq(Datagrams)
  /\ arrived \in Datagrams
  /\ slots \in [1..Batch -> Datagrams]
  /\ call \in Calls
  /\ flight \in Seq(Requests) /\ cq \in Seq(Results)
  /\ quiet \in BOOLEAN

\* What recv_batch() promises (transport.hpp): posix and mmsg hand over what
\* arrived, in order, each datagram once and none lost, although a batch
\* reuses the buffers of the one before it.
InHand == IF call.pc = "read" THEN SubSeq(slots, call.i + 1, call.got) ELSE <<>>
Q == INSTANCE DatagramQueue WITH queue <- InHand \o sockq
ContractKept == [][backend \notin Uring => [Q!Next]_(Q!vars)]_vars

\* io_uring without the poller: the counts are right, every datagram taken from
\* the socket is counted by one call and drain_pending() throws none away; and as
\* long as nothing arrives while a receive call is under way, the slots the
\* caller reads are the slots that were filled, in order.  (When something does
\* arrive then, the first request may have failed and a later one succeeded,
\* and the caller reads the first slots all the same.)
Received == CASE call.pc \in {"reap", "drain"} -> call.got
              [] call.pc = "read"              -> call.got - call.i
              [] OTHER                         -> 0
Filled(q) == {k \in DOMAIN q : q[k].kind = "recv" /\ q[k].ok}
RingCountsRight ==
  backend = "uring" =>
    /\ arrived = Len(sockq) + Cardinality(Filled(cq)) + Received + Len(delivered)
    /\ quiet => \A i \in DOMAIN delivered : delivered[i] = i

\* recv_batch() and send_batch() wait without a time limit for completions
\* that may belong to requests of earlier calls: there are always enough
\* outstanding for the wait to end, also after drain_pending() has thrown some
\* away, and never more than the ring's queues hold.
WaitsAreCovered ==
  /\ TypeOK
  /\ call.pc \in {"submit", "reap"} => Len(flight) + Len(cq) >= call.n - call.i
  /\ call.pc \in {"send", "sending"} => Len(flight) + Len(cq) >= call.got
  /\ Len(flight) <= Entries /\ Len(cq) <= 2 * Entries

\* Every call of the transport returns, whatever is or is not in the socket;
\* and with posix and mmsg everything that arrives is handed over in the end.
CallsReturn ==
  /\ call.pc \notin {"unmade", "idle"} ~> call.pc = "idle"
  /\ \A d \in 1..MaxArrivals :
       (backend \notin Uring /\ arrived >= d) ~> (\E i \in DOMAIN delivered : delivered[i] = d)
=============================================================================
