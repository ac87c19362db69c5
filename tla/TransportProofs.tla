--------------------------- MODULE TransportProofs ---------------------------
(***************************************************************************)
(* Proofs about the transports, for any batch, any ring and any number of  *)
(* datagrams: the waits of io_uring are covered and its queues suffice,    *)
(* without the poller it counts datagrams right and hands them over in     *)
(* order, and posix and mmsg implement a queue.                            *)
(*                                                                         *)
(* What is outstanding on the ring is what the call in progress asked for  *)
(* and what earlier calls left behind; the invariant bounds the latter by  *)
(* the submission queue, which drain_pending() and send_batch() restore.   *)
(***************************************************************************)
EXTENDS Transport, SequenceTheorems, FiniteSetTheorems, TLAPS

Outstanding == Len(flight) + Len(cq)

\* How far the call in progress is.
Counting ==
  /\ call.pc \in {"submit", "reap"} => call.got <= call.i /\ call.i <= call.n /\ call.n <= Entries
  /\ call.pc = "read" => call.i < call.got
  /\ call.pc \in {"send", "sending"} =>
       call.i < call.n /\ call.i + call.got <= call.n /\ call.got <= Entries
  /\ call.pc = "sending" => call.got > 0

\* At least what the call waits for is outstanding ...
Covered ==
  /\ call.pc \in {"submit", "reap"} => Outstanding >= call.n - call.i
  /\ call.pc \in {"send", "sending"} => Outstanding >= call.got

\* ... and at most that and a submission queue full.
Bounded ==
  /\ Len(flight) <= Entries
  /\ call.pc \in {"unmade", "idle", "drain", "read"} => Outstanding <= Entries
  /\ call.pc \in {"submit", "reap"} => Outstanding <= Entries + call.n - call.i
  /\ call.pc \in {"send", "sending"} => Outstanding <= Entries + call.got

\* posix and mmsg have no ring, and every datagram is with them, in the socket
\* or with the caller.
Ringless ==
  /\ call.pc = "unmade" <=> backend = "none"
  /\ backend \notin Uring =>
       /\ flight = <<>> /\ cq = <<>>
       /\ call.pc \in {"unmade", "idle", "read", "send"}
       /\ call.pc = "send" => call.got = 0
       /\ arrived = Len(delivered) + Len(InHand) + Len(sockq)

IInv == TypeOK /\ Counting /\ Covered /\ Bounded /\ Ringless

-----------------------------------------------------------------------------
\* The bounds, one by one.
LEMMA Bounds == Batch \in Nat \ {0} /\ Entries \in Nat \ {0} /\ MaxArrivals \in Nat \ {0}
BY BoundsAssumption

\* The receive slots are a sequence of Batch datagrams.
LEMMA SlotsSeq ==
  ASSUME TypeOK
  PROVE  slots \in Seq(Datagrams) /\ Len(slots) = Batch
BY Bounds DEF TypeOK

\* A batch of requests, one per slot from the first on.
LEMMA RequestsSeq ==
  ASSUME NEW kind \in {"recv", "send"}, NEW n \in 0..Batch
  PROVE  LET rs == [s \in 1..n |-> [kind |-> kind, slot |-> s]]
         IN  rs \in Seq(Requests) /\ Len(rs) = n
<1> DEFINE rs == [s \in 1..n |-> [kind |-> kind, slot |-> s]]
<1>1. n \in Nat /\ \A s \in 1..n : [kind |-> kind, slot |-> s] \in Requests  BY Bounds DEF Requests
<1>2. rs \in [1..n -> Requests]  BY <1>1
<1> QED  BY <1>1, <1>2

\* A call as it stands, field by field.
LEMMA CallType ==
  ASSUME TypeOK
  PROVE  /\ call.n \in Nat /\ call.i \in Nat /\ call.got \in Nat
         /\ call.n <= Batch /\ call.i <= Batch /\ call.got <= Batch
         /\ Len(flight) \in Nat /\ Len(cq) \in Nat
BY Bounds DEF TypeOK, Calls

\* A call that returns leaves nothing of itself.
LEMMA IdleFields ==
  /\ Idle \in Calls /\ Idle.pc = "idle" /\ Idle.n = 0 /\ Idle.i = 0 /\ Idle.got = 0
BY Bounds DEF Idle, Calls

\* A step of a call that leaves the ring alone and stays outside of it.
LEMMA OffTheRing ==
  ASSUME IInv, UNCHANGED <<flight, cq, backend>>, call' \in Calls,
         \/ call'.pc \in {"idle", "unmade"}
         \/ call'.pc = "read" /\ call'.i < call'.got
         \/ call'.pc = "send" /\ call'.i < call'.n /\ call'.got = 0,
         call.pc \in {"unmade", "idle", "drain", "read"} \/ (call.pc = "send" /\ call.got = 0)
  PROVE  Counting' /\ Covered' /\ Bounded'
<1>1. call'.i \in Nat /\ call'.n \in Nat  BY Bounds DEF Calls
<1>2. Outstanding' = Outstanding /\ Outstanding \in Nat  BY CallType DEF IInv, Outstanding
<1>3. Counting'  BY <1>1, Bounds DEF Counting
<1>4. Covered'  BY <1>1, <1>2 DEF Covered
<1>5. Bounded'  BY <1>1, <1>2, Bounds DEF IInv, Bounded
<1> QED  BY <1>3, <1>4, <1>5

\* What the caller still has to read of a batch.
Hand(sl, c) == IF c.pc = "read" THEN SubSeq(sl, c.i + 1, c.got) ELSE <<>>

LEMMA HandLen ==
  ASSUME NEW sl \in [1..Batch -> Datagrams], NEW c \in Calls, c.pc = "read" => c.i < c.got
  PROVE  /\ Hand(sl, c) \in Seq(Datagrams)
         /\ c.pc = "read" => Len(Hand(sl, c)) = c.got - c.i
         /\ c.pc = "read" => \A k \in 1..(c.got - c.i) : Hand(sl, c)[k] = sl[c.i + k]
         /\ c.pc # "read" => Hand(sl, c) = <<>> /\ Len(Hand(sl, c)) = 0
<1>1. CASE c.pc = "read"
  <2>1. c.i \in Nat /\ c.got \in Nat /\ c.i < c.got /\ c.got <= Batch  BY <1>1, Bounds DEF Calls
  <2>2. \A k \in (c.i + 1)..c.got : sl[k] \in Datagrams  BY <2>1, Bounds
  <2> DEFINE hand == SubSeq(sl, c.i + 1, c.got)
  <2>3. hand \in Seq(Datagrams) /\ Len(hand) = c.got - c.i  BY <2>1, <2>2, SubSeqProperties
  <2>4. \A k \in 1..(c.got - c.i) : hand[k] = sl[c.i + k]
    <3>1. \A k \in 1..(c.got - (c.i + 1) + 1) : hand[k] = sl[c.i + 1 + k - 1]
      BY <2>1, <2>2, SubSeqProperties
    <3>2. c.got - (c.i + 1) + 1 = c.got - c.i  BY <2>1
    <3> QED  BY <2>1, <3>1, <3>2
  <2> QED  BY <1>1, <2>3, <2>4 DEF Hand
<1>2. CASE c.pc # "read"  BY <1>2, EmptySeq DEF Hand
<1> QED  BY <1>1, <1>2

\* InHand is that of the present state, and of the next.
LEMMA InHandLen ==
  ASSUME TypeOK, Counting
  PROVE  /\ InHand = Hand(slots, call) /\ InHand \in Seq(Datagrams)
         /\ call.pc = "read" => Len(InHand) = call.got - call.i
         /\ call.pc # "read" => Len(InHand) = 0
BY HandLen DEF InHand, Hand, TypeOK, Counting

LEMMA InHandNext ==
  ASSUME TypeOK', Counting'
  PROVE  /\ InHand' = Hand(slots', call') /\ InHand' \in Seq(Datagrams)
         /\ call'.pc = "read" => Len(InHand') = call'.got - call'.i
         /\ call'.pc # "read" => Len(InHand') = 0
<1>1. InHand' = Hand(slots', call')  BY DEF InHand, Hand
<1>2. slots' \in [1..Batch -> Datagrams] /\ call' \in Calls /\ (call'.pc = "read" => call'.i < call'.got)
  BY DEF TypeOK, Counting
<1> QED  BY <1>1, <1>2, HandLen

-----------------------------------------------------------------------------
(* The ring: what is outstanding.                                          *)

\* make_transport() opens a back end, or not.
LEMMA MakeKeeps ==
  ASSUME IInv, NEW b \in Backends, NEW offered, NEW failing, make_transport(b, offered, failing)
  PROVE  IInv'
<1>0. UNCHANGED <<sockq, arrived, slots, ring, delivered, quiet>> /\ call.pc = "unmade"
  BY DEF make_transport
<1>1. (backend' = b /\ call' = Idle) \/ UNCHANGED <<backend, call>>  BY DEF make_transport
<1>2. Outstanding' = Outstanding /\ Outstanding \in Nat /\ Outstanding <= Entries
  BY <1>0, CallType DEF IInv, Outstanding, Bounded, ring
<1>3. TypeOK'  BY <1>0, <1>1, IdleFields DEF IInv, TypeOK, ring
<1>4. Counting' /\ Covered'  BY <1>0, <1>1, IdleFields DEF Counting, Covered
<1>5. Bounded'  BY <1>0, <1>1, <1>2, IdleFields DEF IInv, Bounded, ring
<1>6. Ringless'
  <2>1. backend = "none" /\ "none" \notin Uring  BY <1>0 DEF IInv, Ringless, Uring
  <2>2. b # "none"  BY BackendsAssumption
  <2>3. InHand' = InHand  BY <1>0, <1>1, IdleFields DEF InHand
  <2> QED  BY <1>0, <1>1, <2>1, <2>2, <2>3, IdleFields DEF IInv, Ringless, ring
<1> QED  BY <1>3, <1>4, <1>5, <1>6 DEF IInv

\* A datagram arrives.
LEMMA ArriveKeeps ==
  ASSUME IInv, Arrive
  PROVE  IInv'
<1>0. UNCHANGED <<backend, slots, call, ring, delivered>> /\ arrived' = arrived + 1  BY DEF Arrive
<1>1. arrived' \in Datagrams  BY Bounds DEF IInv, TypeOK, Datagrams, Arrive
<1>2. sockq' \in Seq(Datagrams) /\ Len(sockq') = Len(sockq) + 1
  BY <1>0, <1>1, AppendProperties DEF IInv, TypeOK, Arrive
<1>3. TypeOK'
  <2>1. quiet' \in BOOLEAN  BY DEF Arrive
  <2> QED  BY <1>0, <1>1, <1>2, <2>1 DEF IInv, TypeOK, ring
<1>4. Counting' /\ Covered' /\ Bounded'
  BY <1>0 DEF IInv, Counting, Covered, Bounded, Outstanding, ring
<1>5. Ringless'
  <2>1. InHand' = InHand  BY <1>0 DEF InHand
  <2>2. Len(InHand) \in Nat /\ Len(sockq) \in Nat /\ Len(delivered) \in Nat
    BY InHandLen DEF IInv, TypeOK
  <2> QED  BY <1>0, <1>2, <2>1, <2>2 DEF IInv, Ringless, ring
<1> QED  BY <1>3, <1>4, <1>5 DEF IInv

\* The kernel turns a request into a completion.
LEMMA KernelKeeps ==
  ASSUME IInv, KernelStep
  PROVE  IInv'
<1> DEFINE r == Head(flight)
           e == [kind |-> r.kind, slot |-> r.slot, ok |-> (r.kind = "send" \/ sockq # <<>>)]
<1>0. UNCHANGED <<backend, arrived, call, delivered, quiet>> /\ flight # <<>>  BY DEF KernelStep
<1>1. backend \in Uring  BY <1>0 DEF IInv, Ringless
<1>2. /\ r \in Requests /\ Tail(flight) \in Seq(Requests) /\ Len(Tail(flight)) = Len(flight) - 1
  BY <1>0, HeadTailProperties DEF IInv, TypeOK
<1>3. e \in Results  BY <1>2 DEF Requests, Results
<1>4. flight' = Tail(flight) /\ cq' = Append(cq, e)  BY DEF KernelStep
<1>5. cq' \in Seq(Results) /\ Len(cq') = Len(cq) + 1
  BY <1>3, <1>4, AppendProperties DEF IInv, TypeOK
<1>6. slots' \in [1..Batch -> Datagrams] /\ sockq' \in Seq(Datagrams)
  <2>1. CASE r.kind = "recv" /\ sockq # <<>>
    <3>1. slots' = [slots EXCEPT ![r.slot] = Head(sockq)] /\ sockq' = Tail(sockq)
      BY <2>1 DEF KernelStep
    <3>2. Head(sockq) \in Datagrams /\ Tail(sockq) \in Seq(Datagrams)
      BY <2>1, HeadTailProperties DEF IInv, TypeOK
    <3> QED  BY <3>1, <3>2 DEF IInv, TypeOK
  <2>2. CASE ~(r.kind = "recv" /\ sockq # <<>>)
    <3>1. r.kind \in {"recv", "send"}  BY <1>2 DEF Requests
    <3>2. UNCHANGED <<slots, sockq>>  BY <2>2, <3>1 DEF KernelStep
    <3> QED  BY <3>2 DEF IInv, TypeOK
  <2> QED  BY <2>1, <2>2
<1>7. TypeOK'  BY <1>0, <1>2, <1>4, <1>5, <1>6 DEF IInv, TypeOK
<1>8. Outstanding' = Outstanding /\ Len(flight') <= Len(flight)
  BY <1>2, <1>4, <1>5, CallType DEF IInv, Outstanding
<1>9. Counting' /\ Covered'  BY <1>0, <1>8 DEF IInv, Counting, Covered
<1>10. Bounded'
  <2>1. Len(flight') \in Nat /\ Len(flight) \in Nat  BY <1>2, <1>4, CallType DEF IInv
  <2> QED  BY <1>0, <1>8, <2>1, Bounds DEF IInv, Bounded
<1>11. Ringless'  BY <1>0, <1>1 DEF IInv, Ringless
<1> QED  BY <1>7, <1>9, <1>10, <1>11 DEF IInv

\* recv_batch() of uring queues as many requests as there is room for.
LEMMA SubmitReceivesKeeps ==
  ASSUME IInv, NEW max_n \in 1..Batch, SubmitReceives(max_n)
  PROVE  IInv'
<1> DEFINE n == Smaller(max_n, Entries - Len(flight))
           rs == [s \in 1..n |-> [kind |-> "recv", slot |-> s]]
<1>0. UNCHANGED <<backend, sockq, arrived, slots, cq, delivered, quiet>> /\ call.pc = "idle" /\ backend \in Uring
  BY DEF SubmitReceives
<1>1. n \in 1..Batch /\ n <= Entries - Len(flight)
  BY Bounds, CallType DEF IInv, Bounded, SubmitReceives, Smaller
<1>2. rs \in Seq(Requests) /\ Len(rs) = n  BY <1>1, RequestsSeq
<1>3. flight' = flight \o rs /\ call' = [pc |-> "submit", n |-> n, i |-> 0, got |-> 0]
  BY DEF SubmitReceives
<1> HIDE DEF n, rs
<1>4. flight' \in Seq(Requests) /\ Len(flight') = Len(flight) + n
  BY <1>2, <1>3, ConcatProperties DEF IInv, TypeOK
<1>5. call' \in Calls /\ call'.pc = "submit" /\ call'.n = n /\ call'.i = 0 /\ call'.got = 0
  BY <1>1, <1>3, Bounds DEF Calls
<1>6. TypeOK'  BY <1>0, <1>4, <1>5 DEF IInv, TypeOK
<1>7. Outstanding' = Outstanding + n /\ Outstanding \in Nat /\ Outstanding <= Entries
  BY <1>0, <1>1, <1>4, CallType DEF IInv, Outstanding, Bounded
<1>8. Len(flight) \in Nat /\ n \in Nat  BY <1>1, CallType DEF IInv
<1>9. Counting'  BY <1>1, <1>5, <1>8, Bounds DEF Counting
<1>10. Covered'  BY <1>5, <1>7, <1>8 DEF Covered
<1>11. Bounded'  BY <1>1, <1>4, <1>5, <1>7, <1>8, Bounds DEF Bounded
<1>12. Ringless'  BY <1>0, <1>5 DEF IInv, Ringless
<1> QED  BY <1>6, <1>9, <1>10, <1>11, <1>12 DEF IInv

\* io_uring_submit() returns.
LEMMA SubmittedKeeps ==
  ASSUME IInv, Submitted
  PROVE  IInv'
<1>0. /\ UNCHANGED <<backend, sockq, arrived, slots, ring, delivered, quiet>> /\ backend \in Uring
      /\ call.pc \in {"submit", "send"} /\ (call.pc = "send" => call.got > 0)
  BY DEF Submitted
<1>1. /\ call' \in Calls /\ call'.n = call.n /\ call'.i = call.i /\ call'.got = call.got
      /\ call.pc = "submit" => call'.pc = "reap"
      /\ call.pc = "send" => call'.pc = "sending"
  BY <1>0 DEF Submitted, IInv, TypeOK, Calls
<1>2. TypeOK'  BY <1>0, <1>1 DEF IInv, TypeOK, ring
<1>3. Counting' /\ Covered' /\ Bounded'
  BY <1>0, <1>1 DEF IInv, Counting, Covered, Bounded, Outstanding, ring
<1>4. Ringless'  BY <1>0, <1>1 DEF IInv, Ringless
<1> QED  BY <1>2, <1>3, <1>4 DEF IInv

\* recv_batch() takes a completion, or has them all.
LEMMA ReapKeeps ==
  ASSUME IInv, Reap
  PROVE  IInv'
<1>0. /\ UNCHANGED <<backend, sockq, arrived, slots, flight, delivered, quiet>> /\ call.pc = "reap"
      /\ backend \in Uring
  BY DEF Reap, IInv, Ringless
<1>1. CASE /\ call.i < call.n /\ cq # <<>> /\ cq' = Tail(cq)
           /\ call' = [call EXCEPT !.i = @ + 1, !.got = IF Head(cq).ok THEN @ + 1 ELSE @]
  <2>1. /\ call.i \in Nat /\ call.n \in Nat /\ call.got \in Nat /\ call.got <= call.i
        /\ call.n <= Batch /\ Len(flight) \in Nat /\ Len(cq) \in Nat
    BY <1>0, CallType DEF IInv, Counting
  <2>2. /\ call' \in Calls /\ call'.pc = "reap" /\ call'.n = call.n /\ call'.i = call.i + 1
        /\ call'.got \in Nat /\ call'.got <= call.got + 1
    <3>1. call.i + 1 \in 0..Batch /\ call.got + 1 \in 0..Batch  BY <1>1, <2>1, Bounds, SMTT(40)
    <3>2. PICK g \in {call.got, call.got + 1} : call' = [call EXCEPT !.i = call.i + 1, !.got = g]
      BY <1>1
    <3>3. g \in 0..Batch /\ g <= call.got + 1  BY <2>1, <3>1, Bounds
    <3>4. call \in Calls  BY DEF IInv, TypeOK
    <3>5. call' \in Calls  BY <3>1, <3>2, <3>3, <3>4 DEF Calls
    <3>6. call'.pc = "reap" /\ call'.n = call.n /\ call'.i = call.i + 1 /\ call'.got = g
      BY <1>0, <3>2, <3>4 DEF Calls
    <3> QED  BY <2>1, <3>3, <3>5, <3>6
  <2>3. cq' \in Seq(Results) /\ Len(cq') = Len(cq) - 1
    BY <1>1, HeadTailProperties DEF IInv, TypeOK
  <2>4. TypeOK'  BY <1>0, <2>2, <2>3 DEF IInv, TypeOK
  <2>5. Outstanding' = Outstanding - 1 /\ Outstanding \in Nat  BY <1>0, <2>1, <2>3 DEF Outstanding
  <2>6. Counting'  BY <1>0, <1>1, <2>1, <2>2, Bounds, SMTT(40) DEF IInv, Counting
  <2>7. Covered' /\ Bounded'
    <3>1. Covered'  BY <1>0, <1>1, <2>1, <2>2, <2>5, SMTT(40) DEF IInv, Covered
    <3>2. Outstanding <= Entries + call.n - call.i /\ Len(flight) <= Entries
      BY <1>0 DEF IInv, Bounded
    <3>3. Outstanding' <= Entries + call'.n - call'.i  BY <2>1, <2>2, <2>5, <3>2, Bounds
    <3>4. Bounded'  BY <1>0, <2>2, <3>2, <3>3 DEF Bounded
    <3> QED  BY <3>1, <3>4
  <2>8. Ringless'  BY <1>0, <2>2 DEF IInv, Ringless
  <2> QED  BY <2>4, <2>6, <2>7, <2>8 DEF IInv
<1>2. CASE /\ call.i = call.n \/ (cq = <<>> /\ call.got > 0)
           /\ call' = [call EXCEPT !.pc = "drain"] /\ UNCHANGED cq
  <2>1. call' \in Calls /\ call'.pc = "drain"  BY <1>2 DEF IInv, TypeOK, Calls
  <2>2. TypeOK'  BY <1>0, <1>2, <2>1 DEF IInv, TypeOK
  <2>3. Counting' /\ Covered'  BY <2>1 DEF Counting, Covered
  <2>4. Bounded'
    <3>1. Len(flight) \in Nat /\ Len(cq) \in Nat /\ call.n \in Nat /\ call.i \in Nat
      BY CallType DEF IInv
    <3>2. cq = <<>> => Len(cq) = 0  BY EmptySeq
    <3>3. Outstanding <= Entries  BY <1>0, <1>2, <3>1, <3>2, Bounds DEF IInv, Bounded, Outstanding
    <3> QED  BY <1>0, <1>2, <2>1, <3>3 DEF IInv, Bounded, Outstanding
  <2>5. Ringless'  BY <1>0, <2>1 DEF IInv, Ringless
  <2> QED  BY <2>2, <2>3, <2>4, <2>5 DEF IInv
<1> QED  BY <1>1, <1>2 DEF Reap

\* drain_pending() empties the completion queue.
LEMMA DrainKeeps ==
  ASSUME IInv, DrainPending
  PROVE  IInv'
<1>0. /\ UNCHANGED <<backend, sockq, arrived, slots, flight, delivered, quiet>> /\ call.pc = "drain"
      /\ cq' = <<>> /\ backend \in Uring
  BY DEF DrainPending, IInv, Ringless
<1>1. /\ call' \in Calls
      /\ call'.pc = "idle" \/ (call'.pc = "read" /\ call'.i < call'.got)
  <2>1. CASE call.got = 0  BY <2>1, IdleFields DEF DrainPending
  <2>2. CASE call.got # 0
    <3>1. call' = [call EXCEPT !.pc = "read", !.i = 0]  BY <2>2 DEF DrainPending
    <3>2. 0 \in 0..Batch  BY Bounds
    <3>3. call' \in Calls /\ call'.pc = "read" /\ call'.i = 0 /\ call'.got = call.got
      BY <3>1, <3>2 DEF IInv, TypeOK, Calls
    <3> QED  BY <2>2, <3>3, CallType DEF IInv
  <2> QED  BY <2>1, <2>2
<1>2. TypeOK'  BY <1>0, <1>1, EmptySeq DEF IInv, TypeOK
<1>3. Counting' /\ Covered'  BY <1>1 DEF Counting, Covered
<1>4. Bounded'
  <2>1. Len(cq') = 0 /\ Len(flight) \in Nat  BY <1>0, EmptySeq, CallType DEF IInv
  <2> QED  BY <1>0, <1>1, <2>1, Bounds DEF IInv, Bounded, Outstanding
<1>5. Ringless'  BY <1>0, <1>1 DEF IInv, Ringless
<1> QED  BY <1>2, <1>3, <1>4, <1>5 DEF IInv

\* The caller reads a slot, and sends or asks again after the last of them.
LEMMA ReadSlotKeeps ==
  ASSUME IInv, ReadSlot
  PROVE  IInv'
<1>0. UNCHANGED <<backend, sockq, arrived, slots, ring, quiet>> /\ call.pc = "read"  BY DEF ReadSlot
<1>1. /\ call.i \in Nat /\ call.got \in Nat /\ call.i < call.got /\ call.got <= Batch
      /\ slots[call.i + 1] \in Datagrams
  <2>1. call.i \in Nat /\ call.got \in Nat /\ call.i < call.got /\ call.got <= Batch
    BY <1>0, CallType DEF IInv, Counting
  <2> QED  BY <2>1, Bounds DEF IInv, TypeOK
<1>2. \/ /\ call.i + 1 < call.got /\ call' \in Calls /\ call'.pc = "read" 
         /\ call'.i = call.i + 1 /\ call'.got = call.got
      \/ /\ call.i + 1 = call.got /\ call' = Idle
      \/ /\ call.i + 1 = call.got /\ call' \in Calls /\ call'.pc = "send"
         /\ call'.i = 0 /\ call'.n > 0 /\ call'.got = 0
  <2>1. CASE call.i + 1 < call.got
    <3>1. call' = [call EXCEPT !.i = call.i + 1]  BY <2>1 DEF ReadSlot
    <3>2. call.i + 1 \in 0..Batch  BY <1>1, <2>1, Bounds
    <3> QED  BY <1>0, <2>1, <3>1, <3>2 DEF IInv, TypeOK, Calls
  <2>2. CASE ~(call.i + 1 < call.got)
    <3>1. call.i + 1 = call.got  BY <1>1, <2>2
    <3>2. PICK to_send \in 0..call.got :
            call' = IF to_send = 0 THEN Idle ELSE [pc |-> "send", n |-> to_send, i |-> 0, got |-> 0]
      BY <2>2 DEF ReadSlot
    <3>3. to_send \in 0..Batch /\ 0 \in 0..Batch /\ (to_send # 0 => to_send > 0)  BY <1>1, Bounds
    <3> QED  BY <3>1, <3>2, <3>3 DEF Calls
  <2> QED  BY <2>1, <2>2
<1>3. /\ delivered' \in Seq(Datagrams)
      /\ backend \notin Uring => Len(delivered') = Len(delivered) + 1
  <2>1. delivered' = delivered \/ delivered' = Append(delivered, slots[call.i + 1])  BY DEF ReadSlot
  <2>2. backend \notin Uring => delivered' = Append(delivered, slots[call.i + 1])
    BY DEF ReadSlot, Uring
  <2>3. /\ delivered \in Seq(Datagrams) /\ Append(delivered, slots[call.i + 1]) \in Seq(Datagrams)
        /\ Len(Append(delivered, slots[call.i + 1])) = Len(delivered) + 1
    BY <1>1, AppendProperties DEF IInv, TypeOK
  <2> QED  BY <2>1, <2>2, <2>3
<1>4. call' \in Calls  BY <1>2, IdleFields
<1>5. TypeOK'  BY <1>0, <1>3, <1>4 DEF IInv, TypeOK, ring
<1>6. Counting' /\ Covered' /\ Bounded'  BY <1>0, <1>1, <1>2, <1>4, IdleFields, OffTheRing DEF ring
<1>7. Ringless'
  <2>1. backend \notin Uring => Len(InHand') = Len(InHand) - 1
    <3>1. Len(InHand) = call.got - call.i  BY <1>0, InHandLen DEF IInv
    <3>2. call'.pc = "read" => Len(InHand') = call'.got - call'.i  BY <1>5, <1>6, InHandNext
    <3>3. call'.pc # "read" => Len(InHand') = 0  BY <1>5, <1>6, InHandNext
    <3> QED  BY <1>1, <1>2, <3>1, <3>2, <3>3, IdleFields
  <2>2. Len(InHand) \in Nat /\ Len(delivered) \in Nat /\ Len(sockq) \in Nat
    BY InHandLen DEF IInv, TypeOK
  <2>3. call'.pc \in {"idle", "read", "send"} /\ (call'.pc = "send" => call'.got = 0)
    BY <1>2, IdleFields
  <2> QED  BY <1>0, <1>3, <2>1, <2>2, <2>3 DEF IInv, Ringless, ring
<1> QED  BY <1>5, <1>6, <1>7 DEF IInv

\* What a receive fetched is in the caller's hand.
LEMMA ReadingFields ==
  ASSUME NEW n \in 1..Batch, NEW got \in 1..Batch
  PROVE  /\ Reading(n, got) \in Calls /\ Reading(n, got).pc = "read"
         /\ Reading(n, got).i = 0 /\ Reading(n, got).got = got
BY Bounds DEF Reading, Calls

\* recv() hands over the first datagram of the socket.
LEMMA PosixReceiveKeeps ==
  ASSUME IInv, PosixReceive
  PROVE  IInv'
<1>0. /\ UNCHANGED <<backend, arrived, ring, delivered, quiet>> /\ sockq # <<>> /\ call.pc = "idle"
      /\ backend = "posix" /\ call' = Reading(1, 1)
  BY DEF PosixReceive
<1>1. /\ Head(sockq) \in Datagrams /\ sockq' \in Seq(Datagrams)
      /\ Len(sockq') = Len(sockq) - 1 /\ Len(sockq) \in Nat
  BY <1>0, HeadTailProperties DEF IInv, TypeOK, PosixReceive
<1>2. call' \in Calls /\ call'.pc = "read" /\ call'.i = 0 /\ call'.got = 1
  BY <1>0, ReadingFields, Bounds
<1>3. TypeOK'
  <2>1. slots' \in [1..Batch -> Datagrams]  BY <1>1 DEF PosixReceive, IInv, TypeOK
  <2> QED  BY <1>0, <1>1, <1>2, <2>1 DEF IInv, TypeOK, ring
<1>4. Counting' /\ Covered' /\ Bounded'  BY <1>0, <1>2, OffTheRing DEF ring
<1>5. Ringless'
  <2>1. Len(InHand') = 1  BY <1>2, <1>3, <1>4, InHandNext
  <2>2. Len(InHand) = 0  BY <1>0, InHandLen DEF IInv
  <2> QED  BY <1>0, <1>1, <1>2, <2>1, <2>2 DEF IInv, TypeOK, Ringless, ring
<1> QED  BY <1>3, <1>4, <1>5 DEF IInv

\* recvmmsg() hands over as many as there are, from the first slot on.
LEMMA MmsgReceiveKeeps ==
  ASSUME IInv, NEW n \in 1..Batch, MmsgReceive(n)
  PROVE  IInv'
<1> DEFINE got == Smaller(n, Len(sockq))
<1>0. /\ UNCHANGED <<backend, arrived, ring, delivered, quiet>> /\ sockq # <<>> /\ call.pc = "idle"
      /\ backend = "mmsg" /\ call' = Reading(n, got)
  BY DEF MmsgReceive
<1>1. Len(sockq) \in Nat \ {0}  BY <1>0, EmptySeq DEF IInv, TypeOK
<1>2. got \in 1..Batch /\ got <= Len(sockq)  BY <1>1, Bounds DEF Smaller
<1>3. /\ slots' = [s \in 1..Batch |-> IF s <= got THEN sockq[s] ELSE slots[s]]
      /\ sockq' = SubSeq(sockq, got + 1, Len(sockq))
  BY DEF MmsgReceive
<1> HIDE DEF got
<1>4. call' \in Calls /\ call'.pc = "read" /\ call'.i = 0 /\ call'.got = got
  BY <1>0, <1>2, ReadingFields
<1>5. \A k \in 1..Len(sockq) : sockq[k] \in Datagrams  BY ElementOfSeq DEF IInv, TypeOK
<1>6. sockq' \in Seq(Datagrams) /\ Len(sockq') = Len(sockq) - got
  <2>1. \A k \in (got + 1)..Len(sockq) : sockq[k] \in Datagrams  BY <1>1, <1>2, <1>5
  <2> QED  BY <1>1, <1>2, <1>3, <2>1, SubSeqProperties
<1>7. TypeOK'
  <2>1. slots' \in [1..Batch -> Datagrams]
    <3>1. \A s \in 1..Batch : s <= got => sockq[s] \in Datagrams  BY <1>1, <1>2, <1>5
    <3> QED  BY <1>3, <3>1 DEF IInv, TypeOK
  <2> QED  BY <1>0, <1>4, <1>6, <2>1 DEF IInv, TypeOK, ring
<1>8. Counting' /\ Covered' /\ Bounded'  BY <1>0, <1>2, <1>4, OffTheRing DEF ring
<1>9. Ringless'
  <2>1. Len(InHand') = got  BY <1>2, <1>4, <1>7, <1>8, InHandNext
  <2>2. Len(InHand) = 0  BY <1>0, InHandLen DEF IInv
  <2>3. Len(delivered) \in Nat  BY DEF IInv, TypeOK
  <2> QED  BY <1>0, <1>1, <1>2, <1>4, <1>6, <2>1, <2>2, <2>3 DEF IInv, Ringless, ring
<1> QED  BY <1>7, <1>8, <1>9 DEF IInv

\* sendto() and sendmmsg() go on with what is left, or end the call.
LEMMA SendKeeps ==
  ASSUME IInv, \/ \E fails \in BOOLEAN : PosixSend(fails)
               \/ \E sent \in 0..Batch : MmsgSend(sent)
  PROVE  IInv'
<1>0. /\ UNCHANGED <<backend, sockq, arrived, slots, ring, delivered, quiet>> /\ call.pc = "send"
      /\ backend \in {"posix", "mmsg"}
  BY DEF PosixSend, MmsgSend
<1>1. backend \notin Uring /\ call.got = 0  BY <1>0 DEF IInv, Ringless, Uring
<1>2. /\ call.i \in Nat /\ call.n \in Nat /\ call.i < call.n /\ call.n <= Batch
  BY <1>0, CallType DEF IInv, Counting
<1>3. call' = Idle \/ \E k \in 0..Batch : k < call.n /\ call' = [call EXCEPT !.i = k]
  <2>1. ASSUME NEW fails \in BOOLEAN, PosixSend(fails) PROVE <1>3
    <3>1. call' = Idle \/ (call.i + 1 < call.n /\ call' = [call EXCEPT !.i = call.i + 1])
      BY <2>1 DEF PosixSend
    <3>2. call.i + 1 < call.n => call.i + 1 \in 0..Batch  BY <1>2, Bounds
    <3> QED  BY <3>1, <3>2
  <2>2. ASSUME NEW sent \in 0..Batch, MmsgSend(sent) PROVE <1>3
    <3> DEFINE chunk == Smaller(Batch, call.n - call.i)
    <3>1. call' = Idle \/ (call.i + chunk < call.n /\ call' = [call EXCEPT !.i = call.i + chunk])
      BY <2>2 DEF MmsgSend
    <3>2. chunk \in Nat  BY <1>2, Bounds DEF Smaller
    <3>3. call.i + chunk < call.n => call.i + chunk \in 0..Batch  BY <1>2, <3>2, Bounds
    <3> QED  BY <3>1, <3>3
  <2> QED  BY <2>1, <2>2
<1>4. /\ call' \in Calls
      /\ call'.pc = "idle" \/ (call'.pc = "send" /\ call'.i < call'.n /\ call'.got = 0)
  BY <1>0, <1>1, <1>3, IdleFields DEF IInv, TypeOK, Calls
<1>5. TypeOK'  BY <1>0, <1>4 DEF IInv, TypeOK, ring
<1>6. Counting' /\ Covered' /\ Bounded'  BY <1>0, <1>1, <1>4, OffTheRing DEF ring
<1>7. Ringless'
  <2>1. InHand' = InHand  BY <1>0, <1>4 DEF InHand
  <2> QED  BY <1>0, <1>1, <1>4, <2>1 DEF IInv, Ringless, ring
<1> QED  BY <1>5, <1>6, <1>7 DEF IInv

\* send_batch() of uring queues a chunk, or gives up for want of an entry.
LEMMA SubmitSendsKeeps ==
  ASSUME IInv, SubmitSends
  PROVE  IInv'
<1> DEFINE chunk == Smaller(Smaller(Batch, call.n - call.i), Entries - Len(flight))
           rs == [s \in 1..chunk |-> [kind |-> "send", slot |-> s]]
<1>0. /\ UNCHANGED <<backend, sockq, arrived, slots, cq, delivered, quiet>> /\ call.pc = "send"
      /\ backend \in Uring /\ call.got = 0
  BY DEF SubmitSends
<1>1. /\ call.i \in Nat /\ call.n \in Nat /\ call.i < call.n /\ call.n <= Batch
      /\ Len(flight) \in Nat /\ Len(flight) <= Entries /\ Len(cq) \in Nat
  BY <1>0, CallType DEF IInv, Counting, Bounded
<1>2. chunk \in 0..Batch /\ chunk <= Entries - Len(flight) /\ call.i + chunk <= call.n
  BY <1>1, Bounds DEF Smaller
<1>3. \/ chunk = 0 /\ call' = Idle /\ UNCHANGED flight
      \/ chunk # 0 /\ flight' = flight \o rs /\ call' = [call EXCEPT !.got = chunk]
  BY DEF SubmitSends
<1>4. rs \in Seq(Requests) /\ Len(rs) = chunk  BY <1>2, RequestsSeq
<1> HIDE DEF chunk, rs
<1>5. CASE chunk = 0
  <2>1. call' = Idle /\ UNCHANGED flight  BY <1>3, <1>5
  <2>2. TypeOK'  BY <1>0, <2>1, IdleFields DEF IInv, TypeOK
  <2>3. Counting' /\ Covered' /\ Bounded'  BY <1>0, <2>1, IdleFields, OffTheRing
  <2>4. Ringless'  BY <1>0, <2>1, IdleFields DEF IInv, Ringless
  <2> QED  BY <2>2, <2>3, <2>4 DEF IInv
<1>6. CASE chunk # 0
  <2>1. flight' \in Seq(Requests) /\ Len(flight') = Len(flight) + chunk
    <3>1. flight' = flight \o rs  BY <1>3, <1>6
    <3> QED  BY <1>4, <3>1, ConcatProperties DEF IInv, TypeOK
  <2>2. /\ call' \in Calls /\ call'.pc = "send" /\ call'.n = call.n /\ call'.i = call.i
        /\ call'.got = chunk
    BY <1>0, <1>2, <1>3, <1>6 DEF IInv, TypeOK, Calls
  <2>3. TypeOK'  BY <1>0, <2>1, <2>2 DEF IInv, TypeOK
  <2>4. Outstanding' = Outstanding + chunk /\ Outstanding \in Nat /\ Outstanding <= Entries
    BY <1>0, <1>1, <1>2, <2>1, Bounds DEF IInv, Outstanding, Bounded
  <2>5. Counting'  BY <1>1, <1>2, <2>2, Bounds DEF Counting
  <2>6. Covered'  BY <1>2, <2>2, <2>4, Bounds DEF Covered
  <2>7. Bounded'  BY <1>1, <1>2, <2>1, <2>2, <2>4, Bounds DEF Bounded
  <2>8. Ringless'  BY <1>0, <2>2 DEF IInv, Ringless
  <2> QED  BY <2>3, <2>5, <2>6, <2>7, <2>8 DEF IInv
<1> QED  BY <1>5, <1>6

\* send_batch() takes one completion of those it waits for.
LEMMA AwaitSendKeeps ==
  ASSUME IInv, AwaitSend
  PROVE  IInv'
<1>0. /\ UNCHANGED <<backend, sockq, arrived, slots, flight, delivered, quiet>> /\ call.pc = "sending"
      /\ cq # <<>> /\ cq' = Tail(cq) /\ backend \in Uring
  BY DEF AwaitSend, IInv, Ringless
<1>1. /\ call.i \in Nat /\ call.n \in Nat /\ call.got \in Nat /\ call.i < call.n /\ call.got > 0
      /\ call.i + call.got <= call.n /\ call.n <= Batch /\ call.got <= Entries
      /\ Len(flight) \in Nat /\ Len(cq) \in Nat
  BY <1>0, CallType DEF IInv, Counting
<1>2. cq' \in Seq(Results) /\ Len(cq') = Len(cq) - 1
  BY <1>0, HeadTailProperties DEF IInv, TypeOK
<1>3. /\ call' \in Calls
      /\ \/ call.got = 1 /\ call'.pc = "idle"
         \/ /\ call'.pc \in {"send", "sending"} /\ call'.n = call.n /\ call'.i = call.i + 1
            /\ call'.got = call.got - 1 /\ call.i + 1 < call.n
            /\ call'.pc = "sending" => call.got > 1
  <2>1. /\ call.i + 1 \in Nat /\ call.i + 1 <= Batch /\ call.got - 1 \in Nat /\ call.got - 1 <= Batch
        /\ call.i + 1 \in 0..Batch /\ call.got - 1 \in 0..Batch
    <3>1. call.i + 1 <= call.n /\ call.got <= call.n  BY <1>1
    <3>2. call.i + 1 <= Batch /\ call.got <= Batch  BY <1>1, <3>1, Bounds
    <3> QED  BY <1>1, <3>2, Bounds
  <2>2. CASE call.got > 1
    <3>1. call' = [call EXCEPT !.got = call.got - 1, !.i = call.i + 1]  BY <2>2 DEF AwaitSend
    <3>2. call \in Calls  BY DEF IInv, TypeOK
    <3>3. call' \in Calls  BY <2>1, <3>1, <3>2 DEF Calls
    <3>4. /\ call'.pc = "sending" /\ call'.n = call.n /\ call'.i = call.i + 1
          /\ call'.got = call.got - 1
      BY <1>0, <3>1, <3>2 DEF Calls
    <3> QED  BY <1>1, <2>2, <3>3, <3>4
  <2>3. CASE ~(call.got > 1) /\ call.i + 1 < call.n
    <3>1. call' = [call EXCEPT !.pc = "send", !.got = 0, !.i = call.i + 1]  BY <2>3 DEF AwaitSend
    <3>2. call.got = 1  BY <1>1, <2>3
    <3>3. call \in Calls /\ 0 \in 0..Batch  BY Bounds DEF IInv, TypeOK
    <3>4. call' \in Calls  BY <2>1, <3>1, <3>3 DEF Calls
    <3>5. call'.pc = "send" /\ call'.n = call.n /\ call'.i = call.i + 1 /\ call'.got = 0
      BY <3>1, <3>3 DEF Calls
    <3> QED  BY <2>3, <3>2, <3>4, <3>5
  <2>4. CASE ~(call.got > 1) /\ ~(call.i + 1 < call.n)
    <3>1. call' = Idle  BY <2>4 DEF AwaitSend
    <3> QED  BY <1>1, <2>4, <3>1, IdleFields
  <2> QED  BY <2>2, <2>3, <2>4
<1>4. TypeOK'  BY <1>0, <1>2, <1>3 DEF IInv, TypeOK
<1>5. /\ Outstanding' = Outstanding - 1 /\ Outstanding \in Nat
      /\ Outstanding >= call.got /\ Outstanding <= Entries + call.got
  BY <1>0, <1>1, <1>2 DEF IInv, Covered, Bounded, Outstanding
<1>6. Counting'  BY <1>1, <1>3, Bounds, SMTT(40) DEF Counting
<1>7. Covered'  BY <1>1, <1>3, <1>5 DEF Covered
<1>8. Bounded'
  <2>1. Len(flight') <= Entries  BY <1>0 DEF IInv, Bounded
  <2>2. call.got = 1 => Outstanding' <= Entries  BY <1>1, <1>5, Bounds
  <2>3. Outstanding' <= Entries + (call.got - 1)  BY <1>1, <1>5, Bounds
  <2> QED  BY <1>3, <2>1, <2>2, <2>3 DEF Bounded
<1>9. Ringless'  BY <1>0, <1>3 DEF IInv, Ringless
<1> QED  BY <1>4, <1>6, <1>7, <1>8, <1>9 DEF IInv

-----------------------------------------------------------------------------
(* posix and mmsg as a queue: what the caller has not read yet, then the   *)
(* socket.                                                                 *)

Pending == InHand \o sockq

\* A datagram that arrives goes to the end of the queue.
LEMMA ArriveQueues ==
  ASSUME IInv, IInv', Arrive, backend \notin Uring
  PROVE  Q!Arrive
<1>0. /\ UNCHANGED <<slots, call, delivered>> /\ sockq' = Append(sockq, arrived + 1)
      /\ arrived' = arrived + 1
  BY DEF Arrive
<1>1. InHand' = InHand  BY <1>0 DEF InHand
<1>2. /\ InHand \in Seq(Datagrams) /\ sockq \in Seq(Datagrams) /\ arrived + 1 \in Datagrams
      /\ Len(delivered) \in Nat
  BY <1>0, InHandLen DEF IInv, TypeOK
<1>3. Pending \in Seq(Datagrams) /\ Len(Pending) = Len(InHand) + Len(sockq)
  BY <1>2, ConcatProperties DEF Pending
<1>4. Len(delivered) + Len(Pending) + 1 = arrived + 1  BY <1>2, <1>3 DEF IInv, Ringless
<1>5. InHand \o Append(sockq, arrived + 1) = Append(Pending, arrived + 1)
  <2>1. <<arrived + 1>> \in Seq(Datagrams)  BY <1>2
  <2>2. Append(sockq, arrived + 1) = sockq \o <<arrived + 1>>  BY <1>2, AppendIsConcat
  <2>3. Append(Pending, arrived + 1) = Pending \o <<arrived + 1>>  BY <1>2, <1>3, AppendIsConcat
  <2>4. InHand \o (sockq \o <<arrived + 1>>) = (InHand \o sockq) \o <<arrived + 1>>
    BY <1>2, <2>1, ConcatAssociative
  <2> QED  BY <2>2, <2>3, <2>4 DEF Pending
<1>6. Pending' = Append(Pending, Len(delivered) + Len(Pending) + 1)
  BY <1>0, <1>1, <1>4, <1>5 DEF Pending
<1> QED  BY <1>0, <1>6 DEF Q!Arrive, Pending

\* What a receive took is the front of the socket's queue.
LEMMA TakenFromTheFront ==
  ASSUME NEW q \in Seq(Datagrams), NEW got \in 1..Batch, got <= Len(q),
         NEW sl \in [1..Batch -> Datagrams], \A s \in 1..got : sl[s] = q[s],
         NEW c \in Calls, c.pc = "read", c.i = 0, c.got = got
  PROVE  Hand(sl, c) \o SubSeq(q, got + 1, Len(q)) = q
<1>0. Len(q) \in Nat /\ got \in Nat /\ got > 0  BY Bounds
<1>1. Hand(sl, c) \in Seq(Datagrams) /\ Len(Hand(sl, c)) = got  BY <1>0, HandLen
<1>2. \A k \in 1..got : Hand(sl, c)[k] = sl[k]
  <2>1. c.pc = "read" => c.i < c.got  BY <1>0
  <2>2. \A k \in 1..(c.got - c.i) : Hand(sl, c)[k] = sl[c.i + k]  BY <2>1, HandLen
  <2> QED  BY <1>0, <2>2
<1>3. /\ SubSeq(q, 1, got) \in Seq(Datagrams) /\ Len(SubSeq(q, 1, got)) = got
      /\ \A k \in 1..got : SubSeq(q, 1, got)[k] = q[k]
  <2>1. \A k \in 1..got : q[k] \in Datagrams  BY <1>0, ElementOfSeq
  <2>2. \A k \in 1..(got - 1 + 1) : SubSeq(q, 1, got)[k] = q[1 + k - 1]  BY <1>0, <2>1, SubSeqProperties
  <2>3. SubSeq(q, 1, got) \in Seq(Datagrams) /\ Len(SubSeq(q, 1, got)) = got
    BY <1>0, <2>1, SubSeqProperties
  <2> QED  BY <1>0, <2>2, <2>3
<1>4. Hand(sl, c) = SubSeq(q, 1, got)  BY <1>1, <1>2, <1>3, SeqEqual
<1>5. SubSeq(q, 1, got) \o SubSeq(q, got + 1, Len(q)) = SubSeq(q, 1, Len(q))
  BY <1>0, ConcatAdjacentSubSeq
<1> QED  BY <1>4, <1>5, SubSeqFull

\* A receive moves datagrams from the socket into the slots, and nothing else.
LEMMA PosixReceiveQueues ==
  ASSUME IInv, IInv', PosixReceive
  PROVE  Pending' = Pending /\ delivered' = delivered
<1>0. /\ call.pc = "idle" /\ sockq # <<>> /\ sockq' = Tail(sockq) /\ delivered' = delivered
      /\ slots' = [slots EXCEPT ![1] = Head(sockq)] /\ call' = Reading(1, 1)
  BY DEF PosixReceive
<1>1. InHand = <<>> /\ sockq \in Seq(Datagrams)  BY <1>0 DEF InHand, IInv, TypeOK
<1>2. Pending = sockq  BY <1>1, ConcatEmptySeq DEF Pending
<1>3. call'.pc = "read" /\ call'.i = 0 /\ call'.got = 1  BY <1>0, ReadingFields, Bounds
<1>4. Len(sockq) \in Nat \ {0} /\ Head(sockq) = sockq[1]  BY <1>0, <1>1, EmptySeq
<1>5. \A s \in 1..1 : slots'[s] = sockq[s]  BY <1>0, <1>4, Bounds DEF IInv, TypeOK
<1>6. Tail(sockq) = SubSeq(sockq, 1 + 1, Len(sockq))  BY <1>0, <1>1, TailIsSubSeq
<1>7. slots' \in [1..Batch -> Datagrams] /\ call' \in Calls  BY DEF IInv, TypeOK
<1>8. Hand(slots', call') \o SubSeq(sockq, 1 + 1, Len(sockq)) = sockq
  <2>1. 1 \in 1..Batch /\ 1 <= Len(sockq)  BY <1>4, Bounds
  <2> QED  BY <1>1, <1>3, <1>5, <1>7, <2>1, TakenFromTheFront
<1>9. InHand' = Hand(slots', call')  BY InHandNext DEF IInv
<1> QED  BY <1>0, <1>2, <1>6, <1>8, <1>9 DEF Pending

LEMMA MmsgReceiveQueues ==
  ASSUME IInv, IInv', NEW n \in 1..Batch, MmsgReceive(n)
  PROVE  Pending' = Pending /\ delivered' = delivered
<1> DEFINE got == Smaller(n, Len(sockq))
<1>0. /\ call.pc = "idle" /\ sockq # <<>> /\ delivered' = delivered
      /\ slots' = [s \in 1..Batch |-> IF s <= got THEN sockq[s] ELSE slots[s]]
      /\ sockq' = SubSeq(sockq, got + 1, Len(sockq)) /\ call' = Reading(n, got)
  BY DEF MmsgReceive
<1>1. InHand = <<>> /\ sockq \in Seq(Datagrams)  BY <1>0 DEF InHand, IInv, TypeOK
<1>2. Pending = sockq  BY <1>1, ConcatEmptySeq DEF Pending
<1>3. Len(sockq) \in Nat \ {0}  BY <1>0, <1>1, EmptySeq
<1>4. got \in 1..Batch /\ got <= Len(sockq)  BY <1>3, Bounds DEF Smaller
<1> HIDE DEF got
<1>5. call'.pc = "read" /\ call'.i = 0 /\ call'.got = got  BY <1>0, <1>4, ReadingFields
<1>6. \A s \in 1..got : slots'[s] = sockq[s]  BY <1>0, <1>4, Bounds
<1>7. slots' \in [1..Batch -> Datagrams] /\ call' \in Calls  BY DEF IInv, TypeOK
<1>8. Hand(slots', call') \o SubSeq(sockq, got + 1, Len(sockq)) = sockq
  <2>1. PICK sl \in [1..Batch -> Datagrams], c \in Calls : sl = slots' /\ c = call'  BY <1>7
  <2>2. c.pc = "read" /\ c.i = 0 /\ c.got = got /\ \A s \in 1..got : sl[s] = sockq[s]
    BY <1>5, <1>6, <2>1
  <2>3. Hand(sl, c) \o SubSeq(sockq, got + 1, Len(sockq)) = sockq
    <3>1. \A q \in Seq(Datagrams), g \in 1..Batch :
            g <= Len(q) /\ c.got = g /\ (\A s \in 1..g : sl[s] = q[s]) =>
              Hand(sl, c) \o SubSeq(q, g + 1, Len(q)) = q
      BY <2>2, TakenFromTheFront, Zenon
    <3> QED  BY <1>1, <1>4, <2>2, <3>1, Zenon
  <2> QED  BY <2>1, <2>3
<1>9. InHand' = Hand(slots', call')  BY InHandNext DEF IInv
<1> QED  BY <1>0, <1>2, <1>8, <1>9 DEF Pending

\* The caller is handed the first datagram of the queue.
LEMMA ReadSlotDelivers ==
  ASSUME IInv, IInv', ReadSlot, backend \notin Uring
  PROVE  Q!Deliver
<1>0. call.pc = "read" /\ UNCHANGED <<sockq, slots>>  BY DEF ReadSlot
<1>1. /\ call.i \in Nat /\ call.got \in Nat /\ call.i < call.got /\ call.got <= Batch
      /\ call.n <= Batch
  BY <1>0, CallType DEF IInv, Counting
<1>2. delivered' = Append(delivered, slots[call.i + 1])  BY DEF ReadSlot, Uring
<1>3. /\ slots \in Seq(Datagrams) /\ Len(slots) = Batch /\ sockq \in Seq(Datagrams)
      /\ delivered \in Seq(Datagrams) /\ slots[call.i + 1] \in Datagrams
  <2>1. slots[call.i + 1] \in Datagrams  BY <1>1, Bounds, SMTT(40) DEF IInv, TypeOK
  <2> QED  BY <2>1, SlotsSeq DEF IInv, TypeOK
<1>4. InHand = SubSeq(slots, call.i + 1, call.got)  BY <1>0 DEF InHand
<1>5. InHand' = SubSeq(slots, call.i + 2, call.got)
  <2>1. CASE call.i + 1 < call.got
    <3>1. call' = [call EXCEPT !.i = call.i + 1]  BY <2>1 DEF ReadSlot
    <3>2. call'.pc = "read" /\ call'.i = call.i + 1 /\ call'.got = call.got
      BY <1>0, <3>1 DEF IInv, TypeOK, Calls
    <3>3. call'.i + 1 = call.i + 2  BY <1>1, <3>2
    <3>4. InHand' = SubSeq(slots', call'.i + 1, call'.got)  BY <3>2 DEF InHand
    <3> QED  BY <1>0, <3>2, <3>3, <3>4
  <2>2. CASE ~(call.i + 1 < call.got)
    <3>1. PICK to_send \in 0..call.got :
            call' = IF to_send = 0 THEN Idle ELSE [pc |-> "send", n |-> to_send, i |-> 0, got |-> 0]
      BY <2>2 DEF ReadSlot
    <3>2. call'.pc # "read"  BY <3>1 DEF Idle
    <3>3. SubSeq(slots, call.i + 2, call.got) = <<>>  BY <1>1, <2>2, SubSeqEmpty
    <3> QED  BY <3>2, <3>3 DEF InHand
  <2> QED  BY <2>1, <2>2
<1> DEFINE x == slots[call.i + 1]
<1>6. InHand = <<x>> \o InHand'
  <2>1. SubSeq(slots, call.i + 1, call.got) = <<slots[call.i + 1]>> \o SubSeq(slots, call.i + 1 + 1, call.got)
    <3>1. call.i + 1 \in 1..Len(slots) /\ call.got \in (call.i + 1)..Len(slots)  BY <1>1, <1>3, Bounds
    <3> QED  BY <1>3, <3>1, SubSeqRecursiveFirst
  <2>2. call.i + 1 + 1 = call.i + 2  BY <1>1
  <2> QED  BY <1>4, <1>5, <2>1, <2>2
<1>7. InHand' \in Seq(Datagrams) /\ <<x>> \in Seq(Datagrams)  BY <1>3, InHandNext DEF IInv
<1>8. Pending = <<x>> \o Pending'
  <2>1. (<<x>> \o InHand') \o sockq = <<x>> \o (InHand' \o sockq)  BY <1>3, <1>7, ConcatAssociative, SMTT(40)
  <2>2. Pending = (<<x>> \o InHand') \o sockq /\ Pending' = InHand' \o sockq
    BY <1>0, <1>6 DEF Pending
  <2> QED  BY <2>1, <2>2
<1>9. Pending' \in Seq(Datagrams)  BY <1>0, <1>3, <1>7, ConcatProperties DEF Pending
<1> HIDE DEF x
<1>10. /\ Pending \in Seq(Datagrams) /\ Len(Pending) = 1 + Len(Pending') /\ Len(Pending') \in Nat
       /\ Head(Pending) = x /\ Tail(Pending) = Pending'
  BY <1>7, <1>8, <1>9
<1>11. SubSeq(Pending, 1, 1) = <<x>> /\ SubSeq(Pending, 1 + 1, Len(Pending)) = Pending'
  <2>1. Pending # <<>>  BY <1>10, EmptySeq
  <2>2. SubSeq(Pending, 1 + 1, Len(Pending)) = Pending'  BY <1>10, <2>1, TailIsSubSeq
  <2>3. SubSeq(Pending, 1, 1) = <<x>>
    <3>1. Pending[1] = x /\ 1 \in 1..Len(Pending) /\ 1 \in 1..1  BY <1>10, <2>1
    <3>3. SubSeq(Pending, 1, 1) = <<Pending[1]>> \o SubSeq(Pending, 1 + 1, 1)
      BY <1>10, <3>1, SubSeqRecursiveFirst
    <3>4. SubSeq(Pending, 1 + 1, 1) = <<>>  BY SubSeqEmpty
    <3> QED  BY <1>7, <3>1, <3>3, <3>4, ConcatEmptySeq
  <2> QED  BY <2>2, <2>3
<1>12. delivered' = delivered \o SubSeq(Pending, 1, 1)
  BY <1>2, <1>3, <1>11, AppendIsConcat DEF x
<1>13. 1 \in 1..Len(Pending)  BY <1>10
<1>14. /\ delivered' = delivered \o SubSeq(Pending, 1, 1)
       /\ Pending' = SubSeq(Pending, 1 + 1, Len(Pending))
  BY <1>11, <1>12
<1> QED  BY <1>13, <1>14 DEF Q!Deliver, Pending

-----------------------------------------------------------------------------
(* io_uring without the poller: the order and the number of the datagrams. *)

Hits == Cardinality(Filled(cq))

\* The ring of a call without the poller holds its own requests and
\* completions and nothing of an earlier call, the receives in the order of
\* their slots.
OwnRing ==
  /\ call.pc \in {"idle", "drain", "read"} => Outstanding = 0
  /\ call.pc = "submit" =>
       /\ Outstanding = call.n /\ call.i = 0 /\ call.got = 0
       /\ \A k \in 1..Len(flight) : flight[k].kind = "recv" /\ flight[k].slot = Len(cq) + k
  /\ call.pc = "reap" => Len(flight) = 0 /\ Len(cq) = call.n - call.i
  /\ call.pc \in {"submit", "reap"} => \A k \in 1..Len(cq) : cq[k].kind = "recv"
  /\ call.pc \in {"send", "sending"} =>
       /\ Outstanding = call.got
       /\ \A k \in 1..Len(flight) : flight[k].kind = "send"
       /\ \A k \in 1..Len(cq) : cq[k].kind = "send"
  /\ call.pc = "sending" => Len(flight) = 0

\* The socket holds the latest datagrams, in order.
Latest == \A k \in 1..Len(sockq) : sockq[k] = (arrived - Len(sockq)) + k

\* The slots hold, from the one the caller reads next, the datagrams that come
\* next: as long as nothing arrives in a receive call, no request of it fails
\* before one that gets a datagram.
Start == IF call.pc = "read" THEN call.i ELSE 0
InOrder ==
  quiet =>
    /\ call.pc = "submit" /\ Len(sockq) > 0 => Hits = Len(cq)
    /\ \A k \in 1..(Received + Hits) : slots[Start + k] = Len(delivered) + k
    /\ \A k \in 1..Len(delivered) : delivered[k] = k

\* Every datagram is somewhere.
Somewhere == arrived = Len(sockq) + Hits + Received + Len(delivered)

RingInv ==
  /\ backend = "none" => arrived = 0
  /\ backend = "uring" => OwnRing /\ Latest /\ InOrder /\ Somewhere

\* Completions that hold a datagram are counted one by one.
LEMMA HitsFinite ==
  ASSUME NEW q \in Seq(Results)
  PROVE  /\ IsFiniteSet(Filled(q)) /\ Cardinality(Filled(q)) \in Nat
         /\ (\A k \in 1..Len(q) : q[k].kind = "send") => Cardinality(Filled(q)) = 0
         /\ Len(q) = 0 => Cardinality(Filled(q)) = 0
<1>1. Filled(q) \in SUBSET (1..Len(q)) /\ Len(q) \in Nat  BY DEF Filled
<1>2. IsFiniteSet(1..Len(q))  BY <1>1, FS_Interval
<1>3. IsFiniteSet(Filled(q))  BY <1>1, <1>2, FS_Subset
<1>4. Cardinality(Filled(q)) \in Nat  BY <1>3, FS_CardinalityType
<1>5. (\A k \in 1..Len(q) : q[k].kind = "send") => Filled(q) = {}  BY DEF Filled
<1>6. Len(q) = 0 => Filled(q) = {}  BY <1>1
<1> QED  BY <1>3, <1>4, <1>5, <1>6, FS_EmptySet

LEMMA HitsAppend ==
  ASSUME NEW q \in Seq(Results), NEW e \in Results
  PROVE  Cardinality(Filled(Append(q, e))) =
           IF e.kind = "recv" /\ e.ok THEN Cardinality(Filled(q)) + 1 ELSE Cardinality(Filled(q))
<1> DEFINE r == Append(q, e)
           l == Len(q) + 1
<1>1. /\ Len(r) = l /\ DOMAIN r = 1..l /\ DOMAIN q = 1..Len(q) /\ Len(q) \in Nat
      /\ r[l] = e /\ \A k \in 1..Len(q) : r[k] = q[k]
  OBVIOUS
<1> HIDE DEF r
<1>2. IsFiniteSet(Filled(q)) /\ l \notin Filled(q)  BY <1>1, HitsFinite DEF Filled
<1>3. 1..l = (1..Len(q)) \cup {l}  BY <1>1
<1>4. CASE e.kind = "recv" /\ e.ok
  <2>1. Filled(r) = Filled(q) \cup {l}  BY <1>1, <1>3, <1>4 DEF Filled
  <2> QED  BY <1>2, <1>4, <2>1, FS_AddElement DEF r
<1>5. CASE ~(e.kind = "recv" /\ e.ok)
  <2>1. Filled(r) = Filled(q)  BY <1>1, <1>3, <1>5 DEF Filled
  <2> QED  BY <1>5, <2>1 DEF r
<1> QED  BY <1>4, <1>5

LEMMA HitsTail ==
  ASSUME NEW q \in Seq(Results), q # <<>>
  PROVE  Cardinality(Filled(q)) =
           IF Head(q).kind = "recv" /\ Head(q).ok THEN Cardinality(Filled(Tail(q))) + 1
           ELSE Cardinality(Filled(Tail(q)))
<1> DEFINE t == Tail(q)
           S == Filled(q) \ {1}
           f == [k \in S |-> k - 1]
<1>1. /\ t \in Seq(Results) /\ Len(q) \in Nat \ {0} /\ Len(t) = Len(q) - 1
      /\ DOMAIN t = 1..(Len(q) - 1) /\ DOMAIN q = 1..Len(q)
      /\ Head(q) = q[1] /\ \A k \in 1..(Len(q) - 1) : t[k] = q[k + 1]
  OBVIOUS
<1> HIDE DEF t
<1>2. IsFiniteSet(Filled(q)) /\ IsFiniteSet(Filled(t)) /\ Cardinality(Filled(t)) \in Nat
      /\ Cardinality(Filled(q)) \in Nat
  BY <1>1, HitsFinite
<1>3. \A k \in S : k \in 2..Len(q) /\ k - 1 \in Filled(t)
  <2>1. \A k \in S : k \in 2..Len(q) /\ q[k].kind = "recv" /\ q[k].ok  BY <1>1 DEF Filled
  <2>2. \A k \in 2..Len(q) : k - 1 \in 1..(Len(q) - 1) /\ t[k - 1] = q[k]
    <3>1. \A k \in 2..Len(q) : k - 1 \in 1..(Len(q) - 1) /\ (k - 1) + 1 = k  BY <1>1
    <3> QED  BY <1>1, <3>1
  <2> QED  BY <1>1, <2>1, <2>2 DEF Filled
<1>4. \A k \in Filled(t) : k + 1 \in S /\ (k + 1) - 1 = k
  BY <1>1 DEF Filled
<1>5. f \in Bijection(S, Filled(t))
  <2>1. f \in [S -> Filled(t)]  BY <1>3
  <2>2. f \in Injection(S, Filled(t))
    <3>1. \A a, b \in S : f[a] = f[b] => a = b  BY <1>3
    <3> QED  BY <2>1, <3>1 DEF Injection, IsInjective
  <2>3. f \in Surjection(S, Filled(t))
    <3>1. \A k \in Filled(t) : \E a \in S : f[a] = k  BY <1>4
    <3> QED  BY <2>1, <3>1 DEF Surjection
  <2> QED  BY <2>2, <2>3 DEF Bijection
<1>6. IsFiniteSet(S) /\ Cardinality(S) =
         IF 1 \in Filled(q) THEN Cardinality(Filled(q)) - 1 ELSE Cardinality(Filled(q))
  BY <1>2, FS_RemoveElement
<1>7. Cardinality(Filled(t)) = Cardinality(S)
  <2>1. ExistsBijection(S, Filled(t))  BY <1>5 DEF ExistsBijection
  <2> QED  BY <1>6, <2>1, FS_Bijection
<1>8. 1 \in Filled(q) <=> Head(q).kind = "recv" /\ Head(q).ok  BY <1>1 DEF Filled
<1> HIDE DEF S
<1> QED  BY <1>2, <1>6, <1>7, <1>8 DEF t

\* The numbers of a state, for arithmetic.
LEMMA RingNumbers ==
  ASSUME IInv
  PROVE  /\ Hits \in Nat /\ Len(sockq) \in Nat /\ Len(delivered) \in Nat /\ arrived \in Nat
         /\ Len(flight) \in Nat /\ Len(cq) \in Nat
         /\ call.n \in Nat /\ call.i \in Nat /\ call.got \in Nat
BY CallType, HitsFinite, Bounds DEF IInv, TypeOK, Hits, Datagrams

\* An empty ring has nothing in it.
LEMMA RingEmpty ==
  ASSUME IInv, Outstanding = 0
  PROVE  Len(flight) = 0 /\ flight = <<>> /\ Len(cq) = 0 /\ cq = <<>> /\ Hits = 0
<1>1. Len(flight) = 0 /\ Len(cq) = 0  BY RingNumbers DEF Outstanding
<1>2. flight = <<>> /\ cq = <<>>  BY <1>1, EmptySeq DEF IInv, TypeOK
<1> QED  BY <1>1, <1>2, HitsFinite DEF IInv, TypeOK, Hits

\* A transport is made before anything arrives at it.
LEMMA RingMake ==
  ASSUME IInv, RingInv, NEW b \in Backends, NEW offered, NEW failing,
         make_transport(b, offered, failing)
  PROVE  RingInv'
<1>0. UNCHANGED <<sockq, arrived, slots, flight, cq, delivered, quiet>> /\ backend = "none"
  BY DEF make_transport, IInv, Ringless, ring
<1>1. (backend' = b /\ call' = Idle) \/ UNCHANGED <<backend, call>>  BY DEF make_transport
<1>2. b # "none"  BY BackendsAssumption
<1>3. arrived = 0 /\ flight = <<>> /\ cq = <<>>
      /\ arrived = Len(delivered) + Len(InHand) + Len(sockq)
  BY <1>0 DEF RingInv, IInv, Ringless, Uring
<1>4. Len(InHand) \in Nat  BY InHandLen DEF IInv
<1>5. Len(delivered) = 0 /\ Len(sockq) = 0 /\ Outstanding = 0
  BY <1>3, <1>4, RingNumbers, EmptySeq DEF Outstanding
<1>6. Hits = 0  BY <1>5, RingEmpty
<1>7. ASSUME backend' = "uring" PROVE OwnRing' /\ Latest' /\ InOrder' /\ Somewhere'
  <2>1. call'.pc = "idle"  BY <1>0, <1>1, <1>7, IdleFields
  <2>2. Hits' = 0 /\ Outstanding' = 0 /\ Received' = 0
    BY <1>0, <1>5, <1>6, <2>1 DEF Hits, Outstanding, Received
  <2>3. OwnRing'  BY <2>1, <2>2 DEF OwnRing
  <2>4. Latest' /\ InOrder' /\ Somewhere'
    BY <1>0, <1>3, <1>5, <2>1, <2>2 DEF Latest, InOrder, Somewhere
  <2> QED  BY <2>3, <2>4
<1> QED  BY <1>0, <1>1, <1>2, <1>3, <1>7 DEF RingInv

\* What arrives is queued behind what is there.
LEMMA RingArrive ==
  ASSUME IInv, RingInv, Arrive
  PROVE  RingInv'
<1>0. /\ UNCHANGED <<backend, slots, call, flight, cq, delivered>> /\ arrived' = arrived + 1
      /\ backend # "none" /\ sockq' = Append(sockq, arrived + 1)
      /\ quiet' = (quiet /\ call.pc \notin {"submit", "reap", "drain"})
  BY DEF Arrive, ring
<1>1. SUFFICES ASSUME backend = "uring" PROVE OwnRing' /\ Latest' /\ InOrder' /\ Somewhere'
  BY <1>0 DEF RingInv
<1>2. OwnRing /\ Latest /\ InOrder /\ Somewhere  BY <1>1 DEF RingInv
<1>3. /\ Len(sockq') = Len(sockq) + 1 /\ sockq'[Len(sockq) + 1] = arrived + 1
      /\ \A k \in 1..Len(sockq) : sockq'[k] = sockq[k]
  BY <1>0, AppendProperties DEF IInv, TypeOK
<1>4. Hits' = Hits /\ Received' = Received /\ Outstanding' = Outstanding /\ Start' = Start
  BY <1>0 DEF Hits, Received, Outstanding, Start
<1>5. OwnRing'  BY <1>0, <1>2, <1>4 DEF OwnRing
<1>6. Latest'
  <2>1. \A k \in 1..(Len(sockq) + 1) : k \in 1..Len(sockq) \/ k = Len(sockq) + 1  BY RingNumbers
  <2>2. arrived' - Len(sockq') = arrived - Len(sockq)  BY <1>0, <1>3, RingNumbers
  <2>3. (arrived - Len(sockq)) + (Len(sockq) + 1) = arrived + 1  BY RingNumbers
  <2>4. \A k \in 1..(Len(sockq) + 1) : sockq'[k] = (arrived - Len(sockq)) + k
    BY <1>2, <1>3, <2>1, <2>3 DEF Latest
  <2> QED  BY <1>3, <2>2, <2>4 DEF Latest
<1>7. InOrder'
  <2>1. SUFFICES ASSUME quiet' PROVE InOrder'  BY DEF InOrder
  <2>2. quiet /\ call.pc # "submit"  BY <1>0, <2>1
  <2> QED  BY <1>0, <1>2, <1>4, <2>2 DEF InOrder
<1>8. Somewhere'
  <2>1. Received \in Int  BY RingNumbers DEF Received
  <2> QED  BY <1>0, <1>2, <1>3, <1>4, <2>1, RingNumbers DEF Somewhere
<1> QED  BY <1>5, <1>6, <1>7, <1>8

\* A receive takes the datagram that comes next into the slot that comes next,
\* or finds the socket empty and leaves it so.
LEMMA RingKernel ==
  ASSUME IInv, RingInv, KernelStep
  PROVE  RingInv'
<1> DEFINE r == Head(flight)
           e == [kind |-> r.kind, slot |-> r.slot, ok |-> (r.kind = "send" \/ sockq # <<>>)]
<1>0. /\ UNCHANGED <<backend, arrived, call, delivered, quiet>> /\ flight # <<>>
      /\ flight' = Tail(flight) /\ cq' = Append(cq, e)
  BY DEF KernelStep
<1>1. SUFFICES ASSUME backend = "uring" PROVE OwnRing' /\ Latest' /\ InOrder' /\ Somewhere'
  BY <1>0 DEF RingInv
<1>2. OwnRing /\ Latest /\ InOrder /\ Somewhere  BY <1>1 DEF RingInv
<1>3. /\ r \in Requests /\ r = flight[1] /\ Len(flight) \in Nat \ {0}
      /\ flight' \in Seq(Requests) /\ Len(flight') = Len(flight) - 1
      /\ \A k \in 1..(Len(flight) - 1) : flight'[k] = flight[k + 1]
  BY <1>0, HeadTailProperties DEF IInv, TypeOK
<1>4. e \in Results /\ e.kind = r.kind  BY <1>3 DEF Requests, Results
<1>5. /\ cq' \in Seq(Results) /\ Len(cq') = Len(cq) + 1 /\ cq'[Len(cq) + 1] = e
      /\ \A k \in 1..Len(cq) : cq'[k] = cq[k]
  BY <1>0, <1>4, AppendProperties DEF IInv, TypeOK
<1>6. Hits' = IF e.kind = "recv" /\ e.ok THEN Hits + 1 ELSE Hits
  BY <1>0, <1>4, HitsAppend DEF IInv, TypeOK, Hits
<1>7. Outstanding' = Outstanding /\ Outstanding > 0  BY <1>3, <1>5, RingNumbers DEF Outstanding
<1>8. call.pc \in {"submit", "send"}
  <2>1. call.pc # "unmade"  BY <1>1 DEF IInv, Ringless
  <2>2. call.pc \in {"idle", "submit", "reap", "drain", "read", "send", "sending"}
    BY <2>1 DEF IInv, TypeOK, Calls
  <2> QED  BY <1>2, <1>3, <1>7, <2>2 DEF OwnRing
<1>9. Received' = 0 /\ Received = 0 /\ Start' = 0 /\ Start = 0  BY <1>0, <1>8 DEF Received, Start
<1>10. \A k \in 1..(Len(cq) + 1) : k \in 1..Len(cq) \/ k = Len(cq) + 1  BY RingNumbers
<1>11. CASE call.pc = "submit"
  <2>1. r.kind = "recv" /\ r.slot = Len(cq) + 1  BY <1>2, <1>3, <1>11 DEF OwnRing
  <2>2. OwnRing'
    <3>1. \A k \in 1..Len(flight') : flight'[k].kind = "recv" /\ flight'[k].slot = Len(cq') + k
      <4>1. \A k \in 1..(Len(flight) - 1) :
              k + 1 \in 1..Len(flight) /\ Len(cq) + (k + 1) = (Len(cq) + 1) + k
        BY <1>3, RingNumbers
      <4>2. \A k \in 1..Len(flight) : flight[k].kind = "recv" /\ flight[k].slot = Len(cq) + k
        BY <1>2, <1>11 DEF OwnRing
      <4>3. \A k \in 1..(Len(flight) - 1) : /\ flight'[k].kind = "recv"
                                           /\ flight'[k].slot = (Len(cq) + 1) + k
        <5> TAKE k \in 1..(Len(flight) - 1)
        <5>1. flight'[k] = flight[k + 1]  BY <1>3
        <5>2. k + 1 \in 1..Len(flight) /\ Len(cq) + (k + 1) = (Len(cq) + 1) + k  BY <4>1
        <5>3. flight[k + 1].kind = "recv" /\ flight[k + 1].slot = Len(cq) + (k + 1)  BY <4>2, <5>2
        <5> QED  BY <5>1, <5>2, <5>3
      <4> QED  BY <1>3, <1>5, <4>3
    <3>2. \A k \in 1..Len(cq') : cq'[k].kind = "recv"
      BY <1>2, <1>4, <1>5, <1>10, <1>11, <2>1 DEF OwnRing
    <3> QED  BY <1>0, <1>2, <1>7, <1>11, <3>1, <3>2 DEF OwnRing
  <2>3. CASE sockq # <<>>
    <3>1. sockq' = Tail(sockq) /\ slots' = [slots EXCEPT ![r.slot] = Head(sockq)]
      BY <2>1, <2>3 DEF KernelStep
    <3>2. /\ Len(sockq) \in Nat \ {0} /\ Len(sockq') = Len(sockq) - 1 /\ Head(sockq) = sockq[1]
          /\ \A k \in 1..(Len(sockq) - 1) : sockq'[k] = sockq[k + 1]
      BY <2>3, <3>1, HeadTailProperties DEF IInv, TypeOK
    <3>3. Hits' = Hits + 1  BY <1>6, <1>4, <2>1, <2>3
    <3>4. Latest'
      <4>1. \A k \in 1..(Len(sockq) - 1) : k + 1 \in 1..Len(sockq) /\
              (arrived - Len(sockq)) + (k + 1) = (arrived - (Len(sockq) - 1)) + k
        BY <3>2, RingNumbers
      <4> QED  BY <1>0, <1>2, <3>2, <4>1 DEF Latest
    <3>5. Somewhere'  BY <1>0, <1>2, <1>9, <3>2, <3>3, RingNumbers DEF Somewhere
    <3>6. InOrder'
      <4> SUFFICES ASSUME quiet PROVE InOrder'  BY <1>0 DEF InOrder
      <4>1. Hits = Len(cq)  BY <1>2, <1>11, <3>2 DEF InOrder
      <4>2. Head(sockq) = Len(delivered) + (Hits + 1)
        <5>1. sockq[1] = (arrived - Len(sockq)) + 1  BY <1>2, <3>2 DEF Latest
        <5>2. arrived - Len(sockq) = Hits + Len(delivered)
          BY <1>2, <1>9, <3>2, RingNumbers DEF Somewhere
        <5> QED  BY <3>2, <5>1, <5>2, RingNumbers
      <4>3. \A k \in 1..Hits : slots[k] = Len(delivered) + k
        <5>1. \A k \in 1..(Received + Hits) : slots[Start + k] = Len(delivered) + k
          BY <1>2 DEF InOrder
        <5>2. Received + Hits = Hits /\ \A k \in 1..Hits : Start + k = k  BY <1>9, RingNumbers
        <5> QED  BY <5>1, <5>2
      <4>4. r.slot = Hits + 1 /\ r.slot \in 1..Batch  BY <1>3, <2>1, <4>1 DEF Requests
      <4>5. \A k \in 1..(Hits + 1) : slots'[k] = Len(delivered) + k
        <5>1. slots'[Hits + 1] = Head(sockq) /\ \A k \in 1..Hits : k \in 1..Batch /\ slots'[k] = slots[k]
          <6>1. \A k \in 1..Hits : k \in 1..Batch /\ k # Hits + 1 /\ Hits + 1 \in 1..Batch
            BY <4>4, RingNumbers, Bounds
          <6>2. slots \in [1..Batch -> Datagrams] /\ slots' = [slots EXCEPT ![Hits + 1] = Head(sockq)]
            BY <3>1, <4>4 DEF IInv, TypeOK
          <6> QED  BY <4>4, <6>1, <6>2
        <5>2. \A k \in 1..(Hits + 1) : k \in 1..Hits \/ k = Hits + 1  BY RingNumbers
        <5> QED  BY <4>2, <4>3, <5>1, <5>2
      <4>6. Received' + Hits' = Hits + 1 /\ \A k \in 1..(Hits + 1) : Start' + k = k
        BY <1>9, <3>3, RingNumbers
      <4>7. \A k \in 1..(Received' + Hits') : slots'[Start' + k] = Len(delivered') + k
        BY <1>0, <4>5, <4>6
      <4>8. Hits' = Len(cq')  BY <1>5, <3>3, <4>1
      <4> QED  BY <1>0, <1>2, <4>7, <4>8 DEF InOrder
    <3> QED  BY <2>2, <3>4, <3>5, <3>6
  <2>4. CASE sockq = <<>>
    <3>1. UNCHANGED <<slots, sockq>> /\ Len(sockq') = 0  BY <2>1, <2>4 DEF KernelStep
    <3>2. Hits' = Hits  BY <1>6, <2>1, <2>4
    <3>3. Latest' /\ Somewhere'  BY <1>0, <1>2, <1>9, <3>1, <3>2 DEF Latest, Somewhere
    <3>4. InOrder'  BY <1>0, <1>2, <1>9, <3>1, <3>2 DEF InOrder
    <3> QED  BY <2>2, <3>3, <3>4
  <2> QED  BY <2>3, <2>4
<1>12. CASE call.pc = "send"
  <2>1. r.kind = "send"  BY <1>2, <1>3, <1>12 DEF OwnRing
  <2>2. UNCHANGED <<slots, sockq>>  BY <2>1 DEF KernelStep
  <2>3. Hits' = Hits  BY <1>4, <1>6, <2>1
  <2>4. OwnRing'
    <3>1. \A k \in 1..Len(flight') : flight'[k].kind = "send"
      <4>1. \A k \in 1..(Len(flight) - 1) : k + 1 \in 1..Len(flight)  BY <1>3
      <4> QED  BY <1>2, <1>3, <1>12, <4>1 DEF OwnRing
    <3>2. \A k \in 1..Len(cq') : cq'[k].kind = "send"
      BY <1>2, <1>4, <1>5, <1>10, <1>12, <2>1 DEF OwnRing
    <3> QED  BY <1>0, <1>2, <1>7, <1>12, <3>1, <3>2 DEF OwnRing
  <2>5. Latest' /\ Somewhere'  BY <1>0, <1>2, <1>9, <2>2, <2>3 DEF Latest, Somewhere
  <2>6. InOrder'  BY <1>0, <1>2, <1>9, <1>12, <2>2, <2>3 DEF InOrder
  <2> QED  BY <2>4, <2>5, <2>6
<1> QED  BY <1>8, <1>11, <1>12

\* recv_batch() starts on an empty ring.
LEMMA RingSubmitReceives ==
  ASSUME IInv, IInv', RingInv, NEW max_n \in 1..Batch, SubmitReceives(max_n)
  PROVE  RingInv'
<1> DEFINE n == Smaller(max_n, Entries - Len(flight))
           rs == [s \in 1..n |-> [kind |-> "recv", slot |-> s]]
<1>0. /\ UNCHANGED <<backend, sockq, arrived, slots, cq, delivered, quiet>> /\ call.pc = "idle"
      /\ flight' = flight \o rs /\ call' = [pc |-> "submit", n |-> n, i |-> 0, got |-> 0]
      /\ backend \in Uring
  BY DEF SubmitReceives
<1>1. SUFFICES ASSUME backend = "uring" PROVE OwnRing' /\ Latest' /\ InOrder' /\ Somewhere'
  BY <1>0 DEF RingInv, Uring
<1>2. OwnRing /\ Latest /\ InOrder /\ Somewhere  BY <1>1 DEF RingInv
<1>3. Outstanding = 0  BY <1>0, <1>2 DEF OwnRing
<1>4. flight = <<>> /\ Len(flight) = 0 /\ Len(cq) = 0 /\ Hits = 0  BY <1>3, RingEmpty
<1>5. n \in 1..Batch  BY <1>4, Bounds DEF Smaller
<1>6. rs \in Seq(Requests) /\ Len(rs) = n  BY <1>5, RequestsSeq
<1>7. \A k \in 1..n : rs[k].kind = "recv" /\ rs[k].slot = k  OBVIOUS
<1>8. call'.pc = "submit" /\ call'.n = n /\ call'.i = 0 /\ call'.got = 0  BY <1>0
<1> HIDE DEF n, rs
<1>9. flight' = rs  BY <1>0, <1>4, <1>6, ConcatEmptySeq
<1>10. Hits' = 0 /\ Len(cq') = 0 /\ Received' = 0 /\ Received = 0
  BY <1>0, <1>4, <1>8 DEF Hits, Received
<1>11. OwnRing'
  <2>1. Outstanding' = n  BY <1>5, <1>6, <1>9, <1>10 DEF Outstanding
  <2>2. \A k \in 1..n : Len(cq') + k = k  BY <1>5, <1>10
  <2> QED  BY <1>6, <1>7, <1>8, <1>9, <1>10, <2>1, <2>2 DEF OwnRing
<1>12. Latest' /\ Somewhere'  BY <1>0, <1>2, <1>4, <1>10 DEF Latest, Somewhere
<1>13. InOrder'  BY <1>0, <1>2, <1>10 DEF InOrder
<1> QED  BY <1>11, <1>12, <1>13

\* Submitting returns with every request executed.
LEMMA RingSubmitted ==
  ASSUME IInv, RingInv, Submitted
  PROVE  RingInv'
<1>0. /\ UNCHANGED <<backend, sockq, arrived, slots, flight, cq, delivered, quiet>>
      /\ call.pc \in {"submit", "send"} /\ backend \in Uring
      /\ backend = "uring" => flight = <<>>
  BY DEF Submitted, ring
<1>1. SUFFICES ASSUME backend = "uring" PROVE OwnRing' /\ Latest' /\ InOrder' /\ Somewhere'
  BY <1>0 DEF RingInv, Uring
<1>2. OwnRing /\ Latest /\ InOrder /\ Somewhere  BY <1>1 DEF RingInv
<1>3. /\ call'.n = call.n /\ call'.i = call.i /\ call'.got = call.got
      /\ call.pc = "submit" => call'.pc = "reap"
      /\ call.pc = "send" => call'.pc = "sending"
  BY <1>0 DEF Submitted, IInv, TypeOK, Calls
<1>4. Len(flight) = 0 /\ Outstanding' = Outstanding /\ Outstanding = Len(cq)
  BY <1>0, <1>1, EmptySeq, RingNumbers DEF Outstanding
<1>5. OwnRing'
  <2>1. CASE call.pc = "submit"
    <3>1. Len(cq') = call'.n - call'.i  BY <1>0, <1>2, <1>3, <1>4, <2>1, RingNumbers DEF OwnRing
    <3> QED  BY <1>0, <1>2, <1>3, <1>4, <2>1, <3>1 DEF OwnRing
  <2>2. CASE call.pc = "send"  BY <1>0, <1>2, <1>3, <1>4, <2>2 DEF OwnRing
  <2> QED  BY <1>0, <2>1, <2>2
<1>6. Received' = Received /\ Hits' = Hits /\ Start' = Start
  BY <1>0, <1>2, <1>3 DEF OwnRing, Received, Hits, Start
<1>7. Latest' /\ Somewhere'  BY <1>0, <1>2, <1>6 DEF Latest, Somewhere
<1>8. InOrder'  BY <1>0, <1>2, <1>3, <1>6 DEF InOrder
<1> QED  BY <1>5, <1>7, <1>8

\* Reaping moves a datagram from the completions to the count.
LEMMA RingReap ==
  ASSUME IInv, RingInv, Reap
  PROVE  RingInv'
<1>0. UNCHANGED <<backend, sockq, arrived, slots, flight, delivered, quiet>> /\ call.pc = "reap"
  BY DEF Reap
<1>1. SUFFICES ASSUME backend = "uring" PROVE OwnRing' /\ Latest' /\ InOrder' /\ Somewhere'
  BY <1>0 DEF RingInv, IInv, Ringless
<1>2. OwnRing /\ Latest /\ InOrder /\ Somewhere  BY <1>1 DEF RingInv
<1>3. /\ Len(flight) = 0 /\ Len(cq) = call.n - call.i
      /\ \A k \in 1..Len(cq) : cq[k].kind = "recv"
  BY <1>0, <1>2 DEF OwnRing
<1>4. ASSUME OwnRing', Received' + Hits' = Received + Hits, Start' = Start, call'.pc # "submit"
      PROVE  Latest' /\ InOrder' /\ Somewhere'
  <2>1. Received \in Nat /\ Received = call.got  BY <1>0, RingNumbers DEF Received
  <2>2. arrived = Len(sockq) + (Received + Hits) + Len(delivered)
    BY <1>2, <2>1, RingNumbers DEF Somewhere
  <2>3. Hits' \in Nat /\ Received' \in Int
    <3>1. cq' \in Seq(Results)  BY ReapKeeps DEF IInv, TypeOK
    <3>2. call' \in Calls  BY ReapKeeps DEF IInv, TypeOK
    <3>3. call'.got \in Nat /\ call'.i \in Nat  BY <3>2, Bounds DEF Calls
    <3>4. Received' \in Int  BY <3>3 DEF Received
    <3> QED  BY <3>1, <3>4, HitsFinite DEF Hits
  <2>4. Somewhere'  BY <1>0, <1>4, <2>2, <2>3, RingNumbers DEF Somewhere
  <2>5. Latest'  BY <1>0, <1>2 DEF Latest
  <2>6. InOrder'  BY <1>0, <1>2, <1>4 DEF InOrder
  <2> QED  BY <2>4, <2>5, <2>6
<1>5. CASE /\ call.i < call.n /\ cq # <<>> /\ cq' = Tail(cq)
           /\ call' = [call EXCEPT !.i = @ + 1, !.got = IF Head(cq).ok THEN @ + 1 ELSE @]
  <2>1. /\ call'.pc = "reap" /\ call'.n = call.n /\ call'.i = call.i + 1
        /\ call'.got = IF Head(cq).ok THEN call.got + 1 ELSE call.got
    BY <1>0, <1>5 DEF IInv, TypeOK, Calls
  <2>2. /\ cq' \in Seq(Results) /\ Len(cq') = Len(cq) - 1 /\ Len(cq) \in Nat \ {0} /\ Head(cq) = cq[1]
        /\ \A k \in 1..(Len(cq) - 1) : cq'[k] = cq[k + 1]
    BY <1>5, HeadTailProperties DEF IInv, TypeOK
  <2>3. Head(cq).kind = "recv"  BY <1>3, <2>2
  <2>4. Hits = IF Head(cq).ok THEN Hits' + 1 ELSE Hits'
    BY <1>5, <2>3, HitsTail DEF IInv, TypeOK, Hits
  <2>5. Received' = call'.got /\ Received = call.got /\ Start' = 0 /\ Start = 0
    BY <1>0, <2>1 DEF Received, Start
  <2>6. Hits' \in Nat  BY <2>2, HitsFinite DEF Hits
  <2>7. Received' + Hits' = Received + Hits
    <3>1. CASE Head(cq).ok
      <4>1. Hits = Hits' + 1 /\ Received' = call.got + 1  BY <2>1, <2>4, <2>5, <3>1
      <4> QED  BY <2>5, <2>6, <4>1, RingNumbers, SMTT(40)
    <3>2. CASE ~Head(cq).ok  BY <2>1, <2>4, <2>5, <3>2
    <3> QED  BY <3>1, <3>2
  <2>8. OwnRing'
    <3>1. Len(cq') = call'.n - call'.i  BY <1>3, <2>1, <2>2, RingNumbers
    <3>2. \A k \in 1..Len(cq') : cq'[k].kind = "recv"
      <4> SUFFICES ASSUME NEW k \in 1..(Len(cq) - 1) PROVE cq'[k].kind = "recv"  BY <2>2
      <4>1. k + 1 \in 1..Len(cq) /\ cq'[k] = cq[k + 1]  BY <2>2
      <4> QED  BY <1>3, <4>1
    <3> QED  BY <1>0, <1>3, <2>1, <3>1, <3>2 DEF OwnRing
  <2> QED  BY <1>4, <2>1, <2>5, <2>7, <2>8
<1>6. CASE /\ call.i = call.n \/ (cq = <<>> /\ call.got > 0)
           /\ call' = [call EXCEPT !.pc = "drain"] /\ UNCHANGED cq
  <2>1. call'.pc = "drain" /\ call'.got = call.got  BY <1>6 DEF IInv, TypeOK, Calls
  <2>2. Len(cq) = 0  BY <1>3, <1>6, EmptySeq, RingNumbers
  <2>3. Hits' = Hits /\ Received' = Received /\ Start' = Start
    BY <1>0, <1>6, <2>1 DEF Hits, Received, Start
  <2>4. OwnRing'  BY <1>0, <1>3, <1>6, <2>1, <2>2 DEF OwnRing, Outstanding
  <2> QED  BY <1>4, <2>1, <2>3, <2>4
<1> QED  BY <1>5, <1>6 DEF Reap

\* drain_pending() finds nothing to throw away.
LEMMA RingDrain ==
  ASSUME IInv, RingInv, DrainPending
  PROVE  RingInv'
<1>0. /\ UNCHANGED <<backend, sockq, arrived, slots, flight, delivered, quiet>> /\ call.pc = "drain"
      /\ cq' = <<>> /\ call' = IF call.got = 0 THEN Idle ELSE [call EXCEPT !.pc = "read", !.i = 0]
  BY DEF DrainPending
<1>1. SUFFICES ASSUME backend = "uring" PROVE OwnRing' /\ Latest' /\ InOrder' /\ Somewhere'
  BY <1>0 DEF RingInv, IInv, Ringless
<1>2. OwnRing /\ Latest /\ InOrder /\ Somewhere  BY <1>1 DEF RingInv
<1>3. Outstanding = 0  BY <1>0, <1>2 DEF OwnRing
<1>4. Len(flight) = 0 /\ cq = <<>> /\ Hits = 0  BY <1>3, RingEmpty
<1>5. Hits' = Hits /\ Outstanding' = 0  BY <1>0, <1>3, <1>4 DEF Hits, Outstanding
<1>6. \/ call'.pc = "idle" /\ call.got = 0
      \/ call'.pc = "read" /\ call'.i = 0 /\ call'.got = call.got
  BY <1>0, IdleFields DEF IInv, TypeOK, Calls
<1>7. Received' = Received /\ Start' = 0 /\ Start = 0
  BY <1>0, <1>6, RingNumbers DEF Received, Start
<1>8. OwnRing'  BY <1>5, <1>6 DEF OwnRing
<1>9. Latest' /\ Somewhere'  BY <1>0, <1>2, <1>5, <1>7 DEF Latest, Somewhere
<1>10. InOrder'  BY <1>0, <1>2, <1>5, <1>6, <1>7 DEF InOrder
<1> QED  BY <1>8, <1>9, <1>10

\* The caller reads the datagram that comes next.
LEMMA RingReadSlot ==
  ASSUME IInv, RingInv, ReadSlot
  PROVE  RingInv'
<1>0. UNCHANGED <<backend, sockq, arrived, slots, flight, cq, quiet>> /\ call.pc = "read"
  BY DEF ReadSlot, ring
<1>1. SUFFICES ASSUME backend = "uring" PROVE OwnRing' /\ Latest' /\ InOrder' /\ Somewhere'
  BY <1>0 DEF RingInv, IInv, Ringless
<1>2. OwnRing /\ Latest /\ InOrder /\ Somewhere  BY <1>1 DEF RingInv
<1>3. delivered' = Append(delivered, slots[call.i + 1])  BY <1>1 DEF ReadSlot
<1>4. /\ call.i \in Nat /\ call.got \in Nat /\ call.i < call.got /\ call.got <= Batch
  BY <1>0, CallType DEF IInv, Counting
<1>5. slots[call.i + 1] \in Datagrams
  <2>1. call.i + 1 \in 1..Batch  BY <1>4, Bounds
  <2> QED  BY <2>1 DEF IInv, TypeOK
<1>6. /\ Len(delivered') = Len(delivered) + 1 /\ delivered'[Len(delivered) + 1] = slots[call.i + 1]
      /\ \A k \in 1..Len(delivered) : delivered'[k] = delivered[k]
  BY <1>3, <1>5, AppendProperties DEF IInv, TypeOK
<1>7. Outstanding = 0  BY <1>0, <1>2 DEF OwnRing
<1>8. Hits = 0 /\ Hits' = 0 /\ Outstanding' = 0 /\ Len(flight') = 0 /\ Len(cq') = 0
  BY <1>0, <1>7, RingEmpty DEF Hits, Outstanding
<1>9. Received = call.got - call.i /\ Start = call.i  BY <1>0 DEF Received, Start
<1>10. \/ call'.pc = "read" /\ call'.i = call.i + 1 /\ call'.got = call.got
       \/ call'.pc = "idle" /\ call.i + 1 = call.got
       \/ call'.pc = "send" /\ call'.got = 0 /\ call.i + 1 = call.got
  <2>1. CASE call.i + 1 < call.got
    <3>1. call' = [call EXCEPT !.i = call.i + 1]  BY <2>1 DEF ReadSlot
    <3> QED  BY <1>0, <3>1 DEF IInv, TypeOK, Calls
  <2>2. CASE ~(call.i + 1 < call.got)
    <3>1. PICK to_send \in 0..call.got :
            call' = IF to_send = 0 THEN Idle ELSE [pc |-> "send", n |-> to_send, i |-> 0, got |-> 0]
      BY <2>2 DEF ReadSlot
    <3>2. call.i + 1 = call.got  BY <1>4, <2>2
    <3> QED  BY <3>1, <3>2, IdleFields
  <2> QED  BY <2>1, <2>2
<1>11. Received' = Received - 1 /\ Received \in Nat /\ Received > 0
  <2>1. CASE call'.pc = "read" /\ call'.i = call.i + 1 /\ call'.got = call.got
    <3>1. Received' = call.got - (call.i + 1)  BY <2>1 DEF Received
    <3> QED  BY <1>4, <1>9, <3>1
  <2>2. CASE call'.pc \in {"idle", "send"} /\ call.i + 1 = call.got
    <3>1. Received' = 0  BY <2>2 DEF Received
    <3> QED  BY <1>4, <1>9, <2>2, <3>1
  <2> QED  BY <1>10, <2>1, <2>2
<1>12. Received' > 0 => Start' = Start + 1
  BY <1>4, <1>9, <1>10, <1>11 DEF Start
<1>13. OwnRing'
  <2>1. call'.pc \in {"read", "idle"} \/ (call'.pc = "send" /\ call'.got = 0)  BY <1>10
  <2> QED  BY <1>8, <2>1 DEF OwnRing
<1>14. Latest'  BY <1>0, <1>2 DEF Latest
<1>15. Somewhere'
  <2>1. arrived = Len(sockq) + Received + Len(delivered)
    BY <1>2, <1>8, <1>11, RingNumbers DEF Somewhere
  <2> QED  BY <1>0, <1>6, <1>8, <1>11, <2>1, RingNumbers DEF Somewhere
<1>16. InOrder'
  <2> SUFFICES ASSUME quiet PROVE InOrder'  BY <1>0 DEF InOrder
  <2>1. \A k \in 1..Received : slots[Start + k] = Len(delivered) + k
    <3>1. Received + Hits = Received  BY <1>8, <1>11
    <3> QED  BY <1>2, <3>1 DEF InOrder
  <2>2. \A k \in 1..Len(delivered) : delivered[k] = k  BY <1>2 DEF InOrder
  <2>3. \A k \in 1..(Len(delivered) + 1) : delivered'[k] = k
    <3>1. slots[call.i + 1] = Len(delivered) + 1
      <4>1. 1 \in 1..Received  BY <1>11
      <4> QED  BY <1>9, <2>1, <4>1
    <3>2. \A k \in 1..(Len(delivered) + 1) : k \in 1..Len(delivered) \/ k = Len(delivered) + 1
      BY RingNumbers
    <3> QED  BY <1>6, <2>2, <3>1, <3>2
  <2>4. \A k \in 1..(Received - 1) : slots[Start' + k] = (Len(delivered) + 1) + k
    <3> TAKE k \in 1..(Received - 1)
    <3>1. k + 1 \in 1..Received /\ Received' > 0  BY <1>11
    <3>2. Start' + k = Start + (k + 1)  BY <1>4, <1>9, <1>12, <3>1
    <3>3. Len(delivered) + (k + 1) = (Len(delivered) + 1) + k  BY RingNumbers
    <3> QED  BY <2>1, <3>1, <3>2, <3>3
  <2>5. Received' + Hits' = Received - 1  BY <1>8, <1>11
  <2>6. call'.pc # "submit"  BY <1>10
  <2> QED  BY <1>0, <1>6, <2>3, <2>4, <2>5, <2>6 DEF InOrder
<1> QED  BY <1>13, <1>14, <1>15, <1>16

\* A chunk is sent on an empty ring.
LEMMA RingSubmitSends ==
  ASSUME IInv, RingInv, SubmitSends
  PROVE  RingInv'
<1> DEFINE chunk == Smaller(Smaller(Batch, call.n - call.i), Entries - Len(flight))
           rs == [s \in 1..chunk |-> [kind |-> "send", slot |-> s]]
<1>0. /\ UNCHANGED <<backend, sockq, arrived, slots, cq, delivered, quiet>> /\ call.pc = "send"
      /\ call.got = 0 /\ backend \in Uring
  BY DEF SubmitSends
<1>1. SUFFICES ASSUME backend = "uring" PROVE OwnRing' /\ Latest' /\ InOrder' /\ Somewhere'
  BY <1>0 DEF RingInv, Uring
<1>2. OwnRing /\ Latest /\ InOrder /\ Somewhere  BY <1>1 DEF RingInv
<1>3. Outstanding = 0  BY <1>0, <1>2 DEF OwnRing
<1>4. flight = <<>> /\ Len(flight) = 0 /\ Len(cq) = 0 /\ Hits = 0  BY <1>3, RingEmpty
<1>5. chunk \in 1..Batch
  <2>1. call.i \in Nat /\ call.n \in Nat /\ call.i < call.n  BY <1>0, RingNumbers DEF IInv, Counting
  <2> QED  BY <1>4, <2>1, Bounds DEF Smaller
<1>6. flight' = flight \o rs /\ call' = [call EXCEPT !.got = chunk]
  <2>1. chunk # 0  BY <1>5
  <2> QED  BY <2>1 DEF SubmitSends
<1>7. rs \in Seq(Requests) /\ Len(rs) = chunk  BY <1>5, RequestsSeq
<1>8. \A k \in 1..chunk : rs[k].kind = "send"  OBVIOUS
<1> HIDE DEF chunk, rs
<1>9. flight' = rs  BY <1>4, <1>6, <1>7, ConcatEmptySeq
<1>10. call'.pc = "send" /\ call'.got = chunk  BY <1>0, <1>6 DEF IInv, TypeOK, Calls
<1>11. Hits' = 0 /\ Len(cq') = 0 /\ Received' = 0 /\ Received = 0
  BY <1>0, <1>4, <1>10 DEF Hits, Received
<1>12. OwnRing'
  <2>1. Outstanding' = chunk  BY <1>5, <1>7, <1>9, <1>11 DEF Outstanding
  <2> QED  BY <1>7, <1>8, <1>9, <1>10, <1>11, <2>1 DEF OwnRing
<1>13. Latest' /\ Somewhere'  BY <1>0, <1>2, <1>4, <1>11 DEF Latest, Somewhere
<1>14. InOrder'  BY <1>0, <1>2, <1>10, <1>11 DEF InOrder
<1> QED  BY <1>12, <1>13, <1>14

\* send_batch() takes the completions of its own sends.
LEMMA RingAwaitSend ==
  ASSUME IInv, RingInv, AwaitSend
  PROVE  RingInv'
<1>0. /\ UNCHANGED <<backend, sockq, arrived, slots, flight, delivered, quiet>> /\ call.pc = "sending"
      /\ cq # <<>> /\ cq' = Tail(cq)
  BY DEF AwaitSend
<1>1. SUFFICES ASSUME backend = "uring" PROVE OwnRing' /\ Latest' /\ InOrder' /\ Somewhere'
  BY <1>0 DEF RingInv, IInv, Ringless
<1>2. OwnRing /\ Latest /\ InOrder /\ Somewhere  BY <1>1 DEF RingInv
<1>3. /\ Len(flight) = 0 /\ Len(cq) = call.got /\ \A k \in 1..Len(cq) : cq[k].kind = "send"
  BY <1>0, <1>2, RingNumbers DEF OwnRing, Outstanding
<1>4. /\ cq' \in Seq(Results) /\ Len(cq') = Len(cq) - 1 /\ Len(cq) \in Nat \ {0}
      /\ \A k \in 1..(Len(cq) - 1) : cq'[k] = cq[k + 1]
  BY <1>0, HeadTailProperties DEF IInv, TypeOK
<1>5. \A k \in 1..Len(cq') : cq'[k].kind = "send"
  <2> SUFFICES ASSUME NEW k \in 1..(Len(cq) - 1) PROVE cq'[k].kind = "send"  BY <1>4
  <2>1. k + 1 \in 1..Len(cq) /\ cq'[k] = cq[k + 1]  BY <1>4
  <2> QED  BY <1>3, <2>1
<1>6. Hits = 0 /\ Hits' = 0  BY <1>3, <1>4, <1>5, HitsFinite DEF IInv, TypeOK, Hits
<1>7. \/ call'.pc = "sending" /\ call'.got = call.got - 1
      \/ call'.pc = "send" /\ call'.got = 0 /\ call.got = 1
      \/ call'.pc = "idle" /\ call.got = 1
  <2>1. call.got \in Nat \ {0}  BY <1>3, <1>4
  <2>2. CASE call.got > 1
    <3>1. call' = [call EXCEPT !.got = call.got - 1, !.i = call.i + 1]  BY <2>2 DEF AwaitSend
    <3> QED  BY <1>0, <3>1 DEF IInv, TypeOK, Calls
  <2>3. CASE ~(call.got > 1) /\ call.i + 1 < call.n
    <3>1. call' = [call EXCEPT !.pc = "send", !.got = 0, !.i = call.i + 1]  BY <2>3 DEF AwaitSend
    <3> QED  BY <2>1, <2>3, <3>1 DEF IInv, TypeOK, Calls
  <2>4. CASE ~(call.got > 1) /\ ~(call.i + 1 < call.n)
    <3>1. call' = Idle  BY <2>4 DEF AwaitSend
    <3> QED  BY <2>1, <2>4, <3>1, IdleFields
  <2> QED  BY <2>2, <2>3, <2>4
<1>8. Outstanding' = call.got - 1 /\ Len(flight') = 0
  BY <1>0, <1>3, <1>4 DEF Outstanding
<1>9. OwnRing'  BY <1>3, <1>4, <1>5, <1>7, <1>8 DEF OwnRing
<1>10. Received' = 0 /\ Received = 0 /\ call'.pc # "submit"  BY <1>0, <1>7 DEF Received
<1>11. Latest' /\ Somewhere'  BY <1>0, <1>2, <1>6, <1>10 DEF Latest, Somewhere
<1>12. InOrder'  BY <1>0, <1>2, <1>6, <1>10 DEF InOrder
<1> QED  BY <1>9, <1>11, <1>12

-----------------------------------------------------------------------------
(* The theorems.                                                           *)

\* Nothing is open, in flight or received at first.
LEMMA Initially == Init => IInv
<1> SUFFICES ASSUME Init PROVE IInv  OBVIOUS
<1>1. call \in Calls /\ call.pc = "unmade"  BY Bounds DEF Init, Idle, Calls
<1>2. /\ Len(flight) = 0 /\ Len(cq) = 0 /\ Len(sockq) = 0 /\ Len(delivered) = 0
      /\ flight \in Seq(Requests) /\ cq \in Seq(Results)
      /\ sockq \in Seq(Datagrams) /\ delivered \in Seq(Datagrams)
  BY EmptySeq DEF Init
<1>3. TypeOK
  <2>1. 0 \in Datagrams  BY Bounds DEF Datagrams
  <2>2. quiet \in BOOLEAN  BY DEF Init
  <2> QED  BY <1>1, <1>2, <2>1, <2>2 DEF Init, TypeOK
<1>4. Counting /\ Covered  BY <1>1 DEF Counting, Covered
<1>5. Bounded  BY <1>1, <1>2, Bounds DEF Bounded, Outstanding
<1>6. Ringless
  <2>1. Len(InHand) = 0  BY <1>1, <1>3, <1>4, InHandLen
  <2> QED  BY <1>1, <1>2, <2>1 DEF Init, Ringless
<1> QED  BY <1>3, <1>4, <1>5, <1>6 DEF IInv

\* Every step keeps the invariant.
LEMMA StepKeeps == IInv /\ [Next]_vars => IInv'
<1> SUFFICES ASSUME IInv, [Next]_vars PROVE IInv'  OBVIOUS
<1>1. CASE UNCHANGED vars
  <2>1. TypeOK' /\ Counting' /\ Covered' /\ Bounded'
    BY <1>1 DEF vars, IInv, TypeOK, Counting, Covered, Bounded, Outstanding
  <2>2. Ringless'  BY <1>1 DEF vars, IInv, Ringless, InHand
  <2> QED  BY <2>1, <2>2 DEF IInv
<1>2. CASE Make  BY <1>2, MakeKeeps DEF Make
<1>3. CASE Caller
  <2>1. CASE ReceivesNothing  BY <1>1, <2>1 DEF ReceivesNothing
  <2>2. CASE \E n \in 1..Batch : MmsgReceive(n) \/ SubmitReceives(n)
    BY <2>2, MmsgReceiveKeeps, SubmitReceivesKeeps
  <2>3. CASE (\E fails \in BOOLEAN : PosixSend(fails)) \/ (\E sent \in 0..Batch : MmsgSend(sent))
    BY <2>3, SendKeeps
  <2> QED
    BY <1>3, <2>1, <2>2, <2>3, PosixReceiveKeeps, SubmittedKeeps, ReapKeeps, DrainKeeps,
       ReadSlotKeeps, SubmitSendsKeeps, AwaitSendKeeps
    DEF Caller
<1> QED  BY <1>1, <1>2, <1>3, ArriveKeeps, KernelKeeps DEF Next

\* Nothing of a call is ever forgotten on the ring, nor more put on it than it holds.
THEOREM TransportInvariance == Spec => []IInv
BY Initially, StepKeeps, PTL DEF Spec

\* recv_batch() and send_batch() of io_uring wait only for completions that are
\* outstanding, with the poller and without it, and the ring's queues suffice.
THEOREM NoWaitInVain == Spec => []WaitsAreCovered
<1>1. IInv => WaitsAreCovered
  <2> SUFFICES ASSUME IInv PROVE WaitsAreCovered  OBVIOUS
  <2>1. /\ call.n \in Nat /\ call.i \in Nat /\ call.got \in Nat
        /\ Len(flight) \in Nat /\ Len(cq) \in Nat
    BY CallType DEF IInv
  <2>2. Len(cq) <= 2 * Entries
    <3>1. Outstanding <= 2 * Entries
      BY <2>1, Bounds DEF IInv, TypeOK, Calls, Bounded, Counting, Outstanding
    <3> QED  BY <2>1, <3>1, Bounds DEF Outstanding
  <2> QED  BY <2>2 DEF IInv, WaitsAreCovered, Covered, Bounded, Outstanding
<1> QED  BY <1>1, TransportInvariance, PTL

\* recv_batch() of posix and of mmsg implements the queue of DatagramQueue: each
\* step of theirs is one of the queue, or one it does not see.
THEOREM QueueImplemented == Spec => ContractKept
<1>1. ASSUME IInv, IInv', [Next]_vars, backend \notin Uring
      PROVE  [Q!Next]_(Q!vars)
  <2> USE <1>1
  <2>0. /\ flight = <<>> /\ cq = <<>> /\ call.pc \in {"unmade", "idle", "read", "send"}
        /\ call.pc = "send" => call.got = 0
    BY DEF IInv, Ringless
  <2>1. SUFFICES ASSUME ~(Pending' = Pending /\ delivered' = delivered)
                 PROVE  Q!Arrive \/ Q!Deliver
    BY DEF Q!Next, Q!vars, Pending
  <2>2. CASE Arrive  BY <2>2, ArriveQueues
  <2>3. CASE ReadSlot  BY <2>3, ReadSlotDelivers
  <2>4. CASE PosixReceive  BY <2>1, <2>4, PosixReceiveQueues
  <2>5. ASSUME NEW n \in 1..Batch, MmsgReceive(n) PROVE FALSE  BY <2>1, <2>5, MmsgReceiveQueues
  <2>6. CASE UNCHANGED vars  BY <2>1, <2>6 DEF vars, Pending, InHand
  <2>7. ~KernelStep /\ ~Submitted /\ ~Reap /\ ~DrainPending /\ ~SubmitSends /\ ~AwaitSend
    BY <2>0 DEF KernelStep, Submitted, Reap, DrainPending, SubmitSends, AwaitSend
  <2>8. \A n \in 1..Batch : ~SubmitReceives(n)  BY DEF SubmitReceives
  <2>9. ~Make
    <3>1. SUFFICES ASSUME Make PROVE FALSE  OBVIOUS
    <3>2. UNCHANGED <<sockq, slots, delivered>> /\ call.pc = "unmade" /\ (call' = Idle \/ call' = call)
      BY <3>1 DEF Make, make_transport
    <3>3. InHand = <<>> /\ InHand' = <<>>  BY <3>2 DEF InHand, Idle
    <3> QED  BY <2>1, <3>2, <3>3 DEF Pending
  <2>10. ~((\E fails \in BOOLEAN : PosixSend(fails)) \/ (\E sent \in 0..Batch : MmsgSend(sent)))
    <3>1. SUFFICES ASSUME (\E fails \in BOOLEAN : PosixSend(fails)) \/ (\E sent \in 0..Batch : MmsgSend(sent))
                   PROVE  FALSE
      OBVIOUS
    <3>2. UNCHANGED <<sockq, slots, delivered>> /\ call.pc = "send"  BY <3>1 DEF PosixSend, MmsgSend
    <3>3. call'.pc # "read"
      <4>1. call' = Idle \/ \E k : call' = [call EXCEPT !.i = k]  BY <3>1 DEF PosixSend, MmsgSend
      <4> QED  BY <3>2, <4>1, IdleFields DEF IInv, TypeOK, Calls
    <3>4. InHand = <<>> /\ InHand' = <<>>  BY <3>2, <3>3 DEF InHand
    <3> QED  BY <2>1, <3>2, <3>4 DEF Pending
  <2> QED
    BY <2>2, <2>3, <2>4, <2>5, <2>6, <2>7, <2>8, <2>9, <2>10 DEF Next, Caller, ReceivesNothing
<1>2. IInv /\ IInv' /\ [Next]_vars => [backend \notin Uring => [Q!Next]_(Q!vars)]_vars  BY <1>1
<1> QED  BY <1>2, TransportInvariance, PTL DEF Spec, ContractKept

\* io_uring without the poller: nothing of an earlier call is on the ring, the
\* socket has the latest datagrams, the slots those that come next.
LEMMA RingStep == IInv /\ IInv' /\ RingInv /\ [Next]_vars => RingInv'
<1> SUFFICES ASSUME IInv, IInv', RingInv, [Next]_vars PROVE RingInv'  OBVIOUS
<1>1. CASE UNCHANGED vars
  BY <1>1 DEF vars, RingInv, OwnRing, Latest, InOrder, Somewhere, Outstanding, Hits, Received, Start
<1>2. CASE Make  BY <1>2, RingMake DEF Make
<1>3. ASSUME backend \in {"posix", "mmsg"}, UNCHANGED <<backend, arrived>>
      PROVE  RingInv'
  BY <1>3 DEF RingInv
<1>4. CASE Caller
  <2>1. CASE ReceivesNothing  BY <1>1, <2>1 DEF ReceivesNothing
  <2>2. CASE \E n \in 1..Batch : MmsgReceive(n) \/ SubmitReceives(n)
    <3>1. ASSUME NEW n \in 1..Batch, MmsgReceive(n) PROVE RingInv'  BY <1>3, <3>1 DEF MmsgReceive
    <3> QED  BY <2>2, <3>1, RingSubmitReceives
  <2>3. CASE (\E fails \in BOOLEAN : PosixSend(fails)) \/ (\E sent \in 0..Batch : MmsgSend(sent))
    BY <1>3, <2>3 DEF PosixSend, MmsgSend
  <2>4. CASE PosixReceive  BY <1>3, <2>4 DEF PosixReceive
  <2> QED
    BY <1>4, <2>1, <2>2, <2>3, <2>4, RingSubmitted, RingReap, RingDrain, RingReadSlot,
       RingSubmitSends, RingAwaitSend
    DEF Caller
<1> QED  BY <1>1, <1>2, <1>4, RingArrive, RingKernel DEF Next

\* In every state of the io_uring back end without the poller, and before a
\* back end is made.
THEOREM RingInvariance == Spec => []RingInv
<1>1. Init => RingInv  BY DEF Init, RingInv
<1> QED  BY <1>1, RingStep, TransportInvariance, PTL DEF Spec

\* recv_batch() of io_uring without the poller counts every datagram it takes
\* from the socket, drain_pending() loses none, and while nothing arrives inside
\* a receive call the caller reads them in the order of their arrival.
THEOREM RingCounts == Spec => []RingCountsRight
<1>1. IInv /\ RingInv => RingCountsRight
  <2> SUFFICES ASSUME IInv, RingInv, backend = "uring" PROVE RingCountsRight
    BY DEF RingCountsRight
  <2>1. InOrder /\ Somewhere  BY DEF RingInv
  <2>2. DOMAIN delivered = 1..Len(delivered)  BY DEF IInv, TypeOK
  <2> QED  BY <2>1, <2>2 DEF RingCountsRight, InOrder, Somewhere, Hits
<1> QED  BY <1>1, RingInvariance, TransportInvariance, PTL
=============================================================================
