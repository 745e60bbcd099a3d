---------------------------- MODULE DerechoGroup ----------------------------
(***************************************************************************)
(* The ordered-delivery engine of one view, src/derecho_group.cpp.        *)
(*                                                                         *)
(* N members, ranks 0..N-1.  Every member is a sender and owns one ring    *)
(* buffer per sender slot (buffers[i]); its own slot is filled by          *)
(* get_position/send, the others by the block multicast (RDMC).  The       *)
(* shared-state table (SST) holds one row per member with seq_num,         *)
(* stable_num and delivered_num; sst[p][q] is member p's copy of q's row,  *)
(* sst[p][p] the row p writes.  A put() reaches another member later, in   *)
(* order: the action Put copies the current row to one peer.               *)
(*                                                                         *)
(* Threads of a member, each an action here:                               *)
(*   - the application: GetPosition, then Send (derecho_group::send);      *)
(*   - RDMC completion callbacks: Receive;                                 *)
(*   - the SST predicate thread: Stability, Delivery, WindowAdvance, and   *)
(*     the arrival of remote puts (Put);                                   *)
(*   - the send worker send_loop: SendLoopCheck, SendLoopWait.             *)
(* msg_state_mtx is held by Send, Receive, Delivery and by the send worker *)
(* between checking should_send and blocking (worker = "checked").         *)
(***************************************************************************)
EXTENDS Integers, Sequences, FiniteSets, FiniteSetsExt

CONSTANTS
  N,            \* number of members of the view
  MaxMsgs,      \* messages each sender reserves (bounds the model)
  WindowSize,   \* window_size
  BufferSize,   \* buffer_size, in abstract size units
  MsgSizes,     \* the sizes the application asks get_position for
  NoMsg,        \* boost::none for next_message
  Empty         \* content of a buffer cell nothing was written to

ASSUME /\ N \in Nat \ {0}
       /\ MaxMsgs \in Nat \ {0}
       /\ WindowSize \in Nat \ {0}
       /\ BufferSize \in Nat \ {0}
       /\ MsgSizes \subseteq 1..BufferSize

Ranks == 0..N-1
Indices == 0..MaxMsgs-1
Offsets == 0..BufferSize-1
\* A message is identified by <<sender, index>>; its payload is that pair.
Payload(k, i) == <<k, i>>
\* Position of message i of sender k in the total order: the key of
\* locally_stable_messages.
SeqOfSenderMajor(k, i) == k * N + i
SeqOf(k, i) == i * N + k

VARIABLES
  start,                    \* start[p][k]: producer cursor of slot k at p
  end,                      \* end[p]: consumer cursor of p's own slot
  future_message_index,     \* next index get_position hands out
  next_message,             \* reserved, not yet passed to send()
  pending_sends,            \* queue of messages waiting for the send worker
  last_received_messages,   \* [p][k]: index of the last message of k received
  locally_stable_messages,  \* received at p, not yet delivered
  sst,                      \* sst[p][q]: p's copy of q's row
  next_message_to_deliver,  \* counter of the window predicate
  worker,                   \* state of the send worker of p
  buffers,                  \* buffers[p][k][c]: what was last written to cell c
  transmitted,              \* messages passed to rdmc::send, per sender
  reserved,                 \* history: every reservation of p's own slot
  delivered                 \* history: what p's stability callback was given

vars == <<start, end, future_message_index, next_message, pending_sends,
          last_received_messages, locally_stable_messages, sst,
          next_message_to_deliver, worker, buffers, transmitted, reserved,
          delivered>>

MsgInfo == [index : Indices, offset : Offsets, size : MsgSizes]
Row == [seq_num : Int, stable_num : Int, delivered_num : Int]

-----------------------------------------------------------------------------
(* Helpers                                                                  *)

\* Mutant: the cursor is not brought back to 0 when it reaches the end.
WrapNever(x) == x
Wrap(x) == IF x = BufferSize THEN 0 ELSE x

Cells(off, size) == off..(off + size - 1)

\* Wake the send worker if it is blocked in derecho_cv.wait; a notify that
\* finds it not waiting is lost.
Notify(p) ==
  worker' = IF worker[p] = "asleep" THEN [worker EXCEPT ![p] = "run"] ELSE worker

\* msg_state_mtx is free unless the send worker holds it while checking.
MutexFree(p) == worker[p] # "checked"

\* The sequence number the receive callback computes from
\* last_received_messages: min_element returns the first minimum.
ReceivedSeqNumNoDecrement(lr) ==
  LET m == Min({lr[k] : k \in Ranks})
      j == Min({k \in Ranks : lr[k] = m})
  IN (m + 1) * N + j
ReceivedSeqNumLagging(lr) ==
  LET m == Min({lr[k] : k \in Ranks})
      j == Min({k \in Ranks : lr[k] = m})
  IN (m + 1) * N + j - 2
ReceivedSeqNum(lr) ==
  LET m == Min({lr[k] : k \in Ranks})
      j == Min({k \in Ranks : lr[k] = m})
  IN (m + 1) * N + j - 1

-----------------------------------------------------------------------------
Init ==
  /\ start = [p \in Ranks |-> [k \in Ranks |-> 0]]
  /\ end = [p \in Ranks |-> 0]
  /\ future_message_index = [p \in Ranks |-> 0]
  /\ next_message = [p \in Ranks |-> NoMsg]
  /\ pending_sends = [p \in Ranks |-> <<>>]
  /\ last_received_messages = [p \in Ranks |-> [k \in Ranks |-> -1]]
  /\ locally_stable_messages = [p \in Ranks |-> {}]
  /\ sst = [p \in Ranks |-> [q \in Ranks |->
             [seq_num |-> -1, stable_num |-> -1, delivered_num |-> -1]]]
  /\ next_message_to_deliver = [p \in Ranks |-> 0]
  /\ worker = [p \in Ranks |-> "run"]
  /\ buffers = [p \in Ranks |-> [k \in Ranks |-> [c \in Offsets |-> Empty]]]
  /\ transmitted = [p \in Ranks |-> <<>>]
  /\ reserved = [p \in Ranks |-> <<>>]
  /\ delivered = [p \in Ranks |-> <<>>]

-----------------------------------------------------------------------------
(* Application thread                                                       *)

\* get_position(size): reserve room in p's own ring.  When it returns NULL
\* it changes nothing (a reset of the cursors is always followed by a
\* successful reservation), so the failing calls are stuttering steps.
\* The application calls send() before the next get_position.
GetPosition(p, size) ==
  LET resetting == start[p][p] = end[p]
      s == IF resetting THEN 0 ELSE start[p][p]
      e == IF resetting THEN 0 ELSE end[p]
      fitsBefore == s < e /\ e - s >= size
      fitsAfter == s >= e /\ BufferSize - s >= size
      wraps == s >= e /\ ~fitsAfter /\ e >= size
      off == IF wraps THEN 0 ELSE s
      msg == [index |-> future_message_index[p], offset |-> off, size |-> size]
  IN /\ next_message[p] = NoMsg
     /\ future_message_index[p] < MaxMsgs
     /\ size <= BufferSize \div WindowSize
     /\ fitsBefore \/ fitsAfter \/ wraps
     /\ start' = [start EXCEPT ![p][p] = Wrap(off + size)]
     /\ end' = [end EXCEPT ![p] = e]
     /\ future_message_index' = [future_message_index EXCEPT ![p] = @ + 1]
     /\ next_message' = [next_message EXCEPT ![p] = msg]
     /\ reserved' = [reserved EXCEPT ![p] = Append(@, msg)]
     /\ UNCHANGED <<pending_sends, last_received_messages,
                    locally_stable_messages, sst, next_message_to_deliver,
                    worker, buffers, transmitted, delivered>>

\* The application fills the reserved region, then calls send(): the
\* message joins pending_sends under msg_state_mtx and the worker is notified.
Send(p) ==
  LET msg == next_message[p] IN
  /\ msg # NoMsg
  /\ MutexFree(p)
  /\ buffers' = [buffers EXCEPT ![p][p] =
                   [c \in Offsets |-> IF c \in Cells(msg.offset, msg.size)
                                      THEN Payload(p, msg.index) ELSE @[c]]]
  /\ pending_sends' = [pending_sends EXCEPT ![p] = Append(@, msg)]
  /\ next_message' = [next_message EXCEPT ![p] = NoMsg]
  /\ Notify(p)
  /\ UNCHANGED <<start, end, future_message_index, last_received_messages,
                 locally_stable_messages, sst, next_message_to_deliver,
                 transmitted, reserved, delivered>>

-----------------------------------------------------------------------------
(* Send worker, send_loop: derecho_cv.wait(lock, should_send)               *)

ShouldSendOffByOne(p) ==
  /\ pending_sends[p] # <<>>
  /\ LET msg == Head(pending_sends[p]) IN
     /\ last_received_messages[p][p] >= msg.index - 1
     /\ \A i \in Ranks :
          sst[p][i].delivered_num >= (msg.index - WindowSize - 1) * N + p
ShouldSend(p) ==
  /\ pending_sends[p] # <<>>
  /\ LET msg == Head(pending_sends[p]) IN
     /\ last_received_messages[p][p] >= msg.index - 1
     /\ \A i \in Ranks :
          sst[p][i].delivered_num >= (msg.index - WindowSize) * N + p

\* The worker, holding the lock, evaluates should_send: if it holds it sends
\* the head of pending_sends and loops; otherwise it is about to block.
SendLoopCheck(p) ==
  /\ worker[p] = "run"
  /\ IF ShouldSend(p)
     THEN /\ transmitted' = [transmitted EXCEPT ![p] = Append(@, Head(pending_sends[p]))]
          /\ pending_sends' = [pending_sends EXCEPT ![p] = Tail(@)]
          /\ UNCHANGED worker
     ELSE /\ worker' = [worker EXCEPT ![p] = "checked"]
          /\ UNCHANGED <<transmitted, pending_sends>>
  /\ UNCHANGED <<start, end, future_message_index, next_message,
                 last_received_messages, locally_stable_messages, sst,
                 next_message_to_deliver, buffers, reserved, delivered>>

\* The worker releases the lock and blocks on derecho_cv.
SendLoopWait(p) ==
  /\ worker[p] = "checked"
  /\ worker' = [worker EXCEPT ![p] = "asleep"]
  /\ UNCHANGED <<start, end, future_message_index, next_message, pending_sends,
                 last_received_messages, locally_stable_messages, sst,
                 next_message_to_deliver, buffers, transmitted, reserved,
                 delivered>>

-----------------------------------------------------------------------------
(* RDMC completion callback of slot k at member q                           *)

\* The next message of k arrives at q.  A receiver places it at the offset
\* the receive-destination callback returns, computed from start[q][k];
\* the sender's own completion refers to the region it sent from.
Receive(q, k) ==
  LET i == last_received_messages[q][k] + 1
      msg == transmitted[k][i + 1]
      off == IF q = k THEN msg.offset
             ELSE IF BufferSize - start[q][k] < msg.size THEN 0 ELSE start[q][k]
      lr == [last_received_messages[q] EXCEPT ![k] = i]
      newSeq == ReceivedSeqNum(lr)
  IN /\ i < Len(transmitted[k])
     /\ MutexFree(q)
     /\ last_received_messages' = [last_received_messages EXCEPT ![q] = lr]
     /\ locally_stable_messages' = [locally_stable_messages EXCEPT ![q] =
          @ \cup {[seq |-> SeqOf(k, i), sender |-> k, index |-> i,
                   offset |-> off, size |-> msg.size]}]
     /\ buffers' = IF q = k THEN buffers
                   ELSE [buffers EXCEPT ![q][k] =
                          [c \in Offsets |-> IF c \in Cells(off, msg.size)
                                             THEN Payload(k, i) ELSE @[c]]]
     /\ sst' = IF newSeq > sst[q][q].seq_num
               THEN [sst EXCEPT ![q][q].seq_num = newSeq] ELSE sst
     /\ IF q = k THEN Notify(q) ELSE UNCHANGED worker
     /\ UNCHANGED <<start, end, future_message_index, next_message,
                    pending_sends, next_message_to_deliver, transmitted,
                    reserved, delivered>>

-----------------------------------------------------------------------------
(* SST predicate thread of member p                                         *)

\* A put() of q's row reaches p (RDMA writes from one member arrive in order).
Put(q, p) ==
  /\ p # q
  /\ sst[p][q] # sst[q][q]
  /\ sst' = [sst EXCEPT ![p][q] = sst[q][q]]
  /\ UNCHANGED <<start, end, future_message_index, next_message, pending_sends,
                 last_received_messages, locally_stable_messages,
                 next_message_to_deliver, worker, buffers, transmitted,
                 reserved, delivered>>

\* The min of seq_num over every row stability_trig loops over.
StabilityBoundSkipsLast(p) == Min({sst[p][i].seq_num : i \in 0..N-2} \cup {sst[p][0].seq_num})
StabilityBound(p) == Min({sst[p][i].seq_num : i \in Ranks})

\* stability_trig: stable_num := min of all seq_num, if that is larger.
Stability(p) ==
  LET minSeq == StabilityBound(p) IN
  /\ minSeq > sst[p][p].stable_num
  /\ sst' = [sst EXCEPT ![p][p].stable_num = minSeq]
  /\ UNCHANGED <<start, end, future_message_index, next_message, pending_sends,
                 last_received_messages, locally_stable_messages,
                 next_message_to_deliver, worker, buffers, transmitted,
                 reserved, delivered>>

\* The min of stable_num over every row delivery_trig loops over.
DeliveryBoundOwnSeq(p) == sst[p][p].seq_num
DeliveryBound(p) == Min({sst[p][i].stable_num : i \in Ranks})

\* delivery_trig: deliver the least locally stable message if its sequence
\* number is at most the min of all stable_num; the own ring's end advances.
Delivery(p) ==
  LET minStable == DeliveryBound(p)
      least == CHOOSE m \in locally_stable_messages[p] :
                 \A m2 \in locally_stable_messages[p] : m.seq <= m2.seq
      data == {buffers[p][least.sender][c] : c \in Cells(least.offset, least.size)}
  IN /\ MutexFree(p)
     /\ locally_stable_messages[p] # {}
     /\ least.seq <= minStable
     /\ delivered' = [delivered EXCEPT ![p] =
          Append(@, [sender |-> least.sender, index |-> least.index, data |-> data])]
     /\ end' = IF least.sender = p
               THEN [end EXCEPT ![p] = Wrap(least.offset + least.size)] ELSE end
     /\ sst' = [sst EXCEPT ![p][p].delivered_num = least.seq]
     /\ locally_stable_messages' = [locally_stable_messages EXCEPT ![p] = @ \ {least}]
     /\ UNCHANGED <<start, future_message_index, next_message, pending_sends,
                    last_received_messages, next_message_to_deliver, worker,
                    buffers, transmitted, reserved>>

\* derecho_trig: once every member delivered p's message
\* next_message_to_deliver, notify the worker and count on.
WindowAdvance(p) ==
  /\ \A i \in Ranks :
       sst[p][i].delivered_num >= next_message_to_deliver[p] * N + p
  /\ next_message_to_deliver' = [next_message_to_deliver EXCEPT ![p] = @ + 1]
  /\ Notify(p)
  /\ UNCHANGED <<start, end, future_message_index, next_message, pending_sends,
                 last_received_messages, locally_stable_messages, sst,
                 buffers, transmitted, reserved, delivered>>

-----------------------------------------------------------------------------
Next ==
  \/ \E p \in Ranks, size \in MsgSizes : GetPosition(p, size)
  \/ \E p \in Ranks : Send(p)
  \/ \E p \in Ranks : SendLoopCheck(p)
  \/ \E p \in Ranks : SendLoopWait(p)
  \/ \E q, k \in Ranks : Receive(q, k)
  \/ \E p, q \in Ranks : Put(q, p)
  \/ \E p \in Ranks : Stability(p)
  \/ \E p \in Ranks : Delivery(p)
  \/ \E p \in Ranks : WindowAdvance(p)

\* The application is not assumed to make progress.  Every other step is
\* one of a bounded number of steps of a thread that runs whenever it is
\* not blocked: p's send worker, p's RDMC completions, and p's predicate
\* thread, which evaluates every predicate in a loop and sees every RDMA
\* write to its table.  Weak fairness of each thread as a whole is enough.
SendWorker(p) == SendLoopCheck(p) \/ SendLoopWait(p)
Completions(p) == \E k \in Ranks : Receive(p, k)
PredicateThread(p) ==
  \/ \E q \in Ranks : Put(q, p)
  \/ Stability(p) \/ Delivery(p) \/ WindowAdvance(p)

Fairness ==
  \A p \in Ranks : /\ WF_vars(SendWorker(p))
                  /\ WF_vars(Completions(p))
                  /\ WF_vars(PredicateThread(p))

Spec == Init /\ [][Next]_vars /\ Fairness

-----------------------------------------------------------------------------
(* Properties                                                               *)

TypeOK ==
  /\ start \in [Ranks -> [Ranks -> Offsets]]
  /\ end \in [Ranks -> Offsets]
  /\ future_message_index \in [Ranks -> 0..MaxMsgs]
  /\ next_message \in [Ranks -> MsgInfo \cup {NoMsg}]
  /\ pending_sends \in [Ranks -> Seq(MsgInfo)]
  /\ last_received_messages \in [Ranks -> [Ranks -> -1..MaxMsgs-1]]
  /\ sst \in [Ranks -> [Ranks -> Row]]
  /\ worker \in [Ranks -> {"run", "checked", "asleep"}]
  /\ transmitted \in [Ranks -> Seq(MsgInfo)]
  /\ reserved \in [Ranks -> Seq(MsgInfo)]

\* Received(p, s): the message with sequence number s has reached p.
Received(p, s) == last_received_messages[p][s % N] >= s \div N

\* Reference definition of the contiguous prefix received at p: the largest
\* s such that every message numbered 0..s has been received.
ContiguousPrefix(p) ==
  Max({s \in -1..(MaxMsgs * N - 1) : \A t \in 0..s : Received(p, t)})

(* The seq_num a member publishes is exactly the end of the contiguous     *)
(* prefix of the total order it has received: the closed formula           *)
(* (min+1)*N + argmin - 1 of the RDMC receive callback never claims a      *)
(* message that has not arrived, nor lags behind one that has.             *)
SeqNumIsReceivedPrefix ==
  \A p \in Ranks : sst[p][p].seq_num = ContiguousPrefix(p)

(* Whatever stable_num a member publishes (computed by stability_trig from *)
(* possibly stale copies of the other rows) has been received by every     *)
(* member.                                                                  *)
StableMeansReceivedEverywhere ==
  \A p \in Ranks : \A s \in 0..sst[p][p].stable_num :
    \A q \in Ranks : Received(q, s)

(* A message is delivered only once every member has received it.          *)
DeliveredMeansReceivedEverywhere ==
  \A p \in Ranks : \A i \in 1..Len(delivered[p]) :
    \A q \in Ranks : Received(q, i - 1)

\* Messages of p delivered at q.
DeliveredFrom(q, p) == Cardinality({i \in 1..Len(delivered[q]) : delivered[q][i].sender = p})

(* Window bound: the send worker never has more than window_size of its    *)
(* messages transmitted and not yet delivered at every member.             *)
WindowBound ==
  \A p \in Ranks :
    Len(transmitted[p]) - Min({DeliveredFrom(q, p) : q \in Ranks}) <= WindowSize

(* Buffer safety at the sender: two reservations of p's own ring that p    *)
(* has not yet delivered never overlap (spec 8, "Buffer safety").          *)
ReservationsDisjoint ==
  \A p \in Ranks : \A i, j \in 1..Len(reserved[p]) :
    (i # j /\ i > DeliveredFrom(p, p) /\ j > DeliveredFrom(p, p)) =>
      Cells(reserved[p][i].offset, reserved[p][i].size)
        \cap Cells(reserved[p][j].offset, reserved[p][j].size) = {}

(* The stability callback is given the bytes of the message it names:     *)
(* every cell of the region it reads holds that message's payload.         *)
DeliveredPayloadIntact ==
  \A p \in Ranks : \A i \in 1..Len(delivered[p]) :
    delivered[p][i].data = {Payload(delivered[p][i].sender, delivered[p][i].index)}

-----------------------------------------------------------------------------
(* Refinement of the abstract engine, TotalOrderMulticast                   *)

\* A message is multicast when the send worker hands it to rdmc::send; a
\* delivery is the pair (sender, index) the stability callback is given.
TOM == INSTANCE TotalOrderMulticast WITH
  sent <- [p \in Ranks |-> Len(transmitted[p])],
  delivered <- [p \in Ranks |-> [i \in 1..Len(delivered[p]) |->
                  <<delivered[p][i].sender, delivered[p][i].index>>]]

(* Every step of the engine is a step of the abstract one or leaves it     *)
(* unchanged: delivery_trig hands the callback, at every member, the next  *)
(* message of the total order index*N + sender, once each and only after   *)
(* the sender transmitted it, however receives, puts and predicate firings *)
(* interleave.                                                              *)
TotalOrderRefinement == TOM!Init /\ [][TOM!Next]_TOM!vars

(* The engine implements the abstract specification with its fairness: a  *)
(* member whose next message in the total order has been transmitted       *)
(* eventually delivers it; the receive callbacks, the puts and the         *)
(* stability and delivery predicates never get stuck short of it.          *)
TotalOrderSpec == TOM!Spec

(* Every message the application passed to send() is eventually handed   *)
(* to rdmc::send by the send worker.                                        *)
CommittedEventuallyTransmitted ==
  \A p \in Ranks : \A i \in Indices :
    (\E j \in 1..Len(pending_sends[p]) : pending_sends[p][j].index = i)
      ~> (Len(transmitted[p]) > i)

=============================================================================
