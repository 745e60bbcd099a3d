------------------------- MODULE TotalOrderMulticast -------------------------
(***************************************************************************)
(* What the ordered-delivery engine of one view promises (spec.md 4.2 and *)
(* 8): members multicast messages numbered 0, 1, 2, ... per sender, and   *)
(* every member delivers them once each, in the one total order given by  *)
(* sequence number index * N + rank, never a message its sender has not   *)
(* multicast.  Which member delivers when is left open; a member whose    *)
(* next message in the order has been multicast eventually delivers it.  *)
(***************************************************************************)
EXTENDS Naturals, Sequences

CONSTANTS
  N,        \* members of the view, ranks 0..N-1
  MaxMsgs   \* messages each member multicasts

VARIABLES
  sent,       \* sent[p]: messages p has multicast
  delivered   \* delivered[p]: <<sender, index>> pairs p delivered, in order

vars == <<sent, delivered>>

Ranks == 0..N-1

\* The message with sequence number s in the total order.
MsgOf(s) == <<s % N, s \div N>>

Init ==
  /\ sent = [p \in Ranks |-> 0]
  /\ delivered = [p \in Ranks |-> <<>>]

Multicast(p) ==
  /\ sent[p] < MaxMsgs
  /\ sent' = [sent EXCEPT ![p] = @ + 1]
  /\ UNCHANGED delivered

\* p delivers the next message of the total order once its sender sent it.
Deliver(p) ==
  LET m == MsgOf(Len(delivered[p])) IN
  /\ Len(delivered[p]) < N * MaxMsgs
  /\ m[2] < sent[m[1]]
  /\ delivered' = [delivered EXCEPT ![p] = Append(@, m)]
  /\ UNCHANGED sent

Next == \E p \in Ranks : Multicast(p) \/ Deliver(p)

Spec == Init /\ [][Next]_vars /\ \A p \in Ranks : WF_vars(Deliver(p))

TypeOK ==
  /\ sent \in [Ranks -> 0..MaxMsgs]
  /\ delivered \in [Ranks -> Seq(Ranks \X (0..MaxMsgs-1))]

=============================================================================
