---------------------------- MODULE ManagedGroup ----------------------------
(***************************************************************************)
(* The group-membership service of src/managed_group_impl.h: failure      *)
(* suspicion, the leader's change proposal, acknowledgement and commit,   *)
(* the view change (wedge, meta-wedged, ragged-edge cleanup, new SST,     *)
(* install) and the partition detector.                                   *)
(*                                                                         *)
(* Nodes are the integers 0..NumNodes-1.  A View is a record with vid,    *)
(* members[0..n-1] (rank -> node id), failed[0..n-1], nFailed and         *)
(* iKnowIAmLeader, the fields of View the protocol reads.  Every node     *)
(* holds its copy of the rows of the view's SST, sst[n][r] for rank r;    *)
(* sst[n][MyRank(n)] is the row n writes.  Put(q, p) models a put() of    *)
(* q's row reaching p (RDMA writes from one node arrive in order).        *)
(*                                                                         *)
(* Every SST predicate of a node is an action; they run on the node's     *)
(* predicate thread, one trigger at a time.  The one-shot continuations   *)
(* of the view change are tracked by phase[n]:                            *)
(*   "normal"    all GMS predicates registered;                           *)
(*   "meta_wait" start_view_change ran, waiting for meta-wedged;          *)
(*   "gm_wait"   a follower waiting for the leader's globalMinReady;      *)
(*   "sync"      the new SST exists, waiting in sync_with_members.        *)
(* The messages of the delivery engine are abstracted to the nReceived     *)
(* column that ragged-edge cleanup reads: Multicast and ReceiveMsg.       *)
(***************************************************************************)
EXTENDS Integers, Sequences, FiniteSets, FiniteSetsExt

CONSTANTS
  NumNodes,     \* size of the initial view
  MaxMembers,   \* View::MAX_MEMBERS: capacity of changes[] and the vectors
  MaxCrashes,   \* how many nodes may crash or leave (bounds the model)
  Crashable,    \* the nodes that may crash
  Leavers,      \* the nodes whose application may call leave()
  MaxMsgs,      \* messages a sender multicasts in the initial view (bound)
  Senders,      \* the members whose application multicasts
  PriorCrash,   \* NoNode, or a node the group has already removed
  NumJoiners    \* nodes outside the initial view that ask to join it

ASSUME /\ NumNodes \in Nat \ {0}
       /\ NumJoiners \in Nat
       /\ MaxMembers \in Nat /\ MaxMembers >= NumNodes + NumJoiners
       /\ MaxCrashes \in Nat
       /\ Crashable \subseteq 0..NumNodes-1
       /\ Leavers \subseteq 0..NumNodes-1
       /\ MaxMsgs \in Nat
       /\ Senders \subseteq 0..NumNodes-1
       /\ PriorCrash \in {-1} \cup 0..NumNodes-1

Nodes == 0..NumNodes+NumJoiners-1
Joiners == NumNodes..NumNodes+NumJoiners-1
\* leader_id given to every process at startup: joiners connect to it.
LeaderId == 0
Slots == 0..MaxMembers-1
NoNode == -1

VARIABLES
  status,         \* "joining", "running", "crashed", "left" or "terminated" (SIGSEGV)
  curr_view,      \* the View a node runs in
  sst,            \* sst[n][r]: n's copy of the row of rank r
  frozen,         \* ranks whose rows n no longer accepts updates from
  last_suspected, \* ManagedGroup::last_suspected, MAX_MEMBERS entries
  phase,          \* where the view change of n stands (see above)
  pc,             \* the predicate n's predicate thread evaluates next
  next_view,      \* the view start_view_change computed
  new_row,        \* n's row in the SST of next_view, set by transition
  sent,           \* messages n multicast in curr_view
  ragged,         \* history: <<vid, globalMin, floor>> of n's cleanups
  installed,      \* history: <<vid, members>> of every view n installed
  pending_joins,  \* pending_joins: joiners n's listener thread accepted
  joining_client_socket, \* the joiner n's GMS is adding, or NoNode
  leader_socket   \* the node a joiner connected to in join_existing, or NoNode

joinVars == <<pending_joins, joining_client_socket, leader_socket>>
vars == <<status, curr_view, sst, frozen, last_suspected, phase, pc,
          next_view, new_row, sent, ragged, installed, joinVars>>

-----------------------------------------------------------------------------
(* Views                                                                    *)

NumMembers(v) == Cardinality(DOMAIN v.members)
RanksOf(v) == 0..NumMembers(v)-1
\* View::rank_of: the rank of a node id, or -1.
RankOf(v, id) == IF \E r \in RanksOf(v) : v.members[r] = id
                 THEN CHOOSE r \in RanksOf(v) : v.members[r] = id ELSE -1
\* View::rank_of_leader: the lowest rank not marked failed.
RankOfLeader(v) == Min({r \in RanksOf(v) : ~v.failed[r]} \cup {NumMembers(v)})

MyRank(n) == RankOf(curr_view[n], n)
IAmLeader(n) == RankOfLeader(curr_view[n]) = MyRank(n)
MyRow(n) == sst[n][MyRank(n)]
LeaderRow(n) == sst[n][RankOfLeader(curr_view[n])]

-----------------------------------------------------------------------------
(* Rows of the SST (DerechoRow)                                             *)

Row == [suspected : SUBSET Slots, changes : [Slots -> Nodes \cup {NoNode}],
        nChanges : Nat, nCommitted : Nat, nAcked : Nat, wedged : BOOLEAN,
        globalMin : [Slots -> Nat], globalMinReady : BOOLEAN,
        nReceived : [Slots -> Nat], vid : Nat]

\* gmssst::init: a fresh row.
InitRow(vid) ==
  [suspected |-> {}, changes |-> [s \in Slots |-> NoNode], nChanges |-> 0,
   nCommitted |-> 0, nAcked |-> 0, wedged |-> FALSE,
   globalMin |-> [s \in Slots |-> 0], globalMinReady |-> FALSE,
   nReceived |-> [s \in Slots |-> 0], vid |-> vid]

\* gmssst::init_from_existing: a row of the next view's SST carries the
\* change list and its counters over from the old row, and starts unwedged.
InitFromExisting(old, vid) ==
  [InitRow(vid) EXCEPT !.changes = old.changes, !.nChanges = old.nChanges,
                       !.nCommitted = old.nCommitted, !.nAcked = old.nAcked]

\* changes_contains: q is among the proposed, uncommitted changes.
ChangesContains(row, q) ==
  \E c \in row.nCommitted..(row.nChanges - 1) : row.changes[c % MaxMembers] = q

\* Mutant: min_acked without the !failed[n] test.
MinAckedAllRows(n) ==
  Min({MyRow(n).nAcked} \cup {sst[n][r].nAcked : r \in RanksOf(curr_view[n])})

\* min_acked: the least nAcked over the rows not marked failed.
MinAcked(n) ==
  Min({MyRow(n).nAcked} \cup
      {sst[n][r].nAcked : r \in {r \in RanksOf(curr_view[n]) : ~curr_view[n].failed[r]}})

\* The partition detector's threshold: (num_members + 1) / 2.
Majority(v) == (NumMembers(v) + 1) \div 2

-----------------------------------------------------------------------------
(* The initial view: node 0 started the group and nodes 1..NumNodes-1       *)
(* joined one after the other, so the view is NumNodes-1 and change c of    *)
(* every row added node c+1.                                                *)

InitView == [vid |-> NumNodes - 1, members |-> [r \in 0..NumNodes-1 |-> r],
             failed |-> [r \in 0..NumNodes-1 |-> FALSE], nFailed |-> 0,
             iKnowIAmLeader |-> FALSE]

InitGmsRow ==
  [InitRow(NumNodes - 1) EXCEPT
     !.changes = [s \in Slots |-> IF s < NumNodes - 1 THEN s + 1 ELSE NoNode],
     !.nChanges = NumNodes - 1, !.nCommitted = NumNodes - 1,
     !.nAcked = NumNodes - 1]

\* With PriorCrash a node, the run starts where the group stands once it
\* has removed that crashed node: view NumNodes without it, change number
\* NumNodes-1 naming it, every survivor's last_suspected set at its old
\* rank (copy_suspected ran when the survivor marked it failed).
PriorView ==
  [vid |-> NumNodes, nFailed |-> 0, iKnowIAmLeader |-> FALSE,
   members |-> [m \in 0..NumNodes-2 |-> IF m < PriorCrash THEN m ELSE m + 1],
   failed |-> [m \in 0..NumNodes-2 |-> FALSE]]

PriorRow ==
  [InitGmsRow EXCEPT !.changes[(NumNodes - 1) % MaxMembers] = PriorCrash,
                     !.nChanges = NumNodes, !.nCommitted = NumNodes,
                     !.nAcked = NumNodes, !.vid = NumNodes]

Survivor(n) == PriorCrash # NoNode /\ n # PriorCrash /\ n \notin Joiners
\* A joiner has no view until join_existing returns.
NoView == [vid |-> 0, members |-> <<>>, failed |-> <<>>, nFailed |-> 0,
           iKnowIAmLeader |-> FALSE]
StartView(n) ==
  IF n \in Joiners THEN NoView
  ELSE IF Survivor(n)
  THEN [PriorView EXCEPT !.iKnowIAmLeader = (PriorView.members[0] = n)]
  ELSE [InitView EXCEPT !.iKnowIAmLeader = (n = 0)]

Init ==
  /\ status = [n \in Nodes |-> CASE n = PriorCrash -> "crashed"
                                [] n \in Joiners -> "joining"
                                [] OTHER -> "running"]
  /\ curr_view = [n \in Nodes |-> StartView(n)]
  /\ sst = [n \in Nodes |-> [r \in RanksOf(StartView(n)) |->
                               IF Survivor(n) THEN PriorRow ELSE InitGmsRow]]
  /\ frozen = [n \in Nodes |-> {}]
  /\ last_suspected = [n \in Nodes |-> [s \in Slots |-> Survivor(n) /\ s = PriorCrash]]
  /\ phase = [n \in Nodes |-> "normal"]
  /\ pc = [n \in Nodes |-> 1]
  /\ next_view = [n \in Nodes |-> StartView(n)]
  /\ new_row = [n \in Nodes |-> IF Survivor(n) THEN PriorRow ELSE InitGmsRow]
  /\ sent = [n \in Nodes |-> 0]
  /\ ragged = [n \in Nodes |-> {}]
  /\ installed = [n \in Nodes |->
                   IF n \in Joiners THEN {}
                   ELSE {<<InitView.vid, InitView.members>>} \cup
                        IF Survivor(n) THEN {<<PriorView.vid, PriorView.members>>} ELSE {}]
  /\ pending_joins = [n \in Nodes |-> <<>>]
  /\ joining_client_socket = [n \in Nodes |-> NoNode]
  /\ leader_socket = [n \in Nodes |-> NoNode]

-----------------------------------------------------------------------------
(* The SST a node currently writes: after transition_sst_and_rdmc it is    *)
(* the SST of next_view, before that the SST of curr_view.                  *)

SSTVid(n) == IF phase[n] = "sync" THEN next_view[n].vid ELSE curr_view[n].vid
OwnRow(n) == IF phase[n] = "sync" THEN new_row[n] ELSE MyRow(n)
\* n's row in the SST of view vid: the old SST keeps the last row n wrote
\* there until n swaps views.
RowIn(n, vid) == IF curr_view[n].vid = vid THEN MyRow(n) ELSE new_row[n]
HasRowIn(n, vid) == curr_view[n].vid = vid \/ SSTVid(n) = vid
Running(n) == status[n] = "running"
\* The old SST's predicates stay registered until the globalMin continuation.
OldSSTLive(n) == phase[n] \in {"normal", "meta_wait", "gm_wait"}

\* The predicates registered on the old SST, in registration order; the
\* predicate thread evaluates them one after the other, and rows arrive
\* between two evaluations.  Where no node joins, start_join_pred is false
\* throughout and evaluating it changes nothing: it is left out.
JoinPreds == IF Joiners = {} THEN <<>> ELSE <<"start_join">>
PredList(ph) ==
  CASE ph = "normal"    -> <<"suspected_changed">> \o JoinPreds \o
                           <<"change_commit_ready", "leader_proposed_change",
                             "leader_committed_next_view">>
    [] ph = "meta_wait" -> <<"suspected_changed", "is_meta_wedged">>
    [] ph = "gm_wait"   -> <<"suspected_changed", "leader_globalMin_is_ready">>
    [] OTHER            -> <<>>
Evaluating(n, name) == OldSSTLive(n) /\ PredList(phase[n])[pc[n]] = name
\* After a trigger that leaves the phase alone the thread moves on; one that
\* changes the predicate list starts over at its head.
AdvancePc(n) == pc' = [pc EXCEPT ![n] = (@ % Len(PredList(phase[n]))) + 1]
ResetPc(n) == pc' = [pc EXCEPT ![n] = 1]

\* SST::put: the latest row of q reaches p's copy, unless p froze it.  A
\* crashed node's last writes may still land.
Put(q, p) ==
  LET r == RankOf(curr_view[p], q) IN
  /\ Running(p) /\ OldSSTLive(p) /\ q # p
  /\ HasRowIn(q, curr_view[p].vid)
  /\ r # -1 /\ r \notin frozen[p]
  /\ sst[p][r] # RowIn(q, curr_view[p].vid)
  /\ sst' = [sst EXCEPT ![p][r] = RowIn(q, curr_view[p].vid)]
  /\ UNCHANGED <<joinVars, pc, status, curr_view, frozen, last_suspected, phase, next_view,
                 new_row, sent, ragged, installed>>

\* The nodes that stopped on their own, bounded by MaxCrashes.
Stopped == {m \in Nodes : status[m] \in {"crashed", "left"}}

\* A node stops: its process crashes.
Crash(n) ==
  /\ n \in Crashable /\ Running(n)
  /\ Cardinality(Stopped) < MaxCrashes
  /\ status' = [status EXCEPT ![n] = "crashed"]
  /\ UNCHANGED <<joinVars, pc, curr_view, sst, frozen, last_suspected, phase, next_view,
                 new_row, sent, ragged, installed>>

\* report_failure: the SST's failure upcall names a node that has stopped;
\* the node marks it suspected and shuts down if suspicions reach a
\* majority, else puts its row.
ReportFailure(n, who) ==
  LET v == curr_view[n]
      r == RankOf(v, who)
      row == [MyRow(n) EXCEPT !.suspected = @ \cup {r}]
  IN
  /\ Running(n) /\ status[who] \in {"crashed", "terminated"}
  /\ r # -1 /\ r \notin MyRow(n).suspected
  /\ sst' = [sst EXCEPT ![n][MyRank(n)] = row]
  /\ status' = [status EXCEPT ![n] =
                  IF Cardinality(row.suspected \cap RanksOf(v)) >= Majority(v)
                  THEN "terminated" ELSE @]
  /\ UNCHANGED <<joinVars, pc, curr_view, frozen, last_suspected, phase, next_view,
                 new_row, sent, ragged, installed>>

\* leave: the node wedges its delivery engine, deletes all its predicates,
\* suspects itself in its row of the SST it writes (the old one, in the
\* middle of a view change) and puts the row.  Its process stays up, so the
\* failure detector has nothing to report; the others learn of the leave
\* from the row alone.
Leave(n) ==
  LET row == [MyRow(n) EXCEPT !.suspected = @ \cup {MyRank(n)}] IN
  /\ n \in Leavers /\ Running(n)
  /\ Cardinality(Stopped) < MaxCrashes
  /\ sst' = [sst EXCEPT ![n][MyRank(n)] = row]
  /\ status' = [status EXCEPT ![n] = "left"]
  /\ UNCHANGED <<joinVars, pc, curr_view, frozen, last_suspected, phase, next_view,
                 new_row, sent, ragged, installed>>

\* A crashable node may also crash in the middle of the globalMin
\* continuation, between its cleanup and transition_sst_and_rdmc.
CrashOutcomes(n) ==
  {TRUE} \cup (IF n \in Crashable /\ Cardinality(Stopped) < MaxCrashes
               THEN {FALSE} ELSE {})

-----------------------------------------------------------------------------
(* suspected_changed / suspected_changed_trig                               *)

\* suspected_not_equal: some row suspects a rank last_suspected does not.
SuspectedNotEqual(n) ==
  \E r, who \in RanksOf(curr_view[n]) :
    who \in sst[n][r].suspected /\ ~last_suspected[n][who]

\* The loop over q of suspected_changed_trig, one rank at a time.  st holds
\* the row, the view, the frozen rows and whether the node shut down.
RECURSIVE MarkFailed(_, _, _)
MarkFailed(n, st, q) ==
  LET v == st.view
      me == MyRank(n)
      row1 == [st.row EXCEPT !.wedged = TRUE]
      v1 == [v EXCEPT !.failed[q] = TRUE, !.nFailed = @ + 1]
      st1 == [st EXCEPT !.row = row1, !.view = v1, !.frozen = @ \cup {q}]
      propose == RankOfLeader(v1) = me /\ ~ChangesContains(row1, v.members[q])
      full == row1.nChanges - row1.nCommitted = MaxMembers
      row2 == [row1 EXCEPT !.changes[row1.nChanges % MaxMembers] = v.members[q],
                           !.nChanges = @ + 1]
      st2 == IF ~propose THEN st1
             ELSE IF full THEN [st1 EXCEPT !.dead = TRUE]
             ELSE [st1 EXCEPT !.row = row2]
  IN
  IF q >= NumMembers(v) \/ st.dead THEN st
  ELSE IF q \notin st.row.suspected \/ v.failed[q] THEN MarkFailed(n, st, q + 1)
  ELSE IF v.nFailed >= Majority(v) THEN [st EXCEPT !.dead = TRUE]
  ELSE IF v1.nFailed >= Majority(v1) THEN [st1 EXCEPT !.dead = TRUE]
  ELSE MarkFailed(n, st2, q + 1)

SuspectedChanged(n) ==
  LET v == curr_view[n]
      agg == MyRow(n).suspected \cup
             (UNION {sst[n][r].suspected : r \in RanksOf(v)} \cap RanksOf(v))
      st0 == [row |-> [MyRow(n) EXCEPT !.suspected = agg], view |-> v,
              frozen |-> frozen[n], dead |-> FALSE]
  IN
  /\ Running(n) /\ Evaluating(n, "suspected_changed")
  /\ SuspectedNotEqual(n)
  /\ AdvancePc(n)
  /\ \E st \in {MarkFailed(n, st0, 0)} :
       /\ sst' = [sst EXCEPT ![n][MyRank(n)] = st.row]
       /\ curr_view' = [curr_view EXCEPT ![n] = st.view]
       /\ frozen' = [frozen EXCEPT ![n] = st.frozen]
       /\ status' = [status EXCEPT ![n] = IF st.dead THEN "terminated" ELSE @]
       \* copy_suspected: the first get_num_rows entries only
       /\ last_suspected' = [last_suspected EXCEPT ![n] =
                               [s \in Slots |-> IF s \in RanksOf(v)
                                                THEN s \in st.row.suspected ELSE @[s]]]
  /\ UNCHANGED <<joinVars, phase, next_view, new_row, sent, ragged, installed>>

-----------------------------------------------------------------------------
(* Joins: the listener thread, start_join and receive_join                  *)

\* join_existing connects to leader_id; the client_listener_thread there
\* accepts and queues the socket on pending_joins.
Connect(j) ==
  /\ status[j] = "joining" /\ leader_socket[j] = NoNode
  /\ Running(LeaderId)
  /\ pending_joins' = [pending_joins EXCEPT ![LeaderId] = Append(@, j)]
  /\ leader_socket' = [leader_socket EXCEPT ![j] = LeaderId]
  /\ UNCHANGED <<joining_client_socket, status, curr_view, sst, frozen,
                 last_suspected, phase, pc, next_view, new_row, sent, ragged,
                 installed>>

\* start_join_pred: one join at a time, at the leader.
StartJoinPred(n) ==
  IAmLeader(n) /\ pending_joins[n] # <<>> /\ joining_client_socket[n] = NoNode

\* start_join_trig takes the first pending socket and runs receive_join:
\* with MAX_MEMBERS/2 changes pending it raises SIGSEGV; else it proposes
\* the joiner as the next change, wedges the view and puts the row.
StartJoin(n) ==
  LET j == Head(pending_joins[n])
      row == MyRow(n)
      row1 == [row EXCEPT !.changes[row.nChanges % MaxMembers] = j,
                          !.nChanges = @ + 1, !.wedged = TRUE]
  IN
  /\ Running(n) /\ Evaluating(n, "start_join")
  /\ StartJoinPred(n)
  /\ AdvancePc(n)
  /\ pending_joins' = [pending_joins EXCEPT ![n] = Tail(@)]
  /\ joining_client_socket' = [joining_client_socket EXCEPT ![n] = j]
  /\ IF row.nChanges - row.nCommitted = MaxMembers \div 2
     THEN /\ status' = [status EXCEPT ![n] = "terminated"]
          /\ UNCHANGED sst
     ELSE /\ sst' = [sst EXCEPT ![n][MyRank(n)] = row1]
          /\ UNCHANGED status
  /\ UNCHANGED <<leader_socket, curr_view, frozen, last_suspected, phase,
                 next_view, new_row, sent, ragged, installed>>

-----------------------------------------------------------------------------
(* Proposal, acknowledgement and commit                                     *)

\* change_commit_ready / commit_change: the leader commits what every
\* member not marked failed has acknowledged.
ChangeCommitReady(n) ==
  MyRank(n) = RankOfLeader(curr_view[n]) /\ MinAcked(n) > MyRow(n).nCommitted

CommitChange(n) ==
  /\ Running(n) /\ Evaluating(n, "change_commit_ready")
  /\ ChangeCommitReady(n)
  /\ AdvancePc(n)
  /\ sst' = [sst EXCEPT ![n][MyRank(n)].nCommitted = MinAcked(n)]
  /\ UNCHANGED <<joinVars, status, curr_view, frozen, last_suspected, phase, next_view,
                 new_row, sent, ragged, installed>>

\* wedge_view: the delivery engine stops sending and the row says wedged.
WedgeRow(row) == [row EXCEPT !.wedged = TRUE]

\* leader_proposed_change / ack_proposed_change: a follower echoes the
\* leader's change list and counters; every member acknowledges the
\* leader's nChanges and wedges.
\* Mutant: a follower acknowledges without echoing the leader's changes.
AckRowNoEcho(n) == [MyRow(n) EXCEPT !.nAcked = LeaderRow(n).nChanges]

AckRow(n) ==
  LET L == LeaderRow(n) IN
  IF MyRank(n) # RankOfLeader(curr_view[n])
  THEN [MyRow(n) EXCEPT !.changes = L.changes, !.nChanges = L.nChanges,
                        !.nCommitted = L.nCommitted, !.nAcked = L.nChanges]
  ELSE [MyRow(n) EXCEPT !.nAcked = L.nChanges]

LeaderProposedChange(n) == LeaderRow(n).nChanges > MyRow(n).nAcked

AckProposedChange(n) ==
  /\ Running(n) /\ Evaluating(n, "leader_proposed_change")
  /\ LeaderProposedChange(n)
  /\ AdvancePc(n)
  /\ sst' = [sst EXCEPT ![n][MyRank(n)] = WedgeRow(AckRow(n))]
  /\ UNCHANGED <<joinVars, status, curr_view, frozen, last_suspected, phase, next_view,
                 new_row, sent, ragged, installed>>

-----------------------------------------------------------------------------
(* leader_committed_next_view / start_view_change                           *)

\* The view start_view_change builds from change number vid: a member of
\* the view is removed, any other node id is appended.
\* Mutant: a removal erases the last member instead of the failed one.
NextViewDropsLast(v, id) ==
  LET who == RankOf(v, id)
      k == NumMembers(v)
  IN
  IF who # -1
  THEN [vid |-> v.vid + 1, nFailed |-> v.nFailed - 1,
        iKnowIAmLeader |-> v.iKnowIAmLeader,
        members |-> [m \in 0..k-2 |-> v.members[m]],
        failed |-> [m \in 0..k-2 |-> v.failed[m]]]
  ELSE [vid |-> v.vid + 1, nFailed |-> v.nFailed,
        iKnowIAmLeader |-> v.iKnowIAmLeader,
        members |-> [m \in 0..k |-> IF m < k THEN v.members[m] ELSE id],
        failed |-> [m \in 0..k |-> IF m < k THEN v.failed[m] ELSE FALSE]]

\* Mutant: a join puts the new node at rank 0 instead of appending it.
NextViewJoinFirst(v, id) ==
  LET who == RankOf(v, id)
      k == NumMembers(v)
      old(m) == IF m < who THEN m ELSE m + 1
  IN
  IF who # -1
  THEN [vid |-> v.vid + 1, nFailed |-> v.nFailed - 1,
        iKnowIAmLeader |-> v.iKnowIAmLeader,
        members |-> [m \in 0..k-2 |-> v.members[old(m)]],
        failed |-> [m \in 0..k-2 |-> v.failed[old(m)]]]
  ELSE [vid |-> v.vid + 1, nFailed |-> v.nFailed,
        iKnowIAmLeader |-> v.iKnowIAmLeader,
        members |-> [m \in 0..k |-> IF m = 0 THEN id ELSE v.members[m - 1]],
        failed |-> [m \in 0..k |-> IF m = 0 THEN FALSE ELSE v.failed[m - 1]]]

NextView(v, id) ==
  LET who == RankOf(v, id)
      k == NumMembers(v)
      old(m) == IF m < who THEN m ELSE m + 1
  IN
  IF who # -1
  THEN [vid |-> v.vid + 1, nFailed |-> v.nFailed - 1,
        iKnowIAmLeader |-> v.iKnowIAmLeader,
        members |-> [m \in 0..k-2 |-> v.members[old(m)]],
        failed |-> [m \in 0..k-2 |-> v.failed[old(m)]]]
  ELSE [vid |-> v.vid + 1, nFailed |-> v.nFailed,
        iKnowIAmLeader |-> v.iKnowIAmLeader,
        members |-> [m \in 0..k |-> IF m < k THEN v.members[m] ELSE id],
        failed |-> [m \in 0..k |-> IF m < k THEN v.failed[m] ELSE FALSE]]

LeaderCommittedNextView(n) == LeaderRow(n).nCommitted > curr_view[n].vid

StartViewChange(n) ==
  LET v == curr_view[n]
      nv == NextView(v, MyRow(n).changes[v.vid % MaxMembers])
  IN
  /\ Running(n) /\ Evaluating(n, "leader_committed_next_view")
  /\ LeaderCommittedNextView(n)
  /\ ResetPc(n)
  /\ sst' = [sst EXCEPT ![n][MyRank(n)] = WedgeRow(@)]
  /\ next_view' = [next_view EXCEPT ![n] = nv]
  /\ phase' = [phase EXCEPT ![n] = "meta_wait"]
  /\ status' = [status EXCEPT ![n] = IF RankOf(nv, n) = -1 THEN "terminated" ELSE @]
  /\ UNCHANGED <<joinVars, curr_view, frozen, last_suspected, new_row, sent, ragged,
                 installed>>

-----------------------------------------------------------------------------
(* Ragged-edge cleanup                                                      *)

\* Copy the first num_members entries of a vector (gmssst::set with count).
CopyPrefix(dst, src, k) == [s \in Slots |-> IF s < k THEN src[s] ELSE dst[s]]

\* leader_ragged_edge_cleanup: adopt the globalMin of the first row that is
\* ready, or else take, per sender, the least nReceived over all rows.
\* Failed rows take part: the "!Vc.failed[r]" test is commented out.
LeaderCleanupRow(n) ==
  LET v == curr_view[n]
      row == MyRow(n)
      ready == {r \in RanksOf(v) : sst[n][r].globalMinReady}
      computed == [s \in Slots |->
                    IF s \in RanksOf(v)
                    THEN Min({row.nReceived[s]} \cup
                             {sst[n][r].nReceived[s] : r \in RanksOf(v)})
                    ELSE row.globalMin[s]]
      gm == IF ready # {}
            THEN CopyPrefix(row.globalMin, sst[n][Min(ready)].globalMin,
                            NumMembers(v))
            ELSE computed
  IN [row EXCEPT !.globalMin = gm, !.globalMinReady = TRUE]

\* Per sender, the least nReceived over the rows not marked failed: what
\* every member that survives the view change has received.
SurvivorMin(n) ==
  LET v == curr_view[n]
      live == {r \in RanksOf(v) : ~v.failed[r]}
  IN [s \in RanksOf(v) |-> Min({sst[n][r].nReceived[s] : r \in live})]

\* Mutant: the follower echoes the leader's nReceived, not its globalMin.
FollowerCleanupRowLeaderCounts(n) ==
  [MyRow(n) EXCEPT !.globalMin = CopyPrefix(@, LeaderRow(n).nReceived,
                                             NumMembers(curr_view[n])),
                   !.globalMinReady = TRUE]

\* follower_ragged_edge_cleanup: echo the leader's globalMin.
FollowerCleanupRow(n) ==
  [MyRow(n) EXCEPT !.globalMin = CopyPrefix(@, LeaderRow(n).globalMin,
                                             NumMembers(curr_view[n])),
                   !.globalMinReady = TRUE]

\* Mutant: commit_join runs when the change removes a failed member.
CommitsJoinOnFailure(n) ==
  LET v == curr_view[n] IN
  IAmLeader(n) /\ RankOf(v, MyRow(n).changes[v.vid % MaxMembers]) # -1

\* "curr_view->IAmLeader() && !failed": the leader's change adds a node,
\* whoFailed being the rank start_view_change found for change number vid.
CommitsJoin(n) ==
  LET v == curr_view[n] IN
  IAmLeader(n) /\ RankOf(v, MyRow(n).changes[v.vid % MaxMembers]) = -1

\* The view a joiner builds in join_existing from what commit_join writes:
\* vid, members and failed; nFailed is recounted from failed and the
\* joiner does not know itself leader.
JoinView(v) ==
  [v EXCEPT !.iKnowIAmLeader = FALSE,
            !.nFailed = Cardinality({r \in RanksOf(v) : v.failed[r]})]

\* The globalMin continuation up to sync_with_members: ragged_edge_cleanup,
\* deliver_in_order (recorded in ragged), commit_join, removal of the old
\* SST's predicates and transition_sst_and_rdmc, which builds n's row of
\* the new SST from its old one.  commit_join: a leader whose change adds
\* a node writes the new view to joining_client_socket, whoever waits on
\* it, and empties the socket.  join_existing returns at that joiner, which
\* builds the SST of the view it read (fresh rows, setup_sst_and_rdmc) and
\* goes to sync_with_members; a view without it leaves it no rank.
\* survives = FALSE: n crashes after its cleanup row and commit_join went
\* out but before transition_sst_and_rdmc built its row of the new SST.
CleanupAndTransition(n, survives) ==
  LET v == curr_view[n]
      nv == next_view[n]
      row == IF IAmLeader(n) THEN LeaderCleanupRow(n) ELSE FollowerCleanupRow(n)
      computes == IAmLeader(n) /\ ~\E r \in RanksOf(v) : sst[n][r].globalMinReady
      floor == IF computes THEN SurvivorMin(n) ELSE [s \in RanksOf(v) |-> 0]
      commits == CommitsJoin(n)
      j == joining_client_socket[n]
      hears == commits /\ j # NoNode /\ status[j] = "joining" /\ leader_socket[j] = n
  IN
  /\ sst' = [sst EXCEPT ![n][MyRank(n)] = row]
  /\ ragged' = [ragged EXCEPT ![n] =
                  @ \cup {<<v.vid, [r \in RanksOf(v) |-> row.globalMin[r]], floor>>}]
  /\ joining_client_socket' = IF commits THEN [joining_client_socket EXCEPT ![n] = NoNode]
                             ELSE joining_client_socket
  /\ LET nr == IF survives THEN [new_row EXCEPT ![n] = InitFromExisting(row, nv.vid)]
               ELSE new_row
         ph == IF survives THEN [phase EXCEPT ![n] = "sync"] ELSE phase
         st == IF survives THEN status ELSE [status EXCEPT ![n] = "crashed"]
     IN IF hears
        THEN /\ new_row' = [nr EXCEPT ![j] = InitRow(nv.vid)]
             /\ phase' = [ph EXCEPT ![j] = "sync"]
             /\ next_view' = [next_view EXCEPT ![j] = JoinView(nv)]
             /\ status' = [st EXCEPT ![j] =
                             IF RankOf(nv, j) = -1 THEN "terminated" ELSE "running"]
        ELSE /\ new_row' = nr
             /\ phase' = ph
             /\ status' = st
             /\ UNCHANGED next_view
  /\ UNCHANGED <<pending_joins, leader_socket>>

\* is_meta_wedged / meta_wedged_continuation: the leader goes straight on;
\* a follower waits for the leader's globalMinReady.
IsMetaWedged(n) ==
  \A r \in RanksOf(curr_view[n]) : curr_view[n].failed[r] \/ sst[n][r].wedged

MetaWedged(n) ==
  /\ Running(n) /\ Evaluating(n, "is_meta_wedged")
  /\ IsMetaWedged(n)
  /\ ResetPc(n)
  /\ IF IAmLeader(n)
     THEN \E survives \in CrashOutcomes(n) : CleanupAndTransition(n, survives)
     ELSE /\ phase' = [phase EXCEPT ![n] = "gm_wait"]
          /\ UNCHANGED <<joinVars, sst, ragged, new_row, status, next_view>>
  /\ UNCHANGED <<curr_view, frozen, last_suspected, sent, installed>>

\* leader_globalMin_is_ready / globalMin_ready_continuation.
LeaderGlobalMinIsReady(n) == LeaderRow(n).globalMinReady

GlobalMinReady(n) ==
  /\ Running(n) /\ Evaluating(n, "leader_globalMin_is_ready")
  /\ LeaderGlobalMinIsReady(n)
  /\ ResetPc(n)
  /\ \E survives \in CrashOutcomes(n) : CleanupAndTransition(n, survives)
  /\ UNCHANGED <<curr_view, frozen, last_suspected, sent, installed>>

-----------------------------------------------------------------------------
(* sync_with_members and the swap to the new view                           *)

\* IAmTheNewLeader: the lowest unfailed rank of the new view, which did not
\* know it led before.
IAmTheNewLeader(v, me) == ~v.iKnowIAmLeader /\ RankOfLeader(v) = me

\* merge_changes: the new leader adopts the longest change list among the
\* rows not marked failed.
MergeChanges(rows, v, me) ==
  LET live == {r \in RanksOf(v) : ~v.failed[r]}
      best == CHOOSE r \in live : \A r2 \in live : rows[r2].nChanges <= rows[r].nChanges
  IN [rows[me] EXCEPT !.changes = rows[best].changes,
                      !.nChanges = rows[best].nChanges]

\* Mutant: the rows frozen in the old SST stay frozen in the new one.
FrozenAfterInstallKept(n) ==
  frozen[n] \cup {r \in RanksOf(next_view[n]) : next_view[n].failed[r]}

\* The new SST is built with the failed vector of the new view: those rows
\* start frozen, and only those.
FrozenAfterInstall(n) == {r \in RanksOf(next_view[n]) : next_view[n].failed[r]}

\* Once every unfailed member of the next view has put its new row
\* (sync_with_members), the node swaps curr_view, re-registers the
\* predicates and, as a new leader, merges the change lists.  The rows of
\* members still to put keep the SST's initial contents.
InstallView(n) ==
  LET nv == next_view[n]
      me == RankOf(nv, n)
      rows0 == [r \in RanksOf(nv) |->
                 LET m == nv.members[r] IN
                 IF m = n THEN new_row[n]
                 ELSE IF SSTVid(m) = nv.vid THEN OwnRow(m) ELSE InitRow(nv.vid)]
      lead == IAmTheNewLeader(nv, me)
      \* a joiner, after the barrier, copies the leader's counters
      \* (init_from_existing in the constructor) before it registers
      rows == CASE lead -> [rows0 EXCEPT ![me] = MergeChanges(rows0, nv, me)]
                [] installed[n] = {} ->
                     [rows0 EXCEPT ![me] = InitFromExisting(rows0[RankOfLeader(nv)], nv.vid)]
                [] OTHER -> rows0
  IN
  /\ Running(n) /\ phase[n] = "sync"
  /\ \A r \in RanksOf(nv) :
       nv.failed[r] \/ (nv.members[r] \in Nodes /\ SSTVid(nv.members[r]) >= nv.vid)
  /\ curr_view' = [curr_view EXCEPT ![n] =
                     IF lead THEN [nv EXCEPT !.iKnowIAmLeader = TRUE] ELSE nv]
  /\ sst' = [sst EXCEPT ![n] = rows]
  /\ frozen' = [frozen EXCEPT ![n] = FrozenAfterInstall(n)]
  /\ phase' = [phase EXCEPT ![n] = "normal"]
  /\ ResetPc(n)
  /\ sent' = [sent EXCEPT ![n] = 0]
  /\ installed' = [installed EXCEPT ![n] = @ \cup {<<nv.vid, nv.members>>}]
  /\ UNCHANGED <<joinVars, status, last_suspected, next_view, new_row, ragged>>

-----------------------------------------------------------------------------
(* Messages, as far as ragged-edge cleanup sees them                        *)

\* ManagedGroup::send: a multicast starts only while the view is not wedged.
Multicast(n) ==
  /\ n \in Senders /\ curr_view[n].vid = InitView.vid
  /\ Running(n) /\ phase[n] = "normal"
  /\ ~MyRow(n).wedged
  /\ sent[n] < MaxMsgs
  /\ sent' = [sent EXCEPT ![n] = @ + 1]
  /\ UNCHANGED <<joinVars, pc, status, curr_view, sst, frozen, last_suspected, phase,
                 next_view, new_row, ragged, installed>>

\* The delivery engine counts a message of sender k received in nReceived;
\* receives in flight complete after the wedge, until the engine is retired.
ReceiveMsg(p, k) ==
  LET r == RankOf(curr_view[p], k) IN
  /\ Running(p) /\ OldSSTLive(p)
  /\ r # -1 /\ curr_view[k].vid = curr_view[p].vid
  /\ MyRow(p).nReceived[r] < sent[k]
  /\ sst' = [sst EXCEPT ![p][MyRank(p)].nReceived[r] = @ + 1]
  /\ UNCHANGED <<joinVars, pc, status, curr_view, frozen, last_suspected, phase, next_view,
                 new_row, sent, ragged, installed>>

-----------------------------------------------------------------------------

\* The predicate the thread evaluates is false: it moves on to the next.
PredicateHolds(n) ==
  CASE Evaluating(n, "suspected_changed")          -> SuspectedNotEqual(n)
    [] Evaluating(n, "start_join")                 -> StartJoinPred(n)
    [] Evaluating(n, "change_commit_ready")        -> ChangeCommitReady(n)
    [] Evaluating(n, "leader_proposed_change")     -> LeaderProposedChange(n)
    [] Evaluating(n, "leader_committed_next_view") -> LeaderCommittedNextView(n)
    [] Evaluating(n, "is_meta_wedged")             -> IsMetaWedged(n)
    [] Evaluating(n, "leader_globalMin_is_ready")  -> LeaderGlobalMinIsReady(n)

SkipPredicate(n) ==
  /\ Running(n) /\ OldSSTLive(n)
  /\ ~PredicateHolds(n)
  /\ AdvancePc(n)
  /\ UNCHANGED <<joinVars, status, curr_view, sst, frozen, last_suspected, phase,
                 next_view, new_row, sent, ragged, installed>>

\* The steps of n's SST predicate thread.
PredicateThread(n) ==
  \/ SuspectedChanged(n) \/ StartJoin(n) \/ CommitChange(n) \/ AckProposedChange(n)
  \/ StartViewChange(n) \/ MetaWedged(n) \/ GlobalMinReady(n)
  \/ InstallView(n) \/ SkipPredicate(n)

Next ==
  \/ \E n \in Nodes : PredicateThread(n) \/ Crash(n) \/ Leave(n) \/ Multicast(n)
  \/ \E j \in Joiners : Connect(j)
  \/ \E p, q \in Nodes : Put(q, p) \/ ReportFailure(p, q) \/ ReceiveMsg(p, q)

\* Each predicate thread keeps evaluating, puts are eventually delivered and
\* the failure detector eventually reports every stopped node.
Fairness ==
  /\ \A n \in Nodes : WF_vars(PredicateThread(n))
  /\ \A j \in Joiners : WF_vars(Connect(j))
  /\ \A p, q \in Nodes : WF_vars(Put(q, p)) /\ WF_vars(ReportFailure(p, q))

Spec == Init /\ [][Next]_vars /\ Fairness

-----------------------------------------------------------------------------
(* Properties                                                               *)

TypeOK ==
  /\ status \in [Nodes -> {"joining", "running", "crashed", "left", "terminated"}]
  /\ phase \in [Nodes -> {"normal", "meta_wait", "gm_wait", "sync"}]
  /\ \A n \in Nodes : /\ DOMAIN sst[n] = RanksOf(curr_view[n])
                      /\ \A r \in DOMAIN sst[n] : sst[n][r] \in Row
                      /\ new_row[n] \in Row
                      /\ frozen[n] \subseteq RanksOf(curr_view[n])
  /\ last_suspected \in [Nodes -> [Slots -> BOOLEAN]]
  /\ sent \in [Nodes -> 0..MaxMsgs]

\* The views a node has installed, and the one it has computed and is
\* changing to.
ViewsOf(n) ==
  installed[n] \cup
  (IF phase[n] = "normal" THEN {} ELSE {<<next_view[n].vid, next_view[n].members>>})

\* View agreement: two nodes never settle on different member lists for
\* the same vid.  start_view_change reads change number vid from the
\* node's own copy of the change list, which followers echo from the
\* leader before acknowledging, and the leader commits only what every
\* unfailed member has acknowledged.
ViewAgreement ==
  \A n, m \in Nodes : \A a \in ViewsOf(n), b \in ViewsOf(m) :
    a[1] = b[1] => a[2] = b[2]

\* deliver_in_order hands the engine each node's cutoff as the last index
\* to deliver from each sender, so a cleanup never takes a cutoff beyond
\* what the node itself has received: the leader computes it from its
\* copies of the other rows, which may lag, and a follower takes it over
\* from the leader's row.
RaggedCutoffReceived ==
  [][\A n \in Nodes : \A a \in ragged'[n] \ ragged[n] :
       \A s \in DOMAIN a[2] : a[2][s] <= MyRow(n).nReceived[s]]_vars

\* Ragged-edge cleanup keeps what the survivors hold: a leader that computes
\* the cutoffs does not cut below a message that every member not marked
\* failed has received (leader_ragged_edge_cleanup).
RaggedEdgeKeepsSurvivorMessages ==
  \A n \in Nodes : \A a \in ragged[n] : \A s \in DOMAIN a[2] : a[2][s] >= a[3][s]

\* The partition detector counts right: a running node's nFailed is the
\* number of members its view marks failed.
NFailedCounts ==
  \A n \in Nodes : Running(n) =>
    curr_view[n].nFailed = Cardinality({r \in RanksOf(curr_view[n]) : curr_view[n].failed[r]})

\* Every node that crashes or leaves is eventually removed from the view of
\* every node that keeps running: a crash through report_failure, a leave
\* through the self-suspicion in the leaver's row.  Stopping is permanent,
\* a joiner's id is never that of a removed node and a node out of a view
\* stays out, so both sides of "stopped ~> removed" are stable and the
\* leads-to is the same as: infinitely often, every stopped node is out of
\* every running node's view.
StoppedEventuallyRemoved ==
  []<>(\A c \in Stopped :
         \A n \in Nodes : ~Running(n) \/ RankOf(curr_view[n], c) = -1)

\* A join completes: a node whose connection the leader's listener thread
\* accepted eventually runs, past sync_with_members, in a view that lists
\* it.  The leader proposes it in receive_join, and commit_join sends it the
\* committed view before the leader's own transition.
JoinCompletes ==
  \A j \in Joiners :
    leader_socket[j] # NoNode ~>
      (Running(j) /\ phase[j] = "normal" /\ RankOf(curr_view[j], j) # -1)

\* A joiner the barrier waits for is never abandoned: while a running node
\* waits in sync_with_members for a view listing a joiner as unfailed, and
\* the joiner has not heard of it, some running node still holds the
\* joiner's socket, pending or being joined, and so can send it the view.
\* Only commit_join at the node holding joining_client_socket tells a joiner
\* its view; otherwise the barrier waits for ever.
JoinerNotAbandoned ==
  \A j \in Joiners :
    (/\ status[j] = "joining"
     /\ \E n \in Nodes : /\ Running(n) /\ phase[n] = "sync"
                         /\ RankOf(next_view[n], j) # -1
                         /\ ~next_view[n].failed[RankOf(next_view[n], j)])
    => \E m \in Nodes : Running(m) /\ (joining_client_socket[m] = j \/ j \in Range(pending_joins[m]))

\* A follower waiting in leader_globalMin_is_ready does not wait on itself:
\* the predicate reads the row of rank_of_leader(), which moves to this node
\* when suspected_changed marks the old leader failed, and only the leader's
\* own cleanup sets its globalMinReady.
LeaderNotWaitingOnItself ==
  \A n \in Nodes :
    ~(Running(n) /\ phase[n] = "gm_wait" /\ IAmLeader(n) /\ ~MyRow(n).globalMinReady)

\* sync_with_members (line 478) does not wait on a member that has stopped
\* without setting up the new SST and is not marked failed in the next view:
\* a node past its cleanup no longer evaluates suspected_changed, so nothing
\* would ever release it.
BarrierNotWaitingOnStopped ==
  \A n \in Nodes :
    (Running(n) /\ phase[n] = "sync") =>
      \A r \in RanksOf(next_view[n]) :
        LET m == next_view[n].members[r] IN
        next_view[n].failed[r] \/ m \notin Stopped \/ SSTVid(m) >= next_view[n].vid

\* Every wait of the view change can end: the barrier does not wait on an
\* abandoned joiner or on a member that stopped before the new SST, and no
\* node waits in gm_wait for a ready flag only it could set.
ViewChangeWaitsCanEnd ==
  JoinerNotAbandoned /\ LeaderNotWaitingOnItself /\ BarrierNotWaitingOnStopped


-----------------------------------------------------------------------------
(* Refinement of the abstract membership service, GroupMembership          *)

\* A member list, rank r at position r + 1.
MemberSeq(ms) == [i \in 1..Cardinality(DOMAIN ms) |-> ms[i - 1]]

\* The group's views are those some node installed; a node is at the last
\* view it installed; crashed, departed and shut-down nodes have stopped.
GM == INSTANCE GroupMembership WITH
  InitVid <- InitView.vid,
  InitMembers <- MemberSeq(InitView.members),
  views <- {<<v[1], MemberSeq(v[2])>> : v \in UNION {installed[n] : n \in Nodes}},
  cur <- [n \in Nodes |-> IF installed[n] = {} THEN -1
                          ELSE Max({v[1] : v \in installed[n]})],
  stopped <- {n \in Nodes : status[n] \in {"crashed", "left", "terminated"}}

(* Every step of the GMS is a step of GroupMembership or leaves it         *)
(* unchanged: however suspicions, proposals, acks, puts and crashes         *)
(* interleave, a node installs the view numbered one past its last, that   *)
(* view lists it, every node that installs a vid gets the same members,    *)
(* and each view differs from the one before it by the removal of a node   *)
(* that stopped or the addition of one new node (spec.md 8).               *)
ViewSequenceRefinement == GM!Init /\ [][GM!Next]_GM!vars

=============================================================================
