# TLA+ models of old-derecho

This directory holds TLA+ models of the two concurrent components of the
repository: the ordered multicast engine (`src/derecho_group.cpp`) and the
group-membership service (`src/managed_group_impl.h`). It also holds the TLC
configurations that check them. `PROJECT.json` lists these:

- the components;
- every run;
- the mutants that show each checked property can fail;
- the map from each TLA+ definition to the source lines it translates;
- the findings;
- the hazards of the code.

## The system and how its parts interact

| Part | Source | What it does |
|------|--------|--------------|
| DerechoGroup | `src/derecho_group.cpp` | The delivery engine of one view. Each member has a ring buffer per sender. The application reserves space with `get_position` and commits with `send`. A send worker thread (`send_loop`) hands committed messages to RDMC when the window allows. RDMC completion callbacks record received messages. The shared-state table (SST) carries `seq_num`, `stable_num` and `delivered_num`. Three SST predicates run on the SST predicate thread: stability, delivery in total order `index*N + rank`, and window advance. |
| ManagedGroup | `src/managed_group_impl.h` | The group-membership service (GMS). It carries a GMS SST with the columns `suspected`, `changes`, `nChanges`, `nCommitted`, `nAcked`, `wedged`, `nReceived`, `globalMin` and `globalMinReady`. Its SST predicates do four things: suspect failures, propose, ack and commit membership changes, and run the view change. The view change is wedge, meta-wedged, ragged-edge cleanup, a new SST and DerechoGroup, and the `sync_with_members` barrier. The partition detector shuts a node down when half the view has failed. `report_failure` is the SST's failure callback. `send`/`get_sendbuffer_ptr` forward to the DerechoGroup. |
| managed_group.h | `src/managed_group.h` | Declarations only. |
| test_inheritance_plan | `src/test_inheritance_plan.cpp` | A compile-time test of RPC handler dispatch. |
| experiments | `src/experiments/*.cpp` | Persistence benchmark drivers that do file I/O. |

The two components interact through `nReceived`. The delivery engine's
receive path increments the GMS row's `nReceived[k]` for sender rank k. On a
view change, ragged-edge cleanup reads those counters to decide how many
messages of each sender are delivered before the old view ends.
`ManagedGroup` models the delivery engine at that interface (`Multicast`,
`ReceiveMsg`). `DerechoGroup` models the engine inside one view.

## Modules

### `DerechoGroup.tla` (with `MCDerechoGroup.tla`)

Constants:

- `N`: the members.
- `MaxMsgs`: messages per sender.
- `WindowSize`.
- `BufferSize`: in abstract units.
- `MsgSizes`.

Variables:

| Variable | Meaning |
|----------|---------|
| `next_message`, `pending_sends`, `start`, `end`, `future_message_index` | Sender-side state, as in the code. |
| `last_received_messages`, `locally_stable_messages` | Receiver-side state, as in the code. |
| `sst[p][q]` | p's copy of q's row. |
| `buffers` | Cell contents; they expose overwrites. |
| `next_message_to_deliver` | The window predicate's counter. |
| `worker` | The send thread's position: checking or blocked on `derecho_cv`. |
| `transmitted` | Messages passed to `rdmc::send`, per sender. |
| `reserved`, `delivered` | History variables, used only by the properties. |

Actions:

| Action | Code |
|--------|------|
| `GetPosition` | `get_position` |
| `Send` | `send` |
| `SendLoopCheck` / `SendLoopWait` | `send_loop` |
| `Receive(q, k)` | The RDMC receive callback, at member q, for sender k. |
| `Put(q, p)` | An SST put of q's row arriving at p. |
| `Stability`, `Delivery`, `WindowAdvance` | The three predicate triggers. |

`ReceivedSeqNum` is the code's walk that computes the largest contiguous
sequence number received. `SeqOf` is the total-order sequence number.
`Wrap` is the ring wrap-around.

`MCDerechoGroup` fixes `N = 2`, a ring of 4 units and messages of size 2.

The module ends with a refinement. `TOM` is `TotalOrderMulticast`
instantiated with this mapping:

- the abstract `sent[p]` is the number of messages p has passed to
  `rdmc::send` (`Len(transmitted[p])`);
- the abstract `delivered[p]` is the `<<sender, index>>` pairs p has delivered.

`TotalOrderRefinement` states that every step of the engine is a step of
`TOM!Next` or leaves the mapped state alone. `TotalOrderSpec` is `TOM!Spec`,
the abstract fairness included.

### `TotalOrderMulticast.tla`

This is what one view's delivery engine promises (spec.md 4.2 and 8).

- Members multicast messages numbered 0, 1, 2, ... per sender.
- Every member delivers them once each, in the total order
  `index * N + rank`.
- A member never delivers a message its sender has not multicast.
- `Deliver(p)` is weakly fair: a member whose next message in the order was
  multicast eventually delivers it.

It models the specification, not code, and has no entry in the map.

### `GroupMembership.tla`

This is what the membership service promises (spec.md 8, view-sequence
consistency). It models the specification, not code, and has no entry in
the map.

- The group moves through one sequence of views, numbered by `vid`.
- Each view follows the one before it by one change. Either a member that
  has stopped is removed, or a node that is not a member is appended.
- A node installs the views that list it in order, one `vid` after the
  other. A joiner starts at the first view that lists it.
- `Stop` adds nodes to `stopped`; a stopped node installs nothing.

`ManagedGroup` maps onto it (`GM`):

- `views` is the union of every node's `installed` history, with member
  lists turned into sequences (`MemberSeq`).
- `cur[n]` is the largest `vid` n installed, or -1.
- `stopped` is every node that crashed, left or shut down.

`ViewSequenceRefinement` states that every GMS step is a `GM!Next` step or
leaves the mapped state alone.

### `ManagedGroup.tla`

Constants:

- `NumNodes`: the initial view.
- `MaxMembers`: `View::MAX_MEMBERS`.
- `MaxCrashes`, `Crashable` and `Leavers`: which nodes may crash, which may
  call `leave()`, and how many may stop in all.
- `MaxMsgs` and `Senders`: application multicasts in the initial view.
- `PriorCrash`: a node the group has already removed, or `NoNode`.
- `NumJoiners`: nodes `NumNodes..` outside the initial view that ask to join
  it. They connect to `LeaderId = 0`, the fixed `leader_id` of the
  constructor.

Views are records `[vid, members, failed, nFailed, iKnowIAmLeader]`. `sst[n][r]`
is node n's copy of the row of rank r in n's current view.

`pc[n]` is the predicate thread's cursor. The thread evaluates the
registered predicates in registration order, and `SkipPredicate` moves the
cursor past a predicate that is false. This is what lets another node's puts
land between two predicates of the same pass.

`phase[n]` tracks the one-shot continuations of the view change:

| Phase | Meaning |
|-------|---------|
| `normal` | All GMS predicates are registered. |
| `meta_wait` | `start_view_change` ran; the node waits for meta-wedged. |
| `gm_wait` | A follower waits for the leader's `globalMinReady`. |
| `sync` | The node has its new SST and waits at `sync_with_members`. |

Actions, one per trigger:

| Action | Code |
|--------|------|
| `SuspectedChanged` | `suspected_changed_trig`: the partition checks and the changes-overflow check (recursive `MarkFailed`). |
| `CommitChange` | `commit_change` |
| `AckProposedChange` | `ack_proposed_change` |
| `StartViewChange` | `start_view_change` (`NextView` computes the next view) |
| `MetaWedged` | `meta_wedged_continuation`. The leader's branch runs the cleanup and the SST transition (`CleanupAndTransition`). A node in `Crashable` may instead crash after its cleanup row and `commit_join` went out, before `transition_sst_and_rdmc` (`CrashOutcomes`). |
| `GlobalMinReady` | The follower's continuation, with the same crash point. |
| `InstallView` | The barrier `sync_with_members`, then installing `next_view`, re-registering predicates and `merge_changes`. |
| `Crash` | A node failure. |
| `ReportFailure` | `report_failure`, the SST failure detector's callback. |
| `Put` | An SST put of q's row arriving at p. |
| `Multicast` | `send` |
| `ReceiveMsg` | The delivery engine's receive path, incrementing `nReceived`. |
| `Leave` | `leave()`. The node marks its own rank suspected in the row it writes (the old SST's row, if it is mid-change), puts the row and stops. Its process stays up, so the failure detector reports nothing. The others remove it through `suspected_changed`. |
| `Connect(j)` | The joiner's `join_existing` connects. The leader's `client_listener_thread` accepts the connection and appends it to `pending_joins`. |
| `StartJoin` | `start_join_trig` and `receive_join`. The leader pops the first pending socket into `joining_client_socket` and proposes the joiner as the next change, then wedges. With exactly `MAX_MEMBERS/2` changes pending it raises `SIGSEGV` instead (status `terminated`). |

The join handshake spans several of these actions:

- `start_join` is registered second, so it is the second predicate of the
  `normal` list. Where `NumJoiners = 0` it is left out: it is false
  throughout, and evaluating it would only move the cursor.
- The join change is acked, committed and started like any other change.
  `NextView` appends the node.
- `CleanupAndTransition` includes `commit_join`. When the leader's change
  adds a node (`CommitsJoin`, "`IAmLeader() && !failed`"), the leader writes
  the next view to `joining_client_socket` and empties it.
- The joiner is the node waiting on that socket. It reads the view
  (`JoinView`: `nFailed` recounted, not leader) and builds a fresh row of
  that view's SST. It then goes to `sync_with_members`, with phase `sync`.
- After the barrier, `InstallView` gives a first-time joiner
  `init_from_existing` from the leader's row, as the constructor does.

A put can still land in an SST the target is leaving, so rows of the old
SST remain writable until the node installs the new view. `frozen` holds
the ranks a node marked failed in its SST.

Several definitions come from code outside `src/`, and `PROJECT.json` marks
them `spec_modelled`:

| Definitions | Code |
|-------------|------|
| `RankOf`, `RankOfLeader`, `IAmLeader`, `NumMembers` | `View` |
| `InitFromExisting` | `gmssst::init_from_existing` |
| `WedgeRow` | `wedge_view` |
| `IAmTheNewLeader`, `MergeChanges` | Their namesakes. |
| `Put`, `RowIn`, `HasRowIn` | The SST library. |
| The predicate-loop cursor (`Evaluating`, `AdvancePc`, `SkipPredicate`) | The SST library's predicate loop. |

The initial state is the view after the startup joins: vid `NumNodes-1`,
the members in id order, and every node's row with `NumNodes-1` committed
changes. With `PriorCrash` set, the initial state is the one the group
reaches after removing that node:

- the survivors run view `NumNodes` with rows copied by `init_from_existing`;
- `last_suspected` still holds the old view's flags.

## Runs

| Run | Config | Expect | What it shows |
|-----|--------|--------|---------------|
| dg_order | `DerechoGroup_order.cfg` | pass | With 2 members, 2 messages each and window 1, every interleaving of the steps below is safe. The steps are reservation, commit, the send worker, RDMC completions, puts and predicate firings. `seq_num` is a received prefix. Stable means received everywhere. Delivery follows the total order and only delivers what every member received. A sender's second message can arrive before the other sender's first, so receives reach a member out of the total order. |
| dg_progress | `DerechoGroup_progress.cfg` | pass | With window 1, no sender has more than `window_size` undelivered messages in flight, and every transmitted message is eventually delivered at every member once every message before it in the total order has been transmitted. That is all `TotalOrderSpec` promises: a member that never sends stalls everyone else's deliveries, since nothing inserts null messages. |
| dg_ring | `DerechoGroup_ring.cfg` | violation | With 1 member, window 2 and messages of half the ring, `get_position` reserves a region that still holds an undelivered message. |
| dg_payload | `DerechoGroup_payload.cfg` | violation | Receivers write every message of a remote sender at offset `start[k]`, which they never advance. The second message overwrites the first before delivery. |
| dg_wakeup | `DerechoGroup_wakeup.cfg` | violation | `derecho_trig` calls `derecho_cv.notify_one()` without `msg_state_mtx`, so the worker can miss the wakeup. A committed message is then never transmitted. |
| gms_safety | `ManagedGroup_safety.cfg` | pass | With 3 members and any one crashing or leaving, any two nodes that compute or install a view with the same vid agree on its members. Under the fairness below, the stopped member is eventually out of every running node's view (`StoppedEventuallyRemoved`). Every step refines `GroupMembership` (`ViewSequenceRefinement`). No node skips a `vid`, and each view removes one stopped node. |
| gms_join | `ManagedGroup_join.cfg` | pass | Two members and one joiner. Every node settles on the same view for each vid. The joiner whose connection was accepted eventually runs in a view that lists it (`JoinCompletes`). The views refine `GroupMembership`: the joiner is appended, and it starts at the first view that lists it. |
| gms_joincrash | `ManagedGroup_joincrash.cfg` | violation | Three members and a joiner; the leader crashes right after `receive_join`. The followers have echoed the join change. The new leader commits it and runs `commit_join` on its own empty socket. The joiner never learns the view, and the survivors wait at the barrier for a member that never builds the new SST (line 460). `ViewChangeWaitsCanEnd` has three conjuncts. `JoinerNotAbandoned` is this barrier wait. `BarrierNotWaitingOnStopped` is the wait of line 478: the leader crashes after its cleanup and `commit_join` but before `transition_sst_and_rdmc`. The joiner, then every follower, waits in `sync_with_members` for the leader's row of the new SST. The leader is not marked failed in the new view, and no node past its cleanup evaluates `suspected_changed`. Checked alone, it is violated after 26 states. `LeaderNotWaitingOnItself` is the wait of line 513: a follower passes meta-wedged and waits on the leader's `globalMinReady`. It then marks the crashed leader failed and becomes `rank_of_leader()` itself, so it waits on its own row for ever. TLC reports the barrier wait because its trace is shorter (25 states). Checked alone under the same constants, `LeaderNotWaitingOnItself` is violated after 30 states. |
| gms_messages | `ManagedGroup_messages.cfg` | pass | With 3 members, member 2 multicasting once and the leader crashing, no node that runs ragged-edge cleanup takes a per-sender cutoff beyond what it has itself received (`RaggedCutoffReceived`). The new leader computes the cutoff from its copies of the other rows, which may lag, and a follower copies it from the leader's row. With one change, only the first leader computes, so the case where a new leader adopts a row that is already `globalMinReady` (line 863) is not reached; see below. |
| gms_nfailed | `ManagedGroup_nfailed.cfg` | violation | A follower can ack a proposal and then run `leader_committed_next_view` before `suspected_changed` for the same failure. It then computes `nFailed = Vc.nFailed - 1 = -1` (line 390). |
| gms_ragged | `ManagedGroup_ragged.cfg` | violation | The leader's `globalMin` includes the failed node's row, because the `!Vc.failed[r]` filter at line 874 is commented out. A message every survivor received is dropped. |
| gms_stale | `ManagedGroup_stale.cfg` | violation | `last_suspected` is indexed by rank and survives the view change. After node 1 is removed, node 2 inherits rank 1's `true` flag, so its crash never counts as a change. It is never removed. |

The findings in `PROJECT.json` state each violation against the code line
where it happens.

Every property of a passing run has a mutant in `PROJECT.json`: a plausible
bug in the mapped definition that TLC catches with the run's own config.

| Property | Mutant |
|----------|--------|
| `TotalOrderRefinement` | A sender-major sequence number. |
| `SeqNumIsReceivedPrefix` | A receive walk that does not step back. |
| `StableMeansReceivedEverywhere` | A stability bound that skips the last row. |
| `DeliveredMeansReceivedEverywhere` | Delivery bounded by the member's own `seq_num`. |
| `TypeOK` (dg_order) | A ring cursor that never wraps. |
| `WindowBound` | An off-by-one window. |
| `TotalOrderSpec` | A lagging receive count. |
| `ViewAgreement` | Acking without echoing the leader's changes. |
| `TypeOK` (gms_safety) | Frozen rows kept after install. |
| `RaggedCutoffReceived` | A follower that echoes the leader's `nReceived` instead of its `globalMin`. |
| `StoppedEventuallyRemoved` | `min_acked` over failed rows too. |
| `ViewAgreement` (gms_join) | Acking without echoing the leader's changes. |
| `JoinCompletes` | `commit_join` guarded by `failed` instead of `!failed`. |
| `ViewSequenceRefinement` (gms_safety) | A removal that erases the last member instead of the failed one. |
| `ViewSequenceRefinement` (gms_join) | A join that puts the new node at rank 0 instead of appending it. |

## Bounds and why they suffice

- **DerechoGroup.** Two members are enough to interleave two senders'
  messages in the total order. With two messages per sender and window 1,
  a sender's second message can overtake the other sender's first, so
  receives arrive out of the total order. The window-2 state space (1.3
  million states) is beyond the time budget of a passing run; window 2 is
  used by the payload run, which stops at its violation. A ring of 4 units with messages of 2 makes the buffer wrap
  within the bound. The ring run needs a single member with three
  reservations, which is the smallest case where the third reservation
  meets the first.
- **ManagedGroup.**
  - Three members and one crash cover every role that can fail: the
    leader, a follower, or the node that proposes. The state space is
    about 34,000 states with leaves.
  - Multicasts happen only in the initial view, and only from `Senders`.
    Ragged-edge cleanup only needs the counters at the moment of the
    change.
  - `PriorCrash` starts the stale run directly after a completed removal.
    Reaching that state by search would need four nodes and two full view
    changes, which is far outside TLC's time budget.
  - `Crashable` restricts which node may fail where a run is about one
    particular failure.
  - Joins:
    - One joiner exercises the whole handshake.
    - Without a crash, 2 members plus the joiner (1,010 states) are enough
      for every step of it to interleave with the puts and predicate passes
      of the members.
    - The leader-crash case needs 3 members. With 2, losing the leader
      loses the majority and the survivor shuts down.
    - The joincrash search stops at the first violation, in under a minute.
      Its full state space (millions of states) is beyond the time budget.

## Fairness

| Module | Weakly fair | Why the code justifies it |
|--------|-------------|---------------------------|
| DerechoGroup | Each member's send worker, RDMC completions and predicate thread, each as a whole. | Each is a thread that loops while it is not blocked. The application (`GetPosition`, `Send`) is not assumed to make progress. |
| ManagedGroup | Each node's predicate thread; the delivery of each put; each failure report; each joiner's connect. | The SST predicate thread evaluates its predicates in an endless loop. RDMA writes to a live node complete. The SST's failure detector reports a node whose writes fail. A joiner's constructor calls `join_existing` at once, and the listener thread loops on `accept`. |

No fairness is assumed for crashes, leaves or multicasts.

## What is not modelled

- **The bootstrap joins of `start_group`.** The leader's first `accept` in
  the constructor is abstracted: the initial state is the view after the
  startup joins. `InitView` numbers that view `NumNodes-1`, with one
  committed change for each of nodes 1..NumNodes-1. The code's bootstrap
  (lines 80-106) puts node 1 into view 0 without a change, so the code's
  numbers are one lower. Only differences of vids and change counts are
  compared, so the offset is invisible to every property, but the slots of
  `changes[]` that the committed entries occupy differ by one.
- **A second leader adopting a published cutoff.** `leader_ragged_edge_cleanup`
  adopts the `globalMin` of the first row that is already `globalMinReady`
  (line 863). That needs a leader to publish its cutoff and crash, and then
  a second change. With three members or a join this is beyond what TLC
  finishes within the run limits (a joiner variant of gms_messages passed 4M
  states without finishing). It is listed as a hazard with no property.
- **Merged steps.**
  - The joiner's `join_existing` is merged into the leader's `commit_join`
    step.
  - `SuspectedChanged` makes one put where the code makes two.
  - `InstallView` evaluates `merge_changes` before it registers the new
    view's predicates, while the code registers them at line 495, before
    line 502.
  The first two write only the node's own row or the joiner's socket, and
  no other node reads these before the step ends. The third leaves out one
  interleaving: a suspicion handled by the new predicates between lines 495
  and 502, before the new leader's `merge_changes`. It needs a second
  failure at the moment of a leader change, which is beyond the crash
  bounds of the runs.
- **A joiner's failed read.** When the leader dies mid-handshake, the
  joiner's `assert(success)` fails. The joiner simply stays `joining`. This
  changes nothing for the other nodes, which never hear from it either way.
- **Joiner id lookup.** `joiner_ip` and the lookup of the joiner's id in
  `member_ips_by_id` are abstracted: the joiner's id is known.
- **A leave during another change.** The one case where the others could
  miss a leave is a leave written to the old SST after they have moved to
  the new one. That needs a second change, and with three members two stops
  lose the majority. It is listed as a hazard.
- **The RPC wrappers** (`orderedSend`, `orderedQuery`, `p2pSend`,
  `p2pQuery`) and `barrier_sync`. They forward to the delivery engine's RPC
  layer, which is not in `src/`.
- **Persistence, logging, debug printing, the experiments, and the RPC
  handler test.** These are I/O or compile-time code.
- **Crash points inside a handler.** A crash is a step between two
  actions. The one exception is the globalMin continuation: a crash after
  its cleanup and `commit_join` and before the new SST exists is a distinct
  outcome (line 478), so it is modelled. Elsewhere a handler's writes
  reach other nodes only through later puts, so a crash inside it looks
  like a crash before or after it.
- **The unlocked `get_position`.** It reads `end` without `msg_state_mtx`
  while `delivery_trig` writes it (line 228). A stale `end` is an earlier
  consumer position, so it only makes the ring look fuller. The reset at
  line 221 runs only when `start == end`. Then no own message is undelivered
  unless the ring is full, and that full-ring case is what dg_ring already
  shows. `GetPosition` is therefore one step.
- **The old-view cleanup thread and the view upcalls.** They free the old
  view and set RDMC exceptions for removed nodes. No GMS state depends on
  them.
- **RDMC's block transfer.** A message arrives whole in one step. A torn
  write would need the transfer's block schedule, which is not in `src/`.

## Plan for further work

1. Reach `receive_join`'s `MAX_MEMBERS/2` test in a run. This needs a
   failure proposal pending while a join starts, which is joins and crashes
   together under a larger bound.
2. Reach the second-leader adoption case (line 863) with a state
   constraint that prunes behaviours with no crash after the first
   `globalMinReady`.
3. Check a leave written to the old SST while the others are already in the
   next view (`managed_group_impl.h:945`). This needs at least five members,
   so that a majority survives two stops.
