-------------------------- MODULE GroupMembership --------------------------
(***************************************************************************)
(* What the group-membership service promises (spec.md 8, view-sequence   *)
(* consistency): the group moves through one sequence of views, numbered  *)
(* by vid.  Each view follows the one before it by one change: a member   *)
(* that has stopped is removed, or a node that is not a member is added   *)
(* at the end.  A node installs the views that list it in that order, one *)
(* vid after the other, from the first view it is in; a joiner starts at  *)
(* whichever view first lists it.  Which node installs when is left open. *)
(***************************************************************************)
EXTENDS Integers, SequencesExt

CONSTANTS
  Nodes,        \* every node that is or may become a member
  InitVid,      \* vid of the view the group starts in
  InitMembers   \* its members, a sequence of distinct nodes

VARIABLES
  views,    \* the views some node installed: <<vid, members>>
  cur,      \* cur[n]: vid of the last view n installed, -1 before any
  stopped   \* the nodes that crashed, left or shut down

vars == <<views, cur, stopped>>

Init ==
  /\ views = {<<InitVid, InitMembers>>}
  /\ cur = [n \in Nodes |-> IF n \in Range(InitMembers) THEN InitVid ELSE -1]
  /\ stopped = {}

\* One or more nodes stop; a stopped node never comes back.
Stop ==
  /\ \E S \in SUBSET (Nodes \ stopped) : S # {} /\ stopped' = stopped \cup S
  /\ UNCHANGED <<views, cur>>

\* The member lists that may follow ms: a stopped member removed, or a
\* node outside it appended.
Successors(ms) ==
  {RemoveAt(ms, i) : i \in {i \in DOMAIN ms : ms[i] \in stopped}}
    \cup {Append(ms, j) : j \in Nodes \ Range(ms)}

\* n installs the view after w: the one the group already has with that
\* vid, or, if it is the first to install it, a successor of w's members.
\* n is a member of it and has installed w, unless it has installed none.
Install(n) ==
  \E w \in views :
    LET k == w[1] + 1 IN
    /\ n \notin stopped
    /\ cur[n] \in {w[1], -1}
    /\ \E ms \in Successors(w[2]) :
         /\ n \in Range(ms)
         /\ \A u \in views : u[1] = k => u[2] = ms
         /\ views' = views \cup {<<k, ms>>}
         /\ cur' = [cur EXCEPT ![n] = k]
    /\ UNCHANGED stopped

Next == Stop \/ \E n \in Nodes : Install(n)

Spec == Init /\ [][Next]_vars

TypeOK ==
  /\ cur \in [Nodes -> {-1} \cup Nat]
  /\ stopped \subseteq Nodes

=============================================================================
