---------------------------- MODULE SessionGraph ----------------------------
(***************************************************************************)
(* The history of a session as an event-sourced graph (src/src/graph).     *)
(*                                                                         *)
(* Nodes form a tree; a branch points to its newest node, and a branch     *)
(* that was forked starts at a node of another one.  Every operation       *)
(* changes the graph and records the event that repeats the change.        *)
(*                                                                         *)
(* A node is a number, in the order of creation.  Its time is a number     *)
(* too: that of the node, or less for a message that was made earlier      *)
(* than it was appended.  Of a payload the model keeps the ids of the tool *)
(* calls and of the tool results.                                          *)
(***************************************************************************)
EXTENDS Integers, Sequences, FiniteSets

CONSTANTS
    None,        \* the value that stands for Option::None
    Main,        \* the branch a session starts with
    Fork,        \* the branches fork_branch may make
    WalkLimit    \* MAX_WATERMARK_WALKBACK

ASSUME GraphAssumption ==
    /\ None \notin Nat /\ Main # None /\ None \notin Fork /\ Main \notin Fork
    /\ WalkLimit \in Nat \ {0}

VARIABLE g       \* the graph

Branch == Fork \cup {Main}
Kind == {"user", "assistant", "summary", "checkpoint"}
NodeId == Nat \ {0}
Call == NodeId \X NodeId
NodeRecord == [branch : Branch, parent : NodeId \cup {None}, at : Nat,
               patched : BOOLEAN, kind : Kind,
               calls : SUBSET Call, results : SUBSET Call]

\* f with x mapped to v, as HashMap::insert leaves it.
Put(f, x, v) == [y \in DOMAIN f \cup {x} |-> IF y = x THEN v ELSE f[y]]

\* The graph of a new session: its one branch is empty.
NewGraph == [nodes |-> << >>, marks |-> << >>, primary |-> Main, watermark |-> None,
             branches |-> [b \in {Main} |-> [head |-> None, forked |-> None]],
             events |-> << >>]

-----------------------------------------------------------------------------
(* What is read off a graph.                                               *)

\* branch_lineage_node_ids: the parents up to the root, the root first.
Lineage(h, b) ==
    LET up[n \in DOMAIN h.nodes] ==
            IF h.nodes[n].parent = None THEN <<n>>
                                        ELSE Append(up[h.nodes[n].parent], n)
    IN  IF b \notin DOMAIN h.branches \/ h.branches[b].head = None THEN << >>
        ELSE up[h.branches[b].head]

OnPrimary(h) == {n \in DOMAIN h.nodes : h.nodes[n].branch = h.primary}
CallsOf(h) == UNION {h.nodes[n].calls : n \in OnPrimary(h)}
ResultsOf(h) == UNION {h.nodes[n].results : n \in OnPrimary(h)}

\* GraphValidator::validate: a save or a load of a graph with an issue fails.
\* (A checkpoint and its node are one here.)
BranchValid(h, b) ==
    LET br == h.branches[b]
    IN  /\ br.forked # None => br.forked \in DOMAIN h.nodes
        /\ br.head # None => /\ br.head \in DOMAIN h.nodes
                             /\ h.nodes[br.head].branch = b \/ br.forked = br.head

NodeValid(h, n) ==
    LET node == h.nodes[n]
    IN  /\ node.branch \in DOMAIN h.branches
        /\ node.parent # None =>
             /\ node.parent \in DOMAIN h.nodes
             /\ \/ h.nodes[node.parent].branch = node.branch
                \/ h.branches[node.branch].forked = node.parent

MarkValid(h, m) ==
    /\ h.marks[m].node \in DOMAIN h.nodes
    /\ h.marks[m].branch \in DOMAIN h.branches
    /\ h.nodes[h.marks[m].node].branch = h.marks[m].branch

WatermarkValid(h) ==
    h.watermark # None => /\ h.watermark \in DOMAIN h.nodes
                          /\ h.nodes[h.watermark].branch = h.primary

-----------------------------------------------------------------------------
(* The operations.  Each returns the graph it leaves.                      *)

Pushed(h, e) == [h EXCEPT !.events = Append(@, e)]

\* A node becomes the head of its branch.
Grown(h, n, node) ==
    [h EXCEPT !.nodes = Put(@, n, node),
              !.branches = IF node.branch \in DOMAIN @
                           THEN [@ EXCEPT ![node.branch].head = n] ELSE @]

\* The conditions under which append_existing_node returns an error, and
\* append_node and create_checkpoint for the head of the branch.
Refused(h, n, b, parent) ==
    \/ b \notin DOMAIN h.branches
    \/ n \in DOMAIN h.nodes
    \/ /\ parent # None
       /\ \/ parent \notin DOMAIN h.nodes
          \/ /\ h.nodes[parent].branch # b
             /\ h.branches[b].forked # parent

Appended(h, n, node) ==
    Pushed(Grown(h, n, node), [type |-> "node", id |-> n, node |-> node])

Text(kind) == [kind |-> kind, calls |-> {}, results |-> {}]

\* A new node of a branch has the head of the branch as parent.
Node(h, b, body, at) ==
    [branch |-> b, parent |-> h.branches[b].head, at |-> at, patched |-> FALSE,
     kind |-> body.kind, calls |-> body.calls, results |-> body.results]

Checkpointed(h, n, b) ==
    LET node == Node(h, b, Text("checkpoint"), n)
    IN  Pushed(Grown(h, n, node), [type |-> "check", id |-> n, node |-> node])

Branched(h, b, from) ==
    [h EXCEPT !.branches = Put(@, b, [head |-> from, forked |-> from])]

Forked(h, b, from) ==
    Pushed(Branched(h, b, from), [type |-> "fork", branch |-> b, from |-> from])

Bookmarked(h, m, n) ==
    LET mark == [node |-> n, branch |-> h.nodes[n].branch]
    IN  Pushed([h EXCEPT !.marks = Put(@, m, mark)],
               [type |-> "mark", id |-> m, mark |-> mark])

Patched(h, n) ==
    IF n \in DOMAIN h.nodes THEN [h EXCEPT !.nodes[n].patched = TRUE] ELSE h

PatchedMeta(h, n) == Pushed(Patched(h, n), [type |-> "patch", id |-> n])

\* Mutant: the watermark moves without an event.
ArchivedSilently(h, w) == [h EXCEPT !.watermark = w]

Archived(h, w) ==
    Pushed([h EXCEPT !.watermark = w], [type |-> "archive", id |-> w])

\* The index of calls and results by id: one node each, and if an id repeats,
\* whichever the iteration of the hash map visits last.
PairTables(h) ==
    LET ids == CallsOf(h) \cap ResultsOf(h)
        ends(c) == {n \in OnPrimary(h) : c \in h.nodes[n].calls}
                   \X {n \in OnPrimary(h) : c \in h.nodes[n].results}
    IN  {T \in [ids -> UNION {ends(c) : c \in ids}] : \A c \in ids : T[c] \in ends(c)}

\* Mutant: a result at the watermark itself does not count as visible.
CrossingStrictly(h, T, w) ==
    {T[c][1] : c \in {d \in DOMAIN T : /\ h.nodes[T[d][1]].at < h.nodes[w].at
                                       /\ h.nodes[T[d][2]].at > h.nodes[w].at}}

\* The calls before a watermark whose results are not.
Crossing(h, T, w) ==
    {T[c][1] : c \in {d \in DOMAIN T : /\ h.nodes[T[d][1]].at < h.nodes[w].at
                                       /\ h.nodes[T[d][2]].at >= h.nodes[w].at}}

Earliest(h, S) == CHOOSE n \in S : \A m \in S : h.nodes[n].at <= h.nodes[m].at

\* tool_pair_adjusted_watermark: the watermark after k rounds of its loop.
WalkedBack(h, T, w, k) ==
    LET walk[i \in 0..k] ==
            IF i = 0 THEN w
            ELSE IF Crossing(h, T, walk[i - 1]) = {} THEN walk[i - 1]
            ELSE Earliest(h, Crossing(h, T, walk[i - 1]))
    IN  walk[k]

\* The watermark archive_before would set, and whether it gives up.
Watermark(h, T, w) == WalkedBack(h, T, w, WalkLimit - 1)
Unresolvable(h, T, w) == Crossing(h, T, Watermark(h, T, w)) # {}

-----------------------------------------------------------------------------
(* The graph on its own: any operation, on any branch and any node that    *)
(* its arguments may name.                                                 *)

New(n) == n \in NodeId /\ \A m \in DOMAIN g.nodes : m < n

\* append_existing_node is given the node; append_node makes it.
AppendNode ==
    \E n \in DOMAIN g'.nodes :
        LET node == g'.nodes[n]
        IN  /\ New(n) /\ node \in NodeRecord
            /\ ~Refused(g, n, node.branch, node.parent)
            /\ g' = Appended(g, n, node)

CreateCheckpoint ==
    \E b \in DOMAIN g.branches, n \in DOMAIN g'.nodes :
        /\ New(n)
        /\ ~Refused(g, n, b, g.branches[b].head)
        /\ g' = Checkpointed(g, n, b)

\* Two operations under one lock: a summary and its checkpoint.
Summarise ==
    \E b \in DOMAIN g.branches, n \in DOMAIN g'.nodes :
        LET h == Appended(g, n, Node(g, b, Text("summary"), n))
        IN  /\ New(n)
            /\ ~Refused(g, n, b, g.branches[b].head)
            /\ g' = Checkpointed(h, n + 1, b)

CreateBookmark ==
    \E n \in DOMAIN g.nodes, m \in DOMAIN g'.marks : g' = Bookmarked(g, m, n)

PatchNode == \E n \in DOMAIN g.nodes : g' = PatchedMeta(g, n)

ForkBranch ==
    \E b \in Fork \ DOMAIN g.branches, from \in DOMAIN g.nodes \cup {None} :
        g' = Forked(g, b, from)

\* archive_before only looks whether the node exists.  What a session passes is
\* a message of its primary branch, and the walk goes to nodes of that branch.
ArchiveBefore == \E w \in OnPrimary(g) : g' = Archived(g, w)

GraphInit == g = NewGraph

GraphNext ==
    \/ AppendNode \/ CreateCheckpoint \/ Summarise
    \/ CreateBookmark \/ PatchNode \/ ForkBranch \/ ArchiveBefore

GraphSpec == GraphInit /\ [][GraphNext]_g

IsGraph(h) ==
    h = [nodes |-> h.nodes, marks |-> h.marks, primary |-> h.primary,
         watermark |-> h.watermark, branches |-> h.branches, events |-> h.events]

Typed(h) ==
    /\ IsGraph(h)
    /\ DOMAIN h.nodes \subseteq NodeId
    /\ h.nodes \in [DOMAIN h.nodes -> NodeRecord]
    /\ DOMAIN h.branches \subseteq Branch
    /\ h.branches \in [DOMAIN h.branches ->
                          [head : NodeId \cup {None}, forked : NodeId \cup {None}]]

\* The graph has its type and GraphValidator finds no issue with it, so that it
\* can be saved and loaded, whatever operations, forks and restarts are behind
\* it.  And a parent is older than its children, which ends every walk to the
\* root: the walk (branch_lineage_node_ids) has no guard against a cycle.
Sound(h) ==
    /\ Typed(h)
    /\ h.primary \in DOMAIN h.branches
    /\ \A b \in DOMAIN h.branches : BranchValid(h, b)
    /\ \A n \in DOMAIN h.nodes : NodeValid(h, n)
    /\ \A n \in DOMAIN h.nodes : h.nodes[n].parent # None => h.nodes[n].parent < n
    /\ \A m \in DOMAIN h.marks : MarkValid(h, m)
    /\ WatermarkValid(h)

Valid == Sound(g)
=============================================================================
