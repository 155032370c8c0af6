--------------------------- MODULE SessionHistory ---------------------------
(***************************************************************************)
(* What a session does with its graph (src/src/session/state/mod.rs), the  *)
(* recovery that archives its oldest rounds, and the forks of the session  *)
(* manager.  Each action runs under the lock of the session.               *)
(*                                                                         *)
(* A model is sent the projection of the primary branch: the messages of   *)
(* its lineage that are not older than the watermark, from the last        *)
(* summary on.  The providers refuse a tool result without its call.       *)
(*                                                                         *)
(* A call is <<n, k>>, the k-th call of node n: a provider's ids are       *)
(* unique.                                                                 *)
(***************************************************************************)
EXTENDS GraphReplay

CONSTANTS
    MaxNode,     \* bound: the last node
    MaxEvent,    \* bound: events of a graph
    MaxCalls,    \* bound: tool calls of one message
    MaxRounds,   \* the rounds a recovery recipe drains: 1 or 2
    MaxLag,      \* bound: how far behind the time of a message may be
    ForkEmpty    \* may a session without events be forked?

ASSUME HistoryAssumption ==
    /\ {MaxNode, MaxEvent, MaxCalls, MaxRounds, MaxLag} \subseteq Nat
    /\ ForkEmpty \in BOOLEAN

VARIABLE ret    \* what the last operation returned

vars == <<g, ret>>

-----------------------------------------------------------------------------
(* The projection.                                                         *)

\* The elements of s at the places in P, in their order.
Picked(s, P) ==
    [i \in 1..Cardinality(P) |->
        s[CHOOSE n \in P : Cardinality({m \in P : m <= n}) = i]]

Messages(h, ns) == Picked(ns, {i \in DOMAIN ns : h.nodes[ns[i]].kind # "checkpoint"})

\* Session::graph_projected_messages.
Visible(h) ==
    LET line == Lineage(h, h.primary)
        left == {i \in DOMAIN line :
                    \/ h.watermark \notin DOMAIN h.nodes
                    \/ h.nodes[line[i]].at >= h.nodes[h.watermark].at}
        sums == {i \in left : h.nodes[line[i]].kind = "summary"}
    IN  Picked(line, {i \in left : /\ h.nodes[line[i]].kind # "checkpoint"
                                   /\ \A s \in sums : s <= i})

Unanswered == CallsOf(g) \ ResultsOf(g)

-----------------------------------------------------------------------------
(* The operations of a session.                                            *)

Answer(op, ok, h) == [op |-> op, ok |-> ok, graph |-> h]
Done == Answer("done", TRUE, None)

Fresh == Max({0} \cup DOMAIN g.nodes) + 1
Room(k) == Fresh + k - 1 <= MaxNode /\ Len(g.events) + k <= MaxEvent

\* Session::add_message: the parent is the leaf of the primary branch.
Add(body, lag) ==
    LET node == Node(g, g.primary, body, Fresh - lag)
    IN  /\ Room(1)
        /\ ~Refused(g, Fresh, g.primary, node.parent)
        /\ g' = Appended(g, Fresh, node)
        /\ ret' = Done

\* A client makes the message, with its time, before it has the lock.
AddUser == \E lag \in 0..MaxLag : lag < Fresh /\ Add(Text("user"), lag)

AddAssistant ==
    \E k \in 0..MaxCalls :
        Add([Text("assistant") EXCEPT !.calls = {<<Fresh, i>> : i \in 1..k}], 0)

AddResults ==
    \E cs \in SUBSET Unanswered :
        cs # {} /\ Add([Text("user") EXCEPT !.results = cs], 0)

\* Compactor::apply_compact: the summary, then the checkpoint "compaction".
\* The agent compacts before a request, when every call has its result.
Compact ==
    LET h == Appended(g, Fresh, Node(g, g.primary, Text("summary"), Fresh))
    IN  /\ Visible(g) # << >> /\ Unanswered = {} /\ Room(2)
        /\ g' = Checkpointed(h, Fresh + 1, g.primary)
        /\ ret' = Done

\* Session::checkpoint_current_head.
Checkpoint ==
    /\ Room(1)
    /\ g' = Checkpointed(g, Fresh, g.primary)
    /\ ret' = Done

\* Session::bookmark_current_head.
Bookmark ==
    LET n == g.branches[g.primary].head
    IN  /\ n # None /\ Len(g.events) < MaxEvent
        /\ g' = Bookmarked(g, Cardinality(DOMAIN g.marks) + 1, n)
        /\ ret' = Done

\* Session::update_latest_assistant_metadata.
PatchLatest ==
    LET line == Lineage(g, g.primary)
        last == {i \in DOMAIN line : g.nodes[line[i]].kind \in {"assistant", "summary"}}
    IN  /\ last # {} /\ Len(g.events) < MaxEvent
        /\ g' = PatchedMeta(g, line[Max(last)])
        /\ ret' = Done

UserTurns ==
    LET vis == Visible(g)
    IN  Picked(vis, {i \in DOMAIN vis : g.nodes[vis[i]].kind = "user"})

\* Mutant: the watermark is the last of the messages to drain.
DrainToTurn(rounds, T) ==
    LET w  == UserTurns[rounds]
        ok == Len(UserTurns) > rounds /\ ~Unresolvable(g, T, w)
    IN  /\ g' = IF ok THEN Archived(g, Watermark(g, T, w)) ELSE g
        /\ ret' = Answer("drain", ok, None)

\* RecoveryExecutor::drain_oldest_rounds: the messages before the
\* (rounds + 1)-th visible one with the role of the user are archived.
DrainRounds(rounds, T) ==
    LET w  == UserTurns[rounds + 1]
        ok == Len(UserTurns) > rounds /\ ~Unresolvable(g, T, w)
    IN  /\ g' = IF ok THEN Archived(g, Watermark(g, T, w)) ELSE g
        /\ ret' = Answer("drain", ok, None)

\* It runs when a request was refused, so every call has its result (a result
\* added after the drain of its call would be left without it).
Drain ==
    /\ Unanswered = {} /\ Len(g.events) < MaxEvent
    /\ \E rounds \in 1..MaxRounds, T \in PairTables(g) : DrainRounds(rounds, T)

\* SessionGraph::append_node on a branch that is not the primary one.
AppendOn ==
    \E b \in DOMAIN g.branches \ {g.primary} :
        /\ Room(1) /\ ~Refused(g, Fresh, b, g.branches[b].head)
        /\ g' = Appended(g, Fresh, Node(g, b, Text("user"), Fresh))
        /\ ret' = Done

-----------------------------------------------------------------------------
(* Forks.  The session itself stays as it is; `ret` has the new one.       *)

\* SessionManager::fork_session: a clone of the session with one more branch.
ForkSession ==
    /\ g.events # << >> \/ ForkEmpty
    /\ Len(g.events) < MaxEvent
    /\ \E b \in Fork \ DOMAIN g.branches, from \in DOMAIN g.nodes \cup {None} :
          ret' = Answer("fork", TRUE, Forked(g, b, from))
    /\ UNCHANGED g

\* A new session to which copies of the nodes `ns` were added in order.
Chained(ns, nodes) ==
    LET prev(n) == IF n = ns[1] THEN None
                   ELSE ns[(CHOOSE i \in DOMAIN ns : ns[i] = n) - 1]
        body == [n \in ToSet(ns) |->
                    [nodes[n] EXCEPT !.branch = Main, !.patched = FALSE, !.parent = prev(n)]]
    IN  [NewGraph EXCEPT
            !.nodes = body,
            !.branches[Main].head = IF ns = << >> THEN None ELSE Last(ns),
            !.events = [i \in DOMAIN ns |->
                           [type |-> "node", id |-> ns[i], node |-> body[ns[i]]]]]

\* Mutant: the new graph takes the first message as it is.
ForkUnchecked ==
    LET ns == Visible(g)
        h  == Chained(ns, g.nodes)
    IN  /\ ret' = Answer("fork", TRUE, IF ns = << >> THEN h
                        ELSE [h EXCEPT !.nodes[ns[1]].parent = g.nodes[ns[1]].parent])
        /\ UNCHANGED g

\* SessionManager::fork: the visible messages, with their ids.  The first one
\* keeps the parent it has here; the new graph refuses it if there is one.
ForkCopy ==
    LET ns == Visible(g)
        ok == ns # << >> => g.nodes[ns[1]].parent = None
    IN  /\ ret' = Answer("fork", ok, IF ok THEN Chained(ns, g.nodes) ELSE None)
        /\ UNCHANGED g

\* SessionManager::fork_from_node, also for a bookmark or a checkpoint: the
\* messages of the lineage from the node on, as new messages, of which a
\* summary is one like any other.  (The model keeps the numbers of the nodes.)
ForkFrom(n) ==
    LET line == Lineage(g, g.primary)
        from == {i \in DOMAIN line : \E j \in 1..i : line[j] = n}
        kept == {i \in from : g.nodes[line[i]].kind # "checkpoint"}
        copy == [m \in {line[i] : i \in from} |->
                    [g.nodes[m] EXCEPT !.at = m,
                                       !.kind = IF @ = "summary" THEN "assistant" ELSE @]]
    IN  /\ n \in ToSet(line)
        /\ ret' = Answer("fork", TRUE, Chained(Picked(line, kept), copy))
        /\ UNCHANGED g

Checkpoints == {n \in DOMAIN g.nodes : g.nodes[n].kind = "checkpoint"}

ForkFromNode == \E n \in DOMAIN g.nodes \ Checkpoints : ForkFrom(n)
ForkFromCheckpoint == \E n \in Checkpoints : ForkFrom(n)

\* Work goes on in the session that a fork returned.
Continue ==
    /\ ret.graph # None
    /\ g' = ret.graph /\ ret' = Done

\* The process restarts and loads the session.
Reload == g' = Materialised(g.events) /\ ret' = Done

Init == GraphInit /\ ret = Done

Next ==
    \/ AddUser \/ AddAssistant \/ AddResults
    \/ Compact \/ Checkpoint \/ Bookmark \/ PatchLatest \/ Drain
    \/ AppendOn \/ ForkSession \/ ForkCopy \/ ForkFromNode \/ ForkFromCheckpoint
    \/ Continue \/ Reload

Spec == Init /\ [][Next]_vars

-----------------------------------------------------------------------------
(* Properties.                                                             *)

\* A result the providers are sent comes after its call, whatever was archived
\* or summarised: the promise of archive_before.  (A result whose call is not
\* in the graph, in a session forked between the two, is exempt there.)
PairsVisible ==
    LET vis == Visible(g)
    IN  \A i \in DOMAIN vis : \A c \in g.nodes[vis[i]].results \cap CallsOf(g) :
            \E j \in 1..(i - 1) : c \in g.nodes[vis[j]].calls

\* The agent answers the calls of a response in one message right after it,
\* and the clock goes forward.
Orderly(h) ==
    LET line == Messages(h, Lineage(h, h.primary))
    IN  \A i \in 2..Len(line) :
            LET node == h.nodes[line[i]]
                prev == h.nodes[line[i - 1]]
            IN  prev.at < node.at /\ node.results = prev.calls

\* A drain that reports success leaves a proper, non-empty suffix of what was
\* sent before: the retry it asks for does not send the same request again.
DrainShrinks ==
    [][g' # g /\ ret'.op = "drain" /\ Orderly(g)
        => /\ IsSuffix(Visible(g'), Visible(g))
           /\ Len(Visible(g')) \in 1..(Len(Visible(g)) - 1)]_vars
=============================================================================
