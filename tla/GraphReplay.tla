---------------------------- MODULE GraphReplay -----------------------------
(***************************************************************************)
(* A graph rebuilt from its events: by apply_event, one event on a graph   *)
(* that is there, and by the materializer, from nothing, when a session is *)
(* loaded.                                                                 *)
(***************************************************************************)
EXTENDS SessionGraph, SequencesExt, FiniteSetsExt

HeadOf(h, b) == IF b \in DOMAIN h.branches THEN h.branches[b].head ELSE None

\* SessionGraph::apply_event: a checkpoint takes the head its branch has now.
Apply(h, e) ==
    CASE e.type = "node"    -> Grown(h, e.id, e.node)
      [] e.type = "check"   -> Grown(h, e.id, [e.node EXCEPT !.parent = HeadOf(h, e.node.branch)])
      [] e.type = "fork"    -> Branched(h, e.branch, e.from)
      [] e.type = "mark"    -> [h EXCEPT !.marks = Put(@, e.id, e.mark)]
      [] e.type = "patch"   -> Patched(h, e.id)
      [] e.type = "archive" -> [h EXCEPT !.watermark = e.id]

\* The branch an event names; a patch and an archival name none.
EventBranch(e) ==
    CASE e.type \in {"node", "check"} -> e.node.branch
      [] e.type = "mark" -> e.mark.branch
      [] e.type = "fork" -> e.branch
      [] OTHER -> None

\* GraphMaterializer::from_events makes a branch when an event first names it.
Rooted(h, e) ==
    LET b == EventBranch(e)
    IN  IF b = None \/ b \in DOMAIN h.branches \/ e.type = "fork" THEN h
        ELSE [h EXCEPT !.branches = Put(@, b, [head |-> None, forked |-> None])]

\* One event: by the materializer (making), or by apply_event.
Replayed(h, e, making) == Pushed(Apply(IF making THEN Rooted(h, e) ELSE h, e), e)

Rebuilt(start, es, making) ==
    LET after[i \in 0..Len(es)] ==
            IF i = 0 THEN start ELSE Replayed(after[i - 1], es[i], making)
    IN  after[Len(es)]

Bare == [NewGraph EXCEPT !.branches = << >>]

\* from_events_with_primary as the file store calls it: the primary branch is
\* the first that an event names, whatever it was in the session.
Materialised(es) ==
    LET naming == {i \in DOMAIN es : EventBranch(es[i]) # None}
    IN  IF es = << >> THEN NewGraph
        ELSE [Rebuilt(Bare, es, TRUE) EXCEPT !.primary = EventBranch(es[Min(naming)])]

Applied(es) == Rebuilt(NewGraph, es, FALSE)

\* Replaying the events gives the graph that recorded them, by either way:
\* nothing is lost or moved by a restart.
ReplayAgrees == Materialised(g.events) = g /\ Applied(g.events) = g
=============================================================================
