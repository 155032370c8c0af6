----------------------------- MODULE JsonlFile -----------------------------
(***************************************************************************)
(* A session file of the JSONL backend                                     *)
(* (src/src/session/persistence_jsonl.rs): the lines in it, how an append  *)
(* puts them there, what a crash or a failing write leaves, and what a     *)
(* reader makes of them.  A line is an entry, or what is left of one: text *)
(* that does not parse (Torn), or bytes that are no text, for they end     *)
(* inside a character (Garbled).  "open" says that the last line has no    *)
(* newline yet: the next append continues it, and two entries on one line  *)
(* do not parse.                                                           *)
(***************************************************************************)
EXTENDS Naturals, Sequences, SequencesExt, FiniteSets

CONSTANTS Event,      \* ids of graph events
          AuxKind,    \* the lists kept beside the graph: "todo", "plan"
          Item,       \* todo items and plans
          Compact,    \* ids of compaction records
          QItem,      \* ids of queue items
          Dir,        \* directories of projects
          DefaultDir, \* "_default", for sessions without a project
          None

ASSUME DirAssumption == DefaultDir \in Dir /\ None \notin Dir
ASSUME AuxAssumption == AuxKind \subseteq {"todo", "plan"}

Header      == [k |-> "header"]
Torn        == [k |-> "torn", text |-> TRUE]
Garbled     == [k |-> "torn", text |-> FALSE]
QueueReset  == [k |-> "queue_reset"]
Meta(p, t)  == [k |-> "meta", project |-> p, stamp |-> t]
Reset(a)    == [k |-> IF a = "todo" THEN "reset_todo" ELSE "reset_plan"]
Aux(a, i)   == [k |-> a, id |-> i]
Record(c)   == [k |-> "compact", id |-> c]
QueueOp(o, q) == [k |-> o, id |-> q]

\* A graph event: a node with its parent; cwd is the directory the message
\* carries in its environment, if any.
Node(e, p, d) == [k |-> "event", id |-> e, parent |-> p, cwd |-> d]

NoFile  == [lines |-> <<>>, open |-> FALSE, synced |-> 0, exists |-> FALSE]
NewFile == [NoFile EXCEPT !.exists = TRUE]

\* append_entries_sync: a header opens a file that is new or has no bytes.
WithHeader(f, es) == IF f.lines = <<>> THEN <<Header>> \o es ELSE es

\* What may be left of an entry that was cut.  The names, texts and paths that
\* most entries have need not be ASCII, and are written as they are.
Remnants == {Torn, Garbled}
Plain == {"header", "queue_reset", "reset_todo", "reset_plan"}
Pieces(e) == IF e.k \in Plain THEN {Torn} ELSE Remnants

\* The last line goes on and does not parse; it is not made text again.
Mangled(ls, piece) == [ls EXCEPT ![Len(ls)] = IF @ = Garbled THEN Garbled ELSE piece]

\* One entry with its newline.
Written(f, e) ==
  IF f.open THEN [f EXCEPT !.lines = Mangled(@, Torn), !.open = FALSE]
            ELSE [f EXCEPT !.lines = Append(@, e), !.exists = TRUE]

\* The entries a write spoils: the new one, and one whose newline was cut off.
Spoiled(f, e) ==
  IF f.open THEN {e} \cup ({Last(f.lines)} \ Remnants) ELSE {}

\* A write that stopped within the line: a part of it, or all but the newline.
CutShort(f, e) ==
  IF f.open
  THEN {[f EXCEPT !.lines = Mangled(@, l)] : l \in Pieces(e)}
  ELSE {[f EXCEPT !.lines = Append(@, l), !.open = TRUE, !.exists = TRUE] :
          l \in {e} \cup Pieces(e)}

\* What may be on the disk after the machine stopped: the synced part and any
\* prefix of the rest, its last line whole or cut.  What is found then is there
\* to stay.
Recovered(f) ==
  LET upto(n) == [f EXCEPT !.lines = SubSeq(@, 1, n), !.synced = n,
                           !.open = @ /\ n = Len(f.lines)]
      cut(n) == CutShort([upto(n) EXCEPT !.open = FALSE, !.synced = n + 1],
                         f.lines[n + 1])
  IN  {upto(n) : n \in f.synced .. Len(f.lines)}
      \cup UNION {cut(n) : n \in f.synced .. Len(f.lines) - 1}

-----------------------------------------------------------------------------
\* What a reader makes of the lines.

\* The elements of s at the places in P, in their order.
Picked(s, P) ==
  [i \in 1 .. Cardinality(P) |->
    s[CHOOSE n \in P : Cardinality({m \in P : m <= n}) = i]]

Places(ls, ks) == {n \in DOMAIN ls : ls[n].k \in ks}
Ids(es) == {es[n].id : n \in DOMAIN es}

\* read_entries_sync fails at a line that is no text, and gives nothing of the
\* file then; it skips what does not parse, and repeated headers.
Unreadable(f) == Garbled \in Range(f.lines)
Readable(f) ==
  ~Unreadable(f) /\ Places(f.lines, {"torn", "header"}) # DOMAIN f.lines

\* The places of entries that stand after the last reset.
AfterReset(ls, reset, ks) ==
  {n \in Places(ls, ks) : \A m \in Places(ls, {reset}) : m < n}

\* The todo list and the plan are kept alike: a reset and what follows it.
AuxOf(f) == [a \in AuxKind |->
               {f.lines[n].id : n \in AfterReset(f.lines, Reset(a).k, {a})}]
Nodes(f)   == Picked(f.lines, Places(f.lines, {"event"}))
Records(f) == Picked(f.lines, Places(f.lines, {"compact"}))
LastMeta(f) == LET metas == Places(f.lines, {"meta"})
               IN  IF metas = {} THEN None ELSE f.lines[Max(metas)]

\* A message after metadata without a project may set one.
ProjectOf(f) ==
  LET metas == Places(f.lines, {"meta"})
      later == {n \in AfterReset(f.lines, "meta", {"event"}) : f.lines[n].cwd # None}
  IN  IF metas # {} /\ f.lines[Max(metas)].project # None
      THEN f.lines[Max(metas)].project
      ELSE IF later = {} THEN None ELSE f.lines[Min(later)].cwd

QueueOps == {"enqueue", "dequeue", "cancel"}
QueueState == [enqueue |-> "pending", dequeue |-> "processing",
               cancel |-> "cancelled"]

\* The items in the queue.  A dequeue or cancel of an item that was never
\* enqueued is skipped.
Queued(f) ==
  {f.lines[n].id : n \in AfterReset(f.lines, "queue_reset", {"enqueue"})}

\* Mutant: only enqueues are replayed.
QueueOfEnqueues(f) == [q \in Queued(f) |-> "pending"]

QueueOf(f) ==
  LET of(q) == {n \in AfterReset(f.lines, "queue_reset", QueueOps) :
                  f.lines[n].id = q}
  IN  [q \in Queued(f) |-> QueueState[f.lines[Max(of(q))].k]]
=============================================================================
