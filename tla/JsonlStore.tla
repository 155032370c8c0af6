----------------------------- MODULE JsonlStore -----------------------------
(***************************************************************************)
(* JsonlPersistence (src/src/session/persistence_jsonl.rs) for one        *)
(* session: its files, the index in memory that says where the session is  *)
(* and what was already written, the queue in memory, and the callers with *)
(* the sessions they hold.  mutation_lock lets one operation write at a    *)
(* time; load takes no lock.  An operation appends its entries line by     *)
(* line and then updates the index; it may fail at any line, and the       *)
(* process may stop at any moment and read everything back when it starts  *)
(* again.                                                                  *)
(***************************************************************************)
EXTENDS JsonlFile

CONSTANTS Caller,
          Cwd,        \* directories that messages may carry
          FailAgain,  \* bound: operations may fail after one that failed
          MaxClock, MaxCrashes \* bounds

ASSUME BoundAssumption ==
  /\ Cwd \subseteq Dir \ {DefaultDir} /\ FailAgain \in BOOLEAN
  /\ IsFiniteSet(Item) /\ IsFiniteSet(QItem)
\* Ids are UUIDs.
ASSUME IdAssumption == Event \cap Compact = {}

\* The directories that messages and sessions may name.
Where == Cwd \cup {None}
MetaLine == [k : {"meta"}, project : Where, stamp : Nat]
\* SessionMeta: where the session is and what of it was written.
Indexed == [path : Dir, project : Where, meta : {None} \cup MetaLine,
            ids : SUBSET (Event \cup Compact), aux : [AuxKind -> SUBSET Item],
            leaf : Event \cup {None}]
ASSUME NoneAssumption == None \notin Indexed

VARIABLES
  syncing,  \* SyncMode::OnWrite
  files,    \* directory -> the session's file there
  index,    \* the session's SessionMeta, or None
  queue,    \* the queue in memory: item -> state
  held,     \* caller -> the session it holds, or None
  reading,  \* caller -> the path its load read from the index, or None
  op,       \* the operation that holds mutation_lock
  clock, crashes,
  made,     \* history: ids of the events and queue items made so far
  failed,   \* history: an operation failed since the process started
  acked,    \* history: events a caller was told are stored
  spoiled,  \* history: entries lost on a line with other bytes
  given     \* history: how often dequeue handed an item out that was recorded

memory == <<index, queue>>
callers == <<held, reading, made>>
told == <<failed, acked, spoiled, given>>
vars == <<syncing, files, memory, callers, op, clock, crashes, told>>

NoQueue == [q \in {} |-> "pending"]
\* path: the file appended to; appends: it has entries to append, and left is
\* what it has not appended yet; next, queue: the index and the queue when it is
\* done; acks, item: what its caller is told.
Idle == [kind |-> "idle", path |-> DefaultDir, appends |-> FALSE, left |-> <<>>,
         next |-> None, acks |-> {}, queue |-> NoQueue, item |-> None]
\* The process could not open the store: no operation runs.
Down == [Idle EXCEPT !.kind = "down"]
Path(project) == IF project = None THEN DefaultDir ELSE project

-----------------------------------------------------------------------------
\* Sessions and what is known of them.

NewSession == [events |-> <<>>, aux |-> [a \in AuxKind |-> {}],
               compacts |-> <<>>, stamp |-> 0]
HasEvent(s, e) == \E n \in 1 .. Len(s.events) : s.events[n].id = e
\* validate_graph: the parent of every node is there.
Valid(s) == \A n \in 1 .. Len(s.events) :
              s.events[n].parent = None \/ HasEvent(s, s.events[n].parent)
Leaf(s) == IF s.events = <<>> THEN None ELSE Last(s.events).id
\* get_project_path: the directory of the first message.
Project(s) == IF s.events = <<>> THEN None ELSE Head(s.events).cwd

Reconstruct(f) ==
  [events |-> Nodes(f), aux |-> AuxOf(f),
   compacts |-> [n \in DOMAIN Records(f) |-> Records(f)[n].id],
   stamp |-> IF LastMeta(f) = None THEN 0 ELSE LastMeta(f).stamp]

\* parse_file_metadata: compaction records are not collected.
Parse(p, f) ==
  [path |-> p, meta |-> LastMeta(f), ids |-> Ids(Nodes(f)), aux |-> AuxOf(f),
   project |-> ProjectOf(f),
   leaf |-> IF Nodes(f) = <<>> THEN None ELSE Last(Nodes(f)).id]

Unindexed == [path |-> None, project |-> None, meta |-> None, ids |-> {},
              aux |-> NewSession.aux, leaf |-> None]
Known == IF index = None THEN Unindexed ELSE index

-----------------------------------------------------------------------------
\* Mutant: a parent after its children.
UnwrittenReversed(s) ==
  Reverse(Picked(s.events, {n \in DOMAIN s.events : s.events[n].id \notin Known.ids}))

\* What a save appends: the metadata if it changed, the events and records
\* not yet written, the todo list and the plan when their hash changed.

Unwritten(s) ==
  Picked(s.events, {n \in DOMAIN s.events : s.events[n].id \notin Known.ids})
NewRecords(s) ==
  LET new == Picked(s.compacts, {n \in DOMAIN s.compacts : s.compacts[n] \notin Known.ids})
  IN  [n \in DOMAIN new |-> Record(new[n])]
SaveProject(s) == IF Known.project # None THEN Known.project ELSE Project(s)
SaveMeta(s) == Meta(SaveProject(s), s.stamp)

AuxLines(a, S) == [n \in 1 .. Cardinality(S) |-> Aux(a, SetToSeq(S)[n])]
AuxEntries(s, a) ==
  IF a \notin AuxKind \/ s.aux[a] = Known.aux[a] THEN <<>>
  ELSE <<Reset(a)>> \o AuxLines(a, s.aux[a])

SaveEntries(s) ==
  (IF Known.meta = SaveMeta(s) THEN <<>> ELSE <<SaveMeta(s)>>)
  \o Unwritten(s) \o AuxEntries(s, "todo") \o AuxEntries(s, "plan") \o NewRecords(s)

\* Mutant: the hashes of the todo list and the plan stay.
SavedIndexKeepingAux(s) ==
  [path |-> Path(SaveProject(s)), project |-> SaveProject(s),
   meta |-> SaveMeta(s), aux |-> Known.aux, leaf |-> Leaf(s),
   ids |-> Known.ids \cup Ids(s.events) \cup ToSet(s.compacts)]

\* The index after the save.
SavedIndex(s) ==
  [path |-> Path(SaveProject(s)), project |-> SaveProject(s),
   meta |-> SaveMeta(s), aux |-> s.aux, leaf |-> Leaf(s),
   ids |-> Known.ids \cup Ids(s.events) \cup ToSet(s.compacts)]

\* Time passes with every operation that could go on without end; it stamps
\* what changes (updated_at).
Tick == clock < MaxClock /\ clock' = clock + 1

\* Takes mutation_lock for an operation that appends es to the file at p.
Appending(kind, p, es, next, q, acks, item) ==
  /\ op = Idle
  /\ op' = [kind |-> kind, path |-> p, next |-> next, queue |-> q, acks |-> acks,
            item |-> item, appends |-> es # <<>>,
            left |-> IF es = <<>> THEN <<>> ELSE WithHeader(files[p], es)]

\* save_inner, for a session that passes validate_graph.
SaveInner(s) ==
  LET es == SaveEntries(s)
  IN  /\ Valid(s) /\ Tick
      /\ Appending("save", Path(SaveProject(s)), es,
                   IF es = <<>> THEN index ELSE SavedIndex(s),
                   queue, Ids(s.events), None)

\* What a caller may do to a session: add a message, set the todo list or the
\* plan, record a compaction.
WithEvent(s, e, parent, d, t) ==
  [s EXCEPT !.events = Append(@, Node(e, parent, d)), !.stamp = t]
WithAux(s, a, S, t) == [s EXCEPT !.aux = [@ EXCEPT ![a] = S], !.stamp = t]
WithRecord(s, c, t) == [s EXCEPT !.compacts = Append(@, c), !.stamp = t]
Edited(s, t) ==
  {u \in {WithAux(s, a, S, t) : a \in AuxKind, S \in SUBSET Item} : u.aux # s.aux}
  \cup {WithRecord(s, c, t) : c \in Compact \ ToSet(s.compacts)}
  \cup {WithEvent(s, e, Leaf(s), d, t) : e \in Event \ made, d \in Where}
Made(s) == made \cup Ids(s.events)

\* load and with_session_lock find nothing in a file without entries, and fail
\* on a file that cannot be read.
Stored == index # None /\ Readable(files[index.path])

-----------------------------------------------------------------------------
Init ==
  /\ syncing \in BOOLEAN
  /\ files = [p \in Dir |-> NoFile]
  /\ index = None /\ queue = NoQueue /\ op = Idle
  /\ held = [c \in Caller |-> None] /\ reading = [c \in Caller |-> None]
  /\ clock = 0 /\ crashes = 0
  /\ made = {} /\ failed = FALSE /\ acked = {} /\ spoiled = {}
  /\ given = [q \in QItem |-> 0]

\* The session is created in memory, once.
Create(c) ==
  /\ clock = 0 /\ \A d \in Caller : held[d] = None
  /\ held' = [held EXCEPT ![c] = NewSession]
  /\ UNCHANGED <<syncing, files, memory, reading, op, clock, crashes, made, told>>

\* A caller changes the session it holds.
Edit(c) ==
  /\ held[c] # None /\ Tick
  /\ \E s \in Edited(held[c], clock') :
       held' = [held EXCEPT ![c] = s] /\ made' = Made(s)
  /\ UNCHANGED <<syncing, files, memory, reading, op, crashes, told>>

Save(c) ==
  /\ held[c] # None
  /\ SaveInner(held[c])
  /\ UNCHANGED <<syncing, files, memory, callers, crashes, told>>

WithSessionLock ==
  /\ Stored
  /\ LET s == Reconstruct(files[index.path])
     IN  /\ Valid(s)
         /\ \E t \in Edited(s, clock + 1) : SaveInner(t) /\ made' = Made(t)
  /\ UNCHANGED <<syncing, files, memory, held, reading, crashes, told>>

\* The short way of append_graph_event and add_message: the event and the
\* metadata, without reading the file.
AppendNode(e, parent, d) ==
  LET project == IF index.project # None THEN index.project ELSE d
      meta == Meta(project, clock + 1)
  IN  /\ Path(project) = index.path /\ index.meta # None /\ Tick
      /\ Appending("save", index.path, <<Node(e, parent, d), meta>>,
                   [index EXCEPT !.project = project, !.meta = meta,
                                 !.ids = @ \cup {e}, !.leaf = e],
                   queue, {e}, None)

\* fallback_append_graph_event, fallback_add_message: load and save.
Fallback(e, parent, d) ==
  LET project == IF index.project # None THEN index.project ELSE d
      s == Reconstruct(files[index.path])
  IN  /\ Path(project) # index.path \/ index.meta = None
      /\ Stored /\ Valid(s)
      /\ SaveInner(WithEvent(s, e, parent, d, clock + 1))

\* The parent of a message is the leaf in the index.
AddMessage ==
  /\ index # None
  /\ \E e \in Event \ made, d \in Where :
       /\ \/ AppendNode(e, index.leaf, d)
          \/ Fallback(e, Leaf(Reconstruct(files[index.path])), d)
       /\ made' = made \cup {e}
  /\ UNCHANGED <<syncing, files, memory, held, reading, crashes, told>>

\* The event was made on a session loaded before: its parent may be any node
\* the file has by now.
AppendGraphEvent ==
  /\ index # None
  /\ \E e \in Event \ made, d \in Where,
        p \in Ids(Nodes(files[index.path])) \cup {None} :
       /\ AppendNode(e, p, d) \/ Fallback(e, p, d)
       /\ made' = made \cup {e}
  /\ UNCHANGED <<syncing, files, memory, held, reading, crashes, told>>

\* load reads the path from the index and later, without a lock, the file.
LoadPath(c) ==
  /\ index # None /\ reading[c] = None
  /\ reading' = [reading EXCEPT ![c] = index.path]
  /\ UNCHANGED <<syncing, files, memory, held, op, clock, crashes, made, told>>

LoadFile(c) ==
  /\ reading[c] # None
  /\ reading' = [reading EXCEPT ![c] = None]
  /\ LET s == Reconstruct(files[reading[c]])
     IN  held' = IF Readable(files[reading[c]]) /\ Valid(s)
                 THEN [held EXCEPT ![c] = s] ELSE held
  /\ UNCHANGED <<syncing, files, memory, op, clock, crashes, made, told>>

-----------------------------------------------------------------------------
\* The queue of inputs.  Items leave memory only with the session.

FilePath == IF index = None THEN DefaultDir ELSE index.path
\* An entry goes to the file only when the session is in the index.
QueueAppend(es, q, item) ==
  Appending("queue", FilePath, IF index = None THEN <<>> ELSE es,
            index, q, acked, item)

Pending == {q \in DOMAIN queue : queue[q] = "pending"}

WithItem(q) ==
  [r \in DOMAIN queue \cup {q} |-> IF r = q THEN "pending" ELSE queue[r]]

Enqueue ==
  /\ Tick
  /\ \E q \in QItem \ made :
       /\ QueueAppend(<<QueueOp("enqueue", q)>>, WithItem(q), None)
       /\ made' = made \cup {q}
  /\ UNCHANGED <<syncing, files, memory, held, reading, crashes, told>>

\* The item is marked in memory first, then the file says so, then the caller
\* gets it.  Which pending item comes first (priority, age) is left open.
Dequeue ==
  /\ \E q \in Pending :
       /\ queue' = [queue EXCEPT ![q] = "processing"]
       /\ QueueAppend(<<QueueOp("dequeue", q)>>, queue',
                      IF index = None THEN None ELSE q)
  /\ UNCHANGED <<syncing, files, index, callers, clock, crashes, told>>

\* A second cancellation changes nothing in memory but is written again.
CancelQueued ==
  /\ Tick
  /\ \E q \in DOMAIN queue :
       /\ queue' = [queue EXCEPT ![q] = "cancelled"]
       /\ QueueAppend(<<QueueOp("cancel", q)>>, queue', None)
  /\ UNCHANGED <<syncing, files, index, callers, crashes, told>>

Enqueues(S) ==
  <<QueueReset>> \o [n \in 1 .. Cardinality(S) |-> QueueOp("enqueue", SetToSeq(S)[n])]

ReplacePendingQueue ==
  /\ Tick
  /\ \E S \in SUBSET ((QItem \ made) \cup Pending) :
       /\ QueueAppend(Enqueues(S), [q \in S |-> "pending"], None)
       /\ made' = made \cup S
  /\ UNCHANGED <<syncing, files, memory, held, reading, crashes, told>>

-----------------------------------------------------------------------------
\* The index forgets the session first; the file goes when the operation ends.
Delete ==
  /\ index # None /\ Tick
  /\ Appending("delete", index.path, <<>>, None, NoQueue, {}, None)
  /\ index' = None /\ acked' = {}
  /\ UNCHANGED <<syncing, files, queue, callers, crashes,
                 failed, spoiled, given>>

\* Whether the session has expired is left open.
CleanupExpired ==
  /\ index # None /\ Tick
  /\ Appending("cleanup", index.path, <<>>, None, NoQueue, {}, None)
  /\ index' = None /\ queue' = NoQueue /\ acked' = {}
  /\ UNCHANGED <<syncing, files, callers, crashes,
                 failed, spoiled, given>>

\* snapshot_entries of a session that was exported before.
Snapshot(s, Q) ==
  LET aux(a) == IF a \notin AuxKind THEN <<>> ELSE AuxLines(a, s.aux[a])
  IN  <<Meta(Project(s), s.stamp)>> \o s.events \o aux("todo") \o aux("plan")
      \o [n \in DOMAIN s.compacts |-> Record(s.compacts[n])]
      \o IF Q = {} THEN <<>> ELSE Enqueues(Q)

\* The entries go to a temporary file that nobody reads; Publish links it.
RestoreBundle(c) ==
  LET p == Path(Project(held[c]))
  IN  /\ held[c] # None /\ index = None /\ ~files[p].exists
      /\ Valid(held[c])
      /\ \E Q \in SUBSET (QItem \ made) :
           /\ op = Idle /\ Tick /\ made' = made \cup Q
           /\ op' = [Idle EXCEPT !.kind = "restore", !.path = p,
                       !.next = <<Header>> \o Snapshot(held[c], Q),
                       !.acks = Ids(held[c].events)]
      /\ UNCHANGED <<syncing, files, memory, held, reading, crashes, told>>

Publish ==
  LET f == [NewFile EXCEPT !.lines = op.next,
                           !.synced = IF syncing THEN Len(op.next) ELSE 0]
  IN  /\ op.kind = "restore" /\ index = None /\ ~files[op.path].exists
      /\ files' = [files EXCEPT ![op.path] = f]
      /\ index' = Parse(op.path, f)
      /\ queue' = QueueOf(f)
      /\ acked' = op.acks /\ op' = Idle
      /\ UNCHANGED <<syncing, callers, clock, crashes, failed, spoiled, given>>

-----------------------------------------------------------------------------
\* append_entries_sync, a line at a time.
WriteLine ==
  LET f == files[op.path]
      e == Head(op.left)
  IN  /\ op.left # <<>>
      /\ files' = [files EXCEPT ![op.path] = Written(f, e)]
      /\ spoiled' = spoiled \cup Spoiled(f, e)
      /\ op' = [op EXCEPT !.left = Tail(@)]
      /\ UNCHANGED <<syncing, memory, callers, clock, crashes,
                     failed, acked, given>>

\* Mutant: the file is not synced.
FinishUnsynced ==
  /\ op.kind \in {"save", "queue"} /\ op.left = <<>>
  /\ index' = op.next /\ queue' = op.queue
  /\ acked' = acked \cup op.acks
  /\ given' = IF op.item = None THEN given
              ELSE [given EXCEPT ![op.item] = @ + 1]
  /\ op' = Idle
  /\ UNCHANGED <<syncing, files, callers, clock, crashes, failed, spoiled>>

\* The operation returns: what it appended is synced in mode OnWrite, the
\* index and the queue are updated, the caller is told.
Synced(f) == [f EXCEPT !.synced = IF syncing /\ op.appends THEN Len(f.lines) ELSE @]

Finish ==
  /\ op.kind \in {"save", "queue"} /\ op.left = <<>>
  /\ files' = [files EXCEPT ![op.path] = Synced(@)]
  /\ index' = op.next /\ queue' = op.queue
  /\ acked' = acked \cup op.acks
  /\ given' = IF op.item = None THEN given
              ELSE [given EXCEPT ![op.item] = @ + 1]
  /\ op' = Idle
  /\ UNCHANGED <<syncing, callers, clock, crashes, failed, spoiled>>

\* Mutant: the file is emptied and stays.
RemoveLines ==
  /\ op.kind \in {"delete", "cleanup"}
  /\ files' = [files EXCEPT ![op.path] = [@ EXCEPT !.lines = <<>>]]
  /\ queue' = op.queue /\ op' = Idle
  /\ UNCHANGED <<syncing, index, callers, clock, crashes, told>>

RemoveFile ==
  /\ op.kind \in {"delete", "cleanup"}
  /\ files' = [files EXCEPT ![op.path] = NoFile]
  /\ queue' = op.queue /\ op' = Idle
  /\ UNCHANGED <<syncing, index, callers, clock, crashes, told>>

\* The operation fails: at a line, when it syncs, when it removes the file.
\* What was written stays; index and queue are as they were.
Fail ==
  /\ op.kind \notin {"idle", "down"} /\ (failed => FailAgain)
  /\ \E f \in {files[op.path]} \cup
           (IF op.left = <<>> THEN {} ELSE CutShort(files[op.path], Head(op.left))) :
       files' = [files EXCEPT ![op.path] = f]
  /\ spoiled' = IF files'[op.path] = files[op.path] \/ ~files[op.path].open
                THEN spoiled
                ELSE spoiled \cup Spoiled(files[op.path], Head(op.left))
  /\ failed' = TRUE /\ op' = Idle
  /\ UNCHANGED <<syncing, memory, callers, clock, crashes, acked, given>>

\* rebuild_index reads all files, in any order, the last one of the session
\* counts; it fails at the first that cannot be read, and with it new.
Rebuild(fs) ==
  LET found == {p \in Dir : fs[p].exists}
      queues == {p \in found : QueueOf(fs[p]) # NoQueue}
  IN  IF \E p \in found : Unreadable(fs[p])
      THEN index' = None /\ queue' = NoQueue /\ op' = Down
      ELSE /\ IF found = {} THEN index' = None
              ELSE \E p \in found : index' = Parse(p, fs[p])
           /\ IF queues = {} THEN queue' = NoQueue
              ELSE \E p \in queues : queue' = QueueOf(fs[p])
           /\ op' = Idle

\* The process stops, and starts again.
Restart ==
  /\ crashes < MaxCrashes /\ crashes' = crashes + 1
  /\ \E fs \in [Dir -> UNION {Recovered(files[p]) : p \in Dir}] :
       /\ \A p \in Dir : fs[p] \in Recovered(files[p])
       /\ files' = fs
       /\ Rebuild(fs)
  /\ held' = [c \in Caller |-> None] /\ reading' = held'
  /\ failed' = FALSE
  /\ UNCHANGED <<syncing, clock, made, acked, spoiled, given>>

Next ==
  \/ \E c \in Caller : \/ Create(c) \/ Edit(c) \/ Save(c) \/ LoadPath(c)
                        \/ LoadFile(c) \/ RestoreBundle(c)
  \/ WithSessionLock \/ AddMessage \/ AppendGraphEvent
  \/ Enqueue \/ Dequeue \/ CancelQueued \/ ReplacePendingQueue
  \/ Delete \/ CleanupExpired \/ Publish
  \/ WriteLine \/ Finish \/ RemoveFile \/ Fail \/ Restart

Spec == Init /\ [][Next]_vars

-----------------------------------------------------------------------------
\* Properties.

\* The state is what the declarations of the variables say.
TypeOK ==
  /\ syncing \in BOOLEAN /\ failed \in BOOLEAN
  /\ \A p \in Dir : /\ files[p].synced \in 0 .. Len(files[p].lines)
                    /\ files[p].open => files[p].lines # <<>>
  /\ index \in Indexed \cup {None}
  /\ \A q \in DOMAIN queue : q \in QItem /\ queue[q] \in Range(QueueState)
  /\ reading \in [Caller -> Dir \cup {None}]
  /\ op.kind \in {"idle", "down", "save", "queue", "restore", "delete", "cleanup"}
  /\ made \subseteq Event \cup QItem /\ acked \subseteq Event
  /\ given \in [QItem -> Nat]

Lost == {e.id : e \in {e \in spoiled : e.k = "event"}}

\* What a caller was told is stored stays in the file where the index says the
\* session is, through crashes and failing writes in mode OnWrite, and as long
\* as the process runs in mode None.  The one exception: an append behind a
\* line that was cut off destroys itself, and the cut entry.  And it is read
\* back from there as long as the store is up and no operation failed: a line
\* cut inside a character takes a failed write or a crash, keeps all of the file
\* from being read, and after a crash the store from being opened.
AckedKept ==
  (syncing \/ crashes = 0) =>
    /\ acked \subseteq Ids(Nodes(files[FilePath])) \cup Lost
    /\ op.kind # "down" /\ ~failed => ~Unreadable(files[FilePath])

\* No file has a node without its parent before it, whatever part of an
\* append is on the disk: when the file can be read, validate_graph does not
\* refuse the session.
ParentsKept ==
  \A p \in Dir : \A n \in 1 .. Len(Nodes(files[p])) :
    Nodes(files[p])[n].parent
      \in {None} \cup Lost \cup Ids(SubSeq(Nodes(files[p]), 1, n - 1))

\* The index, kept up by every operation, is what rebuild_index would read
\* from the files, when a store is up and no operation failed in it: what a save
\* leaves out because the index has it is in the file, and a session that was
\* deleted has no file that would bring it back.
IndexMirrorsFile ==
  (op = Idle /\ ~failed /\ spoiled = {}) =>
    IF index = None THEN \A p \in Dir : ~files[p].exists
    ELSE LET f == files[index.path]
             read == Parse(index.path, f)
         IN  /\ index.meta = read.meta /\ index.project = read.project
             /\ index.aux = read.aux /\ index.ids \cap Event = read.ids
             /\ \A q \in DOMAIN QueueOf(f) :
                  q \in DOMAIN queue /\ queue[q] = QueueOf(f)[q]

\* An item that dequeue handed out is not handed out again, not after a crash
\* either.
GivenOnce ==
  syncing => \A q \in QItem : given[q] <= 1 \/ QueueOp("dequeue", q) \in spoiled
=============================================================================
