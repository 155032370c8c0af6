------------------------- MODULE JsonlStore_proofs -------------------------
(***************************************************************************)
(* The JSONL backend for any number of callers, events, items and crashes: *)
(* its state is well-formed; an event a caller was told is stored stays in *)
(* the file, which can be read until an operation fails; no file has a     *)
(* node before its parent; an item that dequeue handed out is not handed   *)
(* out again; and the index in memory is what a reader of the file would   *)
(* find.                                                                   *)
(*                                                                         *)
(* These invariants carry this, each proved to hold of every state: Typed, *)
(* of every session; and, of a session whose messages name no directory    *)
(* (OneFile), so that its file does not move, Tracked (what is linked and  *)
(* what was acknowledged), Handled (the queue), Mirrors (the index) and    *)
(* Entire (what can be read).  They speak of the operation at work and of  *)
(* what it has not appended yet as much as of the file.                    *)
(***************************************************************************)
EXTENDS JsonlStore, FiniteSetTheorems, TLAPS

-----------------------------------------------------------------------------
(***************************************************************************)
(* The state                                                               *)
(***************************************************************************)

NodeLine == [k : {"event"}, id : Event, parent : Event \cup {None}, cwd : Where]
QueueLine == [k : QueueOps, id : QItem]
AuxLine == [k : AuxKind, id : Item]
RecordLine == [k : {"compact"}, id : Compact]
MarkLine == [k : {"header", "queue_reset", "reset_todo", "reset_plan"}] \cup Remnants
Line == NodeLine \cup MetaLine \cup QueueLine \cup AuxLine \cup RecordLine \cup MarkLine

File == [lines : Seq(Line), open : BOOLEAN, synced : Nat, exists : BOOLEAN]
FileOK(f) ==
  /\ f \in File /\ f.synced <= Len(f.lines)
  /\ f.open => f.lines # <<>>
  /\ f.lines # <<>> => f.exists
Session == [events : Seq(NodeLine), aux : [AuxKind -> SUBSET Item],
            compacts : Seq(Compact), stamp : Nat]
Entry == {l \in Line : l.k # "torn"}
States == {"pending", "processing", "cancelled"}
IsQueue(q) == DOMAIN q \in SUBSET QItem /\ \A x \in DOMAIN q : q[x] \in States

\* An operation; what next is depends on its kind.
Kinds == {"idle", "down", "save", "queue", "restore", "delete", "cleanup"}
IsOp(o) ==
  /\ o \in [kind : Kinds, path : Dir, appends : BOOLEAN, left : Seq(Line),
            next : {o.next}, acks : SUBSET Event, queue : {o.queue},
            item : QItem \cup {None}]
  /\ IsQueue(o.queue)
  /\ o.kind \in {"save", "queue"} => o.next \in Indexed \cup {None}
  /\ o.kind \notin {"save", "queue"} => o.left = <<>>
  /\ o.kind = "restore" => o.next \in Seq(Line) /\ o.next # <<>>
  /\ o.kind = "idle" => o = Idle

Typed ==
  /\ syncing \in BOOLEAN /\ failed \in BOOLEAN /\ clock \in Nat /\ crashes \in Nat
  /\ files \in [Dir -> File] /\ \A p \in Dir : FileOK(files[p])
  /\ index \in Indexed \cup {None} /\ IsQueue(queue)
  /\ held \in [Caller -> Session \cup {None}] /\ reading \in [Caller -> Dir \cup {None}]
  /\ IsOp(op)
  /\ made \in SUBSET (Event \cup QItem) /\ acked \in SUBSET Event
  /\ given \in [QItem -> Nat]

\* No message names a directory: the session stays in one file.
OneFile == Cwd = {}
Home == files[DefaultDir]
AtHome ==
  /\ \A p \in Dir \ {DefaultDir} : files[p] = NoFile
  /\ index # None => index.path = DefaultDir
  /\ op.path = DefaultDir
  /\ op.kind \in {"restore", "delete", "cleanup"} => index = None
  /\ op.kind \in {"save", "queue"} /\ op.next # None => op.next.path = DefaultDir

-----------------------------------------------------------------------------
(***************************************************************************)
(* Events: their parents, and what was acknowledged                        *)
(***************************************************************************)

EventPlaces(ls) == Places(ls, {"event"})
EventIds(ls) == {ls[n].id : n \in EventPlaces(ls)}
EarlierIds(ls, k) == {ls[n].id : n \in {n \in EventPlaces(ls) : n < k}}

\* Every parent is in B or stands before its child.
Linked(ls, B) == \A n \in EventPlaces(ls) : ls[n].parent \in B \cup EarlierIds(ls, n)

\* What a crash leaves (a stop of the process alone leaves all), what the
\* operation o will have appended, and what is kept or known to be spoiled.
SyncedIds(f) == {f.lines[n].id : n \in {n \in EventPlaces(f.lines) : n <= f.synced}}
Kept(f) == IF syncing THEN SyncedIds(f) ELSE EventIds(f.lines)
Coming(o, ls) == IF o.appends THEN EventIds(ls) \cup EventIds(o.left) ELSE {}
Saving(o) == o.kind \in {"save", "queue"}
Roots == {None} \cup Lost
Safe == Kept(Home) \cup Lost

\* The file, what an operation appends or publishes, and the sessions the
\* callers hold are linked; the leaf in the index is in the file.
LinkedHeld(h, B) == \A c \in Caller : h[c] # None => Linked(h[c].events, B)
LinkedOp(o, ls, B) ==
  /\ Linked(o.left, B \cup EventIds(ls))
  /\ o.kind = "restore" => Linked(o.next, B)
  /\ Saving(o) /\ o.next # None => o.next.leaf \in B \cup EventIds(ls) \cup EventIds(o.left)
Links ==
  /\ Linked(Home.lines, Roots)
  /\ LinkedOp(op, Home.lines, Roots)
  /\ LinkedHeld(held, Roots)
  /\ index # None => index.leaf \in Roots \cup EventIds(Home.lines)

\* What the index has, a save leaves out: it is safe.  What an operation will
\* report is safe, or among what it appends.
TrackedOp(o, S) ==
  /\ Saving(o) /\ o.next # None => o.next.ids \cap Event \subseteq S
  /\ o.kind = "restore" => o.acks \subseteq EventIds(o.next)
Acks ==
  /\ index # None => index.ids \cap Event \subseteq Safe
  /\ TrackedOp(op, Safe \cup Coming(op, Home.lines))
  /\ syncing \/ crashes = 0 =>
       /\ acked \subseteq Safe
       /\ Saving(op) => op.acks \subseteq Safe \cup Coming(op, Home.lines)
  /\ op.kind \in {"delete", "cleanup"} => acked = {}

Tracked == AtHome /\ Links /\ Acks

-----------------------------------------------------------------------------
(***************************************************************************)
(* The queue: what was handed out                                          *)
(***************************************************************************)

EnqueuedIds(ls) == {ls[n].id : n \in Places(ls, {"enqueue"})}
Enqs(ls, q) == {n \in Places(ls, {"enqueue"}) : ls[n].id = q}
Takes(ls, q) == {n \in Places(ls, {"dequeue"}) : ls[n].id = q}

\* Behind every enqueue of q, among the first k lines, stands a dequeue.
Settled(ls, q, k) == \A m \in Enqs(ls, q) : \E n \in Takes(ls, q) : m < n /\ n <= k

\* The ids in any queue or file are in made: an id that Enqueue or
\* RestoreBundle draws is new.
Makes ==
  /\ DOMAIN queue \subseteq made /\ DOMAIN op.queue \subseteq made
  /\ EnqueuedIds(Home.lines) \subseteq made /\ EnqueuedIds(op.left) \subseteq made
  /\ op.kind = "restore" => EnqueuedIds(op.next) \subseteq made

\* q was handed out, and nothing brings it back.
NotPending(s, q) == q \in DOMAIN s => s[q] # "pending"
DoneBy(o, q) ==
  /\ NotPending(o.queue, q) /\ q \notin EnqueuedIds(o.left) /\ o.item # q
  /\ o.kind = "restore" => q \notin EnqueuedIds(o.next)
Done(q) ==
  /\ q # None /\ q \in made /\ given[q] <= 1 /\ NotPending(queue, q)
  /\ Settled(Home.lines, q, Home.synced) /\ DoneBy(op, q)

\* The operation is about to hand q out, for the first time.
TakingBy(o, q) ==
  /\ NotPending(o.queue, q) /\ o.appends = TRUE /\ q \notin EnqueuedIds(o.left)
Taking(q) ==
  /\ TakingBy(op, q) /\ q \in made /\ given[q] = 0
  /\ IF op.left = <<>> THEN Home.lines # <<>> /\ Last(Home.lines) = QueueOp("dequeue", q)
     ELSE Last(op.left) = QueueOp("dequeue", q)
Handed ==
  syncing => \A q \in QItem :
    QueueOp("dequeue", q) \notin spoiled =>
       /\ given[q] >= 1 => Done(q)
       /\ q # None /\ op.item = q => Taking(q)

Handled == Makes /\ Handed

-----------------------------------------------------------------------------
(***************************************************************************)
(* The index: what a reader of the file would find                         *)
(***************************************************************************)

MetaIn(ls) == LET metas == Places(ls, {"meta"}) IN IF metas = {} THEN None ELSE ls[Max(metas)]
AuxIn(ls, a) == {ls[n].id : n \in AfterReset(ls, Reset(a).k, {a})}
QueuedIn(ls) == {ls[n].id : n \in AfterReset(ls, "queue_reset", {"enqueue"})}
OpsOf(ls, q) == {n \in AfterReset(ls, "queue_reset", QueueOps) : ls[n].id = q}
StateIn(ls, q) == QueueState[ls[Max(OpsOf(ls, q))].k]
MirrorsQueue(s, ls) == \A q \in QueuedIn(ls) : q \in DOMAIN s /\ s[q] = StateIn(ls, q)

\* What is read from the lines x: the last metadata, the lists beside the
\* graph, the events, and no more of the queue than is in memory.
Reads(x, m, aux, ids, s) ==
  /\ x \in Seq(Line) /\ MetaIn(x) = m /\ EventIds(x) = ids
  /\ \A a \in AuxKind : AuxIn(x, a) = aux[a]
  /\ MirrorsQueue(s, x)

\* The index i and the queue s are what is read from the lines x: now, and
\* from the file with what the operation o has not appended yet.
MirroredBy(x, i, s) == Reads(x, i.meta, i.aux, i.ids \cap Event, s)
Mirrored(f, o) ==
  IF o.next = None THEN ~f.exists /\ o.left = <<>>
  ELSE MirroredBy(f.lines \o o.left, o.next, o.queue)
Mirrors ==
  ~failed /\ spoiled = {} =>
    /\ op.kind = "idle" =>
         IF index = None THEN ~Home.exists ELSE MirroredBy(Home.lines, index, queue)
    /\ Saving(op) => Mirrored(Home, op)

-----------------------------------------------------------------------------
(***************************************************************************)
(* Lists                                                                   *)
(***************************************************************************)

\* The rank of a place among the places in P: 1 for the first, and so on.
Rank(P, n) == Cardinality({m \in P : m <= n})

Ranked(P) ==
  /\ Cardinality(P) \in Nat
  /\ \A n \in P : Rank(P, n) \in 1..Cardinality(P)
  /\ \A i \in 1..Cardinality(P) : \E n \in P : Rank(P, n) = i
  /\ \A m, n \in P : Rank(P, m) = Rank(P, n) => m = n
  /\ \A m, n \in P : m < n => Rank(P, m) < Rank(P, n)

\* Each of the ranks from 1 to the number of places belongs to one place.
LEMMA Ranks ==
  ASSUME NEW N \in Nat, NEW P \in SUBSET (1..N)
  PROVE  Ranked(P)
<1>1. IsFiniteSet(P) /\ Cardinality(P) \in Nat
  <2>1. IsFiniteSet(1..N)
    BY FS_Interval
  <2>2. IsFiniteSet(P)
    BY <2>1, FS_Subset
  <2> QED  BY <2>2, FS_CardinalityType
<1> DEFINE upto(n) == {m \in P : m <= n}
<1>2. ASSUME NEW n \in P
      PROVE  /\ IsFiniteSet(upto(n))
             /\ Rank(P, n) \in 1..Cardinality(P)
  <2>1. /\ IsFiniteSet(upto(n)) /\ Cardinality(upto(n)) <= Cardinality(P)
        /\ Cardinality(upto(n)) \in Nat
    BY <1>1, FS_Subset, FS_CardinalityType
  <2>2. n \in upto(n)
    OBVIOUS
  <2>3. Cardinality(upto(n)) # 0
    BY <2>1, <2>2, FS_EmptySet
  <2> QED  BY <1>1, <2>1, <2>3 DEF Rank
<1>3. ASSUME NEW m \in P, NEW n \in P, m < n
      PROVE  Rank(P, m) < Rank(P, n)
  <2>1. upto(m) \in SUBSET upto(n) /\ n \in upto(n) /\ n \notin upto(m)
    <3>1. P \subseteq Int /\ m \in Int /\ n \in Int
      OBVIOUS
    <3>2. \A x \in P : x <= m => x <= n
      BY <1>3, <3>1
    <3>3. n <= n /\ ~(n <= m)
      BY <1>3, <3>1
    <3> QED  BY <3>2, <3>3
  <2>2. IsFiniteSet(upto(n)) /\ IsFiniteSet(upto(m))
    BY <1>2
  <2> DEFINE A == upto(m)
             B == upto(n)
  <2>3. Cardinality(A) <= Cardinality(B) /\ Cardinality(A) # Cardinality(B)
    <3>1. A \in SUBSET B /\ A # B /\ IsFiniteSet(B)
      BY <2>1, <2>2
    <3> HIDE DEF A, B
    <3> QED  BY <3>1, FS_Subset
  <2>4. Cardinality(upto(m)) \in Nat /\ Cardinality(upto(n)) \in Nat
    BY <2>2, FS_CardinalityType
  <2>5. Rank(P, m) = Cardinality(upto(m)) /\ Rank(P, n) = Cardinality(upto(n))
    BY DEF Rank
  <2> HIDE DEF upto
  <2> QED  BY <2>3, <2>4, <2>5
<1>4. \A m, n \in P : Rank(P, m) = Rank(P, n) => m = n
  <2> SUFFICES ASSUME NEW m \in P, NEW n \in P, Rank(P, m) = Rank(P, n), m # n PROVE FALSE
    OBVIOUS
  <2>1. m < n \/ n < m
    OBVIOUS
  <2>2. Rank(P, m) \in 1..Cardinality(P) /\ Rank(P, n) \in 1..Cardinality(P)
    BY <1>2
  <2> QED  BY <1>1, <1>3, <2>1, <2>2
<1> DEFINE rank == [n \in P |-> Rank(P, n)]
           R == 1..Cardinality(P)
<1>5. rank \in Injection(P, R)
  BY <1>2, <1>4 DEF Injection, IsInjective
<1>6. IsFiniteSet(R) /\ Cardinality(R) = Cardinality(P)
  BY <1>1, FS_Interval
<1>7. rank \in Surjection(P, R)
  BY <1>5, <1>6, FS_Injection
<1>8. \A i \in R : \E n \in P : Rank(P, n) = i
  BY <1>7 DEF Surjection
<1> QED  BY <1>1, <1>2, <1>3, <1>4, <1>8 DEF Ranked

\* A list of picked elements has them at the places in P, in their order.
LEMMA PickedAt ==
  ASSUME NEW T, NEW s \in Seq(T), NEW P \in SUBSET DOMAIN s
  PROVE  /\ Picked(s, P) \in Seq(T) /\ Len(Picked(s, P)) = Cardinality(P)
         /\ \E at \in [1..Cardinality(P) -> P] :
              /\ \A i \in 1..Cardinality(P) : Picked(s, P)[i] = s[at[i]]
              /\ \A n \in P : \E i \in 1..Cardinality(P) : at[i] = n
              /\ \A i, j \in 1..Cardinality(P) : at[i] < at[j] => i < j
<1>1. Len(s) \in Nat /\ P \in SUBSET (1..Len(s))
  OBVIOUS
<1>r. Ranked(P)
  BY <1>1, Ranks
<1>2. /\ Cardinality(P) \in Nat
      /\ \A n \in P : Rank(P, n) \in 1..Cardinality(P)
      /\ \A i \in 1..Cardinality(P) : \E n \in P : Rank(P, n) = i
      /\ \A m, n \in P : Rank(P, m) = Rank(P, n) => m = n
      /\ \A m, n \in P : m < n => Rank(P, m) < Rank(P, n)
  BY <1>r DEF Ranked
<1> DEFINE at == [i \in 1..Cardinality(P) |-> CHOOSE n \in P : Rank(P, n) = i]
<1>3. Picked(s, P) = [i \in 1..Cardinality(P) |-> s[at[i]]]
  BY DEF Picked, Rank
<1>4. \A i \in 1..Cardinality(P) : at[i] \in P /\ Rank(P, at[i]) = i
  BY <1>2
<1>a. at \in [1..Cardinality(P) -> P]
  BY <1>4
<1> HIDE DEF at
<1>5. \A i \in 1..Cardinality(P) : Picked(s, P)[i] = s[at[i]]
  BY <1>3
<1>6. DOMAIN Picked(s, P) = 1..Cardinality(P)
  BY <1>3
<1>7. Picked(s, P) \in Seq(T) /\ Len(Picked(s, P)) = Cardinality(P)
  BY <1>1, <1>2, <1>3, <1>4
<1>8. ASSUME NEW n \in P PROVE \E i \in 1..Cardinality(P) : at[i] = n
  BY <1>2, <1>4
<1>9. \A i, j \in 1..Cardinality(P) : at[i] < at[j] => i < j
  BY <1>2, <1>4
<1> QED  BY <1>a, <1>5, <1>7, <1>8, <1>9

\* The lines of s at P are picked in the order of their places.
PicksInOrder(s, P) ==
  \E at \in [1..Cardinality(P) -> P] :
    /\ \A i \in 1..Cardinality(P) : Picked(s, P)[i] = s[at[i]]
    /\ \A n \in P : \E i \in 1..Cardinality(P) : at[i] = n
    /\ \A i, j \in 1..Cardinality(P) : at[i] < at[j] => i < j

LEMMA LinesPicked ==
  ASSUME NEW s \in Seq(Line), NEW P \in SUBSET DOMAIN s
  PROVE  Picked(s, P) \in Seq(Line) /\ Len(Picked(s, P)) = Cardinality(P) /\ PicksInOrder(s, P)
BY PickedAt DEF PicksInOrder

\* The list of a set has its elements, and no others.
LEMMA ListedSet ==
  ASSUME NEW S, IsFiniteSet(S)
  PROVE  /\ Cardinality(S) \in Nat
         /\ SetToSeq(S) \in [1..Cardinality(S) -> S]
         /\ \A x \in S : \E n \in 1..Cardinality(S) : SetToSeq(S)[n] = x
<1> DEFINE D == 1..Cardinality(S)
<1>1. Cardinality(S) \in Nat /\ \E f : f \in Bijection(D, S)
  BY FS_CardinalityType DEF ExistsBijection
<1>2. PICK f : f \in Bijection(D, S)
  BY <1>1
<1>3. f \in [D -> S] /\ IsInjective(f)
  BY <1>2 DEF Bijection, Injection, IsInjective
<1>4. SetToSeq(S) \in [D -> S] /\ IsInjective(SetToSeq(S))
  BY <1>3 DEF SetToSeq
<1>5. SetToSeq(S) \in Injection(D, S)
  BY <1>4 DEF Injection, IsInjective
<1>6. IsFiniteSet(D) /\ Cardinality(D) = Cardinality(S)
  BY <1>1, FS_Interval
<1>7. SetToSeq(S) \in Surjection(D, S)
  BY <1>5, <1>6, FS_Injection
<1> QED  BY <1>1, <1>4, <1>7 DEF Surjection

\* Where the entries of some kinds stand in two lists, and in the two joined.
JoinedAt(x, y, ks) ==
  /\ x \in Seq(Line) /\ y \in Seq(Line) /\ x \o y \in Seq(Line)
  /\ Len(x) \in Nat /\ Len(y) \in Nat /\ Len(x \o y) = Len(x) + Len(y)
  /\ Places(x, ks) \subseteq 1 .. Len(x) /\ Places(y, ks) \subseteq 1 .. Len(y)
  /\ \A n \in Places(x, ks) : n \in Places(x \o y, ks) /\ (x \o y)[n] = x[n]
  /\ \A n \in Places(y, ks) :
       Len(x) + n \in Places(x \o y, ks) /\ (x \o y)[Len(x) + n] = y[n]
  /\ \A n \in Places(x \o y, ks) :
       /\ n \in Nat
       /\ \/ n \in Places(x, ks) /\ (x \o y)[n] = x[n] /\ n <= Len(x)
          \/ n - Len(x) \in Places(y, ks) /\ n > Len(x) /\ (x \o y)[n] = y[n - Len(x)]

LEMMA PlacesJoin ==
  ASSUME NEW x \in Seq(Line), NEW y \in Seq(Line), NEW ks
  PROVE  JoinedAt(x, y, ks)
<1>1. x \o y \in Seq(Line) /\ Len(x \o y) = Len(x) + Len(y) /\ Len(x) \in Nat /\ Len(y) \in Nat
  OBVIOUS
<1>2. ASSUME NEW n \in Places(x, ks)
      PROVE  n \in Places(x \o y, ks) /\ (x \o y)[n] = x[n] /\ n \in 1 .. Len(x)
  BY DEF Places
<1>3. ASSUME NEW n \in Places(y, ks)
      PROVE  /\ Len(x) + n \in Places(x \o y, ks) /\ (x \o y)[Len(x) + n] = y[n]
             /\ n \in 1 .. Len(y)
  BY DEF Places
<1>4. ASSUME NEW n \in Places(x \o y, ks)
      PROVE  /\ n \in Nat
             /\ \/ n \in Places(x, ks) /\ (x \o y)[n] = x[n] /\ n <= Len(x)
                \/ n - Len(x) \in Places(y, ks) /\ n > Len(x) /\ (x \o y)[n] = y[n - Len(x)]
  BY DEF Places
<1>5. Places(x, ks) \subseteq 1 .. Len(x) /\ Places(y, ks) \subseteq 1 .. Len(y)
  BY <1>2, <1>3
<1>6. \A n \in Places(x, ks) : n \in Places(x \o y, ks) /\ (x \o y)[n] = x[n]
  BY <1>2
<1>7. \A n \in Places(y, ks) :
         Len(x) + n \in Places(x \o y, ks) /\ (x \o y)[Len(x) + n] = y[n]
  BY <1>3
<1>8. \A n \in Places(x \o y, ks) :
       /\ n \in Nat
       /\ \/ n \in Places(x, ks) /\ (x \o y)[n] = x[n] /\ n <= Len(x)
          \/ n - Len(x) \in Places(y, ks) /\ n > Len(x) /\ (x \o y)[n] = y[n - Len(x)]
  BY <1>4
<1> QED  BY <1>1, <1>5, <1>6, <1>7, <1>8, Zenon DEF JoinedAt

LEMMA EventIdsJoin ==
  ASSUME NEW x \in Seq(Line), NEW y \in Seq(Line)
  PROVE  EventIds(x \o y) = EventIds(x) \cup EventIds(y)
<1>0. JoinedAt(x, y, {"event"})
  BY PlacesJoin
<1>1. ASSUME NEW n \in EventPlaces(x) PROVE x[n].id \in EventIds(x \o y)
  BY <1>0 DEF EventIds, EventPlaces, JoinedAt
<1>2. ASSUME NEW n \in EventPlaces(y) PROVE y[n].id \in EventIds(x \o y)
  BY <1>0 DEF EventIds, EventPlaces, JoinedAt
<1>3. ASSUME NEW n \in EventPlaces(x \o y) PROVE (x \o y)[n].id \in EventIds(x) \cup EventIds(y)
  BY <1>0 DEF EventIds, EventPlaces, JoinedAt
<1>4. EventIds(x) \subseteq EventIds(x \o y) /\ EventIds(y) \subseteq EventIds(x \o y)
  BY <1>1, <1>2 DEF EventIds
<1>5. EventIds(x \o y) \subseteq EventIds(x) \cup EventIds(y)
  BY <1>3 DEF EventIds
<1> QED  BY <1>4, <1>5

LEMMA LinkedMore ==
  ASSUME NEW ls, NEW B, NEW C, B \subseteq C, Linked(ls, B)
  PROVE  Linked(ls, C)
  BY DEF Linked

LEMMA LinkedJoin ==
  ASSUME NEW x \in Seq(Line), NEW y \in Seq(Line), NEW B,
         Linked(x, B), Linked(y, B \cup EventIds(x))
  PROVE  Linked(x \o y, B)
<1> SUFFICES ASSUME NEW n \in EventPlaces(x \o y)
             PROVE  (x \o y)[n].parent \in B \cup EarlierIds(x \o y, n)
  BY DEF Linked
<1>j. JoinedAt(x, y, {"event"})
  BY PlacesJoin
<1>0. n \in Nat /\ Len(x) \in Nat
  BY <1>j DEF JoinedAt, EventPlaces
<1>a. ASSUME NEW m \in EventPlaces(x)
      PROVE  m \in EventPlaces(x \o y) /\ (x \o y)[m] = x[m] /\ m \in Nat /\ m <= Len(x)
  BY <1>j DEF JoinedAt, EventPlaces
<1>1. CASE n \in EventPlaces(x) /\ (x \o y)[n] = x[n] /\ n <= Len(x)
  <2>1. EarlierIds(x, n) \subseteq EarlierIds(x \o y, n)
    BY <1>a DEF EarlierIds
  <2> QED  BY <1>1, <2>1 DEF Linked
<1>2. CASE n - Len(x) \in EventPlaces(y) /\ n > Len(x) /\ (x \o y)[n] = y[n - Len(x)]
  <2>1. EventIds(x) \subseteq EarlierIds(x \o y, n)
    <3>1. \A m \in EventPlaces(x) : m < n
      BY <1>0, <1>2, <1>a
    <3> QED  BY <3>1, <1>a DEF EventIds, EarlierIds
  <2>2. EarlierIds(y, n - Len(x)) \subseteq EarlierIds(x \o y, n)
    <3>1. ASSUME NEW m \in EventPlaces(y), m < n - Len(x)
          PROVE  y[m].id \in EarlierIds(x \o y, n)
      <4>1. /\ m \in Nat
            /\ Len(x) + m \in EventPlaces(x \o y) /\ (x \o y)[Len(x) + m] = y[m]
        BY <1>j DEF JoinedAt, EventPlaces
      <4>2. Len(x) + m < n
        BY <1>0, <3>1, <4>1
      <4> QED  BY <4>1, <4>2 DEF EarlierIds
    <3> QED  BY <3>1 DEF EarlierIds
  <2>3. y[n - Len(x)].parent \in B \cup EventIds(x) \cup EarlierIds(y, n - Len(x))
    BY <1>2 DEF Linked
  <2> QED  BY <1>2, <2>1, <2>2, <2>3
<1> QED
  BY <1>1, <1>2, <1>j DEF JoinedAt, EventPlaces

\* The other way round: a linked list in two parts.
LEMMA LinkedParts ==
  ASSUME NEW x \in Seq(Line), NEW y \in Seq(Line), NEW B, Linked(x \o y, B)
  PROVE  Linked(x, B) /\ Linked(y, B \cup EventIds(x))
<1>j. JoinedAt(x, y, {"event"})
  BY PlacesJoin
<1>0. Len(x) \in Nat
  OBVIOUS
<1>b. ASSUME NEW m \in EventPlaces(x \o y)
      PROVE  /\ m \in Nat
             /\ \/ m \in EventPlaces(x) /\ (x \o y)[m] = x[m] /\ m <= Len(x)
                \/ m - Len(x) \in EventPlaces(y) /\ m > Len(x) /\ (x \o y)[m] = y[m - Len(x)]
  BY <1>j DEF JoinedAt, EventPlaces
<1>1. ASSUME NEW n \in EventPlaces(x) PROVE x[n].parent \in B \cup EarlierIds(x, n)
  <2>1. n \in EventPlaces(x \o y) /\ (x \o y)[n] = x[n] /\ n \in Nat /\ n <= Len(x)
    BY <1>j DEF JoinedAt, EventPlaces
  <2>2. EarlierIds(x \o y, n) \subseteq EarlierIds(x, n)
    <3>1. ASSUME NEW m \in EventPlaces(x \o y), m < n
          PROVE  (x \o y)[m].id \in EarlierIds(x, n)
      <4>1. m \in EventPlaces(x) /\ (x \o y)[m] = x[m]
        <5>1. /\ m \in Nat
              /\ \/ m \in EventPlaces(x) /\ (x \o y)[m] = x[m] /\ m <= Len(x)
                 \/ m - Len(x) \in EventPlaces(y) /\ m > Len(x) /\ (x \o y)[m] = y[m - Len(x)]
          BY <1>b
        <5>2. ~(m > Len(x))
          BY <1>0, <2>1, <3>1, <5>1
        <5> QED  BY <5>1, <5>2
      <4> QED  BY <3>1, <4>1 DEF EarlierIds
    <3> QED  BY <3>1 DEF EarlierIds
  <2> QED  BY <2>1, <2>2 DEF Linked
<1>2. ASSUME NEW n \in EventPlaces(y)
      PROVE  y[n].parent \in B \cup EventIds(x) \cup EarlierIds(y, n)
  <2>1. /\ Len(x) + n \in EventPlaces(x \o y) /\ (x \o y)[Len(x) + n] = y[n]
        /\ n \in Nat
    BY <1>j DEF JoinedAt, EventPlaces
  <2>2. EarlierIds(x \o y, Len(x) + n) \subseteq EventIds(x) \cup EarlierIds(y, n)
    <3>1. ASSUME NEW m \in EventPlaces(x \o y), m < Len(x) + n
          PROVE  (x \o y)[m].id \in EventIds(x) \cup EarlierIds(y, n)
      <4>1. CASE m \in EventPlaces(x) /\ (x \o y)[m] = x[m]
        BY <4>1 DEF EventIds
      <4>2. CASE m - Len(x) \in EventPlaces(y) /\ (x \o y)[m] = y[m - Len(x)]
        <5>1. m - Len(x) < n
          BY <1>0, <1>b, <2>1, <3>1
        <5> QED  BY <4>2, <5>1 DEF EarlierIds
      <4>3. \/ m \in EventPlaces(x) /\ (x \o y)[m] = x[m] /\ m <= Len(x)
            \/ m - Len(x) \in EventPlaces(y) /\ m > Len(x) /\ (x \o y)[m] = y[m - Len(x)]
        BY <1>b
      <4> QED  BY <4>1, <4>2, <4>3
    <3> QED  BY <3>1 DEF EarlierIds
  <2> QED  BY <2>1, <2>2 DEF Linked
<1> QED  BY <1>1, <1>2 DEF Linked

\* A list without events.
LEMMA Eventless ==
  ASSUME NEW ls, EventPlaces(ls) = {}
  PROVE  EventIds(ls) = {} /\ \A B : Linked(ls, B)
  BY DEF EventIds, Linked

\* The largest of some places: the one whose rank is their number.
LEMMA LargestIs ==
  ASSUME NEW N \in Nat, NEW P \in SUBSET (1..N), P # {}
  PROVE  Max(P) \in P /\ \A m \in P : m <= Max(P)
<1>1. /\ Cardinality(P) \in Nat
      /\ \A n \in P : Rank(P, n) \in 1..Cardinality(P)
      /\ \A i \in 1..Cardinality(P) : \E n \in P : Rank(P, n) = i
      /\ \A m, n \in P : m < n => Rank(P, m) < Rank(P, n)
  <2>1. Ranked(P)
    BY Ranks
  <2> QED  BY <2>1 DEF Ranked
<1>2. Cardinality(P) \in 1..Cardinality(P)
  <2>1. PICK m \in P : TRUE
    OBVIOUS
  <2>2. Rank(P, m) \in 1..Cardinality(P)
    BY <1>1
  <2> QED  BY <1>1, <2>2
<1>3. PICK n \in P : Rank(P, n) = Cardinality(P)
  BY <1>1, <1>2
<1>4. \A m \in P : n >= m
  <2> SUFFICES ASSUME NEW m \in P, n < m PROVE FALSE
    OBVIOUS
  <2> QED  BY <1>1, <1>3
<1>5. Max(P) \in P /\ \A m \in P : Max(P) >= m
  BY <1>3, <1>4 DEF Max
<1> QED  BY <1>5

LEMMA LargestOnly ==
  ASSUME NEW N \in Nat, NEW P \in SUBSET (1..N), NEW n \in P, \A m \in P : m <= n
  PROVE  Max(P) = n
<1>1. Max(P) \in P /\ \A m \in P : m <= Max(P)
  BY LargestIs
<1>2. Max(P) \in 1..N /\ n \in 1..N /\ n <= Max(P)
  BY <1>1
<1>3. Max(P) <= n
  BY <1>1
<1> DEFINE m == Max(P)
<1> HIDE DEF m
<1>4. m \in 1..N /\ n \in 1..N /\ n <= m /\ m <= n
  BY <1>2, <1>3 DEF m
<1>5. m = n
  BY <1>4
<1> QED  BY <1>5 DEF m

\* What stands after the last reset of two joined lists.
AfterAt(x, y, r, ks) ==
  /\ Len(x) \in Nat
  /\ AfterReset(x, r, ks) \subseteq 1 .. Len(x)
  /\ AfterReset(y, r, ks) \subseteq 1 .. Len(y)
  /\ AfterReset(x \o y, r, ks) \subseteq 1 .. Len(x) + Len(y)
  /\ \A n \in AfterReset(y, r, ks) :
       Len(x) + n \in AfterReset(x \o y, r, ks) /\ (x \o y)[Len(x) + n] = y[n]
  /\ Places(y, {r}) = {} => \A n \in AfterReset(x, r, ks) :
       n \in AfterReset(x \o y, r, ks) /\ (x \o y)[n] = x[n]
  /\ \A n \in AfterReset(x \o y, r, ks) :
       \/ /\ Places(y, {r}) = {} /\ n \in AfterReset(x, r, ks)
          /\ (x \o y)[n] = x[n] /\ n <= Len(x)
       \/ /\ n - Len(x) \in AfterReset(y, r, ks)
          /\ n > Len(x) /\ (x \o y)[n] = y[n - Len(x)]

LEMMA AfterJoin ==
  ASSUME NEW x \in Seq(Line), NEW y \in Seq(Line), NEW r, NEW ks
  PROVE  AfterAt(x, y, r, ks)
<1>j. JoinedAt(x, y, ks)
  BY PlacesJoin
<1>k. JoinedAt(x, y, {r})
  BY PlacesJoin
<1>l. Len(x) \in Nat /\ Len(y) \in Nat /\ Len(x \o y) = Len(x) + Len(y)
  OBVIOUS
<1>r. ASSUME NEW m \in Places(x \o y, {r})
      PROVE  /\ m \in Nat
             /\ \/ m \in Places(x, {r}) /\ m <= Len(x)
                \/ m - Len(x) \in Places(y, {r}) /\ m > Len(x)
  BY <1>k DEF JoinedAt
<1>x. ASSUME NEW m \in Places(x, {r}) PROVE m \in Places(x \o y, {r}) /\ m \in Nat /\ m <= Len(x)
  <2>1. m \in 1 .. Len(x) /\ m \in Places(x \o y, {r})
    BY <1>k DEF JoinedAt
  <2> QED  BY <1>l, <2>1
<1>y. ASSUME NEW m \in Places(y, {r}) PROVE Len(x) + m \in Places(x \o y, {r}) /\ m \in Nat
  <2>1. m \in 1 .. Len(y) /\ Len(x) + m \in Places(x \o y, {r})
    BY <1>k DEF JoinedAt
  <2> QED  BY <1>l, <2>1
<1>1. ASSUME NEW n \in AfterReset(y, r, ks)
      PROVE  Len(x) + n \in AfterReset(x \o y, r, ks) /\ (x \o y)[Len(x) + n] = y[n]
  <2>1. /\ n \in Places(y, ks) /\ n \in Nat /\ n >= 1
        /\ Len(x) + n \in Places(x \o y, ks) /\ (x \o y)[Len(x) + n] = y[n]
    BY <1>j DEF AfterReset, JoinedAt
  <2>2. ASSUME NEW m \in Places(x \o y, {r}) PROVE m < Len(x) + n
    <3>1. CASE m \in Places(x, {r}) /\ m <= Len(x)
      <4>1. m \in Nat /\ n \in Nat /\ n >= 1 /\ m <= Len(x) /\ Len(x) \in Nat
        BY <1>l, <1>r, <2>1, <3>1
      <4> QED  BY <4>1
    <3>2. CASE m - Len(x) \in Places(y, {r})
      <4>1. m - Len(x) < n
        BY <3>2 DEF AfterReset
      <4>2. m \in Nat
        BY <1>r
      <4> QED  BY <1>l, <2>1, <4>1, <4>2
    <3> QED  BY <1>r, <3>1, <3>2
  <2> QED  BY <2>1, <2>2 DEF AfterReset
<1>2. ASSUME Places(y, {r}) = {}, NEW n \in AfterReset(x, r, ks)
      PROVE  n \in AfterReset(x \o y, r, ks) /\ (x \o y)[n] = x[n]
  <2>1. n \in Places(x \o y, ks) /\ (x \o y)[n] = x[n]
    BY <1>j DEF AfterReset, JoinedAt
  <2>2. ASSUME NEW m \in Places(x \o y, {r}) PROVE m < n
    <3>1. m \in Places(x, {r})
      BY <1>r, <1>2
    <3> QED  BY <3>1 DEF AfterReset
  <2> QED  BY <2>1, <2>2 DEF AfterReset
<1>3. ASSUME NEW n \in AfterReset(x \o y, r, ks)
      PROVE  \/ /\ Places(y, {r}) = {} /\ n \in AfterReset(x, r, ks)
                /\ (x \o y)[n] = x[n] /\ n <= Len(x)
             \/ /\ n - Len(x) \in AfterReset(y, r, ks)
                /\ n > Len(x) /\ (x \o y)[n] = y[n - Len(x)]
  <2>1. /\ n \in Nat
        /\ \/ n \in Places(x, ks) /\ (x \o y)[n] = x[n] /\ n <= Len(x)
           \/ n - Len(x) \in Places(y, ks) /\ n > Len(x) /\ (x \o y)[n] = y[n - Len(x)]
    BY <1>j DEF AfterReset, JoinedAt
  <2>2. \A m \in Places(x \o y, {r}) : m < n
    BY DEF AfterReset
  <2>3. CASE n \in Places(x, ks) /\ (x \o y)[n] = x[n] /\ n <= Len(x)
    <3>1. Places(y, {r}) = {}
      <4> SUFFICES ASSUME NEW m \in Places(y, {r}) PROVE FALSE
        OBVIOUS
      <4>1. Len(x) + m < n /\ m \in Nat
        BY <1>y, <2>2
      <4> QED  BY <1>l, <2>1, <2>3, <4>1
    <3>2. \A m \in Places(x, {r}) : m < n
      BY <1>x, <2>2
    <3> QED  BY <2>3, <3>1, <3>2 DEF AfterReset
  <2>4. CASE n - Len(x) \in Places(y, ks) /\ n > Len(x) /\ (x \o y)[n] = y[n - Len(x)]
    <3>1. ASSUME NEW m \in Places(y, {r}) PROVE m < n - Len(x)
      <4>1. Len(x) + m < n /\ m \in Nat
        BY <1>y, <2>2
      <4> QED  BY <1>l, <2>1, <4>1
    <3> QED  BY <2>4, <3>1 DEF AfterReset
  <2> QED  BY <2>1, <2>3, <2>4
<1>4. /\ AfterReset(x, r, ks) \subseteq 1 .. Len(x) /\ AfterReset(y, r, ks) \subseteq 1 .. Len(y)
      /\ AfterReset(x \o y, r, ks) \subseteq 1 .. Len(x) + Len(y)
  BY <1>l DEF AfterReset, Places
<1>5. \A n \in AfterReset(y, r, ks) :
       Len(x) + n \in AfterReset(x \o y, r, ks) /\ (x \o y)[Len(x) + n] = y[n]
  BY <1>1
<1>6. Places(y, {r}) = {} => \A n \in AfterReset(x, r, ks) :
       n \in AfterReset(x \o y, r, ks) /\ (x \o y)[n] = x[n]
  BY <1>2
<1>7. \A n \in AfterReset(x \o y, r, ks) :
       \/ /\ Places(y, {r}) = {} /\ n \in AfterReset(x, r, ks)
          /\ (x \o y)[n] = x[n] /\ n <= Len(x)
       \/ /\ n - Len(x) \in AfterReset(y, r, ks)
          /\ n > Len(x) /\ (x \o y)[n] = y[n - Len(x)]
  BY <1>3
<1> QED  BY <1>l, <1>4, <1>5, <1>6, <1>7, Zenon DEF AfterAt

\* What a reader makes of joined lists: the later part decides.
LEMMA AuxJoin ==
  ASSUME NEW x \in Seq(Line), NEW y \in Seq(Line), NEW a
  PROVE  AuxIn(x \o y, a) = IF Places(y, {Reset(a).k}) = {} THEN AuxIn(x, a) \cup AuxIn(y, a)
                            ELSE AuxIn(y, a)
<1> DEFINE r == Reset(a).k
<1>j. AfterAt(x, y, r, {a})
  BY AfterJoin
<1> HIDE DEF r
<1>1. ASSUME NEW n \in AfterReset(y, r, {a})
      PROVE  \E m \in AfterReset(x \o y, r, {a}) : (x \o y)[m] = y[n]
  BY <1>j DEF AfterAt
<1>2. ASSUME Places(y, {r}) = {}, NEW n \in AfterReset(x, r, {a})
      PROVE  n \in AfterReset(x \o y, r, {a}) /\ (x \o y)[n] = x[n]
  BY <1>j, <1>2 DEF AfterAt
<1>3. ASSUME NEW n \in AfterReset(x \o y, r, {a})
      PROVE  \/ Places(y, {r}) = {} /\ \E m \in AfterReset(x, r, {a}) : (x \o y)[n] = x[m]
             \/ \E m \in AfterReset(y, r, {a}) : (x \o y)[n] = y[m]
  BY <1>j DEF AfterAt
<1>4. AuxIn(x \o y, a) = {(x \o y)[n].id : n \in AfterReset(x \o y, r, {a})}
  BY DEF AuxIn, r
<1>5. AuxIn(x, a) = {x[n].id : n \in AfterReset(x, r, {a})}
  BY DEF AuxIn, r
<1>6. AuxIn(y, a) = {y[n].id : n \in AfterReset(y, r, {a})}
  BY DEF AuxIn, r
<1>7. AuxIn(y, a) \subseteq AuxIn(x \o y, a)
  BY <1>1, <1>4, <1>6
<1>8. Places(y, {r}) = {} => AuxIn(x, a) \subseteq AuxIn(x \o y, a)
  BY <1>2, <1>4, <1>5
<1>9. AuxIn(x \o y, a) \subseteq AuxIn(y, a) \cup (IF Places(y, {r}) = {} THEN AuxIn(x, a) ELSE {})
  BY <1>3, <1>4, <1>5, <1>6
<1> QED  BY <1>7, <1>8, <1>9 DEF r

LEMMA MetaJoin ==
  ASSUME NEW x \in Seq(Line), NEW y \in Seq(Line)
  PROVE  MetaIn(x \o y) = IF Places(y, {"meta"}) = {} THEN MetaIn(x) ELSE MetaIn(y)
<1> DEFINE X == Places(x, {"meta"})
           Y == Places(y, {"meta"})
           XY == Places(x \o y, {"meta"})
<1>j. JoinedAt(x, y, {"meta"})
  BY PlacesJoin
<1>l. Len(x) \in Nat /\ Len(y) \in Nat /\ Len(x \o y) = Len(x) + Len(y)
  OBVIOUS
<1>s. /\ X \in SUBSET (1 .. Len(x)) /\ Y \in SUBSET (1 .. Len(y))
      /\ XY \in SUBSET (1 .. Len(x) + Len(y))
  BY <1>l DEF Places
<1>x. \A n \in X : n \in XY /\ (x \o y)[n] = x[n]
  BY <1>j DEF JoinedAt
<1>y. \A n \in Y : Len(x) + n \in XY /\ (x \o y)[Len(x) + n] = y[n]
  BY <1>j DEF JoinedAt
<1>z. \A n \in XY : n \in X \/ (n - Len(x) \in Y /\ n > Len(x))
  BY <1>j DEF JoinedAt
<1>m. /\ MetaIn(x) = IF X = {} THEN None ELSE x[Max(X)]
      /\ MetaIn(y) = IF Y = {} THEN None ELSE y[Max(Y)]
      /\ MetaIn(x \o y) = IF XY = {} THEN None ELSE (x \o y)[Max(XY)]
  BY DEF MetaIn
<1> HIDE DEF X, Y, XY
<1>1. CASE Y = {}
  <2>1. X = XY
    BY <1>1, <1>x, <1>z
  <2>2. X # {} => Max(X) \in X
    BY <1>l, <1>s, LargestIs
  <2> QED  BY <1>1, <1>m, <1>x, <2>1, <2>2 DEF Y
<1>2. CASE Y # {}
  <2>1. Max(Y) \in Y /\ \A n \in Y : n <= Max(Y)
    BY <1>2, <1>l, <1>s, LargestIs
  <2> DEFINE k == Max(Y)
  <2> HIDE DEF k
  <2>2. k \in Y /\ k \in 1 .. Len(y) /\ \A n \in Y : n <= k
    BY <1>s, <2>1 DEF k
  <2>3. Len(x) + k \in XY /\ (x \o y)[Len(x) + k] = y[k]
    BY <1>y, <2>2
  <2>4. ASSUME NEW n \in XY PROVE n <= Len(x) + k
    <3>1. n \in 1 .. Len(x) + Len(y) /\ k \in Nat
      BY <1>s, <2>2
    <3>2. CASE n \in X
      <4>1. n \in 1 .. Len(x)
        BY <1>s, <3>2
      <4> QED  BY <1>l, <3>1, <4>1
    <3>3. CASE n - Len(x) \in Y
      <4>1. n - Len(x) <= k
        BY <2>2, <3>3
      <4> QED  BY <1>l, <3>1, <4>1
    <3> QED  BY <1>z, <3>2, <3>3
  <2>5. Max(XY) = Len(x) + k
    <3>1. Len(x) + Len(y) \in Nat
      BY <1>l
    <3> QED  BY <1>s, <2>3, <2>4, <3>1, LargestOnly
  <2>6. MetaIn(x \o y) = y[k]
    BY <1>m, <2>3, <2>5
  <2> QED  BY <1>2, <1>m, <2>6 DEF k, Y
<1> QED  BY <1>1, <1>2

QueueJoined(x, y) ==
  /\ Places(y, {"queue_reset"}) = {} => QueuedIn(x \o y) = QueuedIn(x) \cup QueuedIn(y)
  /\ Places(y, {"queue_reset"}) # {} => QueuedIn(x \o y) = QueuedIn(y)
  /\ \A q : OpsOf(y, q) # {} => StateIn(x \o y, q) = StateIn(y, q)
  /\ \A q : /\ Places(y, {"queue_reset"}) = {}
            /\ OpsOf(y, q) = {} /\ OpsOf(x, q) # {}
            => StateIn(x \o y, q) = StateIn(x, q)

LEMMA QueueJoin ==
  ASSUME NEW x \in Seq(Line), NEW y \in Seq(Line)
  PROVE  QueueJoined(x, y)
<1> DEFINE R == Places(y, {"queue_reset"})
<1>j. AfterAt(x, y, "queue_reset", QueueOps)
  BY AfterJoin
<1>e. AfterAt(x, y, "queue_reset", {"enqueue"})
  BY AfterJoin
<1>l. Len(x) \in Nat /\ Len(y) \in Nat /\ Len(x \o y) = Len(x) + Len(y)
  OBVIOUS
<1>1. /\ R = {} => QueuedIn(x \o y) = QueuedIn(x) \cup QueuedIn(y)
      /\ R # {} => QueuedIn(x \o y) = QueuedIn(y)
  <2> DEFINE A(ls) == AfterReset(ls, "queue_reset", {"enqueue"})
  <2>1. \A n \in A(y) : \E m \in A(x \o y) : (x \o y)[m] = y[n]
    BY <1>e DEF AfterAt
  <2>2. R = {} => \A n \in A(x) : n \in A(x \o y) /\ (x \o y)[n] = x[n]
    BY <1>e DEF AfterAt
  <2>3. ASSUME NEW n \in A(x \o y)
        PROVE  \/ R = {} /\ \E m \in A(x) : (x \o y)[n] = x[m]
               \/ \E m \in A(y) : (x \o y)[n] = y[m]
    BY <1>e DEF AfterAt
  <2>4. /\ QueuedIn(x \o y) = {(x \o y)[n].id : n \in A(x \o y)}
        /\ QueuedIn(x) = {x[n].id : n \in A(x)} /\ QueuedIn(y) = {y[n].id : n \in A(y)}
    BY DEF QueuedIn
  <2> HIDE DEF A, R
  <2>5. QueuedIn(y) \subseteq QueuedIn(x \o y)
    BY <2>1, <2>4
  <2>6. R = {} => QueuedIn(x) \subseteq QueuedIn(x \o y)
    BY <2>2, <2>4
  <2>7. QueuedIn(x \o y) \subseteq QueuedIn(y) \cup (IF R = {} THEN QueuedIn(x) ELSE {})
    BY <2>3, <2>4
  <2> QED  BY <2>5, <2>6, <2>7
<1> DEFINE O(ls) == AfterReset(ls, "queue_reset", QueueOps)
<1>o. /\ O(y) \subseteq 1 .. Len(y) /\ O(x) \subseteq 1 .. Len(x)
      /\ O(x \o y) \subseteq 1 .. Len(x) + Len(y)
  BY <1>j DEF AfterAt
<1>y. \A n \in O(y) : Len(x) + n \in O(x \o y) /\ (x \o y)[Len(x) + n] = y[n]
  BY <1>j DEF AfterAt
<1>x. R = {} => \A n \in O(x) : n \in O(x \o y) /\ (x \o y)[n] = x[n]
  BY <1>j DEF AfterAt
<1>z. \A n \in O(x \o y) :
        \/ R = {} /\ n \in O(x) /\ (x \o y)[n] = x[n]
        \/ n - Len(x) \in O(y) /\ n > Len(x) /\ (x \o y)[n] = y[n - Len(x)]
  BY <1>j DEF AfterAt
<1>d. \A ls, q : /\ OpsOf(ls, q) = {n \in O(ls) : ls[n].id = q}
                 /\ StateIn(ls, q) = QueueState[ls[Max(OpsOf(ls, q))].k]
  BY DEF OpsOf, StateIn
<1> HIDE DEF O, R
<1>2. ASSUME NEW q, OpsOf(y, q) # {}
      PROVE  StateIn(x \o y, q) = StateIn(y, q)
  <2> DEFINE P == OpsOf(y, q)
             k == Max(P)
             XY == OpsOf(x \o y, q)
  <2>1. P \in SUBSET (1 .. Len(y)) /\ XY \in SUBSET (1 .. Len(x) + Len(y)) /\ P \subseteq O(y)
    BY <1>o, <1>d
  <2> HIDE DEF XY, P
  <2>2. k \in P /\ \A n \in P : n <= k
    BY <1>2, <1>l, <2>1, LargestIs DEF P
  <2> HIDE DEF k
  <2>3. k \in 1 .. Len(y) /\ y[k].id = q /\ k \in O(y)
    <3>1. P = {n \in O(y) : y[n].id = q}
      BY <1>d DEF P
    <3> QED  BY <2>1, <2>2, <3>1
  <2>4. Len(x) + k \in XY /\ (x \o y)[Len(x) + k] = y[k]
    BY <1>y, <1>d, <2>3 DEF XY
  <2>5. ASSUME NEW n \in XY PROVE n <= Len(x) + k
    <3>0. n \in O(x \o y) /\ (x \o y)[n].id = q
      <4>1. XY = {m \in O(x \o y) : (x \o y)[m].id = q}
        BY <1>d DEF XY
      <4> QED  BY <4>1
    <3>1. n \in 1 .. Len(x) + Len(y) /\ k \in Nat /\ n \in O(x \o y) /\ (x \o y)[n].id = q
      BY <2>1, <2>3, <3>0
    <3>2. CASE n \in O(x)
      <4>1. n \in 1 .. Len(x)
        BY <1>o, <3>2
      <4> QED  BY <1>l, <3>1, <4>1
    <3>3. CASE n - Len(x) \in O(y) /\ (x \o y)[n] = y[n - Len(x)]
      <4>1. n - Len(x) \in P
        BY <1>d, <3>1, <3>3 DEF P
      <4>2. n - Len(x) <= k
        BY <2>2, <4>1
      <4> QED  BY <1>l, <3>1, <4>2
    <3> QED  BY <1>z, <3>1, <3>2, <3>3
  <2>6. Max(XY) = Len(x) + k
    <3>1. Len(x) + Len(y) \in Nat
      BY <1>l
    <3> QED  BY <2>1, <2>4, <2>5, <3>1, LargestOnly
  <2>7. StateIn(x \o y, q) = QueueState[y[k].k]
    BY <1>d, <2>4, <2>6 DEF XY
  <2> QED  BY <1>d, <2>7 DEF k, P
<1>3. ASSUME NEW q, R = {}, OpsOf(y, q) = {}, OpsOf(x, q) # {}
      PROVE  StateIn(x \o y, q) = StateIn(x, q)
  <2> DEFINE P == OpsOf(x, q)
  <2>1. P \in SUBSET (1 .. Len(x)) /\ P = {n \in O(x) : x[n].id = q}
    BY <1>o, <1>d
  <2>2. \A n \in P : n \in OpsOf(x \o y, q) /\ (x \o y)[n] = x[n]
    BY <1>3, <1>d, <1>x
  <2>3. OpsOf(x \o y, q) \subseteq P
    <3> SUFFICES ASSUME NEW n \in O(x \o y), (x \o y)[n].id = q PROVE n \in P
      BY <1>d
    <3>1. n - Len(x) \in O(y) /\ (x \o y)[n] = y[n - Len(x)] => n - Len(x) \in OpsOf(y, q)
      BY <1>d
    <3> QED  BY <1>3, <1>z, <2>1, <3>1
  <2>4. OpsOf(x \o y, q) = P
    BY <2>2, <2>3
  <2>5. Max(P) \in P
    <3> HIDE DEF P
    <3> QED  BY <1>3, <1>l, <2>1, LargestIs DEF P
  <2>6. (x \o y)[Max(P)] = x[Max(P)]
    BY <2>2, <2>5
  <2> QED  BY <1>d, <2>4, <2>6
<1>4. \A q : OpsOf(y, q) # {} => StateIn(x \o y, q) = StateIn(y, q)
  BY <1>2
<1>5. \A q : R = {} /\ OpsOf(y, q) = {} /\ OpsOf(x, q) # {}
              => StateIn(x \o y, q) = StateIn(x, q)
  BY <1>3
<1>6. R = Places(y, {"queue_reset"})
  BY DEF R
<1>7. \A q : /\ Places(y, {"queue_reset"}) = {}
             /\ OpsOf(y, q) = {} /\ OpsOf(x, q) # {}
             => StateIn(x \o y, q) = StateIn(x, q)
  BY <1>5, <1>6
<1>8. /\ Places(y, {"queue_reset"}) = {} => QueuedIn(x \o y) = QueuedIn(x) \cup QueuedIn(y)
      /\ Places(y, {"queue_reset"}) # {} => QueuedIn(x \o y) = QueuedIn(y)
  BY <1>1, <1>6
<1> QED  BY <1>4, <1>7, <1>8, Zenon DEF QueueJoined

-----------------------------------------------------------------------------
(***************************************************************************)
(* Types                                                                   *)
(***************************************************************************)

\* The kind of a line says what it is.
KindsAt(l) ==
  /\ l.k = "event" => l \in NodeLine
  /\ l.k = "meta" => l \in MetaLine
  /\ l.k \in QueueOps => l \in QueueLine
  /\ l.k \in AuxKind => l \in AuxLine
  /\ l.k = "compact" => l \in RecordLine

LEMMA LineKinds ==
  ASSUME NEW l \in Line
  PROVE  KindsAt(l)
<1>1. CASE l \in NodeLine
  <2>1. l.k = "event"
    BY <1>1 DEF NodeLine
  <2> QED  BY <1>1, <2>1, AuxAssumption DEF KindsAt, QueueOps
<1>2. CASE l \in MetaLine
  <2>1. l.k = "meta"
    BY <1>2 DEF MetaLine
  <2> QED  BY <1>2, <2>1, AuxAssumption DEF KindsAt, QueueOps
<1>3. CASE l \in QueueLine
  <2>1. l.k \in QueueOps
    BY <1>3 DEF QueueLine
  <2> QED  BY <1>3, <2>1, AuxAssumption DEF KindsAt, QueueOps
<1>4. CASE l \in AuxLine
  <2>1. l.k \in AuxKind
    BY <1>4 DEF AuxLine
  <2> QED  BY <1>4, <2>1, AuxAssumption DEF KindsAt, QueueOps
<1>5. CASE l \in RecordLine
  <2>1. l.k = "compact"
    BY <1>5 DEF RecordLine
  <2> QED  BY <1>5, <2>1, AuxAssumption DEF KindsAt, QueueOps
<1>6. CASE l \in MarkLine
  <2>1. l.k \in {"header", "torn", "queue_reset", "reset_todo", "reset_plan"}
    BY <1>6 DEF MarkLine, Remnants, Torn, Garbled
  <2> QED  BY <2>1, AuxAssumption DEF KindsAt, QueueOps
<1> QED  BY <1>1, <1>2, <1>3, <1>4, <1>5, <1>6 DEF Line

LEMMA PlacesTyped ==
  ASSUME NEW ls \in Seq(Line), NEW ks
  PROVE  /\ Len(ls) \in Nat
         /\ Places(ls, ks) \in SUBSET (1 .. Len(ls))
         /\ \A r : AfterReset(ls, r, ks) \subseteq Places(ls, ks)
         /\ \A n \in Places(ls, ks) : ls[n] \in Line /\ ls[n].k \in ks /\ KindsAt(ls[n])
<1>1. Len(ls) \in Nat /\ DOMAIN ls = 1 .. Len(ls)
  OBVIOUS
<1>2. Places(ls, ks) \in SUBSET (1 .. Len(ls))
  BY <1>1 DEF Places
<1>3. ASSUME NEW n \in Places(ls, ks)
      PROVE  ls[n] \in Line /\ ls[n].k \in ks /\ KindsAt(ls[n])
  <2>1. ls[n] \in Line /\ ls[n].k \in ks
    BY <1>1 DEF Places
  <2> QED  BY <2>1, LineKinds
<1>4. \A r : AfterReset(ls, r, ks) \subseteq Places(ls, ks)
  BY DEF AfterReset
<1> QED  BY <1>1, <1>2, <1>3, <1>4

LEMMA EventIdsTyped ==
  ASSUME NEW ls \in Seq(Line)
  PROVE  /\ EventIds(ls) \subseteq Event
         /\ \A n \in EventPlaces(ls) : ls[n] \in NodeLine
<1>1. \A n \in EventPlaces(ls) : ls[n].k \in {"event"} /\ KindsAt(ls[n])
  BY PlacesTyped DEF EventPlaces
<1>2. \A n \in EventPlaces(ls) : ls[n] \in NodeLine
  BY <1>1 DEF KindsAt
<1> QED  BY <1>2 DEF EventIds, NodeLine

\* The nodes of a file: the lines with events.
LEMMA NodesTyped ==
  ASSUME NEW f, f.lines \in Seq(Line)
  PROVE  /\ Nodes(f) \in Seq(NodeLine) /\ Ids(Nodes(f)) = EventIds(f.lines)
         /\ Len(Nodes(f)) = Cardinality(EventPlaces(f.lines))
<1> DEFINE ls == f.lines
           P == EventPlaces(ls)
<1>1. ls \in Seq(Line) /\ P \in SUBSET DOMAIN ls
  BY DEF EventPlaces, Places
<1>2. \A n \in P : ls[n] \in NodeLine
  BY EventIdsTyped
<1>3. Nodes(f) = Picked(ls, P)
  BY DEF Nodes, EventPlaces
<1> HIDE DEF ls, P
<1>4. /\ Nodes(f) \in Seq(Line) /\ Len(Nodes(f)) = Cardinality(P)
      /\ \E at \in [1..Cardinality(P) -> P] :
           /\ \A i \in 1..Cardinality(P) : Nodes(f)[i] = ls[at[i]]
           /\ \A n \in P : \E i \in 1..Cardinality(P) : at[i] = n
           /\ \A i, j \in 1..Cardinality(P) : at[i] < at[j] => i < j
  BY <1>1, <1>3, PickedAt
<1>5. PICK at \in [1..Cardinality(P) -> P] :
           /\ \A i \in 1..Cardinality(P) : Nodes(f)[i] = ls[at[i]]
           /\ \A n \in P : \E i \in 1..Cardinality(P) : at[i] = n
  BY <1>4
<1>6. DOMAIN Nodes(f) = 1..Cardinality(P)
  BY <1>4
<1>7. \A i \in 1..Len(Nodes(f)) : Nodes(f)[i] \in NodeLine
  BY <1>2, <1>4, <1>5
<1>8. Nodes(f) \in Seq(NodeLine)
  BY <1>4, <1>7
<1>9. Ids(Nodes(f)) = {ls[n].id : n \in P}
  <2>1. ASSUME NEW i \in 1..Cardinality(P) PROVE Nodes(f)[i].id \in {ls[n].id : n \in P}
    BY <1>5
  <2>2. ASSUME NEW n \in P PROVE \E i \in 1..Cardinality(P) : Nodes(f)[i].id = ls[n].id
    BY <1>5
  <2> QED  BY <1>6, <2>1, <2>2 DEF Ids
<1> QED  BY <1>4, <1>8, <1>9 DEF EventIds, ls, P

LEMMA RecordsTyped ==
  ASSUME NEW f, f.lines \in Seq(Line)
  PROVE  [n \in DOMAIN Records(f) |-> Records(f)[n].id] \in Seq(Compact)
<1> DEFINE ls == f.lines
           P == Places(ls, {"compact"})
<1>1. ls \in Seq(Line) /\ P \in SUBSET DOMAIN ls
  BY DEF Places
<1>2. \A n \in P : ls[n].k \in {"compact"} /\ KindsAt(ls[n])
  BY PlacesTyped
<1>3. \A n \in P : ls[n].id \in Compact
  BY <1>2 DEF KindsAt, RecordLine
<1>4. Records(f) = Picked(ls, P)
  BY DEF Records
<1> HIDE DEF P, ls
<1>5. /\ Records(f) \in Seq(Line) /\ Len(Records(f)) = Cardinality(P)
      /\ \E at \in [1..Cardinality(P) -> P] :
           /\ \A i \in 1..Cardinality(P) : Records(f)[i] = ls[at[i]]
           /\ \A n \in P : \E i \in 1..Cardinality(P) : at[i] = n
           /\ \A i, j \in 1..Cardinality(P) : at[i] < at[j] => i < j
  BY <1>1, <1>4, PickedAt
<1>6. \A i \in 1 .. Len(Records(f)) : Records(f)[i].id \in Compact
  <2>1. PICK at \in [1..Cardinality(P) -> P] :
           \A i \in 1..Cardinality(P) : Records(f)[i] = ls[at[i]]
    BY <1>5
  <2> QED  BY <1>3, <1>5, <2>1
<1> DEFINE s == Records(f)
<1>7. s \in Seq(Line) /\ \A i \in 1 .. Len(s) : s[i].id \in Compact
  BY <1>5, <1>6
<1> HIDE DEF s
<1>8. [n \in DOMAIN s |-> s[n].id] \in Seq(Compact)
  <2>1. DOMAIN s = 1 .. Len(s) /\ Len(s) \in Nat
    BY <1>7
  <2>2. [n \in 1 .. Len(s) |-> s[n].id] \in [1 .. Len(s) -> Compact]
    BY <1>7
  <2> QED  BY <2>1, <2>2
<1> QED  BY <1>8 DEF s

LEMMA AuxTyped ==
  ASSUME NEW f, f.lines \in Seq(Line)
  PROVE  AuxOf(f) \in [AuxKind -> SUBSET Item]
<1> SUFFICES ASSUME NEW a \in AuxKind, NEW n \in AfterReset(f.lines, Reset(a).k, {a})
             PROVE  f.lines[n].id \in Item
  BY DEF AuxOf
<1>1. n \in Places(f.lines, {a})
  BY DEF AfterReset
<1>2. f.lines[n].k \in {a} /\ KindsAt(f.lines[n])
  BY <1>1, PlacesTyped
<1> QED  BY <1>2 DEF KindsAt, AuxLine

LEMMA MetaTyped ==
  ASSUME NEW ls \in Seq(Line)
  PROVE  MetaIn(ls) \in {None} \cup MetaLine
<1>1. Len(ls) \in Nat /\ Places(ls, {"meta"}) \in SUBSET (1 .. Len(ls))
  BY PlacesTyped
<1>2. Places(ls, {"meta"}) # {} => Max(Places(ls, {"meta"})) \in Places(ls, {"meta"})
  BY <1>1, LargestIs
<1>3. \A n \in Places(ls, {"meta"}) : ls[n].k \in {"meta"} /\ KindsAt(ls[n])
  BY PlacesTyped
<1> QED  BY <1>2, <1>3 DEF MetaIn, KindsAt

\* The smallest of some places.
LEMMA SmallestIs ==
  ASSUME NEW N \in Nat, NEW P \in SUBSET (1..N), P # {}
  PROVE  Min(P) \in P
<1>1. /\ Cardinality(P) \in Nat
      /\ \A n \in P : Rank(P, n) \in 1..Cardinality(P)
      /\ \A i \in 1..Cardinality(P) : \E n \in P : Rank(P, n) = i
      /\ \A m, n \in P : m < n => Rank(P, m) < Rank(P, n)
  <2>1. Ranked(P)
    BY Ranks
  <2> QED  BY <2>1 DEF Ranked
<1>2. 1 \in 1..Cardinality(P)
  <2>1. PICK m \in P : TRUE
    OBVIOUS
  <2>2. Rank(P, m) \in 1..Cardinality(P)
    BY <1>1
  <2> QED  BY <1>1, <2>2
<1>3. PICK n \in P : Rank(P, n) = 1
  BY <1>1, <1>2
<1>4. \A m \in P : n <= m
  <2> SUFFICES ASSUME NEW m \in P, m < n PROVE FALSE
    OBVIOUS
  <2>1. Rank(P, m) < Rank(P, n) /\ Rank(P, m) \in 1 .. Cardinality(P)
    BY <1>1
  <2> QED  BY <1>1, <1>3, <2>1
<1>5. Min(P) \in P /\ \A m \in P : Min(P) <= m
  BY <1>3, <1>4 DEF Min
<1> QED  BY <1>5

LEMMA ProjectTyped ==
  ASSUME NEW f, f.lines \in Seq(Line)
  PROVE  ProjectOf(f) \in Where
<1> DEFINE metas == Places(f.lines, {"meta"})
           later == {n \in AfterReset(f.lines, "meta", {"event"}) : f.lines[n].cwd # None}
<1>1. /\ Len(f.lines) \in Nat /\ metas \in SUBSET (1 .. Len(f.lines))
      /\ \A n \in metas : f.lines[n].k \in {"meta"} /\ KindsAt(f.lines[n])
  BY PlacesTyped
<1>2. metas # {} => Max(metas) \in metas
  BY <1>1, LargestIs
<1>3. metas # {} => f.lines[Max(metas)].project \in Where
  BY <1>1, <1>2 DEF KindsAt, MetaLine
<1>4. /\ Places(f.lines, {"event"}) \in SUBSET (1 .. Len(f.lines))
      /\ AfterReset(f.lines, "meta", {"event"}) \subseteq Places(f.lines, {"event"})
      /\ \A n \in Places(f.lines, {"event"}) : f.lines[n].k \in {"event"} /\ KindsAt(f.lines[n])
  BY PlacesTyped
<1>5. later \in SUBSET (1 .. Len(f.lines)) /\ later \subseteq Places(f.lines, {"event"})
  BY <1>4
<1>6. later # {} => Min(later) \in later
  <2> HIDE DEF later
  <2> QED  BY <1>1, <1>5, SmallestIs
<1>7. later # {} => f.lines[Min(later)].cwd \in Where
  <2> SUFFICES ASSUME later # {} PROVE f.lines[Min(later)].cwd \in Where
    OBVIOUS
  <2>1. Min(later) \in Places(f.lines, {"event"})
    BY <1>5, <1>6
  <2>2. f.lines[Min(later)] \in NodeLine
    BY <1>4, <2>1 DEF KindsAt
  <2> QED  BY <2>2 DEF NodeLine
<1>8. ProjectOf(f) = IF metas # {} /\ f.lines[Max(metas)].project # None
                     THEN f.lines[Max(metas)].project
                     ELSE IF later = {} THEN None ELSE f.lines[Min(later)].cwd
  BY DEF ProjectOf
<1>9. None \in Where
  BY DEF Where
<1> HIDE DEF metas, later
<1> QED  BY <1>3, <1>7, <1>8, <1>9

LEMMA QueueTyped ==
  ASSUME NEW f, f.lines \in Seq(Line)
  PROVE  /\ IsQueue(QueueOf(f)) /\ DOMAIN QueueOf(f) = QueuedIn(f.lines)
         /\ \A q \in QueuedIn(f.lines) : /\ QueueOf(f)[q] = StateIn(f.lines, q)
                                         /\ OpsOf(f.lines, q) # {}
<1> DEFINE ls == f.lines
<1>0. ls \in Seq(Line)
  OBVIOUS
<1>1. QueueOf(f) = [q \in QueuedIn(ls) |-> StateIn(ls, q)]
  BY DEF QueueOf, Queued, QueuedIn, StateIn, OpsOf
<1> HIDE DEF ls
<1>2. ASSUME NEW q \in QueuedIn(ls)
      PROVE  q \in QItem /\ OpsOf(ls, q) # {}
  <2>1. PICK n \in AfterReset(ls, "queue_reset", {"enqueue"}) : ls[n].id = q
    BY DEF QueuedIn
  <2>2. n \in Places(ls, {"enqueue"}) /\ \A m \in Places(ls, {"queue_reset"}) : m < n
    BY DEF AfterReset
  <2>3. n \in Places(ls, QueueOps)
    BY <2>2 DEF Places, QueueOps
  <2>4. n \in OpsOf(ls, q)
    BY <2>1, <2>2, <2>3 DEF OpsOf, AfterReset
  <2>5. ls[n].k \in QueueOps /\ KindsAt(ls[n])
    BY <1>0, <2>3, PlacesTyped
  <2> QED  BY <2>1, <2>4, <2>5 DEF KindsAt, QueueLine
<1>3. ASSUME NEW q, OpsOf(ls, q) # {}
      PROVE  StateIn(ls, q) \in States
  <2>1. /\ Len(ls) \in Nat /\ OpsOf(ls, q) \in SUBSET (1 .. Len(ls))
        /\ OpsOf(ls, q) \subseteq Places(ls, QueueOps)
    <3>1. Len(ls) \in Nat /\ Places(ls, QueueOps) \in SUBSET (1 .. Len(ls))
      BY <1>0, PlacesTyped
    <3> QED  BY <3>1 DEF OpsOf, AfterReset
  <2>2. Max(OpsOf(ls, q)) \in OpsOf(ls, q)
    BY <1>3, <2>1, LargestIs
  <2>3. ls[Max(OpsOf(ls, q))].k \in QueueOps
    BY <2>1, <2>2 DEF Places
  <2> QED  BY <2>3 DEF StateIn, QueueState, QueueOps, States
<1> QED  BY <1>1, <1>2, <1>3 DEF IsQueue, ls

LEMMA ReconstructTyped ==
  ASSUME NEW f, f.lines \in Seq(Line)
  PROVE  Reconstruct(f) \in Session
<1>1. /\ Nodes(f) \in Seq(NodeLine) /\ AuxOf(f) \in [AuxKind -> SUBSET Item]
      /\ [n \in DOMAIN Records(f) |-> Records(f)[n].id] \in Seq(Compact)
  BY NodesTyped, AuxTyped, RecordsTyped
<1>2. (IF LastMeta(f) = None THEN 0 ELSE LastMeta(f).stamp) \in Nat
  <2>1. LastMeta(f) \in {None} \cup MetaLine
    <3>1. LastMeta(f) = MetaIn(f.lines)
      BY DEF LastMeta, MetaIn
    <3> QED  BY <3>1, MetaTyped
  <2> QED  BY <2>1 DEF MetaLine
<1> QED  BY <1>1, <1>2 DEF Reconstruct, Session

LEMMA ParseTyped ==
  ASSUME NEW f, f.lines \in Seq(Line), NEW p \in Dir
  PROVE  Parse(p, f) \in Indexed
<1>1. LastMeta(f) = MetaIn(f.lines) /\ MetaIn(f.lines) \in {None} \cup MetaLine
  BY MetaTyped DEF LastMeta, MetaIn
<1>2. /\ Nodes(f) \in Seq(NodeLine) /\ AuxOf(f) \in [AuxKind -> SUBSET Item]
      /\ ProjectOf(f) \in Where
  BY NodesTyped, AuxTyped, ProjectTyped
<1>3. Ids(Nodes(f)) \in SUBSET (Event \cup Compact)
  <2>1. Ids(Nodes(f)) = EventIds(f.lines) /\ EventIds(f.lines) \subseteq Event
    BY NodesTyped, EventIdsTyped
  <2> QED  BY <2>1
<1>4. (IF Nodes(f) = <<>> THEN None ELSE Last(Nodes(f)).id) \in Event \cup {None}
  <2>1. Nodes(f) # <<>> => Last(Nodes(f)) \in NodeLine
    BY <1>2 DEF Last
  <2> QED  BY <2>1 DEF NodeLine
<1> QED  BY <1>1, <1>2, <1>3, <1>4 DEF Parse, Indexed

NodeTyped(s) ==
  /\ Leaf(s) \in Event \cup {None} /\ Project(s) \in Where
  /\ Ids(s.events) \in SUBSET Event /\ ToSet(s.compacts) \in SUBSET Compact
  /\ s.events \in Seq(Line) /\ Ids(s.events) = EventIds(s.events)
  /\ EventPlaces(s.events) = 1 .. Len(s.events)

LEMMA SessionTyped ==
  ASSUME NEW s \in Session
  PROVE  NodeTyped(s)
<1>1. /\ s.events \in Seq(NodeLine) /\ s.compacts \in Seq(Compact)
      /\ Len(s.events) \in Nat /\ DOMAIN s.events = 1 .. Len(s.events)
  BY DEF Session
<1>2. s.events # <<>> => Head(s.events) \in NodeLine /\ Last(s.events) \in NodeLine
  BY <1>1 DEF Last
<1>3. Leaf(s) \in Event \cup {None}
  BY <1>2 DEF Leaf, NodeLine
<1>4. Project(s) \in Where
  BY <1>2 DEF Project, NodeLine, Where
<1>5. \A n \in 1 .. Len(s.events) : s.events[n] \in NodeLine
  BY <1>1
<1>6. Ids(s.events) \in SUBSET Event
  BY <1>1, <1>5 DEF Ids, NodeLine
<1>7. ToSet(s.compacts) \in SUBSET Compact
  BY <1>1 DEF ToSet
<1>8. s.events \in Seq(Line)
  BY <1>1, <1>5 DEF Line
<1>9. EventPlaces(s.events) = 1 .. Len(s.events)
  BY <1>1, <1>5 DEF EventPlaces, Places, NodeLine
<1>10. Ids(s.events) = EventIds(s.events)
  BY <1>1, <1>9 DEF Ids, EventIds
<1> QED  BY <1>3, <1>4, <1>6, <1>7, <1>8, <1>9, <1>10, Zenon DEF NodeTyped

KnownAt ==
  /\ Known.project \in Where /\ Known.meta \in {None} \cup MetaLine
  /\ Known.ids \in SUBSET (Event \cup Compact) /\ Known.aux \in [AuxKind -> SUBSET Item]

LEMMA KnownTyped ==
  ASSUME index \in Indexed \cup {None}
  PROVE  KnownAt
<1>1. CASE index = None
  <2>1. Known = Unindexed /\ None \in Where
    BY <1>1 DEF Known, Where
  <2>2. Unindexed.aux \in [AuxKind -> SUBSET Item]
    BY DEF Unindexed, NewSession
  <2> QED  BY <2>1, <2>2 DEF KnownAt, Unindexed
<1>2. CASE index # None
  <2>1. Known = index /\ index \in Indexed
    BY <1>2 DEF Known
  <2> QED  BY <2>1 DEF KnownAt, Indexed
<1> QED  BY <1>1, <1>2

\* Parts of a session in some order of places.
LEMMA PickedTyped ==
  ASSUME NEW T, NEW s \in Seq(T), NEW P \in SUBSET DOMAIN s
  PROVE  Picked(s, P) \in Seq(T)
  BY PickedAt

LEMMA AuxLinesTyped ==
  ASSUME NEW a \in AuxKind, NEW S \in SUBSET Item
  PROVE  /\ AuxLines(a, S) \in Seq(Line)
         /\ Len(AuxLines(a, S)) = Cardinality(S) /\ Cardinality(S) \in Nat
         /\ \A n \in 1 .. Cardinality(S) : /\ AuxLines(a, S)[n].k = a
                                           /\ AuxLines(a, S)[n].id \in S
         /\ \A i \in S : \E n \in 1 .. Cardinality(S) : AuxLines(a, S)[n].id = i
<1>1. IsFiniteSet(S)
  BY BoundAssumption, FS_Subset
<1>2. /\ Cardinality(S) \in Nat
      /\ SetToSeq(S) \in [1..Cardinality(S) -> S]
      /\ \A x \in S : \E n \in 1..Cardinality(S) : SetToSeq(S)[n] = x
  BY <1>1, ListedSet
<1>3. AuxLines(a, S) = [n \in 1 .. Cardinality(S) |-> [k |-> a, id |-> SetToSeq(S)[n]]]
  BY DEF AuxLines, Aux
<1>4. \A i \in S : [k |-> a, id |-> i] \in Line
  BY DEF AuxLine, Line
<1> QED  BY <1>2, <1>3, <1>4

LEMMA EnqueuesTyped ==
  ASSUME NEW S \in SUBSET QItem
  PROVE  /\ Enqueues(S) \in Seq(Line) /\ Cardinality(S) \in Nat
         /\ Len(Enqueues(S)) = Cardinality(S) + 1 /\ Enqueues(S)[1] = QueueReset
         /\ \A n \in 2 .. Cardinality(S) + 1 : /\ Enqueues(S)[n].k = "enqueue"
                                               /\ Enqueues(S)[n].id \in S
         /\ \A q \in S : \E n \in 2 .. Cardinality(S) + 1 : Enqueues(S)[n].id = q
<1>1. IsFiniteSet(S)
  BY BoundAssumption, FS_Subset
<1>2. /\ Cardinality(S) \in Nat
      /\ SetToSeq(S) \in [1..Cardinality(S) -> S]
      /\ \A x \in S : \E n \in 1..Cardinality(S) : SetToSeq(S)[n] = x
  BY <1>1, ListedSet
<1> DEFINE es == [n \in 1 .. Cardinality(S) |-> [k |-> "enqueue", id |-> SetToSeq(S)[n]]]
<1>3. Enqueues(S) = <<QueueReset>> \o es
  BY DEF Enqueues, QueueOp
<1>4. \A q \in S : [k |-> "enqueue", id |-> q] \in Line
  BY DEF QueueLine, Line, QueueOps
<1>5. /\ es \in Seq(Line) /\ Len(es) = Cardinality(S)
      /\ \A n \in 1 .. Cardinality(S) : es[n].k = "enqueue" /\ es[n].id \in S
  <2> DEFINE N == Cardinality(S)
  <2>1. \A n \in 1 .. N : es[n] = [k |-> "enqueue", id |-> SetToSeq(S)[n]]
    OBVIOUS
  <2>2. \A n \in 1 .. N : es[n] \in Line /\ es[n].k = "enqueue" /\ es[n].id \in S
    BY <1>2, <1>4, <2>1
  <2>3. es \in [1 .. N -> Line]
    BY <2>2
  <2> HIDE DEF es
  <2>4. es \in Seq(Line) /\ Len(es) = N
    BY <1>2, <2>3
  <2> QED  BY <2>2, <2>4
<1>6. \A q \in S : \E n \in 1 .. Cardinality(S) : es[n].id = q
  BY <1>2
<1>7. QueueReset \in Line
  BY DEF QueueReset, MarkLine, Line
<1> HIDE DEF es
<1>8. /\ Enqueues(S) \in Seq(Line) /\ Len(Enqueues(S)) = Cardinality(S) + 1
      /\ Enqueues(S)[1] = QueueReset
  BY <1>2, <1>3, <1>5, <1>7
<1>9. \A n \in 2 .. Cardinality(S) + 1 : Enqueues(S)[n] = es[n - 1] /\ n - 1 \in 1 .. Cardinality(S)
  BY <1>2, <1>3, <1>5, <1>7
<1>10. \A n \in 1 .. Cardinality(S) : Enqueues(S)[n + 1] = es[n] /\ n + 1 \in 2 .. Cardinality(S) + 1
  BY <1>2, <1>3, <1>5, <1>7
<1>11. \A n \in 2 .. Cardinality(S) + 1 : Enqueues(S)[n].k = "enqueue" /\ Enqueues(S)[n].id \in S
  BY <1>5, <1>9
<1>12. ASSUME NEW q \in S PROVE \E n \in 2 .. Cardinality(S) + 1 : Enqueues(S)[n].id = q
  <2>1. PICK m \in 1 .. Cardinality(S) : es[m].id = q
    BY <1>6
  <2> QED  BY <1>10, <2>1
<1> QED  BY <1>2, <1>8, <1>11, <1>12

\* A list of one line.
LEMMA OneLine ==
  ASSUME NEW l \in Line
  PROVE  <<l>> \in Seq(Line) /\ Len(<<l>>) = 1 /\ <<l>>[1] = l
  OBVIOUS

\* What a save appends, and what it knows afterwards.
LEMMA SaveTyped ==
  ASSUME index \in Indexed \cup {None}, NEW s \in Session
  PROVE  /\ SaveProject(s) \in Where /\ SaveMeta(s) \in MetaLine
         /\ Unwritten(s) \in Seq(NodeLine) /\ NewRecords(s) \in Seq(RecordLine)
         /\ \A a : AuxEntries(s, a) \in Seq(Line)
         /\ SaveEntries(s) \in Seq(Line)
         /\ Path(SaveProject(s)) \in Dir /\ SavedIndex(s) \in Indexed
<1>1. NodeTyped(s) /\ KnownAt
  BY SessionTyped, KnownTyped
<1>2. SaveProject(s) \in Where
  BY <1>1 DEF SaveProject, NodeTyped, KnownAt
<1>3. SaveMeta(s) \in MetaLine
  <2>1. s.stamp \in Nat
    BY DEF Session
  <2> QED  BY <1>2, <2>1 DEF SaveMeta, Meta, MetaLine
<1>4. Unwritten(s) \in Seq(NodeLine)
  <2>1. s.events \in Seq(NodeLine)
    BY DEF Session
  <2> QED  BY <2>1, PickedTyped DEF Unwritten
<1>5. NewRecords(s) \in Seq(RecordLine)
  <2> DEFINE new == Picked(s.compacts, {n \in DOMAIN s.compacts : s.compacts[n] \notin Known.ids})
  <2>1. s.compacts \in Seq(Compact)
    BY DEF Session
  <2>2. new \in Seq(Compact)
    BY <2>1, PickedTyped
  <2>3. NewRecords(s) = [n \in DOMAIN new |-> [k |-> "compact", id |-> new[n]]]
    BY DEF NewRecords, Record
  <2> HIDE DEF new
  <2>4. \A c \in Compact : [k |-> "compact", id |-> c] \in RecordLine
    BY DEF RecordLine
  <2> QED  BY <2>2, <2>3, <2>4
<1>6. ASSUME NEW a PROVE AuxEntries(s, a) \in Seq(Line)
  <2>1. CASE a \notin AuxKind \/ s.aux[a] = Known.aux[a]
    BY <2>1 DEF AuxEntries
  <2>2. CASE a \in AuxKind /\ s.aux[a] # Known.aux[a]
    <3>1. s.aux[a] \in SUBSET Item
      BY <2>2 DEF Session
    <3>2. AuxLines(a, s.aux[a]) \in Seq(Line)
      BY <2>2, <3>1, AuxLinesTyped
    <3>3. Reset(a) \in Line
      BY DEF Reset, MarkLine, Line
    <3>4. AuxEntries(s, a) = <<Reset(a)>> \o AuxLines(a, s.aux[a])
      BY <2>2 DEF AuxEntries
    <3> QED  BY <3>2, <3>3, <3>4
  <2> QED  BY <2>1, <2>2
<1>7. SaveEntries(s) \in Seq(Line)
  <2> DEFINE m == IF Known.meta = SaveMeta(s) THEN <<>> ELSE <<SaveMeta(s)>>
  <2>1. m \in Seq(Line)
    <3>1. SaveMeta(s) \in Line
      BY <1>3 DEF Line
    <3>2. <<SaveMeta(s)>> \in Seq(Line)
      BY <3>1, OneLine
    <3> QED  BY <3>2
  <2>2. Unwritten(s) \in Seq(Line) /\ NewRecords(s) \in Seq(Line)
    BY <1>4, <1>5 DEF Line
  <2>3. AuxEntries(s, "todo") \in Seq(Line) /\ AuxEntries(s, "plan") \in Seq(Line)
    BY <1>6
  <2>4. SaveEntries(s) = m \o Unwritten(s) \o AuxEntries(s, "todo") \o AuxEntries(s, "plan")
                           \o NewRecords(s)
    BY DEF SaveEntries
  <2> HIDE DEF m
  <2>5. m \o Unwritten(s) \in Seq(Line)
    BY <2>1, <2>2
  <2>6. m \o Unwritten(s) \o AuxEntries(s, "todo") \in Seq(Line)
    BY <2>3, <2>5
  <2>7. m \o Unwritten(s) \o AuxEntries(s, "todo") \o AuxEntries(s, "plan") \in Seq(Line)
    BY <2>3, <2>6
  <2> QED  BY <2>2, <2>4, <2>7
<1>8. Path(SaveProject(s)) \in Dir
  BY <1>2, DirAssumption, BoundAssumption DEF Path, Where
<1>9. SavedIndex(s) \in Indexed
  <2>1. Known.ids \cup Ids(s.events) \cup ToSet(s.compacts) \in SUBSET (Event \cup Compact)
    BY <1>1 DEF NodeTyped, KnownAt
  <2>2. s.aux \in [AuxKind -> SUBSET Item] /\ Leaf(s) \in Event \cup {None}
    BY <1>1 DEF Session, NodeTyped
  <2> QED  BY <1>2, <1>3, <1>8, <2>1, <2>2 DEF SavedIndex, Indexed
<1> QED  BY <1>2, <1>3, <1>4, <1>5, <1>6, <1>7, <1>8, <1>9

\* A session with one list changed.
LEMMA ChangedTyped ==
  ASSUME NEW s \in Session, NEW t \in Nat
  PROVE  /\ \A b \in [AuxKind -> SUBSET Item] : [s EXCEPT !.aux = b, !.stamp = t] \in Session
         /\ \A b \in Seq(Compact) : [s EXCEPT !.compacts = b, !.stamp = t] \in Session
         /\ \A b \in Seq(NodeLine) : [s EXCEPT !.events = b, !.stamp = t] \in Session
  BY DEF Session

LEMMA WithEventTyped ==
  ASSUME NEW s \in Session, NEW t \in Nat, NEW e \in Event, NEW p \in Event \cup {None},
         NEW d \in Where
  PROVE  /\ WithEvent(s, e, p, d, t) \in Session /\ Node(e, p, d) \in NodeLine
         /\ WithEvent(s, e, p, d, t).events = Append(s.events, Node(e, p, d))
<1>1. Node(e, p, d) \in NodeLine
  BY DEF Node, NodeLine
<1> DEFINE b == Append(s.events, Node(e, p, d))
           u == WithEvent(s, e, p, d, t)
<1>2. u = [s EXCEPT !.events = b, !.stamp = t]
  BY DEF WithEvent
<1>3. b \in Seq(NodeLine)
  BY <1>1 DEF Session
<1> HIDE DEF b, u
<1>4. u \in Session
  BY <1>2, <1>3, ChangedTyped
<1>5. u.events = b
  BY <1>2, <1>4 DEF Session
<1> QED  BY <1>1, <1>4, <1>5 DEF b, u

\* An edited session, and the ids made so far.
LEMMA EditedTyped ==
  ASSUME NEW s \in Session, NEW t \in Nat, NEW u \in Edited(s, t),
         made \in SUBSET (Event \cup QItem)
  PROVE  u \in Session /\ Made(u) \in SUBSET (Event \cup QItem)
<1>1. u \in Session
  <2>1. CASE \E a \in AuxKind, S \in SUBSET Item : u = WithAux(s, a, S, t)
    <3>1. PICK a \in AuxKind, S \in SUBSET Item : u = WithAux(s, a, S, t)
      BY <2>1
    <3>2. [s.aux EXCEPT ![a] = S] \in [AuxKind -> SUBSET Item]
      BY <3>1 DEF Session
    <3> DEFINE b == [s.aux EXCEPT ![a] = S]
    <3>3. u = [s EXCEPT !.aux = b, !.stamp = t]
      BY <3>1 DEF WithAux
    <3> HIDE DEF b
    <3>4. b \in [AuxKind -> SUBSET Item]
      BY <3>2 DEF b
    <3> QED  BY <3>3, <3>4, ChangedTyped
  <2>2. CASE \E c \in Compact : u = WithRecord(s, c, t)
    <3>1. PICK c \in Compact : u = WithRecord(s, c, t)
      BY <2>2
    <3>2. Append(s.compacts, c) \in Seq(Compact)
      BY DEF Session
    <3> DEFINE b == Append(s.compacts, c)
    <3>3. u = [s EXCEPT !.compacts = b, !.stamp = t]
      BY <3>1 DEF WithRecord
    <3> HIDE DEF b
    <3>4. b \in Seq(Compact)
      BY <3>2 DEF b
    <3> QED  BY <3>3, <3>4, ChangedTyped
  <2>3. CASE \E e \in Event, d \in Where : u = WithEvent(s, e, Leaf(s), d, t)
    <3>1. PICK e \in Event, d \in Where : u = WithEvent(s, e, Leaf(s), d, t)
      BY <2>3
    <3>2. Leaf(s) \in Event \cup {None}
      BY SessionTyped DEF NodeTyped
    <3>3. \A p \in Event \cup {None} : WithEvent(s, e, p, d, t) \in Session
      BY <3>1, WithEventTyped
    <3> QED  BY <3>1, <3>2, <3>3
  <2> DEFINE A == {v \in {WithAux(s, a, S, t) : a \in AuxKind, S \in SUBSET Item} : v.aux # s.aux}
             C == {WithRecord(s, c, t) : c \in Compact \ ToSet(s.compacts)}
             E == {WithEvent(s, e, Leaf(s), d, t) : e \in Event \ made, d \in Where}
  <2>4. u \in A => \E a \in AuxKind, S \in SUBSET Item : u = WithAux(s, a, S, t)
    OBVIOUS
  <2>5. u \in C => \E c \in Compact : u = WithRecord(s, c, t)
    OBVIOUS
  <2>6. u \in E => \E e \in Event, d \in Where : u = WithEvent(s, e, Leaf(s), d, t)
    OBVIOUS
  <2>7. Edited(s, t) = A \cup C \cup E
    BY DEF Edited
  <2> HIDE DEF A, C, E
  <2> QED  BY <2>1, <2>2, <2>3, <2>4, <2>5, <2>6, <2>7
<1>2. Ids(u.events) \in SUBSET Event
  BY <1>1, SessionTyped DEF NodeTyped
<1> QED  BY <1>1, <1>2 DEF Made

LEMMA SnapshotTyped ==
  ASSUME NEW s \in Session, NEW Q \in SUBSET QItem
  PROVE  Snapshot(s, Q) \in Seq(Line)
<1> DEFINE aux(a) == IF a \notin AuxKind THEN <<>> ELSE AuxLines(a, s.aux[a])
           m == <<Meta(Project(s), s.stamp)>>
           rs == [n \in DOMAIN s.compacts |-> Record(s.compacts[n])]
           q == IF Q = {} THEN <<>> ELSE Enqueues(Q)
<1>1. NodeTyped(s)
  BY SessionTyped
<1>2. m \in Seq(Line)
  <2>1. Meta(Project(s), s.stamp) \in MetaLine
    BY <1>1 DEF Session, Meta, MetaLine, NodeTyped
  <2>2. Meta(Project(s), s.stamp) \in Line
    BY <2>1 DEF Line
  <2> QED  BY <2>2, OneLine
<1>3. s.events \in Seq(Line)
  BY <1>1 DEF NodeTyped
<1>4. ASSUME NEW a PROVE aux(a) \in Seq(Line)
  <2>1. a \in AuxKind => s.aux[a] \in SUBSET Item
    BY DEF Session
  <2> QED  BY <2>1, AuxLinesTyped
<1>5. rs \in Seq(Line)
  <2>1. s.compacts \in Seq(Compact)
    BY DEF Session
  <2>2. \A c \in Compact : [k |-> "compact", id |-> c] \in Line
    BY DEF RecordLine, Line
  <2> QED  BY <2>1, <2>2 DEF Record
<1>6. q \in Seq(Line)
  BY EnqueuesTyped
<1>7. Snapshot(s, Q) = m \o s.events \o aux("todo") \o aux("plan") \o rs \o q
  BY DEF Snapshot
<1> HIDE DEF m, rs, q, aux
<1>8. m \o s.events \in Seq(Line)
  BY <1>2, <1>3
<1>9. m \o s.events \o aux("todo") \in Seq(Line)
  BY <1>4, <1>8
<1>10. m \o s.events \o aux("todo") \o aux("plan") \in Seq(Line)
  BY <1>4, <1>9
<1>11. m \o s.events \o aux("todo") \o aux("plan") \o rs \in Seq(Line)
  BY <1>5, <1>10
<1> QED  BY <1>6, <1>7, <1>11

-----------------------------------------------------------------------------
(***************************************************************************)
(* Files                                                                   *)
(***************************************************************************)

\* A file with some lines, the parts of it named one by one.
LEMMA LinesPart ==
  ASSUME NEW f \in File, NEW ls \in Seq(Line)
  PROVE  [f EXCEPT !.lines = ls]
           = [lines |-> ls, open |-> f.open, synced |-> f.synced, exists |-> f.exists]
<1> DEFINE g == [f EXCEPT !.lines = ls]
<1>1. g \in File
  BY DEF File
<1>2. g.lines = ls /\ g.open = f.open /\ g.synced = f.synced /\ g.exists = f.exists
  BY DEF File
<1> HIDE DEF g
<1>3. g = [lines |-> g.lines, open |-> g.open, synced |-> g.synced, exists |-> g.exists]
  BY <1>1 DEF File
<1>4. g = [lines |-> ls, open |-> f.open, synced |-> f.synced, exists |-> f.exists]
  BY <1>2, <1>3
<1> QED  BY <1>4 DEF g

LEMMA OpenPart ==
  ASSUME NEW f \in File, NEW ls \in Seq(Line), NEW b \in BOOLEAN
  PROVE  [f EXCEPT !.lines = ls, !.open = b]
           = [lines |-> ls, open |-> b, synced |-> f.synced, exists |-> f.exists]
<1> DEFINE g == [f EXCEPT !.lines = ls, !.open = b]
<1>1. g \in File
  BY DEF File
<1>2. g.lines = ls /\ g.open = b /\ g.synced = f.synced /\ g.exists = f.exists
  BY DEF File
<1> HIDE DEF g
<1>3. g = [lines |-> g.lines, open |-> g.open, synced |-> g.synced, exists |-> g.exists]
  BY <1>1 DEF File
<1>4. g = [lines |-> ls, open |-> b, synced |-> f.synced, exists |-> f.exists]
  BY <1>2, <1>3
<1> QED  BY <1>4 DEF g

LEMMA ExistsPart ==
  ASSUME NEW f \in File, NEW ls \in Seq(Line), NEW x \in BOOLEAN
  PROVE  [f EXCEPT !.lines = ls, !.exists = x]
           = [lines |-> ls, open |-> f.open, synced |-> f.synced, exists |-> x]
<1> DEFINE g == [f EXCEPT !.lines = ls, !.exists = x]
<1>1. g \in File
  BY DEF File
<1>2. g.lines = ls /\ g.open = f.open /\ g.synced = f.synced /\ g.exists = x
  BY DEF File
<1> HIDE DEF g
<1>3. g = [lines |-> g.lines, open |-> g.open, synced |-> g.synced, exists |-> g.exists]
  BY <1>1 DEF File
<1>4. g = [lines |-> ls, open |-> f.open, synced |-> f.synced, exists |-> x]
  BY <1>2, <1>3
<1> QED  BY <1>4 DEF g

LEMMA CutPart ==
  ASSUME NEW f \in File, NEW ls \in Seq(Line), NEW b \in BOOLEAN, NEW x \in BOOLEAN
  PROVE  [f EXCEPT !.lines = ls, !.open = b, !.exists = x]
           = [lines |-> ls, open |-> b, synced |-> f.synced, exists |-> x]
<1> DEFINE g == [f EXCEPT !.lines = ls, !.open = b, !.exists = x]
<1>1. g \in File
  BY DEF File
<1>2. g.lines = ls /\ g.open = b /\ g.synced = f.synced /\ g.exists = x
  BY DEF File
<1> HIDE DEF g
<1>3. g = [lines |-> g.lines, open |-> g.open, synced |-> g.synced, exists |-> g.exists]
  BY <1>1 DEF File
<1>4. g = [lines |-> ls, open |-> b, synced |-> f.synced, exists |-> x]
  BY <1>2, <1>3
<1> QED  BY <1>4 DEF g

LEMMA KeptPart ==
  ASSUME NEW f \in File, NEW ls \in Seq(Line), NEW n \in Nat, NEW b \in BOOLEAN
  PROVE  [f EXCEPT !.lines = ls, !.synced = n, !.open = b]
           = [lines |-> ls, open |-> b, synced |-> n, exists |-> f.exists]
<1> DEFINE g == [f EXCEPT !.lines = ls, !.synced = n, !.open = b]
<1>1. g \in File
  BY DEF File
<1>2. g.lines = ls /\ g.open = b /\ g.synced = n /\ g.exists = f.exists
  BY DEF File
<1> HIDE DEF g
<1>3. g = [lines |-> g.lines, open |-> g.open, synced |-> g.synced, exists |-> g.exists]
  BY <1>1 DEF File
<1>4. g = [lines |-> ls, open |-> b, synced |-> n, exists |-> f.exists]
  BY <1>2, <1>3
<1> QED  BY <1>4 DEF g

LEMMA SyncedPart ==
  ASSUME NEW f \in File, NEW n \in Nat
  PROVE  [f EXCEPT !.synced = n]
           = [lines |-> f.lines, open |-> f.open, synced |-> n, exists |-> f.exists]
<1> DEFINE g == [f EXCEPT !.synced = n]
<1>1. g \in File
  BY DEF File
<1>2. g.lines = f.lines /\ g.open = f.open /\ g.synced = n /\ g.exists = f.exists
  BY DEF File
<1> HIDE DEF g
<1>3. g = [lines |-> g.lines, open |-> g.open, synced |-> g.synced, exists |-> g.exists]
  BY <1>1 DEF File
<1>4. g = [lines |-> f.lines, open |-> f.open, synced |-> n, exists |-> f.exists]
  BY <1>2, <1>3
<1> QED  BY <1>4 DEF g

LEMMA OpenSyncedPart ==
  ASSUME NEW f \in File, NEW b \in BOOLEAN, NEW n \in Nat
  PROVE  [f EXCEPT !.open = b, !.synced = n]
           = [lines |-> f.lines, open |-> b, synced |-> n, exists |-> f.exists]
<1> DEFINE g == [f EXCEPT !.open = b, !.synced = n]
<1>1. g \in File
  BY DEF File
<1>2. g.lines = f.lines /\ g.open = b /\ g.synced = n /\ g.exists = f.exists
  BY DEF File
<1> HIDE DEF g
<1>3. g = [lines |-> g.lines, open |-> g.open, synced |-> g.synced, exists |-> g.exists]
  BY <1>1 DEF File
<1>4. g = [lines |-> f.lines, open |-> b, synced |-> n, exists |-> f.exists]
  BY <1>2, <1>3
<1> QED  BY <1>4 DEF g

\* What is left of a line: no entry.
LEMMA RemnantLine ==
  ASSUME NEW l \in Remnants
  PROVE  l \in Line /\ l.k = "torn"
  BY DEF Remnants, Torn, Garbled, MarkLine, Line

\* The last line is a remnant, the others are what they were.
LEMMA MangledAt ==
  ASSUME NEW ls \in Seq(Line), NEW m \in Remnants
  PROVE  /\ DOMAIN Mangled(ls, m) = 1 .. Len(ls)
         /\ \A n \in 1 .. Len(ls) :
              IF n = Len(ls) THEN Mangled(ls, m)[n] \in Remnants ELSE Mangled(ls, m)[n] = ls[n]
  BY DEF Mangled, Remnants

LEMMA TornTyped ==
  ASSUME NEW ls \in Seq(Line), ls # <<>>, NEW m \in Remnants
  PROVE  Mangled(ls, m) \in Seq(Line) /\ Len(Mangled(ls, m)) = Len(ls) /\ Mangled(ls, m) # <<>>
<1>1. \A l \in Remnants : l \in Line
  BY RemnantLine
<1>2. Len(ls) \in 1 .. Len(ls) /\ Len(ls) \in Nat
  OBVIOUS
<1>3. Mangled(ls, m) \in [1 .. Len(ls) -> Line] /\ DOMAIN Mangled(ls, m) = 1 .. Len(ls)
  <2>1. Garbled \in Line /\ m \in Line
    BY <1>1 DEF Remnants
  <2> QED  BY <1>2, <2>1 DEF Mangled
<1> DEFINE t == Mangled(ls, m)
<1> HIDE DEF t
<1>4. t \in Seq(Line) /\ Len(t) = Len(ls)
  BY <1>2, <1>3 DEF t
<1>5. t # <<>>
  BY <1>2, <1>4
<1> QED  BY <1>4, <1>5 DEF t

\* The lines that may be in a file once e was written to it, in full or not.
Grown(f, e, g) ==
  /\ FileOK(g) /\ g.exists /\ g.synced = f.synced
  /\ f.open => \E m \in Remnants : g.lines = Mangled(f.lines, m)
  /\ ~f.open => \E l \in {e} \cup Remnants : g.lines = Append(f.lines, l)

LEMMA AppendOK ==
  ASSUME NEW f, FileOK(f), NEW l \in Line, NEW b \in BOOLEAN
  PROVE  FileOK([lines |-> Append(f.lines, l), open |-> b, synced |-> f.synced, exists |-> TRUE])
<1>1. /\ f.lines \in Seq(Line) /\ f.synced \in Nat /\ f.synced <= Len(f.lines)
      /\ Len(f.lines) \in Nat
  BY DEF FileOK, File
<1>2. /\ Append(f.lines, l) \in Seq(Line) /\ Len(Append(f.lines, l)) = Len(f.lines) + 1
      /\ Append(f.lines, l) # <<>>
  <2> DEFINE s == f.lines
  <2>1. s \in Seq(Line)
    BY <1>1
  <2> HIDE DEF s
  <2>2. Append(s, l) \in Seq(Line) /\ Len(Append(s, l)) = Len(s) + 1 /\ Append(s, l) # <<>>
    BY <2>1
  <2> QED  BY <2>2 DEF s
<1> DEFINE ls == Append(f.lines, l)
<1> HIDE DEF ls
<1>3. /\ ls \in Seq(Line) /\ ls # <<>> /\ Len(ls) \in Nat /\ f.synced <= Len(ls)
  BY <1>1, <1>2 DEF ls
<1>4. FileOK([lines |-> ls, open |-> b, synced |-> f.synced, exists |-> TRUE])
  BY <1>1, <1>3 DEF FileOK, File
<1> QED  BY <1>4 DEF ls

LEMMA TornOK ==
  ASSUME NEW f, FileOK(f), f.open, NEW b \in BOOLEAN, NEW m \in Remnants
  PROVE  FileOK([lines |-> Mangled(f.lines, m), open |-> b, synced |-> f.synced, exists |-> f.exists])
<1>1. /\ f.lines \in Seq(Line) /\ f.synced \in Nat /\ f.synced <= Len(f.lines)
      /\ f.lines # <<>> /\ f.exists \in BOOLEAN /\ f.exists
  BY DEF FileOK, File
<1>2. /\ Mangled(f.lines, m) \in Seq(Line)
      /\ Len(Mangled(f.lines, m)) = Len(f.lines) /\ Mangled(f.lines, m) # <<>>
  BY <1>1, TornTyped
<1> QED  BY <1>1, <1>2 DEF FileOK, File

LEMMA WrittenGrows ==
  ASSUME NEW f, FileOK(f), NEW e \in Line
  PROVE  /\ Grown(f, e, Written(f, e))
         /\ ~f.open => Written(f, e).lines = Append(f.lines, e)
         /\ Written(f, e).open = FALSE
<1>0. f \in File /\ f.lines \in Seq(Line) /\ f.open \in BOOLEAN
  BY DEF FileOK, File
<1> DEFINE t == Mangled(f.lines, Torn)
           a == Append(f.lines, e)
<1>t. Torn \in Remnants
  BY DEF Remnants
<1>1. CASE f.open
  <2>1. t \in Seq(Line) /\ f.lines # <<>> /\ f.exists
    BY <1>0, <1>1, <1>t, TornTyped DEF FileOK
  <2>2. Written(f, e) = [f EXCEPT !.lines = t, !.open = FALSE]
    BY <1>1 DEF Written
  <2>3. FileOK([lines |-> t, open |-> FALSE, synced |-> f.synced, exists |-> f.exists])
    BY <1>1, <1>t, TornOK
  <2> HIDE DEF t
  <2>4. Written(f, e) = [lines |-> t, open |-> FALSE, synced |-> f.synced, exists |-> f.exists]
    BY <1>0, <2>1, <2>2, OpenPart
  <2> QED  BY <1>1, <1>t, <2>1, <2>3, <2>4 DEF Grown, t
<1>2. CASE ~f.open
  <2>1. a \in Seq(Line)
    BY <1>0
  <2>2. Written(f, e) = [f EXCEPT !.lines = a, !.exists = TRUE]
    BY <1>2 DEF Written
  <2>3. FileOK([lines |-> a, open |-> FALSE, synced |-> f.synced, exists |-> TRUE])
    BY AppendOK
  <2> HIDE DEF a
  <2>4. Written(f, e) = [lines |-> a, open |-> f.open, synced |-> f.synced, exists |-> TRUE]
    BY <1>0, <2>1, <2>2, ExistsPart
  <2>5. f.open = FALSE
    BY <1>0, <1>2
  <2>6. Written(f, e) = [lines |-> a, open |-> FALSE, synced |-> f.synced, exists |-> TRUE]
    BY <2>4, <2>5
  <2>7. FileOK(Written(f, e))
    BY <2>3, <2>6
  <2>8. /\ Written(f, e).lines = a /\ Written(f, e).open = FALSE
        /\ Written(f, e).exists = TRUE /\ Written(f, e).synced = f.synced
    BY <2>6
  <2> QED  BY <1>2, <2>7, <2>8 DEF Grown, a
<1> QED  BY <1>1, <1>2

LEMMA CutGrows ==
  ASSUME NEW f, FileOK(f), NEW e \in Line, NEW g \in CutShort(f, e)
  PROVE  Grown(f, e, g)
<1>0. f \in File /\ f.lines \in Seq(Line) /\ f.open \in BOOLEAN
  BY DEF FileOK, File
<1>p. Pieces(e) \subseteq Remnants
  BY DEF Pieces, Remnants
<1>2. CASE f.open
  <2>0. PICK m \in Remnants : g = [f EXCEPT !.lines = Mangled(@, m)]
    BY <1>2, <1>p DEF CutShort
  <2> DEFINE t == Mangled(f.lines, m)
  <2>1. t \in Seq(Line) /\ f.lines # <<>> /\ f.exists
    BY <1>0, <1>2, TornTyped DEF FileOK
  <2>2. g = [f EXCEPT !.lines = t]
    BY <2>0
  <2>3. FileOK([lines |-> t, open |-> TRUE, synced |-> f.synced, exists |-> f.exists])
    BY <1>2, TornOK
  <2> HIDE DEF t
  <2>4. g = [lines |-> t, open |-> f.open, synced |-> f.synced, exists |-> f.exists]
    BY <1>0, <2>1, <2>2, LinesPart
  <2>5. f.open = TRUE
    BY <1>0, <1>2
  <2>6. FileOK(g) /\ g.lines = t /\ g.exists /\ g.synced = f.synced
    BY <2>1, <2>3, <2>4, <2>5
  <2> QED  BY <1>2, <2>6 DEF Grown, t
<1>3. CASE ~f.open
  <2>0. PICK l \in {e} \cup Remnants :
          g = [f EXCEPT !.lines = Append(@, l), !.open = TRUE, !.exists = TRUE]
    BY <1>3, <1>p DEF CutShort
  <2> DEFINE a == Append(f.lines, l)
  <2>1. l \in Line /\ a \in Seq(Line)
    BY <1>0, RemnantLine
  <2>2. g = [f EXCEPT !.lines = a, !.open = TRUE, !.exists = TRUE]
    BY <2>0
  <2>3. FileOK([lines |-> a, open |-> TRUE, synced |-> f.synced, exists |-> TRUE])
    BY <2>1, AppendOK
  <2> HIDE DEF a
  <2>5. g = [lines |-> a, open |-> TRUE, synced |-> f.synced, exists |-> TRUE]
    BY <1>0, <2>1, <2>2, CutPart
  <2>6. FileOK(g) /\ g.lines = a /\ g.exists /\ g.synced = f.synced
    BY <2>3, <2>5
  <2> QED  BY <1>3, <2>6 DEF Grown, a
<1> QED  BY <1>2, <1>3

\* What a recovery leaves: some of the lines, all that were synced, and at the
\* end perhaps one that was cut.
Shortened(f, g) ==
  /\ FileOK(g) /\ g.synced = Len(g.lines)
  /\ \E n \in f.synced .. Len(f.lines) :
       \/ g.lines = SubSeq(f.lines, 1, n)
       \/ /\ n < Len(f.lines)
          /\ \E l \in {f.lines[n + 1]} \cup Remnants :
               g.lines = Append(SubSeq(f.lines, 1, n), l)
  /\ ~f.exists => g = NoFile

LEMMA RecoveredShortens ==
  ASSUME NEW f, FileOK(f), f = NoFile \/ f.exists, NEW g \in Recovered(f)
  PROVE  Shortened(f, g)
<1>0. /\ f \in File /\ f.lines \in Seq(Line) /\ f.synced \in Nat /\ f.synced <= Len(f.lines)
      /\ Len(f.lines) \in Nat /\ f.open \in BOOLEAN /\ f.exists \in BOOLEAN
  BY DEF FileOK, File
<1> DEFINE upto(n) == [f EXCEPT !.lines = SubSeq(@, 1, n), !.synced = n,
                                !.open = @ /\ n = Len(f.lines)]
           cut(n) == CutShort([upto(n) EXCEPT !.open = FALSE, !.synced = n + 1],
                              f.lines[n + 1])
<1>1. Recovered(f) = {upto(n) : n \in f.synced .. Len(f.lines)}
                       \cup UNION {cut(n) : n \in f.synced .. Len(f.lines) - 1}
  BY DEF Recovered
<1>s. ASSUME NEW n \in f.synced .. Len(f.lines)
      PROVE  /\ SubSeq(f.lines, 1, n) \in Seq(Line) /\ Len(SubSeq(f.lines, 1, n)) = n
             /\ n \in Nat /\ n <= Len(f.lines)
  <2>1. n \in Nat /\ n <= Len(f.lines)
    BY <1>0
  <2> QED  BY <1>0, <2>1
<1>u. ASSUME NEW n \in f.synced .. Len(f.lines)
      PROVE  \E b \in BOOLEAN : 
               /\ b => f.open /\ n = Len(f.lines)
               /\ upto(n) = [lines |-> SubSeq(f.lines, 1, n), open |-> b, synced |-> n,
                             exists |-> f.exists]
  <2> DEFINE s == SubSeq(f.lines, 1, n)
             b == f.open /\ n = Len(f.lines)
  <2>1. s \in Seq(Line) /\ n \in Nat
    BY <1>s
  <2>2. upto(n) = [f EXCEPT !.lines = s, !.synced = n, !.open = b]
    BY Zenon
  <2>3. b \in BOOLEAN
    OBVIOUS
  <2>4. b => f.open /\ n = Len(f.lines)
    OBVIOUS
  <2> HIDE DEF upto, s, b
  <2>5. upto(n) = [lines |-> s, open |-> b, synced |-> n, exists |-> f.exists]
    <3>1. [f EXCEPT !.lines = s, !.synced = n, !.open = b]
            = [lines |-> s, open |-> b, synced |-> n, exists |-> f.exists]
      BY <1>0, <2>1, <2>3, KeptPart
    <3> QED  BY <2>2, <3>1
  <2>6. \E c \in BOOLEAN : 
          /\ c => f.open /\ n = Len(f.lines)
          /\ upto(n) = [lines |-> s, open |-> c, synced |-> n, exists |-> f.exists]
    <3> WITNESS b \in BOOLEAN
    <3> QED  BY <2>4, <2>5
  <2> QED  BY <2>6 DEF s
<1>2. ASSUME NEW n \in f.synced .. Len(f.lines), g = upto(n)
      PROVE  Shortened(f, g)
  <2>1. PICK b \in BOOLEAN :
               /\ b => f.open /\ n = Len(f.lines)
               /\ upto(n) = [lines |-> SubSeq(f.lines, 1, n), open |-> b, synced |-> n,
                             exists |-> f.exists]
    BY <1>u
  <2> DEFINE s == SubSeq(f.lines, 1, n)
  <2>2. s \in Seq(Line) /\ Len(s) = n /\ n \in Nat /\ n <= Len(f.lines)
    BY <1>s
  <2>3. g = [lines |-> s, open |-> b, synced |-> n, exists |-> f.exists]
    BY <1>2, <2>1
  <2> HIDE DEF s, upto
  <2>4. s # <<>> => f.exists
    <3>1. s # <<>> => n # 0
      BY <2>2
    <3>2. n # 0 => f.lines # <<>>
      BY <1>0, <2>2
    <3> QED  BY <3>1, <3>2 DEF FileOK
  <2>5. b => s # <<>>
    <3>1. b => n = Len(f.lines) /\ f.lines # <<>>
      BY <2>1 DEF FileOK
    <3>2. f.lines # <<>> => Len(f.lines) # 0
      BY <1>0
    <3> QED  BY <2>2, <3>1, <3>2
  <2>6. FileOK(g)
    BY <1>0, <2>2, <2>3, <2>4, <2>5 DEF FileOK, File
  <2>7. g.synced = Len(g.lines)
    BY <2>2, <2>3
  <2>8. ~f.exists => g = NoFile
    <3> SUFFICES ASSUME ~f.exists PROVE g = NoFile
      OBVIOUS
    <3>1. f = NoFile /\ f.lines = <<>> /\ f.open = FALSE
      BY DEF NoFile
    <3>2. n = 0 /\ s = <<>>
      BY <1>0, <2>2, <3>1
    <3>3. b = FALSE
      BY <2>1, <3>1
    <3> QED  BY <2>3, <3>1, <3>2, <3>3 DEF NoFile
  <2>9. g.lines = SubSeq(f.lines, 1, n)
    BY <2>3 DEF s
  <2> QED  BY <2>6, <2>7, <2>8, <2>9 DEF Shortened
<1>3. ASSUME NEW n \in f.synced .. Len(f.lines) - 1, g \in cut(n)
      PROVE  Shortened(f, g)
  <2>0. n \in f.synced .. Len(f.lines) /\ n < Len(f.lines) /\ n \in Nat
    BY <1>0
  <2>1. PICK b \in BOOLEAN :
               upto(n) = [lines |-> SubSeq(f.lines, 1, n), open |-> b, synced |-> n,
                          exists |-> f.exists]
    BY <1>u, <2>0
  <2> DEFINE s == SubSeq(f.lines, 1, n)
             e == f.lines[n + 1]
             h == [lines |-> s, open |-> FALSE, synced |-> n + 1, exists |-> f.exists]
  <2>2. s \in Seq(Line) /\ Len(s) = n
    BY <1>s, <2>0
  <2>3. e \in Line
    BY <1>0, <2>0
  <2>4. [upto(n) EXCEPT !.open = FALSE, !.synced = n + 1] = h
    <3> DEFINE u == upto(n)
    <3>1. u \in File /\ u.lines = s /\ u.exists = f.exists
      BY <1>0, <2>0, <2>1, <2>2 DEF File
    <3>2. n + 1 \in Nat
      BY <2>0
    <3> HIDE DEF u
    <3>3. [u EXCEPT !.open = FALSE, !.synced = n + 1]
            = [lines |-> u.lines, open |-> FALSE, synced |-> n + 1, exists |-> u.exists]
      BY <3>1, <3>2, OpenSyncedPart
    <3> QED  BY <3>1, <3>3 DEF u
  <2>5. g \in CutShort(h, e)
    BY <1>3, <2>4
  <2> HIDE DEF upto, cut, s
  <2>6. PICK l \in {e} \cup Remnants :
          g = [h EXCEPT !.lines = Append(@, l), !.open = TRUE, !.exists = TRUE]
    BY <2>5 DEF CutShort, Pieces, Remnants
  <2> DEFINE a == Append(s, l)
  <2>7. l \in Line /\ a \in Seq(Line) /\ Len(a) = n + 1 /\ a # <<>>
    BY <2>2, <2>3, RemnantLine
  <2>8. g = [h EXCEPT !.lines = a, !.open = TRUE, !.exists = TRUE]
    BY <2>6
  <2>9. \E k \in {e} \cup Remnants : a = Append(s, k)
    OBVIOUS
  <2> HIDE DEF a
  <2>10. g = [lines |-> a, open |-> TRUE, synced |-> n + 1, exists |-> TRUE]
    BY <2>8
  <2>11. FileOK(g) /\ g.synced = Len(g.lines)
    BY <2>0, <2>7, <2>10 DEF FileOK, File
  <2>12. f.exists
    BY <1>0, <2>0 DEF NoFile
  <2> QED  BY <2>0, <2>9, <2>10, <2>11, <2>12 DEF Shortened, s
<1>4. \/ \E n \in f.synced .. Len(f.lines) : g = upto(n)
      \/ \E n \in f.synced .. Len(f.lines) - 1 : g \in cut(n)
  <2> HIDE DEF upto, cut
  <2> QED  BY <1>1
<1> QED  BY <1>2, <1>3, <1>4

-----------------------------------------------------------------------------
(***************************************************************************)
(* Type correctness                                                        *)
(***************************************************************************)

LEMMA NoFileOK == FileOK(NoFile) /\ NoFile \in File /\ NoFile.exists = FALSE /\ NoFile.lines = <<>>
  BY DEF NoFile, FileOK, File

\* A file that does not exist is no file.
LEMMA Missing ==
  ASSUME NEW f, FileOK(f), ~f.exists
  PROVE  f = NoFile
<1>1. /\ f = [lines |-> f.lines, open |-> f.open, synced |-> f.synced, exists |-> f.exists]
      /\ f.lines = <<>> /\ f.open \in BOOLEAN /\ f.exists \in BOOLEAN
      /\ f.synced \in Nat /\ f.synced <= Len(f.lines)
  BY DEF FileOK, File
<1>2. f.synced = 0
  BY <1>1
<1>3. f.open = FALSE /\ f.exists = FALSE
  BY <1>1 DEF FileOK
<1> QED  BY <1>1, <1>2, <1>3 DEF NoFile

LEMMA DownOp == IsOp(Down)
<1>1. IsQueue(NoQueue)
  BY DEF IsQueue, NoQueue
<1> DEFINE o == Down
<1>d. o = [Idle EXCEPT !.kind = "down"]
  BY DEF Down
<1> HIDE DEF o
<1>e. o = [kind |-> "down", path |-> DefaultDir, appends |-> FALSE, left |-> <<>>,
           next |-> None, acks |-> {}, queue |-> NoQueue, item |-> None]
  BY <1>d DEF Idle
<1>2. Down = [kind |-> "down", path |-> DefaultDir, appends |-> FALSE, left |-> <<>>,
              next |-> None, acks |-> {}, queue |-> NoQueue, item |-> None]
  BY <1>e DEF o
<1>3. Down # Idle => Down.kind # "idle"
  BY <1>2
<1> QED  BY <1>1, <1>2, DirAssumption DEF IsOp, Kinds

LEMMA IdleOp == IsOp(Idle)
<1>1. IsQueue(NoQueue)
  BY DEF IsQueue, NoQueue
<1> QED  BY <1>1, DirAssumption DEF IsOp, Idle, Kinds

OpParts(o) ==
  /\ o.kind \in Kinds /\ o.path \in Dir /\ o.appends \in BOOLEAN /\ o.left \in Seq(Line)
  /\ o.acks \in SUBSET Event /\ o.item \in QItem \cup {None} /\ IsQueue(o.queue)

LEMMA OpTyped ==
  ASSUME Typed
  PROVE  OpParts(op)
  BY DEF Typed, IsOp, OpParts

\* An operation that has just taken the lock.
LEMMA AppendingTyped ==
  ASSUME NEW kind \in {"save", "queue", "delete", "cleanup"}, NEW p \in Dir,
         NEW es \in Seq(Line), NEW next, NEW q, NEW acks \in SUBSET Event,
         NEW item \in QItem \cup {None},
         Appending(kind, p, es, next, q, acks, item),
         kind \in {"save", "queue"} => next \in Indexed \cup {None},
         kind \in {"delete", "cleanup"} => es = <<>>,
         IsQueue(q)
  PROVE  IsOp(op')
<1> DEFINE left == IF es = <<>> THEN <<>> ELSE WithHeader(files[p], es)
           o == [kind |-> kind, path |-> p, next |-> next, queue |-> q, acks |-> acks,
                 item |-> item, appends |-> es # <<>>, left |-> left]
<1>1. left \in Seq(Line)
  <2>1. Header \in Line
    BY DEF Header, MarkLine, Line
  <2>2. <<Header>> \o es \in Seq(Line)
    BY <2>1
  <2> QED  BY <2>2 DEF WithHeader
<1>2. op' = o
  BY DEF Appending
<1>3. kind \in {"delete", "cleanup"} => left = <<>>
  OBVIOUS
<1>4. kind \in Kinds /\ kind # "restore" /\ kind # "idle"
  BY DEF Kinds
<1> HIDE DEF left
<1> DEFINE b == es # <<>>
<1>5. b \in BOOLEAN
  OBVIOUS
<1>6. o = [kind |-> kind, path |-> p, next |-> next, queue |-> q, acks |-> acks,
           item |-> item, appends |-> b, left |-> left]
  OBVIOUS
<1> HIDE DEF b
<1>7. o \in [kind : Kinds, path : Dir, appends : BOOLEAN, left : Seq(Line),
            next : {o.next}, acks : SUBSET Event, queue : {o.queue},
            item : QItem \cup {None}]
  BY <1>1, <1>4, <1>5, <1>6
<1>8. o.kind = kind /\ o.next = next /\ o.queue = q /\ o.left = left
  OBVIOUS
<1> HIDE DEF o
<1> QED  BY <1>2, <1>3, <1>4, <1>7, <1>8 DEF IsOp

LEMMA TickTyped ==
  ASSUME Typed, Tick
  PROVE  clock' \in Nat /\ clock + 1 \in Nat /\ clock' = clock + 1
  BY DEF Typed, Tick

LEMMA SaveInnerTyped ==
  ASSUME Typed, NEW s \in Session, SaveInner(s)
  PROVE  IsOp(op') /\ clock' \in Nat
<1>1. index \in Indexed \cup {None} /\ IsQueue(queue)
  BY DEF Typed
<1>2. SaveEntries(s) \in Seq(Line) /\ Path(SaveProject(s)) \in Dir /\ SavedIndex(s) \in Indexed
  BY <1>1, SaveTyped
<1>3. Ids(s.events) \in SUBSET Event
  BY SessionTyped DEF NodeTyped
<1> DEFINE next == IF SaveEntries(s) = <<>> THEN index ELSE SavedIndex(s)
<1>4. next \in Indexed \cup {None}
  BY <1>1, <1>2
<1>5. Appending("save", Path(SaveProject(s)), SaveEntries(s), next, queue, Ids(s.events), None)
  BY DEF SaveInner
<1> HIDE DEF next
<1>6. IsOp(op')
  BY <1>1, <1>2, <1>3, <1>4, <1>5, AppendingTyped
<1>7. clock' \in Nat
  BY TickTyped DEF SaveInner
<1> QED  BY <1>6, <1>7

\* Where the session is, and what is in the file there.
LEMMA FilesTyped ==
  ASSUME Typed
  PROVE  \A p \in Dir : FileOK(files[p]) /\ files[p] \in File /\ files[p].lines \in Seq(Line)
  BY DEF Typed, File

LEMMA QueueAppendTyped ==
  ASSUME Typed, NEW es \in Seq(Line), NEW q, IsQueue(q), NEW item \in QItem \cup {None},
         QueueAppend(es, q, item)
  PROVE  IsOp(op')
<1>1. index \in Indexed \cup {None} /\ acked \in SUBSET Event
  BY DEF Typed
<1>2. FilePath \in Dir
  BY <1>1, DirAssumption DEF FilePath, Indexed
<1> DEFINE ls == IF index = None THEN <<>> ELSE es
<1>3. ls \in Seq(Line)
  OBVIOUS
<1>4. Appending("queue", FilePath, ls, index, q, acked, item)
  BY DEF QueueAppend
<1> HIDE DEF ls
<1> QED  BY <1>1, <1>2, <1>3, <1>4, AppendingTyped

\* The entry of one queue operation.
LEMMA QueueOpTyped ==
  ASSUME NEW o \in QueueOps, NEW q \in QItem
  PROVE  <<QueueOp(o, q)>> \in Seq(Line)
<1>1. QueueOp(o, q) \in Line
  BY DEF QueueOp, QueueLine, Line
<1> QED  BY <1>1, OneLine

\* Every operation leaves a state of the declared types.

LEMMA TypedInit ==
  ASSUME Init
  PROVE  Typed
<1>1. /\ files \in [Dir -> File] /\ \A p \in Dir : FileOK(files[p])
  BY NoFileOK DEF Init
<1>2. IsQueue(queue)
  BY DEF Init, IsQueue, NoQueue
<1>3. IsOp(op)
  BY IdleOp DEF Init
<1>4. /\ held \in [Caller -> Session \cup {None}] /\ reading \in [Caller -> Dir \cup {None}]
      /\ given \in [QItem -> Nat]
  BY DEF Init
<1> QED  BY <1>1, <1>2, <1>3, <1>4 DEF Init, Typed

LEMMA CreateTyped ==
  ASSUME Typed, NEW c \in Caller, Create(c)
  PROVE  Typed'
<1>1. NewSession \in Session
  BY DEF NewSession, Session
<1>2. held' \in [Caller -> Session \cup {None}]
  BY <1>1 DEF Typed, Create
<1> QED  BY <1>2 DEF Typed, Create, memory, told

LEMMA EditTyped ==
  ASSUME Typed, NEW c \in Caller, Edit(c)
  PROVE  Typed'
<1>1. held[c] \in Session
  BY DEF Typed, Edit
<1>2. clock' \in Nat
  BY TickTyped DEF Edit
<1>3. PICK s \in Edited(held[c], clock') : held' = [held EXCEPT ![c] = s] /\ made' = Made(s)
  BY DEF Edit
<1>4. made \in SUBSET (Event \cup QItem)
  BY DEF Typed
<1>5. s \in Session /\ Made(s) \in SUBSET (Event \cup QItem)
  BY <1>1, <1>2, <1>4, EditedTyped
<1>6. held' \in [Caller -> Session \cup {None}]
  BY <1>3, <1>5 DEF Typed
<1> QED  BY <1>2, <1>3, <1>5, <1>6 DEF Typed, Edit, memory, told

LEMMA StepSaveTyped ==
  ASSUME Typed, NEW c \in Caller, Save(c)
  PROVE  Typed'
<1>1. held[c] \in Session /\ SaveInner(held[c])
  BY DEF Typed, Save
<1>2. IsOp(op') /\ clock' \in Nat
  BY <1>1, SaveInnerTyped
<1> QED  BY <1>2 DEF Typed, Save, memory, callers, told

\* The session in the file, when it is stored.
LEMMA StoredTyped ==
  ASSUME Typed, index # None
  PROVE  /\ index \in Indexed /\ index.path \in Dir
         /\ Reconstruct(files[index.path]) \in Session
<1>1. index \in Indexed /\ index.path \in Dir
  BY DEF Typed, Indexed
<1>2. files[index.path].lines \in Seq(Line)
  BY <1>1, FilesTyped
<1> QED  BY <1>1, <1>2, ReconstructTyped

LEMMA WithSessionLockTyped ==
  ASSUME Typed, WithSessionLock
  PROVE  Typed'
<1> DEFINE s == Reconstruct(files[index.path])
<1>1. s \in Session
  BY StoredTyped DEF WithSessionLock, Stored
<1>2. PICK t \in Edited(s, clock + 1) : SaveInner(t) /\ made' = Made(t)
  BY DEF WithSessionLock
<1> HIDE DEF s
<1>3. clock + 1 \in Nat /\ made \in SUBSET (Event \cup QItem)
  BY DEF Typed
<1>4. t \in Session /\ Made(t) \in SUBSET (Event \cup QItem)
  BY <1>1, <1>2, <1>3, EditedTyped
<1>5. IsOp(op') /\ clock' \in Nat
  BY <1>2, <1>4, SaveInnerTyped
<1> QED  BY <1>2, <1>4, <1>5 DEF Typed, WithSessionLock, memory, told

LEMMA AppendNodeTyped ==
  ASSUME Typed, index # None, NEW e \in Event, NEW p \in Event \cup {None}, NEW d \in Where,
         AppendNode(e, p, d) \/ Fallback(e, p, d)
  PROVE  IsOp(op') /\ clock' \in Nat
<1>1. /\ index \in Indexed /\ index.path \in Dir /\ index.project \in Where
      /\ Reconstruct(files[index.path]) \in Session
  BY StoredTyped DEF Indexed
<1> DEFINE project == IF index.project # None THEN index.project ELSE d
           meta == Meta(project, clock + 1)
           es == <<Node(e, p, d), meta>>
           next == [index EXCEPT !.project = project, !.meta = meta,
                                 !.ids = @ \cup {e}, !.leaf = e]
<1>2. CASE AppendNode(e, p, d)
  <2>1. Appending("save", index.path, es, next, queue, {e}, None)
    BY <1>2 DEF AppendNode
  <2>2. project \in Where /\ clock + 1 \in Nat
    BY <1>1 DEF Typed
  <2>3. meta \in MetaLine
    BY <2>2 DEF Meta, MetaLine
  <2>4. Node(e, p, d) \in Line /\ meta \in Line
    BY <2>3 DEF Node, NodeLine, Line
  <2> HIDE DEF meta
  <2>5. es \in Seq(Line)
    BY <2>4
  <2>6. next \in Indexed
    <3> DEFINE ids == index.ids \cup {e}
    <3>1. ids \in SUBSET (Event \cup Compact)
      BY <1>1 DEF Indexed
    <3>2. next = [index EXCEPT !.project = project, !.meta = meta, !.ids = ids, !.leaf = e]
      OBVIOUS
    <3> HIDE DEF ids, next, project
    <3> QED  BY <1>1, <2>2, <2>3, <3>1, <3>2 DEF Indexed
  <2> HIDE DEF es, next
  <2>7. IsQueue(queue) /\ {e} \in SUBSET Event
    BY DEF Typed
  <2>8. IsOp(op')
    BY <1>1, <2>1, <2>5, <2>6, <2>7, AppendingTyped
  <2> QED  BY <1>2, <2>8, TickTyped DEF AppendNode
<1>3. CASE Fallback(e, p, d)
  <2> DEFINE s == WithEvent(Reconstruct(files[index.path]), e, p, d, clock + 1)
  <2>1. clock + 1 \in Nat
    BY DEF Typed
  <2>2. \A r \in Session : WithEvent(r, e, p, d, clock + 1) \in Session
    BY <2>1, WithEventTyped
  <2>3. s \in Session
    BY <1>1, <2>2
  <2>4. SaveInner(s)
    BY <1>3 DEF Fallback
  <2> HIDE DEF s
  <2> QED  BY <2>3, <2>4, SaveInnerTyped
<1> QED  BY <1>2, <1>3

LEMMA AddMessageTyped ==
  ASSUME Typed, AddMessage
  PROVE  Typed'
<1>1. /\ index # None /\ index \in Indexed /\ Reconstruct(files[index.path]) \in Session
      /\ index.leaf \in Event \cup {None}
  BY StoredTyped DEF AddMessage, Indexed
<1>2. PICK e \in Event \ made, d \in Where :
        /\ AppendNode(e, index.leaf, d) \/ Fallback(e, Leaf(Reconstruct(files[index.path])), d)
        /\ made' = made \cup {e}
  BY DEF AddMessage
<1>3. Leaf(Reconstruct(files[index.path])) \in Event \cup {None}
  BY <1>1, SessionTyped DEF NodeTyped
<1>4. \A p \in Event \cup {None} :
        AppendNode(e, p, d) \/ Fallback(e, p, d) => IsOp(op') /\ clock' \in Nat
  BY <1>1, <1>2, AppendNodeTyped
<1>5. IsOp(op') /\ clock' \in Nat
  BY <1>1, <1>2, <1>3, <1>4
<1>6. made' \in SUBSET (Event \cup QItem)
  BY <1>2 DEF Typed
<1> QED  BY <1>5, <1>6 DEF Typed, AddMessage, memory, told

LEMMA AppendGraphEventTyped ==
  ASSUME Typed, AppendGraphEvent
  PROVE  Typed'
<1>1. index # None /\ index \in Indexed /\ index.path \in Dir
  BY StoredTyped DEF AppendGraphEvent
<1>2. PICK e \in Event \ made, d \in Where, p \in Ids(Nodes(files[index.path])) \cup {None} :
        /\ AppendNode(e, p, d) \/ Fallback(e, p, d)
        /\ made' = made \cup {e}
  BY DEF AppendGraphEvent
<1>3. p \in Event \cup {None}
  <2>1. files[index.path].lines \in Seq(Line)
    BY <1>1, FilesTyped
  <2>2. Ids(Nodes(files[index.path])) = EventIds(files[index.path].lines)
    BY <2>1, NodesTyped
  <2>3. EventIds(files[index.path].lines) \subseteq Event
    BY <2>1, EventIdsTyped
  <2> QED  BY <1>2, <2>2, <2>3
<1>4. IsOp(op') /\ clock' \in Nat
  BY <1>1, <1>2, <1>3, AppendNodeTyped
<1>5. made' \in SUBSET (Event \cup QItem)
  BY <1>2 DEF Typed
<1> QED  BY <1>4, <1>5 DEF Typed, AppendGraphEvent, memory, told

LEMMA LoadTyped ==
  ASSUME Typed, NEW c \in Caller, LoadPath(c) \/ LoadFile(c)
  PROVE  Typed'
<1>1. CASE LoadPath(c)
  <2>1. index.path \in Dir
    BY <1>1, StoredTyped DEF LoadPath
  <2>2. reading' \in [Caller -> Dir \cup {None}]
    BY <1>1, <2>1 DEF LoadPath, Typed
  <2> QED  BY <1>1, <2>2 DEF LoadPath, Typed, memory, told
<1>2. CASE LoadFile(c)
  <2> DEFINE s == Reconstruct(files[reading[c]])
  <2>1. reading[c] \in Dir
    BY <1>2 DEF LoadFile, Typed
  <2>2. s \in Session
    BY <2>1, FilesTyped, ReconstructTyped
  <2>3. held' = held \/ held' = [held EXCEPT ![c] = s]
    BY <1>2 DEF LoadFile
  <2> HIDE DEF s
  <2>4. held' \in [Caller -> Session \cup {None}]
    BY <2>2, <2>3 DEF Typed
  <2>5. reading' \in [Caller -> Dir \cup {None}]
    BY <1>2 DEF LoadFile, Typed
  <2> QED  BY <1>2, <2>4, <2>5 DEF LoadFile, Typed, memory, told
<1> QED  BY <1>1, <1>2

LEMMA QueueStepTyped ==
  ASSUME Typed, Enqueue \/ Dequeue \/ CancelQueued \/ ReplacePendingQueue
  PROVE  Typed'
<1>0. IsQueue(queue) /\ made \in SUBSET (Event \cup QItem)
  BY DEF Typed
<1>1. CASE Enqueue
  <2>1. PICK q \in QItem \ made :
          /\ QueueAppend(<<QueueOp("enqueue", q)>>, WithItem(q), None)
          /\ made' = made \cup {q}
    BY <1>1 DEF Enqueue
  <2>2. IsQueue(WithItem(q))
    BY <1>0 DEF IsQueue, WithItem, States
  <2>3. <<QueueOp("enqueue", q)>> \in Seq(Line)
    BY QueueOpTyped DEF QueueOps
  <2>4. IsOp(op')
    BY <2>1, <2>2, <2>3, QueueAppendTyped
  <2>5. clock' \in Nat
    BY <1>1, TickTyped DEF Enqueue
  <2>6. made' \in SUBSET (Event \cup QItem)
    BY <1>0, <2>1
  <2> QED  BY <1>1, <2>4, <2>5, <2>6 DEF Enqueue, Typed, memory, told
<1>2. CASE Dequeue
  <2>1. PICK q \in Pending :
          /\ queue' = [queue EXCEPT ![q] = "processing"]
          /\ QueueAppend(<<QueueOp("dequeue", q)>>, queue', IF index = None THEN None ELSE q)
    BY <1>2 DEF Dequeue
  <2>2. q \in DOMAIN queue /\ q \in QItem
    BY <1>0 DEF Pending, IsQueue
  <2>3. IsQueue(queue')
    BY <1>0, <2>1 DEF IsQueue, States
  <2>4. <<QueueOp("dequeue", q)>> \in Seq(Line)
    BY <2>2, QueueOpTyped DEF QueueOps
  <2>5. IsOp(op')
    <3> DEFINE item == IF index = None THEN None ELSE q
    <3>1. item \in QItem \cup {None}
      BY <2>2
    <3> HIDE DEF item
    <3> QED  BY <2>1, <2>3, <2>4, <3>1, QueueAppendTyped DEF item
  <2> QED  BY <1>2, <2>3, <2>5 DEF Dequeue, Typed, callers, told
<1>3. CASE CancelQueued
  <2>1. PICK q \in DOMAIN queue :
          /\ queue' = [queue EXCEPT ![q] = "cancelled"]
          /\ QueueAppend(<<QueueOp("cancel", q)>>, queue', None)
    BY <1>3 DEF CancelQueued
  <2>2. q \in QItem
    BY <1>0 DEF IsQueue
  <2>3. IsQueue(queue')
    BY <1>0, <2>1 DEF IsQueue, States
  <2>4. <<QueueOp("cancel", q)>> \in Seq(Line)
    BY <2>2, QueueOpTyped DEF QueueOps
  <2>5. IsOp(op')
    BY <2>1, <2>3, <2>4, QueueAppendTyped
  <2>6. clock' \in Nat
    BY <1>3, TickTyped DEF CancelQueued
  <2> QED  BY <1>3, <2>3, <2>5, <2>6 DEF CancelQueued, Typed, callers, told
<1>4. CASE ReplacePendingQueue
  <2>1. PICK S \in SUBSET ((QItem \ made) \cup Pending) :
          /\ QueueAppend(Enqueues(S), [q \in S |-> "pending"], None)
          /\ made' = made \cup S
    BY <1>4 DEF ReplacePendingQueue
  <2>2. S \in SUBSET QItem
    BY <1>0 DEF Pending, IsQueue
  <2>3. Enqueues(S) \in Seq(Line)
    BY <2>2, EnqueuesTyped
  <2>4. IsQueue([q \in S |-> "pending"])
    BY <2>2 DEF IsQueue, States
  <2>5. IsOp(op')
    BY <2>1, <2>3, <2>4, QueueAppendTyped
  <2>6. clock' \in Nat
    BY <1>4, TickTyped DEF ReplacePendingQueue
  <2>7. made' \in SUBSET (Event \cup QItem)
    BY <1>0, <2>1, <2>2
  <2> QED  BY <1>4, <2>5, <2>6, <2>7 DEF ReplacePendingQueue, Typed, memory, told
<1> QED  BY <1>1, <1>2, <1>3, <1>4

LEMMA NoQueueTyped == IsQueue(NoQueue)
  BY DEF IsQueue, NoQueue

LEMMA RemovalTyped ==
  ASSUME Typed, Delete \/ CleanupExpired
  PROVE  Typed'
<1>1. index.path \in Dir /\ IsQueue(NoQueue)
  BY StoredTyped, NoQueueTyped DEF Delete, CleanupExpired
<1>2. PICK kind \in {"delete", "cleanup"} :
        Appending(kind, index.path, <<>>, None, NoQueue, {}, None)
  BY DEF Delete, CleanupExpired
<1>3. IsOp(op')
  <2>1. <<>> \in Seq(Line) /\ {} \in SUBSET Event /\ None \in QItem \cup {None}
    OBVIOUS
  <2>2. kind \notin {"save", "queue"}
    OBVIOUS
  <2> QED  BY <1>1, <1>2, <2>1, <2>2, AppendingTyped
<1>4. clock' \in Nat
  BY TickTyped DEF Delete, CleanupExpired
<1>5. IsQueue(queue')
  BY NoQueueTyped DEF Delete, CleanupExpired, Typed
<1> QED  BY <1>3, <1>4, <1>5 DEF Delete, CleanupExpired, Typed, callers

\* What a restore puts in the file.
LEMMA BundleTyped ==
  ASSUME NEW s \in Session, NEW Q \in SUBSET QItem
  PROVE  /\ <<Header>> \o Snapshot(s, Q) \in Seq(Line)
         /\ <<Header>> \o Snapshot(s, Q) # <<>>
<1>1. Header \in Line
  BY DEF Header, MarkLine, Line
<1>2. Snapshot(s, Q) \in Seq(Line)
  BY SnapshotTyped
<1> DEFINE x == <<Header>>
           y == Snapshot(s, Q)
<1>3. x \in Seq(Line) /\ Len(x) = 1
  BY <1>1, OneLine
<1> HIDE DEF x, y
<1>4. y \in Seq(Line)
  BY <1>2 DEF y
<1>5. x \o y \in Seq(Line) /\ Len(x \o y) = Len(x) + Len(y) /\ Len(y) \in Nat
  <2>1. JoinedAt(x, y, {})
    BY <1>3, <1>4, PlacesJoin
  <2> QED  BY <2>1 DEF JoinedAt
<1>6. x \o y # <<>>
  <2>1. Len(x \o y) # 0
    BY <1>3, <1>5
  <2> QED  BY <2>1
<1> QED  BY <1>5, <1>6 DEF x, y

LEMMA RestoreTyped ==
  ASSUME Typed, NEW c \in Caller, RestoreBundle(c)
  PROVE  Typed'
<1> DEFINE s == held[c]
           p == Path(Project(s))
<1>1. s \in Session
  BY DEF Typed, RestoreBundle
<1>2. p \in Dir /\ Ids(s.events) \in SUBSET Event
  <2>1. Project(s) \in Where /\ Ids(s.events) \in SUBSET Event
    BY <1>1, SessionTyped DEF NodeTyped
  <2> QED  BY <2>1, DirAssumption, BoundAssumption DEF Path, Where
<1>3. PICK Q \in SUBSET (QItem \ made) :
        /\ made' = made \cup Q
        /\ op' = [Idle EXCEPT !.kind = "restore", !.path = p,
                       !.next = <<Header>> \o Snapshot(s, Q), !.acks = Ids(s.events)]
  BY DEF RestoreBundle
<1> DEFINE ls == <<Header>> \o Snapshot(s, Q)
           acks == Ids(s.events)
<1>4. ls \in Seq(Line) /\ ls # <<>>
  BY <1>1, BundleTyped
<1>5. op' = [Idle EXCEPT !.kind = "restore", !.path = p, !.next = ls, !.acks = acks]
  BY <1>3
<1> HIDE DEF ls, p, acks, s
<1>6. op' = [kind |-> "restore", path |-> p, appends |-> FALSE, left |-> <<>>,
             next |-> ls, acks |-> acks, queue |-> NoQueue, item |-> None]
  BY <1>5 DEF Idle
<1>7. IsOp(op')
  BY <1>2, <1>4, <1>6, NoQueueTyped DEF IsOp, Kinds, acks
<1>8. clock' \in Nat
  BY TickTyped DEF RestoreBundle
<1>9. made' \in SUBSET (Event \cup QItem)
  BY <1>3 DEF Typed
<1> QED  BY <1>7, <1>8, <1>9 DEF RestoreBundle, Typed, memory, told

\* The file that a restore links.
LEMMA PublishedOK ==
  ASSUME NEW ls \in Seq(Line), ls # <<>>, syncing \in BOOLEAN
  PROVE  /\ [NewFile EXCEPT !.lines = ls, !.synced = IF syncing THEN Len(ls) ELSE 0]
              = [lines |-> ls, open |-> FALSE, synced |-> IF syncing THEN Len(ls) ELSE 0,
                 exists |-> TRUE]
         /\ FileOK([lines |-> ls, open |-> FALSE, synced |-> IF syncing THEN Len(ls) ELSE 0,
                 exists |-> TRUE])
<1> DEFINE n == IF syncing THEN Len(ls) ELSE 0
<1>1. n \in Nat /\ n <= Len(ls)
  OBVIOUS
<1> HIDE DEF n
<1>2. NewFile \in File /\ NewFile.exists = TRUE /\ NewFile.open = FALSE
  <2>1. NoFile \in File /\ NoFile.open = FALSE
    BY DEF NoFile, File
  <2>2. \A x \in BOOLEAN : /\ [NoFile EXCEPT !.exists = x] \in File
                           /\ [NoFile EXCEPT !.exists = x].exists = x
                           /\ [NoFile EXCEPT !.exists = x].open = NoFile.open
    BY <2>1 DEF File
  <2> QED  BY <2>1, <2>2 DEF NewFile
<1>3. [NewFile EXCEPT !.lines = ls, !.synced = n]
         = [lines |-> ls, open |-> FALSE, synced |-> n, exists |-> TRUE]
  <2> DEFINE f == NewFile
             g == [f EXCEPT !.lines = ls, !.synced = n]
  <2> HIDE DEF f
  <2>1. f \in File /\ f.exists = TRUE /\ f.open = FALSE
    BY <1>2 DEF f
  <2>2. g \in File /\ g.lines = ls /\ g.open = f.open /\ g.synced = n /\ g.exists = f.exists
    BY <1>1, <2>1 DEF File
  <2> HIDE DEF g
  <2>3. g = [lines |-> g.lines, open |-> g.open, synced |-> g.synced, exists |-> g.exists]
    BY <2>2 DEF File
  <2>4. g = [lines |-> ls, open |-> FALSE, synced |-> n, exists |-> TRUE]
    BY <2>1, <2>2, <2>3
  <2> QED  BY <2>4 DEF f, g
<1>4. FileOK([lines |-> ls, open |-> FALSE, synced |-> n, exists |-> TRUE])
  BY <1>1 DEF FileOK, File
<1> QED  BY <1>3, <1>4 DEF n

LEMMA PublishTyped ==
  ASSUME Typed, Publish
  PROVE  Typed'
<1>1. op.next \in Seq(Line) /\ op.next # <<>> /\ op.path \in Dir /\ op.acks \in SUBSET Event
  BY DEF Publish, Typed, IsOp
<1> DEFINE f == [NewFile EXCEPT !.lines = op.next,
                                !.synced = IF syncing THEN Len(op.next) ELSE 0]
<1>2. FileOK(f) /\ f \in File /\ f.lines \in Seq(Line)
  <2>1. syncing \in BOOLEAN
    BY DEF Typed
  <2>2. FileOK(f)
    BY <1>1, <2>1, PublishedOK
  <2> HIDE DEF f
  <2> QED  BY <2>2 DEF FileOK, File
<1>3. /\ files' = [files EXCEPT ![op.path] = f] /\ index' = Parse(op.path, f)
      /\ queue' = QueueOf(f) /\ acked' = op.acks /\ op' = Idle
  BY DEF Publish
<1> HIDE DEF f
<1>4. index' \in Indexed /\ IsQueue(queue')
  BY <1>1, <1>2, <1>3, ParseTyped, QueueTyped
<1>5. files' \in [Dir -> File] /\ \A p \in Dir : FileOK(files'[p])
  BY <1>1, <1>2, <1>3 DEF Typed
<1>6. IsOp(op')
  BY <1>3, IdleOp
<1> QED  BY <1>1, <1>3, <1>4, <1>5, <1>6 DEF Publish, Typed, callers

LEMMA WriteLineTyped ==
  ASSUME Typed, WriteLine
  PROVE  Typed'
<1> DEFINE f == files[op.path]
           e == Head(op.left)
<1>0. OpParts(op) /\ op.left # <<>>
  BY OpTyped DEF WriteLine
<1>1. FileOK(f) /\ e \in Line
  <2>1. op.path \in Dir /\ op.left \in Seq(Line)
    BY <1>0 DEF OpParts
  <2> QED  BY <1>0, <2>1, FilesTyped
<1>2. FileOK(Written(f, e))
  <2> HIDE DEF f, e
  <2> QED  BY <1>1, WrittenGrows DEF Grown
<1>3. files' \in [Dir -> File] /\ \A p \in Dir : FileOK(files'[p])
  <2>1. files' = [files EXCEPT ![op.path] = Written(f, e)]
    BY DEF WriteLine
  <2>2. Written(f, e) \in File
    BY <1>2 DEF FileOK
  <2> HIDE DEF f, e
  <2> QED  BY <1>2, <2>1, <2>2 DEF Typed
<1>4. IsOp(op')
  <2> DEFINE t == Tail(op.left)
  <2>1. t \in Seq(Line)
    BY <1>0 DEF OpParts
  <2>2. op' = [op EXCEPT !.left = t]
    BY DEF WriteLine
  <2>3. IsOp(op)
    BY DEF Typed
  <2> HIDE DEF t
  <2>4. op.kind \in {"save", "queue"}
    BY <1>0, <2>3 DEF IsOp
  <2>5. op \in [kind : Kinds, path : Dir, appends : BOOLEAN, left : Seq(Line),
            next : {op.next}, acks : SUBSET Event, queue : {op.queue},
            item : QItem \cup {None}]
    BY <2>3 DEF IsOp
  <2>6. /\ op'.kind = op.kind /\ op'.next = op.next /\ op'.queue = op.queue
        /\ op' \in [kind : Kinds, path : Dir, appends : BOOLEAN, left : Seq(Line),
            next : {op.next}, acks : SUBSET Event, queue : {op.queue},
            item : QItem \cup {None}]
    BY <2>1, <2>2, <2>5
  <2> QED  BY <2>3, <2>4, <2>6 DEF IsOp
<1> QED  BY <1>3, <1>4 DEF WriteLine, Typed, memory, callers

LEMMA SyncedOK ==
  ASSUME NEW f, FileOK(f)
  PROVE  /\ FileOK(Synced(f)) /\ Synced(f).lines = f.lines /\ Synced(f).open = f.open
         /\ Synced(f).exists = f.exists
         /\ Synced(f).synced = IF syncing /\ op.appends THEN Len(f.lines) ELSE f.synced
<1>1. /\ f \in File /\ f.lines \in Seq(Line) /\ f.synced \in Nat /\ f.synced <= Len(f.lines)
      /\ Len(f.lines) \in Nat
  BY DEF FileOK, File
<1> DEFINE n == IF syncing /\ op.appends THEN Len(f.lines) ELSE f.synced
<1>2. n \in Nat /\ n <= Len(f.lines)
  BY <1>1
<1>3. Synced(f) = [f EXCEPT !.synced = n]
  BY DEF Synced
<1> HIDE DEF n
<1>4. Synced(f) = [lines |-> f.lines, open |-> f.open, synced |-> n, exists |-> f.exists]
  BY <1>1, <1>2, <1>3, SyncedPart
<1>5. /\ Synced(f).lines = f.lines /\ Synced(f).open = f.open
      /\ Synced(f).exists = f.exists /\ Synced(f).synced = n
  BY <1>4
<1>6. Synced(f) \in File
  BY <1>1, <1>2, <1>4 DEF File
<1> QED  BY <1>2, <1>5, <1>6 DEF FileOK, n

LEMMA FinishTyped ==
  ASSUME Typed, Finish
  PROVE  Typed'
<1>0. OpParts(op) /\ op.path \in Dir /\ op.next \in Indexed \cup {None}
  BY OpTyped DEF Finish, Typed, IsOp, OpParts
<1>1. files' = [files EXCEPT ![op.path] = Synced(files[op.path])]
  BY DEF Finish
<1>2. FileOK(files[op.path])
  BY <1>0, FilesTyped
<1>3. FileOK(Synced(files[op.path])) /\ Synced(files[op.path]) \in File
  BY <1>2, SyncedOK DEF FileOK
<1>4. files' \in [Dir -> File] /\ \A p \in Dir : FileOK(files'[p])
  BY <1>0, <1>1, <1>3 DEF Typed
<1>5. given' \in [QItem -> Nat]
  BY <1>0 DEF Finish, Typed, OpParts
<1>6. acked' \in SUBSET Event /\ IsQueue(queue') /\ index' \in Indexed \cup {None}
  BY <1>0 DEF Finish, Typed, OpParts
<1>7. IsOp(op')
  BY IdleOp DEF Finish
<1> QED  BY <1>4, <1>5, <1>6, <1>7 DEF Finish, Typed, callers

LEMMA RemoveFileTyped ==
  ASSUME Typed, RemoveFile
  PROVE  Typed'
<1>1. files' \in [Dir -> File] /\ \A p \in Dir : FileOK(files'[p])
  BY NoFileOK DEF RemoveFile, Typed
<1>2. IsQueue(queue') /\ IsOp(op')
  BY OpTyped, IdleOp DEF RemoveFile, OpParts
<1> QED  BY <1>1, <1>2 DEF RemoveFile, Typed, callers, told

\* The file after an operation failed at it.
LEMMA FailGrows ==
  ASSUME Typed, Fail
  PROVE  /\ op.path \in Dir
         /\ \E f : /\ FileOK(f) /\ files' = [files EXCEPT ![op.path] = f]
                   /\ \/ f = files[op.path]
                      \/ op.left # <<>> /\ Head(op.left) \in Line
                         /\ Grown(files[op.path], Head(op.left), f)
<1>0. OpParts(op) /\ op.path \in Dir
  BY OpTyped DEF OpParts
<1>1. FileOK(files[op.path])
  BY <1>0, FilesTyped
<1>2. PICK f \in {files[op.path]} \cup
           (IF op.left = <<>> THEN {} ELSE CutShort(files[op.path], Head(op.left))) :
        files' = [files EXCEPT ![op.path] = f]
  BY DEF Fail
<1>3. CASE f = files[op.path]
  BY <1>0, <1>1, <1>2, <1>3
<1>4. CASE op.left # <<>> /\ f \in CutShort(files[op.path], Head(op.left))
  <2>1. Head(op.left) \in Line
    BY <1>0, <1>4 DEF OpParts
  <2>2. Grown(files[op.path], Head(op.left), f)
    BY <1>1, <1>4, <2>1, CutGrows
  <2>3. FileOK(f)
    BY <2>2 DEF Grown
  <2> QED  BY <1>0, <1>2, <1>4, <2>1, <2>2, <2>3
<1> QED  BY <1>2, <1>3, <1>4

LEMMA FailTyped ==
  ASSUME Typed, Fail
  PROVE  Typed'
<1>1. op.path \in Dir
  BY FailGrows
<1>2. PICK f : FileOK(f) /\ files' = [files EXCEPT ![op.path] = f]
  BY FailGrows
<1>3. files' \in [Dir -> File] /\ \A p \in Dir : FileOK(files'[p])
  BY <1>1, <1>2 DEF Typed, FileOK
<1>4. IsOp(op')
  BY IdleOp DEF Fail
<1> QED  BY <1>3, <1>4 DEF Fail, Typed, memory, callers

\* What a restart makes of the files fs when they can all be read.
RestartReads(fs) ==
  /\ op' = Idle /\ \A p \in Dir : fs[p].exists => ~Unreadable(fs[p])
  /\ \/ index' = None /\ \A p \in Dir : ~fs[p].exists
     \/ \E p \in Dir : fs[p].exists /\ index' = Parse(p, fs[p])
  /\ \/ queue' = NoQueue /\ \A p \in Dir : QueueOf(fs[p]) = NoQueue \/ ~fs[p].exists
     \/ \E p \in Dir : fs[p].exists /\ queue' = QueueOf(fs[p])

\* The files that a restart finds.
LEMMA RestartFinds ==
  ASSUME Typed, Restart
  PROVE  /\ files' \in [Dir -> File]
         /\ \A p \in Dir : Shortened(files[p], files'[p])
         /\ \/ op' = Down /\ index' = None /\ queue' = NoQueue
            \/ RestartReads(files')
<1>1. PICK fs \in [Dir -> UNION {Recovered(files[p]) : p \in Dir}] :
        (\A p \in Dir : fs[p] \in Recovered(files[p])) /\ files' = fs /\ Rebuild(fs)
  BY DEF Restart
<1>2. ASSUME NEW p \in Dir PROVE Shortened(files[p], fs[p])
  <2>1. FileOK(files[p]) /\ (files[p] = NoFile \/ files[p].exists)
    BY FilesTyped, Missing
  <2> QED  BY <1>1, <2>1, RecoveredShortens
<1>3. fs \in [Dir -> File]
  <2>1. \A p \in Dir : fs[p] \in File
    BY <1>2 DEF Shortened, FileOK
  <2> QED  BY <1>1, <2>1
<1>4. CASE \E p \in Dir : fs[p].exists /\ Unreadable(fs[p])
  <2>1. op' = Down /\ index' = None /\ queue' = NoQueue
    BY <1>1, <1>4 DEF Rebuild
  <2> QED  BY <1>1, <1>2, <1>3, <2>1
<1>5. CASE ~\E p \in Dir : fs[p].exists /\ Unreadable(fs[p])
  <2> DEFINE found == {p \in Dir : fs[p].exists}
             queues == {p \in found : QueueOf(fs[p]) # NoQueue}
  <2>1. /\ IF found = {} THEN index' = None
           ELSE \E p \in found : index' = Parse(p, fs[p])
        /\ IF queues = {} THEN queue' = NoQueue
           ELSE \E p \in queues : queue' = QueueOf(fs[p])
        /\ op' = Idle
    BY <1>1, <1>5 DEF Rebuild
  <2>2. \/ index' = None /\ \A p \in Dir : ~fs[p].exists
        \/ \E p \in Dir : fs[p].exists /\ index' = Parse(p, fs[p])
    BY <2>1
  <2>3. \/ queue' = NoQueue /\ \A p \in Dir : QueueOf(fs[p]) = NoQueue \/ ~fs[p].exists
        \/ \E p \in Dir : fs[p].exists /\ queue' = QueueOf(fs[p])
    BY <2>1
  <2>4. RestartReads(fs)
    BY <1>5, <2>1, <2>2, <2>3 DEF RestartReads
  <2> QED  BY <1>1, <1>2, <1>3, <2>4
<1> QED  BY <1>4, <1>5

LEMMA RestartTyped ==
  ASSUME Typed, Restart
  PROVE  Typed'
<1>1. files' \in [Dir -> File] /\ \A p \in Dir : FileOK(files'[p])
  BY RestartFinds DEF Shortened
<1>2. \A p \in Dir : files'[p].lines \in Seq(Line)
  BY <1>1 DEF File
<1>3. index' \in Indexed \cup {None}
  <2>1. \A p \in Dir : Parse(p, files'[p]) \in Indexed
    BY <1>2, ParseTyped
  <2> QED  BY <2>1, RestartFinds DEF RestartReads
<1>4. IsQueue(queue')
  <2>1. \A p \in Dir : IsQueue(QueueOf(files'[p]))
    BY <1>2, QueueTyped
  <2> QED  BY <2>1, NoQueueTyped, RestartFinds DEF RestartReads
<1>5. IsOp(op')
  BY IdleOp, DownOp, RestartFinds DEF RestartReads
<1>6. crashes' \in Nat
  BY DEF Restart, Typed
<1>7. held' \in [Caller -> Session \cup {None}] /\ reading' \in [Caller -> Dir \cup {None}]
  BY DEF Restart
<1> QED  BY <1>1, <1>3, <1>4, <1>5, <1>6, <1>7 DEF Restart, Typed

LEMMA StutterTyped ==
  ASSUME Typed, UNCHANGED vars
  PROVE  Typed'
  BY DEF vars, memory, callers, told, Typed

LEMMA NextTyped ==
  ASSUME Typed, [Next]_vars
  PROVE  Typed'
  BY CreateTyped, EditTyped, StepSaveTyped, LoadTyped, RestoreTyped, WithSessionLockTyped,
     AddMessageTyped, AppendGraphEventTyped, QueueStepTyped, RemovalTyped, PublishTyped,
     WriteLineTyped, FinishTyped, RemoveFileTyped, FailTyped, RestartTyped, StutterTyped
  DEF Next

LEMMA SpecTyped == Spec => []Typed
  BY TypedInit, NextTyped, PTL DEF Spec

LEMMA TypedTypeOK ==
  ASSUME Typed
  PROVE  TypeOK
<1> DEFINE A == /\ syncing \in BOOLEAN /\ failed \in BOOLEAN
                /\ \A p \in Dir : /\ files[p].synced \in 0 .. Len(files[p].lines)
                                  /\ files[p].open => files[p].lines # <<>>
           B == \A q \in DOMAIN queue : q \in QItem /\ queue[q] \in Range(QueueState)
           C == /\ reading \in [Caller -> Dir \cup {None}]
                /\ op.kind \in Kinds
           D == /\ made \subseteq Event \cup QItem /\ acked \subseteq Event
                /\ given \in [QItem -> Nat]
<1>1. A
  <2>1. \A p \in Dir : FileOK(files[p]) /\ files[p] \in File
    BY FilesTyped
  <2> QED  BY <2>1 DEF FileOK, File, Typed
<1>2. B
  <2>1. Range(QueueState) = States
    BY DEF Range, QueueState, States
  <2> QED  BY <2>1 DEF Typed, IsQueue
<1>3. C
  BY OpTyped DEF OpParts, Typed
<1>4. D
  BY DEF Typed
<1>5. index \in Indexed \cup {None}
  BY DEF Typed
<1>6. A /\ B /\ C /\ D /\ index \in Indexed \cup {None} => TypeOK
  BY DEF TypeOK, Kinds
<1> HIDE DEF A, B, C, D
<1> QED  BY <1>1, <1>2, <1>3, <1>4, <1>5, <1>6

\* The files, the index, the queue, what the callers hold and the operation at
\* work are well-formed in every session.
THEOREM JsonlTyped == Spec => []TypeOK
  BY SpecTyped, TypedTypeOK, PTL

-----------------------------------------------------------------------------
(***************************************************************************)
(* Events and their parents                                                *)
(***************************************************************************)

\* A list of events with some left out: their ids are known otherwise.
LEMMA PickedLinked ==
  ASSUME NEW s \in Seq(Line), NEW P \in SUBSET EventPlaces(s), NEW B, NEW C, Linked(s, B),
         \A n \in EventPlaces(s) \ P : s[n].id \in C
  PROVE  /\ Picked(s, P) \in Seq(Line) /\ Linked(Picked(s, P), B \cup C)
         /\ EventIds(Picked(s, P)) = {s[n].id : n \in P}
         /\ EventPlaces(Picked(s, P)) = 1 .. Len(Picked(s, P))
<1> DEFINE t == Picked(s, P)
           N == Cardinality(P)
<1>1. P \in SUBSET DOMAIN s
  BY DEF EventPlaces, Places
<1>p. t = Picked(s, P) /\ N = Cardinality(P)
  OBVIOUS
<1>q. /\ Picked(s, P) \in Seq(Line) /\ Len(Picked(s, P)) = Cardinality(P)
      /\ \E at \in [1..Cardinality(P) -> P] :
              /\ \A i \in 1..Cardinality(P) : Picked(s, P)[i] = s[at[i]]
              /\ \A n \in P : \E i \in 1..Cardinality(P) : at[i] = n
              /\ \A i, j \in 1..Cardinality(P) : at[i] < at[j] => i < j
  BY <1>1, LinesPicked DEF PicksInOrder
<1> HIDE DEF t, N
<1>2. /\ t \in Seq(Line) /\ Len(t) = N
      /\ \E at \in [1..N -> P] :
              /\ \A i \in 1..N : t[i] = s[at[i]]
              /\ \A n \in P : \E i \in 1..N : at[i] = n
              /\ \A i, j \in 1..N : at[i] < at[j] => i < j
  BY <1>p, <1>q
<1>3. PICK at \in [1..N -> P] :
              /\ \A i \in 1..N : t[i] = s[at[i]]
              /\ \A n \in P : \E i \in 1..N : at[i] = n
              /\ \A i, j \in 1..N : at[i] < at[j] => i < j
  BY <1>2
<1>4. DOMAIN t = 1 .. N
  BY <1>2
<1>5. \A i \in 1 .. N : t[i].k \in {"event"}
  BY <1>3 DEF EventPlaces, Places
<1>6. EventPlaces(t) = 1 .. N
  BY <1>4, <1>5 DEF EventPlaces, Places
<1>7. ASSUME NEW i \in 1 .. N
      PROVE  t[i].parent \in B \cup C \cup EarlierIds(t, i)
  <2>1. at[i] \in P /\ at[i] \in EventPlaces(s) /\ t[i] = s[at[i]]
    BY <1>3
  <2>2. s[at[i]].parent \in B \cup EarlierIds(s, at[i])
    BY <2>1 DEF Linked
  <2>3. ASSUME NEW m \in EventPlaces(s), m < at[i]
        PROVE  s[m].id \in C \cup EarlierIds(t, i)
    <3>1. CASE m \notin P
      BY <3>1
    <3>2. CASE m \in P
      <4>1. PICK j \in 1 .. N : at[j] = m
        BY <1>3, <3>2
      <4>2. j < i /\ t[j] = s[m]
        BY <1>3, <2>3, <4>1
      <4> QED  BY <1>6, <4>2 DEF EarlierIds
    <3> QED  BY <3>1, <3>2
  <2>4. EarlierIds(s, at[i]) \subseteq C \cup EarlierIds(t, i)
    BY <2>3 DEF EarlierIds
  <2> QED  BY <2>1, <2>2, <2>4
<1>8. Linked(t, B \cup C)
  BY <1>6, <1>7 DEF Linked
<1>9. EventIds(t) = {s[n].id : n \in P}
  <2>1. ASSUME NEW i \in 1 .. N PROVE t[i].id \in {s[n].id : n \in P}
    BY <1>3
  <2>2. ASSUME NEW n \in P PROVE \E i \in 1 .. N : t[i].id = s[n].id
    BY <1>3
  <2> QED  BY <1>6, <2>1, <2>2 DEF EventIds
<1> QED  BY <1>2, <1>6, <1>8, <1>9 DEF t

\* Lists without events change nothing.
LEMMA EventlessAfter ==
  ASSUME NEW x \in Seq(Line), NEW y \in Seq(Line), EventPlaces(y) = {}
  PROVE  x \o y \in Seq(Line) /\ EventIds(x \o y) = EventIds(x)
         /\ \A B : Linked(x, B) => Linked(x \o y, B)
<1>1. EventIds(y) = {} /\ \A B : Linked(y, B)
  BY Eventless
<1>2. EventIds(x \o y) = EventIds(x)
  <2>1. EventIds(x \o y) = EventIds(x) \cup EventIds(y)
    BY EventIdsJoin
  <2> QED  BY <1>1, <2>1
<1>3. ASSUME NEW B, Linked(x, B) PROVE Linked(x \o y, B)
  <2>1. Linked(y, B \cup EventIds(x))
    BY <1>1
  <2> QED  BY <1>3, <2>1, LinkedJoin
<1> QED  BY <1>2, <1>3

LEMMA EventlessBefore ==
  ASSUME NEW x \in Seq(Line), NEW y \in Seq(Line), EventPlaces(x) = {}
  PROVE  x \o y \in Seq(Line) /\ EventIds(x \o y) = EventIds(y)
         /\ \A B : Linked(y, B) => Linked(x \o y, B)
<1>1. EventIds(x) = {} /\ \A B : Linked(x, B)
  BY Eventless
<1>2. EventIds(x \o y) = EventIds(y)
  <2>1. EventIds(x \o y) = EventIds(x) \cup EventIds(y)
    BY EventIdsJoin
  <2> QED  BY <1>1, <2>1
<1>3. ASSUME NEW B, Linked(y, B) PROVE Linked(x \o y, B)
  <2>1. Linked(y, B \cup EventIds(x)) /\ Linked(x, B)
    BY <1>1, <1>3, LinkedMore
  <2> QED  BY <2>1, LinkedJoin
<1> QED  BY <1>2, <1>3

LEMMA NoEventPlaces ==
  ASSUME NEW ls \in Seq(Line), \A n \in 1 .. Len(ls) : ls[n].k # "event"
  PROVE  EventPlaces(ls) = {}
<1>1. DOMAIN ls = 1 .. Len(ls)
  OBVIOUS
<1> QED  BY <1>1 DEF EventPlaces, Places

LEMMA NoLines == /\ EventPlaces(<<>>) = {} /\ EventIds(<<>>) = {} /\ \A B : Linked(<<>>, B)
<1>1. EventPlaces(<<>>) = {}
  BY DEF EventPlaces, Places
<1> QED  BY <1>1, Eventless

\* One line at the end.
LEMMA AppendIsJoin ==
  ASSUME NEW ls \in Seq(Line), NEW l \in Line
  PROVE  Append(ls, l) = ls \o <<l>> /\ <<l>> \in Seq(Line)
  OBVIOUS

LEMMA OneEvent ==
  ASSUME NEW l \in Line
  PROVE  /\ l.k = "event" => EventPlaces(<<l>>) = {1} /\ EventIds(<<l>>) = {l.id}
         /\ l.k # "event" => EventPlaces(<<l>>) = {} /\ EventIds(<<l>>) = {}
<1>1. DOMAIN <<l>> = {1} /\ <<l>>[1] = l
  OBVIOUS
<1>2. EventPlaces(<<l>>) = IF l.k = "event" THEN {1} ELSE {}
  BY <1>1 DEF EventPlaces, Places
<1> QED  BY <1>1, <1>2 DEF EventIds

\* The first n lines, and the others.
LEMMA PrefixJoin ==
  ASSUME NEW ls \in Seq(Line), NEW n \in 0 .. Len(ls)
  PROVE  /\ SubSeq(ls, 1, n) \in Seq(Line) /\ SubSeq(ls, n + 1, Len(ls)) \in Seq(Line)
         /\ ls = SubSeq(ls, 1, n) \o SubSeq(ls, n + 1, Len(ls))
         /\ Len(SubSeq(ls, 1, n)) = n
<1> DEFINE x == SubSeq(ls, 1, n)
           y == SubSeq(ls, n + 1, Len(ls))
<1>1. n \in Nat /\ n <= Len(ls) /\ Len(ls) \in Nat
  OBVIOUS
<1>2. x \in Seq(Line) /\ Len(x) = n /\ \A i \in 1 .. n : x[i] = ls[i]
  BY <1>1
<1>3. /\ y \in Seq(Line) /\ Len(y) = Len(ls) - n
      /\ \A i \in 1 .. Len(ls) - n : y[i] = ls[n + i]
  BY <1>1
<1> HIDE DEF x, y
<1>4. x \o y \in Seq(Line) /\ Len(x \o y) = Len(ls)
  BY <1>1, <1>2, <1>3
<1>5. ASSUME NEW i \in 1 .. Len(ls) PROVE (x \o y)[i] = ls[i]
  <2>1. CASE i <= n
    BY <1>1, <1>2, <1>3, <2>1
  <2>2. CASE i > n
    <3>1. i - n \in 1 .. Len(ls) - n /\ n + (i - n) = i
      BY <1>1, <2>2
    <3>2. (x \o y)[i] = y[i - n]
      BY <1>1, <1>2, <1>3, <2>2
    <3>3. y[i - n] = ls[i]
      <4> DEFINE j == i - n
      <4>1. j \in 1 .. Len(ls) - n /\ n + j = i
        BY <3>1
      <4> HIDE DEF j
      <4>2. y[j] = ls[i]
        BY <1>3, <4>1
      <4> QED  BY <4>2 DEF j
    <3> QED  BY <3>2, <3>3
  <2>3. i <= n \/ i > n
    BY <1>1
  <2> QED  BY <2>1, <2>2, <2>3
<1> DEFINE z == x \o y
<1>z. z \in Seq(Line) /\ Len(z) = Len(ls) /\ \A i \in 1 .. Len(ls) : z[i] = ls[i]
  BY <1>4, <1>5
<1> HIDE DEF z
<1>6. z = ls
  BY <1>1, <1>z
<1>7. x \o y = ls
  BY <1>6 DEF z
<1> QED  BY <1>1, <1>2, <1>3, <1>7 DEF x, y

LEMMA PrefixNext ==
  ASSUME NEW ls \in Seq(Line), NEW n \in 0 .. Len(ls) - 1
  PROVE  Append(SubSeq(ls, 1, n), ls[n + 1]) = SubSeq(ls, 1, n + 1)
  OBVIOUS

\* The events among the first n lines.
LEMMA PrefixEvents ==
  ASSUME NEW ls \in Seq(Line), NEW n \in 0 .. Len(ls), NEW B, Linked(ls, B)
  PROVE  /\ Linked(SubSeq(ls, 1, n), B)
         /\ EventIds(SubSeq(ls, 1, n)) = {ls[m].id : m \in {m \in EventPlaces(ls) : m <= n}}
<1> DEFINE x == SubSeq(ls, 1, n)
           y == SubSeq(ls, n + 1, Len(ls))
<1>1. x \in Seq(Line) /\ y \in Seq(Line) /\ ls = x \o y /\ Len(x) = n /\ n \in Nat
  <2>1. n \in Nat
    OBVIOUS
  <2> QED  BY <2>1, PrefixJoin
<1> HIDE DEF x, y
<1>2. Linked(x, B)
  BY <1>1, LinkedParts
<1>3. JoinedAt(x, y, {"event"})
  BY <1>1, PlacesJoin
<1>4. ASSUME NEW m \in EventPlaces(x)
      PROVE  m \in EventPlaces(ls) /\ m <= n /\ ls[m] = x[m]
  <2>1. m \in 1 .. Len(x) /\ m \in EventPlaces(ls) /\ ls[m] = x[m]
    BY <1>1, <1>3 DEF JoinedAt, EventPlaces
  <2> QED  BY <1>1, <2>1
<1>5. ASSUME NEW m \in EventPlaces(ls), m <= n
      PROVE  m \in EventPlaces(x) /\ ls[m] = x[m]
  <2>1. /\ m \in Nat
        /\ \/ m \in Places(x, {"event"}) /\ ls[m] = x[m] /\ m <= Len(x)
           \/ m - Len(x) \in Places(y, {"event"}) /\ m > Len(x) /\ ls[m] = y[m - Len(x)]
    BY <1>1, <1>3 DEF JoinedAt, EventPlaces
  <2>2. ~(m > Len(x))
    BY <1>1, <1>5, <2>1
  <2> QED  BY <2>1, <2>2 DEF EventPlaces
<1>6. EventIds(x) = {ls[m].id : m \in {m \in EventPlaces(ls) : m <= n}}
  BY <1>4, <1>5 DEF EventIds
<1> QED  BY <1>2, <1>6 DEF x

\* The events of a list whose last line does not parse any more.
LEMMA TornEvents ==
  ASSUME NEW ls \in Seq(Line), ls # <<>>, NEW m \in Remnants
  PROVE  /\ EventPlaces(Mangled(ls, m)) = {n \in EventPlaces(ls) : n < Len(ls)}
         /\ \A n \in EventPlaces(Mangled(ls, m)) : Mangled(ls, m)[n] = ls[n]
         /\ \A n \in EventPlaces(ls) : n \in 1 .. Len(ls) /\ (n < Len(ls) \/ n = Len(ls))
         /\ Len(ls) \in Nat
<1>1. Len(ls) \in Nat /\ DOMAIN ls = 1 .. Len(ls) /\ DOMAIN Mangled(ls, m) = 1 .. Len(ls)
  BY MangledAt
<1>2. Mangled(ls, m)[Len(ls)] \in Remnants \/ Len(ls) \notin 1 .. Len(ls)
  BY MangledAt
<1>3. \A n \in 1 .. Len(ls) : n # Len(ls) => Mangled(ls, m)[n] = ls[n]
  BY MangledAt
<1>4. \A l \in Remnants : l.k \notin {"event"}
  BY RemnantLine
<1>5. \A n \in 1 .. Len(ls) : n < Len(ls) \/ n = Len(ls)
  <2> DEFINE N == Len(ls)
  <2>1. N \in Nat
    BY <1>1
  <2> HIDE DEF N
  <2>2. \A n \in 1 .. N : n < N \/ n = N
    BY <2>1
  <2> QED  BY <2>2 DEF N
<1>6. \A n \in 1 .. Len(ls) : n < Len(ls) => n # Len(ls)
  <2> DEFINE N == Len(ls)
  <2>1. N \in Nat
    BY <1>1
  <2> HIDE DEF N
  <2>2. \A n \in 1 .. N : n < N => n # N
    BY <2>1
  <2> QED  BY <2>2 DEF N
<1>7. EventPlaces(ls) = {n \in 1 .. Len(ls) : ls[n].k \in {"event"}}
  BY <1>1 DEF EventPlaces, Places
<1>8. EventPlaces(Mangled(ls, m)) = {n \in 1 .. Len(ls) : Mangled(ls, m)[n].k \in {"event"}}
  BY <1>1 DEF EventPlaces, Places
<1>9. ASSUME NEW n \in EventPlaces(Mangled(ls, m))
      PROVE  n \in EventPlaces(ls) /\ n < Len(ls) /\ Mangled(ls, m)[n] = ls[n]
  <2>1. n \in 1 .. Len(ls) /\ Mangled(ls, m)[n].k \in {"event"}
    BY <1>8
  <2>2. n # Len(ls)
    BY <1>2, <1>4, <2>1
  <2> QED  BY <1>3, <1>5, <1>7, <2>1, <2>2
<1>10. ASSUME NEW n \in EventPlaces(ls), n < Len(ls)
       PROVE  n \in EventPlaces(Mangled(ls, m))
  <2>1. n \in 1 .. Len(ls) /\ ls[n].k \in {"event"}
    BY <1>7
  <2> QED  BY <1>3, <1>6, <1>8, <1>10, <2>1
<1>11. EventPlaces(Mangled(ls, m)) = {n \in EventPlaces(ls) : n < Len(ls)}
  BY <1>9, <1>10
<1> QED  BY <1>1, <1>5, <1>7, <1>9, <1>11

\* What a write keeps: D holds the ids of the entries it spoils.
GrownSafely(f, g, B, D) ==
  /\ Linked(g.lines, B \cup D)
  /\ EventIds(f.lines) \subseteq EventIds(g.lines) \cup D
  /\ SyncedIds(f) \subseteq SyncedIds(g) \cup D

LEMMA GrowthSafe ==
  ASSUME NEW f, FileOK(f), NEW e \in Line, NEW g, Grown(f, e, g), NEW B, NEW D,
         Linked(f.lines, B), Linked(<<e>>, B \cup EventIds(f.lines)),
         f.open => \A l \in Spoiled(f, e) : l.k = "event" => l.id \in D
  PROVE  GrownSafely(f, g, B, D)
<1> DEFINE ls == f.lines
<1>0. /\ ls \in Seq(Line) /\ f.synced \in Nat /\ Len(ls) \in Nat
      /\ f.synced <= Len(ls) /\ f.open \in BOOLEAN
  BY DEF FileOK, File
<1>1. CASE f.open
  <2>0. PICK piece \in Remnants : g.lines = Mangled(ls, piece)
    BY <1>1 DEF Grown
  <2> DEFINE t == Mangled(ls, piece)
  <2>1. g.lines = t /\ g.synced = f.synced /\ ls # <<>>
    BY <1>1, <2>0 DEF Grown, FileOK
  <2>2. /\ EventPlaces(t) = {n \in EventPlaces(ls) : n < Len(ls)}
        /\ \A n \in EventPlaces(t) : t[n] = ls[n]
        /\ \A n \in EventPlaces(ls) : n \in 1 .. Len(ls) /\ (n < Len(ls) \/ n = Len(ls))
    BY <1>0, <2>1, TornEvents
  <2> HIDE DEF t
  <2>3. Len(ls) \in EventPlaces(ls) => ls[Len(ls)].id \in D
    <3> SUFFICES ASSUME Len(ls) \in EventPlaces(ls) PROVE ls[Len(ls)].id \in D
      OBVIOUS
    <3>1. ls[Len(ls)].k = "event" /\ Last(ls) = ls[Len(ls)]
      BY DEF EventPlaces, Places, Last
    <3>2. Last(ls) \notin Remnants
      BY <3>1, RemnantLine
    <3>3. Last(ls) \in Spoiled(f, e)
      BY <1>1, <3>2 DEF Spoiled
    <3> QED  BY <1>1, <3>1, <3>3
  <2>4. Linked(t, B \cup D)
    <3> SUFFICES ASSUME NEW n \in EventPlaces(t)
                 PROVE  t[n].parent \in B \cup D \cup EarlierIds(t, n)
      BY DEF Linked
    <3>1. n \in EventPlaces(ls) /\ n < Len(ls) /\ t[n] = ls[n]
      BY <2>2
    <3>2. ls[n].parent \in B \cup EarlierIds(ls, n)
      BY <3>1 DEF Linked
    <3>3. ASSUME NEW m \in EventPlaces(ls), m < n
          PROVE  m \in EventPlaces(t) /\ t[m] = ls[m]
      <4>1. m \in 1 .. Len(ls) /\ n \in 1 .. Len(ls)
        BY <2>2, <3>1
      <4>2. m < Len(ls)
        BY <1>0, <3>1, <3>3, <4>1
      <4> QED  BY <2>2, <4>2
    <3>4. EarlierIds(ls, n) \subseteq EarlierIds(t, n)
      BY <3>3 DEF EarlierIds
    <3> QED  BY <3>1, <3>2, <3>4
  <2>5. EventIds(ls) \subseteq EventIds(t) \cup D
    <3>1. ASSUME NEW n \in EventPlaces(ls) PROVE ls[n].id \in EventIds(t) \cup D
      <4>1. n < Len(ls) \/ n = Len(ls)
        BY <2>2
      <4>2. CASE n < Len(ls)
        BY <2>2, <4>2 DEF EventIds
      <4> QED  BY <2>3, <4>1, <4>2
    <3> QED  BY <3>1 DEF EventIds
  <2>6. SyncedIds(f) \subseteq SyncedIds(g) \cup D
    <3>1. ASSUME NEW n \in EventPlaces(ls), n <= f.synced PROVE ls[n].id \in SyncedIds(g) \cup D
      <4>1. n < Len(ls) \/ n = Len(ls)
        BY <2>2
      <4>2. CASE n < Len(ls)
        <5>1. n \in EventPlaces(t) /\ t[n] = ls[n]
          BY <2>2, <4>2
        <5> QED  BY <2>1, <3>1, <5>1 DEF SyncedIds
      <4> QED  BY <2>3, <4>1, <4>2
    <3> QED  BY <3>1 DEF SyncedIds
  <2> QED  BY <2>1, <2>4, <2>5, <2>6 DEF GrownSafely
<1>2. CASE ~f.open
  <2>1. PICK l \in {e} \cup Remnants : g.lines = Append(ls, l)
    BY <1>2 DEF Grown
  <2>2. l \in Line /\ g.synced = f.synced
    BY RemnantLine DEF Grown
  <2> DEFINE y == <<l>>
  <2>3. g.lines = ls \o y /\ y \in Seq(Line)
    BY <1>0, <2>1, <2>2, AppendIsJoin
  <2>4. Linked(y, B \cup EventIds(ls))
    <3>1. CASE l = e
      BY <3>1
    <3>2. CASE l \in Remnants
      <4>1. EventPlaces(y) = {}
        <5>1. l.k # "event"
          BY <3>2, RemnantLine
        <5> QED  BY <2>2, <5>1, OneEvent
      <4> QED  BY <4>1, Eventless
    <3> QED  BY <3>1, <3>2
  <2> HIDE DEF y, ls
  <2>5. Linked(ls \o y, B)
    <3>1. Linked(ls, B)
      BY DEF ls
    <3> QED  BY <1>0, <2>3, <2>4, <3>1, LinkedJoin
  <2>6. EventIds(ls \o y) = EventIds(ls) \cup EventIds(y)
    BY <1>0, <2>3, EventIdsJoin
  <2>7. SyncedIds(f) \subseteq SyncedIds(g)
    <3>1. JoinedAt(ls, y, {"event"})
      BY <1>0, <2>3, PlacesJoin
    <3>2. \A n \in EventPlaces(ls) : n \in EventPlaces(g.lines) /\ g.lines[n] = ls[n]
      BY <2>3, <3>1 DEF JoinedAt, EventPlaces
    <3>3. SyncedIds(f) = {ls[n].id : n \in {n \in EventPlaces(ls) : n <= f.synced}}
      BY DEF SyncedIds, ls
    <3>4. SyncedIds(g) = {g.lines[n].id : n \in {n \in EventPlaces(g.lines) : n <= f.synced}}
      BY <2>2 DEF SyncedIds
    <3> QED  BY <3>2, <3>3, <3>4
  <2>8. Linked(ls \o y, B \cup D)
    BY <2>5, LinkedMore
  <2>9. EventIds(ls) \subseteq EventIds(g.lines) \cup D
    BY <2>3, <2>6
  <2> QED  BY <2>3, <2>7, <2>8, <2>9 DEF GrownSafely, ls
<1> QED  BY <1>1, <1>2

\* The events in a file cut at a place that keeps what was synced.
ShortSafely(f, g, B) ==
  /\ Linked(g.lines, B)
  /\ SyncedIds(f) \subseteq EventIds(g.lines)
  /\ EventIds(g.lines) = SyncedIds(g)

LEMMA ShorteningSafe ==
  ASSUME NEW f, FileOK(f), NEW g, Shortened(f, g), NEW B, Linked(f.lines, B)
  PROVE  ShortSafely(f, g, B)
<1> DEFINE ls == f.lines
<1>0. ls \in Seq(Line) /\ f.synced \in Nat /\ Len(ls) \in Nat /\ f.synced <= Len(ls)
  BY DEF FileOK, File
<1>1. PICK n \in f.synced .. Len(ls) :
       \/ g.lines = SubSeq(ls, 1, n)
       \/ /\ n < Len(ls)
          /\ \E l \in {ls[n + 1]} \cup Remnants : g.lines = Append(SubSeq(ls, 1, n), l)
  BY DEF Shortened
<1>n. n \in 0 .. Len(ls) /\ n \in Nat /\ f.synced <= n
  BY <1>0, <1>1
<1>2. \A m \in 0 .. Len(ls) :
         /\ Linked(SubSeq(ls, 1, m), B)
         /\ EventIds(SubSeq(ls, 1, m)) = {ls[i].id : i \in {i \in EventPlaces(ls) : i <= m}}
  BY <1>0, PrefixEvents
<1>3. ASSUME NEW m \in 0 .. Len(ls), f.synced <= m
      PROVE  SyncedIds(f) \subseteq EventIds(SubSeq(ls, 1, m))
  <2>1. ASSUME NEW i \in EventPlaces(ls), i <= f.synced PROVE i <= m
    <3>1. i \in Nat /\ m \in Nat
      BY <1>0 DEF EventPlaces, Places
    <3> QED  BY <1>0, <1>3, <2>1, <3>1
  <2>2. SyncedIds(f) \subseteq {ls[i].id : i \in {i \in EventPlaces(ls) : i <= m}}
    BY <2>1 DEF SyncedIds
  <2> QED  BY <1>2, <2>2
<1>4. Linked(g.lines, B) /\ SyncedIds(f) \subseteq EventIds(g.lines)
  <2>1. CASE g.lines = SubSeq(ls, 1, n)
    BY <1>n, <1>2, <1>3, <2>1
  <2>2. CASE n < Len(ls) /\ g.lines = Append(SubSeq(ls, 1, n), ls[n + 1])
    <3>1. n \in 0 .. Len(ls) - 1 /\ n + 1 \in 0 .. Len(ls) /\ f.synced <= n + 1
      BY <1>0, <1>n, <2>2
    <3>2. g.lines = SubSeq(ls, 1, n + 1)
      BY <1>0, <2>2, <3>1, PrefixNext
    <3> QED  BY <1>2, <1>3, <3>1, <3>2
  <2>3. ASSUME NEW l \in Remnants, g.lines = Append(SubSeq(ls, 1, n), l)
        PROVE  Linked(g.lines, B) /\ SyncedIds(f) \subseteq EventIds(g.lines)
    <3> DEFINE x == SubSeq(ls, 1, n)
               y == <<l>>
    <3>0. l \in Line /\ l.k # "event"
      BY RemnantLine
    <3>1. x \in Seq(Line)
      BY <1>0, <1>n
    <3>2. g.lines = x \o y /\ y \in Seq(Line)
      BY <2>3, <3>0, <3>1, AppendIsJoin
    <3>3. EventPlaces(y) = {}
      BY <3>0, OneEvent
    <3>4. Linked(x, B) /\ SyncedIds(f) \subseteq EventIds(x)
      BY <1>n, <1>2, <1>3
    <3> HIDE DEF x, y
    <3>5. Linked(x \o y, B) /\ EventIds(x \o y) = EventIds(x)
      BY <3>1, <3>2, <3>3, <3>4, EventlessAfter
    <3> QED  BY <3>2, <3>4, <3>5
  <2> QED  BY <1>1, <2>1, <2>2, <2>3
<1>5. EventIds(g.lines) = SyncedIds(g)
  <2>1. g.synced = Len(g.lines) /\ g.lines \in Seq(Line)
    BY DEF Shortened, FileOK, File
  <2>2. \A m \in EventPlaces(g.lines) : m <= g.synced
    BY <2>1 DEF EventPlaces, Places
  <2> QED  BY <2>2 DEF EventIds, SyncedIds
<1> QED  BY <1>4, <1>5 DEF ShortSafely

\* What is synced of a file with all its lines synced.
LEMMA AllSynced ==
  ASSUME NEW f, f.lines \in Seq(Line), f.synced = Len(f.lines)
  PROVE  SyncedIds(f) = EventIds(f.lines)
<1>1. \A m \in EventPlaces(f.lines) : m <= f.synced
  BY DEF EventPlaces, Places
<1> QED  BY <1>1 DEF EventIds, SyncedIds

\* What an operation appends: its entries, in a new file behind a header.
Left(f, es) == IF es = <<>> THEN <<>> ELSE WithHeader(f, es)

LEMMA LeftEvents ==
  ASSUME NEW f, NEW es \in Seq(Line)
  PROVE  /\ Left(f, es) \in Seq(Line) /\ EventIds(Left(f, es)) = EventIds(es)
         /\ \A B : Linked(es, B) => Linked(Left(f, es), B)
<1> DEFINE x == <<Header>>
<1>1. Header \in Line /\ Header.k # "event"
  BY DEF Header, MarkLine, Line
<1>2. x \in Seq(Line) /\ EventPlaces(x) = {}
  BY <1>1, OneLine, OneEvent
<1>3. Left(f, es) = es \/ Left(f, es) = x \o es
  BY DEF Left, WithHeader
<1> HIDE DEF x
<1>4. /\ x \o es \in Seq(Line) /\ EventIds(x \o es) = EventIds(es)
      /\ \A B : Linked(es, B) => Linked(x \o es, B)
  BY <1>2, EventlessBefore
<1> QED  BY <1>3, <1>4

\* The only events that a save appends are those not yet written.
LEMMA SaveEvents ==
  ASSUME index \in Indexed \cup {None}, NEW s \in Session
  PROVE  /\ EventIds(SaveEntries(s)) = EventIds(Unwritten(s))
         /\ \A B : Linked(Unwritten(s), B) => Linked(SaveEntries(s), B)
<1> DEFINE m == IF Known.meta = SaveMeta(s) THEN <<>> ELSE <<SaveMeta(s)>>
           u == Unwritten(s)
           a == AuxEntries(s, "todo")
           b == AuxEntries(s, "plan")
           r == NewRecords(s)
<1>1. /\ SaveMeta(s) \in MetaLine /\ u \in Seq(NodeLine) /\ r \in Seq(RecordLine)
      /\ a \in Seq(Line) /\ b \in Seq(Line)
  BY SaveTyped
<1>2. m \in Seq(Line) /\ EventPlaces(m) = {}
  <2>1. SaveMeta(s) \in Line /\ SaveMeta(s).k # "event"
    BY <1>1 DEF MetaLine, Line
  <2>2. <<SaveMeta(s)>> \in Seq(Line) /\ EventPlaces(<<SaveMeta(s)>>) = {}
    BY <2>1, OneLine, OneEvent
  <2>3. <<>> \in Seq(Line) /\ EventPlaces(<<>>) = {}
    BY NoLines
  <2> QED  BY <2>2, <2>3
<1>3. u \in Seq(Line)
  BY <1>1 DEF Line
<1>4. r \in Seq(Line) /\ EventPlaces(r) = {}
  <2>1. r \in Seq(Line) /\ \A n \in 1 .. Len(r) : r[n] \in RecordLine
    BY <1>1 DEF Line
  <2>2. \A n \in 1 .. Len(r) : r[n].k # "event"
    BY <2>1 DEF RecordLine
  <2> QED  BY <2>1, <2>2, NoEventPlaces
<1>5. ASSUME NEW k PROVE EventPlaces(AuxEntries(s, k)) = {}
  <2>1. CASE k \notin AuxKind \/ s.aux[k] = Known.aux[k]
    BY <2>1, NoLines DEF AuxEntries
  <2>2. CASE k \in AuxKind /\ s.aux[k] # Known.aux[k]
    <3> DEFINE x == <<Reset(k)>>
               y == AuxLines(k, s.aux[k])
    <3>1. s.aux[k] \in SUBSET Item
      BY <2>2 DEF Session
    <3>2. /\ y \in Seq(Line) /\ Len(y) = Cardinality(s.aux[k])
          /\ \A n \in 1 .. Cardinality(s.aux[k]) : y[n].k = k
      BY <2>2, <3>1, AuxLinesTyped
    <3>3. EventPlaces(y) = {}
      <4>1. k # "event"
        BY <2>2, AuxAssumption
      <4> HIDE DEF y
      <4> QED  BY <3>2, <4>1, NoEventPlaces
    <3>4. Reset(k) \in Line /\ Reset(k).k # "event"
      BY DEF Reset, MarkLine, Line
    <3>5. x \in Seq(Line) /\ EventPlaces(x) = {}
      BY <3>4, OneLine, OneEvent
    <3>6. AuxEntries(s, k) = x \o y
      BY <2>2 DEF AuxEntries
    <3> HIDE DEF x, y
    <3>7. JoinedAt(x, y, {"event"})
      BY <3>2, <3>5, PlacesJoin
    <3>8. EventPlaces(x \o y) = {}
      BY <3>3, <3>5, <3>7 DEF JoinedAt, EventPlaces
    <3> QED  BY <3>6, <3>8
  <2> QED  BY <2>1, <2>2
<1>6. SaveEntries(s) = m \o u \o a \o b \o r
  BY DEF SaveEntries
<1>7. EventPlaces(a) = {} /\ EventPlaces(b) = {}
  BY <1>5
<1> HIDE DEF m, u, a, b, r
<1>8. /\ m \o u \in Seq(Line) /\ EventIds(m \o u) = EventIds(u)
      /\ \A B : Linked(u, B) => Linked(m \o u, B)
  BY <1>2, <1>3, EventlessBefore
<1>9. /\ m \o u \o a \in Seq(Line) /\ EventIds(m \o u \o a) = EventIds(m \o u)
      /\ \A B : Linked(m \o u, B) => Linked(m \o u \o a, B)
  BY <1>1, <1>7, <1>8, EventlessAfter
<1>10. /\ m \o u \o a \o b \in Seq(Line) /\ EventIds(m \o u \o a \o b) = EventIds(m \o u \o a)
       /\ \A B : Linked(m \o u \o a, B) => Linked(m \o u \o a \o b, B)
  BY <1>1, <1>7, <1>9, EventlessAfter
<1>11. /\ EventIds(m \o u \o a \o b \o r) = EventIds(m \o u \o a \o b)
       /\ \A B : Linked(m \o u \o a \o b, B) => Linked(m \o u \o a \o b \o r, B)
  BY <1>4, <1>10, EventlessAfter
<1> QED  BY <1>6, <1>8, <1>9, <1>10, <1>11 DEF u

\* The parent of an event that is to be written is known, or written before it.
LEMMA UnwrittenLinked ==
  ASSUME index \in Indexed \cup {None}, NEW s \in Session, NEW R, NEW C,
         Linked(s.events, R), Known.ids \cap Event \subseteq C
  PROVE  /\ Linked(Unwritten(s), R \cup C)
         /\ EventIds(s.events) \subseteq C \cup EventIds(Unwritten(s))
         /\ EventIds(Unwritten(s)) \cap Known.ids = {}
         /\ EventIds(Unwritten(s)) \subseteq EventIds(s.events)
<1> DEFINE es == s.events
           P == {n \in DOMAIN es : es[n].id \notin Known.ids}
<1>1. NodeTyped(s)
  BY SessionTyped
<1>2. es \in Seq(Line) /\ EventPlaces(es) = 1 .. Len(es) /\ DOMAIN es = 1 .. Len(es)
  BY <1>1 DEF NodeTyped
<1>3. P \in SUBSET EventPlaces(es)
  BY <1>2
<1>4. \A n \in EventPlaces(es) : es[n].id \in Event
  BY <1>2, EventIdsTyped DEF NodeLine
<1>5. \A n \in EventPlaces(es) \ P : es[n].id \in C
  BY <1>2, <1>4
<1>6. Unwritten(s) = Picked(es, P)
  BY DEF Unwritten
<1>7. P = {n \in EventPlaces(es) : es[n].id \notin Known.ids}
  BY <1>2
<1> HIDE DEF P, es
<1>8. Linked(es, R)
  BY DEF es
<1>9. /\ Linked(Unwritten(s), R \cup C)
      /\ EventIds(Unwritten(s)) = {es[n].id : n \in P}
  <2> DEFINE t == Picked(es, P)
  <2>1. Linked(t, R \cup C) /\ EventIds(t) = {es[n].id : n \in P}
    <3>1. es \in Seq(Line) /\ \A n \in EventPlaces(es) \ P : es[n].id \in C
      BY <1>2, <1>5
    <3> QED  BY <1>3, <1>8, <3>1, PickedLinked
  <2> QED  BY <1>6, <2>1
<1>10. EventIds(es) \subseteq C \cup {es[n].id : n \in P}
  BY <1>5 DEF EventIds
<1>11. {es[n].id : n \in P} \cap Known.ids = {}
  BY <1>7
<1>12. {es[n].id : n \in P} \subseteq EventIds(es)
  BY <1>3 DEF EventIds
<1>13. /\ EventIds(es) \subseteq C \cup EventIds(Unwritten(s))
       /\ EventIds(Unwritten(s)) \cap Known.ids = {}
       /\ EventIds(Unwritten(s)) \subseteq EventIds(es)
  BY <1>9, <1>10, <1>11, <1>12
<1>14. es = s.events
  BY DEF es
<1> QED  BY <1>9, <1>13, <1>14

-----------------------------------------------------------------------------
(***************************************************************************)
(* Where the session is, what is linked and what was acknowledged          *)
(***************************************************************************)

\* An operation that has just taken the lock.
Taken(o) ==
  /\ o.path = DefaultDir
  /\ o.kind = "restore" => index = None
  /\ Saving(o) /\ o.next # None => o.next.path = DefaultDir
  /\ LinkedOp(o, Home.lines, Roots)
  /\ TrackedOp(o, Safe \cup Coming(o, Home.lines))
  /\ syncing \/ crashes = 0 => (Saving(o) => o.acks \subseteq Safe \cup Coming(o, Home.lines))

LEMMA TakenStep ==
  ASSUME AtHome, Links, Acks, Taken(op'), op'.kind \notin {"delete", "cleanup"},
         UNCHANGED <<syncing, files, index, held, crashes, acked, spoiled>>
  PROVE  AtHome' /\ Links' /\ Acks'
<1>1. Lost' = Lost /\ Roots' = Roots /\ Home' = Home /\ Safe' = Safe
  BY DEF Lost, Roots, Home, Safe, Kept
<1>2. AtHome'
  BY DEF AtHome, Taken, Saving
<1>3. Links'
  BY <1>1 DEF Links, Taken
<1>4. Acks'
  BY <1>1 DEF Acks, Taken, Saving
<1> QED  BY <1>2, <1>3, <1>4

LEMMA HomeTyped ==
  ASSUME Typed
  PROVE  FileOK(Home) /\ Home \in File /\ Home.lines \in Seq(Line)
  BY FilesTyped, DirAssumption DEF Home

\* What the index knows was kept.
LEMMA KnownSafe ==
  ASSUME Acks
  PROVE  Known.ids \cap Event \subseteq Safe
  BY DEF Acks, Known, Unindexed

LEMMA KeptInFile ==
  ASSUME NEW f
  PROVE  Kept(f) \subseteq EventIds(f.lines)
  BY DEF Kept, SyncedIds, EventIds

LEMMA OneDir ==
  ASSUME OneFile
  PROVE  Where = {None} /\ \A d \in Where : Path(d) = DefaultDir
  BY DEF OneFile, Where, Path

LEMMA SaveInnerTaken ==
  ASSUME OneFile, Typed, AtHome, Links, Acks, NEW s \in Session, Linked(s.events, Roots),
         SaveInner(s)
  PROVE  Taken(op') /\ op'.kind = "save"
<1> DEFINE es == SaveEntries(s)
           left == Left(Home, es)
           next == IF es = <<>> THEN index ELSE SavedIndex(s)
           L == EventIds(es)
<1>1. index \in Indexed \cup {None} /\ FileOK(Home)
  BY HomeTyped DEF Typed
<1>2. SaveProject(s) \in Where /\ es \in Seq(Line)
  BY <1>1, SaveTyped
<1>3. Path(SaveProject(s)) = DefaultDir
  BY <1>2, OneDir
<1>4. op' = [kind |-> "save", path |-> DefaultDir, next |-> next, queue |-> queue,
             acks |-> Ids(s.events), item |-> None, appends |-> es # <<>>, left |-> left]
  BY <1>3 DEF SaveInner, Appending, Left, Home
<1>5. Known.ids \cap Event \subseteq Safe
  BY KnownSafe
<1>6. /\ Linked(Unwritten(s), Roots \cup Safe)
      /\ EventIds(s.events) \subseteq Safe \cup EventIds(Unwritten(s))
  BY <1>1, <1>5, UnwrittenLinked
<1>7. L = EventIds(Unwritten(s)) /\ Linked(es, Roots \cup Safe)
  BY <1>1, <1>6, SaveEvents
<1>8. EventIds(left) = L /\ Linked(left, Roots \cup Safe)
  BY <1>2, <1>7, LeftEvents
<1>9. Safe \subseteq EventIds(Home.lines) \cup Lost /\ Lost \subseteq Roots /\ None \in Roots
  BY KeptInFile DEF Safe, Roots
<1>10. Linked(left, Roots \cup EventIds(Home.lines))
  BY <1>8, <1>9, LinkedMore
<1>11. Ids(s.events) = EventIds(s.events) /\ Ids(s.events) \in SUBSET Event
       /\ ToSet(s.compacts) \in SUBSET Compact /\ EventPlaces(s.events) = 1 .. Len(s.events)
  BY SessionTyped DEF NodeTyped
<1>12. es = <<>> => L = {}
  BY NoLines
<1>13. Leaf(s) \in {None} \cup EventIds(s.events)
  <2>1. s.events \in Seq(NodeLine)
    BY DEF Session
  <2>2. s.events # <<>> => Len(s.events) \in 1 .. Len(s.events)
    BY <2>1
  <2> QED  BY <1>11, <2>2 DEF Leaf, Last, EventIds
<1>14. Coming(op', Home.lines) = IF es # <<>> THEN EventIds(Home.lines) \cup L ELSE {}
  BY <1>4, <1>8 DEF Coming
<1>15. Ids(s.events) \subseteq Safe \cup Coming(op', Home.lines)
  BY <1>6, <1>7, <1>11, <1>12, <1>14
<1>16. next # None => next.leaf \in Roots \cup EventIds(Home.lines) \cup L
  <2>1. CASE es = <<>>
    BY <1>12, <2>1 DEF Links
  <2>2. CASE es # <<>>
    <3>1. next.leaf = Leaf(s)
      BY <2>2 DEF SavedIndex
    <3> QED  BY <1>6, <1>7, <1>9, <1>13, <3>1
  <2> QED  BY <2>1, <2>2
<1>17. next # None => next.ids \cap Event \subseteq Safe \cup Coming(op', Home.lines)
  <2>1. CASE es = <<>>
    BY <2>1 DEF Acks
  <2>2. CASE es # <<>>
    <3>1. next.ids = Known.ids \cup Ids(s.events) \cup ToSet(s.compacts)
      BY <2>2 DEF SavedIndex
    <3> QED  BY <1>5, <1>11, <1>15, <3>1, IdAssumption
  <2> QED  BY <2>1, <2>2
<1>p. next # None => next.path = DefaultDir
  BY <1>3 DEF SavedIndex, AtHome
<1> HIDE DEF next, left, L
<1> DEFINE o == op'
<1>18. /\ o.kind = "save" /\ o.path = DefaultDir /\ o.next = next /\ o.left = left
       /\ o.acks = Ids(s.events)
  BY <1>4
<1> HIDE DEF o
<1>19. LinkedOp(o, Home.lines, Roots)
  BY <1>8, <1>10, <1>16, <1>18 DEF LinkedOp
<1>20. TrackedOp(o, Safe \cup Coming(o, Home.lines))
  BY <1>17, <1>18 DEF TrackedOp, o
<1>21. Taken(o) /\ o.kind = "save"
  BY <1>15, <1>18, <1>19, <1>20, <1>p DEF Taken, o
<1> QED  BY <1>21 DEF o

LEMMA OneLinked ==
  ASSUME NEW l \in Line, NEW B, l.k = "event" => l.parent \in B
  PROVE  Linked(<<l>>, B)
<1>1. CASE l.k = "event"
  <2>1. EventPlaces(<<l>>) = {1} /\ <<l>>[1] = l
    BY <1>1, OneEvent
  <2> QED  BY <1>1, <2>1 DEF Linked
<1>2. CASE l.k # "event"
  <2>1. EventPlaces(<<l>>) = {}
    BY <1>2, OneEvent
  <2> QED  BY <2>1, Eventless
<1> QED  BY <1>1, <1>2

LEMMA LeafIn ==
  ASSUME NEW s \in Session
  PROVE  Leaf(s) \in {None} \cup EventIds(s.events)
<1>1. EventPlaces(s.events) = 1 .. Len(s.events)
  BY SessionTyped DEF NodeTyped
<1>2. s.events \in Seq(NodeLine)
  BY DEF Session
<1>3. s.events # <<>> => Len(s.events) \in 1 .. Len(s.events)
  BY <1>2
<1> QED  BY <1>1, <1>3 DEF Leaf, Last, EventIds

LEMMA WithEventLinked ==
  ASSUME NEW s \in Session, NEW t \in Nat, NEW e \in Event, NEW p \in Event \cup {None},
         NEW d \in Where, NEW B, Linked(s.events, B), p \in B \cup EventIds(s.events)
  PROVE  Linked(WithEvent(s, e, p, d, t).events, B)
<1> DEFINE l == Node(e, p, d)
           es == s.events
           y == <<l>>
<1>1. l \in NodeLine /\ WithEvent(s, e, p, d, t).events = Append(es, l)
  BY WithEventTyped
<1>2. l \in Line /\ l.parent = p
  BY <1>1 DEF Line, Node
<1>3. es \in Seq(Line)
  BY SessionTyped DEF NodeTyped
<1>4. Linked(y, B \cup EventIds(es))
  BY <1>2, OneLinked
<1> HIDE DEF l
<1>5. Append(es, l) = es \o y /\ y \in Seq(Line)
  BY <1>2, <1>3, AppendIsJoin
<1> HIDE DEF es, y
<1>6. Linked(es, B)
  BY DEF es
<1>7. Linked(es \o y, B)
  BY <1>3, <1>4, <1>5, <1>6, LinkedJoin
<1> QED  BY <1>1, <1>5, <1>7 DEF es, y, l

LEMMA EditedLinked ==
  ASSUME NEW s \in Session, NEW t \in Nat, NEW u \in Edited(s, t),
         made \in SUBSET (Event \cup QItem), NEW B, Linked(s.events, B), None \in B
  PROVE  Linked(u.events, B)
<1>1. CASE \E a \in AuxKind, S \in SUBSET Item : u = WithAux(s, a, S, t)
  <2>1. u.events = s.events
    BY <1>1 DEF WithAux, Session
  <2> QED  BY <2>1
<1>2. CASE \E c \in Compact : u = WithRecord(s, c, t)
  <2>1. PICK c \in Compact : u = WithRecord(s, c, t)
    BY <1>2
  <2> DEFINE b == Append(s.compacts, c)
  <2>2. u = [s EXCEPT !.compacts = b, !.stamp = t]
    BY <2>1 DEF WithRecord
  <2> HIDE DEF b
  <2>3. u.events = s.events
    BY <2>2 DEF Session
  <2> QED  BY <2>3
<1>3. CASE \E e \in Event, d \in Where : u = WithEvent(s, e, Leaf(s), d, t)
  <2>1. PICK e \in Event, d \in Where : u = WithEvent(s, e, Leaf(s), d, t)
    BY <1>3
  <2>2. Leaf(s) \in {None} \cup EventIds(s.events) /\ Leaf(s) \in Event \cup {None}
    BY LeafIn, SessionTyped DEF NodeTyped
  <2> DEFINE p == Leaf(s)
  <2>3. p \in Event \cup {None} /\ p \in B \cup EventIds(s.events)
    BY <2>2
  <2> HIDE DEF p
  <2>4. Linked(WithEvent(s, e, p, d, t).events, B)
    BY <2>3, WithEventLinked
  <2> QED  BY <2>1, <2>4 DEF p
<1>4. \/ u \in {v \in {WithAux(s, a, S, t) : a \in AuxKind, S \in SUBSET Item} : v.aux # s.aux}
      \/ u \in {WithRecord(s, c, t) : c \in Compact \ ToSet(s.compacts)}
      \/ u \in {WithEvent(s, e, Leaf(s), d, t) : e \in Event \ made, d \in Where}
  BY DEF Edited
<1> QED  BY <1>1, <1>2, <1>3, <1>4

LEMMA ReconstructLinked ==
  ASSUME NEW f, f.lines \in Seq(Line), NEW B, Linked(f.lines, B)
  PROVE  Linked(Reconstruct(f).events, B) /\ EventIds(Reconstruct(f).events) = EventIds(f.lines)
<1> DEFINE ls == f.lines
           P == EventPlaces(ls)
           t == Picked(ls, P)
<1>1. Reconstruct(f).events = t
  BY DEF Reconstruct, Nodes, EventPlaces
<1>2. P \in SUBSET EventPlaces(ls) /\ \A n \in EventPlaces(ls) \ P : ls[n].id \in {}
  OBVIOUS
<1>3. EventIds(ls) = {ls[n].id : n \in P}
  BY DEF EventIds
<1>4. ls \in Seq(Line) /\ Linked(ls, B)
  OBVIOUS
<1> HIDE DEF ls, P
<1>5. Linked(t, B \cup {}) /\ EventIds(t) = {ls[n].id : n \in P}
  BY <1>2, <1>4, PickedLinked
<1>6. Linked(t, B)
  BY <1>5, LinkedMore
<1> QED  BY <1>1, <1>3, <1>5, <1>6 DEF ls

\* Only what the callers hold changes.
LEMMA HeldStep ==
  ASSUME Tracked, LinkedHeld(held', Roots),
         UNCHANGED <<syncing, files, index, op, crashes, acked, spoiled>>
  PROVE  Tracked'
<1>1. Lost' = Lost /\ Roots' = Roots /\ Home' = Home /\ Safe' = Safe
  BY DEF Lost, Roots, Home, Safe, Kept
<1>2. AtHome'
  BY DEF AtHome, Tracked
<1>3. Links'
  BY <1>1 DEF Links, Tracked
<1>4. Acks'
  BY <1>1 DEF Acks, Tracked
<1> QED  BY <1>2, <1>3, <1>4 DEF Tracked

LEMMA CreateTracked ==
  ASSUME Tracked, NEW c \in Caller, held \in [Caller -> Session \cup {None}], Create(c)
  PROVE  Tracked'
<1>1. Linked(NewSession.events, Roots)
  BY NoLines DEF NewSession
<1>2. LinkedHeld(held', Roots)
  BY <1>1 DEF LinkedHeld, Create, Tracked, Links
<1> QED  BY <1>2, HeldStep DEF Create, memory, told

LEMMA EditTracked ==
  ASSUME Typed, Tracked, NEW c \in Caller, Edit(c)
  PROVE  Tracked'
<1>1. PICK s \in Edited(held[c], clock') : held' = [held EXCEPT ![c] = s]
  BY DEF Edit
<1>2. /\ held[c] \in Session /\ clock' \in Nat /\ made \in SUBSET (Event \cup QItem)
      /\ held \in [Caller -> Session \cup {None}]
  BY TickTyped DEF Typed, Edit
<1>3. Linked(held[c].events, Roots)
  BY DEF Tracked, Links, LinkedHeld, Edit
<1>4. Linked(s.events, Roots)
  <2> DEFINE h == held[c]
             t == clock'
  <2>1. h \in Session /\ t \in Nat /\ s \in Edited(h, t) /\ Linked(h.events, Roots)
    BY <1>2, <1>3
  <2>2. None \in Roots
    BY DEF Roots
  <2> HIDE DEF h, t
  <2> QED  BY <1>2, <2>1, <2>2, EditedLinked
<1>5. LinkedHeld(held', Roots)
  BY <1>1, <1>2, <1>4 DEF LinkedHeld, Tracked, Links
<1> QED  BY <1>5, HeldStep DEF Edit, memory, told

LEMMA UnreadableNoFile == ~Readable(NoFile)
  BY DEF Readable, NoFile, Places

LEMMA LoadTracked ==
  ASSUME Typed, Tracked, NEW c \in Caller, LoadPath(c) \/ LoadFile(c)
  PROVE  Tracked'
<1>1. LinkedHeld(held, Roots) /\ held \in [Caller -> Session \cup {None}]
  BY DEF Tracked, Links, Typed
<1>2. CASE LoadPath(c)
  BY <1>1, <1>2, HeldStep DEF LoadPath, memory, told
<1>3. CASE LoadFile(c)
  <2> DEFINE f == files[reading[c]]
             s == Reconstruct(f)
  <2>1. held' = IF Readable(f) /\ Valid(s) THEN [held EXCEPT ![c] = s] ELSE held
    BY <1>3 DEF LoadFile
  <2>2. reading[c] \in Dir
    BY <1>3 DEF LoadFile, Typed
  <2>3. Readable(f) => Linked(s.events, Roots)
    <3>1. Readable(f) => f = Home
      BY <2>2, UnreadableNoFile DEF Tracked, AtHome, Home
    <3>2. Home.lines \in Seq(Line) /\ Linked(Home.lines, Roots)
      BY HomeTyped DEF Tracked, Links
    <3>3. Linked(Reconstruct(Home).events, Roots)
      BY <3>2, ReconstructLinked
    <3> QED  BY <3>1, <3>3
  <2> HIDE DEF f, s
  <2>4. LinkedHeld(held', Roots)
    BY <1>1, <2>1, <2>3 DEF LinkedHeld
  <2> QED  BY <1>3, <2>4, HeldStep DEF LoadFile, memory, told
<1> QED  BY <1>2, <1>3

LEMMA SaveTracked ==
  ASSUME OneFile, Typed, Tracked, NEW c \in Caller, Save(c)
  PROVE  Tracked'
<1> DEFINE s == held[c]
<1>1. s \in Session /\ Linked(s.events, Roots) /\ SaveInner(s)
  BY DEF Save, Typed, Tracked, Links, LinkedHeld
<1> HIDE DEF s
<1>2. Taken(op') /\ op'.kind = "save"
  BY <1>1, SaveInnerTaken DEF Tracked
<1> QED  BY <1>2, TakenStep DEF Save, Tracked, memory, callers, told

LEMMA StoredLinked ==
  ASSUME Typed, Tracked, index # None
  PROVE  /\ files[index.path] = Home /\ index.path = DefaultDir
         /\ Reconstruct(Home) \in Session
         /\ Linked(Reconstruct(Home).events, Roots)
         /\ EventIds(Reconstruct(Home).events) = EventIds(Home.lines)
<1>1. files[index.path] = Home /\ index.path = DefaultDir
  BY DEF Tracked, AtHome, Home
<1>2. Home.lines \in Seq(Line) /\ Linked(Home.lines, Roots)
  BY HomeTyped DEF Tracked, Links
<1>3. /\ Linked(Reconstruct(Home).events, Roots)
      /\ EventIds(Reconstruct(Home).events) = EventIds(Home.lines)
  BY <1>2, ReconstructLinked
<1>4. Reconstruct(Home) \in Session
  BY <1>2, ReconstructTyped
<1> QED  BY <1>1, <1>3, <1>4

LEMMA WithSessionLockTracked ==
  ASSUME OneFile, Typed, Tracked, WithSessionLock
  PROVE  Tracked'
<1> DEFINE s == Reconstruct(Home)
           n == clock + 1
<1>1. s \in Session /\ Linked(s.events, Roots) /\ files[index.path] = Home
  BY StoredLinked DEF WithSessionLock, Stored
<1>2. PICK t \in Edited(s, n) : SaveInner(t)
  BY <1>1 DEF WithSessionLock
<1>3. n \in Nat /\ made \in SUBSET (Event \cup QItem)
  BY DEF Typed
<1>4. None \in Roots
  BY DEF Roots
<1> HIDE DEF s, n
<1>5. t \in Session
  BY <1>1, <1>2, <1>3, EditedTyped
<1>6. Linked(t.events, Roots)
  BY <1>1, <1>2, <1>3, <1>4, EditedLinked
<1>7. Taken(op') /\ op'.kind = "save"
  BY <1>2, <1>5, <1>6, SaveInnerTaken DEF Tracked
<1> QED  BY <1>7, TakenStep DEF WithSessionLock, Tracked, memory, told

LEMMA AppendNodeTaken ==
  ASSUME OneFile, Typed, Tracked, index # None, NEW e \in Event, NEW p \in Event \cup {None},
         NEW d \in Where, p \in Roots \cup EventIds(Home.lines),
         AppendNode(e, p, d) \/ Fallback(e, p, d)
  PROVE  Taken(op') /\ op'.kind = "save"
<1>1. /\ files[index.path] = Home /\ index.path = DefaultDir /\ Home.lines \in Seq(Line)
      /\ index \in Indexed
  BY StoredLinked, HomeTyped DEF Typed
<1>2. CASE AppendNode(e, p, d)
  <2> DEFINE project == IF index.project # None THEN index.project ELSE d
             meta == Meta(project, clock + 1)
             l == Node(e, p, d)
             x == <<l>>
             y == <<meta>>
             es == <<l, meta>>
             ids == index.ids \cup {e}
             next == [index EXCEPT !.project = project, !.meta = meta, !.ids = ids, !.leaf = e]
             left == Left(Home, es)
  <2>1. Appending("save", DefaultDir, es, next, queue, {e}, None)
    BY <1>1, <1>2 DEF AppendNode
  <2>2. op' = [kind |-> "save", path |-> DefaultDir, next |-> next, queue |-> queue, acks |-> {e},
               item |-> None, appends |-> es # <<>>,
               left |-> IF es = <<>> THEN <<>> ELSE WithHeader(Home, es)]
    BY <2>1 DEF Appending, Home
  <2>3. es # <<>>
    OBVIOUS
  <2>4. left = IF es = <<>> THEN <<>> ELSE WithHeader(Home, es)
    BY DEF Left
  <2>5. l \in Line /\ l.k = "event" /\ l.parent = p /\ l.id = e
    BY DEF Node, NodeLine, Line
  <2>6. meta \in Line /\ meta.k # "event"
    <3>1. project \in Where /\ clock + 1 \in Nat
      BY <1>1 DEF Indexed, Typed
    <3>2. meta \in MetaLine /\ meta.k = "meta"
      BY <3>1 DEF Meta, MetaLine
    <3> QED  BY <3>2 DEF Line
  <2>7. next.leaf = e /\ next.ids = index.ids \cup {e} /\ next.path = DefaultDir
    BY <1>1 DEF Indexed
  <2> HIDE DEF l, meta, next, left
  <2>8. x \in Seq(Line) /\ y \in Seq(Line) /\ es = x \o y
    BY <2>5, <2>6
  <2>9. EventPlaces(y) = {} /\ EventIds(x) = {e}
    BY <2>5, <2>6, OneEvent
  <2>10. Linked(x, Roots \cup EventIds(Home.lines))
    BY <2>5, OneLinked
  <2> HIDE DEF x, y, es
  <2>11. es \in Seq(Line) /\ EventIds(es) = {e} /\ Linked(es, Roots \cup EventIds(Home.lines))
    BY <2>8, <2>9, <2>10, EventlessAfter
  <2>12. EventIds(left) = {e} /\ Linked(left, Roots \cup EventIds(Home.lines))
    BY <2>11, LeftEvents DEF left
  <2> DEFINE o == op'
  <2>13. /\ o.kind = "save" /\ o.path = DefaultDir /\ o.next = next /\ o.left = left
         /\ o.acks = {e} /\ o.appends = TRUE
    BY <2>2, <2>3, <2>4
  <2> HIDE DEF o
  <2>14. Coming(o, Home.lines) = EventIds(Home.lines) \cup {e}
    BY <2>12, <2>13 DEF Coming
  <2>15. LinkedOp(o, Home.lines, Roots)
    BY <2>7, <2>12, <2>13 DEF LinkedOp
  <2>16. TrackedOp(o, Safe \cup Coming(o, Home.lines))
    <3>1. index.ids \cap Event \subseteq Safe
      BY DEF Tracked, Acks
    <3> QED  BY <2>7, <2>13, <2>14, <3>1 DEF TrackedOp
  <2>17. Taken(o) /\ o.kind = "save"
    BY <2>7, <2>13, <2>14, <2>15, <2>16 DEF Taken
  <2> QED  BY <2>17 DEF o
<1>3. CASE Fallback(e, p, d)
  <2> DEFINE s == Reconstruct(Home)
             n == clock + 1
             u == WithEvent(s, e, p, d, n)
  <2>1. SaveInner(u)
    BY <1>1, <1>3 DEF Fallback
  <2>2. s \in Session /\ Linked(s.events, Roots) /\ EventIds(s.events) = EventIds(Home.lines)
    BY StoredLinked
  <2>3. n \in Nat
    BY DEF Typed
  <2> HIDE DEF s, n
  <2>4. u \in Session
    BY <2>2, <2>3, WithEventTyped
  <2>5. Linked(u.events, Roots)
    <3>1. p \in Roots \cup EventIds(s.events)
      BY <2>2
    <3> QED  BY <2>2, <2>3, <3>1, WithEventLinked
  <2> HIDE DEF u
  <2> QED  BY <2>1, <2>4, <2>5, SaveInnerTaken DEF Tracked
<1> QED  BY <1>2, <1>3

LEMMA AddMessageTracked ==
  ASSUME OneFile, Typed, Tracked, AddMessage
  PROVE  Tracked'
<1>1. /\ index # None /\ files[index.path] = Home
      /\ Reconstruct(Home) \in Session
      /\ EventIds(Reconstruct(Home).events) = EventIds(Home.lines)
  BY StoredLinked DEF AddMessage
<1>2. PICK e \in Event \ made, d \in Where :
        AppendNode(e, index.leaf, d) \/ Fallback(e, Leaf(Reconstruct(Home)), d)
  BY <1>1 DEF AddMessage
<1>3. /\ index.leaf \in Event \cup {None} /\ index.leaf \in Roots \cup EventIds(Home.lines)
  BY <1>1 DEF Typed, Indexed, Tracked, Links
<1>4. Leaf(Reconstruct(Home)) \in Event \cup {None}
  BY <1>1, SessionTyped DEF NodeTyped
<1>5. Leaf(Reconstruct(Home)) \in Roots \cup EventIds(Home.lines)
  BY <1>1, LeafIn DEF Roots
<1>6. ASSUME NEW p \in Event \cup {None}, p \in Roots \cup EventIds(Home.lines),
             AppendNode(e, p, d) \/ Fallback(e, p, d)
      PROVE  Taken(op') /\ op'.kind = "save"
  BY <1>1, <1>6, AppendNodeTaken
<1>7. Taken(op') /\ op'.kind = "save"
  BY <1>2, <1>3, <1>4, <1>5, <1>6
<1> QED  BY <1>7, TakenStep DEF AddMessage, Tracked, memory, told

LEMMA AppendGraphEventTracked ==
  ASSUME OneFile, Typed, Tracked, AppendGraphEvent
  PROVE  Tracked'
<1>1. index # None /\ files[index.path] = Home /\ Home.lines \in Seq(Line)
  BY StoredLinked, HomeTyped DEF AppendGraphEvent
<1>2. PICK e \in Event \ made, d \in Where, p \in Ids(Nodes(Home)) \cup {None} :
        AppendNode(e, p, d) \/ Fallback(e, p, d)
  BY <1>1 DEF AppendGraphEvent
<1>3. Ids(Nodes(Home)) = EventIds(Home.lines) /\ EventIds(Home.lines) \subseteq Event
  BY <1>1, NodesTyped, EventIdsTyped
<1>4. p \in Event \cup {None} /\ p \in Roots \cup EventIds(Home.lines)
  BY <1>2, <1>3 DEF Roots
<1>5. Taken(op') /\ op'.kind = "save"
  BY <1>1, <1>2, <1>4, AppendNodeTaken
<1> QED  BY <1>5, TakenStep DEF AppendGraphEvent, Tracked, memory, told

LEMMA QueueAppendTaken ==
  ASSUME Typed, Tracked, NEW es \in Seq(Line), EventPlaces(es) = {}, NEW q, NEW item,
         QueueAppend(es, q, item)
  PROVE  Taken(op') /\ op'.kind = "queue"
<1> DEFINE left == Left(Home, IF index = None THEN <<>> ELSE es)
<1>1. FilePath = DefaultDir
  BY DEF FilePath, Tracked, AtHome
<1>2. \E b \in BOOLEAN :
        op' = [kind |-> "queue", path |-> DefaultDir, next |-> index, queue |-> q,
               acks |-> acked, item |-> item, appends |-> b, left |-> left]
  BY <1>1 DEF QueueAppend, Appending, Left, Home
<1>3. EventIds(left) = {} /\ \A B : Linked(left, B)
  <2>1. EventIds(es) = {} /\ \A B : Linked(es, B)
    BY Eventless
  <2>2. EventIds(Left(Home, es)) = {} /\ \A B : Linked(Left(Home, es), B)
    BY <2>1, LeftEvents
  <2>3. index = None => left = <<>>
    BY DEF Left
  <2>4. index # None => left = Left(Home, es)
    OBVIOUS
  <2> HIDE DEF left
  <2> QED  BY <2>2, <2>3, <2>4, NoLines
<1> HIDE DEF left
<1> DEFINE o == op'
<1>4. /\ o.kind = "queue" /\ o.path = DefaultDir /\ o.next = index /\ o.left = left
      /\ o.acks = acked
  BY <1>2
<1> HIDE DEF o
<1>5. LinkedOp(o, Home.lines, Roots)
  BY <1>3, <1>4 DEF LinkedOp, Tracked, Links
<1>6. TrackedOp(o, Safe \cup Coming(o, Home.lines))
  BY <1>4 DEF TrackedOp, Tracked, Acks
<1>7. Taken(o) /\ o.kind = "queue"
  BY <1>4, <1>5, <1>6 DEF Taken, Tracked, Acks, AtHome
<1> QED  BY <1>7 DEF o

LEMMA QueueOpEventless ==
  ASSUME NEW o \in QueueOps, NEW q \in QItem
  PROVE  <<QueueOp(o, q)>> \in Seq(Line) /\ EventPlaces(<<QueueOp(o, q)>>) = {}
<1>1. QueueOp(o, q) \in Line /\ QueueOp(o, q).k # "event"
  BY DEF QueueOp, QueueLine, Line, QueueOps
<1> QED  BY <1>1, OneEvent, OneLine

LEMMA EnqueuesEventless ==
  ASSUME NEW S \in SUBSET QItem
  PROVE  Enqueues(S) \in Seq(Line) /\ EventPlaces(Enqueues(S)) = {}
<1> DEFINE es == Enqueues(S)
           N == Cardinality(S)
<1>1. /\ es \in Seq(Line) /\ N \in Nat /\ Len(es) = N + 1 /\ es[1] = QueueReset
      /\ \A n \in 2 .. N + 1 : es[n].k = "enqueue"
  BY EnqueuesTyped
<1> HIDE DEF es, N
<1>2. QueueReset.k # "event"
  BY DEF QueueReset
<1>3. \A n \in 1 .. Len(es) : n = 1 \/ n \in 2 .. N + 1
  BY <1>1
<1>4. \A n \in 1 .. Len(es) : es[n].k # "event"
  BY <1>1, <1>2, <1>3
<1>5. EventPlaces(es) = {}
  BY <1>1, <1>4, NoEventPlaces
<1> QED  BY <1>1, <1>5 DEF es

LEMMA QueueStepTracked ==
  ASSUME Typed, Tracked, Enqueue \/ Dequeue \/ CancelQueued \/ ReplacePendingQueue
  PROVE  Tracked'
<1>0. IsQueue(queue)
  BY DEF Typed
<1>1. \E q, item : \E es \in Seq(Line) : EventPlaces(es) = {} /\ QueueAppend(es, q, item)
  <2>1. CASE Enqueue
    <3>1. PICK q \in QItem : QueueAppend(<<QueueOp("enqueue", q)>>, WithItem(q), None)
      BY <2>1 DEF Enqueue
    <3> QED  BY <3>1, QueueOpEventless DEF QueueOps
  <2>2. CASE Dequeue
    <3>1. PICK q \in Pending :
            QueueAppend(<<QueueOp("dequeue", q)>>, queue', IF index = None THEN None ELSE q)
      BY <2>2 DEF Dequeue
    <3>2. q \in QItem
      BY <1>0, <3>1 DEF Pending, IsQueue
    <3>3. <<QueueOp("dequeue", q)>> \in Seq(Line) /\ EventPlaces(<<QueueOp("dequeue", q)>>) = {}
      BY <3>2, QueueOpEventless DEF QueueOps
    <3> QED  BY <3>1, <3>3
  <2>3. CASE CancelQueued
    <3>1. PICK q \in DOMAIN queue : QueueAppend(<<QueueOp("cancel", q)>>, queue', None)
      BY <2>3 DEF CancelQueued
    <3>2. q \in QItem
      BY <1>0 DEF IsQueue
    <3>3. <<QueueOp("cancel", q)>> \in Seq(Line) /\ EventPlaces(<<QueueOp("cancel", q)>>) = {}
      BY <3>2, QueueOpEventless DEF QueueOps
    <3> QED  BY <3>1, <3>3
  <2>4. CASE ReplacePendingQueue
    <3>1. PICK S \in SUBSET ((QItem \ made) \cup Pending) :
            QueueAppend(Enqueues(S), [q \in S |-> "pending"], None)
      BY <2>4 DEF ReplacePendingQueue
    <3>2. S \in SUBSET QItem
      BY <1>0 DEF Pending, IsQueue
    <3>3. Enqueues(S) \in Seq(Line) /\ EventPlaces(Enqueues(S)) = {}
      BY <3>2, EnqueuesEventless
    <3> QED  BY <3>1, <3>3
  <2> QED  BY <2>1, <2>2, <2>3, <2>4
<1>2. PICK q, item : \E es \in Seq(Line) : EventPlaces(es) = {} /\ QueueAppend(es, q, item)
  BY <1>1
<1>3. Taken(op') /\ op'.kind = "queue"
  BY <1>2, QueueAppendTaken
<1> QED  BY <1>3, TakenStep
         DEF Enqueue, Dequeue, CancelQueued, ReplacePendingQueue, Tracked, memory, callers, told

LEMMA RemovalTracked ==
  ASSUME Typed, Tracked, Delete \/ CleanupExpired
  PROVE  Tracked'
<1>1. \E kind \in {"delete", "cleanup"} :
        op' = [kind |-> kind, path |-> DefaultDir, next |-> None, queue |-> NoQueue,
               acks |-> {}, item |-> None, appends |-> FALSE, left |-> <<>>]
  BY DEF Delete, CleanupExpired, Appending, Tracked, AtHome
<1>2. /\ index' = None /\ acked' = {}
      /\ UNCHANGED <<syncing, files, held, crashes, spoiled>>
  BY DEF Delete, CleanupExpired, callers
<1>3. Lost' = Lost /\ Roots' = Roots /\ Home' = Home /\ Safe' = Safe
  BY <1>2 DEF Lost, Roots, Home, Safe, Kept
<1> DEFINE o == op'
<1>4. o.kind \in {"delete", "cleanup"} /\ o.path = DefaultDir /\ o.left = <<>>
  BY <1>1
<1> HIDE DEF o
<1>5. LinkedOp(o, Home.lines, Roots)
  BY <1>4, NoLines DEF LinkedOp, Saving
<1>6. TrackedOp(o, Safe' \cup Coming(o, Home.lines)) /\ ~Saving(o)
  BY <1>4 DEF TrackedOp, Saving
<1>7. AtHome'
  BY <1>2, <1>4 DEF Tracked, AtHome, o
<1>8. Links'
  BY <1>2, <1>3, <1>5 DEF Tracked, Links, o
<1>9. Acks'
  BY <1>2, <1>3, <1>6 DEF Acks, o
<1> QED  BY <1>7, <1>8, <1>9 DEF Tracked

\* What a restore puts in the file: the events as they are, and no others.
LEMMA BundleEvents ==
  ASSUME NEW s \in Session, NEW Q \in SUBSET QItem, NEW B, Linked(s.events, B)
  PROVE  /\ EventIds(<<Header>> \o Snapshot(s, Q)) = EventIds(s.events)
         /\ Linked(<<Header>> \o Snapshot(s, Q), B)
<1> DEFINE x == <<Header>>
           m == <<Meta(Project(s), s.stamp)>>
           es == s.events
           aux(a) == IF a \notin AuxKind THEN <<>> ELSE AuxLines(a, s.aux[a])
           a == aux("todo")
           b == aux("plan")
           r == [n \in DOMAIN s.compacts |-> Record(s.compacts[n])]
           q == IF Q = {} THEN <<>> ELSE Enqueues(Q)
<1>1. Snapshot(s, Q) = m \o es \o a \o b \o r \o q
  BY DEF Snapshot
<1>2. x \in Seq(Line) /\ EventPlaces(x) = {}
  <2>1. Header \in Line /\ Header.k # "event"
    BY DEF Header, MarkLine, Line
  <2> QED  BY <2>1, OneLine, OneEvent
<1>3. m \in Seq(Line) /\ EventPlaces(m) = {}
  <2>1. Project(s) \in Where /\ s.stamp \in Nat
    BY SessionTyped DEF NodeTyped, Session
  <2>2. Meta(Project(s), s.stamp) \in Line /\ Meta(Project(s), s.stamp).k # "event"
    BY <2>1 DEF Meta, MetaLine, Line
  <2> QED  BY <2>2, OneLine, OneEvent
<1>4. es \in Seq(Line) /\ Linked(es, B)
  BY SessionTyped DEF NodeTyped
<1>5. ASSUME NEW k PROVE aux(k) \in Seq(Line) /\ EventPlaces(aux(k)) = {}
  <2>1. CASE k \notin AuxKind
    BY <2>1, NoLines
  <2>2. CASE k \in AuxKind
    <3> DEFINE y == AuxLines(k, s.aux[k])
    <3>1. s.aux[k] \in SUBSET Item
      BY <2>2 DEF Session
    <3>2. /\ y \in Seq(Line) /\ Len(y) = Cardinality(s.aux[k])
          /\ \A n \in 1 .. Cardinality(s.aux[k]) : y[n].k = k
      BY <2>2, <3>1, AuxLinesTyped
    <3>3. k # "event"
      BY <2>2, AuxAssumption
    <3>4. aux(k) = y
      BY <2>2
    <3> HIDE DEF y
    <3>5. EventPlaces(y) = {}
      BY <3>2, <3>3, NoEventPlaces
    <3> QED  BY <3>2, <3>4, <3>5
  <2> QED  BY <2>1, <2>2
<1>6. a \in Seq(Line) /\ EventPlaces(a) = {} /\ b \in Seq(Line) /\ EventPlaces(b) = {}
  BY <1>5
<1>7. r \in Seq(Line) /\ EventPlaces(r) = {}
  <2>1. s.compacts \in Seq(Compact)
    BY DEF Session
  <2>2. \A c \in Compact : Record(c) \in Line /\ Record(c).k # "event"
    BY DEF Record, RecordLine, Line
  <2>3. r \in Seq(Line) /\ \A n \in 1 .. Len(r) : r[n].k # "event"
    BY <2>1, <2>2
  <2> HIDE DEF r
  <2> QED  BY <2>3, NoEventPlaces
<1>8. q \in Seq(Line) /\ EventPlaces(q) = {}
  BY EnqueuesEventless, NoLines
<1> HIDE DEF x, m, es, aux, a, b, r, q
<1>9. /\ m \o es \in Seq(Line) /\ EventIds(m \o es) = EventIds(es) /\ Linked(m \o es, B)
  BY <1>3, <1>4, EventlessBefore
<1>10. /\ m \o es \o a \in Seq(Line) /\ EventIds(m \o es \o a) = EventIds(es)
       /\ Linked(m \o es \o a, B)
  BY <1>6, <1>9, EventlessAfter
<1>11. /\ m \o es \o a \o b \in Seq(Line) /\ EventIds(m \o es \o a \o b) = EventIds(es)
       /\ Linked(m \o es \o a \o b, B)
  BY <1>6, <1>10, EventlessAfter
<1>12. /\ m \o es \o a \o b \o r \in Seq(Line) /\ EventIds(m \o es \o a \o b \o r) = EventIds(es)
       /\ Linked(m \o es \o a \o b \o r, B)
  BY <1>7, <1>11, EventlessAfter
<1> DEFINE t == m \o es \o a \o b \o r \o q
<1>13. t \in Seq(Line) /\ EventIds(t) = EventIds(es) /\ Linked(t, B)
  BY <1>8, <1>12, EventlessAfter
<1>14. Snapshot(s, Q) = t
  BY <1>1
<1> HIDE DEF t
<1>15. EventIds(x \o t) = EventIds(es) /\ Linked(x \o t, B)
  BY <1>2, <1>13, EventlessBefore
<1> QED  BY <1>14, <1>15 DEF x, es

LEMMA RestoreTracked ==
  ASSUME OneFile, Typed, Tracked, NEW c \in Caller, RestoreBundle(c)
  PROVE  Tracked'
<1> DEFINE s == held[c]
<1>1. s \in Session /\ Linked(s.events, Roots) /\ index = None
  BY DEF RestoreBundle, Typed, Tracked, Links, LinkedHeld
<1>2. Path(Project(s)) = DefaultDir
  BY <1>1, SessionTyped, OneDir DEF NodeTyped
<1>3. PICK Q \in SUBSET QItem :
        op' = [Idle EXCEPT !.kind = "restore", !.path = DefaultDir,
                           !.next = <<Header>> \o Snapshot(s, Q), !.acks = Ids(s.events)]
  BY <1>2 DEF RestoreBundle
<1> HIDE DEF s
<1> DEFINE ls == <<Header>> \o Snapshot(s, Q)
<1>4. EventIds(ls) = EventIds(s.events) /\ Linked(ls, Roots)
  BY <1>1, BundleEvents
<1>5. Ids(s.events) = EventIds(s.events)
  BY <1>1, SessionTyped DEF NodeTyped
<1> HIDE DEF ls
<1> DEFINE o == op'
<1>6. /\ o.kind = "restore" /\ o.path = DefaultDir /\ o.next = ls /\ o.left = <<>>
      /\ o.acks = Ids(s.events)
  BY <1>3 DEF Idle, ls
<1> HIDE DEF o
<1>7. LinkedOp(o, Home.lines, Roots)
  BY <1>4, <1>6, NoLines DEF LinkedOp, Saving
<1>8. TrackedOp(o, Safe \cup Coming(o, Home.lines))
  BY <1>4, <1>5, <1>6 DEF TrackedOp, Saving
<1>9. Taken(o) /\ o.kind = "restore"
  BY <1>1, <1>6, <1>7, <1>8 DEF Taken, Saving
<1> QED  BY <1>9, TakenStep DEF o, RestoreBundle, Tracked, memory, told

\* A step keeps what is in the file, or lost.
Keeps ==
  /\ Roots \subseteq Roots' /\ Safe \subseteq Safe'
  /\ EventIds(Home.lines) \subseteq EventIds(Home'.lines) \cup Lost'
  /\ Linked(Home'.lines, Roots')

\* The file is replaced by one that holds as much.
LEMMA GrownKeeps ==
  ASSUME Tracked, FileOK(Home), Lost \subseteq Lost', syncing' = syncing,
         GrownSafely(Home, Home', Roots, Lost')
  PROVE  Keeps
<1>1. Roots' = Roots \cup Lost'
  BY DEF Roots
<1>2. Kept(Home) \subseteq Kept(Home)' \cup Lost'
  BY DEF Kept, GrownSafely
<1> QED  BY <1>1, <1>2 DEF Keeps, GrownSafely, Safe

LEMMA LostMore ==
  ASSUME spoiled \subseteq spoiled'
  PROVE  Lost \subseteq Lost'
  BY DEF Lost

\* One line, or a part of it, was written.
LEMMA GrownTracked ==
  ASSUME Typed, Tracked, NEW f, NEW e \in Line, op.left # <<>>, e = Head(op.left),
         Grown(Home, e, f), files' = [files EXCEPT ![op.path] = f],
         spoiled \subseteq spoiled', Home.open => Spoiled(Home, e) \subseteq spoiled',
         syncing' = syncing
  PROVE  /\ Keeps /\ Home' = f
         /\ \A p \in Dir \ {DefaultDir} : files'[p] = NoFile
         /\ Home.open \/ f.lines = Append(Home.lines, e) =>
             EventIds(<<e>>) \subseteq EventIds(f.lines) \cup Lost'
         /\ op.left \in Seq(Line)
<1>1. FileOK(Home) /\ Home.lines \in Seq(Line) /\ op.left \in Seq(Line)
  BY HomeTyped, OpTyped DEF OpParts
<1>2. Lost \subseteq Lost'
  BY LostMore
<1>3. Home' = f /\ \A p \in Dir \ {DefaultDir} : files'[p] = NoFile
  BY DirAssumption DEF Home, Typed, Tracked, AtHome
<1> DEFINE x == <<e>>
           y == Tail(op.left)
<1>4. x \in Seq(Line) /\ y \in Seq(Line) /\ op.left = x \o y
  BY <1>1
<1> HIDE DEF y
<1>5. Linked(x \o y, Roots \cup EventIds(Home.lines)) /\ Linked(Home.lines, Roots)
  BY <1>4 DEF Tracked, Links, LinkedOp
<1>6. Linked(x, Roots \cup EventIds(Home.lines))
  <2> HIDE DEF x
  <2> QED  BY <1>4, <1>5, LinkedParts
<1>7. Home.open => \A l \in Spoiled(Home, e) : l.k = "event" => l.id \in Lost'
  BY DEF Lost
<1>8. GrownSafely(Home, f, Roots, Lost')
  BY <1>1, <1>5, <1>6, <1>7, GrowthSafe
<1>9. Keeps
  BY <1>1, <1>2, <1>3, <1>8, GrownKeeps
<1>10. ASSUME Home.open \/ f.lines = Append(Home.lines, e)
       PROVE  EventIds(x) \subseteq EventIds(f.lines) \cup Lost'
  <2>1. CASE Home.open
    <3>1. e \in Spoiled(Home, e)
      BY <2>1 DEF Spoiled
    <3>2. e.k = "event" => e.id \in Lost'
      BY <1>7, <2>1, <3>1
    <3> QED  BY <3>2, OneEvent
  <2>2. CASE f.lines = Append(Home.lines, e)
    <3>1. Append(Home.lines, e) = Home.lines \o x
      BY <1>1, AppendIsJoin
    <3> HIDE DEF x
    <3>2. EventIds(Home.lines \o x) = EventIds(Home.lines) \cup EventIds(x)
      BY <1>1, <1>4, EventIdsJoin
    <3> QED  BY <2>2, <3>1, <3>2
  <2> QED  BY <1>10, <2>1, <2>2
<1> QED  BY <1>1, <1>3, <1>9, <1>10 DEF x

\* What an operation that ended leaves.
LEMMA IdleTracked ==
  ASSUME Tracked, Keeps, \A p \in Dir \ {DefaultDir} : files'[p] = NoFile, op' = Idle,
         held' = held, crashes' = crashes, syncing' = syncing,
         index' = index, acked' = acked
  PROVE  Tracked'
<1>1. Idle.path = DefaultDir /\ Idle.kind = "idle" /\ Idle.left = <<>>
  BY DEF Idle
<1>2. AtHome'
  BY <1>1 DEF AtHome, Tracked
<1>3. LinkedHeld(held', Roots')
  BY LinkedMore DEF LinkedHeld, Tracked, Links, Keeps
<1>4. LinkedOp(Idle, Home'.lines, Roots')
  BY <1>1, NoLines DEF LinkedOp, Saving
<1>5. index' # None => index'.leaf \in Roots' \cup EventIds(Home'.lines)
  <2>1. Lost' \subseteq Roots'
    BY DEF Roots
  <2> QED  BY <2>1 DEF Tracked, Links, Keeps
<1>6. Links'
  BY <1>3, <1>4, <1>5 DEF Links, Keeps
<1>7. \A S : TrackedOp(Idle, S) /\ ~Saving(Idle)
  BY <1>1 DEF TrackedOp, Saving
<1>8. index' # None => index'.ids \cap Event \subseteq Safe'
  BY DEF Tracked, Acks, Keeps
<1>9. syncing' \/ crashes' = 0 => acked' \subseteq Safe'
  BY DEF Tracked, Acks, Keeps
<1>10. Acks'
  BY <1>1, <1>7, <1>8, <1>9 DEF Acks
<1> QED  BY <1>2, <1>6, <1>10 DEF Tracked

LEMMA WriteLineTracked ==
  ASSUME Typed, Tracked, WriteLine
  PROVE  Tracked'
<1> DEFINE e == Head(op.left)
           f == Written(Home, e)
           t == Tail(op.left)
<1>1. op.left \in Seq(Line) /\ op.left # <<>> /\ op.path = DefaultDir
  BY OpTyped DEF OpParts, WriteLine, Tracked, AtHome
<1>2. e \in Line /\ t \in Seq(Line) /\ op.left = <<e>> \o t /\ <<e>> \in Seq(Line)
  BY <1>1
<1>3. /\ files' = [files EXCEPT ![DefaultDir] = f]
      /\ spoiled' = spoiled \cup Spoiled(Home, e)
      /\ op' = [op EXCEPT !.left = t]
      /\ UNCHANGED <<syncing, index, held, crashes, acked>>
  BY <1>1 DEF WriteLine, Home, memory, callers
<1>4. op.kind \in {"save", "queue"} /\ IsOp(op)
  BY <1>1 DEF Typed, IsOp
<1>5. /\ op'.kind = op.kind /\ op'.path = DefaultDir /\ op'.next = op.next /\ op'.left = t
      /\ op'.acks = op.acks /\ op'.appends = op.appends
  <2> HIDE DEF t
  <2> QED  BY <1>1, <1>3, <1>4 DEF IsOp
<1> HIDE DEF e, t
<1>6. FileOK(Home)
  BY HomeTyped
<1>7. Grown(Home, e, f) /\ (Home.open \/ f.lines = Append(Home.lines, e))
  BY <1>2, <1>6, WrittenGrows
<1>8. /\ Keeps /\ Home' = f /\ \A p \in Dir \ {DefaultDir} : files'[p] = NoFile
      /\ EventIds(<<e>>) \subseteq EventIds(f.lines) \cup Lost'
  <2>1. spoiled \subseteq spoiled' /\ Spoiled(Home, e) \subseteq spoiled' /\ syncing' = syncing
    BY <1>3
  <2>2. e = Head(op.left)
    BY DEF e
  <2> HIDE DEF f
  <2> QED  BY <1>1, <1>2, <1>3, <1>7, <2>1, <2>2, GrownTracked
<1>9. Lost' \subseteq Roots' /\ Lost' \subseteq Safe'
  BY DEF Roots, Safe
<1>10. LinkedHeld(held', Roots')
  BY <1>3, <1>8, LinkedMore DEF LinkedHeld, Tracked, Links, Keeps
<1> DEFINE x == <<e>>
           ls == Home.lines
           new == Home'.lines
<1>11. /\ EventIds(op.left) = EventIds(x) \cup EventIds(t)
       /\ Linked(t, Roots \cup EventIds(ls) \cup EventIds(x))
  <2>1. Linked(op.left, Roots \cup EventIds(ls))
    BY DEF Tracked, Links, LinkedOp
  <2>2. x \in Seq(Line) /\ t \in Seq(Line) /\ op.left = x \o t
    BY <1>2
  <2> HIDE DEF x, ls
  <2>3. EventIds(x \o t) = EventIds(x) \cup EventIds(t)
    BY <2>2, EventIdsJoin
  <2>4. Linked(t, Roots \cup EventIds(ls) \cup EventIds(x))
    BY <2>1, <2>2, LinkedParts
  <2> QED  BY <2>2, <2>3, <2>4
<1>12. /\ EventIds(ls) \subseteq EventIds(new) \cup Lost'
       /\ EventIds(x) \subseteq EventIds(new) \cup Lost'
  BY <1>8 DEF Keeps
<1>13. Roots \subseteq Roots' /\ Safe \subseteq Safe' /\ Linked(new, Roots')
  BY <1>8 DEF Keeps
<1>14. index' # None => index'.leaf \in Roots' \cup EventIds(new)
  BY <1>3, <1>9, <1>12, <1>13 DEF Tracked, Links
<1>c. Coming(op, ls) \subseteq EventIds(new) \cup EventIds(t) \cup Lost'
  BY <1>11, <1>12 DEF Coming
<1>k. op.next # None => op.next.leaf \in Roots \cup EventIds(ls) \cup EventIds(op.left)
  BY <1>4 DEF Tracked, Links, LinkedOp, Saving
<1>i. op.next # None => op.next.ids \cap Event \subseteq Safe \cup Coming(op, ls)
  BY <1>4 DEF Tracked, Acks, TrackedOp, Saving
<1>a. syncing \/ crashes = 0 => op.acks \subseteq Safe \cup Coming(op, ls)
  BY <1>4 DEF Tracked, Acks, TrackedOp, Saving
<1> DEFINE o == op'
<1>o. /\ o.kind \in {"save", "queue"} /\ o.path = DefaultDir /\ o.next = op.next /\ o.left = t
      /\ o.acks = op.acks /\ o.appends = op.appends
  BY <1>4, <1>5
<1> HIDE DEF o, x
<1>15. LinkedOp(o, new, Roots')
  <2>1. Linked(t, Roots' \cup EventIds(new))
    <3>1. Roots \cup EventIds(ls) \cup EventIds(x) \subseteq Roots' \cup EventIds(new)
      BY <1>9, <1>12, <1>13
    <3> QED  BY <1>11, <3>1, LinkedMore
  <2>2. op.next # None => op.next.leaf \in Roots' \cup EventIds(new) \cup EventIds(t)
    BY <1>k, <1>9, <1>11, <1>12, <1>13
  <2> QED  BY <1>o, <2>1, <2>2 DEF LinkedOp
<1>16. Coming(op, ls) \subseteq Safe' \cup Coming(o, new)
  <2>1. CASE op.appends = TRUE
    <3>1. Coming(o, new) = EventIds(new) \cup EventIds(t)
      BY <1>o, <2>1 DEF Coming
    <3> QED  BY <1>9, <1>c, <3>1
  <2>2. CASE op.appends = FALSE
    BY <2>2 DEF Coming
  <2>3. op.appends \in BOOLEAN
    BY OpTyped DEF OpParts
  <2> QED  BY <2>1, <2>2, <2>3
<1>17. TrackedOp(o, Safe' \cup Coming(o, new))
  BY <1>i, <1>o, <1>13, <1>16 DEF TrackedOp
<1>18. syncing \/ crashes = 0 => o.acks \subseteq Safe' \cup Coming(o, new)
  BY <1>a, <1>o, <1>13, <1>16
<1>19. index' # None => index'.ids \cap Event \subseteq Safe'
  BY <1>3, <1>13 DEF Tracked, Acks
<1>20. syncing \/ crashes = 0 => acked' \subseteq Safe'
  BY <1>3, <1>13 DEF Tracked, Acks
<1> HIDE DEF ls
<1>21. AtHome'
  BY <1>3, <1>8, <1>o DEF AtHome, Tracked, o
<1>22. Links'
  BY <1>10, <1>13, <1>14, <1>15 DEF Links, o
<1>23. Acks'
  BY <1>3, <1>o, <1>17, <1>18, <1>19, <1>20 DEF Acks, o
<1> QED  BY <1>21, <1>22, <1>23 DEF Tracked

LEMMA FailTracked ==
  ASSUME Typed, Tracked, Fail
  PROVE  Tracked'
<1>1. PICK f : /\ FileOK(f) /\ files' = [files EXCEPT ![op.path] = f]
               /\ \/ f = files[op.path]
                  \/ op.left # <<>> /\ Head(op.left) \in Line
                     /\ Grown(files[op.path], Head(op.left), f)
  BY FailGrows
<1>2. op.path = DefaultDir /\ files[op.path] = Home
  BY DEF Tracked, AtHome, Home
<1>3. /\ op' = Idle /\ UNCHANGED <<syncing, index, held, crashes, acked>>
      /\ spoiled' = IF files'[op.path] = files[op.path] \/ ~files[op.path].open
                    THEN spoiled ELSE spoiled \cup Spoiled(files[op.path], Head(op.left))
  BY DEF Fail, memory, callers
<1>4. FileOK(Home)
  BY HomeTyped
<1>5. Home' = f /\ \A p \in Dir \ {DefaultDir} : files'[p] = NoFile
  BY <1>1, <1>2, DirAssumption DEF Home, Typed, Tracked, AtHome
<1>6. spoiled \subseteq spoiled'
  BY <1>3
<1>7. Keeps
  <2>1. CASE f = Home
    <3>1. Lost \subseteq Lost' /\ Roots' = Roots \cup Lost' /\ Kept(Home)' = Kept(Home)
      BY <1>3, <1>5, <1>6, <2>1, LostMore DEF Roots, Kept
    <3>2. Linked(Home.lines, Roots')
      BY <3>1, LinkedMore DEF Tracked, Links
    <3> QED  BY <1>5, <2>1, <3>1, <3>2 DEF Keeps, Safe
  <2>2. CASE /\ f # Home /\ op.left # <<>> /\ Head(op.left) \in Line
             /\ Grown(Home, Head(op.left), f)
    <3> DEFINE e == Head(op.left)
    <3>1. files'[op.path] # files[op.path]
      BY <1>2, <1>5, <2>2 DEF Home
    <3>2. Home.open => Spoiled(Home, e) \subseteq spoiled'
      BY <1>2, <1>3, <3>1
    <3>3. /\ e \in Line /\ op.left # <<>> /\ e = Head(op.left) /\ Grown(Home, e, f)
          /\ files' = [files EXCEPT ![op.path] = f] /\ syncing' = syncing
      BY <1>1, <1>3, <2>2
    <3> HIDE DEF e
    <3> QED  BY <1>6, <3>2, <3>3, GrownTracked
  <2> QED  BY <1>1, <1>2, <2>1, <2>2
<1> QED  BY <1>3, <1>5, <1>7, IdleTracked

LEMMA FinishTracked ==
  ASSUME Typed, Tracked, Finish
  PROVE  Tracked'
<1> DEFINE g == Synced(Home)
<1>1. op.path = DefaultDir /\ op.left = <<>> /\ Saving(op)
  BY DEF Finish, Tracked, AtHome, Saving
<1>2. /\ files' = [files EXCEPT ![DefaultDir] = g] /\ op' = Idle
      /\ index' = op.next /\ acked' = acked \cup op.acks
      /\ UNCHANGED <<syncing, held, crashes, spoiled>>
  BY <1>1 DEF Finish, Home, callers
<1>3. /\ FileOK(g) /\ g.lines = Home.lines
      /\ g.synced = IF syncing /\ op.appends THEN Len(Home.lines) ELSE Home.synced
  BY HomeTyped, SyncedOK
<1> HIDE DEF g
<1>4. Home' = g /\ \A p \in Dir \ {DefaultDir} : files'[p] = NoFile
  BY <1>2, DirAssumption DEF Home, Typed, Tracked, AtHome
<1>5. Lost' = Lost /\ Roots' = Roots
  BY <1>2 DEF Lost, Roots
<1>6. Safe \cup Coming(op, Home.lines) \subseteq Safe'
  <2>1. g.lines \in Seq(Line) /\ Len(g.lines) \in Nat
    BY <1>3 DEF FileOK, File
  <2>2. EventIds(op.left) = {}
    BY <1>1, NoLines
  <2>3. CASE op.appends = TRUE
    <3>1. Kept(g) = EventIds(g.lines)
      <4>1. syncing => SyncedIds(g) = EventIds(g.lines)
        BY <1>3, <2>1, <2>3, AllSynced
      <4> QED  BY <4>1 DEF Kept
    <3>2. Kept(Home) \subseteq EventIds(Home.lines)
      BY KeptInFile
    <3>3. Kept(Home)' = Kept(g)
      BY <1>2, <1>4 DEF Kept
    <3> QED  BY <1>3, <1>5, <2>2, <3>1, <3>2, <3>3 DEF Safe, Coming
  <2>4. CASE op.appends = FALSE
    <3>1. SyncedIds(g) = SyncedIds(Home) /\ EventIds(g.lines) = EventIds(Home.lines)
      BY <1>3, <2>4 DEF SyncedIds
    <3>2. Kept(Home)' = Kept(Home)
      BY <1>2, <1>4, <3>1 DEF Kept
    <3> QED  BY <1>5, <2>4, <3>2 DEF Safe, Coming
  <2>5. op.appends \in BOOLEAN
    BY OpTyped DEF OpParts
  <2> QED  BY <2>3, <2>4, <2>5
<1>7. Idle.path = DefaultDir /\ Idle.kind = "idle" /\ Idle.left = <<>>
  BY DEF Idle
<1>8. AtHome'
  <2>1. index' # None => index'.path = DefaultDir
    <3>1. op.next # None => op.next.path = DefaultDir
      BY <1>1 DEF Tracked, AtHome, Saving
    <3> QED  BY <1>2, <3>1
  <2> QED  BY <1>2, <1>4, <1>7, <2>1 DEF AtHome
<1>9. LinkedOp(Idle, Home'.lines, Roots') /\ \A S : TrackedOp(Idle, S) /\ ~Saving(Idle)
  BY <1>7, NoLines DEF LinkedOp, TrackedOp, Saving
<1>10. Links'
  <2>1. index' # None => index'.leaf \in Roots \cup EventIds(Home.lines)
    <3>1. EventIds(op.left) = {}
      BY <1>1, NoLines
    <3> QED  BY <1>1, <1>2, <3>1 DEF Tracked, Links, LinkedOp
  <2> QED  BY <1>2, <1>3, <1>4, <1>5, <1>9, <2>1 DEF Links, Tracked
<1>11. Acks'
  <2>1. index' # None => index'.ids \cap Event \subseteq Safe'
    BY <1>1, <1>2, <1>6 DEF Tracked, Acks, TrackedOp
  <2>2. syncing' \/ crashes' = 0 => acked' \subseteq Safe'
    BY <1>1, <1>2, <1>6 DEF Tracked, Acks
  <2> QED  BY <1>2, <1>7, <1>9, <2>1, <2>2 DEF Acks
<1> QED  BY <1>8, <1>10, <1>11 DEF Tracked

LEMMA RemoveFileTracked ==
  ASSUME Typed, Tracked, RemoveFile
  PROVE  Tracked'
<1>1. op.path = DefaultDir /\ index = None /\ acked = {}
  BY DEF RemoveFile, Tracked, AtHome, Acks
<1>2. /\ files' = [files EXCEPT ![DefaultDir] = NoFile] /\ op' = Idle
      /\ UNCHANGED <<syncing, index, held, crashes, acked, spoiled>>
  BY <1>1 DEF RemoveFile, callers, told
<1>3. Home' = NoFile /\ \A p \in Dir \ {DefaultDir} : files'[p] = NoFile
  BY <1>2, DirAssumption DEF Home, Typed, Tracked, AtHome
<1>4. Idle.path = DefaultDir /\ Idle.kind = "idle" /\ Idle.left = <<>>
  BY DEF Idle
<1>5. Lost' = Lost /\ Roots' = Roots
  BY <1>2 DEF Lost, Roots
<1>6. LinkedOp(Idle, NoFile.lines, Roots) /\ \A S : TrackedOp(Idle, S) /\ ~Saving(Idle)
  BY <1>4, NoLines DEF LinkedOp, TrackedOp, Saving
<1>7. Linked(NoFile.lines, Roots)
  BY NoFileOK, NoLines
<1>8. AtHome'
  BY <1>1, <1>2, <1>3, <1>4 DEF AtHome
<1>9. Links'
  BY <1>1, <1>2, <1>3, <1>5, <1>6, <1>7 DEF Links, Tracked
<1>10. Acks'
  BY <1>1, <1>2, <1>4, <1>6 DEF Acks
<1> QED  BY <1>8, <1>9, <1>10 DEF Tracked

\* A file that was read as a whole into the index.
LEMMA ParseLeaf ==
  ASSUME NEW f, f.lines \in Seq(Line), NEW p
  PROVE  /\ Parse(p, f).path = p /\ Parse(p, f).ids = EventIds(f.lines)
         /\ Parse(p, f).leaf \in {None} \cup EventIds(f.lines)
<1> DEFINE t == Nodes(f)
<1>1. t \in Seq(NodeLine) /\ Ids(t) = EventIds(f.lines)
  BY NodesTyped
<1>2. t # <<>> => Last(t) = t[Len(t)] /\ Len(t) \in DOMAIN t
  BY <1>1 DEF Last
<1>3. t # <<>> => Last(t).id \in Ids(t)
  BY <1>2 DEF Ids
<1> HIDE DEF t
<1>4. /\ Parse(p, f).path = p /\ Parse(p, f).ids = Ids(t)
      /\ Parse(p, f).leaf = IF t = <<>> THEN None ELSE Last(t).id
  BY DEF Parse, t
<1> QED  BY <1>1, <1>3, <1>4

\* The index is read from a file whose events are all durable.
LEMMA ReadTracked ==
  ASSUME FileOK(Home'), Linked(Home'.lines, Roots'), LinkedHeld(held', Roots'),
         EventIds(Home'.lines) \subseteq Safe', op' \in {Idle, Down},
         \A p \in Dir \ {DefaultDir} : files'[p] = NoFile,
         index' = None \/ index' = Parse(DefaultDir, Home'),
         syncing' \/ crashes' = 0 => acked' \subseteq Safe'
  PROVE  Tracked'
<1> DEFINE f == Home'
<1>1. f.lines \in Seq(Line)
  BY DEF FileOK, File
<1> HIDE DEF f
<1>2. /\ Parse(DefaultDir, f).path = DefaultDir /\ Parse(DefaultDir, f).ids = EventIds(f.lines)
      /\ Parse(DefaultDir, f).leaf \in {None} \cup EventIds(f.lines)
  BY <1>1, ParseLeaf
<1>3. /\ index' # None => /\ index'.path = DefaultDir /\ index'.ids = EventIds(f.lines)
                          /\ index'.leaf \in {None} \cup EventIds(f.lines)
  BY <1>2 DEF f
<1>4. op'.path = DefaultDir /\ op'.kind \in {"idle", "down"} /\ op'.left = <<>>
  BY DEF Idle, Down
<1>5. LinkedOp(op', f.lines, Roots') /\ \A S : TrackedOp(op', S) /\ ~Saving(op')
  BY <1>4, NoLines DEF LinkedOp, TrackedOp, Saving
<1>6. AtHome'
  BY <1>3, <1>4 DEF AtHome
<1>7. Links'
  <2>1. None \in Roots'
    BY DEF Roots
  <2> QED  BY <1>3, <1>5, <2>1 DEF Links, f
<1>8. Acks'
  BY <1>3, <1>4, <1>5 DEF Acks, f
<1> QED  BY <1>6, <1>7, <1>8 DEF Tracked

LEMMA PublishTracked ==
  ASSUME Typed, Tracked, Publish
  PROVE  Tracked'
<1> DEFINE ls == op.next
           g == [lines |-> ls, open |-> FALSE, synced |-> IF syncing THEN Len(ls) ELSE 0,
                 exists |-> TRUE]
<1>1. /\ ls \in Seq(Line) /\ ls # <<>> /\ op.path = DefaultDir /\ op.kind = "restore"
      /\ syncing \in BOOLEAN
  BY DEF Publish, Typed, IsOp, Tracked, AtHome
<1>2. Linked(ls, Roots) /\ op.acks \subseteq EventIds(ls)
  BY <1>1 DEF Tracked, Links, LinkedOp, Acks, TrackedOp
<1>3. /\ files' = [files EXCEPT ![DefaultDir] =
                     [NewFile EXCEPT !.lines = ls, !.synced = IF syncing THEN Len(ls) ELSE 0]]
      /\ index' = Parse(DefaultDir, [NewFile EXCEPT !.lines = ls,
                                       !.synced = IF syncing THEN Len(ls) ELSE 0])
      /\ acked' = op.acks /\ op' = Idle
      /\ UNCHANGED <<syncing, held, crashes, spoiled>>
  BY <1>1 DEF Publish, callers
<1> HIDE DEF ls
<1>4. /\ [NewFile EXCEPT !.lines = ls, !.synced = IF syncing THEN Len(ls) ELSE 0] = g
      /\ FileOK(g)
  BY <1>1, PublishedOK
<1>5. g.lines = ls /\ g.synced = IF syncing THEN Len(ls) ELSE 0
  OBVIOUS
<1> HIDE DEF g
<1>6. files' = [files EXCEPT ![DefaultDir] = g] /\ index' = Parse(DefaultDir, g)
  BY <1>3, <1>4
<1>7. Home' = g /\ \A p \in Dir \ {DefaultDir} : files'[p] = NoFile
  BY <1>6, DirAssumption DEF Home, Typed, Tracked, AtHome
<1>8. Lost' = Lost /\ Roots' = Roots
  BY <1>3 DEF Lost, Roots
<1>9. EventIds(ls) \subseteq Safe'
  <2>1. syncing => SyncedIds(g) = EventIds(ls)
    BY <1>1, <1>5, AllSynced
  <2>2. Kept(Home)' = EventIds(ls)
    BY <1>3, <1>5, <1>7, <2>1 DEF Kept
  <2> QED  BY <2>2 DEF Safe
<1>10. LinkedHeld(held', Roots')
  BY <1>3, <1>8 DEF Tracked, Links
<1> QED  BY <1>2, <1>3, <1>4, <1>5, <1>6, <1>7, <1>8, <1>9, <1>10, ReadTracked

LEMMA RestartTracked ==
  ASSUME Typed, Tracked, Restart
  PROVE  Tracked'
<1> DEFINE f == Home
           g == files'[DefaultDir]
<1>1. /\ \A p \in Dir : Shortened(files[p], files'[p])
      /\ \/ index' = None
         \/ \E p \in Dir : files'[p].exists /\ index' = Parse(p, files'[p])
  BY RestartFinds DEF RestartReads
<1>2. Shortened(f, g) /\ FileOK(f)
  BY <1>1, HomeTyped, DirAssumption DEF Home
<1>3. FileOK(g)
  <2> HIDE DEF f, g
  <2> QED  BY <1>2 DEF Shortened
<1>4. ASSUME NEW p \in Dir \ {DefaultDir} PROVE files'[p] = NoFile
  <2>1. files[p] = NoFile /\ Shortened(files[p], files'[p])
    BY <1>1 DEF Tracked, AtHome
  <2> QED  BY <2>1, NoFileOK DEF Shortened
<1>5. index' = None \/ index' = Parse(DefaultDir, g)
  BY <1>1, <1>4, NoFileOK
<1>6. /\ op' \in {Idle, Down} /\ held' = [c \in Caller |-> None] /\ crashes' = crashes + 1
      /\ UNCHANGED <<syncing, acked, spoiled>>
  BY RestartFinds DEF Restart, RestartReads
<1>7. Lost' = Lost /\ Roots' = Roots
  BY <1>6 DEF Lost, Roots
<1>8. Home' = g
  BY DEF Home
<1>9. Linked(f.lines, Roots)
  BY DEF Tracked, Links
<1> HIDE DEF f, g
<1>10. ShortSafely(f, g, Roots)
  BY <1>2, <1>9, ShorteningSafe
<1>11. Kept(g) = EventIds(g.lines) /\ Kept(Home)' = Kept(g)
  BY <1>6, <1>8, <1>10 DEF Kept, ShortSafely
<1>12. EventIds(g.lines) \subseteq Safe'
  BY <1>11 DEF Safe
<1>13. syncing' \/ crashes' = 0 => acked' \subseteq Safe'
  <2>1. crashes' # 0
    BY <1>6 DEF Typed
  <2>2. syncing => Safe \subseteq Safe'
    BY <1>7, <1>10, <1>11 DEF Safe, Kept, ShortSafely, f
  <2> QED  BY <1>6, <2>1, <2>2 DEF Tracked, Acks
<1>14. LinkedHeld(held', Roots')
  BY <1>6 DEF LinkedHeld
<1> QED  BY <1>3, <1>4, <1>5, <1>6, <1>7, <1>8, <1>10, <1>12, <1>13, <1>14, ReadTracked
         DEF ShortSafely

LEMMA StutterTracked ==
  ASSUME Tracked, UNCHANGED vars
  PROVE  Tracked'
<1>1. UNCHANGED <<syncing, files, index, held, op, crashes, acked, spoiled>>
  BY DEF vars, memory, callers, told
<1>2. LinkedHeld(held', Roots)
  BY <1>1 DEF Tracked, Links
<1> QED  BY <1>1, <1>2, HeldStep

LEMMA TrackedInit ==
  ASSUME Init
  PROVE  Tracked
<1>1. Home = NoFile /\ \A p \in Dir : files[p] = NoFile
  BY DirAssumption DEF Init, Home
<1>2. Idle.path = DefaultDir /\ Idle.kind = "idle" /\ Idle.left = <<>>
  BY DEF Idle
<1>3. LinkedOp(Idle, NoFile.lines, Roots) /\ \A S : TrackedOp(Idle, S) /\ ~Saving(Idle)
  BY <1>2, NoLines DEF LinkedOp, TrackedOp, Saving
<1>4. Linked(NoFile.lines, Roots)
  BY NoFileOK, NoLines
<1>5. AtHome
  BY <1>1, <1>2 DEF AtHome, Init
<1>6. Links
  BY <1>1, <1>3, <1>4 DEF Links, Init, LinkedHeld
<1>7. Acks
  BY <1>2, <1>3 DEF Acks, Init
<1> QED  BY <1>5, <1>6, <1>7 DEF Tracked

LEMMA NextTracked ==
  ASSUME OneFile, Typed, Tracked, [Next]_vars
  PROVE  Tracked'
<1>1. held \in [Caller -> Session \cup {None}]
  BY DEF Typed
<1> QED  BY <1>1, CreateTracked, EditTracked, SaveTracked, LoadTracked, RestoreTracked,
            WithSessionLockTracked, AddMessageTracked, AppendGraphEventTracked,
            QueueStepTracked, RemovalTracked, PublishTracked, WriteLineTracked, FinishTracked,
            RemoveFileTracked, FailTracked, RestartTracked, StutterTracked
         DEF Next

LEMMA SpecTracked ==
  ASSUME OneFile
  PROVE  Spec => [](Typed /\ Tracked)
<1>1. Init => Typed /\ Tracked
  BY TypedInit, TrackedInit
<1>2. Typed /\ Tracked /\ [Next]_vars => (Typed /\ Tracked)'
  BY NextTyped, NextTracked
<1> QED  BY <1>1, <1>2, PTL DEF Spec

LEMMA TrackedParents ==
  ASSUME Typed, Tracked
  PROVE  ParentsKept
<1> SUFFICES ASSUME NEW p \in Dir, NEW n \in 1 .. Len(Nodes(files[p]))
             PROVE  Nodes(files[p])[n].parent
                      \in {None} \cup Lost \cup Ids(SubSeq(Nodes(files[p]), 1, n - 1))
  BY DEF ParentsKept
<1> DEFINE ls == files[p].lines
           P == EventPlaces(ls)
           t == Nodes(files[p])
<1>1. ls \in Seq(Line) /\ Linked(ls, Roots)
  <2>1. p # DefaultDir => ls = <<>>
    BY NoFileOK DEF Tracked, AtHome
  <2>2. p = DefaultDir => Linked(ls, Roots)
    BY DEF Tracked, Links, Home
  <2> QED  BY <2>1, <2>2, NoLines, FilesTyped
<1>2. t = Picked(ls, P) /\ P \in SUBSET EventPlaces(ls)
  BY DEF Nodes, EventPlaces
<1> HIDE DEF ls, P, t
<1>3. \A m \in EventPlaces(ls) \ P : ls[m].id \in {}
  BY DEF P
<1>4. t \in Seq(Line) /\ Linked(t, Roots \cup {}) /\ EventPlaces(t) = 1 .. Len(t)
  BY <1>1, <1>2, <1>3, PickedLinked
<1>5. n \in 1 .. Len(t) /\ n \in Nat /\ Len(t) \in Nat
  BY <1>4 DEF t
<1>6. t[n].parent \in Roots \cup EarlierIds(t, n)
  BY <1>4, <1>5 DEF Linked
<1> DEFINE u == SubSeq(t, 1, n - 1)
<1>7. DOMAIN u = 1 .. n - 1 /\ \A m \in 1 .. n - 1 : u[m] = t[m]
  BY <1>4, <1>5
<1>8. \A m \in EventPlaces(t) : m < n => m \in 1 .. n - 1
  BY <1>4, <1>5
<1> HIDE DEF u
<1>9. EarlierIds(t, n) \subseteq Ids(u)
  BY <1>7, <1>8 DEF EarlierIds, Ids
<1> QED  BY <1>6, <1>9 DEF Roots, t, u

\* No node stands in a file before its parent: saves, appends that a crash cuts
\* short, rewrites and restores keep the order validate_graph asks for.
THEOREM JsonlParentsKept ==
  ASSUME OneFile
  PROVE  Spec => []ParentsKept
BY SpecTracked, TrackedParents, PTL

\* What a write does to the entries of some kinds.
GrownAt(f, e, g, ks) ==
  /\ f.open =>
       /\ \A n \in Places(g.lines, ks) : n \in Places(f.lines, ks) /\ g.lines[n] = f.lines[n]
       /\ \A n \in Places(f.lines, ks) : n # Len(f.lines) =>
            n \in Places(g.lines, ks) /\ g.lines[n] = f.lines[n]
  /\ ~f.open =>
       /\ \A n \in Places(f.lines, ks) : n \in Places(g.lines, ks) /\ g.lines[n] = f.lines[n]
       /\ \A n \in Places(g.lines, ks) :
            \/ n \in Places(f.lines, ks) /\ g.lines[n] = f.lines[n]
            \/ g.lines[n] = e /\ e.k \in ks

LEMMA GrownPlaces ==
  ASSUME NEW f, FileOK(f), NEW e \in Line, NEW g, Grown(f, e, g), NEW ks, "torn" \notin ks
  PROVE  GrownAt(f, e, g, ks)
<1> DEFINE ls == f.lines
<1>0. ls \in Seq(Line) /\ Len(ls) \in Nat /\ DOMAIN ls = 1 .. Len(ls) /\ f.open \in BOOLEAN
  BY DEF FileOK, File
<1>1. CASE f.open
  <2>0. PICK piece \in Remnants : g.lines = Mangled(ls, piece)
    BY <1>1 DEF Grown
  <2> DEFINE t == Mangled(ls, piece)
  <2>1. g.lines = t /\ ls # <<>>
    BY <1>1, <2>0 DEF Grown, FileOK
  <2>2. /\ DOMAIN t = 1 .. Len(ls)
        /\ \A n \in 1 .. Len(ls) : IF n = Len(ls) THEN t[n] \in Remnants ELSE t[n] = ls[n]
    BY <1>0, MangledAt
  <2>3. \A l \in Remnants : l.k \notin ks
    BY RemnantLine
  <2> HIDE DEF t, ls
  <2>4. Places(ls, ks) = {n \in 1 .. Len(ls) : ls[n].k \in ks}
    BY <1>0 DEF Places
  <2>5. Places(t, ks) = {n \in 1 .. Len(ls) : t[n].k \in ks}
    BY <2>2 DEF Places
  <2>6. \A n \in Places(t, ks) : n \in Places(ls, ks) /\ t[n] = ls[n]
    BY <2>2, <2>3, <2>4, <2>5
  <2>7. \A n \in Places(ls, ks) : n # Len(ls) => n \in Places(t, ks) /\ t[n] = ls[n]
    BY <2>2, <2>4, <2>5
  <2> QED  BY <1>1, <2>1, <2>6, <2>7 DEF GrownAt, ls
<1>2. CASE ~f.open
  <2>1. PICK l \in {e} \cup Remnants : g.lines = Append(ls, l)
    BY <1>2 DEF Grown
  <2> DEFINE y == <<l>>
  <2>2. g.lines = ls \o y /\ y \in Seq(Line) /\ Len(y) = 1 /\ y[1] = l
    BY <1>0, <2>1, RemnantLine, AppendIsJoin
  <2> HIDE DEF y, ls
  <2>3. JoinedAt(ls, y, ks)
    BY <1>0, <2>2, PlacesJoin
  <2>4. \A n \in Places(ls, ks) : n \in Places(g.lines, ks) /\ g.lines[n] = ls[n]
    BY <2>2, <2>3 DEF JoinedAt
  <2>5. ASSUME NEW n \in Places(g.lines, ks)
        PROVE  \/ n \in Places(ls, ks) /\ g.lines[n] = ls[n]
               \/ g.lines[n] = e /\ e.k \in ks
    <3>1. \/ n \in Places(ls, ks) /\ g.lines[n] = ls[n]
          \/ n - Len(ls) \in Places(y, ks) /\ g.lines[n] = y[n - Len(ls)]
      BY <2>2, <2>3 DEF JoinedAt
    <3>2. \A m \in Places(y, ks) : y[m] = l /\ l.k \in ks
      BY <2>2 DEF Places
    <3>3. l.k \in ks => l = e
      BY RemnantLine
    <3> QED  BY <3>1, <3>2, <3>3
  <2> QED  BY <1>2, <2>4, <2>5 DEF GrownAt, ls
<1> QED  BY <1>1, <1>2

\* What a recovery does to them.
ShortAt(f, g, ks) ==
  /\ \A n \in Places(g.lines, ks) : n \in Places(f.lines, ks) /\ g.lines[n] = f.lines[n]
  /\ \A n \in Places(f.lines, ks) : n <= f.synced =>
       n \in Places(g.lines, ks) /\ g.lines[n] = f.lines[n] /\ n <= g.synced

LEMMA PrefixPlaces ==
  ASSUME NEW ls \in Seq(Line), NEW m \in 0 .. Len(ls), NEW ks
  PROVE  /\ \A n \in Places(SubSeq(ls, 1, m), ks) : n \in Places(ls, ks) /\ SubSeq(ls, 1, m)[n] = ls[n]
         /\ \A n \in Places(ls, ks) : n <= m =>
              n \in Places(SubSeq(ls, 1, m), ks) /\ SubSeq(ls, 1, m)[n] = ls[n]
<1> DEFINE x == SubSeq(ls, 1, m)
<1>1. m \in Nat /\ m <= Len(ls) /\ Len(ls) \in Nat /\ DOMAIN ls = 1 .. Len(ls)
  OBVIOUS
<1>2. DOMAIN x = 1 .. m /\ \A n \in 1 .. m : x[n] = ls[n]
  BY <1>1
<1> HIDE DEF x
<1>3. \A n \in 1 .. m : n \in 1 .. Len(ls)
  BY <1>1
<1>4. \A n \in 1 .. Len(ls) : n <= m => n \in 1 .. m
  BY <1>1
<1>5. /\ Places(ls, ks) = {n \in 1 .. Len(ls) : ls[n].k \in ks}
      /\ Places(x, ks) = {n \in 1 .. m : x[n].k \in ks}
  BY <1>1, <1>2 DEF Places
<1>6. \A n \in Places(x, ks) : n \in Places(ls, ks) /\ x[n] = ls[n]
  BY <1>2, <1>3, <1>5
<1>7. \A n \in Places(ls, ks) : n <= m => n \in Places(x, ks) /\ x[n] = ls[n]
  BY <1>2, <1>4, <1>5
<1> QED  BY <1>6, <1>7 DEF x

LEMMA ShortPlaces ==
  ASSUME NEW f, FileOK(f), NEW g, Shortened(f, g), NEW ks, "torn" \notin ks
  PROVE  ShortAt(f, g, ks)
<1> DEFINE ls == f.lines
           k == f.synced
<1>0. ls \in Seq(Line) /\ k \in Nat /\ Len(ls) \in Nat /\ k <= Len(ls)
  BY DEF FileOK, File
<1>1. PICK m \in k .. Len(ls) :
       \/ g.lines = SubSeq(ls, 1, m)
       \/ /\ m < Len(ls)
          /\ \E l \in {ls[m + 1]} \cup Remnants : g.lines = Append(SubSeq(ls, 1, m), l)
  BY DEF Shortened
<1>m. m \in 0 .. Len(ls) /\ m \in Nat /\ k <= m
  BY <1>0, <1>1
<1>p. g.lines \in Seq(Line) /\ g.synced = Len(g.lines)
  BY DEF Shortened, FileOK, File
<1>g. \A n \in Places(g.lines, ks) : n <= g.synced
  BY <1>p DEF Places
<1> HIDE DEF ls, k
<1>d. \A n \in Places(ls, ks) : n \in Nat
  BY <1>0 DEF Places
<1>2. ASSUME NEW i \in 0 .. Len(ls), k <= i, g.lines = SubSeq(ls, 1, i)
      PROVE  ShortAt(f, g, ks)
  <2> DEFINE x == SubSeq(ls, 1, i)
  <2>1. /\ \A n \in Places(x, ks) : n \in Places(ls, ks) /\ x[n] = ls[n]
        /\ \A n \in Places(ls, ks) : n <= i => n \in Places(x, ks) /\ x[n] = ls[n]
    BY <1>0, PrefixPlaces
  <2> HIDE DEF x
  <2>2. ASSUME NEW n \in Places(ls, ks), n <= k PROVE n <= i
    BY <1>0, <1>2, <1>d, <2>2
  <2>3. g.lines = x
    BY <1>2 DEF x
  <2> QED  BY <1>g, <2>1, <2>2, <2>3 DEF ShortAt, ls, k
<1>3. CASE g.lines = SubSeq(ls, 1, m)
  BY <1>2, <1>3, <1>m
<1>4. CASE m < Len(ls) /\ g.lines = Append(SubSeq(ls, 1, m), ls[m + 1])
  <2>1. m \in 0 .. Len(ls) - 1 /\ m + 1 \in 0 .. Len(ls) /\ k <= m + 1
    BY <1>0, <1>4, <1>m
  <2>2. g.lines = SubSeq(ls, 1, m + 1)
    BY <1>0, <1>4, <2>1, PrefixNext
  <2> QED  BY <1>2, <2>1, <2>2
<1>5. ASSUME NEW l \in Remnants, g.lines = Append(SubSeq(ls, 1, m), l)
      PROVE  ShortAt(f, g, ks)
  <2> DEFINE x == SubSeq(ls, 1, m)
             y == <<l>>
  <2>0. l \in Line /\ l.k \notin ks
    BY RemnantLine
  <2>1. x \in Seq(Line)
    BY <1>0, <1>m
  <2>2. g.lines = x \o y /\ y \in Seq(Line)
    BY <1>5, <2>0, <2>1, AppendIsJoin
  <2>3. Places(y, ks) = {}
    BY <2>0 DEF Places
  <2>4. /\ \A n \in Places(x, ks) : n \in Places(ls, ks) /\ x[n] = ls[n]
        /\ \A n \in Places(ls, ks) : n <= m => n \in Places(x, ks) /\ x[n] = ls[n]
    BY <1>0, <1>m, PrefixPlaces
  <2> HIDE DEF x, y
  <2>5. JoinedAt(x, y, ks)
    BY <2>1, <2>2, PlacesJoin
  <2>6. /\ \A n \in Places(x, ks) : n \in Places(g.lines, ks) /\ g.lines[n] = x[n]
        /\ \A n \in Places(g.lines, ks) : n \in Places(x, ks) /\ g.lines[n] = x[n]
    BY <2>2, <2>3, <2>5 DEF JoinedAt
  <2>7. ASSUME NEW n \in Places(ls, ks), n <= k PROVE n <= m
    BY <1>0, <1>m, <1>d, <2>7
  <2>8. \A n \in Places(g.lines, ks) : n \in Places(ls, ks) /\ g.lines[n] = ls[n]
    BY <2>4, <2>6
  <2>9. \A n \in Places(ls, ks) : n <= k =>
          n \in Places(g.lines, ks) /\ g.lines[n] = ls[n] /\ n <= g.synced
    BY <1>g, <2>4, <2>6, <2>7
  <2> QED  BY <2>8, <2>9 DEF ShortAt, ls, k
<1> QED  BY <1>1, <1>3, <1>4, <1>5

\* Lines that do not tell of the queue.
QueueKinds == QueueOps \cup {"queue_reset"}
SaveLine == {l \in Entry : l.k \notin QueueKinds}

LEMMA Unqueued ==
  ASSUME NEW ls \in Seq(SaveLine), NEW ks \in SUBSET QueueKinds
  PROVE  ls \in Seq(Line) /\ Places(ls, ks) = {}
<1>1. DOMAIN ls = 1 .. Len(ls) /\ \A n \in 1 .. Len(ls) : ls[n] \in SaveLine
  OBVIOUS
<1>2. ls \in Seq(Line)
  BY DEF SaveLine, Entry
<1> QED  BY <1>1, <1>2 DEF Places, SaveLine

LEMMA SaveLines ==
  /\ NodeLine \subseteq SaveLine /\ MetaLine \subseteq SaveLine /\ RecordLine \subseteq SaveLine
  /\ AuxLine \subseteq SaveLine /\ Header \in SaveLine /\ \A a : Reset(a) \in SaveLine
<1>1. \A l \in NodeLine \cup MetaLine \cup RecordLine : l.k \notin QueueKinds \cup {"torn"}
  BY DEF NodeLine, MetaLine, RecordLine, QueueKinds, QueueOps
<1>2. \A l \in AuxLine : l.k \notin QueueKinds \cup {"torn"}
  BY AuxAssumption DEF AuxLine, QueueKinds, QueueOps
<1>3. Header \in MarkLine /\ Header.k \notin QueueKinds \cup {"torn"}
  BY DEF Header, MarkLine, QueueKinds, QueueOps
<1>4. \A a : Reset(a) \in MarkLine /\ Reset(a).k \notin QueueKinds \cup {"torn"}
  BY DEF Reset, MarkLine, QueueKinds, QueueOps
<1> QED  BY <1>1, <1>2, <1>3, <1>4 DEF SaveLine, Entry, Line

\* What is written for entries are entries.
LEMMA LeftEntries ==
  ASSUME NEW es \in Seq(Entry), NEW f
  PROVE  Left(f, es) \in Seq(Entry)
<1> DEFINE x == <<Header>>
<1>1. Header \in Entry
  BY SaveLines DEF SaveLine
<1>2. x \in Seq(Entry)
  BY <1>1
<1>3. Left(f, es) = es \/ Left(f, es) = x \o es
  BY DEF Left, WithHeader
<1> HIDE DEF x
<1>4. x \o es \in Seq(Entry)
  BY <1>2
<1> QED  BY <1>3, <1>4

LEMMA SaveEntry ==
  ASSUME NEW ls \in Seq(SaveLine)
  PROVE  ls \in Seq(Entry)
<1>1. DOMAIN ls = 1 .. Len(ls) /\ \A n \in 1 .. Len(ls) : ls[n] \in Entry
  BY DEF SaveLine
<1> QED  BY <1>1

LEMMA SaveUnqueued ==
  ASSUME index \in Indexed \cup {None}, NEW s \in Session, NEW f
  PROVE  SaveEntries(s) \in Seq(SaveLine) /\ Left(f, SaveEntries(s)) \in Seq(SaveLine)
<1> DEFINE m == IF Known.meta = SaveMeta(s) THEN <<>> ELSE <<SaveMeta(s)>>
           u == Unwritten(s)
           a == AuxEntries(s, "todo")
           b == AuxEntries(s, "plan")
           r == NewRecords(s)
<1>1. SaveMeta(s) \in MetaLine /\ u \in Seq(NodeLine) /\ r \in Seq(RecordLine)
  BY SaveTyped
<1>2. m \in Seq(SaveLine)
  <2>1. SaveMeta(s) \in SaveLine
    BY <1>1, SaveLines
  <2> QED  BY <2>1
<1>3. u \in Seq(SaveLine) /\ r \in Seq(SaveLine)
  BY <1>1, SaveLines
<1>4. ASSUME NEW k PROVE AuxEntries(s, k) \in Seq(SaveLine)
  <2>1. CASE k \notin AuxKind \/ s.aux[k] = Known.aux[k]
    BY <2>1 DEF AuxEntries
  <2>2. CASE k \in AuxKind /\ s.aux[k] # Known.aux[k]
    <3> DEFINE x == <<Reset(k)>>
               y == AuxLines(k, s.aux[k])
               N == Cardinality(s.aux[k])
    <3>1. s.aux[k] \in SUBSET Item
      BY <2>2 DEF Session
    <3>2. /\ y \in Seq(Line) /\ Len(y) = N /\ \A n \in 1 .. N : y[n].k = k
      BY <2>2, <3>1, AuxLinesTyped
    <3>3. k \notin QueueKinds \cup {"torn"}
      BY <2>2, AuxAssumption DEF QueueKinds, QueueOps
    <3>4. AuxEntries(s, k) = x \o y
      BY <2>2 DEF AuxEntries
    <3>5. x \in Seq(SaveLine)
      BY SaveLines
    <3> HIDE DEF x, y, N
    <3>6. \A n \in 1 .. Len(y) : y[n] \in SaveLine
      BY <3>2, <3>3 DEF SaveLine, Entry
    <3>7. y \in Seq(SaveLine)
      BY <3>2, <3>6
    <3> QED  BY <3>4, <3>5, <3>7
  <2> QED  BY <2>1, <2>2
<1>5. a \in Seq(SaveLine) /\ b \in Seq(SaveLine)
  BY <1>4
<1>6. SaveEntries(s) = m \o u \o a \o b \o r
  BY DEF SaveEntries
<1> HIDE DEF m, u, a, b, r
<1>7. m \o u \o a \in Seq(SaveLine)
  BY <1>2, <1>3, <1>5
<1>8. m \o u \o a \o b \o r \in Seq(SaveLine)
  BY <1>3, <1>5, <1>7
<1> DEFINE es == SaveEntries(s)
           x == <<Header>>
<1>9. x \in Seq(SaveLine) /\ es \in Seq(SaveLine)
  BY <1>6, <1>8, SaveLines
<1>10. Left(f, es) = es \/ Left(f, es) = x \o es
  BY DEF Left, WithHeader
<1> HIDE DEF es, x
<1>11. x \o es \in Seq(SaveLine)
  BY <1>9
<1>12. Left(f, es) \in Seq(SaveLine)
  BY <1>9, <1>10, <1>11
<1> QED  BY <1>9, <1>12 DEF es

LEMMA EnqueuedJoin ==
  ASSUME NEW x \in Seq(Line), NEW y \in Seq(Line)
  PROVE  EnqueuedIds(x \o y) = EnqueuedIds(x) \cup EnqueuedIds(y)
<1>0. JoinedAt(x, y, {"enqueue"})
  BY PlacesJoin
<1>1. ASSUME NEW n \in Places(x, {"enqueue"}) PROVE x[n].id \in EnqueuedIds(x \o y)
  BY <1>0 DEF EnqueuedIds, JoinedAt
<1>2. ASSUME NEW n \in Places(y, {"enqueue"}) PROVE y[n].id \in EnqueuedIds(x \o y)
  BY <1>0 DEF EnqueuedIds, JoinedAt
<1>3. ASSUME NEW n \in Places(x \o y, {"enqueue"})
      PROVE  (x \o y)[n].id \in EnqueuedIds(x) \cup EnqueuedIds(y)
  BY <1>0 DEF EnqueuedIds, JoinedAt
<1>4. /\ EnqueuedIds(x) \subseteq EnqueuedIds(x \o y)
      /\ EnqueuedIds(y) \subseteq EnqueuedIds(x \o y)
  BY <1>1, <1>2 DEF EnqueuedIds
<1>5. EnqueuedIds(x \o y) \subseteq EnqueuedIds(x) \cup EnqueuedIds(y)
  BY <1>3 DEF EnqueuedIds
<1> QED  BY <1>4, <1>5

LEMMA NotEnqueued ==
  ASSUME NEW ls, Places(ls, {"enqueue"}) = {}
  PROVE  EnqueuedIds(ls) = {}
  BY DEF EnqueuedIds

LEMMA EnqueuedOne ==
  ASSUME NEW l \in Line
  PROVE  /\ <<l>> \in Seq(Line)
         /\ EnqueuedIds(<<l>>) = IF l.k = "enqueue" THEN {l.id} ELSE {}
<1>1. DOMAIN <<l>> = {1} /\ <<l>>[1] = l
  OBVIOUS
<1>2. Places(<<l>>, {"enqueue"}) = IF l.k = "enqueue" THEN {1} ELSE {}
  BY <1>1 DEF Places
<1> QED  BY <1>1, <1>2 DEF EnqueuedIds

LEMMA EnqueuedMany ==
  ASSUME NEW S \in SUBSET QItem
  PROVE  Enqueues(S) \in Seq(Line) /\ EnqueuedIds(Enqueues(S)) \subseteq S
<1> DEFINE es == Enqueues(S)
           N == Cardinality(S)
<1>1. /\ es \in Seq(Line) /\ N \in Nat /\ Len(es) = N + 1 /\ es[1] = QueueReset
      /\ \A n \in 2 .. N + 1 : es[n].k = "enqueue" /\ es[n].id \in S
  BY EnqueuesTyped
<1> HIDE DEF es, N
<1>2. QueueReset.k # "enqueue"
  BY DEF QueueReset
<1>3. \A n \in 1 .. Len(es) : n = 1 \/ n \in 2 .. N + 1
  BY <1>1
<1>4. \A n \in Places(es, {"enqueue"}) : es[n].id \in S
  <2>1. \A n \in Places(es, {"enqueue"}) : n \in 1 .. Len(es) /\ es[n].k = "enqueue"
    BY <1>1 DEF Places
  <2> QED  BY <1>1, <1>2, <1>3, <2>1
<1> QED  BY <1>1, <1>4 DEF EnqueuedIds, es

LEMMA EnqueuedLeft ==
  ASSUME NEW f, NEW es \in Seq(Line)
  PROVE  Left(f, es) \in Seq(Line) /\ EnqueuedIds(Left(f, es)) = EnqueuedIds(es)
<1> DEFINE x == <<Header>>
<1>1. Header \in Line /\ Header.k # "enqueue"
  BY DEF Header, MarkLine, Line
<1>2. x \in Seq(Line) /\ EnqueuedIds(x) = {}
  BY <1>1, EnqueuedOne
<1>3. Left(f, es) = es \/ Left(f, es) = x \o es
  BY DEF Left, WithHeader
<1> HIDE DEF x
<1>4. x \o es \in Seq(Line) /\ EnqueuedIds(x \o es) = EnqueuedIds(es)
  <2>1. EnqueuedIds(x \o es) = EnqueuedIds(x) \cup EnqueuedIds(es)
    BY <1>2, EnqueuedJoin
  <2> QED  BY <1>2, <2>1
<1> QED  BY <1>3, <1>4

-----------------------------------------------------------------------------
(***************************************************************************)
(* What is handed out of the queue is handed out once                      *)
(***************************************************************************)

\* An operation that has just taken the lock: what it will do to the queue.
Fresh(o, S) ==
  /\ DOMAIN o.queue \subseteq S /\ EnqueuedIds(o.left) \subseteq S
  /\ o.kind = "restore" => EnqueuedIds(o.next) \subseteq S

LEMMA StartHandled ==
  ASSUME Handled, UNCHANGED <<syncing, files, given, spoiled>>, made \subseteq made',
         DOMAIN queue' \subseteq made', Fresh(op', made'),
         \A q \in QItem : Done(q) => NotPending(queue', q) /\ DoneBy(op', q),
         \A q \in QItem : q # None /\ op'.item = q =>
           /\ TakingBy(op', q) /\ q \in made /\ (q \in DOMAIN queue /\ queue[q] = "pending")
           /\ op'.left # <<>> /\ Last(op'.left) = QueueOp("dequeue", q),
         given \in [QItem -> Nat]
  PROVE  Handled'
<1>1. Home' = Home
  BY DEF Home
<1>2. Makes'
  BY <1>1 DEF Handled, Makes, Fresh
<1>3. ASSUME syncing, NEW q \in QItem, QueueOp("dequeue", q) \notin spoiled
      PROVE  /\ given[q] >= 1 => Done(q)'
             /\ q # None /\ op'.item = q => Taking(q)'
  <2>1. given[q] >= 1 => Done(q)
    BY <1>3 DEF Handled, Handed
  <2>2. Done(q) => Done(q)'
    BY <1>1 DEF Done
  <2>3. given[q] \in Nat
    OBVIOUS
  <2>4. ASSUME q # None, op'.item = q PROVE Taking(q)'
    <3>1. /\ TakingBy(op', q) /\ q \in made /\ q \in DOMAIN queue /\ queue[q] = "pending"
          /\ op'.left # <<>> /\ Last(op'.left) = QueueOp("dequeue", q)
      BY <2>4
    <3>2. ~Done(q)
      BY <3>1 DEF Done, NotPending
    <3>3. given[q] = 0
      BY <2>1, <2>3, <3>2
    <3> QED  BY <1>1, <3>1, <3>3 DEF Taking
  <2> QED  BY <2>1, <2>2, <2>4
<1>4. Handed'
  BY <1>3 DEF Handed
<1> QED  BY <1>2, <1>4 DEF Handled

\* An operation that does not touch the queue.
Quiet(o) ==
  /\ o.kind = "save" /\ o.queue = queue /\ o.item = None
  /\ o.left \in Seq(Entry) /\ EnqueuedIds(o.left) = {}

LEMMA QuietHandled ==
  ASSUME Typed, Handled, Quiet(op'), UNCHANGED <<syncing, files, given, spoiled, queue>>,
         made \subseteq made'
  PROVE  Handled'
<1> DEFINE o == op'
<1>1. /\ o.kind = "save" /\ o.queue = queue /\ o.item = None /\ EnqueuedIds(o.left) = {}
  BY DEF Quiet
<1> HIDE DEF o
<1>2. DOMAIN queue' \subseteq made' /\ Fresh(o, made')
  BY <1>1 DEF Handled, Makes, Fresh
<1>3. \A q \in QItem : Done(q) => NotPending(queue', q) /\ DoneBy(o, q)
  BY <1>1 DEF Done, DoneBy
<1>4. \A q \in QItem : ~(q # None /\ o.item = q)
  BY <1>1
<1>5. given \in [QItem -> Nat]
  BY DEF Typed
<1> QED  BY <1>2, <1>3, <1>4, <1>5, StartHandled DEF o

\* Nothing changes but what the callers hold.
LEMMA SameHandled ==
  ASSUME Handled, UNCHANGED <<syncing, files, given, spoiled, queue, op>>, made \subseteq made'
  PROVE  Handled'
<1>1. Home' = Home
  BY DEF Home
<1>2. Makes'
  BY <1>1 DEF Handled, Makes
<1>3. ASSUME NEW q \in QItem PROVE (Done(q) => Done(q)') /\ (Taking(q) => Taking(q)')
  BY <1>1 DEF Done, Taking
<1>4. Handed'
  BY <1>3 DEF Handled, Handed
<1> QED  BY <1>2, <1>4 DEF Handled

LEMMA SaveInnerQuiet ==
  ASSUME Typed, NEW s \in Session, SaveInner(s)
  PROVE  Quiet(op')
<1> DEFINE es == SaveEntries(s)
           p == Path(SaveProject(s))
           f == files[p]
           left == Left(f, es)
           next == IF es = <<>> THEN index ELSE SavedIndex(s)
           acks == Ids(s.events)
<1>1. op' = [kind |-> "save", path |-> p, next |-> next, queue |-> queue, acks |-> acks,
             item |-> None, appends |-> es # <<>>, left |-> left]
  BY DEF SaveInner, Appending, Left
<1>2. left \in Seq(SaveLine)
  BY SaveUnqueued DEF Typed
<1> HIDE DEF left, next, p, es, acks
<1>3. left \in Seq(Line) /\ Places(left, {"enqueue"}) = {}
  <2>1. {"enqueue"} \in SUBSET QueueKinds
    BY DEF QueueKinds, QueueOps
  <2> QED  BY <1>2, <2>1, Unqueued
<1>4. EnqueuedIds(left) = {}
  BY <1>3, NotEnqueued
<1>5. left \in Seq(Entry)
  BY <1>2, SaveEntry
<1> QED  BY <1>1, <1>4, <1>5 DEF Quiet

LEMMA AppendNodeQuiet ==
  ASSUME Typed, index # None, NEW e \in Event, NEW p \in Event \cup {None}, NEW d \in Where,
         AppendNode(e, p, d) \/ Fallback(e, p, d)
  PROVE  Quiet(op')
<1>1. /\ index \in Indexed /\ index.path \in Dir /\ index.project \in Where
      /\ Reconstruct(files[index.path]) \in Session
  BY StoredTyped DEF Indexed
<1>2. CASE AppendNode(e, p, d)
  <2> DEFINE project == IF index.project # None THEN index.project ELSE d
             meta == Meta(project, clock + 1)
             l == Node(e, p, d)
             es == <<l, meta>>
             f == files[index.path]
             left == Left(f, es)
             x == <<Header>>
  <2>1. \E next : op' = [kind |-> "save", path |-> index.path, next |-> next, queue |-> queue,
                         acks |-> {e}, item |-> None, appends |-> es # <<>>, left |-> left]
    BY <1>2 DEF AppendNode, Appending, Left
  <2>2. l \in NodeLine /\ meta \in MetaLine
    <3>1. project \in Where /\ clock + 1 \in Nat
      BY <1>1 DEF Typed
    <3> QED  BY <3>1 DEF Node, NodeLine, Meta, MetaLine
  <2>3. l \in SaveLine /\ meta \in SaveLine
    BY <2>2, SaveLines
  <2> HIDE DEF l, meta
  <2>4. es \in Seq(SaveLine)
    BY <2>3
  <2> HIDE DEF es, f, left
  <2>5. {"enqueue"} \in SUBSET QueueKinds
    BY DEF QueueKinds, QueueOps
  <2>6. es \in Seq(Line) /\ EnqueuedIds(es) = {}
    BY <2>4, <2>5, Unqueued, NotEnqueued
  <2>7. left \in Seq(Entry) /\ EnqueuedIds(left) = {}
    BY <2>4, <2>6, EnqueuedLeft, LeftEntries, SaveEntry DEF left
  <2> QED  BY <2>1, <2>7 DEF Quiet
<1>3. CASE Fallback(e, p, d)
  <2> DEFINE s == WithEvent(Reconstruct(files[index.path]), e, p, d, clock + 1)
  <2>1. clock + 1 \in Nat
    BY DEF Typed
  <2>2. \A r \in Session : WithEvent(r, e, p, d, clock + 1) \in Session
    BY <2>1, WithEventTyped
  <2>3. s \in Session
    BY <1>1, <2>2
  <2>4. SaveInner(s)
    BY <1>3 DEF Fallback
  <2> HIDE DEF s
  <2> QED  BY <2>3, <2>4, SaveInnerQuiet
<1> QED  BY <1>2, <1>3

LEMMA SavingQuiet ==
  ASSUME Typed,
         \/ \E c \in Caller : Save(c)
         \/ WithSessionLock \/ AddMessage \/ AppendGraphEvent
  PROVE  Quiet(op')
<1>1. CASE \E c \in Caller : Save(c)
  <2>1. PICK c \in Caller : Save(c)
    BY <1>1
  <2> DEFINE s == held[c]
  <2>2. s \in Session /\ SaveInner(s)
    BY <2>1 DEF Save, Typed
  <2> HIDE DEF s
  <2>3. Quiet(op')
    BY <2>2, SaveInnerQuiet
  <2> QED  BY <2>3
<1>2. CASE WithSessionLock
  <2> DEFINE s == Reconstruct(files[index.path])
             n == clock + 1
  <2>1. s \in Session
    BY <1>2, StoredTyped DEF WithSessionLock, Stored
  <2>2. PICK t \in Edited(s, n) : SaveInner(t) /\ made' = Made(t)
    BY <1>2 DEF WithSessionLock
  <2>3. n \in Nat /\ made \in SUBSET (Event \cup QItem)
    BY DEF Typed
  <2> HIDE DEF s, n
  <2>4. t \in Session
    BY <2>1, <2>2, <2>3, EditedTyped
  <2>5. Quiet(op')
    BY <2>2, <2>4, SaveInnerQuiet
  <2> QED  BY <2>5
<1>3. CASE AddMessage
  <2>1. /\ index # None /\ index \in Indexed /\ Reconstruct(files[index.path]) \in Session
        /\ index.leaf \in Event \cup {None}
    BY <1>3, StoredTyped DEF AddMessage, Indexed
  <2>2. PICK e \in Event \ made, d \in Where :
          /\ AppendNode(e, index.leaf, d) \/ Fallback(e, Leaf(Reconstruct(files[index.path])), d)
          /\ made' = made \cup {e}
    BY <1>3 DEF AddMessage
  <2>3. Leaf(Reconstruct(files[index.path])) \in Event \cup {None}
    BY <2>1, SessionTyped DEF NodeTyped
  <2>4. \A p \in Event \cup {None} :
          AppendNode(e, p, d) \/ Fallback(e, p, d) => Quiet(op')
    BY <2>1, <2>2, AppendNodeQuiet
  <2>5. Quiet(op')
    BY <2>1, <2>2, <2>3, <2>4
  <2> QED  BY <2>5
<1>4. CASE AppendGraphEvent
  <2>1. index # None /\ index \in Indexed /\ index.path \in Dir
    BY <1>4, StoredTyped DEF AppendGraphEvent
  <2>2. PICK e \in Event \ made, d \in Where, p \in Ids(Nodes(files[index.path])) \cup {None} :
          /\ AppendNode(e, p, d) \/ Fallback(e, p, d)
          /\ made' = made \cup {e}
    BY <1>4 DEF AppendGraphEvent
  <2>3. p \in Event \cup {None}
    <3>1. files[index.path].lines \in Seq(Line)
      BY <2>1, FilesTyped
    <3>2. Ids(Nodes(files[index.path])) = EventIds(files[index.path].lines)
      BY <3>1, NodesTyped
    <3>3. EventIds(files[index.path].lines) \subseteq Event
      BY <3>1, EventIdsTyped
    <3> QED  BY <2>2, <3>2, <3>3
  <2>4. Quiet(op')
    BY <2>1, <2>2, <2>3, AppendNodeQuiet
  <2> QED  BY <2>4
<1> QED  BY <1>1, <1>2, <1>3, <1>4

LEMMA SavingHandled ==
  ASSUME Typed, Handled,
         \/ \E c \in Caller : Save(c)
         \/ WithSessionLock \/ AddMessage \/ AppendGraphEvent
  PROVE  Handled'
<1>1. Quiet(op')
  BY SavingQuiet
<1>2. made \subseteq made'
  BY DEF Save, WithSessionLock, AddMessage, AppendGraphEvent, Made, callers
<1>3. UNCHANGED <<syncing, files, given, spoiled, queue>>
  BY DEF Save, WithSessionLock, AddMessage, AppendGraphEvent, memory, told
<1> QED  BY <1>1, <1>2, <1>3, QuietHandled

\* An operation of the queue.
QueueParts(o, es, q, item) ==
  /\ o.kind = "queue" /\ o.queue = q /\ o.item = item /\ o.left \in Seq(Line)
  /\ EnqueuedIds(o.left) \subseteq EnqueuedIds(es)
  /\ index # None /\ es # <<>> => \E f : o.left = Left(f, es) /\ o.appends = TRUE

LEMMA QueueAppendParts ==
  ASSUME NEW es \in Seq(Line), NEW q, NEW item, QueueAppend(es, q, item)
  PROVE  QueueParts(op', es, q, item)
<1> DEFINE x == IF index = None THEN <<>> ELSE es
           f == files[FilePath]
           left == Left(f, x)
<1>1. op' = [kind |-> "queue", path |-> FilePath, next |-> index, queue |-> q, acks |-> acked,
             item |-> item, appends |-> x # <<>>, left |-> left]
  BY DEF QueueAppend, Appending, Left
<1>2. x \in Seq(Line) /\ EnqueuedIds(x) \subseteq EnqueuedIds(es)
  <2>1. EnqueuedIds(<<>>) = {}
    BY DEF EnqueuedIds, Places
  <2> QED  BY <2>1
<1>3. index # None => x = es
  OBVIOUS
<1> HIDE DEF x, f
<1>4. left \in Seq(Line) /\ EnqueuedIds(left) = EnqueuedIds(x)
  BY <1>2, EnqueuedLeft
<1>5. index # None => left = Left(f, es)
  BY <1>3
<1> HIDE DEF left
<1>6. index # None /\ es # <<>> => (x # <<>>) = TRUE
  BY <1>3
<1> QED  BY <1>1, <1>2, <1>4, <1>5, <1>6 DEF QueueParts

LEMMA LastOfLeft ==
  ASSUME NEW l \in Line, NEW f
  PROVE  Left(f, <<l>>) # <<>> /\ Last(Left(f, <<l>>)) = l
<1>1. Left(f, <<l>>) = <<l>> \/ Left(f, <<l>>) = <<Header>> \o <<l>>
  BY DEF Left, WithHeader
<1> DEFINE x == <<Header>>
           y == <<l>>
<1>2. x \in Seq(Line) /\ Len(x) = 1 /\ y \in Seq(Line) /\ Len(y) = 1 /\ y[1] = l
  BY OneLine DEF Header, MarkLine, Line
<1> HIDE DEF x, y
<1>3. Len(x \o y) = 2 /\ (x \o y)[2] = l /\ x \o y # <<>> /\ y # <<>>
  BY <1>2
<1>4. Last(y) = l /\ Last(x \o y) = l
  BY <1>2, <1>3 DEF Last
<1> QED  BY <1>1, <1>3, <1>4 DEF x, y

LEMMA QueueLineTyped ==
  ASSUME NEW o \in QueueOps, NEW q \in QItem
  PROVE  /\ QueueOp(o, q) \in Line /\ QueueOp(o, q).k = o /\ QueueOp(o, q).id = q
         /\ <<QueueOp(o, q)>> \in Seq(Line)
         /\ EnqueuedIds(<<QueueOp(o, q)>>) = IF o = "enqueue" THEN {q} ELSE {}
<1>1. QueueOp(o, q) \in Line /\ QueueOp(o, q).k = o /\ QueueOp(o, q).id = q
  BY DEF QueueOp, QueueLine, Line
<1> QED  BY <1>1, EnqueuedOne

LEMMA EnqueueHandled ==
  ASSUME Typed, Handled, Enqueue
  PROVE  Handled'
<1>1. PICK q \in QItem \ made :
        /\ QueueAppend(<<QueueOp("enqueue", q)>>, WithItem(q), None)
        /\ made' = made \cup {q}
  BY DEF Enqueue
<1> DEFINE es == <<QueueOp("enqueue", q)>>
<1>2. es \in Seq(Line) /\ EnqueuedIds(es) = {q}
  BY QueueLineTyped DEF QueueOps
<1> HIDE DEF es
<1>3. QueueParts(op', es, WithItem(q), None)
  BY <1>1, <1>2, QueueAppendParts DEF es
<1> DEFINE o == op'
<1>4. /\ o.kind = "queue" /\ o.queue = WithItem(q)
      /\ o.item = None /\ EnqueuedIds(o.left) \subseteq {q}
  BY <1>2, <1>3 DEF QueueParts
<1> HIDE DEF o
<1>5. DOMAIN WithItem(q) = DOMAIN queue \cup {q} /\ \A r \in DOMAIN queue : r # q => WithItem(q)[r] = queue[r]
  BY DEF WithItem
<1>6. DOMAIN queue' \subseteq made' /\ Fresh(o, made')
  BY <1>1, <1>4, <1>5 DEF Handled, Makes, Fresh, Enqueue, memory
<1>7. \A r \in QItem : Done(r) => NotPending(queue', r) /\ DoneBy(o, r)
  <2> SUFFICES ASSUME NEW r \in QItem, Done(r) PROVE NotPending(queue', r) /\ DoneBy(o, r)
    OBVIOUS
  <2>1. r # q /\ r # None /\ NotPending(queue, r)
    BY <1>1 DEF Done
  <2>2. NotPending(WithItem(q), r)
    BY <1>5, <2>1 DEF NotPending
  <2> QED  BY <1>4, <2>1, <2>2 DEF DoneBy, Enqueue, memory
<1>8. \A r \in QItem : ~(r # None /\ o.item = r)
  BY <1>4
<1>9. given \in [QItem -> Nat] /\ made \subseteq made'
  BY <1>1 DEF Typed
<1> QED  BY <1>6, <1>7, <1>8, <1>9, StartHandled DEF Enqueue, told, o

LEMMA DequeueHandled ==
  ASSUME Typed, Handled, Dequeue
  PROVE  Handled'
<1>1. PICK q \in Pending :
        /\ queue' = [queue EXCEPT ![q] = "processing"]
        /\ QueueAppend(<<QueueOp("dequeue", q)>>, queue', IF index = None THEN None ELSE q)
  BY DEF Dequeue
<1> DEFINE l == QueueOp("dequeue", q)
           es == <<l>>
           item == IF index = None THEN None ELSE q
<1>2. q \in DOMAIN queue /\ queue[q] = "pending" /\ q \in QItem /\ q \in made /\ IsQueue(queue)
  BY <1>1 DEF Pending, Typed, IsQueue, Handled, Makes
<1>3. es \in Seq(Line) /\ EnqueuedIds(es) = {} /\ l \in Line /\ es # <<>>
  BY <1>2, QueueLineTyped DEF QueueOps
<1>4. item = None \/ (item = q /\ index # None)
  OBVIOUS
<1> HIDE DEF item
<1>5. QueueAppend(es, queue', item)
  BY <1>1 DEF item
<1>6. \A f : Left(f, es) # <<>> /\ Last(Left(f, es)) = l
  BY <1>3, LastOfLeft
<1> HIDE DEF es, l
<1>7. QueueParts(op', es, queue', item)
  BY <1>3, <1>5, QueueAppendParts
<1> DEFINE o == op'
<1>8. /\ o.kind = "queue" /\ o.queue = queue' /\ o.item = item /\ EnqueuedIds(o.left) = {}
      /\ index # None => o.appends = TRUE /\ o.left # <<>> /\ Last(o.left) = l
  BY <1>3, <1>6, <1>7 DEF QueueParts
<1> HIDE DEF o
<1>9. DOMAIN queue' = DOMAIN queue /\ queue'[q] = "processing"
      /\ \A r \in DOMAIN queue : r # q => queue'[r] = queue[r]
  BY <1>1, <1>2
<1>10. UNCHANGED <<syncing, files, given, spoiled, made>>
  BY DEF Dequeue, callers, told
<1>11. DOMAIN queue' \subseteq made' /\ Fresh(o, made')
  BY <1>8, <1>9, <1>10 DEF Handled, Makes, Fresh
<1>12. \A r \in QItem : Done(r) => NotPending(queue', r) /\ DoneBy(o, r)
  <2> SUFFICES ASSUME NEW r \in QItem, Done(r) PROVE NotPending(queue', r) /\ DoneBy(o, r)
    OBVIOUS
  <2>1. r # q /\ r # None /\ NotPending(queue, r)
    BY <1>2 DEF Done, NotPending
  <2>2. NotPending(queue', r)
    BY <1>9, <2>1 DEF NotPending
  <2> QED  BY <1>4, <1>8, <2>1, <2>2 DEF DoneBy
<1>13. ASSUME NEW r \in QItem, r # None, o.item = r
       PROVE  /\ TakingBy(o, r) /\ r \in made /\ (r \in DOMAIN queue /\ queue[r] = "pending")
              /\ o.left # <<>> /\ Last(o.left) = QueueOp("dequeue", r)
  <2>1. r = q /\ index # None
    BY <1>4, <1>8, <1>13
  <2>2. NotPending(queue', q)
    BY <1>9 DEF NotPending
  <2> QED  BY <1>2, <1>8, <2>1, <2>2 DEF TakingBy, l
<1>14. given \in [QItem -> Nat]
  BY DEF Typed
<1> QED  BY <1>10, <1>11, <1>12, <1>13, <1>14, StartHandled DEF o

LEMMA CancelHandled ==
  ASSUME Typed, Handled, CancelQueued
  PROVE  Handled'
<1>1. PICK q \in DOMAIN queue :
        /\ queue' = [queue EXCEPT ![q] = "cancelled"]
        /\ QueueAppend(<<QueueOp("cancel", q)>>, queue', None)
  BY DEF CancelQueued
<1> DEFINE es == <<QueueOp("cancel", q)>>
<1>2. q \in QItem
  BY DEF Typed, IsQueue
<1>3. es \in Seq(Line) /\ EnqueuedIds(es) = {}
  BY <1>2, QueueLineTyped DEF QueueOps
<1>4. QueueAppend(es, queue', None)
  BY <1>1
<1> HIDE DEF es
<1>5. QueueParts(op', es, queue', None)
  BY <1>3, <1>4, QueueAppendParts
<1> DEFINE o == op'
<1>6. o.kind = "queue" /\ o.queue = queue' /\ o.item = None /\ EnqueuedIds(o.left) = {}
  BY <1>3, <1>5 DEF QueueParts
<1> HIDE DEF o
<1>7. DOMAIN queue' = DOMAIN queue /\ queue'[q] = "cancelled"
      /\ \A r \in DOMAIN queue : r # q => queue'[r] = queue[r]
  BY <1>1
<1>8. UNCHANGED <<syncing, files, given, spoiled, made>>
  BY DEF CancelQueued, callers, told
<1>9. DOMAIN queue' \subseteq made' /\ Fresh(o, made')
  BY <1>6, <1>7, <1>8 DEF Handled, Makes, Fresh
<1>10. \A r \in QItem : Done(r) => NotPending(queue', r) /\ DoneBy(o, r)
  <2> SUFFICES ASSUME NEW r \in QItem, Done(r) PROVE NotPending(queue', r) /\ DoneBy(o, r)
    OBVIOUS
  <2>1. r # None /\ NotPending(queue, r)
    BY DEF Done
  <2>2. NotPending(queue', r)
    BY <1>7, <2>1 DEF NotPending
  <2> QED  BY <1>6, <2>1, <2>2 DEF DoneBy
<1>11. \A r \in QItem : ~(r # None /\ o.item = r)
  BY <1>6
<1>12. given \in [QItem -> Nat]
  BY DEF Typed
<1> QED  BY <1>8, <1>9, <1>10, <1>11, <1>12, StartHandled DEF o

LEMMA ReplaceHandled ==
  ASSUME Typed, Handled, ReplacePendingQueue
  PROVE  Handled'
<1>1. PICK S \in SUBSET ((QItem \ made) \cup Pending) :
        /\ QueueAppend(Enqueues(S), [q \in S |-> "pending"], None)
        /\ made' = made \cup S
  BY DEF ReplacePendingQueue
<1> DEFINE es == Enqueues(S)
           new == [q \in S |-> "pending"]
<1>2. S \in SUBSET QItem /\ \A r \in S : r \in made => r \in DOMAIN queue /\ queue[r] = "pending"
  BY <1>1 DEF Pending, Typed, IsQueue
<1>3. es \in Seq(Line) /\ EnqueuedIds(es) \subseteq S
  BY <1>2, EnqueuedMany
<1>4. QueueAppend(es, new, None) /\ DOMAIN new = S
  BY <1>1
<1> HIDE DEF es, new
<1>5. QueueParts(op', es, new, None)
  BY <1>3, <1>4, QueueAppendParts
<1> DEFINE o == op'
<1>6. o.kind = "queue" /\ o.queue = new /\ o.item = None /\ EnqueuedIds(o.left) \subseteq S
  BY <1>3, <1>5 DEF QueueParts
<1> HIDE DEF o
<1>7. UNCHANGED <<syncing, files, given, spoiled, queue>> /\ made' = made \cup S
  BY <1>1 DEF ReplacePendingQueue, memory, told
<1>8. DOMAIN queue' \subseteq made' /\ Fresh(o, made')
  BY <1>4, <1>6, <1>7 DEF Handled, Makes, Fresh
<1>9. \A r \in QItem : Done(r) => NotPending(queue', r) /\ DoneBy(o, r)
  <2> SUFFICES ASSUME NEW r \in QItem, Done(r) PROVE NotPending(queue', r) /\ DoneBy(o, r)
    OBVIOUS
  <2>1. r \notin S /\ r # None /\ NotPending(queue, r)
    BY <1>2 DEF Done, NotPending
  <2>2. NotPending(new, r)
    BY <1>4, <2>1 DEF NotPending
  <2> QED  BY <1>6, <1>7, <2>1, <2>2 DEF DoneBy
<1>10. \A r \in QItem : ~(r # None /\ o.item = r)
  BY <1>6
<1>11. given \in [QItem -> Nat] /\ made \subseteq made'
  BY <1>7 DEF Typed
<1> QED  BY <1>7, <1>8, <1>9, <1>10, <1>11, StartHandled DEF o

LEMMA RemovalHandled ==
  ASSUME Typed, Handled, Delete \/ CleanupExpired
  PROVE  Handled'
<1>1. \E kind \in {"delete", "cleanup"} :
        op' = [kind |-> kind, path |-> index.path, next |-> None, queue |-> NoQueue,
               acks |-> {}, item |-> None, appends |-> FALSE, left |-> <<>>]
  BY DEF Delete, CleanupExpired, Appending
<1>2. UNCHANGED <<syncing, files, given, spoiled, made>> /\ (queue' = queue \/ queue' = NoQueue)
  BY DEF Delete, CleanupExpired, callers
<1> DEFINE o == op'
<1>3. o.kind # "restore" /\ o.queue = NoQueue /\ o.item = None /\ o.left = <<>>
  BY <1>1
<1> HIDE DEF o
<1>4. EnqueuedIds(<<>>) = {} /\ DOMAIN NoQueue = {} /\ \A q : NotPending(NoQueue, q)
  BY DEF EnqueuedIds, Places, NoQueue, NotPending
<1>5. DOMAIN queue' \subseteq made' /\ Fresh(o, made')
  BY <1>2, <1>3, <1>4 DEF Handled, Makes, Fresh
<1>6. \A q \in QItem : Done(q) => NotPending(queue', q) /\ DoneBy(o, q)
  BY <1>2, <1>3, <1>4 DEF Done, DoneBy
<1>7. \A q \in QItem : ~(q # None /\ o.item = q)
  BY <1>3
<1>8. given \in [QItem -> Nat]
  BY DEF Typed
<1> QED  BY <1>2, <1>5, <1>6, <1>7, <1>8, StartHandled DEF o

\* What a bundle holds, but for its queue, does not tell of the queue.
LEMMA BundleParts ==
  ASSUME NEW s \in Session, NEW Q
  PROVE  \E t \in Seq(SaveLine) :
           Snapshot(s, Q) = t \o IF Q = {} THEN <<>> ELSE Enqueues(Q)
<1> DEFINE m == <<Meta(Project(s), s.stamp)>>
           es == s.events
           aux(a) == IF a \notin AuxKind THEN <<>> ELSE AuxLines(a, s.aux[a])
           a == aux("todo")
           b == aux("plan")
           r == [n \in DOMAIN s.compacts |-> Record(s.compacts[n])]
           q == IF Q = {} THEN <<>> ELSE Enqueues(Q)
<1>1. Snapshot(s, Q) = m \o es \o a \o b \o r \o q
  BY DEF Snapshot
<1>3. m \in Seq(SaveLine)
  <2>1. Project(s) \in Where /\ s.stamp \in Nat
    BY SessionTyped DEF NodeTyped, Session
  <2>2. Meta(Project(s), s.stamp) \in MetaLine
    BY <2>1 DEF Meta, MetaLine
  <2>3. Meta(Project(s), s.stamp) \in SaveLine
    BY <2>2, SaveLines
  <2> QED  BY <2>3
<1>4. es \in Seq(SaveLine)
  BY SaveLines DEF Session
<1>5. ASSUME NEW k PROVE aux(k) \in Seq(SaveLine)
  <2>1. CASE k \notin AuxKind
    BY <2>1
  <2>2. CASE k \in AuxKind
    <3> DEFINE y == AuxLines(k, s.aux[k])
               N == Cardinality(s.aux[k])
    <3>1. s.aux[k] \in SUBSET Item
      BY <2>2 DEF Session
    <3>2. y \in Seq(Line) /\ Len(y) = N /\ \A n \in 1 .. N : y[n].k = k
      BY <2>2, <3>1, AuxLinesTyped
    <3>3. k \notin QueueKinds \cup {"torn"}
      BY <2>2, AuxAssumption DEF QueueKinds, QueueOps
    <3>4. aux(k) = y
      BY <2>2
    <3> HIDE DEF y, N
    <3>5. \A n \in 1 .. Len(y) : y[n] \in SaveLine
      BY <3>2, <3>3 DEF SaveLine, Entry
    <3> QED  BY <3>2, <3>4, <3>5
  <2> QED  BY <2>1, <2>2
<1>6. a \in Seq(SaveLine) /\ b \in Seq(SaveLine)
  BY <1>5
<1>7. r \in Seq(SaveLine)
  <2>1. s.compacts \in Seq(Compact)
    BY DEF Session
  <2>2. \A c \in Compact : Record(c) \in SaveLine
    BY SaveLines DEF Record, RecordLine
  <2> QED  BY <2>1, <2>2
<1> HIDE DEF m, es, aux, a, b, r, q
<1>8. m \o es \o a \in Seq(SaveLine)
  BY <1>3, <1>4, <1>6
<1> DEFINE t == m \o es \o a \o b \o r
<1>9. t \in Seq(SaveLine)
  BY <1>6, <1>7, <1>8
<1>10. Snapshot(s, Q) = t \o q
  BY <1>1
<1> QED  BY <1>9, <1>10 DEF q

LEMMA BundleEnqueued ==
  ASSUME NEW s \in Session, NEW Q \in SUBSET QItem
  PROVE  EnqueuedIds(<<Header>> \o Snapshot(s, Q)) \subseteq Q
<1> DEFINE x == <<Header>>
           q == IF Q = {} THEN <<>> ELSE Enqueues(Q)
<1>2. x \in Seq(SaveLine)
  BY SaveLines
<1>8. q \in Seq(Line) /\ EnqueuedIds(q) \subseteq Q
  <2>1. EnqueuedIds(<<>>) = {}
    BY DEF EnqueuedIds, Places
  <2> QED  BY <2>1, EnqueuedMany
<1>10. PICK t \in Seq(SaveLine) : Snapshot(s, Q) = t \o q
  BY BundleParts
<1>11. Snapshot(s, Q) = t \o q
  BY <1>10
<1> HIDE DEF x, q
<1>12. {"enqueue"} \in SUBSET QueueKinds
  BY DEF QueueKinds, QueueOps
<1>13. t \in Seq(Line) /\ x \in Seq(Line) /\ EnqueuedIds(t) = {} /\ EnqueuedIds(x) = {}
  BY <1>2, <1>10, <1>12, Unqueued, NotEnqueued
<1>14. t \o q \in Seq(Line) /\ EnqueuedIds(t \o q) = EnqueuedIds(t) \cup EnqueuedIds(q)
  <2>1. EnqueuedIds(t \o q) = EnqueuedIds(t) \cup EnqueuedIds(q)
    BY <1>8, <1>13, EnqueuedJoin
  <2>2. t \in Seq(Line) /\ q \in Seq(Line)
    BY <1>8, <1>13
  <2> HIDE DEF q
  <2>3. t \o q \in Seq(Line)
    BY <2>2
  <2> QED  BY <2>1, <2>3
<1> DEFINE u == t \o q
<1>15. u \in Seq(Line) /\ EnqueuedIds(u) \subseteq Q
  BY <1>8, <1>13, <1>14
<1> HIDE DEF u
<1>16. EnqueuedIds(x \o u) = EnqueuedIds(x) \cup EnqueuedIds(u)
  BY <1>13, <1>15, EnqueuedJoin
<1>17. Snapshot(s, Q) = u
  BY <1>11 DEF u
<1> QED  BY <1>13, <1>15, <1>16, <1>17 DEF x

LEMMA RestoreHandled ==
  ASSUME Typed, Handled, NEW c \in Caller, RestoreBundle(c)
  PROVE  Handled'
<1> DEFINE s == held[c]
           p == Path(Project(s))
           acks == Ids(s.events)
<1>1. s \in Session
  BY DEF RestoreBundle, Typed
<1>2. PICK Q \in SUBSET (QItem \ made) :
        /\ made' = made \cup Q
        /\ op' = [Idle EXCEPT !.kind = "restore", !.path = p,
                              !.next = <<Header>> \o Snapshot(s, Q), !.acks = acks]
  BY DEF RestoreBundle
<1> HIDE DEF s, p, acks
<1> DEFINE ls == <<Header>> \o Snapshot(s, Q)
           o == op'
<1>3. EnqueuedIds(ls) \subseteq Q
  BY <1>1, BundleEnqueued
<1> HIDE DEF ls
<1>4. op' = [Idle EXCEPT !.kind = "restore", !.path = p, !.next = ls, !.acks = acks]
  BY <1>2 DEF ls
<1>5. o.kind = "restore" /\ o.next = ls /\ o.left = <<>> /\ o.item = None /\ o.queue = NoQueue
  BY <1>4 DEF Idle
<1> HIDE DEF o
<1>6. EnqueuedIds(<<>>) = {} /\ DOMAIN NoQueue = {} /\ \A q : NotPending(NoQueue, q)
  BY DEF EnqueuedIds, Places, NoQueue, NotPending
<1>7. UNCHANGED <<syncing, files, given, spoiled, queue>>
  BY DEF RestoreBundle, memory, told
<1>8. DOMAIN queue' \subseteq made' /\ Fresh(o, made')
  BY <1>2, <1>3, <1>5, <1>6, <1>7 DEF Handled, Makes, Fresh
<1>9. \A q \in QItem : Done(q) => NotPending(queue', q) /\ DoneBy(o, q)
  BY <1>2, <1>3, <1>5, <1>6, <1>7 DEF Done, DoneBy
<1>10. \A q \in QItem : ~(q # None /\ o.item = q)
  BY <1>5
<1>11. given \in [QItem -> Nat] /\ made \subseteq made'
  BY <1>2 DEF Typed
<1> QED  BY <1>7, <1>8, <1>9, <1>10, <1>11, StartHandled DEF o

LEMMA DequeueLine ==
  ASSUME NEW l \in Line, l.k = "dequeue"
  PROVE  l = QueueOp("dequeue", l.id)
<1>1. l \in QueueLine
  BY LineKinds DEF KindsAt, QueueOps
<1>2. l = [k |-> l.k, id |-> l.id]
  BY <1>1 DEF QueueLine
<1> QED  BY <1>2 DEF QueueOp

\* A dequeue that stands behind its enqueue stays there.
LEMMA SettledGrown ==
  ASSUME NEW f, FileOK(f), NEW e \in Line, NEW g, Grown(f, e, g), NEW q,
         Settled(f.lines, q, f.synced), q \notin EnqueuedIds(<<e>>),
         f.open => QueueOp("dequeue", q) \notin Spoiled(f, e)
  PROVE  Settled(g.lines, q, g.synced)
<1>1. GrownAt(f, e, g, {"enqueue"}) /\ GrownAt(f, e, g, {"dequeue"})
  BY GrownPlaces
<1>2. e.k = "enqueue" => e.id # q
  BY EnqueuedOne
<1>3. f.open \in BOOLEAN /\ f.lines \in Seq(Line) /\ g.synced = f.synced
  BY DEF FileOK, File, Grown
<1>4. ASSUME NEW m \in Enqs(g.lines, q) PROVE m \in Enqs(f.lines, q)
  BY <1>1, <1>2, <1>3 DEF Enqs, GrownAt
<1>5. ASSUME NEW n \in Takes(f.lines, q) PROVE n \in Takes(g.lines, q)
  <2>0. n \in Places(f.lines, {"dequeue"}) /\ f.lines[n].id = q
    BY DEF Takes
  <2>1. CASE ~f.open
    BY <1>1, <2>0, <2>1 DEF Takes, GrownAt
  <2>2. CASE f.open
    <3>1. f.lines[n] = QueueOp("dequeue", q)
      <4>1. f.lines[n] \in Line /\ f.lines[n].k = "dequeue"
        BY <1>3, <2>0 DEF Places
      <4> QED  BY <2>0, <4>1, DequeueLine
    <3>2. n # Len(f.lines)
      <4> SUFFICES ASSUME n = Len(f.lines) PROVE FALSE
        OBVIOUS
      <4>1. Last(f.lines) = QueueOp("dequeue", q)
        BY <3>1 DEF Last
      <4>2. QueueOp("dequeue", q) \notin Remnants
        BY RemnantLine DEF QueueOp
      <4> QED  BY <2>2, <4>1, <4>2 DEF Spoiled
    <3> QED  BY <1>1, <2>0, <2>2, <3>2 DEF Takes, GrownAt
  <2> QED  BY <1>3, <2>1, <2>2
<1> QED  BY <1>3, <1>4, <1>5 DEF Settled

LEMMA EnqueuedGrown ==
  ASSUME NEW f, FileOK(f), NEW e \in Line, NEW g, Grown(f, e, g)
  PROVE  EnqueuedIds(g.lines) \subseteq EnqueuedIds(f.lines) \cup EnqueuedIds(<<e>>)
<1>1. GrownAt(f, e, g, {"enqueue"})
  BY GrownPlaces
<1>2. f.open \in BOOLEAN
  BY DEF FileOK, File
<1>3. EnqueuedIds(<<e>>) = IF e.k = "enqueue" THEN {e.id} ELSE {}
  BY EnqueuedOne
<1>4. ASSUME NEW n \in Places(g.lines, {"enqueue"})
      PROVE  g.lines[n].id \in EnqueuedIds(f.lines) \cup EnqueuedIds(<<e>>)
  <2>1. \/ n \in Places(f.lines, {"enqueue"}) /\ g.lines[n] = f.lines[n]
        \/ g.lines[n] = e /\ e.k = "enqueue"
    BY <1>1, <1>2 DEF GrownAt
  <2> QED  BY <1>3, <2>1 DEF EnqueuedIds
<1> QED  BY <1>4 DEF EnqueuedIds

\* What an operation that ended leaves.
LEMMA EndHandled ==
  ASSUME op' \in {Idle, Down}, syncing' = syncing, DOMAIN queue' \subseteq made',
         EnqueuedIds(Home'.lines) \subseteq made',
         \A q \in QItem : syncing /\ QueueOp("dequeue", q) \notin spoiled' /\ given'[q] >= 1 =>
           /\ q # None /\ q \in made' /\ given'[q] <= 1 /\ NotPending(queue', q)
           /\ Settled(Home'.lines, q, Home'.synced)
  PROVE  Handled'
<1>1. /\ op'.kind \in {"idle", "down"} /\ op'.left = <<>> /\ op'.item = None
      /\ op'.queue = NoQueue /\ DOMAIN NoQueue = {}
  BY DEF Idle, Down, NoQueue
<1>2. EnqueuedIds(<<>>) = {}
  BY DEF EnqueuedIds, Places
<1>3. Makes'
  BY <1>1, <1>2 DEF Makes
<1>4. \A q : q # None => DoneBy(op', q)
  BY <1>1, <1>2 DEF DoneBy, NotPending
<1>5. ASSUME syncing', NEW q \in QItem, QueueOp("dequeue", q) \notin spoiled'
      PROVE  /\ given'[q] >= 1 => Done(q)'
             /\ q # None /\ op'.item = q => Taking(q)'
  <2>1. given'[q] >= 1 => Done(q)'
    BY <1>4, <1>5 DEF Done
  <2> QED  BY <1>1, <2>1
<1>6. Handed'
  BY <1>5 DEF Handed
<1> QED  BY <1>3, <1>6 DEF Handled

LEMMA HandedDone ==
  ASSUME Handled, syncing, NEW q \in QItem, QueueOp("dequeue", q) \notin spoiled, given[q] >= 1
  PROVE  Done(q)
BY DEF Handled, Handed

LEMMA CallerHandled ==
  ASSUME Typed, Handled, NEW c \in Caller, Create(c) \/ Edit(c) \/ LoadPath(c) \/ LoadFile(c)
  PROVE  Handled'
<1>1. UNCHANGED <<syncing, files, given, spoiled, queue, op>>
  BY DEF Create, Edit, LoadPath, LoadFile, memory, told
<1>2. made \subseteq made'
  BY DEF Create, Edit, LoadPath, LoadFile, memory, told, Made
<1> QED  BY <1>1, <1>2, SameHandled

\* A line that was written, in full or not.
LEMMA LeftParts ==
  ASSUME Typed, op.left # <<>>
  PROVE  /\ op.left \in Seq(Line) /\ Head(op.left) \in Line /\ Tail(op.left) \in Seq(Line)
         /\ <<Head(op.left)>> \in Seq(Line) /\ op.left = <<Head(op.left)>> \o Tail(op.left)
         /\ EnqueuedIds(op.left)
              = EnqueuedIds(<<Head(op.left)>>) \cup EnqueuedIds(Tail(op.left))
<1> DEFINE e == Head(op.left)
           t == Tail(op.left)
           x == <<e>>
<1>1. op.left \in Seq(Line)
  BY OpTyped DEF OpParts
<1>2. e \in Line /\ t \in Seq(Line) /\ x \in Seq(Line) /\ op.left = x \o t
  BY <1>1
<1> HIDE DEF t, x
<1>3. EnqueuedIds(x \o t) = EnqueuedIds(x) \cup EnqueuedIds(t)
  BY <1>2, EnqueuedJoin
<1> QED  BY <1>1, <1>2, <1>3 DEF t, x

LEMMA GrownHanded ==
  ASSUME Typed, Handled, op.left # <<>>, NEW f, Grown(Home, Head(op.left), f),
         Home.open => Spoiled(Home, Head(op.left)) \subseteq spoiled'
  PROVE  /\ EnqueuedIds(f.lines) \subseteq made
         /\ \A q \in QItem : Done(q) /\ QueueOp("dequeue", q) \notin spoiled' =>
              Settled(f.lines, q, f.synced)
<1> DEFINE e == Head(op.left)
<1>1. e \in Line /\ EnqueuedIds(<<e>>) \subseteq EnqueuedIds(op.left)
  BY LeftParts
<1>2. FileOK(Home)
  BY HomeTyped
<1>3. Grown(Home, e, f) /\ (Home.open => Spoiled(Home, e) \subseteq spoiled')
  OBVIOUS
<1> HIDE DEF e
<1>4. EnqueuedIds(f.lines) \subseteq EnqueuedIds(Home.lines) \cup EnqueuedIds(<<e>>)
  BY <1>1, <1>2, <1>3, EnqueuedGrown
<1>5. EnqueuedIds(f.lines) \subseteq made
  BY <1>1, <1>4 DEF Handled, Makes
<1>6. ASSUME NEW q \in QItem, Done(q), QueueOp("dequeue", q) \notin spoiled'
      PROVE  Settled(f.lines, q, f.synced)
  <2>1. Settled(Home.lines, q, Home.synced) /\ q \notin EnqueuedIds(<<e>>)
    BY <1>1, <1>6 DEF Done, DoneBy
  <2>2. Home.open => QueueOp("dequeue", q) \notin Spoiled(Home, e)
    BY <1>3, <1>6
  <2> QED  BY <1>1, <1>2, <1>3, <2>1, <2>2, SettledGrown
<1> QED  BY <1>5, <1>6

LEMMA WriteLineHandled ==
  ASSUME Typed, AtHome, Handled, WriteLine
  PROVE  Handled'
<1> DEFINE e == Head(op.left)
           f == Written(Home, e)
           t == Tail(op.left)
<1>1. op.left # <<>> /\ op.path = DefaultDir
  BY DEF WriteLine, AtHome
<1>2. /\ op.left \in Seq(Line) /\ e \in Line /\ t \in Seq(Line) /\ op.left = <<e>> \o t
      /\ EnqueuedIds(op.left) = EnqueuedIds(<<e>>) \cup EnqueuedIds(t)
  BY <1>1, LeftParts
<1>3. /\ files' = [files EXCEPT ![DefaultDir] = f]
      /\ spoiled' = spoiled \cup Spoiled(Home, e)
      /\ op' = [op EXCEPT !.left = t]
      /\ UNCHANGED <<syncing, queue, made, given>>
  BY <1>1 DEF WriteLine, Home, memory, callers
<1>4. op.kind \in {"save", "queue"} /\ IsOp(op)
  BY <1>1 DEF Typed, IsOp
<1> DEFINE o == op'
<1>5. /\ o.kind \in {"save", "queue"} /\ o.left = t /\ o.item = op.item
      /\ o.appends = op.appends /\ o.queue = op.queue
  <2> HIDE DEF t
  <2> QED  BY <1>3, <1>4 DEF IsOp
<1>6. Home' = f
  BY <1>3, DirAssumption DEF Home, Typed
<1>7. FileOK(Home)
  BY HomeTyped
<1>8. Grown(Home, e, f) /\ (~Home.open => f.lines = Append(Home.lines, e))
  <2> HIDE DEF e
  <2> QED  BY <1>2, <1>7, WrittenGrows
<1> HIDE DEF f
<1>9. /\ EnqueuedIds(f.lines) \subseteq made
      /\ \A q \in QItem : Done(q) /\ QueueOp("dequeue", q) \notin spoiled' =>
           Settled(f.lines, q, f.synced)
  <2>1. Home.open => Spoiled(Home, Head(op.left)) \subseteq spoiled'
    BY <1>3
  <2>2. Grown(Home, Head(op.left), f)
    BY <1>8
  <2> QED  BY <1>1, <2>1, <2>2, GrownHanded
<1>10. t = <<>> => Last(op.left) = e
  <2>1. Len(t) = Len(op.left) - 1 /\ Len(op.left) \in Nat
    BY <1>1, <1>2
  <2>2. t = <<>> => Len(op.left) = 1
    <3> HIDE DEF t
    <3>1. t = <<>> => Len(t) = 0
      OBVIOUS
    <3> QED  BY <2>1, <3>1
  <2>3. Head(op.left) = op.left[1]
    BY <1>1, <1>2
  <2> QED  BY <2>2, <2>3 DEF Last
<1>11. t # <<>> => Last(op.left) = Last(t)
  BY <1>1, <1>2 DEF Last
<1> HIDE DEF o, e, t
<1>12. Makes'
  BY <1>2, <1>3, <1>5, <1>6, <1>9 DEF Makes, Handled, o
<1>13. ASSUME syncing, NEW q \in QItem, QueueOp("dequeue", q) \notin spoiled'
       PROVE  /\ given[q] >= 1 => Done(q)'
              /\ q # None /\ op'.item = q => Taking(q)'
  <2>1. QueueOp("dequeue", q) \notin spoiled
    BY <1>3, <1>13
  <2>2. given[q] >= 1 => Done(q)'
    <3> SUFFICES ASSUME given[q] >= 1 PROVE Done(q)'
      OBVIOUS
    <3>1. Done(q)
      BY <1>13, <2>1, HandedDone
    <3>2. DoneBy(o, q)
      BY <1>2, <1>5, <3>1 DEF Done, DoneBy
    <3>3. Settled(f.lines, q, f.synced)
      BY <1>9, <1>13, <3>1
    <3> QED  BY <1>3, <1>6, <3>1, <3>2, <3>3 DEF Done, o
  <2>3. ASSUME q # None, o.item = q PROVE Taking(q)'
    <3>1. Taking(q)
      BY <1>5, <1>13, <2>1, <2>3 DEF Handled, Handed
    <3>2. TakingBy(o, q) /\ q \in made /\ given[q] = 0 /\ Last(op.left) = QueueOp("dequeue", q)
      BY <1>1, <1>2, <1>5, <3>1 DEF Taking, TakingBy
    <3>3. ASSUME t = <<>>
          PROVE  f.lines # <<>> /\ Last(f.lines) = QueueOp("dequeue", q)
      <4>1. e = QueueOp("dequeue", q)
        BY <1>10, <3>2, <3>3
      <4>2. ~Home.open
        BY <1>3, <1>13, <4>1 DEF Spoiled
      <4>3. f.lines = Append(Home.lines, e) /\ Home.lines \in Seq(Line)
        BY <1>8, <4>2, HomeTyped
      <4> QED  BY <1>2, <4>1, <4>3 DEF Last
    <3>4. t # <<>> => Last(t) = QueueOp("dequeue", q)
      BY <1>11, <3>2
    <3> QED  BY <1>3, <1>5, <1>6, <3>2, <3>3, <3>4 DEF Taking, o
  <2> QED  BY <2>2, <2>3 DEF o
<1>14. Handed'
  BY <1>3, <1>13 DEF Handed
<1> QED  BY <1>12, <1>14 DEF Handled

LEMMA FailHandled ==
  ASSUME Typed, AtHome, Handled, Fail
  PROVE  Handled'
<1>1. PICK f : /\ FileOK(f) /\ files' = [files EXCEPT ![op.path] = f]
               /\ \/ f = files[op.path]
                  \/ op.left # <<>> /\ Head(op.left) \in Line
                     /\ Grown(files[op.path], Head(op.left), f)
  BY FailGrows
<1>2. op.path = DefaultDir /\ files[op.path] = Home
  BY DEF AtHome, Home
<1>3. /\ op' = Idle /\ UNCHANGED <<syncing, queue, made, given>>
      /\ spoiled' = IF files'[op.path] = files[op.path] \/ ~files[op.path].open
                    THEN spoiled ELSE spoiled \cup Spoiled(files[op.path], Head(op.left))
  BY DEF Fail, memory, callers
<1>4. Home' = f
  BY <1>1, <1>2, DirAssumption DEF Home, Typed
<1>5. /\ EnqueuedIds(f.lines) \subseteq made
      /\ \A q \in QItem : Done(q) /\ QueueOp("dequeue", q) \notin spoiled' =>
           Settled(f.lines, q, f.synced)
  <2>1. CASE f = Home
    BY <2>1 DEF Handled, Makes, Done
  <2>2. CASE f # Home
    <3>1. files'[op.path] # files[op.path]
      BY <1>2, <1>4, <2>2 DEF Home
    <3>2. op.left # <<>> /\ Grown(Home, Head(op.left), f)
      BY <1>1, <1>2, <2>2
    <3>3. Home.open => Spoiled(Home, Head(op.left)) \subseteq spoiled'
      BY <1>2, <1>3, <3>1
    <3> QED  BY <3>2, <3>3, GrownHanded
  <2> QED  BY <2>1, <2>2
<1>6. spoiled \subseteq spoiled'
  BY <1>3
<1>7. ASSUME NEW q \in QItem, syncing, QueueOp("dequeue", q) \notin spoiled', given'[q] >= 1
      PROVE  /\ q # None /\ q \in made' /\ given'[q] <= 1 /\ NotPending(queue', q)
             /\ Settled(Home'.lines, q, Home'.synced)
  <2>1. Done(q)
    BY <1>3, <1>6, <1>7, HandedDone
  <2> QED  BY <1>3, <1>4, <1>5, <1>7, <2>1 DEF Done
<1>8. DOMAIN queue' \subseteq made' /\ EnqueuedIds(Home'.lines) \subseteq made'
  BY <1>3, <1>4, <1>5 DEF Handled, Makes
<1> QED  BY <1>3, <1>7, <1>8, EndHandled

LEMMA RemoveFileHandled ==
  ASSUME Typed, AtHome, Handled, RemoveFile
  PROVE  Handled'
<1>1. op.path = DefaultDir
  BY DEF AtHome
<1>2. /\ files' = [files EXCEPT ![DefaultDir] = NoFile] /\ op' = Idle /\ queue' = op.queue
      /\ UNCHANGED <<syncing, made, spoiled, given>>
  BY <1>1 DEF RemoveFile, callers, told
<1>3. Home' = NoFile
  BY <1>2, DirAssumption DEF Home, Typed
<1>4. EnqueuedIds(NoFile.lines) = {} /\ \A q : Settled(NoFile.lines, q, NoFile.synced)
  BY NoFileOK DEF EnqueuedIds, Settled, Enqs, Places
<1>5. ASSUME NEW q \in QItem, syncing, QueueOp("dequeue", q) \notin spoiled', given'[q] >= 1
      PROVE  /\ q # None /\ q \in made' /\ given'[q] <= 1 /\ NotPending(queue', q)
             /\ Settled(Home'.lines, q, Home'.synced)
  <2>1. Done(q)
    BY <1>2, <1>5, HandedDone
  <2> QED  BY <1>2, <1>3, <1>4, <2>1 DEF Done, DoneBy
<1>6. DOMAIN queue' \subseteq made' /\ EnqueuedIds(Home'.lines) \subseteq made'
  BY <1>2, <1>3, <1>4 DEF Handled, Makes
<1> QED  BY <1>2, <1>5, <1>6, EndHandled

LEMMA FinishHandled ==
  ASSUME Typed, AtHome, Handled, Finish
  PROVE  Handled'
<1> DEFINE g == Synced(Home)
           ls == Home.lines
<1>1. op.path = DefaultDir /\ op.left = <<>>
  BY DEF Finish, AtHome
<1>2. /\ files' = [files EXCEPT ![DefaultDir] = g] /\ op' = Idle /\ queue' = op.queue
      /\ UNCHANGED <<syncing, made, spoiled>>
      /\ given' = IF op.item = None THEN given ELSE [given EXCEPT ![op.item] = @ + 1]
  BY <1>1 DEF Finish, Home, callers
<1>3. /\ FileOK(Home) /\ FileOK(g) /\ g.lines = ls
      /\ g.synced = IF syncing /\ op.appends THEN Len(ls) ELSE Home.synced
  BY HomeTyped, SyncedOK
<1>4. /\ ls \in Seq(Line) /\ Len(ls) \in Nat /\ Home.synced \in Nat /\ Home.synced <= Len(ls)
  BY <1>3 DEF FileOK, File
<1> HIDE DEF g, ls
<1>5. Home' = g
  BY <1>2, DirAssumption DEF Home, Typed
<1>6. given \in [QItem -> Nat]
  BY DEF Typed
<1>7. ASSUME NEW q \in QItem, syncing, QueueOp("dequeue", q) \notin spoiled', given'[q] >= 1
      PROVE  /\ q # None /\ q \in made /\ given'[q] <= 1 /\ NotPending(op.queue, q)
             /\ Settled(ls, q, g.synced)
  <2>1. given[q] \in Nat
    BY <1>6
  <2>2. CASE given[q] >= 1
    <3>1. Done(q)
      BY <1>2, <1>7, <2>2, HandedDone
    <3>2. given'[q] = given[q]
      BY <1>2, <1>6, <3>1 DEF Done, DoneBy
    <3>3. Settled(ls, q, g.synced)
      <4>1. Settled(ls, q, Home.synced) /\ Home.synced <= g.synced
        BY <1>3, <1>4, <3>1 DEF Done, ls
      <4>2. g.synced \in Nat /\ \A n \in Takes(ls, q) : n \in Nat
        BY <1>3, <1>4 DEF Takes, Places
      <4> QED  BY <1>4, <4>1, <4>2 DEF Settled
    <3> QED  BY <3>1, <3>2, <3>3 DEF Done, DoneBy
  <2>3. CASE given[q] = 0
    <3>1. q # None /\ op.item = q /\ given'[q] = 1
      BY <1>2, <1>6, <1>7, <2>3
    <3>2. Taking(q)
      BY <1>2, <1>7, <3>1 DEF Handled, Handed
    <3>3. /\ q \in made /\ NotPending(op.queue, q) /\ op.appends = TRUE
          /\ ls # <<>> /\ Last(ls) = QueueOp("dequeue", q)
      BY <1>1, <3>2 DEF Taking, TakingBy, ls
    <3>4. g.synced = Len(ls)
      BY <1>3, <1>7, <3>3
    <3>5. Len(ls) \in Takes(ls, q)
      <4>1. Len(ls) \in DOMAIN ls /\ ls[Len(ls)] = QueueOp("dequeue", q)
        BY <1>4, <3>3 DEF Last
      <4> QED  BY <4>1 DEF Takes, Places, QueueOp
    <3>6. \A m \in Enqs(ls, q) : m < Len(ls)
      <4>1. \A m \in Enqs(ls, q) : m \in 1 .. Len(ls) /\ ls[m].k = "enqueue"
        BY <1>4 DEF Enqs, Places
      <4>2. ls[Len(ls)].k = "dequeue"
        BY <3>5 DEF Takes, Places
      <4> QED  BY <1>4, <4>1, <4>2
    <3>7. Settled(ls, q, g.synced)
      BY <1>4, <3>4, <3>5, <3>6 DEF Settled
    <3> QED  BY <3>1, <3>3, <3>7
  <2> QED  BY <2>1, <2>2, <2>3
<1>8. DOMAIN queue' \subseteq made' /\ EnqueuedIds(Home'.lines) \subseteq made'
  BY <1>2, <1>3, <1>5 DEF Handled, Makes, ls
<1>9. \A q \in QItem : syncing /\ QueueOp("dequeue", q) \notin spoiled' /\ given'[q] >= 1 =>
           /\ q # None /\ q \in made' /\ given'[q] <= 1 /\ NotPending(queue', q)
           /\ Settled(Home'.lines, q, Home'.synced)
  BY <1>2, <1>3, <1>5, <1>7
<1> QED  BY <1>2, <1>8, <1>9, EndHandled

LEMMA PublishHandled ==
  ASSUME Typed, AtHome, Handled, Publish
  PROVE  Handled'
<1> DEFINE ls == op.next
           n == IF syncing THEN Len(ls) ELSE 0
           g == [lines |-> ls, open |-> FALSE, synced |-> n, exists |-> TRUE]
<1>1. /\ ls \in Seq(Line) /\ ls # <<>> /\ op.path = DefaultDir /\ op.kind = "restore"
      /\ syncing \in BOOLEAN
  BY DEF Publish, Typed, IsOp, AtHome
<1>2. /\ files' = [files EXCEPT ![DefaultDir] = [NewFile EXCEPT !.lines = ls, !.synced = n]]
      /\ queue' = QueueOf([NewFile EXCEPT !.lines = ls, !.synced = n])
      /\ op' = Idle
      /\ UNCHANGED <<syncing, made, spoiled, given>>
  BY <1>1 DEF Publish, callers
<1> HIDE DEF ls
<1>3. [NewFile EXCEPT !.lines = ls, !.synced = n] = g
  BY <1>1, PublishedOK
<1>4. g.lines = ls
  OBVIOUS
<1> HIDE DEF g
<1>5. files' = [files EXCEPT ![DefaultDir] = g] /\ queue' = QueueOf(g)
  BY <1>2, <1>3
<1>6. Home' = g
  BY <1>5, DirAssumption DEF Home, Typed
<1>7. DOMAIN queue' \subseteq EnqueuedIds(ls)
  <2>1. DOMAIN queue' = QueuedIn(ls)
    BY <1>1, <1>4, <1>5, QueueTyped
  <2>2. AfterReset(ls, "queue_reset", {"enqueue"}) \subseteq Places(ls, {"enqueue"})
    BY <1>1, PlacesTyped
  <2> QED  BY <2>1, <2>2 DEF QueuedIn, EnqueuedIds
<1>8. EnqueuedIds(ls) \subseteq made
  BY <1>1 DEF Handled, Makes, ls
<1>9. ASSUME NEW q \in QItem, syncing, QueueOp("dequeue", q) \notin spoiled', given'[q] >= 1
      PROVE  /\ q # None /\ q \in made' /\ given'[q] <= 1 /\ NotPending(queue', q)
             /\ Settled(Home'.lines, q, Home'.synced)
  <2>1. Done(q)
    BY <1>2, <1>9, HandedDone
  <2>2. q \notin EnqueuedIds(ls)
    BY <1>1, <2>1 DEF Done, DoneBy, ls
  <2>3. Enqs(ls, q) = {}
    BY <2>2 DEF Enqs, EnqueuedIds
  <2>4. Settled(ls, q, g.synced)
    BY <2>3 DEF Settled
  <2>5. NotPending(queue', q)
    BY <1>7, <2>2 DEF NotPending
  <2> QED  BY <1>2, <1>4, <1>6, <2>1, <2>4, <2>5 DEF Done
<1>10. DOMAIN queue' \subseteq made' /\ EnqueuedIds(Home'.lines) \subseteq made'
  BY <1>2, <1>4, <1>6, <1>7, <1>8
<1> QED  BY <1>2, <1>9, <1>10, EndHandled

\* An item with a dequeue after every enqueue does not come back.
LEMMA SettledNotPending ==
  ASSUME NEW f, f.lines \in Seq(Line), NEW q, NEW k, Settled(f.lines, q, k)
  PROVE  NotPending(QueueOf(f), q)
<1> DEFINE ls == f.lines
           P == OpsOf(ls, q)
           m == Max(P)
<1>1. /\ DOMAIN QueueOf(f) = QueuedIn(ls)
      /\ \A r \in QueuedIn(ls) : QueueOf(f)[r] = StateIn(ls, r) /\ OpsOf(ls, r) # {}
  BY QueueTyped
<1> SUFFICES ASSUME q \in QueuedIn(ls) PROVE StateIn(ls, q) # "pending"
  BY <1>1 DEF NotPending
<1>2. Len(ls) \in Nat /\ P \in SUBSET (1 .. Len(ls)) /\ P # {}
  <2>1. AfterReset(ls, "queue_reset", QueueOps) \subseteq Places(ls, QueueOps)
    BY PlacesTyped
  <2>2. Len(ls) \in Nat /\ Places(ls, QueueOps) \in SUBSET (1 .. Len(ls))
    BY PlacesTyped
  <2> QED  BY <1>1, <2>1, <2>2 DEF OpsOf
<1> HIDE DEF P
<1>3. m \in P /\ \A n \in P : n <= m
  BY <1>2, LargestIs
<1> HIDE DEF m
<1>4. /\ m \in Places(ls, QueueOps) /\ ls[m].id = q /\ m \in 1 .. Len(ls)
      /\ \A r \in Places(ls, {"queue_reset"}) : r < m /\ r \in 1 .. Len(ls)
  <2>1. \A r \in Places(ls, {"queue_reset"}) : r \in 1 .. Len(ls)
    BY PlacesTyped
  <2> QED  BY <1>2, <1>3, <2>1 DEF P, OpsOf, AfterReset
<1>5. ls[m].k # "enqueue"
  <2> SUFFICES ASSUME ls[m].k = "enqueue" PROVE FALSE
    OBVIOUS
  <2>1. m \in Enqs(ls, q)
    BY <1>4 DEF Enqs, Places
  <2>2. PICK n \in Takes(ls, q) : m < n
    BY <2>1 DEF Settled
  <2>3. n \in Places(ls, QueueOps) /\ ls[n].id = q
    BY <2>2 DEF Takes, Places, QueueOps
  <2>4. n \in 1 .. Len(ls)
    BY <2>3, PlacesTyped
  <2>5. \A r \in Places(ls, {"queue_reset"}) : r < n
    BY <1>2, <1>4, <2>2, <2>4
  <2>6. n \in P
    BY <2>3, <2>5 DEF P, OpsOf, AfterReset
  <2> QED  BY <1>2, <1>3, <1>4, <2>2, <2>4, <2>6
<1>6. ls[m].k \in {"dequeue", "cancel"}
  BY <1>4, <1>5 DEF Places, QueueOps
<1>7. StateIn(ls, q) = QueueState[ls[m].k]
  BY DEF StateIn, m, P
<1> QED  BY <1>6, <1>7 DEF QueueState

LEMMA RestartHandled ==
  ASSUME Typed, AtHome, Handled, Restart
  PROVE  Handled'
<1> DEFINE g == files'[DefaultDir]
<1>1. /\ \A p \in Dir : Shortened(files[p], files'[p])
      /\ \/ queue' = NoQueue
         \/ \E p \in Dir : files'[p].exists /\ queue' = QueueOf(files'[p])
  BY RestartFinds DEF RestartReads
<1>2. Shortened(Home, g) /\ FileOK(Home)
  BY <1>1, HomeTyped, DirAssumption DEF Home
<1>3. \A p \in Dir \ {DefaultDir} : ~files'[p].exists
  BY <1>1, NoFileOK DEF AtHome, Shortened
<1>4. queue' = NoQueue \/ queue' = QueueOf(g)
  BY <1>1, <1>3
<1>5. op' \in {Idle, Down} /\ UNCHANGED <<syncing, made, spoiled, given>>
  BY RestartFinds DEF Restart, RestartReads
<1>6. Home' = g
  BY DEF Home
<1> HIDE DEF g
<1>7. g.lines \in Seq(Line) /\ FileOK(g)
  BY <1>2 DEF Shortened, FileOK, File
<1>8. ShortAt(Home, g, {"enqueue"}) /\ ShortAt(Home, g, {"dequeue"})
  BY <1>2, ShortPlaces
<1>9. EnqueuedIds(g.lines) \subseteq made
  BY <1>8 DEF ShortAt, EnqueuedIds, Handled, Makes
<1>10. DOMAIN queue' \subseteq made
  <2>1. DOMAIN NoQueue = {}
    BY DEF NoQueue
  <2>2. DOMAIN QueueOf(g) = QueuedIn(g.lines)
    BY <1>7, QueueTyped
  <2>3. AfterReset(g.lines, "queue_reset", {"enqueue"}) \subseteq Places(g.lines, {"enqueue"})
    BY <1>7, PlacesTyped
  <2>4. QueuedIn(g.lines) \subseteq EnqueuedIds(g.lines)
    BY <2>3 DEF QueuedIn, EnqueuedIds
  <2> QED  BY <1>4, <1>9, <2>1, <2>2, <2>4
<1>11. ASSUME NEW q \in QItem, syncing, QueueOp("dequeue", q) \notin spoiled', given'[q] >= 1
       PROVE  /\ q # None /\ q \in made' /\ given'[q] <= 1 /\ NotPending(queue', q)
              /\ Settled(Home'.lines, q, Home'.synced)
  <2>1. Done(q)
    BY <1>5, <1>11, HandedDone
  <2>2. Settled(g.lines, q, g.synced)
    <3> SUFFICES ASSUME NEW m \in Enqs(g.lines, q)
                 PROVE  \E n \in Takes(g.lines, q) : m < n /\ n <= g.synced
      BY DEF Settled
    <3>1. m \in Enqs(Home.lines, q)
      BY <1>8 DEF Enqs, ShortAt
    <3>2. PICK n \in Takes(Home.lines, q) : m < n /\ n <= Home.synced
      BY <2>1, <3>1 DEF Done, Settled
    <3>3. n \in Takes(g.lines, q) /\ n <= g.synced
      BY <1>8, <3>2 DEF Takes, ShortAt
    <3> QED  BY <3>2, <3>3
  <2>3. NotPending(queue', q)
    <3>1. NotPending(QueueOf(g), q)
      BY <1>7, <2>2, SettledNotPending
    <3>2. NotPending(NoQueue, q)
      BY DEF NotPending, NoQueue
    <3> QED  BY <1>4, <3>1, <3>2
  <2> QED  BY <1>5, <1>6, <2>1, <2>2, <2>3 DEF Done
<1> QED  BY <1>5, <1>6, <1>9, <1>10, <1>11, EndHandled

LEMMA StutterHandled ==
  ASSUME Handled, UNCHANGED vars
  PROVE  Handled'
<1>1. UNCHANGED <<syncing, files, given, spoiled, queue, op>> /\ made' = made
  BY DEF vars, memory, callers, told
<1> QED  BY <1>1, SameHandled

LEMMA HandledInit ==
  ASSUME Init
  PROVE  Handled
<1>1. /\ Home = NoFile /\ op = Idle /\ queue = NoQueue /\ given = [q \in QItem |-> 0]
  BY DirAssumption DEF Init, Home
<1>2. /\ Idle.kind = "idle" /\ Idle.left = <<>> /\ Idle.item = None /\ Idle.queue = NoQueue
      /\ DOMAIN NoQueue = {}
  BY DEF Idle, NoQueue
<1>3. EnqueuedIds(<<>>) = {}
  BY DEF EnqueuedIds, Places
<1>4. Makes
  BY <1>1, <1>2, <1>3, NoFileOK DEF Makes
<1>5. Handed
  BY <1>1, <1>2 DEF Handed
<1> QED  BY <1>4, <1>5 DEF Handled

LEMMA NextHandled ==
  ASSUME Typed, AtHome, Handled, [Next]_vars
  PROVE  Handled'
BY CallerHandled, RestoreHandled, SavingHandled, EnqueueHandled, DequeueHandled, CancelHandled,
   ReplaceHandled, RemovalHandled, PublishHandled, WriteLineHandled, FinishHandled,
   RemoveFileHandled, FailHandled, RestartHandled, StutterHandled
DEF Next

LEMMA SpecHandled ==
  ASSUME OneFile
  PROVE  Spec => []Handled
<1>1. Init => Handled
  BY HandledInit
<1>2. Typed /\ Tracked /\ Handled /\ [Next]_vars => Handled'
  BY NextHandled DEF Tracked
<1>3. Spec => [](Typed /\ Tracked)
  BY SpecTracked
<1> QED  BY <1>1, <1>2, <1>3, PTL DEF Spec

LEMMA HandledOnce ==
  ASSUME Typed, Handled
  PROVE  GivenOnce
<1> SUFFICES ASSUME syncing, NEW q \in QItem, QueueOp("dequeue", q) \notin spoiled
             PROVE  given[q] <= 1
  BY DEF GivenOnce
<1>1. given[q] \in Nat
  BY DEF Typed
<1>2. given[q] >= 1 => given[q] <= 1
  BY HandedDone DEF Done
<1> QED  BY <1>1, <1>2

\* In mode OnWrite an item that dequeue handed out is not handed out again, over
\* crashes, replacements of the queue and restores.
THEOREM JsonlGivenOnce ==
  ASSUME OneFile
  PROVE  Spec => []GivenOnce
BY SpecTracked, SpecHandled, HandledOnce, PTL

-----------------------------------------------------------------------------
(***************************************************************************)
(* The index says what a reader of the file would find                     *)
(***************************************************************************)

LEMMA JoinAssociative ==
  ASSUME NEW x \in Seq(Line), NEW y \in Seq(Line), NEW z \in Seq(Line)
  PROVE  (x \o y) \o z = x \o (y \o z)
OBVIOUS

\* The kinds that the lines of a list have.
OfKinds(ls, K) == ls \in Seq(Line) /\ \A n \in 1 .. Len(ls) : ls[n].k \in K

LEMMA KindsPlaces ==
  ASSUME NEW ls, NEW K, OfKinds(ls, K), NEW ks, K \cap ks = {}
  PROVE  Places(ls, ks) = {} /\ \A r : AfterReset(ls, r, ks) = {}
BY DEF OfKinds, Places, AfterReset

LEMMA KindsOne ==
  ASSUME NEW l \in Line, NEW K, l.k \in K
  PROVE  OfKinds(<<l>>, K)
BY DEF OfKinds

LEMMA KindsJoin ==
  ASSUME NEW x, NEW y, NEW K, OfKinds(x, K), OfKinds(y, K)
  PROVE  OfKinds(x \o y, K)
<1>1. x \in Seq(Line) /\ y \in Seq(Line)
  BY DEF OfKinds
<1>2. x \o y \in Seq(Line) /\ Len(x \o y) = Len(x) + Len(y)
  BY <1>1
<1>3. ASSUME NEW n \in 1 .. Len(x \o y) PROVE (x \o y)[n].k \in K
  <2>1. CASE n <= Len(x)
    BY <1>1, <1>2, <2>1 DEF OfKinds
  <2>2. CASE n > Len(x)
    <3>1. n - Len(x) \in 1 .. Len(y) /\ (x \o y)[n] = y[n - Len(x)]
      BY <1>1, <1>2, <2>2
    <3> QED  BY <3>1 DEF OfKinds
  <2> QED  BY <1>1, <1>2, <2>1, <2>2
<1> QED  BY <1>2, <1>3 DEF OfKinds

\* Lines of other kinds change nothing.
LEMMA MetaKept ==
  ASSUME NEW x \in Seq(Line), NEW y, NEW K, OfKinds(y, K), "meta" \notin K
  PROVE  MetaIn(x \o y) = MetaIn(x)
<1>1. Places(y, {"meta"}) = {}
  BY KindsPlaces
<1> QED  BY <1>1, MetaJoin DEF OfKinds

LEMMA EventsKept ==
  ASSUME NEW x \in Seq(Line), NEW y, NEW K, OfKinds(y, K), "event" \notin K
  PROVE  EventIds(x \o y) = EventIds(x)
<1>1. EventPlaces(y) = {}
  BY KindsPlaces DEF EventPlaces
<1> QED  BY <1>1, EventlessAfter DEF OfKinds

LEMMA AuxKept ==
  ASSUME NEW x \in Seq(Line), NEW y, NEW a, NEW K, OfKinds(y, K),
         a \notin K, Reset(a).k \notin K
  PROVE  AuxIn(x \o y, a) = AuxIn(x, a)
<1>1. Places(y, {Reset(a).k}) = {}
  BY KindsPlaces
<1>2. \A r : AfterReset(y, r, {a}) = {}
  <2>1. K \cap {a} = {}
    OBVIOUS
  <2> QED  BY <2>1, KindsPlaces
<1>3. AuxIn(y, a) = {}
  BY <1>2 DEF AuxIn
<1>4. y \in Seq(Line)
  BY DEF OfKinds
<1>5. AuxIn(x \o y, a) = IF Places(y, {Reset(a).k}) = {} THEN AuxIn(x, a) \cup AuxIn(y, a)
                         ELSE AuxIn(y, a)
  BY <1>4, AuxJoin
<1> QED  BY <1>1, <1>3, <1>5

LEMMA QueuedOps ==
  ASSUME NEW ls \in Seq(Line), NEW q \in QueuedIn(ls)
  PROVE  OpsOf(ls, q) # {}
<1>1. PICK n \in AfterReset(ls, "queue_reset", {"enqueue"}) : q = ls[n].id
  BY DEF QueuedIn
<1>2. n \in AfterReset(ls, "queue_reset", QueueOps)
  BY <1>1 DEF AfterReset, Places, QueueOps
<1> QED  BY <1>1, <1>2 DEF OpsOf

LEMMA QueueKept ==
  ASSUME NEW x \in Seq(Line), NEW y, NEW K, OfKinds(y, K), K \cap QueueKinds = {},
         NEW s, MirrorsQueue(s, x)
  PROVE  MirrorsQueue(s, x \o y)
<1>1. Places(y, {"queue_reset"}) = {}
  BY KindsPlaces DEF QueueKinds
<1>2. /\ AfterReset(y, "queue_reset", QueueOps) = {}
      /\ AfterReset(y, "queue_reset", {"enqueue"}) = {}
  <2>1. K \cap QueueOps = {} /\ K \cap {"enqueue"} = {}
    BY DEF QueueKinds, QueueOps
  <2> QED  BY <2>1, KindsPlaces
<1>3. QueuedIn(y) = {} /\ \A q : OpsOf(y, q) = {}
  BY <1>2 DEF QueuedIn, OpsOf
<1>4. QueueJoined(x, y)
  BY QueueJoin DEF OfKinds
<1>5. QueuedIn(x \o y) = QueuedIn(x)
  BY <1>1, <1>3, <1>4 DEF QueueJoined
<1>6. ASSUME NEW q \in QueuedIn(x) PROVE StateIn(x \o y, q) = StateIn(x, q)
  <2>1. OpsOf(x, q) # {}
    BY QueuedOps
  <2> QED  BY <1>1, <1>3, <1>4, <2>1 DEF QueueJoined
<1> QED  BY <1>5, <1>6 DEF MirrorsQueue

LEMMA ReadsSame ==
  ASSUME NEW x, NEW m, NEW aux, NEW ids, NEW s, Reads(x, m, aux, ids, s),
         NEW y, OfKinds(y, {"header", "compact"})
  PROVE  Reads(x \o y, m, aux, ids, s)
<1> DEFINE K == {"header", "compact"}
<1>1. /\ "meta" \notin K /\ "event" \notin K /\ K \cap QueueKinds = {}
      /\ \A a \in AuxKind : a \notin K /\ Reset(a).k \notin K
  BY AuxAssumption DEF QueueKinds, QueueOps, Reset
<1> HIDE DEF K
<1>2. x \in Seq(Line) /\ y \in Seq(Line) /\ OfKinds(y, K)
  BY DEF Reads, OfKinds, K
<1>3. x \o y \in Seq(Line)
  BY <1>2
<1>4. MetaIn(x \o y) = m /\ EventIds(x \o y) = ids
  BY <1>1, <1>2, MetaKept, EventsKept DEF Reads
<1>5. \A a \in AuxKind : AuxIn(x \o y, a) = aux[a]
  BY <1>1, <1>2, AuxKept DEF Reads
<1>6. MirrorsQueue(s, x \o y)
  BY <1>1, <1>2, QueueKept DEF Reads
<1> QED  BY <1>3, <1>4, <1>5, <1>6 DEF Reads

LEMMA ReadsMeta ==
  ASSUME NEW x, NEW m, NEW aux, NEW ids, NEW s, Reads(x, m, aux, ids, s),
         NEW l \in MetaLine
  PROVE  Reads(x \o <<l>>, l, aux, ids, s)
<1> DEFINE K == {"meta"}
           y == <<l>>
<1>1. /\ "event" \notin K /\ K \cap QueueKinds = {}
      /\ \A a \in AuxKind : a \notin K /\ Reset(a).k \notin K
  BY AuxAssumption DEF QueueKinds, QueueOps, Reset
<1>2. l \in Line /\ l.k \in K
  BY DEF MetaLine, Line
<1>3. x \in Seq(Line) /\ y \in Seq(Line) /\ OfKinds(y, K)
  BY <1>2, KindsOne, OneLine DEF Reads
<1>4. Places(y, {"meta"}) = {1} /\ y[1] = l
  BY <1>2 DEF Places
<1> HIDE DEF K, y
<1>5. x \o y \in Seq(Line)
  BY <1>3
<1>6. MetaIn(y) = l
  <2>1. Max({1}) = 1
    <3>1. {1} \in SUBSET (1 .. 1) /\ 1 \in {1} /\ \A n \in {1} : n <= 1
      OBVIOUS
    <3> QED  BY <3>1, LargestOnly
  <2> QED  BY <1>4, <2>1 DEF MetaIn
<1>7. MetaIn(x \o y) = l
  BY <1>3, <1>4, <1>6, MetaJoin
<1>8. EventIds(x \o y) = ids
  BY <1>1, <1>3, EventsKept DEF Reads
<1>9. \A a \in AuxKind : AuxIn(x \o y, a) = aux[a]
  BY <1>1, <1>3, AuxKept DEF Reads
<1>10. MirrorsQueue(s, x \o y)
  BY <1>1, <1>3, QueueKept DEF Reads
<1>11. Reads(x \o y, l, aux, ids, s)
  BY <1>5, <1>7, <1>8, <1>9, <1>10 DEF Reads
<1> QED  BY <1>11 DEF y

LEMMA ReadsEvents ==
  ASSUME NEW x, NEW m, NEW aux, NEW ids, NEW s, Reads(x, m, aux, ids, s),
         NEW y \in Seq(NodeLine)
  PROVE  Reads(x \o y, m, aux, ids \cup EventIds(y), s)
<1> DEFINE K == {"event"}
<1>1. /\ "meta" \notin K /\ K \cap QueueKinds = {}
      /\ \A a \in AuxKind : a \notin K /\ Reset(a).k \notin K
  BY AuxAssumption DEF QueueKinds, QueueOps, Reset
<1>2. x \in Seq(Line) /\ y \in Seq(Line) /\ OfKinds(y, K)
  <2>1. y \in Seq(Line) /\ \A n \in 1 .. Len(y) : y[n] \in NodeLine
    BY DEF Line
  <2>2. \A n \in 1 .. Len(y) : y[n].k \in K
    BY <2>1 DEF NodeLine
  <2> QED  BY <2>1, <2>2 DEF Reads, OfKinds
<1> HIDE DEF K
<1>3. x \o y \in Seq(Line)
  BY <1>2
<1>4. MetaIn(x \o y) = m
  BY <1>1, <1>2, MetaKept DEF Reads
<1>5. EventIds(x \o y) = ids \cup EventIds(y)
  BY <1>2, EventIdsJoin DEF Reads
<1>6. \A a \in AuxKind : AuxIn(x \o y, a) = aux[a]
  BY <1>1, <1>2, AuxKept DEF Reads
<1>7. MirrorsQueue(s, x \o y)
  BY <1>1, <1>2, QueueKept DEF Reads
<1> QED  BY <1>3, <1>4, <1>5, <1>6, <1>7 DEF Reads

\* A list that was written again replaces the one before.
LEMMA ReadsAux ==
  ASSUME NEW x, NEW m, NEW aux, NEW ids, NEW s, Reads(x, m, aux, ids, s),
         NEW a \in AuxKind, NEW S \in SUBSET Item, NEW new, new[a] = S,
         \A b \in AuxKind : b # a => new[b] = aux[b]
  PROVE  Reads(x \o (<<Reset(a)>> \o AuxLines(a, S)), m, new, ids, s)
<1> DEFINE r == Reset(a).k
           K == {r, a}
           h == <<Reset(a)>>
           t == AuxLines(a, S)
           y == h \o t
<1>1. /\ "meta" \notin K /\ "event" \notin K /\ K \cap QueueKinds = {} /\ r # a
      /\ \A b \in AuxKind : b # a => b \notin K /\ Reset(b).k \notin K
  BY AuxAssumption DEF QueueKinds, QueueOps, Reset
<1>2. Reset(a) \in Line /\ Reset(a).k = r /\ r \in K
  BY DEF Reset, MarkLine, Line
<1>3. h \in Seq(Line) /\ OfKinds(h, K) /\ Len(h) = 1 /\ h[1] = Reset(a)
  BY <1>2, KindsOne, OneLine
<1>4. /\ t \in Seq(Line) /\ Len(t) = Cardinality(S) /\ Cardinality(S) \in Nat
      /\ \A n \in 1 .. Cardinality(S) : t[n].k = a /\ t[n].id \in S
      /\ \A i \in S : \E n \in 1 .. Cardinality(S) : t[n].id = i
  BY AuxLinesTyped
<1> HIDE DEF h, t
<1>5. OfKinds(t, K) /\ OfKinds(t, {a})
  BY <1>4 DEF OfKinds
<1> HIDE DEF K, y, r
<1>6. x \in Seq(Line) /\ y \in Seq(Line) /\ OfKinds(y, K)
  BY <1>3, <1>5, KindsJoin DEF Reads, OfKinds, y
<1>7. x \o y \in Seq(Line)
  BY <1>6
<1>8. AuxIn(x \o y, a) = S
  <2>1. JoinedAt(h, t, {r})
    BY <1>3, <1>4, PlacesJoin
  <2>2. 1 \in Places(h, {r})
    BY <1>2, <1>3 DEF Places
  <2>3. Places(y, {r}) # {}
    BY <2>1, <2>2 DEF JoinedAt, y
  <2>4. AuxIn(x \o y, a) = AuxIn(y, a)
    BY <1>6, <2>3, AuxJoin DEF r
  <2>5. Places(t, {r}) = {}
    BY <1>1, <1>5, KindsPlaces
  <2>6. AuxIn(h, a) = {}
    <3>1. OfKinds(h, {r}) /\ {r} \cap {a} = {}
      BY <1>1, <1>2, KindsOne DEF h
    <3>2. AfterReset(h, r, {a}) = {}
      BY <3>1, KindsPlaces
    <3> QED  BY <3>2 DEF AuxIn, r
  <2>7. AuxIn(y, a) = AuxIn(t, a)
    <3>1. AuxIn(h \o t, a) = IF Places(t, {Reset(a).k}) = {} THEN AuxIn(h, a) \cup AuxIn(t, a)
                             ELSE AuxIn(t, a)
      <4>1. h \in Seq(Line) /\ t \in Seq(Line)
        BY <1>3, <1>4
      <4> QED  BY <4>1, AuxJoin
    <3> QED  BY <2>5, <2>6, <3>1 DEF y, r
  <2>8. AuxIn(t, a) = S
    <3>1. AfterReset(t, r, {a}) = 1 .. Cardinality(S)
      BY <1>4, <2>5 DEF AfterReset, Places
    <3>2. {t[n].id : n \in 1 .. Cardinality(S)} = S
      BY <1>4
    <3> QED  BY <3>1, <3>2 DEF AuxIn, r
  <2> QED  BY <2>4, <2>7, <2>8
<1>9. \A b \in AuxKind : b # a => AuxIn(x \o y, b) = aux[b]
  BY <1>1, <1>6, AuxKept DEF Reads
<1>10. MetaIn(x \o y) = m /\ EventIds(x \o y) = ids
  BY <1>1, <1>6, MetaKept, EventsKept DEF Reads
<1>11. MirrorsQueue(s, x \o y)
  BY <1>1, <1>6, QueueKept DEF Reads
<1>12. \A b \in AuxKind : AuxIn(x \o y, b) = new[b]
  BY <1>8, <1>9
<1>13. Reads(x \o y, m, new, ids, s)
  BY <1>7, <1>10, <1>11, <1>12 DEF Reads
<1> QED  BY <1>13 DEF y, h, t

LEMMA ReadsAuxSame ==
  ASSUME NEW x, NEW m, NEW aux, NEW ids, NEW s, Reads(x, m, aux, ids, s), NEW new,
         \A b \in AuxKind : new[b] = aux[b]
  PROVE  Reads(x, m, new, ids, s)
BY DEF Reads

LEMMA JoinNone ==
  ASSUME NEW x \in Seq(Line)
  PROVE  x \o <<>> = x /\ <<>> \o x = x
OBVIOUS

LEMMA NothingRead ==
  ASSUME NEW s
  PROVE  Reads(<<>>, None, Unindexed.aux, {}, s)
<1>1. \A ks : Places(<<>>, ks) = {} /\ \A r : AfterReset(<<>>, r, ks) = {}
  BY DEF Places, AfterReset
<1>2. MetaIn(<<>>) = None /\ EventIds(<<>>) = {}
  BY <1>1, NoLines DEF MetaIn
<1>3. \A a \in AuxKind : AuxIn(<<>>, a) = {} /\ Unindexed.aux[a] = {}
  BY <1>1 DEF AuxIn, Unindexed, NewSession
<1>4. MirrorsQueue(s, <<>>)
  BY <1>1 DEF MirrorsQueue, QueuedIn
<1>5. <<>> \in Seq(Line)
  OBVIOUS
<1> QED  BY <1>2, <1>3, <1>4, <1>5 DEF Reads

LEMMA KnownReads ==
  ASSUME Typed, Mirrors, op = Idle, ~failed, spoiled = {}
  PROVE  Reads(Home.lines, Known.meta, Known.aux, Known.ids \cap Event, queue)
<1>1. op.kind = "idle"
  BY DEF Idle
<1>2. CASE index = None
  <2>1. Home = NoFile
    BY <1>1, <1>2, HomeTyped, Missing DEF Mirrors
  <2>2. Known.meta = None /\ Known.aux = Unindexed.aux /\ Known.ids \cap Event = {}
    BY <1>2 DEF Known, Unindexed
  <2> QED  BY <2>1, <2>2, NoFileOK, NothingRead
<1>3. CASE index # None
  BY <1>1, <1>3 DEF Mirrors, MirroredBy, Known
<1> QED  BY <1>2, <1>3

\* What an append adds to a file, with the header that a new one gets.
Behind(f, es, m, aux, ids, s) ==
  \E x : Reads(x, m, aux, ids, s) /\ f.lines \o Left(f, es) = x \o es

LEMMA LeftReads ==
  ASSUME NEW f, NEW m, NEW aux, NEW ids, NEW s, Reads(f.lines, m, aux, ids, s),
         NEW es \in Seq(Line), es # <<>>
  PROVE  Behind(f, es, m, aux, ids, s)
<1>1. CASE f.lines # <<>>
  BY <1>1 DEF Left, WithHeader, Behind
<1>2. CASE f.lines = <<>>
  <2> DEFINE x == <<Header>>
  <2>1. x \in Seq(Line) /\ OfKinds(x, {"header", "compact"})
    BY KindsOne DEF Header, MarkLine, Line
  <2>2. Left(f, es) = x \o es
    BY <1>2 DEF Left, WithHeader
  <2> HIDE DEF x
  <2>3. Reads(<<>> \o x, m, aux, ids, s) /\ <<>> \o x = x
    BY <1>2, <2>1, ReadsSame, JoinNone
  <2>4. x \o es \in Seq(Line)
    BY <2>1
  <2>5. <<>> \o (x \o es) = x \o es
    BY <2>4, JoinNone
  <2> QED  BY <1>2, <2>2, <2>3, <2>5 DEF Behind
<1> QED  BY <1>1, <1>2

LEMMA AuxEntriesRead ==
  ASSUME index \in Indexed \cup {None}, NEW s \in Session,
         NEW x, NEW m, NEW aux, NEW ids, NEW q, Reads(x, m, aux, ids, q),
         NEW a, a \in AuxKind => aux[a] = Known.aux[a],
         NEW new, a \in AuxKind => new[a] = s.aux[a],
         \A b \in AuxKind : b # a => new[b] = aux[b]
  PROVE  Reads(x \o AuxEntries(s, a), m, new, ids, q)
<1>1. CASE a \notin AuxKind \/ s.aux[a] = Known.aux[a]
  <2>1. AuxEntries(s, a) = <<>> /\ x \in Seq(Line)
    BY <1>1 DEF AuxEntries, Reads
  <2>2. \A b \in AuxKind : new[b] = aux[b]
    BY <1>1
  <2>3. Reads(x, m, new, ids, q)
    BY <2>2, ReadsAuxSame
  <2> QED  BY <2>1, <2>3, JoinNone
<1>2. CASE a \in AuxKind /\ s.aux[a] # Known.aux[a]
  <2> DEFINE S == s.aux[a]
             y == <<Reset(a)>> \o AuxLines(a, S)
  <2>1. S \in SUBSET Item /\ new[a] = S /\ a \in AuxKind
    BY <1>2 DEF Session
  <2>2. AuxEntries(s, a) = y
    BY <1>2 DEF AuxEntries
  <2> HIDE DEF S
  <2>3. Reads(x \o y, m, new, ids, q)
    BY <2>1, ReadsAux
  <2> QED  BY <2>2, <2>3
<1> QED  BY <1>1, <1>2

\* After a save a reader finds what the index says.
LEMMA SaveReads ==
  ASSUME index \in Indexed \cup {None}, NEW s \in Session, NEW x, NEW q,
         Reads(x, Known.meta, Known.aux, Known.ids \cap Event, q)
  PROVE  MirroredBy(x \o SaveEntries(s), SavedIndex(s), q)
<1> DEFINE m == IF Known.meta = SaveMeta(s) THEN <<>> ELSE <<SaveMeta(s)>>
           u == Unwritten(s)
           a == AuxEntries(s, "todo")
           b == AuxEntries(s, "plan")
           r == NewRecords(s)
           I == Known.ids \cap Event
           aux1 == [k \in AuxKind |-> IF k = "todo" THEN s.aux[k] ELSE Known.aux[k]]
<1>1. /\ SaveMeta(s) \in MetaLine /\ u \in Seq(NodeLine) /\ r \in Seq(RecordLine)
      /\ a \in Seq(Line) /\ b \in Seq(Line)
  BY SaveTyped
<1>2. x \in Seq(Line)
  BY DEF Reads
<1>3. m \in Seq(Line) /\ Reads(x \o m, SaveMeta(s), Known.aux, I, q)
  <2>1. CASE Known.meta = SaveMeta(s)
    BY <1>2, <2>1, JoinNone
  <2>2. CASE Known.meta # SaveMeta(s)
    <3>1. <<SaveMeta(s)>> \in Seq(Line)
      BY <1>1 DEF Line
    <3> QED  BY <1>1, <2>2, <3>1, ReadsMeta
  <2> QED  BY <2>1, <2>2
<1>4. u \in Seq(Line)
  BY <1>1 DEF Line
<1>5. OfKinds(r, {"header", "compact"})
  <2>1. r \in Seq(Line) /\ \A n \in 1 .. Len(r) : r[n] \in RecordLine
    BY <1>1 DEF Line
  <2> QED  BY <2>1 DEF OfKinds, RecordLine
<1>6. SaveEntries(s) = m \o u \o a \o b \o r
  BY DEF SaveEntries
<1>7. /\ \A k \in AuxKind : k # "todo" => aux1[k] = Known.aux[k]
      /\ "todo" \in AuxKind => aux1["todo"] = s.aux["todo"]
      /\ "plan" \in AuxKind => aux1["plan"] = Known.aux["plan"]
      /\ \A k \in AuxKind : k # "plan" => s.aux[k] = aux1[k]
  BY AuxAssumption
<1> HIDE DEF m, I, aux1
<1>8. Reads((x \o m) \o u, SaveMeta(s), Known.aux, I \cup EventIds(u), q)
  BY <1>1, <1>3, ReadsEvents
<1>9. Reads(((x \o m) \o u) \o a, SaveMeta(s), aux1, I \cup EventIds(u), q)
  BY <1>7, <1>8, AuxEntriesRead
<1>10. Reads((((x \o m) \o u) \o a) \o b, SaveMeta(s), s.aux, I \cup EventIds(u), q)
  BY <1>7, <1>9, AuxEntriesRead
<1> HIDE DEF a, b, r, u
<1>11. Reads(((((x \o m) \o u) \o a) \o b) \o r, SaveMeta(s), s.aux, I \cup EventIds(u), q)
  BY <1>5, <1>10, ReadsSame
<1>12. ((((x \o m) \o u) \o a) \o b) \o r = x \o SaveEntries(s)
  <2>1. r \in Seq(Line)
    BY <1>5 DEF OfKinds
  <2>2. m \o u \in Seq(Line)
    BY <1>3, <1>4
  <2>3. (m \o u) \o a \in Seq(Line)
    BY <1>1, <2>2
  <2>4. ((m \o u) \o a) \o b \in Seq(Line)
    BY <1>1, <2>3
  <2>5. (x \o m) \o u = x \o (m \o u)
    BY <1>2, <1>3, <1>4, JoinAssociative
  <2>6. (x \o (m \o u)) \o a = x \o ((m \o u) \o a)
    BY <1>1, <1>2, <2>2, JoinAssociative
  <2>7. (x \o ((m \o u) \o a)) \o b = x \o (((m \o u) \o a) \o b)
    BY <1>1, <1>2, <2>3, JoinAssociative
  <2>8. (x \o (((m \o u) \o a) \o b)) \o r = x \o ((((m \o u) \o a) \o b) \o r)
    BY <1>2, <2>1, <2>4, JoinAssociative
  <2> QED  BY <1>6, <2>5, <2>6, <2>7, <2>8
<1>13. I \cup EventIds(u) = SavedIndex(s).ids \cap Event
  <2>1. /\ EventIds(s.events) \subseteq I \cup EventIds(Unwritten(s))
        /\ EventIds(Unwritten(s)) \subseteq EventIds(s.events)
    <3>1. Linked(s.events, Event \cup {None})
      <4>1. s.events \in Seq(NodeLine)
        BY DEF Session
      <4>2. \A n \in EventPlaces(s.events) : s.events[n] \in NodeLine
        BY <4>1 DEF EventPlaces, Places
      <4> QED  BY <4>2 DEF Linked, NodeLine
    <3>2. Known.ids \cap Event \subseteq I
      BY DEF I
    <3> QED  BY <3>1, <3>2, UnwrittenLinked
  <2>2. Ids(s.events) = EventIds(s.events) /\ Ids(s.events) \in SUBSET Event
        /\ ToSet(s.compacts) \in SUBSET Compact
    BY SessionTyped DEF NodeTyped
  <2>3. SavedIndex(s).ids = Known.ids \cup Ids(s.events) \cup ToSet(s.compacts)
    BY DEF SavedIndex
  <2> QED  BY <2>1, <2>2, <2>3, IdAssumption DEF I, u
<1>14. SavedIndex(s).meta = SaveMeta(s) /\ SavedIndex(s).aux = s.aux
  BY DEF SavedIndex
<1> QED  BY <1>11, <1>12, <1>13, <1>14 DEF MirroredBy

\* An operation that takes the lock, and what its caller does before.
LEMMA StartMirrors ==
  ASSUME UNCHANGED <<files, failed, spoiled>>, op'.kind # "idle",
         Saving(op') /\ ~failed /\ spoiled = {} => Mirrored(Home, op')
  PROVE  Mirrors'
<1>1. Home' = Home
  BY DEF Home
<1> QED  BY <1>1 DEF Mirrors

LEMMA SameMirrors ==
  ASSUME Mirrors, UNCHANGED <<files, index, queue, failed, spoiled, op>>
  PROVE  Mirrors'
<1>1. Home' = Home
  BY DEF Home
<1> QED  BY <1>1 DEF Mirrors

LEMMA SaveInnerMirrors ==
  ASSUME OneFile, Typed, Mirrors, NEW s \in Session, SaveInner(s),
         UNCHANGED <<files, failed, spoiled>>
  PROVE  Mirrors'
<1> DEFINE es == SaveEntries(s)
           left == Left(Home, es)
           next == IF es = <<>> THEN index ELSE SavedIndex(s)
           acks == Ids(s.events)
           o == op'
<1>1. SaveProject(s) \in Where /\ es \in Seq(Line) /\ SavedIndex(s) \in Indexed
  BY SaveTyped DEF Typed
<1>2. Path(SaveProject(s)) = DefaultDir
  BY <1>1, OneDir
<1>3. o = [kind |-> "save", path |-> DefaultDir, next |-> next, queue |-> queue, acks |-> acks,
           item |-> None, appends |-> es # <<>>, left |-> left] /\ op = Idle
  BY <1>2 DEF SaveInner, Appending, Left, Home
<1>4. SavedIndex(s) # None
  BY <1>1, NoneAssumption
<1>5. es = <<>> => left = <<>> /\ next = index
  BY DEF Left
<1>6. es # <<>> => next = SavedIndex(s)
  OBVIOUS
<1> HIDE DEF left, next, acks
<1>7. o.kind = "save" /\ o.next = next /\ o.left = left /\ o.queue = queue
  BY <1>3
<1> HIDE DEF o
<1>8. ASSUME ~failed, spoiled = {} PROVE Mirrored(Home, o)
  <2>1. Reads(Home.lines, Known.meta, Known.aux, Known.ids \cap Event, queue)
    BY <1>3, <1>8, KnownReads
  <2>2. CASE es = <<>>
    <3>1. Idle.kind = "idle"
      BY DEF Idle
    <3>2. IF index = None THEN ~Home.exists ELSE MirroredBy(Home.lines, index, queue)
      BY <1>3, <1>8, <3>1 DEF Mirrors
    <3>3. Home.lines \o <<>> = Home.lines
      BY HomeTyped, JoinNone
    <3> QED  BY <1>5, <1>7, <2>2, <3>2, <3>3 DEF Mirrored
  <2>3. CASE es # <<>>
    <3>1. PICK x : /\ Reads(x, Known.meta, Known.aux, Known.ids \cap Event, queue)
                   /\ Home.lines \o left = x \o es
      <4>1. Behind(Home, es, Known.meta, Known.aux, Known.ids \cap Event, queue)
        BY <1>1, <2>1, <2>3, LeftReads
      <4> QED  BY <4>1 DEF Behind, left
    <3>2. index \in Indexed \cup {None}
      BY DEF Typed
    <3>3. MirroredBy(x \o es, SavedIndex(s), queue)
      BY <3>1, <3>2, SaveReads
    <3> QED  BY <1>4, <1>6, <1>7, <2>3, <3>1, <3>3 DEF Mirrored
  <2> QED  BY <2>2, <2>3
<1> QED  BY <1>7, <1>8, StartMirrors DEF o

LEMMA AppendNodeMirrors ==
  ASSUME OneFile, Typed, AtHome, Mirrors, index # None, NEW e \in Event,
         NEW p \in Event \cup {None}, NEW d \in Where, AppendNode(e, p, d),
         UNCHANGED <<files, failed, spoiled>>
  PROVE  Mirrors'
<1> DEFINE project == IF index.project # None THEN index.project ELSE d
           meta == Meta(project, clock + 1)
           l == Node(e, p, d)
           x == <<l>>
           y == <<meta>>
           es == <<l, meta>>
           ids == index.ids \cup {e}
           next == [index EXCEPT !.project = project, !.meta = meta, !.ids = ids, !.leaf = e]
           left == Left(Home, es)
           o == op'
<1>1. index \in Indexed /\ index.path = DefaultDir
  BY DEF Typed, AtHome
<1>2. /\ Appending("save", DefaultDir, es, next, queue, {e}, None)
  BY <1>1 DEF AppendNode
<1>3. es # <<>>
  OBVIOUS
<1>4. /\ op = Idle
      /\ o = [kind |-> "save", path |-> DefaultDir, next |-> next, queue |-> queue,
               acks |-> {e}, item |-> None, appends |-> es # <<>>, left |-> left]
  BY <1>2 DEF Appending, Home, Left
<1>5. project \in Where /\ clock + 1 \in Nat
  BY <1>1 DEF Indexed, Typed
<1>6. meta \in MetaLine /\ meta \in Line
  BY <1>5 DEF Meta, MetaLine, Line
<1>7. l \in NodeLine /\ l \in Line /\ l.k = "event" /\ l.id = e
  BY DEF Node, NodeLine, Line
<1> HIDE DEF l, meta, project
<1>8. ids \in SUBSET (Event \cup Compact)
  BY <1>1 DEF Indexed
<1> HIDE DEF ids
<1>9. /\ next \in Indexed /\ next.meta = meta /\ next.ids = ids /\ next.aux = index.aux
  BY <1>1, <1>5, <1>6, <1>8 DEF Indexed
<1>10. next # None
  BY <1>9, NoneAssumption
<1>11. x \in Seq(Line) /\ x \in Seq(NodeLine) /\ y \in Seq(Line) /\ es = x \o y
  BY <1>6, <1>7
<1>12. EventIds(x) = {e}
  BY <1>7, OneEvent
<1>13. es \in Seq(Line)
  BY <1>6, <1>7
<1> HIDE DEF next, left
<1>14. o.kind = "save" /\ o.next = next /\ o.left = left /\ o.queue = queue
  BY <1>4
<1> HIDE DEF o, es, x
<1>15. ASSUME ~failed, spoiled = {} PROVE Mirrored(Home, o)
  <2> DEFINE I == index.ids \cap Event
  <2>1. Reads(Home.lines, index.meta, index.aux, I, queue)
    BY <1>4, <1>15, KnownReads DEF Known
  <2>2. PICK z : Reads(z, index.meta, index.aux, I, queue) /\ Home.lines \o left = z \o es
    <3>1. Behind(Home, es, index.meta, index.aux, I, queue)
      BY <1>3, <1>13, <2>1, LeftReads
    <3> QED  BY <3>1 DEF Behind, left
  <2>3. I \cup {e} = ids \cap Event
    BY DEF ids
  <2> HIDE DEF I
  <2>4. Reads(z \o x, index.meta, index.aux, I \cup {e}, queue)
    BY <1>11, <1>12, <2>2, ReadsEvents
  <2>5. Reads((z \o x) \o y, meta, index.aux, I \cup {e}, queue)
    BY <1>6, <2>4, ReadsMeta
  <2> HIDE DEF y
  <2>6. (z \o x) \o y = z \o es
    <3>1. z \in Seq(Line)
      BY <2>2 DEF Reads
    <3> QED  BY <1>11, <3>1, JoinAssociative
  <2>7. MirroredBy(z \o es, next, queue)
    BY <1>9, <2>3, <2>5, <2>6 DEF MirroredBy
  <2> QED  BY <1>10, <1>14, <2>2, <2>7 DEF Mirrored
<1> QED  BY <1>14, <1>15, StartMirrors DEF o

LEMMA NodeMirrors ==
  ASSUME OneFile, Typed, AtHome, Mirrors, index # None, NEW e \in Event,
         NEW p \in Event \cup {None}, NEW d \in Where,
         AppendNode(e, p, d) \/ Fallback(e, p, d), UNCHANGED <<files, failed, spoiled>>
  PROVE  Mirrors'
<1>1. CASE AppendNode(e, p, d)
  BY <1>1, AppendNodeMirrors
<1>2. CASE Fallback(e, p, d)
  <2> DEFINE s == WithEvent(Reconstruct(files[index.path]), e, p, d, clock + 1)
  <2>1. clock + 1 \in Nat
    BY DEF Typed
  <2>2. \A r \in Session : WithEvent(r, e, p, d, clock + 1) \in Session
    BY <2>1, WithEventTyped
  <2>3. s \in Session
    BY <2>2, StoredTyped
  <2>4. SaveInner(s)
    BY <1>2 DEF Fallback
  <2> HIDE DEF s
  <2> QED  BY <2>3, <2>4, SaveInnerMirrors
<1> QED  BY <1>1, <1>2

LEMMA SavingMirrors ==
  ASSUME OneFile, Typed, AtHome, Mirrors,
         \/ \E c \in Caller : Save(c)
         \/ WithSessionLock \/ AddMessage \/ AppendGraphEvent
  PROVE  Mirrors'
<1>1. UNCHANGED <<files, failed, spoiled>>
  BY DEF Save, WithSessionLock, AddMessage, AppendGraphEvent, told
<1>2. CASE \E c \in Caller : Save(c)
  <2>1. PICK c \in Caller : Save(c)
    BY <1>2
  <2>2. held[c] \in Session /\ SaveInner(held[c])
    BY <2>1 DEF Save, Typed
  <2> QED  BY <1>1, <2>2, SaveInnerMirrors
<1>3. CASE WithSessionLock
  <2> DEFINE s == Reconstruct(files[index.path])
  <2>1. s \in Session
    BY <1>3, StoredTyped DEF WithSessionLock, Stored
  <2>2. PICK t \in Edited(s, clock + 1) : SaveInner(t)
    BY <1>3 DEF WithSessionLock
  <2> HIDE DEF s
  <2>3. clock + 1 \in Nat /\ made \in SUBSET (Event \cup QItem)
    BY DEF Typed
  <2>4. t \in Session
    BY <2>1, <2>2, <2>3, EditedTyped
  <2> QED  BY <1>1, <2>2, <2>4, SaveInnerMirrors
<1>4. CASE AddMessage
  <2>1. index # None
    BY <1>4 DEF AddMessage
  <2>2. PICK e \in Event \ made, d \in Where :
           \/ AppendNode(e, index.leaf, d)
           \/ Fallback(e, Leaf(Reconstruct(files[index.path])), d)
    BY <1>4 DEF AddMessage
  <2>3. index.leaf \in Event \cup {None}
    BY <2>1 DEF Typed, Indexed
  <2>4. Leaf(Reconstruct(files[index.path])) \in Event \cup {None}
    BY <2>1, StoredTyped, SessionTyped DEF NodeTyped
  <2> QED  BY <1>1, <2>1, <2>2, <2>3, <2>4, NodeMirrors
<1>5. CASE AppendGraphEvent
  <2>1. index # None
    BY <1>5 DEF AppendGraphEvent
  <2>2. PICK e \in Event \ made, d \in Where,
             p \in Ids(Nodes(files[index.path])) \cup {None} :
           AppendNode(e, p, d) \/ Fallback(e, p, d)
    BY <1>5 DEF AppendGraphEvent
  <2>3. p \in Event \cup {None}
    <3>1. files[index.path].lines \in Seq(Line)
      BY <2>1, StoredTyped, FilesTyped
    <3>2. Ids(Nodes(files[index.path])) \subseteq Event
      BY <3>1, NodesTyped, EventIdsTyped
    <3> QED  BY <2>2, <3>2
  <2> QED  BY <1>1, <2>1, <2>2, <2>3, NodeMirrors
<1> QED  BY <1>2, <1>3, <1>4, <1>5

LEMMA CallerMirrors ==
  ASSUME Mirrors, NEW c \in Caller, Create(c) \/ Edit(c) \/ LoadPath(c) \/ LoadFile(c)
  PROVE  Mirrors'
<1>1. UNCHANGED <<files, index, queue, failed, spoiled, op>>
  BY DEF Create, Edit, LoadPath, LoadFile, memory, told
<1> QED  BY <1>1, SameMirrors

LEMMA RemovalMirrors ==
  ASSUME Typed, Delete \/ CleanupExpired
  PROVE  Mirrors'
<1>1. UNCHANGED <<files, failed, spoiled>> /\ op'.kind \in {"delete", "cleanup"}
  BY DEF Delete, CleanupExpired, Appending
<1>2. op'.kind # "idle" /\ ~Saving(op')
  BY <1>1 DEF Saving
<1> QED  BY <1>1, <1>2, StartMirrors

LEMMA RestoreMirrors ==
  ASSUME NEW c \in Caller, RestoreBundle(c)
  PROVE  Mirrors'
<1>1. UNCHANGED <<files, failed, spoiled>>
  BY DEF RestoreBundle, told
<1>2. op'.kind = "restore"
  BY DEF RestoreBundle, Idle
<1>3. op'.kind # "idle" /\ ~Saving(op')
  BY <1>2 DEF Saving
<1> QED  BY <1>1, <1>3, StartMirrors

LEMMA ReadsQueue ==
  ASSUME NEW x, NEW m, NEW aux, NEW ids, NEW q, Reads(x, m, aux, ids, q),
         NEW y, OfKinds(y, QueueKinds), NEW s, MirrorsQueue(s, x \o y)
  PROVE  Reads(x \o y, m, aux, ids, s)
<1>1. /\ "meta" \notin QueueKinds /\ "event" \notin QueueKinds
      /\ \A a \in AuxKind : a \notin QueueKinds /\ Reset(a).k \notin QueueKinds
  BY AuxAssumption DEF QueueKinds, QueueOps, Reset
<1>2. x \in Seq(Line) /\ y \in Seq(Line)
  BY DEF Reads, OfKinds
<1>3. x \o y \in Seq(Line)
  BY <1>2
<1>4. MetaIn(x \o y) = m /\ EventIds(x \o y) = ids
  BY <1>1, <1>2, MetaKept, EventsKept DEF Reads
<1>5. \A a \in AuxKind : AuxIn(x \o y, a) = aux[a]
  BY <1>1, <1>2, AuxKept DEF Reads
<1> QED  BY <1>3, <1>4, <1>5 DEF Reads

\* The queue s is what becomes of the queue that was read before the lines y.
Follows(y, s) == \A x \in Seq(Line) : MirrorsQueue(queue, x) => MirrorsQueue(s, x \o y)

LEMMA QueueAppendMirrors ==
  ASSUME Typed, AtHome, Mirrors, NEW es, OfKinds(es, QueueKinds), es # <<>>,
         NEW q, NEW item, QueueAppend(es, q, item), Follows(es, q),
         UNCHANGED <<files, failed, spoiled>>
  PROVE  Mirrors'
<1> DEFINE y == IF index = None THEN <<>> ELSE es
           left == Left(Home, y)
           o == op'
<1>1. FilePath = DefaultDir /\ files[FilePath] = Home
  BY DEF FilePath, AtHome, Home
<1>2. op = Idle /\ o = [kind |-> "queue", path |-> DefaultDir, next |-> index, queue |-> q,
                        acks |-> acked, item |-> item, appends |-> y # <<>>, left |-> left]
  BY <1>1 DEF QueueAppend, Appending, Left
<1>3. index # None => left = Left(Home, es)
  OBVIOUS
<1>4. index = None => left = <<>>
  BY DEF Left
<1> HIDE DEF left, y
<1>5. o.kind = "queue" /\ o.next = index /\ o.left = left /\ o.queue = q
  BY <1>2
<1> HIDE DEF o
<1>6. ASSUME ~failed, spoiled = {} PROVE Mirrored(Home, o)
  <2> DEFINE I == index.ids \cap Event
  <2>1. Idle.kind = "idle"
    BY DEF Idle
  <2>2. IF index = None THEN ~Home.exists ELSE MirroredBy(Home.lines, index, queue)
    BY <1>2, <1>6, <2>1 DEF Mirrors
  <2>3. CASE index = None
    BY <1>4, <1>5, <2>2, <2>3 DEF Mirrored
  <2>4. CASE index # None
    <3>1. es \in Seq(Line)
      BY DEF OfKinds
    <3>2. Reads(Home.lines, index.meta, index.aux, I, queue)
      BY <2>2, <2>4 DEF MirroredBy
    <3> HIDE DEF I
    <3>3. Behind(Home, es, index.meta, index.aux, I, queue)
      BY <3>1, <3>2, LeftReads
    <3>4. PICK x : Reads(x, index.meta, index.aux, I, queue) /\ Home.lines \o left = x \o es
      BY <1>3, <2>4, <3>3 DEF Behind
    <3>5. MirrorsQueue(q, x \o es)
      BY <3>4 DEF Reads, Follows
    <3>6. Reads(x \o es, index.meta, index.aux, I, q)
      BY <3>4, <3>5, ReadsQueue
    <3> QED  BY <1>5, <2>4, <3>4, <3>6 DEF Mirrored, MirroredBy, I
  <2> QED  BY <2>3, <2>4
<1> QED  BY <1>5, <1>6, StartMirrors DEF o

\* One line of the queue.
LEMMA OneFollows ==
  ASSUME NEW o \in QueueOps, NEW q \in QItem, NEW s,
         \A r \in DOMAIN queue : r \in DOMAIN s /\ (r # q => s[r] = queue[r]),
         o = "enqueue" => q \in DOMAIN s, q \in DOMAIN s => s[q] = QueueState[o]
  PROVE  Follows(<<QueueOp(o, q)>>, s)
<1> DEFINE y == <<QueueOp(o, q)>>
           l == QueueOp(o, q)
<1>1. l \in Line /\ l.k = o /\ l.id = q /\ y \in Seq(Line)
  BY QueueLineTyped
<1>2. DOMAIN y = {1} /\ y[1] = l
  OBVIOUS
<1> HIDE DEF y, l
<1>3. Places(y, {"queue_reset"}) = {}
  BY <1>1, <1>2 DEF Places, QueueOps
<1>4. \A r : OpsOf(y, r) = IF r = q THEN {1} ELSE {}
  BY <1>1, <1>2, <1>3 DEF OpsOf, AfterReset, Places
<1>5. QueuedIn(y) \subseteq {q} /\ (q \in QueuedIn(y) => o = "enqueue")
  BY <1>1, <1>2 DEF QueuedIn, AfterReset, Places
<1>6. StateIn(y, q) = QueueState[o]
  <2>1. Max({1}) = 1
    <3>1. {1} \in SUBSET (1 .. 1) /\ 1 \in {1} /\ \A n \in {1} : n <= 1
      OBVIOUS
    <3> QED  BY <3>1, LargestOnly
  <2> QED  BY <1>1, <1>2, <1>4, <2>1 DEF StateIn
<1>7. ASSUME NEW x \in Seq(Line), MirrorsQueue(queue, x), NEW r \in QueuedIn(x \o y)
      PROVE  r \in DOMAIN s /\ s[r] = StateIn(x \o y, r)
  <2>1. QueueJoined(x, y)
    BY <1>1, QueueJoin
  <2>2. r \in QueuedIn(x) \cup QueuedIn(y)
    BY <1>3, <1>7, <2>1 DEF QueueJoined
  <2>3. r \in DOMAIN s
    BY <1>5, <1>7, <2>2 DEF MirrorsQueue
  <2>4. CASE r = q
    BY <1>4, <1>6, <2>1, <2>3, <2>4 DEF QueueJoined
  <2>5. CASE r # q
    <3>1. r \in QueuedIn(x) /\ OpsOf(x, r) # {} /\ OpsOf(y, r) = {}
      BY <1>4, <1>5, <2>2, <2>5, QueuedOps
    <3>2. StateIn(x \o y, r) = StateIn(x, r)
      BY <1>3, <2>1, <3>1 DEF QueueJoined
    <3> QED  BY <1>7, <2>3, <2>5, <3>1, <3>2 DEF MirrorsQueue
  <2> QED  BY <2>4, <2>5
<1>8. Follows(y, s)
  BY <1>7 DEF Follows, MirrorsQueue
<1> QED  BY <1>8 DEF y, l

LEMMA OneQueueKind ==
  ASSUME NEW o \in QueueOps, NEW q \in QItem
  PROVE  OfKinds(<<QueueOp(o, q)>>, QueueKinds) /\ <<QueueOp(o, q)>> # <<>>
<1>a. QueueOp(o, q) \in Line /\ QueueOp(o, q).k = o
  BY DEF QueueOp, QueueLine, Line
<1>1. QueueOp(o, q) \in Line /\ QueueOp(o, q).k \in QueueKinds
  BY <1>a DEF QueueKinds
<1>2. OfKinds(<<QueueOp(o, q)>>, QueueKinds)
  BY <1>1, KindsOne
<1> QED  BY <1>2

LEMMA EnqueuesFollow ==
  ASSUME NEW S \in SUBSET QItem
  PROVE  /\ OfKinds(Enqueues(S), QueueKinds) /\ Enqueues(S) # <<>>
         /\ Follows(Enqueues(S), [q \in S |-> "pending"])
<1> DEFINE y == Enqueues(S)
           N == Cardinality(S) + 1
           s == [q \in S |-> "pending"]
<1>1. /\ y \in Seq(Line) /\ N \in Nat /\ N >= 1 /\ Len(y) = N /\ y[1] = QueueReset
      /\ \A n \in 2 .. N : y[n].k = "enqueue" /\ y[n].id \in S
  BY EnqueuesTyped
<1> HIDE DEF y, N
<1>2. \A n \in 1 .. N : n = 1 \/ n \in 2 .. N
  BY <1>1
<1>3. QueueReset.k = "queue_reset"
  BY DEF QueueReset
<1>4. OfKinds(y, QueueKinds) /\ y # <<>>
  <2>1. \A n \in 1 .. Len(y) : y[n].k \in QueueKinds
    BY <1>1, <1>2, <1>3 DEF QueueKinds, QueueOps
  <2> QED  BY <1>1, <2>1 DEF OfKinds
<1>5. \A n \in Places(y, QueueOps) : y[n].k = "enqueue" /\ y[n].id \in S
  BY <1>1, <1>2, <1>3 DEF Places, QueueOps
<1>6. 1 \in Places(y, {"queue_reset"})
  BY <1>1, <1>3 DEF Places
<1>7. ASSUME NEW q \in QueuedIn(y) PROVE q \in S /\ OpsOf(y, q) # {} /\ StateIn(y, q) = "pending"
  <2>1. q \in S
    <3>1. \A n \in AfterReset(y, "queue_reset", {"enqueue"}) : n \in Places(y, QueueOps)
      BY DEF AfterReset, Places, QueueOps
    <3> QED  BY <1>5, <1>7, <3>1 DEF QueuedIn
  <2>2. OpsOf(y, q) # {}
    BY <1>1, <1>7, QueuedOps
  <2>3. \A n \in OpsOf(y, q) : n \in Places(y, QueueOps)
    BY DEF OpsOf, AfterReset
  <2>4. OpsOf(y, q) \in SUBSET (1 .. N)
    BY <1>1, <2>3 DEF Places
  <2>5. Max(OpsOf(y, q)) \in OpsOf(y, q)
    BY <1>1, <2>2, <2>4, LargestIs
  <2>6. y[Max(OpsOf(y, q))].k = "enqueue"
    BY <1>5, <2>3, <2>5
  <2> QED  BY <2>1, <2>2, <2>6 DEF StateIn, QueueState
<1>8. ASSUME NEW x \in Seq(Line), NEW q \in QueuedIn(x \o y)
      PROVE  q \in DOMAIN s /\ s[q] = StateIn(x \o y, q)
  <2>1. QueueJoined(x, y)
    BY <1>1, QueueJoin
  <2>2. q \in QueuedIn(y)
    BY <1>6, <1>8, <2>1 DEF QueueJoined
  <2>3. StateIn(x \o y, q) = "pending"
    BY <1>7, <2>1, <2>2 DEF QueueJoined
  <2> QED  BY <1>7, <2>2, <2>3
<1> HIDE DEF s
<1>9. Follows(y, s)
  BY <1>8 DEF Follows, MirrorsQueue
<1> QED  BY <1>4, <1>9 DEF y, s

LEMMA QueueMirrors ==
  ASSUME Typed, AtHome, Mirrors, Enqueue \/ Dequeue \/ CancelQueued \/ ReplacePendingQueue
  PROVE  Mirrors'
<1>1. UNCHANGED <<files, failed, spoiled>>
  BY DEF Enqueue, Dequeue, CancelQueued, ReplacePendingQueue, told
<1>2. IsQueue(queue)
  BY DEF Typed
<1>3. CASE Enqueue
  <2>1. PICK q \in QItem \ made : QueueAppend(<<QueueOp("enqueue", q)>>, WithItem(q), None)
    BY <1>3 DEF Enqueue
  <2>2. Follows(<<QueueOp("enqueue", q)>>, WithItem(q))
    <3> DEFINE s == WithItem(q)
    <3>1. /\ \A r \in DOMAIN queue : r \in DOMAIN s /\ (r # q => s[r] = queue[r])
          /\ q \in DOMAIN s /\ s[q] = QueueState["enqueue"]
      BY DEF WithItem, QueueState
    <3> HIDE DEF s
    <3> QED  BY <3>1, OneFollows DEF QueueOps, s
  <2>3. /\ OfKinds(<<QueueOp("enqueue", q)>>, QueueKinds)
        /\ <<QueueOp("enqueue", q)>> # <<>>
    BY OneQueueKind DEF QueueOps
  <2> QED  BY <1>1, <2>1, <2>2, <2>3, QueueAppendMirrors
<1>4. CASE Dequeue
  <2>1. PICK q \in Pending : \E item :
          /\ queue' = [queue EXCEPT ![q] = "processing"]
          /\ QueueAppend(<<QueueOp("dequeue", q)>>, queue', item)
    BY <1>4 DEF Dequeue
  <2>2. q \in QItem
    BY <1>2 DEF Pending, IsQueue
  <2>3. Follows(<<QueueOp("dequeue", q)>>, queue')
    <3>1. /\ \A r \in DOMAIN queue : r \in DOMAIN queue' /\ (r # q => queue'[r] = queue[r])
          /\ q \in DOMAIN queue' => queue'[q] = QueueState["dequeue"]
      BY <2>1 DEF QueueState
    <3> QED  BY <2>2, <3>1, OneFollows DEF QueueOps
  <2>4. /\ OfKinds(<<QueueOp("dequeue", q)>>, QueueKinds)
        /\ <<QueueOp("dequeue", q)>> # <<>>
    BY <2>2, OneQueueKind DEF QueueOps
  <2> QED  BY <1>1, <2>1, <2>3, <2>4, QueueAppendMirrors
<1>5. CASE CancelQueued
  <2>1. PICK q \in DOMAIN queue :
          /\ queue' = [queue EXCEPT ![q] = "cancelled"]
          /\ QueueAppend(<<QueueOp("cancel", q)>>, queue', None)
    BY <1>5 DEF CancelQueued
  <2>2. q \in QItem
    BY <1>2 DEF IsQueue
  <2>3. Follows(<<QueueOp("cancel", q)>>, queue')
    <3>1. /\ \A r \in DOMAIN queue : r \in DOMAIN queue' /\ (r # q => queue'[r] = queue[r])
          /\ q \in DOMAIN queue' => queue'[q] = QueueState["cancel"]
      BY <2>1 DEF QueueState
    <3> QED  BY <2>2, <3>1, OneFollows DEF QueueOps
  <2>4. /\ OfKinds(<<QueueOp("cancel", q)>>, QueueKinds)
        /\ <<QueueOp("cancel", q)>> # <<>>
    BY <2>2, OneQueueKind DEF QueueOps
  <2> QED  BY <1>1, <2>1, <2>3, <2>4, QueueAppendMirrors
<1>6. CASE ReplacePendingQueue
  <2>1. PICK S \in SUBSET ((QItem \ made) \cup Pending) :
          QueueAppend(Enqueues(S), [q \in S |-> "pending"], None)
    BY <1>6 DEF ReplacePendingQueue
  <2>2. S \in SUBSET QItem
    BY <1>2 DEF Pending, IsQueue
  <2>3. /\ OfKinds(Enqueues(S), QueueKinds) /\ Enqueues(S) # <<>>
        /\ Follows(Enqueues(S), [q \in S |-> "pending"])
    BY <2>2, EnqueuesFollow
  <2> QED  BY <1>1, <2>1, <2>3, QueueAppendMirrors
<1> QED  BY <1>3, <1>4, <1>5, <1>6

LEMMA AppendMoves ==
  ASSUME NEW x \in Seq(Line), NEW l \in Line, NEW t \in Seq(Line)
  PROVE  Append(x, l) \o t = x \o (<<l>> \o t)
<1> DEFINE y == <<l>>
<1>1. y \in Seq(Line) /\ Append(x, l) = x \o y
  BY AppendIsJoin
<1> HIDE DEF y
<1>2. (x \o y) \o t = x \o (y \o t)
  BY <1>1, JoinAssociative
<1> QED  BY <1>1, <1>2 DEF y

LEMMA WriteLineMirrors ==
  ASSUME Typed, AtHome, Mirrors, WriteLine
  PROVE  Mirrors'
<1> DEFINE e == Head(op.left)
           f == Written(Home, e)
           t == Tail(op.left)
           o == op'
<1>1. op.left # <<>> /\ op.path = DefaultDir
  BY DEF WriteLine, AtHome
<1>2. e \in Line /\ t \in Seq(Line) /\ op.left = <<e>> \o t
  BY <1>1, LeftParts
<1>3. /\ files' = [files EXCEPT ![DefaultDir] = f]
      /\ spoiled' = spoiled \cup Spoiled(Home, e)
      /\ op' = [op EXCEPT !.left = t]
      /\ UNCHANGED failed
  BY <1>1 DEF WriteLine, Home
<1>4. op.kind \in {"save", "queue"} /\ IsOp(op)
  BY <1>1 DEF Typed, IsOp
<1>5. o.kind \in {"save", "queue"} /\ o.left = t /\ o.next = op.next /\ o.queue = op.queue
  <2> HIDE DEF t
  <2> QED  BY <1>3, <1>4 DEF IsOp
<1>6. Home' = f
  BY <1>3, DirAssumption DEF Home, Typed
<1> HIDE DEF o, t
<1>7. ASSUME ~failed', spoiled' = {} PROVE Mirrored(f, o)
  <2>1. ~failed /\ spoiled = {} /\ ~Home.open
    BY <1>3, <1>7 DEF Spoiled
  <2>2. Mirrored(Home, op)
    BY <1>4, <2>1 DEF Mirrors, Saving
  <2>3. op.next # None /\ MirroredBy(Home.lines \o op.left, op.next, op.queue)
    BY <1>1, <2>2 DEF Mirrored
  <2>4. f.lines = Append(Home.lines, e) /\ Home.lines \in Seq(Line)
    <3>1. FileOK(Home) /\ Home.lines \in Seq(Line)
      BY HomeTyped
    <3> HIDE DEF e
    <3> QED  BY <1>2, <2>1, <3>1, WrittenGrows
  <2> HIDE DEF e, f
  <2>5. f.lines \o t = Home.lines \o op.left
    <3>1. Append(Home.lines, e) \o t = Home.lines \o (<<e>> \o t)
      BY <1>2, <2>4, AppendMoves
    <3> QED  BY <1>2, <2>4, <3>1
  <2>6. MirroredBy(f.lines \o t, op.next, op.queue)
    BY <2>3, <2>5
  <2> QED  BY <1>5, <2>3, <2>6 DEF Mirrored
<1>8. o.kind # "idle"
  BY <1>5
<1> HIDE DEF f
<1> QED  BY <1>6, <1>7, <1>8 DEF Mirrors, o

\* What an operation that ended leaves.
LEMMA EndMirrors ==
  ASSUME op' = Idle,
         ~failed' /\ spoiled' = {} =>
           IF index' = None THEN ~Home'.exists ELSE MirroredBy(Home'.lines, index', queue')
  PROVE  Mirrors'
<1>1. Idle.kind = "idle" /\ ~Saving(Idle)
  BY DEF Idle, Saving
<1> QED  BY <1>1 DEF Mirrors

LEMMA FinishMirrors ==
  ASSUME Typed, AtHome, Mirrors, Finish
  PROVE  Mirrors'
<1> DEFINE g == Synced(Home)
<1>1. op.path = DefaultDir /\ op.left = <<>> /\ Saving(op)
  BY DEF Finish, AtHome, Saving
<1>2. /\ files' = [files EXCEPT ![DefaultDir] = g] /\ op' = Idle /\ queue' = op.queue
      /\ index' = op.next /\ UNCHANGED <<failed, spoiled>>
  BY <1>1 DEF Finish, Home
<1>3. g.lines = Home.lines /\ g.exists = Home.exists /\ Home.lines \in Seq(Line)
  BY HomeTyped, SyncedOK
<1> HIDE DEF g
<1>4. Home' = g
  BY <1>2, DirAssumption DEF Home, Typed
<1>5. Home.lines \o op.left = Home.lines
  BY <1>1, <1>3, JoinNone
<1>6. ASSUME ~failed, spoiled = {}
      PROVE  IF op.next = None THEN ~Home.exists ELSE MirroredBy(Home.lines, op.next, op.queue)
  BY <1>1, <1>5, <1>6 DEF Mirrors, Mirrored
<1> QED  BY <1>2, <1>3, <1>4, <1>6, EndMirrors

LEMMA RemoveFileMirrors ==
  ASSUME Typed, AtHome, RemoveFile
  PROVE  Mirrors'
<1>1. op.path = DefaultDir /\ index = None
  BY DEF RemoveFile, AtHome
<1>2. files' = [files EXCEPT ![DefaultDir] = NoFile] /\ op' = Idle /\ index' = index
  BY <1>1 DEF RemoveFile
<1>3. Home' = NoFile
  BY <1>2, DirAssumption DEF Home, Typed
<1> QED  BY <1>1, <1>2, <1>3, NoFileOK, EndMirrors

LEMMA FailMirrors ==
  ASSUME Fail
  PROVE  Mirrors'
BY EndMirrors DEF Fail

\* What was read as a whole into the index and the queue.
LEMMA ReadMirrors ==
  ASSUME NEW f, f.lines \in Seq(Line), NEW p, NEW s,
         s = QueueOf(f) \/ (s = NoQueue /\ QueueOf(f) = NoQueue)
  PROVE  MirroredBy(f.lines, Parse(p, f), s)
<1> DEFINE i == Parse(p, f)
<1>1. i.meta = LastMeta(f) /\ i.aux = AuxOf(f) /\ i.ids = Ids(Nodes(f))
  BY DEF Parse
<1>2. LastMeta(f) = MetaIn(f.lines)
  BY DEF LastMeta, MetaIn
<1>3. \A a \in AuxKind : AuxOf(f)[a] = AuxIn(f.lines, a)
  BY DEF AuxOf, AuxIn
<1>4. i.ids \cap Event = EventIds(f.lines)
  BY <1>1, NodesTyped, EventIdsTyped
<1>5. MirrorsQueue(s, f.lines)
  BY QueueTyped DEF MirrorsQueue
<1> HIDE DEF i
<1> QED  BY <1>1, <1>2, <1>3, <1>4, <1>5 DEF MirroredBy, Reads, i

LEMMA PublishMirrors ==
  ASSUME Typed, AtHome, Publish
  PROVE  Mirrors'
<1> DEFINE ls == op.next
           n == IF syncing THEN Len(ls) ELSE 0
           g == [lines |-> ls, open |-> FALSE, synced |-> n, exists |-> TRUE]
           h == [NewFile EXCEPT !.lines = ls, !.synced = n]
<1>1. /\ ls \in Seq(Line) /\ ls # <<>> /\ op.path = DefaultDir /\ syncing \in BOOLEAN
  BY DEF Publish, Typed, IsOp, AtHome
<1>2. /\ files' = [files EXCEPT ![DefaultDir] = h] /\ index' = Parse(DefaultDir, h)
      /\ queue' = QueueOf(h) /\ op' = Idle
  BY <1>1 DEF Publish
<1> HIDE DEF ls
<1>3. h = g /\ g.lines = ls
  BY <1>1, PublishedOK
<1> HIDE DEF g, h
<1>4. Home' = g
  BY <1>2, <1>3, DirAssumption DEF Home, Typed
<1>5. MirroredBy(g.lines, Parse(DefaultDir, g), QueueOf(g))
  BY <1>1, <1>3, ReadMirrors
<1>6. Parse(DefaultDir, g) # None
  <2>1. Parse(DefaultDir, g) \in Indexed
    BY <1>1, <1>3, ParseTyped, DirAssumption
  <2> QED  BY <2>1, NoneAssumption
<1> QED  BY <1>2, <1>3, <1>4, <1>5, <1>6, EndMirrors

LEMMA RestartMirrors ==
  ASSUME Typed, AtHome, Restart
  PROVE  Mirrors'
<1> DEFINE g == files'[DefaultDir]
<1>0. CASE op' = Down
  <2>1. Down.kind = "down" /\ ~Saving(Down)
    BY DEF Down, Idle, Saving
  <2> QED  BY <1>0, <2>1 DEF Mirrors
<1> SUFFICES ASSUME op' # Down PROVE Mirrors'
  BY <1>0
<1>1. /\ \A p \in Dir : Shortened(files[p], files'[p])
      /\ \/ index' = None /\ \A p \in Dir : ~files'[p].exists
         \/ \E p \in Dir : files'[p].exists /\ index' = Parse(p, files'[p])
      /\ \/ queue' = NoQueue /\ \A p \in Dir : QueueOf(files'[p]) = NoQueue \/ ~files'[p].exists
         \/ \E p \in Dir : files'[p].exists /\ queue' = QueueOf(files'[p])
  BY RestartFinds DEF RestartReads
<1>2. \A p \in Dir \ {DefaultDir} : ~files'[p].exists
  BY <1>1, NoFileOK DEF AtHome, Shortened
<1>3. /\ \/ index' = None /\ ~g.exists
         \/ g.exists /\ index' = Parse(DefaultDir, g)
      /\ \/ queue' = NoQueue /\ (QueueOf(g) = NoQueue \/ ~g.exists)
         \/ g.exists /\ queue' = QueueOf(g)
  BY <1>1, <1>2, DirAssumption
<1>4. g.lines \in Seq(Line)
  <2>1. Shortened(files[DefaultDir], g)
    BY <1>1, DirAssumption
  <2> HIDE DEF g
  <2> QED  BY <2>1 DEF Shortened, FileOK, File
<1>5. Home' = g /\ op' = Idle
  BY RestartFinds DEF Home, RestartReads
<1> HIDE DEF g
<1>6. Parse(DefaultDir, g) # None
  <2>1. Parse(DefaultDir, g) \in Indexed
    BY <1>4, ParseTyped, DirAssumption
  <2> QED  BY <2>1, NoneAssumption
<1>7. g.exists => MirroredBy(g.lines, Parse(DefaultDir, g), queue')
  BY <1>3, <1>4, ReadMirrors
<1> QED  BY <1>3, <1>5, <1>6, <1>7, EndMirrors

LEMMA StutterMirrors ==
  ASSUME Mirrors, UNCHANGED vars
  PROVE  Mirrors'
<1>1. UNCHANGED <<files, index, queue, failed, spoiled, op>>
  BY DEF vars, memory, told
<1> QED  BY <1>1, SameMirrors

LEMMA MirrorsInit ==
  ASSUME Init
  PROVE  Mirrors
<1>1. Home = NoFile /\ op = Idle /\ index = None
  BY DirAssumption DEF Init, Home
<1>2. Idle.kind = "idle" /\ ~Saving(Idle)
  BY DEF Idle, Saving
<1> QED  BY <1>1, <1>2, NoFileOK DEF Mirrors

LEMMA NextMirrors ==
  ASSUME OneFile, Typed, AtHome, Mirrors, [Next]_vars
  PROVE  Mirrors'
BY CallerMirrors, RestoreMirrors, SavingMirrors, QueueMirrors, RemovalMirrors, PublishMirrors,
   WriteLineMirrors, FinishMirrors, RemoveFileMirrors, FailMirrors, RestartMirrors,
   StutterMirrors
DEF Next

LEMMA SpecMirrors ==
  ASSUME OneFile
  PROVE  Spec => []Mirrors
<1>1. Init => Mirrors
  BY MirrorsInit
<1>2. Typed /\ Tracked /\ Mirrors /\ [Next]_vars => Mirrors'
  BY NextMirrors DEF Tracked
<1>3. Spec => [](Typed /\ Tracked)
  BY SpecTracked
<1> QED  BY <1>1, <1>2, <1>3, PTL DEF Spec

LEMMA MirrorsIndexFile ==
  ASSUME OneFile, Typed, AtHome, Mirrors
  PROVE  IndexMirrorsFile
<1> SUFFICES ASSUME op = Idle, ~failed, spoiled = {} PROVE IndexMirrorsFile
  BY DEF IndexMirrorsFile
<1>1. IF index = None THEN ~Home.exists ELSE MirroredBy(Home.lines, index, queue)
  <2>1. Idle.kind = "idle"
    BY DEF Idle
  <2> QED  BY <2>1 DEF Mirrors
<1>2. CASE index = None
  <2>1. \A p \in Dir : ~files[p].exists
    BY <1>1, <1>2, NoFileOK DEF AtHome, Home
  <2> QED  BY <1>2, <2>1 DEF IndexMirrorsFile
<1>3. CASE index # None
  <2> DEFINE f == files[index.path]
             read == Parse(index.path, f)
  <2>1. index.path = DefaultDir /\ f = Home /\ index \in Indexed
    BY <1>3 DEF AtHome, Home, Typed
  <2>2. /\ f.lines \in Seq(Line)
        /\ Reads(f.lines, index.meta, index.aux, index.ids \cap Event, queue)
    BY <1>1, <1>3, <2>1, HomeTyped DEF MirroredBy
  <2> HIDE DEF f
  <2>3. /\ read.meta = LastMeta(f) /\ read.project = ProjectOf(f) /\ read.aux = AuxOf(f)
        /\ read.ids = Ids(Nodes(f))
    BY DEF Parse
  <2>4. index.meta = read.meta
    BY <2>2, <2>3 DEF Reads, LastMeta, MetaIn
  <2>5. index.project = read.project
    <3>1. ProjectOf(f) = None
      BY <2>2, ProjectTyped, OneDir
    <3>2. index.project = None
      BY <2>1, OneDir DEF Indexed
    <3> QED  BY <2>3, <3>1, <3>2
  <2>6. index.aux = read.aux
    <3>1. AuxOf(f) \in [AuxKind -> SUBSET Item] /\ index.aux \in [AuxKind -> SUBSET Item]
      BY <2>1, <2>2, AuxTyped DEF Indexed
    <3>2. \A a \in AuxKind : AuxOf(f)[a] = index.aux[a]
      BY <2>2 DEF AuxOf, Reads, AuxIn
    <3> QED  BY <2>3, <3>1, <3>2
  <2>7. index.ids \cap Event = read.ids
    BY <2>2, <2>3, NodesTyped DEF Reads
  <2>8. \A q \in DOMAIN QueueOf(f) : q \in DOMAIN queue /\ queue[q] = QueueOf(f)[q]
    BY <2>2, QueueTyped DEF Reads, MirrorsQueue
  <2> HIDE DEF read
  <2> QED  BY <1>3, <2>4, <2>5, <2>6, <2>7, <2>8 DEF IndexMirrorsFile, f, read
<1> QED  BY <1>2, <1>3

\* At rest, the index and the queue in memory are what rebuild_index would read
\* from the file, and no file is left of a session without an index, unless an
\* operation failed or a line was spoiled.
THEOREM JsonlIndexMirrorsFile ==
  ASSUME OneFile
  PROVE  Spec => []IndexMirrorsFile
<1>1. Typed /\ Tracked /\ Mirrors => IndexMirrorsFile
  BY MirrorsIndexFile DEF Tracked
<1> QED  BY <1>1, SpecTracked, SpecMirrors, PTL

-----------------------------------------------------------------------------
(***************************************************************************)
(* What can be read                                                        *)
(***************************************************************************)

\* What an operation writes is whole, and the file can be read until one fails.
Whole(o) == o.left \in Seq(Entry) /\ (o.kind = "restore" => o.next \in Seq(Entry))
Clear(ls) == \A n \in DOMAIN ls : ls[n] # Garbled
Entire == Whole(op) /\ (op.kind # "down" /\ ~failed => Clear(Home.lines))

LEMMA ClearReadable ==
  ASSUME NEW f
  PROVE  Clear(f.lines) <=> ~Unreadable(f)
BY DEF Clear, Unreadable, Range

LEMMA ClearEntries ==
  ASSUME NEW ls \in Seq(Entry)
  PROVE  Clear(ls)
<1>1. \A n \in DOMAIN ls : ls[n] \in Entry
  OBVIOUS
<1> QED  BY <1>1 DEF Clear, Entry, Garbled

LEMMA ClearWritten ==
  ASSUME NEW f, FileOK(f), Clear(f.lines), NEW e \in Entry
  PROVE  Clear(Written(f, e).lines)
<1> DEFINE ls == f.lines
           g == Written(f, e)
<1>1. ls \in Seq(Line) /\ f.open \in BOOLEAN /\ e \in Line
  BY DEF FileOK, File, Entry
<1>2. Grown(f, e, g) /\ (~f.open => g.lines = Append(ls, e))
  BY <1>1, WrittenGrows
<1>3. f.open => g.lines = Mangled(ls, Torn)
  <2>1. f \in File
    BY DEF FileOK
  <2> QED  BY <2>1 DEF Written, File
<1> HIDE DEF g
<1>4. CASE f.open
  <2>1. Torn # Garbled
    BY DEF Torn, Garbled
  <2> DEFINE t == Mangled(ls, Torn)
  <2>2. \A n \in DOMAIN t : n \in DOMAIN ls /\ t[n] \in {ls[n], Torn}
    <3> HIDE DEF ls
    <3>1. Torn \in Remnants
      BY DEF Remnants
    <3>2. DOMAIN Mangled(ls, Torn) = 1 .. Len(ls) /\ DOMAIN ls = 1 .. Len(ls)
      BY <1>1, <3>1, MangledAt
    <3> QED  BY <3>2 DEF Mangled
  <2>3. \A n \in DOMAIN ls : ls[n] # Garbled
    BY DEF Clear
  <2> HIDE DEF t, ls
  <2>4. Clear(t)
    BY <2>1, <2>2, <2>3 DEF Clear
  <2> QED  BY <1>3, <1>4, <2>4 DEF t, ls, g
<1>5. CASE ~f.open
  <2>1. e # Garbled
    BY DEF Entry, Garbled
  <2> DEFINE t == Append(ls, e)
  <2>2. ASSUME NEW n \in DOMAIN t PROVE t[n] # Garbled
    <3> HIDE DEF ls
    <3>1. Len(ls) \in Nat /\ DOMAIN ls = 1 .. Len(ls) /\ n \in 1 .. Len(ls) + 1
      BY <1>1
    <3>2. CASE n = Len(ls) + 1
      BY <1>1, <2>1, <3>1, <3>2
    <3>3. CASE n \in 1 .. Len(ls)
      <4>1. t[n] = ls[n]
        BY <1>1, <3>1, <3>3
      <4> QED  BY <3>1, <3>3, <4>1 DEF Clear, ls
    <3> QED  BY <3>1, <3>2, <3>3
  <2> HIDE DEF t
  <2>3. Clear(t)
    BY <2>2 DEF Clear
  <2> QED  BY <1>2, <1>5, <2>3 DEF t, g
<1> QED  BY <1>1, <1>4, <1>5 DEF g

\* An operation takes the lock.
LEMMA StartEntire ==
  ASSUME Entire, op = Idle, UNCHANGED <<files, failed>>, Whole(op')
  PROVE  Entire'
<1>1. Idle.kind # "down" /\ Home' = Home
  BY DEF Idle, Home
<1> QED  BY <1>1 DEF Entire

LEMMA SameEntire ==
  ASSUME Entire, UNCHANGED <<files, failed, op>>
  PROVE  Entire'
<1>1. Home' = Home
  BY DEF Home
<1> QED  BY <1>1 DEF Entire

LEMMA IdleWhole == Whole(Idle) /\ Whole(Down)
BY DEF Whole, Idle, Down

LEMMA SavingEntire ==
  ASSUME Typed, Entire,
         \/ \E c \in Caller : Save(c)
         \/ WithSessionLock \/ AddMessage \/ AppendGraphEvent
  PROVE  Entire'
<1>1. UNCHANGED <<files, failed>>
  BY DEF Save, WithSessionLock, AddMessage, AppendGraphEvent, told
<1>2. op = Idle
  <2>1. \A s : SaveInner(s) => op = Idle
    BY DEF SaveInner, Appending
  <2>2. \A e, p, d : AppendNode(e, p, d) \/ Fallback(e, p, d) => op = Idle
    BY <2>1 DEF AppendNode, Fallback, Appending
  <2>3. (\E c \in Caller : Save(c)) \/ WithSessionLock => op = Idle
    BY <2>1 DEF Save, WithSessionLock
  <2>4. AddMessage \/ AppendGraphEvent => op = Idle
    BY <2>2 DEF AddMessage, AppendGraphEvent
  <2> QED  BY <2>3, <2>4
<1>3. Quiet(op')
  BY SavingQuiet
<1>4. Whole(op')
  BY <1>3 DEF Quiet, Whole
<1> QED  BY <1>1, <1>2, <1>4, StartEntire

LEMMA QueueEntries ==
  ASSUME NEW es, OfKinds(es, QueueKinds)
  PROVE  es \in Seq(Entry)
<1>1. es \in Seq(Line) /\ \A n \in 1 .. Len(es) : es[n].k \in QueueKinds
  BY DEF OfKinds
<1>2. "torn" \notin QueueKinds
  BY DEF QueueKinds, QueueOps
<1>3. \A n \in 1 .. Len(es) : es[n] \in Entry
  BY <1>1, <1>2 DEF Entry
<1> QED  BY <1>1, <1>3

LEMMA QueueAppendEntire ==
  ASSUME Entire, NEW es, OfKinds(es, QueueKinds), NEW q, NEW item, QueueAppend(es, q, item),
         UNCHANGED <<files, failed>>
  PROVE  Entire'
<1> DEFINE x == IF index = None THEN <<>> ELSE es
           f == files[FilePath]
           left == Left(f, x)
<1>1. /\ op = Idle
      /\ op' = [kind |-> "queue", path |-> FilePath, next |-> index, queue |-> q, acks |-> acked,
                item |-> item, appends |-> x # <<>>, left |-> left]
  BY DEF QueueAppend, Appending, Left
<1>2. x \in Seq(Entry)
  BY QueueEntries
<1> HIDE DEF x, f
<1>3. left \in Seq(Entry)
  BY <1>2, LeftEntries
<1> HIDE DEF left
<1>4. Whole(op')
  BY <1>1, <1>3 DEF Whole
<1> QED  BY <1>1, <1>4, StartEntire

LEMMA QueueEntire ==
  ASSUME Typed, Entire, Enqueue \/ Dequeue \/ CancelQueued \/ ReplacePendingQueue
  PROVE  Entire'
<1>1. UNCHANGED <<files, failed>>
  BY DEF Enqueue, Dequeue, CancelQueued, ReplacePendingQueue, told
<1>2. IsQueue(queue)
  BY DEF Typed
<1>3. CASE Enqueue
  <2>1. PICK q \in QItem \ made : QueueAppend(<<QueueOp("enqueue", q)>>, WithItem(q), None)
    BY <1>3 DEF Enqueue
  <2>2. OfKinds(<<QueueOp("enqueue", q)>>, QueueKinds)
    BY OneQueueKind DEF QueueOps
  <2> QED  BY <1>1, <2>1, <2>2, QueueAppendEntire
<1>4. CASE Dequeue
  <2>1. PICK q \in Pending : \E item : QueueAppend(<<QueueOp("dequeue", q)>>, queue', item)
    BY <1>4 DEF Dequeue
  <2>2. q \in QItem
    BY <1>2 DEF Pending, IsQueue
  <2>3. OfKinds(<<QueueOp("dequeue", q)>>, QueueKinds)
    BY <2>2, OneQueueKind DEF QueueOps
  <2> QED  BY <1>1, <2>1, <2>3, QueueAppendEntire
<1>5. CASE CancelQueued
  <2>1. PICK q \in DOMAIN queue : QueueAppend(<<QueueOp("cancel", q)>>, queue', None)
    BY <1>5 DEF CancelQueued
  <2>2. q \in QItem
    BY <1>2 DEF IsQueue
  <2>3. OfKinds(<<QueueOp("cancel", q)>>, QueueKinds)
    BY <2>2, OneQueueKind DEF QueueOps
  <2> QED  BY <1>1, <2>1, <2>3, QueueAppendEntire
<1>6. CASE ReplacePendingQueue
  <2>1. PICK S \in SUBSET ((QItem \ made) \cup Pending) :
          QueueAppend(Enqueues(S), [q \in S |-> "pending"], None)
    BY <1>6 DEF ReplacePendingQueue
  <2>2. S \in SUBSET QItem
    BY <1>2 DEF Pending, IsQueue
  <2>3. OfKinds(Enqueues(S), QueueKinds)
    BY <2>2, EnqueuesFollow
  <2> QED  BY <1>1, <2>1, <2>3, QueueAppendEntire
<1> QED  BY <1>3, <1>4, <1>5, <1>6

LEMMA RemovalEntire ==
  ASSUME Entire, Delete \/ CleanupExpired
  PROVE  Entire'
<1>1. UNCHANGED <<files, failed>> /\ op = Idle
  BY DEF Delete, CleanupExpired, Appending
<1>2. op'.left = <<>> /\ op'.kind \in {"delete", "cleanup"}
  BY DEF Delete, CleanupExpired, Appending
<1>3. Whole(op')
  BY <1>2 DEF Whole
<1> QED  BY <1>1, <1>3, StartEntire

LEMMA RestoreEntire ==
  ASSUME Typed, Entire, NEW c \in Caller, RestoreBundle(c)
  PROVE  Entire'
<1> DEFINE s == held[c]
           p == Path(Project(s))
           acks == Ids(s.events)
<1>1. s \in Session
  BY DEF Typed, RestoreBundle
<1>2. PICK Q \in SUBSET (QItem \ made) :
        /\ made' = made \cup Q
        /\ op' = [Idle EXCEPT !.kind = "restore", !.path = p,
                              !.next = <<Header>> \o Snapshot(s, Q), !.acks = acks]
  BY DEF RestoreBundle
<1> HIDE DEF s, p, acks
<1> DEFINE ls == <<Header>> \o Snapshot(s, Q)
<1> HIDE DEF ls
<1>3. op' = [Idle EXCEPT !.kind = "restore", !.path = p, !.next = ls, !.acks = acks]
  BY <1>2 DEF ls
<1>4. op'.left = <<>> /\ op'.next = ls
  BY <1>3 DEF Idle
<1> DEFINE x == <<Header>>
<1>5. PICK t \in Seq(SaveLine) :
        Snapshot(s, Q) = t \o IF Q = {} THEN <<>> ELSE Enqueues(Q)
  BY <1>1, BundleParts
<1> DEFINE q == IF Q = {} THEN <<>> ELSE Enqueues(Q)
<1>6. q \in Seq(Entry)
  <2>1. OfKinds(Enqueues(Q), QueueKinds)
    BY EnqueuesFollow
  <2> QED  BY <2>1, QueueEntries
<1>7. t \in Seq(Entry) /\ Header \in Entry
  BY SaveEntry, SaveLines DEF SaveLine
<1>8. x \in Seq(Entry)
  BY <1>7
<1> HIDE DEF q, x
<1>9. Snapshot(s, Q) \in Seq(Entry)
  BY <1>5, <1>6, <1>7 DEF q
<1>10. x \o Snapshot(s, Q) \in Seq(Entry)
  BY <1>8, <1>9
<1>11. ls \in Seq(Entry)
  BY <1>10 DEF ls, x
<1>12. Whole(op')
  BY <1>4, <1>11 DEF Whole
<1>13. op = Idle /\ UNCHANGED <<files, failed>>
  BY DEF RestoreBundle, told
<1> QED  BY <1>12, <1>13, StartEntire

LEMMA WriteLineEntire ==
  ASSUME Typed, AtHome, Entire, WriteLine
  PROVE  Entire'
<1> DEFINE e == Head(op.left)
           f == Written(Home, e)
           t == Tail(op.left)
           o == op'
<1>1. op.left # <<>> /\ op.path = DefaultDir /\ op.left \in Seq(Entry)
  BY DEF WriteLine, AtHome, Entire, Whole
<1>2. e \in Entry /\ t \in Seq(Entry)
  <2> DEFINE s == op.left
  <2> HIDE DEF s
  <2>1. s \in Seq(Entry) /\ s # <<>>
    BY <1>1 DEF s
  <2>2. Head(s) \in Entry /\ Tail(s) \in Seq(Entry)
    BY <2>1
  <2> QED  BY <2>2 DEF s
<1>3. /\ files' = [files EXCEPT ![DefaultDir] = f]
      /\ op' = [op EXCEPT !.left = t]
      /\ UNCHANGED failed
  BY <1>1 DEF WriteLine, Home
<1>4. op.kind \in {"save", "queue"} /\ IsOp(op)
  BY <1>1 DEF Typed, IsOp
<1>5. o.kind \in {"save", "queue"} /\ o.left = t
  <2> HIDE DEF t
  <2> QED  BY <1>3, <1>4 DEF IsOp
<1>6. Home' = f
  BY <1>3, DirAssumption DEF Home, Typed
<1> HIDE DEF o, t
<1>7. Whole(o)
  BY <1>2, <1>5 DEF Whole
<1>8. ASSUME ~failed PROVE Clear(f.lines)
  <2>1. Clear(Home.lines) /\ FileOK(Home)
    BY <1>4, <1>8, HomeTyped DEF Entire
  <2> HIDE DEF e
  <2> QED  BY <1>2, <2>1, ClearWritten
<1> HIDE DEF f
<1> QED  BY <1>3, <1>6, <1>7, <1>8 DEF Entire, o

LEMMA FinishEntire ==
  ASSUME Typed, AtHome, Entire, Finish
  PROVE  Entire'
<1> DEFINE g == Synced(Home)
<1>1. op.path = DefaultDir /\ op.kind # "down"
  BY DEF Finish, AtHome
<1>2. files' = [files EXCEPT ![DefaultDir] = g] /\ op' = Idle /\ UNCHANGED failed
  BY <1>1 DEF Finish, Home
<1>3. g.lines = Home.lines
  BY HomeTyped, SyncedOK
<1> HIDE DEF g
<1>4. Home' = g
  BY <1>2, DirAssumption DEF Home, Typed
<1> QED  BY <1>1, <1>2, <1>3, <1>4, IdleWhole DEF Entire

LEMMA ClearNoFile == Clear(NoFile.lines)
BY DEF Clear, NoFile

LEMMA RemoveFileEntire ==
  ASSUME Typed, AtHome, RemoveFile
  PROVE  Entire'
<1>1. op.path = DefaultDir
  BY DEF AtHome
<1>2. files' = [files EXCEPT ![DefaultDir] = NoFile] /\ op' = Idle
  BY <1>1 DEF RemoveFile
<1>3. Home' = NoFile
  BY <1>2, DirAssumption DEF Home, Typed
<1> QED  BY <1>2, <1>3, ClearNoFile, IdleWhole DEF Entire

LEMMA FailEntire ==
  ASSUME Fail
  PROVE  Entire'
BY IdleWhole DEF Fail, Entire

LEMMA PublishEntire ==
  ASSUME Typed, AtHome, Entire, Publish
  PROVE  Entire'
<1> DEFINE ls == op.next
           n == IF syncing THEN Len(ls) ELSE 0
           h == [NewFile EXCEPT !.lines = ls, !.synced = n]
<1>1. op.path = DefaultDir /\ ls \in Seq(Entry)
  BY DEF Publish, AtHome, Entire, Whole
<1>2. files' = [files EXCEPT ![DefaultDir] = h] /\ op' = Idle
  BY <1>1 DEF Publish
<1> HIDE DEF ls, n
<1>3. h.lines = ls
  BY DEF NewFile, NoFile
<1> HIDE DEF h
<1>4. Home' = h
  BY <1>2, DirAssumption DEF Home, Typed
<1>5. Clear(ls)
  BY <1>1, ClearEntries
<1> QED  BY <1>2, <1>3, <1>4, <1>5, IdleWhole DEF Entire

LEMMA RestartEntire ==
  ASSUME Typed, Restart
  PROVE  Entire'
<1> DEFINE g == files'[DefaultDir]
<1>1. CASE op' = Down
  <2>1. Down.kind = "down"
    BY DEF Down, Idle
  <2> QED  BY <1>1, <2>1, IdleWhole DEF Entire
<1>2. CASE op' = Idle /\ \A p \in Dir : files'[p].exists => ~Unreadable(files'[p])
  <2>1. Shortened(files[DefaultDir], g) /\ (g.exists => ~Unreadable(g))
    BY <1>2, RestartFinds, DirAssumption
  <2>2. Home' = g
    BY DEF Home
  <2> HIDE DEF g
  <2>3. FileOK(g)
    BY <2>1 DEF Shortened
  <2>4. ~g.exists => g = NoFile
    BY <2>3, Missing
  <2>5. Clear(g.lines)
    BY <2>1, <2>4, ClearReadable, ClearNoFile
  <2> QED  BY <1>2, <2>2, <2>5, IdleWhole DEF Entire
<1> QED  BY <1>1, <1>2, RestartFinds DEF RestartReads

LEMMA CallerEntire ==
  ASSUME Entire, NEW c \in Caller, Create(c) \/ Edit(c) \/ LoadPath(c) \/ LoadFile(c)
  PROVE  Entire'
<1>1. UNCHANGED <<files, failed, op>>
  BY DEF Create, Edit, LoadPath, LoadFile, told
<1> QED  BY <1>1, SameEntire

LEMMA StutterEntire ==
  ASSUME Entire, UNCHANGED vars
  PROVE  Entire'
<1>1. UNCHANGED <<files, failed, op>>
  BY DEF vars, told
<1> QED  BY <1>1, SameEntire

LEMMA EntireInit ==
  ASSUME Init
  PROVE  Entire
<1>1. Home = NoFile /\ op = Idle
  BY DirAssumption DEF Init, Home
<1> QED  BY <1>1, ClearNoFile, IdleWhole DEF Entire

LEMMA NextEntire ==
  ASSUME Typed, AtHome, Entire, [Next]_vars
  PROVE  Entire'
BY CallerEntire, RestoreEntire, SavingEntire, QueueEntire, RemovalEntire, PublishEntire,
   WriteLineEntire, FinishEntire, RemoveFileEntire, FailEntire, RestartEntire, StutterEntire
DEF Next

LEMMA SpecEntire ==
  ASSUME OneFile
  PROVE  Spec => []Entire
<1>1. Init => Entire
  BY EntireInit
<1>2. Typed /\ Tracked /\ Entire /\ [Next]_vars => Entire'
  BY NextEntire DEF Tracked
<1>3. Spec => [](Typed /\ Tracked)
  BY SpecTracked
<1> QED  BY <1>1, <1>2, <1>3, PTL DEF Spec

LEMMA TrackedAcked ==
  ASSUME Typed, Tracked, Entire
  PROVE  AckedKept
<1>1. FilePath = DefaultDir /\ files[FilePath] = Home
  BY DEF FilePath, Tracked, AtHome, Home
<1>2. Ids(Nodes(Home)) = EventIds(Home.lines)
  BY HomeTyped, NodesTyped
<1>3. Kept(Home) \subseteq EventIds(Home.lines)
  BY KeptInFile
<1>4. syncing \/ crashes = 0 => acked \subseteq Ids(Nodes(files[FilePath])) \cup Lost
  BY <1>1, <1>2, <1>3 DEF Tracked, Acks, Safe
<1>5. op.kind # "down" /\ ~failed => ~Unreadable(files[FilePath])
  BY <1>1, ClearReadable DEF Entire
<1> QED  BY <1>4, <1>5 DEF AckedKept

\* An event that a caller was told is stored stays in the file: no save, rewrite,
\* restore or cleanup loses it, and in mode OnWrite no crash does, unless the line
\* was spoiled by a cut one before it; and the file can be read, and the event
\* with it, as long as the store is up and no operation failed in it.
THEOREM JsonlAckedKept ==
  ASSUME OneFile
  PROVE  Spec => []AckedKept
<1>1. Typed /\ Tracked /\ Entire => AckedKept
  BY TrackedAcked
<1> QED  BY <1>1, SpecTracked, SpecEntire, PTL
=============================================================================
