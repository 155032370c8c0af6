------------------------- MODULE SessionTurns_proofs -------------------------
(***************************************************************************)
(* For any number of callers, any limits and timeouts in any place: one    *)
(* turn at a time on a session, and no input lost or doubled.  OneTurn     *)
(* speaks of the flag and of the guards; it is inductive only together     *)
(* with what the semaphore's line is: the callers that wait or hold a      *)
(* guard, each once, and whoever holds a guard at its head.  InputsKept    *)
(* counts; what is inductive is where an input may be (Apart, Kept).       *)
(***************************************************************************)
EXTENDS SessionTurns, SequenceTheorems, FiniteSetTheorems, TLAPS

ControlOK ==
    /\ executing \in BOOLEAN
    /\ line \in Seq(Caller)
    /\ pc \in [Caller -> PC]
    /\ \A c \in Streams : pc[c] \in {"idle", "enqueue", "announce", "submit", "run", "done"}

\* The callers that wait for the permit or hold a guard.
InLine == {c \in Caller : pc[c] = "line" \/ (c \notin Streams /\ pc[c] \in Guarded)}

LineOK ==
    /\ \A i, j \in 1 .. Len(line) : line[i] = line[j] => i = j
    /\ \A i \in 1 .. Len(line) : line[i] \in InLine
    /\ \A c \in InLine : \E i \in 1 .. Len(line) : line[i] = c
    /\ \A c \in Caller \ Streams : pc[c] \in Guarded => line[1] = c

FlagOK == executing <=> \E c \in Caller \ Streams : pc[c] \in Turn

IInv == ControlOK /\ LineOK /\ FlagOK

-----------------------------------------------------------------------------
(* Sequences *)

\* What is left of a sequence without its i-th element.
LEMMA RemoveAtElements ==
  ASSUME NEW S, NEW s \in Seq(S), NEW i \in 1 .. Len(s)
  PROVE  /\ RemoveAt(s, i) \in Seq(S)
         /\ Len(RemoveAt(s, i)) = Len(s) - 1
         /\ \A j \in 1 .. Len(s) - 1 :
               RemoveAt(s, i)[j] = IF j < i THEN s[j] ELSE s[j + 1]
<1> DEFINE a == SubSeq(s, 1, i - 1)
           b == SubSeq(s, i + 1, Len(s))
<1>1. a \in Seq(S) /\ Len(a) = i - 1 /\ \A j \in 1 .. i - 1 : a[j] = s[j]
  OBVIOUS
<1>2. b \in Seq(S) /\ Len(b) = Len(s) - i /\ \A j \in 1 .. Len(s) - i : b[j] = s[i + j]
  OBVIOUS
<1> HIDE DEF a, b
<1>3. /\ a \o b \in Seq(S)
      /\ Len(a \o b) = Len(s) - 1
      /\ \A j \in 1 .. Len(s) - 1 : (a \o b)[j] = IF j < i THEN s[j] ELSE s[j + 1]
  <2>1. a \o b \in Seq(S) /\ Len(a \o b) = Len(s) - 1
    <3>1. a \o b \in Seq(S) /\ Len(a \o b) = Len(a) + Len(b)
      BY <1>1, <1>2, ConcatProperties
    <3>2. QED
      BY <1>1, <1>2, <3>1
  <2>2. ASSUME NEW j \in 1 .. Len(s) - 1
        PROVE  (a \o b)[j] = IF j < i THEN s[j] ELSE s[j + 1]
    <3>1. CASE j < i
      BY <1>1, <1>2, <3>1
    <3>2. CASE ~(j < i)
      <4>1. (a \o b)[j] = b[j - Len(a)]
        BY <1>1, <1>2, <3>2
      <4>2. j - Len(a) \in 1 .. Len(s) - i /\ i + (j - Len(a)) = j + 1
        BY <1>1, <3>2
      <4>3. QED
        BY <1>2, <3>2, <4>1, <4>2
    <3>3. QED
      BY <3>1, <3>2
  <2>3. QED
    BY <2>1, <2>2
<1>4. QED
  BY <1>3 DEF RemoveAt, a, b

-----------------------------------------------------------------------------
(* Steps that leave the semaphore, the guards and the flag alone *)

SameKind(c) == /\ (pc'[c] \in Guarded) <=> (pc[c] \in Guarded)
               /\ (pc'[c] \in Turn) <=> (pc[c] \in Turn)

\* Callers outside move about outside, and a guarded turn stays guarded.
Elsewhere ==
    /\ UNCHANGED <<executing, line>>
    /\ pc' \in [Caller -> PC]
    /\ \A c \in Streams :
          pc'[c] \in {"idle", "enqueue", "announce", "submit", "run", "done"}
    /\ InLine' = InLine
    /\ \A c \in Caller \ Streams : SameKind(c)

LEMMA ElsewhereKeeps == IInv /\ Elsewhere => IInv'
<1> SUFFICES ASSUME IInv, Elsewhere PROVE IInv'
  OBVIOUS
<1> USE DEF IInv, Elsewhere, SameKind
<1>1. ControlOK'
  BY DEF ControlOK
<1>2. LineOK'
  BY DEF LineOK, ControlOK
<1>3. FlagOK'
  BY DEF FlagOK
<1>4. QED
  BY <1>1, <1>2, <1>3

\* A step of one caller from one place to another of the same kind.
LEMMA MoveElsewhere ==
  ASSUME IInv, NEW c \in Caller, NEW l \in PC,
         Goto(c, l), UNCHANGED <<executing, line>>,
         c \in Streams => l \in {"idle", "enqueue", "announce", "submit", "run", "done"},
         c \notin Streams => /\ (pc[c] = "line") <=> (l = "line")
                             /\ pc[c] \in Guarded <=> l \in Guarded
                             /\ pc[c] \in Turn <=> l \in Turn
  PROVE  IInv'
<1>1. Elsewhere
  BY DEF IInv, ControlOK, Elsewhere, Goto, InLine, SameKind
<1>2. QED
  BY <1>1, ElsewhereKeeps

\* A notification moves parked callers, who are outside, as well.
LEMMA NotifiedElsewhere ==
  ASSUME IInv, NEW c \in Caller, NEW l \in PC,
         Notified(c, l), UNCHANGED <<executing, line>>,
         c \in Streams => l \in {"idle", "enqueue", "announce", "submit", "run", "done"},
         c \notin Streams => /\ (pc[c] = "line") <=> (l = "line")
                             /\ pc[c] \in Guarded <=> l \in Guarded
                             /\ pc[c] \in Turn <=> l \in Turn
  PROVE  IInv'
<1> USE DEF IInv, ControlOK, Notified
<1>1. pc' \in [Caller -> PC]
  BY DEF PC
<1>2. \A d \in Caller : pc'[d] = IF d = c THEN l
                                ELSE IF pc[d] = "parked" THEN "woken" ELSE pc[d]
  OBVIOUS
<1>3. \A d \in Streams :
         pc'[d] \in {"idle", "enqueue", "announce", "submit", "run", "done"}
  <2> SUFFICES ASSUME NEW d \in Streams
               PROVE  pc'[d] \in {"idle", "enqueue", "announce", "submit", "run", "done"}
    OBVIOUS
  <2>1. d \in Caller /\ pc[d] # "parked"
    BY TurnsAssumption
  <2>2. CASE d = c
    BY <1>2, <2>2
  <2>3. CASE d # c
    BY <1>2, <2>1, <2>3
  <2>4. QED
    BY <2>2, <2>3
<1>4. ASSUME NEW d \in Caller \ Streams
      PROVE  SameKind(d) /\ (pc'[d] = "line" <=> pc[d] = "line")
  <2>1. CASE d = c
    BY <1>2, <2>1 DEF SameKind
  <2>2. CASE d # c
    BY <1>2, <2>2 DEF SameKind, Guarded, Turn
  <2>3. QED
    BY <2>1, <2>2
<1>5. InLine' = InLine
  BY <1>4 DEF InLine, SameKind
<1>6. QED
  BY <1>1, <1>3, <1>4, <1>5, ElsewhereKeeps DEF Elsewhere

-----------------------------------------------------------------------------
(* Steps that do touch them *)

LEMMA JoinKeeps ==
  ASSUME IInv, NEW c \in Caller, Join(c)
  PROVE  IInv'
<1> USE DEF Join, Goto
<1>1. c \notin Streams /\ c \notin InLine
  BY DEF IInv, ControlOK, InLine, Guarded, Turn
<1>2. /\ line' \in Seq(Caller) /\ Len(line') = Len(line) + 1
      /\ line'[Len(line) + 1] = c
      /\ \A i \in 1 .. Len(line) : line'[i] = line[i]
  BY DEF IInv, ControlOK
<1>3. /\ InLine' = InLine \cup {c}
      /\ \A d \in Caller \ Streams : SameKind(d)
  BY <1>1 DEF IInv, ControlOK, InLine, SameKind, Guarded, Turn
<1>4. ControlOK'
  BY <1>1, <1>2 DEF IInv, ControlOK, PC
<1>5. LineOK'
  <2>1. \A i \in 1 .. Len(line) : line[i] # c /\ line[i] \in Caller
    BY <1>1 DEF IInv, LineOK, ControlOK
  <2>2. Len(line) \in Nat
    BY DEF IInv, ControlOK
  <2>3. \A i, j \in 1 .. Len(line') : line'[i] = line'[j] => i = j
    BY <1>2, <2>1, <2>2 DEF IInv, LineOK
  <2>4. \A i \in 1 .. Len(line') : line'[i] \in InLine'
    <3> SUFFICES ASSUME NEW i \in 1 .. Len(line') PROVE line'[i] \in InLine'
      OBVIOUS
    <3>1. i = Len(line) + 1 \/ i \in 1 .. Len(line)
      BY <1>2, <2>2
    <3>2. QED
      BY <1>2, <1>3, <3>1 DEF IInv, LineOK
  <2>5. \A d \in InLine' : \E i \in 1 .. Len(line') : line'[i] = d
    BY <1>2, <1>3, <2>2 DEF IInv, LineOK
  <2>6. \A d \in Caller \ Streams : pc'[d] \in Guarded => line'[1] = d
    <3> SUFFICES ASSUME NEW d \in Caller \ Streams, pc[d] \in Guarded
                 PROVE  line'[1] = d
      BY <1>3 DEF SameKind
    <3>1. line[1] = d /\ \E i \in 1 .. Len(line) : line[i] = d
      BY DEF IInv, LineOK, InLine
    <3>2. QED
      BY <1>2, <2>2, <3>1
  <2>7. QED
    BY <2>3, <2>4, <2>5, <2>6 DEF LineOK
<1>6. FlagOK'
  BY <1>3 DEF IInv, FlagOK, SameKind
<1>7. QED
  BY <1>4, <1>5, <1>6 DEF IInv

\* The permit goes to the head of the line, which nobody guarded can be.
LEMMA EnterKeeps ==
  ASSUME IInv, NEW c \in Caller, Enter(c)
  PROVE  IInv'
<1> USE DEF Enter, Goto
<1>1. c \notin Streams /\ c \in InLine
  BY DEF IInv, ControlOK, InLine
<1>2. Len(line) > 0 /\ line[1] = c
  BY <1>1 DEF IInv, ControlOK, LineOK
<1>3. \A d \in Caller \ Streams : pc[d] \notin Guarded
  BY <1>2 DEF IInv, LineOK, Guarded, Turn
<1>4. pc' \in [Caller -> PC] /\ pc'[c] = "prepare"
      /\ \A d \in Caller \ {c} : pc'[d] = pc[d]
  BY DEF IInv, ControlOK, PC, Guarded, Turn
<1>5. InLine' = InLine
  BY <1>1, <1>4 DEF InLine, Guarded, Turn
<1>6. ControlOK'
  BY <1>1, <1>4 DEF IInv, ControlOK
<1>7. LineOK'
  BY <1>2, <1>3, <1>4, <1>5 DEF IInv, LineOK
<1>8. FlagOK'
  BY <1>1, <1>4 DEF FlagOK, Turn
<1>9. QED
  BY <1>6, <1>7, <1>8 DEF IInv

\* Only one caller is guarded, so the flag may fall when it drops the guard.
LEMMA OneGuard ==
  ASSUME IInv, NEW c \in Caller \ Streams, NEW d \in Caller \ Streams,
         pc[c] \in Guarded, pc[d] \in Guarded
  PROVE  c = d
  BY DEF IInv, LineOK

LEMMA UnsetKeeps ==
  ASSUME IInv, NEW c \in Caller, Unset(c)
  PROVE  IInv'
<1> USE DEF Unset, Goto
<1>1. c \notin Streams /\ pc[c] \in Guarded
  BY DEF IInv, ControlOK, Guarded, Turn
<1>2. pc' \in [Caller -> PC] /\ pc'[c] = "wake"
      /\ \A d \in Caller \ {c} : pc'[d] = pc[d]
  BY DEF IInv, ControlOK, PC, Guarded, Turn
<1>3. \A d \in Caller \ Streams : pc'[d] \notin Turn
  <2> SUFFICES ASSUME NEW d \in Caller \ Streams, pc'[d] \in Turn PROVE FALSE
    OBVIOUS
  <2>1. d # c /\ pc[d] \in Guarded
    BY <1>2 DEF Guarded, Turn
  <2>2. QED
    BY <1>1, <2>1, OneGuard
<1>4. InLine' = InLine /\ \A d \in Caller : pc'[d] \in Guarded <=> pc[d] \in Guarded
  BY <1>1, <1>2 DEF InLine, Guarded, Turn
<1>5. ControlOK'
  BY <1>1, <1>2, TurnsAssumption DEF IInv, ControlOK
<1>6. LineOK'
  BY <1>4 DEF IInv, LineOK
<1>7. FlagOK'
  BY <1>3 DEF FlagOK
<1>8. QED
  BY <1>5, <1>6, <1>7 DEF IInv

\* Whoever leaves the line leaves nobody else out of it.
LEMMA LeaveKeeps ==
  ASSUME IInv, NEW c \in Caller \ Streams, c \in InLine, pc[c] \notin Turn,
         NEW k \in 1 .. Len(line), line[k] = c, line' = RemoveAt(line, k),
         Goto(c, "done"), UNCHANGED executing
  PROVE  IInv'
<1> USE DEF Goto
<1>1. /\ line' \in Seq(Caller) /\ Len(line') = Len(line) - 1
      /\ \A j \in 1 .. Len(line) - 1 :
            line'[j] = IF j < k THEN line[j] ELSE line[j + 1]
  BY RemoveAtElements DEF IInv, ControlOK
<1>2. Len(line) \in Nat /\ k \in Nat
  BY DEF IInv, ControlOK
<1>3. /\ pc' \in [Caller -> PC] /\ pc'[c] = "done"
      /\ \A d \in Caller \ {c} : pc'[d] = pc[d]
  BY DEF IInv, ControlOK, PC
<1>4. InLine' = InLine \ {c}
  BY <1>3 DEF InLine, Guarded, Turn
<1>5. ControlOK'
  BY <1>1, <1>3 DEF IInv, ControlOK
<1>6. LineOK'
  <2>1. \A i, j \in 1 .. Len(line') : line'[i] = line'[j] => i = j
    <3> SUFFICES ASSUME NEW i \in 1 .. Len(line'), NEW j \in 1 .. Len(line'),
                        line'[i] = line'[j]
                 PROVE  i = j
      OBVIOUS
    <3> DEFINE a == IF i < k THEN i ELSE i + 1
               b == IF j < k THEN j ELSE j + 1
    <3>1. /\ a \in 1 .. Len(line) /\ b \in 1 .. Len(line)
          /\ line'[i] = line[a] /\ line'[j] = line[b]
      BY <1>1, <1>2
    <3>2. a = b
      BY <3>1 DEF IInv, LineOK
    <3>3. QED
      BY <1>1, <1>2, <3>2
  <2>2. \A i \in 1 .. Len(line') : line'[i] \in InLine'
    <3> SUFFICES ASSUME NEW i \in 1 .. Len(line') PROVE line'[i] \in InLine'
      OBVIOUS
    <3> DEFINE a == IF i < k THEN i ELSE i + 1
    <3>1. a \in 1 .. Len(line) /\ a # k /\ line'[i] = line[a]
      BY <1>1, <1>2
    <3>2. line[a] \in InLine /\ line[a] # c
      BY <3>1 DEF IInv, LineOK
    <3>3. QED
      BY <1>4, <3>1, <3>2
  <2>3. \A d \in InLine' : \E i \in 1 .. Len(line') : line'[i] = d
    <3> SUFFICES ASSUME NEW d \in InLine, d # c
                 PROVE  \E i \in 1 .. Len(line') : line'[i] = d
      BY <1>4
    <3>1. PICK a \in 1 .. Len(line) : line[a] = d
      BY DEF IInv, LineOK, InLine
    <3> DEFINE i == IF a < k THEN a ELSE a - 1
    <3>2. i \in 1 .. Len(line') /\ line'[i] = line[a]
      BY <1>1, <1>2, <3>1
    <3>3. QED
      BY <3>1, <3>2
  <2>4. \A d \in Caller \ Streams : pc'[d] \in Guarded => line'[1] = d
    <3> SUFFICES ASSUME NEW d \in Caller \ Streams, pc'[d] \in Guarded
                 PROVE  line'[1] = d
      OBVIOUS
    <3>1. d # c /\ pc[d] \in Guarded
      BY <1>3 DEF Guarded, Turn
    <3>2. line[1] = d /\ \E i \in 1 .. Len(line) : line[i] = d
      BY <3>1 DEF IInv, LineOK, InLine
    <3>3. k # 1 /\ 1 < k
      BY <1>2, <3>1, <3>2
    <3>4. QED
      BY <1>1, <1>2, <3>2, <3>3
  <2>5. QED
    BY <2>1, <2>2, <2>3, <2>4 DEF LineOK
<1>7. \A d \in Caller \ Streams : pc'[d] \in Turn <=> pc[d] \in Turn
  BY <1>3 DEF Turn
<1>8. FlagOK'
  BY <1>7 DEF IInv, FlagOK
<1>9. QED
  BY <1>5, <1>6, <1>8 DEF IInv

\* The permit is given back by the head of the line.
LEMMA ReleaseKeeps ==
  ASSUME IInv, NEW c \in Caller, Release(c)
  PROVE  IInv'
<1>1. c \notin Streams /\ pc[c] = "release" /\ c \in InLine
  BY DEF Release, IInv, ControlOK, InLine, Guarded, Turn
<1>2. line \in Seq(Caller) /\ 1 \in 1 .. Len(line) /\ line[1] = c
  BY <1>1 DEF IInv, ControlOK, LineOK, Guarded
<1>3. Tail(line) = RemoveAt(line, 1)
  <2>1. SubSeq(line, 1, 0) = << >> /\ SubSeq(line, 2, Len(line)) = Tail(line)
    BY <1>2
  <2>2. Tail(line) \in Seq(Caller) /\ << >> \o Tail(line) = Tail(line)
    BY <1>2
  <2>3. QED
    BY <2>1, <2>2 DEF RemoveAt
<1>4. QED
  BY <1>1, <1>2, <1>3, LeaveKeeps DEF Release, Turn

\* A timeout in line leaves the line, one under the guard drops it, any other
\* happens outside.
LEMMA TimeoutKeeps ==
  ASSUME IInv, NEW c \in Caller, Timeout(c)
  PROVE  IInv'
<1> USE DEF Timeout
<1>1. CASE pc[c] = "line"
  <2>1. c \notin Streams /\ c \in InLine
    BY <1>1 DEF IInv, ControlOK, InLine
  <2>2. \E i \in DOMAIN line : line[i] = c
    BY <2>1 DEF IInv, ControlOK, LineOK
  <2> DEFINE k == CHOOSE i \in DOMAIN line : line[i] = c
  <2>3. k \in 1 .. Len(line) /\ line[k] = c
    BY <2>2 DEF IInv, ControlOK
  <2>4. line' = RemoveAt(line, k) /\ Goto(c, "done") /\ UNCHANGED executing
    BY <1>1 DEF OutOfLine, Turn
  <2> HIDE DEF k
  <2>5. QED
    BY <1>1, <2>1, <2>3, <2>4, LeaveKeeps DEF Turn
<1>2. CASE pc[c] \in Turn
  <2>1. Goto(c, AfterTurn(c)) /\ UNCHANGED <<executing, line>>
    BY <1>2 DEF OutOfLine, Turn
  <2>2. QED
    BY <1>2, <2>1, MoveElsewhere DEF AfterTurn, PC, Guarded, Turn
<1>3. CASE pc[c] \in {"parked", "merge"}
  <2>1. Goto(c, "done") /\ UNCHANGED <<executing, line>> /\ c \notin Streams
    BY <1>3 DEF OutOfLine, Turn, IInv, ControlOK
  <2>2. QED
    BY <1>3, <2>1, MoveElsewhere DEF PC, Guarded, Turn
<1>4. QED
  BY <1>1, <1>2, <1>3 DEF Turn

LEMMA StepKeeps ==
  ASSUME IInv, NEW c \in Caller, Step(c)
  PROVE  IInv'
<1>1. CASE Call(c)
  <2>1. PICK l \in {"enqueue", "submit", "acquire"} :
          Goto(c, l) /\ (c \in Streams => l # "acquire")
                    /\ (c \notin Streams => l # "submit")
    BY <1>1 DEF Call
  <2>2. pc[c] = "idle" /\ UNCHANGED <<executing, line>>
    BY <1>1 DEF Call
  <2>3. QED
    BY <2>1, <2>2, MoveElsewhere DEF PC, Guarded, Turn
<1>2. CASE Enqueue(c)
  <2>1. PICK l \in {"done", "announce"} : Goto(c, l)
    BY <1>2 DEF Enqueue
  <2>2. pc[c] = "enqueue" /\ UNCHANGED <<executing, line>>
    BY <1>2 DEF Enqueue
  <2>3. QED
    BY <2>1, <2>2, MoveElsewhere DEF PC, Guarded, Turn
<1>3. CASE Announce(c)
  <2>1. PICK l \in {"submit", "park"} :
          Notified(c, l) /\ (c \in Streams <=> l = "submit")
    BY <1>3 DEF Announce
  <2>2. pc[c] = "announce" /\ UNCHANGED <<executing, line>>
    BY <1>3 DEF Announce
  <2>3. QED
    BY <2>1, <2>2, NotifiedElsewhere DEF PC, Guarded, Turn
<1>4. CASE Park(c) \/ Recheck(c) \/ MergeQueued(c)
  <2>1. PICK l \in {"parked", "park", "merge", "acquire"} : Goto(c, l)
    BY <1>4 DEF Park, Recheck, MergeQueued
  <2>2. pc[c] \in {"park", "woken", "merge"} /\ UNCHANGED <<executing, line>>
    BY <1>4 DEF Park, Recheck, MergeQueued
  <2>3. c \notin Streams
    BY <2>2 DEF IInv, ControlOK
  <2>4. QED
    BY <2>1, <2>2, <2>3, MoveElsewhere DEF PC, Guarded, Turn
<1>5. CASE Prepare(c)
  <2>1. c \notin Streams
    BY <1>5 DEF Prepare, IInv, ControlOK
  <2>2. QED
    BY <1>5, <2>1, MoveElsewhere DEF Prepare, PC, Guarded, Turn
<1>6. CASE Submit(c) \/ Run(c)
  <2>1. PICK l \in {"run", AfterTurn(c)} : Goto(c, l)
    BY <1>6 DEF Submit, Run
  <2>2. pc[c] \in {"submit", "run"} /\ UNCHANGED <<executing, line>>
    BY <1>6 DEF Submit, Run
  <2>3. QED
    BY <2>1, <2>2, MoveElsewhere DEF AfterTurn, PC, Guarded, Turn
<1>7. CASE Wake(c)
  <2>1. c \notin Streams
    BY <1>7 DEF Wake, IInv, ControlOK
  <2>2. QED
    BY <1>7, <2>1, NotifiedElsewhere DEF Wake, PC, Guarded, Turn
<1>8. QED
  BY <1>1, <1>2, <1>3, <1>4, <1>5, <1>6, <1>7, JoinKeeps, EnterKeeps,
     UnsetKeeps, ReleaseKeeps DEF Step

LEMMA NextKeeps == IInv /\ [Next]_vars => IInv'
<1> SUFFICES ASSUME IInv, [Next]_vars PROVE IInv'
  OBVIOUS
<1>1. ASSUME NEW c \in Caller, Step(c) \/ Timeout(c) PROVE IInv'
  BY <1>1, StepKeeps, TimeoutKeeps
<1>2. CASE UNCHANGED <<executing, line, pc>>
  BY <1>2 DEF IInv, ControlOK, LineOK, InLine, FlagOK
<1>3. QED
  BY <1>1, <1>2 DEF Next, CancelPending, vars

LEMMA InitHolds == Init => IInv
<1> SUFFICES ASSUME Init PROVE IInv
  OBVIOUS
<1>1. executing = FALSE /\ line = << >> /\ pc = [c \in Caller |-> "idle"]
  BY DEF Init
<1>2. ControlOK
  <2>1. line \in Seq(Caller)
    BY <1>1
  <2>2. pc \in [Caller -> PC] /\ \A c \in Streams : pc[c] = "idle"
    BY <1>1, TurnsAssumption DEF PC
  <2>3. QED
    BY <1>1, <2>1, <2>2 DEF ControlOK
<1>3. LineOK
  <2>1. InLine = {} /\ \A c \in Caller : pc[c] \notin Guarded
    BY <1>1 DEF InLine, Guarded, Turn
  <2>2. Len(line) = 0
    BY <1>1
  <2>3. QED
    BY <2>1, <2>2 DEF LineOK
<1>4. FlagOK
  BY <1>1 DEF FlagOK, Turn
<1>5. QED
  BY <1>2, <1>3, <1>4 DEF IInv

\* The invariant holds of every behaviour of the session.
THEOREM TurnsInductive == Spec => []IInv
  BY InitHolds, NextKeeps, PTL DEF Spec

\* One turn at a time: the flag other callers read without the semaphore is set
\* exactly while one guard is alive, for any number of callers and timeouts.
THEOREM OneTurnAlways == Spec => []OneTurn
<1>1. IInv => OneTurn
  <2> SUFFICES ASSUME IInv PROVE OneTurn
    OBVIOUS
  <2>1. executing = (\E c \in Caller \ Streams : pc[c] \in Turn)
    BY DEF IInv, FlagOK, ControlOK
  <2>2. \A c, d \in Caller \ Streams :
           pc[c] \in Guarded /\ pc[d] \in Guarded => c = d
    BY OneGuard
  <2>3. QED
    BY <2>1, <2>2 DEF OneTurn
<1>2. QED
  BY <1>1, TurnsInductive, PTL
-----------------------------------------------------------------------------
(* Inputs in a sequence *)

Has(s, c) == \E i \in 1 .. Len(s) : s[i] = c

\* No input of an execute call is in `s` twice; that of a stream may be.
Once(s) == \A i, j \in 1 .. Len(s) : s[i] = s[j] /\ s[i] \notin Streams => i = j

LEMMA HasNone ==
  /\ <<>> \in Seq(Caller) /\ Len(<<>>) = 0 /\ Once(<<>>)
  /\ \A c : ~Has(<<>>, c)
  BY DEF Has, Once

LEMMA HasOne ==
  ASSUME NEW c \in Caller
  PROVE  /\ <<c>> \in Seq(Caller) /\ <<c>> # <<>> /\ Once(<<c>>)
         /\ \A d : Has(<<c>>, d) <=> d = c
<1>1. <<c>> \in Seq(Caller) /\ Len(<<c>>) = 1 /\ <<c>>[1] = c
  OBVIOUS
<1>2. 1 .. 1 = {1}
  OBVIOUS
<1> QED  BY <1>1, <1>2 DEF Has, Once

LEMMA HasAppended ==
  ASSUME NEW s \in Seq(Caller), NEW c \in Caller
  PROVE  /\ Append(s, c) \in Seq(Caller)
         /\ Len(Append(s, c)) = Len(s) + 1
         /\ \A d : Has(Append(s, c), d) <=> Has(s, d) \/ d = c
         /\ Once(s) /\ (c \in Streams \/ ~Has(s, c)) => Once(Append(s, c))
<1> DEFINE t == Append(s, c)
<1>1. /\ t \in Seq(Caller) /\ Len(s) \in Nat /\ Len(t) = Len(s) + 1
      /\ t[Len(s) + 1] = c
      /\ \A i \in 1 .. Len(s) : t[i] = s[i]
  BY AppendProperties
<1> HIDE DEF t
<1>2. \A i \in 1 .. Len(t) : i \in 1 .. Len(s) \/ i = Len(s) + 1
  BY <1>1
<1>3. \A d : Has(t, d) <=> Has(s, d) \/ d = c
  BY <1>1, <1>2 DEF Has
<1>4. ASSUME Once(s), c \in Streams \/ ~Has(s, c) PROVE Once(t)
  BY <1>1, <1>2, <1>4 DEF Has, Once
<1> QED  BY <1>1, <1>3, <1>4 DEF t

LEMMA HasJoined ==
  ASSUME NEW s \in Seq(Caller), NEW t \in Seq(Caller)
  PROVE  /\ s \o t \in Seq(Caller)
         /\ \A d : Has(s \o t, d) <=> Has(s, d) \/ Has(t, d)
         /\ (/\ Once(s) /\ Once(t)
             /\ \A d \in Caller \ Streams : ~(Has(s, d) /\ Has(t, d)))
              => Once(s \o t)
<1> DEFINE u == s \o t
<1>1. /\ u \in Seq(Caller) /\ Len(s) \in Nat /\ Len(t) \in Nat
      /\ Len(u) = Len(s) + Len(t)
      /\ \A i \in 1 .. Len(s) : u[i] = s[i]
      /\ \A i \in 1 .. Len(t) : u[Len(s) + i] = t[i]
  <2>1. /\ u \in Seq(Caller) /\ Len(u) = Len(s) + Len(t)
        /\ \A i \in 1 .. Len(s) + Len(t) :
              u[i] = IF i <= Len(s) THEN s[i] ELSE t[i - Len(s)]
    BY ConcatProperties
  <2>2. Len(s) \in Nat /\ Len(t) \in Nat
    OBVIOUS
  <2> HIDE DEF u
  <2>3. \A i \in 1 .. Len(s) : u[i] = s[i]
    BY <2>1, <2>2
  <2>4. ASSUME NEW i \in 1 .. Len(t) PROVE u[Len(s) + i] = t[i]
    <3>1. /\ Len(s) + i \in 1 .. Len(s) + Len(t) /\ ~(Len(s) + i <= Len(s))
          /\ (Len(s) + i) - Len(s) = i
      BY <2>2
    <3> QED  BY <2>1, <3>1
  <2> QED  BY <2>1, <2>2, <2>3, <2>4
<1> HIDE DEF u
<1>2. \A i \in 1 .. Len(u) :
         i \in 1 .. Len(s) \/ \E j \in 1 .. Len(t) : i = Len(s) + j
  <2> SUFFICES ASSUME NEW i \in 1 .. Len(u), i \notin 1 .. Len(s)
               PROVE  \E j \in 1 .. Len(t) : i = Len(s) + j
    OBVIOUS
  <2>1. i - Len(s) \in 1 .. Len(t) /\ i = Len(s) + (i - Len(s))
    BY <1>1
  <2> QED  BY <2>1
<1>3. \A i \in 1 .. Len(s) : i \in 1 .. Len(u)
  BY <1>1
<1>4. \A i \in 1 .. Len(t) : Len(s) + i \in 1 .. Len(u)
  BY <1>1
<1>5. ASSUME NEW d PROVE Has(u, d) <=> Has(s, d) \/ Has(t, d)
  BY <1>1, <1>2, <1>3, <1>4 DEF Has
<1>6. ASSUME Once(s), Once(t), \A d \in Caller \ Streams : ~(Has(s, d) /\ Has(t, d))
      PROVE  Once(u)
  <2> SUFFICES ASSUME NEW i \in 1 .. Len(u), NEW j \in 1 .. Len(u),
                      u[i] = u[j], u[i] \notin Streams
               PROVE  i = j
    BY DEF Once
  <2>1. u[i] \in Caller \ Streams
    BY <1>1
  <2>2. CASE i \in 1 .. Len(s) /\ j \in 1 .. Len(s)
    BY <1>1, <1>6, <2>2 DEF Once
  <2>3. CASE i \in 1 .. Len(s) /\ j \notin 1 .. Len(s)
    <3>1. PICK b \in 1 .. Len(t) : j = Len(s) + b
      BY <1>2, <2>3
    <3>2. Has(s, u[i]) /\ Has(t, u[i])
      BY <1>1, <2>3, <3>1 DEF Has
    <3> QED  BY <1>6, <2>1, <3>2
  <2>4. CASE i \notin 1 .. Len(s) /\ j \in 1 .. Len(s)
    <3>1. PICK a \in 1 .. Len(t) : i = Len(s) + a
      BY <1>2, <2>4
    <3>2. Has(s, u[i]) /\ Has(t, u[i])
      BY <1>1, <2>4, <3>1 DEF Has
    <3> QED  BY <1>6, <2>1, <3>2
  <2>5. CASE i \notin 1 .. Len(s) /\ j \notin 1 .. Len(s)
    <3>1. PICK a \in 1 .. Len(t), b \in 1 .. Len(t) : i = Len(s) + a /\ j = Len(s) + b
      BY <1>2, <2>5
    <3>2. t[a] = t[b] /\ t[a] \notin Streams
      BY <1>1, <3>1
    <3> QED  BY <1>6, <3>1, <3>2 DEF Once
  <2> QED  BY <2>2, <2>3, <2>4, <2>5
<1> QED  BY <1>1, <1>5, <1>6 DEF u

\* A merge splits the queue.
LEMMA HasSplit ==
  ASSUME queue \in Seq(Caller)
  PROVE  /\ Merged \in Seq(Caller) /\ Rest \in Seq(Caller)
         /\ Len(Rest) <= Len(queue)
         /\ Merged = <<>> <=> queue = <<>>
         /\ \A d : Has(queue, d) <=> Has(Merged, d) \/ Has(Rest, d)
         /\ Once(queue) =>
              /\ Once(Merged) /\ Once(Rest)
              /\ \A d \in Caller \ Streams : ~(Has(Merged, d) /\ Has(Rest, d))
<1> DEFINE n == IF Len(queue) < MaxMerge THEN Len(queue) ELSE MaxMerge
           m == Merged
           r == Rest
<1>1. n \in 0 .. Len(queue) /\ Len(queue) \in Nat /\ n \in Nat
      /\ (n = 0 <=> Len(queue) = 0)
  BY TurnsAssumption
<1>2. m = SubSeq(queue, 1, n)
  BY DEF Merged
<1> HIDE DEF n, m
<1>3. /\ m \in Seq(Caller) /\ Len(m) = n
      /\ \A i \in 1 .. n : m[i] = queue[i]
  BY <1>1, <1>2
<1>4. r = SubSeq(queue, n + 1, Len(queue))
  BY <1>3 DEF Rest, m
<1> HIDE DEF r
<1>5. /\ r \in Seq(Caller) /\ Len(r) = Len(queue) - n
      /\ \A i \in 1 .. Len(queue) - n : r[i] = queue[n + i]
  BY <1>1, <1>4
<1>6. \A i \in 1 .. Len(queue) :
         i \in 1 .. n \/ \E j \in 1 .. Len(r) : i = n + j
  <2> SUFFICES ASSUME NEW i \in 1 .. Len(queue), i \notin 1 .. n
               PROVE  \E j \in 1 .. Len(r) : i = n + j
    OBVIOUS
  <2>1. i - n \in 1 .. Len(r) /\ i = n + (i - n)
    BY <1>1, <1>5
  <2> QED  BY <2>1
<1>7. \A i \in 1 .. n : i \in 1 .. Len(queue)
  BY <1>1
<1>8. \A i \in 1 .. Len(r) : n + i \in 1 .. Len(queue) /\ n + i \notin 1 .. n
  BY <1>1, <1>5
<1>9. ASSUME NEW d PROVE Has(queue, d) <=> Has(m, d) \/ Has(r, d)
  <2>1. ASSUME Has(queue, d) PROVE Has(m, d) \/ Has(r, d)
    <3>1. PICK i \in 1 .. Len(queue) : queue[i] = d
      BY <2>1 DEF Has
    <3>2. CASE i \in 1 .. n
      BY <1>3, <3>1, <3>2 DEF Has
    <3>3. CASE i \notin 1 .. n
      <4>1. PICK j \in 1 .. Len(r) : i = n + j
        BY <1>6, <3>3
      <4> QED  BY <1>5, <3>1, <4>1 DEF Has
    <3> QED  BY <3>2, <3>3
  <2>2. ASSUME Has(m, d) PROVE Has(queue, d)
    BY <1>3, <1>7, <2>2 DEF Has
  <2>3. ASSUME Has(r, d) PROVE Has(queue, d)
    BY <1>5, <1>8, <2>3 DEF Has
  <2> QED  BY <2>1, <2>2, <2>3
<1>10. ASSUME Once(queue)
       PROVE  /\ Once(m) /\ Once(r)
              /\ \A d \in Caller \ Streams : ~(Has(m, d) /\ Has(r, d))
  <2>1. Once(m)
    BY <1>3, <1>7, <1>10 DEF Once
  <2>2. Once(r)
    <3> SUFFICES ASSUME NEW i \in 1 .. Len(r), NEW j \in 1 .. Len(r),
                        r[i] = r[j], r[i] \notin Streams
                 PROVE  i = j
      BY DEF Once
    <3>1. n + i = n + j
      BY <1>5, <1>8, <1>10 DEF Once
    <3> QED  BY <1>1, <3>1
  <2>3. ASSUME NEW d \in Caller \ Streams, Has(m, d), Has(r, d) PROVE FALSE
    BY <1>3, <1>5, <1>7, <1>8, <1>10, <2>3 DEF Has, Once
  <2> QED  BY <2>1, <2>2, <2>3
<1>11. m = <<>> <=> queue = <<>>
  BY <1>1, <1>3
<1>12. Len(r) <= Len(queue)
  BY <1>1, <1>5
<1> QED
  BY <1>3, <1>5, <1>9, <1>10, <1>11, <1>12 DEF m, r

LEMMA HasRemoved ==
  ASSUME NEW s \in Seq(Caller), NEW k \in 1 .. Len(s)
  PROVE  /\ RemoveAt(s, k) \in Seq(Caller)
         /\ Len(RemoveAt(s, k)) <= Len(s)
         /\ \A d : Has(RemoveAt(s, k), d) => Has(s, d)
         /\ \A d : Has(s, d) /\ d # s[k] => Has(RemoveAt(s, k), d)
         /\ Once(s) => Once(RemoveAt(s, k))
<1> DEFINE t == RemoveAt(s, k)
<1>1. /\ t \in Seq(Caller) /\ Len(t) = Len(s) - 1
      /\ \A j \in 1 .. Len(s) - 1 : t[j] = IF j < k THEN s[j] ELSE s[j + 1]
      /\ Len(s) \in Nat /\ k \in Nat
  BY RemoveAtElements
<1> HIDE DEF t
<1>2. \A i \in 1 .. Len(t) : /\ i < k => i \in 1 .. Len(s) /\ t[i] = s[i]
                             /\ ~(i < k) => i + 1 \in 1 .. Len(s) /\ t[i] = s[i + 1]
  BY <1>1
<1>3. ASSUME NEW d, Has(t, d) PROVE Has(s, d)
  BY <1>2, <1>3 DEF Has
<1>4. ASSUME NEW d, Has(s, d), d # s[k] PROVE Has(t, d)
  <2>1. PICK a \in 1 .. Len(s) : s[a] = d
    BY <1>4 DEF Has
  <2> DEFINE i == IF a < k THEN a ELSE a - 1
  <2>2. i \in 1 .. Len(t) /\ t[i] = d
    BY <1>1, <1>4, <2>1
  <2> QED  BY <2>2 DEF Has
<1>5. ASSUME Once(s) PROVE Once(t)
  <2> SUFFICES ASSUME NEW i \in 1 .. Len(t), NEW j \in 1 .. Len(t),
                      t[i] = t[j], t[i] \notin Streams
               PROVE  i = j
    BY DEF Once
  <2> DEFINE a == IF i < k THEN i ELSE i + 1
             b == IF j < k THEN j ELSE j + 1
  <2>1. /\ a \in 1 .. Len(s) /\ b \in 1 .. Len(s)
        /\ s[a] = t[i] /\ s[b] = t[j]
    BY <1>1, <1>2
  <2>2. a = b
    BY <1>5, <2>1 DEF Once
  <2> QED  BY <1>1, <2>2
<1>6. Len(t) <= Len(s)
  BY <1>1
<1> QED  BY <1>1, <1>3, <1>4, <1>5, <1>6 DEF t

-----------------------------------------------------------------------------
(* Where the inputs are *)

Takers == {"acquire", "line", "prepare", "submit"}
Outside == {"idle", "enqueue"}
Over == {"unset", "wake", "release", "done"}

Somewhere(c) ==
    Has(queue, c) \/ Has(session, c) \/ \E d \in Caller : Has(hand[d], c)

\* No two places have the input of one execute call.
Apart ==
    /\ Once(queue) /\ Once(session) /\ \A d \in Caller : Once(hand[d])
    /\ \A c \in Caller \ Streams :
         /\ Has(queue, c) => ~Has(session, c)
         /\ \A d \in Caller : Has(hand[d], c) =>
               /\ ~Has(queue, c) /\ ~Has(session, c)
               /\ \A e \in Caller : Has(hand[e], c) => e = d

\* A caller that has not handed its input over yet still has it, one that did
\* finds it somewhere, or somebody lost it.
Kept ==
    /\ \A c \in Caller \ Streams : pc[c] \in Outside => ~Somewhere(c)
    /\ \A c \in Caller \ Streams : Accepted(c) =>
         \/ Somewhere(c)
         \/ c \in cancelled
         \/ \E d \in Caller : result[d] \in {"timeout", "blocked"}

\* Only who is about to run has inputs in hand, and a result is final.
Ends ==
    \A c \in Caller :
        /\ hand[c] # <<>> => pc[c] \in Takers
        /\ result[c] \in {"timeout", "blocked"} => pc[c] \in Over
        /\ result[c] = "full" => pc[c] = "done"

Inputs == TypeOK /\ Ends /\ Apart /\ Kept

\* The other callers stay as they are, or are woken.
Others(c) ==
    \A d \in Caller \ {c} :
        /\ pc'[d] = pc[d] \/ (pc[d] = "parked" /\ pc'[d] = "woken")
        /\ hand'[d] = hand[d] /\ result'[d] = result[d]

LEMMA GotoOthers ==
  ASSUME pc \in [Caller -> PC], NEW c \in Caller, NEW l,
         Goto(c, l) \/ Notified(c, l)
  PROVE  /\ pc'[c] = l
         /\ pc' = [d \in Caller |-> pc'[d]]
         /\ \A d \in Caller \ {c} :
               pc'[d] = pc[d] \/ (pc[d] = "parked" /\ pc'[d] = "woken")
  BY DEF Goto, Notified

LEMMA LineTyped ==
  ASSUME IInv, NEW c \in Caller, Step(c) \/ Timeout(c)
  PROVE  executing' \in BOOLEAN /\ line' \in Seq(Caller) /\ pc' \in [Caller -> PC]
<1>1. IInv'
  BY StepKeeps, TimeoutKeeps
<1> QED  BY <1>1 DEF IInv, ControlOK

\* Data of the steps: what a caller does to its hand, the queue and the session.
HandTo(c, s) == hand' = [hand EXCEPT ![c] = s]

LEMMA HandTyped ==
  ASSUME hand \in [Caller -> Seq(Caller)], NEW c \in Caller,
         NEW s \in Seq(Caller), HandTo(c, s)
  PROVE  /\ hand' \in [Caller -> Seq(Caller)] /\ hand'[c] = s
         /\ \A d \in Caller \ {c} : hand'[d] = hand[d]
  BY DEF HandTo

Results == {"none", "full", "blocked", "answer", "timeout"}

LEMMA ResultTyped ==
  ASSUME result \in [Caller -> Results], NEW c \in Caller,
         NEW r \in Results, result' = [result EXCEPT ![c] = r]
  PROVE  /\ result' \in [Caller -> Results] /\ result'[c] = r
         /\ \A d \in Caller \ {c} : result'[d] = result[d]
  OBVIOUS

\* A step of a caller that leaves every input where it is.
LEMMA InputsStay ==
  ASSUME Inputs, NEW c \in Caller, Others(c),
         UNCHANGED <<queue, hand, session, cancelled>>, TypeOK',
         pc[c] = "enqueue" => pc'[c] = "enqueue" \/ result'[c] = "full",
         pc[c] = "idle" => pc'[c] = "enqueue",
         pc[c] \notin Outside => pc'[c] \notin Outside /\ result[c] # "full",
         pc[c] \in Takers => pc'[c] \in Takers \/ hand[c] = <<>>,
         result[c] \in {"timeout", "blocked"} => result'[c] = result[c],
         result'[c] \in {"timeout", "blocked"} => pc'[c] \in Over,
         result'[c] = "full" => pc'[c] = "done"
  PROVE  Inputs'
<1>1. Ends'
  BY DEF Inputs, Ends, Others, Takers, Over
<1>2. Apart'
  BY DEF Inputs, Apart
<1>3. \A d \in Caller : Somewhere(d)' <=> Somewhere(d)
  BY DEF Somewhere
<1>4. Kept'
  BY <1>3 DEF Inputs, Kept, Others, Outside, Accepted
<1> QED  BY <1>1, <1>2, <1>4 DEF Inputs

LEMMA MovesQuietly ==
  ASSUME IInv, Inputs, NEW c \in Caller, Step(c), pc[c] # "done",
         NEW l, Goto(c, l) \/ Notified(c, l),
         NEW r \in Results, result' = [result EXCEPT ![c] = r],
         UNCHANGED <<queue, hand, session, cancelled>>,
         pc[c] = "enqueue" => l = "enqueue" \/ r = "full",
         pc[c] = "idle" => l = "enqueue",
         pc[c] \notin Outside => l \notin Outside,
         pc[c] \in Takers => l \in Takers,
         pc[c] \in Over => l \in Over,
         r # result[c] => pc[c] \notin Over /\ r \notin {"timeout", "blocked"},
         r # result[c] /\ r = "full" => l = "done"
  PROVE  Inputs'
<1>1. /\ pc \in [Caller -> PC] /\ result \in [Caller -> Results]
  BY DEF Inputs, TypeOK, Results
<1>2. executing' \in BOOLEAN /\ line' \in Seq(Caller) /\ pc' \in [Caller -> PC]
  BY LineTyped
<1>3. /\ result[c] # "full"
      /\ result[c] \in {"timeout", "blocked"} => pc[c] \in Over
  BY DEF Inputs, Ends
<1>5. /\ pc'[c] = l
      /\ \A d \in Caller \ {c} :
            pc'[d] = pc[d] \/ (pc[d] = "parked" /\ pc'[d] = "woken")
  BY <1>1, GotoOthers
<1>7. /\ result' \in [Caller -> Results] /\ result'[c] = r
      /\ \A d \in Caller \ {c} : result'[d] = result[d]
  BY <1>1, ResultTyped
<1>8. Others(c)
  BY <1>5, <1>7 DEF Others
<1>10. TypeOK'
  BY <1>2, <1>7 DEF Inputs, TypeOK, Results
<1>11. /\ pc[c] = "enqueue" => pc'[c] = "enqueue" \/ result'[c] = "full"
       /\ pc[c] = "idle" => pc'[c] = "enqueue"
       /\ pc[c] \notin Outside => pc'[c] \notin Outside /\ result[c] # "full"
       /\ pc[c] \in Takers => pc'[c] \in Takers \/ hand[c] = <<>>
       /\ result[c] \in {"timeout", "blocked"} => result'[c] = result[c]
       /\ result'[c] \in {"timeout", "blocked"} => pc'[c] \in Over
       /\ result'[c] = "full" => pc'[c] = "done"
  BY <1>3, <1>5, <1>7
<1> QED
  BY <1>8, <1>10, <1>11, InputsStay

\* The result of a caller that goes on stays what it is.
LEMMA SameResult ==
  ASSUME Inputs, NEW c \in Caller, result' = result
  PROVE  result[c] \in Results /\ result' = [result EXCEPT ![c] = result[c]]
  BY DEF Inputs, TypeOK, Results

LEMMA QuietKeeps ==
  ASSUME IInv, Inputs, NEW c \in Caller,
         \/ Park(c) \/ Recheck(c) \/ Join(c) \/ Enter(c) \/ Run(c)
         \/ Unset(c) \/ Wake(c) \/ Release(c)
  PROVE  Inputs'
<1> USE DEF Outside, Takers, Over
<1>1. Step(c) /\ UNCHANGED <<queue, hand, session, cancelled>>
  BY DEF Step, Park, Recheck, Join, Enter, Run, Unset, Wake, Release
<1>2. CASE Run(c)
  <2>1. PICK l \in {"unset", "done"} : Goto(c, l)
    BY <1>2 DEF Run, AfterTurn
  <2>2. pc[c] = "run" /\ result' = [result EXCEPT ![c] = "answer"]
        /\ "answer" \in Results
    BY <1>2 DEF Run, Results
  <2> QED  BY <1>1, <2>1, <2>2, MovesQuietly
<1>3. CASE ~Run(c)
  <2>1. result' = result
    BY <1>3 DEF Park, Recheck, Join, Enter, Unset, Wake, Release
  <2>2. PICK l : /\ Goto(c, l) \/ Notified(c, l)
                 /\ \/ pc[c] = "park" /\ l = "parked"
                    \/ pc[c] = "woken" /\ l \in {"park", "merge"}
                    \/ pc[c] = "acquire" /\ l = "line"
                    \/ pc[c] = "line" /\ l = "prepare"
                    \/ pc[c] = "unset" /\ l = "wake"
                    \/ pc[c] = "wake" /\ l = "release"
                    \/ pc[c] = "release" /\ l = "done"
    BY <1>3 DEF Park, Recheck, Join, Enter, Unset, Wake, Release
  <2>3. result[c] \in Results /\ result' = [result EXCEPT ![c] = result[c]]
    BY <2>1, SameResult
  <2> QED  BY <1>1, <2>2, <2>3, MovesQuietly
<1> QED  BY <1>2, <1>3

\* A caller takes its own input in hand, or a stream a second copy of it.
LEMMA TakesOwn ==
  ASSUME IInv, Inputs, NEW c \in Caller, Step(c), NEW l \in Takers,
         Goto(c, l) \/ Notified(c, l), HandTo(c, <<c>>),
         UNCHANGED <<queue, session, result, cancelled>>,
         hand[c] = <<>>,
         c \in Streams \/ pc[c] \in Outside,
         pc[c] \notin Over
  PROVE  Inputs'
<1>1. /\ pc \in [Caller -> PC] /\ hand \in [Caller -> Seq(Caller)]
  BY DEF Inputs, TypeOK
<1>2. executing' \in BOOLEAN /\ line' \in Seq(Caller) /\ pc' \in [Caller -> PC]
  BY LineTyped
<1>3. /\ pc'[c] = l
      /\ \A d \in Caller \ {c} :
            pc'[d] = pc[d] \/ (pc[d] = "parked" /\ pc'[d] = "woken")
  BY <1>1, GotoOthers
<1>4. /\ <<c>> \in Seq(Caller) /\ Once(<<c>>)
      /\ \A d : Has(<<c>>, d) <=> d = c
      /\ \A d : ~Has(<<>>, d)
  BY HasOne, HasNone
<1>5. /\ hand' \in [Caller -> Seq(Caller)] /\ hand'[c] = <<c>>
      /\ \A d \in Caller \ {c} : hand'[d] = hand[d]
  BY <1>1, <1>4, HandTyped
<1>6. TypeOK'
  BY <1>2, <1>5 DEF Inputs, TypeOK
<1>7. Ends'
  BY <1>3, <1>5 DEF Inputs, Ends, Takers, Over
<1>8. c \notin Streams => ~Somewhere(c)
  BY DEF Inputs, Kept
<1>9. Apart'
  <2>1. \A d \in Caller : Once(hand'[d])
    BY <1>4, <1>5 DEF Inputs, Apart
  <2>2. ASSUME NEW e \in Caller \ Streams, NEW d \in Caller
        PROVE  Has(hand'[d], e) <=> IF d = c THEN e = c ELSE Has(hand[d], e)
    BY <1>4, <1>5
  <2>3. ASSUME NEW d \in Caller, c \notin Streams
        PROVE  ~Has(hand[d], c) /\ ~Has(queue, c) /\ ~Has(session, c)
    BY <1>8, <2>3 DEF Somewhere
  <2>4. ASSUME NEW e \in Caller \ Streams, NEW d \in Caller, Has(hand'[d], e)
        PROVE  /\ ~Has(queue, e) /\ ~Has(session, e)
               /\ \A f \in Caller : Has(hand'[f], e) => f = d
    BY <2>2, <2>3, <2>4 DEF Inputs, Apart
  <2> QED  BY <2>1, <2>4 DEF Inputs, Apart
<1>10. ASSUME NEW d \in Caller
       PROVE  Somewhere(d)' <=> Somewhere(d) \/ d = c
  BY <1>4, <1>5 DEF Somewhere
<1>11. Kept'
  BY <1>3, <1>10 DEF Inputs, Kept, Outside, Takers, Accepted
<1> QED  BY <1>6, <1>7, <1>9, <1>11 DEF Inputs

LEMMA CallKeeps ==
  ASSUME IInv, Inputs, NEW c \in Caller, Call(c)
  PROVE  Inputs'
<1>1. pc[c] = "idle" /\ Step(c)
  BY DEF Call, Step
<1>2. CASE executing
  <2>1. Goto(c, "enqueue") /\ UNCHANGED <<queue, hand, session, cancelled, result>>
    BY <1>2 DEF Call
  <2>2. result[c] \in Results /\ result' = [result EXCEPT ![c] = result[c]]
    BY <2>1, SameResult
  <2> QED
    BY <1>1, <2>1, <2>2, MovesQuietly DEF Outside, Takers, Over
<1>3. CASE ~executing
  <2>1. PICK l \in Takers : Goto(c, l)
    BY <1>3 DEF Call, Takers
  <2>2. HandTo(c, <<c>>) /\ UNCHANGED <<queue, session, result, cancelled>>
    BY <1>3 DEF Call, HandTo
  <2>3. hand[c] = <<>>
    BY <1>1 DEF Inputs, Ends, Takers
  <2> QED
    BY <1>1, <2>1, <2>2, <2>3, TakesOwn DEF Outside, Over
<1> QED  BY <1>2, <1>3

LEMMA AnnounceKeeps ==
  ASSUME IInv, Inputs, NEW c \in Caller, Announce(c)
  PROVE  Inputs'
<1>1. pc[c] = "announce" /\ Step(c) /\ UNCHANGED <<queue, session, result, cancelled>>
  BY DEF Announce, Step
<1>2. CASE c \in Streams
  <2>1. Notified(c, "submit") /\ HandTo(c, <<c>>) /\ "submit" \in Takers
    BY <1>2 DEF Announce, HandTo, Takers
  <2>2. hand[c] = <<>>
    BY <1>1 DEF Inputs, Ends, Takers
  <2> QED
    BY <1>1, <1>2, <2>1, <2>2, TakesOwn DEF Over
<1>3. CASE c \notin Streams
  <2>1. Notified(c, "park") /\ UNCHANGED hand
    BY <1>3 DEF Announce
  <2>2. result[c] \in Results /\ result' = [result EXCEPT ![c] = result[c]]
    BY <1>1, SameResult
  <2>3. /\ pc[c] \notin Outside /\ "park" \notin Outside
        /\ pc[c] \notin Takers /\ pc[c] \notin Over
        /\ pc[c] # "done" /\ pc[c] # "enqueue" /\ pc[c] # "idle"
    BY <1>1 DEF Outside, Takers, Over
  <2> QED
    BY <1>1, <2>1, <2>2, <2>3, MovesQuietly
<1> QED  BY <1>2, <1>3

LEMMA EnqueueKeeps ==
  ASSUME IInv, Inputs, NEW c \in Caller, Enqueue(c)
  PROVE  Inputs'
<1>1. pc[c] = "enqueue" /\ Step(c) /\ UNCHANGED <<hand, session, cancelled>>
  BY DEF Enqueue, Step
<1>2. CASE Len(queue) >= MaxQueue
  <2>1. Goto(c, "done") /\ UNCHANGED queue /\ result' = [result EXCEPT ![c] = "full"]
        /\ "full" \in Results
    BY <1>2 DEF Enqueue, Results
  <2> QED
    BY <1>1, <2>1, MovesQuietly DEF Outside, Takers, Over
<1>3. CASE ~(Len(queue) >= MaxQueue)
  <2>1. Goto(c, "announce") /\ queue' = Append(queue, c) /\ UNCHANGED result
    BY <1>3 DEF Enqueue
  <2>2. pc \in [Caller -> PC] /\ queue \in Seq(Caller)
    BY DEF Inputs, TypeOK
  <2>3. executing' \in BOOLEAN /\ line' \in Seq(Caller) /\ pc' \in [Caller -> PC]
    BY <1>1, LineTyped
  <2>4. /\ pc'[c] = "announce"
        /\ \A d \in Caller \ {c} : pc'[d] = pc[d] \/ (pc[d] = "parked" /\ pc'[d] = "woken")
    BY <2>1, <2>2, GotoOthers
  <2>5. c \notin Streams => ~Somewhere(c)
    BY <1>1 DEF Inputs, Kept, Outside
  <2>6. /\ queue' \in Seq(Caller) /\ Len(queue') = Len(queue) + 1
        /\ \A d : Has(queue', d) <=> Has(queue, d) \/ d = c
    BY <2>1, <2>2, HasAppended
  <2>7. Once(queue')
    BY <2>1, <2>2, <2>5, HasAppended DEF Inputs, Apart, Somewhere
  <2>8. Len(queue') <= MaxQueue
    BY <1>3, <2>2, <2>6, TurnsAssumption
  <2>9. TypeOK'
    BY <1>1, <2>1, <2>3, <2>6, <2>8 DEF Inputs, TypeOK
  <2>10. Ends'
    BY <1>1, <2>1, <2>4 DEF Inputs, Ends, Takers, Over
  <2>11. Apart'
    BY <1>1, <2>5, <2>6, <2>7 DEF Inputs, Apart, Somewhere
  <2>12. ASSUME NEW d \in Caller
         PROVE  Somewhere(d)' <=> Somewhere(d) \/ d = c
    BY <1>1, <2>6 DEF Somewhere
  <2>13. Kept'
    BY <1>1, <2>1, <2>4, <2>12 DEF Inputs, Kept, Outside, Accepted
  <2> QED  BY <2>9, <2>10, <2>11, <2>13 DEF Inputs
<1> QED  BY <1>2, <1>3

\* A caller moves what is queued into its hand, as much as fits.
LEMMA TakesQueued ==
  ASSUME IInv, Inputs, NEW c \in Caller, Step(c), NEW l, Goto(c, l),
         HandTo(c, hand[c] \o Merged), queue' = Rest,
         UNCHANGED <<session, result, cancelled>>,
         pc[c] \notin Outside, pc[c] \notin Over, l \notin Outside,
         l \in Takers \/ (hand[c] = <<>> /\ queue = <<>>)
  PROVE  Inputs'
<1>1. /\ pc \in [Caller -> PC] /\ hand \in [Caller -> Seq(Caller)]
      /\ queue \in Seq(Caller) /\ hand[c] \in Seq(Caller)
  BY DEF Inputs, TypeOK
<1>2. executing' \in BOOLEAN /\ line' \in Seq(Caller) /\ pc' \in [Caller -> PC]
  BY LineTyped
<1>3. /\ pc'[c] = l
      /\ \A d \in Caller \ {c} :
            pc'[d] = pc[d] \/ (pc[d] = "parked" /\ pc'[d] = "woken")
  BY <1>1, GotoOthers
<1>4. /\ Merged \in Seq(Caller) /\ Rest \in Seq(Caller)
      /\ Len(Rest) <= Len(queue)
      /\ Merged = <<>> <=> queue = <<>>
      /\ \A d : Has(queue, d) <=> Has(Merged, d) \/ Has(Rest, d)
      /\ Once(Merged) /\ Once(Rest)
      /\ \A d \in Caller \ Streams : ~(Has(Merged, d) /\ Has(Rest, d))
  BY <1>1, HasSplit DEF Inputs, Apart
<1> DEFINE h == hand[c] \o Merged
<1>5. /\ h \in Seq(Caller)
      /\ \A d : Has(h, d) <=> Has(hand[c], d) \/ Has(Merged, d)
      /\ Once(h)
  <2>1. \A d \in Caller \ Streams : ~(Has(hand[c], d) /\ Has(Merged, d))
    BY <1>4 DEF Inputs, Apart
  <2>2. Once(hand[c])
    BY DEF Inputs, Apart
  <2> QED  BY <1>1, <1>4, <2>1, <2>2, HasJoined
<1>6. hand[c] = <<>> /\ queue = <<>> => h = <<>>
  BY <1>4
<1>7. HandTo(c, h)
  OBVIOUS
<1> HIDE DEF h
<1>8. /\ hand' \in [Caller -> Seq(Caller)] /\ hand'[c] = h
      /\ \A d \in Caller \ {c} : hand'[d] = hand[d]
  BY <1>1, <1>5, <1>7, HandTyped
<1>9. Len(queue') <= MaxQueue
  BY <1>1, <1>4, TurnsAssumption DEF Inputs, TypeOK
<1>10. TypeOK'
  BY <1>2, <1>4, <1>8, <1>9 DEF Inputs, TypeOK
<1>11. Ends'
  BY <1>3, <1>6, <1>8 DEF Inputs, Ends, Takers, Over
<1>12. ASSUME NEW e \in Caller \ Streams
       PROVE  /\ Has(queue', e) => Has(queue, e) /\ ~Has(Merged, e)
              /\ Has(hand'[c], e) <=> Has(hand[c], e) \/ Has(Merged, e)
              /\ Has(Merged, e) => Has(queue, e)
              /\ Has(queue, e) => Has(queue', e) \/ Has(Merged, e)
  BY <1>4, <1>5, <1>8
<1>13. Apart'
  <2>1. \A d \in Caller : Once(hand'[d])
    BY <1>5, <1>8 DEF Inputs, Apart
  <2>2. ASSUME NEW e \in Caller \ Streams, NEW d \in Caller, Has(hand'[d], e)
        PROVE  /\ ~Has(queue', e) /\ ~Has(session, e)
               /\ \A f \in Caller : Has(hand'[f], e) => f = d
    <3>1. CASE Has(Merged, e)
      <4>1. d = c
        BY <1>8, <1>12, <2>2, <3>1 DEF Inputs, Apart
      <4> QED
        BY <1>8, <1>12, <3>1, <4>1 DEF Inputs, Apart
    <3>2. CASE ~Has(Merged, e)
      <4>1. \A f \in Caller : Has(hand'[f], e) <=> Has(hand[f], e)
        BY <1>8, <1>12, <3>2
      <4> QED
        BY <1>12, <2>2, <4>1 DEF Inputs, Apart
    <3> QED  BY <3>1, <3>2
  <2>3. \A e \in Caller \ Streams : Has(queue', e) => ~Has(session, e)
    BY <1>12 DEF Inputs, Apart
  <2> QED  BY <1>4, <2>1, <2>2, <2>3 DEF Inputs, Apart
<1>14. ASSUME NEW d \in Caller \ Streams PROVE Somewhere(d)' <=> Somewhere(d)
  BY <1>8, <1>12 DEF Somewhere
<1>15. Kept'
  BY <1>3, <1>14 DEF Inputs, Kept, Outside, Accepted
<1> QED  BY <1>10, <1>11, <1>13, <1>15 DEF Inputs

LEMMA MergeQueuedKeeps ==
  ASSUME IInv, Inputs, NEW c \in Caller, MergeQueued(c)
  PROVE  Inputs'
<1>1. pc[c] = "merge" /\ Step(c) /\ queue' = Rest /\ HandTo(c, Merged)
      /\ UNCHANGED <<session, result, cancelled>>
  BY DEF MergeQueued, Step, HandTo
<1>2. PICK l \in {"park", "acquire"} :
         Goto(c, l) /\ (l = "park" => queue = <<>>)
  BY DEF MergeQueued
<1>3. hand[c] = <<>>
  BY <1>1 DEF Inputs, Ends, Takers
<1>4. HandTo(c, hand[c] \o Merged)
  <2>1. queue \in Seq(Caller)
    BY DEF Inputs, TypeOK
  <2>2. Merged \in Seq(Caller)
    BY <2>1, HasSplit
  <2>3. hand[c] \o Merged = Merged
    BY <1>3, <2>2
  <2> QED  BY <1>1, <2>3
<1>5. pc[c] \notin Outside /\ pc[c] \notin Over /\ l \notin Outside
      /\ (l \in Takers \/ (hand[c] = <<>> /\ queue = <<>>))
  BY <1>1, <1>2, <1>3 DEF Outside, Over, Takers
<1> QED
  BY <1>1, <1>2, <1>4, <1>5, TakesQueued

LEMMA PrepareKeeps ==
  ASSUME IInv, Inputs, NEW c \in Caller, Prepare(c)
  PROVE  Inputs'
<1>1. pc[c] = "prepare" /\ Step(c) /\ queue' = Rest /\ Goto(c, "submit")
      /\ UNCHANGED <<session, result, cancelled>>
  BY DEF Prepare, Step
<1>2. HandTo(c, hand[c] \o Merged)
  BY DEF Prepare, HandTo, Inputs, TypeOK
<1>3. pc[c] \notin Outside /\ pc[c] \notin Over /\ "submit" \notin Outside
      /\ "submit" \in Takers
  BY <1>1 DEF Outside, Over, Takers
<1> QED
  BY <1>1, <1>2, <1>3, TakesQueued

\* A caller loses what it has in hand, and is told so.
LEMMA LosesHand ==
  ASSUME IInv, Inputs, NEW c \in Caller, Step(c) \/ Timeout(c),
         NEW l \in Over, Goto(c, l), HandTo(c, <<>>),
         NEW r \in {"timeout", "blocked"}, result' = [result EXCEPT ![c] = r],
         UNCHANGED <<queue, session, cancelled>>,
         pc[c] \notin Outside
  PROVE  Inputs'
<1>1. /\ pc \in [Caller -> PC] /\ hand \in [Caller -> Seq(Caller)]
      /\ result \in [Caller -> Results] /\ r \in Results
  BY DEF Inputs, TypeOK, Results
<1>2. executing' \in BOOLEAN /\ line' \in Seq(Caller) /\ pc' \in [Caller -> PC]
  BY LineTyped
<1>3. /\ pc'[c] = l
      /\ \A d \in Caller \ {c} :
            pc'[d] = pc[d] \/ (pc[d] = "parked" /\ pc'[d] = "woken")
  BY <1>1, GotoOthers
<1>4. <<>> \in Seq(Caller) /\ Once(<<>>) /\ \A d : ~Has(<<>>, d)
  BY HasNone
<1>5. /\ hand' \in [Caller -> Seq(Caller)] /\ hand'[c] = <<>>
      /\ \A d \in Caller \ {c} : hand'[d] = hand[d]
  BY <1>1, <1>4, HandTyped
<1>6. /\ result' \in [Caller -> Results] /\ result'[c] = r
      /\ \A d \in Caller \ {c} : result'[d] = result[d]
  BY <1>1, ResultTyped
<1>7. TypeOK'
  BY <1>2, <1>5, <1>6 DEF Inputs, TypeOK, Results
<1>8. Ends'
  BY <1>3, <1>5, <1>6 DEF Inputs, Ends, Takers, Over
<1>9. \A d, e \in Caller : Has(hand'[d], e) => Has(hand[d], e)
  BY <1>4, <1>5
<1>10. Apart'
  <2>1. \A d \in Caller : Once(hand'[d])
    BY <1>4, <1>5 DEF Inputs, Apart
  <2> QED  BY <1>9, <2>1 DEF Inputs, Apart
<1>11. ASSUME NEW d \in Caller \ Streams PROVE Somewhere(d)' => Somewhere(d)
  BY <1>9 DEF Somewhere
<1>12. Kept'
  <2>1. \E d \in Caller : result'[d] \in {"timeout", "blocked"}
    BY <1>6
  <2>2. \A d \in Caller \ Streams : pc'[d] \in Outside => pc[d] \in Outside
    BY <1>3 DEF Outside, Over
  <2> QED  BY <1>11, <2>1, <2>2 DEF Inputs, Kept
<1> QED  BY <1>7, <1>8, <1>10, <1>12 DEF Inputs

LEMMA SubmitKeeps ==
  ASSUME IInv, Inputs, NEW c \in Caller, Submit(c)
  PROVE  Inputs'
<1>1. pc[c] = "submit" /\ Step(c) /\ HandTo(c, <<>>) /\ UNCHANGED <<queue, cancelled>>
  BY DEF Submit, Step, HandTo
<1>2. CASE /\ result' = [result EXCEPT ![c] = "blocked"]
           /\ Goto(c, AfterTurn(c)) /\ UNCHANGED session
  <2>1. AfterTurn(c) \in Over /\ pc[c] \notin Outside
    BY <1>1 DEF AfterTurn, Over, Outside
  <2> QED  BY <1>1, <1>2, <2>1, LosesHand
<1>3. CASE session' = session \o hand[c] /\ Goto(c, "run") /\ UNCHANGED result
  <2>1. /\ pc \in [Caller -> PC] /\ hand \in [Caller -> Seq(Caller)]
        /\ hand[c] \in Seq(Caller) /\ session \in Seq(Caller)
    BY DEF Inputs, TypeOK
  <2>2. executing' \in BOOLEAN /\ line' \in Seq(Caller) /\ pc' \in [Caller -> PC]
    BY <1>1, LineTyped
  <2>3. /\ pc'[c] = "run"
        /\ \A d \in Caller \ {c} :
              pc'[d] = pc[d] \/ (pc[d] = "parked" /\ pc'[d] = "woken")
    BY <1>3, <2>1, GotoOthers
  <2>4. <<>> \in Seq(Caller) /\ Once(<<>>) /\ \A d : ~Has(<<>>, d)
    BY HasNone
  <2>5. /\ hand' \in [Caller -> Seq(Caller)] /\ hand'[c] = <<>>
        /\ \A d \in Caller \ {c} : hand'[d] = hand[d]
    BY <1>1, <2>1, <2>4, HandTyped
  <2>6. /\ session' \in Seq(Caller)
        /\ \A d : Has(session', d) <=> Has(session, d) \/ Has(hand[c], d)
        /\ Once(session')
    <3>1. Once(session) /\ Once(hand[c])
          /\ \A d \in Caller \ Streams : ~(Has(session, d) /\ Has(hand[c], d))
      BY DEF Inputs, Apart
    <3> QED  BY <1>3, <2>1, <3>1, HasJoined
  <2>7. TypeOK'
    BY <1>1, <1>3, <2>2, <2>5, <2>6 DEF Inputs, TypeOK
  <2>8. Ends'
    BY <1>1, <1>3, <2>3, <2>5 DEF Inputs, Ends, Takers, Over
  <2>9. \A d, e \in Caller : Has(hand'[d], e) <=> d # c /\ Has(hand[d], e)
    BY <2>4, <2>5
  <2>10. Apart'
    <3>1. \A d \in Caller : Once(hand'[d])
      BY <2>4, <2>5 DEF Inputs, Apart
    <3> QED  BY <1>1, <2>6, <2>9, <3>1 DEF Inputs, Apart
  <2>11. ASSUME NEW d \in Caller \ Streams PROVE Somewhere(d)' <=> Somewhere(d)
    BY <1>1, <2>6, <2>9 DEF Somewhere
  <2>12. Kept'
    BY <1>1, <1>3, <2>3, <2>11 DEF Inputs, Kept, Outside, Accepted
  <2> QED  BY <2>7, <2>8, <2>10, <2>12 DEF Inputs
<1> QED  BY <1>2, <1>3 DEF Submit

LEMMA TimeoutLoses ==
  ASSUME IInv, Inputs, NEW c \in Caller, Timeout(c)
  PROVE  Inputs'
<1>1. /\ HandTo(c, <<>>) /\ result' = [result EXCEPT ![c] = "timeout"]
      /\ UNCHANGED <<queue, session, cancelled>> /\ pc[c] \notin Outside
  BY DEF Timeout, HandTo, Outside
<1>2. PICK l \in Over : Goto(c, l)
  BY DEF Timeout, AfterTurn, Over
<1> QED  BY <1>1, <1>2, LosesHand

LEMMA CancelKeeps ==
  ASSUME IInv, Inputs, NEW c \in Caller, CancelPending(c)
  PROVE  Inputs'
<1>1. queue \in Seq(Caller)
  BY DEF Inputs, TypeOK
<1>2. PICK i \in 1 .. Len(queue) : queue[i] = c /\ queue' = RemoveAt(queue, i)
  BY <1>1 DEF CancelPending
<1>3. /\ cancelled' = cancelled \cup {c}
      /\ UNCHANGED <<executing, line, pc, hand, session, result>>
  BY DEF CancelPending
<1>4. /\ queue' \in Seq(Caller) /\ Len(queue') <= Len(queue) /\ Once(queue')
      /\ \A d : Has(queue', d) => Has(queue, d)
      /\ \A d : Has(queue, d) /\ d # c => Has(queue', d)
  BY <1>1, <1>2, HasRemoved DEF Inputs, Apart
<1>5. Len(queue') <= MaxQueue
  BY <1>1, <1>4, TurnsAssumption DEF Inputs, TypeOK
<1>6. TypeOK'
  BY <1>3, <1>4, <1>5 DEF Inputs, TypeOK
<1>7. Ends'
  BY <1>3 DEF Inputs, Ends
<1>8. Apart'
  BY <1>3, <1>4 DEF Inputs, Apart
<1>9. ASSUME NEW d \in Caller
      PROVE  /\ Somewhere(d)' => Somewhere(d)
             /\ Somewhere(d) /\ d # c => Somewhere(d)'
  BY <1>3, <1>4 DEF Somewhere
<1>10. Kept'
  BY <1>3, <1>9 DEF Inputs, Kept, Accepted
<1> QED  BY <1>6, <1>7, <1>8, <1>10 DEF Inputs

LEMMA InputsStep == IInv /\ Inputs /\ [Next]_vars => Inputs'
<1> SUFFICES ASSUME IInv, Inputs, [Next]_vars PROVE Inputs'
  OBVIOUS
<1>1. CASE UNCHANGED vars
  BY <1>1 DEF vars, Inputs, TypeOK, Ends, Apart, Kept, Somewhere, Accepted
<1>2. ASSUME NEW c \in Caller, Step(c) PROVE Inputs'
  BY <1>2, CallKeeps, EnqueueKeeps, AnnounceKeeps, MergeQueuedKeeps, PrepareKeeps,
     SubmitKeeps, QuietKeeps DEF Step
<1>3. ASSUME NEW c \in Caller, Timeout(c) \/ CancelPending(c) PROVE Inputs'
  BY <1>3, TimeoutLoses, CancelKeeps
<1> QED  BY <1>1, <1>2, <1>3 DEF Next

LEMMA InputsInit == Init => Inputs
<1> SUFFICES ASSUME Init PROVE Inputs
  OBVIOUS
<1>1. /\ queue = <<>> /\ executing = FALSE /\ line = <<>>
      /\ pc = [c \in Caller |-> "idle"]
      /\ hand = [c \in Caller |-> <<>>]
      /\ session = <<>>
      /\ result = [c \in Caller |-> "none"]
      /\ cancelled = {}
  BY DEF Init
<1>2. <<>> \in Seq(Caller) /\ Len(<<>>) = 0 /\ Once(<<>>) /\ \A c : ~Has(<<>>, c)
  BY HasNone
<1>3. TypeOK
  <2>1. Len(queue) <= MaxQueue
    BY <1>1, <1>2, TurnsAssumption
  <2>2. /\ pc \in [Caller -> PC] /\ hand \in [Caller -> Seq(Caller)]
        /\ result \in [Caller -> Results]
    BY <1>1, <1>2 DEF PC, Results
  <2> QED  BY <1>1, <1>2, <2>1, <2>2 DEF TypeOK, Results
<1>4. Ends
  BY <1>1 DEF Ends
<1>5. Apart
  BY <1>1, <1>2 DEF Apart
<1>6. Kept
  BY <1>1, <1>2 DEF Kept, Somewhere, Accepted, Outside
<1> QED  BY <1>3, <1>4, <1>5, <1>6 DEF Inputs

LEMMA InputsAlways == Spec => []Inputs
  BY TurnsInductive, InputsInit, InputsStep, PTL DEF Spec

\* Every variable keeps its type, and the queue its limit
\* (MAX_QUEUE_SIZE, src/src/session/queue.rs).
THEOREM TurnsTyped == Spec => []TypeOK
<1>1. Inputs => TypeOK
  BY DEF Inputs
<1> QED  BY <1>1, InputsAlways, PTL

\* An input has one place in a sequence that has it once.
LEMMA PlacesInOne ==
  ASSUME NEW s \in Seq(Caller), Once(s), NEW c \in Caller \ Streams
  PROVE  /\ Has(s, c) => \E i : {j \in DOMAIN s : s[j] = c} = {i}
         /\ ~Has(s, c) => {j \in DOMAIN s : s[j] = c} = {}
<1>1. DOMAIN s = 1 .. Len(s)
  OBVIOUS
<1>2. ASSUME Has(s, c) PROVE \E i : {j \in DOMAIN s : s[j] = c} = {i}
  <2>1. PICK i \in 1 .. Len(s) : s[i] = c
    BY <1>2 DEF Has
  <2>2. \A j \in 1 .. Len(s) : s[j] = c => j = i
    BY <2>1 DEF Once
  <2>3. {j \in DOMAIN s : s[j] = c} = {i}
    BY <1>1, <2>1, <2>2
  <2> QED  BY <2>3
<1>3. ASSUME ~Has(s, c) PROVE {j \in DOMAIN s : s[j] = c} = {}
  BY <1>1, <1>3 DEF Has
<1> QED  BY <1>2, <1>3

\* How many places have an input.
LEMMA CopiesCounted ==
  ASSUME Inputs, NEW c \in Caller \ Streams
  PROVE  Copies(c) = IF Somewhere(c) THEN 1 ELSE 0
<1> DEFINE inQueue   == {i \in DOMAIN queue : queue[i] = c}
           inHands   == {h \in UNION {{d} \X DOMAIN hand[d] : d \in Caller} :
                            hand[h[1]][h[2]] = c}
           inSession == {i \in DOMAIN session : session[i] = c}
<1>1. /\ queue \in Seq(Caller) /\ session \in Seq(Caller)
      /\ \A d \in Caller : hand[d] \in Seq(Caller)
  BY DEF Inputs, TypeOK
<1>2. Cardinality({}) = 0 /\ \A x : Cardinality({x}) = 1
  BY FS_EmptySet, FS_Singleton
<1>3. /\ Has(queue, c) => \E i : inQueue = {i}
      /\ ~Has(queue, c) => inQueue = {}
  BY <1>1, PlacesInOne DEF Inputs, Apart
<1>4. /\ Has(session, c) => \E i : inSession = {i}
      /\ ~Has(session, c) => inSession = {}
  BY <1>1, PlacesInOne DEF Inputs, Apart
<1>5. /\ (\E d \in Caller : Has(hand[d], c)) => \E h : inHands = {h}
      /\ ~(\E d \in Caller : Has(hand[d], c)) => inHands = {}
  <2>1. ASSUME NEW h \in inHands
        PROVE  /\ h = <<h[1], h[2]>> /\ h[1] \in Caller
               /\ h[2] \in 1 .. Len(hand[h[1]]) /\ hand[h[1]][h[2]] = c
               /\ Has(hand[h[1]], c)
    <3>1. PICK d \in Caller : h \in {d} \X DOMAIN hand[d]
      OBVIOUS
    <3> QED  BY <1>1, <3>1 DEF Has
  <2>2. ASSUME NEW d \in Caller, Has(hand[d], c) PROVE \E h : inHands = {h}
    <3>1. PICK i \in 1 .. Len(hand[d]) : hand[d][i] = c
      BY <2>2 DEF Has
    <3>2. <<d, i>> \in inHands
      <4>1. <<d, i>> \in {d} \X DOMAIN hand[d]
        BY <1>1
      <4> QED  BY <3>1, <4>1
    <3>3. ASSUME NEW h \in inHands PROVE h = <<d, i>>
      <4>1. h[1] = d
        BY <2>1, <2>2, <3>3 DEF Inputs, Apart
      <4>2. h[2] = i
        BY <2>1, <3>1, <3>3, <4>1 DEF Inputs, Apart, Once
      <4> QED  BY <2>1, <3>3, <4>1, <4>2
    <3> HIDE DEF inHands
    <3>4. inHands = {<<d, i>>}
      BY <3>2, <3>3
    <3> QED  BY <3>4
  <2>3. ASSUME ~(\E d \in Caller : Has(hand[d], c)) PROVE inHands = {}
    BY <2>1, <2>3
  <2> QED  BY <2>2, <2>3
<1>6. /\ Has(queue, c) => ~Has(session, c) /\ ~(\E d \in Caller : Has(hand[d], c))
      /\ Has(session, c) => ~(\E d \in Caller : Has(hand[d], c))
  BY DEF Inputs, Apart
<1>7. Copies(c) = Cardinality(inQueue) + Cardinality(inHands) + Cardinality(inSession)
  BY DEF Copies
<1> HIDE DEF inQueue, inHands, inSession
<1>8. /\ Cardinality(inQueue) = IF Has(queue, c) THEN 1 ELSE 0
      /\ Cardinality(inSession) = IF Has(session, c) THEN 1 ELSE 0
      /\ Cardinality(inHands) = IF \E d \in Caller : Has(hand[d], c) THEN 1 ELSE 0
  BY <1>2, <1>3, <1>4, <1>5
<1> QED  BY <1>6, <1>7, <1>8 DEF Somewhere

\* However merges, turns, timeouts and cancellations race for the queued inputs,
\* none of an execute call is anywhere twice, and none is lost but with a
\* timeout, a block or a cancellation (src/src/session/session_handle.rs).
THEOREM InputsNotLost == Spec => []InputsKept
<1>1. Inputs => InputsKept
  <2> SUFFICES ASSUME Inputs, NEW c \in Caller \ Streams
               PROVE  /\ Copies(c) <= 1
                      /\ Accepted(c) /\ Copies(c) = 0 =>
                            c \in cancelled \/ \E d \in Caller : result[d] \in {"timeout", "blocked"}
    BY DEF InputsKept
  <2>1. Copies(c) = IF Somewhere(c) THEN 1 ELSE 0
    BY CopiesCounted
  <2> QED  BY <2>1 DEF Inputs, Kept
<1> QED  BY <1>1, InputsAlways, PTL
=============================================================================
