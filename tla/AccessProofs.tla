---------------------------- MODULE AccessProofs ----------------------------
(***************************************************************************)
(* The saved Jetstream cursor covers what it passed; the roles in memory   *)
(* say what the tables say; replays end where the history ends.  For every *)
(* set of DIDs and history of events, every interval between two saves,    *)
(* capacity of the channel, and any number of calls, errors, lost          *)
(* connections, crashes and restarts.                                      *)
(*                                                                         *)
(* CursorInv says of the cursor in memory and of the position in the       *)
(* stream what is to hold of the saved one.  AccessInv adds what the roles *)
(* are while an operation stands between its steps.  ReplayInv adds that   *)
(* events keep their order on the way and that the last one of a DID is    *)
(* reflected in its row, is on its way, or will be sent again.             *)
(***************************************************************************)
EXTENDS Access, SequenceTheorems, WellFoundedInduction, TLAPS

Worker == {"ingester", "xrpc"}

\* The parts of the type invariant the argument needs; calls carry no event.
Types ==
    /\ {saved, cursor, now, pos, hand} \subseteq Nat /\ Len(log) \in Nat
    /\ chan \in Seq(Nat \ {0})
    /\ DOMAIN doing = Worker
    /\ \A a \in Worker : Busy(a) =>
           /\ DOMAIN doing[a] = {"what", "did", "repo", "todo", "event"}
           /\ doing[a].event \in Nat
    /\ Busy("xrpc") => doing["xrpc"].event = 0

\* A process that has ended has nothing on its way.
NothingLeft == ~up => chan = <<>> /\ hand = 0 /\ pos = 0 /\ doing = Nobody

\* The events of which one knows what became of them.
Known == handled \cup torn \cup missed \cup ToSet(chan) \cup {hand} \cup InProgress

Covered(n) == \A i \in 1 .. n : i \in Known

CursorInv ==
    /\ Types /\ NothingLeft
    /\ Covered(saved) /\ Covered(cursor) /\ Covered(pos - 1)

-----------------------------------------------------------------------------
(* Operators                                                               *)

\* The larger of two positions.
LEMMA MaxOfTwo ==
    ASSUME NEW a \in Nat, NEW b \in Nat
    PROVE  Max({a, b}) = IF a >= b THEN a ELSE b
<1> DEFINE m == IF a >= b THEN a ELSE b
<1>1. m \in {a, b} /\ \A x \in {a, b} : m >= x
  OBVIOUS
<1>2. \A y \in {a, b} : (\A x \in {a, b} : y >= x) => y = m
  OBVIOUS
<1> HIDE DEF m
<1>3. Max({a, b}) \in {a, b} /\ \A x \in {a, b} : Max({a, b}) >= x
  BY <1>1 DEF Max
<1> QED
  BY <1>2, <1>3 DEF m

\* What is sent is in the channel, with what was there.
LEMMA ToSetOfAppend ==
    ASSUME NEW S, NEW s \in Seq(S), NEW e \in S
    PROVE  ToSet(s) \cup {e} \subseteq ToSet(Append(s, e))
<1> DEFINE t == Append(s, e)
<1>1. /\ Len(s) \in Nat /\ DOMAIN s = 1 .. Len(s) /\ DOMAIN t = 1 .. Len(s) + 1
      /\ t[Len(s) + 1] = e /\ \A i \in 1 .. Len(s) : t[i] = s[i]
  OBVIOUS
<1> HIDE DEF t
<1>2. ASSUME NEW i \in DOMAIN s PROVE s[i] \in ToSet(t)
  BY <1>1 DEF ToSet
<1>3. e \in ToSet(t)
  BY <1>1 DEF ToSet
<1>4. \A x \in ToSet(s) : \E i \in DOMAIN s : x = s[i]
  BY Zenon DEF ToSet
<1> QED
  BY <1>2, <1>3, <1>4 DEF t

\* What is received first was the head; the rest stays.
LEMMA ToSetOfTail ==
    ASSUME NEW S, NEW s \in Seq(S), s # <<>>
    PROVE  /\ ToSet(s) \subseteq ToSet(Tail(s)) \cup {Head(s)}
           /\ Tail(s) \in Seq(S) /\ Head(s) \in S
<1> DEFINE t == Tail(s)
<1>1. /\ Len(s) \in Nat /\ DOMAIN s = 1 .. Len(s) /\ DOMAIN t = 1 .. Len(s) - 1
      /\ Head(s) = s[1] /\ \A i \in 1 .. Len(s) - 1 : t[i] = s[i + 1]
  OBVIOUS
<1>2. Tail(s) \in Seq(S) /\ Head(s) \in S
  OBVIOUS
<1> HIDE DEF t
<1>3. ASSUME NEW i \in DOMAIN s PROVE s[i] \in ToSet(t) \cup {Head(s)}
  <2>1. ASSUME i # 1 PROVE \E k \in DOMAIN t : t[k] = s[i]
    <3> PICK k \in 1 .. Len(s) - 1 : k + 1 = i
      <4>1. i - 1 \in 1 .. Len(s) - 1 /\ (i - 1) + 1 = i
        BY <1>1, <2>1
      <4> QED
        BY <4>1
    <3> QED
      BY <1>1
  <2>2. \A k \in DOMAIN t : t[k] \in ToSet(t)
    BY Zenon DEF ToSet
  <2> QED
    BY <1>1, <2>1, <2>2
<1>4. \A x \in ToSet(s) : \E i \in DOMAIN s : x = s[i]
  BY Zenon DEF ToSet
<1> QED
  BY <1>2, <1>3, <1>4 DEF t

\* Nothing else is in the channel.
LEMMA ToSetInAppend ==
    ASSUME NEW S, NEW s \in Seq(S), NEW e \in S
    PROVE  ToSet(Append(s, e)) \subseteq ToSet(s) \cup {e}
<1> DEFINE t == Append(s, e)
<1>1. /\ Len(s) \in Nat /\ DOMAIN s = 1 .. Len(s) /\ DOMAIN t = 1 .. Len(s) + 1
      /\ t[Len(s) + 1] = e /\ \A i \in 1 .. Len(s) : t[i] = s[i]
  OBVIOUS
<1> HIDE DEF t
<1>2. ASSUME NEW i \in DOMAIN t PROVE t[i] = e \/ \E k \in DOMAIN s : t[i] = s[k]
  BY <1>1
<1>3. \A x \in ToSet(t) : \E i \in DOMAIN t : x = t[i]
  BY Zenon DEF ToSet
<1>4. \A k \in DOMAIN s : s[k] \in ToSet(s)
  BY Zenon DEF ToSet
<1> QED
  BY <1>2, <1>3, <1>4 DEF t

\* The head and the rest were in the channel.
LEMMA ToSetInTail ==
    ASSUME NEW S, NEW s \in Seq(S), s # <<>>
    PROVE  Head(s) \in ToSet(s) /\ ToSet(Tail(s)) \subseteq ToSet(s) /\ Len(Tail(s)) = Len(s) - 1
<1> DEFINE t == Tail(s)
<1>1. /\ Len(s) \in Nat \ {0} /\ DOMAIN s = 1 .. Len(s) /\ DOMAIN t = 1 .. Len(s) - 1
      /\ Head(s) = s[1] /\ \A i \in 1 .. Len(s) - 1 : t[i] = s[i + 1]
  OBVIOUS
<1>2. Len(t) = Len(s) - 1
  OBVIOUS
<1> HIDE DEF t
<1>3. \A k \in DOMAIN s : s[k] \in ToSet(s)
  BY Zenon DEF ToSet
<1>4. ASSUME NEW i \in DOMAIN t PROVE t[i] \in ToSet(s)
  <2>1. i + 1 \in DOMAIN s /\ t[i] = s[i + 1]
    BY <1>1
  <2> QED
    BY <1>3, <2>1
<1>5. \A x \in ToSet(t) : \E i \in DOMAIN t : x = t[i]
  BY Zenon DEF ToSet
<1>6. Head(s) \in ToSet(s)
  BY <1>1, <1>3
<1> QED
  BY <1>2, <1>4, <1>5, <1>6 DEF t

\* The set of an empty channel.
LEMMA ToSetOfNone == ToSet(<<>>) = {}
  BY DEF ToSet

-----------------------------------------------------------------------------
(* The steps                                                               *)

\* A step that forgets no event and moves no cursor keeps what is covered.
LEMMA CursorsKept ==
    ASSUME CursorInv, Types', NothingLeft', UNCHANGED <<cursor, pos>>,
           saved' \in {saved, cursor}, Known \ {0} \subseteq Known'
    PROVE  CursorInv'
<1>1. ASSUME NEW n \in Nat, Covered(n) PROVE \A i \in 1 .. n : i \in Known'
  <2>1. \A i \in 1 .. n : i # 0
    OBVIOUS
  <2> QED
    BY <1>1, <2>1 DEF Covered
<1>2. Covered(pos - 1)'
  <2>1. \A i \in 1 .. pos - 1 : i # 0
    OBVIOUS
  <2>2. \A i \in 1 .. pos - 1 : i \in Known'
    BY <2>1 DEF CursorInv, Covered
  <2> QED
    BY <2>2 DEF Covered
<1>3. saved \in Nat /\ cursor \in Nat /\ Covered(saved) /\ Covered(cursor)
  BY DEF CursorInv, Types
<1>4. (\A i \in 1 .. saved : i \in Known') /\ (\A i \in 1 .. cursor : i \in Known')
  BY <1>1, <1>3
<1>5. Covered(saved)' /\ Covered(cursor)'
  BY <1>4 DEF Covered
<1> QED
  BY <1>2, <1>5 DEF CursorInv

\* An operation that stays with its worker keeps its event in progress.
LEMMA InProgressKept ==
    ASSUME DOMAIN doing = Worker, DOMAIN doing' = Worker,
           \A b \in Worker : Busy(b) /\ doing[b].event # 0
                               => Busy(b)' /\ doing'[b].event = doing[b].event
    PROVE  InProgress \subseteq InProgress'
<1> SUFFICES ASSUME NEW b \in Worker, Busy(b), doing[b].event # 0
             PROVE  doing[b].event \in InProgress'
  BY DEF InProgress
<1>1. b \in {c \in DOMAIN doing' : Busy(c)'} /\ doing'[b].event = doing[b].event
  OBVIOUS
<1> QED
  BY <1>1 DEF InProgress

\* The end of an operation puts its event among those handled or cut off.
LEMMA FinishedKept ==
    ASSUME NEW o, NEW w, Finished(o, w)
    PROVE  handled \cup torn \cup ({o.event} \ {0}) \subseteq handled' \cup torn'
  BY DEF Finished

\* A step of an operation.
LEMMA AdvanceStep ==
    ASSUME CursorInv, NEW a \in Worker, Advance(a)
    PROVE  CursorInv'
<1>1. UNCHANGED <<saved, process, client, ingester, log>>
  BY DEF Advance
<1>2. CASE \E w : doing' = [doing EXCEPT ![a] = Idle] /\ Finished(doing[a], w)
  <2>1. \A b \in Worker : b # a => doing'[b] = doing[b]
    BY <1>2 DEF CursorInv, Types
  <2>2. DOMAIN doing' = Worker /\ doing'[a] = Idle
    BY <1>2 DEF CursorInv, Types
  <2>3. Types'
    <3>1. {saved', cursor', now', pos', hand'} \subseteq Nat /\ Len(log') \in Nat
      BY <1>1 DEF CursorInv, Types, client
    <3>2. chan' \in Seq(Nat \ {0})
      BY <1>1 DEF CursorInv, Types, ingester
    <3> QED
      BY <2>1, <2>2, <3>1, <3>2 DEF CursorInv, Types, Busy, Worker
  <2>4. InProgress \subseteq InProgress' \cup ({doing[a].event} \ {0})
    BY <2>1, <2>2 DEF CursorInv, Types, InProgress, Busy
  <2>5. handled \cup torn \cup ({doing[a].event} \ {0}) \subseteq handled' \cup torn'
    BY <1>2, FinishedKept
  <2>6. Known \subseteq Known'
    BY <1>1, <2>4, <2>5 DEF Known, client, ingester
  <2>7. NothingLeft'
    BY <1>1, <2>1, <2>2 DEF CursorInv, NothingLeft, Types, Advance, Busy, Nobody, client,
                            ingester, process
  <2> QED
    BY <1>1, <2>3, <2>6, <2>7, CursorsKept DEF client
<1>3. CASE doing' = [doing EXCEPT ![a].todo = Tail(@)] /\ UNCHANGED <<handled, torn>>
  <2>1. \A b \in Worker : b # a => doing'[b] = doing[b]
    BY <1>3 DEF CursorInv, Types
  <2>2. DOMAIN doing' = Worker /\ doing'[a] = [doing[a] EXCEPT !.todo = Tail(@)]
    BY <1>3 DEF CursorInv, Types
  <2>3. DOMAIN doing'[a] = DOMAIN doing[a] /\ doing'[a].event = doing[a].event
    BY <2>2 DEF CursorInv, Types, Advance
  <2>4. \A b \in Worker : Busy(b)' <=> Busy(b)
    BY <2>1, <2>3 DEF CursorInv, Types, Advance, Busy, Idle
  <2>5. Types'
    <3>1. {saved', cursor', now', pos', hand'} \subseteq Nat /\ Len(log') \in Nat
      BY <1>1 DEF CursorInv, Types, client
    <3>2. chan' \in Seq(Nat \ {0})
      BY <1>1 DEF CursorInv, Types, ingester
    <3> QED
      BY <2>1, <2>2, <2>3, <2>4, <3>1, <3>2 DEF CursorInv, Types, Worker
  <2>6. InProgress \subseteq InProgress'
    <3>1. \A b \in Worker : doing'[b].event = doing[b].event
      BY <2>1, <2>3
    <3>2. DOMAIN doing = Worker
      BY DEF CursorInv, Types
    <3> QED
      BY <2>2, <2>4, <3>1, <3>2, InProgressKept
  <2>7. Known \subseteq Known'
    BY <1>1, <1>3, <2>6 DEF Known, client, ingester
  <2>8. NothingLeft'
    BY <1>1 DEF CursorInv, NothingLeft, Types, Advance, Busy, Nobody, client, ingester, process
  <2> QED
    BY <1>1, <2>5, <2>7, <2>8, CursorsKept DEF client
<1> QED
  BY <1>2, <1>3 DEF Advance

\* Steps that concern neither the events nor the cursors; a call of the owner
\* takes its worker up or lets it go.
LEMMA OtherSteps ==
    ASSUME CursorInv, HangUp \/ Shutdown \/ \E w : \E d \in Did : Call(w, d)
    PROVE  CursorInv'
<1>1. /\ UNCHANGED <<saved, client, ingester, log, up>> /\ handled' = handled /\ torn' = torn
      /\ up \/ doing' = doing \/ doing["xrpc"] # Idle
  BY DEF HangUp, Shutdown, Call, database, history, process, Busy
<1>2. /\ DOMAIN doing' = Worker /\ doing'["ingester"] = doing["ingester"]
      /\ \/ doing'["xrpc"] = Idle
         \/ doing'["xrpc"] = doing["xrpc"]
         \/ \E w, d : doing'["xrpc"] = Operation(w, d, Spindle, 0)
  BY DEF CursorInv, Types, Worker, HangUp, Shutdown, Call
<1>3. doing["xrpc"] = Idle \/ doing["xrpc"].event = 0
  BY DEF CursorInv, Types, Busy
<1>4. Types'
  <2>1. {saved', cursor', now', pos', hand'} \subseteq Nat /\ Len(log') \in Nat
    BY <1>1 DEF CursorInv, Types, client
  <2>2. chan' \in Seq(Nat \ {0})
    BY <1>1 DEF CursorInv, Types, ingester
  <2>3. \A w, d : /\ Operation(w, d, Spindle, 0).event = 0
                  /\ DOMAIN Operation(w, d, Spindle, 0) =
                         {"what", "did", "repo", "todo", "event"}
    BY DEF Operation
  <2>4. Busy("ingester")' => /\ DOMAIN doing'["ingester"] = {"what", "did", "repo", "todo", "event"}
                             /\ doing'["ingester"].event \in Nat
    BY <1>2 DEF CursorInv, Types, Busy, Worker
  <2>5. Busy("xrpc") => DOMAIN doing["xrpc"] = {"what", "did", "repo", "todo", "event"}
    BY DEF CursorInv, Types, Worker
  <2>6. Busy("xrpc")' => /\ DOMAIN doing'["xrpc"] = {"what", "did", "repo", "todo", "event"}
                         /\ doing'["xrpc"].event = 0
    BY <1>2, <1>3, <2>3, <2>5 DEF Busy
  <2> QED
    BY <1>2, <2>1, <2>2, <2>4, <2>6 DEF Types, Worker
<1>5. InProgress \subseteq InProgress'
  <2>1. DOMAIN doing = Worker
    BY DEF CursorInv, Types
  <2>2. Busy("xrpc") /\ doing["xrpc"].event # 0
            => Busy("xrpc")' /\ doing'["xrpc"].event = doing["xrpc"].event
    BY <1>3 DEF Busy
  <2>3. Busy("ingester")
            => Busy("ingester")' /\ doing'["ingester"].event = doing["ingester"].event
    BY <1>2 DEF Busy
  <2>4. \A b \in Worker : Busy(b) /\ doing[b].event # 0
                              => Busy(b)' /\ doing'[b].event = doing[b].event
    BY <2>2, <2>3 DEF Worker
  <2> QED
    BY <1>2, <2>1, <2>4, InProgressKept
<1>6. Known \subseteq Known'
  BY <1>1, <1>5 DEF Known, client, ingester
<1>7. NothingLeft'
  BY <1>1 DEF CursorInv, NothingLeft, client, ingester, Nobody
<1> QED
  BY <1>1, <1>4, <1>6, <1>7, CursorsKept DEF client

\* An event leaves the channel for an operation, or is dealt with at once.
LEMMA IngestStep == ASSUME CursorInv, Ingest PROVE CursorInv'
<1>1. UNCHANGED <<saved, client, log>> /\ up /\ up' = up /\ chan # <<>>
  BY DEF Ingest, database, process
<1>2. chan' \in Seq(Nat \ {0}) /\ ToSet(chan) \subseteq ToSet(chan') \cup {Head(chan)}
      /\ Head(chan) \in Nat \ {0}
  BY <1>1, ToSetOfTail DEF CursorInv, Types, Ingest
<1>3. CASE /\ doing' = doing /\ handled' = handled \cup {Head(chan)}
           /\ torn' = torn \ {Head(chan)}
  <2>1. Types'
    BY <1>1, <1>2, <1>3 DEF CursorInv, Types, client, Busy
  <2>2. InProgress' = InProgress
    BY <1>3 DEF InProgress, Busy
  <2>3. Known \subseteq Known'
    BY <1>1, <1>2, <1>3, <2>2 DEF Known, client
  <2> QED
    BY <1>1, <2>1, <2>3, CursorsKept DEF client, NothingLeft
<1>4. CASE /\ handled' = handled /\ torn' = torn
           /\ \E w, d, r : doing' =
                  [doing EXCEPT !["ingester"] = Operation(w, d, r, Head(chan))]
  <2> PICK w, d, r : doing' = [doing EXCEPT !["ingester"] = Operation(w, d, r, Head(chan))]
    BY <1>4
  <2> DEFINE o == Operation(w, d, r, Head(chan))
  <2>1. /\ DOMAIN o = {"what", "did", "repo", "todo", "event"} /\ o.event = Head(chan)
        /\ o # Idle
    BY DEF Operation, Idle
  <2>2. /\ DOMAIN doing' = Worker /\ doing'["ingester"] = o
        /\ doing'["xrpc"] = doing["xrpc"] /\ doing["ingester"] = Idle
    BY DEF CursorInv, Types, Worker, Ingest, Busy
  <2> HIDE DEF o
  <2>3. Types'
    BY <1>1, <1>2, <2>1, <2>2 DEF CursorInv, Types, client, Busy, Worker
  <2>4. InProgress \subseteq InProgress' /\ Head(chan) \in InProgress'
    BY <1>2, <2>1, <2>2 DEF CursorInv, Types, InProgress, Busy, Worker
  <2>5. Known \subseteq Known'
    BY <1>1, <1>2, <1>4, <2>4 DEF Known, client
  <2> QED
    BY <1>1, <2>3, <2>5, CursorsKept DEF client, NothingLeft
<1> QED
  BY <1>3, <1>4 DEF Ingest

\* The ingester stops; what was in the channel is cut off.
LEMMA IngesterStopsStep == ASSUME CursorInv, IngesterStops PROVE CursorInv'
<1>1. /\ UNCHANGED <<saved, client, log, doing, handled, up>>
      /\ chan' = <<>> /\ torn' = torn \cup ToSet(chan)
  BY DEF IngesterStops, database, process
<1>2. Types'
  BY <1>1 DEF CursorInv, Types, client, Busy
<1>3. InProgress' = InProgress
  BY <1>1 DEF InProgress, Busy
<1>4. Known \subseteq Known'
  BY <1>1, <1>3 DEF Known, client
<1>5. NothingLeft'
  BY <1>1 DEF CursorInv, NothingLeft, client, Nobody
<1> QED
  BY <1>1, <1>2, <1>4, <1>5, CursorsKept DEF client

\* A connection starts at the cursor, or passes over what it will not send.
LEMMA ConnectStep == ASSUME CursorInv, Connect PROVE CursorInv'
<1>1. /\ UNCHANGED <<saved, cursor, now, hand, chan, log, doing, handled, torn, up>> /\ up
      /\ unsaved' = 0 /\ pos' \in From
      /\ missed' = IF cursor > 0 THEN missed ELSE missed \cup (1 .. pos' - 1 \ handled)
  BY DEF Connect, database, process, ingester, history
<1>2. pos' \in Nat
  BY <1>1 DEF CursorInv, Types, From
<1>3. Types'
  BY <1>1, <1>2 DEF CursorInv, Types, Busy
<1>4. InProgress' = InProgress
  BY <1>1 DEF InProgress, Busy
<1>5. Known \subseteq Known'
  BY <1>1, <1>4 DEF Known
<1>6. Covered(saved)' /\ Covered(cursor)'
  BY <1>1, <1>5 DEF CursorInv, Covered
<1>7. Covered(pos - 1)'
  <2>1. CASE cursor > 0
    <3>1. \A i \in 1 .. pos' - 1 : i \in 1 .. cursor
      <4>1. pos' \in {cursor, cursor + 1} /\ cursor \in Nat
        BY <1>1, <2>1 DEF CursorInv, Types, From
      <4>2. CASE pos' = cursor
        BY <4>1, <4>2
      <4>3. CASE pos' = cursor + 1
        <5>1. pos' - 1 = cursor
          BY <4>1, <4>3
        <5> QED
          BY <5>1
      <4> QED
        BY <4>1, <4>2, <4>3
    <3> QED
      BY <1>5, <3>1 DEF CursorInv, Covered
  <2>2. CASE ~(cursor > 0)
    BY <1>1, <2>2 DEF Covered, Known
  <2> QED
    BY <2>1, <2>2
<1> QED
  BY <1>1, <1>3, <1>6, <1>7 DEF CursorInv, NothingLeft

\* The cursor moves to an event that is then in the client's hand, or past.
LEMMA ReadStep == ASSUME CursorInv, Read PROVE CursorInv'
<1>1. /\ UNCHANGED <<saved, chan, log, doing, torn, up>> /\ up /\ hand = 0
      /\ pos' = pos + 1 /\ now' = Max({now, pos}) /\ pos \in Nat \ {0}
  BY DEF CursorInv, Types, Read, Connected, database, process, ingester
<1>2. /\ cursor' = cursor \/ cursor' = Max({cursor, pos})
      /\ hand' \in {0, pos} /\ handled \subseteq handled' /\ missed \ {pos} \subseteq missed'
      /\ pos \in handled' \cup missed' \cup {hand'}
  BY <1>1 DEF Read
<1>3. now' \in Nat /\ cursor' \in Nat /\ (cursor' = cursor \/ cursor' <= pos)
  <2>1. now \in Nat /\ pos \in Nat /\ cursor \in Nat
    BY DEF CursorInv, Types
  <2>2. /\ Max({now, pos}) = IF now >= pos THEN now ELSE pos
        /\ Max({cursor, pos}) = IF cursor >= pos THEN cursor ELSE pos
    BY <2>1, MaxOfTwo
  <2> QED
    BY <1>1, <1>2, <2>1, <2>2
<1>4. Types'
  BY <1>1, <1>2, <1>3 DEF CursorInv, Types, Busy
<1>5. InProgress' = InProgress
  BY <1>1 DEF InProgress, Busy
<1>6. (Known \cup {pos}) \ {0} \subseteq Known'
  BY <1>1, <1>2, <1>5 DEF Known
<1>7. Covered(saved)' /\ Covered(pos - 1)'
  <2>1. \A i \in 1 .. pos' - 1 : i = pos \/ i \in 1 .. pos - 1
    BY <1>1
  <2>2. \A i \in 1 .. saved : i \in Known'
    BY <1>6 DEF CursorInv, Covered, Types
  <2>3. \A i \in 1 .. pos - 1 : i \in Known'
    BY <1>6 DEF CursorInv, Covered, Types
  <2> QED
    BY <1>1, <1>6, <2>1, <2>2, <2>3 DEF Covered
<1>8. Covered(cursor)'
  <2>1. CASE cursor' = cursor
    BY <1>6, <2>1 DEF CursorInv, Covered, Types
  <2>2. CASE cursor' <= pos
    BY <1>1, <1>3, <1>7, <2>2 DEF Covered
  <2> QED
    BY <1>3, <2>1, <2>2
<1> QED
  BY <1>1, <1>4, <1>7, <1>8 DEF CursorInv, NothingLeft

\* From the hand an event goes into the channel, or is cut off.
LEMMA SendStep == ASSUME CursorInv, Send PROVE CursorInv'
<1>1. /\ UNCHANGED <<cursor, pos, now, log, doing, handled, missed, up>> /\ up
      /\ hand # 0 /\ hand' = 0 /\ saved' \in {saved, cursor}
      /\ \/ chan' = Append(chan, hand) /\ torn' = torn
         \/ chan' = chan /\ torn' = torn \cup {hand}
  BY DEF Send, Saved, Enqueue, process
<1>2. chan \in Seq(Nat \ {0}) /\ hand \in Nat \ {0}
  BY <1>1 DEF CursorInv, Types
<1>3. chan' \in Seq(Nat \ {0}) /\ ToSet(chan) \cup {hand} \subseteq ToSet(chan') \cup torn'
      /\ ToSet(chan) \subseteq ToSet(chan') /\ torn \subseteq torn'
  <2>1. Append(chan, hand) \in Seq(Nat \ {0})
    BY <1>2
  <2>2. ToSet(chan) \cup {hand} \subseteq ToSet(Append(chan, hand))
    BY <1>2, ToSetOfAppend, Zenon
  <2> QED
    BY <1>1, <1>2, <2>1, <2>2
<1>4. Types'
  BY <1>1, <1>3 DEF CursorInv, Types, Busy
<1>5. InProgress' = InProgress
  BY <1>1 DEF InProgress, Busy
<1>6. Known \subseteq Known'
  BY <1>1, <1>3, <1>5 DEF Known
<1> QED
  BY <1>1, <1>4, <1>6, CursorsKept DEF NothingLeft

\* The connection ends; the cursor may be saved.
LEMMA DisconnectStep == ASSUME CursorInv, Disconnected \/ ClientStops PROVE CursorInv'
<1>1. /\ UNCHANGED <<cursor, hand, now, log, doing, chan, up>>
      /\ UNCHANGED <<handled, torn, missed>>
      /\ pos' = 0 /\ saved' \in {saved, cursor}
  BY DEF Disconnected, ClientStops, SaveRest, process, ingester, history
<1>2. Types'
  BY <1>1 DEF CursorInv, Types, Busy
<1>3. InProgress' = InProgress
  BY <1>1 DEF InProgress, Busy
<1>4. Known' = Known
  BY <1>1, <1>3 DEF Known
<1>5. Covered(saved)' /\ Covered(cursor)' /\ Covered(pos - 1)'
  BY <1>1, <1>4 DEF CursorInv, Covered
<1>6. NothingLeft'
  BY <1>1 DEF CursorInv, NothingLeft, Nobody
<1> QED
  BY <1>2, <1>5, <1>6 DEF CursorInv

\* A start takes the cursor that was saved.
LEMMA StartStep == ASSUME CursorInv, Start PROVE CursorInv'
<1>1. /\ UNCHANGED <<saved, now, log, handled, torn, missed>>
      /\ cursor' = saved /\ pos' = 0 /\ hand' = 0 /\ chan' = <<>> /\ doing' = Nobody /\ up'
      /\ chan = <<>> /\ hand = 0 /\ doing = Nobody
  BY DEF CursorInv, NothingLeft, Start
<1>2. Types'
  BY <1>1 DEF CursorInv, Types, Busy
<1>3. Known' = Known
  BY <1>1 DEF Known, InProgress, Busy
<1>4. Covered(saved)' /\ Covered(cursor)' /\ Covered(pos - 1)'
  BY <1>1, <1>3 DEF CursorInv, Covered
<1> QED
  BY <1>1, <1>2, <1>4 DEF CursorInv, NothingLeft

\* The end of the process cuts off what was on its way.
LEMMA OverStep == ASSUME CursorInv, Exit \/ Crash PROVE CursorInv'
<1>1. /\ UNCHANGED <<saved, cursor, now, log, handled, missed>>
      /\ chan' = <<>> /\ hand' = 0 /\ pos' = 0 /\ doing' = Nobody
      /\ torn' = torn \cup ToSet(chan) \cup ({hand} \ {0}) \cup InProgress
  BY DEF Exit, Crash, Over, database, InProgress
<1>2. Types'
  BY <1>1 DEF CursorInv, Types, Busy, Nobody, Worker
<1>3. Known \ {0} \subseteq Known'
  BY <1>1 DEF Known
<1>4. Covered(saved)' /\ Covered(cursor)' /\ Covered(pos - 1)'
  BY <1>1, <1>3 DEF CursorInv, Covered, Types
<1> QED
  BY <1>1, <1>2, <1>4 DEF CursorInv, NothingLeft

-----------------------------------------------------------------------------
(* The theorem                                                             *)

\* At first there is no cursor, and nothing on its way.
LEMMA InitCursorInv == Init => CursorInv
<1> SUFFICES ASSUME Init PROVE CursorInv
  OBVIOUS
<1>1. Len(log) \in Nat
  BY AccessAssumption DEF Init
<1>2. Types
  BY <1>1 DEF Init, Types, Busy, Nobody, Worker
<1>3. NothingLeft /\ Covered(saved) /\ Covered(cursor) /\ Covered(pos - 1)
  BY DEF Init, NothingLeft, Covered
<1> QED
  BY <1>2, <1>3 DEF CursorInv

\* Every step keeps the invariant.
LEMMA NextCursorInv == CursorInv /\ [Next]_vars => CursorInv'
<1> SUFFICES ASSUME CursorInv, [Next]_vars PROVE CursorInv'
  OBVIOUS
<1>1. CASE UNCHANGED vars
  <2>1. UNCHANGED <<saved, client, log, chan, doing, handled, torn, up>>
    BY <1>1 DEF vars, database, process, ingester, history
  <2>2. Types' /\ NothingLeft'
    BY <2>1 DEF CursorInv, Types, NothingLeft, client, Busy, Nobody
  <2>3. Known' = Known
    BY <2>1 DEF Known, InProgress, client, Busy
  <2> QED
    BY <2>1, <2>2, <2>3, CursorsKept DEF client
<1>2. CASE Work
  BY <1>2, ConnectStep, ReadStep, SendStep, IngestStep, AdvanceStep DEF Work, Worker
<1>3. CASE Stop \/ Disconnected \/ Crash
  BY <1>3, IngesterStopsStep, DisconnectStep, OverStep, StartStep DEF Stop
<1>4. CASE HangUp \/ Shutdown \/ \E d \in Did : Call("add", d) \/ Call("remove", d)
  BY <1>4, OtherSteps
<1> QED
  BY <1>1, <1>2, <1>3, <1>4 DEF Next

\* Every event up to the saved cursor was applied, is on its way, was cut off by
\* an error or the end of a process, or was never sent to the client.
THEOREM SavedCursorCovers == Spec => []CursorCovers
<1>1. CursorInv => CursorCovers
  BY DEF CursorInv, Covered, Known, CursorCovers
<1> QED
  BY <1>1, InitCursorInv, NextCursorInv, PTL DEF Spec
-----------------------------------------------------------------------------
(* Roles and tables                                                        *)

Fields == {"what", "did", "repo", "todo", "event"}

\* What is left of an operation.
Todos(what) == CASE what \in {"add", "remove"} ->
                        {<<"table", "roles", "watch">>, <<"roles", "watch">>, <<"watch">>}
                 [] what \in {"leave", "repo"} -> {<<"table", "roles">>, <<"roles">>}
                 [] what = "collaborator" -> {<<"roles", "watch">>, <<"watch">>}

\* An operation is about a DID, and of an event, if any; one on a repository puts it
\* into the table first.
OperationOk(o, events, registered) ==
    /\ o.what \in {"add", "remove", "leave", "repo", "collaborator"}
    /\ o.did \in Did /\ o.event \in {0} \cup events
    /\ o.todo \in Todos(o.what)
    /\ o.what = "repo" => \E n \in Name : o.repo = Repo(o.did, n)
    /\ o.what = "repo" /\ Head(o.todo) = "roles" => o.repo \in registered
    /\ o.what = "collaborator" => o.repo # Spindle

OpsInv == \A a \in Worker : Busy(a) => OperationOk(doing[a], DOMAIN log, repos)

PlacesInv ==
    /\ log \in Seq(Event)
    /\ {saved, cursor, hand, now} \subseteq 0 .. Len(log) /\ pos \in 0 .. Len(log) + 1
    /\ Len(chan) <= Capacity /\ ToSet(chan) \subseteq DOMAIN log
    /\ handled \cup torn \cup missed \subseteq DOMAIN log

TablesInv ==
    /\ members \in [Did -> {"none", "member", "owner"}] /\ watchlist \subseteq Did
    /\ repos \subseteq Did \X Name

\* Nobody but the owner owns the spindle, and who owns a repository has registered it.
RoleOk(g, registered, given) ==
    \/ \E d \in Did : g = <<d, "member", Spindle>>
    \/ g = <<Owner, "owner", Spindle>>
    \/ \E d \in Did, n \in Name : /\ g = <<d, "owner", Repo(d, n)>>
                                  /\ Repo(d, n) \in registered
                                  /\ OwnersInvite(Repo(d, n)) \in given
    \/ \E d \in Did : g = <<d, "collaborator", g[3]>> /\ g[3] # Spindle

RolesInv ==
    /\ \A g \in roles : RoleOk(g, repos, policies)
    /\ \A p \in policies : p = OwnersInvite(p[2])

\* Between the table and the roles, the table says what the roles are to be.
Midway(a) == /\ Busy(a) /\ doing[a].what \in {"add", "remove", "leave"}
             /\ Head(doing[a].todo) = "roles"
On(a, d) == Busy(a) /\ doing[a].did = d

Agree(d) == /\ IsUser(d, Spindle) => IsMember(d)
            /\ IsMember(d) => d \in unrestored \/ IsUser(d, Spindle)

AgreeInv ==
    /\ \A d \in Did \ uncertain : ~(On("ingester", d) /\ On("xrpc", d))
    /\ up => \A d \in Did \ uncertain :
           /\ \A a \in Worker : Midway(a) /\ doing[a].did = d =>
                  (IsMember(d) <=> doing[a].what = "add")
           /\ (\A a \in Worker : ~(Midway(a) /\ doing[a].did = d)) => Agree(d)

AccessInv == CursorInv /\ PlacesInv /\ TablesInv /\ OpsInv /\ RolesInv /\ AgreeInv

-----------------------------------------------------------------------------

\* How what is left of an operation shrinks.
LEMMA TodoFacts ==
    ASSUME NEW what, NEW todo \in Todos(what),
           what \in {"add", "remove", "leave", "repo", "collaborator"}
    PROVE  /\ Head(todo) \in {"table", "roles", "watch"}
           /\ Head(todo) = "table" => Len(todo) # 1 /\ what # "collaborator"
           /\ Head(todo) = "watch" => Len(todo) = 1 /\ what \notin {"leave", "repo"}
           /\ Len(todo) # 1 => /\ Tail(todo) \in Todos(what)
                               /\ Head(Tail(todo)) = "roles" <=> Head(todo) = "table"
<1>1. /\ Tail(<<"table", "roles", "watch">>) = <<"roles", "watch">>
      /\ Tail(<<"roles", "watch">>) = <<"watch">> /\ Tail(<<"table", "roles">>) = <<"roles">>
  OBVIOUS
<1>2. /\ Head(<<"table", "roles", "watch">>) = "table" /\ Head(<<"table", "roles">>) = "table"
      /\ Head(<<"roles", "watch">>) = "roles" /\ Head(<<"roles">>) = "roles"
      /\ Head(<<"watch">>) = "watch"
  OBVIOUS
<1>3. /\ Len(<<"table", "roles", "watch">>) = 3 /\ Len(<<"table", "roles">>) = 2
      /\ Len(<<"roles", "watch">>) = 2 /\ Len(<<"roles">>) = 1 /\ Len(<<"watch">>) = 1
  OBVIOUS
<1>4. CASE what \in {"add", "remove"}
  <2>1. Todos(what) = {<<"table", "roles", "watch">>, <<"roles", "watch">>, <<"watch">>}
    BY <1>4 DEF Todos
  <2>2. CASE todo = <<"table", "roles", "watch">>
    BY <1>1, <1>2, <1>3, <1>4, <2>1, <2>2
  <2>3. CASE todo = <<"roles", "watch">>
    BY <1>1, <1>2, <1>3, <1>4, <2>1, <2>3
  <2>4. CASE todo = <<"watch">>
    BY <1>2, <1>3, <1>4, <2>4
  <2> QED
    BY <2>1, <2>2, <2>3, <2>4
<1>5. CASE what \in {"leave", "repo"}
  <2>1. Todos(what) = {<<"table", "roles">>, <<"roles">>}
    BY <1>5 DEF Todos
  <2>2. CASE todo = <<"table", "roles">>
    BY <1>1, <1>2, <1>3, <1>5, <2>1, <2>2
  <2>3. CASE todo = <<"roles">>
    BY <1>2, <1>3, <1>5, <2>3
  <2> QED
    BY <2>1, <2>2, <2>3
<1>6. CASE what = "collaborator"
  <2>1. Todos(what) = {<<"roles", "watch">>, <<"watch">>}
    BY <1>6 DEF Todos
  <2> QED
    BY <1>1, <1>2, <1>3, <1>6, <2>1
<1> QED
  BY <1>4, <1>5, <1>6

\* How an operation begins.
LEMMA OperationFacts ==
    ASSUME NEW what \in {"add", "remove", "leave", "repo", "collaborator"}, NEW d, NEW r, NEW i
    PROVE  LET o == Operation(what, d, r, i)
           IN  /\ o # Idle /\ DOMAIN o = Fields
               /\ o.what = what /\ o.did = d /\ o.repo = r /\ o.event = i
               /\ o.todo \in Todos(what)
               /\ Head(o.todo) = IF what = "collaborator" THEN "roles" ELSE "table"
<1> DEFINE o == Operation(what, d, r, i)
<1>1. /\ DOMAIN o = Fields /\ o.what = what /\ o.did = d /\ o.repo = r /\ o.event = i
      /\ o.todo = Steps(what)
  BY DEF Operation, Fields
<1>2. o # Idle
  BY <1>1 DEF Idle, Fields
<1>3. /\ Steps(what) \in Todos(what)
      /\ Head(Steps(what)) = IF what = "collaborator" THEN "roles" ELSE "table"
  <2>1. CASE what \in {"add", "remove"}
    BY <2>1 DEF Todos, Steps
  <2>2. CASE what \in {"leave", "repo"}
    BY <2>2 DEF Todos, Steps
  <2>3. CASE what = "collaborator"
    BY <2>3 DEF Todos, Steps
  <2> QED
    BY <2>1, <2>2, <2>3
<1> HIDE DEF o
<1> QED
  BY <1>1, <1>2, <1>3 DEF o

\* What an event asks for is about a DID, and a repository where it needs one.
LEMMA WhatIsAsked ==
    ASSUME NEW e \in Event, What(e) # "ignore"
    PROVE  /\ What(e) \in {"add", "leave", "repo", "collaborator"}
           /\ Whom(e) \in Did
           /\ What(e) = "repo" => \E n \in Name : Which(e) = Repo(Whom(e), n)
           /\ What(e) = "collaborator" => Which(e) # Spindle
<1>1. \/ e.kind \in {"member", "collaborator"} /\ e.about \in Did \cup {Junk}
      \/ e.kind = "repo" /\ e.about \in Name \cup {Junk}
      \/ e.kind = "other" /\ e.about = Junk
  BY DEF Event, Of
<1>2. e.author \in Did
  BY DEF Event, Of
<1>3. CASE e.kind = "member"
  BY <1>1, <1>2, <1>3 DEF What, Whom, Which
<1>4. CASE e.kind = "collaborator"
  <2>1. What(e) = "collaborator" /\ e.about \in Did
    BY <1>1, <1>4 DEF What
  <2>2. Which(e) = Repo(e.author, CHOOSE n \in Name : TRUE)
    BY <2>1 DEF Which
  <2> QED
    BY <2>1, <2>2 DEF Whom, Repo, Spindle
<1>5. CASE e.kind = "repo"
  BY <1>1, <1>2, <1>5 DEF What, Whom, Which
<1> QED
  BY <1>1, <1>3, <1>4, <1>5 DEF What

\* The steps, by what they are to the tables, the roles and the workers.
Aside == UNCHANGED <<log, members, watchlist, repos, rbac, doing, up, uncertain, unrestored>>

\* Every step is one of these.
LEMMA StepCases ==
    ASSUME [Next]_vars
    PROVE  \/ \E a \in Worker : Advance(a)
           \/ \E w \in {"add", "remove"}, d \in Did : Call(w, d)
           \/ HangUp \/ Ingest \/ Start \/ Exit \/ Crash
           \/ Aside
<1>1. CASE UNCHANGED vars
  BY <1>1 DEF vars, Aside, database, process, history
<1>2. CASE Connect \/ Read \/ Send \/ IngesterStops \/ ClientStops \/ Disconnected \/ Shutdown
  BY <1>2 DEF Aside, Connect, Read, Send, IngesterStops, ClientStops, Disconnected, Shutdown,
              database, process, rbac, history
<1> QED
  BY <1>1, <1>2 DEF Next, Work, Stop, Worker

\* A step of an operation, as the tables and the roles see it.
LEMMA AdvanceFacts ==
    ASSUME AccessInv, NEW a \in Worker, Advance(a)
    PROVE  /\ Busy(a) /\ DOMAIN doing' = Worker
           /\ DOMAIN doing[a] = Fields /\ OperationOk(doing[a], DOMAIN log, repos)
           /\ UNCHANGED <<log, saved, up, chan, cursor, pos, hand, now, missed, uncertain,
                          unrestored>>
           /\ \A b \in Worker : b # a => doing'[b] = doing[b]
           /\ \/ /\ Head(doing[a].todo) # "roles" /\ doing'[a] = Idle
                 /\ UNCHANGED <<members, watchlist, repos, rbac>>
                 /\ Finished(doing[a], FALSE)
              \/ /\ Tables(doing[a], Head(doing[a].todo)) /\ Roles(doing[a], Head(doing[a].todo))
                 /\ doing'[a] = Idle
                 /\ Ends(doing[a], Head(doing[a].todo)) /\ Finished(doing[a], TRUE)
              \/ /\ Tables(doing[a], Head(doing[a].todo)) /\ Roles(doing[a], Head(doing[a].todo))
                 /\ doing'[a] = [doing[a] EXCEPT !.todo = Tail(@)]
                 /\ ~Ends(doing[a], Head(doing[a].todo)) /\ UNCHANGED <<handled, torn>>
<1>1. DOMAIN doing = Worker /\ Busy(a) /\ DOMAIN doing[a] = Fields
  BY DEF AccessInv, CursorInv, Types, Advance, Fields
<1>2. OperationOk(doing[a], DOMAIN log, repos)
  BY <1>1 DEF AccessInv, OpsInv
<1>3. UNCHANGED <<log, saved, up, chan, cursor, pos, hand, now, missed, uncertain, unrestored>>
  BY DEF Advance, process, client, ingester
<1>4. /\ \A b \in Worker : b # a => doing'[b] = doing[b]
      /\ DOMAIN doing' = Worker
  BY <1>1 DEF Advance
<1>5. doing' = [doing EXCEPT ![a] = Idle] => doing'[a] = Idle
  BY <1>1
<1>6. doing' = [doing EXCEPT ![a].todo = Tail(@)] => doing'[a] = [doing[a] EXCEPT !.todo = Tail(@)]
  BY <1>1
<1> QED
  BY <1>1, <1>2, <1>3, <1>4, <1>5, <1>6 DEF Advance, rbac

\* Operations stay what they are.
LEMMA OpsStep == ASSUME AccessInv, [Next]_vars PROVE OpsInv'
<1> USE DEF Worker
<1>1. DOMAIN doing = Worker /\ log \in Seq(Event)
  BY DEF AccessInv, CursorInv, Types, PlacesInv
<1>2. ASSUME log' = log, repos \subseteq repos', NEW b \in Worker,
             doing'[b] \in {doing[b], Idle}
      PROVE  Busy(b)' => OperationOk(doing'[b], DOMAIN log', repos')
  BY <1>2 DEF AccessInv, OpsInv, OperationOk, Busy
<1>3. ASSUME NEW a \in Worker, Advance(a) PROVE OpsInv'
  <2>1. log' = log /\ \A b \in Worker : b # a => doing'[b] = doing[b]
    BY <1>3, AdvanceFacts
  <2>2. repos \subseteq repos'
    BY <1>3, AdvanceFacts DEF Tables
  <2>3. CASE doing'[a] = Idle
    BY <1>2, <2>1, <2>2, <2>3 DEF OpsInv
  <2>4. CASE doing'[a] # Idle
    <3> DEFINE o == doing[a]
    <3>1. /\ Tables(o, Head(o.todo)) /\ ~Ends(o, Head(o.todo)) /\ DOMAIN o = Fields
          /\ doing'[a] = [o EXCEPT !.todo = Tail(@)] /\ OperationOk(o, DOMAIN log, repos)
      BY <1>3, <2>4, AdvanceFacts
    <3>2. Len(o.todo) # 1
      BY <3>1 DEF Ends
    <3>3. /\ doing'[a].what = o.what /\ doing'[a].did = o.did /\ doing'[a].repo = o.repo
          /\ doing'[a].event = o.event /\ doing'[a].todo = Tail(o.todo)
      BY <3>1 DEF Fields
    <3> HIDE DEF o
    <3>4. o.what \in {"add", "remove", "leave", "repo", "collaborator"} /\ o.todo \in Todos(o.what)
      BY <3>1 DEF OperationOk
    <3>5. /\ Tail(o.todo) \in Todos(o.what)
          /\ Head(Tail(o.todo)) = "roles" => Head(o.todo) = "table"
      BY <3>2, <3>4, TodoFacts
    <3>6. o.what = "repo" /\ Head(o.todo) = "table" => o.repo \in repos'
      BY <3>1 DEF Tables
    <3>7. OperationOk(doing'[a], DOMAIN log', repos')
      BY <2>1, <3>1, <3>3, <3>4, <3>5, <3>6 DEF OperationOk
    <3>8. \A b \in Worker : b # a => (Busy(b)' => OperationOk(doing'[b], DOMAIN log', repos'))
      BY <1>2, <2>1, <2>2
    <3> QED
      BY <3>7, <3>8 DEF OpsInv
  <2> QED
    BY <2>3, <2>4
<1>4. ASSUME NEW w \in {"add", "remove"}, NEW d \in Did, Call(w, d) PROVE OpsInv'
  <2>1. /\ log' = log /\ repos' = repos /\ doing'["ingester"] = doing["ingester"]
        /\ doing'["xrpc"] = Operation(w, d, Spindle, 0)
    BY <1>1, <1>4 DEF Call, database
  <2>2. OperationOk(Operation(w, d, Spindle, 0), DOMAIN log, repos)
    BY OperationFacts DEF OperationOk
  <2> QED
    BY <1>2, <2>1, <2>2 DEF OpsInv
<1>5. CASE Ingest
  <2>1. log' = log /\ repos' = repos
    BY <1>5 DEF Ingest, database
  <2>2. CASE doing' = doing
    BY <1>2, <2>1, <2>2 DEF OpsInv
  <2>3. CASE doing' # doing
    <3> DEFINE i == Head(chan)
               e == log[i]
    <3>1. /\ What(e) # "ignore"
          /\ doing' = [doing EXCEPT !["ingester"] = Operation(What(e), Whom(e), Which(e), i)]
      BY <1>5, <2>3 DEF Ingest
    <3>2. i \in DOMAIN log /\ e \in Event
      <4>1. i \in ToSet(chan)
        BY <1>5, ToSetInTail DEF AccessInv, CursorInv, Types, Ingest
      <4>2. i \in DOMAIN log
        BY <4>1 DEF AccessInv, PlacesInv
      <4> QED
        BY <1>1, <4>2
    <3>3. /\ doing'["ingester"] = Operation(What(e), Whom(e), Which(e), i)
          /\ doing'["xrpc"] = doing["xrpc"]
      BY <1>1, <3>1
    <3> HIDE DEF e, i
    <3>4. OperationOk(Operation(What(e), Whom(e), Which(e), i), DOMAIN log, repos)
      BY <3>1, <3>2, WhatIsAsked, OperationFacts DEF OperationOk
    <3> QED
      BY <1>2, <2>1, <3>3, <3>4 DEF OpsInv
  <2> QED
    BY <2>2, <2>3
<1>6. CASE HangUp
  <2>1. log' = log /\ repos' = repos /\ \A b \in Worker : doing'[b] \in {doing[b], Idle}
    BY <1>1, <1>6 DEF HangUp, database
  <2> QED
    BY <1>2, <2>1 DEF OpsInv
<1>7. CASE Start \/ Exit \/ Crash
  <2>1. \A b \in Worker : doing'[b] = Idle
    BY <1>7 DEF Start, Exit, Crash, Over, Nobody
  <2> QED
    BY <2>1 DEF OpsInv, Busy
<1>8. CASE Aside
  BY <1>2, <1>8 DEF OpsInv, Aside
<1> QED
  BY <1>3, <1>4, <1>5, <1>6, <1>7, <1>8, StepCases

\* The tables keep their types.
LEMMA TablesStep == ASSUME AccessInv, [Next]_vars PROVE TablesInv'
<1>1. TablesInv
  BY DEF AccessInv
<1>2. ASSUME NEW a \in Worker, Advance(a) PROVE TablesInv'
  <2> DEFINE o == doing[a]
  <2>1. /\ OperationOk(o, DOMAIN log, repos)
        /\ \/ UNCHANGED <<members, watchlist, repos>>
           \/ Tables(o, Head(o.todo))
    BY <1>2, AdvanceFacts
  <2> HIDE DEF o
  <2>2. CASE UNCHANGED <<members, watchlist, repos>>
    BY <1>1, <2>2 DEF TablesInv
  <2>3. CASE Tables(o, Head(o.todo))
    <3>1. o.did \in Did /\ (o.what = "repo" => o.repo \in Did \X Name)
      BY <2>1 DEF OperationOk, Repo
    <3>2. members' \in [Did -> {"none", "member", "owner"}]
      BY <1>1, <2>3, <3>1 DEF TablesInv, Tables, InsertMember, RemoveMember
    <3> QED
      BY <1>1, <2>3, <3>1, <3>2 DEF TablesInv, Tables
  <2> QED
    BY <2>1, <2>2, <2>3
<1>3. CASE Start
  BY <1>1, <1>3, AccessAssumption DEF TablesInv, Start, InsertMember
<1>4. CASE (\E w \in {"add", "remove"}, d \in Did : Call(w, d)) \/ HangUp \/ Ingest \/ Exit \/ Crash
           \/ Aside
  <2>1. UNCHANGED <<members, watchlist, repos>>
    BY <1>4 DEF Call, HangUp, Ingest, Exit, Crash, Over, Aside, database
  <2> QED
    BY <1>1, <2>1 DEF TablesInv
<1> QED
  BY <1>2, <1>3, <1>4, StepCases

\* A role that was right stays right while nothing is unregistered.
LEMMA RoleStays ==
    ASSUME NEW g, RoleOk(g, repos, policies), repos \subseteq repos', policies \subseteq policies'
    PROVE  RoleOk(g, repos', policies')
  BY DEF RoleOk

\* Roles are given to whom they are due.
LEMMA RolesStep == ASSUME AccessInv, [Next]_vars PROVE RolesInv'
<1>1. RolesInv
  BY DEF AccessInv
<1>2. ASSUME NEW a \in Worker, Advance(a) PROVE RolesInv'
  <2> DEFINE o == doing[a]
             step == Head(o.todo)
  <2>1. /\ OperationOk(o, DOMAIN log, repos)
        /\ \/ UNCHANGED <<repos, roles, policies>>
           \/ Tables(o, step) /\ Roles(o, step)
    BY <1>2, AdvanceFacts DEF rbac
  <2> HIDE DEF o
  <2>2. CASE UNCHANGED <<repos, roles, policies>>
    BY <1>1, <2>2 DEF RolesInv, RoleOk
  <2>3. CASE Tables(o, step) /\ Roles(o, step)
    <3>1. repos \subseteq repos' /\ policies \subseteq policies'
      BY <2>3 DEF Tables, Roles
    <3>2. \A g \in roles : RoleOk(g, repos', policies')
      BY <1>1, <3>1, RoleStays DEF RolesInv
    <3>3. \A p \in policies' : p = OwnersInvite(p[2])
      <4>1. \A p \in policies' : p \in policies \/ p = OwnersInvite(o.repo)
        BY <2>3 DEF Roles
      <4>2. OwnersInvite(o.repo) = OwnersInvite(OwnersInvite(o.repo)[2])
        BY DEF OwnersInvite
      <4> QED
        BY <1>1, <4>1, <4>2 DEF RolesInv
    <3>4. CASE step # "roles" \/ o.what \in {"leave", "remove"}
      <4>1. roles' \subseteq roles
        BY <2>3, <3>4 DEF Roles, Granted
      <4> QED
        BY <3>2, <3>3, <4>1 DEF RolesInv
    <3>5. CASE step = "roles" /\ o.what = "add"
      <4>1. RoleOk(<<o.did, "member", Spindle>>, repos', policies')
        BY <2>1 DEF OperationOk, RoleOk
      <4>2. roles' = roles \cup {<<o.did, "member", Spindle>>}
        BY <2>3, <3>5 DEF Roles, Granted
      <4> QED
        BY <3>2, <3>3, <4>1, <4>2 DEF RolesInv
    <3>6. CASE step = "roles" /\ o.what = "repo"
      <4>1. /\ roles' = roles \cup {<<o.did, "owner", o.repo>>}
            /\ OwnersInvite(o.repo) \in policies'
        BY <2>3, <3>6 DEF Roles, Granted
      <4>2. /\ o.did \in Did /\ o.repo \in repos'
            /\ \E n \in Name : o.repo = Repo(o.did, n)
        BY <2>1, <3>1, <3>6 DEF OperationOk
      <4>3. RoleOk(<<o.did, "owner", o.repo>>, repos', policies')
        BY <4>1, <4>2 DEF RoleOk
      <4> QED
        BY <3>2, <3>3, <4>1, <4>3 DEF RolesInv
    <3>7. CASE step = "roles" /\ o.what = "collaborator"
      <4>1. o.did \in Did /\ o.repo # Spindle
        BY <2>1, <3>7 DEF OperationOk
      <4>2. RoleOk(<<o.did, "collaborator", o.repo>>, repos', policies')
        BY <4>1 DEF RoleOk
      <4>3. roles' = roles \cup {<<o.did, "collaborator", o.repo>>}
        BY <2>3, <3>7 DEF Roles, Granted
      <4> QED
        BY <3>2, <3>3, <4>2, <4>3 DEF RolesInv
    <3> QED
      BY <2>1, <3>4, <3>5, <3>6, <3>7 DEF OperationOk
  <2> QED
    BY <2>1, <2>2, <2>3
<1>3. CASE Start
  <2>1. roles' = {<<Owner, "owner", Spindle>>} /\ policies' = {OwnersInvite(Spindle)}
    BY <1>3 DEF Start, Bootstrap
  <2>2. OwnersInvite(Spindle) = OwnersInvite(OwnersInvite(Spindle)[2])
    BY DEF OwnersInvite
  <2>3. RoleOk(<<Owner, "owner", Spindle>>, repos', policies')
    BY DEF RoleOk
  <2> QED
    BY <2>1, <2>2, <2>3 DEF RolesInv
<1>4. CASE Exit \/ Crash
  BY <1>4 DEF Exit, Crash, Over, NewEnforcer, RolesInv
<1>5. CASE (\E w \in {"add", "remove"}, d \in Did : Call(w, d)) \/ HangUp \/ Ingest \/ Aside
  <2>1. UNCHANGED <<repos, roles, policies>>
    BY <1>5 DEF Call, HangUp, Ingest, Aside, database, rbac
  <2> QED
    BY <1>1, <2>1 DEF RolesInv, RoleOk
<1> QED
  BY <1>2, <1>3, <1>4, <1>5, StepCases

\* Who has a role on the spindle is a member, or its owner.
LEMMA RolesOnSpindle ==
    ASSUME RolesInv, NEW g \in roles, g[3] = Spindle
    PROVE  \/ g = <<g[1], "member", Spindle>>
           \/ g = <<g[1], "owner", Spindle>>
<1>1. CASE \E d \in Did, n \in Name : g = <<d, "owner", Repo(d, n)>>
  BY <1>1 DEF Repo, Spindle
<1>2. CASE \E d \in Did : g = <<d, "member", Spindle>>
  BY <1>2
<1>3. CASE g = <<Owner, "owner", Spindle>>
  BY <1>3
<1> QED
  BY <1>1, <1>2, <1>3 DEF RolesInv, RoleOk

\* Steps that leave the tables, the roles and an operation on d alone leave d as it was.
LEMMA AgreeKept ==
    ASSUME AgreeInv, up, NEW d \in Did \ uncertain, members'[d] = members[d],
           IsUser(d, Spindle)' = IsUser(d, Spindle), unrestored' = unrestored,
           \A a \in Worker : Midway(a)' /\ doing'[a].did = d
                                 <=> Midway(a) /\ doing[a].did = d,
           \A a \in Worker : Midway(a)' /\ doing'[a].did = d => doing'[a].what = doing[a].what
    PROVE  /\ \A a \in Worker : Midway(a)' /\ doing'[a].did = d =>
                  (IsMember(d)' <=> doing'[a].what = "add")
           /\ (\A a \in Worker : ~(Midway(a)' /\ doing'[a].did = d)) => Agree(d)'
<1>1. IsMember(d)' = IsMember(d)
  BY DEF IsMember
<1>2. (\A a \in Worker : ~(Midway(a) /\ doing[a].did = d)) => Agree(d)
  BY DEF AgreeInv
<1>3. Agree(d)' = Agree(d)
  BY <1>1 DEF Agree
<1>4. \A a \in Worker : Midway(a)' /\ doing'[a].did = d => (IsMember(d) <=> doing[a].what = "add")
  BY DEF AgreeInv
<1> QED
  BY <1>1, <1>2, <1>3, <1>4

\* What AgreeInv says of one DID.
AgreeOn(d) ==
    /\ \A a \in Worker : Midway(a) /\ doing[a].did = d => (IsMember(d) <=> doing[a].what = "add")
    /\ (\A a \in Worker : ~(Midway(a) /\ doing[a].did = d)) => Agree(d)

\* A step of an operation on one DID is none on another.
LEMMA AdvanceElsewhere ==
    ASSUME AccessInv, up, NEW a \in Worker, Advance(a), NEW d \in Did \ uncertain,
           doing[a].did # d
    PROVE  AgreeOn(d)'
<1> DEFINE o == doing[a]
           step == Head(o.todo)
<1>1. /\ OperationOk(o, DOMAIN log, repos) /\ DOMAIN o = Fields /\ unrestored' = unrestored
      /\ \A b \in Worker : b # a => doing'[b] = doing[b]
      /\ \/ UNCHANGED <<members, roles>>
         \/ Tables(o, step) /\ Roles(o, step)
      /\ doing'[a] = Idle \/ doing'[a] = [o EXCEPT !.todo = Tail(@)]
  BY AdvanceFacts DEF rbac
<1>2. doing'[a] = Idle \/ doing'[a].did # d
  BY <1>1 DEF Fields
<1>3. \A b \in Worker : Midway(b)' /\ doing'[b].did = d <=> Midway(b) /\ doing[b].did = d
  BY <1>1, <1>2 DEF Midway, Busy
<1>4. \A b \in Worker : Midway(b)' /\ doing'[b].did = d => doing'[b].what = doing[b].what
  BY <1>1, <1>2 DEF Midway, Busy
<1> HIDE DEF o
<1>5. members \in [Did -> {"none", "member", "owner"}] /\ o.did # d
  BY DEF AccessInv, TablesInv, o
<1>6. members'[d] = members[d]
  BY <1>1, <1>5 DEF Tables, InsertMember, RemoveMember
<1>7. \A g : g[1] = d => (g \in roles' <=> g \in roles)
  <2>1. CASE step # "roles" \/ roles' = roles
    BY <1>1, <2>1 DEF Roles
  <2>2. CASE step = "roles" /\ roles' # roles
    <3>1. roles' = Granted(o)
      BY <1>1, <2>2 DEF Roles
    <3>2. \A r : <<o.did, "member", Spindle>>[1] # d /\ <<o.did, "owner", r>>[1] # d
                 /\ <<o.did, "collaborator", r>>[1] # d
      BY <1>5
    <3> QED
      BY <3>1, <3>2 DEF Granted, SpindleRoles
  <2> QED
    BY <2>1, <2>2
<1>8. IsUser(d, Spindle)' = IsUser(d, Spindle)
  BY <1>7 DEF IsUser
<1> QED
  BY <1>1, <1>3, <1>4, <1>6, <1>8, AgreeKept DEF AccessInv, AgreeOn

\* A step of the only operation on a DID.
LEMMA AdvanceHere ==
    ASSUME AccessInv, up, NEW a \in Worker, Advance(a), NEW d \in Did \ uncertain,
           doing[a].did = d
    PROVE  AgreeOn(d)'
<1> DEFINE o == doing[a]
           step == Head(o.todo)
<1>1. /\ OperationOk(o, DOMAIN log, repos) /\ DOMAIN o = Fields /\ unrestored' = unrestored
      /\ Busy(a) /\ \A b \in Worker : b # a => doing'[b] = doing[b]
  BY AdvanceFacts
<1>2. \/ step # "roles" /\ doing'[a] = Idle /\ UNCHANGED <<members, roles>>
      \/ Tables(o, step) /\ Roles(o, step) /\ Ends(o, step) /\ doing'[a] = Idle
      \/ /\ Tables(o, step) /\ Roles(o, step) /\ ~Ends(o, step)
         /\ doing'[a] = [o EXCEPT !.todo = Tail(@)]
  BY AdvanceFacts DEF rbac
<1>3. \A b \in Worker : b # a => /\ ~(Midway(b) /\ doing[b].did = d)
                                 /\ ~(Midway(b)' /\ doing'[b].did = d)
  BY <1>1 DEF AccessInv, AgreeInv, On, Midway, Busy, Worker
<1>4. /\ Midway(a) <=> o.what \in {"add", "remove", "leave"} /\ step = "roles"
      /\ doing'[a] = Idle => ~Midway(a)'
      /\ doing'[a] # Idle => /\ doing'[a].what = o.what /\ doing'[a].did = d
                             /\ doing'[a].todo = Tail(o.todo)
  BY <1>1, <1>2 DEF Midway, Busy, Fields
<1>5. /\ step \in {"table", "roles", "watch"}
      /\ step = "table" => Len(o.todo) # 1 /\ o.what # "collaborator"
      /\ step = "watch" => Len(o.todo) = 1 /\ o.what \notin {"leave", "repo"}
      /\ Len(o.todo) # 1 => (Head(Tail(o.todo)) = "roles" <=> step = "table")
  BY <1>1, TodoFacts DEF OperationOk
<1>6. Midway(a)' <=> /\ doing'[a] # Idle /\ o.what \in {"add", "remove", "leave"}
                     /\ step = "table"
  BY <1>2, <1>4, <1>5 DEF Midway, Busy, Ends
<1>7. AgreeOn(d)
  BY DEF AccessInv, AgreeInv, AgreeOn
<1>8. /\ members \in [Did -> {"none", "member", "owner"}] /\ RolesInv
      /\ o.what \in {"add", "remove", "leave", "repo", "collaborator"} /\ o.did = d
  BY <1>1 DEF AccessInv, TablesInv, OperationOk
<1>9. o.what = "repo" => o.repo # Spindle
  <2>1. \A n : Repo(o.did, n) # Spindle
    BY DEF Repo, Spindle
  <2> QED
    BY <1>1, <2>1 DEF OperationOk
<1>10. o.what = "collaborator" => o.repo # Spindle
  BY <1>1 DEF OperationOk
<1>11. doing'[a] = Idle => Ends(o, step) \/ UNCHANGED members
  <2>1. DOMAIN [o EXCEPT !.todo = Tail(@)] = Fields /\ DOMAIN Idle # Fields
    BY <1>1 DEF Idle, Fields
  <2> QED
    BY <1>2, <2>1
<1> HIDE DEF o
\* What changes neither the row nor the roles on the spindle, and is no step between.
<1>12. ASSUME members'[d] = members[d], IsUser(d, Spindle)' = IsUser(d, Spindle),
              ~Midway(a), ~Midway(a)'
       PROVE  AgreeOn(d)'
  <2>1. Agree(d)
    BY <1>3, <1>7, <1>12 DEF AgreeOn
  <2>2. Agree(d)'
    BY <1>1, <1>12, <2>1 DEF Agree, IsMember
  <2> QED
    BY <1>3, <1>12, <2>2 DEF AgreeOn
<1>13. CASE step # "roles" /\ UNCHANGED <<members, roles>> /\ ~Midway(a)'
  BY <1>4, <1>12, <1>13 DEF IsUser
<1>14. CASE o.what \in {"repo", "collaborator"} /\ Tables(o, step) /\ Roles(o, step)
  <2>1. ~Midway(a) /\ ~Midway(a)'
    BY <1>4, <1>6, <1>14
  <2>2. members' = members
    BY <1>5, <1>14 DEF Tables
  <2>3. \A g : g[3] = Spindle => (g \in roles' <=> g \in roles)
    <3>1. <<o.did, "owner", o.repo>>[3] = o.repo /\ <<o.did, "collaborator", o.repo>>[3] = o.repo
      OBVIOUS
    <3> QED
      BY <1>9, <1>10, <1>14, <3>1 DEF Roles, Granted
  <2>4. IsUser(d, Spindle)' = IsUser(d, Spindle)
    BY <2>3 DEF IsUser
  <2> QED
    BY <1>12, <2>1, <2>2, <2>4
<1>15. CASE o.what \in {"add", "remove", "leave"} /\ step = "table" /\ Tables(o, step)
            /\ Roles(o, step)
  <2>1. roles' = roles
    BY <1>15 DEF Roles
  <2>2. CASE doing'[a] = Idle
    <3>1. ASSUME Ends(o, step) PROVE members'[d] = members[d]
      <4>1. ~IsMember(d) /\ o.what = "leave"
        BY <1>5, <1>8, <1>15, <3>1 DEF Ends
      <4> QED
        BY <1>8, <1>15, <4>1 DEF Tables, RemoveMember, IsMember
    <3>2. members'[d] = members[d]
      <4>1. Ends(o, step) \/ UNCHANGED members
        BY <1>11, <2>2
      <4> QED
        BY <3>1, <4>1
    <3> QED
      BY <1>4, <1>6, <1>12, <1>15, <2>1, <2>2, <3>2 DEF IsUser
  <2>3. CASE doing'[a] # Idle
    <3>1. IsMember(d)' <=> o.what = "add"
      BY <1>8, <1>15 DEF Tables, InsertMember, RemoveMember, IsMember
    <3>2. Midway(a)' /\ doing'[a].did = d /\ doing'[a].what = o.what
      BY <1>4, <1>6, <1>15, <2>3 DEF o
    <3> QED
      BY <1>3, <3>1, <3>2 DEF AgreeOn
  <2> QED
    BY <2>2, <2>3
<1>16. CASE o.what \in {"add", "remove", "leave"} /\ step = "roles" /\ Tables(o, step)
            /\ Roles(o, step)
  <2>1. Midway(a) /\ ~Midway(a)' /\ doing[a].did = d
    BY <1>4, <1>6, <1>16
  <2>2. IsMember(d) <=> o.what = "add"
    BY <1>7, <2>1 DEF AgreeOn, o
  <2>3. IsMember(d)' = IsMember(d)
    BY <1>16 DEF Tables, IsMember
  <2>4. CASE o.what = "add"
    <3>1. <<d, "member", Spindle>> \in roles'
      BY <1>8, <1>16, <2>4 DEF Roles, Granted
    <3>2. IsUser(d, Spindle)'
      BY <3>1 DEF IsUser
    <3> QED
      BY <1>3, <2>1, <2>2, <2>3, <2>4, <3>2 DEF AgreeOn, Agree
  <2>5. CASE o.what # "add"
    <3>1. roles' = roles \ {<<d, "member", Spindle>>, <<d, "owner", Spindle>>}
      BY <1>8, <1>16, <2>5 DEF Roles, Granted, SpindleRoles
    <3>2. ~IsUser(d, Spindle)'
      BY <1>8, <3>1, RolesOnSpindle DEF IsUser
    <3> QED
      BY <1>3, <2>1, <2>2, <2>3, <2>5, <3>2 DEF AgreeOn, Agree
  <2> QED
    BY <2>4, <2>5
<1>17. CASE step = "watch" /\ Tables(o, step) /\ Roles(o, step)
  <2>1. members' = members /\ roles' = roles
    BY <1>17 DEF Tables, Roles
  <2>2. ~Midway(a)'
    BY <1>6, <1>17
  <2> QED
    BY <1>13, <1>17, <2>1, <2>2
<1> QED
  BY <1>2, <1>4, <1>5, <1>8, <1>13, <1>14, <1>15, <1>16, <1>17 DEF o

\* The roles follow the tables, an operation at a time.
LEMMA AgreeStep == ASSUME AccessInv, [Next]_vars PROVE AgreeInv'
<1>1. /\ DOMAIN doing = Worker /\ AgreeInv
      /\ \A a \in Worker : Busy(a) => DOMAIN doing[a] = Fields
  BY DEF AccessInv, CursorInv, Types, Fields
<1>2. ASSUME up' => up /\ \A d \in Did \ uncertain' : AgreeOn(d)',
             \A d \in Did \ uncertain' : ~(On("ingester", d)' /\ On("xrpc", d)')
      PROVE  AgreeInv'
  BY <1>2 DEF AgreeInv, AgreeOn
<1>3. ASSUME NEW a \in Worker, Advance(a) PROVE AgreeInv'
  <2>1. up' = up /\ uncertain' = uncertain /\ Busy(a) /\ DOMAIN doing[a] = Fields
    BY <1>3, AdvanceFacts
  <2>2. ASSUME NEW d \in Did \ uncertain, NEW b \in Worker, On(b, d)' PROVE On(b, d)
    <3>1. CASE b # a
      BY <1>3, <2>2, <3>1, AdvanceFacts DEF On, Busy
    <3>2. CASE b = a
      BY <1>3, <2>1, <2>2, <3>2, AdvanceFacts DEF On, Busy, Fields
    <3> QED
      BY <3>1, <3>2
  <2>3. up => \A d \in Did \ uncertain : AgreeOn(d)'
    BY <1>3, AdvanceElsewhere, AdvanceHere
  <2> QED
    BY <1>1, <1>2, <2>1, <2>2, <2>3 DEF AgreeInv, Worker
<1>4. ASSUME NEW b \in Worker, NEW c \in Worker, c # b, NEW o, NEW e, o # Idle,
             Head(o.todo) = "roles" => o.what \notin {"add", "remove", "leave"},
             e = o.did, ~Busy(b), doing' = [doing EXCEPT ![b] = o],
             uncertain' = uncertain \cup Overlap(e), UNCHANGED <<members, rbac, unrestored, up>>
      PROVE  AgreeInv'
  <2>1. doing'[b] = o /\ doing'[c] = doing[c] /\ \A x \in Worker : x = b \/ x = c
    BY <1>1, <1>4 DEF Worker
  <2>2. ~Midway(b) /\ ~Midway(b)' /\ (Midway(c)' <=> Midway(c))
    BY <1>4, <2>1 DEF Midway, Busy
  <2>3. ASSUME NEW d \in Did \ uncertain', On(b, d)', On(c, d)' PROVE FALSE
    <3>1. Busy(c) /\ doing[c].did = d /\ e = d
      BY <1>4, <2>1, <2>3 DEF On, Busy
    <3>2. d \in Overlap(e)
      BY <1>1, <3>1 DEF Overlap
    <3> QED
      BY <1>4, <2>3, <3>2
  <2>4. ASSUME up, NEW d \in Did \ uncertain' PROVE AgreeOn(d)'
    <3>1. d \in Did \ uncertain
      BY <1>4, <2>4
    <3>2. \A x \in Worker : Midway(x)' /\ doing'[x].did = d <=> Midway(x) /\ doing[x].did = d
      BY <2>1, <2>2
    <3>3. \A x \in Worker : Midway(x)' /\ doing'[x].did = d => doing'[x].what = doing[x].what
      BY <2>1, <2>2
    <3>4. IsUser(d, Spindle)' = IsUser(d, Spindle)
      BY <1>4 DEF IsUser, rbac
    <3> QED
      BY <1>1, <1>4, <2>4, <3>1, <3>2, <3>3, <3>4, AgreeKept DEF AgreeOn
  <2> QED
    BY <1>2, <1>4, <2>1, <2>3, <2>4 DEF Worker
<1>5. ASSUME NEW w \in {"add", "remove"}, NEW d \in Did, Call(w, d) PROVE AgreeInv'
  <2> DEFINE o == Operation(w, d, Spindle, 0)
  <2>1. o # Idle /\ o.did = d /\ (Head(o.todo) = "roles" => o.what = "collaborator")
    BY OperationFacts
  <2>2. /\ ~Busy("xrpc") /\ doing' = [doing EXCEPT !["xrpc"] = o]
        /\ uncertain' = uncertain \cup Overlap(d) /\ UNCHANGED <<members, rbac, unrestored, up>>
    BY <1>5 DEF Call, database, process
  <2> HIDE DEF o
  <2>3. "xrpc" \in Worker /\ "ingester" \in Worker /\ "xrpc" # "ingester"
    BY DEF Worker
  <2> QED
    BY <1>4, <2>1, <2>2, <2>3
<1>6. CASE Ingest
  <2> DEFINE e == log[Head(chan)]
             o == Operation(What(e), Whom(e), Which(e), Head(chan))
  <2>1. UNCHANGED <<members, rbac, unrestored, up>> /\ ~Busy("ingester")
    BY <1>6 DEF Ingest, database, process
  <2>2. CASE doing' = doing /\ uncertain' = uncertain
    <3>1. UNCHANGED <<doing, uncertain, members, rbac, unrestored, up>>
      BY <2>1, <2>2
    <3> QED
      BY <1>1, <3>1 DEF AgreeInv, On, Busy, Midway, IsMember, Agree, IsUser, rbac
  <2>3. CASE /\ What(e) # "ignore" /\ doing' = [doing EXCEPT !["ingester"] = o]
             /\ uncertain' = uncertain \cup Overlap(Whom(e))
    <3>1. e \in Event
      <4>1. Head(chan) \in ToSet(chan)
        BY <1>6, ToSetInTail DEF AccessInv, CursorInv, Types, Ingest
      <4> QED
        BY <4>1 DEF AccessInv, PlacesInv
    <3>2. What(e) \in {"add", "leave", "repo", "collaborator"}
      BY <2>3, <3>1, WhatIsAsked
    <3> HIDE DEF e
    <3>3. o # Idle /\ o.did = Whom(e) /\ (Head(o.todo) = "roles" => o.what = "collaborator")
      BY <3>2, OperationFacts
    <3> HIDE DEF o
    <3>4. "xrpc" \in Worker /\ "ingester" \in Worker /\ "xrpc" # "ingester"
      BY DEF Worker
    <3> QED
      BY <1>4, <2>1, <2>3, <3>3, <3>4
  <2> QED
    BY <1>6, <2>2, <2>3 DEF Ingest
<1>7. CASE HangUp
  <2> DEFINE d == doing["xrpc"].did
  <2>1. /\ doing'["xrpc"] = Idle /\ doing'["ingester"] = doing["ingester"]
        /\ uncertain' = uncertain \cup {d} /\ UNCHANGED <<members, rbac, unrestored, up>>
    BY <1>1, <1>7 DEF HangUp, database, process, Worker
  <2>2. ~Midway("xrpc")' /\ ~Busy("xrpc")' /\ (Midway("ingester")' <=> Midway("ingester"))
    BY <2>1 DEF Midway, Busy
  <2>3. ASSUME up, NEW c \in Did \ uncertain' PROVE AgreeOn(c)'
    <3>1. c \in Did \ uncertain /\ c # d
      BY <2>1, <2>3
    <3>2. \A x \in Worker : Midway(x)' /\ doing'[x].did = c <=> Midway(x) /\ doing[x].did = c
      BY <2>1, <2>2, <3>1 DEF Worker
    <3>3. \A x \in Worker : Midway(x)' /\ doing'[x].did = c => doing'[x].what = doing[x].what
      BY <2>1, <2>2 DEF Worker
    <3>4. IsUser(c, Spindle)' = IsUser(c, Spindle)
      BY <2>1 DEF IsUser, rbac
    <3> QED
      BY <1>1, <2>1, <2>3, <3>1, <3>2, <3>3, <3>4, AgreeKept DEF AgreeOn
  <2> QED
    BY <1>2, <2>1, <2>2, <2>3 DEF On
<1>8. CASE Exit \/ Crash
  <2>1. ~up' /\ \A a \in Worker : ~Busy(a)'
    BY <1>8 DEF Exit, Crash, Over, Nobody, Worker, Busy
  <2> QED
    BY <1>2, <2>1 DEF On, Worker
<1>9. CASE Start
  <2>1. /\ \A a \in Worker : ~Busy(a)'
        /\ roles' = {<<Owner, "owner", Spindle>>} /\ members' = InsertMember(Owner, "owner")
        /\ unrestored' = {d \in Did \ {Owner} : IsMember(d)}
        /\ members \in [Did -> {"none", "member", "owner"}]
    BY <1>9 DEF Start, Bootstrap, Nobody, Worker, Busy, AccessInv, TablesInv
  <2>2. ASSUME NEW d \in Did PROVE Agree(d)'
    <3>1. CASE d = Owner
      <4>1. IsMember(d)'
        BY <2>1, <3>1, AccessAssumption DEF InsertMember, IsMember
      <4>2. IsUser(d, Spindle)'
        BY <2>1, <3>1 DEF IsUser
      <4> QED
        BY <4>1, <4>2 DEF Agree
    <3>2. CASE d # Owner
      <4>1. IsMember(d)' <=> IsMember(d)
        BY <2>1, <2>2, <3>2 DEF InsertMember, IsMember
      <4>2. ~IsUser(d, Spindle)'
        BY <2>1, <3>2 DEF IsUser
      <4> QED
        BY <2>1, <3>2, <4>1, <4>2 DEF Agree
    <3> QED
      BY <3>1, <3>2
  <2>3. \A d \in Did \ uncertain' : ~(On("ingester", d)' /\ On("xrpc", d)')
    BY <2>1 DEF On, Worker
  <2>4. \A a \in Worker : ~Midway(a)'
    BY <2>1 DEF Midway
  <2> QED
    BY <2>2, <2>3, <2>4 DEF AgreeInv
<1>10. CASE Aside
  BY <1>1, <1>10 DEF Aside, AgreeInv, On, Busy, Midway, IsMember, Agree, IsUser, rbac
<1> QED
  BY <1>3, <1>5, <1>6, <1>7, <1>8, <1>9, <1>10, StepCases

\* The log stays, and what is kept of it are places in it.
LEMMA PlacesStep == ASSUME AccessInv, [Next]_vars PROVE PlacesInv'
<1> DEFINE Places == 1 .. Len(log)
<1>1. /\ log \in Seq(Event) /\ DOMAIN log = Places /\ Len(log) \in Nat /\ Capacity \in Nat \ {0}
      /\ {saved, cursor, hand, now} \subseteq 0 .. Len(log) /\ pos \in 0 .. Len(log) + 1
      /\ Len(chan) <= Capacity /\ ToSet(chan) \subseteq Places
      /\ handled \subseteq Places /\ torn \subseteq Places /\ missed \subseteq Places
      /\ chan \in Seq(Nat \ {0})
  <2>1. log \in Seq(Event) /\ PlacesInv /\ chan \in Seq(Nat \ {0})
    BY DEF AccessInv, PlacesInv, CursorInv, Types
  <2>2. DOMAIN log = Places /\ Len(log) \in Nat
    BY <2>1
  <2> QED
    BY <2>1, <2>2, AccessAssumption DEF PlacesInv
<1>2. InProgress \subseteq Places
  <2>1. \A a \in Worker : Busy(a) => doing[a].event \in {0} \cup DOMAIN log
    BY DEF AccessInv, OpsInv, OperationOk
  <2> QED
    BY <1>1, <2>1 DEF InProgress, AccessInv, CursorInv, Types
\* It is enough to say so of each.
<1>3. ASSUME log' = log, saved' \in 0 .. Len(log), cursor' \in 0 .. Len(log),
             hand' \in 0 .. Len(log), now' \in 0 .. Len(log), pos' \in 0 .. Len(log) + 1,
             \/ chan' = chan \/ chan' = <<>>
             \/ Len(chan') <= Capacity /\ ToSet(chan') \subseteq Places,
             handled' \subseteq Places, torn' \subseteq Places, missed' \subseteq Places
      PROVE  PlacesInv'
  <2>1. Len(chan') <= Capacity /\ ToSet(chan') \subseteq Places
    <3>1. Len(<<>>) = 0 /\ ToSet(<<>>) = {} /\ 0 <= Capacity
      BY ToSetOfNone, AccessAssumption
    <3>2. Len(chan) <= Capacity /\ ToSet(chan) \subseteq Places
      BY <1>1
    <3>3. CASE chan' = <<>>
      BY <3>1, <3>3
    <3>4. CASE chan' = chan
      BY <3>2, <3>4
    <3> QED
      BY <1>3, <3>3, <3>4
  <2> QED
    BY <1>1, <1>3, <2>1 DEF PlacesInv
<1>4. ASSUME NEW a \in Worker, Advance(a) PROVE PlacesInv'
  <2>1. /\ UNCHANGED <<log, saved, chan, cursor, pos, hand, now, missed>>
        /\ doing[a].event \in {0} \cup DOMAIN log
        /\ \/ \E w : Finished(doing[a], w)
           \/ UNCHANGED <<handled, torn>>
    BY <1>4, AdvanceFacts DEF OperationOk
  <2>2. handled' \subseteq Places /\ torn' \subseteq Places
    BY <1>1, <2>1 DEF Finished
  <2> QED
    BY <1>1, <1>3, <2>1, <2>2
<1>5. CASE (\E w \in {"add", "remove"}, d \in Did : Call(w, d)) \/ HangUp \/ Shutdown
           \/ UNCHANGED vars
  <2>1. UNCHANGED <<log, saved, chan, cursor, pos, hand, now, missed, handled, torn>>
    BY <1>5 DEF Call, HangUp, Shutdown, vars, database, client, ingester, history
  <2> QED
    BY <1>1, <1>3, <2>1
<1>6. CASE Ingest
  <2>1. /\ UNCHANGED <<log, saved, cursor, pos, hand, now, missed>>
        /\ chan # <<>> /\ chan' = Tail(chan)
        /\ handled' \subseteq handled \cup {Head(chan)} /\ torn' \subseteq torn
    BY <1>6 DEF Ingest, database, client
  <2>2. /\ Head(chan) \in ToSet(chan) /\ ToSet(Tail(chan)) \subseteq ToSet(chan)
        /\ Len(Tail(chan)) = Len(chan) - 1 /\ Len(chan) \in Nat
    BY <1>1, <2>1, ToSetInTail
  <2>3. Len(chan') <= Capacity /\ ToSet(chan') \subseteq Places
    BY <1>1, <2>1, <2>2
  <2>4. handled' \subseteq Places /\ torn' \subseteq Places
    BY <1>1, <2>1, <2>2
  <2> QED
    BY <1>1, <1>3, <2>1, <2>3, <2>4
<1>7. CASE IngesterStops
  <2>1. /\ UNCHANGED <<log, saved, cursor, pos, hand, now, missed, handled>>
        /\ chan' = <<>> /\ torn' = torn \cup ToSet(chan)
    BY <1>7 DEF IngesterStops, database, client
  <2>2. torn' \subseteq Places
    BY <1>1, <2>1
  <2> QED
    BY <1>1, <1>3, <2>1, <2>2
<1>8. CASE Connect
  <2>1. /\ UNCHANGED <<log, saved, cursor, hand, now, chan, handled, torn>>
        /\ pos' \in From
        /\ missed' = missed \/ missed' = missed \cup (1 .. pos' - 1 \ handled)
    BY <1>8 DEF Connect, database, ingester, history
  <2>2. pos' \in 0 .. Len(log) + 1
    BY <1>1, <2>1 DEF From
  <2>3. \A i \in 1 .. pos' - 1 : i \in Places
    <3>1. \A p \in 0 .. Len(log) + 1 : \A i \in 1 .. p - 1 : i \in 1 .. Len(log)
      BY <1>1
    <3> QED
      BY <2>2, <3>1
  <2>4. missed' \subseteq Places
    BY <1>1, <2>1, <2>3
  <2> QED
    BY <1>1, <1>3, <2>1, <2>2, <2>4
<1>9. CASE Read
  <2>1. /\ UNCHANGED <<log, saved, chan, torn>> /\ pos \in Places /\ pos' = pos + 1
        /\ now' = Max({now, pos}) /\ cursor' \in {cursor, Max({cursor, pos})}
        /\ hand' \in {0, hand, pos} /\ handled' \subseteq handled \cup {pos}
        /\ missed' \subseteq missed \cup {pos}
    BY <1>1, <1>9 DEF Read, Connected, database, ingester
  <2>2. now' \in 0 .. Len(log) /\ cursor' \in 0 .. Len(log)
    <3>1. now \in Nat /\ pos \in Nat /\ cursor \in Nat
      BY <1>1
    <3>2. /\ Max({now, pos}) = IF now >= pos THEN now ELSE pos
          /\ Max({cursor, pos}) = IF cursor >= pos THEN cursor ELSE pos
      BY <3>1, MaxOfTwo
    <3> QED
      BY <1>1, <2>1, <3>2
  <2>3. hand' \in 0 .. Len(log) /\ pos' \in 0 .. Len(log) + 1
    BY <1>1, <2>1
  <2>4. handled' \subseteq Places /\ missed' \subseteq Places
    BY <1>1, <2>1
  <2> QED
    BY <1>1, <1>3, <2>1, <2>2, <2>3, <2>4
<1>10. CASE Send
  <2>1. /\ UNCHANGED <<log, cursor, pos, now, missed, handled>> /\ hand # 0 /\ hand' = 0
        /\ saved' \in {saved, cursor}
        /\ \/ chan' = Append(chan, hand) /\ Len(chan) < Capacity /\ torn' = torn
           \/ chan' = chan /\ torn' = torn \cup {hand}
    BY <1>10 DEF Send, Saved, Enqueue
  <2>2. hand \in Places /\ torn' \subseteq Places
    <3>1. hand \in Places
      BY <1>1, <2>1
    <3> QED
      BY <1>1, <2>1, <3>1
  <2>3. CASE chan' = Append(chan, hand) /\ Len(chan) < Capacity
    <3>1. hand \in Nat \ {0} /\ Len(chan) \in Nat
      BY <1>1, <2>2
    <3>2. ToSet(chan') \subseteq Places
      <4>1. ToSet(chan') \subseteq ToSet(chan) \cup {hand}
        BY <1>1, <2>3, <3>1, ToSetInAppend, Zenon
      <4> QED
        BY <1>1, <2>2, <4>1
    <3>3. Len(chan') <= Capacity
      BY <1>1, <2>3, <3>1
    <3> QED
      BY <1>1, <1>3, <2>1, <2>2, <3>2, <3>3
  <2>4. CASE chan' = chan
    BY <1>1, <1>3, <2>1, <2>2, <2>4
  <2> QED
    BY <2>1, <2>3, <2>4
<1>11. CASE Disconnected \/ ClientStops
  <2>1. /\ UNCHANGED <<log, cursor, hand, now, missed, chan, handled, torn>>
        /\ pos' = 0 /\ saved' \in {saved, cursor}
    BY <1>11 DEF Disconnected, ClientStops, SaveRest, ingester, history
  <2> QED
    BY <1>1, <1>3, <2>1
<1>12. CASE Start
  <2>1. /\ UNCHANGED <<log, saved, now, missed, handled, torn>>
        /\ cursor' = saved /\ pos' = 0 /\ hand' = 0 /\ chan' = <<>>
    BY <1>12 DEF Start
  <2> QED
    BY <1>1, <1>3, <2>1
<1>13. CASE Exit \/ Crash
  <2>1. /\ UNCHANGED <<log, saved, cursor, now, missed, handled>>
        /\ pos' = 0 /\ hand' = 0 /\ chan' = <<>>
        /\ torn' = torn \cup ToSet(chan) \cup ({hand} \ {0}) \cup InProgress
    BY <1>13 DEF Exit, Crash, Over, database, InProgress
  <2>2. torn' \subseteq Places
    <3>1. {hand} \ {0} \subseteq Places
      BY <1>1
    <3> QED
      BY <1>1, <1>2, <2>1, <3>1
  <2> QED
    BY <1>1, <1>3, <2>1, <2>2
<1> QED
  BY <1>4, <1>5, <1>6, <1>7, <1>8, <1>9, <1>10, <1>11, <1>12, <1>13 DEF Next, Work, Stop, Worker

\* At the start nobody has a role, and nothing is being done.
LEMMA InitAccessInv == Init => AccessInv
<1> SUFFICES ASSUME Init PROVE AccessInv
  OBVIOUS
<1>1. PlacesInv
  <2>1. log \in Seq(Event) /\ Len(log) \in Nat
    BY AccessAssumption DEF Init
  <2> QED
    BY <2>1, AccessAssumption, ToSetOfNone DEF Init, PlacesInv
<1>2. TablesInv /\ OpsInv /\ RolesInv /\ AgreeInv
  BY DEF Init, TablesInv, OpsInv, RolesInv, AgreeInv, Nobody, Busy, On, Worker
<1> QED
  BY <1>1, <1>2, InitCursorInv DEF AccessInv

\* Every step keeps them.
LEMMA NextAccessInv == AccessInv /\ [Next]_vars => AccessInv'
  BY NextCursorInv, PlacesStep, TablesStep, OpsStep, RolesStep, AgreeStep DEF AccessInv

\* The places in the log, the tables, the operations, the roles and what these say of
\* each DID, in every reachable state.
THEOREM AccessInvariant == Spec => []AccessInv
  BY InitAccessInv, NextAccessInv, PTL DEF Spec

\* The roles in memory and the tables say the same of everyone nothing is being done
\* for, whatever records, calls, errors, hang-ups and restarts come, but for members no
\* start has restored and DIDs of which two operations met.
THEOREM RolesAgree == Spec => []RolesFollowTables
<1>1. ASSUME AccessInv PROVE RolesFollowTables
  <2>1. \A g \in roles : g[1] \in Did /\ g[2] \in {"member", "owner", "collaborator"}
    BY <1>1, AccessAssumption DEF AccessInv, RolesInv, RoleOk
  <2>2. TypeOK
    BY <1>1, <2>1 DEF AccessInv, PlacesInv, TablesInv, TypeOK
  <2>3. ASSUME up, NEW d \in Did \ uncertain, Settled(d) PROVE Agree(d)
    BY <1>1, <2>3 DEF AccessInv, CursorInv, Types, AgreeInv, Settled, Midway
  <2>4. ASSUME NEW d, NEW r, InviteAllowed(d, r) PROVE <<d, "owner", r>> \in roles
    <3>1. PICK p \in policies : p[2] = r /\ <<d, p[1], r>> \in roles
      BY <2>4 DEF InviteAllowed, Enforce
    <3>2. p[1] = "owner"
      BY <1>1, <3>1 DEF AccessInv, RolesInv, OwnersInvite
    <3> QED
      BY <3>1, <3>2
  <2>5. ASSUME NEW d \in Did, <<d, "owner", Spindle>> \in roles PROVE d = Owner
    <3>1. RoleOk(<<d, "owner", Spindle>>, repos, policies)
      BY <1>1, <2>5 DEF AccessInv, RolesInv
    <3>2. \A u, n : Repo(u, n) # Spindle
      BY DEF Repo, Spindle
    <3> QED
      BY <3>1, <3>2 DEF RoleOk
  <2>6. ASSUME NEW d \in Did, NEW n \in Name, <<d, "owner", Repo(d, n)>> \in roles
        PROVE  Repo(d, n) \in repos /\ InviteAllowed(d, Repo(d, n))
    <3>1. RoleOk(<<d, "owner", Repo(d, n)>>, repos, policies)
      BY <1>1, <2>6 DEF AccessInv, RolesInv
    <3>2. Repo(d, n) # Spindle
      BY DEF Repo, Spindle
    <3>3. Repo(d, n) \in repos /\ OwnersInvite(Repo(d, n)) \in policies
      BY <3>1, <3>2 DEF RoleOk
    <3> QED
      BY <2>6, <3>3 DEF InviteAllowed, Enforce, OwnersInvite
  <2> QED
    BY <2>2, <2>3, <2>4, <2>5, <2>6 DEF RolesFollowTables, Agree
<1> QED
  BY <1>1, AccessInvariant, PTL

-----------------------------------------------------------------------------
(* Replays                                                                 *)

OnTheWay == ({hand} \cup ToSet(chan) \cup InProgress) \ {0}
Seen == handled \cup torn

Sorted(s) == \A p, q \in DOMAIN s : p < q => s[p] <= s[q]

\* Events are on their way in the order of the log, none twice out of order, and the
\* cursors are behind the time.
OrderInv ==
    /\ Sorted(chan)
    /\ \A i \in InProgress, j \in ToSet(chan) : i <= j
    /\ \A i \in InProgress \cup ToSet(chan) : hand # 0 => i <= hand
    /\ \A i \in OnTheWay : i <= cursor
    /\ up => saved <= cursor /\ cursor <= now
    /\ saved <= now
    /\ up /\ ~receiver => chan = <<>> /\ ~Busy("ingester")
    /\ hand # 0 => Connected

\* Between the cursor and the place in the stream is nothing for the client, and behind
\* an event that is on its way is every later one the client has read.
StreamInv ==
    up /\ cursor > 0 =>
        /\ Connected => pos >= cursor /\ \A i \in cursor + 1 .. pos - 1 : ~Wanted(i)
        /\ \A i \in OnTheWay, j \in 1 .. cursor :
               i < j /\ Wanted(j) /\ log[j].kind # "other" => j \in OnTheWay

\* A client without a cursor begins after everything that was ever seen.
SeenInv ==
    /\ \A i \in Seen : i <= now
    /\ up /\ cursor = 0 /\ Connected => \A i \in Seen : i < pos
    /\ up /\ cursor > 0 /\ saved = 0 => \A i \in Seen : i <= cursor

\* Who was once heard is heard again, unless a call took them off the list.
Heard == called \cup IF up THEN watched ELSE watchlist
WatchInv ==
    /\ up => watched \subseteq watchlist \cup called
    /\ \A i \in OnTheWay \cup Seen : log[i].author \in Heard

\* The ingester does what its event asks for; past the table, the table says so.
IngesterInv ==
    Busy("ingester") =>
        LET o == doing["ingester"]
        IN  /\ o.event # 0 /\ o.what = What(log[o.event]) /\ o.did = Whom(log[o.event])
            /\ o.did \notin called /\ o.what \in {"add", "leave"} /\ Head(o.todo) # "table"
                   => (IsMember(o.did) <=> o.what = "add")
EventInv ==
    /\ IngesterInv
    /\ Busy("xrpc") => doing["xrpc"].did \in called

\* The last event about a DID that was seen.
IsLast(m, d) == /\ m \in Seen /\ Concerns(m, d)
                /\ \A i \in Seen : Concerns(i, d) => i <= m

\* It, or a later one, is on its way or will be sent again.
ToCome(m, d) ==
    \/ \E i \in OnTheWay : i >= m /\ Concerns(i, d)
    \/ up /\ 0 < cursor /\ cursor < m
    \/ ~up /\ 0 < saved /\ saved < m

LastInv ==
    \A d \in Did \ ({Owner} \cup called) : \A m \in Seen \ torn :
        IsLast(m, d) /\ log[m].author \notin called =>
            (IsMember(d) <=> log[m].operation = "put") \/ ToCome(m, d)

ReplayInv == OrderInv /\ StreamInv /\ SeenInv /\ WatchInv /\ EventInv /\ LastInv

-----------------------------------------------------------------------------

\* What is taken from a sorted channel is no later than the rest.
LEMMA SortedTail ==
    ASSUME NEW s \in Seq(Nat \ {0}), s # <<>>, Sorted(s)
    PROVE  Sorted(Tail(s)) /\ \A j \in ToSet(Tail(s)) : Head(s) <= j
<1> DEFINE t == Tail(s)
<1>1. /\ Len(s) \in Nat \ {0} /\ DOMAIN s = 1 .. Len(s) /\ DOMAIN t = 1 .. Len(s) - 1
      /\ Head(s) = s[1] /\ \A i \in 1 .. Len(s) - 1 : t[i] = s[i + 1]
  OBVIOUS
<1> HIDE DEF t
<1>2. ASSUME NEW p \in DOMAIN t, NEW q \in DOMAIN t, p < q PROVE t[p] <= t[q]
  <2>1. /\ p + 1 \in DOMAIN s /\ q + 1 \in DOMAIN s /\ p + 1 < q + 1
        /\ t[p] = s[p + 1] /\ t[q] = s[q + 1]
    BY <1>1, <1>2
  <2> QED
    BY <2>1 DEF Sorted
<1>3. ASSUME NEW q \in DOMAIN t PROVE Head(s) <= t[q]
  <2>1. 1 \in DOMAIN s /\ q + 1 \in DOMAIN s /\ 1 < q + 1 /\ t[q] = s[q + 1]
    BY <1>1
  <2> QED
    BY <1>1, <2>1 DEF Sorted
<1>4. \A x \in ToSet(t) : \E i \in DOMAIN t : x = t[i]
  BY Zenon DEF ToSet
<1> QED
  BY <1>2, <1>3, <1>4 DEF t, Sorted

\* What is no earlier than the channel may follow it.
LEMMA SortedAppend ==
    ASSUME NEW s \in Seq(Nat \ {0}), NEW e \in Nat \ {0}, Sorted(s), \A i \in ToSet(s) : i <= e
    PROVE  Sorted(Append(s, e))
<1> DEFINE t == Append(s, e)
<1>1. /\ Len(s) \in Nat /\ DOMAIN s = 1 .. Len(s) /\ DOMAIN t = 1 .. Len(s) + 1
      /\ t[Len(s) + 1] = e /\ \A i \in 1 .. Len(s) : t[i] = s[i]
  OBVIOUS
<1> HIDE DEF t
<1>2. \A i \in DOMAIN s : s[i] <= e
  <2>1. \A i \in DOMAIN s : s[i] \in ToSet(s)
    BY Zenon DEF ToSet
  <2> QED
    BY <2>1
<1>3. ASSUME NEW p \in DOMAIN t, NEW q \in DOMAIN t, p < q PROVE t[p] <= t[q]
  <2>1. p \in DOMAIN s /\ (q \in DOMAIN s \/ q = Len(s) + 1)
    BY <1>1, <1>3
  <2> QED
    BY <1>1, <1>2, <1>3, <2>1 DEF Sorted
<1> QED
  BY <1>3 DEF t, Sorted

\* What is in progress is what the ingester does.
LEMMA InProgressIs ==
    AccessInv /\ EventInv =>
        InProgress = IF Busy("ingester") THEN {doing["ingester"].event} ELSE {}
  BY DEF AccessInv, CursorInv, Types, EventInv, IngesterInv, InProgress, Worker

\* What concerns a DID asks for its addition or its departure.
LEMMA ConcernsIsAsked ==
    ASSUME PlacesInv, NEW i \in DOMAIN log, NEW d \in Did
    PROVE  Concerns(i, d) <=> What(log[i]) \in {"add", "leave"} /\ Whom(log[i]) = d
<1> DEFINE e == log[i]
<1>1. e \in Event
  BY DEF PlacesInv
<1>2. e.operation \in {"put", "delete"} /\ e.kind \in {"member", "repo", "collaborator", "other"}
  BY <1>1 DEF Event, Of
<1> HIDE DEF e
<1>3. What(e) = "add" <=> e.kind = "member" /\ e.operation = "put" /\ e.about # Junk
  BY <1>2 DEF What
<1>4. What(e) = "leave" <=> e.kind = "member" /\ e.operation = "delete"
  BY <1>2 DEF What
<1>5. d # Junk
  BY AccessAssumption
<1> QED
  BY <1>2, <1>3, <1>4, <1>5 DEF Concerns, Whom, e

\* Who has no call about it keeps its row, but for what the ingester does.
LEMMA RowsKept ==
    ASSUME AccessInv, ReplayInv, NEW a \in Worker, Advance(a), NEW d \in Did,
           \/ doing[a].did # d \/ doing[a].what \notin {"add", "remove", "leave"}
           \/ Head(doing[a].todo) # "table"
    PROVE  IsMember(d)' = IsMember(d)
<1> DEFINE o == doing[a]
<1>1. OperationOk(o, DOMAIN log, repos) /\ (UNCHANGED members \/ Tables(o, Head(o.todo)))
  BY AdvanceFacts
<1>2. /\ members \in [Did -> {"none", "member", "owner"}]
      /\ o.did # d \/ o.what \notin {"add", "remove", "leave"} \/ Head(o.todo) # "table"
  BY DEF AccessInv, TablesInv
<1> HIDE DEF o
<1>3. CASE UNCHANGED members
  BY <1>3 DEF IsMember
<1>4. CASE Tables(o, Head(o.todo)) /\ (o.did # d \/ Head(o.todo) # "table")
  BY <1>2, <1>4 DEF Tables, InsertMember, RemoveMember, IsMember
<1>5. CASE Tables(o, Head(o.todo)) /\ o.what \notin {"add", "remove", "leave"}
  <2>1. o.what = "repo" \/ (o.what = "collaborator" /\ Head(o.todo) # "table")
    BY <1>1, <1>5, TodoFacts DEF OperationOk
  <2> QED
    BY <1>5, <2>1 DEF Tables, IsMember
<1> QED
  BY <1>1, <1>2, <1>3, <1>4, <1>5

\* A call is remembered.
LEMMA CalledGrows == ASSUME [Next]_vars PROVE called \subseteq called'
  BY DEF Next, Work, Stop, vars, history, Connect, Read, Send, Ingest, Advance, IngesterStops,
         ClientStops, Exit, Start, HangUp, Disconnected, Shutdown, Crash, Over, Call

\* The ingester does what its event asks for.
LEMMA EventStep == ASSUME AccessInv, ReplayInv, [Next]_vars PROVE EventInv'
<1> USE DEF Worker
<1>1. /\ DOMAIN doing = Worker /\ EventInv
      /\ \A a \in Worker : Busy(a) => DOMAIN doing[a] = Fields
  BY DEF AccessInv, CursorInv, Types, ReplayInv, Fields
\* Nothing new is done, and the rows of those without a call are kept.
<1>2. ASSUME log' = log, called \subseteq called',
             \A a \in Worker : doing'[a] \in {doing[a], Idle},
             \A d \in Did \ called : IsMember(d)' = IsMember(d)
      PROVE  EventInv'
  <2>1. Busy("ingester") => doing["ingester"].did \in Did
    BY DEF AccessInv, OpsInv, OperationOk
  <2> QED
    BY <1>1, <1>2, <2>1 DEF EventInv, IngesterInv, Busy
<1>3. CASE Advance("xrpc")
  <2>1. /\ log' = log /\ called' = called /\ doing["xrpc"].did \in called
        /\ doing'["ingester"] = doing["ingester"] /\ DOMAIN doing["xrpc"] = Fields
    BY <1>1, <1>3, AdvanceFacts DEF EventInv, IngesterInv, Advance
  <2>2. \A d \in Did \ called : IsMember(d)' = IsMember(d)
    BY <1>3, <2>1, RowsKept
  <2>3. doing'["xrpc"] = Idle \/ doing'["xrpc"].did = doing["xrpc"].did
    BY <1>3, <2>1, AdvanceFacts DEF Fields
  <2>4. Busy("ingester") => doing["ingester"].did \in Did
    BY DEF AccessInv, OpsInv, OperationOk
  <2> QED
    BY <1>1, <2>1, <2>2, <2>3, <2>4 DEF EventInv, IngesterInv, Busy
<1>4. CASE Advance("ingester")
  <2> DEFINE o == doing["ingester"]
  <2>1. /\ log' = log /\ called' = called /\ doing'["xrpc"] = doing["xrpc"]
        /\ Busy("ingester") /\ DOMAIN o = Fields /\ OperationOk(o, DOMAIN log, repos)
    BY <1>1, <1>4, AdvanceFacts DEF Advance
  <2>2. CASE doing'["ingester"] = Idle
    BY <1>1, <2>1, <2>2 DEF EventInv, IngesterInv, Busy
  <2>3. CASE doing'["ingester"] # Idle
    <3>1. /\ Tables(o, Head(o.todo)) /\ ~Ends(o, Head(o.todo))
          /\ doing'["ingester"] = [o EXCEPT !.todo = Tail(@)]
      BY <1>4, <2>3, AdvanceFacts
    <3>2. /\ doing'["ingester"].what = o.what /\ doing'["ingester"].did = o.did
          /\ doing'["ingester"].event = o.event
      BY <2>1, <3>1 DEF Fields
    <3>3. /\ o.event # 0 /\ o.what = What(log[o.event]) /\ o.did = Whom(log[o.event])
          /\ o.did \notin called /\ o.what \in {"add", "leave"} /\ Head(o.todo) # "table"
                 => (IsMember(o.did) <=> o.what = "add")
      BY <1>1, <2>1 DEF EventInv, IngesterInv
    <3>4. members \in [Did -> {"none", "member", "owner"}] /\ o.did \in Did
      BY <2>1 DEF AccessInv, TablesInv, OperationOk
    <3>5. Head(o.todo) # "table" => UNCHANGED members
      BY <3>1 DEF Tables
    <3> HIDE DEF o
    <3>6. Head(o.todo) = "table" /\ o.what \in {"add", "leave"}
              => (members'[o.did] # "none" <=> o.what = "add")
      BY <3>1, <3>4 DEF Tables, InsertMember, RemoveMember, IsMember
    <3>7. o.did \notin called /\ o.what \in {"add", "leave"}
              => (members'[o.did] # "none" <=> o.what = "add")
      BY <3>3, <3>5, <3>6 DEF IsMember
    <3>8. IngesterInv'
      BY <2>1, <3>2, <3>3, <3>7 DEF IngesterInv, IsMember
    <3> QED
      BY <1>1, <2>1, <3>8 DEF EventInv, IngesterInv, Busy
  <2> QED
    BY <2>2, <2>3
<1>5. ASSUME NEW w \in {"add", "remove"}, NEW d \in Did, Call(w, d) PROVE EventInv'
  <2>1. /\ log' = log /\ members' = members /\ called' = called \cup {d}
        /\ doing'["ingester"] = doing["ingester"]
        /\ doing'["xrpc"] = Operation(w, d, Spindle, 0)
    BY <1>1, <1>5 DEF Call, database
  <2>2. Operation(w, d, Spindle, 0).did = d
    BY OperationFacts
  <2> QED
    BY <1>1, <2>1, <2>2 DEF EventInv, IngesterInv, Busy, IsMember
<1>6. CASE Ingest
  <2> DEFINE i == Head(chan)
             e == log[i]
             o == Operation(What(e), Whom(e), Which(e), i)
  <2>1. log' = log /\ members' = members /\ called' = called
    BY <1>6 DEF Ingest, database
  <2>2. CASE doing' = doing
    BY <1>2, <2>1, <2>2 DEF IsMember
  <2>3. CASE doing' # doing
    <3>1. What(e) # "ignore" /\ doing' = [doing EXCEPT !["ingester"] = o]
      BY <1>6, <2>3 DEF Ingest
    <3>2. i \in DOMAIN log /\ e \in Event /\ i # 0
      <4>1. i \in ToSet(chan)
        BY <1>6, ToSetInTail DEF AccessInv, CursorInv, Types, Ingest
      <4>2. i \in DOMAIN log /\ log \in Seq(Event)
        BY <4>1 DEF AccessInv, PlacesInv
      <4> QED
        BY <4>2
    <3>3. What(e) \in {"add", "leave", "repo", "collaborator"}
      BY <3>1, <3>2, WhatIsAsked
    <3>4. doing'["ingester"] = o /\ doing'["xrpc"] = doing["xrpc"]
      BY <1>1, <3>1
    <3> HIDE DEF i, e
    <3>5. /\ o.event = i /\ o.what = What(e) /\ o.did = Whom(e)
          /\ What(e) \in {"add", "leave"} => Head(o.todo) = "table"
      BY <3>3, OperationFacts
    <3> HIDE DEF o
    <3>6. IngesterInv'
      BY <2>1, <3>2, <3>4, <3>5 DEF IngesterInv, e
    <3> QED
      BY <1>1, <2>1, <3>4, <3>6 DEF EventInv, IngesterInv, Busy
  <2> QED
    BY <2>2, <2>3
<1>7. CASE HangUp
  <2>1. /\ log' = log /\ members' = members /\ called' = called
        /\ \A b \in Worker : doing'[b] \in {doing[b], Idle}
    BY <1>1, <1>7 DEF HangUp, database
  <2> QED
    BY <1>2, <2>1 DEF IsMember
<1>8. CASE Start \/ Exit \/ Crash
  <2>1. \A b \in Worker : doing'[b] = Idle
    BY <1>8 DEF Start, Exit, Crash, Over, Nobody
  <2> QED
    BY <2>1 DEF EventInv, IngesterInv, Busy
<1>9. CASE Aside
  <2>1. called \subseteq called'
    BY <1>9, CalledGrows
  <2> QED
    BY <1>2, <1>9, <2>1 DEF Aside, IsMember
<1> QED
  BY <1>3, <1>4, <1>5, <1>6, <1>7, <1>8, <1>9, StepCases

\* What is on its way, and what was seen, are places in the log.
LEMMA WayTypes ==
    AccessInv =>
        /\ OnTheWay \subseteq 1 .. Len(log) /\ Seen \subseteq 1 .. Len(log) /\ Len(log) \in Nat
        /\ DOMAIN log = 1 .. Len(log) /\ log \in Seq(Event)
        /\ cursor \in Nat /\ pos \in Nat /\ now \in Nat /\ saved \in Nat /\ hand \in Nat
        /\ chan \in Seq(Nat \ {0}) /\ DOMAIN doing = Worker
        /\ ~up => OnTheWay = {} /\ pos = 0
<1> SUFFICES ASSUME AccessInv
             PROVE  /\ OnTheWay \subseteq 1 .. Len(log) /\ Seen \subseteq 1 .. Len(log)
                    /\ Len(log) \in Nat /\ DOMAIN log = 1 .. Len(log) /\ log \in Seq(Event)
                    /\ cursor \in Nat /\ pos \in Nat /\ now \in Nat /\ saved \in Nat
                    /\ hand \in Nat /\ chan \in Seq(Nat \ {0}) /\ DOMAIN doing = Worker
                    /\ ~up => OnTheWay = {} /\ pos = 0
  OBVIOUS
<1>1. /\ log \in Seq(Event) /\ {saved, cursor, hand, now} \subseteq 0 .. Len(log)
      /\ pos \in 0 .. Len(log) + 1 /\ ToSet(chan) \subseteq DOMAIN log
      /\ handled \cup torn \subseteq DOMAIN log /\ chan \in Seq(Nat \ {0}) /\ DOMAIN doing = Worker
  BY DEF AccessInv, PlacesInv, CursorInv, Types
<1>2. DOMAIN log = 1 .. Len(log) /\ Len(log) \in Nat
  BY <1>1
<1>3. \A i \in InProgress : i \in 1 .. Len(log)
  <2>1. \A a \in Worker : Busy(a) => doing[a].event \in {0} \cup DOMAIN log
    BY DEF AccessInv, OpsInv, OperationOk
  <2> QED
    BY <1>1, <1>2, <2>1 DEF InProgress
<1>4. ~up => OnTheWay = {} /\ pos = 0
  <2>1. ~up => chan = <<>> /\ hand = 0 /\ pos = 0 /\ \A a \in Worker : ~Busy(a)
    BY DEF AccessInv, CursorInv, NothingLeft, Nobody, Busy, Worker
  <2> QED
    BY <1>1, <2>1, ToSetOfNone DEF OnTheWay, InProgress
<1>5. OnTheWay \subseteq 1 .. Len(log)
  <2>1. \A i \in {hand} \ {0} : i \in 1 .. Len(log)
    BY <1>1, <1>2
  <2> QED
    BY <1>1, <1>2, <1>3, <2>1 DEF OnTheWay
<1> QED
  BY <1>1, <1>2, <1>4, <1>5 DEF Seen

\* A step that moves no event, or cuts off those that it stops, leaves each DID's last
\* event as it was.
LEMMA CutOff ==
    ASSUME AccessInv, ReplayInv, NEW X, X \subseteq OnTheWay, OnTheWay \ X \subseteq OnTheWay',
           Seen' = Seen \cup X, torn \cup X \subseteq torn', log' = log, called \subseteq called',
           \A d \in Did \ ({Owner} \cup called') : IsMember(d)' = IsMember(d),
           \/ up /\ up' /\ cursor' = cursor
           \/ ~up /\ ~up' /\ saved' = saved
           \/ up /\ ~up' /\ saved' = saved
    PROVE  LastInv'
<1> SUFFICES ASSUME NEW d \in Did \ ({Owner} \cup called'), NEW m \in Seen' \ torn',
                    IsLast(m, d)', log'[m].author \notin called'
             PROVE  (IsMember(d)' <=> log'[m].operation = "put") \/ ToCome(m, d)'
  BY DEF LastInv
<1>1. \A i : Concerns(i, d)' = Concerns(i, d)
  BY DEF Concerns
<1>2. m \in Seen \ torn /\ m \notin X
  OBVIOUS
<1>3. IsLast(m, d) /\ \A i \in X : Concerns(i, d) => i <= m
  BY <1>1, <1>2 DEF IsLast
<1>4. (IsMember(d) <=> log[m].operation = "put") \/ ToCome(m, d)
  BY <1>2, <1>3 DEF ReplayInv, LastInv
<1>5. CASE \E i \in OnTheWay : i >= m /\ Concerns(i, d)
  <2> PICK i \in OnTheWay : i >= m /\ Concerns(i, d)
    BY <1>5
  <2>1. i \notin X
    <3>1. i \in Nat /\ m \in Nat
      BY <1>2, WayTypes
    <3> QED
      BY <1>2, <1>3, <3>1
  <2> QED
    BY <1>1, <2>1 DEF ToCome
<1>6. CASE up /\ 0 < cursor /\ cursor < m
  <2>1. CASE up'
    BY <1>6, <2>1 DEF ToCome
  <2>2. CASE ~up'
    <3>1. cursor \in Nat /\ saved \in Nat /\ m \in Nat
      BY <1>2, WayTypes
    <3>2. saved # 0
      BY <1>2, <1>6, <3>1 DEF ReplayInv, SeenInv
    <3>3. saved <= cursor /\ saved' = saved
      BY <1>6, <2>2 DEF ReplayInv, OrderInv
    <3> QED
      BY <1>6, <2>2, <3>1, <3>2, <3>3 DEF ToCome
  <2> QED
    BY <2>1, <2>2
<1>7. CASE ~up /\ 0 < saved /\ saved < m
  BY <1>7 DEF ToCome
<1> QED
  BY <1>4, <1>5, <1>6, <1>7 DEF ToCome

\* The stream, what was seen and who is heard, when the earliest events leave the way, or
\* none.
LEMMA WayShrinks ==
    ASSUME AccessInv, ReplayInv, OnTheWay' \subseteq OnTheWay,
           \A i \in OnTheWay', j \in OnTheWay \ OnTheWay' : j <= i,
           OnTheWay' \cup Seen' \subseteq OnTheWay \cup Seen,
           UNCHANGED <<log, up, cursor, pos, now, watched>>, called \subseteq called',
           saved' \in {saved, cursor}, up \/ saved' = saved,
           watchlist \subseteq watchlist' \cup called'
    PROVE  StreamInv' /\ SeenInv' /\ WatchInv'
<1>1. /\ cursor \in Nat /\ now \in Nat /\ pos \in Nat /\ OnTheWay \subseteq Nat
      /\ Seen \subseteq Nat /\ (~up => OnTheWay = {})
  BY WayTypes
<1>2. \A i : Wanted(i)' = Wanted(i)
  BY DEF Wanted
<1>3. StreamInv'
  <2>1. ASSUME up, cursor > 0, NEW i \in OnTheWay', NEW j \in 1 .. cursor, i < j, Wanted(j),
               log[j].kind # "other"
        PROVE  j \in OnTheWay'
    <3>1. j \in OnTheWay
      BY <2>1 DEF ReplayInv, StreamInv
    <3>2. i \in Nat /\ j \in Nat /\ ~(j <= i)
      BY <1>1, <2>1, <3>1
    <3> QED
      BY <3>1, <3>2
  <2>2. up /\ cursor > 0 /\ Connected
            => pos >= cursor /\ \A i \in cursor + 1 .. pos - 1 : ~Wanted(i)
    BY DEF ReplayInv, StreamInv
  <2> QED
    BY <1>2, <2>1, <2>2 DEF StreamInv, Connected
<1>4. SeenInv'
  <2>1. \A i \in Seen' : i \in Seen \/ (i \in OnTheWay /\ up /\ i <= cursor /\ cursor <= now)
    BY <1>1 DEF ReplayInv, OrderInv
  <2>2. \A i \in OnTheWay : i <= cursor /\ i # 0
    BY DEF ReplayInv, OrderInv, OnTheWay
  <2>3. \A i \in Seen : i <= now
    BY DEF ReplayInv, SeenInv
  <2>4. ASSUME NEW i \in Seen' PROVE i <= now
    <3>1. CASE i \in Seen
      BY <2>3, <3>1
    <3>2. CASE i \in OnTheWay /\ i <= cursor /\ cursor <= now
      BY <1>1, <3>2
    <3> QED
      BY <2>1, <3>1, <3>2
  <2>5. ASSUME up, cursor = 0, Connected, NEW i \in Seen' PROVE i < pos
    <3>1. \A j \in OnTheWay : FALSE
      <4>1. \A j \in OnTheWay : j \in Nat /\ j <= 0 /\ j # 0
        BY <1>1, <2>2, <2>5
      <4> QED
        BY <4>1
    <3> QED
      BY <2>1, <2>5, <3>1 DEF ReplayInv, SeenInv
  <2>6. ASSUME up, cursor > 0, saved' = 0, NEW i \in Seen' PROVE i <= cursor
    <3>1. saved = 0
      BY <1>1, <2>6
    <3>2. i \in Seen => i <= cursor
      BY <2>6, <3>1 DEF ReplayInv, SeenInv
    <3> QED
      BY <2>1, <3>2
  <2> QED
    BY <2>4, <2>5, <2>6 DEF SeenInv, Connected
<1>5. WatchInv'
  <2>1. Heard \subseteq Heard'
    BY DEF Heard
  <2> QED
    BY <2>1 DEF ReplayInv, WatchInv
<1> QED
  BY <1>3, <1>4, <1>5

\* What is in progress after a step.
LEMMA InProgressNext ==
    (AccessInv /\ EventInv =>
         InProgress = IF Busy("ingester") THEN {doing["ingester"].event} ELSE {})'
  BY InProgressIs, PTL

\* Order, when nothing is read and the ingester ends something, or nothing.
LEMMA OrderShrinks ==
    ASSUME AccessInv, ReplayInv, UNCHANGED <<hand, chan, cursor, now, up, pos>>,
           InProgress' \subseteq InProgress, saved' \in {saved, cursor}, up \/ saved' = saved,
           up' /\ ~receiver' => ~receiver,
           up' /\ ~Busy("ingester") => ~Busy("ingester")'
    PROVE  OrderInv'
<1>1. cursor \in Nat /\ now \in Nat /\ saved \in Nat
  BY WayTypes
<1>2. OnTheWay' \subseteq OnTheWay
  BY DEF OnTheWay
<1> QED
  BY <1>1, <1>2 DEF ReplayInv, OrderInv, Connected

\* Steps that move no event and change no row but those of calls.
LEMMA QuietStep ==
    ASSUME AccessInv, ReplayInv, EventInv', AccessInv', called \subseteq called',
           UNCHANGED <<log, hand, chan, cursor, now, up, pos, saved, watched, handled, torn,
                       receiver>>,
           doing'["ingester"] = doing["ingester"], watchlist \subseteq watchlist' \cup called',
           \A d \in Did \ ({Owner} \cup called') : IsMember(d)' = IsMember(d)
    PROVE  ReplayInv'
<1>1. InProgress' = InProgress
  BY InProgressIs, InProgressNext DEF ReplayInv, Busy
<1>2. OnTheWay' = OnTheWay /\ Seen' = Seen
  BY <1>1 DEF OnTheWay, Seen
<1>3. OrderInv'
  BY <1>1, OrderShrinks DEF Busy
<1>4. StreamInv' /\ SeenInv' /\ WatchInv'
  BY <1>2, WayShrinks
<1>5. LastInv'
  <2> PICK X : X = {}
    OBVIOUS
  <2>1. /\ X \subseteq OnTheWay /\ OnTheWay \ X \subseteq OnTheWay' /\ Seen' = Seen \cup X
        /\ torn \cup X \subseteq torn'
    BY <1>2
  <2>2. \/ up /\ up' /\ cursor' = cursor
        \/ ~up /\ ~up' /\ saved' = saved
        \/ up /\ ~up' /\ saved' = saved
    OBVIOUS
  <2> QED
    BY <2>1, <2>2, CutOff
<1> QED
  BY <1>3, <1>4, <1>5 DEF ReplayInv

\* What the ingester does comes before what is in the channel and in the client's hand.
LEMMA DoneFirst ==
    ASSUME AccessInv, ReplayInv, NEW e, Busy("ingester"), e = doing["ingester"].event
    PROVE  InProgress = {e} /\ e \in OnTheWay /\ \A i \in OnTheWay : e <= i
<1>1. InProgress = {e} /\ e # 0
  BY InProgressIs DEF ReplayInv, EventInv, IngesterInv
<1>2. e \in OnTheWay /\ e \in Nat
  <2>1. e \in OnTheWay
    BY <1>1 DEF OnTheWay
  <2> QED
    BY <2>1, WayTypes
<1>3. \A i \in ToSet(chan) : e <= i
  BY <1>1 DEF ReplayInv, OrderInv
<1>4. hand # 0 => e <= hand
  BY <1>1 DEF ReplayInv, OrderInv
<1> QED
  BY <1>1, <1>2, <1>3, <1>4 DEF OnTheWay

\* The owner's calls, and other steps the events have no part in.
LEMMA OtherReplay ==
    ASSUME AccessInv, ReplayInv, EventInv', AccessInv',
           \/ \E w \in {"add", "remove"}, d \in Did : Call(w, d)
           \/ HangUp \/ Shutdown \/ UNCHANGED vars
    PROVE  ReplayInv'
<1>1. /\ UNCHANGED <<log, hand, chan, cursor, now, up, pos, saved, watched, handled, torn,
                     receiver, members, watchlist>>
      /\ doing'["ingester"] = doing["ingester"]
  BY WayTypes DEF Call, HangUp, Shutdown, vars, database, process, client, ingester, history,
                  Worker
<1>2. \A d \in Did \ ({Owner} \cup called') : IsMember(d)' = IsMember(d)
  BY <1>1 DEF IsMember
<1>3. called \subseteq called'
  BY DEF Call, HangUp, Shutdown, vars, history
<1> QED
  BY <1>1, <1>2, <1>3, QuietStep

\* Of the watch list only calls take someone.
LEMMA WatchedStay ==
    ASSUME AccessInv, ReplayInv, NEW a \in Worker, Advance(a)
    PROVE  watchlist \subseteq watchlist' \cup called
<1> DEFINE o == doing[a]
<1>1. /\ OperationOk(o, DOMAIN log, repos) /\ Busy(a)
      /\ UNCHANGED watchlist \/ Tables(o, Head(o.todo))
  BY AdvanceFacts
<1>2. o.what = "remove" => o.did \in called
  <2>1. CASE a = "xrpc"
    BY <1>1, <2>1 DEF ReplayInv, EventInv
  <2>2. CASE a = "ingester"
    <3> DEFINE e == log[o.event]
    <3>1. o.what = What(e) /\ o.event # 0
      BY <1>1, <2>2 DEF ReplayInv, EventInv, IngesterInv
    <3>2. o.event \in DOMAIN log /\ log \in Seq(Event)
      BY <1>1, <3>1 DEF OperationOk, AccessInv, PlacesInv
    <3>3. e \in Event
      BY <3>2
    <3> HIDE DEF e, o
    <3>4. What(e) # "remove"
      BY <3>3 DEF What, Event, Of
    <3> QED
      BY <3>1, <3>4
  <2> QED
    BY <2>1, <2>2 DEF Worker
<1> HIDE DEF o
<1> QED
  BY <1>1, <1>2 DEF Tables

\* A step of a call.
LEMMA XrpcReplay ==
    ASSUME AccessInv, ReplayInv, EventInv', AccessInv', Advance("xrpc")
    PROVE  ReplayInv'
<1>1. "xrpc" \in Worker /\ "ingester" \in Worker
  BY DEF Worker
<1>2. /\ UNCHANGED <<log, hand, chan, cursor, now, up, pos, saved, watched, receiver, called>>
      /\ doing'["ingester"] = doing["ingester"] /\ Busy("xrpc") /\ doing["xrpc"].event = 0
  BY <1>1, AdvanceFacts DEF Advance, client, ingester, AccessInv, CursorInv, Types
<1>3. UNCHANGED <<handled, torn>>
  BY <1>1, <1>2, AdvanceFacts DEF Finished
<1>4. \A d \in Did \ ({Owner} \cup called') : IsMember(d)' = IsMember(d)
  BY <1>1, <1>2, RowsKept DEF ReplayInv, EventInv
<1> QED
  BY <1>1, <1>2, <1>3, <1>4, WatchedStay, QuietStep

\* The ingester goes on with its operation: a row that changes follows an event that is
\* no earlier than the last one, or the last one is on its way.
LEMMA GoesOnReplay ==
    ASSUME AccessInv, ReplayInv, EventInv', AccessInv', Advance("ingester"),
           doing'["ingester"] # Idle
    PROVE  ReplayInv'
<1> DEFINE o == doing["ingester"]
           e == o.event
<1>1. "xrpc" \in Worker /\ "ingester" \in Worker
  BY DEF Worker
<1>2. /\ UNCHANGED <<log, hand, chan, cursor, now, up, pos, saved, watched, receiver, called,
                     handled, torn>>
      /\ Busy("ingester") /\ OperationOk(o, DOMAIN log, repos)
      /\ Busy("ingester")' /\ doing'["ingester"].event = e
  <2>1. /\ DOMAIN o = Fields /\ doing'["ingester"] = [o EXCEPT !.todo = Tail(@)]
        /\ UNCHANGED <<handled, torn, log, hand, chan, cursor, now, up, pos, saved>>
        /\ Busy("ingester") /\ OperationOk(o, DOMAIN log, repos)
    BY <1>1, AdvanceFacts
  <2>2. doing'["ingester"].event = e
    BY <2>1 DEF Fields
  <2> QED
    BY <2>1, <2>2 DEF Advance, client, ingester, Busy
<1>3. InProgress' = InProgress
  BY <1>2, InProgressIs, InProgressNext DEF ReplayInv
<1>4. OnTheWay' = OnTheWay /\ Seen' = Seen
  BY <1>2, <1>3 DEF OnTheWay, Seen
<1>5. OrderInv'
  BY <1>2, <1>3, OrderShrinks
<1>6. StreamInv' /\ SeenInv' /\ WatchInv'
  BY <1>1, <1>2, <1>4, WayShrinks, WatchedStay
<1>7. e \in OnTheWay /\ e \in Nat /\ up
  BY <1>2, DoneFirst, WayTypes
<1>8. LastInv'
  <2> SUFFICES ASSUME NEW d \in Did \ ({Owner} \cup called), NEW m \in Seen \ torn,
                      IsLast(m, d), log[m].author \notin called
               PROVE  (IsMember(d)' <=> log[m].operation = "put") \/ ToCome(m, d)
    BY <1>2, <1>4 DEF LastInv, IsLast, ToCome, Concerns
  <2>1. CASE IsMember(d)' = IsMember(d)
    BY <2>1 DEF ReplayInv, LastInv
  <2>2. CASE IsMember(d)' # IsMember(d)
    <3>1. o.did = d /\ o.what \in {"add", "remove", "leave"}
      BY <1>1, <2>2, RowsKept
    <3>2. o.what = What(log[e]) /\ o.did = Whom(log[e]) /\ e \in DOMAIN log
      BY <1>2, <1>7, WayTypes DEF ReplayInv, EventInv, IngesterInv
    <3>3. o.what # "remove"
      <4>1. log[e] \in Event
        BY <3>2, WayTypes
      <4> QED
        BY <3>2, <4>1 DEF What, Event, Of
    <3>4. Concerns(e, d)
      BY <3>1, <3>2, <3>3, ConcernsIsAsked DEF AccessInv
    <3>5. m \in 1 .. Len(log) /\ cursor \in Nat /\ e <= cursor /\ e # 0
      BY <1>7, WayTypes DEF ReplayInv, OrderInv, OnTheWay
    <3>6. CASE e >= m
      BY <1>7, <3>4, <3>6 DEF ToCome
    <3>7. CASE cursor < m
      BY <1>7, <3>5, <3>7 DEF ToCome
    <3>8. CASE e < m /\ m <= cursor
      <4>1. Wanted(m)
        BY <1>7 DEF ReplayInv, WatchInv, Heard, Wanted
      <4>2. Concerns(m, d) /\ log[m].kind # "other"
        BY DEF IsLast, Concerns
      <4>3. m \in OnTheWay
        BY <1>7, <3>5, <3>8, <4>1, <4>2 DEF ReplayInv, StreamInv
      <4> QED
        BY <3>5, <4>2, <4>3 DEF ToCome
    <3> QED
      BY <1>7, <3>5, <3>6, <3>7, <3>8
  <2> QED
    BY <2>1, <2>2
<1> QED
  BY <1>5, <1>6, <1>8 DEF ReplayInv

\* The ingester ends its operation: its event is seen, and the row says so if that is the
\* last one.
LEMMA EndsReplay ==
    ASSUME AccessInv, ReplayInv, EventInv', AccessInv', Advance("ingester"),
           doing'["ingester"] = Idle
    PROVE  ReplayInv'
<1> DEFINE o == doing["ingester"]
           e == o.event
           step == Head(o.todo)
<1>1. "xrpc" \in Worker /\ "ingester" \in Worker
  BY DEF Worker
<1>2. /\ UNCHANGED <<log, hand, chan, cursor, now, up, pos, saved, watched, receiver, called>>
      /\ Busy("ingester") /\ OperationOk(o, DOMAIN log, repos) /\ ~Busy("ingester")'
  BY <1>1, AdvanceFacts DEF Advance, client, ingester, Busy
<1>3. /\ \/ UNCHANGED members /\ Finished(o, FALSE)
         \/ Tables(o, step) /\ Ends(o, step) /\ Finished(o, TRUE)
  <2>1. DOMAIN o = Fields /\ DOMAIN [o EXCEPT !.todo = Tail(@)] = Fields /\ DOMAIN Idle # Fields
    BY <1>1, AdvanceFacts DEF Idle, Fields
  <2> QED
    BY <1>1, <2>1, AdvanceFacts
<1>4. InProgress = {e} /\ e \in OnTheWay /\ (\A i \in OnTheWay : e <= i) /\ e # 0 /\ e \in Nat
  BY <1>2, DoneFirst, WayTypes DEF OnTheWay
<1>5. InProgress' = {}
  BY <1>2, InProgressNext
<1>6. /\ OnTheWay \ {e} \subseteq OnTheWay' /\ OnTheWay' \subseteq OnTheWay
      /\ Seen' = Seen \cup {e}
  BY <1>2, <1>3, <1>4, <1>5 DEF OnTheWay, Seen, Finished
<1>7. OrderInv'
  BY <1>2, <1>4, <1>5, OrderShrinks
<1>8. StreamInv' /\ SeenInv' /\ WatchInv'
  BY <1>1, <1>2, <1>4, <1>6, WayShrinks, WatchedStay
<1>9. /\ o.what = What(log[e]) /\ o.did = Whom(log[e]) /\ e \in DOMAIN log
      /\ o.did \notin called /\ o.what \in {"add", "leave"} /\ step # "table"
             => (IsMember(o.did) <=> o.what = "add")
  BY <1>2, <1>4, WayTypes DEF ReplayInv, EventInv, IngesterInv
<1>10. log[e] \in Event
  BY <1>9, WayTypes
\* It ends without a change of the row.
<1>11. ASSUME NEW d \in Did PROVE IsMember(d)' = IsMember(d)
  <2>1. CASE UNCHANGED members
    BY <2>1 DEF IsMember
  <2>2. CASE Tables(o, step) /\ Ends(o, step)
    <3>1. step = "table" => o.what = "leave" /\ ~IsMember(o.did)
      BY <1>2, <2>2, TodoFacts DEF Ends, OperationOk
    <3>2. members \in [Did -> {"none", "member", "owner"}] /\ o.did \in Did
      BY <1>2 DEF AccessInv, TablesInv, OperationOk
    <3> HIDE DEF o
    <3> QED
      BY <2>2, <3>1, <3>2 DEF Tables, RemoveMember, IsMember
  <2> QED
    BY <1>3, <2>1, <2>2
\* The row says what the event asked for.
<1>12. ASSUME NEW d \in Did \ called, Concerns(e, d), Finished(o, TRUE), Ends(o, step)
       PROVE  IsMember(d) <=> log[e].operation = "put"
  <2>1. o.what \in {"add", "leave"} /\ o.did = d
    BY <1>9, <1>12, ConcernsIsAsked DEF AccessInv
  <2>2. o.what = "add" <=> log[e].operation = "put"
    BY <1>9, <1>10, <2>1 DEF What, Event, Of
  <2>3. step = "table" => o.what = "leave" /\ ~IsMember(o.did)
    BY <1>2, <1>12, TodoFacts DEF Ends, OperationOk
  <2> QED
    BY <1>9, <2>1, <2>2, <2>3
<1>13. /\ \A i \in DOMAIN log, d \in Did : Concerns(i, d)' = Concerns(i, d)
       /\ Seen \subseteq DOMAIN log /\ OnTheWay \subseteq DOMAIN log
  BY <1>2, WayTypes DEF Concerns
<1>14. LastInv'
  <2> SUFFICES ASSUME NEW d \in Did \ ({Owner} \cup called), NEW m \in Seen' \ torn',
                      IsLast(m, d)', log[m].author \notin called
               PROVE  (IsMember(d) <=> log[m].operation = "put") \/ ToCome(m, d)'
    BY <1>2, <1>11 DEF LastInv
  <2>1. /\ Concerns(m, d) /\ \A i \in Seen \cup {e} : Concerns(i, d) => i <= m
        /\ m \in Seen \/ m = e
    BY <1>6, <1>13, <1>4 DEF IsLast
  <2>2. CASE m = e
    <3>1. Finished(o, TRUE) /\ Ends(o, step)
      BY <1>3, <1>4, <2>2 DEF Finished
    <3> QED
      BY <1>12, <2>1, <2>2, <3>1
  <2>3. CASE m # e
    <3>1. m \in Seen \ torn
      BY <1>3, <1>4, <2>1, <2>3 DEF Finished
    <3>2. IsLast(m, d)
      BY <2>1, <3>1 DEF IsLast
    <3>3. (IsMember(d) <=> log[m].operation = "put") \/ ToCome(m, d)
      BY <3>1, <3>2 DEF ReplayInv, LastInv
    <3>4. CASE \E i \in OnTheWay : i >= m /\ Concerns(i, d)
      <4> PICK i \in OnTheWay : i >= m /\ Concerns(i, d)
        BY <3>4
      <4>1. i # e
        <5>1. m \in Nat
          BY <3>1, WayTypes
        <5> QED
          BY <1>4, <2>1, <2>3, <5>1
      <4> QED
        BY <1>6, <1>13, <4>1 DEF ToCome
    <3>5. CASE up /\ 0 < cursor /\ cursor < m
      BY <1>2, <3>5 DEF ToCome
    <3>6. CASE ~up /\ 0 < saved /\ saved < m
      BY <1>2, <3>6 DEF ToCome
    <3> QED
      BY <3>3, <3>4, <3>5, <3>6 DEF ToCome
  <2> QED
    BY <2>2, <2>3
<1> QED
  BY <1>7, <1>8, <1>14 DEF ReplayInv

\* The earliest event leaves the channel for an operation, or is ignored, which concerns
\* nobody.
LEMMA IngestReplay ==
    ASSUME AccessInv, ReplayInv, EventInv', AccessInv', Ingest
    PROVE  ReplayInv'
<1> DEFINE i == Head(chan)
<1>1. /\ UNCHANGED <<log, hand, cursor, now, up, pos, saved, watched, watchlist, receiver, called,
                     members>>
      /\ up /\ receiver /\ chan # <<>> /\ ~Busy("ingester") /\ chan' = Tail(chan)
  BY DEF Ingest, database, process, client
<1>2. /\ i \in ToSet(chan) /\ ToSet(chan') \subseteq ToSet(chan)
      /\ ToSet(chan) \subseteq ToSet(chan') \cup {i} /\ i \in Nat \ {0}
      /\ Sorted(chan') /\ \A j \in ToSet(chan') : i <= j
  BY <1>1, WayTypes, ToSetInTail, ToSetOfTail, SortedTail DEF ReplayInv, OrderInv
<1>3. InProgress = {}
  BY <1>1, InProgressIs DEF ReplayInv
<1>4. i \in OnTheWay /\ i \in DOMAIN log /\ (hand # 0 => i <= hand)
  <2>1. i \in OnTheWay
    BY <1>2 DEF OnTheWay
  <2> QED
    BY <1>2, <2>1, WayTypes DEF ReplayInv, OrderInv
<1>5. CASE /\ What(log[i]) = "ignore" /\ doing' = doing
           /\ handled' = handled \cup {i} /\ torn' = torn \ {i}
  <2>1. InProgress' = {}
    BY <1>1, <1>5, InProgressNext DEF Busy
  <2>2. /\ OnTheWay \ {i} \subseteq OnTheWay' /\ OnTheWay' \subseteq OnTheWay
        /\ Seen' = Seen \cup {i}
    BY <1>1, <1>2, <1>3, <1>5, <2>1 DEF OnTheWay, Seen
  <2>3. OnTheWay' \subseteq ToSet(chan') \cup ({hand} \ {0})
    BY <1>1, <2>1 DEF OnTheWay
  <2>4. \A j \in OnTheWay' : i <= j
    BY <1>2, <1>4, <2>3
  <2>5. StreamInv' /\ SeenInv' /\ WatchInv'
    BY <1>1, <1>2, <1>4, <2>2, <2>4, WayShrinks
  <2>6. OrderInv'
    BY <1>1, <1>2, <2>1, <2>2 DEF ReplayInv, OrderInv, Connected
  <2>7. \A d \in Did : ~Concerns(i, d)
    BY <1>4, <1>5, ConcernsIsAsked DEF AccessInv
  <2>8. LastInv'
    <3> SUFFICES ASSUME NEW d \in Did \ ({Owner} \cup called), NEW m \in Seen' \ torn',
                        IsLast(m, d)', log[m].author \notin called
                 PROVE  (IsMember(d) <=> log[m].operation = "put") \/ ToCome(m, d)'
      BY <1>1 DEF LastInv, IsMember
    <3>1. \A j : Concerns(j, d)' = Concerns(j, d)
      BY <1>1 DEF Concerns
    <3>2. m # i /\ m \in Seen \ torn /\ IsLast(m, d)
      BY <1>5, <2>2, <2>7, <3>1 DEF IsLast
    <3>3. (IsMember(d) <=> log[m].operation = "put") \/ ToCome(m, d)
      BY <3>2 DEF ReplayInv, LastInv
    <3>4. ToCome(m, d) => ToCome(m, d)'
      BY <1>1, <2>2, <2>7, <3>1 DEF ToCome
    <3> QED
      BY <3>3, <3>4
  <2> QED
    BY <2>5, <2>6, <2>8 DEF ReplayInv
<1>6. CASE /\ handled' = handled /\ torn' = torn
           /\ \E w \in {"add", "leave", "repo", "collaborator"} : \E d, r :
                  doing' = [doing EXCEPT !["ingester"] = Operation(w, d, r, i)]
  <2>1. InProgress' = {i}
    <3> PICK w \in {"add", "leave", "repo", "collaborator"} : \E d, r :
                  doing' = [doing EXCEPT !["ingester"] = Operation(w, d, r, i)]
      BY <1>6
    <3> PICK d, r : doing' = [doing EXCEPT !["ingester"] = Operation(w, d, r, i)]
      OBVIOUS
    <3>1. doing'["ingester"] = Operation(w, d, r, i)
      BY WayTypes DEF Worker
    <3>2. Operation(w, d, r, i) # Idle /\ Operation(w, d, r, i).event = i
      BY OperationFacts
    <3> QED
      BY <3>1, <3>2, InProgressNext DEF Busy
  <2>2. OnTheWay' = OnTheWay /\ Seen' = Seen
    <3>1. ToSet(chan) = ToSet(chan') \cup {i}
      BY <1>2
    <3> QED
      BY <1>1, <1>2, <1>3, <1>6, <2>1, <3>1 DEF OnTheWay, Seen
  <2>3. StreamInv' /\ SeenInv' /\ WatchInv'
    BY <1>1, <2>2, WayShrinks
  <2>4. OrderInv'
    BY <1>1, <1>2, <1>4, <2>1, <2>2 DEF ReplayInv, OrderInv, Connected
  <2>5. LastInv'
    <3> PICK X : X = {}
      OBVIOUS
    <3>1. /\ X \subseteq OnTheWay /\ OnTheWay \ X \subseteq OnTheWay' /\ Seen' = Seen \cup X
          /\ torn \cup X \subseteq torn'
      BY <1>6, <2>2
    <3>2. \A d \in Did \ ({Owner} \cup called') : IsMember(d)' = IsMember(d)
      BY <1>1 DEF IsMember
    <3> QED
      BY <1>1, <3>1, <3>2, CutOff
  <2> QED
    BY <2>3, <2>4, <2>5 DEF ReplayInv
<1>7. What(log[i]) # "ignore" => What(log[i]) \in {"add", "leave", "repo", "collaborator"}
  BY <1>4, WayTypes, WhatIsAsked
<1> QED
  BY <1>5, <1>6, <1>7 DEF Ingest

\* What the ingester leaves in the channel is cut off.
LEMMA IngesterStopsReplay ==
    ASSUME AccessInv, ReplayInv, EventInv', AccessInv', IngesterStops
    PROVE  ReplayInv'
<1>1. /\ UNCHANGED <<log, hand, cursor, now, up, pos, saved, watched, watchlist, called, members,
                     handled, doing>>
      /\ ~Busy("ingester") /\ chan' = <<>> /\ torn' = torn \cup ToSet(chan)
  BY DEF IngesterStops, database, process, client
<1>2. InProgress = {} /\ InProgress' = {} /\ ToSet(chan') = {}
  BY <1>1, ToSetOfNone, InProgressIs, InProgressNext DEF ReplayInv, Busy
<1>3. /\ OnTheWay = ({hand} \cup ToSet(chan)) \ {0} /\ OnTheWay' = {hand} \ {0}
      /\ Seen' = Seen \cup ToSet(chan)
  BY <1>1, <1>2 DEF OnTheWay, Seen
<1>4. 0 \notin ToSet(chan) /\ \A i \in ToSet(chan) : hand # 0 => i <= hand
  <2>1. \A i \in ToSet(chan) : i \in DOMAIN log
    BY DEF AccessInv, PlacesInv
  <2> QED
    BY <2>1, WayTypes DEF ReplayInv, OrderInv
<1>5. StreamInv' /\ SeenInv' /\ WatchInv'
  <2>1. ASSUME NEW i \in OnTheWay', NEW j \in OnTheWay \ OnTheWay' PROVE j <= i
    BY <1>3, <1>4
  <2> QED
    BY <1>1, <1>3, <1>4, <2>1, WayShrinks
<1>6. OrderInv'
  <2>1. Sorted(<<>>)
    BY DEF Sorted
  <2> QED
    BY <1>1, <1>2, <1>3, <2>1 DEF ReplayInv, OrderInv, Connected, Busy
<1>7. LastInv'
  <2> PICK X : X = ToSet(chan)
    OBVIOUS
  <2>1. /\ X \subseteq OnTheWay /\ OnTheWay \ X \subseteq OnTheWay' /\ Seen' = Seen \cup X
        /\ torn \cup X \subseteq torn'
    BY <1>1, <1>3, <1>4
  <2>2. \A d \in Did \ ({Owner} \cup called') : IsMember(d)' = IsMember(d)
    BY <1>1 DEF IsMember
  <2>3. (up /\ up' /\ cursor' = cursor) \/ (~up /\ ~up' /\ saved' = saved)
    BY <1>1
  <2> QED
    BY <1>1, <2>1, <2>2, <2>3, CutOff
<1> QED
  BY <1>5, <1>6, <1>7 DEF ReplayInv

\* A connection begins at the cursor, or after everything that was seen.
LEMMA ConnectReplay ==
    ASSUME AccessInv, ReplayInv, EventInv', AccessInv', Connect
    PROVE  ReplayInv'
<1>1. /\ UNCHANGED <<log, hand, chan, cursor, now, up, saved, watched, watchlist, called, members,
                     handled, torn, doing, receiver>>
      /\ up /\ ~Connected /\ pos' \in From
  BY DEF Connect, database, process, ingester, history
<1>2. InProgress' = InProgress
  BY <1>1, InProgressIs, InProgressNext DEF ReplayInv, Busy
<1>3. OnTheWay' = OnTheWay /\ Seen' = Seen
  BY <1>1, <1>2 DEF OnTheWay, Seen
<1>4. /\ cursor \in Nat /\ now \in Nat /\ Seen \subseteq Nat
      /\ cursor > 0 => pos' = cursor \/ pos' = cursor + 1
      /\ cursor = 0 => pos' \in Nat /\ pos' > now
  <2>1. cursor \in Nat /\ now \in Nat /\ Seen \subseteq Nat /\ Len(log) \in Nat
    BY WayTypes
  <2> QED
    BY <1>1, <2>1 DEF From
<1>5. OrderInv'
  BY <1>1, <1>2, <1>3 DEF ReplayInv, OrderInv, Busy, Connected
<1>6. StreamInv'
  <2>1. cursor > 0 => pos' >= cursor /\ \A i \in cursor + 1 .. pos' - 1 : FALSE
    BY <1>4
  <2> QED
    BY <1>1, <1>3, <2>1 DEF ReplayInv, StreamInv, Wanted
<1>7. SeenInv'
  <2>1. cursor = 0 => \A i \in Seen : i < pos'
    BY <1>4 DEF ReplayInv, SeenInv
  <2> QED
    BY <1>1, <1>3, <2>1 DEF ReplayInv, SeenInv
<1>8. WatchInv'
  BY <1>1, <1>3 DEF ReplayInv, WatchInv, Heard
<1>9. LastInv'
  BY <1>1, <1>3 DEF ReplayInv, LastInv, IsLast, ToCome, Concerns, IsMember
<1> QED
  BY <1>5, <1>6, <1>7, <1>8, <1>9 DEF ReplayInv

\* The client passes over an event, or takes it up after all that is on its way: the last
\* one of a DID is not passed over.
LEMMA ReadReplay ==
    ASSUME AccessInv, ReplayInv, EventInv', AccessInv', Read
    PROVE  ReplayInv'
<1>1. /\ UNCHANGED <<log, chan, up, saved, watched, watchlist, called, members, torn, doing,
                     receiver>>
      /\ up /\ Connected /\ hand = 0 /\ pos <= Len(log)
      /\ pos' = pos + 1 /\ now' = Max({now, pos})
  BY DEF Read, database, process, ingester
<1>2. /\ cursor \in Nat /\ now \in Nat /\ pos \in Nat \ {0} /\ saved \in Nat
      /\ Seen \subseteq Nat /\ OnTheWay \subseteq Nat \ {0} /\ pos \in DOMAIN log
  BY <1>1, WayTypes DEF OnTheWay, Connected
<1>3. now' \in Nat /\ now <= now' /\ pos <= now'
  BY <1>1, <1>2, MaxOfTwo
<1>4. InProgress' = InProgress
  BY <1>1, InProgressIs, InProgressNext DEF ReplayInv, Busy
<1>5. \/ /\ ~Wanted(pos) /\ UNCHANGED <<cursor, hand, handled>>
      \/ /\ Wanted(pos) /\ cursor' = Max({cursor, pos})
         /\ \/ log[pos].kind = "other" /\ hand' = 0 /\ handled' = handled \cup {pos}
            \/ log[pos].kind # "other" /\ hand' = pos /\ handled' = handled
  BY <1>1 DEF Read
<1>6. cursor > 0 => pos >= cursor /\ \A i \in cursor + 1 .. pos - 1 : ~Wanted(i)
  BY <1>1 DEF ReplayInv, StreamInv
<1>7. Wanted(pos) => cursor' = pos /\ cursor <= pos
  <2>1. Wanted(pos) => cursor' = IF cursor >= pos THEN cursor ELSE pos
    BY <1>2, <1>5, MaxOfTwo
  <2> QED
    BY <1>2, <1>6, <2>1
<1>8. \A i : Wanted(i)' = Wanted(i)
  BY <1>1 DEF Wanted
<1>9. /\ ~Wanted(pos) => OnTheWay' = OnTheWay /\ Seen' = Seen /\ cursor' = cursor
      /\ Wanted(pos) /\ log[pos].kind = "other" => OnTheWay' = OnTheWay /\ Seen' = Seen \cup {pos}
      /\ Wanted(pos) /\ log[pos].kind # "other" => OnTheWay' = OnTheWay \cup {pos} /\ Seen' = Seen
  BY <1>1, <1>2, <1>4, <1>5 DEF OnTheWay, Seen
<1>10. \A i \in OnTheWay : i <= cursor
  BY DEF ReplayInv, OrderInv
<1>11. OrderInv'
  <2>1. \A i \in OnTheWay' : i <= cursor'
    <3>1. CASE ~Wanted(pos)
      BY <1>9, <1>10, <3>1
    <3>2. CASE Wanted(pos)
      <4>1. ASSUME NEW i \in OnTheWay' PROVE i <= pos
        <5>1. i \in OnTheWay \/ i = pos
          BY <1>9, <3>2
        <5>2. i \in OnTheWay => i <= cursor /\ i \in Nat
          BY <1>2, <1>10
        <5> QED
          BY <1>2, <1>7, <3>2, <5>1, <5>2
      <4> QED
        BY <1>7, <3>2, <4>1
    <3> QED
      BY <3>1, <3>2
  <2>2. saved <= cursor' /\ cursor' <= now' /\ saved <= now'
    <3>1. saved <= cursor /\ cursor <= now /\ saved <= now
      BY <1>1 DEF ReplayInv, OrderInv
    <3> QED
      BY <1>2, <1>3, <1>7, <1>9, <3>1
  <2>3. \A i \in InProgress \cup ToSet(chan) : hand' # 0 => i <= hand'
    <3>1. \A i \in InProgress \cup ToSet(chan) : i \in OnTheWay \/ i = 0
      BY DEF OnTheWay
    <3>2. hand' # 0 => hand' = pos /\ cursor <= pos
      BY <1>1, <1>5, <1>7
    <3>3. ASSUME NEW i \in InProgress \cup ToSet(chan), hand' # 0 PROVE i <= hand'
      <4>1. CASE i = 0
        BY <1>2, <3>2, <3>3, <4>1
      <4>2. CASE i \in OnTheWay
        BY <1>2, <1>10, <3>2, <3>3, <4>2
      <4> QED
        BY <3>1, <3>3, <4>1, <4>2
    <3> QED
      BY <3>3
  <2>4. Connected'
    BY <1>1, <1>2 DEF Connected
  <2> QED
    BY <1>1, <1>4, <2>1, <2>2, <2>3, <2>4 DEF ReplayInv, OrderInv, Busy
<1>12. StreamInv'
  <2>1. CASE ~Wanted(pos)
    <3>1. cursor' > 0 => pos' >= cursor' /\ \A i \in cursor' + 1 .. pos' - 1 : ~Wanted(i)
      <4>1. \A i \in cursor + 1 .. pos' - 1 : i \in cursor + 1 .. pos - 1 \/ i = pos
        BY <1>1, <1>2
      <4> QED
        BY <1>1, <1>2, <1>6, <1>9, <2>1, <4>1
    <3> QED
      BY <1>1, <1>8, <1>9, <2>1, <3>1 DEF ReplayInv, StreamInv
  <2>2. CASE Wanted(pos)
    <3>1. pos' >= cursor' /\ \A i \in cursor' + 1 .. pos' - 1 : FALSE
      BY <1>1, <1>2, <1>7, <2>2
    <3>2. ASSUME NEW i \in OnTheWay', NEW j \in 1 .. pos, i < j, Wanted(j),
                 log[j].kind # "other"
          PROVE  j \in OnTheWay'
      <4>1. CASE j = pos
        BY <1>9, <2>2, <3>2, <4>1
      <4>2. CASE j # pos
        <5>1. i # pos
          BY <1>2, <3>2
        <5>2. i \in OnTheWay
          BY <1>9, <2>2, <5>1
        <5>3. cursor > 0 /\ j \in Nat /\ j < pos /\ j >= 1
          <6>1. i <= cursor /\ i \in Nat \ {0}
            BY <1>2, <1>10, <5>2
          <6> QED
            BY <1>2, <4>2, <6>1
        <5>4. j <= cursor
          BY <1>2, <1>6, <3>2, <5>3
        <5>5. j \in OnTheWay
          BY <1>1, <1>2, <3>2, <5>2, <5>3, <5>4 DEF ReplayInv, StreamInv
        <5> QED
          BY <1>9, <2>2, <5>5
      <4> QED
        BY <4>1, <4>2
    <3> QED
      BY <1>1, <1>7, <1>8, <2>2, <3>1, <3>2 DEF StreamInv
  <2> QED
    BY <2>1, <2>2
<1>13. SeenInv'
  <2>1. \A i \in Seen' : i \in Seen \/ (i = pos /\ Wanted(pos))
    BY <1>9
  <2>2. \A i \in Seen : i <= now
    BY DEF ReplayInv, SeenInv
  <2>3. ASSUME NEW i \in Seen' PROVE i <= now'
    <3>1. CASE i \in Seen
      BY <1>2, <1>3, <2>2, <3>1
    <3>2. CASE i = pos
      BY <1>3, <3>2
    <3> QED
      BY <2>1, <3>1, <3>2
  <2>4. ASSUME cursor' = 0, NEW i \in Seen' PROVE i < pos'
    <3>1. ~Wanted(pos) /\ cursor = 0
      BY <1>2, <1>7, <1>9, <2>4
    <3>2. i \in Seen /\ i < pos
      BY <1>1, <2>1, <3>1 DEF ReplayInv, SeenInv
    <3> QED
      BY <1>1, <1>2, <3>2
  <2>5. ASSUME cursor' > 0, saved = 0, NEW i \in Seen' PROVE i <= cursor'
    <3>1. CASE cursor > 0
      <4>1. \A j \in Seen : j <= cursor
        BY <1>1, <2>5, <3>1 DEF ReplayInv, SeenInv
      <4> QED
        BY <1>2, <1>7, <1>9, <2>1, <4>1
    <3>2. CASE cursor = 0
      <4>1. Wanted(pos) /\ cursor' = pos
        BY <1>7, <1>9, <2>5, <3>2
      <4>2. i \in Seen => i < pos /\ i \in Nat
        BY <1>1, <1>2, <3>2 DEF ReplayInv, SeenInv
      <4>3. i \in Seen \/ i = pos
        BY <2>1, <2>5
      <4> QED
        BY <1>2, <4>1, <4>2, <4>3
    <3> QED
      BY <1>2, <3>1, <3>2
  <2> QED
    BY <1>1, <2>3, <2>4, <2>5 DEF SeenInv
<1>14. WatchInv'
  <2>1. Heard' = Heard
    BY <1>1 DEF Heard
  <2>2. Wanted(pos) => log[pos].author \in Heard
    BY <1>1 DEF Wanted, Heard
  <2> QED
    BY <1>1, <1>9, <2>1, <2>2 DEF ReplayInv, WatchInv
<1>15. LastInv'
  <2> SUFFICES ASSUME NEW d \in Did \ ({Owner} \cup called), NEW m \in Seen' \ torn,
                      IsLast(m, d)', log[m].author \notin called
               PROVE  (IsMember(d) <=> log[m].operation = "put") \/ ToCome(m, d)'
    BY <1>1 DEF LastInv, IsMember
  <2>1. \A i : Concerns(i, d)' = Concerns(i, d)
    BY <1>1 DEF Concerns
  <2>2. m \in Seen
    BY <1>9, <2>1 DEF IsLast, Concerns
  <2>3. IsLast(m, d)
    <3>1. Seen \subseteq Seen'
      BY <1>9
    <3> QED
      BY <2>1, <2>2, <3>1 DEF IsLast
  <2>4. (IsMember(d) <=> log[m].operation = "put") \/ ToCome(m, d)
    BY <2>2, <2>3 DEF ReplayInv, LastInv
  <2>5. CASE \E i \in OnTheWay : i >= m /\ Concerns(i, d)
    BY <1>9, <2>1, <2>5 DEF ToCome
  <2>6. CASE 0 < cursor /\ cursor < m
    <3>1. Wanted(m) /\ m \in Nat
      BY <1>1, <1>2, <2>2 DEF ReplayInv, WatchInv, Heard, Wanted
    <3>2. m >= pos
      BY <1>2, <1>6, <2>6, <3>1
    <3>3. CASE ~Wanted(pos)
      BY <1>1, <1>9, <2>6, <3>3 DEF ToCome
    <3>4. CASE Wanted(pos) /\ m # pos
      BY <1>1, <1>2, <1>7, <3>1, <3>2, <3>4 DEF ToCome
    <3>5. CASE m = pos
      <4>1. log[pos].kind # "other" /\ Concerns(pos, d)
        BY <2>3, <3>5 DEF IsLast, Concerns
      <4>2. pos \in OnTheWay'
        BY <1>9, <3>1, <3>5, <4>1
      <4> QED
        BY <1>2, <2>1, <3>5, <4>1, <4>2 DEF ToCome
    <3> QED
      BY <3>3, <3>4, <3>5
  <2> QED
    BY <1>1, <2>4, <2>5, <2>6 DEF ToCome
<1> QED
  BY <1>11, <1>12, <1>13, <1>14, <1>15 DEF ReplayInv
\* What is sent is in the channel after all the rest, or is cut off with nothing else on
\* its way.
LEMMA SendReplay ==
    ASSUME AccessInv, ReplayInv, EventInv', AccessInv', Send
    PROVE  ReplayInv'
<1>1. /\ UNCHANGED <<log, cursor, now, up, pos, watched, watchlist, called, members, handled,
                     doing, receiver>>
      /\ up /\ hand # 0 /\ hand' = 0 /\ saved' \in {saved, cursor}
      /\ \/ receiver /\ chan' = Append(chan, hand) /\ torn' = torn
         \/ ~receiver /\ chan' = chan /\ torn' = torn \cup {hand}
  BY DEF Send, Saved, Enqueue, process
<1>2. /\ chan \in Seq(Nat \ {0}) /\ hand \in Nat \ {0} /\ saved \in Nat /\ cursor \in Nat
      /\ now \in Nat
  BY <1>1, WayTypes
<1>3. InProgress' = InProgress
  BY <1>1, InProgressIs, InProgressNext DEF ReplayInv, Busy
<1>4. /\ \A i \in InProgress, j \in ToSet(chan) : i <= j
      /\ \A i \in InProgress \cup ToSet(chan) : i <= hand
      /\ hand <= cursor /\ saved <= cursor /\ cursor <= now /\ Sorted(chan)
  <2>1. hand \in OnTheWay
    BY <1>1 DEF OnTheWay
  <2> QED
    BY <1>1, <2>1 DEF ReplayInv, OrderInv
<1>5. saved' <= cursor /\ saved' <= now
  BY <1>1, <1>2, <1>4
<1>6. \A d \in Did \ ({Owner} \cup called') : IsMember(d)' = IsMember(d)
  BY <1>1 DEF IsMember
<1>7. CASE receiver /\ chan' = Append(chan, hand) /\ torn' = torn
  <2>1. ToSet(chan') = ToSet(chan) \cup {hand}
    BY <1>2, <1>7, ToSetOfAppend, ToSetInAppend
  <2>2. OnTheWay' = OnTheWay /\ Seen' = Seen
    BY <1>1, <1>2, <1>3, <1>7, <2>1 DEF OnTheWay, Seen
  <2>3. Sorted(chan')
    BY <1>2, <1>4, <1>7, SortedAppend
  <2>4. OrderInv'
    BY <1>1, <1>3, <1>4, <1>5, <1>7, <2>1, <2>2, <2>3 DEF ReplayInv, OrderInv
  <2>5. StreamInv' /\ SeenInv' /\ WatchInv'
    BY <1>1, <2>2, WayShrinks
  <2>6. LastInv'
    <3> PICK X : X = {}
      OBVIOUS
    <3>1. /\ X \subseteq OnTheWay /\ OnTheWay \ X \subseteq OnTheWay' /\ Seen' = Seen \cup X
          /\ torn \cup X \subseteq torn'
      BY <1>7, <2>2
    <3> QED
      BY <1>1, <1>6, <3>1, CutOff
  <2> QED
    BY <2>4, <2>5, <2>6 DEF ReplayInv
<1>8. CASE ~receiver /\ chan' = chan /\ torn' = torn \cup {hand}
  <2>1. chan = <<>> /\ ~Busy("ingester") /\ ToSet(chan) = {}
    BY <1>1, <1>8, ToSetOfNone DEF ReplayInv, OrderInv
  <2>2. InProgress = {}
    BY <2>1, InProgressIs DEF ReplayInv
  <2>3. OnTheWay = {hand} /\ OnTheWay' = {} /\ Seen' = Seen \cup {hand}
    BY <1>1, <1>3, <1>8, <2>1, <2>2 DEF OnTheWay, Seen
  <2>4. OrderInv'
    BY <1>1, <1>3, <1>4, <1>5, <1>8, <2>1, <2>3 DEF ReplayInv, OrderInv, Busy
  <2>5. StreamInv' /\ SeenInv' /\ WatchInv'
    BY <1>1, <2>3, WayShrinks
  <2>6. LastInv'
    <3> PICK X : X = {hand}
      OBVIOUS
    <3>1. /\ X \subseteq OnTheWay /\ OnTheWay \ X \subseteq OnTheWay' /\ Seen' = Seen \cup X
          /\ torn \cup X \subseteq torn'
      BY <1>8, <2>3
    <3> QED
      BY <1>1, <1>6, <3>1, CutOff
  <2> QED
    BY <2>4, <2>5, <2>6 DEF ReplayInv
<1> QED
  BY <1>1, <1>7, <1>8

\* The connection ends; what is on its way stays there.
LEMMA DisconnectReplay ==
    ASSUME AccessInv, ReplayInv, EventInv', AccessInv', Disconnected \/ ClientStops
    PROVE  ReplayInv'
<1>1. /\ UNCHANGED <<log, hand, chan, cursor, now, up, watched, watchlist, called, members,
                     handled, torn, doing, receiver>>
      /\ up /\ hand = 0 /\ pos' = 0 /\ saved' \in {saved, cursor}
  BY DEF Disconnected, ClientStops, SaveRest, process, ingester, history
<1>2. InProgress' = InProgress
  BY <1>1, InProgressIs, InProgressNext DEF ReplayInv, Busy
<1>3. OnTheWay' = OnTheWay /\ Seen' = Seen
  BY <1>1, <1>2 DEF OnTheWay, Seen
<1>4. /\ cursor \in Nat /\ now \in Nat /\ saved \in Nat
      /\ saved <= cursor /\ cursor <= now
  BY <1>1, WayTypes DEF ReplayInv, OrderInv
<1>5. saved' <= cursor /\ saved' <= now /\ (cursor > 0 /\ saved' = 0 => saved = 0)
  BY <1>1, <1>4
<1>6. OrderInv'
  BY <1>1, <1>2, <1>3, <1>4, <1>5 DEF ReplayInv, OrderInv, Busy
<1>7. StreamInv'
  BY <1>1, <1>3 DEF ReplayInv, StreamInv, Wanted, Connected
<1>8. SeenInv'
  BY <1>1, <1>3, <1>5 DEF ReplayInv, SeenInv, Connected
<1>9. WatchInv'
  BY <1>1, <1>3 DEF ReplayInv, WatchInv, Heard
<1>10. LastInv'
  BY <1>1, <1>3 DEF ReplayInv, LastInv, IsLast, ToCome, Concerns, IsMember
<1> QED
  BY <1>6, <1>7, <1>8, <1>9, <1>10 DEF ReplayInv

\* A start begins at the saved cursor, with the watch list of the table.
LEMMA StartReplay ==
    ASSUME AccessInv, ReplayInv, EventInv', AccessInv', Start
    PROVE  ReplayInv'
<1>1. /\ UNCHANGED <<log, saved, now, handled, torn, called>>
      /\ ~up /\ up' /\ members' = InsertMember(Owner, "owner")
      /\ watchlist' = watchlist \cup {Owner} /\ watched' = watchlist' /\ cursor' = saved
      /\ pos' = 0 /\ hand' = 0 /\ chan' = <<>> /\ receiver' = TRUE /\ doing' = Nobody
  BY DEF Start
<1>2. OnTheWay = {} /\ now \in Nat /\ saved \in Nat /\ Seen \subseteq Nat
  BY <1>1, WayTypes
<1>3. ToSet(chan') = {} /\ Sorted(chan') /\ InProgress' = {}
  <2>1. ~Busy("ingester")'
    BY <1>1 DEF Nobody, Busy
  <2> QED
    BY <1>1, <2>1, ToSetOfNone, InProgressNext DEF Sorted
<1>4. OnTheWay' = {} /\ Seen' = Seen
  BY <1>1, <1>3 DEF OnTheWay, Seen
<1>5. saved <= now /\ \A i \in Seen : i <= now
  BY DEF ReplayInv, OrderInv, SeenInv
<1>6. OrderInv'
  BY <1>1, <1>2, <1>3, <1>4, <1>5 DEF OrderInv
<1>7. StreamInv'
  BY <1>1, <1>4 DEF StreamInv, Connected
<1>8. SeenInv'
  BY <1>1, <1>2, <1>4, <1>5 DEF SeenInv, Connected
<1>9. WatchInv'
  <2>1. Heard \subseteq Heard'
    BY <1>1 DEF Heard
  <2> QED
    BY <1>1, <1>2, <1>4, <2>1 DEF ReplayInv, WatchInv
<1>10. LastInv'
  <2>1. \A d \in Did \ {Owner} : IsMember(d)' = IsMember(d)
    BY <1>1 DEF InsertMember, IsMember, AccessInv, TablesInv
  <2>2. \A i, d : Concerns(i, d)' = Concerns(i, d)
    BY <1>1 DEF Concerns
  <2>3. \A m, d : IsLast(m, d)' = IsLast(m, d)
    BY <1>4, <2>2 DEF IsLast
  <2>4. \A m, d : ToCome(m, d) => ToCome(m, d)'
    BY <1>1, <1>2 DEF ToCome
  <2> QED
    BY <1>1, <1>4, <2>1, <2>3, <2>4 DEF ReplayInv, LastInv
<1> QED
  BY <1>6, <1>7, <1>8, <1>9, <1>10 DEF ReplayInv

\* The end of the process cuts off what was on its way; the rest will be sent again.
LEMMA OverReplay ==
    ASSUME AccessInv, ReplayInv, EventInv', AccessInv', Exit \/ Crash
    PROVE  ReplayInv'
<1>1. /\ UNCHANGED <<log, saved, cursor, now, watched, watchlist, members, handled, called>>
      /\ up /\ ~up' /\ chan' = <<>> /\ hand' = 0 /\ pos' = 0 /\ doing' = Nobody
      /\ torn' = torn \cup OnTheWay
  <2>1. Over /\ up
    BY DEF Exit, Crash
  <2>2. 0 \notin ToSet(chan) /\ 0 \notin InProgress
    <3>1. ToSet(chan) \subseteq DOMAIN log /\ 0 \notin InProgress
      BY DEF AccessInv, PlacesInv, InProgress
    <3>2. 0 \notin DOMAIN log
      BY WayTypes
    <3> QED
      BY <3>1, <3>2
  <2>3. torn' = torn \cup ToSet(chan) \cup ({hand} \ {0}) \cup InProgress
    BY <2>1 DEF Over, InProgress
  <2>4. torn' = torn \cup OnTheWay
    <3>1. OnTheWay = ToSet(chan) \cup ({hand} \ {0}) \cup InProgress
      BY <2>2 DEF OnTheWay
    <3> QED
      BY <2>3, <3>1
  <2>5. /\ UNCHANGED <<log, saved, cursor, now, watched, watchlist, members, handled, called>>
        /\ ~up' /\ chan' = <<>> /\ hand' = 0 /\ pos' = 0 /\ doing' = Nobody
    BY <2>1 DEF Over, database
  <2> QED
    BY <2>1, <2>4, <2>5
<1>2. /\ cursor \in Nat /\ now \in Nat /\ saved \in Nat /\ Seen \subseteq Nat
      /\ OnTheWay \subseteq Nat
  BY WayTypes
<1>3. ToSet(chan') = {} /\ Sorted(chan') /\ InProgress' = {}
  <2>1. ~Busy("ingester")'
    BY <1>1 DEF Nobody, Busy
  <2> QED
    BY <1>1, <2>1, ToSetOfNone, InProgressNext DEF Sorted
<1>4. OnTheWay' = {} /\ Seen' = Seen \cup OnTheWay
  BY <1>1, <1>3 DEF OnTheWay, Seen
<1>5. OrderInv'
  BY <1>1, <1>3, <1>4 DEF ReplayInv, OrderInv
<1>6. StreamInv'
  BY <1>1 DEF StreamInv
<1>7. SeenInv'
  <2>1. \A i \in OnTheWay : i <= now
    <3>1. cursor <= now /\ \A i \in OnTheWay : i <= cursor
      BY <1>1 DEF ReplayInv, OrderInv
    <3> QED
      BY <1>2, <3>1
  <2> QED
    BY <1>1, <1>4, <2>1 DEF ReplayInv, SeenInv
<1>8. WatchInv'
  <2>1. Heard \subseteq Heard'
    BY <1>1 DEF ReplayInv, WatchInv, Heard
  <2> QED
    BY <1>1, <1>4, <2>1 DEF ReplayInv, WatchInv
<1>9. LastInv'
  <2> PICK X : X = OnTheWay
    OBVIOUS
  <2>1. /\ X \subseteq OnTheWay /\ OnTheWay \ X \subseteq OnTheWay' /\ Seen' = Seen \cup X
        /\ torn \cup X \subseteq torn'
    BY <1>1, <1>4
  <2>2. \A d \in Did \ ({Owner} \cup called') : IsMember(d)' = IsMember(d)
    BY <1>1 DEF IsMember
  <2> QED
    BY <1>1, <2>1, <2>2, CutOff
<1> QED
  BY <1>5, <1>6, <1>7, <1>8, <1>9 DEF ReplayInv

\* At first nothing was seen.
LEMMA InitReplayInv == Init => ReplayInv
<1> SUFFICES ASSUME Init PROVE ReplayInv
  OBVIOUS
<1>1. /\ saved = 0 /\ up = FALSE /\ cursor = 0 /\ pos = 0 /\ hand = 0 /\ now = 0 /\ chan = <<>>
      /\ handled = {} /\ torn = {} /\ \A a \in Worker : ~Busy(a)
  BY DEF Init, Nobody, Busy, Worker
<1>2. DOMAIN doing = Worker
  BY DEF Init, Nobody, Worker
<1>3. OnTheWay = {} /\ Seen = {} /\ ToSet(chan) = {} /\ InProgress = {}
  BY <1>1, <1>2, ToSetOfNone DEF OnTheWay, Seen, InProgress
<1>4. OrderInv
  BY <1>1, <1>3 DEF OrderInv, Sorted
<1>5. StreamInv /\ SeenInv /\ WatchInv
  BY <1>1, <1>3 DEF StreamInv, SeenInv, WatchInv
<1>6. EventInv
  BY <1>1 DEF EventInv, IngesterInv, Worker
<1>7. LastInv
  BY <1>3 DEF LastInv
<1> QED
  BY <1>4, <1>5, <1>6, <1>7 DEF ReplayInv

\* Every step keeps it.
LEMMA NextReplayInv == AccessInv /\ ReplayInv /\ [Next]_vars => ReplayInv'
<1> SUFFICES ASSUME AccessInv, ReplayInv, [Next]_vars PROVE ReplayInv'
  OBVIOUS
<1>1. AccessInv' /\ EventInv'
  BY NextAccessInv, EventStep
<1>2. CASE Connect
  BY <1>1, <1>2, ConnectReplay
<1>3. CASE Read
  BY <1>1, <1>3, ReadReplay
<1>4. CASE Send
  BY <1>1, <1>4, SendReplay
<1>5. CASE Ingest
  BY <1>1, <1>5, IngestReplay
<1>6. CASE Advance("ingester")
  BY <1>1, <1>6, GoesOnReplay, EndsReplay
<1>7. CASE Advance("xrpc")
  BY <1>1, <1>7, XrpcReplay
<1>8. CASE IngesterStops
  BY <1>1, <1>8, IngesterStopsReplay
<1>9. CASE ClientStops \/ Disconnected
  BY <1>1, <1>9, DisconnectReplay
<1>10. CASE Exit \/ Crash
  BY <1>1, <1>10, OverReplay
<1>11. CASE Start
  BY <1>1, <1>11, StartReplay
<1>12. CASE HangUp \/ Shutdown \/ UNCHANGED vars
  BY <1>1, <1>12, OtherReplay
<1>13. CASE \E d \in Did : Call("add", d) \/ Call("remove", d)
  BY <1>1, <1>13, OtherReplay
<1> QED
  BY <1>2, <1>3, <1>4, <1>5, <1>6, <1>7, <1>8, <1>9, <1>10, <1>11, <1>12, <1>13
     DEF Next, Work, Stop

-----------------------------------------------------------------------------
(* The theorem about replays                                               *)

\* The largest of some positions in the log is one of them, and no other is larger.
LEMMA MaxOfPositions ==
    ASSUME NEW n \in Nat, NEW T, T \subseteq 0 .. n, T # {}
    PROVE  Max(T) \in T /\ \A i \in T : i <= Max(T)
<1> DEFINE U == {n - i : i \in T}
<1>1. U \subseteq Nat /\ U # {}
  <2>1. \A i \in T : n - i \in Nat
    OBVIOUS
  <2> QED
    BY <2>1
<1> HIDE DEF U
<1>2. \E x \in U : \A y \in U : ~(<<y, x>> \in OpToRel(<, Nat))
  BY <1>1, WFMin, NatLessThanWellFounded
<1>3. PICK x \in U : \A y \in U : x =< y
  <2>1. \A x, y \in U : <<y, x>> \notin OpToRel(<, Nat) => x =< y
    BY <1>1 DEF OpToRel
  <2> QED
    BY <1>2, <2>1
<1>4. PICK m \in T : x = n - m
  BY DEF U
<1>5. \A i \in T : m >= i
  <2>1. ASSUME NEW i \in T PROVE m >= i
    <3>1. n - i \in U
      BY DEF U
    <3>2. n - m =< n - i
      BY <1>3, <1>4, <3>1
    <3>3. m \in Nat /\ i \in Nat
      OBVIOUS
    <3> QED
      BY <3>2, <3>3
  <2> QED
    BY <2>1
<1>6. Max(T) \in T /\ \A i \in T : Max(T) >= i
  BY <1>5 DEF Max
<1> QED
  BY <1>6

\* Replays end where the history ends: a DID that no call has touched is a member iff the
\* last of the events about it that reached the ingester says so, unless that one was cut
\* off or its author is no longer listened to.
THEOREM ReplaysConverge == Spec => []ReplayConverges
<1>1. Init => AccessInv /\ ReplayInv
  BY InitAccessInv, InitReplayInv
<1>2. AccessInv /\ ReplayInv /\ [Next]_vars => (AccessInv /\ ReplayInv)'
  BY NextAccessInv, NextReplayInv
<1>3. AccessInv /\ ReplayInv => ReplayConverges
  <2> SUFFICES ASSUME AccessInv, ReplayInv, CaughtUp, NEW d \in Did \ ({Owner} \cup called)
               PROVE  LET about == {i \in handled \cup torn : Concerns(i, d)}
                      IN  /\ about # {} /\ Max(about) \notin torn
                          /\ log[Max(about)].author \notin called
                          => (IsMember(d) <=> log[Max(about)].operation = "put")
    BY DEF ReplayConverges
  <2> DEFINE about == {i \in handled \cup torn : Concerns(i, d)}
  <2> SUFFICES ASSUME about # {}, Max(about) \notin torn, log[Max(about)].author \notin called
               PROVE  IsMember(d) <=> log[Max(about)].operation = "put"
    OBVIOUS
  <2>1. Seen \subseteq 1 .. Len(log) /\ Len(log) \in Nat /\ cursor \in Nat
    BY WayTypes
  <2>2. PICK m : m = Max(about)
    OBVIOUS
  <2>3. m \in about /\ \A i \in about : i <= m
    <3>1. about \subseteq 0 .. Len(log)
      BY <2>1 DEF Seen
    <3> HIDE DEF about
    <3> QED
      BY <2>1, <2>2, <3>1, MaxOfPositions
  <2>4. m \in Seen \ torn /\ IsLast(m, d)
    BY <2>2, <2>3 DEF Seen, IsLast
  <2>5. (IsMember(d) <=> log[m].operation = "put") \/ ToCome(m, d)
    BY <2>2, <2>4 DEF ReplayInv, LastInv
  <2>6. OnTheWay = {}
    <3>1. ~Busy("ingester") /\ hand = 0 /\ ToSet(chan) = {}
      BY ToSetOfNone DEF CaughtUp, AccessInv, CursorInv, Types, Worker
    <3> QED
      BY <3>1, InProgressIs DEF ReplayInv, OnTheWay
  <2>7. ~(0 < cursor /\ cursor < m)
    <3> SUFFICES ASSUME 0 < cursor, cursor < m PROVE FALSE
      OBVIOUS
    <3>1. pos = Len(log) + 1 /\ Connected /\ up
      BY <2>1 DEF CaughtUp, Connected
    <3>2. m \in cursor + 1 .. pos - 1
      BY <2>1, <2>4, <3>1
    <3>3. ~Wanted(m)
      BY <3>1, <3>2 DEF ReplayInv, StreamInv
    <3>4. Wanted(m)
      BY <2>2, <2>4, <3>1 DEF ReplayInv, WatchInv, Heard, Wanted
    <3> QED
      BY <3>3, <3>4
  <2> QED
    BY <2>2, <2>5, <2>6, <2>7 DEF ToCome, CaughtUp
<1> QED
  BY <1>1, <1>2, <1>3, PTL DEF Spec
=============================================================================
