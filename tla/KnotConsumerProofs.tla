------------------------- MODULE KnotConsumerProofs -------------------------
(***************************************************************************)
(* The lock over the connections keeps one task for each subscribed knot,  *)
(* and no event is sent twice, for all knots, callers, capacities, numbers *)
(* of events and faults.  ConsumerInv is inductive: it relates what has    *)
(* been read to the saved cursors, the tasks' own and their positions.     *)
(***************************************************************************)
EXTENDS KnotConsumer, TLAPS

OneEntry ==
    \A k \in Knot : {t \in DOMAIN tasks : tasks[t].knot = k /\ ~tasks[t].cancelled}
                        = {entry[k]} \ {0}

\* What was read exists, and only what was read was sent.
History ==
    /\ seen \subseteq DOMAIN log
    /\ copies \in [1..MaxEvents -> Nat]
    /\ \A i \in 1..MaxEvents : copies[i] > 0 => i \in seen

\* A task that is about to send an event has read it from its knot.
HandRead ==
    \A t \in DOMAIN tasks : tasks[t].at \in {"note", "send"} =>
        tasks[t].hand \in seen /\ log[tasks[t].hand].knot = tasks[t].knot

\* What was read of a knot is not newer than its cursor in the table.
Saved ==
    \A k \in Knot \ unsaved : \A i \in seen : log[i].knot = k => row[k] >= i

\* Unless an unsubscribe gave up waiting, a knot has one task that has not ended.
OneTask ==
    \A t, u \in DOMAIN tasks :
        tasks[t].knot = tasks[u].knot /\ tasks[t].knot \notin doubled
        /\ ~Ended(t) /\ ~Ended(u) => t = u

Faithful(t) == ~Ended(t) /\ tasks[t].knot \notin doubled \cup unsaved

\* Neither the task's cursor nor its place in the stream is behind what was read.
Ahead ==
    \A t \in DOMAIN tasks : Faithful(t) =>
        \A i \in seen : log[i].knot = tasks[t].knot =>
            /\ tasks[t].cursor >= i
            /\ tasks[t].at \in {"read", "note", "send"} => tasks[t].pos >= i

\* What it has in hand was not sent before.
Unsent ==
    \A t \in DOMAIN tasks :
        Faithful(t) /\ tasks[t].at \in {"note", "send"} => copies[tasks[t].hand] = 0

ReadInv == History /\ HandRead /\ Saved /\ OneTask /\ Ahead /\ Unsent /\ AtMostOnce
ConsumerInv == TypeOK /\ OneEntry /\ ReadInv

Place == {"start", "connect", "read", "note", "send", "wait", "done"}

-----------------------------------------------------------------------------
(* Tasks                                                                   *)

\* A change of one task keeps the sequence.
LEMMA TaskChange ==
    ASSUME tasks \in Seq(Task), NEW t \in DOMAIN tasks, NEW r \in Task,
           tasks' = [tasks EXCEPT ![t] = r]
    PROVE  /\ tasks' \in Seq(Task) /\ DOMAIN tasks' = DOMAIN tasks
           /\ tasks'[t] = r
           /\ \A u \in DOMAIN tasks : u # t => tasks'[u] = tasks[u]
  OBVIOUS

\* r is the task q with another place, cursor, position and event in hand.
Has(r, q, a, c, p, h) ==
    /\ r \in Task /\ r.knot = q.knot /\ r.cancelled = q.cancelled
    /\ r.at = a /\ r.cursor = c /\ r.pos = p /\ r.hand = h

\* The fields the steps replace together.
LEMMA Replaced ==
    ASSUME NEW q \in Task, NEW a \in Place, NEW c \in 0..MaxEvents,
           NEW p \in 0..MaxEvents, NEW h \in 0..MaxEvents
    PROVE  /\ Has([q EXCEPT !.at = a], q, a, q.cursor, q.pos, q.hand)
           /\ Has([q EXCEPT !.at = a, !.pos = p], q, a, q.cursor, p, q.hand)
           /\ Has([q EXCEPT !.at = a, !.hand = h], q, a, q.cursor, q.pos, h)
           /\ Has([q EXCEPT !.at = a, !.pos = p, !.hand = h, !.cursor = c], q, a, c, p, h)
  BY DEF Task, Has, Place

\* The next tasks are these, one of them so changed.
MovesTo(t, a, c, p, h) ==
    \E r \in Task : tasks' = [tasks EXCEPT ![t] = r] /\ Has(r, tasks[t], a, c, p, h)

LEMMA Updates ==
    ASSUME tasks \in Seq(Task), NEW t \in DOMAIN tasks, NEW a \in Place,
           NEW c \in 0..MaxEvents, NEW p \in 0..MaxEvents, NEW h \in 0..MaxEvents
    PROVE  LET q == tasks[t]
           IN  /\ tasks' = [tasks EXCEPT ![t].at = a] => MovesTo(t, a, q.cursor, q.pos, q.hand)
               /\ tasks' = [tasks EXCEPT ![t].at = a, ![t].pos = p]
                     => MovesTo(t, a, q.cursor, p, q.hand)
               /\ tasks' = [tasks EXCEPT ![t] = [q EXCEPT !.at = a, !.pos = p]]
                     => MovesTo(t, a, q.cursor, p, q.hand)
               /\ tasks' = [tasks EXCEPT ![t].at = a, ![t].hand = h]
                     => MovesTo(t, a, q.cursor, q.pos, h)
               /\ tasks' = [tasks EXCEPT ![t].at = a, ![t].pos = p, ![t].hand = h,
                                        ![t].cursor = c]
                     => MovesTo(t, a, c, p, h)
<1> DEFINE q == tasks[t]
<1>1. q \in Task
  OBVIOUS
<1>2. /\ [tasks EXCEPT ![t].at = a] = [tasks EXCEPT ![t] = [q EXCEPT !.at = a]]
      /\ [tasks EXCEPT ![t].at = a, ![t].pos = p]
            = [tasks EXCEPT ![t] = [q EXCEPT !.at = a, !.pos = p]]
      /\ [tasks EXCEPT ![t].at = a, ![t].hand = h]
            = [tasks EXCEPT ![t] = [q EXCEPT !.at = a, !.hand = h]]
      /\ [tasks EXCEPT ![t].at = a, ![t].pos = p, ![t].hand = h, ![t].cursor = c]
            = [tasks EXCEPT ![t] =
                  [q EXCEPT !.at = a, !.pos = p, !.hand = h, !.cursor = c]]
  OBVIOUS
<1> HIDE DEF q
<1>3. /\ Has([q EXCEPT !.at = a], q, a, q.cursor, q.pos, q.hand)
      /\ Has([q EXCEPT !.at = a, !.pos = p], q, a, q.cursor, p, q.hand)
      /\ Has([q EXCEPT !.at = a, !.hand = h], q, a, q.cursor, q.pos, h)
      /\ Has([q EXCEPT !.at = a, !.pos = p, !.hand = h, !.cursor = c], q, a, c, p, h)
  BY <1>1, Replaced, Zenon
<1> QED
  BY <1>2, <1>3, Zenon DEF MovesTo, Has, q

\* A task that moves on, keeping its knot, cursor and cancellation, keeps the
\* invariant if its new place agrees with what was read.
LEMMA Moves ==
    ASSUME ConsumerInv, NEW t \in DOMAIN tasks, NEW r \in Task,
           tasks' = [tasks EXCEPT ![t] = r],
           r.knot = tasks[t].knot, r.cancelled = tasks[t].cancelled,
           r.cursor = tasks[t].cursor, ~Ended(t),
           r.at \in {"read", "note", "send"} /\ Faithful(t) =>
               \A i \in seen : log[i].knot = r.knot => r.pos >= i,
           r.at \in {"note", "send"} =>
               tasks[t].at \in {"note", "send"} /\ r.hand = tasks[t].hand,
           UNCHANGED <<disk, shared, channel, copies, seen, doubled, unsaved>>
    PROVE  ConsumerInv'
<1>1. /\ tasks' \in Seq(Task) /\ DOMAIN tasks' = DOMAIN tasks /\ tasks'[t] = r
      /\ \A u \in DOMAIN tasks : u # t => tasks'[u] = tasks[u]
  BY TaskChange DEF ConsumerInv, TypeOK
<1>2. UNCHANGED <<log, row, entry, holder, caller, restore, chan, receiver, down, copies, seen,
                  doubled, unsaved>>
  BY DEF disk, shared, channel
<1>3. TypeOK'
  BY <1>1, <1>2 DEF ConsumerInv, TypeOK
<1>4. OneEntry'
  BY <1>1, <1>2 DEF ConsumerInv, OneEntry
<1>5. History' /\ Saved' /\ AtMostOnce'
  BY <1>2 DEF ConsumerInv, ReadInv, History, Saved, AtMostOnce
<1>6. HandRead'
  BY <1>1, <1>2 DEF ConsumerInv, ReadInv, HandRead
<1>7. OneTask'
  BY <1>1, <1>2 DEF ConsumerInv, ReadInv, OneTask, Ended
<1>8. Ahead'
  BY <1>1, <1>2 DEF ConsumerInv, ReadInv, Ahead, Faithful, Ended
<1>9. Unsent'
  BY <1>1, <1>2 DEF ConsumerInv, ReadInv, Unsent, Faithful, Ended
<1> QED
  BY <1>3, <1>4, <1>5, <1>6, <1>7, <1>8, <1>9 DEF ConsumerInv, ReadInv

\* The steps of a task that only move it: from the start, a wait, a connection or
\* an event in hand that is not sent.
LEMMA MoveSteps ==
    ASSUME ConsumerInv, NEW t \in DOMAIN tasks,
           \/ Start(t) \/ Wake(t) \/ Connect(t) \/ ConnectFails(t) \/ Note(t)
           \/ SendFails(t) \/ Closed(t) \/ Leave(t)
    PROVE  ConsumerInv'
<1> DEFINE old == tasks[t]
<1>1. tasks \in Seq(Task) /\ old \in Task /\ Len(log) \in 0..MaxEvents /\ 0 \in 0..MaxEvents
  BY KnotAssumption DEF ConsumerInv, TypeOK
<1>2. UNCHANGED <<disk, shared, channel, copies, seen, doubled, unsaved>>
  BY DEF Start, Wake, Connect, ConnectFails, Note, SendFails, Closed, Leave, history
<1>3. ~Ended(t)
  BY DEF Start, Wake, Connect, ConnectFails, Note, SendFails, Closed, Leave, Ended
<1>4. /\ old.pos \in 0..MaxEvents /\ old.hand \in 0..MaxEvents /\ old.cursor \in 0..MaxEvents
      /\ seen \subseteq 1..Len(log)
  BY <1>1 DEF Task, ConsumerInv, ReadInv, History, TypeOK
<1>5. ASSUME NEW a \in {"connect", "wait", "done"}, NEW p, MovesTo(t, a, old.cursor, p, old.hand)
      PROVE  ConsumerInv'
  BY <1>2, <1>3, <1>5, Moves DEF MovesTo, Has
<1>6. ASSUME NEW a \in {"read", "send"}, NEW p, NEW h, MovesTo(t, a, old.cursor, p, h),
             Faithful(t) => \A i \in seen : log[i].knot = old.knot => p >= i,
             a = "send" => old.at \in {"note", "send"} /\ h = old.hand
      PROVE  ConsumerInv'
  BY <1>2, <1>3, <1>6, Moves DEF MovesTo, Has
<1>7. CASE Start(t) \/ Wake(t)
  <2>1. Loop(t) \in {"done", "connect"}
    BY DEF Loop
  <2>2. MovesTo(t, Loop(t), old.cursor, old.pos, old.hand)
    BY <1>1, <1>7, <2>1, Updates DEF Start, Wake, Goto, Place
  <2> QED
    BY <1>5, <2>1, <2>2
<1>8. CASE ConnectFails(t) \/ Closed(t) \/ Leave(t)
  <2>1. PICK a \in {"connect", "wait", "done"} :
             tasks' = [tasks EXCEPT ![t] = [old EXCEPT !.at = a, !.pos = 0]]
    BY <1>8 DEF ConnectFails, Closed, Leave, EndedCleanly, Failed, Loop
  <2>2. MovesTo(t, a, old.cursor, 0, old.hand)
    BY <1>1, <2>1, Updates DEF Place
  <2> QED
    BY <1>5, <2>2
<1>9. CASE Connect(t)
  <2>1. PICK p \in ReplayFrom(old.cursor) :
               tasks' = [tasks EXCEPT ![t].at = "read", ![t].pos = p]
    BY <1>9 DEF Connect
  <2>2. p \in 0..MaxEvents
    BY <1>1, <1>4 DEF ReplayFrom
  <2>3. MovesTo(t, "read", old.cursor, p, old.hand)
    BY <1>1, <2>1, <2>2, Updates DEF Place
  <2>4. Faithful(t) => \A i \in seen : log[i].knot = old.knot => p >= i
    <3> SUFFICES ASSUME Faithful(t), NEW i \in seen, log[i].knot = old.knot PROVE p >= i
      OBVIOUS
    <3>1. old.cursor >= i
      BY DEF ConsumerInv, ReadInv, Ahead
    <3>2. i \in 1..Len(log)
      BY <1>4
    <3> QED
      BY <1>1, <1>4, <3>1, <3>2 DEF ReplayFrom
  <2> QED
    BY <1>6, <2>3, <2>4
<1>10. CASE Note(t) \/ SendFails(t)
  <2>1. old.at \in {"note", "send"}
    BY <1>10 DEF Note, SendFails
  <2>2. Faithful(t) => \A i \in seen : log[i].knot = old.knot => old.pos >= i
    BY <2>1 DEF ConsumerInv, ReadInv, Ahead
  <2>3. \/ tasks' = [tasks EXCEPT ![t].at = "send"]
        \/ tasks' = [tasks EXCEPT ![t].at = "read", ![t].hand = 0]
    BY <1>10 DEF Note, SendFails
  <2>4. \/ MovesTo(t, "send", old.cursor, old.pos, old.hand)
        \/ MovesTo(t, "read", old.cursor, old.pos, 0)
    BY <1>1, <2>3, Updates DEF Place
  <2> QED
    BY <1>6, <2>1, <2>2, <2>4
<1> QED
  BY <1>7, <1>8, <1>9, <1>10

\* Reading an event moves the cursor, in the task and in the table, to a time
\* that no event read so far is newer than.
LEMMA ReadStep ==
    ASSUME ConsumerInv, NEW t \in DOMAIN tasks, Read(t)
    PROVE  ConsumerInv'
<1> DEFINE old == tasks[t]
           k == old.knot
           now == Len(log)
<1> PICK i \in Oldest(Unread(t)) :
        /\ tasks' = [tasks EXCEPT ![t].at = "note", ![t].pos = i, ![t].hand = i,
                                  ![t].cursor = now]
        /\ seen' = seen \cup {i}
  BY DEF Read
<1>0. tasks \in Seq(Task) /\ old \in Task /\ Len(log) \in 0..MaxEvents /\ log \in Seq(KnotEvent)
  BY DEF ConsumerInv, TypeOK
<1>1. /\ k \in Knot /\ now \in 0..MaxEvents /\ old.pos \in 0..MaxEvents
      /\ now \in Nat /\ DOMAIN log = 1..now
  BY <1>0 DEF Task
<1>i. i \in Unread(t)
  BY DEF Oldest
<1>2. i \in 1..now /\ i > old.pos /\ log[i].knot = k /\ i \in 0..MaxEvents
  BY <1>0, <1>1, <1>i, KnotAssumption DEF Unread
<1>3. MovesTo(t, "note", now, i, i)
  BY <1>0, <1>1, <1>2, Updates DEF Place
<1> PICK r \in Task : tasks' = [tasks EXCEPT ![t] = r] /\ Has(r, old, "note", now, i, i)
  BY <1>3 DEF MovesTo
<1>r. /\ r \in Task /\ r.knot = k /\ r.cancelled = old.cancelled
      /\ r.at = "note" /\ r.cursor = now /\ r.pos = i /\ r.hand = i
  BY DEF Has
<1>4. /\ tasks' \in Seq(Task) /\ DOMAIN tasks' = DOMAIN tasks /\ tasks'[t] = r
      /\ \A u \in DOMAIN tasks : u # t => tasks'[u] = tasks[u]
  BY <1>0, <1>r, TaskChange
<1>5. /\ UNCHANGED <<log, entry, holder, caller, restore, chan, receiver, down, copies, doubled>>
      /\ row' = WithCursor(k, now) \/ row' = row
      /\ unsaved' = IF row'[k] = now THEN unsaved ELSE unsaved \cup {k}
  BY DEF Read, shared, channel
<1>6. row \in [Knot -> {NoRow} \cup 0..MaxEvents] /\ row' \in [Knot -> {NoRow} \cup 0..MaxEvents]
      /\ \A l \in Knot : l # k => row'[l] = row[l]
  BY <1>1, <1>5 DEF ConsumerInv, TypeOK, WithCursor
<1>7. TypeOK'
  BY <1>4, <1>5, <1>6 DEF ConsumerInv, TypeOK
<1>8. OneEntry'
  BY <1>4, <1>5, <1>r DEF ConsumerInv, OneEntry
<1>9. old.at = "read" /\ ~Ended(t)
  BY DEF Read, Ended
<1>10. Faithful(t) => i \notin seen /\ copies[i] = 0
  <2>1. Faithful(t) => i \notin seen
    BY <1>1, <1>2, <1>9 DEF ConsumerInv, ReadInv, Ahead, History
  <2> QED
    BY <1>2, <2>1 DEF ConsumerInv, ReadInv, History
<1>11. seen \subseteq 1..now /\ seen' \subseteq 1..now
  BY <1>1, <1>2 DEF ConsumerInv, ReadInv, History
<1>12. History' /\ HandRead'
  BY <1>1, <1>2, <1>4, <1>5, <1>r, <1>11 DEF ConsumerInv, ReadInv, History, HandRead
<1>13. Saved'
  BY <1>1, <1>2, <1>5, <1>6, <1>11 DEF ConsumerInv, ReadInv, Saved
<1>14. OneTask'
  BY <1>4, <1>5, <1>r, <1>9 DEF ConsumerInv, ReadInv, OneTask, Ended
<1>15. unsaved \subseteq unsaved'
  BY <1>5
<1>16. ASSUME NEW u \in DOMAIN tasks, u # t, Faithful(u)'
       PROVE  Faithful(u) /\ tasks[u].knot # k
  BY <1>4, <1>5, <1>r, <1>9, <1>15, <1>16 DEF ConsumerInv, ReadInv, OneTask, Faithful, Ended
<1>17. Ahead'
  <2> SUFFICES ASSUME NEW u \in DOMAIN tasks, Faithful(u)',
                      NEW j \in seen', log[j].knot = tasks'[u].knot
               PROVE  /\ tasks'[u].cursor >= j
                      /\ tasks'[u].at \in {"read", "note", "send"} => tasks'[u].pos >= j
    BY <1>4, <1>5 DEF Ahead
  <2>1. CASE u = t
    <3>1. Faithful(t)
      BY <1>4, <1>5, <1>r, <1>9, <1>15, <2>1 DEF Faithful, Ended
    <3>2. j = i \/ old.pos >= j
      BY <1>4, <1>r, <1>9, <2>1, <3>1 DEF ConsumerInv, ReadInv, Ahead
    <3> QED
      BY <1>1, <1>2, <1>4, <1>r, <1>11, <2>1, <3>2
  <2>2. CASE u # t
    BY <1>2, <1>4, <1>16, <2>2 DEF ConsumerInv, ReadInv, Ahead
  <2> QED
    BY <2>1, <2>2
<1>18. Unsent'
  <2> SUFFICES ASSUME NEW u \in DOMAIN tasks, Faithful(u)', tasks'[u].at \in {"note", "send"}
               PROVE  copies[tasks'[u].hand] = 0
    BY <1>4, <1>5 DEF Unsent
  <2>1. CASE u = t
    BY <1>4, <1>5, <1>r, <1>9, <1>10, <1>15, <2>1 DEF Faithful, Ended
  <2>2. CASE u # t
    BY <1>4, <1>16, <2>2 DEF ConsumerInv, ReadInv, Unsent
  <2> QED
    BY <2>1, <2>2
<1>19. AtMostOnce'
  BY <1>5, <1>15 DEF ConsumerInv, ReadInv, AtMostOnce
<1> QED
  BY <1>7, <1>8, <1>12, <1>13, <1>14, <1>17, <1>18, <1>19 DEF ConsumerInv, ReadInv

\* Only an event in hand is sent, and it leaves the hand with it.
LEMMA SendStep ==
    ASSUME ConsumerInv, NEW t \in DOMAIN tasks, Send(t)
    PROVE  ConsumerInv'
<1> DEFINE old == tasks[t]
           h == old.hand
<1>0. /\ tasks \in Seq(Task) /\ old \in Task /\ log \in Seq(KnotEvent)
      /\ Len(log) \in 0..MaxEvents /\ 0 \in 0..MaxEvents
  BY KnotAssumption DEF ConsumerInv, TypeOK
<1>1. old.at = "send" /\ ~Ended(t)
  BY DEF Send, Ended
<1>2. MovesTo(t, "read", old.cursor, old.pos, 0)
  <2>1. old.cursor \in 0..MaxEvents /\ old.pos \in 0..MaxEvents
    BY <1>0 DEF Task
  <2> QED
    BY <1>0, <2>1, Updates DEF Send, Place
<1> PICK r \in Task : /\ tasks' = [tasks EXCEPT ![t] = r]
                     /\ Has(r, old, "read", old.cursor, old.pos, 0)
  BY <1>2 DEF MovesTo
<1>3. /\ tasks' \in Seq(Task) /\ DOMAIN tasks' = DOMAIN tasks /\ tasks'[t] = r
      /\ \A u \in DOMAIN tasks : u # t => tasks'[u] = tasks[u]
  BY <1>0, TaskChange
<1>4. /\ r.knot = old.knot /\ r.cancelled = old.cancelled /\ r.at = "read"
      /\ r.cursor = old.cursor /\ r.pos = old.pos
  BY DEF Has
<1>5. /\ UNCHANGED <<log, row, entry, holder, caller, restore, receiver, down, seen, doubled,
                     unsaved>>
      /\ chan' = Append(chan, h) /\ copies' = [copies EXCEPT ![h] = @ + 1] /\ HasRoom
  BY DEF Send, disk, shared
<1>6. /\ h \in seen /\ log[h].knot = old.knot /\ h \in DOMAIN log /\ h \in 1..MaxEvents
      /\ copies \in [1..MaxEvents -> Nat] /\ DOMAIN log \subseteq 1..MaxEvents
  <2>1. h \in seen /\ log[h].knot = old.knot
    BY <1>1 DEF ConsumerInv, ReadInv, HandRead
  <2> QED
    BY <1>0, <2>1, KnotAssumption DEF ConsumerInv, ReadInv, History
<1>7. /\ copies' \in [1..MaxEvents -> Nat] /\ copies'[h] = copies[h] + 1
      /\ \A i \in 1..MaxEvents : i # h => copies'[i] = copies[i]
  BY <1>5, <1>6
<1>8. TypeOK'
  <2>1. chan' \in Seq(DOMAIN log) /\ Len(chan') <= Capacity
    BY <1>5, <1>6, KnotAssumption DEF ConsumerInv, TypeOK, HasRoom
  <2> QED
    BY <1>3, <1>5, <2>1 DEF ConsumerInv, TypeOK
<1>9. OneEntry'
  BY <1>3, <1>4, <1>5 DEF ConsumerInv, OneEntry
<1>10. History' /\ HandRead'
  BY <1>3, <1>4, <1>5, <1>6, <1>7 DEF ConsumerInv, ReadInv, History, HandRead
<1>11. Saved'
  BY <1>5 DEF ConsumerInv, ReadInv, Saved
<1>12. OneTask'
  BY <1>3, <1>4, <1>5, <1>1 DEF ConsumerInv, ReadInv, OneTask, Ended
<1>13. ASSUME NEW u \in DOMAIN tasks, Faithful(u)' PROVE Faithful(u)
  BY <1>1, <1>3, <1>4, <1>5, <1>13 DEF Faithful, Ended
<1>14. Ahead'
  BY <1>1, <1>3, <1>4, <1>5, <1>13 DEF ConsumerInv, ReadInv, Ahead
<1>15. Unsent'
  <2> SUFFICES ASSUME NEW u \in DOMAIN tasks, Faithful(u)', tasks'[u].at \in {"note", "send"}
               PROVE  copies'[tasks'[u].hand] = 0
    BY <1>3 DEF Unsent
  <2>1. u # t /\ tasks'[u] = tasks[u] /\ Faithful(u)
    BY <1>3, <1>4, <1>13
  <2>2. tasks[u].hand \in seen /\ log[tasks[u].hand].knot = tasks[u].knot
    BY <2>1 DEF ConsumerInv, ReadInv, HandRead
  <2>3. tasks[u].hand # h
    BY <1>1, <1>6, <2>1, <2>2 DEF ConsumerInv, ReadInv, OneTask, Faithful
  <2>4. copies[tasks[u].hand] = 0 /\ tasks[u].hand \in 1..MaxEvents
    BY <1>6, <2>1, <2>2 DEF ConsumerInv, ReadInv, Unsent, History
  <2> QED
    BY <1>7, <2>1, <2>3, <2>4
<1>16. AtMostOnce'
  <2> SUFFICES ASSUME NEW i \in DOMAIN log, log[i].knot \notin doubled \cup unsaved
               PROVE  copies'[i] <= 1
    BY <1>5 DEF AtMostOnce
  <2>1. CASE i = h
    BY <1>1, <1>6, <1>7, <2>1 DEF ConsumerInv, ReadInv, Unsent, Faithful
  <2>2. CASE i # h
    BY <1>6, <1>7, <2>2 DEF ConsumerInv, ReadInv, AtMostOnce
  <2> QED
    BY <2>1, <2>2
<1> QED
  BY <1>8, <1>9, <1>10, <1>11, <1>12, <1>14, <1>15, <1>16 DEF ConsumerInv, ReadInv

-----------------------------------------------------------------------------
(* subscribe and unsubscribe                                               *)

CallerStates ==
    {Idle} \cup [at : {"subscribe", "unsubscribe"}, knot : Knot]
           \cup [at : {"join"}, task : Nat \ {0}]

\* subscribe makes a task only for a knot that is not in the table, with the cursor
\* the table of knots has.
LEMMA SubscribeStep ==
    ASSUME ConsumerInv, NEW k \in Knot, SubscribeKnot(k),
           UNCHANGED <<disk, holder, channel, copies, seen, unsaved>>,
           caller' \in [Caller -> CallerStates],
           restore' \subseteq Knot
    PROVE  ConsumerInv'
<1> DEFINE n == Len(tasks) + 1
           new == Fresh(k)
<1>0. /\ tasks \in Seq(Task) /\ entry \in [Knot -> {0} \cup DOMAIN tasks]
      /\ log \in Seq(KnotEvent) /\ Len(log) \in 0..MaxEvents /\ MaxEvents \in Nat
      /\ row \in [Knot -> {NoRow} \cup 0..MaxEvents]
      /\ Len(tasks) \in Nat /\ DOMAIN tasks = 1..Len(tasks)
  BY KnotAssumption DEF ConsumerInv, TypeOK
<1>1. /\ new \in Task /\ new.knot = k /\ new.at = "start" /\ ~new.cancelled
      /\ new.cursor = CursorOf(k)
  <2>1. CursorOf(k) \in 0..MaxEvents
    BY <1>0 DEF CursorOf
  <2> QED
    BY <1>0, <2>1 DEF Fresh, Task
<1> HIDE DEF new
<1>2. UNCHANGED <<log, row, holder, chan, receiver, down, copies, seen, unsaved>>
  BY DEF disk, channel
<1>3. History' /\ Saved'
  BY <1>2 DEF ConsumerInv, ReadInv, History, Saved
<1>4. AtMostOnce'
  BY <1>2 DEF ConsumerInv, ReadInv, AtMostOnce, SubscribeKnot
<1>5. CASE UNCHANGED <<tasks, entry, doubled>>
  <2>1. TypeOK'
    BY <1>2, <1>5 DEF ConsumerInv, TypeOK, CallerStates
  <2>2. OneEntry' /\ HandRead' /\ OneTask'
    BY <1>2, <1>5 DEF ConsumerInv, ReadInv, OneEntry, HandRead, OneTask, Ended
  <2>3. Ahead' /\ Unsent'
    BY <1>2, <1>5 DEF ConsumerInv, ReadInv, Ahead, Unsent, Faithful, Ended
  <2> QED
    BY <1>3, <1>4, <2>1, <2>2, <2>3 DEF ConsumerInv, ReadInv
<1>6. CASE /\ ~Subscribed(k) /\ tasks' = Append(tasks, new) /\ entry' = [entry EXCEPT ![k] = n]
           /\ doubled' = IF TasksOf(k) = {} THEN doubled ELSE doubled \cup {k}
  <2>1. /\ tasks' \in Seq(Task) /\ DOMAIN tasks' = DOMAIN tasks \cup {n} /\ tasks'[n] = new
        /\ n \notin DOMAIN tasks /\ \A u \in DOMAIN tasks : tasks'[u] = tasks[u]
    BY <1>0, <1>1, <1>6
  <2>2. entry' \in [Knot -> {0} \cup DOMAIN tasks'] /\ entry'[k] = n /\ entry[k] = 0
    BY <1>0, <1>6, <2>1 DEF Subscribed
  <2>3. \A l \in Knot : l # k => entry'[l] = entry[l]
    BY <1>0, <1>6
  <2>4. TypeOK'
    BY <1>2, <2>1, <2>2 DEF ConsumerInv, TypeOK, CallerStates
  <2>5. OneEntry'
    <3> SUFFICES ASSUME NEW l \in Knot
                 PROVE  {t \in DOMAIN tasks' : tasks'[t].knot = l /\ ~tasks'[t].cancelled}
                           = {entry'[l]} \ {0}
      BY DEF OneEntry
    <3>1. {t \in DOMAIN tasks : tasks[t].knot = l /\ ~tasks[t].cancelled} = {entry[l]} \ {0}
      BY DEF ConsumerInv, OneEntry
    <3>2. CASE l = k
      BY <1>0, <1>1, <2>1, <2>2, <3>1, <3>2
    <3>3. CASE l # k
      BY <1>1, <2>1, <2>3, <3>1, <3>3
    <3> QED
      BY <3>2, <3>3
  <2>6. HandRead'
    BY <1>1, <1>2, <2>1 DEF ConsumerInv, ReadInv, HandRead
  <2>7. /\ doubled \subseteq doubled'
        /\ k \in doubled' \/ \A u \in DOMAIN tasks : tasks[u].knot = k => Ended(u)
    BY <1>6 DEF TasksOf
  <2>8. OneTask'
    BY <1>1, <2>1, <2>7 DEF ConsumerInv, ReadInv, OneTask, Ended
  <2>9. \A u \in DOMAIN tasks : Faithful(u)' => Faithful(u)
    BY <1>2, <2>1, <2>7 DEF Faithful, Ended
  <2>10. Ahead'
    <3> SUFFICES ASSUME NEW u \in DOMAIN tasks', Faithful(u)',
                        NEW i \in seen, log[i].knot = tasks'[u].knot
                 PROVE  /\ tasks'[u].cursor >= i
                        /\ tasks'[u].at \in {"read", "note", "send"} => tasks'[u].pos >= i
      BY <1>2 DEF Ahead
    <3>1. CASE u \in DOMAIN tasks
      BY <2>1, <2>9, <3>1 DEF ConsumerInv, ReadInv, Ahead
    <3>2. CASE u = n
      <4>1. k \notin unsaved
        BY <1>1, <1>2, <2>1, <3>2 DEF Faithful
      <4>2. row[k] >= i /\ i \in Nat \ {0}
        BY <1>0, <1>1, <2>1, <3>2, <4>1 DEF ConsumerInv, ReadInv, Saved, History
      <4> QED
        BY <1>0, <1>1, <2>1, <3>2, <4>2 DEF CursorOf, NoRow
    <3> QED
      BY <2>1, <3>1, <3>2
  <2>11. Unsent'
    BY <1>1, <1>2, <2>1, <2>9 DEF ConsumerInv, ReadInv, Unsent
  <2> QED
    BY <1>3, <1>4, <2>4, <2>5, <2>6, <2>8, <2>10, <2>11 DEF ConsumerInv, ReadInv
<1> QED
  BY <1>5, <1>6 DEF SubscribeKnot, new

\* Cancelling the task of the entry that goes.
LEMMA Cancelling ==
    ASSUME tasks \in Seq(Task), NEW t \in DOMAIN tasks,
           tasks' = [tasks EXCEPT ![t].cancelled = TRUE]
    PROVE  \E r \in Task : /\ tasks' = [tasks EXCEPT ![t] = r]
                           /\ r.cancelled
                           /\ r.knot = tasks[t].knot /\ r.at = tasks[t].at
                           /\ r.cursor = tasks[t].cursor
                           /\ r.pos = tasks[t].pos /\ r.hand = tasks[t].hand
<1> DEFINE q == tasks[t]
           Same(r, s) == /\ r \in Task /\ r.cancelled /\ r.knot = s.knot /\ r.at = s.at
                         /\ r.cursor = s.cursor /\ r.pos = s.pos /\ r.hand = s.hand
<1>1. q \in Task
  OBVIOUS
<1>2. [tasks EXCEPT ![t].cancelled = TRUE] = [tasks EXCEPT ![t] = [q EXCEPT !.cancelled = TRUE]]
  OBVIOUS
<1>3. \A s \in Task : Same([s EXCEPT !.cancelled = TRUE], s)
  BY DEF Task
<1> HIDE DEF q
<1>4. Same([q EXCEPT !.cancelled = TRUE], q)
  BY <1>1, <1>3, Zenon
<1> QED
  BY <1>2, <1>4, Zenon DEF q

\* unsubscribe cancels the task of the entry it removes.
LEMMA UnsubscribeStep ==
    ASSUME ConsumerInv, NEW c \in Caller, Unsubscribe(c)
    PROVE  ConsumerInv'
<1> DEFINE k == caller[c].knot
           t == entry[k]
<1>0. /\ tasks \in Seq(Task) /\ entry \in [Knot -> {0} \cup DOMAIN tasks]
      /\ DOMAIN tasks = 1..Len(tasks) /\ Len(tasks) \in Nat
      /\ caller \in [Caller -> CallerStates]
  BY DEF ConsumerInv, TypeOK, CallerStates
<1>1. k \in Knot
  BY <1>0 DEF Unsubscribe, Idle, CallerStates
<1>2. UNCHANGED <<log, row, restore, chan, receiver, down, copies, seen, doubled, unsaved>>
  BY DEF Unsubscribe, disk, channel
<1>3. History' /\ Saved' /\ AtMostOnce'
  BY <1>2 DEF ConsumerInv, ReadInv, History, Saved, AtMostOnce
<1>4. CASE UNCHANGED <<entry, tasks, holder>> /\ caller' = [caller EXCEPT ![c] = Idle]
  <2>1. TypeOK'
    BY <1>0, <1>2, <1>4 DEF ConsumerInv, TypeOK
  <2>2. OneEntry' /\ HandRead' /\ OneTask'
    BY <1>2, <1>4 DEF ConsumerInv, ReadInv, OneEntry, HandRead, OneTask, Ended
  <2>3. Ahead' /\ Unsent'
    BY <1>2, <1>4 DEF ConsumerInv, ReadInv, Ahead, Unsent, Faithful, Ended
  <2> QED
    BY <1>3, <2>1, <2>2, <2>3 DEF ConsumerInv, ReadInv
<1>5. CASE /\ Subscribed(k) /\ entry' = [entry EXCEPT ![k] = 0]
           /\ tasks' = [tasks EXCEPT ![t].cancelled = TRUE]
           /\ holder' = c /\ caller' = [caller EXCEPT ![c] = Joining(t)]
  <2>1. t \in DOMAIN tasks /\ t # 0
    BY <1>0, <1>1, <1>5 DEF Subscribed
  <2> PICK r \in Task : /\ tasks' = [tasks EXCEPT ![t] = r]
                         /\ r.cancelled
                         /\ r.knot = tasks[t].knot /\ r.at = tasks[t].at
                         /\ r.cursor = tasks[t].cursor
                         /\ r.pos = tasks[t].pos /\ r.hand = tasks[t].hand
    BY <1>0, <1>5, <2>1, Cancelling
  <2>2. /\ tasks' \in Seq(Task) /\ DOMAIN tasks' = DOMAIN tasks /\ tasks'[t] = r
        /\ \A u \in DOMAIN tasks : u # t => tasks'[u] = tasks[u]
    BY <1>0, <2>1, TaskChange
  <2>3. TypeOK'
    <3>1. Joining(t) \in [at : {"join"}, task : Nat \ {0}]
      BY <1>0, <2>1 DEF Joining
    <3>2. caller' \in [Caller -> CallerStates]
      BY <1>0, <1>5, <3>1 DEF CallerStates
    <3> QED
      BY <1>0, <1>1, <1>2, <1>5, <2>2, <3>2 DEF ConsumerInv, TypeOK, CallerStates
  <2>4. OneEntry'
    <3> SUFFICES ASSUME NEW l \in Knot
                 PROVE  {u \in DOMAIN tasks' : tasks'[u].knot = l /\ ~tasks'[u].cancelled}
                           = {entry'[l]} \ {0}
      BY DEF OneEntry
    <3>1. {u \in DOMAIN tasks : tasks[u].knot = l /\ ~tasks[u].cancelled} = {entry[l]} \ {0}
      BY DEF ConsumerInv, OneEntry
    <3>2. t \in {u \in DOMAIN tasks : tasks[u].knot = k /\ ~tasks[u].cancelled}
      BY <1>1, <2>1 DEF ConsumerInv, OneEntry
    <3>3. CASE l = k
      BY <1>0, <1>1, <1>5, <2>2, <3>1, <3>2, <3>3
    <3>4. CASE l # k
      <4>1. entry'[l] = entry[l] /\ tasks[t].knot = k
        BY <1>0, <1>1, <1>5, <3>2, <3>4
      <4>2. \A u \in DOMAIN tasks : tasks'[u].knot = l /\ ~tasks'[u].cancelled
                                  <=> tasks[u].knot = l /\ ~tasks[u].cancelled
        BY <2>2, <3>4, <4>1
      <4> QED
        BY <2>2, <3>1, <4>1, <4>2
    <3> QED
      BY <3>3, <3>4
  <2>5. \A u \in DOMAIN tasks : /\ tasks'[u].knot = tasks[u].knot /\ tasks'[u].at = tasks[u].at
                                 /\ tasks'[u].cursor = tasks[u].cursor
                                 /\ tasks'[u].pos = tasks[u].pos
                                 /\ tasks'[u].hand = tasks[u].hand
    BY <2>2
  <2>6. HandRead' /\ OneTask'
    <3>1. HandRead'
      BY <1>2, <2>2, <2>5 DEF ConsumerInv, ReadInv, HandRead
    <3>2. OneTask'
      BY <1>2, <2>2, <2>5 DEF ConsumerInv, ReadInv, OneTask, Ended
    <3> QED
      BY <3>1, <3>2
  <2>7. \A u \in DOMAIN tasks : Faithful(u)' <=> Faithful(u)
    BY <1>2, <2>5 DEF Faithful, Ended
  <2>8. Ahead'
    BY <1>2, <2>2, <2>5, <2>7 DEF ConsumerInv, ReadInv, Ahead
  <2>9. Unsent'
    BY <1>2, <2>2, <2>5, <2>7 DEF ConsumerInv, ReadInv, Unsent
  <2> QED
    BY <1>3, <2>3, <2>4, <2>6, <2>8, <2>9 DEF ConsumerInv, ReadInv
<1> QED
  BY <1>4, <1>5 DEF Unsubscribe

-----------------------------------------------------------------------------
(* The other steps                                                         *)

\* Steps that leave the tasks, the table and what was read and sent as they are.
LEMMA Bystanders ==
    ASSUME ConsumerInv,
           UNCHANGED <<log, tasks, entry, copies, seen, doubled, unsaved>>,
           row' \in [Knot -> {NoRow} \cup 0..MaxEvents],
           \A k \in Knot : row[k] # NoRow => row'[k] = row[k],
           holder' \in {NoCaller} \cup Caller, caller' \in [Caller -> CallerStates],
           chan' \in Seq(DOMAIN log), Len(chan') <= Capacity, restore' \subseteq Knot
    PROVE  ConsumerInv'
<1>1. TypeOK'
  BY DEF ConsumerInv, TypeOK, CallerStates
<1>2. OneEntry' /\ History' /\ HandRead' /\ AtMostOnce'
  BY DEF ConsumerInv, ReadInv, OneEntry, History, HandRead, AtMostOnce
<1>3. Saved'
  <2> SUFFICES ASSUME NEW k \in Knot \ unsaved, NEW i \in seen, log[i].knot = k
               PROVE  row'[k] >= i
    BY DEF Saved
  <2>1. row[k] >= i /\ i \in Nat
    BY DEF ConsumerInv, ReadInv, Saved, History, TypeOK
  <2> QED
    BY <2>1 DEF NoRow
<1>4. OneTask' /\ Ahead' /\ Unsent'
  BY DEF ConsumerInv, ReadInv, OneTask, Ahead, Unsent, Faithful, Ended
<1> QED
  BY <1>1, <1>2, <1>3, <1>4 DEF ConsumerInv, ReadInv

\* Calls, their ends, and the processor.
LEMMA BystanderSteps ==
    ASSUME ConsumerInv,
           \/ \E c \in Caller, k \in Knot : AddKnot(c, k) \/ CallUnsubscribe(c, k)
           \/ \E c \in Caller : Finish(c)
           \/ Consume \/ Shutdown \/ ProcessorStops
    PROVE  ConsumerInv'
<1>0. /\ row \in [Knot -> {NoRow} \cup 0..MaxEvents] /\ holder \in {NoCaller} \cup Caller
      /\ caller \in [Caller -> CallerStates] /\ restore \subseteq Knot
      /\ chan \in Seq(DOMAIN log) /\ Len(chan) <= Capacity /\ Capacity \in Nat /\ MaxEvents \in Nat
  BY KnotAssumption DEF ConsumerInv, TypeOK, CallerStates
<1>1. ASSUME NEW c \in Caller, NEW k \in Knot, AddKnot(c, k) PROVE ConsumerInv'
  <2>1. Calling("subscribe", k) \in CallerStates
    BY DEF Calling, CallerStates
  <2>2. caller' \in [Caller -> CallerStates]
    BY <1>0, <1>1, <2>1 DEF AddKnot
  <2>3. /\ row' \in [Knot -> {NoRow} \cup 0..MaxEvents]
        /\ \A l \in Knot : row[l] # NoRow => row'[l] = row[l]
    BY <1>0, <1>1 DEF AddKnot, WithRow
  <2> QED
    BY <1>0, <1>1, <2>2, <2>3, Bystanders DEF AddKnot, channel, history
<1>2. ASSUME NEW c \in Caller, NEW k \in Knot, CallUnsubscribe(c, k) PROVE ConsumerInv'
  <2>1. Calling("unsubscribe", k) \in CallerStates
    BY DEF Calling, CallerStates
  <2>2. caller' \in [Caller -> CallerStates]
    BY <1>0, <1>2, <2>1 DEF CallUnsubscribe
  <2> QED
    BY <1>0, <1>2, <2>2, Bystanders DEF CallUnsubscribe, disk, channel, history
<1>3. ASSUME NEW c \in Caller, Finish(c) PROVE ConsumerInv'
  <2>1. Release(c)
    BY <1>3 DEF Finish, Joined, JoinTimeout
  <2>2. caller' \in [Caller -> CallerStates] /\ holder' = NoCaller
    BY <1>0, <2>1 DEF Release, CallerStates
  <2> QED
    BY <1>0, <2>1, <2>2, Bystanders DEF Release, disk, channel, history
<1>4. CASE Consume
  <2>1. chan' \in Seq(DOMAIN log) /\ Len(chan') <= Capacity
    BY <1>0, <1>4 DEF Consume
  <2> QED
    BY <1>0, <1>4, <2>1, Bystanders DEF Consume, disk, shared, history
<1>5. CASE Shutdown
  BY <1>0, <1>5, Bystanders DEF Shutdown, disk, shared, history
<1>6. CASE ProcessorStops
  <2>1. chan' \in Seq(DOMAIN log) /\ Len(chan') <= Capacity
    BY <1>0, <1>6 DEF ProcessorStops
  <2> QED
    BY <1>0, <1>6, <2>1, Bystanders DEF ProcessorStops, disk, shared
<1> QED
  BY <1>1, <1>2, <1>3, <1>4, <1>5, <1>6

\* What happens on a knot is read by nobody yet.
LEMMA EmitStep ==
    ASSUME ConsumerInv, NEW k \in Knot, Emit(k)
    PROVE  ConsumerInv'
<1> PICK e \in KnotEvent : log' = Append(log, e)
  BY DEF Emit, KnotEvent
<1>1. UNCHANGED <<row, entry, holder, caller, restore, tasks, chan, copies, seen, doubled, unsaved>>
  BY DEF Emit, shared, channel, history
<1>2. /\ log \in Seq(KnotEvent) /\ Len(log) < MaxEvents /\ MaxEvents \in Nat /\ Len(log) \in Nat
      /\ DOMAIN log = 1..Len(log) /\ seen \subseteq DOMAIN log
      /\ chan \in Seq(DOMAIN log) /\ copies \in [1..MaxEvents -> Nat]
  BY KnotAssumption DEF Emit, ConsumerInv, TypeOK, ReadInv, History
<1>3. /\ log' \in Seq(KnotEvent) /\ Len(log') <= MaxEvents
      /\ DOMAIN log' = 1..(Len(log) + 1) /\ DOMAIN log \subseteq DOMAIN log'
      /\ \A i \in DOMAIN log : log'[i] = log[i]
  BY <1>2
<1>4. chan' \in Seq(DOMAIN log')
  BY <1>1, <1>2, <1>3
<1>5. TypeOK'
  BY <1>1, <1>3, <1>4 DEF ConsumerInv, TypeOK
<1>6. OneEntry' /\ OneTask'
  BY <1>1 DEF ConsumerInv, ReadInv, OneEntry, OneTask, Ended
<1>7. \A i \in seen : i \in DOMAIN log' /\ log'[i] = log[i]
  BY <1>2, <1>3
<1>8. History' /\ HandRead' /\ Saved'
  BY <1>1, <1>7 DEF ConsumerInv, ReadInv, History, HandRead, Saved
<1>9. Ahead' /\ Unsent'
  BY <1>1, <1>7 DEF ConsumerInv, ReadInv, Ahead, Unsent, Faithful, Ended
<1>10. AtMostOnce'
  <2> SUFFICES ASSUME NEW i \in DOMAIN log', copies[i] > 1
               PROVE  log'[i].knot \in doubled \cup unsaved
    BY <1>1, <1>2, <1>3 DEF AtMostOnce
  <2>1. i \in seen
    BY <1>2, <1>3 DEF ConsumerInv, ReadInv, History
  <2> QED
    BY <1>2, <1>7, <2>1 DEF ConsumerInv, ReadInv, AtMostOnce
<1> QED
  BY <1>5, <1>6, <1>8, <1>9, <1>10 DEF ConsumerInv, ReadInv

\* A restart forgets the tasks; the rows and what was read and sent stay.
LEMMA RestartStep ==
    ASSUME ConsumerInv, Restart
    PROVE  ConsumerInv'
<1>1. /\ UNCHANGED <<log, row, copies, seen, doubled, unsaved>>
      /\ tasks' = <<>> /\ chan' = <<>> /\ holder' = NoCaller /\ restore' = Names
      /\ entry' = [k \in Knot |-> 0] /\ caller' = [c \in Caller |-> Idle]
  BY DEF Restart, disk
<1>2. TypeOK'
  BY <1>1, KnotAssumption DEF ConsumerInv, TypeOK, Names
<1>3. DOMAIN tasks' = {}
  BY <1>1
<1>4. OneEntry' /\ HandRead' /\ OneTask' /\ Ahead' /\ Unsent'
  BY <1>1, <1>3 DEF OneEntry, HandRead, OneTask, Ahead, Unsent
<1>5. History' /\ Saved' /\ AtMostOnce'
  BY <1>1 DEF ConsumerInv, ReadInv, History, Saved, AtMostOnce
<1> QED
  BY <1>2, <1>4, <1>5 DEF ConsumerInv, ReadInv

-----------------------------------------------------------------------------
(* The invariant                                                           *)

\* The process starts with no task and nothing read.
LEMMA InitInv == Init => ConsumerInv
<1> SUFFICES ASSUME Init PROVE ConsumerInv
  OBVIOUS
<1>1. TypeOK
  BY KnotAssumption DEF Init, TypeOK, Names, NoRow
<1>2. OneEntry /\ HandRead /\ OneTask /\ Ahead /\ Unsent
  BY DEF Init, OneEntry, HandRead, OneTask, Ahead, Unsent
<1>3. History /\ Saved /\ AtMostOnce
  BY KnotAssumption DEF Init, History, Saved, AtMostOnce
<1> QED
  BY <1>1, <1>2, <1>3 DEF ConsumerInv, ReadInv

\* Every step keeps the invariant.
LEMMA StepInv == ConsumerInv /\ [Next]_vars => ConsumerInv'
<1> SUFFICES ASSUME ConsumerInv, [Next]_vars PROVE ConsumerInv'
  OBVIOUS
<1>1. ASSUME NEW k \in Knot, Restore(k) PROVE ConsumerInv'
  BY <1>1, SubscribeStep DEF Restore, ConsumerInv, TypeOK, CallerStates
<1>2. ASSUME NEW c \in Caller, Subscribe(c) PROVE ConsumerInv'
  <2>1. caller[c].knot \in Knot
    BY <1>2 DEF Subscribe, ConsumerInv, TypeOK, Idle
  <2>2. caller' \in [Caller -> CallerStates]
    BY <1>2 DEF Subscribe, ConsumerInv, TypeOK, CallerStates
  <2> QED
    BY <1>2, <2>1, <2>2, SubscribeStep DEF Subscribe, ConsumerInv, TypeOK
<1>3. CASE UNCHANGED vars
  <2>1. UNCHANGED <<log, row, entry, holder, caller, restore, tasks, chan, copies, seen, doubled,
                    unsaved>>
    BY <1>3 DEF vars, disk, shared, channel, history
  <2> QED
    BY <2>1, Bystanders DEF ConsumerInv, TypeOK, CallerStates
<1>4. CASE \E t \in DOMAIN tasks : Step(t) \/ Closed(t) \/ Leave(t)
  BY <1>4, MoveSteps, ReadStep, SendStep DEF Step
<1>5. CASE Restart
  BY <1>5, RestartStep
<1>6. CASE \/ \E c \in Caller, k \in Knot : AddKnot(c, k) \/ CallUnsubscribe(c, k)
           \/ \E c \in Caller : Finish(c)
           \/ Consume \/ Shutdown \/ ProcessorStops
  BY <1>6, BystanderSteps
<1>7. ASSUME NEW k \in Knot, Emit(k) PROVE ConsumerInv'
  BY <1>7, EmitStep
<1>8. ASSUME NEW c \in Caller, Unsubscribe(c) PROVE ConsumerInv'
  BY <1>8, UnsubscribeStep
<1> QED
  BY <1>1, <1>2, <1>3, <1>4, <1>5, <1>6, <1>7, <1>8 DEF Next

\* The invariant holds of every behaviour.
THEOREM Inductive == Spec => []ConsumerInv
  BY InitInv, StepInv, PTL DEF Spec

\* A knot has at most one task that is not cancelled, the one the table names, for
\* any knots and callers.
THEOREM OwnedTasks == Spec => []EntryOwnsTask
<1>1. ConsumerInv => EntryOwnsTask
  BY DEF ConsumerInv, OneEntry, EntryOwnsTask
<1> QED
  BY <1>1, Inductive, PTL

\* No event reaches the channel twice, over any reconnections, subscriptions and
\* restarts, but for the knots the property names.
THEOREM SentOnce == Spec => []AtMostOnce
<1>1. ConsumerInv => AtMostOnce
  BY DEF ConsumerInv, ReadInv
<1> QED
  BY <1>1, Inductive, PTL
=============================================================================
