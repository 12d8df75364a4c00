---------------------------- MODULE KnotConsumer ----------------------------
(***************************************************************************)
(* The knot consumer, crates/spindle-knot/src/consumer.rs, with the knots  *)
(* table of crates/spindle-db/src/events.rs and the channel to the         *)
(* pipeline processor of crates/tangled-spindle/src/server.rs.             *)
(*                                                                         *)
(* Each subscribed knot has a task that connects, reads events, moves the  *)
(* cursor to the local time, notes it in the shared connection table and   *)
(* sends pipeline events on.  subscribe and unsubscribe take the write     *)
(* lock of that table; unsubscribe holds it while it waits for the task,   *)
(* which may be waiting for the lock.                                      *)
(*                                                                         *)
(* The knots are external: an event's id is the time it happened, and a    *)
(* connection with a cursor replays what is newer.  Clocks agree.          *)
(***************************************************************************)
EXTENDS Integers, Sequences, FiniteSets, SequencesExt

CONSTANTS Knot, Caller,
          Capacity,     \* of the pipeline channel (256 in server.rs)
          MaxEvents,    \* bound: events in all
          Other,        \* bound: which of them may be of another kind
          MaxMoves      \* bound: calls of subscribe and unsubscribe, connections
                        \* that fail or end, database errors, ends of the process

ASSUME KnotAssumption ==
    /\ IsFiniteSet(Knot)
    /\ Capacity \in Nat \ {0}
    /\ MaxEvents \in Nat /\ MaxMoves \in Nat

VARIABLES log,       \* what happened on the knots; the time of log[i] is i
          row,       \* the knots table: NoRow, or the cursor (0 for NULL)
          entry,     \* connections: the task of each subscribed knot, or 0
          holder,    \* the unsubscribe call that holds the write lock, or NoCaller
          tasks,     \* the tasks spawned by this process, in order
          caller,    \* what each caller is doing
          restore,   \* knots restore_subscriptions has still to subscribe
          chan,      \* the pipeline channel
          receiver,  \* the pipeline processor is running
          down,      \* the shutdown token
          copies,    \* times each event was sent to the channel
          seen,      \* events some task read
          skipped,   \* events a replay left out though nobody had read them
          dropped,   \* events that ended with the process or the receiver
          doubled,   \* knots that had two tasks at a time
          unsaved,   \* knots of which a cursor was not persisted
          left,      \* knots unsubscribed, or never subscribed because of an error
          moves        \* calls and faults so far

disk == <<log, row>>
shared == <<entry, holder, caller, restore>>
channel == <<chan, receiver, down>>
history == <<copies, seen, skipped, dropped, doubled, unsaved, left>>
vars == <<disk, shared, tasks, channel, history, moves>>

NoRow == -1
NoCaller == "none"

KnotEvent == [knot : Knot, pipeline : BOOLEAN]

\* The knots table: INSERT OR IGNORE, UPDATE, the cursor and the names.
WithRow(k) == [row EXCEPT ![k] = IF @ = NoRow THEN 0 ELSE @]
WithCursor(k, now) == [row EXCEPT ![k] = IF @ = NoRow THEN NoRow ELSE now]
CursorOf(k) == IF row[k] = NoRow THEN 0 ELSE row[k]
Names == {k \in Knot : row[k] # NoRow}

Idle == [at |-> "idle"]
Calling(at, k) == [at |-> at, knot |-> k]
Joining(t) == [at |-> "join", task |-> t]

Init ==
    /\ log = <<>> /\ row \in [Knot -> {NoRow, 0}]
    /\ entry = [k \in Knot |-> 0] /\ holder = NoCaller
    /\ tasks = <<>> /\ caller = [c \in Caller |-> Idle]
    /\ restore = Names
    /\ chan = <<>> /\ receiver = TRUE /\ down = FALSE
    /\ copies = [i \in 1..MaxEvents |-> 0]
    /\ seen = {} /\ skipped = {} /\ dropped = {} /\ doubled = {} /\ unsaved = {} /\ left = {}
    /\ moves = 0

Move == moves < MaxMoves /\ moves' = moves + 1
NoMove == UNCHANGED moves

\* Something happens on a knot: a pipeline, or an event of another kind.
Emit(k) ==
    /\ Len(log) < MaxEvents
    /\ \E p \in {TRUE, Len(log) + 1 \notin Other} : log' = Append(log, [knot |-> k, pipeline |-> p])
    /\ UNCHANGED <<row, shared, tasks, channel, history, moves>>

-----------------------------------------------------------------------------
(* subscribe, unsubscribe, restore_subscriptions                           *)

Fresh(k) == [knot |-> k, at |-> "start", cursor |-> CursorOf(k), pos |-> 0,
             hand |-> 0, cancelled |-> FALSE]
Ended(t) == tasks[t].at = "done"
TasksOf(k) == {t \in DOMAIN tasks : tasks[t].knot = k /\ ~Ended(t)}

Subscribed_Unchecked(k) == FALSE
Subscribed(k) == entry[k] # 0

\* The body of subscribe, under the lock; reading the cursor may fail.
SubscribeKnot(k) ==
    \/ /\ Subscribed(k) /\ NoMove
       /\ UNCHANGED <<tasks, entry, doubled, left>>
    \/ /\ ~Subscribed(k) /\ NoMove
       /\ tasks' = Append(tasks, Fresh(k))
       /\ entry' = [entry EXCEPT ![k] = Len(tasks) + 1]
       /\ doubled' = IF TasksOf(k) = {} THEN doubled ELSE doubled \cup {k}
       /\ UNCHANGED left
    \/ /\ ~Subscribed(k) /\ Move
       /\ left' = left \cup {k}
       /\ UNCHANGED <<tasks, entry, doubled>>

\* ingest_repo adds the row, or fails to, and subscribes either way.
AddKnot(c, k) ==
    /\ caller[c] = Idle /\ restore = {} /\ Move
    /\ row' \in {row, WithRow(k)}
    /\ caller' = [caller EXCEPT ![c] = Calling("subscribe", k)]
    /\ UNCHANGED <<log, entry, holder, restore, tasks, channel, history>>

Subscribe(c) ==
    /\ caller[c].at = "subscribe" /\ holder = NoCaller
    /\ SubscribeKnot(caller[c].knot)
    /\ caller' = [caller EXCEPT ![c] = Idle]
    /\ UNCHANGED <<disk, holder, restore, channel, copies, seen, skipped, dropped, unsaved>>

CallUnsubscribe(c, k) ==
    /\ caller[c] = Idle /\ restore = {} /\ Move
    /\ caller' = [caller EXCEPT ![c] = Calling("unsubscribe", k)]
    /\ UNCHANGED <<disk, entry, holder, restore, tasks, channel, history>>

\* The entry goes and the token is cancelled at once; the lock is kept.
Unsubscribe(c) ==
    /\ caller[c].at = "unsubscribe" /\ holder = NoCaller
    /\ LET k == caller[c].knot
           t == entry[k]
       IN  IF Subscribed(k)
           THEN /\ entry' = [entry EXCEPT ![k] = 0]
                /\ tasks' = [tasks EXCEPT ![t].cancelled = TRUE]
                /\ holder' = c /\ left' = left \cup {k}
                /\ caller' = [caller EXCEPT ![c] = Joining(t)]
           ELSE /\ caller' = [caller EXCEPT ![c] = Idle]
                /\ UNCHANGED <<entry, tasks, holder, left>>
    /\ UNCHANGED <<disk, restore, channel, copies, seen, skipped, dropped, doubled, unsaved,
                   moves>>

Release(c) ==
    /\ holder' = NoCaller
    /\ caller' = [caller EXCEPT ![c] = Idle]
    /\ UNCHANGED <<disk, entry, restore, tasks, channel, history, moves>>

Joined(c) == caller[c].at = "join" /\ Ended(caller[c].task) /\ Release(c)

\* Five seconds are over: the handle is dropped, and the task goes on.
JoinTimeout_Never(c) == FALSE
JoinTimeout(c) == caller[c].at = "join" /\ ~Ended(caller[c].task) /\ Release(c)

\* At the start, before anything else can call subscribe.
Restore(k) ==
    /\ k \in restore
    /\ SubscribeKnot(k)
    /\ restore' = restore \ {k}
    /\ UNCHANGED <<disk, holder, caller, channel, copies, seen, skipped, dropped, unsaved>>

-----------------------------------------------------------------------------
(* run_knot_connection, stream_events and process_ws_message               *)

Cancelled(t) == tasks[t].cancelled \/ down
Goto(t, at) == tasks' = [tasks EXCEPT ![t].at = at]

\* The head of the loop, where the token is looked at.
Loop(t) == IF Cancelled(t) THEN "done" ELSE "connect"

\* Ok goes straight to the next connection; Err waits for a backoff, whatever its
\* length.
EndedCleanly_Gone(t) == [tasks[t] EXCEPT !.at = "done", !.pos = 0]
EndedCleanly(t) == [tasks[t] EXCEPT !.at = Loop(t), !.pos = 0]
Failed(t) == [tasks[t] EXCEPT !.at = "wait", !.pos = 0]

Start(t) ==
    /\ tasks[t].at = "start"
    /\ Goto(t, Loop(t))
    /\ UNCHANGED <<disk, shared, channel, history, moves>>

Wake(t) ==
    /\ tasks[t].at = "wait"
    /\ Goto(t, Loop(t))
    /\ UNCHANGED <<disk, shared, channel, history, moves>>

\* The knot replays what is newer than the cursor; without one, all or nothing.
ReplayFrom_Inclusive(cursor) == IF cursor = 0 THEN {0, Len(log)} ELSE {cursor - 1}
ReplayFrom(cursor) == IF cursor = 0 THEN {0, Len(log)} ELSE {cursor}

Connect(t) ==
    /\ tasks[t].at = "connect"
    /\ \E pos \in ReplayFrom(tasks[t].cursor) :
           /\ tasks' = [tasks EXCEPT ![t].at = "read", ![t].pos = pos]
           /\ skipped' = skipped \cup
                 {i \in 1..pos : log[i].knot = tasks[t].knot /\ i \notin seen}
    /\ UNCHANGED <<disk, shared, channel, copies, seen, dropped, doubled, unsaved, left, moves>>

ConnectFails(t) ==
    /\ tasks[t].at = "connect" /\ Move
    /\ tasks' = [tasks EXCEPT ![t] = Failed(t)]
    /\ UNCHANGED <<disk, shared, channel, history>>

Unread(t) == {i \in tasks[t].pos + 1 .. Len(log) : log[i].knot = tasks[t].knot}

Oldest(S) == {i \in S : \A j \in S : i =< j}

\* The cursor becomes the local time, in memory and, if the row is there and the
\* update succeeds, on disk.
Read(t) ==
    /\ tasks[t].at = "read"
    /\ \E i \in Oldest(Unread(t)) :
           /\ tasks' = [tasks EXCEPT ![t].at = "note", ![t].pos = i, ![t].hand = i,
                                     ![t].cursor = Len(log)]
           /\ seen' = seen \cup {i}
    /\ LET k == tasks[t].knot
       IN  /\ \/ row' = WithCursor(k, Len(log)) /\ NoMove
              \/ UNCHANGED row /\ Move
           /\ unsaved' = IF row'[k] = Len(log) THEN unsaved ELSE unsaved \cup {k}
    /\ UNCHANGED <<log, shared, channel, copies, skipped, dropped, doubled, left>>

\* Only pipeline events go on, once the task has had the lock.
Note(t) ==
    /\ tasks[t].at = "note" /\ holder = NoCaller
    /\ tasks' = IF log[tasks[t].hand].pipeline
                THEN [tasks EXCEPT ![t].at = "send"]
                ELSE [tasks EXCEPT ![t].at = "read", ![t].hand = 0]
    /\ UNCHANGED <<disk, shared, channel, history, moves>>

HasRoom == Len(chan) < Capacity

Send(t) ==
    /\ tasks[t].at = "send" /\ receiver /\ HasRoom
    /\ chan' = Append(chan, tasks[t].hand)
    /\ copies' = [copies EXCEPT ![tasks[t].hand] = @ + 1]
    /\ tasks' = [tasks EXCEPT ![t].at = "read", ![t].hand = 0]
    /\ UNCHANGED <<disk, shared, receiver, down, seen, skipped, dropped, doubled, unsaved, left,
                   moves>>

SendFails(t) ==
    /\ tasks[t].at = "send" /\ ~receiver
    /\ dropped' = dropped \cup {tasks[t].hand}
    /\ tasks' = [tasks EXCEPT ![t].at = "read", ![t].hand = 0]
    /\ UNCHANGED <<disk, shared, channel, copies, seen, skipped, doubled, unsaved, left, moves>>

\* The knot closes the stream, or the stream breaks.
Closed(t) ==
    /\ tasks[t].at = "read" /\ Move
    /\ tasks' \in {[tasks EXCEPT ![t] = EndedCleanly(t)], [tasks EXCEPT ![t] = Failed(t)]}
    /\ UNCHANGED <<disk, shared, channel, history>>

\* select! takes either branch that is ready, so a cancelled task may still Read.
Leave(t) ==
    /\ tasks[t].at = "read" /\ Cancelled(t)
    /\ tasks' = [tasks EXCEPT ![t] = EndedCleanly(t)]
    /\ UNCHANGED <<disk, shared, channel, history, moves>>

-----------------------------------------------------------------------------
(* The pipeline processor, shutdown and the end of the process             *)

Consume ==
    /\ receiver /\ chan # <<>>
    /\ chan' = Tail(chan)
    /\ UNCHANGED <<disk, shared, tasks, receiver, down, history, moves>>

Shutdown ==
    /\ ~down /\ Move
    /\ down' = TRUE
    /\ UNCHANGED <<disk, shared, tasks, chan, receiver, history>>

ProcessorStops ==
    /\ down /\ receiver
    /\ receiver' = FALSE /\ chan' = <<>>
    /\ dropped' = dropped \cup ToSet(chan)
    /\ UNCHANGED <<disk, shared, tasks, down, copies, seen, skipped, doubled, unsaved, left, moves>>

\* With or without a shutdown: nobody joins the tasks.  Then the next start.
Restart ==
    /\ Move
    /\ entry' = [k \in Knot |-> 0] /\ holder' = NoCaller
    /\ caller' = [c \in Caller |-> Idle]
    /\ tasks' = <<>> /\ chan' = <<>> /\ receiver' = TRUE /\ down' = FALSE
    /\ dropped' = dropped \cup ToSet(chan)
                    \cup ({tasks[t].hand : t \in DOMAIN tasks} \ {0})
    /\ restore' = Names
    /\ UNCHANGED <<disk, copies, seen, skipped, doubled, unsaved, left>>

-----------------------------------------------------------------------------

Step(t) ==
    \/ Start(t) \/ Connect(t) \/ ConnectFails(t) \/ Read(t) \/ Note(t)
    \/ Send(t) \/ SendFails(t) \/ Wake(t)
Finish(c) == Joined(c) \/ JoinTimeout(c)

Next ==
    \/ \E k \in Knot : Emit(k) \/ Restore(k)
    \/ \E c \in Caller :
           \/ \E k \in Knot : AddKnot(c, k) \/ CallUnsubscribe(c, k)
           \/ Subscribe(c) \/ Unsubscribe(c) \/ Finish(c)
    \/ \E t \in DOMAIN tasks : Step(t) \/ Closed(t) \/ Leave(t)
    \/ Consume \/ Shutdown \/ ProcessorStops \/ Restart

Spec == Init /\ [][Next]_vars

MaxTasks == MaxMoves + Cardinality(Knot)

\* tokio polls a ready task and select! picks among its ready branches at random;
\* its RwLock is fair.  Knots accept connections, but for MaxMoves failures.
FairSpec ==
    /\ Spec
    /\ \A t \in 1..MaxTasks :
           SF_vars(t \in DOMAIN tasks /\ Step(t)) /\ SF_vars(t \in DOMAIN tasks /\ Leave(t))
    /\ \A c \in Caller : SF_vars(Subscribe(c) \/ Unsubscribe(c) \/ Finish(c))
    /\ \A k \in Knot : WF_vars(Restore(k))
    /\ WF_vars(Consume)

-----------------------------------------------------------------------------
(* Properties                                                              *)

Task == [knot : Knot, at : {"start", "connect", "read", "note", "send", "wait", "done"},
         cursor : 0..MaxEvents, pos : 0..MaxEvents, hand : 0..MaxEvents,
         cancelled : BOOLEAN]

\* Every variable keeps its type.
TypeOK ==
    /\ log \in Seq(KnotEvent) /\ Len(log) <= MaxEvents
    /\ row \in [Knot -> {NoRow} \cup 0..MaxEvents]
    /\ tasks \in Seq(Task)
    /\ entry \in [Knot -> {0} \cup DOMAIN tasks]
    /\ holder \in {NoCaller} \cup Caller
    /\ caller \in [Caller -> {Idle} \cup [at : {"subscribe", "unsubscribe"}, knot : Knot]
                                \cup [at : {"join"}, task : Nat \ {0}]]
    /\ chan \in Seq(DOMAIN log) /\ Len(chan) <= Capacity
    /\ restore \subseteq Knot

\* The lock over the connections works: a knot never has two tasks that are not
\* cancelled, and the table names the one it has.  What unsubscribe left behind
\* after its five seconds is cancelled.
EntryOwnsTask ==
    /\ TypeOK
    /\ \A k \in Knot : {t \in DOMAIN tasks : tasks[t].knot = k /\ ~tasks[t].cancelled}
                          = {entry[k]} \ {0}

\* No pipeline runs twice: an event is sent at most once, over reconnections,
\* resubscriptions and restarts; the cursor moves before the event is sent.  Only a
\* knot whose cancelled task outlived unsubscribe, or whose cursor could not be
\* persisted, may deliver twice.
AtMostOnce ==
    \A i \in DOMAIN log : copies[i] <= 1 \/ log[i].knot \in doubled \cup unsaved

Delivered(i) == copies[i] > 0 /\ i \notin ToSet(chan)

\* A pipeline event of a knot in the table is handed to the processor, after
\* whatever disconnections and restarts.  It can be lost only in the named ways: a
\* replay from the local time passed over it, or it was in a task's hand or in the
\* channel when the process or the processor ended.
EventArrives ==
    \A i \in 1..MaxEvents, k \in Knot :
        (i \in DOMAIN log /\ log[i] = [knot |-> k, pipeline |-> TRUE] /\ row[k] # NoRow) ~>
            (Delivered(i) \/ i \in skipped \cup dropped \/ k \in left \/ down)

\* unsubscribe waits for a task that may be waiting for the lock unsubscribe holds:
\* the five seconds break the tie, and the lock is always free again.  The cancelled
\* task ends too, although neither a connection attempt nor a send to a full channel
\* listens to the token.
LockComesBack ==
    /\ []<>(holder = NoCaller)
    /\ []<>(\A t \in DOMAIN tasks : tasks[t].cancelled => Ended(t))
=============================================================================
