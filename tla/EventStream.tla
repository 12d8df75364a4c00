----------------------------- MODULE EventStream -----------------------------
(***************************************************************************)
(* How a status event reaches the /events subscribers: emit_status_event   *)
(* of crates/tangled-spindle/src/orchestrator.rs, the events table of      *)
(* crates/spindle-db/src/events.rs, the Notifier, and the websocket        *)
(* handler events_ws of crates/tangled-spindle/src/router.rs.              *)
(*                                                                         *)
(* An emitter reads the clock, inserts the event and broadcasts it: three  *)
(* steps, and emitters run in parallel.  A subscriber subscribes, reads a  *)
(* backfill, sends it, and then follows the broadcast; it keeps the        *)
(* created time of the last event it sent, and passes over what is not     *)
(* newer.  A client that reconnects gives that time as its cursor.         *)
(***************************************************************************)
EXTENDS Integers, Sequences, FiniteSets, SequencesExt

CONSTANTS Emitter,    \* workflow tasks and the pipeline loop
          Client,     \* /events subscribers
          Capacity,   \* of the broadcast channel (1024 in server.rs)
          Limit,      \* of the backfill query (100)
          MaxEvents,  \* bound: events in all, and distinct times
          MaxDrops,   \* bound: connections that break, backfills that fail
          MaxCrashes  \* bound: restarts of the process

ASSUME StreamAssumption ==
    /\ Capacity \in Nat \ {0} /\ Limit \in Nat \ {0}
    /\ MaxEvents \in Nat /\ MaxDrops \in Nat /\ MaxCrashes \in Nat

VARIABLES clock,     \* wall clock, as far as the events can tell
          emitter,   \* [at, created, id] of each emitter
          table,     \* table[id]: created of the event with that id
          sent,      \* ids broadcast by this process, oldest first
          conn,      \* [at, last, pos, todo] of each subscriber; todo: the ids of
                     \* its backfill that are still to be sent
          received,  \* ids that reached the client, in order
          missed,    \* ids overwritten in the channel before it read them
          cut,       \* ids a backfill left out
          disorder,  \* two emissions overlapped, or read the same time
          drops, crashes

eventsVars == <<clock, emitter, table, sent, conn, received, missed, cut, disorder,
                drops, crashes>>
history == <<received, missed, cut>>
bounds == <<drops, crashes>>

Resting == [at |-> "idle", created |-> 0, id |-> 0]

EventsInit ==
    /\ clock = 0 /\ table = <<>> /\ sent = <<>> /\ drops = 0 /\ crashes = 0
    /\ emitter = [e \in Emitter |-> Resting]
    /\ conn = [c \in Client |-> [at |-> "off", last |-> 0, pos |-> 0, todo |-> {}]]
    /\ received = [c \in Client |-> <<>>]
    /\ missed = [c \in Client |-> {}]
    /\ cut = [c \in Client |-> {}]
    /\ disorder = FALSE

-----------------------------------------------------------------------------
(* emit_status_event                                                       *)

Busy == {e \in Emitter : emitter[e].at = "stamped"}

\* Two emitters may read the same time; one never reads the same time twice.
Stamp(e) ==
    /\ emitter[e].at = "idle"
    /\ Len(table) + Cardinality(Busy) < MaxEvents
    /\ \E now \in {clock, clock + 1} :
           /\ now > emitter[e].created /\ now <= MaxEvents
           /\ clock' = now
           /\ disorder' = (disorder \/ now \in ToSet(table)
                             \/ \E o \in Emitter : emitter[o].at # "idle")
           /\ emitter' = [emitter EXCEPT ![e] = [at |-> "stamped", created |-> now, id |-> 0]]
    /\ UNCHANGED <<table, sent, conn, history, bounds>>

Insert(e) ==
    /\ emitter[e].at = "stamped"
    /\ table' = Append(table, emitter[e].created)
    /\ emitter' = [emitter EXCEPT ![e].at = "inserted", ![e].id = Len(table')]
    /\ UNCHANGED <<clock, sent, conn, history, disorder, bounds>>

\* An event that the database refuses is not broadcast either.
InsertFails(e) ==
    /\ emitter[e].at = "stamped"
    /\ emitter' = [emitter EXCEPT ![e].at = "idle"]
    /\ UNCHANGED <<clock, table, sent, conn, history, disorder, bounds>>

Notify(e) ==
    /\ emitter[e].at = "inserted"
    /\ sent' = Append(sent, emitter[e].id)
    /\ emitter' = [emitter EXCEPT ![e].at = "idle"]
    /\ UNCHANGED <<clock, table, conn, history, disorder, bounds>>

-----------------------------------------------------------------------------
(* events_ws                                                               *)

Subscribe(c) ==
    /\ conn[c].at = "off"
    /\ conn' = [conn EXCEPT ![c].at = "subscribed", ![c].pos = Len(sent)]
    /\ UNCHANGED <<clock, emitter, table, sent, history, disorder, bounds>>

\* get_events_after: the Limit oldest of the events newer than the cursor.
Newer(cursor) == {id \in DOMAIN table : table[id] > cursor}
Older(a, b) == table[a] < table[b] \/ (table[a] = table[b] /\ a < b)
EventsAfter(cursor) ==
    {id \in Newer(cursor) : Cardinality({x \in Newer(cursor) : Older(x, id)}) < Limit}

Backfill(c) ==
    /\ conn[c].at = "subscribed"
    /\ conn' = [conn EXCEPT ![c].at = "backfill", ![c].todo = EventsAfter(conn[c].last)]
    /\ cut' = [cut EXCEPT ![c] = @ \cup (Newer(conn[c].last) \ EventsAfter(conn[c].last))]
    /\ UNCHANGED <<clock, emitter, table, sent, received, missed, disorder, bounds>>

\* The query fails: the handler goes on as if there were nothing to send.
BackfillFails(c) ==
    /\ conn[c].at = "subscribed"
    /\ drops < MaxDrops /\ drops' = drops + 1
    /\ conn' = [conn EXCEPT ![c].at = "backfill", ![c].todo = {}]
    /\ cut' = [cut EXCEPT ![c] = @ \cup Newer(conn[c].last)]
    /\ UNCHANGED <<clock, emitter, table, sent, received, missed, disorder, crashes>>

\* The backfill is sent oldest first.
Comes_NewestFirst(id, ids) == \A x \in ids \ {id} : Older(x, id)
Comes(id, ids) == \A x \in ids \ {id} : Older(id, x)

ToLive_SubscribeLate(cl) == [cl EXCEPT !.at = "live", !.pos = Len(sent)]
ToLive(cl) == [cl EXCEPT !.at = "live"]

SendBackfill(c) ==
    /\ conn[c].at = "backfill"
    /\ \/ /\ conn[c].todo = {}
          /\ conn' = [conn EXCEPT ![c] = ToLive(@)]
          /\ UNCHANGED received
       \/ \E id \in conn[c].todo :
              /\ Comes(id, conn[c].todo)
              /\ conn' = [conn EXCEPT ![c].todo = @ \ {id}, ![c].last = table[id]]
              /\ received' = [received EXCEPT ![c] = Append(@, id)]
    /\ UNCHANGED <<clock, emitter, table, sent, missed, cut, disorder, bounds>>

Behind(c) == Len(sent) - conn[c].pos

\* rx.recv() returns Lagged: the receiver moves to the oldest event kept.
Lag(c) ==
    /\ conn[c].at = "live"
    /\ Behind(c) > Capacity
    /\ LET oldest == Len(sent) - Capacity
       IN  /\ conn' = [conn EXCEPT ![c].pos = oldest]
           /\ missed' = [missed EXCEPT ![c] =
                 @ \cup {sent[i] : i \in conn[c].pos + 1 .. oldest}]
    /\ UNCHANGED <<clock, emitter, table, sent, received, cut, disorder, bounds>>

Duplicate_Never(c, id) == FALSE
Duplicate(c, id) == table[id] <= conn[c].last

Receive(c) ==
    /\ conn[c].at = "live"
    /\ Behind(c) \in 1..Capacity
    /\ LET id == sent[conn[c].pos + 1]
       IN  IF Duplicate(c, id)
           THEN /\ conn' = [conn EXCEPT ![c].pos = @ + 1]
                /\ UNCHANGED received
           ELSE /\ conn' = [conn EXCEPT ![c].pos = @ + 1, ![c].last = table[id]]
                /\ received' = [received EXCEPT ![c] = Append(@, id)]
    /\ UNCHANGED <<clock, emitter, table, sent, missed, cut, disorder, bounds>>

\* The connection breaks wherever the handler is; the client keeps its cursor.
Off(cl) == [cl EXCEPT !.at = "off", !.todo = {}, !.pos = 0]

Disconnect(c) ==
    /\ conn[c].at # "off"
    /\ drops < MaxDrops
    /\ drops' = drops + 1
    /\ conn' = [conn EXCEPT ![c] = Off(@)]
    /\ UNCHANGED <<clock, emitter, table, sent, history, disorder, crashes>>

\* The table is all that survives the process.
Restart ==
    /\ crashes < MaxCrashes
    /\ crashes' = crashes + 1
    /\ emitter' = [e \in Emitter |-> [Resting EXCEPT !.created = clock]]
    /\ sent' = <<>>
    /\ conn' = [c \in Client |-> Off(conn[c])]
    /\ UNCHANGED <<clock, table, history, disorder, drops>>

-----------------------------------------------------------------------------

Handle(c) == \/ Subscribe(c) \/ Backfill(c) \/ BackfillFails(c) \/ SendBackfill(c)
             \/ Lag(c) \/ Receive(c)
EmitStep(e) == Insert(e) \/ InsertFails(e) \/ Notify(e)

EventsNext ==
    \/ \E e \in Emitter : Stamp(e) \/ EmitStep(e)
    \/ \E c \in Client : Handle(c) \/ Disconnect(c)
    \/ Restart

EventsSpec == EventsInit /\ [][EventsNext]_eventsVars

\* Emitters do not stop half way, and a connected handler keeps going: its awaits
\* are socket sends and channel receives.  Nothing obliges a workflow to go on.
FairEventsSpec ==
    /\ EventsSpec
    /\ \A e \in Emitter : WF_eventsVars(EmitStep(e))
    /\ \A c \in Client : WF_eventsVars(Handle(c))

-----------------------------------------------------------------------------
(* Properties                                                              *)

\* Every variable keeps its type.
EventsTypeOK ==
    /\ clock \in 0..MaxEvents
    /\ table \in Seq(1..clock) /\ Len(table) <= MaxEvents
    /\ sent \in Seq(DOMAIN table)
    /\ \A e \in Emitter :
           emitter[e] \in [at : {"idle", "stamped", "inserted"}, created : 0..clock,
                           id : {0} \cup DOMAIN table]
    /\ \A c \in Client :
           /\ conn[c].at \in {"off", "subscribed", "backfill", "live"}
           /\ conn[c].last \in 0..clock
           /\ conn[c].pos \in 0..Len(sent)
           /\ conn[c].todo \subseteq DOMAIN table
           /\ received[c] \in Seq(DOMAIN table)
           /\ missed[c] \subseteq DOMAIN table
           /\ cut[c] \subseteq DOMAIN table
    /\ disorder \in BOOLEAN

\* Over all its connections, and whatever the backfill and the live stream have
\* in common, a client gets no event twice and none older than the one before.
OnceInOrder ==
    /\ EventsTypeOK
    /\ \A c \in Client : \A i, j \in DOMAIN received[c] :
           i < j => /\ received[c][i] # received[c][j]
                    /\ table[received[c][i]] <= table[received[c][j]]

\* A client's cursor tells the truth, across broken connections and crashes, in the
\* gap between insert and broadcast too: it has every event up to it, except what
\* the channel overwrote and what a backfill left out or failed to read.  Only
\* emissions that overlap break this.
CursorTruthful ==
    disorder \/ \A c \in Client : \A id \in DOMAIN table :
        table[id] <= conn[c].last => id \in ToSet(received[c]) \cup missed[c] \cup cut[c]

\* A client that stays connected gets every event, even one inserted while its
\* backfill was being sent, with the same exceptions.
EventArrives ==
    \A c \in Client, id \in 1..MaxEvents :
        id \in DOMAIN table /\ conn[c].at # "off" ~>
            \/ id \in ToSet(received[c]) \cup missed[c] \cup cut[c]
            \/ disorder \/ conn[c].at = "off"
=============================================================================
