---------------------------- MODULE StreamProofs ----------------------------
(***************************************************************************)
(* What the two websocket endpoints promise, for every number of emitters, *)
(* clients, events, lines and failures.                                    *)
(*                                                                         *)
(* /events: StreamInv is inductive.  Ordered keeps a client's cursor       *)
(* between what it got and what is left of its backfill, and that alone    *)
(* gives OnceInOrder.  CalmInv holds while emissions do not overlap: Calm  *)
(* says that ids, times and places in the channel then go together, and    *)
(* Covered that a handler has, has in hand or has lost all that was        *)
(* broadcast before its place in the channel.                              *)
(*                                                                         *)
(* /logs: LogInv joins where the handler is to whether the task or a       *)
(* thread may still write; StepInv says how far the task is and which mark *)
(* the file ends with, so that every new line falls to the right step.     *)
(***************************************************************************)
EXTENDS EventStream, LogStream, SequenceTheorems, FiniteSetTheorems, TLAPS

-----------------------------------------------------------------------------
(* /events                                                                 *)

EmitterState == [at : {"idle", "stamped", "inserted"}, created : Nat, id : Nat]
ClientState == [at : {"off", "subscribed", "backfill", "live"}, last : Nat, pos : Nat,
                todo : SUBSET Nat]

\* What the variables are.
Types ==
    /\ clock \in Nat /\ clock <= MaxEvents
    /\ table \in Seq(Nat) /\ sent \in Seq(Nat)
    /\ emitter \in [Emitter -> EmitterState]
    /\ conn \in [Client -> ClientState]
    /\ received \in [Client -> Seq(Nat)]
    /\ missed \in [Client -> SUBSET Nat] /\ cut \in [Client -> SUBSET Nat]
    /\ disorder \in BOOLEAN

\* Who has read the clock has a place in the table.
Room == IsFiniteSet(Busy) /\ Len(table) + Cardinality(Busy) <= MaxEvents

\* Times have passed, and ids are of events in the table.
Known ==
    /\ \A id \in DOMAIN table : table[id] \in 1 .. clock
    /\ \A i \in DOMAIN sent : sent[i] \in DOMAIN table
    /\ \A e \in Emitter :
           /\ emitter[e].created <= clock
           /\ emitter[e].at # "idle" => emitter[e].created >= 1
           /\ emitter[e].id \in {0} \cup DOMAIN table
           /\ emitter[e].at = "inserted" => emitter[e].id \in DOMAIN table

Fits(c) ==
    /\ conn[c].last <= clock /\ conn[c].pos <= Len(sent)
    /\ conn[c].todo \subseteq DOMAIN table
    /\ \A i \in DOMAIN received[c] : received[c][i] \in DOMAIN table
    /\ missed[c] \subseteq DOMAIN table /\ cut[c] \subseteq DOMAIN table

\* A client's cursor is not behind what it got, and what is left of a backfill is
\* not behind its cursor.
Ordered(c) ==
    /\ \A i \in DOMAIN received[c] : table[received[c][i]] <= conn[c].last
    /\ \A i, j \in DOMAIN received[c] :
           i < j => received[c][i] # received[c][j] /\ table[received[c][i]] <= table[received[c][j]]
    /\ \A id \in conn[c].todo : /\ conn[c].last <= table[id]
                                  /\ \A i \in DOMAIN received[c] : received[c][i] # id
    /\ conn[c].at # "backfill" => conn[c].todo = {}

\* Emissions that do not overlap insert and broadcast one after another.
Pending == IF \E e \in Emitter : emitter[e].at = "inserted" THEN 1 ELSE 0
Base == Len(table) - Pending - Len(sent)   \* events this process did not broadcast

Calm ==
    /\ \A e, f \in Emitter : emitter[e].at # "idle" /\ emitter[f].at # "idle" => e = f
    /\ \A i, j \in DOMAIN table : i < j => table[i] < table[j]
    /\ \A e \in Emitter :
           /\ emitter[e].at = "stamped" =>
                  \A id \in DOMAIN table : table[id] < emitter[e].created
           /\ emitter[e].at = "inserted" => emitter[e].id = Len(table)
    /\ Base >= 0
    /\ \A i \in DOMAIN sent : sent[i] = Base + i

\* What the client has, or has lost.
Seen(c) == ToSet(received[c]) \cup missed[c] \cup cut[c]

\* A handler that has read its backfill has, or has in hand, all that was broadcast
\* before its place in the channel, and sends what it has in hand oldest first.
Covered(c) ==
    /\ conn[c].last = 0 \/ \E id \in DOMAIN table : table[id] = conn[c].last
    /\ \A id \in DOMAIN table : table[id] <= conn[c].last => id \in Seen(c)
    /\ conn[c].at \in {"backfill", "live"} =>
           \A id \in DOMAIN table : id <= Base + conn[c].pos => id \in Seen(c) \cup conn[c].todo
    /\ \A x \in conn[c].todo : \A id \in DOMAIN table :
           table[id] < table[x] => id \in Seen(c) \cup conn[c].todo

TypeInv == Types /\ Room /\ Known /\ \A c \in Client : Fits(c)
CalmInv == disorder \/ (Calm /\ \A c \in Client : Covered(c))
StreamInv == TypeInv /\ (\A c \in Client : Ordered(c)) /\ CalmInv

\* At first nothing has happened.
LEMMA EventsInitInv == EventsInit => StreamInv
<1> SUFFICES ASSUME EventsInit PROVE StreamInv
  OBVIOUS
<1>1. Types
  <2>1. <<>> \in Seq(Nat) /\ 0 \in Nat /\ 0 <= MaxEvents
    BY StreamAssumption
  <2> QED
    BY <2>1 DEF EventsInit, Types, Resting, EmitterState, ClientState
<1>2. Room
  <2>1. Busy = {}
    BY DEF EventsInit, Busy, Resting
  <2> QED
    BY <2>1, FS_EmptySet, StreamAssumption DEF Room, EventsInit
<1>3. Known /\ \A c \in Client : Fits(c)
  BY DEF EventsInit, Known, Fits, Resting
<1>4. \A c \in Client : Ordered(c)
  BY DEF EventsInit, Ordered
<1>5. Calm /\ \A c \in Client : Covered(c)
  <2>1. Base = 0
    BY DEF EventsInit, Base, Pending, Resting
  <2>2. Calm
    BY <2>1 DEF EventsInit, Calm, Resting
  <2>3. \A c \in Client : Covered(c)
    BY DEF EventsInit, Covered
  <2> QED
    BY <2>2, <2>3
<1> QED
  BY <1>1, <1>2, <1>3, <1>4, <1>5 DEF StreamInv, TypeInv, CalmInv

\* An emitter reads the clock.
LEMMA StampTypes == ASSUME TypeInv, NEW e \in Emitter, Stamp(e) PROVE TypeInv'
<1> PICK now \in {clock, clock + 1} :
        /\ now > emitter[e].created /\ now <= MaxEvents
        /\ clock' = now
        /\ emitter' = [emitter EXCEPT ![e] = [at |-> "stamped", created |-> now, id |-> 0]]
  BY DEF Stamp
<1>0. emitter[e].created \in Nat /\ emitter[e].at = "idle" /\ clock \in Nat
  BY DEF TypeInv, Types, EmitterState, Stamp
<1>1. /\ UNCHANGED <<table, sent, conn, received, missed, cut>> /\ disorder' \in BOOLEAN
      /\ emitter[e].at = "idle" /\ Len(table) + Cardinality(Busy) < MaxEvents
  BY DEF Stamp, history, TypeInv, Types
<1>2. Types'
  BY <1>0, <1>1 DEF TypeInv, Types, EmitterState
<1>3. Room'
  <2>1. Busy' = Busy \cup {e} /\ e \notin Busy
    BY <1>1 DEF Busy, TypeInv, Types
  <2>2. IsFiniteSet(Busy') /\ Cardinality(Busy') = Cardinality(Busy) + 1
    BY <2>1, FS_AddElement DEF TypeInv, Room
  <2>3. Cardinality(Busy) \in Nat /\ Len(table) \in Nat
    BY FS_CardinalityType DEF TypeInv, Room, Types
  <2> QED
    BY <1>1, <2>2, <2>3, StreamAssumption DEF Room
<1>4. Known'
  <2>1. now >= 1 /\ clock <= clock'
    BY <1>0
  <2>2. \A id \in DOMAIN table' : table'[id] \in 1 .. clock'
    BY <1>0, <1>1, <2>1 DEF TypeInv, Known
  <2>3. \A f \in Emitter :
           /\ emitter'[f].created <= clock'
           /\ emitter'[f].at # "idle" => emitter'[f].created >= 1
           /\ emitter'[f].id \in {0} \cup DOMAIN table'
           /\ emitter'[f].at = "inserted" => emitter'[f].id \in DOMAIN table'
    <3> TAKE f \in Emitter
    <3>1. CASE f = e
      BY <1>0, <2>1, <3>1 DEF TypeInv, Types
    <3>2. CASE f # e
      <4>1. emitter'[f] = emitter[f] /\ emitter[f].created \in Nat
        BY <3>2 DEF TypeInv, Types, EmitterState
      <4> QED
        BY <1>0, <1>1, <2>1, <4>1 DEF TypeInv, Known
    <3> QED
      BY <3>1, <3>2
  <2> QED
    BY <1>1, <2>2, <2>3 DEF TypeInv, Known
<1>5. ASSUME NEW c \in Client PROVE Fits(c)'
  <2>1. conn'[c].last <= clock'
    <3>1. conn[c].last \in Nat
      BY DEF TypeInv, Types, ClientState
    <3> QED
      BY <1>0, <1>1, <3>1 DEF TypeInv, Fits
  <2> QED
    BY <1>1, <2>1 DEF TypeInv, Fits
<1> QED
  BY <1>2, <1>3, <1>4, <1>5 DEF TypeInv

\* It inserts its event.
LEMMA InsertTypes == ASSUME TypeInv, NEW e \in Emitter, Insert(e) PROVE TypeInv'
<1> DEFINE stamp == emitter[e].created
<1>1. /\ UNCHANGED <<clock, sent, conn, received, missed, cut, disorder>>
      /\ emitter[e].at = "stamped" /\ table' = Append(table, stamp)
      /\ emitter' = [emitter EXCEPT ![e].at = "inserted", ![e].id = Len(table')]
  BY DEF Insert, history
<1>2. stamp \in Nat /\ stamp \in 1 .. clock /\ clock \in Nat
  BY <1>1 DEF TypeInv, Types, Known, EmitterState
<1>3. /\ table' \in Seq(Nat) /\ Len(table') = Len(table) + 1 /\ Len(table) \in Nat
      /\ DOMAIN table' = DOMAIN table \cup {Len(table')}
      /\ \A i \in DOMAIN table : table'[i] = table[i]
      /\ table'[Len(table')] = stamp
  BY <1>1, <1>2 DEF TypeInv, Types
<1>4. Types'
  <2>1. emitter' \in [Emitter -> EmitterState]
    <3>1. Len(table') \in Nat /\ emitter \in [Emitter -> EmitterState]
      BY <1>3 DEF TypeInv, Types
    <3> QED
      BY <1>1, <3>1 DEF EmitterState
  <2> QED
    BY <1>1, <1>3, <2>1 DEF TypeInv, Types
<1>5. Room'
  <2>1. Busy' = Busy \ {e} /\ e \in Busy
    BY <1>1 DEF Busy, TypeInv, Types, EmitterState
  <2>2. IsFiniteSet(Busy') /\ Cardinality(Busy') = Cardinality(Busy) - 1
    BY <2>1, FS_RemoveElement DEF TypeInv, Room
  <2>3. Cardinality(Busy) \in Nat
    BY FS_CardinalityType DEF TypeInv, Room
  <2> QED
    BY <1>3, <2>2, <2>3, StreamAssumption DEF TypeInv, Room
<1>6. Known'
  <2> HIDE DEF stamp
  <2>1. \A id \in DOMAIN table' : table'[id] \in 1 .. clock'
    BY <1>1, <1>2, <1>3 DEF TypeInv, Known
  <2>2. \A f \in Emitter :
           /\ emitter'[f].created <= clock'
           /\ emitter'[f].at # "idle" => emitter'[f].created >= 1
           /\ emitter'[f].id \in {0} \cup DOMAIN table'
           /\ emitter'[f].at = "inserted" => emitter'[f].id \in DOMAIN table'
    <3> TAKE f \in Emitter
    <3>1. CASE f = e
      BY <1>1, <1>2, <1>3, <3>1 DEF TypeInv, Types, EmitterState, stamp
    <3>2. CASE f # e
      <4>1. emitter'[f] = emitter[f]
        BY <1>1, <3>2 DEF TypeInv, Types
      <4> QED
        BY <1>1, <1>3, <4>1 DEF TypeInv, Known
    <3> QED
      BY <3>1, <3>2
  <2>3. DOMAIN table \subseteq DOMAIN table'
    BY <1>3
  <2> QED
    BY <1>1, <2>1, <2>2, <2>3 DEF TypeInv, Known
<1>7. \A c \in Client : Fits(c)'
  <2>1. DOMAIN table \subseteq DOMAIN table'
    BY <1>3
  <2> QED
    BY <1>1, <2>1 DEF TypeInv, Fits
<1> QED
  BY <1>4, <1>5, <1>6, <1>7 DEF TypeInv

\* The insertion fails.
LEMMA InsertFailsTypes == ASSUME TypeInv, NEW e \in Emitter, InsertFails(e) PROVE TypeInv'
<1>1. /\ UNCHANGED <<clock, table, sent, conn, received, missed, cut, disorder>>
      /\ emitter[e].at = "stamped"
      /\ emitter' = [emitter EXCEPT ![e].at = "idle"]
  BY DEF InsertFails, history
<1>2. Types'
  BY <1>1 DEF TypeInv, Types, EmitterState
<1>3. Room'
  <2>1. Busy' = Busy \ {e} /\ e \in Busy
    BY <1>1 DEF Busy, TypeInv, Types, EmitterState
  <2>2. IsFiniteSet(Busy') /\ Cardinality(Busy') = Cardinality(Busy) - 1
    BY <2>1, FS_RemoveElement DEF TypeInv, Room
  <2>3. Cardinality(Busy) \in Nat /\ Len(table) \in Nat
    BY FS_CardinalityType DEF TypeInv, Room, Types
  <2> QED
    BY <1>1, <2>2, <2>3, StreamAssumption DEF TypeInv, Room
<1>4. \A f \in Emitter : /\ emitter'[f].created = emitter[f].created
                         /\ emitter'[f].id = emitter[f].id
                         /\ emitter'[f].at # "idle" => emitter'[f].at = emitter[f].at
  BY <1>1 DEF TypeInv, Types, EmitterState
<1>5. Known' /\ \A c \in Client : Fits(c)'
  BY <1>1, <1>4 DEF TypeInv, Known, Fits
<1> QED
  BY <1>2, <1>3, <1>5 DEF TypeInv

\* It broadcasts its event.
LEMMA NotifyTypes == ASSUME TypeInv, NEW e \in Emitter, Notify(e) PROVE TypeInv'
<1>1. /\ UNCHANGED <<clock, table, conn, received, missed, cut, disorder>>
      /\ emitter[e].at = "inserted" /\ sent' = Append(sent, emitter[e].id)
      /\ emitter' = [emitter EXCEPT ![e].at = "idle"]
  BY DEF Notify, history
<1>2. emitter[e].id \in DOMAIN table /\ emitter[e].id \in Nat
  BY <1>1 DEF TypeInv, Types, Known, EmitterState
<1>3. /\ sent' \in Seq(Nat) /\ Len(sent') = Len(sent) + 1 /\ Len(sent) \in Nat
      /\ \A i \in DOMAIN sent' : sent'[i] \in DOMAIN table
  BY <1>1, <1>2 DEF TypeInv, Types, Known
<1>4. Types'
  BY <1>1, <1>3 DEF TypeInv, Types, EmitterState
<1>5. Room'
  <2>1. Busy' = Busy
    BY <1>1 DEF Busy, TypeInv, Types, EmitterState
  <2> QED
    BY <1>1, <2>1 DEF TypeInv, Room
<1>6. \A f \in Emitter : /\ emitter'[f].created = emitter[f].created
                         /\ emitter'[f].id = emitter[f].id
                         /\ emitter'[f].at # "idle" => emitter'[f].at = emitter[f].at
  BY <1>1 DEF TypeInv, Types, EmitterState
<1>7. Known'
  BY <1>1, <1>3, <1>6 DEF TypeInv, Known
<1>8. ASSUME NEW c \in Client PROVE Fits(c)'
  <2>1. conn[c].pos \in Nat /\ conn[c].pos <= Len(sent)
    BY DEF TypeInv, Types, ClientState, Fits
  <2>2. conn'[c].pos <= Len(sent')
    BY <1>1, <1>3, <2>1
  <2> QED
    BY <1>1, <2>2 DEF TypeInv, Fits
<1> QED
  BY <1>4, <1>5, <1>7, <1>8 DEF TypeInv

-----------------------------------------------------------------------------
(* What an emitter's step leaves of the clients' part.                     *)

Emitting(e) == Stamp(e) \/ Insert(e) \/ InsertFails(e) \/ Notify(e)

\* The table only grows.
LEMMA TableGrows ==
    ASSUME TypeInv, NEW e \in Emitter, Emitting(e)
    PROVE  /\ UNCHANGED <<conn, received, missed, cut>>
           /\ DOMAIN table \subseteq DOMAIN table'
           /\ \A id \in DOMAIN table : table'[id] = table[id]
<1>1. UNCHANGED <<conn, received, missed, cut>>
  BY DEF Emitting, Stamp, Insert, InsertFails, Notify, history
<1>2. CASE Insert(e)
  <2>1. table \in Seq(Nat) /\ emitter[e].created \in Nat /\ table' = Append(table, emitter[e].created)
    BY <1>2 DEF TypeInv, Types, EmitterState, Insert
  <2> QED
    BY <1>1, <2>1
<1>3. CASE ~Insert(e)
  <2>1. table' = table
    BY <1>3 DEF Emitting, Stamp, InsertFails, Notify
  <2> QED
    BY <1>1, <2>1
<1> QED
  BY <1>2, <1>3

\* What a client got stays in order.
LEMMA EmitOrdered ==
    ASSUME TypeInv, NEW c \in Client, Ordered(c), NEW e \in Emitter, Emitting(e)
    PROVE  Ordered(c)'
<1>1. /\ UNCHANGED <<conn, received>>
      /\ \A id \in DOMAIN table : table'[id] = table[id]
  BY TableGrows
<1>2. (\A i \in DOMAIN received[c] : received[c][i] \in DOMAIN table) /\ conn[c].todo \subseteq DOMAIN table
  BY DEF TypeInv, Fits
<1> QED
  BY <1>1, <1>2 DEF Ordered

\* Emissions that do not overlap keep their order.
LEMMA StampCalm ==
    ASSUME TypeInv, Calm, NEW e \in Emitter, Stamp(e), ~disorder'
    PROVE  Calm' /\ Base' = Base
<1> PICK now \in {clock, clock + 1} :
        /\ disorder' = (disorder \/ now \in ToSet(table) \/ \E o \in Emitter : emitter[o].at # "idle")
        /\ emitter' = [emitter EXCEPT ![e] = [at |-> "stamped", created |-> now, id |-> 0]]
  BY DEF Stamp
<1>1. table' = table /\ sent' = sent /\ clock \in Nat
  BY DEF Stamp, TypeInv, Types
<1>2. (\A o \in Emitter : emitter[o].at = "idle") /\ \A id \in DOMAIN table : table[id] # now
  BY DEF ToSet
<1>3. \A o \in Emitter : emitter'[o] = IF o = e THEN [at |-> "stamped", created |-> now, id |-> 0]
                                      ELSE emitter[o]
  BY DEF TypeInv, Types
<1>4. Pending' = 0 /\ Pending = 0
  BY <1>2, <1>3 DEF Pending
<1>5. Base' = Base
  BY <1>1, <1>4 DEF Base
<1>6. \A id \in DOMAIN table : table[id] < now
  BY <1>1, <1>2 DEF TypeInv, Known
<1>7. \A f, g \in Emitter : emitter'[f].at # "idle" /\ emitter'[g].at # "idle" => f = g
  BY <1>2, <1>3
<1>8. \A f \in Emitter :
         /\ emitter'[f].at = "stamped" =>
                \A id \in DOMAIN table' : table'[id] < emitter'[f].created
         /\ emitter'[f].at = "inserted" => emitter'[f].id = Len(table')
  BY <1>1, <1>2, <1>3, <1>6
<1> QED
  BY <1>1, <1>5, <1>7, <1>8 DEF Calm

\* So does the insertion: its time is later than all in the table.
LEMMA InsertCalm ==
    ASSUME TypeInv, Calm, NEW e \in Emitter, Insert(e)
    PROVE  /\ Calm' /\ Base' = Base /\ Len(table') = Len(table) + 1
           /\ DOMAIN table' = DOMAIN table \cup {Len(table')}
           /\ Len(table') \notin DOMAIN table
           /\ \A id \in DOMAIN table : table[id] < table'[Len(table')]
<1>1. /\ sent' = sent /\ emitter[e].at = "stamped"
      /\ table \in Seq(Nat) /\ emitter[e].created \in Nat
      /\ table' = Append(table, emitter[e].created)
      /\ emitter' = [emitter EXCEPT ![e].at = "inserted", ![e].id = Len(table')]
  BY DEF TypeInv, Types, EmitterState, Insert
<1>2. /\ Len(table') = Len(table) + 1 /\ Len(table) \in Nat
      /\ DOMAIN table' = DOMAIN table \cup {Len(table')} /\ Len(table') \notin DOMAIN table
      /\ \A id \in DOMAIN table : table'[id] = table[id]
      /\ table'[Len(table')] = emitter[e].created
  BY <1>1
<1>3. \A f \in Emitter : f # e => emitter[f].at = "idle" /\ emitter'[f] = emitter[f]
  BY <1>1 DEF Calm, TypeInv, Types
<1>4. emitter'[e].at = "inserted" /\ emitter'[e].id = Len(table')
  BY <1>1 DEF TypeInv, Types, EmitterState
<1>5. Pending = 0 /\ Pending' = 1
  BY <1>1, <1>3, <1>4 DEF Pending
<1>6. Base' = Base
  <2>1. Len(sent) \in Nat
    BY DEF TypeInv, Types
  <2> QED
    BY <1>1, <1>2, <1>5, <2>1 DEF Base
<1>7. \A id \in DOMAIN table : table[id] < emitter[e].created
  BY <1>1 DEF Calm
<1>8. \A i, j \in DOMAIN table' : i < j => table'[i] < table'[j]
  <2> SUFFICES ASSUME NEW i \in DOMAIN table', NEW j \in DOMAIN table', i < j
               PROVE  table'[i] < table'[j]
    OBVIOUS
  <2>1. DOMAIN table = 1 .. Len(table)
    BY <1>1
  <2>2. i \in DOMAIN table
    BY <1>2, <2>1
  <2>3. CASE j \in DOMAIN table
    BY <1>2, <2>2, <2>3 DEF Calm
  <2>4. CASE j = Len(table')
    BY <1>2, <1>7, <2>2, <2>4
  <2> QED
    BY <1>2, <2>3, <2>4
<1>9. Calm'
  BY <1>1, <1>3, <1>4, <1>6, <1>8 DEF Calm
<1> QED
  BY <1>2, <1>6, <1>7, <1>9

\* So does one that fails: nobody else was half way.
LEMMA InsertFailsCalm ==
    ASSUME TypeInv, Calm, NEW e \in Emitter, InsertFails(e)
    PROVE  Calm' /\ Base' = Base
<1>1. /\ sent' = sent /\ table' = table /\ emitter[e].at = "stamped"
      /\ emitter' = [emitter EXCEPT ![e].at = "idle"]
  BY DEF InsertFails
<1>2. \A f \in Emitter : emitter'[f].at = "idle" /\ (f # e => emitter[f].at = "idle")
  BY <1>1 DEF Calm, TypeInv, Types, EmitterState
<1>3. Pending = 0 /\ Pending' = 0
  BY <1>1, <1>2 DEF Pending
<1>4. Base' = Base
  BY <1>1, <1>3 DEF Base
<1> QED
  BY <1>1, <1>2, <1>4 DEF Calm

\* So does the broadcast: the event is the newest of the table.
LEMMA NotifyCalm ==
    ASSUME TypeInv, Calm, NEW e \in Emitter, Notify(e)
    PROVE  Calm' /\ Base' = Base
<1>1. /\ table' = table /\ emitter[e].at = "inserted" /\ emitter[e].id = Len(table)
      /\ emitter' = [emitter EXCEPT ![e].at = "idle"]
      /\ sent \in Seq(Nat) /\ sent' = Append(sent, Len(table)) /\ Len(table) \in Nat
  BY DEF Notify, Calm, TypeInv, Types
<1>2. \A f \in Emitter : emitter'[f].at = "idle" /\ (f # e => emitter[f].at = "idle")
  BY <1>1 DEF Calm, TypeInv, Types, EmitterState
<1>3. Pending = 1 /\ Pending' = 0
  BY <1>1, <1>2 DEF Pending
<1>4. /\ Len(sent') = Len(sent) + 1 /\ Len(sent) \in Nat
      /\ \A i \in DOMAIN sent : sent'[i] = sent[i]
      /\ sent'[Len(sent')] = Len(table) /\ DOMAIN sent' = DOMAIN sent \cup {Len(sent')}
  BY <1>1
<1>5. Base' = Base /\ Base' + Len(sent') = Len(table)
  BY <1>1, <1>3, <1>4 DEF Base
<1>6. \A i \in DOMAIN sent' : sent'[i] = Base' + i
  BY <1>4, <1>5 DEF Calm
<1> QED
  BY <1>1, <1>2, <1>5, <1>6 DEF Calm

\* What the clients have, and have lost, covers what it did.
LEMMA EmitCalmInv ==
    ASSUME StreamInv, NEW e \in Emitter, Emitting(e)
    PROVE  CalmInv'
<1> SUFFICES ASSUME ~disorder' PROVE Calm' /\ \A c \in Client : Covered(c)'
  BY DEF CalmInv
<1>1. ~disorder
  BY DEF Emitting, Stamp, Insert, InsertFails, Notify, StreamInv, TypeInv, Types
<1>2. TypeInv /\ Calm /\ \A c \in Client : Covered(c)
  BY <1>1 DEF StreamInv, CalmInv
<1>3. Calm' /\ Base' = Base
  BY <1>2, StampCalm, InsertCalm, InsertFailsCalm, NotifyCalm DEF Emitting
<1>4. /\ UNCHANGED <<conn, received, missed, cut>>
      /\ DOMAIN table \subseteq DOMAIN table'
      /\ \A id \in DOMAIN table : table'[id] = table[id]
  BY <1>2, TableGrows
<1>5. ASSUME NEW c \in Client PROVE Covered(c)'
  <2>1. Seen(c)' = Seen(c) /\ conn[c].todo \subseteq DOMAIN table
    BY <1>2, <1>4 DEF Seen, TypeInv, Fits
  <2>2. CASE ~Insert(e)
    <3>1. table' = table
      BY <2>2 DEF Emitting, Stamp, InsertFails, Notify
    <3> QED
      BY <1>2, <1>3, <1>4, <2>1, <3>1 DEF Covered
  <2>3. CASE Insert(e)
    <3> DEFINE new == Len(table) + 1
    <3>1. /\ DOMAIN table' = DOMAIN table \cup {new} /\ new \notin DOMAIN table
          /\ \A id \in DOMAIN table : table[id] < table'[new]
          /\ table'[new] \in Nat /\ table'[new] # 0 /\ Len(table) \in Nat
      <4>1. table'[new] = emitter[e].created /\ emitter[e].created \in Nat /\ emitter[e].created # 0
        BY <1>2, <2>3 DEF Insert, TypeInv, Types, EmitterState, Known
      <4>2. /\ Len(table') = new /\ DOMAIN table' = DOMAIN table \cup {Len(table')}
            /\ Len(table') \notin DOMAIN table
            /\ \A id \in DOMAIN table : table[id] < table'[Len(table')]
        BY <1>2, <2>3, InsertCalm
      <4>3. Len(table) \in Nat
        BY <1>2 DEF TypeInv, Types
      <4> HIDE DEF new
      <4> QED
        BY <4>1, <4>2, <4>3
    <3>2. conn[c].last < table'[new]
      <4>1. conn[c].last = 0 \/ \E id \in DOMAIN table : table[id] = conn[c].last
        BY <1>2 DEF Covered
      <4> QED
        BY <3>1, <4>1
    <3>3. Base + conn[c].pos < new
      <4>1. /\ conn[c].pos \in Nat /\ conn[c].pos <= Len(sent) /\ Len(sent) \in Nat
            /\ Pending \in {0, 1}
        BY <1>2 DEF TypeInv, Types, ClientState, Fits, Pending
      <4> QED
        BY <3>1, <4>1 DEF Base
    <3>4. conn'[c].last = 0 \/ \E id \in DOMAIN table' : table'[id] = conn'[c].last
      BY <1>2, <1>4 DEF Covered
    <3>5. ASSUME NEW id \in DOMAIN table', table'[id] <= conn[c].last PROVE id \in Seen(c)
      <4>1. conn[c].last \in Nat
        BY <1>2 DEF TypeInv, Types, ClientState
      <4>2. id \in DOMAIN table
        BY <3>1, <3>2, <3>5, <4>1
      <4> QED
        BY <1>2, <1>4, <3>5, <4>2 DEF Covered
    <3>6. ASSUME conn[c].at \in {"backfill", "live"},
                 NEW id \in DOMAIN table', id <= Base + conn[c].pos
          PROVE  id \in Seen(c) \cup conn[c].todo
      <4>1. id # new
        <5>1. conn[c].pos \in Nat /\ Len(sent) \in Nat /\ Pending \in {0, 1}
          BY <1>2 DEF TypeInv, Types, ClientState, Pending
        <5> QED
          BY <3>1, <3>3, <3>6, <5>1 DEF Base
      <4> QED
        BY <1>2, <3>1, <3>6, <4>1 DEF Covered
    <3>7. ASSUME NEW x \in conn[c].todo, NEW id \in DOMAIN table', table'[id] < table'[x]
          PROVE  id \in Seen(c) \cup conn[c].todo
      <4>1. x \in DOMAIN table /\ table'[x] = table[x] /\ table[x] \in Nat
        BY <1>2, <1>4, <2>1 DEF TypeInv, Types
      <4>2. id # new
        BY <3>1, <3>7, <4>1
      <4> QED
        BY <1>2, <1>4, <3>1, <3>7, <4>1, <4>2 DEF Covered
    <3> QED
      BY <1>3, <1>4, <2>1, <3>4, <3>5, <3>6, <3>7 DEF Covered
  <2> QED
    BY <2>2, <2>3
<1> QED
  BY <1>3, <1>5

-----------------------------------------------------------------------------
(* The clients' steps                                                      *)

\* A step of one client.
OfOne(c) ==
    /\ UNCHANGED <<clock, emitter, table, sent, disorder>> /\ Types'
    /\ \A d \in Client \ {c} : /\ conn'[d] = conn[d] /\ received'[d] = received[d]
                              /\ missed'[d] = missed[d] /\ cut'[d] = cut[d]

\* What has to be seen of it is about that client.
LEMMA ClientStep ==
    ASSUME StreamInv, NEW c \in Client, OfOne(c), Fits(c)', Ordered(c)',
           ~disorder /\ Calm /\ Covered(c) => Covered(c)'
    PROVE  StreamInv'
<1>1. TypeInv'
  <2>1. Room' /\ Known'
    BY DEF OfOne, StreamInv, TypeInv, Room, Busy, Known
  <2>2. ASSUME NEW d \in Client, d # c PROVE Fits(d)'
    BY <2>2 DEF OfOne, StreamInv, TypeInv, Fits
  <2> QED
    BY <2>1, <2>2 DEF OfOne, TypeInv
<1>2. ASSUME NEW d \in Client, d # c PROVE Ordered(d)'
  BY <1>2 DEF OfOne, StreamInv, Ordered
<1>3. CalmInv'
  <2> SUFFICES ASSUME ~disorder' PROVE Calm' /\ \A d \in Client : Covered(d)'
    BY DEF CalmInv
  <2>1. ~disorder /\ Calm /\ (\A d \in Client : Covered(d)) /\ Base' = Base
    BY DEF OfOne, StreamInv, CalmInv, Base, Pending
  <2>2. Calm'
    BY <2>1 DEF OfOne, Calm
  <2>3. ASSUME NEW d \in Client, d # c PROVE Covered(d)'
    BY <2>1, <2>3 DEF OfOne, Covered, Seen
  <2> QED
    BY <2>1, <2>2, <2>3
<1> QED
  BY <1>1, <1>2, <1>3 DEF StreamInv

\* A client subscribes.
LEMMA SubscribeStep == ASSUME StreamInv, NEW c \in Client, Subscribe(c) PROVE StreamInv'
<1>1. /\ UNCHANGED <<clock, emitter, table, sent, disorder, received, missed, cut>>
      /\ conn[c].at = "off"
      /\ conn' = [conn EXCEPT ![c].at = "subscribed", ![c].pos = Len(sent)]
      /\ conn[c] \in ClientState /\ Len(sent) \in Nat
  BY DEF Subscribe, history, StreamInv, TypeInv, Types
<1>2. /\ conn'[c].at = "subscribed" /\ conn'[c].pos = Len(sent)
      /\ conn'[c].last = conn[c].last /\ conn'[c].todo = conn[c].todo
      /\ \A d \in Client \ {c} : conn'[d] = conn[d]
      /\ conn' \in [Client -> ClientState]
  BY <1>1 DEF StreamInv, TypeInv, Types, ClientState
<1>3. OfOne(c)
  BY <1>1, <1>2 DEF OfOne, StreamInv, TypeInv, Types
<1>4. Fits(c)' /\ Ordered(c)'
  BY <1>1, <1>2 DEF StreamInv, TypeInv, Fits, Ordered
<1>5. Covered(c) => Covered(c)'
  BY <1>1, <1>2 DEF Covered, Seen
<1> QED
  BY <1>3, <1>4, <1>5, ClientStep

\* The connection breaks.
LEMMA DisconnectStep == ASSUME StreamInv, NEW c \in Client, Disconnect(c) PROVE StreamInv'
<1>1. /\ UNCHANGED <<clock, emitter, table, sent, disorder, received, missed, cut>>
      /\ conn' = [conn EXCEPT ![c] = Off(@)]
      /\ conn[c] \in ClientState /\ Len(sent) \in Nat
  BY DEF Disconnect, history, StreamInv, TypeInv, Types
<1>2. /\ conn'[c].at = "off" /\ conn'[c].pos = 0
      /\ conn'[c].last = conn[c].last /\ conn'[c].todo = {}
      /\ \A d \in Client \ {c} : conn'[d] = conn[d]
      /\ conn' \in [Client -> ClientState]
  BY <1>1 DEF StreamInv, TypeInv, Types, ClientState, Off
<1>3. OfOne(c)
  BY <1>1, <1>2 DEF OfOne, StreamInv, TypeInv, Types
<1>4. Fits(c)' /\ Ordered(c)'
  BY <1>1, <1>2 DEF StreamInv, TypeInv, Fits, Ordered
<1>5. Covered(c) => Covered(c)'
  BY <1>1, <1>2 DEF Covered, Seen
<1> QED
  BY <1>3, <1>4, <1>5, ClientStep

\* The backfill is read: what is newer than the cursor is in hand or left out.
LEMMA BackfillStep ==
    ASSUME StreamInv, NEW c \in Client, Backfill(c) \/ BackfillFails(c)
    PROVE  StreamInv'
<1> PICK read \in SUBSET Newer(conn[c].last) :
        /\ conn' = [conn EXCEPT ![c].at = "backfill", ![c].todo = read]
        /\ cut' = [cut EXCEPT ![c] = @ \cup (Newer(conn[c].last) \ read)]
  <2>1. CASE Backfill(c)
    <3>1. EventsAfter(conn[c].last) \subseteq Newer(conn[c].last)
      BY DEF EventsAfter
    <3> QED
      BY <2>1, <3>1 DEF Backfill
  <2>2. CASE BackfillFails(c)
    <3>1. {} \in SUBSET Newer(conn[c].last) /\ Newer(conn[c].last) = Newer(conn[c].last) \ {}
      OBVIOUS
    <3> QED
      BY <2>2, <3>1 DEF BackfillFails
  <2> QED
    BY <2>1, <2>2
<1> DEFINE new == Newer(conn[c].last)
<1>1. /\ UNCHANGED <<clock, emitter, table, sent, disorder, received, missed>>
      /\ conn[c] \in ClientState
      /\ new \subseteq DOMAIN table /\ DOMAIN table \subseteq Nat
      /\ \A id \in DOMAIN table : table[id] \in Nat /\ (id \in new <=> table[id] > conn[c].last)
  BY DEF Backfill, BackfillFails, StreamInv, TypeInv, Types, Newer
<1>2. /\ conn'[c].at = "backfill" /\ conn'[c].pos = conn[c].pos
      /\ conn'[c].last = conn[c].last /\ conn'[c].todo = read
      /\ \A d \in Client \ {c} : conn'[d] = conn[d]
      /\ conn' \in [Client -> ClientState]
  <2>1. read \subseteq Nat
    BY <1>1
  <2> QED
    BY <1>1, <2>1 DEF StreamInv, TypeInv, Types, ClientState
<1>3. /\ cut'[c] = cut[c] \cup (new \ read) /\ cut' \in [Client -> SUBSET Nat]
      /\ \A d \in Client \ {c} : cut'[d] = cut[d]
  BY <1>1 DEF StreamInv, TypeInv, Types
<1> HIDE DEF new
<1>4. OfOne(c)
  BY <1>1, <1>2, <1>3 DEF OfOne, StreamInv, TypeInv, Types
<1>5. Fits(c)'
  BY <1>1, <1>2, <1>3 DEF StreamInv, TypeInv, Fits, new
<1>6. Ordered(c)'
  <2>1. ASSUME NEW id \in read, NEW i \in DOMAIN received[c] PROVE received[c][i] # id
    BY <1>1, <2>1 DEF StreamInv, Ordered, new, TypeInv, Fits, Types, ClientState
  <2>2. \A id \in read : conn[c].last <= table[id]
    BY <1>1 DEF new, ClientState
  <2> QED
    BY <1>1, <1>2, <2>1, <2>2 DEF StreamInv, Ordered
<1>7. Covered(c) => Covered(c)'
  <2> SUFFICES ASSUME Covered(c) PROVE Covered(c)'
    OBVIOUS
  <2>1. Seen(c)' = Seen(c) \cup (new \ read)
    BY <1>1, <1>3 DEF Seen
  <2>2. \A id \in DOMAIN table : id \in Seen(c)' \cup read
    BY <1>1, <2>1 DEF Covered, ClientState
  <2> QED
    BY <1>1, <1>2, <2>1, <2>2 DEF Covered
<1> QED
  BY <1>4, <1>5, <1>6, <1>7, ClientStep

\* The backfill is sent, and the handler turns to the live stream.
LEMMA SendBackfillStep ==
    ASSUME StreamInv, NEW c \in Client, SendBackfill(c)
    PROVE  StreamInv'
<1>0. /\ UNCHANGED <<clock, emitter, table, sent, disorder, missed, cut>>
      /\ conn[c] \in ClientState /\ conn[c].at = "backfill"
  BY DEF SendBackfill, StreamInv, TypeInv, Types
<1>1. CASE conn[c].todo = {} /\ conn' = [conn EXCEPT ![c] = ToLive(@)] /\ UNCHANGED received
  <2>1. /\ conn'[c].at = "live" /\ conn'[c].pos = conn[c].pos
        /\ conn'[c].last = conn[c].last /\ conn'[c].todo = {}
        /\ \A d \in Client \ {c} : conn'[d] = conn[d]
        /\ conn' \in [Client -> ClientState]
    BY <1>0, <1>1 DEF StreamInv, TypeInv, Types, ClientState, ToLive
  <2>2. OfOne(c)
    BY <1>0, <1>1, <2>1 DEF OfOne, StreamInv, TypeInv, Types
  <2>3. Fits(c)' /\ Ordered(c)'
    BY <1>0, <1>1, <2>1 DEF StreamInv, TypeInv, Fits, Ordered
  <2>4. Covered(c) => Covered(c)'
    <3>1. Base' = Base
      BY <1>0 DEF Base, Pending
    <3> QED
      BY <1>0, <1>1, <2>1, <3>1 DEF Covered, Seen
  <2> QED
    BY <2>2, <2>3, <2>4, ClientStep
<1>2. ASSUME NEW id \in conn[c].todo, Comes(id, conn[c].todo),
             conn' = [conn EXCEPT ![c].todo = @ \ {id}, ![c].last = table[id]],
             received' = [received EXCEPT ![c] = Append(@, id)]
      PROVE  StreamInv'
  <2> DEFINE todo == conn[c].todo
  <2>0. /\ todo \subseteq DOMAIN table /\ id \in DOMAIN table /\ id \in Nat
        /\ table[id] \in Nat /\ table[id] <= clock /\ clock \in Nat
        /\ \A x \in DOMAIN table : table[x] \in Nat
        /\ received[c] \in Seq(Nat)
    <3>1. Types /\ Known /\ Fits(c)
      BY DEF StreamInv, TypeInv
    <3>2. todo \subseteq DOMAIN table /\ received[c] \in Seq(Nat) /\ clock \in Nat
      BY <3>1 DEF Types, Fits
    <3>3. id \in DOMAIN table /\ id \in Nat
      BY <1>2, <3>1, <3>2 DEF Types
    <3>4. \A x \in DOMAIN table : table[x] \in 1 .. clock
      BY <3>1 DEF Known
    <3> QED
      BY <3>2, <3>3, <3>4
  <2>1. /\ conn'[c].at = "backfill" /\ conn'[c].pos = conn[c].pos
        /\ conn'[c].last = table[id] /\ conn'[c].todo = todo \ {id}
        /\ \A d \in Client \ {c} : conn'[d] = conn[d]
        /\ conn' \in [Client -> ClientState]
    <3>1. conn \in [Client -> ClientState]
      BY DEF StreamInv, TypeInv, Types
    <3>2. conn[c].todo \subseteq Nat
      BY <1>0 DEF ClientState
    <3> HIDE DEF todo
    <3> QED
      BY <1>0, <1>2, <2>0, <3>1, <3>2 DEF ClientState, todo
  <2>2. /\ received'[c] = Append(received[c], id) /\ received' \in [Client -> Seq(Nat)]
        /\ \A d \in Client \ {c} : received'[d] = received[d]
        /\ DOMAIN received'[c] = DOMAIN received[c] \cup {Len(received[c]) + 1}
        /\ received'[c][Len(received[c]) + 1] = id
        /\ \A i \in DOMAIN received[c] : received'[c][i] = received[c][i] /\ i \in Nat /\ i <= Len(received[c])
        /\ Len(received[c]) \in Nat
    <3>1. received \in [Client -> Seq(Nat)]
      BY DEF StreamInv, TypeInv, Types
    <3>2. received'[c] = Append(received[c], id) /\ \A d \in Client \ {c} : received'[d] = received[d]
      BY <1>2, <3>1
    <3>3. received' \in [Client -> Seq(Nat)]
      BY <1>2, <2>0, <3>1
    <3>4. /\ DOMAIN Append(received[c], id) = DOMAIN received[c] \cup {Len(received[c]) + 1}
          /\ Append(received[c], id)[Len(received[c]) + 1] = id
          /\ \A i \in DOMAIN received[c] : Append(received[c], id)[i] = received[c][i]
          /\ DOMAIN received[c] = 1 .. Len(received[c]) /\ Len(received[c]) \in Nat
      BY <2>0
    <3>5. \A i \in DOMAIN received[c] : i \in Nat /\ i <= Len(received[c])
      BY <3>4
    <3> QED
      BY <3>2, <3>3, <3>4, <3>5, Zenon
  <2>3. OfOne(c)
    BY <1>0, <2>1, <2>2 DEF OfOne, StreamInv, TypeInv, Types
  <2>4. Fits(c)'
    <3>1. Fits(c)
      BY DEF StreamInv, TypeInv
    <3>2. conn'[c].last <= clock /\ conn'[c].pos <= Len(sent) /\ conn'[c].todo \subseteq DOMAIN table
      BY <2>0, <2>1, <3>1 DEF Fits
    <3>3. \A i \in DOMAIN received'[c] : received'[c][i] \in DOMAIN table
      BY <2>0, <2>2, <3>1 DEF Fits
    <3> QED
      BY <1>0, <3>1, <3>2, <3>3 DEF Fits
  <2>5. /\ conn[c].last <= table[id]
        /\ \A x \in todo \ {id} : table[id] <= table[x]
        /\ \A x \in todo : \A i \in DOMAIN received[c] : received[c][i] # x
        /\ \A i \in DOMAIN received[c] : table[received[c][i]] <= conn[c].last
        /\ \A i \in DOMAIN received[c] : received[c][i] \in DOMAIN table
    <3>1. \A x \in todo \ {id} : table[id] <= table[x]
      BY <1>2, <2>0 DEF Comes, Older
    <3>2. Ordered(c) /\ Fits(c)
      BY DEF StreamInv, TypeInv
    <3> QED
      BY <1>2, <3>1, <3>2 DEF Ordered, Fits
  <2> HIDE DEF todo
  <2>6. Ordered(c)'
    <3>1. \A i \in DOMAIN received'[c] : table[received'[c][i]] <= table[id]
      <4>1. conn[c].last \in Nat
        BY <1>0 DEF ClientState
      <4>2. ASSUME NEW i \in DOMAIN received[c] PROVE table[received[c][i]] <= table[id]
        <5>1. table[received[c][i]] \in Nat /\ table[received[c][i]] <= conn[c].last
          BY <2>0, <2>5
        <5> QED
          BY <2>0, <2>5, <4>1, <5>1
      <4>3. table[id] <= table[id]
        BY <2>0
      <4> QED
        BY <2>2, <4>2, <4>3
    <3>2. ASSUME NEW i \in DOMAIN received'[c], NEW j \in DOMAIN received'[c], i < j
          PROVE  received'[c][i] # received'[c][j] /\ table[received'[c][i]] <= table[received'[c][j]]
      <4>1. i \in DOMAIN received[c]
        BY <2>2, <3>2
      <4>2. CASE j \in DOMAIN received[c]
        BY <2>2, <3>2, <4>1, <4>2 DEF StreamInv, Ordered
      <4>3. CASE j = Len(received[c]) + 1
        <5>1. id \in todo
          BY <1>2 DEF todo
        <5> QED
          BY <2>2, <2>5, <3>1, <4>1, <4>3, <5>1
      <4> QED
        BY <2>2, <4>2, <4>3
    <3>3. \A x \in todo \ {id} : \A i \in DOMAIN received'[c] : received'[c][i] # x
      BY <2>2, <2>5
    <3> QED
      BY <1>0, <2>1, <2>5, <3>1, <3>2, <3>3 DEF Ordered
  <2>7. ~disorder /\ Calm /\ Covered(c) => Covered(c)'
    <3> SUFFICES ASSUME Calm, Covered(c) PROVE Covered(c)'
      OBVIOUS
    <3>1. Base' = Base
      BY <1>0 DEF Base, Pending
    <3>2. Seen(c)' = Seen(c) \cup {id}
      BY <1>0, <2>2 DEF Seen, ToSet
    <3>3. Seen(c)' \cup (todo \ {id}) = Seen(c) \cup todo
      BY <1>2, <3>2 DEF todo
    <3>4. ASSUME NEW y \in DOMAIN table, table[y] <= table[id] PROVE y \in Seen(c)'
      <4>1. CASE y = id
        BY <3>2, <4>1
      <4>2. CASE y # id
        <5>1. DOMAIN table \subseteq Nat
          BY DEF StreamInv, TypeInv, Types
        <5>2. table[y] < table[id]
          BY <2>0, <3>4, <4>2, <5>1 DEF Calm
        <5>3. y \in Seen(c) \cup todo
          BY <1>2, <5>2 DEF Covered, todo
        <5>4. y \notin todo
          BY <2>0, <2>5, <4>2, <5>2
        <5> QED
          BY <3>2, <5>3, <5>4
      <4> QED
        BY <4>1, <4>2
    <3>5. \A y \in DOMAIN table : y <= Base + conn[c].pos => y \in Seen(c) \cup todo
      BY <1>0 DEF Covered, todo
    <3>6. \A x \in todo : \A y \in DOMAIN table : table[y] < table[x] => y \in Seen(c) \cup todo
      BY DEF Covered, todo
    <3> QED
      BY <1>0, <2>0, <2>1, <3>1, <3>3, <3>4, <3>5, <3>6 DEF Covered
  <2> QED
    BY <2>3, <2>4, <2>6, <2>7, ClientStep
<1> QED
  BY <1>1, <1>2 DEF SendBackfill

\* The receiver fell behind: it moves on to the oldest event that is kept.
LEMMA LagStep == ASSUME StreamInv, NEW c \in Client, Lag(c) PROVE StreamInv'
<1> DEFINE oldest == Len(sent) - Capacity
           lost == {sent[i] : i \in conn[c].pos + 1 .. oldest}
<1>1. /\ UNCHANGED <<clock, emitter, table, sent, disorder, received, cut>>
      /\ conn' = [conn EXCEPT ![c].pos = oldest]
      /\ missed' = [missed EXCEPT ![c] = @ \cup lost]
      /\ conn[c] \in ClientState /\ conn[c].at = "live" /\ Len(sent) \in Nat
      /\ oldest \in Int /\ oldest <= Len(sent) /\ conn[c].pos < oldest
  <2>1. Lag(c) /\ conn[c] \in ClientState /\ Len(sent) \in Nat
    BY DEF StreamInv, TypeInv, Types
  <2>2. conn[c].pos \in Nat /\ Len(sent) - conn[c].pos > Capacity /\ Capacity \in Nat
    BY <2>1, StreamAssumption DEF Lag, Behind, ClientState
  <2>3. oldest \in Int /\ oldest <= Len(sent) /\ conn[c].pos < oldest
    BY <2>1, <2>2
  <2> HIDE DEF oldest
  <2> QED
    BY <2>1, <2>3 DEF Lag, oldest
<1>2. conn[c].pos \in Nat /\ oldest \in Nat
  BY <1>1 DEF ClientState
<1> HIDE DEF oldest
<1>3. /\ conn'[c].at = "live" /\ conn'[c].pos = oldest
      /\ conn'[c].last = conn[c].last /\ conn'[c].todo = conn[c].todo
      /\ \A d \in Client \ {c} : conn'[d] = conn[d]
      /\ conn' \in [Client -> ClientState]
  BY <1>1, <1>2 DEF StreamInv, TypeInv, Types, ClientState
<1>4. \A i \in conn[c].pos + 1 .. oldest : i \in DOMAIN sent
  BY <1>1, <1>2 DEF StreamInv, TypeInv, Types
<1>5. lost \subseteq DOMAIN table /\ lost \subseteq Nat
  BY <1>4 DEF StreamInv, TypeInv, Types, Known
<1>6. /\ missed'[c] = missed[c] \cup lost /\ missed' \in [Client -> SUBSET Nat]
      /\ \A d \in Client \ {c} : missed'[d] = missed[d]
  BY <1>1, <1>5 DEF StreamInv, TypeInv, Types
<1>7. OfOne(c)
  BY <1>1, <1>3, <1>6 DEF OfOne, StreamInv, TypeInv, Types
<1>8. Fits(c)' /\ Ordered(c)'
  BY <1>1, <1>3, <1>5, <1>6 DEF StreamInv, TypeInv, Fits, Ordered
<1>9. ~disorder /\ Calm /\ Covered(c) => Covered(c)'
  <2> SUFFICES ASSUME Calm, Covered(c) PROVE Covered(c)'
    OBVIOUS
  <2>1. Base' = Base /\ Base \in Int
    BY <1>1 DEF Base, Pending, StreamInv, TypeInv, Types
  <2>2. Seen(c)' = Seen(c) \cup lost
    BY <1>1, <1>6 DEF Seen
  <2>3. ASSUME NEW id \in DOMAIN table, id <= Base + oldest PROVE id \in Seen(c)' \cup conn[c].todo
    <3>1. CASE id <= Base + conn[c].pos
      BY <1>1, <2>2, <3>1 DEF Covered
    <3>2. CASE id > Base + conn[c].pos
      <4>1. id \in Int
        BY DEF StreamInv, TypeInv, Types
      <4>2. id - Base \in conn[c].pos + 1 .. oldest
        BY <1>2, <2>1, <2>3, <3>2, <4>1
      <4>3. sent[id - Base] = Base + (id - Base)
        BY <1>4, <4>2 DEF Calm
      <4>4. Base + (id - Base) = id
        BY <2>1, <4>1
      <4> QED
        BY <2>2, <4>2, <4>3, <4>4
    <3> QED
      <4>1. id \in Int
        BY DEF StreamInv, TypeInv, Types
      <4> QED
        BY <1>2, <2>1, <3>1, <3>2, <4>1
  <2> QED
    BY <1>1, <1>3, <2>1, <2>2, <2>3 DEF Covered
<1> QED
  BY <1>7, <1>8, <1>9, ClientStep

\* What is next is all there is to add.
LEMMA UpToNext ==
    \A x \in Nat, b \in Int, p \in Nat : x <= b + (p + 1) => x <= b + p \/ x = b + (p + 1)
OBVIOUS

\* An event is taken from the channel.
LEMMA ReceiveStep == ASSUME StreamInv, NEW c \in Client, Receive(c) PROVE StreamInv'
<1> DEFINE next == conn[c].pos + 1
           id == sent[next]
<1>1. /\ UNCHANGED <<clock, emitter, table, sent, disorder, missed, cut>>
      /\ conn[c] \in ClientState /\ conn[c].at = "live" /\ conn[c].todo = {}
      /\ Len(sent) - conn[c].pos \in 1 .. Capacity
  BY DEF Receive, Behind, StreamInv, TypeInv, Types, Ordered
<1>2. /\ next \in DOMAIN sent /\ next \in Nat /\ next <= Len(sent) /\ conn[c].last \in Nat
      /\ conn[c].pos \in Nat
  BY <1>1 DEF StreamInv, TypeInv, Types, ClientState
<1>3. /\ id \in DOMAIN table /\ id \in Nat /\ table[id] \in Nat /\ table[id] <= clock
      /\ \A x \in DOMAIN table : table[x] \in Nat /\ x \in Nat
      /\ received[c] \in Seq(Nat)
  <2>1. /\ \A x \in DOMAIN table : table[x] \in Nat /\ x \in Nat /\ table[x] <= clock
        /\ received[c] \in Seq(Nat)
    BY DEF StreamInv, TypeInv, Types, Known
  <2>2. id \in DOMAIN table
    BY <1>2 DEF StreamInv, TypeInv, Known
  <2> HIDE DEF id
  <2> QED
    BY <2>1, <2>2
<1>4. CASE table[id] <= conn[c].last
  <2>1. conn' = [conn EXCEPT ![c].pos = @ + 1] /\ received' = received
    BY <1>4 DEF Receive, Duplicate
  <2>2. /\ conn'[c].at = "live" /\ conn'[c].pos = next
        /\ conn'[c].last = conn[c].last /\ conn'[c].todo = {}
        /\ \A d \in Client \ {c} : conn'[d] = conn[d]
        /\ conn' \in [Client -> ClientState]
    BY <1>1, <1>2, <2>1 DEF StreamInv, TypeInv, Types, ClientState
  <2>3. OfOne(c)
    BY <1>1, <2>1, <2>2 DEF OfOne, StreamInv, TypeInv, Types
  <2>4. Fits(c)' /\ Ordered(c)'
    BY <1>1, <1>2, <2>1, <2>2 DEF StreamInv, TypeInv, Fits, Ordered
  <2>5. ~disorder /\ Calm /\ Covered(c) => Covered(c)'
    <3> SUFFICES ASSUME Calm, Covered(c) PROVE Covered(c)'
      OBVIOUS
    <3>1. Base' = Base /\ Base \in Int /\ Seen(c)' = Seen(c)
      BY <1>1, <2>1 DEF Base, Pending, Seen, StreamInv, TypeInv, Types
    <3>2. ASSUME NEW x \in DOMAIN table, x <= Base + next PROVE x \in Seen(c)
      <4>1. CASE x <= Base + conn[c].pos
        BY <1>1, <4>1 DEF Covered
      <4>2. CASE x = Base + next
        <5>1. x = id
          BY <1>2, <4>2 DEF Calm
        <5> QED
          BY <1>4, <5>1 DEF Covered
      <4>3. x \in Nat
        BY <1>3
      <4>4. x <= Base + conn[c].pos \/ x = Base + next
        BY <1>2, <3>1, <3>2, <4>3, UpToNext
      <4> QED
        BY <4>1, <4>2, <4>4
    <3> QED
      BY <1>1, <2>2, <3>1, <3>2 DEF Covered
  <2> QED
    BY <2>3, <2>4, <2>5, ClientStep
<1>5. CASE ~(table[id] <= conn[c].last)
  <2>0. /\ conn' = [conn EXCEPT ![c].pos = @ + 1, ![c].last = table[id]]
        /\ received' = [received EXCEPT ![c] = Append(@, id)]
    BY <1>5 DEF Receive, Duplicate
  <2>1. /\ conn'[c].at = "live" /\ conn'[c].pos = next
        /\ conn'[c].last = table[id] /\ conn'[c].todo = {}
        /\ \A d \in Client \ {c} : conn'[d] = conn[d]
        /\ conn' \in [Client -> ClientState]
    BY <1>1, <1>2, <1>3, <2>0 DEF StreamInv, TypeInv, Types, ClientState
  <2> HIDE DEF id, next
  <2>2. /\ received'[c] = Append(received[c], id) /\ received' \in [Client -> Seq(Nat)]
        /\ \A d \in Client \ {c} : received'[d] = received[d]
        /\ DOMAIN received'[c] = DOMAIN received[c] \cup {Len(received[c]) + 1}
        /\ received'[c][Len(received[c]) + 1] = id
        /\ \A i \in DOMAIN received[c] : received'[c][i] = received[c][i] /\ i \in Nat /\ i <= Len(received[c])
        /\ Len(received[c]) \in Nat
    BY <1>3, <2>0 DEF StreamInv, TypeInv, Types
  <2>3. OfOne(c)
    BY <1>1, <2>1, <2>2 DEF OfOne, StreamInv, TypeInv, Types
  <2>4. Fits(c)'
    BY <1>1, <1>2, <1>3, <2>1, <2>2 DEF StreamInv, TypeInv, Fits
  <2>5. \A i \in DOMAIN received[c] : table[received[c][i]] < table[id]
    <3> TAKE i \in DOMAIN received[c]
    <3>1. table[received[c][i]] <= conn[c].last /\ received[c][i] \in DOMAIN table
      BY DEF StreamInv, TypeInv, Fits, Ordered
    <3> QED
      BY <1>2, <1>3, <1>5, <3>1
  <2>6. Ordered(c)'
    <3>1. \A i \in DOMAIN received'[c] : table[received'[c][i]] <= table[id]
      <4>1. ASSUME NEW i \in DOMAIN received[c] PROVE table[received[c][i]] <= table[id]
        <5>1. table[received[c][i]] \in Nat
          BY <1>3 DEF StreamInv, TypeInv, Fits
        <5> QED
          BY <1>3, <2>5, <5>1
      <4>2. table[id] <= table[id]
        BY <1>3
      <4> QED
        BY <2>2, <4>1, <4>2
    <3>2. ASSUME NEW i \in DOMAIN received'[c], NEW j \in DOMAIN received'[c], i < j
          PROVE  received'[c][i] # received'[c][j] /\ table[received'[c][i]] <= table[received'[c][j]]
      <4>1. i \in DOMAIN received[c]
        BY <2>2, <3>2
      <4>2. CASE j \in DOMAIN received[c]
        BY <2>2, <3>2, <4>1, <4>2 DEF StreamInv, Ordered
      <4>3. CASE j = Len(received[c]) + 1
        <5>1. table[received[c][i]] < table[id] /\ received'[c][i] = received[c][i] /\ received'[c][j] = id
          BY <2>2, <2>5, <4>1, <4>3
        <5>2. received[c][i] # id
          BY <1>3, <5>1
        <5> QED
          BY <3>1, <5>1, <5>2
      <4> QED
        BY <2>2, <4>2, <4>3
    <3> QED
      BY <1>1, <2>1, <3>1, <3>2 DEF Ordered
  <2>7. ~disorder /\ Calm /\ Covered(c) => Covered(c)'
    <3> SUFFICES ASSUME Calm, Covered(c) PROVE Covered(c)'
      OBVIOUS
    <3>1. Base' = Base /\ Base \in Int
      BY <1>1 DEF Base, Pending, StreamInv, TypeInv, Types
    <3>2. Seen(c)' = Seen(c) \cup {id}
      BY <1>1, <2>2 DEF Seen, ToSet
    <3>3. id = Base + next
      BY <1>2 DEF Calm, id
    <3>4. ASSUME NEW x \in DOMAIN table, x <= Base + next PROVE x \in Seen(c)'
      <4>1. CASE x <= Base + conn[c].pos
        BY <1>1, <3>2, <4>1 DEF Covered
      <4>2. CASE x = Base + next
        BY <3>2, <3>3, <4>2
      <4>3. x \in Nat
        BY <1>3
      <4>4. x <= Base + conn[c].pos \/ x = Base + next
        BY <1>2, <3>1, <3>4, <4>3, UpToNext DEF next
      <4> QED
        BY <4>1, <4>2, <4>4
    <3>5. ASSUME NEW x \in DOMAIN table, table[x] <= table[id] PROVE x \in Seen(c)'
      <4>1. x <= id
        <5>1. x > id => table[id] < table[x]
          BY <1>3 DEF Calm
        <5> QED
          BY <1>3, <3>5, <5>1
      <4> QED
        BY <3>3, <3>4, <4>1
    <3> QED
      BY <1>1, <1>3, <2>1, <3>1, <3>4, <3>5 DEF Covered
  <2> QED
    BY <2>3, <2>4, <2>6, <2>7, ClientStep
<1> QED
  BY <1>4, <1>5

\* The process ends; the table stays, and each client keeps its cursor.
LEMMA RestartStep == ASSUME StreamInv, Restart PROVE StreamInv'
<1>1. /\ UNCHANGED <<clock, table, disorder, received, missed, cut>> /\ sent' = <<>>
      /\ emitter' = [e \in Emitter |-> [Resting EXCEPT !.created = clock]]
      /\ conn' = [c \in Client |-> Off(conn[c])]
      /\ conn \in [Client -> ClientState] /\ clock \in Nat /\ Len(table) \in Nat
  BY DEF Restart, history, StreamInv, TypeInv, Types
<1>2. \A e \in Emitter : emitter'[e] = [at |-> "idle", created |-> clock, id |-> 0]
  BY <1>1 DEF Resting
<1>3. \A c \in Client : conn'[c] = [at |-> "off", last |-> conn[c].last, pos |-> 0, todo |-> {}]
  BY <1>1 DEF ClientState, Off
<1>4. Types'
  <2>1. emitter' \in [Emitter -> EmitterState]
    BY <1>1, <1>2 DEF EmitterState
  <2>2. \A c \in Client : conn[c].last \in Nat
    BY <1>1 DEF ClientState
  <2>3. conn' \in [Client -> ClientState]
    BY <1>1, <1>3, <2>2 DEF ClientState
  <2>4. <<>> \in Seq(Nat)
    OBVIOUS
  <2> QED
    BY <1>1, <2>1, <2>3, <2>4 DEF StreamInv, TypeInv, Types
<1>5. Room'
  <2>1. Busy' = {}
    BY <1>2 DEF Busy
  <2>2. Len(table) <= MaxEvents
    BY <1>1, FS_CardinalityType, StreamAssumption DEF StreamInv, TypeInv, Room
  <2> QED
    BY <1>1, <2>1, <2>2, FS_EmptySet, StreamAssumption DEF Room
<1>6. Known'
  BY <1>1, <1>2 DEF StreamInv, TypeInv, Known
<1>7. ASSUME NEW c \in Client PROVE Fits(c)' /\ Ordered(c)' /\ (Covered(c) => Covered(c)')
  <2>1. Fits(c)'
    BY <1>1, <1>3 DEF StreamInv, TypeInv, Fits
  <2>2. Ordered(c)'
    BY <1>1, <1>3 DEF StreamInv, Ordered
  <2>3. Covered(c) => Covered(c)'
    BY <1>1, <1>3 DEF Covered, Seen
  <2> QED
    BY <2>1, <2>2, <2>3
<1>8. Calm => Calm'
  <2>1. Base' = Len(table)
    BY <1>1, <1>2 DEF Base, Pending
  <2> QED
    BY <1>1, <1>2, <2>1 DEF Calm
<1> QED
  BY <1>1, <1>4, <1>5, <1>6, <1>7, <1>8 DEF StreamInv, TypeInv, CalmInv

-----------------------------------------------------------------------------
(* The theorems                                                            *)

\* Every step keeps the invariant.
LEMMA EventsNextInv == StreamInv /\ [EventsNext]_eventsVars => StreamInv'
<1> SUFFICES ASSUME StreamInv, [EventsNext]_eventsVars PROVE StreamInv'
  OBVIOUS
<1>1. ASSUME NEW e \in Emitter, Stamp(e) \/ EmitStep(e) PROVE StreamInv'
  <2>1. Emitting(e) /\ TypeInv
    BY <1>1 DEF EmitStep, Emitting, StreamInv
  <2>2. TypeInv'
    BY <2>1, StampTypes, InsertTypes, InsertFailsTypes, NotifyTypes DEF Emitting
  <2>3. \A c \in Client : Ordered(c)'
    BY <2>1, EmitOrdered DEF StreamInv
  <2>4. CalmInv'
    BY <2>1, EmitCalmInv
  <2> QED
    BY <2>2, <2>3, <2>4 DEF StreamInv
<1>2. ASSUME NEW c \in Client, Handle(c) \/ Disconnect(c) PROVE StreamInv'
  BY <1>2, SubscribeStep, BackfillStep, SendBackfillStep, LagStep, ReceiveStep, DisconnectStep
     DEF Handle
<1>3. CASE UNCHANGED eventsVars
  <2>1. Room' /\ Known' /\ Types'
    BY <1>3 DEF eventsVars, StreamInv, TypeInv, Types, Room, Busy, Known
  <2>2. \A c \in Client : Fits(c)' /\ Ordered(c)' /\ (Covered(c) => Covered(c)')
    BY <1>3 DEF eventsVars, StreamInv, TypeInv, Fits, Ordered, Covered, Seen, Base, Pending
  <2>3. (Calm => Calm') /\ disorder' = disorder
    BY <1>3 DEF eventsVars, Calm, Base, Pending
  <2> QED
    BY <2>1, <2>2, <2>3 DEF StreamInv, TypeInv, CalmInv
<1> QED
  BY <1>1, <1>2, <1>3, RestartStep DEF EventsNext

\* A sequence is one of what its elements are.
LEMMA ElementsInSeq ==
    ASSUME NEW S, NEW T, NEW s \in Seq(S), \A i \in 1 .. Len(s) : s[i] \in T
    PROVE  s \in Seq(T)
OBVIOUS

\* What the invariant says of the types is TypeOK.
LEMMA TypeInvImplies == TypeInv => EventsTypeOK
<1> SUFFICES ASSUME TypeInv PROVE EventsTypeOK
  OBVIOUS
<1>1. clock \in 0 .. MaxEvents /\ table \in Seq(1 .. clock) /\ Len(table) <= MaxEvents
  <2>1. Len(table) <= MaxEvents
    <3>1. Cardinality(Busy) \in Nat /\ Len(table) \in Nat
      BY FS_CardinalityType DEF TypeInv, Room, Types
    <3> QED
      BY <3>1, StreamAssumption DEF TypeInv, Room
  <2>2. table \in Seq(Nat) /\ \A id \in 1 .. Len(table) : table[id] \in 1 .. clock
    BY DEF TypeInv, Types, Known
  <2>3. table \in Seq(1 .. clock)
    <3> DEFINE T == 1 .. clock
    <3>1. \A id \in 1 .. Len(table) : table[id] \in T
      BY <2>2
    <3> HIDE DEF T
    <3>2. table \in Seq(T)
      BY <2>2, <3>1, ElementsInSeq
    <3> QED
      BY <3>2 DEF T
  <2> QED
    BY <2>1, <2>3, StreamAssumption DEF TypeInv, Types
<1>2. sent \in Seq(DOMAIN table)
  <2>1. sent \in Seq(Nat) /\ \A i \in 1 .. Len(sent) : sent[i] \in DOMAIN table
    BY DEF TypeInv, Types, Known
  <2> QED
    BY <2>1
<1>3. ASSUME NEW e \in Emitter
      PROVE  emitter[e] \in [at : {"idle", "stamped", "inserted"}, created : 0 .. clock,
                              id : {0} \cup DOMAIN table]
  <2>1. emitter[e] \in EmitterState /\ emitter[e].created \in 0 .. clock
    BY DEF TypeInv, Types, Known, EmitterState
  <2>2. emitter[e].id \in {0} \cup DOMAIN table
    BY DEF TypeInv, Known
  <2> QED
    BY <2>1, <2>2 DEF EmitterState
<1>4. ASSUME NEW c \in Client
      PROVE  /\ conn[c].at \in {"off", "subscribed", "backfill", "live"}
             /\ conn[c].last \in 0 .. clock /\ conn[c].pos \in 0 .. Len(sent)
             /\ conn[c].todo \subseteq DOMAIN table
             /\ received[c] \in Seq(DOMAIN table)
             /\ missed[c] \subseteq DOMAIN table /\ cut[c] \subseteq DOMAIN table
  <2>1. conn[c] \in ClientState /\ Fits(c) /\ clock \in Nat /\ Len(sent) \in Nat
    BY DEF TypeInv, Types
  <2>2. received[c] \in Seq(DOMAIN table)
    <3>1. received[c] \in Seq(Nat) /\ \A i \in 1 .. Len(received[c]) : received[c][i] \in DOMAIN table
      BY <2>1 DEF TypeInv, Types, Fits
    <3> QED
      BY <3>1
  <2> QED
    BY <2>1, <2>2 DEF ClientState, Fits
<1>5. disorder \in BOOLEAN
  BY DEF TypeInv, Types
<1> QED
  BY <1>1, <1>2, <1>3, <1>4, <1>5 DEF EventsTypeOK

\* The invariant holds throughout.
THEOREM StreamInvariant == EventsSpec => []StreamInv
  BY EventsInitInv, EventsNextInv, PTL DEF EventsSpec

\* A client gets no event twice and none older than the one before.
THEOREM EventsOnceInOrder == EventsSpec => []OnceInOrder
<1>1. StreamInv => OnceInOrder
  BY TypeInvImplies DEF StreamInv, Ordered, OnceInOrder
<1> QED
  BY <1>1, StreamInvariant, PTL

\* A client has all events up to its cursor, but for those that it names lost.
THEOREM CursorsAreTruthful == EventsSpec => []CursorTruthful
<1>1. StreamInv => CursorTruthful
  BY DEF StreamInv, CalmInv, Covered, Seen, CursorTruthful
<1> QED
  BY <1>1, StreamInvariant, PTL

-----------------------------------------------------------------------------
(* /logs                                                                   *)

AnyLine == [kind : {"start", "data", "blank", "end"}, step : Nat, from : Nat]

\* The parts of the type invariant the argument needs.
LogTypes ==
    /\ lines \in Seq(AnyLine) /\ half \in BOOLEAN /\ (half => lines # <<>>)
    /\ step \in Nat /\ thread \in Nat /\ running \in Nat /\ given \in Nat /\ behind \subseteq Nat

\* Nothing is written before the log file is created.
Fresh == task \in {"new", "pending", "log"} => lines = <<>> /\ thread = 0

\* Unless something else made the row final or left a thread, a thread copies
\* for a task that waits for it, and a final row means that nobody writes.
Quiet ==
    ~foreign => /\ thread # 0 => task = "step"
                /\ Finished => task = "done" /\ thread = 0 /\ ~half

\* The handler's position is what it has sent, and lies in the file.
Position ==
    /\ offset \in Nat /\ offset <= Size
    /\ got = [i \in 1 .. offset |-> i]

\* The file is read to its end after the row was seen final.
Ending ==
    ~foreign => /\ at \in {"last", "whole", "closed"} => Finished
                /\ at = "closed" => offset = Size

LogInv == LogTypes /\ Fresh /\ Quiet /\ Position /\ Ending

-----------------------------------------------------------------------------
(* Sequences                                                               *)

\* Counting on from n gives what counting from the start gives.
LEMMA CountOn ==
    ASSUME NEW n \in Nat, NEW m \in Nat, n <= m
    PROVE  [i \in 1 .. n |-> i] \o [i \in 1 .. m - n |-> n + i] = [i \in 1 .. m |-> i]
<1> DEFINE s == [i \in 1 .. n |-> i]
           t == [i \in 1 .. m - n |-> n + i]
           u == [i \in 1 .. m |-> i]
<1>1. s \in Seq(Nat) /\ Len(s) = n /\ \A i \in 1 .. n : s[i] = i
  OBVIOUS
<1>2. t \in Seq(Nat) /\ Len(t) = m - n /\ \A i \in 1 .. m - n : t[i] = n + i
  OBVIOUS
<1>3. u \in Seq(Nat) /\ Len(u) = m /\ \A i \in 1 .. m : u[i] = i
  OBVIOUS
<1> HIDE DEF s, t, u
<1>4. s \o t \in Seq(Nat) /\ Len(s \o t) = m
  <2>1. s \o t \in Seq(Nat) /\ Len(s \o t) = Len(s) + Len(t)
    BY <1>1, <1>2, ConcatProperties
  <2>2. n + (m - n) = m
    OBVIOUS
  <2> QED
    BY <1>1, <1>2, <2>1, <2>2
<1>5. ASSUME NEW i \in 1 .. m PROVE (s \o t)[i] = u[i]
  <2>1. (s \o t)[i] = IF i <= Len(s) THEN s[i] ELSE t[i - Len(s)]
    BY <1>1, <1>2, ConcatProperties
  <2>2. i > n => i - n \in 1 .. m - n /\ n + (i - n) = i
    OBVIOUS
  <2> QED
    BY <1>1, <1>2, <1>3, <2>1, <2>2
<1>6. s \o t = u
  BY <1>3, <1>4, <1>5, SeqEqual
<1> QED
  BY <1>6 DEF s, t, u

\* The next line to send ends behind the handler and within the file.
LEMMA LineEndBounds ==
    ASSUME LogTypes, offset \in Nat, offset < Size
    PROVE  LineEnd \in Nat /\ offset < LineEnd /\ LineEnd <= Size
<1> DEFINE e == (offset \div 2 + 1) * 2
<1>1. e \in Nat /\ offset < e
  OBVIOUS
<1>2. Size \in Int
  BY DEF Size, LogTypes
<1> HIDE DEF e
<1>3. Min({e, Size}) \in {e, Size} /\ Min({e, Size}) <= Size
  BY <1>1, <1>2 DEF Min
<1> QED
  BY <1>1, <1>2, <1>3 DEF LineEnd, e

\* A line that is begun makes the file one chunk longer.
LEMMA PutGrows ==
    ASSUME LogTypes, NEW k \in {"start", "data", "blank", "end"}, NEW s \in Nat, NEW f \in Nat,
           Put(k, s, f)
    PROVE  lines' \in Seq(AnyLine) /\ half' /\ lines' # <<>> /\ Size' = Size + 1
<1> DEFINE l == [kind |-> k, step |-> s, from |-> f]
<1>1. l \in AnyLine /\ lines' = Append(lines, l)
  BY DEF Put, AnyLine
<1> HIDE DEF l
<1>2. lines' \in Seq(AnyLine) /\ Len(lines') = Len(lines) + 1
  BY <1>1 DEF LogTypes
<1> QED
  BY <1>2 DEF Put, Size, LogTypes

-----------------------------------------------------------------------------
(* The steps of /logs                                                      *)

\* A step that leaves the handler alone and does not shorten the file keeps
\* the handler's part, if a file that grows is not said to be complete.
LEMMA HandlerKept ==
    ASSUME LogInv, UNCHANGED client, Size' \in Int, Size <= Size', foreign => foreign',
           Size' # Size => foreign \/ ~Finished, ~foreign' => (Finished => Finished')
    PROVE  Position' /\ Ending'
<1>1. Size \in Int
  BY DEF LogInv, LogTypes, Size
<1>2. Position'
  BY <1>1 DEF LogInv, Position, client
<1>3. Ending'
  BY <1>1 DEF LogInv, Ending, client
<1> QED
  BY <1>2, <1>3

\* The client's steps leave the worker's part alone.
LEMMA WorkerKept ==
    ASSUME LogInv, UNCHANGED <<rowfile, worker, shell, foreign>>
    PROVE  LogTypes' /\ Fresh' /\ Quiet' /\ Size' = Size
  BY DEF LogInv, LogTypes, Fresh, Quiet, Size, Finished, rowfile, worker, shell

\* The handler's own steps.
LEMMA ServeStep ==
    ASSUME LogInv, Serve \/ HangUp \/ Reconnect
    PROVE  LogInv'
<1>1. /\ LogTypes' /\ Fresh' /\ Quiet'
      /\ Size' = Size /\ (Finished' <=> Finished) /\ foreign' = foreign
  <2>1. UNCHANGED <<rowfile, worker, shell, foreign>>
    BY DEF Serve, Connect, Open, SendLine, EndOfFile, CheckFinished, HangUp, Reconnect
  <2> QED
    BY <2>1, WorkerKept DEF Finished, rowfile
<1>2. CASE SendLine
  <2>1. LineEnd \in Nat /\ offset < LineEnd /\ LineEnd <= Size
    BY <1>2, LineEndBounds DEF LogInv, Position, SendLine
  <2>2. offset' = LineEnd /\ got' = [i \in 1 .. LineEnd |-> i]
    BY <1>2, <2>1, CountOn DEF LogInv, Position, SendLine, NewOffset
  <2>3. Position'
    BY <1>1, <2>1, <2>2 DEF Position
  <2>4. Ending'
    BY <1>1, <1>2 DEF LogInv, Ending, SendLine
  <2> QED
    BY <1>1, <2>3, <2>4 DEF LogInv
<1>3. CASE Connect \/ Open \/ EndOfFile \/ CheckFinished \/ HangUp
  <2>1. Position'
    BY <1>1, <1>3 DEF LogInv, Position, Connect, Open, EndOfFile, CheckFinished, HangUp
  <2>2. Ending'
    BY <1>1, <1>3 DEF LogInv, Ending, Connect, Open, EndOfFile, CheckFinished, AfterCheck,
                      HangUp
  <2> QED
    BY <1>1, <2>1, <2>2 DEF LogInv
<1>4. CASE Reconnect
  <2>1. Size \in Nat
    BY DEF LogInv, LogTypes, Size
  <2>2. Position'
    BY <1>1, <1>4, <2>1 DEF Position, Reconnect
  <2>3. Ending'
    BY <1>4 DEF Ending, Reconnect
  <2> QED
    BY <1>1, <2>2, <2>3 DEF LogInv
<1> QED
  BY <1>2, <1>3, <1>4 DEF Serve

\* The steps that begin a line.
LEMMA PutStep ==
    ASSUME LogInv, WriteStart \/ Output \/ OutputBlank \/ WriteEnd
    PROVE  LogInv'
<1>1. PICK k \in {"start", "data", "blank", "end"}, s \in Nat, f \in Nat : Put(k, s, f)
  <2>1. OutputBlank => Last(lines).from \in Nat
    <3>1. lines # <<>> => lines[Len(lines)] \in AnyLine
      BY DEF LogInv, LogTypes
    <3> QED
      BY <3>1 DEF OutputBlank, Owed, Last, AnyLine
  <2> QED
    BY <2>1 DEF LogInv, LogTypes, WriteStart, Output, OutputBlank, WriteEnd
<1>2. lines' \in Seq(AnyLine) /\ half' /\ lines' # <<>> /\ Size' = Size + 1
  BY <1>1, PutGrows DEF LogInv
<1>3. LogTypes'
  <2>1. /\ step' \in Nat /\ UNCHANGED <<thread, running, given, behind>>
    BY DEF LogInv, LogTypes, WriteStart, Output, OutputBlank, WriteEnd, worker, shell
  <2> QED
    BY <1>2, <2>1 DEF LogInv, LogTypes
<1>4. Fresh' /\ Quiet' /\ (~foreign => ~Finished)
  BY DEF LogInv, Fresh, Quiet, Finished, WriteStart, Output, OutputBlank, WriteEnd, worker,
              shell
<1>5. UNCHANGED <<client, row, foreign>> /\ Size \in Int
  BY DEF LogInv, LogTypes, Size, WriteStart, Output, OutputBlank, WriteEnd
<1>6. Position' /\ Ending'
  BY <1>2, <1>4, <1>5, HandlerKept DEF Finished
<1> QED
  BY <1>3, <1>4, <1>6 DEF LogInv

\* The newline, too, makes the file longer.
LEMMA NewlineStep == ASSUME LogInv, Newline PROVE LogInv'
<1>1. LogTypes'
  BY DEF LogInv, LogTypes, Newline, worker, shell
<1>2. Fresh' /\ Quiet'
  BY DEF LogInv, Fresh, Quiet, Finished, Newline, worker, shell
<1>3. Size' = Size + 1 /\ Size \in Int
  BY DEF LogInv, LogTypes, Size, Newline
<1>4. UNCHANGED <<client, row, foreign>> /\ (~foreign => ~Finished)
  BY DEF LogInv, Quiet, Newline
<1> QED
  BY <1>1, <1>2, <1>3, <1>4, HandlerKept DEF LogInv, Finished

\* The other steps of task, thread and process write nothing to the file.
LEMMA QuietStep ==
    ASSUME LogInv,
           \/ Announce \/ Begin \/ CreateLog \/ Setup \/ RunStep \/ StepReturns \/ Record
           \/ Sentinel \/ WorkflowTimeout \/ Abort \/ CancelPipeline
    PROVE  LogInv'
<1>1. UNCHANGED client /\ lines' = lines /\ half' = half
  BY DEF Announce, Begin, CreateLog, Setup, RunStep, StepReturns, Record, Sentinel,
         WorkflowTimeout, Abort, CancelPipeline, rowfile
<1>2. foreign => foreign'
  BY DEF Announce, Begin, CreateLog, Setup, RunStep, StepReturns, Record, Sentinel,
         WorkflowTimeout, Abort, CancelPipeline
<1>3. LogTypes' /\ Size' = Size /\ Size \in Int
  <2>1. behind' \subseteq behind \cup {running}
    BY DEF Announce, Begin, CreateLog, Setup, RunStep, StepReturns, Record, Sentinel,
           WorkflowTimeout, Abort, CancelPipeline, shell
  <2>2. step' \in Nat /\ thread' \in Nat /\ running' \in Nat /\ given' \in Nat
    BY DEF LogInv, LogTypes, Announce, Begin, CreateLog, Setup, RunStep, StepReturns,
           Record, Sentinel, NextRunning, WorkflowTimeout, Abort, CancelPipeline, worker, shell
  <2> QED
    BY <1>1, <2>1, <2>2 DEF LogInv, LogTypes, Size
<1>4. Fresh' /\ Quiet' /\ (~foreign' => (Finished => Finished'))
  <2>1. CASE Announce \/ Begin \/ CreateLog \/ Setup \/ RunStep
    BY <1>1, <2>1 DEF LogInv, LogTypes, Fresh, Quiet, Finished, Final, Announce, Begin,
                      CreateLog, Setup,
                      RunStep, rowfile, worker, shell
  <2>2. CASE StepReturns
    BY <1>1, <2>2 DEF LogInv, Fresh, Quiet, Finished, StepReturns, rowfile
  <2>3. CASE Record
    BY <1>1, <2>3 DEF LogInv, Fresh, Quiet, Record, shell
  <2>4. CASE Sentinel
    BY <1>1, <2>4 DEF LogInv, Fresh, Quiet, Finished, Sentinel, rowfile, worker
  <2>5. CASE WorkflowTimeout \/ Abort \/ CancelPipeline
    BY <1>1, <2>5 DEF LogInv, Fresh, Quiet, Finished, Final, WorkflowTimeout, Abort,
                      CancelPipeline,
                      rowfile, worker, shell
  <2> QED
    BY <2>1, <2>2, <2>3, <2>4, <2>5
<1> QED
  BY <1>1, <1>2, <1>3, <1>4, HandlerKept DEF LogInv

\* The process ends, and a handler with it.
LEMMA LogCrashStep == ASSUME LogInv, Crash PROVE LogInv'
<1>1. LogTypes' /\ Fresh' /\ Quiet' /\ Ending' /\ Size' = Size
  BY DEF LogInv, LogTypes, Fresh, Quiet, Ending, Size, Crash
<1>2. Position'
  BY <1>1 DEF LogInv, Position, Crash
<1> QED
  BY <1>1, <1>2 DEF LogInv

-----------------------------------------------------------------------------
(* The theorem about /logs                                                 *)

\* At first there is no file and nobody reads it.
LEMMA InitLogInv == Init => LogInv
<1> SUFFICES ASSUME Init PROVE LogInv
  OBVIOUS
<1>1. LogTypes
  <2>1. <<>> \in Seq(AnyLine)
    OBVIOUS
  <2> QED
    BY <2>1 DEF Init, LogTypes
<1>2. Fresh /\ Quiet /\ Ending
  BY DEF Init, Fresh, Quiet, Finished, Final, Ending
<1>3. Position
  BY DEF Init, Position, Size
<1> QED
  BY <1>1, <1>2, <1>3 DEF LogInv

\* Every step keeps the invariant.
LEMMA NextLogInv == LogInv /\ [Next]_vars => LogInv'
<1> SUFFICES ASSUME LogInv, [Next]_vars PROVE LogInv'
  OBVIOUS
<1>1. CASE UNCHANGED vars
  <2>1. LogTypes' /\ Fresh' /\ Quiet' /\ Size' = Size
    BY <1>1, WorkerKept DEF vars
  <2>2. Position' /\ Ending'
    BY <1>1, <2>1 DEF LogInv, Position, Ending, Finished, vars, client, rowfile
  <2> QED
    BY <2>1, <2>2 DEF LogInv
<1> QED
  BY <1>1, ServeStep, PutStep, NewlineStep, QuietStep, LogCrashStep DEF Next, Execute, Copy

\* What a client got is a beginning of the file without gap or repetition, and
\* all of it when the stream of a workflow that ended by itself is closed.
THEOREM ClientsGetTheLog == Spec => []ClientGetsTheLog
<1>1. LogInv => ClientGetsTheLog
  <2> SUFFICES ASSUME LogInv PROVE ClientGetsTheLog
    OBVIOUS
  <2>1. Len(got) = offset
    BY DEF LogInv, Position
  <2> QED
    BY <2>1 DEF LogInv, Position, Ending, ClientGetsTheLog
<1> QED
  BY <1>1, InitLogInv, NextLogInv, PTL DEF Spec

-----------------------------------------------------------------------------
(* The steps of a workflow and their output                                *)

\* What the variables are, and when there is a file.
StepTypes ==
    /\ row \in Final \cup {"none", "pending", "running"}
    /\ lines \in Seq(Line) /\ half \in BOOLEAN /\ (half => lines # <<>>)
    /\ step \in 1 .. Steps /\ thread \in 0 .. Steps /\ given \in 0 .. step
    /\ running \in 0 .. given /\ behind \subseteq 1 .. given
    /\ result \in {"none", "success", "failed", "timeout"}
    /\ task \in {"record", "end"} => result # "none"
    /\ lines # <<>> \/ thread # 0 \/ task \in {"setup", "start", "run", "step", "end"} => file

\* How far the task is, and what the file has of its step.
Turn ==
    /\ task \in {"new", "pending", "log", "setup"} => lines = <<>> /\ step = 1
    /\ task \in {"new", "pending", "log", "setup", "start", "run"} => thread = 0 /\ given = step - 1
    /\ task = "start" => IF lines = <<>> THEN step = 1
                         ELSE Follows(Len(lines) + 1, "end", step - 1)
    /\ task \in {"run", "step", "end"} => Follows(Len(lines) + 1, "start", step)
    /\ task \in {"step", "end"} => given = step
    /\ task = "step" => thread = step
    /\ task = "end" => thread = 0
    /\ thread # 0 => thread = given /\ Follows(Len(lines) + 1, "start", thread)

\* Without a line that looks like the sentinel, the shell executes the command
\* whose output is copied.
InTurn ==
    /\ code # "none" => thread # 0
    /\ ~spoofed /\ running # 0 => running = given /\ thread = running
    /\ ~spoofed /\ code # "none" => running = 0
    /\ ~spoofed /\ running # 0 => \A s \in behind : s < running

Filed ==
    /\ \A i \in DOMAIN lines : Belongs(i)
    /\ ~spoofed => \A i \in DOMAIN lines : PrintedIn(lines[i])

StepInv == StepTypes /\ Turn /\ InTurn /\ Filed

\* A line that is begun follows the lines that are there.
LEMMA FollowsPut ==
    ASSUME StepTypes, NEW l \in Line, lines' = Append(lines, l)
    PROVE  /\ lines' \in Seq(Line) /\ Len(lines') = Len(lines) + 1
           /\ \A i \in DOMAIN lines : lines'[i] = lines[i]
           /\ lines'[Len(lines')] = l /\ DOMAIN lines' = DOMAIN lines \cup {Len(lines')}
           /\ Len(lines') \notin DOMAIN lines
           /\ \A i \in 1 .. Len(lines) + 1 : \A k, s : Follows(i, k, s) <=> Follows(i, k, s)'
           /\ l.kind \in Marks => Follows(Len(lines) + 1, l.kind, l.step)'
           /\ l.kind \notin Marks =>
                  \A k, s : Follows(Len(lines) + 1, k, s) => Follows(Len(lines) + 1, k, s)'
<1>1. /\ lines \in Seq(Line) /\ Len(lines) \in Nat
      /\ lines' \in Seq(Line) /\ Len(lines') = Len(lines) + 1
      /\ DOMAIN lines' = DOMAIN lines \cup {Len(lines')} /\ Len(lines') \notin DOMAIN lines
      /\ lines'[Len(lines')] = l
      /\ \A i \in 1 .. Len(lines) : lines'[i] = lines[i]
  BY DEF StepTypes
<1>2. ASSUME NEW i \in 1 .. Len(lines) + 1, NEW k, NEW s
      PROVE  Follows(i, k, s) <=> Follows(i, k, s)'
  BY <1>1 DEF Follows
<1>3. ASSUME l.kind \in Marks PROVE Follows(Len(lines) + 1, l.kind, l.step)'
  <2>1. Len(lines') \in 1 .. (Len(lines') + 1) - 1 /\ Len(lines') + 1 .. (Len(lines') + 1) - 1 = {}
    BY <1>1
  <2> QED
    BY <1>1, <2>1 DEF Follows
<1>4. ASSUME l.kind \notin Marks, NEW k, NEW s, Follows(Len(lines) + 1, k, s)
      PROVE  Follows(Len(lines) + 1, k, s)'
  <2>1. PICK j \in 1 .. Len(lines) : /\ lines[j].kind = k /\ lines[j].step = s
                                     /\ \A m \in j + 1 .. Len(lines) : lines[m].kind \notin Marks
    BY <1>1, <1>4 DEF Follows
  <2>2. j \in 1 .. (Len(lines') + 1) - 1 /\ lines'[j].kind = k /\ lines'[j].step = s
    BY <1>1, <2>1
  <2>3. ASSUME NEW m \in j + 1 .. (Len(lines') + 1) - 1 PROVE lines'[m].kind \notin Marks
    <3>1. m \in j + 1 .. Len(lines) \/ m = Len(lines')
      BY <1>1
    <3> QED
      BY <1>1, <1>4, <2>1, <3>1
  <2> QED
    BY <2>2, <2>3 DEF Follows
<1> QED
  BY <1>1, <1>2, <1>3, <1>4

\* Lines that are there stay where they belong.
LEMMA FiledPut ==
    ASSUME StepTypes, Filed, NEW l \in Line, lines' = Append(lines, l),
           UNCHANGED <<spoofed, behind>>,
           ~spoofed => PrintedIn(l),
           l.kind = "start" => IF lines = <<>> THEN l.step = 1
                               ELSE Follows(Len(lines) + 1, "end", l.step - 1),
           l.kind # "start" => Follows(Len(lines) + 1, "start", l.step)
    PROVE  Filed'
<1>1. /\ lines' \in Seq(Line) /\ Len(lines') = Len(lines) + 1 /\ Len(lines) \in Nat
      /\ \A i \in DOMAIN lines : lines'[i] = lines[i] /\ i \in 1 .. Len(lines) + 1
      /\ lines'[Len(lines')] = l /\ DOMAIN lines' = DOMAIN lines \cup {Len(lines')}
      /\ \A i \in 1 .. Len(lines) + 1 : \A k, s : Follows(i, k, s) <=> Follows(i, k, s)'
      /\ lines = <<>> <=> Len(lines) = 0
  BY FollowsPut DEF StepTypes
<1>2. ASSUME NEW i \in DOMAIN lines' PROVE Belongs(i)'
  <2>1. CASE i \in DOMAIN lines
    <3>1. Belongs(i) /\ lines'[i] = lines[i] /\ i \in 1 .. Len(lines) + 1
      BY <1>1, <2>1 DEF Filed
    <3>2. \A k, s : Follows(i, k, s) <=> Follows(i, k, s)'
      BY <1>1, <3>1
    <3> QED
      BY <3>1, <3>2 DEF Belongs
  <2>2. CASE i = Len(lines) + 1
    <3>1. lines'[i] = l /\ i \in 1 .. Len(lines) + 1 /\ (i = 1 <=> lines = <<>>)
      BY <1>1, <2>2
    <3>2. \A k, s : Follows(i, k, s) <=> Follows(i, k, s)'
      BY <1>1, <3>1
    <3> QED
      BY <2>2, <3>1, <3>2 DEF Belongs
  <2> QED
    BY <1>1, <2>1, <2>2
<1>3. ~spoofed' => \A i \in DOMAIN lines' : PrintedIn(lines[i])'
  BY <1>1 DEF Filed, PrintedIn
<1> QED
  BY <1>2, <1>3 DEF Filed

\* The steps that begin a line.
LEMMA LineStep ==
    ASSUME StepInv, WriteStart \/ Output \/ OutputBlank \/ WriteEnd
    PROVE  StepInv'
<1>1. CASE WriteStart
  <2> DEFINE l == [kind |-> "start", step |-> step, from |-> step]
  <2>1. /\ lines' = Append(lines, l) /\ half' = TRUE /\ task = "start" /\ task' = "run"
        /\ UNCHANGED <<row, file, step, result, thread, code, running, given, spoofed, behind>>
    BY <1>1 DEF WriteStart, Put, shell
  <2>2. l \in Line /\ l.kind \in Marks /\ lines' # <<>>
    BY <2>1 DEF StepInv, StepTypes, Line, Marks
  <2>3. /\ lines' \in Seq(Line) /\ Len(lines') = Len(lines) + 1
        /\ Follows(Len(lines) + 1, "start", step)'
    BY <2>1, <2>2, FollowsPut DEF StepInv
  <2>4. Filed'
    BY <2>1, <2>2, FiledPut DEF StepInv, Turn, PrintedIn
  <2>5. StepTypes' /\ InTurn'
    BY <2>1, <2>2, <2>3 DEF StepInv, StepTypes, InTurn
  <2>6. Turn'
    BY <2>1, <2>2, <2>3 DEF StepInv, Turn
  <2> QED
    BY <2>4, <2>5, <2>6 DEF StepInv
<1>2. CASE WriteEnd
  <2> PICK s : s = step
    OBVIOUS
  <2> DEFINE l == [kind |-> "end", step |-> s, from |-> s]
  <2>1. /\ lines' = Append(lines, l) /\ half' = TRUE /\ task = "end" /\ thread = 0
        /\ given = step /\ step \in 1 .. Steps /\ step \in Nat /\ result # "none"
        /\ UNCHANGED <<row, file, result, thread, code, running, given, spoofed, behind>>
        /\ \/ task' = "start" /\ step' = step + 1 /\ step < Steps
           \/ task' = "record" /\ step' = step
    BY LogAssumption, <1>2 DEF WriteEnd, Put, shell, StepInv, Turn, StepTypes
  <2>2. l \in Line /\ l.kind \in Marks /\ lines' # <<>>
    BY <2>1 DEF StepInv, StepTypes, Line, Marks
  <2>3. /\ lines' \in Seq(Line) /\ Len(lines') = Len(lines) + 1
        /\ Follows(Len(lines) + 1, "end", l.step)'
    BY <2>1, <2>2, FollowsPut DEF StepInv
  <2>4. Filed'
    BY <2>1, <2>2, FiledPut DEF StepInv, Turn, PrintedIn
  <2>5. StepTypes' /\ InTurn'
    BY LogAssumption, <2>1, <2>2, <2>3 DEF StepInv, StepTypes, InTurn
  <2>6. Turn'
    <3>1. CASE task' = "start"
      <4>1. step' - 1 = l.step
        BY <2>1, <3>1
      <4>2. Follows(Len(lines) + 1, "end", step - 1)'
        BY <2>3, <4>1
      <4> QED
        BY <2>1, <2>2, <3>1, <4>1, <4>2 DEF Turn
    <3>2. CASE task' = "record"
      BY <2>1, <3>2 DEF Turn
    <3> QED
      BY <2>1, <3>1, <3>2
  <2> QED
    BY <2>4, <2>5, <2>6 DEF StepInv
<1>3. CASE Output \/ OutputBlank
  <2> PICK k \in {"data", "blank"}, f \in 1 .. Steps :
         /\ lines' = Append(lines, [kind |-> k, step |-> thread, from |-> f])
         /\ ~spoofed => f = thread \/ (f < thread /\ f \in behind)
    <3>1. CASE Output
      <4>1. running # 0 /\ running \in 0 .. given /\ given \in 0 .. Steps /\ behind \subseteq 1 .. given
        BY LogAssumption, <3>1 DEF Output, StepInv, StepTypes
      <4>2. PICK f \in {running} \cup behind : Put("data", thread, f)
        BY <3>1 DEF Output
      <4>3. f \in 1 .. Steps
        BY LogAssumption, <4>1
      <4>4. ~spoofed => f = thread \/ (f < thread /\ f \in behind)
        BY <4>1 DEF StepInv, InTurn
      <4> QED
        BY <4>2, <4>3, <4>4 DEF Put
    <3>2. CASE OutputBlank
      <4> DEFINE n == Len(lines)
      <4>1. lines \in Seq(Line) /\ n \in DOMAIN lines /\ lines[n].kind = "data"
            /\ lines[n] \in Line /\ Last(lines) = lines[n] /\ n \in Nat
        BY <3>2 DEF OutputBlank, Owed, Last, StepInv, StepTypes
      <4>2. Follows(n, "start", lines[n].step)
        BY <4>1 DEF StepInv, Filed, Belongs
      <4>3. Follows(n + 1, "start", thread)
        BY <3>2 DEF OutputBlank, StepInv, Turn
      <4>4. lines[n].step = thread
        <5>1. PICK i \in 1 .. n - 1 : /\ lines[i].kind = "start" /\ lines[i].step = lines[n].step
                                      /\ \A m \in i + 1 .. n - 1 : lines[m].kind \notin Marks
          BY <4>2 DEF Follows
        <5>2. PICK j \in 1 .. n : /\ lines[j].kind = "start" /\ lines[j].step = thread
                                  /\ \A m \in j + 1 .. n : lines[m].kind \notin Marks
          BY <4>1, <4>3 DEF Follows
        <5>3. i = j
          <6>1. j # n
            BY <4>1, <5>2
          <6>2. ~(i < j) /\ ~(j < i)
            BY <4>1, <5>1, <5>2, <6>1 DEF Marks
          <6> QED
            BY <4>1, <6>2
        <5> QED
          BY <5>1, <5>2, <5>3
      <4> DEFINE g == Last(lines).from
      <4>5. ~spoofed => g = thread \/ (g < thread /\ g \in behind)
        BY <4>1, <4>4 DEF StepInv, Filed, PrintedIn
      <4>6. Last(lines).from \in 1 .. Steps
        BY <4>1 DEF Line
      <4> QED
        BY <3>2, <4>5, <4>6 DEF OutputBlank, Put
    <3> QED
      BY <1>3, <3>1, <3>2
  <2> DEFINE l == [kind |-> k, step |-> thread, from |-> f]
  <2>1. /\ lines' = Append(lines, l) /\ half' = TRUE /\ thread # 0
        /\ UNCHANGED <<row, file, task, step, result, thread, code, running, given, spoofed, behind>>
    BY <1>3 DEF Output, OutputBlank, Put, worker, shell
  <2>2. l \in Line /\ l.kind \notin Marks /\ lines' # <<>> /\ l.kind # "start"
    BY <2>1 DEF StepInv, StepTypes, Line, Marks
  <2>3. Follows(Len(lines) + 1, "start", thread)
    BY <2>1 DEF StepInv, Turn
  <2>4. /\ lines' \in Seq(Line)
        /\ \A b, s : Follows(Len(lines) + 1, b, s) => Follows(Len(lines) + 1, b, s)'
    BY <2>1, <2>2, FollowsPut DEF StepInv
  <2>5. Filed'
    BY <2>1, <2>2, <2>3, FiledPut DEF StepInv, PrintedIn
  <2>6. StepTypes' /\ InTurn'
    BY <2>1, <2>2, <2>4 DEF StepInv, StepTypes, InTurn
  <2>7. Turn'
    BY <2>1, <2>2, <2>3, <2>4 DEF StepInv, Turn
  <2> QED
    BY <2>5, <2>6, <2>7 DEF StepInv
<1> QED
  BY <1>1, <1>2, <1>3

\* The others leave the lines alone.
LEMMA NoLineStep ==
    ASSUME StepInv, UNCHANGED <<lines, half>> \/ Newline,
           \/ Announce \/ Begin \/ CreateLog \/ Setup \/ RunStep \/ StepReturns \/ Record
           \/ Sentinel \/ WorkflowTimeout \/ Abort \/ CancelPipeline \/ Crash \/ Newline
           \/ UNCHANGED <<rowfile, worker, shell>>
    PROVE  StepInv'
<1>1. lines' = lines /\ half' \in BOOLEAN /\ (half' => half)
  <2>1. half \in BOOLEAN
    BY DEF StepInv, StepTypes
  <2>2. CASE UNCHANGED <<lines, half>>
    BY <2>1, <2>2
  <2>3. CASE Newline
    BY <2>3 DEF Newline
  <2> QED
    BY <2>2, <2>3
<1>3. Filed'
  <2>1. \A i \in DOMAIN lines' : Belongs(i)'
    BY <1>1 DEF StepInv, Filed, Belongs, Follows
  <2>2. behind \subseteq behind' /\ (~spoofed' => ~spoofed)
    BY DEF Announce, Begin, CreateLog, Setup, RunStep, StepReturns, Record,
           Sentinel, WorkflowTimeout, Abort, CancelPipeline, Crash, Newline, shell
  <2>3. ~spoofed' => \A i \in DOMAIN lines' : PrintedIn(lines[i])'
    BY <1>1, <2>2 DEF StepInv, Filed, PrintedIn
  <2> QED
    BY <1>1, <2>1, <2>3 DEF Filed
<1>4. \A k, s : Follows(Len(lines) + 1, k, s)' <=> Follows(Len(lines) + 1, k, s)
  BY <1>1 DEF Follows
<1>5. StepTypes' /\ Turn' /\ InTurn'
  <2>1. CASE Announce \/ Begin \/ CreateLog
    BY <1>1, <1>4, <2>1 DEF StepInv, StepTypes, Turn, InTurn, Final, Announce, Begin, CreateLog, shell
  <2>2. CASE Setup
    BY <1>1, <1>4, <2>2 DEF StepInv, StepTypes, Turn, InTurn, Setup, shell, rowfile
  <2>3. CASE RunStep
    BY LogAssumption, <1>1, <1>4, <2>3 DEF StepInv, StepTypes, Turn, InTurn, RunStep, rowfile
  <2>4. CASE StepReturns
    BY LogAssumption, <1>1, <1>4, <2>4 DEF StepInv, StepTypes, Turn, InTurn, StepReturns, StepEnded, rowfile
  <2>5. CASE Record
    BY <1>1, <1>4, <2>5 DEF StepInv, StepTypes, Turn, InTurn, Final, Record, shell
  <2>6. CASE Sentinel
    <3>1. /\ UNCHANGED <<row, file, lines, half, task, step, result, thread, given>>
          /\ running \in 1 .. given /\ running' \in 0 .. given /\ code' # "none" /\ thread # 0
          /\ behind' \subseteq behind \cup {running} /\ (~spoofed' => ~spoofed /\ running' = NextRunning)
      BY LogAssumption, <2>6 DEF StepInv, StepTypes, Sentinel, Copied, NextRunning, rowfile, worker
    <3>2. behind' \subseteq 1 .. given
      BY <3>1 DEF StepInv, StepTypes
    <3>3. StepTypes'
      BY <3>1, <3>2 DEF StepInv, StepTypes
    <3>4. Turn'
      BY <1>4, <3>1 DEF StepInv, Turn
    <3>5. ~spoofed' => running = given /\ running' = 0
      BY <3>1 DEF StepInv, InTurn, NextRunning, StepTypes
    <3> QED
      BY <3>1, <3>3, <3>4, <3>5 DEF InTurn
  <2>7. CASE WorkflowTimeout \/ Abort
    BY <1>1, <1>4, <2>7 DEF StepInv, StepTypes, Turn, InTurn, WorkflowTimeout, Abort, shell, rowfile
  <2>8. CASE CancelPipeline
    BY <1>1, <1>4, <2>8 DEF StepInv, StepTypes, Turn, InTurn, Final, CancelPipeline, shell, worker
  <2>10. CASE Crash
    <3>1. /\ UNCHANGED <<file, lines, half, step, result, given, spoofed, behind>>
          /\ thread' = 0 /\ running' = 0 /\ code' = "none" /\ task' = "over"
          /\ row' \in {row, "cancelled"}
      BY <2>10 DEF Crash
    <3>2. 0 \in 0 .. given /\ 0 \in 0 .. Steps
      BY LogAssumption DEF StepInv, StepTypes
    <3>3. StepTypes'
      BY <3>1, <3>2 DEF StepInv, StepTypes, Final
    <3> QED
      BY <3>1, <3>3 DEF StepInv, Turn, InTurn
  <2>9. CASE Newline
    BY <1>1, <1>4, <2>9 DEF StepInv, StepTypes, Turn, InTurn, Newline, shell, rowfile, worker
  <2>11. CASE UNCHANGED <<rowfile, worker, shell>>
    <3>1. UNCHANGED <<file, half, lines, step, running, thread, task, code, row, result, given,
                      spoofed, behind>>
      BY <2>11 DEF rowfile, worker, shell
    <3>2. StepTypes'
      BY <3>1 DEF StepInv, StepTypes
    <3>3. Turn'
      BY <3>1 DEF StepInv, Turn, Follows
    <3> QED
      BY <3>1, <3>2, <3>3 DEF StepInv, InTurn
  <2> QED
    BY <2>1, <2>2, <2>3, <2>4, <2>5, <2>6, <2>7, <2>8, <2>9, <2>10, <2>11
<1> QED
  BY <1>3, <1>5 DEF StepInv

\* At first nothing is written.
LEMMA InitStepInv == Init => StepInv
<1> SUFFICES ASSUME Init PROVE StepInv
  OBVIOUS
<1>1. StepTypes
  <2>1. lines = <<>> /\ lines \in Seq(Line) /\ half = FALSE
    BY DEF Init
  <2>2. 1 \in 1 .. Steps /\ 0 \in 0 .. Steps
    BY LogAssumption
  <2>3. 0 \in 0 .. 1 /\ 0 \in 0 .. 0
    OBVIOUS
  <2>4. /\ step = 1 /\ thread = 0 /\ given = 0 /\ running = 0 /\ row = "none"
        /\ result = "none" /\ task = "new" /\ behind = {}
    BY DEF Init
  <2>5. step \in 1 .. Steps /\ thread \in 0 .. Steps /\ given \in 0 .. step /\ running \in 0 .. given
        /\ behind \subseteq 1 .. given
    BY <2>2, <2>3, <2>4, Zenon
  <2> QED
    BY <2>1, <2>4, <2>5, Zenon DEF StepTypes
<1>2. Turn /\ InTurn /\ Filed
  BY DEF Init, Turn, InTurn, Filed
<1> QED
  BY <1>1, <1>2 DEF StepInv

\* Every step keeps it.
LEMMA NextStepInv == StepInv /\ [Next]_vars => StepInv'
<1> SUFFICES ASSUME StepInv, [Next]_vars PROVE StepInv'
  OBVIOUS
<1>1. CASE WriteStart \/ Output \/ OutputBlank \/ WriteEnd
  BY <1>1, LineStep
<1>2. CASE Serve \/ HangUp \/ Reconnect \/ UNCHANGED vars
  <2>1. UNCHANGED <<rowfile, worker, shell>>
    BY <1>2 DEF Serve, Connect, Open, SendLine, EndOfFile, CheckFinished, HangUp, Reconnect, vars
  <2>2. UNCHANGED <<lines, half>>
    BY <2>1 DEF rowfile
  <2> QED
    BY <2>1, <2>2, NoLineStep
<1>3. CASE \/ Announce \/ Begin \/ CreateLog \/ Setup \/ RunStep \/ StepReturns \/ Record
           \/ Sentinel \/ WorkflowTimeout \/ Abort \/ CancelPipeline \/ Crash \/ Newline
  <2>1. UNCHANGED <<lines, half>> \/ Newline
    BY <1>3 DEF Announce, Begin, CreateLog, Setup, RunStep, StepReturns, Record, Sentinel,
                WorkflowTimeout, Abort, CancelPipeline, Crash, rowfile
  <2> QED
    BY <1>3, <2>1, NoLineStep
<1> QED
  BY <1>1, <1>2, <1>3 DEF Next, Execute, Copy

\* Each line belongs to the step that was started last, steps start and end in
\* turn, and without a line that looks like the sentinel each line was printed by
\* the command of its step, or by a process that an earlier one left behind.
THEOREM OutputStaysWithItsStep == Spec => []StepsKeepTheirOutput
<1>1. LogInv /\ StepInv => StepsKeepTheirOutput
  <2> SUFFICES ASSUME LogInv, StepInv PROVE StepsKeepTheirOutput
    OBVIOUS
  <2>1. TypeOK
    <3>1. offset \in 0 .. Size
      <4>1. Size \in Int
        BY DEF LogInv, LogTypes, Size
      <4> QED
        BY <4>1 DEF LogInv, Position
    <3>2. running \in 0 .. given /\ given <= Steps /\ thread \in 0 .. Steps
      BY LogAssumption DEF StepInv, StepTypes
    <3> QED
      BY <3>1, <3>2 DEF StepInv, StepTypes, TypeOK
  <2> QED
    BY <2>1 DEF StepInv, Filed, StepsKeepTheirOutput
<1> QED
  BY <1>1, InitLogInv, NextLogInv, InitStepInv, NextStepInv, PTL DEF Spec
=============================================================================
