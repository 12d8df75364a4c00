------------------------------- MODULE Access -------------------------------
(***************************************************************************)
(* Who may use the spindle: the Jetstream client                           *)
(* (crates/spindle-jetstream/src/client.rs), the ingester (ingester.rs),   *)
(* the XRPC calls of the owner (crates/spindle-xrpc/src/handlers.rs), the  *)
(* tables of members, DIDs and repositories (crates/spindle-db/src) and    *)
(* the RBAC roles in memory (crates/spindle-rbac/src/enforcer.rs).         *)
(*                                                                         *)
(* The client reads the events of the DIDs it watches, moves its cursor,   *)
(* hands them to a channel and saves the cursor now and then; the ingester *)
(* applies them one step at a time, as the handlers do.  A restart keeps   *)
(* the tables and forgets the roles.                                       *)
(*                                                                         *)
(* The Jetstream is external: the position of an event in log is its time, *)
(* and a connection with a cursor replays from there, inclusive or not.    *)
(***************************************************************************)
EXTENDS Integers, Sequences, FiniteSets, SequencesExt, FiniteSetsExt

CONSTANTS Did, Owner, Name,
          Logs,        \* the histories of events to consider
          SaveEvery,   \* events between two saves of the cursor (100)
          Capacity,    \* of the channel to the ingester (256)
          MaxMoves     \* bound: calls of add_member and remove_member, errors, lost
                       \* connections, crashes, shutdowns

Junk == "junk"     \* a record that does not parse, or that names another spindle
Of(kinds, subjects) == [kind : kinds, operation : {"put", "delete"}, author : Did,
                        about : subjects \cup {Junk}]
Event == Of({"member", "collaborator"}, Did) \cup Of({"repo"}, Name) \cup Of({"other"}, {})

ASSUME AccessAssumption ==
    /\ Owner \in Did /\ Junk \notin Did
    /\ Logs \subseteq Seq(Event)
    /\ SaveEvery \in Nat \ {0} /\ Capacity \in Nat \ {0}
    /\ MaxMoves \in Nat

VARIABLES log,
          members, watchlist, repos, saved,        \* the database
          up, stopping,                            \* the process, its shutdown token
          roles, policies,                         \* RBAC
          watched, cursor, unsaved, pos, hand,     \* the client: pos is the next event
          chan, receiver, doing,                   \* the channel and the two that work
          now,                                     \* events known to have happened
          handled, torn, missed,                   \* what became of the events
          unrestored, uncertain, called,           \* DIDs: see the properties
          moves

database == <<members, watchlist, repos, saved>>
process == <<up, stopping>>
rbac == <<roles, policies>>
client == <<watched, cursor, unsaved, pos, hand, now, missed>>
ingester == <<chan, receiver>>
history == <<handled, torn, unrestored, uncertain, called>>
vars == <<log, database, process, rbac, client, ingester, doing, history, moves>>

Move == moves < MaxMoves /\ moves' = moves + 1
NoMove == UNCHANGED moves

-----------------------------------------------------------------------------
(* The tables.                                                             *)

InsertMember(d, role) == [members EXCEPT ![d] = IF @ = "none" THEN role ELSE @]
RemoveMember(d) == [members EXCEPT ![d] = "none"]
IsMember(d) == members[d] # "none"

(* RBAC: <<user, role, resource>>; the resource is the spindle or a        *)
(* repository, and its owners may invite if there is a policy for it.      *)

Spindle == <<>>
Repo(d, n) == <<d, n>>
SpindleRoles_MemberOnly(d) == {<<d, "member", Spindle>>}
SpindleRoles(d) == {<<d, "member", Spindle>>, <<d, "owner", Spindle>>}
IsUser(d, r) == \E g \in roles : g[1] = d /\ g[3] = r

\* The matcher: a role on the object that a policy for it gives the act.
Enforce(d, r, act) == \E p \in policies : p[2] = r /\ p[3] = act /\ <<d, p[1], r>> \in roles
InviteAllowed(d, r) == Enforce(d, r, "invite")
OwnersInvite(r) == <<"owner", r, "invite">>

-----------------------------------------------------------------------------
(* Operations: what they do, step by step.                                 *)

\* Subscribing to the repository's knot comes between the two steps of
\* "repo"; it is KnotConsumer's.
Steps(what) == CASE what \in {"add", "remove"} -> <<"table", "roles", "watch">>
                 [] what \in {"leave", "repo"} -> <<"table", "roles">>
                 [] what = "collaborator"      -> <<"roles", "watch">>

Idle == [what |-> "idle"]
Operation(what, d, r, i) ==
    [what |-> what, did |-> d, repo |-> r, todo |-> Steps(what), event |-> i]
Busy(a) == doing[a] # Idle

\* The tables after the step "table", "watch"; the roles after "roles".
Tables(o, step) ==
    /\ members' = IF step # "table" \/ o.what = "repo" THEN members
                  ELSE IF o.what = "add" THEN InsertMember(o.did, "member")
                  ELSE RemoveMember(o.did)
    /\ repos' = IF step = "table" /\ o.what = "repo" THEN repos \cup {o.repo} ELSE repos
    /\ watchlist' = IF step # "watch" THEN watchlist
                    ELSE IF o.what = "remove" THEN watchlist \ {o.did}
                    ELSE watchlist \cup {o.did}

Granted(o) == CASE o.what = "add"  -> roles \cup {<<o.did, "member", Spindle>>}
                [] o.what = "repo" -> roles \cup {<<o.did, "owner", o.repo>>}
                [] o.what = "collaborator" -> roles \cup {<<o.did, "collaborator", o.repo>>}
                [] OTHER -> roles \ SpindleRoles(o.did)

Roles(o, step) ==
    /\ roles' = IF step = "roles" THEN Granted(o) ELSE roles
    /\ policies' = IF step = "roles" /\ o.what = "repo" 
                   THEN policies \cup {OwnersInvite(o.repo)} ELSE policies

\* A member's departure stops if there was no row.
Ends(o, step) == \/ Len(o.todo) = 1
                 \/ o.what = "leave" /\ step = "table" /\ ~IsMember(o.did)

Finished(o, whole) ==
    /\ handled' = IF whole /\ o.event # 0 THEN handled \cup {o.event} ELSE handled
    /\ torn' = IF o.event = 0 THEN torn
               ELSE IF whole THEN torn \ {o.event} ELSE torn \cup {o.event}

\* An operation goes on: its next step succeeds, or fails; a failure ends it,
\* of a late step after the earlier ones took effect.
Advance(a) ==
    /\ Busy(a)
    /\ LET o == doing[a]
           step == Head(o.todo)
       IN  \/ /\ Tables(o, step) /\ Roles(o, step) /\ NoMove
              /\ IF Ends(o, step)
                 THEN doing' = [doing EXCEPT ![a] = Idle] /\ Finished(o, TRUE)
                 ELSE doing' = [doing EXCEPT ![a].todo = Tail(@)] /\ UNCHANGED <<handled, torn>>
              /\ UNCHANGED uncertain
           \/ /\ step # "roles" /\ Move
              /\ doing' = [doing EXCEPT ![a] = Idle] /\ Finished(o, FALSE)
              /\ UNCHANGED <<members, repos, watchlist, rbac, uncertain>>
    /\ UNCHANGED <<log, saved, process, client, ingester, unrestored, called>>

\* The other one is at work on the same DID.
Overlap(d) == IF \E a \in DOMAIN doing : Busy(a) /\ doing[a].did = d THEN {d} ELSE {}

-----------------------------------------------------------------------------
(* The owner's calls.  The handler is dropped when the caller hangs up     *)
(* while it waits for the roles' lock.                                     *)

Call(what, d) ==
    /\ up /\ ~stopping /\ ~Busy("xrpc") /\ Move
    /\ doing' = [doing EXCEPT !["xrpc"] = Operation(what, d, Spindle, 0)]
    /\ uncertain' = uncertain \cup Overlap(d)
    /\ called' = called \cup {d}
    /\ UNCHANGED <<log, database, process, rbac, client, ingester, handled, torn, unrestored>>

HangUp ==
    /\ Busy("xrpc") /\ Head(doing["xrpc"].todo) = "roles" /\ Move
    /\ uncertain' = uncertain \cup {doing["xrpc"].did}
    /\ doing' = [doing EXCEPT !["xrpc"] = Idle]
    /\ UNCHANGED <<log, database, process, rbac, client, ingester, handled, torn, unrestored,
                   called>>

-----------------------------------------------------------------------------
(* The ingester.                                                           *)

What_DeletesIgnored(e) == IF e.operation = "delete" \/ e.about = Junk THEN "ignore"
                          ELSE IF e.kind = "member" THEN "add" ELSE e.kind
What(e) == IF e.operation = "delete"
           THEN IF e.kind = "member" THEN "leave" ELSE "ignore"
           ELSE IF e.about = Junk THEN "ignore"
           ELSE IF e.kind = "member" THEN "add" ELSE e.kind

\* Whom the operation is about, and which repository.
Whom(e) == IF What(e) \in {"leave", "repo"} THEN e.author ELSE e.about
Which(e) == CASE What(e) = "repo" -> Repo(e.author, e.about)
              [] What(e) = "collaborator" -> Repo(e.author, CHOOSE n \in Name : TRUE)
              [] OTHER -> Spindle

Ingest ==
    /\ up /\ receiver /\ chan # <<>> /\ ~Busy("ingester")
    /\ LET i == Head(chan)
           e == log[i]
       IN  IF What(e) = "ignore"
           THEN /\ handled' = handled \cup {i} /\ torn' = torn \ {i}
                /\ UNCHANGED <<doing, uncertain>>
           ELSE /\ doing' = [doing EXCEPT !["ingester"] =
                                 Operation(What(e), Whom(e), Which(e), i)]
                /\ uncertain' = uncertain \cup Overlap(Whom(e))
                /\ UNCHANGED <<handled, torn>>
    /\ chan' = Tail(chan)
    /\ UNCHANGED <<log, database, process, rbac, client, receiver, unrestored, called, moves>>

\* The token ends the loop between two events; what is in the channel is lost.
IngesterStops ==
    /\ stopping /\ receiver /\ ~Busy("ingester")
    /\ receiver' = FALSE /\ chan' = <<>> /\ torn' = torn \cup ToSet(chan)
    /\ UNCHANGED <<log, database, process, rbac, client, doing, handled, unrestored, uncertain,
                   called, moves>>

-----------------------------------------------------------------------------
(* The client.                                                             *)

Connected == pos # 0

\* The stream starts at the cursor, or now if there is none.
From_Next == IF cursor > 0 THEN {cursor + 2} ELSE now + 1 .. Len(log) + 1
From == IF cursor > 0 THEN {cursor, cursor + 1} ELSE now + 1 .. Len(log) + 1

\* Nothing to watch: nothing to connect for.
Connect ==
    /\ up /\ ~stopping /\ ~Connected /\ watched # {}
    /\ \E p \in From :
           /\ pos' = p
           /\ missed' = IF cursor > 0 THEN missed ELSE missed \cup (1 .. p - 1 \ handled)
    /\ unsaved' = 0
    /\ UNCHANGED <<log, database, process, rbac, watched, cursor, hand, now, ingester, doing,
                   history, moves>>

\* What the server does not send: the author is not among the wanted DIDs.
Wanted(i) == log[i].author \in watched

\* handle_message: the cursor moves before the event is handed on; what is
\* not for the ingester ends here.
Read ==
    /\ up /\ Connected /\ hand = 0 /\ pos <= Len(log)
    /\ pos' = pos + 1 /\ now' = Max({now, pos})
    /\ IF Wanted(pos)
       THEN /\ cursor' = Max({cursor, pos})
            /\ hand' = IF log[pos].kind = "other" THEN 0 ELSE pos
            /\ handled' = IF log[pos].kind = "other" THEN handled \cup {pos} ELSE handled
            /\ missed' = missed \ {pos}
       ELSE /\ missed' = missed \cup ({pos} \ handled)
            /\ UNCHANGED <<cursor, hand, handled>>
    /\ UNCHANGED <<log, database, process, rbac, watched, unsaved, ingester, doing, torn,
                   unrestored, uncertain, called, moves>>

\* save_cursor may fail, which is only logged.
Saved(c) == \/ saved' = c /\ NoMove
            \/ saved' = saved /\ Move

Due == unsaved + 1 >= SaveEvery

Enqueue_OrDrop == chan' = IF Len(chan) < Capacity THEN Append(chan, hand) ELSE chan
Enqueue == Len(chan) < Capacity /\ chan' = Append(chan, hand)

\* The client waits for room; an event counts towards the next save once it
\* is in the channel.
Send ==
    /\ up /\ hand # 0
    /\ IF receiver
       THEN /\ Enqueue /\ UNCHANGED torn
            /\ unsaved' = IF Due THEN 0 ELSE unsaved + 1
            /\ IF Due THEN Saved(cursor) ELSE UNCHANGED <<saved, moves>>
       ELSE /\ torn' = torn \cup {hand}
            /\ UNCHANGED <<chan, unsaved, saved, moves>>
    /\ hand' = 0
    /\ UNCHANGED <<log, members, watchlist, repos, process, rbac, watched, cursor, pos, now,
                   missed, receiver, doing, handled, unrestored, uncertain, called>>

\* Whatever becomes of it.
SaveRest == saved' \in IF unsaved > 0 THEN {saved, cursor} ELSE {saved}

\* The server closes the connection, or it breaks; the client tries again.
Disconnected ==
    /\ up /\ Connected /\ hand = 0 /\ Move
    /\ pos' = 0 /\ unsaved' = 0 /\ SaveRest
    /\ UNCHANGED <<log, members, watchlist, repos, process, rbac, watched, cursor, hand, now,
                   missed, ingester, doing, history>>

ClientStops ==
    /\ up /\ stopping /\ Connected /\ hand = 0
    /\ pos' = 0 /\ unsaved' = 0 /\ SaveRest
    /\ UNCHANGED <<log, members, watchlist, repos, process, rbac, watched, cursor, hand, now,
                   missed, ingester, doing, history, moves>>

-----------------------------------------------------------------------------
(* The process.                                                            *)

Nobody == [a \in {"ingester", "xrpc"} |-> Idle]

\* A new enforcer knows nobody; then the spindle and its owner are registered.
NewEnforcer == roles' = {} /\ policies' = {}
Bootstrap == /\ roles' = {<<Owner, "owner", Spindle>>}
             /\ policies' = {OwnersInvite(Spindle)}

\* main and run_server: the owner is put into the tables and the roles; the
\* client gets the table of DIDs and the cursor.
Start ==
    /\ ~up /\ up' = TRUE /\ stopping' = FALSE
    /\ members' = InsertMember(Owner, "owner")
    /\ watchlist' = watchlist \cup {Owner}
    /\ Bootstrap
    /\ watched' = watchlist' /\ cursor' = saved /\ unsaved' = 0 /\ pos' = 0 /\ hand' = 0
    /\ chan' = <<>> /\ receiver' = TRUE /\ doing' = Nobody
    /\ unrestored' = {d \in Did \ {Owner} : IsMember(d)} /\ uncertain' = {}
    /\ UNCHANGED <<log, repos, saved, now, missed, handled, torn, called, moves>>

Shutdown ==
    /\ up /\ ~stopping /\ Move
    /\ stopping' = TRUE
    /\ UNCHANGED <<log, database, up, rbac, client, ingester, doing, history>>

\* The end of the process, with what was on its way.
Over ==
    /\ up' = FALSE /\ stopping' = FALSE
    /\ torn' = torn \cup ToSet(chan) \cup ({hand} \ {0})
                    \cup ({doing[a].event : a \in {b \in DOMAIN doing : Busy(b)}} \ {0})
    /\ chan' = <<>> /\ hand' = 0 /\ pos' = 0 /\ doing' = Nobody
    /\ NewEnforcer
    /\ UNCHANGED <<log, database, watched, cursor, unsaved, now, missed, receiver, handled,
                   unrestored, uncertain, called>>

Exit == up /\ stopping /\ ~receiver /\ ~Connected /\ ~Busy("xrpc") /\ NoMove /\ Over
Crash == up /\ Move /\ Over

-----------------------------------------------------------------------------
Init ==
    /\ log \in Logs
    /\ members \in [Did -> {"none", "member"}] /\ members[Owner] = "none"
    /\ watchlist \in SUBSET (Did \ {Owner}) /\ repos = {} /\ saved = 0
    /\ up = FALSE /\ stopping = FALSE /\ roles = {} /\ policies = {}
    /\ watched = {} /\ cursor = 0 /\ unsaved = 0 /\ pos = 0 /\ hand = 0 /\ now = 0
    /\ chan = <<>> /\ receiver = FALSE /\ doing = Nobody
    /\ handled = {} /\ torn = {} /\ missed = {}
    /\ unrestored = {} /\ uncertain = {} /\ called = {}
    /\ moves = 0

Work == Connect \/ Read \/ Send \/ Ingest \/ Advance("ingester") \/ Advance("xrpc")
Stop == IngesterStops \/ ClientStops \/ Exit \/ Start

Next == \/ Work \/ Stop
        \/ HangUp \/ Disconnected \/ Shutdown \/ Crash
        \/ \E d \in Did : Call("add", d) \/ Call("remove", d)

Spec == Init /\ [][Next]_vars

FairSpec == Spec /\ WF_vars(Work) /\ WF_vars(Stop)

-----------------------------------------------------------------------------
(* Properties.                                                             *)

\* Every variable keeps its type.
TypeOK ==
    /\ members \in [Did -> {"none", "member", "owner"}] /\ watchlist \subseteq Did
    /\ repos \subseteq Did \X Name
    /\ \A g \in roles : g[1] \in Did /\ g[2] \in {"member", "owner", "collaborator"}
    /\ {saved, cursor, hand, now} \subseteq 0 .. Len(log) /\ pos \in 0 .. Len(log) + 1
    /\ Len(chan) <= Capacity /\ ToSet(chan) \subseteq DOMAIN log
    /\ handled \cup torn \cup missed \subseteq DOMAIN log

InProgress == {doing[a].event : a \in {b \in DOMAIN doing : Busy(b)}} \ {0}
Settled(d) == \A a \in DOMAIN doing : Busy(a) => doing[a].did # d

\* The roles in memory and the tables say the same of everyone nothing is
\* being done for: who has a role on the spindle has a row, who has a row
\* has a role, and who owns a repository for RBAC has it in the table.  The
\* exceptions are members no start has given their role back (unrestored:
\* main registers the owner alone) and DIDs of which two operations
\* overlapped or one was dropped half way (uncertain).  ingest_member,
\* add_member, remove_member, ingest_repo and the start keep them equal.
RolesFollowTables ==
    /\ TypeOK
    /\ up => \A d \in Did \ uncertain : Settled(d) =>
           /\ IsUser(d, Spindle) => IsMember(d)
           /\ IsMember(d) => d \in unrestored \/ IsUser(d, Spindle)
           /\ InviteAllowed(d, Spindle) => d = Owner
           /\ \A n \in Name : InviteAllowed(d, Repo(d, n)) <=> <<d, "owner", Repo(d, n)>> \in roles
           /\ \A n \in Name : InviteAllowed(d, Repo(d, n)) => Repo(d, n) \in repos

\* The saved cursor never runs ahead of the ingester by more than what is on
\* its way: every event up to it was applied, is on its way, was cut off by
\* an error or the end of a process, or was never sent to the client.
CursorCovers ==
    \A i \in 1 .. saved :
        i \in handled \cup torn \cup missed \cup ToSet(chan) \cup {hand} \cup InProgress

\* Reconnects and restarts replay events from the saved cursor; replays of
\* additions after removals, and back, end where the history ends: when
\* everything was read and applied, a DID that no call has touched is a
\* member iff the last of the events about it that reached the ingester says
\* so, unless that one was cut off, or its author was the subject of a call:
\* the events of who was removed are not sent again, those of others are.
Concerns(i, d) ==
    /\ log[i].kind = "member"
    /\ \/ log[i].operation = "put" /\ log[i].about = d
       \/ log[i].operation = "delete" /\ log[i].author = d

CaughtUp == /\ up /\ pos = Len(log) + 1 /\ hand = 0 /\ chan = <<>>
            /\ \A a \in DOMAIN doing : ~Busy(a)

ReplayConverges ==
    CaughtUp => \A d \in Did \ ({Owner} \cup called) :
        LET about == {i \in handled \cup torn : Concerns(i, d)}
        IN  /\ about # {} /\ Max(about) \notin torn
            /\ log[Max(about)].author \notin called
            => (IsMember(d) <=> log[Max(about)].operation = "put")

\* Every event is applied in the end, unless it was cut off or never sent:
\* no reconnect, full channel, failed save or restart loses another one.
EventHeard ==
    \A i \in 1 .. Max({Len(h) : h \in Logs}) :
        <>(i \in DOMAIN log => i \in handled \cup torn \cup missed)

\* ingester.rs:163 has a delete remove the member from the database: after a
\* deleted record was ingested the member it named is gone, unless another
\* record was ingested for it or a call concerned it.
DeletedIsNoMember ==
    \A i \in handled \ torn :
        LET d == log[i].about
        IN  /\ log[i].kind = "member" /\ log[i].operation = "delete" /\ d \notin called
            /\ \A j \in DOMAIN log : j > i => ~Concerns(j, d)
            => ~IsMember(d)
=============================================================================
