------------------------------ MODULE Secrets -------------------------------
(***************************************************************************)
(* Secrets of repositories: the XRPC calls that store, list and delete     *)
(* them (crates/spindle-xrpc/src/handlers.rs), the two managers            *)
(* (crates/spindle-secrets/src/sqlite.rs and openbao.rs), and the read by  *)
(* a pipeline that is about to run                                         *)
(* (crates/tangled-spindle/src/orchestrator.rs).                           *)
(*                                                                         *)
(* A call names its repository by path or by AT URI, which is resolved     *)
(* against the table of repositories.  SQLite holds values encrypted with  *)
(* a key made from the spindle's token and answers a read at once; OpenBao *)
(* is asked for the names and then for one value after another.  Several   *)
(* callers may be at it side by side, and what one has asked for goes on   *)
(* when it hangs up: SQLite's write on a thread of its own, OpenBao's      *)
(* request at the server.  The configuration of each start says which      *)
(* manager and which token.  Encryption is a tag: the token a value was    *)
(* encrypted with.  A key that a URL cuts or changes (?, #, %) is left out.*)
(***************************************************************************)
EXTENDS ServiceAuth, Config

CONSTANTS Name,        \* repositories of one DID, by name
          RkeyOf,      \* the record key of each: its name, or another
          PlaceOf,     \* the sanitized path of each
          SecretName, Value,
          Nested,      \* secrets with a slash in their key: OpenBao lists a folder instead
          Caller,      \* clients, each with one call at a time
          Registered,  \* the repositories that may be known from before
          Deployments, \* environments and files the spindle is started with
          Orders,      \* what a caller may send: credentials, method, repository, key, value
          MaxMoves     \* bound: calls, registrations, reads, errors, restarts

ASSUME SecretsAssumption ==
    /\ DOMAIN RkeyOf = Name /\ DOMAIN PlaceOf = Name
    /\ Registered \subseteq Seq(Name) /\ Nested \subseteq SecretName /\ "nothing" \notin Value
    /\ \A o \in Orders :
           /\ o.method \in {"put", "delete", "list"} /\ o.ref.meant \in Name
           /\ o.method # "list" => o.name \in SecretName
           /\ o.method = "put" => o.value \in Value
    /\ \E d \in Deployments : FromEnv(d.env, d.files) # Err
    /\ MaxMoves \in Nat

VARIABLES up, provider, token,
          repos,     \* the registered repositories, in the order of their ids
          store,     \* what the manager holds: by place and name
          call,      \* by caller: the XRPC call
          late,      \* changes of calls that failed or were hung up, which may still be made
          read,      \* the pipeline's read
          held,      \* by name: what was held at read.place since the read began
          wanted,    \* by repository and name: the last change that was answered 200
          unsure,    \* places and names of changes that failed or may have gone astray
          moves

vars == <<up, provider, token, repos, store, call, late, read, held, wanted, unsure, moves>>

Move == moves < MaxMoves /\ moves' = moves + 1
NoMove == UNCHANGED moves

Configs == {FromEnv(d.env, d.files) : d \in Deployments}
Loaded == {WithCli(c[2], FALSE) : c \in Configs \ {Err}}
Place == {PlaceOf[n] : n \in Name}
Nothing == [value |-> "nothing", token |-> "nothing"]
NoCall == [at |-> "idle"]
NoRead == [at |-> "idle"]

\* What a manager lists: OpenBao's folders are left out.
Unlisted == IF provider = "openbao" THEN Nested ELSE {}
Names(place) == {k \in SecretName \ Unlisted : store[place][k] # Nothing}

-----------------------------------------------------------------------------
(* Repositories and how a call names them.                                 *)

Register(n) ==
    /\ n \notin {repos[i] : i \in DOMAIN repos} /\ Move
    /\ repos' = Append(repos, n)
    /\ UNCHANGED <<up, provider, token, store, call, late, read, held, wanted, unsure>>

\* The repository a URI stands for: the only one of the DID, or the one named
\* like the record key, or the first.
Chosen_First(n) == repos[1]
Chosen(n) == LET named == {i \in DOMAIN repos : repos[i] = RkeyOf[n]}
             IN  IF Len(repos) = 1 \/ named = {} THEN repos[1] ELSE repos[Min(named)]

Resolved(ref) == IF ref.uri THEN Chosen(ref.meant) ELSE ref.meant
Resolvable(ref) == ref.uri => repos # <<>>

\* When the URI leaves no doubt.
Certain(ref) == \/ ~ref.uri
                \/ repos = <<ref.meant>>
                \/ Len(repos) > 1 /\ RkeyOf[ref.meant] = ref.meant
                   /\ \E i \in DOMAIN repos : repos[i] = ref.meant

-----------------------------------------------------------------------------
(* The calls.                                                              *)

Call(c, o) ==
    /\ up /\ call[c].at = "idle" /\ Move
    /\ call' = [call EXCEPT ![c] = [at |-> "auth", order |-> o]]
    /\ UNCHANGED <<up, provider, token, repos, store, late, read, held, wanted, unsure>>

Granted(o) ==
    [at |-> "resolve", method |-> o.method, ref |-> o.ref, name |-> o.name, value |-> o.value]
CheckCaller(c) ==
    /\ call[c].at = "auth"
    /\ call' = [call EXCEPT ![c] = IF Authenticate(@.order.request, token).status = 200
                                   THEN Granted(@.order) ELSE NoCall]
    /\ UNCHANGED <<up, provider, token, repos, store, late, read, held, wanted, unsure, moves>>

Resolve(c) ==
    /\ call[c].at = "resolve"
    /\ call' = [call EXCEPT ![c] =
                   IF Resolvable(@.ref)
                   THEN [at |-> "act", method |-> @.method, ref |-> @.ref, name |-> @.name,
                         value |-> @.value, repo |-> Resolved(@.ref), astray |-> ~Certain(@.ref)]
                   ELSE NoCall]
    /\ UNCHANGED <<up, provider, token, repos, store, late, read, held, wanted, unsure, moves>>

\* What a call x makes of the manager's: SQLite's row has the value under the key of
\* the token, which the new one replaces; OpenBao has the value itself.
Encrypted(v) == [value |-> v, token |-> token]
Plain(v) == [value |-> v, token |-> "nothing"]
Cell(x) == IF x.method = "delete" THEN Nothing
           ELSE IF provider = "sqlite" THEN Encrypted(x.value) ELSE Plain(x.value)
Change(c) == [id |-> <<moves, c>>, place |-> PlaceOf[call[c].repo], name |-> call[c].name,
              cell |-> Cell(call[c])]
Changed(e) == [store EXCEPT ![e.place][e.name] = e.cell]
Changing(x) == x.at = "act" /\ x.method # "list"

Noted(new) == IF read.at \in {"list", "get"}
              THEN [k \in SecretName |-> held[k] \cup {new[read.place][k].value}] ELSE held

Spots(x) == {PlaceOf[x.repo], PlaceOf[x.ref.meant]} \X {x.name}
LateSpots == {<<e.place, e.name>> : e \in late}

Act(c) ==
    LET x == call[c]
    IN  /\ Changing(x)
        /\ store' = Changed(Change(c)) /\ NoMove
        /\ wanted' = [wanted EXCEPT ![x.ref.meant][x.name] =
                          IF x.method = "put" THEN x.value ELSE "nothing"]
        /\ unsure' = IF x.astray THEN unsure \cup Spots(x) ELSE (unsure \ Spots(x)) \cup LateSpots
        /\ held' = Noted(store') /\ call' = [call EXCEPT ![c] = NoCall]
        /\ UNCHANGED <<up, provider, token, repos, late, read>>

\* An error, an answer that was lost, or a caller that hung up: the change is
\* not made, or it goes on.
ActFails(c) ==
    LET x == call[c]
    IN  /\ Changing(x) /\ Move
        /\ late' \in {late, late \cup {Change(c)}}
        /\ unsure' = unsure \cup Spots(x) /\ call' = [call EXCEPT ![c] = NoCall]
        /\ UNCHANGED <<up, provider, token, repos, store, read, held, wanted>>

\* Such a change is made; OpenBao's server does not stop with the spindle.
Lands(e) ==
    /\ up \/ provider = "openbao"
    /\ store' = Changed(e) /\ late' = late \ {e} /\ held' = Noted(store')
    /\ UNCHANGED <<up, provider, token, repos, call, read, wanted, unsure, moves>>

\* list_secrets: the names, with either manager; an error is an answer too.  (sought
\* says of each name whether the list may have it.)
List(c) ==
    /\ call[c].at = "act" /\ call[c].method = "list"
    /\ \/ NoMove /\ call' = [call EXCEPT ![c] =
              [at |-> "listed", repo |-> @.repo, astray |-> @.astray,
               names |-> Names(PlaceOf[@.repo]),
               sought |-> [k \in SecretName |->
                              IF <<PlaceOf[@.repo], k>> \in unsure THEN BOOLEAN
                              ELSE {wanted[@.ref.meant][k] # "nothing"}]]]
       \/ Move /\ call' = [call EXCEPT ![c] = NoCall]
    /\ UNCHANGED <<up, provider, token, repos, store, late, read, held, wanted, unsure>>

Answer(c) ==
    /\ call[c].at = "listed" /\ call' = [call EXCEPT ![c] = NoCall]
    /\ UNCHANGED <<up, provider, token, repos, store, late, read, held, wanted, unsure, moves>>

-----------------------------------------------------------------------------
(* The read by execute_pipeline, of a registered repository.               *)

Without == [k \in SecretName |-> "nothing"]
Anything == Value \cup {"nothing"}

BeginRead(n) ==
    /\ up /\ read.at \in {"idle", "done"} /\ Move
    /\ n \in {repos[i] : i \in DOMAIN repos}
    /\ read' = [at |-> "list", repo |-> n, place |-> PlaceOf[n], left |-> {}, got |-> Without,
                blank |-> {}, ok |-> FALSE,
                sought |-> [k \in SecretName |-> IF <<PlaceOf[n], k>> \in unsure THEN Anything
                                                 ELSE {wanted[n][k]}]]
    /\ held' = [k \in SecretName |-> {store[PlaceOf[n]][k].value}]
    /\ UNCHANGED <<up, provider, token, repos, store, call, late, wanted, unsure>>

\* SQLite: the rows of the repository, each decrypted; one that cannot be
\* fails the read.
ReadRows ==
    /\ read.at = "list" /\ provider = "sqlite"
    /\ LET rows == store[read.place]
           readable == \A k \in Names(read.place) : rows[k].token = token
       IN  read' = [read EXCEPT !.at = "done", !.ok = readable,
                        !.got = IF readable THEN [k \in SecretName |-> rows[k].value] ELSE Without]
    /\ UNCHANGED <<up, provider, token, repos, store, call, late, held, wanted, unsure, moves>>

\* OpenBao: the names, then the values in their order; no names, no values.
ListNames ==
    /\ read.at = "list" /\ provider = "openbao"
    /\ read' = [read EXCEPT !.at = IF Names(read.place) = {} THEN "done" ELSE "get",
                    !.left = Names(read.place), !.got = Without, !.ok = TRUE]
    /\ UNCHANGED <<up, provider, token, repos, store, call, late, held, wanted, unsure, moves>>

\* A value that is gone by now is left out; an answer without a value, of a secret
\* that was written by others, counts as an empty one.
Got_Default(k) == IF store[read.place][k] = Nothing THEN "" ELSE store[read.place][k].value
Got(k) == store[read.place][k].value

GetValue ==
    /\ read.at = "get"
    /\ \E k \in read.left :
           \/ /\ read' = [read EXCEPT !.left = @ \ {k}, !.got[k] = Got(k),
                                       !.at = IF read.left = {k} THEN "done" ELSE "get"]
              /\ NoMove
           \/ /\ read' = [read EXCEPT !.left = @ \ {k}, !.got[k] = "", !.blank = @ \cup {k},
                                       !.at = IF read.left = {k} THEN "done" ELSE "get"]
              /\ Move
    /\ UNCHANGED <<up, provider, token, repos, store, call, late, held, wanted, unsure>>

\* An error: the pipeline runs without secrets.
ReadFails ==
    /\ read.at \in {"list", "get"} /\ Move
    /\ read' = [read EXCEPT !.at = "done", !.ok = FALSE, !.left = {}, !.got = Without]
    /\ UNCHANGED <<up, provider, token, repos, store, call, late, held, wanted, unsure>>

-----------------------------------------------------------------------------
(* The process.  A read or a call in the middle ends with it; of the       *)
(* changes on their way those go on that OpenBao has been asked for.       *)

Acting == {c \in Caller : Changing(call[c])}

Stop ==
    /\ up /\ Move /\ up' = FALSE
    /\ late' = IF provider = "sqlite" THEN {} ELSE late \cup {Change(c) : c \in Acting}
    /\ unsure' = unsure \cup UNION {Spots(call[c]) : c \in Acting}
    /\ call' = [c \in Caller |-> NoCall] /\ read' = NoRead
    /\ UNCHANGED <<provider, token, repos, store, held, wanted>>

\* The key of SQLite's values is made of the token.
OpenManager(config) == token' = config.server.token[2]

\* A start that finds no configuration ends at once.  The manager stays the same.
Start ==
    /\ ~up
    /\ \E c \in Loaded : c.secrets.provider = provider /\ OpenManager(c)
    /\ up' = TRUE
    /\ UNCHANGED <<provider, repos, store, call, late, read, held, wanted, unsure, moves>>

StartFails ==
    /\ ~up /\ Err \in Configs /\ Move
    /\ UNCHANGED <<up, provider, token, repos, store, call, late, read, held, wanted, unsure>>

Init ==
    /\ up = TRUE /\ repos \in Registered
    /\ \E c \in Loaded : provider = c.secrets.provider /\ token = c.server.token[2]
    /\ store = [p \in Place |-> [k \in SecretName |-> Nothing]]
    /\ call = [c \in Caller |-> NoCall] /\ late = {} /\ read = NoRead
    /\ held = [k \in SecretName |-> {}]
    /\ wanted = [n \in Name |-> [k \in SecretName |-> "nothing"]]
    /\ unsure = {} /\ moves = 0

Next == \/ \E n \in Name : Register(n) \/ BeginRead(n)
        \/ \E c \in Caller, o \in Orders : Call(c, o)
        \/ \E c \in Caller : \/ CheckCaller(c) \/ Resolve(c) \/ Act(c) \/ ActFails(c)
                              \/ List(c) \/ Answer(c)
        \/ \E e \in late : Lands(e)
        \/ ReadRows \/ ListNames \/ GetValue \/ ReadFails
        \/ Stop \/ Start \/ StartFails

Spec == Init /\ [][Next]_vars

-----------------------------------------------------------------------------
(* Properties.                                                             *)

\* Every variable keeps its type.
TypeOK ==
    /\ up \in BOOLEAN /\ provider \in {"sqlite", "openbao"}
    /\ token \in {c.server.token[2] : c \in Loaded} /\ repos \in Seq(Name)
    /\ store \in [Place -> [SecretName -> [value : Value \cup {"nothing"},
                                            token : {c.server.token[2] : c \in Loaded}
                                                    \cup {"nothing"}]]]
    /\ DOMAIN call = Caller
    /\ \A c \in Caller : call[c].at \in {"idle", "auth", "resolve", "act", "listed"}
    /\ \A e \in late : e.place \in Place /\ e.name \in SecretName
    /\ read.at \in {"idle", "list", "get", "done"}
    /\ held \in [SecretName -> SUBSET (Value \cup {"nothing"})]
    /\ wanted \in [Name -> [SecretName -> Value \cup {"nothing"}]]
    /\ unsure \subseteq Place \X SecretName /\ moves \in 0..MaxMoves

Alone(n) == \A m \in Name : PlaceOf[m] = PlaceOf[n] => m = n

\* A secret whose change was answered 200 is what the pipelines of the
\* repository the caller meant see from then on, and what a list of it names,
\* and one that was deleted is neither, whichever way the repository was named,
\* whatever was registered meanwhile, whoever else calls and however often the
\* spindle restarted: unless the name left a doubt, the read met an error or a
\* change, or a change met an error or was hung up, for then it may still be made
\* after those that are answered later.  OpenBao neither lists nor gives a key with
\* a slash, and an answer of it may lack the value (resolve_repo_path, put_secret,
\* delete_secret, list_secrets, get_secrets_unlocked).
PutIsSeen ==
    /\ TypeOK
    /\ read.at = "done" /\ read.ok /\ Alone(read.repo) =>
           \A k \in SecretName \ (Unlisted \cup read.blank) :
               Cardinality(held[k]) = 1 => read.got[k] \in read.sought[k]
    /\ \A c \in Caller :
           call[c].at = "listed" /\ ~call[c].astray /\ Alone(call[c].repo) =>
               \A k \in SecretName \ Unlisted : (k \in call[c].names) \in call[c].sought[k]

\* However reads and changes interleave, a read that succeeds gives the
\* pipeline of each secret a value that was stored, or its absence, at some
\* time during the read, never a value nobody stored, but for the empty one
\* where an answer of OpenBao lacks it; and of a key with a slash OpenBao gives
\* nothing (get_secrets_unlocked of both managers; OpenBao's lists the names
\* first and reads them one by one).
ReadIsCurrent ==
    read.at = "done" /\ read.ok => \A k \in SecretName \ read.blank :
        read.got[k] \in held[k] \/ (k \in Unlisted /\ read.got[k] = "nothing")
=============================================================================
