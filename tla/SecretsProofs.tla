--------------------------- MODULE SecretsProofs ----------------------------
(***************************************************************************)
(* What a pipeline reads was stored while it read, and what an answered call *)
(* changed is what later reads and lists find: for every set of repositories, *)
(* record keys, paths, secrets and values, every deployment, and any number of *)
(* calls, registrations, errors and restarts, with both managers.  ReadInv is *)
(* inductive by itself; it says what was gathered so far of a read that goes *)
(* on.  SecretsInv adds what the answers rest on: a place has what was wanted *)
(* last unless a change of it failed or went astray (AsWanted), or may still *)
(* be made (LateInv), a name that leaves no doubt is resolved to what was   *)
(* meant (CallInv), and what a read holds meets what it seeks (Sought).     *)
(***************************************************************************)
EXTENDS Secrets, FiniteSetTheorems, WellFoundedInduction, TLAPS

ReadFields == {"at", "repo", "place", "left", "got", "blank", "ok", "sought"}

\* What a read may give of a secret.
Fine(k) == read.got[k] \in held[k] \/ (k \in Unlisted /\ read.got[k] = "nothing")

\* What is in the store is among what was held since the read began; what was
\* gathered, too, and of the names that are left nothing was.
ReadInv ==
    /\ read # NoRead => DOMAIN read = ReadFields
    /\ read.at \in {"list", "get"} =>
           \A k \in SecretName : store[read.place][k].value \in held[k]
    /\ read.at = "get" => \A k \in SecretName \ (read.left \cup read.blank) : Fine(k)
    /\ read.at = "get" => DOMAIN read.got = SecretName
    /\ read.at = "done" /\ read.ok => \A k \in SecretName \ read.blank : Fine(k)

\* A call that acts names the repository it was resolved to, and that is the one it
\* meant where the name left no doubt; a list was told the names it may have.
CallOk(x) ==
    /\ x.at \in {"idle", "auth", "resolve", "act", "listed"}
    /\ x.at = "auth" => x.order \in Orders
    /\ x.at \in {"resolve", "act"} =>
           /\ x.method \in {"put", "delete", "list"} /\ x.ref.meant \in Name
           /\ x.method # "list" => x.name \in SecretName
           /\ x.method = "put" => x.value \in Value
    /\ x.at = "act" =>
           /\ x.repo \in Name /\ x.astray \in BOOLEAN
           /\ ~x.astray => x.repo = x.ref.meant
    /\ x.at = "listed" /\ ~x.astray /\ Alone(x.repo) =>
           \A k \in SecretName \ Unlisted : (k \in x.names) \in x.sought[k]
CallInv == DOMAIN call = Caller /\ \A c \in Caller : CallOk(call[c])

\* A change that may still be made is of one secret in one place, which is in doubt.
Tokens == {c.server.token[2] : c \in Loaded}
Cells == [value : Anything, token : Tokens \cup {"nothing"}]
IsChange(e) ==
    /\ e.place \in Place /\ e.name \in SecretName
    /\ e.cell \in Cells /\ (e.cell # Nothing => e.cell.value \in Value)
LateInv == \A e \in late : IsChange(e) /\ <<e.place, e.name>> \in unsure

\* A place has a value of a secret, or nothing at all.
StoreInv ==
    \A p \in Place, k \in SecretName :
        store[p][k] # Nothing => store[p][k].value \in Value

\* Unless a change of it failed or went astray, a place has what was last wanted.
AsWanted ==
    \A n \in Name, k \in SecretName :
        Alone(n) /\ <<PlaceOf[n], k>> \notin unsure => store[PlaceOf[n]][k].value = wanted[n][k]

\* A read holds of each secret a value that it may find.
Sought ==
    read.at \in {"list", "get", "done"} =>
        /\ read.repo \in Name /\ read.place = PlaceOf[read.repo]
        /\ \A k \in SecretName : IsFiniteSet(held[k])
        /\ Alone(read.repo) => \A k \in SecretName : \E v \in held[k] : v \in read.sought[k]

SecretsInv == TypeOK /\ CallInv /\ LateInv /\ StoreInv /\ AsWanted /\ Sought /\ ReadInv

-----------------------------------------------------------------------------
(* The steps                                                               *)

\* A change of the store, if there is any, is noted by a read that goes on.
LEMMA ChangeStep ==
    ASSUME ReadInv, provider' = provider, read' = read,
           held' = Noted(store') \/ UNCHANGED <<store, held>>
    PROVE  ReadInv'
<1>0. Unlisted' = Unlisted
  BY DEF Unlisted
<1>1. CASE UNCHANGED <<store, held>>
  BY <1>0, <1>1 DEF ReadInv, Fine, NoRead
<1>2. CASE held' = Noted(store')
  <2>1. CASE read.at \in {"list", "get"}
    <3>1. \A k \in SecretName : held'[k] = held[k] \cup {store'[read.place][k].value}
      BY <1>2, <2>1 DEF Noted
    <3> QED
      BY <1>0, <2>1, <3>1 DEF ReadInv, Fine, NoRead
  <2>2. CASE read.at \notin {"list", "get"}
    BY <1>0, <1>2, <2>2 DEF ReadInv, Fine, NoRead, Noted
  <2> QED
    BY <2>1, <2>2
<1> QED
  BY <1>1, <1>2

\* A read begins: what is in the store is held.
LEMMA BeginReadStep == ASSUME ReadInv, NEW n \in Name, BeginRead(n) PROVE ReadInv'
<1>1. /\ read'.at = "list" /\ read'.place = PlaceOf[n] /\ DOMAIN read' = ReadFields
      /\ store' = store /\ held' = [k \in SecretName |-> {store[PlaceOf[n]][k].value}]
  BY DEF BeginRead, ReadFields
<1> QED
  BY <1>1 DEF ReadInv

\* SQLite's rows are read at once.
LEMMA ReadRowsStep == ASSUME ReadInv, ReadRows PROVE ReadInv'
<1>1. DOMAIN read = ReadFields /\ UNCHANGED <<store, held>>
  BY DEF ReadInv, ReadRows, NoRead
<1>2. /\ DOMAIN read' = ReadFields /\ read'.at = "done"
      /\ read'.ok => read'.got = [k \in SecretName |-> store[read.place][k].value]
  BY <1>1 DEF ReadRows, ReadFields
<1>3. \A k \in SecretName : store[read.place][k].value \in held[k]
  BY DEF ReadInv, ReadRows
<1>4. read'.ok => \A k \in SecretName : read'.got[k] \in held[k]
  BY <1>2, <1>3
<1> QED
  BY <1>1, <1>2, <1>4 DEF ReadInv, Fine

\* OpenBao's names are listed; who has no value is held without one.
LEMMA ListNamesStep == ASSUME ReadInv, ListNames PROVE ReadInv'
<1>1. DOMAIN read = ReadFields /\ UNCHANGED <<store, held>>
  BY DEF ReadInv, ListNames, NoRead
<1>2. /\ DOMAIN read' = ReadFields /\ read'.place = read.place
      /\ read'.at = (IF Names(read.place) = {} THEN "done" ELSE "get")
      /\ read'.left = Names(read.place) /\ read'.got = Without
  BY <1>1 DEF ListNames, ReadFields
<1>3. \A k \in SecretName : store[read.place][k].value \in held[k]
  BY DEF ReadInv, ListNames
<1>4. \A k \in SecretName \ Names(read.place) :
          k \in Unlisted \/ store[read.place][k].value = "nothing"
  BY DEF Names, Nothing
<1>5. Unlisted' = Unlisted
  BY DEF ListNames, Unlisted
<1> QED
  BY <1>1, <1>2, <1>3, <1>4, <1>5 DEF ReadInv, Fine, Without

\* A value is fetched.
LEMMA GetValueStep == ASSUME ReadInv, GetValue PROVE ReadInv'
<1>1. /\ DOMAIN read = ReadFields /\ UNCHANGED <<store, held>> /\ read.at = "get"
      /\ DOMAIN read.got = SecretName /\ Unlisted' = Unlisted
  BY DEF ReadInv, GetValue, NoRead, Unlisted
<1>2. PICK k \in read.left : \E v :
          /\ DOMAIN read' = ReadFields /\ read'.place = read.place
          /\ read'.at = (IF read.left = {k} THEN "done" ELSE "get")
          /\ read'.left = read.left \ {k}
          /\ read'.got = [read.got EXCEPT ![k] = v]
          /\ read.blank \subseteq read'.blank
          /\ k \in read'.blank \/ v = store[read.place][k].value
  <2>1. PICK k \in read.left :
            \/ read' = [read EXCEPT !.left = @ \ {k}, !.got[k] = Got(k),
                                    !.at = IF read.left = {k} THEN "done" ELSE "get"]
            \/ read' = [read EXCEPT !.left = @ \ {k}, !.got[k] = "", !.blank = @ \cup {k},
                                    !.at = IF read.left = {k} THEN "done" ELSE "get"]
    BY DEF GetValue
  <2>2. /\ DOMAIN read' = ReadFields /\ read'.place = read.place
        /\ read'.at = (IF read.left = {k} THEN "done" ELSE "get")
        /\ read'.left = read.left \ {k}
        /\ \/ /\ read'.got = [read.got EXCEPT ![k] = store[read.place][k].value]
              /\ read'.blank = read.blank
           \/ read'.got = [read.got EXCEPT ![k] = ""] /\ read'.blank = read.blank \cup {k}
    BY <1>1, <2>1 DEF ReadFields, Got
  <2> QED
    BY <2>2
<1>3. \A m \in SecretName : store[read.place][m].value \in held[m]
  BY <1>1 DEF ReadInv
<1>4. \A m \in SecretName \ (read.left \cup read.blank) : Fine(m)
  BY <1>1 DEF ReadInv
<1>5. \A m \in SecretName \ (read'.left \cup read'.blank) : Fine(m)'
  <2> TAKE m \in SecretName \ (read'.left \cup read'.blank)
  <2>1. CASE m = k
    BY <1>1, <1>2, <1>3, <2>1 DEF Fine
  <2>2. CASE m # k
    <3>1. m \notin read.left \cup read.blank /\ read'.got[m] = read.got[m]
      BY <1>1, <1>2, <2>2
    <3> QED
      BY <1>1, <1>4, <3>1 DEF Fine
  <2> QED
    BY <2>1, <2>2
<1>6. DOMAIN read'.got = SecretName /\ (read'.at = "done" => read'.left = {})
  BY <1>1, <1>2
<1> QED
  BY <1>1, <1>2, <1>3, <1>5, <1>6 DEF ReadInv

\* A read fails, or the process ends.
LEMMA EndsStep == ASSUME ReadInv, ReadFails \/ Stop PROVE ReadInv'
<1>1. CASE ReadFails
  <2>1. DOMAIN read = ReadFields
    BY <1>1 DEF ReadInv, ReadFails, NoRead
  <2>2. DOMAIN read' = ReadFields /\ read'.at = "done" /\ read'.ok = FALSE
    BY <1>1, <2>1 DEF ReadFails, ReadFields
  <2> QED
    BY <2>2 DEF ReadInv
<1>2. CASE Stop
  <2>1. read' = NoRead
    BY <1>2 DEF Stop
  <2> QED
    BY <2>1 DEF ReadInv, NoRead
<1> QED
  BY <1>1, <1>2

-----------------------------------------------------------------------------
(* What the steps do                                                       *)

\* What a manager may be.
LEMMA ProviderOfLoaded == \A c \in Loaded : c.secrets.provider \in {"sqlite", "openbao"}
<1> SUFFICES ASSUME NEW d \in Deployments, FromEnv(d.env, d.files) # Err
             PROVE  WithCli(FromEnv(d.env, d.files)[2], FALSE).secrets.provider
                        \in {"sqlite", "openbao"}
  BY DEF Loaded, Configs
<1> DEFINE v == EnvOrDefault(d.env, "SECRETS_PROVIDER", Text("sqlite"))
           x == FromEnv(d.env, d.files)[2]
<1>1. SecretsProvider(v) # Err => SecretsProvider(v)[2] \in {"sqlite", "openbao"}
  <2>1. SecretsProvider(v) \in {<<"ok", "sqlite">>, <<"ok", "openbao">>, Err}
    BY DEF SecretsProvider, Ok
  <2> QED
    BY <2>1
<1>2. /\ SecretsProvider(v) # Err
      /\ x.secrets = [provider |-> SecretsProvider(v)[2]] /\ DOMAIN x = {"server", "engine", "secrets"}
  BY DEF FromEnv, Loads, LoadSecretsConfig, Fields, Ok
<1>3. WithCli(x, FALSE).secrets = x.secrets
  BY <1>2 DEF WithCli
<1>4. x.secrets.provider = SecretsProvider(v)[2]
  BY <1>2
<1> HIDE DEF v
<1> QED
  BY <1>1, <1>2, <1>3, <1>4

\* A non-empty set of positions has a smallest one.
LEMMA MinOfPositions ==
    ASSUME NEW T, T \subseteq Nat, T # {}
    PROVE  Min(T) \in T
<1>1. \E x \in T : \A y \in T : ~(<<y, x>> \in OpToRel(<, Nat))
  BY WFMin, NatLessThanWellFounded
<1>2. \A x, y \in T : <<y, x>> \notin OpToRel(<, Nat) => x =< y
  BY DEF OpToRel
<1>3. \E x \in T : \A y \in T : x =< y
  BY <1>1, <1>2
<1> QED
  BY <1>3 DEF Min

\* A name that can be resolved is resolved to a repository, and where it leaves no
\* doubt, to the one that was meant.
LEMMA WhatIsResolved ==
    ASSUME TypeOK, NEW ref, ref.meant \in Name, Resolvable(ref)
    PROVE  Resolved(ref) \in Name /\ (Certain(ref) => Resolved(ref) = ref.meant)
<1> DEFINE m == ref.meant
           named == {i \in DOMAIN repos : repos[i] = RkeyOf[m]}
<1>1. CASE ~ref.uri
  BY <1>1 DEF Resolved
<1>2. CASE ref.uri
  <2>1. repos \in Seq(Name) /\ repos # <<>> /\ Resolved(ref) = Chosen(m)
    BY <1>2 DEF Resolvable, Resolved, TypeOK
  <2>2. repos[1] \in Name /\ (repos = <<m>> => Len(repos) = 1 /\ repos[1] = m)
    BY <2>1
  <2>3. named # {} => Min(named) \in named
    <3>1. named \subseteq Nat
      BY <2>1
    <3> HIDE DEF named
    <3> QED
      BY <3>1, MinOfPositions
  <2>4. named # {} => repos[Min(named)] = RkeyOf[m] /\ repos[Min(named)] \in Name
    BY <2>1, <2>3
  <2>5. Chosen(m) = IF Len(repos) = 1 \/ named = {} THEN repos[1] ELSE repos[Min(named)]
    BY DEF Chosen
  <2> HIDE DEF named
  <2>6. Chosen(m) \in Name
    BY <2>2, <2>4, <2>5
  <2>7. ASSUME Len(repos) > 1, RkeyOf[m] = m, \E i \in DOMAIN repos : repos[i] = m
        PROVE  Chosen(m) = m
    BY <2>1, <2>4, <2>5, <2>7 DEF named
  <2> QED
    BY <1>2, <2>1, <2>2, <2>5, <2>6, <2>7 DEF Certain
<1> QED
  BY <1>1, <1>2

\* What a change wants: a value, or none.
Wish(x) == IF x.method = "put" THEN x.value ELSE "nothing"

\* A call's change is of one secret in one place.
LEMMA WhatACallChanges ==
    ASSUME TypeOK, CallInv, NEW c \in Caller, Changing(call[c])
    PROVE  /\ call[c].repo \in Name /\ call[c].ref.meant \in Name
           /\ call[c].name \in SecretName /\ call[c].astray \in BOOLEAN
           /\ ~call[c].astray => call[c].repo = call[c].ref.meant
           /\ Wish(call[c]) \in Anything /\ IsChange(Change(c))
           /\ Change(c).place = PlaceOf[call[c].repo] /\ Change(c).name = call[c].name
           /\ Change(c).cell.value = Wish(call[c])
           /\ Spots(call[c]) \subseteq Place \X SecretName
<1> DEFINE x == call[c]
<1>1. /\ x.repo \in Name /\ x.ref.meant \in Name /\ x.name \in SecretName
      /\ x.method \in {"put", "delete"} /\ (x.method = "put" => x.value \in Value)
      /\ x.astray \in BOOLEAN /\ (~x.astray => x.repo = x.ref.meant)
  BY DEF CallInv, CallOk, Changing
<1>2. token \in Tokens
  BY DEF TypeOK, Tokens
<1> HIDE DEF x
<1>3. /\ Cell(x) \in Cells /\ Cell(x).value = Wish(x) /\ Wish(x) \in Anything
      /\ (Cell(x) # Nothing => Cell(x).value \in Value)
  <2>1. CASE x.method = "delete"
    BY <2>1 DEF Cell, Cells, Nothing, Wish, Anything
  <2>2. CASE x.method = "put"
    BY <1>1, <1>2, <2>2 DEF Cell, Cells, Encrypted, Plain, Wish, Anything
  <2> QED
    BY <1>1, <2>1, <2>2
<1>4. /\ Change(c).place = PlaceOf[x.repo] /\ Change(c).name = x.name /\ Change(c).cell = Cell(x)
  BY DEF Change, x
<1>5. PlaceOf[x.repo] \in Place /\ PlaceOf[x.ref.meant] \in Place
  BY <1>1 DEF Place
<1>6. IsChange(Change(c))
  BY <1>1, <1>3, <1>4, <1>5 DEF IsChange
<1>7. Spots(x) \subseteq Place \X SecretName
  BY <1>1, <1>5 DEF Spots
<1> QED
  BY <1>1, <1>3, <1>4, <1>6, <1>7 DEF x

\* It changes nothing else.
LEMMA WhatIsChanged ==
    ASSUME TypeOK, StoreInv, NEW e, IsChange(e)
    PROVE  /\ Changed(e) \in [Place -> [SecretName -> Cells]]
           /\ \A p \in Place, k \in SecretName :
                  Changed(e)[p][k] = IF p = e.place /\ k = e.name THEN e.cell ELSE store[p][k]
<1>1. store \in [Place -> [SecretName -> Cells]]
  BY DEF TypeOK, Cells, Anything, Tokens
<1>2. e.place \in Place /\ e.name \in SecretName /\ e.cell \in Cells
  BY DEF IsChange
<1> QED
  BY <1>1, <1>2 DEF Changed

\* A step that leaves the tables as they are.
Quiet == UNCHANGED <<store, wanted, unsure, late>>

\* What a step is to the tables.
LEMMA StoreCases ==
    ASSUME [Next]_vars
    PROVE  \/ \E c \in Caller : Act(c) \/ ActFails(c)
           \/ \E e \in late : Lands(e)
           \/ Stop \/ Quiet
<1>1. ASSUME NEW n \in Name, Register(n) \/ BeginRead(n) PROVE Quiet
  BY <1>1 DEF Register, BeginRead, Quiet
<1>2. ASSUME NEW c \in Caller, NEW o \in Orders, Call(c, o) PROVE Quiet
  BY <1>2 DEF Call, Quiet
<1>3. ASSUME NEW c \in Caller, CheckCaller(c) \/ Resolve(c) \/ List(c) \/ Answer(c) PROVE Quiet
  BY <1>3 DEF CheckCaller, Resolve, List, Answer, Quiet
<1>4. CASE ReadRows \/ ListNames \/ GetValue \/ ReadFails
  BY <1>4 DEF ReadRows, ListNames, GetValue, ReadFails, Quiet
<1>5. CASE Start \/ StartFails \/ UNCHANGED vars
  BY <1>5 DEF Start, StartFails, vars, Quiet
<1> QED
  BY <1>1, <1>2, <1>3, <1>4, <1>5 DEF Next

\* The call that acts is over, and what it wanted is what its repository is to have.
LEMMA ActFacts ==
    ASSUME NEW c \in Caller, Act(c)
    PROVE  /\ Changing(call[c]) /\ store' = Changed(Change(c))
           /\ wanted' = [wanted EXCEPT ![call[c].ref.meant][call[c].name] = Wish(call[c])]
           /\ unsure' = IF call[c].astray THEN unsure \cup Spots(call[c])
                        ELSE (unsure \ Spots(call[c])) \cup LateSpots
           /\ late' = late
  BY DEF Act, Wish

\* Those that act when the process stops leave their spots in doubt.
LEMMA StopFacts ==
    ASSUME TypeOK, CallInv, Stop
    PROVE  /\ UNCHANGED <<store, wanted>> /\ unsure \subseteq unsure'
           /\ unsure' \subseteq unsure \cup (Place \X SecretName)
           /\ \A e \in late' : \/ e \in late
                               \/ IsChange(e) /\ <<e.place, e.name>> \in unsure'
<1>1. /\ UNCHANGED <<store, wanted>>
      /\ unsure' = unsure \cup UNION {Spots(call[c]) : c \in Acting}
      /\ late' \subseteq late \cup {Change(c) : c \in Acting}
  BY DEF Stop
<1>2. ASSUME NEW c \in Acting
      PROVE  /\ Spots(call[c]) \subseteq Place \X SecretName /\ IsChange(Change(c))
             /\ <<Change(c).place, Change(c).name>> \in Spots(call[c])
  <2>1. c \in Caller /\ Changing(call[c])
    BY DEF Acting
  <2> QED
    BY <2>1, WhatACallChanges DEF Spots
<1>3. UNION {Spots(call[c]) : c \in Acting} \subseteq Place \X SecretName
  BY <1>2
<1>4. ASSUME NEW e \in late', e \notin late
      PROVE  IsChange(e) /\ <<e.place, e.name>> \in unsure'
  <2>1. PICK c \in Acting : e = Change(c)
    BY <1>1, <1>4
  <2> QED
    BY <1>1, <1>2, <2>1
<1> QED
  BY <1>1, <1>3, <1>4

\* The tables keep their types.
LEMMA TablesStep ==
    ASSUME TypeOK, CallInv, LateInv, StoreInv, [Next]_vars
    PROVE  /\ store' \in [Place -> [SecretName -> Cells]]
           /\ wanted' \in [Name -> [SecretName -> Anything]]
           /\ unsure' \subseteq Place \X SecretName
<1>1. /\ store \in [Place -> [SecretName -> Cells]]
      /\ wanted \in [Name -> [SecretName -> Anything]]
      /\ unsure \subseteq Place \X SecretName
  BY DEF TypeOK, Cells, Anything, Tokens
<1>2. ASSUME NEW c \in Caller, Act(c)
      PROVE  /\ store' \in [Place -> [SecretName -> Cells]]
             /\ wanted' \in [Name -> [SecretName -> Anything]]
             /\ unsure' \subseteq Place \X SecretName
  <2>1. /\ call[c].ref.meant \in Name /\ call[c].name \in SecretName /\ Wish(call[c]) \in Anything
        /\ Spots(call[c]) \subseteq Place \X SecretName /\ IsChange(Change(c))
    BY <1>2, ActFacts, WhatACallChanges
  <2>2. wanted' = [wanted EXCEPT ![call[c].ref.meant][call[c].name] = Wish(call[c])]
    BY <1>2, ActFacts
  <2>3. wanted' \in [Name -> [SecretName -> Anything]]
    BY <1>1, <2>1, <2>2
  <2>4. LateSpots \subseteq Place \X SecretName
    BY DEF LateSpots, LateInv, IsChange
  <2>5. store' = Changed(Change(c)) /\ Changed(Change(c)) \in [Place -> [SecretName -> Cells]]
    BY <1>2, <2>1, ActFacts, WhatIsChanged
  <2>6. unsure' \subseteq Place \X SecretName
    <3>1. unsure' = IF call[c].astray THEN unsure \cup Spots(call[c])
                    ELSE (unsure \ Spots(call[c])) \cup LateSpots
      BY <1>2, ActFacts
    <3> QED
      BY <1>1, <2>1, <2>4, <3>1
  <2> QED
    BY <2>3, <2>5, <2>6
<1>3. ASSUME NEW c \in Caller, ActFails(c)
      PROVE  UNCHANGED <<store, wanted>> /\ unsure' \subseteq Place \X SecretName
  <2>1. Changing(call[c]) /\ UNCHANGED <<store, wanted>> /\ unsure' = unsure \cup Spots(call[c])
    BY <1>3 DEF ActFails
  <2> QED
    BY <1>1, <2>1, WhatACallChanges
<1>4. ASSUME NEW e \in late, Lands(e)
      PROVE  UNCHANGED <<wanted, unsure>> /\ store' \in [Place -> [SecretName -> Cells]]
  BY <1>4, WhatIsChanged DEF Lands, LateInv
<1>5. CASE Stop
  BY <1>1, <1>5, StopFacts
<1>6. CASE Quiet
  BY <1>1, <1>6 DEF Quiet
<1> QED
  BY <1>1, <1>2, <1>3, <1>4, <1>5, <1>6, StoreCases

\* A place keeps having a value or nothing.
LEMMA StoreInvStep ==
    ASSUME TypeOK, CallInv, LateInv, StoreInv, [Next]_vars
    PROVE  StoreInv'
<1>1. ASSUME UNCHANGED store PROVE StoreInv'
  BY <1>1 DEF StoreInv
<1>2. ASSUME NEW e, IsChange(e), store' = Changed(e) PROVE StoreInv'
  <2> SUFFICES ASSUME NEW p \in Place, NEW k \in SecretName, Changed(e)[p][k] # Nothing
               PROVE  Changed(e)[p][k].value \in Value
    BY <1>2 DEF StoreInv
  <2> QED
    BY <1>2, WhatIsChanged DEF StoreInv, IsChange
<1>3. ASSUME NEW c \in Caller, Act(c) PROVE StoreInv'
  BY <1>2, <1>3, ActFacts, WhatACallChanges
<1>4. ASSUME NEW e \in late, Lands(e) PROVE StoreInv'
  BY <1>2, <1>4 DEF Lands, LateInv
<1>5. ASSUME \/ \E c \in Caller : ActFails(c)
             \/ Stop \/ Quiet
      PROVE  UNCHANGED store
  BY <1>5 DEF ActFails, Stop, Quiet
<1> QED
  BY <1>1, <1>3, <1>4, <1>5, StoreCases

\* What may still be made stays in doubt.
LEMMA LateInvStep ==
    ASSUME TypeOK, CallInv, LateInv, [Next]_vars
    PROVE  LateInv'
<1> SUFFICES ASSUME NEW e \in late' PROVE IsChange(e) /\ <<e.place, e.name>> \in unsure'
  BY DEF LateInv, IsChange
<1>1. ASSUME NEW c \in Caller, Act(c)
      PROVE  e \in late /\ <<e.place, e.name>> \in unsure'
  BY <1>1, ActFacts DEF LateInv, LateSpots
<1>2. ASSUME NEW c \in Caller, ActFails(c)
      PROVE  IsChange(e) /\ <<e.place, e.name>> \in unsure'
  <2>1. /\ Changing(call[c]) /\ late' \subseteq late \cup {Change(c)}
        /\ unsure' = unsure \cup Spots(call[c])
    BY <1>2 DEF ActFails
  <2>2. /\ IsChange(Change(c))
        /\ <<Change(c).place, Change(c).name>> \in Spots(call[c])
    BY <2>1, WhatACallChanges DEF Spots
  <2>3. e \in late \/ e = Change(c)
    BY <2>1
  <2> QED
    BY <2>1, <2>2, <2>3 DEF LateInv
<1>3. ASSUME NEW f \in late, Lands(f)
      PROVE  e \in late /\ unsure' = unsure
  BY <1>3 DEF Lands
<1>4. CASE Stop
  BY <1>4, StopFacts DEF LateInv
<1>5. CASE Quiet
  BY <1>5 DEF Quiet, LateInv
<1> QED
  BY <1>1, <1>2, <1>3, <1>4, <1>5, StoreCases DEF LateInv

\* A place has what was wanted last.
LEMMA AsWantedStep ==
    ASSUME TypeOK, CallInv, LateInv, StoreInv, AsWanted, [Next]_vars
    PROVE  AsWanted'
<1> SUFFICES ASSUME NEW n \in Name, NEW k \in SecretName, Alone(n), <<PlaceOf[n], k>> \notin unsure'
             PROVE  store'[PlaceOf[n]][k].value = wanted'[n][k]
  BY DEF AsWanted, Alone
<1>0. PlaceOf[n] \in Place
  BY DEF Place
<1>1. ASSUME UNCHANGED <<store, wanted>>, unsure \subseteq unsure'
      PROVE  store'[PlaceOf[n]][k].value = wanted'[n][k]
  BY <1>1 DEF AsWanted
<1>2. ASSUME NEW e \in late, Lands(e)
      PROVE  store'[PlaceOf[n]][k].value = wanted'[n][k]
  <2>1. /\ IsChange(e) /\ <<e.place, e.name>> \in unsure /\ store' = Changed(e)
        /\ UNCHANGED <<wanted, unsure>>
    BY <1>2 DEF Lands, LateInv
  <2>2. store'[PlaceOf[n]][k] = store[PlaceOf[n]][k]
    <3>1. Changed(e)[PlaceOf[n]][k] = IF PlaceOf[n] = e.place /\ k = e.name THEN e.cell
                                      ELSE store[PlaceOf[n]][k]
      BY <1>0, <2>1, WhatIsChanged
    <3>2. ~(PlaceOf[n] = e.place /\ k = e.name)
      BY <2>1
    <3> QED
      BY <2>1, <3>1, <3>2
  <2> QED
    BY <2>1, <2>2 DEF AsWanted
<1>3. ASSUME NEW c \in Caller, Act(c)
      PROVE  store'[PlaceOf[n]][k].value = wanted'[n][k]
  <2> DEFINE x == call[c]
             m == call[c].ref.meant
  <2>1. /\ x.repo \in Name /\ m \in Name /\ x.name \in SecretName
        /\ wanted \in [Name -> [SecretName -> Anything]]
        /\ wanted' = [wanted EXCEPT ![m][x.name] = Wish(x)]
        /\ store' = Changed(Change(c)) /\ IsChange(Change(c)) /\ x.astray \in BOOLEAN
        /\ Change(c).place = PlaceOf[x.repo] /\ Change(c).name = x.name
        /\ Change(c).cell.value = Wish(x)
    BY <1>3, ActFacts, WhatACallChanges DEF TypeOK, Anything
  <2>2. wanted'[n][k] = IF n = m /\ k = x.name THEN Wish(x) ELSE wanted[n][k]
    BY <2>1
  <2>3. store'[PlaceOf[n]][k].value = IF PlaceOf[n] = PlaceOf[x.repo] /\ k = x.name
                                       THEN Wish(x) ELSE store[PlaceOf[n]][k].value
    <3>1. Changed(Change(c))[PlaceOf[n]][k] =
              IF PlaceOf[n] = Change(c).place /\ k = Change(c).name THEN Change(c).cell
              ELSE store[PlaceOf[n]][k]
      BY <1>0, <2>1, WhatIsChanged
    <3> QED
      BY <2>1, <3>1
  <2>4. CASE x.astray
    <3>1. <<PlaceOf[n], k>> \notin unsure /\ <<PlaceOf[n], k>> \notin Spots(x)
      BY <1>3, <2>4, ActFacts
    <3>2. ~(PlaceOf[n] = PlaceOf[x.repo] /\ k = x.name) /\ ~(n = m /\ k = x.name)
      BY <3>1 DEF Spots
    <3> QED
      BY <2>2, <2>3, <3>1, <3>2 DEF AsWanted
  <2>5. CASE ~x.astray
    <3>1. x.repo = m
      BY <1>3, <2>5, ActFacts, WhatACallChanges
    <3>2. PlaceOf[n] = PlaceOf[x.repo] <=> n = m
      BY <2>1, <3>1 DEF Alone
    <3>3. CASE n = m /\ k = x.name
      BY <2>2, <2>3, <3>2, <3>3
    <3>4. CASE ~(n = m /\ k = x.name)
      <4>1. <<PlaceOf[n], k>> \notin Spots(x)
        BY <3>1, <3>2, <3>4 DEF Spots
      <4>2. <<PlaceOf[n], k>> \notin unsure
        BY <1>3, <2>5, <4>1, ActFacts
      <4> QED
        BY <2>2, <2>3, <3>2, <3>4, <4>2 DEF AsWanted
    <3> QED
      BY <3>3, <3>4
  <2> QED
    BY <2>1, <2>4, <2>5
<1>4. ASSUME NEW c \in Caller, ActFails(c) PROVE UNCHANGED <<store, wanted>> /\ unsure \subseteq unsure'
  BY <1>4 DEF ActFails
<1>5. Quiet => UNCHANGED <<store, wanted>> /\ unsure \subseteq unsure'
  BY DEF Quiet
<1>6. Stop => UNCHANGED <<store, wanted>> /\ unsure \subseteq unsure'
  BY StopFacts
<1> QED
  BY <1>1, <1>2, <1>3, <1>4, <1>5, <1>6, StoreCases

\* A call that is as it should be, and the others as they were.
LEMMA OneCall ==
    ASSUME CallInv, provider' = provider, NEW c \in Caller, NEW y, CallOk(y),
           call' = [call EXCEPT ![c] = y]
    PROVE  CallInv'
<1>1. Unlisted' = Unlisted
  BY DEF Unlisted
<1>2. \A d \in Caller : call'[d] = IF d = c THEN y ELSE call[d]
  BY DEF CallInv
<1> QED
  BY <1>1, <1>2 DEF CallInv, CallOk, Alone

\* A caller is told the names that are wanted, as far as they are sure.
LEMMA ToldNames ==
    ASSUME SecretsInv, NEW c \in Caller, List(c)
    PROVE  CallInv'
<1> DEFINE x == call[c]
           y == [at |-> "listed", repo |-> x.repo, astray |-> x.astray,
                 names |-> Names(PlaceOf[x.repo]),
                 sought |-> [k \in SecretName |->
                                IF <<PlaceOf[x.repo], k>> \in unsure THEN BOOLEAN
                                ELSE {wanted[x.ref.meant][k] # "nothing"}]]
<1>1. /\ x.at = "act" /\ CallOk(x) /\ provider' = provider /\ DOMAIN call = Caller
      /\ call' = [call EXCEPT ![c] = y] \/ call' = [call EXCEPT ![c] = NoCall]
  BY DEF List, SecretsInv, CallInv
<1>2. CallOk(NoCall)
  BY DEF CallOk, NoCall
<1>3. CallOk(y)
  <2> SUFFICES ASSUME ~x.astray, Alone(x.repo), NEW k \in SecretName \ Unlisted
               PROVE  (k \in y.names) \in y.sought[k]
    BY DEF CallOk
  <2>1. x.repo \in Name /\ x.repo = x.ref.meant /\ PlaceOf[x.repo] \in Place
    BY <1>1 DEF CallOk, Place
  <2>2. CASE <<PlaceOf[x.repo], k>> \in unsure
    <3>1. y.sought[k] = BOOLEAN
      BY <2>2
    <3> HIDE DEF x, y
    <3>2. (k \in y.names) \in BOOLEAN
      OBVIOUS
    <3> QED
      BY <3>1, <3>2
  <2>3. CASE <<PlaceOf[x.repo], k>> \notin unsure
    <3>1. store[PlaceOf[x.repo]][k].value = wanted[x.ref.meant][k]
      BY <2>1, <2>3 DEF SecretsInv, AsWanted
    <3>2. store[PlaceOf[x.repo]][k] # Nothing <=> store[PlaceOf[x.repo]][k].value # "nothing"
      BY <2>1, SecretsAssumption DEF SecretsInv, StoreInv, Nothing
    <3>3. k \in Names(PlaceOf[x.repo]) <=> wanted[x.ref.meant][k] # "nothing"
      BY <3>1, <3>2 DEF Names
    <3>4. y.sought[k] = {wanted[x.ref.meant][k] # "nothing"} /\ y.names = Names(PlaceOf[x.repo])
      BY <2>3
    <3> HIDE DEF x, y
    <3> QED
      BY <3>3, <3>4
  <2> QED
    BY <2>2, <2>3
<1> HIDE DEF x, y
<1> QED
  BY <1>1, <1>2, <1>3, OneCall DEF SecretsInv

\* A call names what it is to change.
LEMMA CallStep ==
    ASSUME SecretsInv, [Next]_vars, provider' = provider
    PROVE  CallInv'
<1>0. CallInv /\ TypeOK /\ CallOk(NoCall)
  BY DEF SecretsInv, CallOk, NoCall
<1>1. ASSUME call' = call PROVE CallInv'
  BY <1>0, <1>1 DEF CallInv, CallOk, Unlisted, Alone
<1>2. ASSUME NEW c \in Caller, call' = [call EXCEPT ![c] = NoCall] PROVE CallInv'
  BY <1>0, <1>2, OneCall
<1>3. ASSUME NEW c \in Caller, NEW o \in Orders, Call(c, o) PROVE CallInv'
  <2>1. CallOk([at |-> "auth", order |-> o])
    BY DEF CallOk
  <2> QED
    BY <1>0, <1>3, <2>1, OneCall DEF Call
<1>4. ASSUME NEW c \in Caller, CheckCaller(c) PROVE CallInv'
  <2>1. call[c].order \in Orders
    BY <1>0, <1>4 DEF CheckCaller, CallInv, CallOk
  <2>2. CallOk(Granted(call[c].order))
    BY <2>1, SecretsAssumption DEF CallOk, Granted
  <2>3. \/ call' = [call EXCEPT ![c] = Granted(call[c].order)]
        \/ call' = [call EXCEPT ![c] = NoCall]
    BY <1>0, <1>4 DEF CheckCaller, CallInv
  <2> QED
    BY <1>0, <1>2, <2>2, <2>3, OneCall
<1>5. ASSUME NEW c \in Caller, Resolve(c) PROVE CallInv'
  <2> DEFINE x == call[c]
             y == [at |-> "act", method |-> x.method, ref |-> x.ref, name |-> x.name,
                   value |-> x.value, repo |-> Resolved(x.ref), astray |-> ~Certain(x.ref)]
  <2>1. /\ x.at = "resolve" /\ CallOk(x)
        /\ \/ Resolvable(x.ref) /\ call' = [call EXCEPT ![c] = y]
           \/ call' = [call EXCEPT ![c] = NoCall]
    BY <1>0, <1>5 DEF Resolve, CallInv
  <2>2. x.ref.meant \in Name
    BY <2>1 DEF CallOk
  <2>3. Resolvable(x.ref) => /\ Resolved(x.ref) \in Name
                             /\ (Certain(x.ref) => Resolved(x.ref) = x.ref.meant)
    BY <1>0, <2>2, WhatIsResolved
  <2>4. Resolvable(x.ref) => CallOk(y)
    BY <2>1, <2>3 DEF CallOk
  <2> HIDE DEF x, y
  <2> QED
    BY <1>0, <1>2, <2>1, <2>4, OneCall
<1>6. ASSUME NEW c \in Caller, Act(c) \/ ActFails(c) \/ Answer(c) PROVE CallInv'
  BY <1>2, <1>6 DEF Act, ActFails, Answer
<1>7. ASSUME NEW c \in Caller, List(c) PROVE CallInv'
  BY <1>7, ToldNames
<1>8. CASE Stop
  <2>1. call' = [c \in Caller |-> NoCall]
    BY <1>8 DEF Stop
  <2> QED
    BY <2>1 DEF CallInv, CallOk, NoCall
<1>9. ASSUME NEW n \in Name, Register(n) \/ BeginRead(n) PROVE CallInv'
  BY <1>1, <1>9 DEF Register, BeginRead
<1>10. ASSUME NEW e \in late, Lands(e) PROVE CallInv'
  BY <1>1, <1>10 DEF Lands
<1>11. CASE ReadRows \/ ListNames \/ GetValue \/ ReadFails \/ Start \/ StartFails \/ UNCHANGED vars
  BY <1>1, <1>11 DEF ReadRows, ListNames, GetValue, ReadFails, Start, StartFails, vars
<1> QED
  BY <1>3, <1>4, <1>5, <1>6, <1>7, <1>8, <1>9, <1>10, <1>11 DEF Next

\* What is held grows with each change, until the next read begins.
LEMMA HeldStep ==
    ASSUME TypeOK, Sought, read' = read,
           held' = Noted(store') \/ held' = held,
           store' \in [Place -> [SecretName -> Cells]]
    PROVE  Sought' /\ held' \in [SecretName -> SUBSET Anything]
<1>1. held \in [SecretName -> SUBSET Anything]
  BY DEF TypeOK, Anything
<1>2. CASE held' = held
  BY <1>1, <1>2 DEF Sought, Alone
<1>3. CASE held' = Noted(store') /\ read.at \in {"list", "get"}
  <2>1. read.place \in Place
    BY <1>3 DEF Sought, Place
  <2>2. \A k \in SecretName : store'[read.place][k].value \in Anything
    BY <2>1 DEF Cells
  <2>3. held' = [k \in SecretName |-> held[k] \cup {store'[read.place][k].value}]
    BY <1>3 DEF Noted
  <2>4. \A k \in SecretName : IsFiniteSet(held[k])
    BY <1>3 DEF Sought
  <2>5. \A k \in SecretName : IsFiniteSet(held'[k]) /\ held[k] \subseteq held'[k]
    BY <2>3, <2>4, FS_AddElement
  <2>6. held' \in [SecretName -> SUBSET Anything]
    BY <1>1, <2>2, <2>3
  <2> QED
    BY <1>3, <2>5, <2>6 DEF Sought, Alone
<1>4. CASE held' = Noted(store') /\ read.at \notin {"list", "get"}
  BY <1>1, <1>4 DEF Noted, Sought, Alone
<1> QED
  BY <1>2, <1>3, <1>4

\* A read goes on or ends with what it seeks, and a new one seeks what is wanted now.
LEMMA ReadStep ==
    ASSUME SecretsInv, [Next]_vars
    PROVE  /\ Sought' /\ held' \in [SecretName -> SUBSET Anything]
           /\ read'.at \in {"idle", "list", "get", "done"}
<1> USE DEF SecretsInv
<1>0. /\ store' \in [Place -> [SecretName -> Cells]]
      /\ held \in [SecretName -> SUBSET Anything]
  BY TablesStep DEF TypeOK, Anything
<1>1. CASE read' = read /\ (held' = Noted(store') \/ held' = held)
  BY <1>0, <1>1, HeldStep DEF TypeOK
<1>2. CASE \E n \in Name : BeginRead(n)
  <2> PICK n \in Name : BeginRead(n)
    BY <1>2
  <2>1. /\ read'.at = "list" /\ read'.repo = n /\ read'.place = PlaceOf[n]
        /\ read'.sought = [k \in SecretName |-> IF <<PlaceOf[n], k>> \in unsure THEN Anything
                                                ELSE {wanted[n][k]}]
        /\ held' = [k \in SecretName |-> {store[PlaceOf[n]][k].value}]
    BY DEF BeginRead
  <2>2. PlaceOf[n] \in Place
    BY DEF Place
  <2>3. \A k \in SecretName : store[PlaceOf[n]][k].value \in Anything
    BY <2>2 DEF TypeOK, Anything
  <2>4. \A k \in SecretName : IsFiniteSet(held'[k])
    BY <2>1, FS_Singleton
  <2>5. ASSUME Alone(n), NEW k \in SecretName PROVE store[PlaceOf[n]][k].value \in read'.sought[k]
    BY <2>1, <2>3, <2>5 DEF AsWanted
  <2>6. \A k \in SecretName : store[PlaceOf[n]][k].value \in held'[k]
    BY <2>1
  <2>7. held' \in [SecretName -> SUBSET Anything]
    BY <2>1, <2>3
  <2> QED
    BY <2>1, <2>4, <2>5, <2>6, <2>7 DEF Sought, Alone
<1>3. CASE ReadRows \/ ListNames \/ GetValue \/ ReadFails
  <2>1. read.at \in {"list", "get"} /\ held' = held
    BY <1>3 DEF ReadRows, ListNames, GetValue, ReadFails
  <2>2. DOMAIN read = ReadFields
    BY <2>1 DEF ReadInv, NoRead
  <2>3. /\ read'.repo = read.repo /\ read'.place = read.place /\ read'.sought = read.sought
        /\ read'.at \in {"list", "get", "done"}
    BY <1>3, <2>2 DEF ReadFields, ReadRows, ListNames, GetValue, ReadFails
  <2> QED
    BY <1>0, <2>1, <2>3 DEF Sought, Alone
<1>4. CASE Stop
  <2>1. read' = NoRead /\ held' = held
    BY <1>4 DEF Stop
  <2> QED
    BY <1>0, <2>1 DEF Sought, NoRead
<1>5. ASSUME NEW c \in Caller, NEW o \in Orders, Call(c, o) PROVE read' = read /\ held' = held
  BY <1>5 DEF Call
<1>6. ASSUME NEW n \in Name, Register(n) PROVE read' = read /\ held' = held
  BY <1>6 DEF Register
<1>7. ASSUME NEW c \in Caller, \/ CheckCaller(c) \/ Resolve(c) \/ Act(c) \/ ActFails(c)
                                 \/ List(c) \/ Answer(c)
      PROVE  read' = read /\ (held' = Noted(store') \/ held' = held)
  BY <1>7 DEF CheckCaller, Resolve, Act, ActFails, List, Answer
<1>8. ASSUME NEW e \in late, Lands(e) PROVE read' = read /\ held' = Noted(store')
  BY <1>8 DEF Lands
<1>9. CASE Start \/ StartFails \/ UNCHANGED vars
  BY <1>1, <1>9 DEF Start, StartFails, vars
<1> QED
  BY <1>1, <1>2, <1>3, <1>4, <1>5, <1>6, <1>7, <1>8, <1>9 DEF Next

\* The process, its configuration and the bound.
LEMMA ProcessStep ==
    ASSUME TypeOK, [Next]_vars
    PROVE  /\ up' \in BOOLEAN /\ provider' = provider /\ token' \in Tokens
           /\ repos' \in Seq(Name) /\ moves' \in 0 .. MaxMoves
<1>0. token \in Tokens /\ repos \in Seq(Name) /\ moves \in 0 .. MaxMoves /\ MaxMoves \in Nat
  BY SecretsAssumption DEF TypeOK, Tokens
<1>1. ASSUME Move PROVE moves' \in 0 .. MaxMoves
  BY <1>0, <1>1 DEF Move
<1>2. CASE \E n \in Name : Register(n) \/ BeginRead(n)
  <2> PICK n \in Name : Register(n) \/ BeginRead(n)
    BY <1>2
  <2>1. Append(repos, n) \in Seq(Name)
    BY <1>0
  <2>2. /\ UNCHANGED <<up, provider, token>> /\ Move
        /\ repos' = repos \/ repos' = Append(repos, n)
    BY DEF Register, BeginRead
  <2> QED
    BY <1>0, <1>1, <2>1, <2>2 DEF TypeOK
<1>3. ASSUME NEW c \in Caller, NEW o \in Orders, Call(c, o)
      PROVE  UNCHANGED <<up, provider, token, repos>> /\ Move
  BY <1>3 DEF Call
<1>4. ASSUME NEW c \in Caller, \/ CheckCaller(c) \/ Resolve(c) \/ Act(c) \/ ActFails(c)
                                 \/ List(c) \/ Answer(c)
      PROVE  UNCHANGED <<up, provider, token, repos>> /\ (Move \/ NoMove)
  BY <1>4 DEF CheckCaller, Resolve, Act, ActFails, List, Answer, NoMove
<1>5. CASE ReadRows \/ ListNames \/ GetValue \/ ReadFails \/ \E e \in late : Lands(e)
  BY <1>0, <1>1, <1>5 DEF ReadRows, ListNames, GetValue, ReadFails, Lands, TypeOK, NoMove
<1>6. CASE Stop
  BY <1>0, <1>1, <1>6 DEF Stop, TypeOK
<1>7. CASE Start
  BY <1>0, <1>7 DEF Start, OpenManager, Tokens
<1>8. CASE StartFails \/ UNCHANGED vars
  BY <1>0, <1>1, <1>8 DEF StartFails, vars, TypeOK
<1>9. CASE UNCHANGED <<up, provider, token, repos>> /\ (Move \/ NoMove)
  BY <1>0, <1>1, <1>9 DEF TypeOK, NoMove
<1> QED
  BY <1>2, <1>3, <1>4, <1>5, <1>6, <1>7, <1>8, <1>9 DEF Next

-----------------------------------------------------------------------------
(* The theorem                                                             *)

\* Every step keeps the invariant.
LEMMA NextReadInv == ReadInv /\ [Next]_vars => ReadInv'
<1> SUFFICES ASSUME ReadInv, [Next]_vars PROVE ReadInv'
  OBVIOUS
<1>1. ASSUME NEW n \in Name, Register(n) PROVE ReadInv'
  BY <1>1, ChangeStep DEF Register
<1>2. ASSUME NEW c \in Caller, NEW o \in Orders, Call(c, o) PROVE ReadInv'
  BY <1>2, ChangeStep DEF Call
<1>3. ASSUME NEW c \in Caller, \/ CheckCaller(c) \/ Resolve(c) \/ Act(c) \/ ActFails(c)
                                 \/ List(c) \/ Answer(c)
      PROVE  ReadInv'
  BY <1>3, ChangeStep DEF CheckCaller, Resolve, Act, ActFails, List, Answer
<1>4. ASSUME NEW e \in late, Lands(e) PROVE ReadInv'
  BY <1>4, ChangeStep DEF Lands
<1>5. CASE StartFails \/ UNCHANGED vars
  BY <1>5, ChangeStep DEF StartFails, vars
<1>6. CASE Start
  BY <1>6, ChangeStep DEF Start
<1> QED
  BY <1>1, <1>2, <1>3, <1>4, <1>5, <1>6, BeginReadStep, ReadRowsStep, ListNamesStep, GetValueStep,
     EndsStep DEF Next

\* Every step keeps what is known of the store, the calls and the read.
LEMMA NextSecretsInv == SecretsInv /\ [Next]_vars => SecretsInv'
<1> SUFFICES ASSUME SecretsInv, [Next]_vars PROVE SecretsInv'
  OBVIOUS
<1>1. /\ TypeOK /\ CallInv /\ LateInv /\ StoreInv /\ AsWanted /\ Sought /\ ReadInv
  BY DEF SecretsInv
<1>2. CallInv' /\ LateInv'
  BY <1>1, CallStep, LateInvStep, ProcessStep
<1>3. TypeOK'
  <2>1. /\ \A c \in Caller : call'[c].at \in {"idle", "auth", "resolve", "act", "listed"}
        /\ DOMAIN call' = Caller
        /\ \A e \in late' : e.place \in Place /\ e.name \in SecretName
    BY <1>2 DEF CallInv, CallOk, LateInv, IsChange
  <2> QED
    BY <1>1, <2>1, TablesStep, ReadStep, ProcessStep DEF TypeOK, Cells, Anything, Tokens
<1> QED
  BY <1>1, <1>2, <1>3, NextReadInv, StoreInvStep, AsWantedStep, ReadStep DEF SecretsInv

\* At the start nothing is stored and nobody asks.
LEMMA InitSecretsInv == Init => SecretsInv
<1> SUFFICES ASSUME Init PROVE SecretsInv
  OBVIOUS
<1>1. TypeOK
  <2>1. provider \in {"sqlite", "openbao"} /\ token \in {c.server.token[2] : c \in Loaded}
    BY ProviderOfLoaded DEF Init
  <2>2. repos \in Seq(Name)
    BY SecretsAssumption DEF Init
  <2> QED
    BY <2>1, <2>2, SecretsAssumption DEF Init, TypeOK, NoCall, NoRead, Nothing
<1>2. CallInv /\ LateInv /\ StoreInv /\ Sought /\ ReadInv
  BY DEF Init, CallInv, CallOk, LateInv, StoreInv, Sought, ReadInv, NoCall, NoRead
<1>3. AsWanted
  BY DEF Init, AsWanted, Nothing, Place
<1> QED
  BY <1>1, <1>2, <1>3 DEF SecretsInv

\* The invariant holds in every reachable state.
THEOREM SecretsInvariant == Spec => []SecretsInv
  BY InitSecretsInv, NextSecretsInv, PTL DEF Spec

\* A secret whose change was answered is what pipelines of its repository find and what
\* lists of it name, in whatever order changes of several callers, registrations, reads and
\* restarts come, whichever manager and token, and whichever way the repository was named:
\* but for the names, errors, keys and late changes that PutIsSeen excepts.
THEOREM AnsweredIsSeen == Spec => []PutIsSeen
<1>1. ASSUME SecretsInv PROVE PutIsSeen
  <2>1. ASSUME read.at = "done", read.ok, Alone(read.repo),
               NEW k \in SecretName \ (Unlisted \cup read.blank), Cardinality(held[k]) = 1
        PROVE  read.got[k] \in read.sought[k]
    <3>1. IsFiniteSet(held[k]) /\ read.got[k] \in held[k] /\ \E v \in held[k] : v \in read.sought[k]
      BY <1>1, <2>1 DEF SecretsInv, Sought, ReadInv, Fine
    <3>2. \E x : held[k] = {x}
      BY <2>1, <3>1, FS_Singleton
    <3> QED
      BY <3>1, <3>2
  <2>2. ASSUME NEW c \in Caller, call[c].at = "listed", ~call[c].astray, Alone(call[c].repo),
               NEW k \in SecretName \ Unlisted
        PROVE  (k \in call[c].names) \in call[c].sought[k]
    BY <1>1, <2>2 DEF SecretsInv, CallInv, CallOk
  <2> QED
    BY <1>1, <2>1, <2>2 DEF SecretsInv, PutIsSeen
<1> QED
  BY <1>1, SecretsInvariant, PTL

\* A read that succeeds gives of each secret a value that was stored, or its absence, at
\* some time during the read; but for an answer without a value, and for a key with a slash,
\* of which OpenBao gives nothing.
THEOREM ReadsAreCurrent == Spec => []ReadIsCurrent
<1>1. Init => ReadInv
  BY DEF Init, ReadInv, NoRead
<1>2. ReadInv => ReadIsCurrent
  BY DEF ReadInv, ReadIsCurrent, Fine
<1> QED
  BY <1>1, <1>2, NextReadInv, PTL DEF Spec
=============================================================================
