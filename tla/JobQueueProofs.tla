--------------------------- MODULE JobQueueProofs ---------------------------
(***************************************************************************)
(* The safety of the job queue, for every set of jobs, every number of     *)
(* permits and every channel capacity.  QueueInv is inductive; the         *)
(* invariants the runs check are its conjuncts, and the refinement of      *)
(* WorkerPool follows from it step by step.                                *)
(***************************************************************************)
EXTENDS JobQueue, SequenceTheorems, FiniteSetTheorems, TLAPS

-----------------------------------------------------------------------------
(* Sequences                                                               *)

\* The range of a sequence of one element.
LEMMA RangeOfOne ==
    ASSUME NEW S, NEW e \in S
    PROVE  <<e>> \in Seq(S) /\ Range(<<e>>) = {e}
<1>1. <<e>> \in Seq(S) /\ DOMAIN <<e>> = {1} /\ <<e>>[1] = e
  OBVIOUS
<1>2. Range(<<e>>) = {e}
  BY <1>1 DEF Range
<1> QED
  BY <1>1, <1>2

\* Appending adds one element to the range.
LEMMA RangeOfAppend ==
    ASSUME NEW S, NEW s \in Seq(S), NEW e \in S
    PROVE  Range(Append(s, e)) = Range(s) \cup {e}
<1>1. Append(s, e) = s \o <<e>> /\ <<e>> \in Seq(S)
  OBVIOUS
<1>2. Range(s \o <<e>>) = Range(s) \cup Range(<<e>>)
  BY <1>1, RangeConcatenation, ZenonT(60)
<1>3. Range(<<e>>) = {e}
  BY RangeOfOne
<1> QED
  BY <1>1, <1>2, <1>3, Zenon

\* So does prepending.
LEMMA RangeOfCons ==
    ASSUME NEW S, NEW e \in S, NEW t \in Seq(S)
    PROVE  Range(<<e>> \o t) = {e} \cup Range(t)
<1>1. <<e>> \in Seq(S)
  OBVIOUS
<1>2. Range(<<e>> \o t) = Range(<<e>>) \cup Range(t)
  BY <1>1, RangeConcatenation, ZenonT(60)
<1>3. Range(<<e>>) = {e}
  BY RangeOfOne
<1> QED
  BY <1>2, <1>3, Zenon

\* A non-empty sequence is its head followed by its tail.
LEMMA RangeOfHeadTail ==
    ASSUME NEW S, NEW s \in Seq(S), s # <<>>
    PROVE  /\ Head(s) \in S
           /\ Tail(s) \in Seq(S)
           /\ Range(s) = Range(Tail(s)) \cup {Head(s)}
           /\ s = <<Head(s)>> \o Tail(s)
<1>1. Head(s) \in S /\ Tail(s) \in Seq(S)
  OBVIOUS
<1>2. s = <<Head(s)>> \o Tail(s)
  OBVIOUS
<1>3. Range(<<Head(s)>> \o Tail(s)) = {Head(s)} \cup Range(Tail(s))
  BY <1>1, RangeOfCons, ZenonT(60)
<1>4. Range(s) = {Head(s)} \cup Range(Tail(s))
  BY <1>2, <1>3, Zenon
<1> QED
  BY <1>1, <1>2, <1>4

\* The head of a sequence without repetitions is not in its tail.
LEMMA TailWithoutHead ==
    ASSUME NEW S, NEW s \in Seq(S), s # <<>>,
           \A a, b \in 1..Len(s) : s[a] = s[b] => a = b
    PROVE  /\ Head(s) \notin Range(Tail(s))
           /\ \A a, b \in 1..Len(Tail(s)) : Tail(s)[a] = Tail(s)[b] => a = b
<1>1. \A i \in 1..Len(Tail(s)) : Tail(s)[i] = s[i + 1] /\ i + 1 \in 1..Len(s)
  OBVIOUS
<1>2. Head(s) = s[1] /\ 1 \in 1..Len(s)
  OBVIOUS
<1>3. Head(s) \notin Range(Tail(s))
  BY <1>1, <1>2 DEF Range
<1>4. \A a, b \in 1..Len(Tail(s)) : Tail(s)[a] = Tail(s)[b] => a = b
  <2> SUFFICES ASSUME NEW a \in 1..Len(Tail(s)), NEW b \in 1..Len(Tail(s)),
                      Tail(s)[a] = Tail(s)[b]
               PROVE  a = b
    OBVIOUS
  <2>1. s[a + 1] = s[b + 1] /\ a + 1 \in 1..Len(s) /\ b + 1 \in 1..Len(s)
    BY <1>1
  <2> QED
    BY <2>1
<1> QED
  BY <1>3, <1>4

\* Appending a new element keeps a sequence free of repetitions.
LEMMA AppendNew ==
    ASSUME NEW S, NEW s \in Seq(S), NEW e \in S, e \notin Range(s),
           \A a, b \in 1..Len(s) : s[a] = s[b] => a = b
    PROVE  LET t == Append(s, e)
           IN  \A a, b \in 1..Len(t) : t[a] = t[b] => a = b
  BY DEF Range

-----------------------------------------------------------------------------
(* The inductive invariant                                                 *)

\* The queue starts in a state that satisfies the invariant.
LEMMA InitQueueInv == Init => QueueInv
<1> SUFFICES ASSUME Init PROVE QueueInv
  OBVIOUS
<1> USE QueueAssumption
<1>1. TypeOK
  <2>1. buffer \in Seq(Job) /\ Len(buffer) <= QueueSize
    BY DEF Init
  <2>2. outcome \in [Job -> Outcome] /\ permits \in 0..MaxJobs
    BY DEF Init, Outcome
  <2> QED
    BY <2>1, <2>2 DEF Init, TypeOK, Place
<1>2. DispatcherConsistent /\ PermitsAccounted
  BY FS_EmptySet DEF Init, DispatcherConsistent, PermitsAccounted
<1>3. OnePlacePerJob /\ LostOnlyByClosing
  BY DEF Init, OnePlacePerJob, LostOnlyByClosing, Accepted, Range
<1> QED
  BY <1>1, <1>2, <1>3 DEF QueueInv

\* submit keeps the invariant, whatever it returns.
LEMMA SubmitQueueInv ==
    ASSUME QueueInv, NEW j \in Job,
           SubmitOk(j) \/ SubmitFull(j) \/ SubmitClosed(j)
    PROVE  QueueInv'
<1> USE QueueAssumption DEF QueueInv
<1>1. TypeOK'
  BY DEF TypeOK, SubmitOk, SubmitFull, SubmitClosed, Return, HasRoom, Outcome, token, ended
<1>2. DispatcherConsistent'
  BY DEF DispatcherConsistent, TypeOK, SubmitOk, SubmitFull, SubmitClosed, Return,
         token, ended
<1>3. PermitsAccounted' /\ LostOnlyByClosing'
  BY DEF PermitsAccounted, LostOnlyByClosing, SubmitOk, SubmitFull, SubmitClosed,
         Return, token, ended
<1>4. OnePlacePerJob'
  <2>1. CASE SubmitOk(j)
    <3>1. /\ buffer' = Append(buffer, j)
          /\ Range(buffer') = Range(buffer) \cup {j}
      BY <2>1, RangeOfAppend DEF SubmitOk, TypeOK
    <3>2. Accepted' = Accepted \cup {j} /\ j \notin Accepted
      BY <2>1 DEF SubmitOk, Return, Accepted, TypeOK
    <3>3. UNCHANGED <<holding, running, finished, abandoned>>
      BY <2>1 DEF SubmitOk, Return, ended
    <3>4. \A a, b \in 1..Len(buffer') : buffer'[a] = buffer'[b] => a = b
      BY <3>1, <3>2, AppendNew DEF OnePlacePerJob, TypeOK
    <3> QED
      BY <3>1, <3>2, <3>3, <3>4 DEF OnePlacePerJob
  <2>2. CASE SubmitFull(j) \/ SubmitClosed(j)
    <3>1. Accepted' = Accepted
      BY <2>2 DEF SubmitFull, SubmitClosed, Return, Accepted, TypeOK
    <3> QED
      BY <2>2, <3>1 DEF SubmitFull, SubmitClosed, Return, OnePlacePerJob, ended
  <2> QED
    BY <2>1, <2>2
<1> QED
  BY <1>1, <1>2, <1>3, <1>4

\* Taking a job out of the channel keeps the invariant.
LEMMA ReceiveQueueInv ==
    ASSUME QueueInv, Receive
    PROVE  QueueInv'
<1> USE QueueAssumption DEF QueueInv
<1>1. /\ buffer \in Seq(Job) /\ buffer # <<>>
      /\ holding = <<>>
      /\ buffer' = Tail(buffer)
      /\ holding' = <<Head(buffer)>>
  BY DEF Receive, Recv, TypeOK, DispatcherConsistent
<1>2. /\ Head(buffer) \in Job
      /\ Range(buffer) = Range(buffer') \cup {Head(buffer)}
      /\ Head(buffer) \notin Range(buffer')
      /\ \A a, b \in 1..Len(buffer') : buffer'[a] = buffer'[b] => a = b
  BY <1>1, RangeOfHeadTail, TailWithoutHead DEF OnePlacePerJob
<1>3. Range(holding) = {} /\ Range(holding') = {Head(buffer)}
  BY <1>1 DEF Range
<1>4. TypeOK'
  BY <1>1, <1>2 DEF TypeOK, Receive, Place, token, ended
<1>5. DispatcherConsistent' /\ PermitsAccounted' /\ LostOnlyByClosing'
  BY <1>1 DEF DispatcherConsistent, PermitsAccounted, LostOnlyByClosing, Receive,
              token, ended
<1>6. OnePlacePerJob'
  BY <1>2, <1>3 DEF OnePlacePerJob, Accepted, Receive, ended
<1> QED
  BY <1>4, <1>5, <1>6

\* Starting the held job moves one permit to it.
LEMMA StartQueueInv ==
    ASSUME QueueInv, StartJob
    PROVE  QueueInv'
<1> USE QueueAssumption DEF QueueInv
<1>1. PICK j \in Job : holding = <<j>>
  BY DEF StartJob, TypeOK, DispatcherConsistent
<1>2. Range(holding) = {j} /\ Range(holding') = {}
  BY <1>1 DEF Range, StartJob
<1>3. j \notin running /\ running' = running \cup {j}
  BY <1>2 DEF OnePlacePerJob, StartJob
<1>4. TypeOK'
  BY <1>3 DEF TypeOK, StartJob, Place, token, ended
<1>5. IsFiniteSet(running') /\ Cardinality(running') = Cardinality(running) + 1
  BY <1>3, FS_AddElement DEF DispatcherConsistent
<1>6. PermitsAccounted'
  BY <1>5, FS_CardinalityType DEF PermitsAccounted, DispatcherConsistent, StartJob, TypeOK
<1>7. DispatcherConsistent' /\ LostOnlyByClosing'
  BY <1>5 DEF DispatcherConsistent, LostOnlyByClosing, StartJob, token, ended
<1>8. OnePlacePerJob'
  BY <1>2, <1>3 DEF OnePlacePerJob, Accepted, StartJob, ended
<1> QED
  BY <1>4, <1>6, <1>7, <1>8

\* A job that ends gives its permit back.
LEMMA FinishQueueInv ==
    ASSUME QueueInv, NEW j \in Job, Finish(j)
    PROVE  QueueInv'
<1> USE QueueAssumption DEF QueueInv
<1>1. /\ IsFiniteSet(running')
      /\ Cardinality(running') = Cardinality(running) - 1
      /\ Cardinality(running') \in Nat
  BY FS_RemoveElement, FS_CardinalityType DEF DispatcherConsistent, Finish
<1>2. permits' = permits + 1 /\ permits \in Nat
  BY DEF Finish, TypeOK
<1>3. PermitsAccounted' /\ permits' \in 0..MaxJobs
  BY <1>1, <1>2, FS_CardinalityType DEF PermitsAccounted, DispatcherConsistent
<1>4. TypeOK'
  BY <1>3 DEF TypeOK, Finish, token
<1>5. DispatcherConsistent' /\ LostOnlyByClosing'
  BY <1>1 DEF DispatcherConsistent, LostOnlyByClosing, Finish, token
<1>6. OnePlacePerJob'
  BY DEF OnePlacePerJob, Accepted, Finish
<1> QED
  BY <1>3, <1>4, <1>5, <1>6

\* So do the two steps that take the dispatcher down.
LEMMA StopQueueInv ==
    ASSUME QueueInv, Stop \/ CloseChannel
    PROVE  QueueInv'
<1> USE QueueAssumption DEF QueueInv
<1>1. CASE Stop
  <2>1. TypeOK' /\ DispatcherConsistent' /\ PermitsAccounted' /\ LostOnlyByClosing'
    BY <1>1 DEF TypeOK, DispatcherConsistent, PermitsAccounted, LostOnlyByClosing,
                Stop, MayStop, Place, token, ended
  <2>2. OnePlacePerJob'
    BY <1>1 DEF OnePlacePerJob, Accepted, Stop, ended
  <2> QED
    BY <2>1, <2>2
<1>2. CASE CloseChannel
  <2>1. Range(buffer) \subseteq Job /\ Range(buffer') = {}
    BY <1>2 DEF CloseChannel, TypeOK, Range
  <2>2. TypeOK'
    BY <1>2, <2>1 DEF TypeOK, CloseChannel, Place, token
  <2>3. DispatcherConsistent' /\ PermitsAccounted'
    BY <1>2 DEF DispatcherConsistent, PermitsAccounted, CloseChannel, token
  <2>4. LostOnlyByClosing'
    BY <1>2 DEF LostOnlyByClosing, DispatcherConsistent, CloseChannel, token, Range
  <2>5. OnePlacePerJob'
    BY <1>2, <2>1 DEF OnePlacePerJob, Accepted, CloseChannel
  <2> QED
    BY <2>2, <2>3, <2>4, <2>5
<1> QED
  BY <1>1, <1>2

\* The owner of the queue may cancel the token and drop the handle at any time.
LEMMA OwnerQueueInv ==
    ASSUME QueueInv, Shutdown \/ DropHandle \/ UNCHANGED queueVars
    PROVE  QueueInv'
<1> USE QueueAssumption DEF QueueInv
<1>1. TypeOK'
  BY DEF TypeOK, Shutdown, DropHandle, queueVars, token, ended
<1>2. DispatcherConsistent' /\ LostOnlyByClosing'
  BY DEF DispatcherConsistent, LostOnlyByClosing, Shutdown, DropHandle, queueVars,
         token, ended
<1>3. PermitsAccounted'
  BY DEF PermitsAccounted, Shutdown, DropHandle, queueVars
<1>4. OnePlacePerJob'
  BY DEF OnePlacePerJob, Accepted, Shutdown, DropHandle, queueVars, ended
<1> QED
  BY <1>1, <1>2, <1>3, <1>4

\* QueueInv is inductive: no step of the queue leaves it.
LEMMA NextQueueInv == QueueInv /\ [Next]_queueVars => QueueInv'
  BY SubmitQueueInv, ReceiveQueueInv, StartQueueInv, FinishQueueInv, StopQueueInv,
     OwnerQueueInv DEF Next, Dispatch

\* In every reachable state the inductive invariant holds: the channel keeps to
\* its capacity, permits and running jobs add up, and every accepted job is in
\* exactly one place.
THEOREM QueueInvariant == Spec => []QueueInv
  BY InitQueueInv, NextQueueInv, PTL DEF Spec

\* No permit is ever lost or made up, so at most MaxJobs jobs run.
THEOREM PermitsNeverLeak == Spec => []PermitsAccounted
<1>1. QueueInv => PermitsAccounted
  BY DEF QueueInv
<1> QED
  BY <1>1, QueueInvariant, PTL

\* An accepted job is always in exactly one place, a refused one in none.
THEOREM NoJobLostOrDoubled == Spec => []OnePlacePerJob
<1>1. QueueInv => OnePlacePerJob
  BY DEF QueueInv
<1> QED
  BY <1>1, QueueInvariant, PTL

\* Jobs are dropped only by a dispatcher that the shutdown token stopped.
THEOREM OnlyShutdownDropsJobs == Spec => []LostOnlyByClosing
<1>1. QueueInv => LostOnlyByClosing
  BY DEF QueueInv
<1> QED
  BY <1>1, QueueInvariant, PTL

-----------------------------------------------------------------------------
(* The refinement of WorkerPool                                            *)

\* The line of the pool: the job in the dispatcher's hand, then the channel.
Line == holding \o buffer

\* The library operators that the pool's module uses are those of this one.
LEMMA SameOperators ==
    /\ \A S : Pool!Cardinality(S) = Cardinality(S)
    /\ \A f : Pool!Range(f) = Range(f)
<1>1. \A S : Pool!Cardinality(S) = Cardinality(S)
  BY Zenon DEF Cardinality, Pool!Cardinality
<1>2. \A f : Pool!Range(f) = Range(f)
  BY DEF Range, Pool!Range
<1> QED
  BY <1>1, <1>2

\* The pieces of the line, for a state that satisfies the invariant.
LEMMA LineFacts ==
    ASSUME TypeOK
    PROVE  /\ holding \in Seq(Job) /\ buffer \in Seq(Job)
           /\ Line \in Seq(Job)
           /\ Len(Line) = Len(holding) + Len(buffer)
           /\ Range(Line) = Range(holding) \cup Range(buffer)
<1>1. holding \in Seq(Job)
  <2>1. CASE holding = <<>>
    BY <2>1
  <2>2. CASE \E j \in Job : holding = <<j>>
    BY <2>2
  <2> QED
    BY <2>1, <2>2 DEF TypeOK
<1>2. buffer \in Seq(Job)
  BY DEF TypeOK
<1>3. Range(holding \o buffer) = Range(holding) \cup Range(buffer)
  BY <1>1, <1>2, RangeConcatenation, ZenonT(60)
<1>4. Line \in Seq(Job) /\ Len(Line) = Len(holding) + Len(buffer)
  BY <1>1, <1>2 DEF Line
<1>5. Range(Line) = Range(holding) \cup Range(buffer)
  BY <1>3 DEF Line
<1> QED
  BY <1>1, <1>2, <1>4, <1>5

\* The dispatcher has one hand.
LEMMA HoldsAtMostOne ==
    ASSUME TypeOK
    PROVE  Len(holding) <= 1
<1>1. CASE holding = <<>>
  BY <1>1
<1>2. CASE \E j \in Job : holding = <<j>>
  BY <1>2
<1> QED
  BY <1>1, <1>2 DEF TypeOK

\* An accepted submission is the pool's Accept, a refused one changes nothing.
LEMMA SubmitRefines ==
    ASSUME QueueInv, NEW j \in Job,
           SubmitOk(j) \/ SubmitFull(j) \/ SubmitClosed(j)
    PROVE  Pool!Accept(j) \/ UNCHANGED Pool!poolVars
<1>1. CASE SubmitOk(j)
  <2>1. /\ dispatcher # "stopped" /\ dispatcher' # "stopped"
        /\ UNCHANGED <<holding, running, finished, abandoned>>
        /\ buffer' = Append(buffer, j)
    BY <1>1 DEF SubmitOk, Return, ended
  <2>2. j \notin Range(Line) \cup running \cup finished \cup abandoned
    BY <1>1, LineFacts DEF QueueInv, OnePlacePerJob, Accepted, SubmitOk, Return, Line
  <2>3. Len(Line) < QueueSize + 1
    BY <1>1, LineFacts, HoldsAtMostOne, QueueAssumption DEF QueueInv, TypeOK, SubmitOk, HasRoom
  <2>4. Line' = Append(Line, j)
    BY <2>1, LineFacts DEF QueueInv, Line
  <2> QED
    BY <2>1, <2>2, <2>3, <2>4, SameOperators DEF Pool!Accept, Pool!Fresh, Pool!Waiting, Line
<1>2. CASE SubmitFull(j) \/ SubmitClosed(j)
  BY <1>2 DEF SubmitFull, SubmitClosed, Return, ended, Pool!poolVars
<1> QED
  BY <1>1, <1>2

\* Receiving a job moves it within the line, from the channel to the hand.
LEMMA ReceiveRefines ==
    ASSUME QueueInv, Receive
    PROVE  UNCHANGED Pool!poolVars
<1>1. holding = <<>> /\ buffer \in Seq(Job) /\ buffer # <<>>
  BY DEF QueueInv, DispatcherConsistent, TypeOK, Receive
<1>2. holding' = <<Head(buffer)>> /\ buffer' = Tail(buffer)
  BY DEF Receive, Recv
<1>3. Line' = Line
  BY <1>1, <1>2 DEF Line
<1> QED
  BY <1>3 DEF Receive, ended, Pool!poolVars, Line

\* Starting a job is the pool's Start: the job in hand is the head of the line.
LEMMA StartRefines ==
    ASSUME QueueInv, StartJob
    PROVE  Pool!Start
<1>1. PICK j \in Job : holding = <<j>>
  BY DEF QueueInv, DispatcherConsistent, TypeOK, StartJob
<1>2. buffer \in Seq(Job) /\ buffer' = buffer /\ holding' = <<>>
  BY DEF QueueInv, TypeOK, StartJob
<1>3. Line # <<>> /\ Head(Line) = j /\ Tail(Line) = Line'
  BY <1>1, <1>2 DEF Line
<1>4. running' = running \cup {j}
  BY <1>1, RangeOfOne DEF StartJob
<1>5. Cardinality(running) < MaxJobs
  BY FS_CardinalityType, QueueAssumption
     DEF QueueInv, TypeOK, DispatcherConsistent, PermitsAccounted, StartJob
<1>6. /\ dispatcher # "stopped" /\ dispatcher' # "stopped"
      /\ UNCHANGED <<finished, abandoned>>
  BY DEF StartJob, ended
<1> QED
  BY <1>3, <1>4, <1>5, <1>6, SameOperators DEF Pool!Start, Line

\* A dispatcher that stops closes the pool at the moment it closes the channel.
LEMMA StopRefines ==
    ASSUME QueueInv, Stop \/ CloseChannel
    PROVE  Pool!Close \/ UNCHANGED Pool!poolVars
<1>1. CASE Stop
  BY <1>1 DEF Stop, ended, Pool!poolVars
<1>2. CASE CloseChannel
  <2>1. holding = <<>> /\ Range(holding) = {}
    BY <1>2 DEF QueueInv, DispatcherConsistent, CloseChannel, Range
  <2>2. Range(Line) = Range(buffer)
    BY <2>1, LineFacts DEF QueueInv
  <2>3. Line' = <<>>
    BY <1>2, <2>1 DEF CloseChannel, Line
  <2> QED
    BY <1>2, <2>2, <2>3, SameOperators
       DEF CloseChannel, Pool!Close, Pool!Waiting, Line
<1> QED
  BY <1>1, <1>2

\* The initial states of the queue are those of the pool.
LEMMA InitRefines == Init => Pool!Init
  BY DEF Init, Pool!Init

\* Every step of the queue is a step of the pool or leaves it unchanged.
LEMMA NextRefines ==
    ASSUME QueueInv, [Next]_queueVars
    PROVE  [Pool!Next]_(Pool!poolVars)
<1>1. ASSUME NEW j \in Job, SubmitOk(j) \/ SubmitFull(j) \/ SubmitClosed(j)
      PROVE  [Pool!Next]_(Pool!poolVars)
  BY <1>1, SubmitRefines DEF Pool!Next
<1>2. ASSUME NEW j \in Job, Finish(j)
      PROVE  [Pool!Next]_(Pool!poolVars)
  BY <1>2 DEF Finish, Pool!Finish, Pool!Next
<1>3. CASE Dispatch
  BY <1>3, ReceiveRefines, StartRefines, StopRefines DEF Dispatch, Pool!Next
<1>4. CASE Shutdown \/ DropHandle \/ UNCHANGED queueVars
  BY <1>4 DEF Shutdown, DropHandle, queueVars, ended, Pool!poolVars
<1> QED
  BY <1>1, <1>2, <1>3, <1>4 DEF Next

\* The dispatcher, channel and semaphore together implement the worker pool:
\* first come first served, bounded in what waits and in what runs.
THEOREM QueueImplementsPool == Spec => ImplementsPool
  BY InitRefines, NextRefines, QueueInvariant, PTL DEF Spec, ImplementsPool, Pool!Spec
=============================================================================
