---------------------------- MODULE ServicesProofs ----------------------------
(***************************************************************************)
(* Theorems about the services beside the core, for any numbers of clients, *)
(* processes, packages, receipts, requests, missions and connections: the    *)
(* runtime that starts and stops the model process, the deployment of        *)
(* packages, and the two links to the visual systems.                        *)
(***************************************************************************)
EXTENDS VisualBridge, FixedWingLink, Deployment, FiniteSetTheorems, SequenceTheorems, WellFoundedInduction, TLAPS
-----------------------------------------------------------------------------
(* ModelRuntime: one model process, one operation.                         *)

Answers == [id : Ids, action : Actions, accepted : BOOLEAN]
JobStages == {"none", "launch", "ready", "status", "start", "samples", "stop", "cleanup"}

RuntimeTypes ==
  /\ procs \in [Procs -> {"unborn", "starting", "new", "configured", "running", "gone"}]
  /\ samples \in [of : Procs \cup {NoProc}, fresh : BOOLEAN]
  /\ runtime \in [state : {"STOPPED", "STARTING", "RUNNING", "STOPPING"},
                  proc : Procs \cup {NoProc}, executable : BOOLEAN]
  /\ job \in JobStages
  /\ submitted \in Seq(Actions)
  /\ clients \in [Clients -> Actions \cup {"none"}]
  /\ requests \in [known : Seq(Answers), seen : Nat]

\* Each request that is remembered has one answer.
AnswersInv ==
  /\ Len(requests.known) <= CacheSize
  /\ \A i, j \in 1..Len(requests.known) : requests.known[i].id = requests.known[j].id => i = j

OneBound == \A p, q \in Bound : p = q

\* The stages in which an operation is carried out.
Operating == {"launch", "ready", "status", "start", "samples", "stop"}

Promised(action) == IF action = "START" THEN "STARTING" ELSE "STOPPING"

\* An accepted action is queued for its receipt, or submitted, or carried out, and
\* the state says which it is.
OperationInv ==
  /\ \A c, d \in Clients : clients[c] # "none" /\ clients[d] # "none" => c = d
  /\ \A c \in Clients : clients[c] # "none" =>
       submitted = <<>> /\ job \notin Operating /\ runtime.state = Promised(clients[c])
  /\ Len(submitted) <= 1
  /\ submitted # <<>> => job \notin Operating /\ runtime.state = Promised(submitted[1])
  /\ job \in Operating => runtime.state = IF job = "stop" THEN "STOPPING" ELSE "STARTING"

\* Stages in which the process of a START may be alive.
Launched == {"ready", "status", "start", "samples"}

\* No process is alive but the one the runtime knows of, and it knows of none
\* before it starts one.
ProcessInv ==
  /\ Live \subseteq {runtime.proc}
  /\ runtime.state = "STOPPED" \/ (runtime.state = "STARTING" /\ job \notin Launched) =>
       job = "cleanup" \/ runtime.proc = NoProc

RuntimeInv == RuntimeTypes /\ AnswersInv /\ OneBound /\ OperationInv /\ ProcessInv

LEMMA RuntimeBounds == CacheSize \in Nat /\ CacheSize # 0 /\ MaxProcs \in Nat /\ NoProc \notin Procs
BY RuntimeAssumption DEF RuntimeAssumption, NoProc, Procs

LEMMA AtMostOne ==
  ASSUME NEW S, \A x, y \in S : x = y
  PROVE  IsFiniteSet(S) /\ Cardinality(S) \in Nat /\ Cardinality(S) <= 1 /\ (S = {} => Cardinality(S) = 0)
<1>1. CASE S = {}
  BY <1>1, FS_EmptySet
<1>2. CASE S # {}
  <2>1. PICK x \in S : S = {x}
    BY <1>2
  <2>2. IsFiniteSet(S) /\ Cardinality(S) = 1
    BY <2>1, FS_Singleton
  <2> QED BY <1>2, <2>2
<1> QED BY <1>1, <1>2

LEMMA RuntimeInvSound == ASSUME RuntimeInv PROVE RuntimeTypeOK /\ OneModelProcess /\ OneOperation
<1> USE DEF RuntimeInv
<1>1. Cardinality(Bound) <= 1
  BY AtMostOne DEF OneBound
<1>2. IsInjective([i \in 1..Len(requests.known) |-> requests.known[i].id])
  BY DEF AnswersInv, IsInjective
<1>3. RuntimeTypeOK
  <2>1. requests.known \in Seq(Answers) /\ Len(requests.known) <= CacheSize
    BY DEF RuntimeTypes, AnswersInv
  <2> QED BY <1>1, <1>2, <2>1 DEF RuntimeTypeOK, RuntimeTypes, Answers, JobStages
<1>4. OneModelProcess
  <2>1. \A p, q \in Live : p = q
    BY DEF ProcessInv
  <2> QED BY <2>1, AtMostOne DEF OneModelProcess
<1>5. OneOperation
  <2> DEFINE W == {c \in Clients : clients[c] # "none"}
  <2>1. /\ Cardinality(W) \in Nat /\ Cardinality(W) <= 1
        /\ W = {} => Cardinality(W) = 0
    <3>1. \A x, y \in W : x = y
      BY DEF OperationInv
    <3> QED BY <3>1, AtMostOne
  <2>2. Len(submitted) \in Nat /\ Len(submitted) <= 1 /\ (submitted = <<>> <=> Len(submitted) = 0)
    BY EmptySeq, LenProperties DEF RuntimeTypes, OperationInv
  <2>3. W # {} => Len(submitted) = 0 /\ job \in {"none", "cleanup"}
    BY <2>2 DEF OperationInv, RuntimeTypes, JobStages, Operating
  <2>4. submitted # <<>> => job \in {"none", "cleanup"}
    BY DEF OperationInv, RuntimeTypes, JobStages, Operating
  <2>5. Cardinality(W) + Len(submitted) + (IF job \in {"none", "cleanup"} THEN 0 ELSE 1) <= 1
    <3> HIDE DEF W
    <3> QED BY <2>1, <2>2, <2>3, <2>4
  <2>6. /\ job \in {"launch", "ready", "status", "start", "samples"} => runtime.state = "STARTING"
        /\ job = "stop" => runtime.state = "STOPPING"
    BY DEF OperationInv, Operating
  <2> QED BY <2>5, <2>6 DEF OneOperation
<1> QED BY <1>3, <1>4, <1>5

LEMMA RuntimeInvInit == RuntimeInit => RuntimeInv
<1> SUFFICES ASSUME RuntimeInit PROVE RuntimeInv
  OBVIOUS
<1> USE DEF RuntimeInit
<1>1. <<>> \in Seq(Answers) /\ <<>> \in Seq(Actions) /\ Len(<<>>) = 0
  BY EmptySeq
<1>2. RuntimeTypes
  BY <1>1 DEF RuntimeTypes, JobStages
<1>3. AnswersInv
  BY <1>1, RuntimeBounds DEF AnswersInv
<1>4. Live = {} /\ Bound = {}
  BY DEF Live, Bound
<1>5. OperationInv
  BY <1>1 DEF OperationInv, Operating
<1> QED BY <1>2, <1>3, <1>4, <1>5 DEF RuntimeInv, OneBound, ProcessInv

\* A new answer is remembered behind the others; the oldest may go.
LEMMA RememberKeeps ==
  ASSUME RuntimeTypes, AnswersInv, NEW e \in Answers, Known(e.id) = {}
  PROVE  /\ Remember(e) \in Seq(Answers) /\ Len(Remember(e)) <= CacheSize
         /\ \A i, j \in 1..Len(Remember(e)) : Remember(e)[i].id = Remember(e)[j].id => i = j
<1> DEFINE k == requests.known
           all == Append(k, e)
<1>1. k \in Seq(Answers) /\ Len(k) \in Nat /\ Len(k) <= CacheSize
      /\ \A i, j \in 1..Len(k) : k[i].id = k[j].id => i = j
  BY LenProperties DEF RuntimeTypes, AnswersInv
<1>2. \A i \in 1..Len(k) : k[i].id # e.id
  BY DEF Known
<1>3. /\ all \in Seq(Answers) /\ Len(all) = Len(k) + 1
      /\ \A i \in 1..Len(k) : all[i] = k[i]
      /\ all[Len(k) + 1] = e
  BY <1>1, AppendProperties
<1>4. Remember(e) = IF Len(all) > CacheSize THEN Tail(all) ELSE all
  BY DEF Remember
<1> HIDE DEF k, all
<1>5. \A i, j \in 1..Len(all) : all[i].id = all[j].id => i = j
  <2> TAKE i, j \in 1..Len(all)
  <2>1. i \in 1..Len(k) \/ i = Len(k) + 1
    BY <1>1, <1>3
  <2>2. j \in 1..Len(k) \/ j = Len(k) + 1
    BY <1>1, <1>3
  <2> QED BY <1>1, <1>2, <1>3, <2>1, <2>2
<1>6. CASE Len(all) > CacheSize
  <2>1. all # <<>>
    BY <1>1, <1>3, EmptySeq
  <2>2. /\ Tail(all) \in Seq(Answers) /\ Len(Tail(all)) = Len(all) - 1
        /\ \A i \in 1..Len(Tail(all)) : Tail(all)[i] = all[i + 1]
    BY <1>3, <2>1, HeadTailProperties
  <2>3. \A i \in 1..Len(Tail(all)) : i + 1 \in 1..Len(all)
    BY <1>1, <1>3, <2>2
  <2>4. \A i, j \in 1..Len(Tail(all)) : Tail(all)[i].id = Tail(all)[j].id => i = j
    <3> TAKE i, j \in 1..Len(Tail(all))
    <3> HAVE Tail(all)[i].id = Tail(all)[j].id
    <3>1. i + 1 = j + 1
      BY <1>5, <2>2, <2>3
    <3> QED BY <3>1
  <2> QED BY <1>1, <1>3, <1>4, <1>6, <2>2, <2>4
<1>7. CASE ~(Len(all) > CacheSize)
  <2>1. Len(all) <= CacheSize
    BY <1>1, <1>3, <1>7, RuntimeBounds
  <2> QED BY <1>3, <1>4, <1>5, <1>7, <2>1
<1> QED BY <1>6, <1>7

-----------------------------------------------------------------------------
(* What the steps of the runtime move.                                     *)

LEMMA RuntimeFacts ==
  ASSUME RuntimeTypes
  PROVE  /\ DOMAIN procs = Procs /\ DOMAIN clients = Clients
         /\ Live \subseteq Procs /\ Bound \subseteq Live /\ Unborn \subseteq Procs /\ Unborn \cap Live = {}
         /\ Len(submitted) \in Nat /\ DOMAIN submitted = 1..Len(submitted)
         /\ (submitted = <<>> <=> Len(submitted) = 0)
         /\ \A i \in 1..Len(submitted) : submitted[i] \in Actions
BY LenProperties, EmptySeq, ElementOfSeq DEF RuntimeTypes, Live, Bound, Unborn

\* A core binds, is configured, or ends.
LEMMA CoreMoves ==
  ASSUME RuntimeTypes, NEW p \in Procs, Binds(p) \/ Configures(p) \/ Exits(p)
  PROVE  /\ UNCHANGED <<samples, runtime, job, submitted, clients, requests>>
         /\ procs' \in [Procs -> {"unborn", "starting", "new", "configured", "running", "gone"}]
         /\ Live' \subseteq Live
         /\ Bound' \subseteq Bound \/ (Bound = {} /\ Bound' = {p})
         /\ Unborn' = Unborn
         /\ procs'[p] # "running" /\ \A q \in Procs : q # p => procs'[q] = procs[q]
<1>1. procs \in [Procs -> {"unborn", "starting", "new", "configured", "running", "gone"}]
  BY DEF RuntimeTypes
<1>2. CASE Binds(p)
  BY <1>1, <1>2 DEF Binds, Live, Bound, Unborn
<1>3. CASE Configures(p)
  BY <1>1, <1>3 DEF Configures, Live, Bound, Unborn
<1>4. CASE Exits(p)
  BY <1>1, <1>4 DEF Exits, Live, Bound, Unborn
<1> QED BY <1>2, <1>3, <1>4

LEMMA CoreRuntime == ASSUME RuntimeInv, CoreStep PROVE RuntimeInv'
<1>1. PICK p \in Procs : Binds(p) \/ Configures(p) \/ Exits(p)
  BY DEF CoreStep
<1>2. RuntimeTypes
  BY DEF RuntimeInv
<1>3. /\ UNCHANGED <<samples, runtime, job, submitted, clients, requests>>
      /\ procs' \in [Procs -> {"unborn", "starting", "new", "configured", "running", "gone"}]
      /\ Live' \subseteq Live
      /\ Bound' \subseteq Bound \/ (Bound = {} /\ Bound' = {p})
  BY <1>1, <1>2, CoreMoves
<1>4. RuntimeTypes'
  BY <1>2, <1>3 DEF RuntimeTypes
<1>5. AnswersInv' /\ OperationInv'
  BY <1>3 DEF RuntimeInv, AnswersInv, OperationInv
<1>6. OneBound'
  BY <1>3 DEF RuntimeInv, OneBound
<1>7. ProcessInv'
  BY <1>3 DEF RuntimeInv, ProcessInv
<1> QED BY <1>4, <1>5, <1>6, <1>7 DEF RuntimeInv

\* Samples come and age.
LEMMA SamplesRuntime ==
  ASSUME RuntimeInv, (\E p \in Procs : Publishes(p)) \/ Ages
  PROVE  RuntimeInv'
<1>1. UNCHANGED <<procs, runtime, job, submitted, clients, requests>>
  BY DEF Publishes, Ages
<1>2. samples' \in [of : Procs \cup {NoProc}, fresh : BOOLEAN]
  <2>1. CASE \E p \in Procs : Publishes(p)
    <3>1. PICK p \in Procs : samples' = [of |-> p, fresh |-> TRUE]
      BY <2>1 DEF Publishes
    <3> QED BY <3>1
  <2>2. CASE Ages
    BY <2>2 DEF Ages
  <2> QED BY <2>1, <2>2
<1>3. Live' = Live /\ Bound' = Bound
  BY <1>1 DEF Live, Bound
<1>4. RuntimeTypes'
  BY <1>1, <1>2 DEF RuntimeInv, RuntimeTypes
<1>5. AnswersInv' /\ OperationInv'
  BY <1>1 DEF RuntimeInv, AnswersInv, OperationInv
<1>6. OneBound' /\ ProcessInv'
  BY <1>1, <1>3 DEF RuntimeInv, OneBound, ProcessInv
<1> QED BY <1>4, <1>5, <1>6 DEF RuntimeInv

\* A command is answered as before, or decided.
LEMMA HandleRuntime ==
  ASSUME RuntimeInv, NEW c \in Clients, NEW id \in Ids, NEW action \in Actions, HandleCommand(c, id, action)
  PROVE  RuntimeInv'
<1> DEFINE accepted == MayAccept(action)
           entry == [id |-> id, action |-> action, accepted |-> accepted]
<1>0. /\ RuntimeTypes /\ AnswersInv /\ OneBound /\ OperationInv /\ ProcessInv
      /\ UNCHANGED <<procs, samples, job, submitted>> /\ clients[c] = "none"
      /\ requests \in [known : Seq(Answers), seen : Nat]
  BY DEF RuntimeInv, HandleCommand, RuntimeTypes
<1>1. Live' = Live /\ Bound' = Bound
  BY <1>0 DEF Live, Bound
<1>2. CASE Answered(id)
  <2>1. requests' = [requests EXCEPT !.seen = @ + 1] /\ UNCHANGED <<runtime, clients>>
    BY <1>2 DEF HandleCommand
  <2>2. requests'.known = requests.known /\ requests' \in [known : Seq(Answers), seen : Nat]
    BY <1>0, <2>1
  <2>3. RuntimeTypes'
    BY <1>0, <2>1, <2>2 DEF RuntimeTypes
  <2>4. AnswersInv'
    BY <1>0, <2>2 DEF AnswersInv
  <2>5. OperationInv'
    BY <1>0, <2>1 DEF OperationInv
  <2>6. OneBound' /\ ProcessInv'
    BY <1>0, <1>1, <2>1 DEF OneBound, ProcessInv
  <2> QED BY <2>3, <2>4, <2>5, <2>6 DEF RuntimeInv
<1>3. CASE ~Answered(id)
  <2>1. /\ requests' = [requests EXCEPT !.seen = @ + 1, !.known = Remember(entry)]
        /\ runtime' = IF accepted THEN [runtime EXCEPT !.state = IF action = "START" THEN "STARTING" ELSE "STOPPING"]
                      ELSE runtime
        /\ clients' = [clients EXCEPT ![c] = IF accepted THEN action ELSE "none"]
    BY <1>3 DEF HandleCommand
  <2>2. accepted \in BOOLEAN /\ entry \in Answers /\ entry.id = id /\ Known(entry.id) = {}
    BY <1>0, <1>3 DEF Answered, Answers, MayAccept, RuntimeTypes
  <2>3. /\ Remember(entry) \in Seq(Answers) /\ Len(Remember(entry)) <= CacheSize
        /\ \A i, j \in 1..Len(Remember(entry)) : Remember(entry)[i].id = Remember(entry)[j].id => i = j
    <3> HIDE DEF entry
    <3> QED BY <1>0, <2>2, RememberKeeps
  <2> HIDE DEF entry
  <2>4. requests'.known = Remember(entry) /\ requests' \in [known : Seq(Answers), seen : Nat]
    <3>1. requests.seen + 1 \in Nat
      BY <1>0
    <3>2. requests' = [known |-> Remember(entry), seen |-> requests.seen + 1]
      BY <1>0, <2>1
    <3> QED BY <2>3, <3>1, <3>2
  <2>5. AnswersInv'
    BY <2>3, <2>4 DEF AnswersInv
  <2>6. /\ runtime'.proc = runtime.proc
        /\ accepted => runtime'.state = Promised(action)
        /\ ~accepted => runtime' = runtime
        /\ runtime' \in [state : {"STOPPED", "STARTING", "RUNNING", "STOPPING"},
                         proc : Procs \cup {NoProc}, executable : BOOLEAN]
    <3>1. runtime \in [state : {"STOPPED", "STARTING", "RUNNING", "STOPPING"},
                       proc : Procs \cup {NoProc}, executable : BOOLEAN]
      BY <1>0 DEF RuntimeTypes
    <3> HIDE DEF accepted
    <3> QED BY <2>1, <3>1 DEF Promised
  <2>7. /\ clients'[c] = IF accepted THEN action ELSE "none"
        /\ \A d \in Clients : d # c => clients'[d] = clients[d]
        /\ clients' \in [Clients -> Actions \cup {"none"}]
    <3> HIDE DEF accepted
    <3> QED BY <1>0, <2>1 DEF RuntimeTypes
  <2>8. RuntimeTypes'
    <3> HIDE DEF accepted
    <3> QED BY <1>0, <2>4, <2>6, <2>7 DEF RuntimeTypes
  <2>9. accepted => /\ runtime.state \in {"STOPPED", "RUNNING"}
                    /\ runtime.state = "STOPPED" \/ action = "STOP"
    BY DEF MayAccept, Actions
  <2>10. action # "none"
    BY DEF Actions
  <2>11. runtime.state \in {"STOPPED", "RUNNING"} =>
           /\ \A d \in Clients : clients[d] = "none"
           /\ submitted = <<>> /\ job \notin Operating
    BY <1>0 DEF OperationInv, Promised
  <2>12. OperationInv'
    <3> HIDE DEF accepted
    <3>1. CASE accepted
      <4>1. \A d \in Clients : clients'[d] # "none" => d = c
        BY <2>7, <2>9, <2>11, <3>1
      <4> QED BY <1>0, <2>6, <2>7, <2>9, <2>11, <3>1, <4>1 DEF OperationInv
    <3>2. CASE ~accepted
      <4>1. clients' = clients
        BY <1>0, <2>1, <3>2 DEF RuntimeTypes
      <4> QED BY <1>0, <2>6, <3>2, <4>1 DEF OperationInv
    <3> QED BY <3>1, <3>2
  <2>13. ProcessInv'
    <3> HIDE DEF accepted
    <3>1. CASE accepted
      <4>1. CASE runtime.state = "STOPPED"
        BY <1>0, <1>1, <2>6, <4>1 DEF ProcessInv
      <4>2. CASE action = "STOP"
        <5>1. runtime'.state = "STOPPING"
          BY <2>6, <3>1, <4>2 DEF Promised
        <5> QED BY <1>0, <1>1, <2>6, <5>1 DEF ProcessInv
      <4> QED BY <2>9, <3>1, <4>1, <4>2
    <3>2. CASE ~accepted
      BY <1>0, <1>1, <2>6, <3>2 DEF ProcessInv
    <3> QED BY <3>1, <3>2
  <2>14. OneBound'
    BY <1>0, <1>1 DEF OneBound
  <2> QED BY <2>5, <2>8, <2>12, <2>13, <2>14 DEF RuntimeInv
<1> QED BY <1>2, <1>3

\* The action of a connection goes to the executor, or is given up.
LEMMA HandOver ==
  ASSUME RuntimeInv, NEW c \in Clients, Submits(c) \/ ReceiptTimesOut(c)
  PROVE  RuntimeInv'
<1>0. /\ RuntimeTypes /\ AnswersInv /\ OneBound /\ OperationInv /\ ProcessInv
      /\ UNCHANGED <<procs, samples, runtime, job, requests>> /\ clients[c] # "none"
      /\ clients' = [clients EXCEPT ![c] = "none"]
  BY DEF RuntimeInv, Submits, ReceiptTimesOut
<1>1. Live' = Live /\ Bound' = Bound
  BY <1>0 DEF Live, Bound
<1>2. /\ clients' \in [Clients -> Actions \cup {"none"}] /\ clients'[c] = "none"
      /\ \A d \in Clients : d # c => clients'[d] = clients[d]
  BY <1>0 DEF RuntimeTypes
<1>3. \A d \in Clients : clients'[d] = "none"
  BY <1>0, <1>2 DEF OperationInv
<1>4. submitted = <<>> /\ job \notin Operating /\ runtime.state = Promised(clients[c])
  BY <1>0 DEF OperationInv
<1>5. submitted' \in Seq(Actions) /\ (submitted' = submitted \/ submitted' = <<clients[c]>>)
  <2>1. clients[c] \in Actions
    BY <1>0 DEF RuntimeTypes
  <2>2. CASE Submits(c)
    <3>1. submitted' = Append(<<>>, clients[c])
      BY <1>4, <2>2 DEF Submits
    <3>2. submitted' = <<clients[c]>>
      BY <3>1
    <3> QED BY <2>1, <3>2
  <2>3. CASE ReceiptTimesOut(c)
    BY <1>0, <2>3 DEF ReceiptTimesOut, RuntimeTypes
  <2> QED BY <2>2, <2>3
<1>6. RuntimeTypes'
  BY <1>0, <1>2, <1>5 DEF RuntimeTypes
<1>7. OperationInv'
  <2>1. CASE submitted' = submitted
    BY <1>0, <1>3, <1>4, <2>1 DEF OperationInv
  <2>2. CASE submitted' = <<clients[c]>>
    <3>1. Len(submitted') = 1 /\ submitted'[1] = clients[c]
      BY <2>2
    <3> QED BY <1>0, <1>3, <1>4, <3>1 DEF OperationInv
  <2> QED BY <1>5, <2>1, <2>2
<1>8. AnswersInv' /\ OneBound' /\ ProcessInv'
  BY <1>0, <1>1 DEF AnswersInv, OneBound, ProcessInv
<1> QED BY <1>6, <1>7, <1>8 DEF RuntimeInv

\* The one action there is becomes the operation.
LEMMA TakesLockRuntime == ASSUME RuntimeInv, TakesLock PROVE RuntimeInv'
<1>0. /\ RuntimeTypes /\ AnswersInv /\ OneBound /\ OperationInv /\ ProcessInv
      /\ UNCHANGED <<procs, samples, runtime, clients, requests>> /\ job = "none"
  BY DEF RuntimeInv, TakesLock
<1>1. Live' = Live /\ Bound' = Bound
  BY <1>0 DEF Live, Bound
<1>2. PICK i \in 1..Len(submitted) : /\ job' = (IF submitted[i] = "START" THEN "launch" ELSE "stop")
                                     /\ submitted' = RemoveAt(submitted, i)
  BY DEF TakesLock
<1>3. Len(submitted) = 1 /\ i = 1 /\ submitted # <<>>
  BY <1>0, <1>2, RuntimeFacts DEF OperationInv
<1>4. submitted' = <<>>
  <2>1. submitted' = SubSeq(submitted, 1, 0) \o SubSeq(submitted, 2, 1)
    BY <1>2, <1>3 DEF RemoveAt
  <2>2. submitted \in Seq(Actions)
    BY <1>0 DEF RuntimeTypes
  <2>3. SubSeq(submitted, 1, 0) = <<>> /\ SubSeq(submitted, 2, 1) = <<>>
    BY <2>2, <1>3
  <2> QED BY <2>1, <2>3
<1>5. submitted[1] \in Actions
  BY <1>0, <1>3, RuntimeFacts
<1>6. RuntimeTypes'
  <2>1. submitted' \in Seq(Actions)
    BY <1>4
  <2>2. job' \in JobStages
    BY <1>2 DEF JobStages
  <2> QED BY <1>0, <2>1, <2>2 DEF RuntimeTypes
<1>7. \A d \in Clients : clients[d] = "none"
  BY <1>0, <1>3 DEF OperationInv
<1>8. runtime.state = Promised(submitted[1])
  BY <1>0, <1>3 DEF OperationInv
<1>9. OperationInv'
  <2>1. job' = (IF submitted[1] = "START" THEN "launch" ELSE "stop")
    BY <1>2, <1>3
  <2>2. runtime.state = IF job' = "stop" THEN "STOPPING" ELSE "STARTING"
    BY <1>8, <2>1 DEF Promised
  <2>3. Len(submitted') <= 1
    BY <1>4
  <2> QED BY <1>0, <1>4, <1>7, <2>2, <2>3 DEF OperationInv
<1>10. ProcessInv'
  <2>1. job' \in {"launch", "stop"} /\ (job' = "launch" => runtime.state = "STARTING")
                                    /\ (job' = "stop" => runtime.state = "STOPPING")
    BY <1>2, <1>3, <1>8 DEF Promised
  <2> QED BY <1>0, <1>1, <2>1 DEF ProcessInv, Launched
<1>11. AnswersInv' /\ OneBound'
  BY <1>0, <1>1 DEF AnswersInv, OneBound
<1> QED BY <1>6, <1>9, <1>10, <1>11 DEF RuntimeInv

\* While an operation is carried out no other is accepted.
LEMMA JobAlone ==
  ASSUME RuntimeInv, job \in Operating
  PROVE  submitted = <<>> /\ \A c \in Clients : clients[c] = "none"
BY DEF RuntimeInv, OperationInv

RuntimeRecord == [state : {"STOPPED", "STARTING", "RUNNING", "STOPPING"},
                  proc : Procs \cup {NoProc}, executable : BOOLEAN]
Samples == [of : Procs \cup {NoProc}, fresh : BOOLEAN]

\* A step of the operation that is carried out: it goes on, is done, or fails.
LEMMA OperationMoves ==
  ASSUME RuntimeInv, job \in Operating, UNCHANGED <<submitted, clients, requests>>,
         runtime' \in RuntimeRecord, samples' \in Samples,
         procs' \in [Procs -> {"unborn", "starting", "new", "configured", "running", "gone"}],
         OneBound', ProcessInv',
         \/ job' \in Operating /\ runtime'.state = IF job' = "stop" THEN "STOPPING" ELSE "STARTING"
         \/ job' \in {"none", "cleanup"}
  PROVE  RuntimeInv'
<1>0. RuntimeTypes /\ AnswersInv /\ OperationInv
  BY DEF RuntimeInv
<1>1. job' \in JobStages
  BY DEF Operating, JobStages
<1>2. RuntimeTypes'
  BY <1>0, <1>1 DEF RuntimeTypes, RuntimeRecord, Samples
<1>3. AnswersInv'
  BY <1>0 DEF AnswersInv
<1>4. OperationInv'
  <2>1. submitted = <<>> /\ \A c \in Clients : clients[c] = "none"
    BY JobAlone
  <2>2. Len(submitted) <= 1
    BY <1>0 DEF OperationInv
  <2> QED BY <2>1, <2>2 DEF OperationInv, Operating
<1> QED BY <1>2, <1>3, <1>4 DEF RuntimeInv

LEMMA OperationFacts ==
  ASSUME RuntimeInv
  PROVE  /\ runtime \in RuntimeRecord /\ samples \in Samples
         /\ procs \in [Procs -> {"unborn", "starting", "new", "configured", "running", "gone"}]
         /\ [of |-> NoProc, fresh |-> FALSE] \in Samples
         /\ OneBound /\ ProcessInv
         /\ job \in Operating => runtime.state = IF job = "stop" THEN "STOPPING" ELSE "STARTING"
         /\ NoProc \notin Procs /\ Bound \subseteq Live /\ Live \subseteq Procs
  BY RuntimeFacts, RuntimeBounds DEF RuntimeInv, RuntimeTypes, OperationInv, RuntimeRecord, Samples

\* A failed operation: the state first, then the process.
LEMMA FailsRuntime ==
  ASSUME RuntimeInv, job \in Operating, Fails, UNCHANGED <<procs, submitted, clients, requests>>,
         samples' \in Samples
  PROVE  RuntimeInv'
<1>1. Live' = Live /\ Bound' = Bound
  BY DEF Live, Bound
<1>2. runtime' \in RuntimeRecord /\ runtime'.proc = runtime.proc /\ job' = "cleanup"
  BY OperationFacts DEF Fails, RuntimeRecord
<1>3. OneBound' /\ ProcessInv'
  BY <1>1, <1>2, OperationFacts DEF OneBound, ProcessInv
<1> QED BY <1>2, <1>3, OperationFacts, OperationMoves

LEMMA LaunchesRuntime == ASSUME RuntimeInv, Launches PROVE RuntimeInv'
<1>1. /\ job = "launch" /\ job \in Operating /\ samples' = [of |-> NoProc, fresh |-> FALSE]
      /\ UNCHANGED <<submitted, clients, requests>>
  BY DEF Launches, Operating, ResetForNewRun
<1>2. CASE Fails /\ UNCHANGED procs
  BY <1>1, <1>2, OperationFacts, FailsRuntime
<1>3. CASE \E p \in Unborn : /\ procs' = [procs EXCEPT ![p] = "starting"]
                             /\ runtime' = [runtime EXCEPT !.proc = p]
                             /\ job' = "ready"
  <2>1. PICK p \in Unborn : /\ procs' = [procs EXCEPT ![p] = "starting"]
                            /\ runtime' = [runtime EXCEPT !.proc = p]
                            /\ job' = "ready"
    BY <1>3
  <2>2. p \in Procs /\ procs[p] = "unborn"
    BY <2>1 DEF Unborn
  <2>3. Live = {}
    <3>1. runtime.proc = NoProc
      BY <1>1, OperationFacts DEF ProcessInv, Launched
    <3> QED BY <3>1, OperationFacts DEF ProcessInv
  <2>4. /\ procs' \in [Procs -> {"unborn", "starting", "new", "configured", "running", "gone"}]
        /\ procs'[p] = "starting" /\ \A q \in Procs : q # p => procs'[q] = procs[q]
    BY <2>1, <2>2, OperationFacts
  <2>5. Live' = {p} /\ Bound' = {}
    BY <2>2, <2>3, <2>4, OperationFacts DEF Live, Bound
  <2>6. runtime' \in RuntimeRecord /\ runtime'.proc = p /\ runtime'.state = "STARTING"
    BY <1>1, <2>1, <2>2, OperationFacts DEF RuntimeRecord
  <2>7. OneBound' /\ ProcessInv'
    BY <2>1, <2>5, <2>6 DEF OneBound, ProcessInv, Launched
  <2> QED BY <1>1, <2>1, <2>4, <2>6, <2>7, OperationFacts, OperationMoves DEF Operating
<1> QED BY <1>2, <1>3 DEF Launches

\* An operation that goes on, or is done without touching the processes.
LEMMA QuietOperation ==
  ASSUME RuntimeInv, job \in Operating, UNCHANGED <<procs, submitted, clients, requests>>,
         samples' \in Samples, runtime' \in RuntimeRecord, runtime'.proc = runtime.proc,
         \/ job \in Operating \ {"launch", "stop"} /\ job' \in Launched /\ runtime' = runtime
         \/ job' = "none" /\ runtime'.state = "RUNNING"
  PROVE  RuntimeInv'
<1>1. Live' = Live /\ Bound' = Bound
  BY DEF Live, Bound
<1>2. OneBound'
  BY <1>1, OperationFacts DEF OneBound
<1>3. ProcessInv'
  BY <1>1, OperationFacts DEF ProcessInv, Operating
<1>4. job' \in Operating => runtime'.state = IF job' = "stop" THEN "STOPPING" ELSE "STARTING"
  BY OperationFacts DEF Launched, Operating
<1>5. job' \in Operating \/ job' = "none"
  BY DEF Launched, Operating
<1> QED BY <1>2, <1>3, <1>4, <1>5, OperationFacts, OperationMoves

LEMMA WaitingRuntime == ASSUME RuntimeInv, WaitsReady \/ ChecksStatus \/ WaitsSamples PROVE RuntimeInv'
<1>1. UNCHANGED <<procs, samples, submitted, clients, requests>> /\ job \in Operating \ {"launch", "stop"}
  BY DEF WaitsReady, ChecksStatus, WaitsSamples, Operating
<1>2. CASE Fails
  BY <1>1, <1>2, OperationFacts, FailsRuntime
<1>3. CASE job' \in Launched /\ runtime' = runtime
  BY <1>1, <1>3, OperationFacts, QuietOperation
<1>4. CASE job' = "none" /\ runtime' = [runtime EXCEPT !.state = "RUNNING"]
  <2>1. runtime' \in RuntimeRecord /\ runtime'.proc = runtime.proc /\ runtime'.state = "RUNNING"
    BY <1>4, OperationFacts DEF RuntimeRecord
  <2> QED BY <1>1, <1>4, <2>1, OperationFacts, QuietOperation
<1> QED BY <1>2, <1>3, <1>4 DEF WaitsReady, ChecksStatus, WaitsSamples, Launched

LEMMA StartsRuntime == ASSUME RuntimeInv, StartsCore PROVE RuntimeInv'
<1>1. UNCHANGED <<submitted, clients, requests>> /\ job = "start" /\ job \in Operating
  BY DEF StartsCore, Operating
<1>2. CASE Fails /\ UNCHANGED <<procs, samples>>
  BY <1>1, <1>2, OperationFacts, FailsRuntime
<1>3. CASE \E p \in Bound : /\ procs' = [procs EXCEPT ![p] = "running"]
                            /\ samples' = [samples EXCEPT !.fresh = FALSE]
                            /\ job' = "samples"
                            /\ UNCHANGED runtime
  <2>1. PICK p \in Bound : /\ procs' = [procs EXCEPT ![p] = "running"]
                           /\ samples' = [samples EXCEPT !.fresh = FALSE]
                           /\ job' = "samples" /\ runtime' = runtime
    BY <1>3
  <2>2. p \in Procs
    BY DEF Bound
  <2>3. /\ procs' \in [Procs -> {"unborn", "starting", "new", "configured", "running", "gone"}]
        /\ procs'[p] = "running" /\ \A q \in Procs : q # p => procs'[q] = procs[q]
    BY <2>1, <2>2, OperationFacts
  <2>4. Live' = Live /\ Bound' = Bound
    BY <2>2, <2>3 DEF Live, Bound
  <2>5. samples' \in Samples
    BY <2>1, OperationFacts DEF Samples
  <2>6. OneBound' /\ ProcessInv'
    BY <1>1, <2>1, <2>4, OperationFacts DEF OneBound, ProcessInv, Launched
  <2>7. runtime'.state = "STARTING"
    BY <1>1, <2>1, OperationFacts
  <2> QED BY <1>1, <2>1, <2>3, <2>5, <2>6, <2>7, OperationFacts, OperationMoves DEF Operating
<1> QED BY <1>2, <1>3 DEF StartsCore

LEMMA StopsRuntime == ASSUME RuntimeInv, Stops PROVE RuntimeInv'
<1>1. UNCHANGED <<submitted, clients, requests>> /\ job = "stop" /\ job \in Operating
  BY DEF Stops, Operating
<1>2. CASE runtime.proc \notin Live
  <2>1. Fails /\ UNCHANGED <<procs, samples>>
    BY <1>2 DEF Stops
  <2> QED BY <1>1, <2>1, OperationFacts, FailsRuntime
<1>3. CASE runtime.proc \in Live
  <2>1. /\ procs' = [procs EXCEPT ![runtime.proc] = "gone"]
        /\ samples' = [of |-> NoProc, fresh |-> FALSE]
        /\ runtime' = [runtime EXCEPT !.state = "STOPPED", !.proc = NoProc]
        /\ job' = "none"
    BY <1>3 DEF Stops, ResetForNewRun
  <2>2. /\ procs' \in [Procs -> {"unborn", "starting", "new", "configured", "running", "gone"}]
        /\ Live' = {} /\ Bound' = {}
    <3>1. procs' \in [Procs -> {"unborn", "starting", "new", "configured", "running", "gone"}]
      BY <2>1, OperationFacts
    <3>2. \A q \in Procs : procs'[q] = IF q = runtime.proc THEN "gone" ELSE procs[q]
      BY <2>1, OperationFacts
    <3>3. \A q \in Live : q = runtime.proc
      BY OperationFacts DEF ProcessInv
    <3> QED BY <3>1, <3>2, <3>3 DEF Live, Bound
  <2>3. runtime' \in RuntimeRecord /\ runtime'.proc = NoProc
    BY <2>1, OperationFacts DEF RuntimeRecord
  <2>4. OneBound' /\ ProcessInv'
    BY <2>2, <2>3 DEF OneBound, ProcessInv
  <2> QED BY <1>1, <2>1, <2>2, <2>3, <2>4, OperationFacts, OperationMoves
<1> QED BY <1>2, <1>3

LEMMA CleanupRuntime == ASSUME RuntimeInv, CleanupProcess PROVE RuntimeInv'
<1>0. /\ RuntimeTypes /\ AnswersInv /\ OneBound /\ OperationInv /\ ProcessInv
      /\ UNCHANGED <<submitted, clients, requests>> /\ job = "cleanup" /\ job' = "none"
      /\ runtime' = [runtime EXCEPT !.proc = NoProc] /\ samples' = [of |-> NoProc, fresh |-> FALSE]
      /\ procs' = Cleaned
  BY DEF RuntimeInv, CleanupProcess, ResetForNewRun
<1>1. /\ procs' \in [Procs -> {"unborn", "starting", "new", "configured", "running", "gone"}]
      /\ Live' = {} /\ Bound' = {}
  <2>1. \A q \in Live : q = runtime.proc
    BY <1>0 DEF ProcessInv
  <2>2. CASE runtime.proc = NoProc
    <3>1. Live = {} /\ procs' = procs
      BY <1>0, <2>1, <2>2, OperationFacts DEF Cleaned
    <3> QED BY <3>1, OperationFacts DEF Live, Bound
  <2>3. CASE runtime.proc # NoProc
    <3>1. procs' = [procs EXCEPT ![runtime.proc] = "gone"]
      BY <1>0, <2>3 DEF Cleaned
    <3>2. procs' \in [Procs -> {"unborn", "starting", "new", "configured", "running", "gone"}]
      BY <3>1, OperationFacts
    <3>3. \A q \in Procs : procs'[q] = IF q = runtime.proc THEN "gone" ELSE procs[q]
      BY <3>1, OperationFacts
    <3> QED BY <2>1, <3>2, <3>3 DEF Live, Bound
  <2> QED BY <2>2, <2>3
<1>2. runtime' \in RuntimeRecord /\ runtime'.proc = NoProc /\ runtime'.state = runtime.state
  BY <1>0, OperationFacts DEF RuntimeRecord
<1>3. RuntimeTypes'
  BY <1>0, <1>1, <1>2, OperationFacts DEF RuntimeTypes, RuntimeRecord, Samples, JobStages
<1>4. OperationInv'
  BY <1>0, <1>2 DEF OperationInv, Operating
<1>5. OneBound' /\ ProcessInv'
  BY <1>1, <1>2 DEF OneBound, ProcessInv
<1>6. AnswersInv'
  BY <1>0 DEF AnswersInv
<1> QED BY <1>3, <1>4, <1>5, <1>6 DEF RuntimeInv

LEMMA RuntimeInvStep == RuntimeInv /\ [RuntimeNext]_runtimeVars => RuntimeInv'
<1> SUFFICES ASSUME RuntimeInv, [RuntimeNext]_runtimeVars PROVE RuntimeInv'
  OBVIOUS
<1>1. CASE CoreStep
  BY <1>1, CoreRuntime
<1>2. CASE (\E p \in Procs : Publishes(p)) \/ Ages
  BY <1>2, SamplesRuntime
<1>3. ASSUME NEW c \in Clients,
             (\E id \in Ids, action \in Actions : HandleCommand(c, id, action)) \/ Submits(c) \/ ReceiptTimesOut(c)
      PROVE  RuntimeInv'
  BY <1>3, HandleRuntime, HandOver
<1>4. CASE TakesLock
  BY <1>4, TakesLockRuntime
<1>5. CASE JobStep
  BY <1>5, LaunchesRuntime, WaitingRuntime, StartsRuntime, StopsRuntime, CleanupRuntime DEF JobStep
<1>6. CASE UNCHANGED runtimeVars
  <2>1. Live' = Live /\ Bound' = Bound
    BY <1>6 DEF runtimeVars, Live, Bound
  <2>2. RuntimeTypes' /\ AnswersInv'
    BY <1>6 DEF RuntimeInv, runtimeVars, RuntimeTypes, AnswersInv
  <2>3. OneBound' /\ OperationInv' /\ ProcessInv'
    BY <1>6, <2>1 DEF RuntimeInv, runtimeVars, OneBound, OperationInv, ProcessInv
  <2> QED BY <2>2, <2>3 DEF RuntimeInv
<1> QED BY <1>1, <1>2, <1>3, <1>4, <1>5, <1>6 DEF RuntimeNext

\* For any connections, commands and processes: at most one process of the model
\* is alive, and an accepted START or STOP is the only one until it has been
\* carried out (model_runtime.py, execute; spring_ws_server.py, handle_command).
THEOREM RuntimeIsSound == RuntimeSpec => [](RuntimeTypeOK /\ OneModelProcess /\ OneOperation)
BY RuntimeInvInit, RuntimeInvStep, RuntimeInvSound, PTL DEF RuntimeSpec

\* When the start is sent, the process that is alive has been configured.
ConfiguredInv == job = "start" => \A p \in Live : procs[p] \in {"configured", "running"}

LEMMA ConfiguredStep ==
  ASSUME RuntimeInv, ConfiguredInv, [RuntimeNext]_runtimeVars
  PROVE  /\ ConfiguredInv'
         /\ \A p \in Procs : procs[p] \in {"starting", "new"} => procs'[p] # "running"
<1>0. RuntimeTypes
  BY DEF RuntimeInv
<1>1. ASSUME NEW p \in Procs, Binds(p) \/ Configures(p) \/ Exits(p)
      PROVE  /\ ConfiguredInv'
             /\ \A q \in Procs : procs[q] \in {"starting", "new"} => procs'[q] # "running"
  <2>1. job' = job /\ Live' \subseteq Live /\ procs'[p] # "running"
        /\ \A q \in Procs : q # p => procs'[q] = procs[q]
    BY <1>0, <1>1, CoreMoves
  <2>2. ASSUME job = "start" PROVE \A q \in Live' : procs'[q] \in {"configured", "running"}
    <3> TAKE q \in Live'
    <3>1. q \in Live /\ procs[q] \in {"configured", "running"} /\ q \in Procs
      BY <2>1, <2>2, RuntimeFacts, <1>0 DEF ConfiguredInv
    <3>2. CASE q # p
      BY <2>1, <3>1, <3>2
    <3>3. CASE q = p
      <4>1. ~Binds(p) /\ ~Configures(p)
        BY <3>1, <3>3 DEF Binds, Configures
      <4>2. procs'[p] = "gone"
        BY <1>0, <1>1, <4>1 DEF Exits, RuntimeTypes
      <4>3. q \notin Live'
        BY <3>3, <4>2 DEF Live
      <4> QED BY <4>3
    <3> QED BY <3>2, <3>3
  <2>3. ConfiguredInv'
    BY <2>1, <2>2 DEF ConfiguredInv
  <2> QED BY <2>1, <2>3
<1>2. CASE CoreStep
  BY <1>1, <1>2 DEF CoreStep
<1>3. CASE /\ UNCHANGED procs
           /\ job' # "start" \/ job' = job
  <2>1. Live' = Live
    BY <1>3 DEF Live
  <2> QED BY <1>3, <2>1 DEF ConfiguredInv
<1>4. CASE ((\E p \in Procs : Publishes(p)) \/ Ages) \/ UNCHANGED runtimeVars
  BY <1>3, <1>4 DEF Publishes, Ages, runtimeVars
<1>5. ASSUME NEW c \in Clients,
             (\E id \in Ids, action \in Actions : HandleCommand(c, id, action)) \/ Submits(c) \/ ReceiptTimesOut(c)
      PROVE  UNCHANGED <<procs, job>>
  BY <1>5 DEF HandleCommand, Submits, ReceiptTimesOut
<1>6. CASE TakesLock
  BY <1>3, <1>6 DEF TakesLock
<1>7. CASE ChecksStatus
  <2>1. CASE Fails
    BY <1>3, <1>7, <2>1 DEF ChecksStatus, Fails
  <2>2. CASE SaysConfigured
    <3>1. PICK p \in Bound : procs[p] = "configured"
      BY <2>2 DEF SaysConfigured
    <3>2. \A q \in Live : procs[q] = "configured"
      BY <3>1, OperationFacts DEF ProcessInv
    <3>3. procs' = procs /\ Live' = Live
      BY <1>7 DEF ChecksStatus, Live
    <3> QED BY <3>2, <3>3 DEF ConfiguredInv
  <2> QED BY <1>7, <2>1, <2>2 DEF ChecksStatus
<1>8. CASE WaitsReady \/ WaitsSamples
  BY <1>3, <1>8 DEF WaitsReady, WaitsSamples, Fails
<1>9. CASE Launches \/ Stops \/ CleanupProcess
  <2>1. job' # "start"
    BY <1>9 DEF Launches, Stops, CleanupProcess, Fails
  <2>2. \A p \in Procs : procs'[p] = procs[p] \/ procs'[p] # "running"
    <3>1. \/ procs' = procs
          \/ \E q, s : procs' = [procs EXCEPT ![q] = s] /\ s \in {"starting", "gone"}
      BY <1>9 DEF Launches, Stops, CleanupProcess, Cleaned
    <3> QED BY <1>0, <3>1 DEF RuntimeTypes
  <2> QED BY <2>1, <2>2 DEF ConfiguredInv
<1>10. CASE StartsCore
  <2>1. CASE UNCHANGED procs
    BY <1>3, <1>10, <2>1 DEF StartsCore, Fails
  <2>2. CASE \E p \in Bound : procs' = [procs EXCEPT ![p] = "running"] /\ job' = "samples"
    <3>1. PICK p \in Bound : procs' = [procs EXCEPT ![p] = "running"] /\ job' = "samples"
      BY <2>2
    <3>2. procs[p] \in {"configured", "running"}
      BY <1>10, OperationFacts DEF StartsCore, ConfiguredInv
    <3>3. \A q \in Procs : q # p => procs'[q] = procs[q]
      BY <1>0, <3>1 DEF RuntimeTypes
    <3>4. ConfiguredInv'
      BY <3>1 DEF ConfiguredInv
    <3> QED BY <3>2, <3>3, <3>4
  <2> QED BY <1>10, <2>1, <2>2 DEF StartsCore
<1> QED BY <1>2, <1>3, <1>4, <1>5, <1>6, <1>7, <1>8, <1>9, <1>10 DEF RuntimeNext, JobStep

\* No START makes a core run that the gateway has not configured, although core,
\* gateway and executor do not wait for each other (model_runtime.py, _start).
THEOREM StartsConfigured == RuntimeSpec => ConfiguredFirst
<1>1. RuntimeInit => RuntimeInv /\ ConfiguredInv
  BY RuntimeInvInit DEF RuntimeInit, ConfiguredInv
<1>2. RuntimeInv /\ ConfiguredInv /\ [RuntimeNext]_runtimeVars => (RuntimeInv /\ ConfiguredInv)'
  BY RuntimeInvStep, ConfiguredStep
<1>3. RuntimeInv /\ ConfiguredInv /\ [RuntimeNext]_runtimeVars =>
        [\A p \in Procs : procs[p] \in {"starting", "new"} => procs'[p] # "running"]_runtimeVars
  BY ConfiguredStep
<1> QED BY <1>1, <1>2, <1>3, PTL DEF RuntimeSpec, ConfiguredFirst

-----------------------------------------------------------------------------
(* Deployment: receipts, and what a core is built from.                    *)

Stages == {"idle", "validate", "stop", "copy", "build", "start", "register", "publish"}
AnyContent == Contents \cup {NoContent}
ReceiptRecords == [digest : Digests, expired : BOOLEAN, used : SUBSET Operations, ran : [Operations -> Nat]]
CommandRecords == [pc : Stages, operation : Operations, digest : Digests, receipt : BOOLEAN,
                   valid : AnyContent, content : AnyContent, moved : BOOLEAN]
ActiveRecords == [proc : Procs \cup {NoProc}, valid : AnyContent, failed : BOOLEAN, left : SUBSET Procs]
ContractRecords == [file : AnyContent, controller : Digests, path : {"none", "active", "other"}]

DeploymentTypes ==
  /\ release \in Contents
  /\ package \in [content : AnyContent, changes : 0..MaxChanges]
  /\ receipts \in [Receipts -> ReceiptRecords]
  /\ command \in [run : CommandRecords, count : 0..MaxCommands2]
  /\ active \in ActiveRecords
  /\ contract \in ContractRecords

\* An operation ran as often as it is written in the receipt, and a command that
\* came with a receipt is written there.
ReceiptInv ==
  /\ \A r \in Receipts, o \in Operations : receipts[r].ran[o] = IF o \in receipts[r].used THEN 1 ELSE 0
  /\ \A r \in Receipts : receipts[r].digest = NoVersion => receipts[r] = NoReceipt
  /\ run.receipt => \E r \in Receipts : receipts[r].digest = run.digest /\ run.operation \in receipts[r].used

\* Stages after the validation, and those in which the copy was made.
Validated == {"stop", "copy", "build", "start", "register", "publish"}
Copied == {"build", "start", "register", "publish"}

\* What was validated stays known; it is what the directory has until the copy, and
\* what the copy has after it, or the directory was changed between the two.
CommandInv ==
  /\ run.pc \in Validated => Valid(run.valid, run.digest)
  /\ run.pc \in {"stop", "copy"} => package.content = run.valid \/ run.moved
  /\ run.pc \in Copied => run.content = run.valid \/ run.moved
  /\ run.pc \in {"stop", "start", "register", "publish"} => run.operation = "deploy"
  /\ active.proc = NoProc <=> active.valid = NoContent

StagingInv == DeploymentTypes /\ ReceiptInv /\ CommandInv

LEMMA StagingInvInit == RuntimeInit /\ DeploymentInit => StagingInv
<1> SUFFICES ASSUME DeploymentInit PROVE StagingInv
  OBVIOUS
<1> USE DEF DeploymentInit
<1>1. NoReceipt \in ReceiptRecords
  BY DEF NoReceipt, ReceiptRecords, Digests
<1>2. NoCommand \in CommandRecords /\ NoCommand.pc = "idle" /\ ~NoCommand.receipt
  BY DEF NoCommand, CommandRecords, Stages, AnyContent, Digests, Operations
<1>3. 0 \in 0..MaxChanges /\ 0 \in 0..MaxCommands2
  BY DeploymentAssumption DEF DeploymentAssumption
<1>4. command.run = NoCommand /\ command \in [run : CommandRecords, count : 0..MaxCommands2]
  BY <1>2, <1>3
<1>5. DeploymentTypes
  <2>1. active \in ActiveRecords /\ contract \in ContractRecords
    BY DEF NoCore, ActiveRecords, ContractRecords, AnyContent, Digests
  <2> QED BY <1>1, <1>3, <1>4, <2>1 DEF DeploymentTypes, AnyContent
<1>6. ReceiptInv
  BY <1>2, <1>4 DEF ReceiptInv, run, NoReceipt
<1>7. CommandInv
  BY <1>2, <1>4 DEF CommandInv, run, NoCore, Validated, Copied
<1> QED BY <1>5, <1>6, <1>7 DEF StagingInv

\* What a step of a command makes of its record.
LEMMA CommandGoes ==
  ASSUME DeploymentTypes, NEW next \in CommandRecords, Goes(next)
  PROVE  /\ command' \in [run : CommandRecords, count : 0..MaxCommands2]
         /\ run' = next
<1>1. command \in [run : CommandRecords, count : 0..MaxCommands2] /\ command' = [command EXCEPT !.run = next]
  BY DEF DeploymentTypes, Goes
<1> QED BY <1>1 DEF run

LEMMA CommandFails ==
  ASSUME DeploymentTypes, Fail
  PROVE  /\ command' \in [run : CommandRecords, count : 0..MaxCommands2]
         /\ run' = NoCommand /\ run'.pc = "idle" /\ ~run'.receipt
<1>1. NoCommand \in CommandRecords /\ NoCommand.pc = "idle" /\ ~NoCommand.receipt
  BY DEF NoCommand, CommandRecords, Stages, AnyContent, Digests, Operations
<1> QED BY <1>1, CommandGoes DEF Fail

\* Packages and releases change, and what was validated does not.
LEMMA PackagesStaging ==
  ASSUME StagingInv, ReleaseChanges \/ DirectoryChanges
  PROVE  /\ StagingInv' /\ UNCHANGED <<active, contract>>
         /\ run'.pc = run.pc /\ run'.operation = run.operation /\ run'.valid = run.valid
<1>0. DeploymentTypes /\ ReceiptInv /\ CommandInv /\ UNCHANGED <<receipts, active, contract>> /\ run \in CommandRecords
  BY DEF StagingInv, ReleaseChanges, DirectoryChanges, DeploymentTypes, run
<1>1. package \in [content : AnyContent, changes : 0..MaxChanges] /\ package.changes + 1 \in 0..MaxChanges
  <2>1. package.changes < MaxChanges
    BY DEF ReleaseChanges, DirectoryChanges
  <2> QED BY <1>0, <2>1, DeploymentAssumption DEF DeploymentTypes, DeploymentAssumption
<1>2. CASE ReleaseChanges
  <2>1. /\ release' \in Contents /\ package' \in [content : AnyContent, changes : 0..MaxChanges]
        /\ package'.content = package.content /\ UNCHANGED command
    BY <1>1, <1>2 DEF ReleaseChanges
  <2>2. run' = run
    BY <2>1 DEF run
  <2>3. DeploymentTypes'
    BY <1>0, <2>1 DEF DeploymentTypes
  <2>4. ReceiptInv'
    BY <1>0, <2>2 DEF ReceiptInv
  <2>5. CommandInv'
    BY <1>0, <2>1, <2>2 DEF CommandInv
  <2> QED BY <1>0, <2>2, <2>3, <2>4, <2>5 DEF StagingInv
<1>3. CASE DirectoryChanges
  <2> DEFINE next == [run EXCEPT !.moved = run.moved \/ run.pc \in {"stop", "copy"}]
  <2>1. Goes(next)
    BY <1>3 DEF DirectoryChanges
  <2>2. /\ next \in CommandRecords /\ next.pc = run.pc /\ next.operation = run.operation
        /\ next.digest = run.digest /\ next.receipt = run.receipt /\ next.valid = run.valid /\ next.content = run.content
        /\ next.moved = (run.moved \/ run.pc \in {"stop", "copy"})
    <3>1. (run.moved \/ run.pc \in {"stop", "copy"}) \in BOOLEAN
      BY <1>0 DEF CommandRecords
    <3> QED BY <1>0, <3>1 DEF CommandRecords
  <2> HIDE DEF next
  <2>3. command' \in [run : CommandRecords, count : 0..MaxCommands2] /\ run' = next
    BY <1>0, <2>1, <2>2, CommandGoes
  <2>4. release' \in Contents /\ package' \in [content : AnyContent, changes : 0..MaxChanges]
    BY <1>0, <1>1, <1>3 DEF DirectoryChanges, DeploymentTypes, AnyContent
  <2>5. DeploymentTypes'
    BY <1>0, <2>3, <2>4 DEF DeploymentTypes
  <2>6. ReceiptInv'
    BY <1>0, <2>2, <2>3 DEF ReceiptInv
  <2>7. CommandInv'
    BY <1>0, <2>2, <2>3 DEF CommandInv, Validated, Copied
  <2> QED BY <1>0, <2>2, <2>3, <2>5, <2>6, <2>7 DEF StagingInv
<1> QED BY <1>2, <1>3

\* A receipt is given, or expires.
LEMMA ReceiptsStaging ==
  ASSUME StagingInv, NEW r \in Receipts, Stage(r) \/ Expires(r)
  PROVE  StagingInv'
<1>0. DeploymentTypes /\ ReceiptInv /\ CommandInv /\ UNCHANGED <<release, command, active, contract>>
  BY DEF StagingInv, Stage, Expires
<1>1. receipts \in [Receipts -> ReceiptRecords] /\ receipts[r] \in ReceiptRecords
  BY <1>0 DEF DeploymentTypes
<1>2. CASE Stage(r)
  <2>1. /\ Idle /\ receipts[r] = NoReceipt /\ Staged \in AnyContent /\ Staged.version \in Digests
        /\ package' = [package EXCEPT !.content = Staged]
        /\ receipts' = [receipts EXCEPT ![r].digest = Staged.version]
    BY <1>0, <1>2 DEF Stage, Staged, DeploymentTypes, AnyContent, Contents, NoContent, Digests
  <2>2. package' \in [content : AnyContent, changes : 0..MaxChanges]
    BY <1>0, <2>1 DEF DeploymentTypes
  <2>3. /\ receipts' \in [Receipts -> ReceiptRecords]
        /\ receipts'[r] = [NoReceipt EXCEPT !.digest = Staged.version]
        /\ receipts'[r].digest = Staged.version
        /\ receipts'[r].used = receipts[r].used /\ receipts'[r].ran = receipts[r].ran
        /\ \A s \in Receipts : s # r => receipts'[s] = receipts[s]
    BY <1>1, <2>1 DEF ReceiptRecords
  <2>4. Staged.version = NoVersion => receipts'[r] = NoReceipt
    BY <2>3 DEF NoReceipt
  <2>5. DeploymentTypes'
    BY <1>0, <2>2, <2>3 DEF DeploymentTypes
  <2>6. ReceiptInv'
    <3>1. \A s \in Receipts : receipts'[s].used = receipts[s].used /\ receipts'[s].ran = receipts[s].ran
      BY <2>3
    <3>2. \A s \in Receipts : receipts'[s].digest = NoVersion => receipts'[s] = NoReceipt
      BY <1>0, <2>3, <2>4 DEF ReceiptInv
    <3>3. receipts[r].used = {}
      BY <2>1 DEF NoReceipt
    <3>4. run' = run
      BY <1>0 DEF run
    <3>5. run.receipt => \E s \in Receipts : receipts'[s].digest = run.digest /\ run.operation \in receipts'[s].used
      <4> SUFFICES ASSUME run.receipt
                   PROVE  \E s \in Receipts : receipts'[s].digest = run.digest /\ run.operation \in receipts'[s].used
        OBVIOUS
      <4>1. PICK s \in Receipts : receipts[s].digest = run.digest /\ run.operation \in receipts[s].used
        BY <1>0 DEF ReceiptInv
      <4>2. s # r
        BY <3>3, <4>1
      <4> QED BY <2>3, <4>1, <4>2
    <3>6. \A s \in Receipts, o \in Operations : receipts'[s].ran[o] = IF o \in receipts'[s].used THEN 1 ELSE 0
      BY <1>0, <3>1 DEF ReceiptInv
    <3> QED BY <3>2, <3>4, <3>5, <3>6 DEF ReceiptInv
  <2>7. CommandInv'
    BY <1>0, <2>1 DEF CommandInv, Idle, run, Validated, Copied
  <2> QED BY <2>5, <2>6, <2>7 DEF StagingInv
<1>3. CASE Expires(r)
  <2>1. receipts[r].digest # NoVersion /\ receipts' = [receipts EXCEPT ![r].expired = TRUE] /\ UNCHANGED package
    BY <1>3 DEF Expires
  <2>2. /\ receipts' \in [Receipts -> ReceiptRecords]
        /\ \A s \in Receipts : /\ receipts'[s].digest = receipts[s].digest /\ receipts'[s].used = receipts[s].used
                               /\ receipts'[s].ran = receipts[s].ran
                               /\ s # r => receipts'[s] = receipts[s]
    BY <1>1, <2>1 DEF ReceiptRecords
  <2>3. DeploymentTypes'
    BY <1>0, <2>1, <2>2 DEF DeploymentTypes
  <2>4. ReceiptInv'
    <3>1. run' = run
      BY <1>0 DEF run
    <3> QED BY <1>0, <2>1, <2>2, <3>1 DEF ReceiptInv
  <2>5. CommandInv'
    BY <1>0, <2>1 DEF CommandInv, run
  <2> QED BY <2>3, <2>4, <2>5 DEF StagingInv
<1> QED BY <1>2, <1>3

\* A receipt is used: it is written before the operation begins.
LEMMA HydrateStaging ==
  ASSUME StagingInv, NEW r \in Receipts, NEW operation \in Operations, Hydrate(r, operation)
  PROVE  StagingInv'
<1>0. /\ DeploymentTypes /\ ReceiptInv /\ CommandInv /\ UNCHANGED <<release, package, active, contract>>
      /\ operation \notin receipts[r].used /\ receipts[r].digest # NoVersion
      /\ command.count < MaxCommands2
      /\ receipts' = [receipts EXCEPT ![r] = Used(r, operation)]
  BY DEF StagingInv, Hydrate
<1>1. receipts \in [Receipts -> ReceiptRecords] /\ receipts[r] \in ReceiptRecords
  BY <1>0 DEF DeploymentTypes
<1> DEFINE next == [pc |-> "validate", operation |-> operation, digest |-> receipts[r].digest,
                    receipt |-> TRUE, valid |-> NoContent, content |-> NoContent, moved |-> FALSE]
<1>2. command' = [count |-> command.count + 1, run |-> next]
  BY DEF Hydrate, NoCommand
<1>3. next \in CommandRecords
  BY <1>1 DEF CommandRecords, ReceiptRecords, Stages, AnyContent
<1>4. command' \in [run : CommandRecords, count : 0..MaxCommands2] /\ run' = next
  <2> HIDE DEF next
  <2>1. command.count + 1 \in 0..MaxCommands2
    BY <1>0, DeploymentAssumption DEF DeploymentTypes, DeploymentAssumption
  <2> QED BY <1>2, <1>3, <2>1 DEF run
<1>5. /\ Used(r, operation).used = receipts[r].used \cup {operation}
      /\ Used(r, operation).digest = receipts[r].digest
      /\ Used(r, operation).ran = [receipts[r].ran EXCEPT ![operation] = @ + 1]
      /\ Used(r, operation) \in ReceiptRecords
  <2>1. receipts[r].ran \in [Operations -> Nat] /\ receipts[r].ran[operation] \in Nat
    BY <1>1 DEF ReceiptRecords
  <2>2. [receipts[r].ran EXCEPT ![operation] = @ + 1] \in [Operations -> Nat]
    BY <2>1
  <2>3. Used(r, operation) = [receipts[r] EXCEPT !.used = receipts[r].used \cup {operation},
                                                 !.ran = [receipts[r].ran EXCEPT ![operation] = @ + 1]]
    BY DEF Used
  <2>4. Used(r, operation) = [digest |-> receipts[r].digest, expired |-> receipts[r].expired,
                              used |-> receipts[r].used \cup {operation},
                              ran |-> [receipts[r].ran EXCEPT ![operation] = @ + 1]]
    BY <1>1, <2>3 DEF ReceiptRecords
  <2>5. receipts[r].used \cup {operation} \in SUBSET Operations
    BY <1>1 DEF ReceiptRecords
  <2> QED BY <1>1, <2>2, <2>4, <2>5 DEF ReceiptRecords
<1>6. /\ receipts' \in [Receipts -> ReceiptRecords] /\ receipts'[r] = Used(r, operation)
      /\ \A s \in Receipts : s # r => receipts'[s] = receipts[s]
  BY <1>0, <1>1, <1>5
<1>7. DeploymentTypes'
  BY <1>0, <1>4, <1>6 DEF DeploymentTypes
<1>8. ReceiptInv'
  <2>1. \A o \in Operations : receipts'[r].ran[o] = IF o \in receipts'[r].used THEN 1 ELSE 0
    <3> TAKE o \in Operations
    <3>1. receipts[r].ran[o] = IF o \in receipts[r].used THEN 1 ELSE 0
      BY <1>0 DEF ReceiptInv
    <3>2. receipts[r].ran \in [Operations -> Nat]
      BY <1>1 DEF ReceiptRecords
    <3>3. CASE o = operation
      BY <1>0, <1>5, <1>6, <3>1, <3>2, <3>3
    <3>4. CASE o # operation
      BY <1>5, <1>6, <3>1, <3>2, <3>4
    <3> QED BY <3>3, <3>4
  <2>2. \A s \in Receipts, o \in Operations : receipts'[s].ran[o] = IF o \in receipts'[s].used THEN 1 ELSE 0
    BY <1>0, <1>6, <2>1 DEF ReceiptInv
  <2>3. \A s \in Receipts : receipts'[s].digest = NoVersion => receipts'[s] = NoReceipt
    BY <1>0, <1>5, <1>6 DEF ReceiptInv
  <2>4. receipts'[r].digest = run'.digest /\ run'.operation \in receipts'[r].used
    BY <1>4, <1>5, <1>6
  <2> QED BY <2>2, <2>3, <2>4 DEF ReceiptInv
<1>9. CommandInv'
  BY <1>0, <1>4 DEF CommandInv, Validated, Copied
<1> QED BY <1>7, <1>8, <1>9 DEF StagingInv

\* A command without a receipt.
LEMMA RequestStaging ==
  ASSUME StagingInv, NEW operation \in Operations, Request(operation)
  PROVE  StagingInv'
<1>0. /\ DeploymentTypes /\ ReceiptInv /\ CommandInv
      /\ UNCHANGED <<release, package, receipts, active, contract>> /\ command.count < MaxCommands2
  BY DEF StagingInv, Request
<1>1. PICK digest \in Versions :
        command' = [count |-> command.count + 1,
                    run |-> [NoCommand EXCEPT !.pc = "validate", !.operation = operation, !.digest = digest]]
  BY DEF Request
<1> DEFINE next == [pc |-> "validate", operation |-> operation, digest |-> digest,
                    receipt |-> FALSE, valid |-> NoContent, content |-> NoContent, moved |-> FALSE]
<1>2. command' = [count |-> command.count + 1, run |-> next]
  BY <1>1 DEF NoCommand
<1>3. next \in CommandRecords
  BY DEF CommandRecords, Stages, AnyContent, Digests
<1>4. command' \in [run : CommandRecords, count : 0..MaxCommands2] /\ run' = next
  <2> HIDE DEF next
  <2>1. command.count + 1 \in 0..MaxCommands2
    BY <1>0, DeploymentAssumption DEF DeploymentTypes, DeploymentAssumption
  <2> QED BY <1>2, <1>3, <2>1 DEF run
<1>5. DeploymentTypes'
  BY <1>0, <1>4 DEF DeploymentTypes
<1>6. ReceiptInv'
  BY <1>0, <1>4 DEF ReceiptInv
<1>7. CommandInv'
  BY <1>0, <1>4 DEF CommandInv, Validated, Copied
<1> QED BY <1>5, <1>6, <1>7 DEF StagingInv

\* Validation, copy and build, without the processes.
LEMMA StepsStaging ==
  ASSUME StagingInv, Validates \/ Copies \/ Builds
  PROVE  StagingInv'
<1>0. /\ DeploymentTypes /\ ReceiptInv /\ CommandInv /\ UNCHANGED <<release, package, receipts, active, contract>>
      /\ run \in CommandRecords /\ package.content \in AnyContent
  BY DEF StagingInv, Validates, Copies, Builds, DeploymentTypes, run
<1>1. CASE Fail
  <2>1. command' \in [run : CommandRecords, count : 0..MaxCommands2] /\ run'.pc = "idle" /\ ~run'.receipt
    BY <1>0, <1>1, CommandFails
  <2>2. DeploymentTypes'
    BY <1>0, <2>1 DEF DeploymentTypes
  <2>3. ReceiptInv'
    BY <1>0, <2>1 DEF ReceiptInv
  <2>4. CommandInv'
    BY <1>0, <2>1 DEF CommandInv, Validated, Copied
  <2> QED BY <2>2, <2>3, <2>4 DEF StagingInv
<1>2. ASSUME NEW next \in CommandRecords, Goes(next), next.digest = run.digest, next.receipt = run.receipt,
             next.operation = run.operation,
             Valid(next.valid, next.digest),
             next.pc \in {"stop", "copy"} => next.valid = package.content,
             next.pc \in {"build", "start"} => next.content = next.valid \/ next.moved,
             next.pc \notin {"register", "publish"},
             next.pc \in {"stop", "start"} => next.operation = "deploy"
      PROVE  StagingInv'
  <2>1. command' \in [run : CommandRecords, count : 0..MaxCommands2] /\ run' = next
    BY <1>0, <1>2, CommandGoes
  <2>2. DeploymentTypes'
    BY <1>0, <2>1 DEF DeploymentTypes
  <2>3. ReceiptInv'
    BY <1>0, <1>2, <2>1 DEF ReceiptInv
  <2>4. CommandInv'
    BY <1>0, <1>2, <2>1 DEF CommandInv, Validated, Copied
  <2> QED BY <2>2, <2>3, <2>4 DEF StagingInv
<1>3. CASE Validates /\ ~Fail
  <2> DEFINE next == [run EXCEPT !.pc = IF run.operation = "deploy" THEN "stop" ELSE "copy", !.valid = package.content]
  <2>1. Valid(package.content, run.digest) /\ Goes(next)
    BY <1>3 DEF Validates
  <2>2. next \in CommandRecords /\ next.pc \in {"stop", "copy"} /\ next.digest = run.digest
        /\ next.receipt = run.receipt /\ next.operation = run.operation /\ next.valid = package.content
        /\ (next.pc = "stop" => next.operation = "deploy")
    BY <1>0 DEF CommandRecords, Stages
  <2> HIDE DEF next
  <2> QED BY <1>2, <2>1, <2>2
<1>4. CASE Copies /\ ~Fail
  <2> DEFINE next == [run EXCEPT !.pc = "build", !.content = package.content]
  <2>1. Goes(next) /\ Valid(run.valid, run.digest) /\ (package.content = run.valid \/ run.moved)
    BY <1>0, <1>4 DEF Copies, CommandInv, Validated
  <2>2. next \in CommandRecords /\ next.pc = "build" /\ next.digest = run.digest
        /\ next.receipt = run.receipt /\ next.operation = run.operation /\ next.content = package.content
        /\ next.valid = run.valid /\ next.moved = run.moved
    BY <1>0 DEF CommandRecords, Stages
  <2> HIDE DEF next
  <2> QED BY <1>2, <2>1, <2>2
<1>5. CASE Builds /\ ~Fail
  <2> DEFINE next == [run EXCEPT !.pc = "start"]
  <2>1. run.pc = "build" /\ Goes(IF run.operation = "deploy" THEN next ELSE NoCommand)
    BY <1>5 DEF Builds
  <2>2. run.operation = "deploy"
    BY <1>5, <2>1 DEF Fail
  <2>3. Goes(next) /\ Valid(run.valid, run.digest) /\ (run.content = run.valid \/ run.moved)
    BY <1>0, <2>1, <2>2 DEF CommandInv, Validated, Copied
  <2>4. next \in CommandRecords /\ next.pc = "start" /\ next.digest = run.digest
        /\ next.receipt = run.receipt /\ next.operation = run.operation /\ next.content = run.content
        /\ next.valid = run.valid /\ next.moved = run.moved
    BY <1>0 DEF CommandRecords, Stages
  <2> HIDE DEF next
  <2> QED BY <1>2, <2>2, <2>3, <2>4
<1> QED BY <1>1, <1>3, <1>4, <1>5

\* What a contract becomes that is published, or loaded.
LEMMA ContractFollows ==
  ASSUME contract \in ContractRecords, NEW content \in AnyContent
  PROVE  /\ Follows(content) \in ContractRecords /\ [contract EXCEPT !.file = content] \in ContractRecords
         /\ Follows(content).file = content
         /\ HasProfile(content) => Follows(content).controller = content.version
<1>1. content.version \in Digests
  BY DEF AnyContent, Contents, NoContent, Digests
<1> QED BY <1>1 DEF Follows, ContractRecords

\* What a failed stage, or none, makes of the core that runs.
LEMMA FailedStageKeeps ==
  ASSUME active \in ActiveRecords, NEW failed \in BOOLEAN, FailedStage(failed)
  PROVE  /\ active' \in ActiveRecords /\ active'.failed = failed
         /\ active'.proc = active.proc /\ active'.valid = active.valid /\ active'.left = active.left
BY DEF FailedStage, ActiveRecords

\* The contract is published and the command ends.
LEMMA PublishStaging ==
  ASSUME StagingInv, Publish
  PROVE  /\ StagingInv' /\ run'.pc = "idle"
         /\ active'.proc = active.proc /\ active'.valid = active.valid /\ active'.left = active.left
         /\ ~active'.failed => contract' = IF run.valid.verdict = "v2" THEN contract ELSE Follows(run.valid)
<1>0. /\ DeploymentTypes /\ ReceiptInv /\ CommandInv /\ UNCHANGED <<release, package, receipts>>
      /\ run \in CommandRecords /\ Fail /\ contract \in ContractRecords /\ active \in ActiveRecords
  BY DEF StagingInv, Publish, DeploymentTypes, run
<1>1. command' \in [run : CommandRecords, count : 0..MaxCommands2] /\ run'.pc = "idle" /\ ~run'.receipt
  BY <1>0, CommandFails
<1>2. PICK failed \in BOOLEAN : FailedStage(failed)
  BY DEF Publish
<1>3. /\ active' \in ActiveRecords /\ active'.failed = failed
      /\ active'.proc = active.proc /\ active'.valid = active.valid /\ active'.left = active.left
  BY <1>0, <1>2, FailedStageKeeps
<1>4. Follows(run.valid) \in ContractRecords /\ [contract EXCEPT !.file = run.valid] \in ContractRecords
  <2>1. run.valid \in AnyContent
    BY <1>0 DEF CommandRecords
  <2> QED BY <1>0, <2>1, ContractFollows
<1>5. contract' \in ContractRecords
  BY <1>0, <1>4 DEF Publish
<1>6. ~active'.failed => contract' = IF run.valid.verdict = "v2" THEN contract ELSE Follows(run.valid)
  <2>1. FailedStage(TRUE) => active'.failed
    BY <1>0, FailedStageKeeps
  <2> QED BY <2>1 DEF Publish
<1>7. DeploymentTypes'
  BY <1>0, <1>1, <1>3, <1>5 DEF DeploymentTypes
<1>8. ReceiptInv'
  BY <1>0, <1>1 DEF ReceiptInv
<1>9. CommandInv'
  BY <1>0, <1>1, <1>3 DEF CommandInv, Validated, Copied
<1> QED BY <1>1, <1>3, <1>6, <1>7, <1>8, <1>9 DEF StagingInv

\* The flight controller is told to load a contract while no command runs.
LEMMA ReloadStaging ==
  ASSUME StagingInv, ReloadContract
  PROVE  /\ StagingInv' /\ UNCHANGED active /\ run' = run /\ contract'.file = contract.file
         /\ contract'.path = "active" => contract'.controller = contract.file.version
<1>0. /\ DeploymentTypes /\ ReceiptInv /\ CommandInv /\ UNCHANGED <<release, package, receipts, command, active>>
      /\ contract \in ContractRecords /\ run' = run
  BY DEF StagingInv, ReloadContract, DeploymentTypes, run
<1>1. /\ contract' \in ContractRecords /\ contract'.file = contract.file
      /\ contract'.path = "active" => contract'.controller = contract.file.version
  <2>1. CASE HasProfile(contract.file) /\ contract' = Follows(contract.file)
    <3>1. contract.file \in AnyContent
      BY <1>0 DEF ContractRecords
    <3> QED BY <1>0, <2>1, <3>1, ContractFollows
  <2>2. CASE \E v \in Versions : contract' = [contract EXCEPT !.controller = v, !.path = "other"]
    <3>1. PICK v \in Versions : contract' = [contract EXCEPT !.controller = v, !.path = "other"]
      BY <2>2
    <3> QED BY <1>0, <3>1 DEF ContractRecords, Digests
  <2> QED BY <2>1, <2>2 DEF ReloadContract
<1>2. DeploymentTypes'
  BY <1>0, <1>1 DEF DeploymentTypes
<1>3. ReceiptInv'
  BY <1>0 DEF ReceiptInv
<1>4. CommandInv'
  BY <1>0 DEF CommandInv
<1> QED BY <1>0, <1>1, <1>2, <1>3, <1>4 DEF StagingInv

LEMMA ApartStaging == ASSUME StagingInv, Apart PROVE StagingInv'
<1>1. CASE ReleaseChanges \/ DirectoryChanges
  BY <1>1, PackagesStaging
<1>2. ASSUME NEW r \in Receipts, Stage(r) \/ Expires(r)
      PROVE  StagingInv'
  BY <1>2, ReceiptsStaging
<1>3. ASSUME NEW r \in Receipts, NEW o \in Operations, Hydrate(r, o)
      PROVE  StagingInv'
  BY <1>3, HydrateStaging
<1>4. ASSUME NEW o \in Operations, Request(o)
      PROVE  StagingInv'
  BY <1>4, RequestStaging
<1>5. CASE Validates \/ Copies \/ Builds
  BY <1>5, StepsStaging
<1>6. CASE Publish
  BY <1>6, PublishStaging
<1>7. CASE ReloadContract
  BY <1>7, ReloadStaging
<1> QED BY <1>1, <1>2, <1>3, <1>4, <1>5, <1>6, <1>7 DEF Apart

\* The core that runs is stopped, the new one is started from the copy and made known.
LEMMA StopsStaging == ASSUME StagingInv, StopsActive PROVE StagingInv'
<1>0. /\ DeploymentTypes /\ ReceiptInv /\ CommandInv /\ UNCHANGED <<release, package, receipts, active, contract>>
      /\ run \in CommandRecords /\ run.pc = "stop"
  BY DEF StagingInv, StopsActive, DeploymentTypes, run
<1> DEFINE next == [run EXCEPT !.pc = "copy"]
<1>1. Goes(next)
  BY DEF StopsActive
<1>2. next \in CommandRecords /\ next.pc = "copy" /\ next.digest = run.digest
      /\ next.receipt = run.receipt /\ next.operation = run.operation
      /\ next.valid = run.valid /\ next.content = run.content /\ next.moved = run.moved
  BY <1>0 DEF CommandRecords, Stages
<1> HIDE DEF next
<1>3. command' \in [run : CommandRecords, count : 0..MaxCommands2] /\ run' = next
  BY <1>0, <1>1, <1>2, CommandGoes
<1>4. DeploymentTypes'
  BY <1>0, <1>3 DEF DeploymentTypes
<1>5. ReceiptInv'
  BY <1>0, <1>2, <1>3 DEF ReceiptInv
<1>6. CommandInv'
  BY <1>0, <1>2, <1>3 DEF CommandInv, Validated, Copied
<1> QED BY <1>4, <1>5, <1>6 DEF StagingInv

LEMMA StartsStaging ==
  ASSUME StagingInv, StartsActive, ~Fail
  PROVE  /\ StagingInv' /\ active'.valid = run.valid /\ active'.left = active.left
         /\ Valid(run.valid, run.digest) /\ (run.content = run.valid \/ run.moved)
         /\ run'.pc = "register" /\ run'.valid = run.valid
<1>0. /\ DeploymentTypes /\ ReceiptInv /\ CommandInv /\ UNCHANGED <<release, package, receipts, contract>>
      /\ run \in CommandRecords /\ run.pc = "start" /\ active \in ActiveRecords
      /\ Valid(run.valid, run.digest) /\ (run.content = run.valid \/ run.moved)
  BY DEF StagingInv, StartsActive, CommandInv, Validated, Copied, DeploymentTypes, run
<1> DEFINE next == [run EXCEPT !.pc = "register"]
<1>1. Goes(next)
  BY DEF StartsActive
<1>2. next \in CommandRecords /\ next.pc = "register" /\ next.digest = run.digest
      /\ next.receipt = run.receipt /\ next.operation = run.operation
      /\ next.valid = run.valid /\ next.content = run.content /\ next.moved = run.moved
  BY <1>0 DEF CommandRecords, Stages
<1> HIDE DEF next
<1>3. command' \in [run : CommandRecords, count : 0..MaxCommands2] /\ run' = next
  BY <1>0, <1>1, <1>2, CommandGoes
<1>4. PICK p \in Unborn : active' = [active EXCEPT !.proc = p, !.valid = run.valid, !.failed = FALSE]
  BY DEF StartsActive
<1>5. p \in Procs /\ p # NoProc /\ run.valid \in AnyContent /\ run.valid # NoContent
  BY <1>0, <1>4, RuntimeBounds DEF Unborn, CommandRecords, Valid, NoContent
<1>6. active' \in ActiveRecords /\ active'.proc = p /\ active'.valid = run.valid /\ active'.left = active.left
  BY <1>0, <1>4, <1>5 DEF ActiveRecords
<1>7. DeploymentTypes'
  BY <1>0, <1>3, <1>6 DEF DeploymentTypes
<1>8. ReceiptInv'
  BY <1>0, <1>2, <1>3 DEF ReceiptInv
<1>9. CommandInv'
  BY <1>0, <1>2, <1>3, <1>5, <1>6 DEF CommandInv, Validated, Copied
<1> QED BY <1>0, <1>2, <1>3, <1>6, <1>7, <1>8, <1>9 DEF StagingInv

\* The runner raises: no core.
LEMMA StartFails ==
  ASSUME StagingInv, StartsActive, Fail
  PROVE  /\ StagingInv' /\ run'.pc = "idle" /\ UNCHANGED <<procs, active, contract>>
<1>0. /\ DeploymentTypes /\ ReceiptInv /\ CommandInv /\ UNCHANGED <<release, package, receipts, contract>>
      /\ run \in CommandRecords /\ run.pc = "start"
  BY DEF StagingInv, StartsActive, DeploymentTypes, run
<1>1. /\ command' \in [run : CommandRecords, count : 0..MaxCommands2] /\ run' = NoCommand
      /\ run'.pc = "idle" /\ ~run'.receipt
  BY <1>0, CommandFails
<1>2. UNCHANGED <<procs, active>>
  <2> DEFINE next == [run EXCEPT !.pc = "register"]
  <2>1. next \in CommandRecords /\ next.pc = "register"
    BY <1>0 DEF CommandRecords, Stages
  <2> HIDE DEF next
  <2>2. ~Goes(next)
    BY <1>0, <1>1, <2>1, CommandGoes
  <2>3. ~Goes([run EXCEPT !.pc = "register"])
    BY <2>2 DEF next
  <2> QED BY <2>3 DEF StartsActive
<1>3. DeploymentTypes'
  BY <1>0, <1>1, <1>2 DEF DeploymentTypes
<1>4. ReceiptInv'
  BY <1>0, <1>1 DEF ReceiptInv
<1>5. CommandInv'
  BY <1>0, <1>1, <1>2 DEF CommandInv, Validated, Copied
<1> QED BY <1>0, <1>1, <1>2, <1>3, <1>4, <1>5 DEF StagingInv

LEMMA RegistersStaging ==
  ASSUME StagingInv, Registers
  PROVE  /\ StagingInv'
         /\ active'.proc = active.proc /\ active'.valid = active.valid /\ active'.left = active.left
<1>0. /\ DeploymentTypes /\ ReceiptInv /\ CommandInv /\ UNCHANGED <<release, package, receipts, contract>>
      /\ run \in CommandRecords /\ run.pc = "register" /\ active \in ActiveRecords
  BY DEF StagingInv, Registers, DeploymentTypes, run
<1>1. CASE active.proc \notin Live
  <2>0. Fail /\ FailedStage(TRUE)
    BY <1>1 DEF Registers
  <2>1. command' \in [run : CommandRecords, count : 0..MaxCommands2] /\ run'.pc = "idle" /\ ~run'.receipt
    BY <1>0, <2>0, CommandFails
  <2>2. /\ active' \in ActiveRecords /\ active'.proc = active.proc /\ active'.valid = active.valid
        /\ active'.left = active.left
    BY <1>0, <2>0, FailedStageKeeps
  <2>3. DeploymentTypes'
    BY <1>0, <2>1, <2>2 DEF DeploymentTypes
  <2>4. ReceiptInv'
    BY <1>0, <2>1 DEF ReceiptInv
  <2>5. CommandInv'
    BY <1>0, <2>1, <2>2 DEF CommandInv, Validated, Copied
  <2> QED BY <2>2, <2>3, <2>4, <2>5 DEF StagingInv
<1>2. CASE active.proc \in Live
  <2> DEFINE next == [run EXCEPT !.pc = "publish"]
  <2>1. Goes(next) /\ UNCHANGED active
    BY <1>2 DEF Registers
  <2>2. next \in CommandRecords /\ next.pc = "publish" /\ next.digest = run.digest
        /\ next.receipt = run.receipt /\ next.operation = run.operation
        /\ next.valid = run.valid /\ next.content = run.content /\ next.moved = run.moved
    BY <1>0 DEF CommandRecords, Stages
  <2> HIDE DEF next
  <2>3. command' \in [run : CommandRecords, count : 0..MaxCommands2] /\ run' = next
    BY <1>0, <2>1, <2>2, CommandGoes
  <2>4. DeploymentTypes'
    BY <1>0, <2>1, <2>3 DEF DeploymentTypes
  <2>5. ReceiptInv'
    BY <1>0, <2>2, <2>3 DEF ReceiptInv
  <2>6. CommandInv'
    BY <1>0, <2>1, <2>2, <2>3 DEF CommandInv, Validated, Copied
  <2> QED BY <2>1, <2>4, <2>5, <2>6 DEF StagingInv
<1> QED BY <1>1, <1>2

\* A restart forgets the command and the core, and keeps what is on disk.
LEMMA RestartsStaging ==
  ASSUME StagingInv, Restarts
  PROVE  StagingInv' /\ run'.pc = "idle" /\ active'.proc = NoProc /\ active'.left = Live
<1>0. /\ DeploymentTypes /\ ReceiptInv /\ CommandInv /\ UNCHANGED <<release, package, receipts>>
      /\ Fail /\ contract \in ContractRecords
      /\ active' = [NoCore EXCEPT !.left = Live]
  BY DEF StagingInv, Restarts, DeploymentTypes
<1>1. command' \in [run : CommandRecords, count : 0..MaxCommands2] /\ run'.pc = "idle" /\ ~run'.receipt
  BY <1>0, CommandFails
<1>2. contract' \in ContractRecords
  <2> DEFINE d == IF contract.file = NoContent THEN NoVersion ELSE contract.file.version
             h == IF contract.file = NoContent THEN "none" ELSE "active"
  <2>1. d \in Digests /\ h \in {"none", "active", "other"}
    BY <1>0 DEF ContractRecords, AnyContent, Contents, NoContent, Digests
  <2>2. contract' = [contract EXCEPT !.controller = d, !.path = h]
    BY DEF Restarts
  <2> HIDE DEF d, h
  <2> QED BY <1>0, <2>1, <2>2 DEF ContractRecords
<1>3. /\ active' \in ActiveRecords /\ active'.proc = NoProc /\ active'.valid = NoContent /\ active'.left = Live
  <2>1. Live \subseteq Procs
    BY DEF Live
  <2> QED BY <1>0, <2>1 DEF NoCore, ActiveRecords, AnyContent
<1>4. DeploymentTypes'
  BY <1>0, <1>1, <1>2, <1>3 DEF DeploymentTypes
<1>5. ReceiptInv'
  BY <1>0, <1>1 DEF ReceiptInv
<1>6. CommandInv'
  BY <1>0, <1>1, <1>3 DEF CommandInv, Validated, Copied
<1> QED BY <1>1, <1>3, <1>4, <1>5, <1>6 DEF StagingInv

\* Nothing of the deployment moves when the runtime of the other endpoint does.
LEMMA StagingStays == StagingInv /\ UNCHANGED deploymentVars => StagingInv'
BY DEF StagingInv, DeploymentTypes, ReceiptInv, CommandInv, deploymentVars, run

LEMMA StagingStep == StagingInv /\ DeploymentNext => StagingInv'
BY ApartStaging, StopsStaging, StartsStaging, StartFails, RegistersStaging, RestartsStaging DEF DeploymentNext

\* Both endpoints together: whatever the other one does, a receipt allows each operation
\* once (_hydrate_gitlab_stage_receipt), and a core is started only for a package that was
\* validated and is the one asked for, and from a copy of what was validated unless the
\* directory was changed between validate_package and copytree (_build_or_deploy).
THEOREM StagedOnly == DeploymentSpec => []ReceiptOnce /\ DeployedAsStaged
<1>1. RuntimeInit /\ DeploymentInit => StagingInv
  BY StagingInvInit
<1>2. StagingInv /\ [\/ RuntimeNext /\ UNCHANGED deploymentVars
                     \/ DeploymentNext]_<<runtimeVars, deploymentVars>> => StagingInv'
  BY StagingStays, StagingStep
<1>3. StagingInv => ReceiptOnce
  BY DEF StagingInv, ReceiptInv, ReceiptOnce
<1>4. StagingInv /\ [\/ RuntimeNext /\ UNCHANGED deploymentVars
                     \/ DeploymentNext]_<<runtimeVars, deploymentVars>>
        => [(active'.proc # active.proc /\ active'.proc # NoProc) =>
              /\ run.valid.verdict \notin {"broken", "bad"} /\ run.valid.version = run.digest
              /\ run.content = run.valid \/ run.moved]_<<runtimeVars, deploymentVars>>
  <2> SUFFICES ASSUME StagingInv,
                      \/ RuntimeNext /\ UNCHANGED deploymentVars
                      \/ DeploymentNext,
                      active'.proc # active.proc, active'.proc # NoProc
               PROVE  /\ run.valid.verdict \notin {"broken", "bad"} /\ run.valid.version = run.digest
                      /\ run.content = run.valid \/ run.moved
    OBVIOUS
  <2>1. CASE StartsActive /\ ~Fail
    BY <2>1, StartsStaging DEF Valid, GoodContract
  <2>2. ~(StartsActive /\ Fail)
    BY StartFails
  <2>3. ~Restarts /\ ~Registers
    BY RestartsStaging, RegistersStaging
  <2>4. ~Apart
    <3>1. ~Publish /\ ~ReleaseChanges /\ ~DirectoryChanges /\ ~ReloadContract
      BY PublishStaging, PackagesStaging, ReloadStaging
    <3> QED BY <3>1 DEF Apart, Stage, Expires, Hydrate, Request, Validates, Copies, Builds
  <2>5. ~StopsActive /\ ~UNCHANGED deploymentVars
    BY DEF StopsActive, deploymentVars
  <2> QED BY <2>1, <2>2, <2>3, <2>4, <2>5 DEF DeploymentNext
<1> QED BY <1>1, <1>2, <1>3, <1>4, PTL DEF DeploymentSpec, DeployedAsStaged

-----------------------------------------------------------------------------
(* Deployment: one core and one contract, with the management endpoint alone. *)

\* The contract is the one of this content, and the flight controller that has loaded
\* what is published has it.
Agrees(content) ==
  /\ content.verdict # "v2" => contract.file = content
  /\ HasProfile(content) /\ contract.path = "active" => contract.controller = content.version

\* Nobody else starts a core: what is alive is what was deployed, or was left by an
\* earlier server; a deployment has stopped its own before it copies, and until it
\* publishes the contract may be another's.
ActiveInv ==
  /\ Live \subseteq {active.proc} \cup active.left
  /\ run.pc \in {"copy", "build", "start"} /\ run.operation = "deploy" => Live \subseteq active.left
  /\ run.pc \in {"register", "publish"} => active.valid = run.valid
  /\ run.pc \notin {"register", "publish"} /\ active.proc \in Live /\ ~active.failed => Agrees(active.valid)

\* Nothing came over the other endpoint.
QuietInv ==
  /\ job = "none" /\ submitted = <<>> /\ requests.known = <<>>
  /\ \A c \in Clients : clients[c] = "none"

ManagementInv == StagingInv /\ RuntimeTypes /\ OneBound /\ QuietInv /\ ActiveInv

LEMMA ManagementSound ==
  ASSUME ManagementInv
  PROVE  DeploymentSound
<1> USE DEF ManagementInv
<1>1. DeploymentTypeOK
  <2>1. DeploymentTypes /\ ReceiptInv /\ CommandInv
    BY DEF StagingInv
  <2>2. run \in CommandRecords /\ command.count \in 0..MaxCommands2
    BY <2>1 DEF DeploymentTypes, run
  <2>3. \A r \in Receipts : receipts[r] \in ReceiptRecords
    BY <2>1 DEF DeploymentTypes
  <2>4. /\ release \in Contents
        /\ package.content \in AnyContent /\ package.changes \in 0..MaxChanges
        /\ active \in ActiveRecords /\ contract \in ContractRecords
    BY <2>1 DEF DeploymentTypes
  <2>5. \A r \in Receipts : receipts[r].digest \in Digests /\ receipts[r].used \subseteq Operations
    BY <2>3 DEF ReceiptRecords
  <2>6. run.pc \in Stages /\ run.digest \in Digests
    BY <2>2 DEF CommandRecords
  <2> QED BY <2>1, <2>2, <2>4, <2>5, <2>6 DEF DeploymentTypeOK, ReceiptInv, CommandInv, AnyContent, Stages, run, ActiveRecords, ContractRecords
<1>2. \A p, q \in Live \ active.left : p = q
  BY DEF ActiveInv
<1>3. OneOfServer
  BY <1>2, AtMostOne DEF OneOfServer
<1>4. Cardinality(Bound) <= 1
  BY AtMostOne DEF OneBound
<1>5. RuntimeTypeOK
  <2>1. Len(requests.known) = 0 /\ requests.known \in Seq(Answers)
    BY EmptySeq DEF QuietInv
  <2>2. IsInjective([i \in 1..Len(requests.known) |-> requests.known[i].id])
    BY <2>1 DEF IsInjective
  <2>3. Len(requests.known) <= CacheSize
    BY <2>1, RuntimeBounds
  <2> QED BY <1>4, <2>1, <2>2, <2>3 DEF RuntimeTypeOK, RuntimeTypes, Answers, JobStages
<1>6. OneOperation
  <2>1. {c \in Clients : clients[c] # "none"} = {}
    BY DEF QuietInv
  <2>2. Cardinality({c \in Clients : clients[c] # "none"}) = 0
    BY <2>1, FS_EmptySet
  <2>3. Len(submitted) = 0
    BY EmptySeq DEF QuietInv
  <2> QED BY <2>2, <2>3 DEF QuietInv, OneOperation
<1>7. ReceiptOnce
  BY DEF StagingInv, ReceiptInv, ReceiptOnce
<1>8. ContractOfCore
  BY DEF ActiveInv, Agrees, ContractOfCore, Idle
<1> QED BY <1>1, <1>3, <1>5, <1>6, <1>7, <1>8 DEF DeploymentSound

LEMMA ManagementInit == RuntimeInit /\ DeploymentInit => ManagementInv
<1> SUFFICES ASSUME RuntimeInit, DeploymentInit PROVE ManagementInv
  OBVIOUS
<1>1. StagingInv
  BY StagingInvInit
<1>2. RuntimeTypes /\ OneBound
  BY RuntimeInvInit DEF RuntimeInv
<1>3. QuietInv
  BY DEF RuntimeInit, QuietInv
<1>4. Live = {}
  BY DEF RuntimeInit, Live
<1>5. run.pc = "idle"
  BY DEF DeploymentInit, run, NoCommand
<1>6. ActiveInv
  BY <1>4, <1>5 DEF ActiveInv
<1> QED BY <1>1, <1>2, <1>3, <1>6 DEF ManagementInv

\* A core binds, is configured or ends.
LEMMA CoreManagement ==
  ASSUME ManagementInv, CoreStep, UNCHANGED deploymentVars
  PROVE  ManagementInv'
<1>0. StagingInv /\ RuntimeTypes /\ OneBound /\ QuietInv /\ ActiveInv
  BY DEF ManagementInv
<1>1. /\ UNCHANGED <<samples, runtime, job, submitted, clients, requests>>
      /\ procs' \in [Procs -> {"unborn", "starting", "new", "configured", "running", "gone"}]
      /\ Live' \subseteq Live
      /\ \E p \in Procs : Bound' \subseteq Bound \/ (Bound = {} /\ Bound' = {p})
  BY <1>0, CoreMoves DEF CoreStep
<1>2. RuntimeTypes'
  BY <1>0, <1>1 DEF RuntimeTypes
<1>3. StagingInv'
  BY <1>0, StagingStays
<1>4. QuietInv'
  BY <1>0, <1>1 DEF QuietInv
<1>5. OneBound'
  BY <1>0, <1>1 DEF OneBound
<1>6. ActiveInv'
  <2>1. UNCHANGED <<active, command, contract>>
    BY DEF deploymentVars
  <2>2. run' = run
    BY <2>1 DEF run
  <2> QED BY <1>0, <1>1, <2>1, <2>2 DEF ActiveInv, Agrees
<1> QED BY <1>2, <1>3, <1>4, <1>5, <1>6 DEF ManagementInv

\* Steps that leave the processes and the runtime alone.
LEMMA ApartManagement ==
  ASSUME ManagementInv, Apart, UNCHANGED runtimeVars
  PROVE  ManagementInv'
<1>0. /\ StagingInv /\ RuntimeTypes /\ OneBound /\ QuietInv /\ ActiveInv /\ DeploymentTypes /\ CommandInv
      /\ run \in CommandRecords
  BY DEF ManagementInv, StagingInv, DeploymentTypes, run
<1>1. StagingInv' /\ UNCHANGED <<procs, samples, runtime, job, submitted, clients, requests>>
  BY <1>0, ApartStaging DEF runtimeVars
<1>2. RuntimeTypes' /\ QuietInv' /\ Live' = Live
  BY <1>0, <1>1 DEF RuntimeTypes, QuietInv, Live
<1>3. OneBound'
  BY <1>0, <1>1 DEF OneBound, Bound
<1>4. CASE Publish
  <2>1. run.pc = "publish" /\ active.valid = run.valid
    BY <1>0, <1>4 DEF Publish, ActiveInv
  <2>2. /\ run'.pc = "idle"
        /\ active'.proc = active.proc /\ active'.valid = active.valid /\ active'.left = active.left
        /\ ~active'.failed => contract' = IF run.valid.verdict = "v2" THEN contract ELSE Follows(run.valid)
    BY <1>0, <1>4, PublishStaging
  <2>3. /\ Follows(run.valid).file = run.valid
        /\ HasProfile(run.valid) => Follows(run.valid).controller = run.valid.version
    <3>1. contract \in ContractRecords /\ run.valid \in AnyContent
      BY <1>0 DEF DeploymentTypes, CommandRecords
    <3> QED BY <3>1, ContractFollows
  <2>4. ~active'.failed => Agrees(active.valid)'
    BY <2>1, <2>2, <2>3 DEF Agrees, HasProfile
  <2>5. ActiveInv'
    BY <1>0, <1>2, <2>2, <2>4 DEF ActiveInv, Agrees
  <2> QED BY <1>1, <1>2, <1>3, <2>5 DEF ManagementInv
<1>5. ASSUME UNCHANGED active, UNCHANGED contract,
             run'.pc \notin {"register", "publish"},
             run.pc \notin {"register", "publish"},
             run'.pc \in {"copy", "build", "start"} /\ run'.operation = "deploy" =>
               run.pc \in {"copy", "build", "start"} /\ run.operation = "deploy"
      PROVE  ManagementInv'
  <2>1. ActiveInv'
    BY <1>0, <1>2, <1>5 DEF ActiveInv, Agrees
  <2> QED BY <1>1, <1>2, <1>3, <2>1 DEF ManagementInv
<1>6. ASSUME UNCHANGED active, UNCHANGED contract,
             run'.pc = run.pc, run'.operation = run.operation, run'.valid = run.valid
      PROVE  ManagementInv'
  <2>1. ActiveInv'
    BY <1>0, <1>2, <1>6 DEF ActiveInv, Agrees
  <2> QED BY <1>1, <1>2, <1>3, <2>1 DEF ManagementInv
<1>7. ASSUME NEW o \in Operations, (\E r \in Receipts : Hydrate(r, o)) \/ Request(o)
      PROVE  ManagementInv'
  <2>1. UNCHANGED <<active, contract>> /\ run.pc = "idle" /\ run'.pc = "validate"
    <3>1. ASSUME NEW r \in Receipts, Hydrate(r, o)
          PROVE  run'.pc = "validate"
      <4>1. command' = [count |-> command.count + 1,
                        run |-> [NoCommand EXCEPT !.pc = "validate", !.operation = o,
                                                  !.digest = receipts[r].digest, !.receipt = TRUE]]
        BY <3>1 DEF Hydrate
      <4> QED BY <4>1 DEF run, NoCommand
    <3>2. ASSUME Request(o)
          PROVE  run'.pc = "validate"
      <4>1. PICK digest \in Versions :
              command' = [count |-> command.count + 1,
                          run |-> [NoCommand EXCEPT !.pc = "validate", !.operation = o, !.digest = digest]]
        BY <3>2 DEF Request
      <4> QED BY <4>1 DEF run, NoCommand
    <3>3. UNCHANGED <<active, contract>> /\ run.pc = "idle"
      BY <1>7 DEF Hydrate, Request, Idle
    <3> QED BY <1>7, <3>1, <3>2, <3>3
  <2> QED BY <1>5, <2>1
<1>8. CASE (Validates \/ Copies \/ Builds) /\ Fail
  <2>1. run'.pc = "idle" /\ UNCHANGED <<active, contract>> /\ run.pc \notin {"register", "publish"}
    BY <1>0, <1>8, CommandFails DEF Validates, Copies, Builds
  <2> QED BY <1>5, <2>1
<1>9. CASE Validates /\ ~Fail
  <2> DEFINE next == [run EXCEPT !.pc = IF run.operation = "deploy" THEN "stop" ELSE "copy", !.valid = package.content]
  <2>1. Goes(next) /\ UNCHANGED <<active, contract>> /\ run.pc = "validate"
    BY <1>9 DEF Validates
  <2>2. next \in CommandRecords /\ next.operation = run.operation
        /\ next.pc = IF run.operation = "deploy" THEN "stop" ELSE "copy"
    BY <1>0 DEF CommandRecords, Stages, DeploymentTypes
  <2>3. run' = next
    <3> HIDE DEF next
    <3> QED BY <1>0, <2>1, <2>2, CommandGoes
  <2> HIDE DEF next
  <2> QED BY <1>5, <2>1, <2>2, <2>3
<1>10. CASE Copies /\ ~Fail
  <2> DEFINE next == [run EXCEPT !.pc = "build", !.content = package.content]
  <2>1. Goes(next) /\ UNCHANGED <<active, contract>> /\ run.pc = "copy"
    BY <1>10 DEF Copies
  <2>2. next \in CommandRecords /\ next.operation = run.operation /\ next.pc = "build"
    BY <1>0 DEF CommandRecords, Stages, DeploymentTypes
  <2>3. run' = next
    <3> HIDE DEF next
    <3> QED BY <1>0, <2>1, <2>2, CommandGoes
  <2> HIDE DEF next
  <2> QED BY <1>5, <2>1, <2>2, <2>3
<1>11. CASE Builds /\ ~Fail
  <2> DEFINE next == [run EXCEPT !.pc = "start"]
  <2>1. run.pc = "build" /\ UNCHANGED <<active, contract>> /\ Goes(next)
    BY <1>11 DEF Builds, Fail
  <2>2. next \in CommandRecords /\ next.operation = run.operation /\ next.pc = "start"
    BY <1>0 DEF CommandRecords, Stages
  <2>3. run' = next
    <3> HIDE DEF next
    <3> QED BY <1>0, <2>1, <2>2, CommandGoes
  <2> HIDE DEF next
  <2> QED BY <1>5, <2>1, <2>2, <2>3
<1>12. CASE ReleaseChanges \/ DirectoryChanges
  BY <1>0, <1>6, <1>12, PackagesStaging
<1>13. CASE \E r \in Receipts : Stage(r) \/ Expires(r)
  <2>1. UNCHANGED <<active, contract, command>>
    BY <1>13 DEF Stage, Expires
  <2>2. run' = run
    BY <2>1 DEF run
  <2> QED BY <1>6, <2>1, <2>2
<1>14. CASE ReloadContract
  <2>1. /\ UNCHANGED active /\ run' = run /\ contract'.file = contract.file
        /\ contract'.path = "active" => contract'.controller = contract.file.version
    BY <1>0, <1>14, ReloadStaging
  <2>2. Agrees(active.valid) => Agrees(active.valid)'
    BY <2>1 DEF Agrees, HasProfile
  <2>3. ActiveInv'
    BY <1>0, <1>2, <2>1, <2>2 DEF ActiveInv
  <2> QED BY <1>1, <1>2, <1>3, <2>3 DEF ManagementInv
<1> QED BY <1>4, <1>7, <1>8, <1>9, <1>10, <1>11, <1>12, <1>13, <1>14 DEF Apart

\* The deployed core is stopped; one left by an earlier server is not.
LEMMA StopsManagement == ASSUME ManagementInv, StopsActive PROVE ManagementInv'
<1>0. /\ StagingInv /\ RuntimeTypes /\ OneBound /\ QuietInv /\ ActiveInv /\ DeploymentTypes /\ run \in CommandRecords
      /\ UNCHANGED <<active, contract, samples, runtime, job, submitted, clients, requests>>
      /\ procs \in [Procs -> {"unborn", "starting", "new", "configured", "running", "gone"}]
      /\ procs' = Stopped /\ run.pc = "stop"
  BY DEF ManagementInv, StagingInv, DeploymentTypes, RuntimeTypes, run, StopsActive
<1>1. StagingInv'
  BY <1>0, StopsStaging
<1>2. /\ procs' \in [Procs -> {"unborn", "starting", "new", "configured", "running", "gone"}]
      /\ Live' = Live \ {active.proc} /\ Bound' \subseteq Bound
  BY <1>0 DEF Stopped, Live, Bound
<1>3. run'.pc = "copy"
  <2> DEFINE next == [run EXCEPT !.pc = "copy"]
  <2>1. Goes(next)
    BY DEF StopsActive
  <2>2. next \in CommandRecords /\ next.pc = "copy"
    BY <1>0 DEF CommandRecords, Stages
  <2> HIDE DEF next
  <2> QED BY <1>0, <2>1, <2>2, CommandGoes
<1>4. RuntimeTypes' /\ QuietInv' /\ OneBound'
  BY <1>0, <1>2 DEF RuntimeTypes, QuietInv, OneBound
<1>5. ActiveInv'
  <2>1. Live' \subseteq active'.left /\ active'.proc \notin Live'
    BY <1>0, <1>2 DEF ActiveInv
  <2> QED BY <1>3, <2>1 DEF ActiveInv
<1> QED BY <1>1, <1>4, <1>5 DEF ManagementInv

\* The new core is started when no other of this server is alive, or none is.
LEMMA StartsManagement == ASSUME ManagementInv, StartsActive PROVE ManagementInv'
<1>0. /\ StagingInv /\ RuntimeTypes /\ OneBound /\ QuietInv /\ ActiveInv /\ CommandInv
      /\ UNCHANGED <<contract, samples, runtime, job, submitted, clients, requests>>
      /\ procs \in [Procs -> {"unborn", "starting", "new", "configured", "running", "gone"}]
      /\ run.pc = "start" /\ active \in ActiveRecords
  BY DEF ManagementInv, StagingInv, RuntimeTypes, DeploymentTypes, run, StartsActive
<1>1. CASE Fail
  <2>1. StagingInv' /\ run'.pc = "idle" /\ UNCHANGED <<procs, active, contract>>
    BY <1>0, <1>1, StartFails
  <2>2. RuntimeTypes' /\ QuietInv' /\ OneBound' /\ Live' = Live
    BY <1>0, <2>1 DEF RuntimeTypes, QuietInv, OneBound, Bound, Live
  <2>3. ActiveInv'
    BY <1>0, <2>1, <2>2 DEF ActiveInv, Agrees
  <2> QED BY <2>1, <2>2, <2>3 DEF ManagementInv
<1>2. CASE ~Fail
  <2>1. /\ StagingInv' /\ active'.valid = run.valid /\ active'.left = active.left
        /\ run'.pc = "register" /\ run'.valid = run.valid
    BY <1>0, <1>2, StartsStaging
  <2>2. Live \subseteq active.left
    BY <1>0 DEF ActiveInv, CommandInv
  <2>3. PICK p \in Unborn : /\ procs' = [procs EXCEPT ![p] = "starting"]
                            /\ active' = [active EXCEPT !.proc = p, !.valid = run.valid, !.failed = FALSE]
    BY <1>2 DEF StartsActive
  <2>4. p \in Procs /\ active'.proc = p
    BY <1>0, <2>3 DEF Unborn, ActiveRecords
  <2>5. /\ procs' \in [Procs -> {"unborn", "starting", "new", "configured", "running", "gone"}]
        /\ Live' \subseteq {p} \cup Live /\ Bound' \subseteq Bound
    BY <1>0, <2>3, <2>4 DEF Live, Bound
  <2>6. RuntimeTypes' /\ QuietInv' /\ OneBound'
    BY <1>0, <2>5 DEF RuntimeTypes, QuietInv, OneBound
  <2>7. ActiveInv'
    BY <2>1, <2>2, <2>4, <2>5 DEF ActiveInv
  <2> QED BY <2>1, <2>6, <2>7 DEF ManagementInv
<1> QED BY <1>1, <1>2

\* The runtime of the other endpoint is told, or the core has ended.
LEMMA RegistersManagement == ASSUME ManagementInv, Registers PROVE ManagementInv'
<1>0. /\ StagingInv /\ RuntimeTypes /\ OneBound /\ QuietInv /\ ActiveInv /\ DeploymentTypes /\ run \in CommandRecords
      /\ UNCHANGED <<contract, procs, samples, job, submitted, clients, requests>>
      /\ run.pc = "register" /\ active.proc \in Procs \cup {NoProc} /\ active.valid = run.valid
  BY DEF ManagementInv, StagingInv, DeploymentTypes, ActiveRecords, ActiveInv, run, Registers
<1>1. StagingInv' /\ active'.proc = active.proc /\ active'.valid = active.valid /\ active'.left = active.left
  BY <1>0, RegistersStaging
<1>2. Live' = Live /\ OneBound'
  BY <1>0 DEF Live, OneBound, Bound
<1>3. CASE active.proc \notin Live
  <2>1. Fail /\ UNCHANGED runtime
    BY <1>3 DEF Registers
  <2>2. run'.pc = "idle"
    BY <1>0, <2>1, CommandFails
  <2>3. RuntimeTypes' /\ QuietInv'
    BY <1>0, <2>1 DEF RuntimeTypes, QuietInv
  <2>4. ActiveInv'
    BY <1>0, <1>1, <1>2, <1>3, <2>2 DEF ActiveInv
  <2> QED BY <1>1, <1>2, <2>3, <2>4 DEF ManagementInv
<1>4. CASE active.proc \in Live
  <2> DEFINE next == [run EXCEPT !.pc = "publish"]
  <2>1. Goes(next) /\ runtime' = [state |-> "RUNNING", proc |-> active.proc, executable |-> TRUE]
    BY <1>4 DEF Registers
  <2>2. next \in CommandRecords /\ next.pc = "publish" /\ next.valid = run.valid
    BY <1>0 DEF CommandRecords, Stages
  <2> HIDE DEF next
  <2>3. run' = next
    BY <1>0, <2>1, <2>2, CommandGoes
  <2>4. runtime' \in [state : {"STOPPED", "STARTING", "RUNNING", "STOPPING"},
                      proc : Procs \cup {NoProc}, executable : BOOLEAN]
    BY <1>0, <2>1
  <2>5. RuntimeTypes' /\ QuietInv'
    BY <1>0, <2>4 DEF RuntimeTypes, QuietInv
  <2>6. ActiveInv'
    BY <1>0, <1>1, <1>2, <2>2, <2>3 DEF ActiveInv
  <2> QED BY <1>1, <1>2, <2>5, <2>6 DEF ManagementInv
<1> QED BY <1>3, <1>4

\* A restart leaves the cores that are alive, and knows none of them.
LEMMA RestartsManagement == ASSUME ManagementInv, Restarts PROVE ManagementInv'
<1>0. /\ StagingInv /\ RuntimeTypes /\ OneBound /\ DeploymentTypes /\ Fail /\ UNCHANGED procs
      /\ runtime' = [state |-> "STOPPED", proc |-> NoProc, executable |-> TRUE]
      /\ samples' = [of |-> NoProc, fresh |-> FALSE] /\ job' = "none" /\ submitted' = <<>>
      /\ clients' = [c \in Clients |-> "none"] /\ requests' = [requests EXCEPT !.known = <<>>]
  BY DEF ManagementInv, StagingInv, Restarts, ResetForNewRun
<1>1. StagingInv' /\ run'.pc = "idle" /\ active'.proc = NoProc /\ active'.left = Live
  BY <1>0, RestartsStaging
<1>2. Live' = Live /\ NoProc \notin Live /\ OneBound'
  BY <1>0, RuntimeBounds DEF Live, OneBound, Bound
<1>3. requests' \in [known : Seq(Answers), seen : Nat] /\ requests'.known = <<>>
  <2>1. requests \in [known : Seq(Answers), seen : Nat] /\ <<>> \in Seq(Answers)
    BY <1>0, EmptySeq DEF RuntimeTypes
  <2> QED BY <1>0, <2>1
<1>4. RuntimeTypes'
  <2>1. /\ runtime' \in [state : {"STOPPED", "STARTING", "RUNNING", "STOPPING"},
                         proc : Procs \cup {NoProc}, executable : BOOLEAN]
        /\ samples' \in [of : Procs \cup {NoProc}, fresh : BOOLEAN]
        /\ submitted' \in Seq(Actions) /\ job' \in JobStages
    BY <1>0, EmptySeq DEF JobStages
  <2>2. clients' \in [Clients -> Actions \cup {"none"}]
    BY <1>0
  <2> QED BY <1>0, <1>3, <2>1, <2>2 DEF RuntimeTypes
<1>5. QuietInv'
  BY <1>0, <1>3 DEF QuietInv
<1>6. ActiveInv'
  BY <1>1, <1>2 DEF ActiveInv
<1> QED BY <1>1, <1>2, <1>4, <1>5, <1>6 DEF ManagementInv

LEMMA ManagementStep == ASSUME ManagementInv, ManagementNext PROVE ManagementInv'
BY CoreManagement, ApartManagement, StopsManagement, StartsManagement, RegistersManagement, RestartsManagement
   DEF ManagementNext, DeploymentNext

\* While the other endpoint is not used, the server has one core beside those that earlier
\* servers left, a receipt allows an operation once, and while no command runs and no stage of
\* its deployment failed, the core that is alive has the published contract, and the flight
\* controller that loaded what is published has it too, over failed builds and publications,
\* cores that end, contracts that are loaded again and restarts at any time
\* (_build_or_deploy, _publish_active_vehicle_contract, activate_deployed_contract).
THEOREM DeploymentIsSound == ManagementSpec => []DeploymentSound
<1>1. RuntimeInit /\ DeploymentInit => ManagementInv
  BY ManagementInit
<1>2. ManagementInv /\ [ManagementNext]_<<runtimeVars, deploymentVars>> => ManagementInv'
  <2>1. ManagementInv /\ UNCHANGED <<runtimeVars, deploymentVars>> => ManagementInv'
    <3> SUFFICES ASSUME ManagementInv, UNCHANGED runtimeVars, UNCHANGED deploymentVars PROVE ManagementInv'
      OBVIOUS
    <3>1. StagingInv'
      BY StagingStays DEF ManagementInv
    <3>2. RuntimeTypes' /\ QuietInv' /\ OneBound' /\ Live' = Live
      BY DEF ManagementInv, RuntimeTypes, QuietInv, OneBound, Bound, Live, runtimeVars
    <3>3. ActiveInv'
      BY <3>2 DEF ManagementInv, ActiveInv, Agrees, deploymentVars, run
    <3> QED BY <3>1, <3>2, <3>3 DEF ManagementInv
  <2> QED BY <2>1, ManagementStep
<1>3. ManagementInv => DeploymentSound
  BY ManagementSound
<1> QED BY <1>1, <1>2, <1>3, PTL DEF ManagementSpec

-----------------------------------------------------------------------------
(* FixedWingLink: what the server is told, and what it has.                 *)

LinkWorkers == [pc : {"off", "hello", "loop", "event", "mission", "plan", "state"}, event : 0..MaxEvents3,
                mission : 0..MaxPlans, generation : Nat, sent : Nat, valid : BOOLEAN,
                state : Stamps, breaks : 0..MaxBreaks]
LinkBoxes == [state : Stamps, valid : BOOLEAN, mission : 0..MaxPlans, loaded : 0..MaxPlans,
              generation : Nat, event : 0..MaxEvents3]

LinkTypes ==
  /\ plant \in [at : Stamps, clear : BOOLEAN]
  /\ box \in LinkBoxes
  /\ raised \in Seq([event : LinkEvents, mission : 0..MaxPlans]) /\ Len(raised) <= MaxEvents3
  /\ worker \in LinkWorkers
  /\ stream \in Seq(Frames)
  /\ replies \in Seq({"ack", "error"})
  /\ server \in [phase : {"closed", "hello", "mission_plan", "state"}, mission : 0..MaxPlans,
                 known : BOOLEAN, time : 0..MaxTime]
  /\ latest \in [valid : BOOLEAN, state : Stamps, mission : 0..MaxPlans, paused : BOOLEAN,
                 events : Seq(1..MaxEvents3)]

\* What the worker holds, and the run of the model, which a reset counts.
HeldInv ==
  /\ worker.pc = "event" <=> worker.event # NoEvent
  /\ worker.event <= Len(raised)
  /\ worker.pc \in {"plan", "state"} => worker.mission # NoMission
  /\ plant.at.run <= Len(raised)

\* The events applied, those on their way and the one in the box come in the order
\* in which they were raised.
OrderInv ==
  /\ AppliedInOrder
  /\ \A i \in 1..Len(latest.events) : latest.events[i] <= Len(raised)
  /\ \A j \in 1..Len(stream) : stream[j].type = "event" =>
       /\ stream[j].event \in 1..Len(raised)
       /\ \A i \in 1..Len(latest.events) : latest.events[i] < stream[j].event
       /\ \A i \in 1..Len(stream) : stream[i].type = "event" /\ i < j => stream[i].event < stream[j].event
       /\ box.event # NoEvent => stream[j].event < box.event
  /\ box.event <= Len(raised)
  /\ box.event # NoEvent => \A i \in 1..Len(latest.events) : latest.events[i] < box.event

\* On its connection the worker waits for one frame, behind states only; the
\* acknowledgement comes last, when everything has been read.
HandshakeInv ==
  /\ worker.pc # "off" => \A i \in 1..Len(replies) : replies[i] = "ack" =>
       i = Len(replies) /\ stream = <<>> /\ Awaiting /\ (worker.pc = "plan" => server.mission = worker.mission)
  /\ worker.pc = "hello" /\ stream # <<>> => stream[Len(stream)].type = "hello"
  /\ worker.pc \in {"event", "plan"} => \A i \in 1..Len(stream) :
       IF i < Len(stream) THEN stream[i].type = "state"
       ELSE /\ stream[i].type = worker.pc
            /\ worker.pc = "event" => stream[i].event = worker.event
            /\ worker.pc = "plan" => stream[i].mission = worker.mission
  /\ worker.pc \in {"mission", "state", "loop"} => \A i \in 1..Len(stream) : stream[i].type = "state"

Holding == worker.pc \in {"event", "mission", "plan", "state"}

\* Every mission and every end of one has a generation of its own.
GenerationInv ==
  /\ worker.sent <= box.generation /\ worker.generation <= box.generation
  /\ worker.pc \in {"off", "hello"} => worker.sent = 0
  /\ Holding => worker.sent <= worker.generation
  /\ worker.pc = "plan" => worker.sent # worker.generation
  /\ Holding /\ worker.generation = box.generation => worker.mission = box.mission

\* What was acknowledged for this generation is what the server has, and no reset is
\* on its way that would take it from it.
AgreedInv ==
  ~plant.clear =>
    /\ worker.sent # 0 /\ worker.sent = box.generation => server.mission = box.mission
    /\ box.event # NoEvent /\ raised[box.event].event = "reset_scene" =>
         worker.sent # box.generation /\ (Holding => worker.generation # box.generation)
    /\ worker.pc = "event" /\ raised[worker.event].event = "reset_scene" => worker.sent # box.generation

LinkInv == LinkTypes /\ HeldInv /\ OrderInv /\ HandshakeInv /\ GenerationInv /\ AgreedInv

LEMMA LinkBounds ==
  MaxEvents3 \in Nat /\ MaxPlans \in Nat /\ MaxBreaks \in Nat /\ MaxTime \in Nat /\ Nothing \in Stamps
BY LinkAssumption DEF LinkAssumption, Nothing, Stamp, Stamps

LEMMA FrameIs ==
  ASSUME NEW type \in {"hello", "event", "plan", "state", "end"}, NEW event \in 0..MaxEvents3,
         NEW mission \in 0..MaxPlans, NEW stamp \in Stamps
  PROVE  /\ Frame(type, event, mission, stamp) \in Frames
         /\ Frame(type, event, mission, stamp).type = type
         /\ Frame(type, event, mission, stamp).event = event
         /\ Frame(type, event, mission, stamp).mission = mission
BY DEF Frame, Frames

LEMMA LinkFacts ==
  ASSUME LinkTypes
  PROVE  /\ Len(stream) \in Nat /\ stream \in Seq(Frames) /\ (stream = <<>> <=> Len(stream) = 0)
         /\ \A i \in 1..Len(stream) : /\ stream[i] \in Frames
                                      /\ stream[i].event \in 0..MaxEvents3 /\ stream[i].mission \in 0..MaxPlans
         /\ Len(raised) \in Nat /\ Len(raised) <= MaxEvents3
         /\ \A i \in 1..Len(raised) : raised[i].event \in LinkEvents /\ raised[i].mission \in 0..MaxPlans
         /\ Len(replies) \in Nat /\ replies \in Seq({"ack", "error"}) /\ (replies = <<>> <=> Len(replies) = 0)
         /\ \A i \in 1..Len(replies) : replies[i] \in {"ack", "error"}
         /\ Len(latest.events) \in Nat /\ latest.events \in Seq(1..MaxEvents3)
         /\ \A i \in 1..Len(latest.events) : latest.events[i] \in 1..MaxEvents3
         /\ box.event \in 0..MaxEvents3 /\ box.generation \in Nat /\ box.loaded \in 0..MaxPlans
         /\ box.mission \in 0..MaxPlans /\ box.state \in Stamps
         /\ worker.event \in 0..MaxEvents3 /\ worker.generation \in Nat /\ worker.sent \in Nat
         /\ worker.mission \in 0..MaxPlans /\ worker.state \in Stamps /\ worker.breaks \in 0..MaxBreaks
         /\ worker.pc \in {"off", "hello", "loop", "event", "mission", "plan", "state"}
         /\ plant.at.run \in 0..MaxEvents3 /\ plant.at.time \in 0..MaxTime /\ plant.at \in Stamps
<1>1. /\ Len(stream) \in Nat /\ stream \in Seq(Frames) /\ (stream = <<>> <=> Len(stream) = 0)
      /\ \A i \in 1..Len(stream) : stream[i] \in Frames
  BY LenProperties, EmptySeq, ElementOfSeq DEF LinkTypes
<1>2. \A i \in 1..Len(stream) : stream[i].event \in 0..MaxEvents3 /\ stream[i].mission \in 0..MaxPlans
  BY <1>1 DEF Frames
<1>3. /\ Len(raised) \in Nat /\ Len(raised) <= MaxEvents3
      /\ \A i \in 1..Len(raised) : raised[i] \in [event : LinkEvents, mission : 0..MaxPlans]
  BY LenProperties, ElementOfSeq DEF LinkTypes
<1>4. \A i \in 1..Len(raised) : raised[i].event \in LinkEvents /\ raised[i].mission \in 0..MaxPlans
  BY <1>3
<1>5. /\ Len(replies) \in Nat /\ replies \in Seq({"ack", "error"}) /\ (replies = <<>> <=> Len(replies) = 0)
      /\ \A i \in 1..Len(replies) : replies[i] \in {"ack", "error"}
  BY LenProperties, EmptySeq, ElementOfSeq DEF LinkTypes
<1>6. latest.events \in Seq(1..MaxEvents3)
  BY DEF LinkTypes
<1>7. Len(latest.events) \in Nat /\ \A i \in 1..Len(latest.events) : latest.events[i] \in 1..MaxEvents3
  BY <1>6, LenProperties, ElementOfSeq
<1>8. box \in LinkBoxes /\ worker \in LinkWorkers /\ plant.at \in Stamps
  BY DEF LinkTypes
<1>9. /\ box.event \in 0..MaxEvents3 /\ box.generation \in Nat /\ box.loaded \in 0..MaxPlans
      /\ box.mission \in 0..MaxPlans /\ box.state \in Stamps
  BY <1>8 DEF LinkBoxes
<1>10. /\ worker.event \in 0..MaxEvents3 /\ worker.generation \in Nat /\ worker.sent \in Nat
       /\ worker.mission \in 0..MaxPlans /\ worker.state \in Stamps /\ worker.breaks \in 0..MaxBreaks
       /\ worker.pc \in {"off", "hello", "loop", "event", "mission", "plan", "state"}
  BY <1>8 DEF LinkWorkers
<1>11. plant.at.run \in 0..MaxEvents3 /\ plant.at.time \in 0..MaxTime
  BY <1>8 DEF Stamps
<1> QED BY <1>1, <1>2, <1>3, <1>4, <1>5, <1>6, <1>7, <1>8, <1>9, <1>10, <1>11

LEMMA LinkInvSound == LinkInv => LinkSound
<1> SUFFICES ASSUME LinkInv PROVE LinkSound
  OBVIOUS
<1>0. LinkTypes /\ HeldInv /\ OrderInv /\ HandshakeInv /\ GenerationInv /\ AgreedInv
  BY DEF LinkInv
<1>1. LinkTypeOK
  <2>1. worker.event \in 0..MaxEvents3 /\ (worker.pc = "event" <=> worker.event # NoEvent)
    BY <1>0, LinkFacts DEF HeldInv
  <2>2. (worker.pc = "event") = (worker.event # NoEvent)
    BY <2>1
  <2>3. worker.pc \in {"plan", "state"} => worker.mission # NoMission
    BY <1>0 DEF HeldInv
  <2> QED BY <1>0, <2>2, <2>3 DEF LinkTypeOK, LinkTypes, LinkBoxes, LinkWorkers
<1>2. AppliedInOrder
  BY <1>0 DEF OrderInv
<1>3. PlanKnown
  BY <1>0 DEF AgreedInv, PlanKnown
<1> QED BY <1>1, <1>2, <1>3 DEF LinkSound

LEMMA LinkInvInit == LinkInit => LinkInv
<1> SUFFICES ASSUME LinkInit PROVE LinkInv
  OBVIOUS
<1> USE DEF LinkInit
<1>1. /\ <<>> \in Seq(Frames) /\ <<>> \in Seq([event : LinkEvents, mission : 0..MaxPlans])
      /\ <<>> \in Seq({"ack", "error"}) /\ <<>> \in Seq(1..MaxEvents3) /\ Len(<<>>) = 0
  BY EmptySeq
<1>2. /\ MaxEvents3 \in Nat /\ MaxPlans \in Nat /\ MaxBreaks \in Nat /\ MaxTime \in Nat /\ Nothing \in Stamps
      /\ Nothing.run = 0
  BY LinkBounds DEF Nothing, Stamp
<1>3. LinkTypes
  <2>1. plant \in [at : Stamps, clear : BOOLEAN]
    BY <1>2
  <2>2. box \in LinkBoxes
    BY <1>2 DEF LinkBoxes, NoMission, NoEvent
  <2>3. worker \in LinkWorkers
    BY <1>2 DEF LinkWorkers, NoMission, NoEvent
  <2>4. server \in [phase : {"closed", "hello", "mission_plan", "state"}, mission : 0..MaxPlans,
                    known : BOOLEAN, time : 0..MaxTime]
    BY <1>2 DEF NoMission
  <2>5. latest \in [valid : BOOLEAN, state : Stamps, mission : 0..MaxPlans, paused : BOOLEAN,
                    events : Seq(1..MaxEvents3)]
    BY <1>1, <1>2 DEF NoMission
  <2>6. /\ raised \in Seq([event : LinkEvents, mission : 0..MaxPlans]) /\ Len(raised) <= MaxEvents3
        /\ stream \in Seq(Frames) /\ replies \in Seq({"ack", "error"})
    BY <1>1, <1>2
  <2> QED BY <2>1, <2>2, <2>3, <2>4, <2>5, <2>6 DEF LinkTypes
<1>4. HeldInv
  BY <1>1, <1>2 DEF HeldInv, NoEvent
<1>5. OrderInv
  BY <1>1 DEF OrderInv, AppliedInOrder, NoEvent
<1>6. HandshakeInv
  BY <1>1 DEF HandshakeInv
<1>7. GenerationInv
  BY DEF GenerationInv, Holding
<1>8. AgreedInv
  BY DEF AgreedInv, NoEvent
<1> QED BY <1>3, <1>4, <1>5, <1>6, <1>7, <1>8 DEF LinkInv

\* The stream keeps events in their places or loses them, and gets other frames.
LEMMA OrderKept ==
  ASSUME LinkTypes, OrderInv, UNCHANGED raised, latest'.events = latest.events, box'.event = box.event,
         Len(stream') \in Nat,
         \A j \in 1..Len(stream') : stream'[j].type = "event" => j \in 1..Len(stream) /\ stream'[j] = stream[j]
  PROVE  OrderInv'
<1>1. AppliedInOrder'
  BY DEF OrderInv, AppliedInOrder
<1>2. ASSUME NEW j \in 1..Len(stream'), stream'[j].type = "event"
      PROVE  /\ stream'[j].event \in 1..Len(raised)
             /\ \A i \in 1..Len(latest.events) : latest.events[i] < stream'[j].event
             /\ \A i \in 1..Len(stream') : stream'[i].type = "event" /\ i < j => stream'[i].event < stream'[j].event
             /\ box.event # NoEvent => stream'[j].event < box.event
  <2>1. j \in 1..Len(stream) /\ stream'[j] = stream[j] /\ stream[j].type = "event"
    BY <1>2
  <2>2. ASSUME NEW i \in 1..Len(stream'), stream'[i].type = "event", i < j
        PROVE  stream'[i].event < stream'[j].event
    <3>1. i \in 1..Len(stream) /\ stream'[i] = stream[i] /\ stream[i].type = "event"
      BY <2>2
    <3> QED BY <2>1, <2>2, <3>1 DEF OrderInv
  <2> QED BY <2>1, <2>2 DEF OrderInv
<1> QED BY <1>1, <1>2 DEF OrderInv

\* An event is raised and left in the box.
LEMMA RaisedLink ==
  ASSUME LinkInv, NEW event \in LinkEvents, Len(raised) < MaxEvents3, SendEvent(event),
         UNCHANGED <<worker, stream, replies, server, latest>>
  PROVE  /\ raised' \in Seq([event : LinkEvents, mission : 0..MaxPlans])
         /\ Len(raised') = Len(raised) + 1 /\ Len(raised') <= MaxEvents3
         /\ \A i \in 1..Len(raised) : raised'[i] = raised[i]
         /\ raised'[Len(raised) + 1].event = event
         /\ box' \in LinkBoxes /\ box'.event = Len(raised) + 1 /\ box'.generation = box.generation
         /\ box'.mission = box.mission
         /\ OrderInv' /\ HandshakeInv' /\ GenerationInv'
<1>0. LinkTypes /\ OrderInv /\ HandshakeInv /\ GenerationInv /\ box \in LinkBoxes
      /\ raised \in Seq([event : LinkEvents, mission : 0..MaxPlans]) /\ Len(raised) \in Nat /\ MaxEvents3 \in Nat
  BY LinkFacts, LinkBounds DEF LinkInv, LinkTypes
<1> DEFINE entry == [event |-> event, mission |-> box.mission]
<1>1. entry \in [event : LinkEvents, mission : 0..MaxPlans] /\ entry.event = event
  BY <1>0, LinkFacts
<1>2. raised' = Append(raised, entry) /\ box' = [box EXCEPT !.event = Len(raised) + 1]
  BY DEF SendEvent
<1> HIDE DEF entry
<1>3. /\ raised' \in Seq([event : LinkEvents, mission : 0..MaxPlans]) /\ Len(raised') = Len(raised) + 1
      /\ \A i \in 1..Len(raised) : raised'[i] = raised[i]
      /\ raised'[Len(raised) + 1] = entry
  BY <1>0, <1>1, <1>2, AppendProperties
<1>4. /\ box' \in LinkBoxes /\ box'.event = Len(raised) + 1 /\ box'.generation = box.generation
      /\ box'.mission = box.mission
  <2>1. Len(raised) + 1 \in 0..MaxEvents3
    BY <1>0
  <2> QED BY <1>0, <1>2, <2>1 DEF LinkBoxes
<1>5. OrderInv'
  <2>1. PICK n \in Nat : n = Len(raised) + 1 /\ box'.event = n /\ Len(raised') = n /\ n # NoEvent
    BY <1>0, <1>3, <1>4 DEF NoEvent
  <2>2. \A j \in 1..Len(stream) : stream[j].type = "event" =>
          /\ stream[j].event \in 1..n /\ stream[j].event < n
          /\ \A i \in 1..Len(latest.events) : latest.events[i] < stream[j].event
          /\ \A i \in 1..Len(stream) : stream[i].type = "event" /\ i < j => stream[i].event < stream[j].event
    BY <1>0, <2>1 DEF OrderInv
  <2>3. \A i \in 1..Len(latest.events) : latest.events[i] \in 1..MaxEvents3
    BY <1>0, LinkFacts
  <2>4. \A i \in 1..Len(latest.events) : latest.events[i] <= Len(raised)
    BY <1>0 DEF OrderInv
  <2>5. \A i \in 1..Len(latest.events) : latest.events[i] <= n /\ latest.events[i] < n
    <3> TAKE i \in 1..Len(latest.events)
    <3>1. latest.events[i] \in Nat /\ latest.events[i] <= Len(raised)
      BY <1>0, <2>3, <2>4
    <3> QED BY <1>0, <2>1, <3>1
  <2>6. AppliedInOrder'
    BY <1>0 DEF OrderInv, AppliedInOrder
  <2> QED BY <2>1, <2>2, <2>5, <2>6 DEF OrderInv
<1>6. HandshakeInv' /\ GenerationInv'
  BY <1>0, <1>4 DEF HandshakeInv, GenerationInv, Holding, Awaiting
<1> QED BY <1>0, <1>1, <1>3, <1>4, <1>5, <1>6

\* The model steps and publishes, and missions come and go.
LEMMA PlantLink ==
  ASSUME LinkInv, PlantSteps \/ PublishState
  PROVE  LinkInv'
<1>0. /\ LinkTypes /\ HeldInv /\ OrderInv /\ HandshakeInv /\ GenerationInv /\ AgreedInv
      /\ UNCHANGED <<raised, worker, stream, replies, server, latest>>
      /\ plant \in [at : Stamps, clear : BOOLEAN] /\ box \in LinkBoxes
  BY DEF LinkInv, LinkTypes, PlantSteps, PublishState
<1>1. /\ plant' \in [at : Stamps, clear : BOOLEAN] /\ plant'.at.run = plant.at.run /\ plant'.clear = plant.clear
      /\ box' \in LinkBoxes /\ box'.event = box.event /\ box'.generation = box.generation
      /\ box'.mission = box.mission
  <2>1. CASE PlantSteps
    <3> DEFINE at == [plant.at EXCEPT !.time = @ + 1]
    <3>1. at \in Stamps /\ at.run = plant.at.run
      BY <1>0, <2>1, LinkBounds DEF PlantSteps, Stamps
    <3>2. plant' = [plant EXCEPT !.at = at] /\ UNCHANGED box
      BY <2>1 DEF PlantSteps
    <3> HIDE DEF at
    <3> QED BY <1>0, <3>1, <3>2
  <2>2. CASE PublishState
    <3>1. box' = [box EXCEPT !.state = plant.at, !.valid = TRUE] /\ UNCHANGED plant /\ plant.at \in Stamps
      BY <1>0, <2>2 DEF PublishState
    <3> QED BY <1>0, <3>1 DEF LinkBoxes
  <2> QED BY <2>1, <2>2
<1>2. LinkTypes'
  BY <1>0, <1>1 DEF LinkTypes
<1>3. HeldInv'
  BY <1>0, <1>1 DEF HeldInv
<1>4. OrderInv'
  BY <1>0, <1>1, LinkFacts, OrderKept
<1>5. HandshakeInv'
  BY <1>0 DEF HandshakeInv, Awaiting
<1>6. GenerationInv'
  BY <1>0, <1>1 DEF GenerationInv, Holding
<1>7. AgreedInv'
  BY <1>0, <1>1 DEF AgreedInv, Holding
<1> QED BY <1>2, <1>3, <1>4, <1>5, <1>6, <1>7 DEF LinkInv

\* A mission is loaded or ends: the box has a new generation.
LEMMA MissionLink ==
  ASSUME LinkInv, SetMission \/ ClearMission
  PROVE  LinkInv'
<1>0. /\ LinkTypes /\ HeldInv /\ OrderInv /\ HandshakeInv /\ GenerationInv /\ AgreedInv
      /\ UNCHANGED <<raised, worker, stream, replies, server, latest>>
      /\ plant \in [at : Stamps, clear : BOOLEAN] /\ box \in LinkBoxes
  BY DEF LinkInv, LinkTypes, SetMission, ClearMission
<1>1. /\ plant' \in [at : Stamps, clear : BOOLEAN] /\ plant'.at = plant.at
      /\ box' \in LinkBoxes /\ box'.event = box.event /\ box'.generation = box.generation + 1
  <2>1. CASE SetMission
    <3>1. /\ box' = [box EXCEPT !.mission = box.loaded + 1, !.loaded = box.loaded + 1,
                                !.generation = box.generation + 1]
          /\ UNCHANGED plant /\ box.loaded + 1 \in 0..MaxPlans /\ box.generation + 1 \in Nat
      <4>1. box.loaded \in 0..MaxPlans /\ box.generation \in Nat /\ MaxPlans \in Nat
        BY <1>0, LinkFacts, LinkBounds
      <4>2. /\ box' = [box EXCEPT !.mission = box.loaded + 1, !.loaded = box.loaded + 1,
                                  !.generation = box.generation + 1]
            /\ UNCHANGED plant /\ box.loaded < MaxPlans
        BY <2>1 DEF SetMission
      <4> QED BY <4>1, <4>2
    <3> QED BY <1>0, <3>1 DEF LinkBoxes
  <2>2. CASE ClearMission
    <3>1. /\ box' = [box EXCEPT !.mission = NoMission, !.generation = box.generation + 1]
          /\ plant' = [plant EXCEPT !.clear = FALSE] /\ NoMission \in 0..MaxPlans /\ box.generation + 1 \in Nat
      <4>1. box.generation \in Nat /\ MaxPlans \in Nat
        BY <1>0, LinkFacts, LinkBounds
      <4>2. /\ box' = [box EXCEPT !.mission = NoMission, !.generation = box.generation + 1]
            /\ plant' = [plant EXCEPT !.clear = FALSE]
        BY <2>2 DEF ClearMission, Cleared
      <4> QED BY <4>1, <4>2 DEF NoMission
    <3> QED BY <1>0, <3>1 DEF LinkBoxes
  <2> QED BY <2>1, <2>2
<1>2. LinkTypes'
  BY <1>0, <1>1 DEF LinkTypes
<1>3. HeldInv'
  BY <1>0, <1>1 DEF HeldInv
<1>4. OrderInv'
  BY <1>0, <1>1, LinkFacts, OrderKept
<1>5. HandshakeInv'
  BY <1>0 DEF HandshakeInv, Awaiting
<1>6. /\ worker.sent <= box.generation + 1 /\ worker.generation <= box.generation + 1
      /\ worker.sent # box.generation + 1 /\ worker.generation # box.generation + 1
  <2>1. worker.sent \in Nat /\ worker.generation \in Nat /\ box.generation \in Nat
    BY <1>0, LinkFacts
  <2>2. worker.sent <= box.generation /\ worker.generation <= box.generation
    BY <1>0 DEF GenerationInv
  <2> QED BY <2>1, <2>2
<1>7. GenerationInv'
  BY <1>0, <1>1, <1>6 DEF GenerationInv, Holding
<1>8. AgreedInv'
  BY <1>0, <1>1, <1>6 DEF AgreedInv
<1> QED BY <1>2, <1>3, <1>4, <1>5, <1>7, <1>8 DEF LinkInv

\* An event that does not reset.
LEMMA LifecycleLink ==
  ASSUME LinkInv, NEW event \in LinkEvents, Lifecycle(event)
  PROVE  LinkInv'
<1>0. /\ LinkTypes /\ HeldInv /\ AgreedInv /\ event # "reset_scene" /\ Len(raised) < MaxEvents3
      /\ SendEvent(event) /\ UNCHANGED <<plant, worker, stream, replies, server, latest>>
  BY DEF LinkInv, Lifecycle
<1>1. /\ raised' \in Seq([event : LinkEvents, mission : 0..MaxPlans])
      /\ Len(raised') = Len(raised) + 1 /\ Len(raised') <= MaxEvents3
      /\ \A i \in 1..Len(raised) : raised'[i] = raised[i]
      /\ raised'[Len(raised) + 1].event = event
      /\ box' \in LinkBoxes /\ box'.event = Len(raised) + 1 /\ box'.generation = box.generation
      /\ box'.mission = box.mission
      /\ OrderInv' /\ HandshakeInv' /\ GenerationInv'
  BY <1>0, RaisedLink
<1>2. LinkTypes'
  BY <1>0, <1>1 DEF LinkTypes
<1>3. HeldInv'
  <2>1. Len(raised) \in Nat /\ worker.event \in Nat /\ plant.at.run \in Nat
    BY <1>0, LinkFacts
  <2>2. worker.event <= Len(raised') /\ plant.at.run <= Len(raised')
    BY <1>0, <1>1, <2>1 DEF HeldInv
  <2> QED BY <1>0, <2>2 DEF HeldInv
<1>4. AgreedInv'
  <2>1. worker.pc = "event" => worker.event \in 1..Len(raised)
    BY <1>0, LinkFacts DEF HeldInv, NoEvent
  <2>2. worker.pc = "event" => raised'[worker.event].event = raised[worker.event].event
    BY <1>1, <2>1
  <2>3. raised'[box'.event].event # "reset_scene"
    BY <1>0, <1>1
  <2> QED BY <1>0, <1>1, <2>2, <2>3 DEF AgreedInv
<1> QED BY <1>1, <1>2, <1>3, <1>4 DEF LinkInv

\* The reset; until the mission is cleared it excuses the server.
LEMMA ResetLink == ASSUME LinkInv, Reset PROVE LinkInv'
<1>0. /\ LinkTypes /\ HeldInv /\ "reset_scene" \in LinkEvents /\ Len(raised) < MaxEvents3
      /\ SendEvent("reset_scene") /\ UNCHANGED <<worker, stream, replies, server, latest>>
      /\ plant' = [at |-> Stamp(plant.at.run + 1, 0), clear |-> TRUE]
  BY DEF LinkInv, Reset
<1>1. /\ raised' \in Seq([event : LinkEvents, mission : 0..MaxPlans])
      /\ Len(raised') = Len(raised) + 1 /\ Len(raised') <= MaxEvents3
      /\ box' \in LinkBoxes
      /\ OrderInv' /\ HandshakeInv' /\ GenerationInv'
  BY <1>0, RaisedLink
<1>2. plant.at.run + 1 \in 0..MaxEvents3 /\ plant.at.run + 1 <= Len(raised) + 1
  <2>1. plant.at.run \in Nat /\ Len(raised) \in Nat /\ MaxEvents3 \in Nat
    BY <1>0, LinkFacts, LinkBounds
  <2>2. plant.at.run <= Len(raised)
    BY <1>0 DEF HeldInv
  <2> QED BY <1>0, <2>1, <2>2
<1>3. plant' \in [at : Stamps, clear : BOOLEAN] /\ plant'.at.run = plant.at.run + 1 /\ plant'.clear
  BY <1>0, <1>2, LinkBounds DEF Stamp, Stamps
<1>4. LinkTypes'
  BY <1>0, <1>1, <1>3 DEF LinkTypes
<1>5. HeldInv'
  <2>1. Len(raised) \in Nat /\ worker.event \in Nat
    BY <1>0, LinkFacts
  <2>2. worker.event <= Len(raised')
    BY <1>0, <1>1, <2>1 DEF HeldInv
  <2> QED BY <1>0, <1>1, <1>2, <1>3, <2>2 DEF HeldInv
<1>6. AgreedInv'
  BY <1>3 DEF AgreedInv
<1> QED BY <1>1, <1>4, <1>5, <1>6 DEF LinkInv

\* The worker gives its connection up.
LEMMA LeavesIs ==
  ASSUME LinkTypes, NEW n \in 0..MaxBreaks
  PROVE  /\ LeavesWith(n) \in LinkWorkers
         /\ LeavesWith(n).pc = "off" /\ LeavesWith(n).event = NoEvent /\ LeavesWith(n).sent = 0
         /\ LeavesWith(n).generation = 0
<1>1. worker \in LinkWorkers
  BY DEF LinkTypes
<1>2. NoEvent \in 0..MaxEvents3 /\ NoMission \in 0..MaxPlans /\ 0 \in Nat /\ Nothing \in Stamps
  BY LinkBounds DEF NoEvent, NoMission
<1>3. LeavesWith(n) = [worker EXCEPT !.pc = "off", !.event = NoEvent, !.mission = NoMission, !.generation = 0,
                                     !.valid = FALSE, !.state = Nothing, !.sent = 0, !.breaks = n]
  BY DEF LeavesWith, SentAtConnect
<1> QED BY <1>1, <1>2, <1>3 DEF LinkWorkers

LEMMA LeftLink ==
  ASSUME LinkInv, NEW n \in 0..MaxBreaks, worker' = LeavesWith(n), UNCHANGED <<plant, box, raised, server, latest>>,
         stream' \in Seq(Frames), Len(stream') \in Nat, replies' \in Seq({"ack", "error"}),
         \A j \in 1..Len(stream') : stream'[j].type = "event" => j \in 1..Len(stream) /\ stream'[j] = stream[j]
  PROVE  LinkInv'
<1>0. LinkTypes /\ HeldInv /\ OrderInv /\ GenerationInv /\ AgreedInv
  BY DEF LinkInv
<1>1. /\ worker' \in LinkWorkers /\ worker'.pc = "off" /\ worker'.event = NoEvent /\ worker'.sent = 0
      /\ worker'.generation = 0
  BY <1>0, LeavesIs
<1>2. LinkTypes'
  BY <1>0, <1>1 DEF LinkTypes
<1>3. HeldInv'
  <2>1. NoEvent <= Len(raised)
    BY <1>0, LinkFacts DEF NoEvent
  <2> QED BY <1>0, <1>1, <2>1 DEF HeldInv
<1>4. OrderInv'
  BY <1>0, OrderKept
<1>5. HandshakeInv'
  BY <1>1 DEF HandshakeInv
<1>6. GenerationInv'
  <2>1. 0 <= box.generation
    BY <1>0, LinkFacts
  <2> QED BY <1>1, <2>1 DEF GenerationInv, Holding
<1>7. AgreedInv'
  <2>1. ASSUME ~plant.clear, box.event # NoEvent, raised[box.event].event = "reset_scene"
        PROVE  box.generation # 0
    <3>1. worker.sent # box.generation /\ worker.sent <= box.generation
      BY <1>0, <2>1 DEF AgreedInv, GenerationInv
    <3>2. worker.sent \in Nat /\ box.generation \in Nat
      BY <1>0, LinkFacts
    <3> QED BY <3>1, <3>2
  <2> QED BY <1>1, <2>1 DEF AgreedInv, Holding
<1> QED BY <1>2, <1>3, <1>4, <1>5, <1>6, <1>7 DEF LinkInv

\* A frame that is no event goes behind the others.
LEMMA FrameGoes ==
  ASSUME LinkTypes, NEW f \in Frames, stream' = Append(stream, f)
  PROVE  /\ stream' \in Seq(Frames) /\ Len(stream') \in Nat /\ Len(stream') = Len(stream) + 1
         /\ stream' # <<>> /\ stream'[Len(stream')] = f
         /\ \A i \in 1..Len(stream') : IF i < Len(stream') THEN i \in 1..Len(stream) /\ stream'[i] = stream[i]
                                       ELSE stream'[i] = f
<1>1. stream \in Seq(Frames) /\ Len(stream) \in Nat
  BY LinkFacts
<1>2. /\ stream' \in Seq(Frames) /\ Len(stream') = Len(stream) + 1
      /\ \A i \in 1..Len(stream) : stream'[i] = stream[i]
      /\ stream'[Len(stream) + 1] = f
  BY <1>1, AppendProperties
<1>3. stream' # <<>>
  BY <1>1, <1>2, EmptySeq
<1>4. \A i \in 1..Len(stream') : IF i < Len(stream') THEN i \in 1..Len(stream) /\ stream'[i] = stream[i]
                                 ELSE stream'[i] = f
  <2> TAKE i \in 1..Len(stream')
  <2>1. CASE i < Len(stream')
    <3>1. i \in 1..Len(stream)
      BY <1>1, <1>2, <2>1
    <3> QED BY <1>2, <2>1, <3>1
  <2>2. CASE ~(i < Len(stream'))
    <3>1. i = Len(stream) + 1
      BY <1>1, <1>2, <2>2
    <3> QED BY <1>2, <2>2, <3>1
  <2> QED BY <2>1, <2>2
<1> QED BY <1>1, <1>2, <1>3, <1>4

\* A connection is made.
LEMMA ConnectLink == ASSUME LinkInv, ConnectServer PROVE LinkInv'
<1> DEFINE hello == Frame("hello", NoEvent, NoMission, Nothing)
<1>0. /\ LinkTypes /\ HeldInv /\ OrderInv /\ GenerationInv /\ AgreedInv
      /\ UNCHANGED <<plant, box, raised, server, latest>> /\ worker.pc = "off" /\ worker \in LinkWorkers
      /\ worker' = [worker EXCEPT !.pc = "hello"] /\ stream' = Append(stream, hello) /\ replies' = <<>>
  BY DEF LinkInv, LinkTypes, ConnectServer
<1>1. hello \in Frames /\ hello.type = "hello"
  BY LinkBounds, FrameIs DEF NoEvent, NoMission
<1> HIDE DEF hello
<1>2. /\ stream' \in Seq(Frames) /\ Len(stream') \in Nat /\ stream' # <<>> /\ stream'[Len(stream')] = hello
      /\ \A i \in 1..Len(stream') : IF i < Len(stream') THEN i \in 1..Len(stream) /\ stream'[i] = stream[i]
                                    ELSE stream'[i] = hello
  BY <1>0, <1>1, FrameGoes
<1>3. /\ worker' \in LinkWorkers /\ worker'.pc = "hello" /\ worker'.event = worker.event
      /\ worker'.sent = worker.sent /\ worker'.generation = worker.generation
  BY <1>0 DEF LinkWorkers
<1>4. LinkTypes'
  BY <1>0, <1>2, <1>3, EmptySeq DEF LinkTypes
<1>5. HeldInv'
  BY <1>0, <1>3 DEF HeldInv
<1>6. OrderInv'
  <2>1. \A j \in 1..Len(stream') : stream'[j].type = "event" => j \in 1..Len(stream) /\ stream'[j] = stream[j]
    BY <1>1, <1>2
  <2> QED BY <1>0, <1>2, <2>1, OrderKept
<1>7. HandshakeInv'
  <2>1. Len(replies') = 0
    BY <1>0, EmptySeq
  <2> QED BY <1>1, <1>2, <1>3, <2>1 DEF HandshakeInv
<1>8. GenerationInv'
  BY <1>0, <1>3 DEF GenerationInv, Holding
<1>9. AgreedInv'
  BY <1>0, <1>3 DEF AgreedInv, Holding
<1> QED BY <1>4, <1>5, <1>6, <1>7, <1>8, <1>9 DEF LinkInv

\* A connection breaks.
LEMMA BreakLink == ASSUME LinkInv, Break PROVE LinkInv'
<1> DEFINE end == Frame("end", NoEvent, NoMission, Nothing)
<1>0. /\ LinkTypes /\ worker' = LeavesWith(worker.breaks + 1) /\ worker.breaks < MaxBreaks
      /\ UNCHANGED <<plant, box, raised, server, latest>> /\ replies' = <<>>
  BY DEF LinkInv, Break
<1>1. worker.breaks + 1 \in 0..MaxBreaks
  <2>1. worker.breaks \in Nat /\ MaxBreaks \in Nat
    BY <1>0, LinkFacts, LinkBounds
  <2> QED BY <1>0, <2>1
<1>2. end \in Frames /\ end.type = "end"
  BY LinkBounds, FrameIs DEF NoEvent, NoMission
<1>3. PICK kept \in 0..Len(stream) : stream' = Append(SubSeq(stream, 1, kept), end)
  BY DEF Break
<1> HIDE DEF end
<1>4. stream \in Seq(Frames) /\ Len(stream) \in Nat
  BY <1>0, LinkFacts
<1> DEFINE head == SubSeq(stream, 1, kept)
<1>5. head \in Seq(Frames) /\ Len(head) = kept /\ \A i \in 1..kept : head[i] = stream[i] /\ i \in 1..Len(stream)
  BY <1>4, SubSeqProperties
<1> HIDE DEF head
<1>6. /\ stream' \in Seq(Frames) /\ Len(stream') = kept + 1
      /\ \A i \in 1..kept : stream'[i] = head[i]
      /\ stream'[kept + 1] = end
  <2>1. stream' = Append(head, end)
    BY <1>3 DEF head
  <2> QED BY <1>2, <1>5, <2>1, AppendProperties
<1>7. \A j \in 1..Len(stream') : stream'[j].type = "event" => j \in 1..Len(stream) /\ stream'[j] = stream[j]
  <2> TAKE j \in 1..Len(stream')
  <2> HAVE stream'[j].type = "event"
  <2>1. j # kept + 1
    BY <1>2, <1>6
  <2>2. j \in 1..kept
    BY <1>4, <1>6, <2>1
  <2> QED BY <1>5, <1>6, <2>2
<1>8. Len(stream') \in Nat
  BY <1>4, <1>6
<1>9. replies' \in Seq({"ack", "error"})
  BY <1>0, EmptySeq
<1> QED BY <1>0, <1>1, <1>6, <1>7, <1>8, <1>9, LeftLink

\* A reply is read: an error ends the connection, the acknowledgement is of what the
\* worker waits for.
LEMMA ReadsLink == ASSUME LinkInv, ReadReply PROVE LinkInv'
<1>0. /\ LinkTypes /\ HeldInv /\ OrderInv /\ HandshakeInv /\ GenerationInv /\ AgreedInv
      /\ UNCHANGED <<plant, box, raised, server, latest>>
      /\ Awaiting /\ replies # <<>> /\ replies' = Tail(replies) /\ worker \in LinkWorkers
      /\ replies \in Seq({"ack", "error"}) /\ Len(replies) \in Nat /\ Len(replies) # 0
      /\ stream \in Seq(Frames) /\ Len(stream) \in Nat
  BY LinkFacts DEF LinkInv, LinkTypes, ReadReply
<1>1. replies' \in Seq({"ack", "error"}) /\ Len(replies') = Len(replies) - 1 /\ Head(replies) = replies[1]
  BY <1>0, HeadTailProperties
<1>2. CASE Head(replies) # "ack"
  <2> DEFINE end == Frame("end", NoEvent, NoMission, Nothing)
  <2>1. worker' = LeavesWith(worker.breaks) /\ stream' = Append(stream, end)
    BY <1>2 DEF ReadReply
  <2>2. end \in Frames /\ end.type = "end"
    BY LinkBounds, FrameIs DEF NoEvent, NoMission
  <2> HIDE DEF end
  <2>3. /\ stream' \in Seq(Frames) /\ Len(stream') \in Nat
        /\ \A j \in 1..Len(stream') : stream'[j].type = "event" => j \in 1..Len(stream) /\ stream'[j] = stream[j]
    BY <1>0, <2>1, <2>2, FrameGoes
  <2>4. worker.breaks \in 0..MaxBreaks
    BY <1>0, LinkFacts
  <2> QED BY <1>0, <1>1, <2>1, <2>3, <2>4, LeftLink
<1>3. CASE Head(replies) = "ack"
  <2>1. /\ stream' = stream
        /\ worker' = [worker EXCEPT !.pc = AfterAck, !.event = NoEvent,
                                    !.sent = IF worker.pc = "plan" THEN worker.generation ELSE worker.sent]
    BY <1>3 DEF ReadReply
  <2>2. 1 \in 1..Len(replies) /\ worker.pc \in {"hello", "event", "plan"}
    BY <1>0 DEF Awaiting
  <2>3. 1 = Len(replies) /\ stream = <<>> /\ (worker.pc = "plan" => server.mission = worker.mission)
    BY <1>0, <1>1, <1>3, <2>2 DEF HandshakeInv
  <2>4. Len(replies') = 0 /\ Len(stream) = 0
    BY <1>0, <1>1, <2>3, EmptySeq
  <2>5. /\ AfterAck \in {"loop", "mission", "state"} /\ (AfterAck = "loop" <=> worker.pc = "hello")
        /\ (AfterAck = "mission" <=> worker.pc = "event") /\ (AfterAck = "state" <=> worker.pc = "plan")
    BY <2>2 DEF AfterAck
  <2>6. NoEvent \in 0..MaxEvents3
    BY LinkBounds DEF NoEvent
  <2>7. /\ worker' \in LinkWorkers /\ worker'.pc = AfterAck /\ worker'.event = NoEvent
        /\ worker'.mission = worker.mission /\ worker'.generation = worker.generation
        /\ worker'.sent = IF worker.pc = "plan" THEN worker.generation ELSE worker.sent
    BY <1>0, <2>1, <2>5, <2>6 DEF LinkWorkers
  <2>8. LinkTypes'
    BY <1>0, <1>1, <2>1, <2>7 DEF LinkTypes
  <2>9. HeldInv'
    <3>1. NoEvent <= Len(raised)
      BY <1>0, LinkFacts DEF NoEvent
    <3> QED BY <1>0, <2>5, <2>7, <3>1 DEF HeldInv
  <2>10. OrderInv'
    BY <1>0, <2>1, OrderKept
  <2>11. HandshakeInv'
    BY <2>1, <2>4, <2>5, <2>7 DEF HandshakeInv
  <2>12. GenerationInv'
    <3>1. worker.sent \in Nat /\ worker.generation \in Nat /\ box.generation \in Nat
      BY <1>0, LinkFacts
    <3>2. worker.sent <= box.generation /\ worker.generation <= box.generation
      BY <1>0 DEF GenerationInv
    <3>3. CASE worker.pc = "hello"
      BY <1>0, <2>5, <2>7, <3>2, <3>3 DEF GenerationInv, Holding
    <3>4. CASE worker.pc = "event"
      BY <1>0, <2>5, <2>7, <3>2, <3>4 DEF GenerationInv, Holding
    <3>5. CASE worker.pc = "plan"
      <4>1. worker.generation <= worker.generation
        BY <3>1
      <4> QED BY <1>0, <2>5, <2>7, <3>2, <3>5, <4>1 DEF GenerationInv, Holding
    <3> QED BY <2>2, <3>3, <3>4, <3>5
  <2>13. AgreedInv'
    <3> SUFFICES ASSUME ~plant.clear PROVE AgreedInv'
      BY <1>0 DEF AgreedInv
    <3>1. worker'.sent # 0 /\ worker'.sent = box.generation => server.mission = box.mission
      <4>1. CASE worker.pc = "plan"
        BY <1>0, <2>3, <2>7, <4>1 DEF GenerationInv, Holding
      <4>2. CASE worker.pc # "plan"
        BY <1>0, <2>7, <4>2 DEF AgreedInv
      <4> QED BY <4>1, <4>2
    <3>2. box.event # NoEvent /\ raised[box.event].event = "reset_scene" =>
            worker'.sent # box.generation /\ (Holding' => worker'.generation # box.generation)
      <4>1. CASE worker.pc = "hello"
        BY <1>0, <2>5, <2>7, <4>1 DEF AgreedInv, Holding
      <4>2. CASE worker.pc # "hello"
        BY <1>0, <2>2, <2>7, <4>2 DEF AgreedInv, Holding
      <4> QED BY <4>1, <4>2
    <3>3. worker'.pc # "event"
      BY <2>5, <2>7
    <3> QED BY <1>0, <3>1, <3>2, <3>3 DEF AgreedInv
  <2> QED BY <2>8, <2>9, <2>10, <2>11, <2>12, <2>13 DEF LinkInv
<1> QED BY <1>2, <1>3

\* The worker copies the box; an event in it is sent first.
LEMMA SnapshotLink == ASSUME LinkInv, Snapshot PROVE LinkInv'
<1>0. /\ LinkTypes /\ HeldInv /\ OrderInv /\ HandshakeInv /\ GenerationInv /\ AgreedInv
      /\ UNCHANGED <<plant, raised, replies, server, latest>> /\ worker.pc = "loop"
      /\ worker \in LinkWorkers /\ box \in LinkBoxes /\ box' = [box EXCEPT !.event = NoEvent]
      /\ worker' = [worker EXCEPT !.pc = IF box.event # NoEvent THEN "event" ELSE "mission",
                                  !.event = box.event, !.mission = box.mission,
                                  !.generation = box.generation, !.valid = box.valid, !.state = box.state]
  BY DEF LinkInv, LinkTypes, Snapshot, Taken
<1>1. /\ box.event \in 0..MaxEvents3 /\ box.event <= Len(raised) /\ Len(raised) \in Nat
      /\ worker.sent \in Nat /\ box.generation \in Nat /\ worker.sent <= box.generation
  BY <1>0, LinkFacts DEF OrderInv, GenerationInv
<1>2. box' \in LinkBoxes /\ box'.event = NoEvent /\ box'.generation = box.generation /\ box'.mission = box.mission
  <2>1. NoEvent \in 0..MaxEvents3
    BY LinkBounds DEF NoEvent
  <2> QED BY <1>0, <2>1 DEF LinkBoxes
<1>3. /\ worker' \in LinkWorkers /\ worker'.event = box.event /\ worker'.mission = box.mission
      /\ worker'.generation = box.generation /\ worker'.sent = worker.sent
      /\ worker'.pc = IF box.event # NoEvent THEN "event" ELSE "mission"
  BY <1>0 DEF LinkWorkers, LinkBoxes
<1>4. \A i \in 1..Len(replies) : replies[i] # "ack"
  BY <1>0 DEF HandshakeInv, Awaiting
<1>5. \A i \in 1..Len(stream) : stream[i].type = "state"
  BY <1>0 DEF HandshakeInv
<1>6. HeldInv'
  BY <1>0, <1>1, <1>3 DEF HeldInv
<1>7. GenerationInv'
  <2>1. box.generation <= box.generation
    BY <1>1
  <2> QED BY <1>1, <1>2, <1>3, <2>1 DEF GenerationInv
<1>8. AgreedInv'
  BY <1>0, <1>2, <1>3 DEF AgreedInv
<1>9. CASE box.event = NoEvent
  <2>1. stream' = stream
    BY <1>9 DEF Snapshot
  <2>2. LinkTypes'
    BY <1>0, <1>2, <1>3, <2>1 DEF LinkTypes
  <2>3. OrderInv'
    BY <1>0, <1>2, <1>9, <2>1, LinkFacts, OrderKept
  <2>4. HandshakeInv'
    BY <1>0, <1>3, <1>4, <1>5, <1>9, <2>1 DEF HandshakeInv
  <2> QED BY <1>6, <1>7, <1>8, <2>2, <2>3, <2>4 DEF LinkInv
<1>10. CASE box.event # NoEvent
  <2> DEFINE f == Frame("event", box.event, raised[box.event].mission, Nothing)
  <2>1. stream' = Append(stream, f)
    BY <1>10 DEF Snapshot
  <2>2. box.event \in 1..Len(raised)
    BY <1>1, <1>10 DEF NoEvent
  <2>3. raised[box.event].mission \in 0..MaxPlans
    BY <1>0, <2>2, LinkFacts
  <2>4. f \in Frames /\ f.type = "event" /\ f.event = box.event
    BY <1>1, <2>3, LinkBounds, FrameIs
  <2> HIDE DEF f
  <2>5. /\ stream' \in Seq(Frames) /\ Len(stream') \in Nat /\ Len(stream') = Len(stream) + 1
        /\ stream' # <<>> /\ stream'[Len(stream')] = f
        /\ \A i \in 1..Len(stream') : IF i < Len(stream') THEN i \in 1..Len(stream) /\ stream'[i] = stream[i]
                                      ELSE stream'[i] = f
    BY <1>0, <2>1, <2>4, FrameGoes
  <2>6. LinkTypes'
    BY <1>0, <1>2, <1>3, <2>5 DEF LinkTypes
  <2>7. OrderInv'
    <3>1. AppliedInOrder'
      BY <1>0 DEF OrderInv, AppliedInOrder
    <3>2. ASSUME NEW j \in 1..Len(stream'), stream'[j].type = "event"
          PROVE  ~(j < Len(stream')) /\ stream'[j] = f
      <4>1. CASE j < Len(stream')
        BY <1>5, <2>5, <3>2, <4>1
      <4>2. CASE ~(j < Len(stream'))
        BY <2>5, <4>2
      <4> QED BY <4>1, <4>2
    <3>3. \A i \in 1..Len(latest.events) : latest.events[i] < box.event /\ latest.events[i] <= Len(raised)
      BY <1>0, <1>10 DEF OrderInv
    <3>4. \A i, j \in 1..Len(stream') : stream'[i].type = "event" /\ stream'[j].type = "event" => ~(i < j)
      <4> TAKE i, j \in 1..Len(stream')
      <4> HAVE stream'[i].type = "event" /\ stream'[j].type = "event"
      <4>1. ~(i < Len(stream'))
        BY <3>2
      <4> QED BY <2>5, <4>1
    <3>5. NoEvent <= Len(raised)
      BY <1>1 DEF NoEvent
    <3> QED BY <1>0, <1>2, <2>2, <2>4, <3>1, <3>2, <3>3, <3>4, <3>5 DEF OrderInv
  <2>8. HandshakeInv'
    <3>1. worker'.pc = "event" /\ UNCHANGED replies
      BY <1>0, <1>3, <1>10
    <3>2. \A i \in 1..Len(stream') : IF i < Len(stream') THEN stream'[i].type = "state"
                                     ELSE stream'[i].type = "event" /\ stream'[i].event = worker'.event
      BY <1>3, <1>5, <2>4, <2>5
    <3> QED BY <1>4, <3>1, <3>2 DEF HandshakeInv
  <2> QED BY <1>6, <1>7, <1>8, <2>6, <2>7, <2>8 DEF LinkInv
<1> QED BY <1>9, <1>10

\* The iteration ends without a mission, or goes on with its plan or its state.
LEMMA SendMissionLink == ASSUME LinkInv, SendMission PROVE LinkInv'
<1> DEFINE next == IF worker.mission = NoMission THEN "loop"
                   ELSE IF worker.generation # worker.sent THEN "plan" ELSE "state"
           f == Frame("plan", NoEvent, worker.mission, Nothing)
<1>0. /\ LinkTypes /\ HeldInv /\ OrderInv /\ HandshakeInv /\ GenerationInv /\ AgreedInv
      /\ UNCHANGED <<plant, box, raised, replies, server, latest>> /\ worker.pc = "mission"
      /\ worker \in LinkWorkers /\ worker' = [worker EXCEPT !.pc = next]
      /\ stream' = IF worker'.pc = "plan" THEN Append(stream, f) ELSE stream
  BY DEF LinkInv, LinkTypes, SendMission
<1>1. /\ next \in {"loop", "plan", "state"}
      /\ next = "loop" <=> worker.mission = NoMission
      /\ next = "plan" => worker.generation # worker.sent
  OBVIOUS
<1> HIDE DEF next
<1>2. /\ worker' \in LinkWorkers /\ worker'.pc = next /\ worker'.event = worker.event
      /\ worker'.mission = worker.mission /\ worker'.generation = worker.generation /\ worker'.sent = worker.sent
  BY <1>0, <1>1 DEF LinkWorkers
<1>3. \A i \in 1..Len(replies) : replies[i] # "ack"
  BY <1>0 DEF HandshakeInv, Awaiting
<1>4. \A i \in 1..Len(stream) : stream[i].type = "state"
  BY <1>0 DEF HandshakeInv
<1>5. HeldInv'
  BY <1>0, <1>1, <1>2 DEF HeldInv
<1>6. GenerationInv'
  BY <1>0, <1>1, <1>2 DEF GenerationInv, Holding
<1>7. AgreedInv'
  BY <1>0, <1>1, <1>2 DEF AgreedInv, Holding
<1>8. CASE next # "plan"
  <2>1. stream' = stream
    BY <1>0, <1>2, <1>8
  <2>2. LinkTypes'
    BY <1>0, <1>2, <2>1 DEF LinkTypes
  <2>3. OrderInv'
    BY <1>0, <2>1, LinkFacts, OrderKept
  <2>4. HandshakeInv'
    BY <1>0, <1>1, <1>2, <1>3, <1>4, <1>8, <2>1 DEF HandshakeInv
  <2> QED BY <1>5, <1>6, <1>7, <2>2, <2>3, <2>4 DEF LinkInv
<1>9. CASE next = "plan"
  <2>1. stream' = Append(stream, f)
    BY <1>0, <1>2, <1>9
  <2>2. f \in Frames /\ f.type = "plan" /\ f.mission = worker.mission
    <3>1. NoEvent \in 0..MaxEvents3 /\ Nothing \in Stamps
      BY LinkBounds DEF NoEvent
    <3>2. worker.mission \in 0..MaxPlans
      BY <1>0, LinkFacts
    <3> QED BY <3>1, <3>2, FrameIs
  <2> HIDE DEF f
  <2>3. /\ stream' \in Seq(Frames) /\ Len(stream') \in Nat /\ stream' # <<>>
        /\ \A i \in 1..Len(stream') : IF i < Len(stream') THEN i \in 1..Len(stream) /\ stream'[i] = stream[i]
                                      ELSE stream'[i] = f
    BY <1>0, <2>1, <2>2, FrameGoes
  <2>4. LinkTypes'
    BY <1>0, <1>2, <2>3 DEF LinkTypes
  <2>5. OrderInv'
    <3>1. \A j \in 1..Len(stream') : stream'[j].type = "event" => j \in 1..Len(stream) /\ stream'[j] = stream[j]
      BY <2>2, <2>3
    <3> QED BY <1>0, <2>3, <3>1, OrderKept
  <2>6. HandshakeInv'
    <3>1. \A i \in 1..Len(stream') : IF i < Len(stream') THEN stream'[i].type = "state"
                                     ELSE stream'[i].type = "plan" /\ stream'[i].mission = worker'.mission
      BY <1>2, <1>4, <2>2, <2>3
    <3>2. worker'.pc = "plan" /\ UNCHANGED replies
      BY <1>0, <1>2, <1>9
    <3> QED BY <1>3, <3>1, <3>2 DEF HandshakeInv
  <2> QED BY <1>5, <1>6, <1>7, <2>4, <2>5, <2>6 DEF LinkInv
<1> QED BY <1>8, <1>9

\* The state is sent, and a refusal that is there is taken away.
LEMMA SendsStateLink == ASSUME LinkInv, SendsState PROVE LinkInv'
<1> DEFINE f == Frame("state", NoEvent, worker.mission, worker.state)
<1>0. /\ LinkTypes /\ HeldInv /\ OrderInv /\ HandshakeInv /\ GenerationInv /\ AgreedInv
      /\ UNCHANGED <<plant, box, raised, server, latest>> /\ worker.pc = "state"
      /\ worker \in LinkWorkers
      /\ worker' = [worker EXCEPT !.pc = "loop", !.mission = NoMission, !.generation = 0,
                                  !.valid = FALSE, !.state = Nothing]
      /\ stream' = Append(stream, f) \/ stream' = stream
      /\ replies' = IF replies # <<>> THEN Tail(replies) ELSE replies
  BY DEF LinkInv, LinkTypes, SendsState
<1>1. /\ worker' \in LinkWorkers /\ worker'.pc = "loop" /\ worker'.event = worker.event
      /\ worker'.generation = 0 /\ worker'.sent = worker.sent
  <2>1. NoMission \in 0..MaxPlans /\ Nothing \in Stamps /\ 0 \in Nat
    BY LinkBounds DEF NoMission
  <2> QED BY <1>0, <2>1 DEF LinkWorkers
<1>2. \A i \in 1..Len(replies) : replies[i] # "ack"
  BY <1>0 DEF HandshakeInv, Awaiting
<1>3. \A i \in 1..Len(stream) : stream[i].type = "state"
  BY <1>0 DEF HandshakeInv
<1>4. replies' \in Seq({"ack", "error"}) /\ \A i \in 1..Len(replies') : replies'[i] # "ack"
  <2>1. replies \in Seq({"ack", "error"}) /\ Len(replies) \in Nat
    BY <1>0, LinkFacts
  <2>2. CASE replies = <<>>
    BY <1>0, <1>2, <2>1, <2>2
  <2>3. CASE replies # <<>>
    <3>1. replies' = Tail(replies)
      BY <1>0, <2>3
    <3>2. /\ replies' \in Seq({"ack", "error"}) /\ Len(replies') = Len(replies) - 1
          /\ \A i \in 1..Len(replies') : replies'[i] = replies[i + 1]
      BY <2>1, <2>3, <3>1, HeadTailProperties
    <3>3. \A i \in 1..Len(replies') : i + 1 \in 1..Len(replies)
      BY <2>1, <3>2
    <3> QED BY <1>2, <3>2, <3>3
  <2> QED BY <2>2, <2>3
<1>5. /\ stream' \in Seq(Frames) /\ Len(stream') \in Nat
      /\ \A i \in 1..Len(stream') : stream'[i].type = "state"
  <2>1. f \in Frames /\ f.type = "state"
    <3>1. NoEvent \in 0..MaxEvents3
      BY LinkBounds DEF NoEvent
    <3>2. worker.mission \in 0..MaxPlans /\ worker.state \in Stamps
      BY <1>0, LinkFacts
    <3> QED BY <3>1, <3>2, FrameIs
  <2> HIDE DEF f
  <2>2. CASE stream' = stream
    BY <1>0, <1>3, <2>2, LinkFacts
  <2>3. CASE stream' = Append(stream, f)
    <3>1. /\ stream' \in Seq(Frames) /\ Len(stream') \in Nat
          /\ \A i \in 1..Len(stream') : IF i < Len(stream') THEN i \in 1..Len(stream) /\ stream'[i] = stream[i]
                                        ELSE stream'[i] = f
      BY <1>0, <2>1, <2>3, FrameGoes
    <3> QED BY <1>3, <2>1, <3>1
  <2> QED BY <1>0, <2>2, <2>3
<1>6. LinkTypes'
  BY <1>0, <1>1, <1>4, <1>5 DEF LinkTypes
<1>7. HeldInv'
  BY <1>0, <1>1 DEF HeldInv
<1>8. OrderInv'
  <2>1. \A j \in 1..Len(stream') : stream'[j].type # "event"
    BY <1>5
  <2> QED BY <1>0, <1>5, <2>1, OrderKept
<1>9. HandshakeInv'
  BY <1>1, <1>4, <1>5 DEF HandshakeInv
<1>10. GenerationInv'
  <2>1. 0 <= box.generation
    BY <1>0, LinkFacts
  <2> QED BY <1>0, <1>1, <2>1 DEF GenerationInv, Holding
<1>11. AgreedInv'
  BY <1>0, <1>1 DEF AgreedInv, Holding
<1> QED BY <1>6, <1>7, <1>8, <1>9, <1>10, <1>11 DEF LinkInv

\* The server takes the head of the stream.
LEMMA HeadTaken ==
  ASSUME LinkTypes, stream # <<>>, stream' = Tail(stream)
  PROVE  /\ Head(stream) = stream[1] /\ Head(stream) \in Frames /\ 1 \in 1..Len(stream)
         /\ stream' \in Seq(Frames) /\ Len(stream') \in Nat /\ Len(stream') = Len(stream) - 1
         /\ (stream' = <<>> <=> Len(stream) = 1)
         /\ \A i \in 1..Len(stream') : i + 1 \in 1..Len(stream) /\ stream'[i] = stream[i + 1]
<1>1. stream \in Seq(Frames) /\ Len(stream) \in Nat /\ Len(stream) # 0
  BY LinkFacts
<1>2. /\ stream' \in Seq(Frames) /\ Len(stream') = Len(stream) - 1 /\ Head(stream) = stream[1]
      /\ \A i \in 1..Len(stream') : stream'[i] = stream[i + 1]
  BY <1>1, HeadTailProperties
<1>3. 1 \in 1..Len(stream) /\ stream[1] \in Frames
  BY <1>1, LinkFacts
<1>4. stream' = <<>> <=> Len(stream') = 0
  BY <1>2, EmptySeq
<1> QED BY <1>1, <1>2, <1>3, <1>4

\* What an answer does to the replies.
LEMMA Replied ==
  ASSUME LinkTypes, NEW answer \in {"ack", "error"}, Reply(answer)
  PROVE  /\ replies' \in Seq({"ack", "error"})
         /\ \/ replies' = replies
            \/ /\ worker.pc # "off" /\ ~Ended /\ Len(replies') = Len(replies) + 1
               /\ \A i \in 1..Len(replies') : IF i < Len(replies') THEN i \in 1..Len(replies) /\ replies'[i] = replies[i]
                                              ELSE replies'[i] = answer
<1>1. replies \in Seq({"ack", "error"}) /\ Len(replies) \in Nat
  BY LinkFacts
<1>2. CASE Ended \/ worker.pc = "off"
  BY <1>1, <1>2 DEF Reply
<1>3. CASE ~(Ended \/ worker.pc = "off")
  <2>1. replies' = Append(replies, answer)
    BY <1>3 DEF Reply
  <2>2. /\ replies' \in Seq({"ack", "error"}) /\ Len(replies') = Len(replies) + 1
        /\ \A i \in 1..Len(replies) : replies'[i] = replies[i]
        /\ replies'[Len(replies) + 1] = answer
    BY <1>1, <2>1, AppendProperties
  <2>3. \A i \in 1..Len(replies') : IF i < Len(replies') THEN i \in 1..Len(replies) /\ replies'[i] = replies[i]
                                    ELSE replies'[i] = answer
    <3> TAKE i \in 1..Len(replies')
    <3>1. CASE i < Len(replies')
      <4>1. i \in 1..Len(replies)
        BY <1>1, <2>2, <3>1
      <4> QED BY <2>2, <3>1, <4>1
    <3>2. CASE ~(i < Len(replies'))
      <4>1. i = Len(replies) + 1
        BY <1>1, <2>2, <3>2
      <4> QED BY <2>2, <3>2, <4>1
    <3> QED BY <3>1, <3>2
  <2> QED BY <1>3, <2>2, <2>3
<1> QED BY <1>2, <1>3

Heard == [phase : {"closed", "hello", "mission_plan", "state"}, mission : 0..MaxPlans,
          known : BOOLEAN, time : 0..MaxTime]
Shown == [valid : BOOLEAN, state : Stamps, mission : 0..MaxPlans, paused : BOOLEAN, events : Seq(1..MaxEvents3)]

\* An event that is applied goes from the head of the stream to the end of those applied.
LEMMA TakenOrder ==
  ASSUME LinkTypes, OrderInv, stream # <<>>, stream' = Tail(stream), UNCHANGED <<raised, box>>,
         \/ latest'.events = latest.events
         \/ Head(stream).type = "event" /\ latest'.events = Append(latest.events, Head(stream).event)
  PROVE  OrderInv'
<1>1. /\ Head(stream) = stream[1] /\ Head(stream) \in Frames /\ 1 \in 1..Len(stream) /\ Len(stream) \in Nat
      /\ Len(stream') \in Nat
      /\ \A i \in 1..Len(stream') : i + 1 \in 1..Len(stream) /\ stream'[i] = stream[i + 1]
  BY HeadTaken, LinkFacts
<1>2. ASSUME NEW j \in 1..Len(stream'), stream'[j].type = "event"
      PROVE  /\ stream'[j].event \in 1..Len(raised)
             /\ \A i \in 1..Len(latest.events) : latest.events[i] < stream'[j].event
             /\ \A i \in 1..Len(stream') : stream'[i].type = "event" /\ i < j => stream'[i].event < stream'[j].event
             /\ box.event # NoEvent => stream'[j].event < box.event
             /\ Head(stream).type = "event" => Head(stream).event < stream'[j].event
  <2>1. PICK m \in 1..Len(stream) : m = j + 1 /\ stream'[j] = stream[m] /\ stream[m].type = "event"
    BY <1>1, <1>2
  <2>2. ASSUME NEW i \in 1..Len(stream'), stream'[i].type = "event", i < j
        PROVE  stream'[i].event < stream'[j].event
    <3>1. PICK k \in 1..Len(stream) : k = i + 1 /\ stream'[i] = stream[k] /\ stream[k].type = "event"
      BY <1>1, <2>2
    <3>2. k < m
      BY <1>1, <2>1, <2>2, <3>1
    <3> QED BY <2>1, <3>1, <3>2 DEF OrderInv
  <2>3. ASSUME Head(stream).type = "event"
        PROVE  Head(stream).event < stream'[j].event
    <3>1. 1 < m
      BY <1>1, <2>1
    <3> QED BY <1>1, <2>1, <2>3, <3>1 DEF OrderInv
  <2> QED BY <2>1, <2>2, <2>3 DEF OrderInv
<1>3. CASE latest'.events = latest.events
  <2>1. AppliedInOrder'
    BY <1>3 DEF OrderInv, AppliedInOrder
  <2> QED BY <1>2, <1>3, <2>1 DEF OrderInv
<1>4. CASE Head(stream).type = "event" /\ latest'.events = Append(latest.events, Head(stream).event)
  <2> DEFINE e == Head(stream).event
             old == latest.events
             new == latest'.events
  <2>1. /\ e \in 1..Len(raised) /\ \A i \in 1..Len(old) : old[i] < e
        /\ box.event # NoEvent => e < box.event
    BY <1>1, <1>4 DEF OrderInv
  <2>2. old \in Seq(1..MaxEvents3) /\ Len(old) \in Nat /\ \A i \in 1..Len(old) : old[i] \in 1..MaxEvents3
    BY LinkFacts
  <2>3. Len(raised) \in Nat /\ Len(raised) <= MaxEvents3 /\ MaxEvents3 \in Nat
    BY LinkFacts, LinkBounds
  <2>4. e \in 1..MaxEvents3
    BY <2>1, <2>3
  <2>5. new = Append(old, e)
    BY <1>4
  <2>6. \A i, j \in 1..Len(old) : i < j => old[i] < old[j]
    BY DEF OrderInv, AppliedInOrder
  <2>7. \A i \in 1..Len(old) : old[i] <= Len(raised)
    BY DEF OrderInv
  <2>8. \A j \in 1..Len(stream') : stream'[j].type = "event" =>
          e < stream'[j].event /\ \A i \in 1..Len(old) : old[i] < stream'[j].event
    BY <1>2, <1>4
  <2>9. box.event # NoEvent => \A i \in 1..Len(old) : old[i] < box.event
    BY DEF OrderInv
  <2> HIDE DEF e, old, new
  <2>10. /\ Len(new) = Len(old) + 1 /\ \A i \in 1..Len(old) : new[i] = old[i]
         /\ new[Len(old) + 1] = e
    BY <2>2, <2>4, <2>5, AppendProperties
  <2>11. \A i \in 1..Len(new) : (i \in 1..Len(old) /\ new[i] = old[i]) \/ (i = Len(old) + 1 /\ new[i] = e)
    BY <2>2, <2>10
  <2>12. \A i, j \in 1..Len(new) : i < j => new[i] < new[j]
    <3> TAKE i, j \in 1..Len(new)
    <3> HAVE i < j
    <3>1. i \in 1..Len(old) /\ new[i] = old[i]
      BY <2>2, <2>10, <2>11
    <3>2. CASE j \in 1..Len(old) /\ new[j] = old[j]
      BY <2>6, <3>1, <3>2
    <3>3. CASE new[j] = e
      BY <2>1, <3>1, <3>3 DEF old
    <3> QED BY <2>11, <3>2, <3>3
  <2>13. \A i \in 1..Len(new) : new[i] <= Len(raised)
    <3> TAKE i \in 1..Len(new)
    <3> QED BY <2>1, <2>3, <2>7, <2>11
  <2>14. \A j \in 1..Len(stream') : stream'[j].type = "event" => \A i \in 1..Len(new) : new[i] < stream'[j].event
    BY <2>8, <2>11
  <2>15. box.event # NoEvent => \A i \in 1..Len(new) : new[i] < box.event
    BY <2>1, <2>9, <2>11
  <2>16. AppliedInOrder'
    BY <2>12 DEF AppliedInOrder, new
  <2> QED BY <1>2, <2>13, <2>14, <2>15, <2>16 DEF OrderInv, new
<1> QED BY <1>3, <1>4

\* A frame is taken: an acknowledgement is of the last frame the worker sent.
LEMMA ObservedLink ==
  ASSUME LinkInv, stream # <<>>, stream' = Tail(stream), UNCHANGED <<plant, box, raised, worker>>,
         server' \in Heard, latest' \in Shown,
         \/ latest'.events = latest.events
         \/ Head(stream).type = "event" /\ latest'.events = Append(latest.events, Head(stream).event),
         \/ UNCHANGED replies
         \/ \E answer \in {"ack", "error"} : Reply(answer) /\ (answer = "ack" => Head(stream).type # "state"),
         Head(stream).type = "state" => server'.mission = server.mission,
         Head(stream).type = "event" /\ raised[Head(stream).event].event # "reset_scene" => server'.mission = server.mission,
         Head(stream).type = "plan" => server'.mission = Head(stream).mission
  PROVE  LinkInv'
<1>0. LinkTypes /\ HeldInv /\ OrderInv /\ HandshakeInv /\ GenerationInv /\ AgreedInv
  BY DEF LinkInv
<1>1. /\ Head(stream) = stream[1] /\ Head(stream) \in Frames /\ 1 \in 1..Len(stream) /\ Len(stream) \in Nat
      /\ stream' \in Seq(Frames) /\ Len(stream') \in Nat /\ Len(stream') = Len(stream) - 1
      /\ (stream' = <<>> <=> Len(stream) = 1)
      /\ \A i \in 1..Len(stream') : i + 1 \in 1..Len(stream) /\ stream'[i] = stream[i + 1]
  BY <1>0, HeadTaken, LinkFacts
<1>2. /\ replies' \in Seq({"ack", "error"})
      /\ worker.pc # "off" => \A i \in 1..Len(replies') : replies'[i] = "ack" =>
           i = Len(replies') /\ ~Ended /\ Head(stream).type # "state"
  <2>1. worker.pc # "off" => \A i \in 1..Len(replies) : replies[i] # "ack"
    BY <1>0 DEF HandshakeInv
  <2>2. CASE UNCHANGED replies
    BY <1>0, <2>1, <2>2, LinkFacts
  <2>3. ASSUME NEW answer \in {"ack", "error"}, Reply(answer), answer = "ack" => Head(stream).type # "state"
        PROVE  /\ replies' \in Seq({"ack", "error"})
               /\ worker.pc # "off" => \A i \in 1..Len(replies') : replies'[i] = "ack" =>
                    i = Len(replies') /\ ~Ended /\ Head(stream).type # "state"
    <3>1. /\ replies' \in Seq({"ack", "error"})
          /\ \/ replies' = replies
             \/ /\ worker.pc # "off" /\ ~Ended /\ Len(replies') = Len(replies) + 1
                /\ \A i \in 1..Len(replies') : IF i < Len(replies') THEN i \in 1..Len(replies) /\ replies'[i] = replies[i]
                                               ELSE replies'[i] = answer
      BY <1>0, <2>3, Replied
    <3> QED BY <2>1, <2>3, <3>1
  <2> QED BY <2>2, <2>3
<1>3. LinkTypes'
  BY <1>0, <1>1, <1>2 DEF LinkTypes, Heard, Shown
<1>4. HeldInv' /\ GenerationInv'
  BY <1>0 DEF HeldInv, GenerationInv, Holding
<1>5. OrderInv'
  BY <1>0, TakenOrder
<1>6. worker.pc \in {"event", "plan"} /\ Head(stream).type # "state" =>
        /\ Len(stream) = 1 /\ Head(stream).type = worker.pc
        /\ worker.pc = "event" => Head(stream).event = worker.event
        /\ worker.pc = "plan" => Head(stream).mission = worker.mission
  BY <1>0, <1>1 DEF HandshakeInv
<1>7. worker.pc \in {"mission", "state", "loop"} => Head(stream).type = "state"
  BY <1>0, <1>1 DEF HandshakeInv
<1>8. worker.pc \in {"off", "hello", "loop", "event", "mission", "plan", "state"}
  BY <1>0, LinkFacts
<1>9. HandshakeInv'
  <2>1. ASSUME worker.pc # "off", ~Ended, Head(stream).type # "state"
        PROVE  stream' = <<>> /\ Awaiting /\ (worker.pc = "plan" => server'.mission = worker.mission)
    <3>1. CASE worker.pc = "hello"
      <4>1. stream[Len(stream)].type = "hello"
        BY <1>0, <3>1 DEF HandshakeInv
      <4>2. Len(stream) \notin 2..Len(stream)
        BY <2>1, <4>1 DEF Ended
      <4>3. Len(stream) = 1
        BY <1>1, <4>2
      <4> QED BY <1>1, <3>1, <4>3 DEF Awaiting
    <3>2. CASE worker.pc \in {"event", "plan"}
      BY <1>1, <1>6, <2>1, <3>2 DEF Awaiting
    <3> QED BY <1>7, <1>8, <2>1, <3>1, <3>2
  <2>2. worker.pc # "off" => \A i \in 1..Len(replies') : replies'[i] = "ack" =>
          i = Len(replies') /\ stream' = <<>> /\ Awaiting /\ (worker.pc = "plan" => server'.mission = worker.mission)
    BY <1>2, <2>1
  <2>3. stream' # <<>> => Len(stream') \in 1..Len(stream') /\ stream'[Len(stream')] = stream[Len(stream)]
    <3> SUFFICES ASSUME stream' # <<>> PROVE Len(stream') \in 1..Len(stream') /\ stream'[Len(stream')] = stream[Len(stream)]
      OBVIOUS
    <3>1. Len(stream') \in 1..Len(stream') /\ Len(stream') + 1 = Len(stream)
      BY <1>1
    <3> QED BY <1>1, <3>1
  <2>4. worker.pc = "hello" /\ stream' # <<>> => stream'[Len(stream')].type = "hello"
    BY <1>0, <2>3 DEF HandshakeInv
  <2>5. worker.pc \in {"event", "plan"} => \A i \in 1..Len(stream') :
          IF i < Len(stream') THEN stream'[i].type = "state"
          ELSE /\ stream'[i].type = worker.pc
               /\ worker.pc = "event" => stream'[i].event = worker.event
               /\ worker.pc = "plan" => stream'[i].mission = worker.mission
    <3> SUFFICES ASSUME worker.pc \in {"event", "plan"}, NEW i \in 1..Len(stream')
                 PROVE  IF i < Len(stream') THEN stream'[i].type = "state"
                        ELSE /\ stream'[i].type = worker.pc
                             /\ worker.pc = "event" => stream'[i].event = worker.event
                             /\ worker.pc = "plan" => stream'[i].mission = worker.mission
      OBVIOUS
    <3>1. PICK m \in 1..Len(stream) : m = i + 1 /\ stream'[i] = stream[m]
      BY <1>1
    <3>2. i < Len(stream') <=> m < Len(stream)
      BY <1>1, <3>1
    <3>3. IF m < Len(stream) THEN stream[m].type = "state"
          ELSE /\ stream[m].type = worker.pc
               /\ worker.pc = "event" => stream[m].event = worker.event
               /\ worker.pc = "plan" => stream[m].mission = worker.mission
      BY <1>0, <3>1 DEF HandshakeInv
    <3> QED BY <3>1, <3>2, <3>3
  <2>6. worker.pc \in {"mission", "state", "loop"} => \A i \in 1..Len(stream') : stream'[i].type = "state"
    BY <1>0, <1>1 DEF HandshakeInv
  <2>7. UNCHANGED worker /\ (Awaiting' <=> Awaiting)
    BY DEF Awaiting
  <2> QED BY <2>2, <2>4, <2>5, <2>6, <2>7 DEF HandshakeInv
<1>10. AgreedInv'
  <2> SUFFICES ASSUME ~plant.clear, worker.sent # 0, worker.sent = box.generation PROVE server'.mission = box.mission
    BY <1>0 DEF AgreedInv, Holding
  <2>1. server.mission = box.mission
    BY <1>0 DEF AgreedInv
  <2>2. worker.pc \notin {"off", "hello"}
    BY <1>0 DEF GenerationInv
  <2>3. worker.pc # "plan"
    <3>1. worker.sent \in Nat /\ worker.generation \in Nat /\ box.generation \in Nat
      BY <1>0, LinkFacts
    <3>2. ASSUME worker.pc = "plan" PROVE FALSE
      <4>1. worker.sent <= worker.generation /\ worker.sent # worker.generation /\ worker.generation <= box.generation
        BY <1>0, <3>2 DEF GenerationInv, Holding
      <4> QED BY <3>1, <4>1
    <3> QED BY <3>2
  <2>4. CASE Head(stream).type = "state"
    BY <2>1, <2>4
  <2>5. CASE Head(stream).type # "state"
    <3>1. worker.pc = "event" /\ Head(stream).type = "event" /\ Head(stream).event = worker.event
      BY <1>6, <1>7, <1>8, <2>2, <2>3, <2>5
    <3>2. raised[worker.event].event # "reset_scene"
      BY <1>0, <3>1 DEF AgreedInv
    <3> QED BY <2>1, <3>1, <3>2
  <2> QED BY <2>4, <2>5
<1> QED BY <1>3, <1>4, <1>5, <1>9, <1>10 DEF LinkInv

LEMMA ObserveLink == ASSUME LinkInv, Observe PROVE LinkInv'
<1> DEFINE f == Head(stream)
<1>0. /\ LinkTypes /\ HeldInv /\ OrderInv /\ stream # <<>> /\ stream' = Tail(stream)
      /\ UNCHANGED <<plant, box, raised, worker>>
      /\ server \in Heard /\ latest \in Shown
      /\ TakeHello(f) \/ TakeEnd(f) \/ TakePlan(f) \/ Refuse(f) \/ TakeState(f) \/ TakeEvent(f)
  BY DEF LinkInv, LinkTypes, Observe, Heard, Shown
<1>1. f \in Frames /\ f = stream[1] /\ 1 \in 1..Len(stream)
  BY <1>0, HeadTaken
<1>2. f.mission \in 0..MaxPlans /\ f.stamp \in Stamps /\ f.stamp.time \in 0..MaxTime
  BY <1>1 DEF Frames, Stamps
<1>3. NoMission \in 0..MaxPlans /\ 0 \in 0..MaxTime /\ Nothing \in Stamps
  BY LinkBounds DEF NoMission
<1> HIDE DEF f
<1>4. CASE TakeHello(f)
  <2>1. f.type = "hello" /\ server' = [Closed EXCEPT !.phase = "mission_plan"] /\ Reply("ack") /\ UNCHANGED latest
    BY <1>4 DEF TakeHello
  <2>2. server' \in Heard
    BY <1>3, <2>1 DEF Closed, Heard
  <2> QED BY <1>0, <2>1, <2>2, ObservedLink DEF f
<1>5. CASE TakeEnd(f)
  <2>1. f.type = "end" /\ server' = Closed /\ UNCHANGED <<replies, latest>>
    BY <1>5 DEF TakeEnd
  <2>2. server' \in Heard
    BY <1>3, <2>1 DEF Closed, Heard
  <2> QED BY <1>0, <2>1, <2>2, ObservedLink DEF f
<1>6. CASE TakePlan(f)
  <2>1. /\ f.type = "plan" /\ server' = [server EXCEPT !.phase = "state", !.mission = f.mission]
        /\ latest' = [latest EXCEPT !.mission = f.mission] /\ Reply("ack")
    BY <1>6 DEF TakePlan
  <2>2. server' \in Heard /\ server'.mission = f.mission
    BY <1>0, <1>2, <2>1 DEF Heard
  <2>3. latest' \in Shown /\ latest'.events = latest.events
    BY <1>0, <1>2, <2>1 DEF Shown
  <2> QED BY <1>0, <2>1, <2>2, <2>3, ObservedLink DEF f
<1>7. CASE Refuse(f)
  <2>1. f.type \in {"event", "state"} /\ Reply("error") /\ UNCHANGED <<server, latest>>
    BY <1>7 DEF Refuse, Refused
  <2> QED BY <1>0, <2>1, ObservedLink DEF f
<1>8. CASE TakeState(f)
  <2>1. f.type = "state" /\ UNCHANGED replies
        /\ \/ /\ server' = [server EXCEPT !.known = TRUE, !.time = f.stamp.time]
              /\ latest' = [latest EXCEPT !.valid = TRUE, !.state = f.stamp]
           \/ UNCHANGED <<server, latest>>
    BY <1>8 DEF TakeState
  <2>2. server' \in Heard /\ server'.mission = server.mission
    BY <1>0, <1>2, <2>1 DEF Heard
  <2>3. latest' \in Shown /\ latest'.events = latest.events
    BY <1>0, <1>2, <2>1 DEF Shown
  <2> QED BY <1>0, <2>1, <2>2, <2>3, ObservedLink DEF f
<1>9. CASE TakeEvent(f)
  <2> DEFINE event == raised[f.event].event
             told == [latest EXCEPT !.events = Append(@, f.event)]
  <2>1. /\ f.type = "event" /\ Reply("ack")
        /\ server' = IF event = "reset_scene" THEN SceneReset ELSE server
        /\ latest' = CASE event = "pause" -> [told EXCEPT !.paused = TRUE]
                       [] event = "resume" -> [told EXCEPT !.paused = FALSE]
                       [] event = "reset_scene" ->
                            [told EXCEPT !.valid = FALSE, !.state = Nothing, !.mission = NoMission,
                                         !.paused = FALSE]
                       [] OTHER -> told
    BY <1>9 DEF TakeEvent
  <2>2. f.event \in 1..MaxEvents3
    <3>1. f.event \in 1..Len(raised)
      BY <1>0, <1>1, <2>1 DEF OrderInv
    <3>2. Len(raised) \in Nat /\ Len(raised) <= MaxEvents3 /\ MaxEvents3 \in Nat
      BY <1>0, LinkFacts, LinkBounds
    <3> QED BY <3>1, <3>2
  <2>3. told \in Shown /\ told.events = Append(latest.events, f.event)
    <3>1. Append(latest.events, f.event) \in Seq(1..MaxEvents3)
      BY <1>0, <2>2, LinkFacts, AppendProperties
    <3>2. told = [latest EXCEPT !.events = Append(latest.events, f.event)]
      OBVIOUS
    <3> HIDE DEF told
    <3> QED BY <1>0, <3>1, <3>2 DEF Shown
  <2> HIDE DEF told
  <2>4. latest' \in Shown /\ latest'.events = told.events
    <3>1. [told EXCEPT !.paused = TRUE] \in Shown /\ [told EXCEPT !.paused = TRUE].events = told.events
      BY <2>3 DEF Shown
    <3>2. [told EXCEPT !.paused = FALSE] \in Shown /\ [told EXCEPT !.paused = FALSE].events = told.events
      BY <2>3 DEF Shown
    <3> DEFINE none == [told EXCEPT !.valid = FALSE, !.state = Nothing, !.mission = NoMission, !.paused = FALSE]
    <3>3. none \in Shown /\ none.events = told.events
      BY <1>3, <2>3 DEF Shown
    <3> HIDE DEF event, none
    <3>4. CASE event = "pause"
      BY <2>1, <3>1, <3>4 DEF none
    <3>5. CASE event = "resume"
      BY <2>1, <3>2, <3>5 DEF none
    <3>6. CASE event = "reset_scene"
      BY <2>1, <3>3, <3>6 DEF none
    <3>7. CASE event \notin {"pause", "resume", "reset_scene"}
      BY <2>1, <2>3, <3>7
    <3> QED BY <3>4, <3>5, <3>6, <3>7
  <2>5. server' \in Heard /\ (event # "reset_scene" => server'.mission = server.mission)
    <3> HIDE DEF event
    <3>1. SceneReset \in Heard
      BY <1>0, <1>3 DEF SceneReset, Heard
    <3> QED BY <1>0, <2>1, <3>1
  <2> QED BY <1>0, <2>1, <2>3, <2>4, <2>5, ObservedLink DEF f
<1> QED BY <1>0, <1>4, <1>5, <1>6, <1>7, <1>8, <1>9

LEMMA LinkStep == ASSUME LinkInv, LinkNext PROVE LinkInv'
BY PlantLink, MissionLink, LifecycleLink, ResetLink, ConnectLink, ReadsLink, SnapshotLink, SendMissionLink,
   SendsStateLink, BreakLink, ObserveLink
   DEF LinkNext, WorkerStep

\* Over reconnections, lost acknowledgements and resets the server applies an event at most once
\* and in order, and the worker never takes for sent a plan the server does not have
\* (worker and send_low_rate of fixed_wing_v3_tcp.c, FixedWingV3Session.observe).
THEOREM LinkIsSound == LinkSpec => []LinkSound
<1>1. LinkInit => LinkInv
  BY LinkInvInit
<1>2. LinkInv /\ [LinkNext]_linkVars => LinkInv'
  <2>1. LinkInv /\ UNCHANGED linkVars => LinkInv'
    <3> SUFFICES ASSUME LinkInv, UNCHANGED linkVars PROVE LinkInv'
      OBVIOUS
    <3>1. LinkTypes' /\ HeldInv' /\ OrderInv'
      BY DEF LinkInv, LinkTypes, HeldInv, OrderInv, AppliedInOrder, linkVars
    <3>2. HandshakeInv' /\ GenerationInv' /\ AgreedInv'
      BY DEF LinkInv, HandshakeInv, Awaiting, GenerationInv, AgreedInv, Holding, linkVars
    <3> QED BY <3>1, <3>2 DEF LinkInv
  <2> QED BY <2>1, LinkStep
<1>3. LinkInv => LinkSound
  BY LinkInvSound
<1> QED BY <1>1, <1>2, <1>3, PTL DEF LinkSpec

-----------------------------------------------------------------------------
(* Induction by the least counterexample, for a sequence without an element. *)

LEMMA LeastNumber ==
  ASSUME NEW T \in SUBSET Nat, T # {}
  PROVE  \E m \in T : \A n \in T : m <= n
<1> DEFINE R == {ss \in Nat \X Nat : ss[1] < ss[2]}
<1>1. IsWellFoundedOn(R, Nat)
  BY NatLessThanWellFounded DEF OpToRel
<1>2. \E x \in T : \A y \in T : ~ (<<y, x>> \in R)
  <2> HIDE DEF R
  <2> QED BY <1>1, WFMin
<1>3. PICK x \in T : \A y \in T : ~ (<<y, x>> \in R)
  BY <1>2
<1>4. \A y \in T : x <= y
  <2> TAKE y \in T
  <2>1. <<y, x>> \in Nat \X Nat
    OBVIOUS
  <2>2. ~(y < x)
    BY <2>1, <1>3
  <2> QED BY <2>2
<1> QED BY <1>4

\* f[k] is what is left of the first k elements of s, up to n.
LeavesOut(f, s, x, n) ==
  f = [k \in 0..n |-> IF k = 0 THEN <<>> ELSE IF s[k] = x THEN f[k - 1] ELSE Append(f[k - 1], s[k])]

LEMMA LeavesOutExists ==
  ASSUME NEW s, NEW x, NEW n \in Nat
  PROVE  \E f : LeavesOut(f, s, x, n)
<1> DEFINE T == {m \in Nat : ~\E f : LeavesOut(f, s, x, m)}
<1> SUFFICES ASSUME T # {} PROVE FALSE
  OBVIOUS
<1>1. PICK m \in T : \A k \in T : m <= k
  BY LeastNumber
<1>2. m \in Nat /\ ~\E f : LeavesOut(f, s, x, m)
  OBVIOUS
<1>3. CASE m = 0
  <2> DEFINE f == [k \in 0..0 |-> <<>>]
  <2>1. LeavesOut(f, s, x, 0)
    BY DEF LeavesOut
  <2> QED BY <1>2, <1>3, <2>1
<1>4. CASE m # 0
  <2>1. m - 1 \in Nat /\ m - 1 \notin T
    BY <1>1, <1>2, <1>4
  <2>2. PICK f : LeavesOut(f, s, x, m - 1)
    BY <2>1
  <2> DEFINE next == IF s[m] = x THEN f[m - 1] ELSE Append(f[m - 1], s[m])
             g == [k \in 0..m |-> IF k < m THEN f[k] ELSE next]
  <2>3. \A k \in 0..m : g[k] = IF k = 0 THEN <<>> ELSE IF s[k] = x THEN g[k - 1] ELSE Append(g[k - 1], s[k])
    <3> TAKE k \in 0..m
    <3>1. k # 0 => k - 1 \in 0..m /\ k - 1 < m
      BY <1>2
    <3>2. k < m => k \in 0..(m - 1)
      BY <1>2
    <3>3. k < m => f[k] = IF k = 0 THEN <<>> ELSE IF s[k] = x THEN f[k - 1] ELSE Append(f[k - 1], s[k])
      BY <3>2, <2>2 DEF LeavesOut
    <3>4. k # 0 => g[k - 1] = f[k - 1]
      BY <3>1
    <3>5. k < m => g[k] = f[k]
      OBVIOUS
    <3>6. ~(k < m) => k = m /\ k # 0 /\ g[k] = next
      BY <1>2, <1>4
    <3> HIDE DEF g
    <3> QED BY <3>3, <3>4, <3>5, <3>6
  <2>4. LeavesOut(g, s, x, m)
    <3> HIDE DEF g
    <3>1. g = [k \in 0..m |-> g[k]]
      BY DEF g
    <3> QED BY <2>3, <3>1 DEF LeavesOut
  <2> QED BY <1>2, <2>4
<1> QED BY <1>3, <1>4

\* What a sequence without x is: elements of s other than x, in their order.
LeftOf(r, s, x, S, n) ==
  /\ r \in Seq(S)
  /\ \A i \in 1..Len(r) : \E j \in 1..n : r[i] = s[j] /\ r[i] # x
  /\ \A j \in 1..n : s[j] # x => \E i \in 1..Len(r) : r[i] = s[j]
  /\ (\A i, j \in 1..n : s[i] = s[j] => i = j) => \A i, j \in 1..Len(r) : r[i] = r[j] => i = j

LEMMA LeavesOutNext ==
  ASSUME NEW S, NEW s \in Seq(S), NEW x, NEW n \in Nat, n + 1 <= Len(s), NEW r, LeftOf(r, s, x, S, n)
  PROVE  LeftOf(IF s[n + 1] = x THEN r ELSE Append(r, s[n + 1]), s, x, S, n + 1)
<1>0. r \in Seq(S) /\ Len(r) \in Nat /\ s[n + 1] \in S
  <2>1. n + 1 \in 1..Len(s)
    BY LenProperties
  <2> QED BY <2>1, LenProperties, ElementOfSeq DEF LeftOf
<1>1. \A j \in 1..(n + 1) : j \in 1..n \/ j = n + 1
  OBVIOUS
<1>2. n + 1 \in 1..(n + 1) /\ (\A j \in 1..n : j \in 1..(n + 1) /\ j # n + 1)
  OBVIOUS
<1>3. CASE s[n + 1] = x
  BY <1>0, <1>1, <1>2, <1>3 DEF LeftOf
<1>4. CASE s[n + 1] # x
  <2> DEFINE q == Append(r, s[n + 1])
  <2>1. /\ q \in Seq(S) /\ Len(q) = Len(r) + 1 /\ q[Len(r) + 1] = s[n + 1]
        /\ \A i \in 1..Len(r) : q[i] = r[i]
    BY <1>0, AppendProperties
  <2>2. /\ Len(r) + 1 \in 1..(Len(r) + 1) /\ \A i \in 1..Len(r) : i \in 1..(Len(r) + 1)
        /\ \A i \in 1..(Len(r) + 1) : i \in 1..Len(r) \/ i = Len(r) + 1
    BY <1>0
  <2> HIDE DEF q
  <2>3. \A i \in 1..Len(q) : \E j \in 1..(n + 1) : q[i] = s[j] /\ q[i] # x
    <3> SUFFICES ASSUME NEW i \in 1..Len(q) PROVE \E j \in 1..(n + 1) : q[i] = s[j] /\ q[i] # x
      OBVIOUS
    <3>1. CASE i \in 1..Len(r)
      <4>1. PICK j \in 1..n : r[i] = s[j] /\ r[i] # x
        BY <3>1 DEF LeftOf
      <4> QED BY <1>2, <2>1, <3>1, <4>1
    <3>2. CASE i = Len(r) + 1
      BY <1>2, <1>4, <2>1, <3>2
    <3> QED BY <2>1, <2>2, <3>1, <3>2
  <2>4. \A j \in 1..(n + 1) : s[j] # x => \E i \in 1..Len(q) : q[i] = s[j]
    <3> SUFFICES ASSUME NEW j \in 1..(n + 1), s[j] # x PROVE \E i \in 1..Len(q) : q[i] = s[j]
      OBVIOUS
    <3>1. CASE j \in 1..n
      <4>1. PICK i \in 1..Len(r) : r[i] = s[j]
        BY <3>1 DEF LeftOf
      <4> QED BY <2>1, <2>2, <4>1
    <3>2. CASE j = n + 1
      BY <2>1, <2>2, <3>2
    <3> QED BY <1>1, <3>1, <3>2
  <2>5. ASSUME \A i, j \in 1..(n + 1) : s[i] = s[j] => i = j
        PROVE  \A i, j \in 1..Len(q) : q[i] = q[j] => i = j
    <3>1. \A i, j \in 1..Len(r) : r[i] = r[j] => i = j
      BY <1>2, <2>5 DEF LeftOf
    <3>2. \A i \in 1..Len(r) : r[i] # s[n + 1]
      BY <1>2, <2>5 DEF LeftOf
    <3> QED BY <2>1, <2>2, <3>1, <3>2
  <2> QED BY <1>4, <2>1, <2>3, <2>4, <2>5 DEF LeftOf, q
<1> QED BY <1>3, <1>4

LEMMA WithoutProperties ==
  ASSUME NEW S, NEW s \in Seq(S), NEW x
  PROVE  LeftOf(Without(s, x), s, x, S, Len(s))
<1> DEFINE f == CHOOSE f : LeavesOut(f, s, x, Len(s))
<1>0. Len(s) \in Nat
  BY LenProperties
<1>1. LeavesOut(f, s, x, Len(s))
  BY <1>0, LeavesOutExists
<1>2. Without(s, x) = f[Len(s)]
  BY DEF Without, LeavesOut
<1> HIDE DEF f
<1>3. /\ f[0] = <<>>
      /\ \A k \in 0..Len(s) : k # 0 => f[k] = IF s[k] = x THEN f[k - 1] ELSE Append(f[k - 1], s[k])
  <2>1. \A k \in 0..Len(s) : f[k] = IF k = 0 THEN <<>> ELSE IF s[k] = x THEN f[k - 1] ELSE Append(f[k - 1], s[k])
    BY <1>1 DEF LeavesOut
  <2>2. 0 \in 0..Len(s)
    BY <1>0
  <2> QED BY <2>1, <2>2
<1> DEFINE T == {k \in 0..Len(s) : ~LeftOf(f[k], s, x, S, k)}
<1>4. T = {}
  <2> SUFFICES ASSUME T # {} PROVE FALSE
    OBVIOUS
  <2>1. T \in SUBSET Nat
    BY <1>0
  <2>2. PICK k \in T : \A l \in T : k <= l
    BY <2>1, LeastNumber
  <2>3. k \in 0..Len(s) /\ ~LeftOf(f[k], s, x, S, k)
    OBVIOUS
  <2>4. LeftOf(<<>>, s, x, S, 0)
    <3>1. <<>> \in Seq(S) /\ Len(<<>>) = 0 /\ 1..0 = {}
      BY EmptySeq
    <3> QED BY <3>1 DEF LeftOf
  <2>5. k # 0
    BY <1>3, <2>3, <2>4
  <2>6. PICK n \in Nat : k = n + 1 /\ n = k - 1 /\ n \in 0..Len(s) /\ ~(k <= n) /\ n + 1 <= Len(s)
    <3>1. k - 1 \in Nat /\ k = (k - 1) + 1 /\ k - 1 \in 0..Len(s) /\ ~(k <= k - 1) /\ (k - 1) + 1 <= Len(s)
      BY <1>0, <2>3, <2>5
    <3> QED BY <3>1
  <2>7. LeftOf(f[n], s, x, S, n)
    BY <2>2, <2>6
  <2>8. LeftOf(IF s[n + 1] = x THEN f[n] ELSE Append(f[n], s[n + 1]), s, x, S, n + 1)
    BY <2>6, <2>7, LeavesOutNext
  <2> HIDE DEF T
  <2>9. f[k] = IF s[n + 1] = x THEN f[n] ELSE Append(f[n], s[n + 1])
    BY <1>3, <2>3, <2>5, <2>6
  <2> QED BY <2>3, <2>6, <2>8, <2>9
<1>5. Len(s) \in 0..Len(s)
  BY <1>0
<1> QED BY <1>2, <1>4, <1>5

-----------------------------------------------------------------------------
(* VisualBridge: plans, states and events of one connection.               *)

EventRecords == [event : EventNames, mission : Missions \cup {None}, reservedIn : 0..MaxConnects,
                 core : {"asked", "applied", "refused", "untold"}]

\* The records, whatever missions they hold.
SessionShape(s) == s \in [pc : Sessions, connects : 0..MaxConnects, mission : {s.mission}, missions : {s.missions},
                          events : Seq(Nat), before : {s.before}, ended : BOOLEAN]
QueuesShape(q) == q \in [current : {q.current}, missions : {q.missions}, events : Seq(Nat), reserved : {q.reserved}]
PublisherShape(p) == p \in [pc : {"off", "run", "built"}, mission : {p.mission}, step : Nat]
PeerShape(p) == p \in [plan : {p.plan}, step : Nat, events : Seq(Nat)]

VisualShapes ==
  /\ core \in [life : Lives, step : Nat] /\ cache \in [life : Lives, step : Nat]
  /\ ws \in [pc : {"idle", "request", "resolve", "forward"}, loads : {ws.loads}, mission : {ws.mission}]
  /\ events \in Seq(EventRecords) /\ connected \in BOOLEAN
  /\ SessionShape(session) /\ QueuesShape(queues) /\ PublisherShape(publisher) /\ PeerShape(peer)

\* The publisher belongs to the plan the server has, and states come from the cache.
PublisherInv ==
  /\ session.pc \in {"idle", "wait", "plan", "done"} => publisher.pc = "off"
  /\ publisher.pc \in {"run", "built"} => peer.plan = publisher.mission
  /\ peer.step <= cache.step
  /\ publisher.pc = "built" => peer.step <= publisher.step /\ publisher.step <= cache.step

Increasing(s) == \A i, j \in 1..Len(s) : i < j => s[i] < s[j]

\* An event the core applied, and the WebSocket is done with.
Decided(id) ==
  /\ id \in 1..Len(events) /\ events[id].core = "applied"
  /\ ws.pc \in {"request", "resolve"} => id # Len(events)

\* What the bridge holds is in order, and the server has heard of nothing behind it.
PendingInv ==
  /\ session.pc \notin {"drain", "event"} => session.events = <<>>
  /\ session.pc = "event" => session.events # <<>>
  /\ Increasing(session.events) /\ Increasing(queues.events)
  /\ \A i \in 1..Len(session.events), j \in 1..Len(queues.events) : session.events[i] < queues.events[j]
  /\ \A i \in 1..Len(session.events) : Decided(session.events[i])
  /\ \A i \in 1..Len(queues.events) : Decided(queues.events[i])

HeardInv ==
  /\ \A k \in 1..Len(peer.events) : Decided(peer.events[k])
  /\ \A i \in 1..Len(session.events), k \in 1..Len(peer.events) : peer.events[k] <= session.events[i]
  /\ \A i \in 1..Len(queues.events), k \in 1..Len(peer.events) : peer.events[k] <= queues.events[i]
  /\ EventsInOrder

OnConnection == session.pc \in {"wait", "plan", "loop", "drain", "event"}

\* An event reserved on this connection is held until the server has it.
ReservedInv ==
  /\ session.ended => session.pc \in {"closing", "done"}
  /\ \A id \in 1..Len(events) : events[id].reservedIn <= session.connects
  /\ ws.pc \in {"request", "resolve"} =>
       Len(events) # 0 /\ (events[Len(events)].reservedIn # 0 => Len(events) \in queues.reserved)
  /\ OnConnection => /\ session.connects # 0
                     /\ \A id \in 1..Len(events) :
                          events[id].reservedIn = session.connects /\ events[id].core = "applied" =>
                            id \in queues.reserved \/ Held(id) \/ id \in ToSet(peer.events)

VisualInv == VisualShapes /\ PublisherInv /\ PendingInv /\ HeardInv /\ ReservedInv

LEMMA VisualBounds ==
  /\ MaxCommands \in Nat /\ MaxConnects \in Nat /\ MaxStep \in Nat
  /\ EventNames \subseteq {"pause", "resume", "reset", "mission_end"}
BY VisualAssumption DEF VisualAssumption

LEMMA VisualFacts ==
  ASSUME VisualShapes
  PROVE  /\ session.pc \in Sessions /\ session.connects \in 0..MaxConnects /\ session.ended \in BOOLEAN
         /\ session.events \in Seq(Nat) /\ queues.events \in Seq(Nat) /\ peer.events \in Seq(Nat)
         /\ Len(session.events) \in Nat /\ Len(queues.events) \in Nat /\ Len(peer.events) \in Nat
         /\ (session.events = <<>> <=> Len(session.events) = 0)
         /\ \A i \in 1..Len(session.events) : session.events[i] \in Nat
         /\ \A i \in 1..Len(queues.events) : queues.events[i] \in Nat
         /\ \A i \in 1..Len(peer.events) : peer.events[i] \in Nat
         /\ DOMAIN session.events = 1..Len(session.events) /\ DOMAIN queues.events = 1..Len(queues.events)
         /\ DOMAIN peer.events = 1..Len(peer.events)
         /\ events \in Seq(EventRecords) /\ Len(events) \in Nat
         /\ \A id \in 1..Len(events) : events[id] \in EventRecords
         /\ peer.step \in Nat /\ publisher.step \in Nat /\ core.step \in Nat /\ cache.step \in Nat
         /\ publisher.pc \in {"off", "run", "built"}
<1>1. session.pc \in Sessions /\ session.connects \in 0..MaxConnects /\ session.ended \in BOOLEAN
      /\ session.events \in Seq(Nat)
  BY DEF VisualShapes, SessionShape
<1>2. queues.events \in Seq(Nat)
  BY DEF VisualShapes, QueuesShape
<1>3. peer.events \in Seq(Nat) /\ peer.step \in Nat
  BY DEF VisualShapes, PeerShape
<1>4. publisher.step \in Nat /\ publisher.pc \in {"off", "run", "built"}
  BY DEF VisualShapes, PublisherShape
<1>5. core.step \in Nat /\ cache.step \in Nat /\ events \in Seq(EventRecords)
  BY DEF VisualShapes
<1>6. \A s \in Seq(Nat) : Len(s) \in Nat /\ DOMAIN s = 1..Len(s) /\ \A i \in 1..Len(s) : s[i] \in Nat
  BY LenProperties, ElementOfSeq
<1>7. Len(events) \in Nat /\ \A id \in 1..Len(events) : events[id] \in EventRecords
  BY <1>5, LenProperties, ElementOfSeq
<1>8. session.events = <<>> <=> Len(session.events) = 0
  BY <1>1, EmptySeq
<1> QED BY <1>1, <1>2, <1>3, <1>4, <1>5, <1>6, <1>7, <1>8

LEMMA VisualInvInit == VisualInit => VisualInv
<1> SUFFICES ASSUME VisualInit PROVE VisualInv
  OBVIOUS
<1> USE DEF VisualInit
<1>1. <<>> \in Seq(Nat) /\ <<>> \in Seq(EventRecords) /\ Len(<<>>) = 0 /\ 0 \in 0..MaxConnects
  BY EmptySeq, VisualBounds
<1>2. VisualShapes
  <2>1. SessionShape(session)
    BY <1>1 DEF SessionShape, Sessions
  <2>2. QueuesShape(queues) /\ PeerShape(peer) /\ PublisherShape(publisher)
    BY <1>1 DEF QueuesShape, PeerShape, PublisherShape
  <2> QED BY <1>1, <2>1, <2>2 DEF VisualShapes, Lives
<1>3. PublisherInv
  BY DEF PublisherInv
<1>4. PendingInv /\ HeardInv
  BY <1>1 DEF PendingInv, HeardInv, EventsInOrder, Increasing
<1>5. ReservedInv
  BY <1>1 DEF ReservedInv, OnConnection
<1> QED BY <1>2, <1>3, <1>4, <1>5 DEF VisualInv

\* Nothing happens to an event: neither to those the bridge holds, nor to those the
\* server has heard of.
LEMMA EventsKept ==
  ASSUME PendingInv, HeardInv, ReservedInv, UNCHANGED events,
         ws'.pc = ws.pc \/ ws'.pc \notin {"request", "resolve"},
         session'.events = session.events, queues'.events = queues.events, queues'.reserved = queues.reserved,
         peer'.events = peer.events, session'.connects = session.connects,
         session'.pc \notin {"drain", "event"} => session.events = <<>>,
         session'.pc = "event" => session.events # <<>>,
         session'.ended => session'.pc \in {"closing", "done"},
         OnConnection' => OnConnection
  PROVE  PendingInv' /\ HeardInv' /\ ReservedInv'
<1>1. \A id \in Nat : Decided(id) => Decided(id)'
  BY DEF Decided
<1>2. \A id : Decided(id) => Decided(id)'
  BY DEF Decided
<1>3. PendingInv'
  BY <1>2 DEF PendingInv, Increasing
<1>4. EventsInOrder'
  BY DEF HeardInv, EventsInOrder
<1>5. HeardInv'
  BY <1>2, <1>4 DEF HeardInv
<1>6. \A id : Held(id)' <=> Held(id)
  BY DEF Held
<1>7. ReservedInv'
  BY <1>6 DEF ReservedInv
<1> QED BY <1>3, <1>5, <1>7

\* The model steps, the cache follows, missions are loaded.
LEMMA CoreVisual ==
  ASSUME VisualInv, CoreSteps \/ StateArrives \/ Forward \/ \E m \in Missions : Load(m)
  PROVE  VisualInv' /\ UNCHANGED <<events, session, peer, publisher>> /\ queues'.events = queues.events
<1>0. /\ VisualShapes /\ PublisherInv /\ PendingInv /\ HeardInv /\ ReservedInv
      /\ UNCHANGED <<events, session, peer, publisher, connected>>
      /\ core \in [life : Lives, step : Nat] /\ cache \in [life : Lives, step : Nat]
  BY DEF VisualInv, VisualShapes, CoreSteps, StateArrives, Forward, Load
<1>1. QueuesShape(queues') /\ queues'.events = queues.events /\ queues'.reserved = queues.reserved
  <2>1. QueuesShape(queues)
    BY <1>0 DEF VisualShapes
  <2>2. \/ UNCHANGED queues
        \/ queues' = [queues EXCEPT !.current = ws.mission, !.missions = Append(queues.missions, ws.mission)]
    BY DEF CoreSteps, StateArrives, Forward, Load
  <2> QED BY <2>1, <2>2 DEF QueuesShape
<1>2. /\ ws' \in [pc : {"idle", "request", "resolve", "forward"}, loads : {ws'.loads}, mission : {ws'.mission}]
      /\ ws'.pc = ws.pc \/ ws'.pc \notin {"request", "resolve"}
  <2>1. ws \in [pc : {"idle", "request", "resolve", "forward"}, loads : {ws.loads}, mission : {ws.mission}]
    BY <1>0 DEF VisualShapes
  <2>2. \/ UNCHANGED ws
        \/ ws' = [ws EXCEPT !.pc = "idle", !.mission = None]
        \/ \E m \in Missions : ws' = [pc |-> "forward", loads |-> ws.loads + 1, mission |-> m]
    BY DEF CoreSteps, StateArrives, Forward, Load
  <2>3. CASE \E m \in Missions : ws' = [pc |-> "forward", loads |-> ws.loads + 1, mission |-> m]
    BY <2>3
  <2>4. CASE UNCHANGED ws \/ ws' = [ws EXCEPT !.pc = "idle", !.mission = None]
    BY <2>1, <2>4
  <2> QED BY <2>2, <2>3, <2>4
<1>3. /\ core' \in [life : Lives, step : Nat] /\ cache' \in [life : Lives, step : Nat]
      /\ cache'.step >= cache.step
  <2>1. CASE CoreSteps
    <3>1. PICK life \in {"RUNNING", "ENDED"} : core' = [life |-> life, step |-> core.step + 1]
      BY <2>1 DEF CoreSteps
    <3>2. UNCHANGED cache
      BY <2>1 DEF CoreSteps
    <3> QED BY <1>0, <3>1, <3>2 DEF Lives
  <2>2. CASE StateArrives
    BY <1>0, <2>2 DEF StateArrives, CacheUpdate
  <2>3. CASE Forward \/ \E m \in Missions : Load(m)
    BY <1>0, <2>3 DEF Forward, Load
  <2> QED BY <2>1, <2>2, <2>3
<1>4. VisualShapes'
  BY <1>0, <1>1, <1>2, <1>3 DEF VisualShapes
<1>5. PublisherInv'
  <2>1. peer.step \in Nat /\ publisher.step \in Nat /\ cache.step \in Nat /\ cache'.step \in Nat
    BY <1>0, <1>3, VisualFacts
  <2>2. /\ peer.step <= cache.step => peer.step <= cache'.step
        /\ publisher.step <= cache.step => publisher.step <= cache'.step
    BY <1>3, <2>1
  <2> QED BY <1>0, <2>2 DEF PublisherInv
<1>6. PendingInv' /\ HeardInv' /\ ReservedInv'
  <2>1. /\ session.pc \notin {"drain", "event"} => session.events = <<>>
        /\ session.pc = "event" => session.events # <<>>
        /\ session.ended => session.pc \in {"closing", "done"}
    BY <1>0 DEF PendingInv, ReservedInv
  <2>2. OnConnection' => OnConnection
    BY <1>0 DEF OnConnection
  <2> QED BY <1>0, <1>1, <1>2, <2>1, <2>2, EventsKept
<1> QED BY <1>0, <1>1, <1>4, <1>5, <1>6 DEF VisualInv

\* Steps of the bridge thread that leave the events alone.
LEMMA WaitsVisual ==
  ASSUME VisualInv, AwaitMission \/ AwaitEnds \/ LoopEnds \/ BuildEvent
  PROVE  VisualInv' /\ session'.events = session.events /\ UNCHANGED <<events, queues, peer>>
         /\ session'.ended = session.ended
<1>0. /\ VisualShapes /\ PublisherInv /\ PendingInv /\ HeardInv /\ ReservedInv
      /\ UNCHANGED <<core, cache, ws, events, queues, connected, publisher, peer>> /\ SessionShape(session)
  BY DEF VisualInv, VisualShapes, AwaitMission, AwaitEnds, LoopEnds, BuildEvent
<1>1. /\ SessionShape(session') /\ session'.events = session.events /\ session'.connects = session.connects
      /\ session'.ended = session.ended
      /\ session'.pc \in {"plan", "closing", "event"}
      /\ (session'.pc = "event" => session.pc = "drain" /\ session.events # <<>>)
      /\ (session'.pc = "plan" => session.pc = "wait")
      /\ session.pc \in {"wait", "loop", "drain"}
      /\ (session'.pc # "event" => session.pc \in {"wait", "loop"})
  <2>1. CASE AwaitMission
    <3>1. session' = [session EXCEPT !.pc = "plan", !.mission = queues.current, !.before = cache.step]
          /\ session.pc = "wait"
      BY <2>1 DEF AwaitMission
    <3> QED BY <1>0, <3>1 DEF SessionShape, Sessions
  <2>2. CASE AwaitEnds \/ LoopEnds
    <3>1. session' = [session EXCEPT !.pc = "closing"] /\ session.pc \in {"wait", "loop"}
      BY <2>2 DEF AwaitEnds, LoopEnds
    <3> QED BY <1>0, <3>1 DEF SessionShape, Sessions
  <2>3. CASE BuildEvent
    <3>1. session' = [session EXCEPT !.pc = "event"] /\ session.pc = "drain" /\ session.events # <<>>
      BY <2>3 DEF BuildEvent
    <3> QED BY <1>0, <3>1 DEF SessionShape, Sessions
  <2> QED BY <2>1, <2>2, <2>3
<1>2. VisualShapes'
  BY <1>0, <1>1 DEF VisualShapes
<1>3. PublisherInv'
  BY <1>0, <1>1 DEF PublisherInv
<1>4. PendingInv' /\ HeardInv' /\ ReservedInv'
  <2>1. /\ session'.pc \notin {"drain", "event"} => session.events = <<>>
        /\ session'.pc = "event" => session.events # <<>>
    BY <1>0, <1>1 DEF PendingInv
  <2>2. session'.ended => session'.pc \in {"closing", "done"}
    BY <1>0, <1>1 DEF ReservedInv
  <2>3. OnConnection' => OnConnection
    BY <1>1 DEF OnConnection
  <2> QED BY <1>0, <1>1, <2>1, <2>2, <2>3, EventsKept
<1> QED BY <1>0, <1>1, <1>2, <1>3, <1>4 DEF VisualInv

\* The first plan; the publisher begins when it is acknowledged.
LEMMA FirstPlanVisual ==
  ASSUME VisualInv, FirstPlan
  PROVE  VisualInv' /\ session'.events = session.events /\ queues'.events = queues.events
         /\ peer'.events = peer.events /\ peer'.step = peer.step /\ UNCHANGED events
<1>0. /\ VisualShapes /\ PublisherInv /\ PendingInv /\ HeardInv /\ ReservedInv
      /\ UNCHANGED <<core, cache, ws, events, connected>> /\ session.pc = "plan"
      /\ SessionShape(session) /\ QueuesShape(queues) /\ PublisherShape(publisher) /\ PeerShape(peer)
  BY DEF VisualInv, VisualShapes, FirstPlan
<1>1. PeerShape(Planned(session.mission)) /\ Planned(session.mission).events = peer.events
      /\ Planned(session.mission).step = peer.step /\ Planned(session.mission).plan = session.mission
  BY <1>0 DEF Planned, PeerShape
<1>2. PublisherShape(Publishing(session.mission)) /\ Publishing(session.mission).pc = "run"
      /\ Publishing(session.mission).mission = session.mission
  BY <1>0 DEF Publishing, PublisherShape
<1>3. ASSUME NEW pc \in {"loop", "closing"}, session' = [session EXCEPT !.pc = pc]
      PROVE  /\ SessionShape(session') /\ session'.events = session.events /\ session'.connects = session.connects
             /\ session'.ended = session.ended /\ session'.pc = pc
  BY <1>0, <1>3 DEF SessionShape, Sessions
<1>4. publisher.pc = "off"
  BY <1>0 DEF PublisherInv
<1>5. /\ session' = [session EXCEPT !.pc = "loop"] \/ session' = [session EXCEPT !.pc = "closing"]
      /\ PeerShape(peer') /\ peer'.events = peer.events /\ peer'.step = peer.step
      /\ PublisherShape(publisher')
      /\ \/ publisher' = publisher
         \/ publisher'.pc = "run" /\ publisher'.mission = peer'.plan /\ session'.pc = "loop"
  <2>1. CASE /\ peer' = Planned(session.mission) /\ publisher' = Publishing(session.mission)
             /\ session' = [session EXCEPT !.pc = "loop"]
    BY <1>1, <1>2, <1>3, <2>1
  <2>2. CASE /\ \E got \in BOOLEAN : peer' = IF got THEN Planned(session.mission) ELSE peer
             /\ session' = [session EXCEPT !.pc = "closing"] /\ UNCHANGED publisher
    BY <1>0, <1>1, <2>2
  <2> QED BY <2>1, <2>2 DEF FirstPlan
<1>6. /\ SessionShape(session') /\ session'.events = session.events /\ session'.connects = session.connects
      /\ session'.ended = session.ended /\ session'.pc \in {"loop", "closing"}
  BY <1>3, <1>5
<1>7. QueuesShape(queues') /\ queues'.events = queues.events /\ queues'.reserved = queues.reserved
  <2> DEFINE left == Without(queues.missions, session.mission)
  <2>1. UNCHANGED queues \/ queues' = [queues EXCEPT !.missions = left]
    BY DEF FirstPlan
  <2> HIDE DEF left
  <2> QED BY <1>0, <2>1 DEF QueuesShape
<1>8. VisualShapes'
  BY <1>0, <1>5, <1>6, <1>7 DEF VisualShapes
<1>9. PublisherInv'
  BY <1>0, <1>4, <1>5, <1>6 DEF PublisherInv
<1>10. PendingInv' /\ HeardInv' /\ ReservedInv'
  <2>1. session.events = <<>> /\ (session'.ended => session'.pc \in {"closing", "done"})
    BY <1>0, <1>6 DEF PendingInv, ReservedInv
  <2>2. OnConnection' => OnConnection
    BY <1>0 DEF OnConnection
  <2> QED BY <1>0, <1>5, <1>6, <1>7, <2>1, <2>2, EventsKept
<1> QED BY <1>0, <1>5, <1>6, <1>7, <1>8, <1>9, <1>10 DEF VisualInv

\* The iteration ends, with the mission or without, and a session is over.
LEMMA EndsVisual ==
  ASSUME VisualInv, CheckEnded \/ Close
  PROVE  VisualInv' /\ session'.events = session.events /\ queues'.events = queues.events
         /\ UNCHANGED <<events, peer>>
<1>0. /\ VisualShapes /\ PublisherInv /\ PendingInv /\ HeardInv /\ ReservedInv
      /\ UNCHANGED <<core, cache, ws, events, publisher, peer>>
      /\ SessionShape(session) /\ QueuesShape(queues) /\ connected \in BOOLEAN /\ connected' \in BOOLEAN
  BY DEF VisualInv, VisualShapes, CheckEnded, Close
<1>1. QueuesShape(queues') /\ queues'.events = queues.events /\ queues'.reserved = queues.reserved
  <2>1. UNCHANGED queues \/ queues' = [queues EXCEPT !.current = None]
    BY DEF CheckEnded, Close, Finished
  <2> QED BY <1>0, <2>1 DEF QueuesShape
<1>2. /\ SessionShape(session') /\ session'.events = session.events /\ session'.connects = session.connects
      /\ session.events = <<>>
      /\ session'.pc \in {"loop", "closing", "done", "idle"}
      /\ session'.pc = "loop" => session.pc = "drain"
      /\ session'.pc \in {"done", "idle"} => publisher.pc = "off"
      /\ session'.ended => session'.pc \in {"closing", "done"}
  <2>1. CASE CheckEnded
    <3>1. /\ \/ session' = [session EXCEPT !.pc = "closing", !.ended = TRUE]
             \/ session' = [session EXCEPT !.pc = "loop"]
          /\ session.pc = "drain" /\ session.events = <<>> /\ ~session.ended
      BY <1>0, <2>1 DEF CheckEnded, ReservedInv
    <3> QED BY <1>0, <3>1 DEF SessionShape, Sessions
  <2>2. CASE Close
    <3> DEFINE pc == IF session.ended THEN "done" ELSE "idle"
    <3>1. session' = [session EXCEPT !.pc = pc, !.mission = None, !.before = 0]
          /\ session.pc = "closing" /\ publisher.pc = "off"
      BY <2>2 DEF Close
    <3>2. pc \in {"done", "idle"} /\ (session.ended => pc = "done")
      OBVIOUS
    <3>3. session.events = <<>>
      BY <1>0, <3>1 DEF PendingInv
    <3> HIDE DEF pc
    <3> QED BY <1>0, <3>1, <3>2, <3>3 DEF SessionShape, Sessions
  <2> QED BY <2>1, <2>2
<1>3. VisualShapes'
  BY <1>0, <1>1, <1>2 DEF VisualShapes
<1>4. PublisherInv'
  BY <1>0, <1>2 DEF PublisherInv
<1>5. PendingInv' /\ HeardInv' /\ ReservedInv'
  <2>1. OnConnection' => OnConnection
    BY <1>2 DEF OnConnection
  <2> QED BY <1>0, <1>1, <1>2, <2>1, EventsKept
<1> QED BY <1>0, <1>1, <1>2, <1>3, <1>4, <1>5 DEF VisualInv

\* The publisher builds a state, sends it, or ends.
LEMMA PublisherVisual ==
  ASSUME VisualInv, BuildState \/ SendState \/ SendStateFails \/ PublisherExits
  PROVE  VisualInv' /\ UNCHANGED <<events, session, queues>> /\ peer'.events = peer.events
         /\ peer'.step >= peer.step
<1>0. /\ VisualShapes /\ PublisherInv /\ PendingInv /\ HeardInv /\ ReservedInv
      /\ UNCHANGED <<core, cache, ws, events, queues, session>> /\ PublisherShape(publisher) /\ PeerShape(peer)
      /\ connected' \in BOOLEAN
  BY DEF VisualInv, VisualShapes, BuildState, SendState, SendStateFails, PublisherExits
<1>1. peer.step \in Nat /\ publisher.step \in Nat /\ cache.step \in Nat /\ peer.step <= cache.step
      /\ (publisher.pc = "built" => peer.step <= publisher.step /\ publisher.step <= cache.step)
      /\ (publisher.pc \in {"run", "built"} => peer.plan = publisher.mission)
      /\ (session.pc \in {"idle", "wait", "plan", "done"} => publisher.pc = "off")
  BY <1>0, VisualFacts DEF PublisherInv
<1>2. /\ PublisherShape(publisher') /\ PeerShape(peer') /\ peer'.events = peer.events /\ peer'.plan = peer.plan
      /\ peer'.step >= peer.step /\ peer'.step <= cache.step
      /\ publisher.pc # "off"
      /\ publisher'.pc # "off" => publisher'.mission = publisher.mission
      /\ publisher'.pc = "built" => peer'.step <= publisher'.step /\ publisher'.step <= cache.step
  <2>1. CASE BuildState
    <3>1. publisher' = [publisher EXCEPT !.pc = "built", !.step = cache.step] /\ UNCHANGED peer /\ publisher.pc = "run"
      BY <2>1 DEF BuildState
    <3>2. cache.step <= cache.step /\ peer.step >= peer.step
      BY <1>1
    <3>3. PublisherShape(publisher') /\ publisher'.step = cache.step /\ publisher'.mission = publisher.mission
      BY <1>0, <1>1, <3>1 DEF PublisherShape
    <3> QED BY <1>0, <1>1, <3>1, <3>2, <3>3
  <2>2. CASE SendState
    <3>1. /\ peer' = [peer EXCEPT !.step = publisher.step] /\ publisher.pc = "built"
          /\ publisher' = [publisher EXCEPT !.pc = "run", !.step = 0]
      BY <2>2 DEF SendState
    <3>2. PublisherShape(publisher') /\ publisher'.pc = "run" /\ publisher'.mission = publisher.mission
      BY <1>0, <3>1 DEF PublisherShape
    <3>3. PeerShape(peer') /\ peer'.step = publisher.step /\ peer'.plan = peer.plan /\ peer'.events = peer.events
      BY <1>0, <1>1, <3>1 DEF PeerShape
    <3>4. publisher.step >= peer.step
      BY <1>1, <3>1
    <3> QED BY <1>1, <3>1, <3>2, <3>3, <3>4
  <2>3. CASE SendStateFails \/ PublisherExits
    <3>1. /\ UNCHANGED peer /\ publisher.pc # "off"
          /\ \/ publisher' = [publisher EXCEPT !.pc = "off", !.step = 0, !.mission = None]
             \/ publisher' = [publisher EXCEPT !.pc = "off", !.mission = None]
      BY <2>3 DEF SendStateFails, PublisherExits
    <3>2. PublisherShape(publisher') /\ publisher'.pc = "off"
      <4>1. CASE publisher' = [publisher EXCEPT !.pc = "off", !.step = 0, !.mission = None]
        BY <1>0, <4>1 DEF PublisherShape
      <4>2. CASE publisher' = [publisher EXCEPT !.pc = "off", !.mission = None]
        BY <1>0, <4>2 DEF PublisherShape
      <4> QED BY <3>1, <4>1, <4>2
    <3>3. peer.step >= peer.step
      BY <1>1
    <3> QED BY <1>0, <1>1, <3>1, <3>2, <3>3
  <2> QED BY <2>1, <2>2, <2>3
<1>3. VisualShapes'
  BY <1>0, <1>2 DEF VisualShapes
<1>4. PublisherInv'
  <2>1. publisher'.pc \in {"off", "run", "built"} /\ publisher.pc \in {"off", "run", "built"}
    BY <1>0, <1>2 DEF PublisherShape
  <2> QED BY <1>0, <1>1, <1>2, <2>1 DEF PublisherInv
<1>5. PendingInv' /\ HeardInv' /\ ReservedInv'
  <2>1. /\ session.pc \notin {"drain", "event"} => session.events = <<>>
        /\ session.pc = "event" => session.events # <<>>
        /\ session.ended => session.pc \in {"closing", "done"}
    BY <1>0 DEF PendingInv, ReservedInv
  <2>2. OnConnection' => OnConnection
    BY <1>0 DEF OnConnection
  <2> QED BY <1>0, <1>2, <2>1, <2>2, EventsKept
<1> QED BY <1>0, <1>2, <1>3, <1>4, <1>5 DEF VisualInv

\* A step on which the bridge loses no event, but for those at risk.
KeptStep ==
  \A id \in 1..Len(events) :
    Held(id) /\ ~(id \in ToSet(queues'.events) \cup ToSet(session'.events))
      => id \in ToSet(peer'.events) \/ AtRisk(id)

LEMMA SameEventsKept ==
  ASSUME session'.events = session.events, queues'.events = queues.events
  PROVE  KeptStep
BY DEF KeptStep, Held

\* A connection begins: no event was reserved on it.
LEMMA ConnectVisual ==
  ASSUME VisualInv, Connect
  PROVE  VisualInv' /\ session'.events = session.events /\ UNCHANGED <<events, queues>> /\ peer'.step = peer.step
<1>0. /\ VisualShapes /\ PublisherInv /\ PendingInv /\ HeardInv /\ ReservedInv
      /\ UNCHANGED <<core, cache, ws, events, queues, publisher>> /\ session.pc = "idle"
      /\ SessionShape(session) /\ PeerShape(peer) /\ connected' \in BOOLEAN
      /\ session.connects < MaxConnects
  BY DEF VisualInv, VisualShapes, Connect
<1>1. PeerShape(peer') /\ peer'.events = peer.events /\ peer'.step = peer.step
  <2>1. peer' = [peer EXCEPT !.plan = None]
    BY DEF Connect
  <2> QED BY <1>0, <2>1 DEF PeerShape
<1>2. PICK c \in 0..MaxConnects : c = session.connects + 1 /\ c # 0 /\ session.connects < c
                                  /\ \A n \in 0..MaxConnects : n <= session.connects => n <= c /\ n # c
  <2>1. session.connects \in 0..MaxConnects /\ MaxConnects \in Nat
    BY <1>0, VisualFacts, VisualBounds
  <2> QED BY <1>0, <2>1
<1>3. /\ SessionShape(session') /\ session'.events = session.events /\ session'.connects = c
      /\ session'.ended = session.ended /\ session'.pc \in {"wait", "idle"}
  <2>1. session' = [session EXCEPT !.pc = "wait", !.connects = c] \/ session' = [session EXCEPT !.connects = c]
    BY <1>2 DEF Connect
  <2>2. CASE session' = [session EXCEPT !.pc = "wait", !.connects = c]
    BY <1>0, <2>2 DEF SessionShape, Sessions
  <2>3. CASE session' = [session EXCEPT !.connects = c]
    BY <1>0, <2>3 DEF SessionShape, Sessions
  <2> QED BY <2>1, <2>2, <2>3
<1>4. session.events = <<>> /\ ~session.ended
  BY <1>0 DEF PendingInv, ReservedInv
<1>5. VisualShapes'
  BY <1>0, <1>1, <1>3 DEF VisualShapes
<1>6. PublisherInv'
  <2>1. publisher.pc = "off"
    BY <1>0 DEF PublisherInv
  <2> QED BY <1>0, <1>1, <2>1 DEF PublisherInv
<1>7. \A id : Decided(id) => Decided(id)'
  BY <1>0 DEF Decided
<1>8. PendingInv'
  BY <1>0, <1>3, <1>4, <1>7 DEF PendingInv, Increasing
<1>9. HeardInv'
  <2>1. EventsInOrder'
    BY <1>0, <1>1 DEF HeardInv, EventsInOrder
  <2> QED BY <1>0, <1>1, <1>3, <1>7, <2>1 DEF HeardInv
<1>10. ReservedInv'
  <2>1. \A id \in 1..Len(events) : events[id].reservedIn \in 0..MaxConnects
    BY <1>0, VisualFacts DEF EventRecords
  <2>2. \A id \in 1..Len(events) : events[id].reservedIn <= session.connects
    BY <1>0 DEF ReservedInv
  <2>3. \A id \in 1..Len(events) : events[id].reservedIn <= c /\ events[id].reservedIn # c
    BY <1>2, <2>1, <2>2
  <2> QED BY <1>0, <1>2, <1>3, <1>4, <2>3 DEF ReservedInv
<1> QED BY <1>0, <1>1, <1>3, <1>5, <1>6, <1>8, <1>9, <1>10 DEF VisualInv

\* An event is asked of the core, and reserved when the bridge is connected.
LEMMA AskVisual ==
  ASSUME VisualInv, NEW event \in EventNames, NEW mission \in Missions \cup {None}, Ask(event, mission)
  PROVE  VisualInv' /\ UNCHANGED <<session, peer, publisher>> /\ queues'.events = queues.events
<1> DEFINE n == Len(events)
           rec == [event |-> event, mission |-> mission, core |-> "asked",
                   reservedIn |-> IF connected THEN session.connects ELSE 0]
<1>0. /\ VisualShapes /\ PublisherInv /\ PendingInv /\ HeardInv /\ ReservedInv
      /\ UNCHANGED <<core, cache, connected, session, publisher, peer>> /\ ws.pc = "idle"
      /\ QueuesShape(queues) /\ connected \in BOOLEAN
      /\ ws \in [pc : {"idle", "request", "resolve", "forward"}, loads : {ws.loads}, mission : {ws.mission}]
      /\ events' = Append(events, rec) /\ ws' = [ws EXCEPT !.pc = "request"]
      /\ queues' = Reserve(n + 1)
  BY DEF VisualInv, VisualShapes, Ask, Newest
<1>1. n \in Nat /\ events \in Seq(EventRecords) /\ session.connects \in 0..MaxConnects /\ 0 \in 0..MaxConnects
      /\ 0 <= session.connects /\ session.connects <= session.connects
  BY <1>0, VisualFacts, VisualBounds
<1>2. rec \in EventRecords /\ rec.reservedIn <= session.connects /\ rec.core = "asked"
      /\ (rec.reservedIn # 0 => connected)
  <2> DEFINE in == IF connected THEN session.connects ELSE 0
  <2>1. in \in 0..MaxConnects /\ in <= session.connects /\ (in # 0 => connected)
    BY <1>0, <1>1
  <2> HIDE DEF in
  <2>2. [event |-> event, mission |-> mission, core |-> "asked", reservedIn |-> in] \in EventRecords
    BY <2>1 DEF EventRecords
  <2> QED BY <2>1, <2>2 DEF in
<1> HIDE DEF rec
<1>3. events' \in Seq(EventRecords) /\ Len(events') = n + 1 /\ events'[n + 1] = rec
      /\ \A id \in 1..n : events'[id] = events[id]
  BY <1>0, <1>1, <1>2, AppendProperties
<1> HIDE DEF n
<1>4. /\ QueuesShape(queues') /\ queues'.events = queues.events
      /\ queues'.reserved = IF connected THEN queues.reserved \cup {n + 1} ELSE queues.reserved
  <2>1. CASE connected
    <3>1. queues' = [queues EXCEPT !.reserved = queues.reserved \cup {n + 1}]
      BY <1>0, <2>1 DEF Reserve
    <3> QED BY <1>0, <2>1, <3>1 DEF QueuesShape
  <2>2. CASE ~connected
    BY <1>0, <2>2 DEF Reserve
  <2> QED BY <2>1, <2>2
<1>5. ws'.pc = "request" /\ ws' \in [pc : {"idle", "request", "resolve", "forward"}, loads : {ws'.loads}, mission : {ws'.mission}]
  BY <1>0
<1>6. VisualShapes'
  BY <1>0, <1>3, <1>4, <1>5 DEF VisualShapes
<1>7. PublisherInv'
  BY <1>0 DEF PublisherInv
<1>8. \A id : Decided(id) => Decided(id)'
  <2> SUFFICES ASSUME NEW id, Decided(id) PROVE Decided(id)'
    OBVIOUS
  <2>1. id \in 1..n /\ events[id].core = "applied"
    BY DEF Decided, n
  <2>2. id \in 1..(n + 1) /\ id # n + 1
    BY <1>1, <2>1
  <2> QED BY <1>3, <2>1, <2>2 DEF Decided
<1>9. PendingInv'
  BY <1>0, <1>4, <1>8 DEF PendingInv, Increasing
<1>10. HeardInv'
  <2>1. EventsInOrder'
    BY <1>0 DEF HeardInv, EventsInOrder
  <2> QED BY <1>0, <1>4, <1>8, <2>1 DEF HeardInv
<1>11. ReservedInv'
  <2>1. n + 1 # 0 /\ \A id \in 1..(n + 1) : id \in 1..n \/ id = n + 1
    BY <1>1
  <2>2. \A id \in 1..(n + 1) : events'[id].reservedIn <= session.connects
    BY <1>0, <1>2, <1>3, <2>1 DEF ReservedInv, n
  <2>3. rec.reservedIn # 0 => n + 1 \in queues'.reserved
    BY <1>2, <1>4
  <2>4. ASSUME NEW id \in 1..(n + 1), events'[id].reservedIn = session.connects, events'[id].core = "applied",
               OnConnection
        PROVE  id \in queues'.reserved \/ Held(id)' \/ id \in ToSet(peer'.events)
    <3>1. id \in 1..n /\ events[id].reservedIn = session.connects /\ events[id].core = "applied"
      BY <1>2, <1>3, <2>1, <2>4
    <3>2. id \in queues.reserved \/ Held(id) \/ id \in ToSet(peer.events)
      BY <1>0, <2>4, <3>1 DEF ReservedInv, n
    <3> QED BY <1>0, <1>4, <3>2 DEF Held
  <2>5. (OnConnection' <=> OnConnection) /\ (OnConnection => session.connects # 0)
    BY <1>0 DEF OnConnection, ReservedInv
  <2>6. session.ended => session.pc \in {"closing", "done"}
    BY <1>0 DEF ReservedInv
  <2> QED BY <1>0, <1>3, <2>1, <2>2, <2>3, <2>4, <2>5, <2>6 DEF ReservedInv
<1> QED BY <1>0, <1>4, <1>6, <1>7, <1>9, <1>10, <1>11 DEF VisualInv

\* The core answers: it applies the event, or refuses it, or the receipt is late.
LEMMA AnswersVisual ==
  ASSUME VisualInv, CoreAnswers
  PROVE  VisualInv' /\ UNCHANGED <<queues, session, peer, publisher>>
<1> DEFINE n == Len(events)
<1>0. /\ VisualShapes /\ PublisherInv /\ PendingInv /\ HeardInv /\ ReservedInv
      /\ UNCHANGED <<cache, connected, queues, session, publisher, peer>> /\ ws.pc = "request"
      /\ core \in [life : Lives, step : Nat]
      /\ ws \in [pc : {"idle", "request", "resolve", "forward"}, loads : {ws.loads}, mission : {ws.mission}]
      /\ ws' = [ws EXCEPT !.pc = "resolve"]
  BY DEF VisualInv, VisualShapes, CoreAnswers
<1>1. PICK told \in {"applied", "untold", "refused"} : events' = [events EXCEPT ![n].core = told]
  BY DEF CoreAnswers, Newest
<1>2. n \in 1..n /\ events \in Seq(EventRecords) /\ n \in Nat
  <2>1. n # 0 /\ n \in Nat /\ events \in Seq(EventRecords)
    BY <1>0, VisualFacts DEF ReservedInv
  <2> QED BY <2>1
<1>3. events[n] \in EventRecords
  BY <1>0, <1>2, VisualFacts
<1> DEFINE rec == [events[n] EXCEPT !.core = told]
<1>4. rec \in EventRecords /\ rec.reservedIn = events[n].reservedIn
  BY <1>3 DEF EventRecords
<1>5. events' = [events EXCEPT ![n] = rec]
  BY <1>1, <1>2
<1> HIDE DEF rec
<1>6. /\ events' \in Seq(EventRecords) /\ Len(events') = n /\ events'[n] = rec
      /\ \A id \in 1..n : id # n => events'[id] = events[id]
  BY <1>2, <1>4, <1>5, ExceptSeq
<1> HIDE DEF n
<1>7. core' \in [life : Lives, step : Nat]
  <2>1. \/ core' = core
        \/ \E life \in Lives : core' = [core EXCEPT !.life = life]
        \/ core' = [life |-> "CONFIGURED", step |-> 0]
    <3>1. core' = core \/ (Applies(events[n].event) /\ core' = Applied(events[n].event))
      BY DEF CoreAnswers, Newest, n
    <3>2. events[n].event \in {"pause", "resume", "reset", "mission_end"}
      BY <1>3, VisualBounds DEF EventRecords
    <3> QED BY <3>1, <3>2 DEF Applied, Lives
  <2>2. CASE core' = core
    BY <1>0, <2>2
  <2>3. CASE \E life \in Lives : core' = [core EXCEPT !.life = life]
    BY <1>0, <2>3
  <2>4. CASE core' = [life |-> "CONFIGURED", step |-> 0]
    BY <2>4 DEF Lives
  <2> QED BY <2>1, <2>2, <2>3, <2>4
<1>8. ws'.pc = "resolve" /\ ws' \in [pc : {"idle", "request", "resolve", "forward"}, loads : {ws'.loads}, mission : {ws'.mission}]
  BY <1>0
<1>9. VisualShapes'
  BY <1>0, <1>6, <1>7, <1>8 DEF VisualShapes
<1>10. PublisherInv'
  BY <1>0 DEF PublisherInv
<1>11. \A id : Decided(id) => Decided(id)'
  <2> SUFFICES ASSUME NEW id, Decided(id) PROVE Decided(id)'
    OBVIOUS
  <2>1. id \in 1..n /\ events[id].core = "applied" /\ id # n
    BY <1>0 DEF Decided, n
  <2> QED BY <1>6, <2>1 DEF Decided
<1>12. PendingInv'
  BY <1>0, <1>11 DEF PendingInv, Increasing
<1>13. HeardInv'
  <2>1. EventsInOrder'
    BY <1>0 DEF HeardInv, EventsInOrder
  <2> QED BY <1>0, <1>11, <2>1 DEF HeardInv
<1>14. ReservedInv'
  <2>1. n # 0 /\ (events[n].reservedIn # 0 => n \in queues.reserved)
    BY <1>0 DEF ReservedInv, n
  <2>2. \A id \in 1..n : events'[id].reservedIn = events[id].reservedIn
    BY <1>4, <1>6
  <2>3. \A id \in 1..n : events[id].reservedIn <= session.connects
    BY <1>0 DEF ReservedInv, n
  <2>4. ASSUME NEW id \in 1..n, events'[id].reservedIn = session.connects, events'[id].core = "applied",
               OnConnection
        PROVE  id \in queues.reserved \/ Held(id) \/ id \in ToSet(peer.events)
    <3>1. CASE id = n
      <4>1. session.connects # 0
        BY <1>0, <2>4 DEF ReservedInv
      <4> QED BY <2>1, <2>2, <2>4, <3>1, <4>1
    <3>2. CASE id # n
      <4>1. events[id].reservedIn = session.connects /\ events[id].core = "applied"
        BY <1>6, <2>4, <3>2
      <4> QED BY <1>0, <2>4, <4>1 DEF ReservedInv, n
    <3> QED BY <3>1, <3>2
  <2>5. (OnConnection' <=> OnConnection) /\ (OnConnection => session.connects # 0) /\ (\A id : Held(id)' <=> Held(id))
    BY <1>0 DEF OnConnection, ReservedInv, Held
  <2>6. session.ended => session.pc \in {"closing", "done"}
    BY <1>0 DEF ReservedInv
  <2> QED BY <1>0, <1>2, <1>6, <2>1, <2>2, <2>3, <2>4, <2>5, <2>6 DEF ReservedInv
<1> QED BY <1>0, <1>9, <1>10, <1>12, <1>13, <1>14 DEF VisualInv

\* A sequence in order, with something larger behind it.
LEMMA IncreasingAppend ==
  ASSUME NEW s \in Seq(Nat), NEW n \in Nat, Increasing(s), \A i \in 1..Len(s) : s[i] < n
  PROVE  Increasing(Append(s, n))
<1>1. /\ Append(s, n) \in Seq(Nat) /\ Len(Append(s, n)) = Len(s) + 1 /\ Append(s, n)[Len(s) + 1] = n
      /\ \A i \in 1..Len(s) : Append(s, n)[i] = s[i]
  BY AppendProperties
<1>2. SUFFICES ASSUME NEW i \in 1..(Len(s) + 1), NEW j \in 1..(Len(s) + 1), i < j
               PROVE  Append(s, n)[i] < Append(s, n)[j]
  BY <1>1 DEF Increasing
<1>3. Len(s) \in Nat
  BY LenProperties
<1>4. i \in 1..Len(s) /\ (j \in 1..Len(s) \/ j = Len(s) + 1)
  BY <1>2, <1>3
<1> QED BY <1>1, <1>2, <1>4 DEF Increasing

\* The reservation becomes a queued event behind all others, or is cancelled.
LEMMA ResolveVisual ==
  ASSUME VisualInv, Resolve
  PROVE  VisualInv' /\ KeptStep /\ UNCHANGED <<events, session, peer, publisher>>
<1> DEFINE n == Len(events)
<1>0. /\ VisualShapes /\ PublisherInv /\ PendingInv /\ HeardInv /\ ReservedInv
      /\ UNCHANGED <<core, cache, events, connected, session, publisher, peer>> /\ ws.pc = "resolve"
      /\ QueuesShape(queues)
      /\ ws \in [pc : {"idle", "request", "resolve", "forward"}, loads : {ws.loads}, mission : {ws.mission}]
      /\ ws' = [ws EXCEPT !.pc = "idle"]
  BY DEF VisualInv, VisualShapes, Resolve
<1>1. ws'.pc = "idle" /\ ws' \in [pc : {"idle", "request", "resolve", "forward"}, loads : {ws'.loads}, mission : {ws'.mission}]
  BY <1>0
<1>2. n \in Nat /\ n # 0 /\ n \in 1..n /\ queues.events \in Seq(Nat) /\ Len(queues.events) \in Nat
  <2>1. n # 0 /\ n \in Nat /\ queues.events \in Seq(Nat) /\ Len(queues.events) \in Nat
    BY <1>0, VisualFacts DEF ReservedInv
  <2> QED BY <2>1
<1>3. /\ QueuesShape(queues')
      /\ \A id : id \in queues.reserved /\ id # n => id \in queues'.reserved
      /\ \/ queues'.events = queues.events
         \/ queues'.events = Append(queues.events, n) /\ events[n].core = "applied"
      /\ events[n].core = "applied" /\ n \in queues.reserved => queues'.events = Append(queues.events, n)
  <2> DEFINE evs == IF events[n].core = "applied" THEN Append(queues.events, n) ELSE queues.events
             res == queues.reserved \ {n}
  <2>1. evs \in Seq(Nat)
    BY <1>2, AppendProperties
  <2>2. (UNCHANGED queues /\ n \notin queues.reserved) \/ queues' = [queues EXCEPT !.reserved = res, !.events = evs]
    BY DEF Resolve, Resolved, Newest
  <2>3. /\ (evs = queues.events) \/ (evs = Append(queues.events, n) /\ events[n].core = "applied")
        /\ events[n].core = "applied" => evs = Append(queues.events, n)
        /\ \A id : id \in queues.reserved /\ id # n => id \in res
    OBVIOUS
  <2> HIDE DEF evs, res
  <2>4. CASE UNCHANGED queues /\ n \notin queues.reserved
    BY <1>0, <2>4
  <2>5. CASE queues' = [queues EXCEPT !.reserved = res, !.events = evs]
    <3>1. QueuesShape(queues') /\ queues'.reserved = res /\ queues'.events = evs
      BY <1>0, <2>1, <2>5 DEF QueuesShape
    <3> QED BY <2>3, <3>1
  <2> QED BY <2>2, <2>4, <2>5
<1>n. n' = n
  BY <1>0 DEF n
<1> HIDE DEF n
<1>4. VisualShapes'
  BY <1>0, <1>1, <1>3 DEF VisualShapes
<1>5. PublisherInv'
  BY <1>0 DEF PublisherInv
<1>6. /\ \A id : Decided(id) => Decided(id)'
      /\ \A id : Decided(id) => id \in Nat /\ id < n /\ id <= n
      /\ events[n].core = "applied" => Decided(n)'
  <2>1. \A id \in 1..n : id # n => id \in Nat /\ id < n /\ id <= n
    BY <1>2
  <2> QED BY <1>0, <1>1, <1>2, <2>1 DEF Decided, n
<1>7. /\ Len(Append(queues.events, n)) = Len(queues.events) + 1
      /\ Append(queues.events, n)[Len(queues.events) + 1] = n
      /\ \A i \in 1..Len(queues.events) : Append(queues.events, n)[i] = queues.events[i]
      /\ \A i \in 1..(Len(queues.events) + 1) : i \in 1..Len(queues.events) \/ i = Len(queues.events) + 1
      /\ Len(queues.events) + 1 \in 1..(Len(queues.events) + 1)
      /\ \A i \in 1..Len(queues.events) : i \in 1..(Len(queues.events) + 1)
  BY <1>2, AppendProperties
<1>8. CASE queues'.events = queues.events
  <2>1. PendingInv' /\ HeardInv'
    <3>1. PendingInv'
      BY <1>0, <1>6, <1>8 DEF PendingInv, Increasing
    <3>2. EventsInOrder'
      BY <1>0 DEF HeardInv, EventsInOrder
    <3> QED BY <1>0, <1>6, <1>8, <3>1, <3>2 DEF HeardInv
  <2>2. \A id : Held(id) <=> Held(id)'
    BY <1>0, <1>8 DEF Held
  <2>3. ReservedInv'
    <3>1. ASSUME NEW id \in 1..n, events[id].reservedIn = session.connects, events[id].core = "applied",
                 OnConnection
          PROVE  id \in queues'.reserved \/ Held(id)' \/ id \in ToSet(peer'.events)
      <4>1. id \in queues.reserved \/ Held(id) \/ id \in ToSet(peer.events)
        BY <1>0, <3>1 DEF ReservedInv, n
      <4>2. CASE id # n
        BY <1>0, <1>3, <2>2, <4>1, <4>2
      <4>3. CASE id = n
        <5>1. Len(Append(queues.events, n)) # Len(queues.events)
          BY <1>2, <1>7
        <5>2. n \notin queues.reserved
          BY <1>3, <1>8, <3>1, <4>3, <5>1
        <5> QED BY <1>0, <2>2, <4>1, <4>3, <5>2
      <4> QED BY <4>2, <4>3
    <3>2. (OnConnection' <=> OnConnection)
      BY <1>0 DEF OnConnection
    <3> QED BY <1>0, <1>1, <3>1, <3>2 DEF ReservedInv, n
  <2>3a. KeptStep
    BY <1>0, <1>8, SameEventsKept
  <2> QED BY <1>0, <1>4, <1>5, <2>1, <2>3, <2>3a DEF VisualInv
<1>9. CASE queues'.events = Append(queues.events, n) /\ events[n].core = "applied"
  <2>1. PendingInv'
    <3>1. \A i \in 1..Len(queues.events) : queues.events[i] < n
      BY <1>0, <1>6 DEF PendingInv
    <3>2. Increasing(queues'.events)
      BY <1>0, <1>2, <1>9, <3>1, IncreasingAppend DEF PendingInv
    <3>3. \A i \in 1..Len(session.events) : session.events[i] < n
      BY <1>0, <1>6 DEF PendingInv
    <3>4. \A i \in 1..Len(session.events), j \in 1..Len(queues'.events) : session.events[i] < queues'.events[j]
      BY <1>0, <1>7, <1>9, <3>3 DEF PendingInv
    <3>5. \A i \in 1..Len(queues'.events) : Decided(queues.events[i])'
      <4> SUFFICES ASSUME NEW i \in 1..Len(queues'.events) PROVE Decided(queues.events[i])'
        OBVIOUS
      <4>1. CASE i \in 1..Len(queues.events)
        <5>1. Decided(queues.events[i])
          BY <1>0, <4>1 DEF PendingInv
        <5>2. queues'.events[i] = queues.events[i]
          BY <1>7, <1>9, <4>1
        <5> QED BY <1>0, <1>1, <5>1, <5>2 DEF Decided
      <4>2. CASE i = Len(queues.events) + 1
        <5>1. queues'.events[i] = n /\ Decided(n)'
          BY <1>6, <1>7, <1>9, <4>2
        <5> QED BY <5>1, <1>n DEF Decided
      <4> QED BY <1>7, <1>9, <4>1, <4>2
    <3>6. \A i \in 1..Len(session.events) : Decided(session.events[i])'
      BY <1>0, <1>6 DEF PendingInv
    <3>7. /\ session.pc \notin {"drain", "event"} => session.events = <<>>
          /\ session.pc = "event" => session.events # <<>>
          /\ Increasing(session.events)
      BY <1>0 DEF PendingInv
    <3>8. Increasing(session.events)' /\ Increasing(queues.events)'
      BY <1>0, <3>2, <3>7 DEF Increasing
    <3> QED BY <1>0, <3>4, <3>5, <3>6, <3>7, <3>8 DEF PendingInv
  <2>2. HeardInv'
    <3>1. EventsInOrder'
      BY <1>0 DEF HeardInv, EventsInOrder
    <3>2. \A k \in 1..Len(peer.events) : peer.events[k] <= n
      BY <1>0, <1>6 DEF HeardInv
    <3>3. \A i \in 1..Len(queues'.events), k \in 1..Len(peer.events) : peer.events[k] <= queues'.events[i]
      BY <1>0, <1>7, <1>9, <3>2 DEF HeardInv
    <3> QED BY <1>0, <1>6, <3>1, <3>3 DEF HeardInv
  <2>3. (\A id : Held(id) => Held(id)') /\ Held(n)'
    <3>1. \A id : id \in ToSet(queues.events) => id \in ToSet(queues'.events)
      <4>1. DOMAIN queues.events = 1..Len(queues.events) /\ DOMAIN Append(queues.events, n) = 1..(Len(queues.events) + 1)
        BY <1>2, AppendProperties, LenProperties
      <4> QED BY <1>7, <1>9, <4>1 DEF ToSet
    <3>2. n \in ToSet(queues'.events)
      <4>1. DOMAIN Append(queues.events, n) = 1..(Len(queues.events) + 1)
        BY <1>2, AppendProperties, LenProperties
      <4> QED BY <1>7, <1>9, <4>1 DEF ToSet
    <3>3. session' = session
      BY <1>0
    <3>4. ASSUME NEW id, Held(id) PROVE Held(id)'
      BY <3>1, <3>3, <3>4 DEF Held
    <3>5. Held(n)'
      BY <3>2, <1>n DEF Held
    <3> QED BY <3>4, <3>5
  <2>4. ReservedInv'
    <3>1. ASSUME NEW id \in 1..n, events[id].reservedIn = session.connects, events[id].core = "applied",
                 OnConnection
          PROVE  id \in queues'.reserved \/ Held(id)' \/ id \in ToSet(peer'.events)
      <4>1. id \in queues.reserved \/ Held(id) \/ id \in ToSet(peer.events)
        BY <1>0, <3>1 DEF ReservedInv, n
      <4>2. CASE id \in queues.reserved
        BY <1>3, <2>3, <4>2, <1>n
      <4>3. CASE Held(id)
        BY <2>3, <4>3
      <4>4. CASE id \in ToSet(peer.events)
        BY <1>0, <4>4
      <4> QED BY <4>1, <4>2, <4>3, <4>4
    <3>2. (OnConnection' <=> OnConnection)
      BY <1>0 DEF OnConnection
    <3> QED BY <1>0, <1>1, <3>1, <3>2 DEF ReservedInv, n
  <2>5. KeptStep
    BY <2>3 DEF KeptStep, Held
  <2> QED BY <1>0, <1>4, <1>5, <2>1, <2>2, <2>4, <2>5 DEF VisualInv
<1> QED BY <1>3, <1>8, <1>9

\* Both queues are drained at once.
LEMMA DrainVisual ==
  ASSUME VisualInv, Drain
  PROVE  VisualInv' /\ KeptStep /\ UNCHANGED <<events, peer, publisher>> /\ session'.ended = session.ended
<1>0. /\ VisualShapes /\ PublisherInv /\ PendingInv /\ HeardInv /\ ReservedInv
      /\ UNCHANGED <<core, cache, ws, events, connected, publisher, peer>> /\ session.pc = "loop"
      /\ QueuesShape(queues) /\ SessionShape(session) /\ queues.events \in Seq(Nat)
      /\ session' = [session EXCEPT !.pc = "drain", !.missions = queues.missions, !.events = queues.events]
      /\ queues' = [queues EXCEPT !.missions = <<>>, !.events = <<>>]
  <2>1. VisualShapes
    BY DEF VisualInv
  <2> QED BY <2>1, VisualFacts DEF VisualInv, VisualShapes, Drain
<1>1. SessionShape(session') /\ session'.pc = "drain" /\ session'.events = queues.events
      /\ session'.connects = session.connects /\ session'.ended = session.ended
  BY <1>0 DEF SessionShape, Sessions
<1>2. <<>> \in Seq(Nat) /\ Len(<<>>) = 0
  BY EmptySeq
<1>3. QueuesShape(queues') /\ queues'.events = <<>> /\ queues'.reserved = queues.reserved
  BY <1>0, <1>2 DEF QueuesShape
<1>4. VisualShapes'
  BY <1>0, <1>1, <1>3 DEF VisualShapes
<1>5. PublisherInv'
  BY <1>0, <1>1 DEF PublisherInv
<1>6. (\A id : Decided(id) => Decided(id)') /\ session.events = <<>>
  BY <1>0 DEF Decided, PendingInv
<1>7. Len(queues'.events) = 0 /\ 1..0 = {}
  BY <1>2, <1>3
<1>8. PendingInv'
  BY <1>0, <1>1, <1>3, <1>6, <1>7 DEF PendingInv, Increasing
<1>9. HeardInv'
  <2>1. EventsInOrder'
    BY <1>0 DEF HeardInv, EventsInOrder
  <2> QED BY <1>0, <1>1, <1>6, <1>7, <2>1 DEF HeardInv
<1>10. \A id : Held(id) => Held(id)'
  <2>1. ToSet(session'.events) = ToSet(queues.events) /\ ToSet(session.events) = {}
    BY <1>1, <1>6 DEF ToSet
  <2> QED BY <2>1 DEF Held
<1>11. ReservedInv'
  <2>1. OnConnection /\ ~session.ended
    BY <1>0 DEF OnConnection, ReservedInv
  <2> QED BY <1>0, <1>1, <1>3, <1>10, <2>1 DEF ReservedInv
<1>12. KeptStep
  BY <1>10 DEF KeptStep, Held
<1> QED BY <1>0, <1>1, <1>4, <1>5, <1>8, <1>9, <1>11, <1>12 DEF VisualInv

\* A later plan is acknowledged, or what was drained goes with the session.
LEMMA NextPlanVisual ==
  ASSUME VisualInv, NextPlan
  PROVE  VisualInv' /\ KeptStep /\ UNCHANGED <<events, queues>> /\ session'.ended = session.ended
         /\ peer'.step = peer.step
<1>0. /\ VisualShapes /\ PublisherInv /\ PendingInv /\ HeardInv /\ ReservedInv
      /\ UNCHANGED <<core, cache, ws, events, queues, connected>> /\ session.pc = "drain"
      /\ session.missions # <<>> /\ publisher.pc = "off" /\ ~session.ended
      /\ SessionShape(session) /\ PublisherShape(publisher) /\ PeerShape(peer)
  BY DEF VisualInv, VisualShapes, NextPlan, MayPlan, ReservedInv
<1> DEFINE mission == Head(session.missions)
<1>1. PeerShape(Planned(mission)) /\ Planned(mission).events = peer.events
      /\ Planned(mission).step = peer.step /\ Planned(mission).plan = mission
  BY <1>0 DEF Planned, PeerShape
<1>2. PublisherShape(Publishing(mission)) /\ Publishing(mission).pc = "run"
      /\ Publishing(mission).mission = mission
  BY <1>0 DEF Publishing, PublisherShape
<1>3. \A id : Decided(id) => Decided(id)'
  BY <1>0 DEF Decided
<1>4. CASE /\ peer' = Planned(mission) /\ publisher' = Publishing(mission)
           /\ session' = [session EXCEPT !.mission = mission, !.missions = Tail(session.missions)]
  <2> DEFINE rest == Tail(session.missions)
  <2> HIDE DEF rest, mission
  <2>1. /\ SessionShape(session') /\ session'.events = session.events /\ session'.connects = session.connects
        /\ session'.ended = session.ended /\ session'.pc = "drain"
    <3>1. session' = [session EXCEPT !.mission = mission, !.missions = rest]
      BY <1>4 DEF rest
    <3> QED BY <1>0, <3>1 DEF SessionShape
  <2>2. VisualShapes'
    BY <1>0, <1>1, <1>2, <1>4, <2>1 DEF VisualShapes
  <2>3. PublisherInv'
    BY <1>0, <1>1, <1>2, <1>4, <2>1 DEF PublisherInv
  <2>4. PendingInv' /\ HeardInv' /\ ReservedInv'
    <3>1. OnConnection' => OnConnection
      BY <1>0 DEF OnConnection
    <3> QED BY <1>0, <1>1, <1>4, <2>1, <3>1, EventsKept
  <2>5. KeptStep
    BY <1>0, <2>1, SameEventsKept
  <2> QED BY <1>0, <1>1, <1>4, <2>1, <2>2, <2>3, <2>4, <2>5 DEF VisualInv
<1>5. CASE /\ \E got \in BOOLEAN : peer' = IF got THEN Planned(mission) ELSE peer
           /\ session' = [session EXCEPT !.pc = "closing", !.missions = <<>>, !.events = <<>>]
           /\ UNCHANGED publisher
  <2>1. PeerShape(peer') /\ peer'.events = peer.events /\ peer'.step = peer.step
    BY <1>0, <1>1, <1>5
  <2>2. <<>> \in Seq(Nat) /\ Len(<<>>) = 0 /\ 1..0 = {}
    BY EmptySeq
  <2>3. /\ SessionShape(session') /\ session'.events = <<>> /\ session'.connects = session.connects
        /\ session'.ended = session.ended /\ session'.pc = "closing"
    BY <1>0, <1>5, <2>2 DEF SessionShape, Sessions
  <2>4. VisualShapes'
    BY <1>0, <1>5, <2>1, <2>3 DEF VisualShapes
  <2>5. PublisherInv'
    BY <1>0, <1>5, <2>1, <2>3 DEF PublisherInv
  <2>6. Len(session'.events) = 0
    BY <2>2, <2>3
  <2>7. PendingInv'
    BY <1>0, <1>3, <2>2, <2>3, <2>6 DEF PendingInv, Increasing
  <2>8. HeardInv'
    <3>1. EventsInOrder'
      BY <1>0, <2>1 DEF HeardInv, EventsInOrder
    <3> QED BY <1>0, <1>3, <2>1, <2>2, <2>6, <3>1 DEF HeardInv
  <2>9. ReservedInv'
    BY <1>0, <2>3 DEF ReservedInv, OnConnection
  <2>10. KeptStep
    BY <1>0 DEF KeptStep, Held, AtRisk
  <2> QED BY <1>0, <2>1, <2>3, <2>4, <2>5, <2>7, <2>8, <2>9, <2>10 DEF VisualInv
<1> QED BY <1>4, <1>5 DEF NextPlan

\* The server hears of the event at the head of those drained.
LEMMA HeadHeard ==
  ASSUME VisualShapes, PendingInv, HeardInv, session.events # <<>>, UNCHANGED events,
         peer'.events = Append(peer.events, Head(session.events))
  PROVE  /\ EventsInOrder' /\ Head(session.events) \in ToSet(peer'.events) /\ ToSet(peer.events) \subseteq ToSet(peer'.events)
         /\ Decided(Head(session.events)) /\ Head(session.events) \in Nat
         /\ \A k \in 1..Len(peer'.events) : Decided(peer'.events[k]) /\ peer'.events[k] \in Nat
                                            /\ peer'.events[k] <= Head(session.events)
<1>1. PICK n \in Nat : n = Len(peer.events)
  BY VisualFacts
<1>2. PICK h \in Nat : h = Head(session.events) /\ h = session.events[1] /\ 1 \in 1..Len(session.events)
  <2>1. session.events \in Seq(Nat) /\ Len(session.events) \in Nat /\ Len(session.events) # 0
        /\ \A i \in 1..Len(session.events) : session.events[i] \in Nat
    BY VisualFacts
  <2>2. 1 \in 1..Len(session.events)
    BY <2>1
  <2>3. Head(session.events) = session.events[1]
    BY <2>1, HeadTailProperties
  <2> QED BY <2>1, <2>2, <2>3
<1>3. /\ peer.events \in Seq(Nat) /\ peer'.events = Append(peer.events, h)
      /\ \A k \in 1..n : peer.events[k] \in Nat /\ peer.events[k] <= h /\ Decided(peer.events[k])
      /\ Decided(h)
  <2>1. peer.events \in Seq(Nat) /\ \A k \in 1..Len(peer.events) : peer.events[k] \in Nat
    BY VisualFacts
  <2>2. \A k \in 1..n : peer.events[k] <= session.events[1] /\ Decided(peer.events[k])
    BY <1>1, <1>2 DEF HeardInv
  <2>3. Decided(session.events[1])
    BY <1>2 DEF PendingInv
  <2> QED BY <1>1, <1>2, <2>1, <2>2, <2>3
<1>4. /\ Len(peer'.events) = n + 1 /\ peer'.events[n + 1] = h /\ \A k \in 1..n : peer'.events[k] = peer.events[k]
      /\ DOMAIN peer'.events = 1..(n + 1) /\ DOMAIN peer.events = 1..n
  <2>1. Len(Append(peer.events, h)) = n + 1 /\ Append(peer.events, h)[n + 1] = h
        /\ (\A k \in 1..n : Append(peer.events, h)[k] = peer.events[k]) /\ Append(peer.events, h) \in Seq(Nat)
    BY <1>1, <1>3, AppendProperties
  <2>2. DOMAIN Append(peer.events, h) = 1..(n + 1) /\ DOMAIN peer.events = 1..n
    BY <1>1, <1>3, <2>1, LenProperties
  <2> QED BY <1>3, <2>1, <2>2
<1>5. \A k \in 1..(n + 1) : k \in 1..n \/ k = n + 1
  OBVIOUS
<1>6. \A k \in 1..(n + 1) : Decided(peer'.events[k]) /\ peer'.events[k] \in Nat /\ peer'.events[k] <= h
  <2>1. h <= h
    OBVIOUS
  <2> QED BY <1>3, <1>4, <1>5, <2>1
<1>7. h \in ToSet(peer'.events) /\ ToSet(peer.events) \subseteq ToSet(peer'.events)
  <2>1. n + 1 \in 1..(n + 1) /\ \A k \in 1..n : k \in 1..(n + 1)
    OBVIOUS
  <2> QED BY <1>4, <2>1 DEF ToSet
<1>8. EventsInOrder'
  <2> SUFFICES ASSUME NEW i \in 1..(n + 1), NEW j \in 1..(n + 1), i < j,
                      \A k \in 1..(j - 1) : peer'.events[k] # peer'.events[j]
               PROVE  peer'.events[i] < peer'.events[j]
    BY <1>4 DEF EventsInOrder
  <2>1. i \in 1..n /\ i \in 1..(j - 1)
    OBVIOUS
  <2>2. CASE j = n + 1
    <3>1. peer'.events[i] # h /\ peer'.events[i] \in Nat /\ peer'.events[i] <= h /\ peer'.events[j] = h
      BY <1>4, <1>6, <2>1, <2>2
    <3>2. \A x, y \in Nat : x # y /\ x <= y => x < y
      OBVIOUS
    <3>3. peer'.events[i] < h
      BY <3>1, <3>2
    <3> QED BY <3>1, <3>3
  <2>3. CASE j \in 1..n
    <3>1. \A k \in 1..(j - 1) : k \in 1..n
      BY <2>3
    <3>2. \A k \in 1..(j - 1) : peer.events[k] # peer.events[j]
      BY <1>4, <2>3, <3>1
    <3>3. EventsInOrder
      BY DEF HeardInv
    <3>4. peer.events[i] < peer.events[j]
      BY <1>1, <2>1, <2>3, <3>2, <3>3 DEF EventsInOrder
    <3> QED BY <1>4, <2>1, <2>3, <3>4
  <2> QED BY <1>5, <2>2, <2>3
<1> QED BY <1>2, <1>3, <1>4, <1>6, <1>7, <1>8

\* What is behind the head of those drained.
LEMMA TailOfEvents ==
  ASSUME VisualShapes, PendingInv, session.events # <<>>
  PROVE  /\ Tail(session.events) \in Seq(Nat) /\ Len(session.events) \in Nat
         /\ Len(Tail(session.events)) = Len(session.events) - 1 /\ Len(session.events) # 0
         /\ \A i \in 1..(Len(session.events) - 1) :
              /\ i + 1 \in 1..Len(session.events) /\ Tail(session.events)[i] = session.events[i + 1]
              /\ Decided(session.events[i + 1]) /\ session.events[i + 1] \in Nat
              /\ Head(session.events) <= session.events[i + 1]
         /\ Increasing(Tail(session.events))
         /\ Head(session.events) = session.events[1] /\ 1 \in 1..Len(session.events)
         /\ \A id \in ToSet(session.events) : id = Head(session.events) \/ id \in ToSet(Tail(session.events))
<1> DEFINE s == session.events
<1>1. s \in Seq(Nat) /\ Len(s) \in Nat /\ Len(s) # 0 /\ (\A i \in 1..Len(s) : s[i] \in Nat) /\ DOMAIN s = 1..Len(s)
  BY VisualFacts
<1>2. /\ Tail(s) \in Seq(Nat) /\ Len(Tail(s)) = Len(s) - 1 /\ Head(s) = s[1]
      /\ \A i \in 1..Len(Tail(s)) : Tail(s)[i] = s[i + 1]
  BY <1>1, HeadTailProperties
<1>3. PICK n \in Nat : Len(s) = n + 1
  <2>1. Len(s) - 1 \in Nat /\ Len(s) = (Len(s) - 1) + 1
    BY <1>1
  <2> QED BY <2>1
<1>4. Len(Tail(s)) = n /\ Len(s) - 1 = n /\ 1 \in 1..(n + 1)
  BY <1>2, <1>3
<1>5. \A i \in 1..n : i + 1 \in 1..(n + 1) /\ 1 < i + 1 /\ i \in Nat
  OBVIOUS
<1>6. Increasing(s) /\ \A i \in 1..(n + 1) : Decided(s[i])
  BY <1>3 DEF PendingInv
<1> HIDE DEF s
<1>7. \A i \in 1..n : s[1] < s[i + 1]
  BY <1>3, <1>4, <1>5, <1>6 DEF Increasing
<1>8. \A i \in 1..n : s[1] <= s[i + 1]
  BY <1>1, <1>3, <1>4, <1>5, <1>7
<1>9. Increasing(Tail(s))
  <2> SUFFICES ASSUME NEW i \in 1..n, NEW j \in 1..n, i < j PROVE Tail(s)[i] < Tail(s)[j]
    BY <1>4 DEF Increasing
  <2>1. i + 1 < j + 1 /\ i + 1 \in 1..Len(s) /\ j + 1 \in 1..Len(s)
    BY <1>3, <1>5
  <2>2. s[i + 1] < s[j + 1]
    BY <1>6, <2>1 DEF Increasing
  <2> QED BY <1>2, <1>4, <2>2
<1>10. \A id \in ToSet(s) : id = Head(s) \/ id \in ToSet(Tail(s))
  <2> SUFFICES ASSUME NEW i \in 1..(n + 1) PROVE s[i] = Head(s) \/ s[i] \in ToSet(Tail(s))
    BY <1>1, <1>3 DEF ToSet
  <2>1. CASE i = 1
    BY <1>2, <2>1
  <2>2. CASE i # 1
    <3>1. PICK k \in 1..n : i = k + 1
      <4>1. i - 1 \in 1..n /\ i = (i - 1) + 1
        BY <2>2
      <4> QED BY <4>1
    <3>2. DOMAIN Tail(s) = 1..n
      BY <1>2, <1>4, LenProperties
    <3>3. Tail(s)[k] = s[i]
      BY <1>2, <1>4, <3>1
    <3> QED BY <3>2, <3>3 DEF ToSet
  <2> QED BY <2>1, <2>2
<1>11. \A i \in 1..n : /\ i + 1 \in 1..Len(s) /\ Tail(s)[i] = s[i + 1] /\ Decided(s[i + 1]) /\ s[i + 1] \in Nat
                       /\ Head(s) <= s[i + 1]
  BY <1>1, <1>2, <1>3, <1>4, <1>5, <1>6, <1>8
<1> QED BY <1>1, <1>2, <1>3, <1>4, <1>9, <1>10, <1>11 DEF s

\* The event is acknowledged; a mission_end drops those behind it.
LEMMA AckedVisual ==
  ASSUME VisualInv, EventAcked
  PROVE  VisualInv' /\ KeptStep /\ UNCHANGED events /\ session.pc = "event" /\ peer'.step = peer.step
<1> DEFINE h == Head(session.events)
           end == events[h].event = "mission_end"
<1>0. /\ VisualShapes /\ PublisherInv /\ PendingInv /\ HeardInv /\ ReservedInv
      /\ UNCHANGED <<core, cache, ws, events, connected, publisher>> /\ session.pc = "event"
      /\ SessionShape(session) /\ QueuesShape(queues) /\ PeerShape(peer)
      /\ peer' = [peer EXCEPT !.events = Append(peer.events, h)]
      /\ session' = IF end THEN [session EXCEPT !.pc = "closing", !.events = <<>>, !.ended = TRUE]
                    ELSE [session EXCEPT !.pc = "drain", !.events = Tail(session.events)]
  BY DEF VisualInv, VisualShapes, EventAcked
<1>1. session.events # <<>> /\ ~session.ended
  BY <1>0 DEF PendingInv, ReservedInv
<1>2. QueuesShape(queues') /\ queues'.events = queues.events /\ queues'.reserved = queues.reserved
  <2>1. UNCHANGED queues \/ queues' = [queues EXCEPT !.current = None]
    BY DEF EventAcked, Finished
  <2> QED BY <1>0, <2>1 DEF QueuesShape
<1>3. PeerShape(peer') /\ peer'.events = Append(peer.events, h) /\ peer'.step = peer.step /\ peer'.plan = peer.plan
  <2>1. session.events \in Seq(Nat) /\ peer.events \in Seq(Nat)
    BY <1>0, VisualFacts
  <2>2. h \in Nat
    BY <1>1, <2>1, HeadTailProperties
  <2>3. Append(peer.events, h) \in Seq(Nat)
    BY <2>1, <2>2, AppendProperties
  <2> QED BY <1>0, <2>3 DEF PeerShape
<1>4. /\ EventsInOrder' /\ h \in ToSet(peer'.events) /\ ToSet(peer.events) \subseteq ToSet(peer'.events)
      /\ Decided(h) /\ h \in Nat
      /\ \A k \in 1..Len(peer'.events) : Decided(peer'.events[k]) /\ peer'.events[k] \in Nat /\ peer'.events[k] <= h
  BY <1>0, <1>1, <1>3, HeadHeard
<1>5. PICK n \in Nat : n = Len(session.events) - 1 /\ Len(session.events) = n + 1
  <2>1. Len(session.events) \in Nat /\ Len(session.events) # 0
    BY <1>0, <1>1, TailOfEvents
  <2>2. Len(session.events) - 1 \in Nat /\ Len(session.events) = (Len(session.events) - 1) + 1
    BY <2>1
  <2> QED BY <2>2
<1>6. /\ Tail(session.events) \in Seq(Nat) /\ Len(Tail(session.events)) = n /\ Increasing(Tail(session.events))
      /\ \A i \in 1..n : /\ i + 1 \in 1..Len(session.events) /\ Tail(session.events)[i] = session.events[i + 1]
                         /\ Decided(session.events[i + 1]) /\ session.events[i + 1] \in Nat
                         /\ h <= session.events[i + 1]
      /\ h = session.events[1] /\ 1 \in 1..Len(session.events)
      /\ \A id \in ToSet(session.events) : id = h \/ id \in ToSet(Tail(session.events))
  BY <1>0, <1>1, <1>5, TailOfEvents
<1>7. \A id : Decided(id) => Decided(id)'
  BY <1>0 DEF Decided
<1>8. /\ \A j \in 1..Len(queues.events) : h < queues.events[j] /\ queues.events[j] \in Nat
      /\ \A j \in 1..Len(queues.events), k \in 1..Len(peer'.events) : peer'.events[k] <= queues.events[j]
      /\ \A j \in 1..Len(queues.events) : Decided(queues.events[j])
      /\ Increasing(queues.events)
  <2>1. \A j \in 1..Len(queues.events) : h < queues.events[j] /\ queues.events[j] \in Nat
    <3>1. \A j \in 1..Len(queues.events) : queues.events[j] \in Nat
      BY <1>0, VisualFacts
    <3>2. \A j \in 1..Len(queues.events) : session.events[1] < queues.events[j]
      BY <1>0, <1>6 DEF PendingInv
    <3> QED BY <1>6, <3>1, <3>2
  <2>2. \A x, y, z \in Nat : x <= y /\ y < z => x <= z
    OBVIOUS
  <2>3. \A j \in 1..Len(queues.events), k \in 1..Len(peer'.events) : peer'.events[k] <= queues.events[j]
    BY <1>4, <2>1, <2>2
  <2>4. Increasing(queues.events) /\ \A j \in 1..Len(queues.events) : Decided(queues.events[j])
    BY <1>0 DEF PendingInv
  <2> QED BY <2>1, <2>3, <2>4
<1> HIDE DEF h
<1>9. CASE end
  <2>1. <<>> \in Seq(Nat) /\ Len(<<>>) = 0 /\ 1..0 = {}
    BY EmptySeq
  <2>2. /\ SessionShape(session') /\ session'.events = <<>> /\ session'.connects = session.connects
        /\ session'.pc = "closing"
    BY <1>0, <1>9, <2>1 DEF SessionShape, Sessions
  <2>3. VisualShapes'
    BY <1>0, <1>2, <1>3, <2>2 DEF VisualShapes
  <2>4. PublisherInv'
    BY <1>0, <1>3, <2>2 DEF PublisherInv
  <2>5. Len(session'.events) = 0
    BY <2>1, <2>2
  <2>6. PendingInv'
    BY <1>2, <1>7, <1>8, <2>1, <2>2, <2>5 DEF PendingInv, Increasing
  <2>7. HeardInv'
    BY <1>2, <1>4, <1>7, <1>8, <2>1, <2>5 DEF HeardInv
  <2>8. ReservedInv'
    BY <1>0, <1>2, <2>2 DEF ReservedInv, OnConnection
  <2>9. KeptStep
    <3> SUFFICES ASSUME NEW id \in 1..Len(events), id \in ToSet(session.events), id # h
                 PROVE  AtRisk(id)
      BY <1>2, <1>4 DEF KeptStep, Held
    <3>1. PICK i \in 1..Len(session.events) : id = session.events[i]
      <4>1. DOMAIN session.events = 1..Len(session.events)
        BY <1>0, VisualFacts
      <4> QED BY <4>1 DEF ToSet
    <3>2. 1 < i
      <4>1. i # 1
        BY <1>6, <3>1
      <4> QED BY <1>5, <4>1
    <3> QED BY <1>6, <1>9, <3>1, <3>2 DEF AtRisk
  <2> QED BY <1>0, <1>3, <2>3, <2>4, <2>6, <2>7, <2>8, <2>9 DEF VisualInv
<1>10. CASE ~end
  <2> DEFINE rest == Tail(session.events)
  <2>0. rest = Tail(session.events)
    OBVIOUS
  <2> HIDE DEF rest
  <2>1. /\ SessionShape(session') /\ session'.events = rest /\ session'.connects = session.connects
        /\ session'.pc = "drain" /\ session'.ended = session.ended
    <3>1. session' = [session EXCEPT !.pc = "drain", !.events = rest] /\ rest \in Seq(Nat)
      BY <1>0, <1>6, <1>10, <2>0
    <3> QED BY <1>0, <3>1 DEF SessionShape, Sessions
  <2>2. VisualShapes'
    BY <1>0, <1>2, <1>3, <2>1 DEF VisualShapes
  <2>3. PublisherInv'
    BY <1>0, <1>3, <2>1 DEF PublisherInv
  <2>4. /\ Len(session'.events) = n
        /\ \A i \in 1..n : /\ session'.events[i] = session.events[i + 1] /\ i + 1 \in 1..Len(session.events)
                           /\ Decided(session'.events[i]) /\ session'.events[i] \in Nat /\ h <= session'.events[i]
    BY <1>6, <2>0, <2>1
  <2>5. PendingInv'
    <3>1. \A i \in 1..n, j \in 1..Len(queues.events) : session'.events[i] < queues.events[j]
      BY <1>0, <2>4 DEF PendingInv
    <3>2. Increasing(session.events)' /\ Increasing(queues.events)'
      BY <1>2, <1>6, <1>8, <2>0, <2>1 DEF Increasing
    <3>3. \A i \in 1..Len(session'.events) : Decided(session.events[i])'
      BY <1>0, <2>4 DEF Decided
    <3>4. \A i \in 1..Len(queues'.events) : Decided(queues.events[i])'
      BY <1>0, <1>2, <1>8 DEF Decided
    <3> QED BY <1>2, <2>1, <2>4, <3>1, <3>2, <3>3, <3>4 DEF PendingInv
  <2>6. HeardInv'
    <3>1. \A x, y, z \in Nat : x <= y /\ y <= z => x <= z
      OBVIOUS
    <3>2. \A i \in 1..n, k \in 1..Len(peer'.events) : peer'.events[k] <= session'.events[i]
      BY <1>4, <2>4, <3>1
    <3>3. \A k \in 1..Len(peer'.events) : Decided(peer.events[k])'
      BY <1>0, <1>4 DEF Decided
    <3> QED BY <1>2, <1>4, <1>8, <2>4, <3>2, <3>3 DEF HeardInv
  <2>7. \A id : Held(id) => Held(id)' \/ id = h
    BY <1>2, <1>6, <2>0, <2>1 DEF Held
  <2>8. ReservedInv'
    <3>1. OnConnection
      BY <1>0 DEF OnConnection
    <3>2. ASSUME NEW id \in 1..Len(events), events[id].reservedIn = session.connects, events[id].core = "applied"
          PROVE  id \in queues'.reserved \/ Held(id)' \/ id \in ToSet(peer'.events)
      <4>1. id \in queues.reserved \/ Held(id) \/ id \in ToSet(peer.events)
        BY <1>0, <3>1, <3>2 DEF ReservedInv
      <4> QED BY <1>2, <1>4, <2>7, <4>1
    <3> QED BY <1>0, <1>1, <1>2, <2>1, <3>1, <3>2 DEF ReservedInv
  <2>9. KeptStep
    BY <1>4, <2>7 DEF KeptStep, Held
  <2> QED BY <1>0, <1>3, <2>2, <2>3, <2>5, <2>6, <2>8, <2>9 DEF VisualInv
<1> QED BY <1>9, <1>10

\* Two sequences in order, the second behind the first.
LEMMA IncreasingConcat ==
  ASSUME NEW s \in Seq(Nat), NEW t \in Seq(Nat), Increasing(s), Increasing(t),
         \A i \in 1..Len(s), j \in 1..Len(t) : s[i] < t[j]
  PROVE  /\ s \o t \in Seq(Nat) /\ Increasing(s \o t) /\ ToSet(s \o t) = ToSet(s) \cup ToSet(t)
         /\ \A k \in 1..Len(s \o t) : (\E i \in 1..Len(s) : (s \o t)[k] = s[i])
                                       \/ (\E j \in 1..Len(t) : (s \o t)[k] = t[j])
<1> DEFINE u == s \o t
<1>1. PICK m \in Nat, n \in Nat : m = Len(s) /\ n = Len(t)
  BY LenProperties
<1>2. /\ u \in Seq(Nat) /\ Len(u) = m + n
      /\ \A k \in 1..(m + n) : u[k] = IF k <= m THEN s[k] ELSE t[k - m]
  BY <1>1, ConcatProperties
<1>3. DOMAIN s = 1..m /\ DOMAIN t = 1..n /\ DOMAIN u = 1..(m + n)
  BY <1>1, <1>2, LenProperties
<1> HIDE DEF u
<1>4. ASSUME NEW k \in 1..(m + n)
      PROVE  \/ k \in 1..m /\ u[k] = s[k]
             \/ k - m \in 1..n /\ u[k] = t[k - m] /\ k > m
  BY <1>2
<1>5. Increasing(u)
  <2> SUFFICES ASSUME NEW k \in 1..(m + n), NEW l \in 1..(m + n), k < l PROVE u[k] < u[l]
    BY <1>2 DEF Increasing
  <2>1. CASE k \in 1..m /\ l \in 1..m
    <3>1. u[k] = s[k] /\ u[l] = s[l]
      BY <1>4, <2>1
    <3> QED BY <1>1, <2>1, <3>1 DEF Increasing
  <2>2. CASE k \in 1..m /\ l \notin 1..m
    <3>1. u[k] = s[k] /\ l - m \in 1..n /\ u[l] = t[l - m]
      BY <1>4, <2>2
    <3> QED BY <1>1, <2>2, <3>1
  <2>3. CASE k \notin 1..m
    <3>1. k - m \in 1..n /\ u[k] = t[k - m]
      BY <1>4, <2>3
    <3>2. l \notin 1..m /\ k - m < l - m
      BY <2>3
    <3>3. l - m \in 1..n /\ u[l] = t[l - m]
      BY <1>4, <3>2
    <3>4. t[k - m] < t[l - m]
      BY <1>1, <3>1, <3>2, <3>3 DEF Increasing
    <3> QED BY <3>1, <3>3, <3>4
  <2> QED BY <2>1, <2>2, <2>3
<1>6. ToSet(u) = ToSet(s) \cup ToSet(t)
  <2>1. ASSUME NEW x \in ToSet(u) PROVE x \in ToSet(s) \cup ToSet(t)
    <3>1. PICK k \in 1..(m + n) : x = u[k]
      BY <1>3, <2>1 DEF ToSet
    <3> QED BY <1>3, <1>4, <3>1 DEF ToSet
  <2>2. ASSUME NEW x \in ToSet(s) PROVE x \in ToSet(u)
    <3>1. PICK i \in 1..m : x = s[i]
      BY <1>3, <2>2 DEF ToSet
    <3>2. i \in 1..(m + n) /\ u[i] = s[i]
      BY <1>2
    <3> QED BY <1>3, <3>1, <3>2 DEF ToSet
  <2>3. ASSUME NEW x \in ToSet(t) PROVE x \in ToSet(u)
    <3>1. PICK j \in 1..n : x = t[j]
      BY <1>3, <2>3 DEF ToSet
    <3>2. PICK k \in 1..(m + n) : k = m + j
      OBVIOUS
    <3>3. ~(k <= m) /\ k - m = j
      BY <3>2
    <3>4. u[k] = t[j]
      BY <1>2, <3>3
    <3> QED BY <1>3, <3>1, <3>4 DEF ToSet
  <2> QED BY <2>1, <2>2, <2>3
<1>7. \A k \in 1..Len(u) : (\E i \in 1..Len(s) : u[k] = s[i]) \/ (\E j \in 1..Len(t) : u[k] = t[j])
  BY <1>1, <1>2, <1>4
<1> QED BY <1>2, <1>5, <1>6, <1>7 DEF u

\* No acknowledgement: those drained go back before the queued ones.
LEMMA FailsVisual ==
  ASSUME VisualInv, EventFails
  PROVE  VisualInv' /\ KeptStep /\ UNCHANGED events /\ session'.ended = session.ended /\ peer'.step = peer.step
<1> DEFINE h == Head(session.events)
           back == session.events \o queues.events
<1>0. /\ VisualShapes /\ PublisherInv /\ PendingInv /\ HeardInv /\ ReservedInv
      /\ UNCHANGED <<core, cache, ws, events, connected, publisher>> /\ session.pc = "event"
      /\ SessionShape(session) /\ QueuesShape(queues) /\ PeerShape(peer)
      /\ (peer' = peer \/ peer' = [peer EXCEPT !.events = Append(peer.events, h)])
      /\ session' = [session EXCEPT !.pc = "closing", !.events = <<>>]
      /\ queues' = [queues EXCEPT !.events = back]
  BY DEF VisualInv, VisualShapes, EventFails, Requeue
<1>1. session.events # <<>> /\ session.events \in Seq(Nat) /\ queues.events \in Seq(Nat) /\ peer.events \in Seq(Nat)
  BY <1>0, VisualFacts DEF PendingInv
<1>2. /\ back \in Seq(Nat) /\ Increasing(back) /\ ToSet(back) = ToSet(session.events) \cup ToSet(queues.events)
      /\ \A k \in 1..Len(back) : (\E i \in 1..Len(session.events) : back[k] = session.events[i])
                                 \/ (\E j \in 1..Len(queues.events) : back[k] = queues.events[j])
  <2>1. /\ Increasing(session.events) /\ Increasing(queues.events)
        /\ \A i \in 1..Len(session.events), j \in 1..Len(queues.events) : session.events[i] < queues.events[j]
    BY <1>0 DEF PendingInv
  <2> QED BY <1>1, <2>1, IncreasingConcat
<1>3. h \in Nat
  BY <1>1, HeadTailProperties
<1>4. PeerShape(peer') /\ peer'.step = peer.step /\ peer'.plan = peer.plan
      /\ (peer'.events = peer.events \/ peer'.events = Append(peer.events, h))
  <2>1. Append(peer.events, h) \in Seq(Nat)
    BY <1>1, <1>3, AppendProperties
  <2>2. CASE peer' = [peer EXCEPT !.events = Append(peer.events, h)]
    BY <1>0, <2>1, <2>2 DEF PeerShape
  <2> QED BY <1>0, <2>2
<1>5. EventsInOrder' /\ ToSet(peer.events) \subseteq ToSet(peer'.events)
      /\ \A k \in 1..Len(peer'.events) :
           /\ Decided(peer'.events[k]) /\ peer'.events[k] \in Nat
           /\ \A i \in 1..Len(session.events) : peer'.events[k] <= session.events[i]
           /\ \A j \in 1..Len(queues.events) : peer'.events[k] <= queues.events[j]
  <2>1. CASE peer'.events = peer.events
    <3>1. EventsInOrder'
      BY <1>0, <2>1 DEF HeardInv, EventsInOrder
    <3>2. \A k \in 1..Len(peer.events) : peer.events[k] \in Nat
      BY <1>0, VisualFacts
    <3> QED BY <1>0, <2>1, <3>1, <3>2 DEF HeardInv
  <2>2. CASE peer'.events = Append(peer.events, h)
    <3>1. EventsInOrder' /\ ToSet(peer.events) \subseteq ToSet(peer'.events)
          /\ \A k \in 1..Len(peer'.events) : Decided(peer'.events[k]) /\ peer'.events[k] \in Nat
                                             /\ peer'.events[k] <= h
      BY <1>0, <1>1, <2>2, HeadHeard
    <3>2. /\ \A i \in 1..Len(session.events) : session.events[i] \in Nat /\ h <= session.events[i]
          /\ \A j \in 1..Len(queues.events) : queues.events[j] \in Nat /\ h <= queues.events[j]
      <4>1. /\ Len(session.events) \in Nat /\ h = session.events[1] /\ 1 \in 1..Len(session.events)
        BY <1>0, <1>1, TailOfEvents
      <4>2. /\ \A i \in 1..Len(session.events) : session.events[i] \in Nat
            /\ \A j \in 1..Len(queues.events) : queues.events[j] \in Nat
        BY <1>0, VisualFacts
      <4>3. /\ \A i \in 1..Len(session.events) : 1 < i => h < session.events[i]
            /\ \A j \in 1..Len(queues.events) : h < queues.events[j]
        BY <1>0, <4>1 DEF PendingInv, Increasing
      <4>4. \A i \in 1..Len(session.events) : i = 1 \/ 1 < i
        BY <4>1
      <4>5. \A x, y \in Nat : x = y \/ x < y => x <= y
        OBVIOUS
      <4>6. \A i \in 1..Len(session.events) : h = session.events[i] \/ h < session.events[i]
        BY <4>1, <4>3, <4>4
      <4> QED BY <1>3, <4>2, <4>3, <4>5, <4>6
    <3>3. \A x, y, z \in Nat : x <= y /\ y <= z => x <= z
      OBVIOUS
    <3>4. \A k \in 1..Len(peer'.events) :
             /\ \A i \in 1..Len(session.events) : peer'.events[k] <= session.events[i]
             /\ \A j \in 1..Len(queues.events) : peer'.events[k] <= queues.events[j]
      BY <1>3, <3>1, <3>2, <3>3
    <3> QED BY <3>1, <3>4
  <2> QED BY <1>4, <2>1, <2>2
<1>6. /\ \A k \in 1..Len(back) : Decided(back[k])
      /\ \A k \in 1..Len(back), l \in 1..Len(peer'.events) : peer'.events[l] <= back[k]
  BY <1>0, <1>2, <1>5 DEF PendingInv
<1> HIDE DEF back, h
<1>7. QueuesShape(queues') /\ queues'.events = back /\ queues'.reserved = queues.reserved
  BY <1>0, <1>2 DEF QueuesShape
<1>8. <<>> \in Seq(Nat) /\ Len(<<>>) = 0 /\ 1..0 = {}
  BY EmptySeq
<1>9. /\ SessionShape(session') /\ session'.events = <<>> /\ session'.connects = session.connects
      /\ session'.pc = "closing" /\ session'.ended = session.ended /\ Len(session'.events) = 0
  BY <1>0, <1>8 DEF SessionShape, Sessions
<1>10. VisualShapes'
  BY <1>0, <1>4, <1>7, <1>9 DEF VisualShapes
<1>11. PublisherInv'
  BY <1>0, <1>4, <1>9 DEF PublisherInv
<1>12. PendingInv'
  <2>1. \A k \in 1..Len(queues'.events) : Decided(queues.events[k])'
    BY <1>0, <1>6, <1>7 DEF Decided
  <2>2. Increasing(queues.events)' /\ Increasing(session.events)'
    BY <1>2, <1>7, <1>8, <1>9 DEF Increasing
  <2> QED BY <1>8, <1>9, <2>1, <2>2 DEF PendingInv
<1>13. HeardInv'
  <2>1. \A k \in 1..Len(peer'.events) : Decided(peer.events[k])'
    BY <1>0, <1>5 DEF Decided
  <2> QED BY <1>5, <1>6, <1>7, <1>8, <1>9, <2>1 DEF HeardInv
<1>14. ReservedInv'
  BY <1>0, <1>7, <1>9 DEF ReservedInv, OnConnection
<1>15. KeptStep
  BY <1>2, <1>7 DEF KeptStep, Held, back
<1> QED BY <1>0, <1>4, <1>5, <1>9, <1>10, <1>11, <1>12, <1>13, <1>14, <1>15 DEF VisualInv

\* What a step may not do: show a state of another plan or an earlier one, overtake
\* an end, or lose an event.
OrderStep ==
  /\ SendState => peer.plan = publisher.mission
  /\ peer'.step >= peer.step
  /\ (session.pc = "drain" /\ session'.ended) =>
       \A id \in 1..Len(events) :
         (/\ Names(id, session.mission) /\ events[id].reservedIn = session.connects
          /\ events[id].core = "applied") => id \in ToSet(peer.events)
  /\ KeptStep

\* Only the end of an iteration finishes a session that drains, and it has found no
\* end queued or reserved.
LEMMA NotOvertaken ==
  ASSUME VisualInv, CheckEnded, session'.ended, NEW id \in 1..Len(events), Names(id, session.mission),
         events[id].reservedIn = session.connects, events[id].core = "applied"
  PROVE  id \in ToSet(peer.events)
<1>1. session.pc = "drain" /\ session.events = <<>>
  BY DEF CheckEnded
<1>2. ~session.ended /\ OnConnection /\ SessionShape(session) /\ ReservedInv
  BY <1>1 DEF VisualInv, ReservedInv, VisualShapes, OnConnection
<1>3. ~EndPending(session.mission)
  <2>1. SUFFICES ASSUME EndPending(session.mission) PROVE FALSE
    OBVIOUS
  <2>2. session' = [session EXCEPT !.pc = "loop"]
    BY <2>1 DEF CheckEnded
  <2> QED BY <1>2, <2>2 DEF SessionShape
<1>4. id \in queues.reserved \/ Held(id) \/ id \in ToSet(peer.events)
  BY <1>2 DEF ReservedInv
<1>5. id \notin ToSet(queues.events) \cup queues.reserved
  BY <1>3 DEF EndPending
<1>6. ToSet(session.events) = {}
  BY <1>1 DEF ToSet
<1> QED BY <1>4, <1>5, <1>6 DEF Held

LEMMA VisualStep == VisualInv /\ [VisualNext]_visualVars => VisualInv' /\ [OrderStep]_visualVars
<1> SUFFICES ASSUME VisualInv, [VisualNext]_visualVars PROVE VisualInv' /\ [OrderStep]_visualVars
  OBVIOUS
<1>0. /\ peer.step \in Nat /\ peer.step >= peer.step
      /\ session.pc = "drain" => ~session.ended
      /\ SendState => peer.plan = publisher.mission
  <2>1. VisualShapes /\ PublisherInv /\ ReservedInv
    BY DEF VisualInv
  <2>2. peer.step \in Nat /\ publisher.pc \in {"off", "run", "built"}
    BY <2>1, VisualFacts
  <2>3. peer.step >= peer.step
    BY <2>2
  <2>4. SendState => peer.plan = publisher.mission
    BY <2>1 DEF SendState, PublisherInv
  <2> QED BY <2>1, <2>2, <2>3, <2>4 DEF ReservedInv
<1>1. CASE CoreSteps \/ StateArrives \/ Forward \/ \E m \in Missions : Load(m)
  BY <1>0, <1>1, CoreVisual, SameEventsKept DEF OrderStep
<1>2. CASE AwaitMission \/ AwaitEnds \/ LoopEnds \/ BuildEvent
  BY <1>0, <1>2, WaitsVisual, SameEventsKept DEF OrderStep
<1>3. CASE FirstPlan
  <2>1. session.pc = "plan"
    BY <1>3 DEF FirstPlan
  <2> QED BY <1>0, <1>3, <2>1, FirstPlanVisual, SameEventsKept DEF OrderStep
<1>4. CASE CheckEnded
  BY <1>0, <1>4, EndsVisual, SameEventsKept, NotOvertaken DEF OrderStep
<1>5. CASE Close
  <2>1. session.pc = "closing"
    BY <1>5 DEF Close
  <2> QED BY <1>0, <1>5, <2>1, EndsVisual, SameEventsKept DEF OrderStep
<1>6. CASE BuildState \/ SendState \/ SendStateFails \/ PublisherExits
  BY <1>0, <1>6, PublisherVisual, SameEventsKept DEF OrderStep
<1>7. CASE Connect
  <2>1. session.pc = "idle"
    BY <1>7 DEF Connect
  <2> QED BY <1>0, <1>7, <2>1, ConnectVisual, SameEventsKept DEF OrderStep
<1>8. CASE \E event \in EventNames, mission \in Missions \cup {None} : Ask(event, mission)
  BY <1>0, <1>8, AskVisual, SameEventsKept DEF OrderStep
<1>9. CASE CoreAnswers
  BY <1>0, <1>9, AnswersVisual, SameEventsKept DEF OrderStep
<1>10. CASE Resolve
  BY <1>0, <1>10, ResolveVisual DEF OrderStep
<1>11. CASE Drain
  <2>1. session.pc = "loop"
    BY <1>11 DEF Drain
  <2> QED BY <1>0, <1>11, <2>1, DrainVisual DEF OrderStep
<1>12. CASE NextPlan
  BY <1>0, <1>12, NextPlanVisual DEF OrderStep
<1>13. CASE EventAcked
  BY <1>0, <1>13, AckedVisual DEF OrderStep
<1>14. CASE EventFails
  <2>1. session.pc = "event"
    BY <1>14 DEF EventFails
  <2> QED BY <1>0, <1>14, <2>1, FailsVisual DEF OrderStep
<1>15. CASE UNCHANGED visualVars
  <2>1. UNCHANGED <<core, cache, ws, events, queues, connected, session, publisher, peer>>
    BY <1>15 DEF visualVars
  <2>2. VisualShapes' /\ PublisherInv'
    BY <2>1 DEF VisualInv, VisualShapes, PublisherInv
  <2>3. PendingInv' /\ HeardInv' /\ ReservedInv'
    <3>1. PendingInv /\ HeardInv /\ ReservedInv
      BY DEF VisualInv
    <3>2. /\ session'.pc \notin {"drain", "event"} => session.events = <<>>
          /\ session'.pc = "event" => session.events # <<>>
          /\ session'.ended => session'.pc \in {"closing", "done"}
      BY <2>1, <3>1 DEF PendingInv, ReservedInv
    <3>3. OnConnection' => OnConnection
      BY <2>1 DEF OnConnection
    <3> QED BY <2>1, <3>1, <3>2, <3>3, EventsKept
  <2> QED BY <1>15, <2>2, <2>3 DEF VisualInv
<1> QED
  BY <1>1, <1>2, <1>3, <1>4, <1>5, <1>6, <1>7, <1>8, <1>9, <1>10, <1>11, <1>12, <1>13, <1>14, <1>15
  DEF VisualNext, SessionStep, PublisherStep, WsStep

LEMMA VisualInvAlways == VisualSpec => []VisualInv
<1>1. VisualInv /\ [VisualNext]_visualVars => VisualInv'
  BY VisualStep
<1> QED BY <1>1, VisualInvInit, PTL DEF VisualSpec

\* States follow the plan they belong to and never go back, the end of the model
\* does not overtake a mission_end, and no event is lost but those at risk.
THEOREM VisualIsInOrder == VisualSpec => VisualInOrder
<1>1. [OrderStep]_visualVars =>
        /\ [SendState => peer.plan = publisher.mission]_visualVars
        /\ [peer'.step >= peer.step]_visualVars
        /\ [(session.pc = "drain" /\ session'.ended) =>
             \A id \in 1..Len(events) :
               (/\ Names(id, session.mission) /\ events[id].reservedIn = session.connects
                /\ events[id].core = "applied") => id \in ToSet(peer.events)]_visualVars
        /\ [\A id \in 1..Len(events) :
             Held(id) /\ ~(id \in ToSet(queues'.events) \cup ToSet(session'.events))
               => id \in ToSet(peer'.events) \/ AtRisk(id)]_visualVars
  BY DEF OrderStep, KeptStep
<1>2. VisualInv /\ [VisualNext]_visualVars => [OrderStep]_visualVars
  BY VisualStep
<1> QED
  BY <1>1, <1>2, VisualInvAlways, PTL
  DEF VisualSpec, VisualInOrder, StatesFollowPlan, NeverBackwards, EndNotOvertaken, EventKept

\* The bounds and the sets that VisualTypeOK adds to the shapes.
WsBound ==
  /\ ws \in [pc : {"idle", "request", "resolve", "forward"}, loads : 0..MaxCommands, mission : Missions \cup {None}]
  /\ ws.pc = "forward" => ws.mission \in Missions
  /\ Len(events) + ws.loads <= MaxCommands

StepBound == core.step \in 0..MaxStep /\ cache.step \in 0..MaxStep /\ session.before \in 0..MaxStep
             /\ publisher.step \in 0..MaxStep /\ peer.step \in 0..MaxStep

MissionBound ==
  /\ queues.current \in Missions \cup {None} /\ queues.missions \in Seq(Missions)
  /\ session.mission \in Missions \cup {None} /\ session.missions \in Seq(Missions)
  /\ publisher.mission \in Missions \cup {None} /\ peer.plan \in Missions \cup {None}

ReservedBound == queues.reserved \subseteq 1..Len(events)

\* Each sender that has a number and has not sent is owed once.
OwedBound ==
  /\ owed \in Seq({"session", "publisher"})
  /\ \A i, j \in 1..Len(owed) : owed[i] = owed[j] => i = j
  /\ \A i \in 1..Len(owed) : /\ owed[i] = "session" => session.pc = "event"
                             /\ owed[i] = "publisher" => publisher.pc = "built"

VisualBound == WsBound /\ StepBound /\ MissionBound /\ ReservedBound /\ OwedBound

LEMMA VisualTypes == ASSUME VisualInv, VisualBound PROVE VisualTypeOK
<1>0. VisualShapes /\ PendingInv /\ HeardInv /\ WsBound /\ StepBound /\ MissionBound /\ ReservedBound /\ OwedBound
  BY DEF VisualInv, VisualBound
<1>1. /\ core \in [life : Lives, step : 0..MaxStep] /\ cache \in [life : Lives, step : 0..MaxStep]
  BY <1>0 DEF VisualShapes, StepBound
<1>2. 1..Len(events) \subseteq EventIds
  <2>1. Len(events) \in Nat /\ ws.loads \in 0..MaxCommands /\ Len(events) + ws.loads <= MaxCommands
    BY <1>0, VisualFacts DEF WsBound
  <2> QED BY <2>1, VisualBounds DEF EventIds
<1>3. ASSUME NEW s \in Seq(Nat), \A i \in 1..Len(s) : Decided(s[i]) PROVE s \in Seq(EventIds)
  <2>1. \A i \in 1..Len(s) : s[i] \in EventIds
    BY <1>2, <1>3 DEF Decided
  <2>2. s = [i \in 1..Len(s) |-> s[i]] /\ Len(s) \in Nat
    BY LenProperties
  <2> QED BY <2>1, <2>2, IsASeq
<1>4. /\ session.events \in Seq(EventIds) /\ queues.events \in Seq(EventIds) /\ peer.events \in Seq(EventIds)
  <2>1. session.events \in Seq(Nat) /\ queues.events \in Seq(Nat) /\ peer.events \in Seq(Nat)
    BY <1>0, VisualFacts
  <2>2. /\ \A i \in 1..Len(session.events) : Decided(session.events[i])
        /\ \A i \in 1..Len(queues.events) : Decided(queues.events[i])
        /\ \A i \in 1..Len(peer.events) : Decided(peer.events[i])
    BY <1>0 DEF PendingInv, HeardInv
  <2> QED BY <1>3, <2>1, <2>2
<1>5. queues \in [current : Missions \cup {None}, missions : Seq(Missions), events : Seq(EventIds),
                 reserved : SUBSET EventIds]
  <2>1. QueuesShape(queues)
    BY <1>0 DEF VisualShapes
  <2>2. queues.reserved \in SUBSET EventIds
    BY <1>0, <1>2 DEF ReservedBound
  <2>3. queues.current \in Missions \cup {None} /\ queues.missions \in Seq(Missions)
    BY <1>0 DEF MissionBound
  <2> QED BY <1>4, <2>1, <2>2, <2>3 DEF QueuesShape
<1>6. session \in [pc : Sessions, connects : 0..MaxConnects, mission : Missions \cup {None},
                  missions : Seq(Missions), events : Seq(EventIds), before : 0..MaxStep,
                  ended : BOOLEAN]
  <2>1. SessionShape(session)
    BY <1>0 DEF VisualShapes
  <2>2. session.mission \in Missions \cup {None} /\ session.missions \in Seq(Missions) /\ session.before \in 0..MaxStep
    BY <1>0 DEF MissionBound, StepBound
  <2> QED BY <1>4, <2>1, <2>2 DEF SessionShape
<1>7. /\ publisher \in [pc : {"off", "run", "built"}, mission : Missions \cup {None}, step : 0..MaxStep]
      /\ peer \in [plan : Missions \cup {None}, step : 0..MaxStep, events : Seq(EventIds)]
  <2>1. PublisherShape(publisher) /\ PeerShape(peer)
    BY <1>0 DEF VisualShapes
  <2>2. publisher.mission \in Missions \cup {None} /\ peer.plan \in Missions \cup {None}
        /\ publisher.step \in 0..MaxStep /\ peer.step \in 0..MaxStep
    BY <1>0 DEF MissionBound, StepBound
  <2> QED BY <1>4, <2>1, <2>2 DEF PublisherShape, PeerShape
<1>8. IsInjective(queues.events)
  <2>1. Increasing(queues.events) /\ DOMAIN queues.events = 1..Len(queues.events)
        /\ (\A i \in 1..Len(queues.events) : queues.events[i] \in Nat) /\ Len(queues.events) \in Nat
    BY <1>0, VisualFacts DEF PendingInv
  <2>2. \A i, j \in 1..Len(queues.events) : queues.events[i] = queues.events[j] => i = j
    <3> TAKE i, j \in 1..Len(queues.events)
    <3>1. i < j \/ j < i \/ i = j
      BY <2>1
    <3>2. \A m, n \in Nat : m < n => m # n
      OBVIOUS
    <3> QED BY <2>1, <3>1, <3>2 DEF Increasing
  <2> QED BY <2>1, <2>2 DEF IsInjective
<1>9. Len(owed) <= 2 /\ owed \in Seq({"session", "publisher"})
  <2>1. owed \in Seq({"session", "publisher"}) /\ \A i, j \in 1..Len(owed) : owed[i] = owed[j] => i = j
    BY <1>0 DEF OwedBound
  <2>2. Len(owed) \in Nat /\ \A i \in 1..Len(owed) : owed[i] \in {"session", "publisher"}
    BY <2>1, LenProperties, ElementOfSeq
  <2>3. ASSUME ~(Len(owed) <= 2) PROVE FALSE
    <3>1. 1 \in 1..Len(owed) /\ 2 \in 1..Len(owed) /\ 3 \in 1..Len(owed)
      BY <2>2, <2>3
    <3>2. owed[1] # owed[2] /\ owed[1] # owed[3] /\ owed[2] # owed[3]
      BY <2>1, <3>1
    <3> QED BY <2>2, <3>1, <3>2
  <2> QED BY <2>1, <2>3
<1>10. ws \in [pc : {"idle", "request", "resolve", "forward"}, loads : 0..MaxCommands, mission : Missions \cup {None}]
       /\ Len(events) + ws.loads <= MaxCommands
  BY <1>0 DEF WsBound
<1>11. events \in Seq([event : EventNames, mission : Missions \cup {None}, reservedIn : 0..MaxConnects,
                      core : {"asked", "applied", "refused", "untold"}]) /\ connected \in BOOLEAN
  BY <1>0 DEF VisualShapes, EventRecords
<1> QED BY <1>1, <1>4, <1>5, <1>6, <1>7, <1>8, <1>9, <1>10, <1>11 DEF VisualTypeOK

LEMMA VisualBoundInit == VisualInit => VisualBound
<1> SUFFICES ASSUME VisualInit PROVE VisualBound
  OBVIOUS
<1> USE DEF VisualInit
<1>1. <<>> \in Seq({"session", "publisher"}) /\ <<>> \in Seq(Missions) /\ Len(<<>>) = 0 /\ 1..0 = {}
      /\ 0 \in 0..MaxCommands /\ 0 \in 0..MaxStep /\ 0 + 0 <= MaxCommands
  BY EmptySeq, VisualBounds
<1>2. WsBound
  BY <1>1 DEF WsBound
<1>3. StepBound /\ MissionBound /\ ReservedBound
  BY <1>1 DEF StepBound, MissionBound, ReservedBound
<1>4. OwedBound
  BY <1>1 DEF OwedBound
<1> QED BY <1>2, <1>3, <1>4 DEF VisualBound

LEMMA WsBoundStep ==
  ASSUME VisualInv, VisualBound, VisualNext
  PROVE  WsBound' /\ ReservedBound'
<1>0. /\ WsBound /\ ReservedBound /\ VisualShapes /\ Len(events) \in Nat
      /\ ws \in [pc : {"idle", "request", "resolve", "forward"}, loads : 0..MaxCommands, mission : Missions \cup {None}]
      /\ Len(events) + ws.loads <= MaxCommands /\ QueuesShape(queues) /\ events \in Seq(EventRecords)
      /\ ws.loads \in Nat /\ MaxCommands \in Nat
  <2>1. VisualShapes
    BY DEF VisualInv
  <2>2. Len(events) \in Nat
    BY <2>1, VisualFacts
  <2>3. WsBound
    BY DEF VisualBound
  <2> QED BY <2>1, <2>2, <2>3, VisualBounds DEF VisualBound, WsBound, VisualShapes
<1>1. CASE \E event \in EventNames, mission \in Missions \cup {None} : Ask(event, mission)
  <2>1. PICK event \in EventNames, mission \in Missions \cup {None} : Ask(event, mission)
    BY <1>1
  <2>2. /\ ws.pc = "idle" /\ Len(events) + ws.loads < MaxCommands
        /\ ws' = [ws EXCEPT !.pc = "request"] /\ queues' = Reserve(Len(events) + 1)
    BY <2>1 DEF Ask, Newest
  <2>3. Len(events') = Len(events) + 1
    <3>1. PICK rec : events' = Append(events, rec)
      BY <2>1 DEF Ask
    <3> QED BY <1>0, <3>1, AppendProperties
  <2>4. /\ ws' \in [pc : {"idle", "request", "resolve", "forward"}, loads : 0..MaxCommands, mission : Missions \cup {None}]
        /\ ws'.loads = ws.loads /\ ws'.pc = "request"
    BY <1>0, <2>2
  <2>5. Len(events') + ws'.loads <= MaxCommands
    BY <1>0, <2>2, <2>3, <2>4
  <2>6. queues'.reserved \subseteq queues.reserved \cup {Len(events) + 1}
    <3>1. queues' = queues \/ queues' = [queues EXCEPT !.reserved = queues.reserved \cup {Len(events) + 1}]
      BY <2>2 DEF Reserve
    <3> QED BY <1>0, <3>1 DEF QueuesShape
  <2>7. 1..Len(events) \subseteq 1..(Len(events) + 1) /\ Len(events) + 1 \in 1..(Len(events) + 1)
    BY <1>0
  <2>8. ReservedBound'
    BY <1>0, <2>3, <2>6, <2>7 DEF ReservedBound
  <2> QED BY <2>4, <2>5, <2>8 DEF WsBound
<1>2. CASE CoreAnswers
  <2>1. ws' = [ws EXCEPT !.pc = "resolve"] /\ UNCHANGED queues
    BY <1>2 DEF CoreAnswers
  <2>2. Len(events') = Len(events)
    <3>1. \E told : events' = [events EXCEPT ![Newest].core = told]
      BY <1>2 DEF CoreAnswers
    <3>2. PICK rec : events' = [events EXCEPT ![Newest] = rec]
      BY <3>1
    <3>3. Newest \in 1..Len(events)
      <4>1. Len(events) # 0
        BY <1>2 DEF VisualInv, ReservedInv, CoreAnswers
      <4> QED BY <1>0, <4>1 DEF Newest
    <3>5. Len(events') = Len(events)
      <4>1. events \in Seq(EventRecords \cup {rec})
        <5>1. \A i \in 1..Len(events) : events[i] \in EventRecords \cup {rec}
          BY <1>0, VisualFacts
        <5>2. events = [i \in 1..Len(events) |-> events[i]]
          BY <1>0, LenProperties
        <5> QED BY <1>0, <5>1, <5>2, IsASeq
      <4> QED BY <3>2, <3>3, <4>1, ExceptSeq
    <3> QED BY <3>5
  <2>3. /\ ws' \in [pc : {"idle", "request", "resolve", "forward"}, loads : 0..MaxCommands, mission : Missions \cup {None}]
        /\ ws'.loads = ws.loads /\ ws'.pc = "resolve"
    BY <1>0, <2>1
  <2> QED BY <1>0, <2>1, <2>2, <2>3 DEF WsBound, ReservedBound
<1>3. CASE Resolve
  <2>1. ws' = [ws EXCEPT !.pc = "idle"] /\ UNCHANGED events
    BY <1>3 DEF Resolve
  <2>2. /\ ws' \in [pc : {"idle", "request", "resolve", "forward"}, loads : 0..MaxCommands, mission : Missions \cup {None}]
        /\ ws'.loads = ws.loads /\ ws'.pc = "idle"
    BY <1>0, <2>1
  <2>3. queues'.reserved \subseteq queues.reserved
    <3> DEFINE evs == IF events[Newest].core = "applied" THEN Append(queues.events, Newest) ELSE queues.events
               res == queues.reserved \ {Newest}
    <3>1. queues' = queues \/ queues' = [queues EXCEPT !.reserved = res, !.events = evs]
      BY <1>3 DEF Resolve, Resolved
    <3>2. res \subseteq queues.reserved
      OBVIOUS
    <3> HIDE DEF evs, res
    <3> QED BY <1>0, <3>1, <3>2 DEF QueuesShape
  <2> QED BY <1>0, <2>1, <2>2, <2>3 DEF WsBound, ReservedBound
<1>4. CASE Forward
  <2>1. /\ ws' = [ws EXCEPT !.pc = "idle", !.mission = None] /\ UNCHANGED events
        /\ queues' = [queues EXCEPT !.current = ws.mission, !.missions = Append(queues.missions, ws.mission)]
    BY <1>4 DEF Forward
  <2>2. /\ ws' \in [pc : {"idle", "request", "resolve", "forward"}, loads : 0..MaxCommands, mission : Missions \cup {None}]
        /\ ws'.loads = ws.loads /\ ws'.pc = "idle"
    BY <1>0, <2>1
  <2>3. queues'.reserved = queues.reserved
    BY <1>0, <2>1 DEF QueuesShape
  <2> QED BY <1>0, <2>1, <2>2, <2>3 DEF WsBound, ReservedBound
<1>5. CASE \E mission \in Missions : Load(mission)
  <2>1. PICK mission \in Missions : Load(mission)
    BY <1>5
  <2>2. /\ ws' = [pc |-> "forward", loads |-> ws.loads + 1, mission |-> mission] /\ UNCHANGED <<events, queues>>
        /\ Len(events) + ws.loads < MaxCommands
    BY <2>1 DEF Load, Newest
  <2>3. ws.loads + 1 \in 0..MaxCommands /\ Len(events) + (ws.loads + 1) <= MaxCommands
    BY <1>0, <2>2
  <2> QED BY <1>0, <2>2, <2>3 DEF WsBound, ReservedBound
<1>6. CASE SessionStep \/ LoopEnds \/ AwaitEnds \/ PublisherStep \/ BuildState \/ CoreSteps \/ StateArrives
  <2>1. UNCHANGED <<ws, events>>
    BY <1>6 DEF SessionStep, Connect, AwaitMission, FirstPlan, Drain, NextPlan, BuildEvent, EventAcked, EventFails,
                CheckEnded, Close, LoopEnds, AwaitEnds, PublisherStep, SendState, SendStateFails, PublisherExits,
                BuildState, CoreSteps, StateArrives
  <2>2. queues'.reserved = queues.reserved
    <3>1. CASE FirstPlan
      BY <3>1, FirstPlanVisual DEF FirstPlan, VisualInv, VisualShapes, QueuesShape
    <3>2. CASE Drain
      BY <1>0, <3>2 DEF Drain, QueuesShape
    <3>3. CASE EventAcked \/ CheckEnded
      <4>1. queues' = queues \/ queues' = [queues EXCEPT !.current = None]
        BY <3>3 DEF EventAcked, CheckEnded, Finished
      <4> QED BY <1>0, <4>1 DEF QueuesShape
    <3>4. CASE EventFails
      <4>1. \E back : queues' = [queues EXCEPT !.events = back]
        BY <3>4 DEF EventFails, Requeue
      <4> QED BY <1>0, <4>1 DEF QueuesShape
    <3>5. CASE \/ Connect \/ AwaitMission \/ NextPlan \/ BuildEvent \/ Close \/ LoopEnds \/ AwaitEnds
               \/ PublisherStep \/ BuildState \/ CoreSteps \/ StateArrives
      BY <3>5 DEF Connect, AwaitMission, NextPlan, BuildEvent, Close, LoopEnds, AwaitEnds, PublisherStep, SendState,
                  SendStateFails, PublisherExits, BuildState, CoreSteps, StateArrives
    <3> QED BY <1>6, <3>1, <3>2, <3>3, <3>4, <3>5 DEF SessionStep
  <2> QED BY <1>0, <2>1, <2>2 DEF WsBound, ReservedBound
<1> QED BY <1>1, <1>2, <1>3, <1>4, <1>5, <1>6 DEF VisualNext, WsStep

LEMMA StepBoundStep ==
  ASSUME VisualInv, VisualBound, VisualNext
  PROVE  StepBound'
<1>0. /\ StepBound /\ VisualShapes /\ MaxStep \in Nat /\ 0 \in 0..MaxStep
      /\ SessionShape(session) /\ PublisherShape(publisher) /\ PeerShape(peer)
      /\ core \in [life : Lives, step : Nat]
  BY VisualBounds DEF VisualBound, VisualInv, VisualShapes
<1>1. CASE CoreSteps \/ StateArrives \/ CoreAnswers
  <2>1. UNCHANGED <<session, publisher, peer>>
    BY <1>1 DEF CoreSteps, StateArrives, CoreAnswers
  <2>2. core'.step \in 0..MaxStep /\ cache'.step \in 0..MaxStep
    <3>1. CASE CoreSteps
      <4>1. PICK life \in {"RUNNING", "ENDED"} : core' = [life |-> life, step |-> core.step + 1]
        BY <3>1 DEF CoreSteps
      <4>2. core.step < MaxStep /\ cache' = cache
        BY <3>1 DEF CoreSteps
      <4>3. core.step + 1 \in 0..MaxStep
        BY <1>0, <4>2 DEF StepBound
      <4> QED BY <1>0, <4>1, <4>2, <4>3 DEF StepBound
    <3>2. CASE StateArrives
      BY <1>0, <3>2 DEF StateArrives, CacheUpdate, StepBound
    <3>3. CASE CoreAnswers
      <4>1. events[Newest] \in EventRecords
        <5>1. Len(events) # 0 /\ Len(events) \in Nat
          BY <1>0, <3>3, VisualFacts DEF VisualInv, ReservedInv, CoreAnswers
        <5>2. Newest \in 1..Len(events)
          BY <5>1 DEF Newest
        <5> QED BY <1>0, <5>2, VisualFacts
      <4>2. events[Newest].event \in {"pause", "resume", "reset", "mission_end"}
        BY <4>1, VisualBounds DEF EventRecords
      <4>3. /\ core' = core \/ (\E life \in Lives : core' = [core EXCEPT !.life = life])
               \/ core' = [life |-> "CONFIGURED", step |-> 0]
            /\ cache' = cache
        <5>1. cache' = cache
          BY <3>3 DEF CoreAnswers
        <5>2. core' = core \/ core' = Applied(events[Newest].event)
          BY <3>3 DEF CoreAnswers
        <5> QED BY <4>2, <5>1, <5>2 DEF Applied, Lives
      <4>4. CASE \E life \in Lives : core' = [core EXCEPT !.life = life]
        <5>1. core'.step = core.step
          BY <1>0, <4>4
        <5> QED BY <1>0, <4>3, <5>1 DEF StepBound
      <4>5. CASE core' = core \/ core' = [life |-> "CONFIGURED", step |-> 0]
        BY <1>0, <4>3, <4>5 DEF StepBound
      <4> QED BY <4>3, <4>4, <4>5
    <3> QED BY <1>1, <3>1, <3>2, <3>3
  <2> QED BY <1>0, <2>1, <2>2 DEF StepBound
<1>2. CASE BuildState \/ SendState \/ SendStateFails \/ PublisherExits
  <2>1. UNCHANGED <<core, cache, session>>
    BY <1>2 DEF BuildState, SendState, SendStateFails, PublisherExits
  <2>2. publisher'.step \in 0..MaxStep /\ peer'.step \in 0..MaxStep
    <3>1. CASE BuildState
      <4>1. publisher' = [publisher EXCEPT !.pc = "built", !.step = cache.step] /\ UNCHANGED peer
        BY <3>1 DEF BuildState
      <4> QED BY <1>0, <4>1 DEF StepBound, PublisherShape
    <3>2. CASE SendState
      <4>1. peer' = [peer EXCEPT !.step = publisher.step] /\ publisher' = [publisher EXCEPT !.pc = "run", !.step = 0]
        BY <3>2 DEF SendState
      <4>2. peer'.step = publisher.step
        BY <1>0, <4>1 DEF PeerShape
      <4>3. publisher'.step = 0
        BY <1>0, <4>1 DEF PublisherShape
      <4> QED BY <1>0, <4>2, <4>3 DEF StepBound
    <3>3. CASE SendStateFails
      <4>1. publisher' = [publisher EXCEPT !.pc = "off", !.step = 0, !.mission = None] /\ UNCHANGED peer
        BY <3>3 DEF SendStateFails
      <4> QED BY <1>0, <4>1 DEF StepBound, PublisherShape
    <3>4. CASE PublisherExits
      <4>1. publisher' = [publisher EXCEPT !.pc = "off", !.mission = None] /\ UNCHANGED peer
        BY <3>4 DEF PublisherExits
      <4> QED BY <1>0, <4>1 DEF StepBound, PublisherShape
    <3> QED BY <1>2, <3>1, <3>2, <3>3, <3>4
  <2> QED BY <1>0, <2>1, <2>2 DEF StepBound
<1>3. CASE SessionStep \/ LoopEnds \/ AwaitEnds
  <2>1. UNCHANGED <<core, cache>>
    BY <1>3 DEF SessionStep, Connect, AwaitMission, FirstPlan, Drain, NextPlan, BuildEvent, EventAcked, EventFails,
                CheckEnded, Close, LoopEnds, AwaitEnds
  <2>2. peer'.step = peer.step
    <3>1. CASE Connect
      BY <3>1, ConnectVisual
    <3>2. CASE FirstPlan
      BY <3>2, FirstPlanVisual
    <3>3. CASE NextPlan
      BY <3>3, NextPlanVisual
    <3>4. CASE EventAcked
      BY <3>4, AckedVisual
    <3>5. CASE EventFails
      BY <3>5, FailsVisual
    <3>6. CASE AwaitMission \/ Drain \/ BuildEvent \/ CheckEnded \/ Close \/ LoopEnds \/ AwaitEnds
      BY <3>6 DEF AwaitMission, Drain, BuildEvent, CheckEnded, Close, LoopEnds, AwaitEnds
    <3> QED BY <1>3, <3>1, <3>2, <3>3, <3>4, <3>5, <3>6 DEF SessionStep
  <2>3. publisher'.step = publisher.step
    <3>1. publisher' = publisher \/ \E m : publisher' = [publisher EXCEPT !.pc = "run", !.mission = m]
      BY <1>3 DEF SessionStep, Connect, AwaitMission, FirstPlan, Drain, NextPlan, BuildEvent, EventAcked, EventFails,
                  CheckEnded, Close, LoopEnds, AwaitEnds, Publishing
    <3> QED BY <1>0, <3>1 DEF PublisherShape
  <2>4. session'.before \in 0..MaxStep
    <3>1. CASE AwaitMission
      <4>1. session' = [session EXCEPT !.pc = "plan", !.mission = queues.current, !.before = cache.step]
        BY <3>1 DEF AwaitMission
      <4> QED BY <1>0, <4>1 DEF SessionShape, StepBound
    <3>2. CASE Close
      <4>1. PICK pc : session' = [session EXCEPT !.pc = pc, !.mission = None, !.before = 0]
        BY <3>2 DEF Close
      <4> QED BY <1>0, <4>1 DEF SessionShape, StepBound
    <3>3. CASE Connect \/ FirstPlan \/ BuildEvent \/ CheckEnded \/ LoopEnds \/ AwaitEnds
      <4>1. \/ \E c : session' = [session EXCEPT !.pc = "wait", !.connects = c]
            \/ \E c : session' = [session EXCEPT !.connects = c]
            \/ \E pc : session' = [session EXCEPT !.pc = pc]
            \/ \E pc, e : session' = [session EXCEPT !.pc = pc, !.ended = e]
        BY <3>3 DEF Connect, FirstPlan, BuildEvent, CheckEnded, LoopEnds, AwaitEnds
      <4> QED BY <1>0, <4>1 DEF SessionShape, StepBound
    <3>4. CASE Drain \/ NextPlan \/ EventAcked \/ EventFails
      <4>1. \/ \E ms, es : session' = [session EXCEPT !.pc = "drain", !.missions = ms, !.events = es]
            \/ \E m, ms : session' = [session EXCEPT !.mission = m, !.missions = ms]
            \/ session' = [session EXCEPT !.pc = "closing", !.missions = <<>>, !.events = <<>>]
            \/ session' = [session EXCEPT !.pc = "closing", !.events = <<>>, !.ended = TRUE]
            \/ \E pc, es : session' = [session EXCEPT !.pc = pc, !.events = es]
        BY <3>4 DEF Drain, NextPlan, EventAcked, EventFails
      <4> QED BY <1>0, <4>1 DEF SessionShape, StepBound
    <3> QED BY <1>3, <3>1, <3>2, <3>3, <3>4 DEF SessionStep
  <2> QED BY <1>0, <2>1, <2>2, <2>3, <2>4 DEF StepBound
<1>4. CASE \/ \E event \in EventNames, mission \in Missions \cup {None} : Ask(event, mission)
           \/ \E mission \in Missions : Load(mission)
           \/ Resolve \/ Forward
  BY <1>0, <1>4 DEF Ask, Load, Resolve, Forward, StepBound
<1> QED BY <1>1, <1>2, <1>3, <1>4 DEF VisualNext, WsStep, PublisherStep

\* What is left without a mission are missions.
LEMMA WithoutType ==
  ASSUME NEW S, NEW s \in Seq(S), NEW x
  PROVE  Without(s, x) \in Seq(S)
BY WithoutProperties DEF LeftOf

LEMMA MissionBoundStep ==
  ASSUME VisualInv, VisualBound, VisualNext
  PROVE  MissionBound'
<1> DEFINE Some == Missions \cup {None}
<1>0. /\ MissionBound /\ WsBound /\ QueuesShape(queues) /\ SessionShape(session)
      /\ PublisherShape(publisher) /\ PeerShape(peer)
      /\ None \in Some /\ <<>> \in Seq(Missions) /\ Missions \subseteq Some
      /\ queues.current \in Some /\ queues.missions \in Seq(Missions)
      /\ session.mission \in Some /\ session.missions \in Seq(Missions)
      /\ publisher.mission \in Some /\ peer.plan \in Some
  BY EmptySeq DEF VisualBound, VisualInv, VisualShapes, MissionBound
<1> SUFFICES /\ queues'.current \in Some /\ queues'.missions \in Seq(Missions)
             /\ session'.mission \in Some /\ session'.missions \in Seq(Missions)
             /\ publisher'.mission \in Some /\ peer'.plan \in Some
  BY DEF MissionBound
<1> HIDE DEF Some
<1>1. queues'.current \in Some /\ queues'.missions \in Seq(Missions)
  <2>1. CASE Forward
    <3>1. /\ queues' = [queues EXCEPT !.current = ws.mission, !.missions = Append(queues.missions, ws.mission)]
          /\ ws.mission \in Missions
      BY <1>0, <2>1 DEF Forward, WsBound
    <3>2. Append(queues.missions, ws.mission) \in Seq(Missions)
      BY <1>0, <3>1, AppendProperties
    <3> QED BY <1>0, <3>1, <3>2 DEF QueuesShape
  <2>2. CASE FirstPlan
    <3>1. queues' = queues \/ queues' = [queues EXCEPT !.missions = Without(queues.missions, session.mission)]
      BY <2>2 DEF FirstPlan
    <3>2. Without(queues.missions, session.mission) \in Seq(Missions)
      BY <1>0, WithoutType
    <3> QED BY <1>0, <3>1, <3>2 DEF QueuesShape
  <2>3. CASE Drain
    <3>1. queues' = [queues EXCEPT !.missions = <<>>, !.events = <<>>]
      BY <2>3 DEF Drain
    <3> QED BY <1>0, <3>1 DEF QueuesShape
  <2>4. CASE EventAcked \/ CheckEnded
    <3>1. queues' = queues \/ queues' = [queues EXCEPT !.current = None]
      BY <2>4 DEF EventAcked, CheckEnded, Finished
    <3> QED BY <1>0, <3>1 DEF QueuesShape
  <2>5. CASE EventFails \/ Resolve \/ \E event \in EventNames, mission \in Missions \cup {None} : Ask(event, mission)
    <3>1. \/ queues' = queues
          \/ \E es : queues' = [queues EXCEPT !.events = es]
          \/ \E r, es : queues' = [queues EXCEPT !.reserved = r, !.events = es]
          \/ \E r : queues' = [queues EXCEPT !.reserved = r]
      BY <2>5 DEF EventFails, Requeue, Resolve, Resolved, Ask, Reserve
    <3> QED BY <1>0, <3>1 DEF QueuesShape
  <2>6. CASE UNCHANGED queues
    BY <1>0, <2>6
  <2> QED
    BY <2>1, <2>2, <2>3, <2>4, <2>5, <2>6
    DEF VisualNext, SessionStep, WsStep, PublisherStep, Connect, AwaitMission, NextPlan, BuildEvent, Close, LoopEnds,
        AwaitEnds, SendState, SendStateFails, PublisherExits, BuildState, CoreAnswers, Load, CoreSteps, StateArrives
<1>2. session'.mission \in Some /\ session'.missions \in Seq(Missions)
  <2>1. CASE AwaitMission
    <3>1. session' = [session EXCEPT !.pc = "plan", !.mission = queues.current, !.before = cache.step]
      BY <2>1 DEF AwaitMission
    <3> QED BY <1>0, <3>1 DEF SessionShape
  <2>2. CASE Drain
    <3>1. session' = [session EXCEPT !.pc = "drain", !.missions = queues.missions, !.events = queues.events]
      BY <2>2 DEF Drain
    <3> QED BY <1>0, <3>1 DEF SessionShape
  <2>3. CASE NextPlan
    <3>1. session.missions # <<>>
      BY <2>3 DEF NextPlan
    <3> DEFINE m == Head(session.missions)
               rest == Tail(session.missions)
    <3>2. m \in Missions /\ rest \in Seq(Missions)
      BY <1>0, <3>1, HeadTailProperties
    <3>3. \/ session' = [session EXCEPT !.mission = m, !.missions = rest]
          \/ session' = [session EXCEPT !.pc = "closing", !.missions = <<>>, !.events = <<>>]
      BY <2>3 DEF NextPlan
    <3> HIDE DEF m, rest
    <3>4. CASE session' = [session EXCEPT !.mission = m, !.missions = rest]
      BY <1>0, <3>2, <3>4 DEF SessionShape
    <3>5. CASE session' = [session EXCEPT !.pc = "closing", !.missions = <<>>, !.events = <<>>]
      BY <1>0, <3>5 DEF SessionShape
    <3> QED BY <3>3, <3>4, <3>5
  <2>4. CASE Close
    <3>1. PICK pc : session' = [session EXCEPT !.pc = pc, !.mission = None, !.before = 0]
      BY <2>4 DEF Close
    <3> QED BY <1>0, <3>1 DEF SessionShape
  <2>5. CASE Connect \/ FirstPlan \/ BuildEvent \/ CheckEnded \/ LoopEnds \/ AwaitEnds
    <3>1. \/ \E c : session' = [session EXCEPT !.pc = "wait", !.connects = c]
          \/ \E c : session' = [session EXCEPT !.connects = c]
          \/ \E pc : session' = [session EXCEPT !.pc = pc]
          \/ \E pc, e : session' = [session EXCEPT !.pc = pc, !.ended = e]
      BY <2>5 DEF Connect, FirstPlan, BuildEvent, CheckEnded, LoopEnds, AwaitEnds
    <3> QED BY <1>0, <3>1 DEF SessionShape
  <2>5a. CASE EventAcked
    <3>1. \/ session' = [session EXCEPT !.pc = "closing", !.events = <<>>, !.ended = TRUE]
          \/ session' = [session EXCEPT !.pc = "drain", !.events = Tail(session.events)]
      BY <2>5a DEF EventAcked
    <3> QED BY <1>0, <3>1 DEF SessionShape
  <2>5b. CASE EventFails
    <3>1. session' = [session EXCEPT !.pc = "closing", !.events = <<>>]
      BY <2>5b DEF EventFails
    <3> QED BY <1>0, <3>1 DEF SessionShape
  <2>6. CASE UNCHANGED session
    BY <1>0, <2>6
  <2> QED
    BY <2>1, <2>2, <2>3, <2>4, <2>5, <2>5a, <2>5b, <2>6
    DEF VisualNext, SessionStep, WsStep, PublisherStep, SendState, SendStateFails, PublisherExits, BuildState,
        CoreAnswers, Resolve, Forward, Ask, Load, CoreSteps, StateArrives
<1>3. publisher'.mission \in Some /\ peer'.plan \in Some
  <2>1. ASSUME NEW m \in Some PROVE Planned(m).plan \in Some /\ Publishing(m).mission \in Some
    BY <1>0, <2>1 DEF Planned, Publishing, PeerShape, PublisherShape
  <2>2. CASE FirstPlan
    BY <1>0, <2>1, <2>2 DEF FirstPlan
  <2>3. CASE NextPlan
    <3>1. session.missions # <<>>
      BY <2>3 DEF NextPlan
    <3>2. Head(session.missions) \in Some
      BY <1>0, <3>1, HeadTailProperties
    <3> QED BY <1>0, <2>1, <2>3, <3>2 DEF NextPlan
  <2>4. CASE Connect
    <3>1. peer' = [peer EXCEPT !.plan = None] /\ UNCHANGED publisher
      BY <2>4 DEF Connect
    <3> QED BY <1>0, <3>1 DEF PeerShape
  <2>5. CASE EventAcked \/ EventFails
    <3>1. UNCHANGED publisher /\ (peer' = peer \/ \E es : peer' = [peer EXCEPT !.events = es])
      BY <2>5 DEF EventAcked, EventFails
    <3> QED BY <1>0, <3>1 DEF PeerShape
  <2>6. CASE BuildState \/ SendState \/ SendStateFails \/ PublisherExits
    <3>1. peer' = peer \/ \E n : peer' = [peer EXCEPT !.step = n]
      BY <2>6 DEF BuildState, SendState, SendStateFails, PublisherExits
    <3>2. \/ \E pc, n : publisher' = [publisher EXCEPT !.pc = pc, !.step = n]
          \/ publisher' = [publisher EXCEPT !.pc = "off", !.step = 0, !.mission = None]
          \/ publisher' = [publisher EXCEPT !.pc = "off", !.mission = None]
      BY <2>6 DEF BuildState, SendState, SendStateFails, PublisherExits
    <3> QED BY <1>0, <3>1, <3>2 DEF PeerShape, PublisherShape
  <2>7. CASE UNCHANGED <<publisher, peer>>
    BY <1>0, <2>7
  <2> QED
    BY <2>2, <2>3, <2>4, <2>5, <2>6, <2>7
    DEF VisualNext, SessionStep, WsStep, PublisherStep, AwaitMission, Drain, BuildEvent, CheckEnded, Close, LoopEnds,
        AwaitEnds, CoreAnswers, Resolve, Forward, Ask, Load, CoreSteps, StateArrives
<1> QED BY <1>1, <1>2, <1>3

\* A number is owed once by each who took it.
LEMMA OwedBoundStep ==
  ASSUME VisualInv, VisualBound, VisualNext
  PROVE  OwedBound'
<1> DEFINE Senders == {"session", "publisher"}
<1>0. /\ OwedBound /\ SessionShape(session) /\ PublisherShape(publisher)
      /\ owed \in Seq(Senders) /\ Len(owed) \in Nat
      /\ (\A i \in 1..Len(owed) : owed[i] \in Senders)
      /\ (\A i, j \in 1..Len(owed) : owed[i] = owed[j] => i = j)
  <2>1. OwedBound /\ SessionShape(session) /\ PublisherShape(publisher) /\ owed \in Seq(Senders)
    BY DEF VisualBound, VisualInv, VisualShapes, OwedBound
  <2> QED BY <2>1, LenProperties, ElementOfSeq DEF OwedBound
<1>1. ASSUME NEW who \in Senders, \A i \in 1..Len(owed) : owed[i] # who, owed' = Append(owed, who)
      PROVE  /\ owed' \in Seq(Senders) /\ (\A i, j \in 1..Len(owed') : owed'[i] = owed'[j] => i = j)
             /\ \A i \in 1..Len(owed') : owed'[i] = who \/ \E j \in 1..Len(owed) : owed'[i] = owed[j]
  <2>1. /\ owed' \in Seq(Senders) /\ Len(owed') = Len(owed) + 1 /\ owed'[Len(owed) + 1] = who
        /\ \A i \in 1..Len(owed) : owed'[i] = owed[i]
    BY <1>0, <1>1, AppendProperties
  <2>2. \A i \in 1..Len(owed') : i \in 1..Len(owed) \/ i = Len(owed) + 1
    BY <1>0, <2>1
  <2>3. \A i, j \in 1..Len(owed') : owed'[i] = owed'[j] => i = j
    BY <1>0, <1>1, <2>1, <2>2
  <2>4. \A i \in 1..Len(owed') : owed'[i] = who \/ \E j \in 1..Len(owed) : owed'[i] = owed[j]
    BY <2>1, <2>2
  <2> QED BY <2>1, <2>3, <2>4
<1>2. ASSUME NEW who \in Senders, owed' = Without(owed, who)
      PROVE  /\ owed' \in Seq(Senders) /\ (\A i, j \in 1..Len(owed') : owed'[i] = owed'[j] => i = j)
             /\ \A i \in 1..Len(owed') : owed'[i] # who /\ \E j \in 1..Len(owed) : owed'[i] = owed[j]
  <2>1. LeftOf(owed', owed, who, Senders, Len(owed))
    BY <1>0, <1>2, WithoutProperties
  <2> QED BY <1>0, <2>1 DEF LeftOf
<1>3. CASE BuildEvent
  <2>1. session' = [session EXCEPT !.pc = "event"] /\ session.pc = "drain" /\ owed' = Append(owed, "session")
        /\ UNCHANGED publisher
    BY <1>3 DEF BuildEvent
  <2>2. session'.pc = "event"
    BY <1>0, <2>1 DEF SessionShape
  <2>3. \A i \in 1..Len(owed) : owed[i] # "session"
    BY <1>0, <2>1 DEF OwedBound
  <2> QED BY <1>0, <1>1, <2>1, <2>2, <2>3 DEF OwedBound
<1>4. CASE BuildState
  <2>1. /\ publisher' = [publisher EXCEPT !.pc = "built", !.step = cache.step] /\ publisher.pc = "run"
        /\ owed' = Append(owed, "publisher") /\ UNCHANGED session
    BY <1>4 DEF BuildState
  <2>2. publisher'.pc = "built"
    BY <1>0, <2>1 DEF PublisherShape
  <2>3. \A i \in 1..Len(owed) : owed[i] # "publisher"
    BY <1>0, <2>1 DEF OwedBound
  <2> QED BY <1>0, <1>1, <2>1, <2>2, <2>3 DEF OwedBound
<1>5. CASE EventAcked \/ EventFails
  <2>1. owed' = Without(owed, "session") /\ UNCHANGED publisher
    BY <1>5 DEF EventAcked, EventFails
  <2> QED BY <1>0, <1>2, <2>1 DEF OwedBound
<1>6. CASE SendState \/ SendStateFails
  <2>1. owed' = Without(owed, "publisher") /\ UNCHANGED session
    BY <1>6 DEF SendState, SendStateFails
  <2> QED BY <1>0, <1>2, <2>1 DEF OwedBound
<1>7. CASE PublisherExits
  <2>1. UNCHANGED <<owed, session>> /\ publisher.pc = "run"
    BY <1>7 DEF PublisherExits
  <2>2. \A i \in 1..Len(owed) : owed[i] # "publisher"
    BY <1>0, <2>1 DEF OwedBound
  <2> QED BY <1>0, <2>1, <2>2 DEF OwedBound
<1>8. CASE FirstPlan \/ NextPlan
  <2>1. UNCHANGED owed /\ publisher.pc # "built" /\ session.pc # "event"
    BY <1>8 DEF VisualInv, PublisherInv, FirstPlan, NextPlan, MayPlan
  <2>2. \A i \in 1..Len(owed) : owed[i] # "publisher" /\ owed[i] # "session"
    BY <1>0, <2>1 DEF OwedBound
  <2> QED BY <1>0, <2>1, <2>2 DEF OwedBound
<1>9. CASE Connect \/ AwaitMission \/ AwaitEnds \/ LoopEnds \/ Drain \/ CheckEnded \/ Close
  <2>1. UNCHANGED <<owed, publisher>> /\ session.pc # "event"
    BY <1>9 DEF Connect, AwaitMission, AwaitEnds, LoopEnds, Drain, CheckEnded, Close
  <2>2. \A i \in 1..Len(owed) : owed[i] # "session"
    BY <1>0, <2>1 DEF OwedBound
  <2> QED BY <1>0, <2>1, <2>2 DEF OwedBound
<1>10. CASE UNCHANGED <<owed, session, publisher>>
  BY <1>0, <1>10 DEF OwedBound
<1> QED
  BY <1>3, <1>4, <1>5, <1>6, <1>7, <1>8, <1>9, <1>10
  DEF VisualNext, SessionStep, WsStep, PublisherStep, CoreAnswers, Resolve, Forward, Ask, Load, CoreSteps, StateArrives

LEMMA VisualBoundStep == VisualInv /\ VisualBound /\ [VisualNext]_visualVars => VisualBound'
<1> SUFFICES ASSUME VisualInv, VisualBound, [VisualNext]_visualVars PROVE VisualBound'
  OBVIOUS
<1>1. CASE VisualNext
  BY <1>1, WsBoundStep, StepBoundStep, MissionBoundStep, OwedBoundStep DEF VisualBound
<1>2. CASE UNCHANGED visualVars
  BY <1>2 DEF visualVars, VisualBound, WsBound, StepBound, MissionBound, ReservedBound, OwedBound
<1> QED BY <1>1, <1>2

\* Every variable of the link keeps its type, and the server hears only of events
\* the core applied, first hearing of each in the order the core applied them
\* (ws_server.py, bridge_tcp_client.py).
THEOREM VisualIsSound == VisualSpec => []VisualSound
<1>1. VisualInv /\ [VisualNext]_visualVars => VisualInv'
  BY VisualStep
<1>2. VisualInv => OnlyApplied /\ EventsInOrder
  BY DEF VisualInv, HeardInv, OnlyApplied, Decided
<1>3. VisualInv /\ VisualBound => VisualSound
  BY <1>2, VisualTypes DEF VisualSound
<1> QED BY <1>1, <1>3, VisualInvInit, VisualBoundInit, VisualBoundStep, PTL DEF VisualSpec
=============================================================================
