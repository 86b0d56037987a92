------------------------ MODULE SessionRegistryProofs ------------------------
(***************************************************************************)
(* What holds of the session registry for every number of grants, sessions, *)
(* cached records and sequences, whatever the timeouts.                     *)
(***************************************************************************)
EXTENDS SessionRegistry, TLAPS, FiniteSetTheorems

-----------------------------------------------------------------------------
(* What expiry leaves.                                                     *)

\* Expiry keeps the types, and a table only loses entries.
LEMMA ExpiryType ==
  ASSUME TypeOK
  PROVE  /\ LiveSessions \in [Ids -> Session \cup {Absent}]
         /\ KeptOpens \in [Grants \X Nonces -> Opening \cup {Absent}]
         /\ KeptRecords \in [Keys -> Record \cup {Absent}]
         /\ \A s \in Ids : LiveSessions[s] \in {sessions[s], Absent}
BY DEF TypeOK, LiveSessions, KeptOpens, KeptRecords

\* A new record has the type of the table it joins.
LEMMA RememberedType ==
  ASSUME TypeOK, RegistryAssumption, NEW key \in Keys, NEW content \in Contents
  PROVE  Remembered(KeptRecords, key, content) \in [Keys -> Record \cup {Absent}]
<1> DEFINE record == [digest |-> content, deadline |-> now + Retention,
                      received |-> now, answer |-> "none", queued |-> FALSE,
                      pendingUntil |-> 0, stamp |-> arrivals]
<1>1. record \in Record
  BY DEF TypeOK, RegistryAssumption, Record, Answers
<1>2. \A k \in Keys : KeptRecords[k] \in Record \cup {Absent}
  BY ExpiryType
<1> QED
  BY <1>1, <1>2 DEF Remembered

\* An opening joins the table of openings with its type, whatever leaves it.
LEMMA OpensWithType ==
  ASSUME TypeOK, NEW key \in Grants \X Nonces, NEW entry \in Opening
  PROVE  OpensWith(key, entry) \in [Grants \X Nonces -> Opening \cup {Absent}]
<1>1. [KeptOpens EXCEPT ![key] = entry] \in [Grants \X Nonces -> Opening \cup {Absent}]
  BY ExpiryType
<1> QED
  BY <1>1 DEF OpensWith

\* A first sequence and a renewed deadline are in range.
LEMMA RangeFacts ==
  ASSUME TypeOK, RegistryAssumption
  PROVE  /\ \A s \in Ids : <<s, 1>> \in Keys
         /\ now + Lease \in Nat /\ now + Retention \in Nat
<1>1. 1 \in 1..LastSeq
  BY DEF RegistryAssumption
<1>2. now \in Nat /\ Lease \in Nat /\ Retention \in Nat
  BY DEF TypeOK, RegistryAssumption
<1> QED
  BY <1>1, <1>2 DEF Keys

\* Feedback keeps the types when the record it keeps has one.
LEMMA KeepType ==
  ASSUME TypeOK, NEW key \in Keys, NEW record \in Record,
         NEW table \in [Keys -> Record \cup {Absent}],
         Keep(table, key, record),
         sessions' \in [Ids -> Session \cup {Absent}],
         opens' \in [Grants \X Nonces -> Opening \cup {Absent}]
  PROVE  TypeOK'
<1>1. record.answer \in Answers
  BY DEF Record
<1>2. answered' \in [Keys -> Answers]
  BY <1>1 DEF Keep, TypeOK
<1>3. records' \in [Keys -> Record \cup {Absent}]
  BY DEF Keep
<1> QED
  BY <1>2, <1>3 DEF Keep, TypeOK

-----------------------------------------------------------------------------
(* Type correctness.                                                       *)

LEMMA RegistryTypeInit == RegistryAssumption /\ Init => TypeOK
<1> SUFFICES ASSUME RegistryAssumption, Init PROVE TypeOK
  OBVIOUS
<1>1. nextId \in 1..(LastId + 1) /\ now \in Nat /\ arrivals \in Nat
  BY DEF RegistryAssumption, Init
<1>4. closed \in BOOLEAN
  BY DEF Init
<1>2. /\ sessions \in [Ids -> Session \cup {Absent}]
      /\ opens \in [Grants \X Nonces -> Opening \cup {Absent}]
      /\ records \in [Keys -> Record \cup {Absent}]
      /\ told \in Replay \cup {Absent}
  BY DEF Init
<1>3. admissions \in [Keys -> Nat] /\ answered \in [Keys -> Answers]
  BY DEF Init, Answers
<1> QED
  BY <1>1, <1>2, <1>3, <1>4 DEF TypeOK

\* Requests: the openings and the messages of open sessions.
LEMMA RequestType ==
  ASSUME TypeOK, RegistryAssumption, NEW g \in Grants, Request(g)
  PROVE  TypeOK'
<1> USE ExpiryType
<1>1. ASSUME NEW n \in Nonces, NEW c \in Openings, OpenAgain(g, n, c) PROVE TypeOK'
  <2> DEFINE entry == KeptOpens[<<g, n>>]
             record == KeptRecords[<<entry.sid, 1>>]
  <2>1. entry \in Opening
    BY <1>1 DEF OpenAgain
  <2>2. entry.sid \in Ids /\ <<entry.sid, 1>> \in Keys
    BY <2>1, RangeFacts DEF Opening
  <2>3. record \in Record
    BY <1>1, <2>2 DEF OpenAgain
  <2>4. record.answer \in Answers
    BY <2>3 DEF Record
  <2>5. told' \in Replay
    BY <1>1, <2>2, <2>4 DEF OpenAgain, Replay
  <2> QED
    BY <1>1, <2>5 DEF OpenAgain, Expire, TypeOK, history
<1>2. ASSUME NEW n \in Nonces, NEW c \in Openings, Open(g, n, c) PROVE TypeOK'
  <2> DEFINE session == [grant |-> g, nonce |-> n, deadline |-> now + Lease, lastRx |-> 1]
             entry == [digest |-> c, sid |-> nextId, deadline |-> now + Retention]
  <2>1. nextId \in Ids /\ nextId + 1 \in 1..(LastId + 1) /\ <<nextId, 1>> \in Keys
    <3>1. nextId \in 1..(LastId + 1) /\ nextId <= LastId /\ LastId \in Nat
      BY <1>2 DEF Open, Allocatable, TypeOK, RegistryAssumption
    <3> QED
      BY <3>1, RangeFacts DEF Ids
  <2>2. session \in Session
    BY <1>2 DEF TypeOK, RegistryAssumption, Session
  <2>3. entry \in Opening
    BY <2>1 DEF TypeOK, RegistryAssumption, Opening
  <2>4. sessions' \in [Ids -> Session \cup {Absent}]
    BY <1>2, <2>2 DEF Open
  <2>5. opens' \in [Grants \X Nonces -> Opening \cup {Absent}]
    BY <1>2, <2>3, OpensWithType DEF Open
  <2>6. records' \in [Keys -> Record \cup {Absent}]
    BY <1>2, <2>1, RememberedType DEF Open, Contents
  <2>7. admissions' \in [Keys -> Nat] /\ arrivals' \in Nat
    BY <1>2, <2>1 DEF Open, Admitted, TypeOK
  <2> QED
    BY <1>2, <2>1, <2>4, <2>5, <2>6, <2>7 DEF Open, Admitted, TypeOK
<1>3. ASSUME NEW k \in Keys, NEW c \in Contents \ Openings, AcceptAgain(g, k, c)
      PROVE  TypeOK'
  <2>1. KeptRecords[k] \in Record
    BY <1>3 DEF AcceptAgain
  <2>2. KeptRecords[k].answer \in Answers
    BY <2>1 DEF Record
  <2>3. told' \in Replay
    BY <1>3, <2>2 DEF AcceptAgain, Replay
  <2> QED
    BY <1>3, <2>3 DEF AcceptAgain, Expire, TypeOK, history
<1>4. ASSUME NEW k \in Keys, NEW c \in Contents \ Openings, Accept(g, k, c)
      PROVE  TypeOK'
  <2>1. k[1] \in Ids /\ k[2] \in Nat
    BY DEF Keys
  <2>2. LiveSessions[k[1]] \in Session
    BY <1>4, <2>1 DEF Accept, Authorized
  <2>3. RenewedLease(k[1], c) \in Nat
    BY <2>2 DEF RenewedLease, Session, TypeOK, RegistryAssumption
  <2>4. [LiveSessions[k[1]] EXCEPT !.lastRx = k[2], !.deadline = RenewedLease(k[1], c)]
          \in Session
    BY <2>1, <2>2, <2>3 DEF Session
  <2>5. sessions' \in [Ids -> Session \cup {Absent}]
    BY <1>4, <2>1, <2>4 DEF Accept
  <2>6. records' \in [Keys -> Record \cup {Absent}]
    BY <1>4, RememberedType DEF Accept
  <2>7. admissions' \in [Keys -> Nat] /\ arrivals' \in Nat
    BY <1>4 DEF Accept, Admitted, TypeOK
  <2> QED
    BY <1>4, <2>5, <2>6, <2>7 DEF Accept, Admitted, TypeOK
<1> QED
  BY <1>1, <1>2, <1>3, <1>4 DEF Request

\* Feedback of the receiver and of the services.
LEMMA FeedbackType ==
  ASSUME TypeOK, RegistryAssumption, NEW k \in Keys, Feedback(k)
  PROVE  TypeOK'
<1> USE ExpiryType
<1>1. ASSUME NEW a \in {"received", "failed"}, RecordResponse(k, a) PROVE TypeOK'
  <2>1. [KeptRecords[k] EXCEPT !.answer = a] \in Record
    BY <1>1 DEF RecordResponse, Record, Answers
  <2> QED
    BY <1>1, <2>1, KeepType DEF RecordResponse, Expire
<1>2. CASE RecordApplied(k)
  <2>1. records[k] \in Record
    BY <1>2 DEF RecordApplied, TypeOK
  <2>2. [records[k] EXCEPT !.answer = "applied", !.deadline = now + Retention] \in Record
    BY <2>1, RangeFacts DEF Record, Answers
  <2> QED
    BY <1>2, <2>2, KeepType DEF RecordApplied, TypeOK
<1>3. ASSUME NEW a \in {"applied", "failed"}, RecordLifecycle(k, a) PROVE TypeOK'
  <2>1. records[k] \in Record
    BY <1>3 DEF RecordLifecycle, TypeOK
  <2>2. [records[k] EXCEPT !.answer = a, !.deadline = now + Retention] \in Record
    BY <2>1, RangeFacts DEF Record, Answers
  <2> QED
    BY <1>3, <2>2, KeepType DEF RecordLifecycle, TypeOK
<1>4. CASE Defer(k)
  <2>1. KeptRecords[k] \in Record /\ KeptRecords[k].digest \in Chunks
    BY <1>4 DEF Defer
  <2>2. KeptRecords[k].received + ChunkTimeout[KeptRecords[k].digest] \in Nat
    BY <2>1 DEF Record, RegistryAssumption
  <2>3. [KeptRecords[k] EXCEPT !.answer = "received",
           !.pendingUntil = KeptRecords[k].received + ChunkTimeout[KeptRecords[k].digest]]
          \in Record
    BY <2>1, <2>2 DEF Record, Answers
  <2> QED
    BY <1>4, <2>3, KeepType DEF Defer, Expire
<1>5. ASSUME NEW a \in {"committed", "rejected"}, Finish(k, a) PROVE TypeOK'
  <2>1. KeptRecords[k] \in Record
    BY <1>5 DEF Finish
  <2>2. [KeptRecords[k] EXCEPT !.answer = a, !.pendingUntil = 0,
                               !.deadline = now + Retention] \in Record
    BY <2>1, RangeFacts DEF Record, Answers
  <2> QED
    BY <1>5, <2>2, KeepType DEF Finish, Expire
<1> QED
  BY <1>1, <1>2, <1>3, <1>4, <1>5 DEF Feedback

LEMMA RegistryTypeStep == RegistryAssumption /\ TypeOK /\ [Next]_vars => TypeOK'
<1> SUFFICES ASSUME RegistryAssumption, TypeOK, [Next]_vars PROVE TypeOK'
  OBVIOUS
<1>1. ASSUME NEW g \in Grants, Request(g) PROVE TypeOK'
  BY <1>1, RequestType
<1>2. ASSUME NEW k \in Keys, Feedback(k) PROVE TypeOK'
  BY <1>2, FeedbackType
<1>3. ASSUME NEW k \in Keys, Claim(k) PROVE TypeOK'
  <2>1. [KeptRecords[k] EXCEPT !.queued = TRUE] \in Record
    BY <1>3, ExpiryType DEF Claim, Record
  <2> QED
    BY <1>3, <2>1, ExpiryType DEF Claim, Expire, TypeOK, history
<1>4. CASE Refuse
  BY <1>4, ExpiryType DEF Refuse, Expire, TypeOK, history
<1>5. ASSUME NEW s \in Ids, Revoke(s) PROVE TypeOK'
  BY <1>5 DEF Revoke, TypeOK, history
<1>6. CASE Close
  BY <1>6 DEF Close, TypeOK, history
<1>7. CASE RefuseClosed \/ UNCHANGED vars
  BY <1>7 DEF RefuseClosed, vars, TypeOK
<1>8. CASE Tick
  BY <1>8 DEF Tick, TypeOK, history, RegistryAssumption
<1> QED
  BY <1>1, <1>2, <1>3, <1>4, <1>5, <1>6, <1>7, <1>8 DEF Next

\* The tables, the clock and the counters always have their types, whatever
\* is opened, evicted, expired or completed.
THEOREM RegistryTypeCorrect == Spec => []TypeOK
<1>1. Init => TypeOK
  BY RegistryAssumption, RegistryTypeInit
<1>2. TypeOK /\ [Next]_vars => TypeOK'
  BY RegistryAssumption, RegistryTypeStep
<1> QED
  BY <1>1, <1>2, PTL DEF Spec

-----------------------------------------------------------------------------
(* Admission at most once.  A key in use lies below what its session has    *)
(* seen, or its session is gone and ids are never given again.             *)

OnceInv ==
  /\ AdmittedOnce
  /\ \A k \in Keys : admissions[k] # 0 => k[1] < nextId
  /\ \A k \in Keys : admissions[k] # 0 /\ sessions[k[1]] # Absent
                       => k[2] <= sessions[k[1]].lastRx
  /\ \A s \in Ids : sessions[s] # Absent => s < nextId

\* Whatever admits nothing and at most ends sessions keeps the invariant.
LEMMA OnceShrinks ==
  ASSUME OnceInv, UNCHANGED <<admissions, nextId>>,
         \A s \in Ids : sessions'[s] \in {sessions[s], Absent}
  PROVE  OnceInv'
<1>1. \A k \in Keys : k[1] \in Ids
  BY DEF Keys
<1> QED
  BY <1>1 DEF OnceInv, AdmittedOnce

\* A new session has a new id, of which nothing was admitted before.
LEMMA OnceOpen ==
  ASSUME TypeOK, RegistryAssumption, OnceInv, NEW g \in Grants, NEW n \in Nonces,
         NEW c \in Openings, Open(g, n, c)
  PROVE  OnceInv'
<1> DEFINE key == <<nextId, 1>>
           session == [grant |-> g, nonce |-> n, deadline |-> now + Lease, lastRx |-> 1]
<1>1. nextId \in Ids /\ nextId \in Nat
  BY DEF Open, Allocatable, TypeOK, Ids, RegistryAssumption
<1>2. key \in Keys /\ key[1] = nextId /\ key[2] = 1
  BY <1>1, RangeFacts
<1>3. /\ admissions' = [admissions EXCEPT ![key] = @ + 1]
      /\ sessions' = [LiveSessions EXCEPT ![nextId] = session]
      /\ nextId' = nextId + 1
  BY DEF Open, Admitted
<1>4. admissions[key] = 0
  BY <1>1, <1>2 DEF OnceInv, TypeOK
<1>5. \A k \in Keys : /\ k[1] \in Ids /\ k[1] \in Nat /\ k[2] \in Nat
                      /\ k[1] = nextId /\ admissions'[k] # 0 => k = key
  <2>1. \A k \in Keys : k[1] \in Ids /\ k[1] \in Nat /\ k[2] \in Nat
    BY DEF Keys, Ids
  <2>2. ASSUME NEW k \in Keys, k[1] = nextId, admissions'[k] # 0 PROVE k = key
    <3>1. admissions[k] = 0
      BY <1>1, <2>2 DEF OnceInv, TypeOK
    <3> QED
      BY <1>2, <1>3, <2>2, <3>1 DEF TypeOK
  <2> QED
    BY <2>1, <2>2
<1>6. AdmittedOnce'
  BY <1>2, <1>3, <1>4 DEF OnceInv, AdmittedOnce, TypeOK
<1>7. \A k \in Keys : admissions'[k] # 0 => k[1] < nextId'
  <2> SUFFICES ASSUME NEW k \in Keys, admissions'[k] # 0 PROVE k[1] < nextId'
    OBVIOUS
  <2>1. CASE k = key
    BY <2>1, <1>1, <1>2, <1>3
  <2>2. CASE k # key
    <3>1. admissions[k] # 0
      BY <2>2, <1>2, <1>3 DEF TypeOK
    <3> QED
      BY <3>1, <1>1, <1>3, <1>5 DEF OnceInv
  <2> QED
    BY <2>1, <2>2
<1>8. \A k \in Keys : admissions'[k] # 0 /\ sessions'[k[1]] # Absent
                        => k[2] <= sessions'[k[1]].lastRx
  <2> SUFFICES ASSUME NEW k \in Keys, admissions'[k] # 0, sessions'[k[1]] # Absent
               PROVE  k[2] <= sessions'[k[1]].lastRx
    OBVIOUS
  <2>1. CASE k[1] = nextId
    <3>1. k[2] = 1
      BY <2>1, <1>2, <1>5
    <3>2. sessions'[k[1]] = session
      BY <2>1, <1>1, <1>3, ExpiryType
    <3> QED
      BY <3>1, <3>2
  <2>2. CASE k[1] # nextId
    <3>1. admissions[k] # 0
      BY <2>2, <1>2, <1>3 DEF TypeOK
    <3>2. sessions'[k[1]] = sessions[k[1]]
      BY <2>2, <1>1, <1>3, <1>5, ExpiryType
    <3> QED
      BY <3>1, <3>2 DEF OnceInv
  <2> QED
    BY <2>1, <2>2
<1>9. \A s \in Ids : sessions'[s] # Absent => s < nextId'
  <2> SUFFICES ASSUME NEW s \in Ids, sessions'[s] # Absent PROVE s < nextId'
    OBVIOUS
  <2>1. CASE s = nextId
    BY <2>1, <1>1, <1>3
  <2>2. CASE s # nextId
    <3>1. sessions[s] # Absent
      BY <2>2, <1>3, ExpiryType
    <3> QED
      BY <3>1, <1>1, <1>3 DEF OnceInv, Ids
  <2> QED
    BY <2>1, <2>2
<1> QED
  BY <1>6, <1>7, <1>8, <1>9 DEF OnceInv, AdmittedOnce

\* A request that is fresh lies beyond everything its session has seen.
LEMMA OnceAccept ==
  ASSUME TypeOK, RegistryAssumption, OnceInv, NEW g \in Grants, NEW key \in Keys,
         NEW c \in Contents \ Openings, Accept(g, key, c)
  PROVE  OnceInv'
<1>1. key[1] \in Ids /\ key[1] \in Nat /\ key[2] \in Nat
  BY DEF Keys, Ids
<1>2. LiveSessions[key[1]] # Absent /\ LiveSessions[key[1]] = sessions[key[1]]
  BY <1>1, ExpiryType DEF Accept, Authorized
<1>3. sessions[key[1]] \in Session /\ key[2] > sessions[key[1]].lastRx
  BY <1>1, <1>2 DEF Accept, IsFresh, TypeOK
<1>4. admissions[key] = 0
  BY <1>1, <1>2, <1>3 DEF OnceInv, Session
<1>5. /\ admissions' = [admissions EXCEPT ![key] = @ + 1]
      /\ nextId' = nextId
  BY DEF Accept, Admitted
<1>6. \A s \in Ids : s # key[1] => sessions'[s] \in {sessions[s], Absent}
  BY <1>1, ExpiryType DEF Accept
<1>7. sessions'[key[1]].lastRx = key[2]
  <2> DEFINE renewed == [LiveSessions[key[1]] EXCEPT !.lastRx = key[2],
                           !.deadline = RenewedLease(key[1], c)]
  <2>1. sessions'[key[1]] = renewed
    BY <1>1, ExpiryType DEF Accept
  <2>2. renewed.lastRx = key[2]
    BY <1>2, <1>3 DEF Session
  <2> QED
    BY <2>1, <2>2
<1>8. AdmittedOnce'
  BY <1>4, <1>5 DEF OnceInv, AdmittedOnce, TypeOK
<1>9. \A k \in Keys : admissions'[k] # 0 => k[1] < nextId'
  BY <1>1, <1>2, <1>5 DEF OnceInv, TypeOK
<1>10. \A k \in Keys : admissions'[k] # 0 /\ sessions'[k[1]] # Absent
                         => k[2] <= sessions'[k[1]].lastRx
  <2> SUFFICES ASSUME NEW k \in Keys, admissions'[k] # 0, sessions'[k[1]] # Absent
               PROVE  k[2] <= sessions'[k[1]].lastRx
    OBVIOUS
  <2>1. k[1] \in Ids /\ k[2] \in Nat
    BY DEF Keys
  <2>2. CASE k = key
    BY <2>2, <1>1, <1>7
  <2>3. CASE k # key
    <3>1. admissions[k] # 0
      BY <2>3, <1>5 DEF TypeOK
    <3>2. CASE k[1] = key[1]
      <4>1. k[2] <= sessions[key[1]].lastRx
        BY <3>1, <3>2, <1>2 DEF OnceInv
      <4> QED
        BY <4>1, <3>2, <2>1, <1>1, <1>3, <1>7 DEF Session
    <3>3. CASE k[1] # key[1]
      <4>1. sessions'[k[1]] = sessions[k[1]]
        BY <3>3, <2>1, <1>6
      <4> QED
        BY <4>1, <3>1 DEF OnceInv
    <3> QED
      BY <3>2, <3>3
  <2> QED
    BY <2>2, <2>3
<1>11. \A s \in Ids : sessions'[s] # Absent => s < nextId'
  BY <1>2, <1>5, <1>6 DEF OnceInv
<1> QED
  BY <1>8, <1>9, <1>10, <1>11 DEF OnceInv, AdmittedOnce

LEMMA OnceInit == Init => OnceInv
BY DEF Init, OnceInv, AdmittedOnce

LEMMA OnceStep ==
  RegistryAssumption /\ TypeOK /\ OnceInv /\ [Next]_vars => OnceInv'
<1> SUFFICES ASSUME RegistryAssumption, TypeOK, OnceInv, [Next]_vars PROVE OnceInv'
  OBVIOUS
<1> USE OnceShrinks, ExpiryType
<1>1. ASSUME NEW g \in Grants, Request(g) PROVE OnceInv'
  <2>1. ASSUME NEW n \in Nonces, NEW c \in Openings, OpenAgain(g, n, c) PROVE OnceInv'
    BY <2>1 DEF OpenAgain, Expire, history
  <2>2. ASSUME NEW k \in Keys, NEW c \in Contents \ Openings, AcceptAgain(g, k, c)
        PROVE  OnceInv'
    BY <2>2 DEF AcceptAgain, Expire, history
  <2> QED
    BY <1>1, <2>1, <2>2, OnceOpen, OnceAccept DEF Request
<1>2. ASSUME NEW k \in Keys, Feedback(k) PROVE OnceInv'
  <2>1. ASSUME NEW a \in {"received", "failed"}, RecordResponse(k, a) PROVE OnceInv'
    BY <2>1 DEF RecordResponse, Keep, Expire
  <2>2. CASE RecordApplied(k)
    BY <2>2 DEF RecordApplied, Keep
  <2>3. ASSUME NEW a \in {"applied", "failed"}, RecordLifecycle(k, a) PROVE OnceInv'
    BY <2>3 DEF RecordLifecycle, Keep
  <2>4. CASE Defer(k)
    BY <2>4 DEF Defer, Keep, Expire
  <2>5. ASSUME NEW a \in {"committed", "rejected"}, Finish(k, a) PROVE OnceInv'
    BY <2>5 DEF Finish, Keep, Expire
  <2> QED
    BY <1>2, <2>1, <2>2, <2>3, <2>4, <2>5 DEF Feedback
<1>3. ASSUME NEW k \in Keys, Claim(k) PROVE OnceInv'
  BY <1>3 DEF Claim, Expire, history
<1>4. CASE Refuse
  BY <1>4 DEF Refuse, Expire, history
<1>5. ASSUME NEW s \in Ids, Revoke(s) PROVE OnceInv'
  BY <1>5 DEF Revoke, history, TypeOK
<1>6. CASE Close
  BY <1>6 DEF Close, history
<1>7. CASE RefuseClosed \/ UNCHANGED vars
  BY <1>7 DEF RefuseClosed, vars
<1>8. CASE Tick
  BY <1>8 DEF Tick, history
<1> QED
  BY <1>1, <1>2, <1>3, <1>4, <1>5, <1>6, <1>7, <1>8 DEF Next

\* However the cache is evicted and sessions end and open again, no request is
\* handed to its consumer as fresh a second time.
THEOREM AtMostOnce == Spec => []AdmittedOnce
<1>1. Init => TypeOK /\ OnceInv
  BY RegistryAssumption, RegistryTypeInit, OnceInit
<1>2. TypeOK /\ OnceInv /\ [Next]_vars => (TypeOK /\ OnceInv)'
  BY RegistryAssumption, RegistryTypeStep, OnceStep
<1>3. OnceInv => AdmittedOnce
  BY DEF OnceInv
<1> QED
  BY <1>1, <1>2, <1>3, PTL DEF Spec

-----------------------------------------------------------------------------
(* Leases.                                                                 *)

\* What LapsedStaysLapsed says of one step.
Lapses ==
  \A s \in Held(sessions) :
    now >= sessions[s].deadline =>
      /\ sessions'[s] \in {sessions[s], Absent}
      /\ \A q \in 1..LastSeq : admissions'[<<s, q>>] = admissions[<<s, q>>]

\* Whatever admits nothing and at most ends sessions revives none.
LEMMA LapsesShrinks ==
  ASSUME TypeOK, UNCHANGED admissions,
         \A s \in Ids : sessions'[s] \in {sessions[s], Absent}
  PROVE  Lapses
BY DEF Lapses, Held, TypeOK

\* A lapsed session is not live, and a new one is none of those there were.
LEMMA LapsesRequest ==
  ASSUME TypeOK, RegistryAssumption, OnceInv, NEW g \in Grants, Request(g)
  PROVE  Lapses
<1>1. Held(sessions) \subseteq Ids
  BY DEF Held, TypeOK
<1>2. \A s \in Held(sessions) : now >= sessions[s].deadline => LiveSessions[s] = Absent
  <2>1. \A s \in Held(sessions) : sessions[s] \in Session
    BY DEF Held, TypeOK
  <2>2. \A s \in Held(sessions) : sessions[s].deadline \in Nat /\ now \in Nat
    BY <2>1 DEF Session, TypeOK
  <2> QED
    BY <1>1, <2>2 DEF LiveSessions
<1>3. ASSUME NEW n \in Nonces, NEW c \in Openings, Open(g, n, c) PROVE Lapses
  <2>1. \A s \in Held(sessions) : s # nextId
    <3>1. nextId \in Nat /\ \A s \in Ids : s \in Nat
      BY DEF TypeOK, Ids
    <3> QED
      BY <1>1, <3>1 DEF OnceInv, Held
  <2>2. <<nextId, 1>> \in Keys
    BY <1>3, RangeFacts, SMTT(30) DEF Open, Allocatable, TypeOK, Ids, RegistryAssumption
  <2>3. \A s \in Held(sessions) : sessions'[s] \in {sessions[s], Absent}
    BY <1>1, <1>3, <2>1, ExpiryType DEF Open
  <2>4. \A s \in Held(sessions), q \in 1..LastSeq :
          admissions'[<<s, q>>] = admissions[<<s, q>>]
    <3> SUFFICES ASSUME NEW s \in Held(sessions), NEW q \in 1..LastSeq
                 PROVE  admissions'[<<s, q>>] = admissions[<<s, q>>]
      OBVIOUS
    <3>1. <<s, q>> \in Keys /\ <<s, q>> # <<nextId, 1>>
      BY <1>1, <2>1 DEF Keys
    <3> QED
      BY <1>3, <3>1 DEF Open, Admitted, TypeOK
  <2> QED
    BY <2>3, <2>4 DEF Lapses
<1>4. ASSUME NEW k \in Keys, NEW c \in Contents \ Openings, Accept(g, k, c) PROVE Lapses
  <2> SUFFICES ASSUME NEW s \in Held(sessions), now >= sessions[s].deadline
               PROVE  /\ sessions'[s] \in {sessions[s], Absent}
                      /\ \A q \in 1..LastSeq : admissions'[<<s, q>>] = admissions[<<s, q>>]
    BY DEF Lapses
  <2>1. s \in Ids /\ s # k[1]
    BY <1>1, <1>2, <1>4 DEF Accept, Authorized
  <2>2. sessions'[s] \in {sessions[s], Absent}
    BY <1>4, <2>1, ExpiryType DEF Accept
  <2>3. ASSUME NEW q \in 1..LastSeq PROVE admissions'[<<s, q>>] = admissions[<<s, q>>]
    <3>1. <<s, q>> \in Keys /\ <<s, q>> # k
      BY <2>1 DEF Keys
    <3> QED
      BY <1>4, <3>1 DEF Accept, Admitted, TypeOK
  <2> QED
    BY <2>2, <2>3
<1>5. ASSUME NEW n \in Nonces, NEW c \in Openings, OpenAgain(g, n, c) PROVE Lapses
  BY <1>5, ExpiryType, LapsesShrinks DEF OpenAgain, Expire, history
<1>6. ASSUME NEW k \in Keys, NEW c \in Contents \ Openings, AcceptAgain(g, k, c)
      PROVE  Lapses
  BY <1>6, ExpiryType, LapsesShrinks DEF AcceptAgain, Expire, history
<1> QED
  BY <1>3, <1>4, <1>5, <1>6 DEF Request

LEMMA LapsesStep == RegistryAssumption /\ TypeOK /\ OnceInv /\ [Next]_vars => Lapses
<1> SUFFICES ASSUME RegistryAssumption, TypeOK, OnceInv, [Next]_vars PROVE Lapses
  OBVIOUS
<1> USE LapsesShrinks, ExpiryType
<1>1. ASSUME NEW g \in Grants, Request(g) PROVE Lapses
  BY <1>1, LapsesRequest
<1>2. ASSUME NEW k \in Keys, Feedback(k) PROVE Lapses
  <2>1. ASSUME NEW a \in {"received", "failed"}, RecordResponse(k, a) PROVE Lapses
    BY <2>1 DEF RecordResponse, Keep, Expire
  <2>2. CASE RecordApplied(k)
    BY <2>2 DEF RecordApplied, Keep
  <2>3. ASSUME NEW a \in {"applied", "failed"}, RecordLifecycle(k, a) PROVE Lapses
    BY <2>3 DEF RecordLifecycle, Keep
  <2>4. CASE Defer(k)
    BY <2>4 DEF Defer, Keep, Expire
  <2>5. ASSUME NEW a \in {"committed", "rejected"}, Finish(k, a) PROVE Lapses
    BY <2>5 DEF Finish, Keep, Expire
  <2> QED
    BY <1>2, <2>1, <2>2, <2>3, <2>4, <2>5 DEF Feedback
<1>3. ASSUME NEW k \in Keys, Claim(k) PROVE Lapses
  BY <1>3 DEF Claim, Expire, history
<1>4. CASE Refuse
  BY <1>4 DEF Refuse, Expire, history
<1>5. ASSUME NEW s \in Ids, Revoke(s) PROVE Lapses
  BY <1>5 DEF Revoke, history, TypeOK
<1>6. CASE Close
  BY <1>6 DEF Close, history
<1>7. CASE RefuseClosed \/ UNCHANGED vars
  BY <1>7 DEF RefuseClosed, vars
<1>8. CASE Tick
  BY <1>8 DEF Tick, history
<1> QED
  BY <1>1, <1>2, <1>3, <1>4, <1>5, <1>6, <1>7, <1>8 DEF Next

\* Once a lease has run out nothing revives it: no heartbeat renews it and no
\* request is admitted to its session.
THEOREM LeasesLapse == Spec => LapsedStaysLapsed
<1>1. Init => TypeOK /\ OnceInv
  BY RegistryAssumption, RegistryTypeInit, OnceInit
<1>2. TypeOK /\ OnceInv /\ [Next]_vars => (TypeOK /\ OnceInv)'
  BY RegistryAssumption, RegistryTypeStep, OnceStep
<1>3. TypeOK /\ OnceInv /\ [Next]_vars => [Lapses]_vars
  BY RegistryAssumption, LapsesStep
<1>4. LapsedStaysLapsed <=> [][Lapses]_vars
  BY DEF LapsedStaysLapsed, Lapses
<1> QED
  BY <1>1, <1>2, <1>3, <1>4, PTL DEF Spec

-----------------------------------------------------------------------------
(* Every step but Open and Accept only ends sessions and admits nothing.   *)

Quiet ==
  /\ UNCHANGED <<admissions, nextId>>
  /\ \A s \in Ids : sessions'[s] \in {sessions[s], Absent}

LEMMA StepShape ==
  ASSUME TypeOK, [Next]_vars
  PROVE  \/ \E g \in Grants, n \in Nonces, c \in Openings : Open(g, n, c)
         \/ \E g \in Grants, k \in Keys, c \in Contents \ Openings : Accept(g, k, c)
         \/ Quiet
<1> USE ExpiryType DEF Quiet
<1>1. ASSUME NEW g \in Grants, NEW n \in Nonces, NEW c \in Openings, OpenAgain(g, n, c)
      PROVE  Quiet
  BY <1>1 DEF OpenAgain, Expire, history
<1>2. ASSUME NEW g \in Grants, NEW k \in Keys, NEW c \in Contents, AcceptAgain(g, k, c)
      PROVE  Quiet
  BY <1>2 DEF AcceptAgain, Expire, history
<1>3. ASSUME NEW k \in Keys, Feedback(k) PROVE Quiet
  <2>1. ASSUME NEW a \in {"received", "failed"}, RecordResponse(k, a) PROVE Quiet
    BY <2>1 DEF RecordResponse, Keep, Expire
  <2>2. CASE RecordApplied(k)
    BY <2>2 DEF RecordApplied, Keep
  <2>3. ASSUME NEW a \in {"applied", "failed"}, RecordLifecycle(k, a) PROVE Quiet
    BY <2>3 DEF RecordLifecycle, Keep
  <2>4. CASE Defer(k)
    BY <2>4 DEF Defer, Keep, Expire
  <2>5. ASSUME NEW a \in {"committed", "rejected"}, Finish(k, a) PROVE Quiet
    BY <2>5 DEF Finish, Keep, Expire
  <2> QED
    BY <1>3, <2>1, <2>2, <2>3, <2>4, <2>5 DEF Feedback
<1>4. ASSUME NEW k \in Keys, Claim(k) PROVE Quiet
  BY <1>4 DEF Claim, Expire, history
<1>5. ASSUME NEW s \in Ids, Revoke(s) PROVE Quiet
  BY <1>5 DEF Revoke, history, TypeOK
<1>6. CASE Refuse \/ Close \/ RefuseClosed \/ Tick \/ UNCHANGED vars
  BY <1>6 DEF Refuse, Close, RefuseClosed, Tick, Expire, history, vars
<1> QED
  BY <1>1, <1>2, <1>3, <1>4, <1>5, <1>6 DEF Next, Request

-----------------------------------------------------------------------------
(* One nonce, one session.                                                 *)

LEMMA NonceStep == RegistryAssumption /\ TypeOK /\ NonceNamesOne /\ [Next]_vars => NonceNamesOne'
<1> SUFFICES ASSUME RegistryAssumption, TypeOK, NonceNamesOne, [Next]_vars
             PROVE  NonceNamesOne'
  OBVIOUS
<1>1. TypeOK'
  BY RegistryTypeStep
<1>2. /\ DOMAIN sessions = Ids /\ DOMAIN sessions' = Ids
      /\ \A s \in Ids : LiveSessions[s] \in {sessions[s], Absent}
  BY <1>1, ExpiryType DEF TypeOK
<1> SUFFICES ASSUME NEW s \in Ids, NEW t \in Ids, sessions'[s] # Absent, sessions'[t] # Absent,
                    sessions'[s].grant = sessions'[t].grant,
                    sessions'[s].nonce = sessions'[t].nonce
             PROVE  s = t
  BY <1>2 DEF NonceNamesOne, Held
<1>3. sessions[s] # Absent /\ sessions[t] # Absent
        /\ sessions[s].grant = sessions[t].grant /\ sessions[s].nonce = sessions[t].nonce
      => s = t
  BY <1>2 DEF NonceNamesOne, Held
<1>4. ASSUME NEW g \in Grants, NEW n \in Nonces, NEW c \in Openings, Open(g, n, c)
      PROVE  s = t
  <2> DEFINE session == [grant |-> g, nonce |-> n, deadline |-> now + Lease, lastRx |-> 1]
  <2>1. sessions' = [LiveSessions EXCEPT ![nextId] = session]
    BY <1>4 DEF Open
  <2>2. \A i \in Ids : sessions'[i] = IF i = nextId THEN session ELSE LiveSessions[i]
    BY <2>1, ExpiryType
  <2>3. \A i \in Ids : LiveSessions[i] # Absent
           => ~(LiveSessions[i].grant = g /\ LiveSessions[i].nonce = n)
    BY <1>4, ExpiryType DEF Open, Allocatable, Held
  <2>4. CASE s = nextId /\ t # nextId
    BY <2>2, <2>3, <2>4
  <2>5. CASE s # nextId /\ t = nextId
    BY <2>2, <2>3, <2>5
  <2>6. CASE s # nextId /\ t # nextId
    BY <1>2, <1>3, <2>2, <2>6
  <2> QED
    BY <2>4, <2>5, <2>6
<1>5. ASSUME NEW g \in Grants, NEW k \in Keys, NEW c \in Contents \ Openings, Accept(g, k, c)
      PROVE  s = t
  <2> DEFINE i == k[1]
  <2>1. i \in Ids /\ LiveSessions[i] \in Session /\ LiveSessions[i] = sessions[i]
    BY <1>5, <1>2, ExpiryType DEF Accept, Authorized, Keys
  <2>2. sessions' = [LiveSessions EXCEPT ![i] = [@ EXCEPT !.lastRx = k[2],
                                                        !.deadline = RenewedLease(i, c)]]
    BY <1>5 DEF Accept
  <2>3. sessions'[i].grant = sessions[i].grant /\ sessions'[i].nonce = sessions[i].nonce
    BY <2>1, <2>2, ExpiryType DEF Session
  <2>4. \A j \in Ids : j # i => sessions'[j] = LiveSessions[j]
    BY <2>2, ExpiryType
  <2>5. sessions[i] # Absent
    BY <1>5, <2>1 DEF Accept, Authorized
  <2> QED
    BY <1>2, <1>3, <2>1, <2>3, <2>4, <2>5
<1>6. CASE Quiet
  BY <1>3, <1>6 DEF Quiet
<1> QED
  BY <1>4, <1>5, <1>6, StepShape

\* One nonce of a grant names one live session, whatever the retry table has
\* forgotten by then.
THEOREM NonceUnique == Spec => []NonceNamesOne
<1>1. Init => TypeOK /\ NonceNamesOne
  BY RegistryAssumption, RegistryTypeInit DEF Init, NonceNamesOne, Held
<1>2. TypeOK /\ NonceNamesOne /\ [Next]_vars => (TypeOK /\ NonceNamesOne)'
  BY RegistryAssumption, RegistryTypeStep, NonceStep
<1> QED
  BY <1>1, <1>2, PTL DEF Spec

-----------------------------------------------------------------------------
(* Feedback.  The record of a key holds the last feedback kept for it, and  *)
(* only an admitted key has any: a key comes fresh with no feedback, and a  *)
(* result is added to RECEIVED alone.                                      *)

FeedbackInv ==
  /\ ToldStands
  /\ told # Absent => told.answer # "none"
  /\ \A k \in Keys : answered[k] # "none" => admissions[k] # 0
  /\ \A k \in Keys : records[k] # Absent =>
       /\ admissions[k] # 0 /\ records[k].answer = answered[k]
       /\ records[k].pendingUntil # 0 => records[k].answer = "received"

\* What AnswersStand says of one step.
AnswerStays ==
  \A k \in Keys : answered[k] # answered'[k] =>
    \/ answered[k] = "none"
    \/ /\ answered[k] = "received" /\ records[k].pendingUntil # 0
       /\ answered'[k] \in {"committed", "rejected"}

LEMMA KeptIsRecord == \A k \in Keys : KeptRecords[k] \in {records[k], Absent}
BY DEF KeptRecords

\* Steps that keep no feedback and admit nothing, whatever they forget.
LEMMA FeedbackForgets ==
  ASSUME FeedbackInv, UNCHANGED <<answered, admissions>>,
         \A k \in Keys : records'[k] # Absent =>
            /\ records[k] # Absent
            /\ records'[k].answer = records[k].answer
            /\ records'[k].pendingUntil = records[k].pendingUntil,
         told' \in {Absent, told} \/ (told'.answer # "none" /\ answered[told'.key] = told'.answer)
  PROVE  FeedbackInv' /\ AnswerStays
BY DEF FeedbackInv, ToldStands, AnswerStays

\* Feedback is kept for one key, in a table that has lost some records.
LEMMA FeedbackKept ==
  ASSUME TypeOK, FeedbackInv, NEW key \in Keys, NEW record \in Record,
         NEW table \in [Keys -> Record \cup {Absent}],
         \A k \in Keys : table[k] \in {records[k], Absent},
         records[key] # Absent, Keep(table, key, record),
         record.answer # "none",
         record.pendingUntil # 0 => record.answer = "received",
         \/ answered[key] = "none"
         \/ /\ answered[key] = "received" /\ records[key].pendingUntil # 0
            /\ record.answer \in {"committed", "rejected"}
  PROVE  FeedbackInv' /\ AnswerStays
<1>1. /\ records' = [table EXCEPT ![key] = record]
      /\ answered' = [answered EXCEPT ![key] = record.answer]
      /\ UNCHANGED <<told, admissions>>
  BY DEF Keep
<1>2. admissions[key] # 0
  BY DEF FeedbackInv
<1>3. \A k \in Keys : /\ answered'[k] = IF k = key THEN record.answer ELSE answered[k]
                      /\ records'[k] = IF k = key THEN record ELSE table[k]
  BY <1>1 DEF TypeOK
<1>4. told # Absent => told.key \in Keys /\ told.answer # "none"
  BY DEF FeedbackInv, TypeOK, Replay
<1>5. ToldStands'
  BY <1>1, <1>3, <1>4 DEF FeedbackInv, ToldStands
<1>6. \A k \in Keys : answered'[k] # "none" => admissions'[k] # 0
  BY <1>1, <1>2, <1>3 DEF FeedbackInv
<1>7. \A k \in Keys : records'[k] # Absent =>
        /\ admissions'[k] # 0 /\ records'[k].answer = answered'[k]
        /\ records'[k].pendingUntil # 0 => records'[k].answer = "received"
  BY <1>1, <1>2, <1>3 DEF FeedbackInv
<1>8. AnswerStays
  BY <1>3 DEF AnswerStays
<1> QED
  BY <1>1, <1>4, <1>5, <1>6, <1>7, <1>8 DEF FeedbackInv

\* A new record of a key nothing was admitted under.
LEMMA FeedbackAdmits ==
  ASSUME TypeOK, FeedbackInv, NEW key \in Keys, NEW content \in Contents,
         admissions[key] = 0, Admitted(key),
         records' = Remembered(KeptRecords, key, content)
  PROVE  FeedbackInv' /\ AnswerStays
<1>1. \A k \in Keys : k # key => records'[k] \in {records[k], Absent}
  BY KeptIsRecord DEF Remembered
<1>2. records'[key].answer = "none" /\ records'[key].pendingUntil = 0
  BY DEF Remembered
<1>3. answered[key] = "none"
  BY DEF FeedbackInv
<1>4. /\ told' = Absent /\ answered' = answered
      /\ \A k \in Keys : admissions'[k] = IF k = key THEN 1 ELSE admissions[k]
  BY DEF Admitted, TypeOK
<1> QED
  BY <1>1, <1>2, <1>3, <1>4 DEF FeedbackInv, ToldStands, AnswerStays

LEMMA FeedbackRequest ==
  ASSUME TypeOK, RegistryAssumption, OnceInv, FeedbackInv, NEW g \in Grants, Request(g)
  PROVE  FeedbackInv' /\ AnswerStays
<1>1. ASSUME NEW n \in Nonces, NEW c \in Openings, OpenAgain(g, n, c)
      PROVE  FeedbackInv' /\ AnswerStays
  <2> DEFINE entry == KeptOpens[<<g, n>>]
             record == KeptRecords[<<entry.sid, 1>>]
  <2>1. <<entry.sid, 1>> \in Keys
    BY <1>1, ExpiryType, RangeFacts DEF OpenAgain, Opening
  <2>2. record = records[<<entry.sid, 1>>] /\ record # Absent /\ record.answer # "none"
    BY <1>1, <2>1, KeptIsRecord DEF OpenAgain
  <2>3. told' = [key |-> <<entry.sid, 1>>, answer |-> record.answer]
    BY <1>1 DEF OpenAgain
  <2>4. told'.answer # "none" /\ answered[told'.key] = told'.answer
    BY <2>1, <2>2, <2>3 DEF FeedbackInv
  <2> QED
    BY <1>1, <2>4, KeptIsRecord, FeedbackForgets DEF OpenAgain, history
<1>2. ASSUME NEW n \in Nonces, NEW c \in Openings, Open(g, n, c)
      PROVE  FeedbackInv' /\ AnswerStays
  <2>1. nextId \in Ids /\ nextId \in Nat
    BY <1>2 DEF Open, Allocatable, TypeOK, Ids, RegistryAssumption
  <2>2. <<nextId, 1>> \in Keys
    BY <2>1, RangeFacts
  <2>3. admissions[<<nextId, 1>>] = 0
    BY <2>1, <2>2 DEF OnceInv, TypeOK
  <2> QED
    BY <1>2, <2>2, <2>3, FeedbackAdmits DEF Open, Contents
<1>3. ASSUME NEW k \in Keys, NEW c \in Contents, AcceptAgain(g, k, c)
      PROVE  FeedbackInv' /\ AnswerStays
  <2>1. KeptRecords[k] = records[k] /\ records[k] # Absent /\ records[k].answer # "none"
    BY <1>3, KeptIsRecord DEF AcceptAgain
  <2>2. told' = [key |-> k, answer |-> records[k].answer]
    BY <1>3, <2>1 DEF AcceptAgain
  <2>3. told'.answer # "none" /\ answered[told'.key] = told'.answer
    BY <2>1, <2>2 DEF FeedbackInv
  <2> QED
    BY <1>3, <2>3, KeptIsRecord, FeedbackForgets DEF AcceptAgain, history
<1>4. ASSUME NEW k \in Keys, NEW c \in Contents, Accept(g, k, c)
      PROVE  FeedbackInv' /\ AnswerStays
  <2>1. k[1] \in Ids /\ k[2] \in Nat
    BY DEF Keys
  <2>2. sessions[k[1]] \in Session /\ k[2] > sessions[k[1]].lastRx
    BY <1>4, <2>1, ExpiryType DEF Accept, Authorized, IsFresh, TypeOK
  <2>3. sessions[k[1]] # Absent
    BY <1>4, <2>1, ExpiryType DEF Accept, Authorized
  <2>4. admissions[k] = 0
    BY <2>1, <2>2, <2>3 DEF OnceInv, Session
  <2> QED
    BY <1>4, <2>4, FeedbackAdmits DEF Accept
<1> QED
  BY <1>1, <1>2, <1>3, <1>4 DEF Request

LEMMA FeedbackFeedback ==
  ASSUME TypeOK, RegistryAssumption, FeedbackInv, NEW key \in Keys, Feedback(key)
  PROVE  FeedbackInv' /\ AnswerStays
<1> DEFINE kept == KeptRecords[key]
<1>1. KeptRecords \in [Keys -> Record \cup {Absent}] /\ records \in [Keys -> Record \cup {Absent}]
  BY ExpiryType DEF TypeOK
<1>2. kept # Absent => /\ kept = records[key] /\ kept \in Record
  BY <1>1, KeptIsRecord
<1>3. records[key] # Absent => /\ records[key].answer = answered[key]
                               /\ records[key].pendingUntil # 0 => records[key].answer = "received"
  BY DEF FeedbackInv
<1>4. ASSUME NEW a \in {"received", "failed"}, RecordResponse(key, a)
      PROVE  FeedbackInv' /\ AnswerStays
  <2> DEFINE record == [kept EXCEPT !.answer = a]
  <2>1. kept # Absent /\ kept.answer = "none" /\ Keep(KeptRecords, key, record)
    BY <1>4 DEF RecordResponse, Answerable
  <2>2. record \in Record /\ record.answer = a /\ record.pendingUntil = 0
    BY <1>2, <1>3, <2>1 DEF Record, Answers
  <2> QED
    BY <1>1, <1>2, <1>3, <2>1, <2>2, KeptIsRecord, FeedbackKept
<1>5. CASE RecordApplied(key)
  <2> DEFINE record == [records[key] EXCEPT !.answer = "applied", !.deadline = now + Retention]
  <2>1. records[key] # Absent /\ records[key].answer = "none" /\ Keep(records, key, record)
    BY <1>5 DEF RecordApplied, Answerable
  <2>2. record \in Record /\ record.answer = "applied" /\ record.pendingUntil = 0
    BY <1>1, <1>3, <2>1, RangeFacts DEF Record, Answers
  <2> QED
    BY <1>1, <1>3, <2>1, <2>2, FeedbackKept
<1>6. ASSUME NEW a \in {"applied", "failed"}, RecordLifecycle(key, a)
      PROVE  FeedbackInv' /\ AnswerStays
  <2> DEFINE record == [records[key] EXCEPT !.answer = a, !.deadline = now + Retention]
  <2>1. records[key] # Absent /\ records[key].answer = "none" /\ Keep(records, key, record)
    BY <1>6 DEF RecordLifecycle, Answerable
  <2>2. record \in Record /\ record.answer = a /\ record.pendingUntil = 0
    BY <1>1, <1>3, <2>1, RangeFacts DEF Record, Answers
  <2> QED
    BY <1>1, <1>3, <2>1, <2>2, FeedbackKept
<1>7. CASE Defer(key)
  <2> DEFINE until == kept.received + ChunkTimeout[kept.digest]
             record == [kept EXCEPT !.answer = "received", !.pendingUntil = until]
  <2>1. kept # Absent /\ kept.answer = "none" /\ Keep(KeptRecords, key, record)
        /\ kept.digest \in Chunks
    BY <1>7 DEF Defer, Answerable
  <2>2. until \in Nat
    BY <1>2, <2>1 DEF Record, RegistryAssumption
  <2>3. record \in Record /\ record.answer = "received"
    BY <1>2, <2>1, <2>2 DEF Record, Answers
  <2> QED
    BY <1>1, <1>2, <1>3, <2>1, <2>3, KeptIsRecord, FeedbackKept
<1>8. ASSUME NEW a \in {"committed", "rejected"}, Finish(key, a)
      PROVE  FeedbackInv' /\ AnswerStays
  <2> DEFINE record == [kept EXCEPT !.answer = a, !.pendingUntil = 0,
                                    !.deadline = now + Retention]
  <2>1. kept # Absent /\ kept.pendingUntil # 0 /\ Keep(KeptRecords, key, record)
    BY <1>8 DEF Finish, Timely
  <2>2. record \in Record /\ record.answer = a /\ record.pendingUntil = 0
    BY <1>2, <2>1, RangeFacts DEF Record, Answers
  <2> QED
    BY <1>1, <1>2, <1>3, <2>1, <2>2, KeptIsRecord, FeedbackKept
<1> QED
  BY <1>4, <1>5, <1>6, <1>7, <1>8 DEF Feedback

LEMMA FeedbackStep ==
  RegistryAssumption /\ TypeOK /\ OnceInv /\ FeedbackInv /\ [Next]_vars
    => FeedbackInv' /\ AnswerStays
<1> SUFFICES ASSUME RegistryAssumption, TypeOK, OnceInv, FeedbackInv, [Next]_vars
             PROVE  FeedbackInv' /\ AnswerStays
  OBVIOUS
<1>1. ASSUME NEW g \in Grants, Request(g) PROVE FeedbackInv' /\ AnswerStays
  BY <1>1, FeedbackRequest
<1>2. ASSUME NEW k \in Keys, Feedback(k) PROVE FeedbackInv' /\ AnswerStays
  BY <1>2, FeedbackFeedback
<1>3. ASSUME NEW key \in Keys, Claim(key) PROVE FeedbackInv' /\ AnswerStays
  <2>1. KeptRecords[key] \in Record /\ KeptRecords[key] = records[key] /\ records[key] # Absent
    BY <1>3, ExpiryType, KeptIsRecord DEF Claim
  <2>2. \A k \in Keys : records'[k] = IF k = key THEN [records[key] EXCEPT !.queued = TRUE]
                                      ELSE KeptRecords[k]
    BY <1>3, <2>1, ExpiryType DEF Claim
  <2>3. /\ records'[key].answer = records[key].answer
        /\ records'[key].pendingUntil = records[key].pendingUntil
    BY <2>1, <2>2 DEF Record
  <2> QED
    BY <1>3, <2>1, <2>2, <2>3, KeptIsRecord, FeedbackForgets DEF Claim, history
<1>4. CASE Refuse
  BY <1>4, KeptIsRecord, FeedbackForgets DEF Refuse, history
<1>5. ASSUME NEW s \in Ids, Revoke(s) PROVE FeedbackInv' /\ AnswerStays
  BY <1>5, FeedbackForgets DEF Revoke, history
<1>6. CASE Close
  BY <1>6, FeedbackForgets DEF Close, history
<1>7. CASE RefuseClosed \/ Tick \/ UNCHANGED vars
  BY <1>7, FeedbackForgets DEF RefuseClosed, Tick, history, vars
<1> QED
  BY <1>1, <1>2, <1>3, <1>4, <1>5, <1>6, <1>7 DEF Next

LEMMA FeedbackInit == Init => FeedbackInv
BY DEF Init, FeedbackInv, ToldStands

\* The feedback a retry was given is the feedback still replayed for that
\* request, or that with the result of storage added.
THEOREM RetriesStand == Spec => []ToldStands
<1>1. Init => TypeOK /\ OnceInv /\ FeedbackInv
  BY RegistryAssumption, RegistryTypeInit, OnceInit, FeedbackInit
<1>2. TypeOK /\ OnceInv /\ FeedbackInv /\ [Next]_vars => (TypeOK /\ OnceInv /\ FeedbackInv)'
  BY RegistryAssumption, RegistryTypeStep, OnceStep, FeedbackStep
<1>3. FeedbackInv => ToldStands
  BY DEF FeedbackInv
<1> QED
  BY <1>1, <1>2, <1>3, PTL DEF Spec

\* Feedback is only ever given to a request that has none, or completed with
\* the result of a storage that was still awaited.
THEOREM FeedbackImmutable == Spec => AnswersStand
<1>1. Init => TypeOK /\ OnceInv /\ FeedbackInv
  BY RegistryAssumption, RegistryTypeInit, OnceInit, FeedbackInit
<1>2. TypeOK /\ OnceInv /\ FeedbackInv /\ [Next]_vars => (TypeOK /\ OnceInv /\ FeedbackInv)'
  BY RegistryAssumption, RegistryTypeStep, OnceStep, FeedbackStep
<1>3. TypeOK /\ OnceInv /\ FeedbackInv /\ [Next]_vars => [AnswerStays]_vars
  BY RegistryAssumption, FeedbackStep
<1>4. AnswersStand <=> [][AnswerStays]_vars
  BY DEF AnswersStand, AnswerStays
<1> QED
  BY <1>1, <1>2, <1>3, <1>4, PTL DEF Spec

-----------------------------------------------------------------------------
(* Sizes.  What a full table gives up exists: it is the least of a set of   *)
(* numbers.                                                                *)

LEMMA LeastExists ==
  ASSUME NEW S, S # {}, NEW f, \A i \in S : f[i] \in Nat
  PROVE  \E i \in S : \A j \in S : f[i] <= f[j]
<1> DEFINE T == {f[i] : i \in S}
<1>1. T \subseteq Nat /\ T # {}
  OBVIOUS
<1>2. \E x \in T : \A y \in T : ~(<<y, x>> \in OpToRel(<, Nat))
  BY <1>1, NatLessThanWellFounded, WFMin
<1>3. PICK x \in T : \A y \in T : ~(<<y, x>> \in OpToRel(<, Nat))
  BY <1>2
<1>4. \A y \in T : ~(y < x)
  BY <1>1, <1>3 DEF OpToRel
<1>5. \A y \in T : x <= y
  BY <1>1, <1>4
<1> QED
  BY <1>5

\* A table all of whose entries another had.
LEMMA HeldShrinks ==
  ASSUME NEW t, NEW u, IsFiniteSet(Held(t)), Held(u) \subseteq Held(t)
  PROVE  /\ IsFiniteSet(Held(u)) /\ Cardinality(Held(u)) <= Cardinality(Held(t))
         /\ Cardinality(Held(u)) \in Nat /\ Cardinality(Held(t)) \in Nat
BY FS_Subset, FS_CardinalityType

\* A table with one more.
LEMMA HeldGrows ==
  ASSUME NEW t, NEW u, NEW x, IsFiniteSet(Held(t)), Held(u) \subseteq Held(t) \cup {x}
  PROVE  /\ IsFiniteSet(Held(u)) /\ Cardinality(Held(u)) <= Cardinality(Held(t)) + 1
         /\ Cardinality(Held(u)) \in Nat /\ Cardinality(Held(t)) \in Nat
<1>1. IsFiniteSet(Held(t) \cup {x}) /\ Cardinality(Held(t)) \in Nat
      /\ Cardinality(Held(t) \cup {x}) <= Cardinality(Held(t)) + 1
  <2>1. Cardinality(Held(t)) \in Nat
    BY FS_CardinalityType
  <2>2. /\ IsFiniteSet(Held(t) \cup {x})
        /\ Cardinality(Held(t) \cup {x}) =
             IF x \in Held(t) THEN Cardinality(Held(t)) ELSE Cardinality(Held(t)) + 1
    BY FS_AddElement
  <2> QED
    BY <2>1, <2>2
<1>2. /\ IsFiniteSet(Held(u)) /\ Cardinality(Held(u)) \in Nat
      /\ Cardinality(Held(u)) <= Cardinality(Held(t) \cup {x})
      /\ Cardinality(Held(t) \cup {x}) \in Nat
  BY <1>1, FS_Subset, FS_CardinalityType
<1> QED
  BY <1>1, <1>2

\* A new record joins a table that has room: one goes if the table is full,
\* and that one owes no result.
LEMMA RememberedSize ==
  ASSUME NEW table \in [Keys -> Record \cup {Absent}], NEW key \in Keys, NEW content,
         Room(table), IsFiniteSet(Held(table)), RegistryAssumption,
         Cardinality(Held(table)) <= CacheSize
  PROVE  LET new == Remembered(table, key, content) IN
         /\ IsFiniteSet(Held(new)) /\ Cardinality(Held(new)) <= CacheSize
         /\ \A k \in Pending(table) : k # key => new[k] = table[k]
         /\ Pending(new) \subseteq Pending(table)
<1> DEFINE new == Remembered(table, key, content)
           o == Oldest(table)
<1>1. DOMAIN new = Keys /\ DOMAIN table = Keys /\ CacheSize \in Nat
  BY DEF Remembered, RegistryAssumption
<1>2. Full(table) => o \in Held(table) \ Pending(table)
  <2> SUFFICES ASSUME Full(table) PROVE o \in Held(table) \ Pending(table)
    OBVIOUS
  <2> DEFINE S == Held(table) \ Pending(table)
             f == [k \in S |-> table[k].stamp]
  <2>1. S # {}
    BY DEF Room
  <2>2. \A k \in S : f[k] \in Nat
    BY <1>1 DEF Held, Record
  <2>3. \E k \in S : \A j \in S : f[k] <= f[j]
    BY <2>1, <2>2, LeastExists
  <2>4. \E k \in S : \A j \in S : table[k].stamp <= table[j].stamp
    BY <2>3
  <2> QED
    BY <2>4 DEF Oldest
<1>3. \A k \in Keys : k # key => new[k] = IF Full(table) /\ k = o THEN Absent ELSE table[k]
  BY DEF Remembered
<1>4. new[key].pendingUntil = 0
  BY DEF Remembered
<1>5. IsFiniteSet(Held(new)) /\ Cardinality(Held(new)) <= CacheSize
  <2>1. CASE Full(table)
    <3>1. Held(new) \subseteq (Held(table) \ {o}) \cup {key}
      BY <1>1, <1>3, <2>1 DEF Held
    <3>2. IsFiniteSet(Held(table) \ {o})
          /\ Cardinality(Held(table) \ {o}) = Cardinality(Held(table)) - 1
      BY <1>2, <2>1, FS_RemoveElement
    <3>3. IsFiniteSet((Held(table) \ {o}) \cup {key})
          /\ Cardinality((Held(table) \ {o}) \cup {key}) <= Cardinality(Held(table))
      <4> DEFINE rest == Held(table) \ {o}
      <4>1. Cardinality(Held(table)) \in Nat
        BY FS_CardinalityType
      <4>2. /\ IsFiniteSet(rest \cup {key})
            /\ Cardinality(rest \cup {key}) =
                 IF key \in rest THEN Cardinality(rest) ELSE Cardinality(rest) + 1
        BY <3>2, FS_AddElement
      <4> QED
        BY <3>2, <4>1, <4>2
    <3>4. IsFiniteSet(Held(new))
          /\ Cardinality(Held(new)) <= Cardinality((Held(table) \ {o}) \cup {key})
      BY <3>1, <3>3, FS_Subset
    <3>5. /\ Cardinality(Held(new)) \in Nat /\ Cardinality(Held(table)) \in Nat
          /\ Cardinality((Held(table) \ {o}) \cup {key}) \in Nat
      BY <3>3, <3>4, FS_CardinalityType
    <3> QED
      BY <1>1, <3>3, <3>4, <3>5
  <2>2. CASE ~Full(table)
    <3>1. Held(new) \subseteq Held(table) \cup {key}
      BY <1>1, <1>3, <2>2 DEF Held
    <3> QED
      BY <1>1, <2>2, <3>1, HeldGrows DEF Full
  <2> QED
    BY <2>1, <2>2
<1>6. \A k \in Pending(table) : k # key => new[k] = table[k]
  BY <1>1, <1>2, <1>3 DEF Pending, Held
<1>7. Pending(new) \subseteq Pending(table)
  BY <1>1, <1>3, <1>4 DEF Pending, Held
<1> QED
  BY <1>5, <1>6, <1>7

SizeInv == Bounded /\ IsFiniteSet(Held(opens))

\* What PendingStays says of one step.
PendingStay ==
  \A k \in Pending(records) :
    now < records[k].pendingUntil => records'[k] # Absent \/ closed'

LEMMA TablesFinite ==
  ASSUME TypeOK, RegistryAssumption
  PROVE  /\ DOMAIN sessions = Ids /\ DOMAIN records = Keys
         /\ DOMAIN opens = Grants \X Nonces
         /\ IsFiniteSet(Held(sessions)) /\ IsFiniteSet(Held(records))
         /\ \A s \in {MaxSessions, CacheSize, PendingCap} : s \in Nat
<1>1. /\ DOMAIN sessions = Ids /\ DOMAIN records = Keys /\ DOMAIN opens = Grants \X Nonces
      /\ Held(sessions) \subseteq Ids /\ Held(records) \subseteq Keys
  BY DEF TypeOK, Held
<1>2. IsFiniteSet(Ids) /\ IsFiniteSet(1..LastSeq)
  BY FS_Interval DEF Ids, RegistryAssumption
<1>3. IsFiniteSet(Keys)
  BY <1>2, FS_Product DEF Keys
<1> QED
  BY <1>1, <1>2, <1>3, FS_Subset DEF RegistryAssumption

\* What expiry leaves of the tables, and of the awaited results.
LEMMA ExpirySizes ==
  ASSUME TypeOK, RegistryAssumption
  PROVE  /\ Held(LiveSessions) \subseteq Held(sessions)
         /\ Held(KeptOpens) \subseteq Held(opens)
         /\ Held(KeptRecords) \subseteq Held(records)
         /\ Pending(KeptRecords) \subseteq Pending(records)
         /\ \A k \in Pending(records) :
              now < records[k].pendingUntil => /\ k \in Keys /\ k \in Pending(KeptRecords)
                                               /\ KeptRecords[k] = records[k]
<1>1. /\ Held(LiveSessions) \subseteq Held(sessions)
      /\ Held(KeptOpens) \subseteq Held(opens)
      /\ Held(KeptRecords) \subseteq Held(records)
  BY TablesFinite DEF Held, LiveSessions, KeptOpens, KeptRecords
<1>2. Pending(KeptRecords) \subseteq Pending(records)
  BY <1>1, TablesFinite, KeptIsRecord DEF Held, Pending
<1>3. ASSUME NEW k \in Pending(records), now < records[k].pendingUntil
      PROVE  k \in Keys /\ k \in Pending(KeptRecords) /\ KeptRecords[k] = records[k]
  <2>1. k \in Keys /\ records[k] # Absent /\ records[k] \in Record
    BY TablesFinite DEF Pending, Held, TypeOK
  <2>2. now \in Nat /\ records[k].deadline \in Nat /\ records[k].pendingUntil \in Nat
    BY <2>1 DEF Record, TypeOK
  <2>3. now < KeptUntil(records[k])
    BY <1>3, <2>2 DEF KeptUntil
  <2>4. KeptRecords[k] = records[k] /\ DOMAIN KeptRecords = Keys
    BY <2>1, <2>3 DEF KeptRecords
  <2> QED
    BY <2>1, <2>4 DEF Pending, Held
<1> QED
  BY <1>1, <1>2, <1>3

\* Steps that add nothing to a table.
LEMMA SizesShrink ==
  ASSUME TypeOK, RegistryAssumption, SizeInv,
         Held(sessions') \subseteq Held(sessions), Held(opens') \subseteq Held(opens),
         Held(records') \subseteq Held(records), Pending(records') \subseteq Pending(records)
  PROVE  SizeInv'
<1>1. IsFiniteSet(Held(opens)) /\ IsFiniteSet(Pending(records))
  BY TablesFinite, FS_Subset DEF SizeInv, Pending
<1>2. Cardinality(Held(sessions')) <= Cardinality(Held(sessions))
      /\ Cardinality(Held(sessions')) \in Nat /\ Cardinality(Held(sessions)) \in Nat
  BY TablesFinite, HeldShrinks
<1>3. IsFiniteSet(Held(opens')) /\ Cardinality(Held(opens')) <= Cardinality(Held(opens))
      /\ Cardinality(Held(opens')) \in Nat /\ Cardinality(Held(opens)) \in Nat
  BY <1>1, HeldShrinks
<1>4. Cardinality(Held(records')) <= Cardinality(Held(records))
      /\ Cardinality(Held(records')) \in Nat /\ Cardinality(Held(records)) \in Nat
  BY TablesFinite, HeldShrinks
<1>5. IsFiniteSet(Pending(records'))
      /\ Cardinality(Pending(records')) <= Cardinality(Pending(records))
  BY <1>1, FS_Subset
<1>6. Cardinality(Pending(records')) \in Nat /\ Cardinality(Pending(records)) \in Nat
  BY <1>1, <1>5, FS_CardinalityType
<1> QED
  BY <1>2, <1>3, <1>4, <1>5, <1>6, TablesFinite DEF SizeInv, Bounded

\* A set with more than a number of elements, and what it is without one.
LEMMA LessOne ==
  ASSUME NEW S, IsFiniteSet(S), NEW n \in Nat, Cardinality(S) > n
  PROVE  /\ S # {}
         /\ \A x \in S : /\ IsFiniteSet(S \ {x})
                         /\ Cardinality(S \ {x}) = Cardinality(S) - 1
<1>1. Cardinality(S) \in Nat
  BY FS_CardinalityType
<1>2. S = {} => Cardinality(S) = 0
  BY FS_EmptySet
<1>3. ASSUME NEW x \in S
      PROVE  IsFiniteSet(S \ {x}) /\ Cardinality(S \ {x}) = Cardinality(S) - 1
  BY FS_RemoveElement
<1> QED
  BY <1>1, <1>2, <1>3

\* An opening beyond the cache size makes the oldest go.
LEMMA OpensSize ==
  ASSUME TypeOK, RegistryAssumption, SizeInv,
         NEW key \in Grants \X Nonces, NEW entry \in Opening
  PROVE  /\ IsFiniteSet(Held(OpensWith(key, entry)))
         /\ Cardinality(Held(OpensWith(key, entry))) <= CacheSize
<1> DEFINE all == [KeptOpens EXCEPT ![key] = entry]
           oldest == CHOOSE o \in Held(all) : \A p \in Held(all) : all[o].sid <= all[p].sid
           less == [all EXCEPT ![oldest] = Absent]
<1>1. all \in [Grants \X Nonces -> Opening \cup {Absent}]
  BY ExpiryType
<1>2. Held(all) \subseteq Held(opens) \cup {key}
  BY ExpirySizes, ExpiryType DEF Held
<1>3. /\ IsFiniteSet(Held(all)) /\ Cardinality(Held(all)) <= CacheSize + 1
      /\ Cardinality(Held(all)) \in Nat /\ CacheSize \in Nat
  <2>1. /\ IsFiniteSet(Held(all)) /\ Cardinality(Held(all)) <= Cardinality(Held(opens)) + 1
        /\ Cardinality(Held(all)) \in Nat /\ Cardinality(Held(opens)) \in Nat
    BY <1>2, HeldGrows DEF SizeInv
  <2>2. Cardinality(Held(opens)) <= CacheSize /\ CacheSize \in Nat
    BY TablesFinite DEF SizeInv, Bounded
  <2> QED
    BY <2>1, <2>2
<1>4. CASE Cardinality(Held(all)) > CacheSize
  <2> DEFINE S == Held(all)
  <2>a. IsFiniteSet(S) /\ Cardinality(S) > CacheSize /\ CacheSize \in Nat
    BY <1>3, <1>4
  <2> HIDE DEF S
  <2>b. /\ S # {}
        /\ \A x \in S : IsFiniteSet(S \ {x}) /\ Cardinality(S \ {x}) = Cardinality(S) - 1
    BY <2>a, LessOne
  <2>1. Held(all) # {}
    BY <2>b DEF S
  <2> DEFINE f == [o \in Held(all) |-> all[o].sid]
  <2>2. \A o \in Held(all) : f[o] \in Nat
    BY <1>1 DEF Held, Opening, Ids
  <2>3. \E o \in Held(all) : \A p \in Held(all) : f[o] <= f[p]
    BY <2>1, <2>2, LeastExists
  <2>4. \E o \in Held(all) : \A p \in Held(all) : all[o].sid <= all[p].sid
    BY <2>3
  <2>5. oldest \in Held(all)
    BY <2>4
  <2>6. OpensWith(key, entry) = less
    BY <1>4 DEF OpensWith
  <2>7. Held(less) \subseteq Held(all) \ {oldest}
    BY <1>1 DEF Held
  <2>8. /\ IsFiniteSet(Held(all) \ {oldest})
        /\ Cardinality(Held(all) \ {oldest}) = Cardinality(Held(all)) - 1
    <3> HIDE DEF oldest
    <3> QED
      BY <2>5, <2>b DEF S
  <2>9. /\ IsFiniteSet(Held(less))
        /\ Cardinality(Held(less)) <= Cardinality(Held(all) \ {oldest})
    BY <2>7, <2>8, FS_Subset
  <2>10. Cardinality(Held(less)) \in Nat
    BY <2>9, FS_CardinalityType
  <2>11. Cardinality(Held(less)) <= CacheSize
    BY <1>3, <2>8, <2>9, <2>10
  <2> QED
    BY <2>6, <2>9, <2>11
<1>5. CASE ~(Cardinality(Held(all)) > CacheSize)
  <2>1. OpensWith(key, entry) = all
    BY <1>5 DEF OpensWith
  <2> QED
    BY <1>3, <1>5, <2>1
<1> QED
  BY <1>4, <1>5

\* The records after an admission.
LEMMA AdmitSizes ==
  ASSUME TypeOK, RegistryAssumption, SizeInv, NEW key \in Keys, NEW content,
         KeptRecords[key] = Absent, Room(KeptRecords),
         records' = Remembered(KeptRecords, key, content)
  PROVE  /\ Cardinality(Held(records')) <= CacheSize
         /\ Cardinality(Pending(records')) <= PendingCap
         /\ PendingStay
<1>1. KeptRecords \in [Keys -> Record \cup {Absent}]
  BY ExpiryType
<1>2. IsFiniteSet(Held(KeptRecords)) /\ Cardinality(Held(KeptRecords)) <= CacheSize
  <2>1. /\ IsFiniteSet(Held(KeptRecords))
        /\ Cardinality(Held(KeptRecords)) <= Cardinality(Held(records))
        /\ Cardinality(Held(KeptRecords)) \in Nat /\ Cardinality(Held(records)) \in Nat
    BY TablesFinite, ExpirySizes, HeldShrinks
  <2> QED
    BY <2>1, TablesFinite DEF SizeInv, Bounded
<1>3. /\ Cardinality(Held(records')) <= CacheSize
      /\ \A k \in Pending(KeptRecords) : k # key => records'[k] = KeptRecords[k]
      /\ Pending(records') \subseteq Pending(KeptRecords)
  BY <1>1, <1>2, RememberedSize
<1>4. IsFiniteSet(Pending(records))
  BY TablesFinite, FS_Subset DEF Pending
<1>5. /\ Cardinality(Pending(records')) <= Cardinality(Pending(records))
      /\ IsFiniteSet(Pending(records'))
  BY <1>3, <1>4, ExpirySizes, FS_Subset
<1>6. Cardinality(Pending(records')) <= PendingCap
  <2>1. Cardinality(Pending(records')) \in Nat /\ Cardinality(Pending(records)) \in Nat
    BY <1>4, <1>5, FS_CardinalityType
  <2> QED
    BY <1>5, <2>1, TablesFinite DEF SizeInv, Bounded
<1>7. key \notin Pending(KeptRecords)
  BY DEF Pending, Held
<1>8. PendingStay
  <2> SUFFICES ASSUME NEW k \in Pending(records), now < records[k].pendingUntil
               PROVE  records'[k] # Absent
    BY DEF PendingStay
  <2>1. k \in Pending(KeptRecords) /\ KeptRecords[k] # Absent
    BY ExpirySizes DEF Pending, Held
  <2> QED
    BY <1>3, <1>7, <2>1
<1> QED
  BY <1>3, <1>6, <1>8

LEMMA SizeRequest ==
  ASSUME TypeOK, RegistryAssumption, OnceInv, FeedbackInv, SizeInv,
         NEW g \in Grants, Request(g)
  PROVE  SizeInv' /\ PendingStay
<1> USE TablesFinite, ExpirySizes
<1>1. ASSUME NEW n \in Nonces, NEW c \in Openings, OpenAgain(g, n, c)
      PROVE  SizeInv' /\ PendingStay
  <2>1. SizeInv'
    BY <1>1, SizesShrink DEF OpenAgain, Expire
  <2>2. PendingStay
    BY <1>1 DEF OpenAgain, PendingStay, Pending, Held
  <2> QED
    BY <2>1, <2>2
<1>2. ASSUME NEW k \in Keys, NEW c \in Contents, AcceptAgain(g, k, c)
      PROVE  SizeInv' /\ PendingStay
  <2>1. SizeInv'
    BY <1>2, SizesShrink DEF AcceptAgain, Expire
  <2>2. PendingStay
    BY <1>2 DEF AcceptAgain, PendingStay, Pending, Held
  <2> QED
    BY <2>1, <2>2
<1>3. ASSUME NEW n \in Nonces, NEW c \in Openings, Open(g, n, c)
      PROVE  SizeInv' /\ PendingStay
  <2> DEFINE key == <<nextId, 1>>
             entry == [digest |-> c, sid |-> nextId, deadline |-> now + Retention]
             session == [grant |-> g, nonce |-> n, deadline |-> now + Lease, lastRx |-> 1]
  <2>1. nextId \in Ids /\ nextId \in Nat
    BY <1>3 DEF Open, Allocatable, TypeOK, Ids, RegistryAssumption
  <2>2. key \in Keys /\ <<g, n>> \in Grants \X Nonces
    BY <2>1, RangeFacts
  <2>3. KeptRecords[key] = Absent
    <3>1. admissions[key] = 0
      BY <2>1, <2>2 DEF OnceInv, TypeOK
    <3> QED
      BY <3>1, <2>2, KeptIsRecord DEF FeedbackInv
  <2>4. /\ Cardinality(Held(records')) <= CacheSize
        /\ Cardinality(Pending(records')) <= PendingCap
        /\ PendingStay
    BY <1>3, <2>2, <2>3, AdmitSizes DEF Open, Allocatable
  <2>5. entry \in Opening
    BY <2>1, RangeFacts DEF Opening
  <2>6. IsFiniteSet(Held(opens')) /\ Cardinality(Held(opens')) <= CacheSize
    BY <1>3, <2>2, <2>5, OpensSize DEF Open
  <2>7. Cardinality(Held(sessions')) <= MaxSessions
    <3>1. sessions' = [LiveSessions EXCEPT ![nextId] = session]
      BY <1>3 DEF Open
    <3>2. Held(sessions') \subseteq Held(LiveSessions) \cup {nextId}
      BY <3>1, ExpiryType DEF Held
    <3>3. IsFiniteSet(Held(LiveSessions)) /\ Cardinality(Held(LiveSessions)) < MaxSessions
      BY <1>3, HeldShrinks DEF Open, Allocatable
    <3>4. /\ Cardinality(Held(sessions')) <= Cardinality(Held(LiveSessions)) + 1
          /\ Cardinality(Held(sessions')) \in Nat /\ Cardinality(Held(LiveSessions)) \in Nat
      BY <3>2, <3>3, HeldGrows
    <3> QED
      BY <3>3, <3>4
  <2> QED
    BY <2>4, <2>6, <2>7 DEF SizeInv, Bounded
<1>4. ASSUME NEW k \in Keys, NEW c \in Contents, Accept(g, k, c)
      PROVE  SizeInv' /\ PendingStay
  <2>1. /\ Cardinality(Held(records')) <= CacheSize
        /\ Cardinality(Pending(records')) <= PendingCap
        /\ PendingStay
    BY <1>4, AdmitSizes DEF Accept, IsFresh
  <2>2. opens' = KeptOpens
    BY <1>4 DEF Accept
  <2>3. IsFiniteSet(Held(opens')) /\ Cardinality(Held(opens')) <= CacheSize
    <3>1. /\ IsFiniteSet(Held(opens')) /\ Cardinality(Held(opens')) <= Cardinality(Held(opens))
          /\ Cardinality(Held(opens')) \in Nat /\ Cardinality(Held(opens)) \in Nat
      BY <2>2, HeldShrinks DEF SizeInv
    <3> QED
      BY <3>1 DEF SizeInv, Bounded
  <2>4. Held(sessions') \subseteq Held(sessions)
    <3>1. k[1] \in Held(LiveSessions)
      BY <1>4, ExpiryType DEF Accept, Authorized, Held, Keys
    <3>2. DOMAIN sessions' = Ids /\ \A s \in Ids : s # k[1] => sessions'[s] = LiveSessions[s]
      BY <1>4, ExpiryType DEF Accept
    <3> QED
      BY <3>1, <3>2, ExpiryType DEF Held
  <2>5. Cardinality(Held(sessions')) <= MaxSessions
    <3>1. Cardinality(Held(sessions')) <= Cardinality(Held(sessions))
          /\ Cardinality(Held(sessions')) \in Nat /\ Cardinality(Held(sessions)) \in Nat
      BY <2>4, HeldShrinks
    <3> QED
      BY <3>1 DEF SizeInv, Bounded
  <2> QED
    BY <2>1, <2>3, <2>5 DEF SizeInv, Bounded
<1> QED
  BY <1>1, <1>2, <1>3, <1>4 DEF Request

\* Feedback kept for one request: no record is added, and one more result is
\* awaited only where there is room for it.
LEMMA KeepSizes ==
  ASSUME TypeOK, RegistryAssumption, SizeInv, NEW key \in Keys, NEW record \in Record,
         NEW table \in {records, KeptRecords}, table[key] # Absent,
         records' = [table EXCEPT ![key] = record],
         Held(opens') \subseteq Held(opens), sessions' \in {sessions, LiveSessions},
         record.pendingUntil # 0 =>
           \/ table[key].pendingUntil # 0
           \/ Cardinality(Pending(table)) < PendingCap
  PROVE  SizeInv' /\ PendingStay
<1> USE TablesFinite, ExpirySizes, AbsentAssumption
<1>1. /\ table \in [Keys -> Record \cup {Absent}] /\ record # Absent
      /\ Held(table) \subseteq Held(records) /\ Pending(table) \subseteq Pending(records)
  BY ExpiryType DEF TypeOK
<1>2. Held(records') = Held(table)
  BY <1>1 DEF Held
<1>3. Pending(records') \subseteq Pending(table) \cup {key}
  BY <1>1, <1>2 DEF Pending, Held
<1>4. IsFiniteSet(Pending(table)) /\ IsFiniteSet(Pending(records))
      /\ Cardinality(Pending(table)) <= Cardinality(Pending(records))
      /\ Cardinality(Pending(table)) \in Nat /\ Cardinality(Pending(records)) \in Nat
  <2>1. IsFiniteSet(Pending(records))
    BY FS_Subset DEF Pending
  <2>2. IsFiniteSet(Pending(table))
        /\ Cardinality(Pending(table)) <= Cardinality(Pending(records))
    BY <1>1, <2>1, FS_Subset
  <2> QED
    BY <2>1, <2>2, FS_CardinalityType
<1>5. Cardinality(Pending(records')) <= PendingCap
  <2>1. CASE Pending(records') \subseteq Pending(table)
    <3>1. IsFiniteSet(Pending(records'))
          /\ Cardinality(Pending(records')) <= Cardinality(Pending(table))
      BY <1>4, <2>1, FS_Subset
    <3>2. Cardinality(Pending(records')) \in Nat
      BY <3>1, FS_CardinalityType
    <3> QED
      BY <1>4, <3>1, <3>2 DEF SizeInv, Bounded
  <2>2. CASE ~(Pending(records') \subseteq Pending(table))
    <3>1. key \in Pending(records') /\ key \notin Pending(table)
      BY <1>3, <2>2
    <3>2. record.pendingUntil # 0
      BY <1>1, <3>1 DEF Pending, Held
    <3>3. table[key].pendingUntil = 0
      BY <1>1, <3>1 DEF Pending, Held
    <3>4. Cardinality(Pending(table)) < PendingCap
      BY <3>2, <3>3
    <3>5. /\ IsFiniteSet(Pending(table) \cup {key})
          /\ Cardinality(Pending(table) \cup {key}) = Cardinality(Pending(table)) + 1
      BY <1>4, <3>1, FS_AddElement
    <3>6. IsFiniteSet(Pending(records'))
          /\ Cardinality(Pending(records')) <= Cardinality(Pending(table) \cup {key})
      BY <1>3, <3>5, FS_Subset
    <3>7. Cardinality(Pending(records')) \in Nat
      BY <3>6, FS_CardinalityType
    <3> QED
      BY <1>4, <3>4, <3>5, <3>6, <3>7
  <2> QED
    BY <2>1, <2>2
<1>6. Cardinality(Held(records')) <= CacheSize
  <2>1. Cardinality(Held(table)) <= Cardinality(Held(records))
        /\ Cardinality(Held(table)) \in Nat /\ Cardinality(Held(records)) \in Nat
    BY <1>1, HeldShrinks
  <2> QED
    BY <1>2, <2>1 DEF SizeInv, Bounded
<1>7. Cardinality(Held(sessions')) <= MaxSessions
  <2>1. Cardinality(Held(sessions')) <= Cardinality(Held(sessions))
        /\ Cardinality(Held(sessions')) \in Nat /\ Cardinality(Held(sessions)) \in Nat
    BY HeldShrinks
  <2> QED
    BY <2>1 DEF SizeInv, Bounded
<1>8. IsFiniteSet(Held(opens')) /\ Cardinality(Held(opens')) <= CacheSize
  <2>1. /\ IsFiniteSet(Held(opens')) /\ Cardinality(Held(opens')) <= Cardinality(Held(opens))
        /\ Cardinality(Held(opens')) \in Nat /\ Cardinality(Held(opens)) \in Nat
    BY HeldShrinks DEF SizeInv
  <2> QED
    BY <2>1 DEF SizeInv, Bounded
<1>9. PendingStay
  <2> SUFFICES ASSUME NEW k \in Pending(records), now < records[k].pendingUntil
               PROVE  records'[k] # Absent
    BY DEF PendingStay
  <2>1. k \in Pending(table) /\ k \in Held(table)
    BY DEF Pending
  <2> QED
    BY <1>2, <2>1 DEF Held
<1> QED
  BY <1>5, <1>6, <1>7, <1>8, <1>9 DEF SizeInv, Bounded

LEMMA SizeFeedback ==
  ASSUME TypeOK, RegistryAssumption, SizeInv, NEW key \in Keys, Feedback(key)
  PROVE  SizeInv' /\ PendingStay
<1> DEFINE kept == KeptRecords[key]
<1>1. kept \in Record \cup {Absent} /\ records[key] \in Record \cup {Absent}
  BY ExpiryType DEF TypeOK
<1>2. Held(KeptOpens) \subseteq Held(opens) /\ now + Retention \in Nat
  BY ExpirySizes, RangeFacts
<1>3. ASSUME NEW a \in {"received", "failed"}, RecordResponse(key, a)
      PROVE  SizeInv' /\ PendingStay
  <2> DEFINE record == [kept EXCEPT !.answer = a]
  <2>1. kept # Absent /\ records' = [KeptRecords EXCEPT ![key] = record]
    BY <1>3 DEF RecordResponse, Keep
  <2>2. record \in Record /\ record.pendingUntil = kept.pendingUntil
    BY <1>1, <2>1 DEF Record, Answers
  <2>3. sessions' = LiveSessions /\ opens' = KeptOpens
    BY <1>3 DEF RecordResponse, Expire
  <2> QED
    BY <1>2, <2>1, <2>2, <2>3, KeepSizes
<1>4. ASSUME RecordApplied(key) PROVE SizeInv' /\ PendingStay
  <2> DEFINE record == [records[key] EXCEPT !.answer = "applied", !.deadline = now + Retention]
  <2>1. records[key] # Absent /\ records' = [records EXCEPT ![key] = record]
    BY <1>4 DEF RecordApplied, Keep
  <2>2. record \in Record /\ record.pendingUntil = records[key].pendingUntil
    BY <1>1, <1>2, <2>1 DEF Record, Answers
  <2>3. sessions' = sessions /\ opens' = opens
    BY <1>4 DEF RecordApplied
  <2> QED
    BY <2>1, <2>2, <2>3, KeepSizes
<1>5. ASSUME NEW a \in {"applied", "failed"}, RecordLifecycle(key, a)
      PROVE  SizeInv' /\ PendingStay
  <2> DEFINE record == [records[key] EXCEPT !.answer = a, !.deadline = now + Retention]
  <2>1. records[key] # Absent /\ records' = [records EXCEPT ![key] = record]
    BY <1>5 DEF RecordLifecycle, Keep
  <2>2. record \in Record /\ record.pendingUntil = records[key].pendingUntil
    BY <1>1, <1>2, <2>1 DEF Record, Answers
  <2>3. sessions' = sessions /\ opens' = opens
    BY <1>5 DEF RecordLifecycle
  <2> QED
    BY <2>1, <2>2, <2>3, KeepSizes
<1>6. ASSUME Defer(key) PROVE SizeInv' /\ PendingStay
  <2> DEFINE until == kept.received + ChunkTimeout[kept.digest]
             record == [kept EXCEPT !.answer = "received", !.pendingUntil = until]
  <2>1. /\ kept # Absent /\ kept.digest \in Chunks
        /\ records' = [KeptRecords EXCEPT ![key] = record]
        /\ Cardinality(Pending(KeptRecords)) < PendingCap
    BY <1>6 DEF Defer, Keep
  <2>2. until \in Nat
    BY <1>1, <2>1 DEF Record, RegistryAssumption
  <2>3. record \in Record
    BY <1>1, <2>1, <2>2 DEF Record, Answers
  <2>4. sessions' = LiveSessions /\ opens' = KeptOpens
    BY <1>6 DEF Defer, Expire
  <2> QED
    BY <1>2, <2>1, <2>3, <2>4, KeepSizes
<1>7. ASSUME NEW a \in {"committed", "rejected"}, Finish(key, a)
      PROVE  SizeInv' /\ PendingStay
  <2> DEFINE record == [kept EXCEPT !.answer = a, !.pendingUntil = 0,
                                    !.deadline = now + Retention]
  <2>1. kept # Absent /\ records' = [KeptRecords EXCEPT ![key] = record]
    BY <1>7 DEF Finish, Keep
  <2>2. record \in Record /\ record.pendingUntil = 0
    BY <1>1, <1>2, <2>1 DEF Record, Answers
  <2>3. sessions' = LiveSessions /\ opens' = KeptOpens
    BY <1>7 DEF Finish, Expire
  <2> QED
    BY <1>2, <2>1, <2>2, <2>3, KeepSizes
<1> QED
  BY <1>3, <1>4, <1>5, <1>6, <1>7 DEF Feedback

LEMMA SizeStep ==
  RegistryAssumption /\ TypeOK /\ OnceInv /\ FeedbackInv /\ SizeInv /\ [Next]_vars
    => SizeInv' /\ PendingStay
<1> SUFFICES ASSUME RegistryAssumption, TypeOK, OnceInv, FeedbackInv, SizeInv, [Next]_vars
             PROVE  SizeInv' /\ PendingStay
  OBVIOUS
<1> USE TablesFinite, ExpirySizes
<1>1. ASSUME NEW g \in Grants, Request(g) PROVE SizeInv' /\ PendingStay
  BY <1>1, SizeRequest
<1>2. ASSUME NEW k \in Keys, Feedback(k) PROVE SizeInv' /\ PendingStay
  BY <1>2, SizeFeedback
<1>3. ASSUME NEW key \in Keys, Claim(key) PROVE SizeInv' /\ PendingStay
  <2> DEFINE kept == KeptRecords[key]
             record == [kept EXCEPT !.queued = TRUE]
  <2>1. /\ kept # Absent /\ records' = [KeptRecords EXCEPT ![key] = record]
        /\ sessions' = LiveSessions /\ opens' = KeptOpens
    BY <1>3, ExpiryType DEF Claim, Expire
  <2>2. kept \in Record
    BY <2>1, ExpiryType
  <2>3. record \in Record /\ record.pendingUntil = kept.pendingUntil
    BY <2>2 DEF Record
  <2> QED
    BY <2>1, <2>3, KeepSizes
<1>4. CASE Refuse
  <2>1. SizeInv'
    BY <1>4, SizesShrink DEF Refuse, Expire
  <2>2. PendingStay
    BY <1>4 DEF Refuse, PendingStay, Pending, Held
  <2> QED
    BY <2>1, <2>2
<1>5. ASSUME NEW s \in Ids, Revoke(s) PROVE SizeInv' /\ PendingStay
  <2>1. Held(sessions') \subseteq Held(sessions)
    BY <1>5 DEF Revoke, Held
  <2>2. opens' = opens /\ records' = records
    BY <1>5 DEF Revoke
  <2>3. PendingStay
    BY <2>2 DEF PendingStay, Pending, Held
  <2> QED
    BY <2>1, <2>2, <2>3, SizesShrink
<1>6. CASE Close
  <2>1. Held(sessions') = {} /\ Held(opens') = {} /\ Held(records') = {}
    BY <1>6 DEF Close, Held
  <2>2. Pending(records') = {} /\ closed'
    BY <1>6, <2>1 DEF Pending, Close
  <2> QED
    BY <2>1, <2>2, SizesShrink DEF PendingStay
<1>7. CASE RefuseClosed \/ Tick \/ UNCHANGED vars
  <2>1. sessions' = sessions /\ opens' = opens /\ records' = records
    BY <1>7 DEF RefuseClosed, Tick, vars
  <2>2. PendingStay
    BY <2>1 DEF PendingStay, Pending, Held
  <2> QED
    BY <2>1, <2>2, SizesShrink
<1> QED
  BY <1>1, <1>2, <1>3, <1>4, <1>5, <1>6, <1>7 DEF Next

LEMMA SizeInit == RegistryAssumption /\ Init => SizeInv
<1> SUFFICES ASSUME RegistryAssumption, Init PROVE SizeInv
  OBVIOUS
<1>1. Held(sessions) = {} /\ Held(opens) = {} /\ Held(records) = {} /\ Pending(records) = {}
  BY DEF Init, Held, Pending
<1>2. IsFiniteSet({}) /\ Cardinality({}) = 0
  BY FS_EmptySet
<1> QED
  BY <1>1, <1>2 DEF SizeInv, Bounded, RegistryAssumption

\* The four inductive parts of the registry's invariant.
RegistryInv == TypeOK /\ OnceInv /\ FeedbackInv /\ SizeInv

LEMMA RegistryInvInit == Init => RegistryInv
BY RegistryAssumption, RegistryTypeInit, OnceInit, FeedbackInit, SizeInit DEF RegistryInv

LEMMA RegistryInvStep == RegistryInv /\ [Next]_vars => RegistryInv' /\ PendingStay
BY RegistryAssumption, RegistryTypeStep, OnceStep, FeedbackStep, SizeStep DEF RegistryInv

\* No sequence of requests, retries and expiries fills a table beyond its
\* bound: sessions, records, openings, and results that storage still owes.
THEOREM TablesBounded == Spec => []Bounded
<1>1. RegistryInv => Bounded
  BY DEF RegistryInv, SizeInv
<1>2. RegistryInv /\ [Next]_vars => RegistryInv'
  BY RegistryInvStep
<1> QED
  BY <1>1, <1>2, RegistryInvInit, PTL DEF Spec

\* What storage still owes a sender is not given up to make room: only the
\* passing of its deadline or the closing of the registry ends it.
THEOREM PendingIsKept == Spec => PendingStays
<1>1. RegistryInv /\ [Next]_vars => RegistryInv' /\ [PendingStay]_vars
  BY RegistryInvStep
<1>2. PendingStays <=> [][PendingStay]_vars
  BY DEF PendingStays, PendingStay
<1> QED
  BY <1>1, <1>2, RegistryInvInit, PTL DEF Spec

\* The tables of the registry agree with each other, whatever was evicted, expired
\* or retried.
THEOREM RegistryIsSound == Spec => []RegistrySound
BY RegistryTypeCorrect, NonceUnique, RetriesStand, TablesBounded, PTL DEF RegistrySound

\* No feedback is contradicted, and none that is owed is given up.
THEOREM FeedbackIsKept == Spec => FeedbackStands
BY FeedbackImmutable, PendingIsKept DEF FeedbackStands

-----------------------------------------------------------------------------
(* What the users of the registry rely on: an id is never given to another  *)
(* session, and the record of an admitted request stays what it is.         *)

SessionsPersist ==
  \A s \in Ids : s < nextId /\ sessions'[s] # Absent =>
    sessions[s] # Absent /\ sessions'[s].grant = sessions[s].grant

\* The record of key is still the one it was, if it is there.
SameRecord(key) ==
  records'[key] # Absent =>
    /\ records[key] # Absent
    /\ records'[key].digest = records[key].digest
    /\ records[key].queued => records'[key].queued

\* A request is applied without a queue, or is a command.
AppliedAtOnce(key) ==
  answered'[key] = "applied" =>
    \/ answered[key] = "applied"
    \/ records[key] # Absent /\ (~records[key].queued \/ records[key].digest \in Commands)

RecordsPersist ==
  \A k \in Keys :
    /\ admissions[k] # 0 => admissions'[k] # 0 /\ SameRecord(k)
    /\ AppliedAtOnce(k)

LEMMA SessionsPersistStep ==
  ASSUME RegistryInv, [Next]_vars
  PROVE  SessionsPersist
<1> USE RegistryAssumption DEF RegistryInv
<1>1. ASSUME NEW g \in Grants, NEW n \in Nonces, NEW c \in Openings, Open(g, n, c)
      PROVE  SessionsPersist
  <2>1. \A s \in Ids : s # nextId => sessions'[s] = LiveSessions[s]
    BY <1>1, ExpiryType DEF Open
  <2>2. nextId \in Nat
    BY DEF TypeOK
  <2> QED
    BY <2>1, <2>2, ExpiryType DEF SessionsPersist, Ids
<1>2. ASSUME NEW g \in Grants, NEW k \in Keys, NEW c \in Contents \ Openings, Accept(g, k, c)
      PROVE  SessionsPersist
  <2> DEFINE i == k[1]
  <2>1. i \in Ids /\ LiveSessions[i] \in Session /\ LiveSessions[i] = sessions[i]
        /\ sessions[i] # Absent
    BY <1>2, ExpiryType DEF Accept, Authorized, Keys
  <2>2. sessions' = [LiveSessions EXCEPT ![i] = [@ EXCEPT !.lastRx = k[2],
                                                        !.deadline = RenewedLease(i, c)]]
    BY <1>2 DEF Accept
  <2>3. sessions'[i].grant = sessions[i].grant
    BY <2>1, <2>2, ExpiryType DEF Session
  <2>4. \A j \in Ids : j # i => sessions'[j] = LiveSessions[j]
    BY <2>2, ExpiryType
  <2> QED
    BY <2>1, <2>3, <2>4, ExpiryType DEF SessionsPersist
<1>3. CASE Quiet
  BY <1>3 DEF Quiet, SessionsPersist
<1> QED
  BY <1>1, <1>2, <1>3, StepShape

\* Records are dropped, one changes, or one is new.
LEMMA RecordsForget ==
  ASSUME UNCHANGED <<answered, admissions>>,
         \A k \in Keys : records'[k] \in {records[k], Absent}
  PROVE  RecordsPersist
BY DEF RecordsPersist, SameRecord, AppliedAtOnce

LEMMA RecordsKept ==
  ASSUME TypeOK, NEW key \in Keys, NEW record, NEW table \in {records, KeptRecords},
         Keep(table, key, record), records[key] # Absent,
         record.digest = records[key].digest, record.queued = records[key].queued,
         record.answer = "applied" => ~records[key].queued \/ records[key].digest \in Commands
  PROVE  RecordsPersist
<1>1. \A k \in Keys : /\ k # key => records'[k] \in {records[k], Absent}
                                    /\ answered'[k] = answered[k]
                      /\ answered'[key] = record.answer /\ records'[key] = record
  BY ExpiryType, KeptIsRecord DEF Keep, TypeOK
<1>2. admissions' = admissions
  BY DEF Keep
<1> QED
  BY <1>1, <1>2 DEF RecordsPersist, SameRecord, AppliedAtOnce

LEMMA RecordsAdmit ==
  ASSUME TypeOK, NEW key \in Keys, NEW content, admissions[key] = 0, Admitted(key),
         records' = Remembered(KeptRecords, key, content)
  PROVE  RecordsPersist
<1>1. \A k \in Keys : k # key => records'[k] \in {records[k], Absent}
  BY KeptIsRecord DEF Remembered
<1>2. /\ answered' = answered
      /\ \A k \in Keys : k # key => admissions'[k] = admissions[k]
  BY DEF Admitted, TypeOK
<1> QED
  BY <1>1, <1>2 DEF RecordsPersist, SameRecord, AppliedAtOnce

\* A request that comes fresh was never admitted before.
LEMMA FreshIsNew ==
  ASSUME RegistryInv
  PROVE  /\ \A g \in Grants, n \in Nonces, c \in Openings :
              Open(g, n, c) => <<nextId, 1>> \in Keys /\ admissions[<<nextId, 1>>] = 0
         /\ \A g \in Grants, k \in Keys, c \in Contents :
              Accept(g, k, c) => admissions[k] = 0
<1> USE RegistryAssumption DEF RegistryInv
<1>1. ASSUME NEW g \in Grants, NEW n \in Nonces, NEW c \in Openings, Open(g, n, c)
      PROVE  <<nextId, 1>> \in Keys /\ admissions[<<nextId, 1>>] = 0
  <2>1. nextId \in Ids /\ nextId \in Nat
    BY <1>1 DEF Open, Allocatable, TypeOK, Ids, RegistryAssumption
  <2>2. <<nextId, 1>> \in Keys
    BY <2>1, RangeFacts
  <2> QED
    BY <2>1, <2>2 DEF OnceInv, TypeOK
<1>2. ASSUME NEW g \in Grants, NEW k \in Keys, NEW c \in Contents, Accept(g, k, c)
      PROVE  admissions[k] = 0
  <2>1. k[1] \in Ids /\ k[2] \in Nat
    BY DEF Keys
  <2>2. sessions[k[1]] \in Session /\ k[2] > sessions[k[1]].lastRx
    BY <1>2, <2>1, ExpiryType DEF Accept, Authorized, IsFresh, TypeOK
  <2>3. sessions[k[1]] # Absent
    BY <1>2, <2>1, ExpiryType DEF Accept, Authorized
  <2> QED
    BY <2>1, <2>2, <2>3 DEF OnceInv, Session
<1> QED
  BY <1>1, <1>2

LEMMA RecordsPersistFeedback ==
  ASSUME RegistryInv, NEW key \in Keys, Feedback(key)
  PROVE  RecordsPersist
<1> USE DEF RegistryInv
<1> DEFINE kept == KeptRecords[key]
           later == now + Retention
<1>1. kept # Absent => kept = records[key] /\ kept \in Record
  BY ExpiryType, KeptIsRecord
<1>2. records[key] # Absent => records[key] \in Record
  BY DEF TypeOK
<1>3. ASSUME NEW a \in {"received", "failed"}, RecordResponse(key, a) PROVE RecordsPersist
  <2> DEFINE record == [kept EXCEPT !.answer = a]
  <2>1. kept # Absent /\ Keep(KeptRecords, key, record)
    BY <1>3 DEF RecordResponse
  <2>2. record.digest = kept.digest /\ record.queued = kept.queued /\ record.answer = a
    BY <1>1, <2>1 DEF Record
  <2> QED
    BY <1>1, <2>1, <2>2, RecordsKept
<1>4. CASE RecordApplied(key)
  <2> DEFINE record == [records[key] EXCEPT !.answer = "applied", !.deadline = later]
  <2>1. records[key] # Absent /\ Keep(records, key, record) /\ ~records[key].queued
    BY <1>4 DEF RecordApplied, Usable
  <2>2. record.digest = records[key].digest /\ record.queued = records[key].queued
    BY <1>2, <2>1 DEF Record
  <2> QED
    BY <2>1, <2>2, RecordsKept
<1>5. ASSUME NEW a \in {"applied", "failed"}, RecordLifecycle(key, a) PROVE RecordsPersist
  <2> DEFINE record == [records[key] EXCEPT !.answer = a, !.deadline = later]
  <2>1. records[key] # Absent /\ Keep(records, key, record) /\ records[key].digest \in Commands
    BY <1>5 DEF RecordLifecycle
  <2>2. record.digest = records[key].digest /\ record.queued = records[key].queued
    BY <1>2, <2>1 DEF Record
  <2> QED
    BY <2>1, <2>2, RecordsKept
<1>6. CASE Defer(key)
  <2> DEFINE until == kept.received + ChunkTimeout[kept.digest]
             record == [kept EXCEPT !.answer = "received", !.pendingUntil = until]
  <2>1. kept # Absent /\ Keep(KeptRecords, key, record)
    BY <1>6 DEF Defer
  <2>2. record.digest = kept.digest /\ record.queued = kept.queued /\ record.answer = "received"
    BY <1>1, <2>1 DEF Record
  <2> QED
    BY <1>1, <2>1, <2>2, RecordsKept
<1>7. ASSUME NEW a \in {"committed", "rejected"}, Finish(key, a) PROVE RecordsPersist
  <2> DEFINE record == [kept EXCEPT !.answer = a, !.pendingUntil = 0, !.deadline = later]
  <2>1. kept # Absent /\ Keep(KeptRecords, key, record)
    BY <1>7 DEF Finish
  <2>2. record.digest = kept.digest /\ record.queued = kept.queued /\ record.answer = a
    BY <1>1, <2>1 DEF Record
  <2> QED
    BY <1>1, <2>1, <2>2, RecordsKept
<1> QED
  BY <1>3, <1>4, <1>5, <1>6, <1>7 DEF Feedback

LEMMA RecordsPersistStep ==
  ASSUME RegistryInv, [Next]_vars
  PROVE  RecordsPersist
<1> USE KeptIsRecord, RecordsForget DEF RegistryInv
<1>1. ASSUME NEW g \in Grants, Request(g) PROVE RecordsPersist
  <2>1. ASSUME NEW n \in Nonces, NEW c \in Openings, OpenAgain(g, n, c) PROVE RecordsPersist
    BY <2>1 DEF OpenAgain, history
  <2>2. ASSUME NEW n \in Nonces, NEW c \in Openings, Open(g, n, c) PROVE RecordsPersist
    BY <2>2, FreshIsNew, RecordsAdmit DEF Open
  <2>3. ASSUME NEW k \in Keys, NEW c \in Contents, AcceptAgain(g, k, c) PROVE RecordsPersist
    BY <2>3 DEF AcceptAgain, history
  <2>4. ASSUME NEW k \in Keys, NEW c \in Contents, Accept(g, k, c) PROVE RecordsPersist
    BY <2>4, FreshIsNew, RecordsAdmit DEF Accept
  <2> QED
    BY <1>1, <2>1, <2>2, <2>3, <2>4 DEF Request
<1>2. ASSUME NEW k \in Keys, Feedback(k) PROVE RecordsPersist
  BY <1>2, RecordsPersistFeedback
<1>3. ASSUME NEW key \in Keys, Claim(key) PROVE RecordsPersist
  <2>1. KeptRecords[key] \in Record /\ KeptRecords[key] = records[key] /\ records[key] # Absent
    BY <1>3, ExpiryType DEF Claim
  <2>2. \A k \in Keys : records'[k] = IF k = key THEN [records[key] EXCEPT !.queued = TRUE]
                                      ELSE KeptRecords[k]
    BY <1>3, <2>1, ExpiryType DEF Claim
  <2>3. records'[key].digest = records[key].digest /\ records'[key].queued
    BY <2>1, <2>2 DEF Record
  <2>4. answered' = answered /\ admissions' = admissions
    BY <1>3 DEF Claim, history
  <2> QED
    BY <2>1, <2>2, <2>3, <2>4 DEF RecordsPersist, SameRecord, AppliedAtOnce
<1>4. CASE Refuse
  BY <1>4 DEF Refuse, history
<1>5. ASSUME NEW s \in Ids, Revoke(s) PROVE RecordsPersist
  BY <1>5 DEF Revoke, history
<1>6. CASE Close
  BY <1>6 DEF Close, history
<1>7. CASE RefuseClosed \/ Tick \/ UNCHANGED vars
  BY <1>7 DEF RefuseClosed, Tick, history, vars
<1> QED
  BY <1>1, <1>2, <1>3, <1>4, <1>5, <1>6, <1>7 DEF Next

\* Sessions ended and entries dropped by a caller leave the registry sound.
LEMMA EndingKeeps ==
  ASSUME RegistryInv, UNCHANGED <<now, nextId, closed, told>>, UNCHANGED history,
         sessions' \in [Ids -> Session \cup {Absent}],
         \A s \in Ids : sessions'[s] \in {sessions[s], Absent},
         \/ UNCHANGED <<opens, records>>
         \/ opens' = KeptOpens /\ records' = KeptRecords
  PROVE  RegistryInv' /\ SessionsPersist /\ RecordsPersist
<1> USE RegistryAssumption DEF RegistryInv, history
<1>1. TypeOK'
  BY ExpiryType DEF TypeOK
<1>2. \A k \in Keys : records'[k] \in {records[k], Absent}
  BY KeptIsRecord
<1>3. OnceInv' /\ FeedbackInv' /\ RecordsPersist /\ SessionsPersist
  BY <1>2, OnceShrinks, FeedbackForgets, RecordsForget DEF SessionsPersist
<1>4. SizeInv'
  <2>1. Held(sessions') \subseteq Held(sessions)
    BY TablesFinite DEF Held
  <2>2. /\ Held(opens') \subseteq Held(opens) /\ Held(records') \subseteq Held(records)
        /\ Pending(records') \subseteq Pending(records)
    BY ExpirySizes
  <2> QED
    BY <2>1, <2>2, SizesShrink
<1> QED
  BY <1>1, <1>3, <1>4
=============================================================================
