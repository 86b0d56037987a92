--------------------------- MODULE ModelQueueProofs ---------------------------
(***************************************************************************)
(* What holds of the model input queue for every number of sessions, paths, *)
(* steps and inputs, on top of what holds of the registry it shares.        *)
(***************************************************************************)
EXTENDS ModelQueue, SessionRegistryProofs

-----------------------------------------------------------------------------
(* The inductive invariant.  A queued input was admitted, its record is      *)
(* marked as queued for as long as the registry keeps it, and it is of the  *)
(* model and of the run of its session for as long as that is registered.   *)

InUse(k) == pending[k] # Absent \/ handed[k] # 0

QueuedSound(k) ==
  /\ pending[k].writer.sid = k[1]
  /\ handed[k] = 0 /\ answered[k] # "applied"
  /\ sessions[k[1]] # Absent =>
       /\ pending[k].model = ModelOf[sessions[k[1]].grant]
       /\ pending[k].era = clears[pending[k].model]

UsedSound(k) ==
  /\ admissions[k] # 0
  /\ records[k] # Absent => records[k].queued /\ records[k].digest \in Inputs

EntriesSound ==
  /\ AppliedOnce
  /\ \A k \in Keys : pending[k] # Absent => QueuedSound(k)
  /\ \A k \in Keys : InUse(k) => UsedSound(k)

TablesSound == QueueTypeOK /\ ReservedExactly /\ WriterHolds

QueueInv == RegistryInv /\ TablesSound /\ EntriesSound

-----------------------------------------------------------------------------
(* The tables of paths.                                                    *)

\* The places of a queued input are places, and its paths are paths.
LEMMA PlacesAre ==
  ASSUME QueueAssumption, QueueTypeOK, NEW entry \in Queued,
         TargetOf[entry.content] <= MaxStep
  PROVE  /\ PlacesOf(entry) \subseteq Places
         /\ \A p \in PathsOf[entry.content] : <<entry.model, p>> \in Targets
<1>1. entry.model \in Models /\ entry.content \in Inputs
  BY DEF Queued
<1>2. PathsOf[entry.content] \subseteq Paths /\ TargetOf[entry.content] \in 0..MaxStep
  BY <1>1 DEF QueueAssumption
<1> QED
  BY <1>1, <1>2 DEF PlacesOf, Places, Targets

\* Inputs leave the queue with their places, and sessions with their paths and
\* with all they queued: the others keep theirs.
LEMMA DropTables ==
  ASSUME QueueAssumption, TablesSound, EntriesSound,
         NEW ids \in SUBSET Ids, NEW gone \in SUBSET Held(pending), QueuedBy(ids) \subseteq gone,
         pending' = Without(pending, gone),
         reservations' = Released(reservations, gone),
         writers' = Disowned(ids),
         steps' \in [Models -> 0..MaxStep], handed' \in [Keys -> Nat],
         clears' \in [Models -> Nat]
  PROVE  TablesSound'
<1> USE QueueAbsentAssumption DEF TablesSound
<1>1. /\ DOMAIN pending = Keys /\ Held(pending) \subseteq Keys
      /\ \A k \in Keys : pending'[k] = IF k \in gone THEN Absent ELSE pending[k]
      /\ \A k \in Keys : pending[k] # Absent => pending[k] \in Queued /\ k \in Held(pending)
  BY DEF QueueTypeOK, Held, Without
<1>2. QueueTypeOK'
  <2>1. pending' \in [Keys -> Queued \cup {Absent}]
    BY <1>1 DEF QueueTypeOK, Without
  <2>2. reservations' \in [Places -> Keys \cup {Absent}]
    BY DEF QueueTypeOK, Released
  <2>3. writers' \in [Targets -> Writer \cup {Absent}]
    BY DEF QueueTypeOK, Disowned
  <2> QED
    BY <2>1, <2>2, <2>3 DEF QueueTypeOK
<1>3. ReservedExactly'
  <2> SUFFICES ASSUME NEW p \in Places, NEW k \in Keys
               PROVE  reservations'[p] = k
                        <=> pending'[k] # Absent /\ p \in PlacesOf(pending'[k])
    BY DEF ReservedExactly
  <2>1. reservations[p] = k <=> pending[k] # Absent /\ p \in PlacesOf(pending[k])
    BY DEF ReservedExactly
  <2>2. reservations'[p] = IF \E j \in gone : p \in PlacesOf(pending[j])
                           THEN Absent ELSE reservations[p]
    BY DEF Released
  <2>3. ASSUME NEW j \in gone, p \in PlacesOf(pending[j]) PROVE reservations[p] = j
    BY <1>1, <2>3 DEF ReservedExactly, Held
  <2>4. CASE \E j \in gone : p \in PlacesOf(pending[j])
    <3>1. PICK j \in gone : p \in PlacesOf(pending[j])
      BY <2>4
    <3>2. reservations[p] = j /\ reservations'[p] = Absent
      BY <2>2, <2>3, <3>1
    <3> QED
      BY <1>1, <2>1, <3>1, <3>2
  <2>5. CASE ~\E j \in gone : p \in PlacesOf(pending[j])
    BY <1>1, <2>1, <2>2, <2>5
  <2> QED
    BY <2>4, <2>5
<1>4. WriterHolds'
  <2>1. DOMAIN pending' = Keys
    BY DEF Without
  <2> SUFFICES ASSUME NEW k \in Keys, pending'[k] # Absent, NEW p \in PathsOf[pending'[k].content]
               PROVE  writers'[<<pending'[k].model, p>>] = pending'[k].writer
    BY <2>1 DEF WriterHolds, Held
  <2>2. pending'[k] = pending[k] /\ k \in Held(pending) /\ k \notin gone /\ pending[k] \in Queued
    BY <1>1
  <2>3. writers[<<pending[k].model, p>>] = pending[k].writer
    BY <2>2 DEF WriterHolds
  <2>4. pending[k].writer.sid = k[1] /\ k[1] \notin ids
    BY <1>1, <2>2 DEF EntriesSound, QueuedSound, QueuedBy
  <2>5. <<pending[k].model, p>> \in Targets
    BY <2>2 DEF Queued, Targets, QueueAssumption
  <2>6. writers'[<<pending[k].model, p>>] = writers[<<pending[k].model, p>>]
    BY <2>3, <2>4, <2>5 DEF Disowned
  <2> QED
    BY <2>2, <2>3, <2>6
<1> QED
  BY <1>2, <1>3, <1>4

\* An input joins the queue where its paths are free or its writer's, and free
\* at its step.
LEMMA EnqueueTables ==
  ASSUME QueueAssumption, QueueInv, NEW key \in Keys, Enqueue(key)
  PROVE  TablesSound'
<1> DEFINE m == ModelOf[LiveSessions[key[1]].grant]
           content == records[key].digest
           entry == [content |-> content, model |-> m, received |-> records[key].received,
                     writer |-> [sid |-> key[1], lane |-> LaneOf[content]],
                     era |-> clears[m]]
<1> USE QueueAbsentAssumption DEF TablesSound, QueueInv, RegistryInv
<1>1. /\ LiveSessions[key[1]] # Absent /\ KeptRecords[key] # Absent
      /\ content \in Inputs /\ TargetOf[content] <= MaxStep
      /\ Writable(m, entry) /\ Claim(key)
      /\ pending' = [pending EXCEPT ![key] = entry]
      /\ writers' = [t \in Targets |-> IF t[1] = m /\ t[2] \in PathsOf[content]
                                       THEN entry.writer ELSE writers[t]]
      /\ reservations' = [p \in Places |-> IF p \in PlacesOf(entry)
                                           THEN key ELSE reservations[p]]
      /\ UNCHANGED <<steps, handed, clears>>
  BY DEF Enqueue
<1>2. key[1] \in Ids /\ LiveSessions[key[1]] \in Session
  BY <1>1, ExpiryType DEF Keys
<1>3. m \in Models
  BY <1>2 DEF Session, QueueAssumption
<1>4. records[key] \in Record /\ KeptRecords[key] = records[key]
  BY <1>1, ExpiryType, KeptIsRecord
<1>5. entry \in Queued /\ entry.writer \in Writer
  <2>1. LaneOf[content] \in Lanes /\ records[key].received \in Nat /\ clears[m] \in Nat
    BY <1>1, <1>3, <1>4 DEF QueueAssumption, Record, QueueTypeOK
  <2> QED
    BY <1>1, <1>2, <1>3, <2>1 DEF Queued, Writer
<1>6. pending[key] = Absent
  <2>1. ~records[key].queued
    BY <1>1, <1>4 DEF Claim, Usable
  <2> QED
    BY <1>1, <1>4, <2>1, KeptIsRecord DEF EntriesSound, InUse, UsedSound
<1>7. /\ PlacesOf(entry) \subseteq Places
      /\ \A p \in PathsOf[content] : <<m, p>> \in Targets
  <2>1. TargetOf[entry.content] <= MaxStep
    BY <1>1
  <2> QED
    BY <1>5, <2>1, PlacesAre
<1>8. \A p \in PlacesOf(entry) : reservations[p] = Absent
  BY <1>1 DEF Writable, PlacesOf
<1>9. \A k \in Keys : pending'[k] = IF k = key THEN entry ELSE pending[k]
  BY <1>1 DEF QueueTypeOK
<1>10. QueueTypeOK'
  <2>1. pending' \in [Keys -> Queued \cup {Absent}]
    BY <1>1, <1>5 DEF QueueTypeOK
  <2>2. writers' \in [Targets -> Writer \cup {Absent}]
    BY <1>1, <1>5 DEF QueueTypeOK
  <2>3. reservations' \in [Places -> Keys \cup {Absent}]
    BY <1>1 DEF QueueTypeOK
  <2> QED
    BY <1>1, <2>1, <2>2, <2>3 DEF QueueTypeOK
<1>11. ReservedExactly'
  <2> SUFFICES ASSUME NEW p \in Places, NEW k \in Keys
               PROVE  reservations'[p] = k
                        <=> pending'[k] # Absent /\ p \in PlacesOf(pending'[k])
    BY DEF ReservedExactly
  <2>1. reservations[p] = k <=> pending[k] # Absent /\ p \in PlacesOf(pending[k])
    BY DEF ReservedExactly
  <2>2. reservations'[p] = IF p \in PlacesOf(entry) THEN key ELSE reservations[p]
    BY <1>1
  <2>3. reservations[p] # key
    BY <1>6 DEF ReservedExactly
  <2>4. entry # Absent
    BY <1>5
  <2> HIDE DEF entry
  <2>5. CASE k = key
    BY <1>9, <2>2, <2>3, <2>4, <2>5
  <2>6. CASE k # key
    BY <1>8, <1>9, <2>1, <2>2, <2>6
  <2> QED
    BY <2>5, <2>6
<1>12. WriterHolds'
  <2>1. DOMAIN pending' = Keys
    BY <1>1 DEF QueueTypeOK
  <2> SUFFICES ASSUME NEW k \in Keys, pending'[k] # Absent, NEW p \in PathsOf[pending'[k].content]
               PROVE  writers'[<<pending'[k].model, p>>] = pending'[k].writer
    BY <2>1 DEF WriterHolds, Held
  <2>2. CASE k = key
    <3>1. pending'[k].model = m /\ pending'[k].content = content
          /\ pending'[k].writer = entry.writer
      BY <1>9, <2>2
    <3> QED
      BY <1>1, <1>7, <3>1
  <2>3. CASE k # key
    <3>1. pending'[k] = pending[k] /\ pending[k] # Absent /\ pending[k] \in Queued
          /\ k \in Held(pending)
      BY <1>9, <2>3 DEF QueueTypeOK, Held
    <3>2. writers[<<pending[k].model, p>>] = pending[k].writer /\ pending[k].writer \in Writer
      BY <3>1 DEF WriterHolds, Queued
    <3>3. <<pending[k].model, p>> \in Targets
      BY <3>1 DEF Queued, Targets, QueueAssumption
    <3>4. CASE pending[k].model = m /\ p \in PathsOf[content]
      <4>1. writers[<<m, p>>] \in {Absent, entry.writer}
        BY <1>1, <3>4 DEF Writable
      <4>2. pending[k].writer = entry.writer
        BY <3>2, <3>4, <4>1
      <4> QED
        BY <1>1, <3>1, <3>3, <3>4, <4>2
    <3>5. CASE ~(pending[k].model = m /\ p \in PathsOf[content])
      BY <1>1, <3>1, <3>2, <3>3, <3>5
    <3> QED
      BY <3>4, <3>5
  <2> QED
    BY <2>2, <2>3
<1> QED
  BY <1>10, <1>11, <1>12

-----------------------------------------------------------------------------
(* The entries.                                                            *)

\* A step of the registry, with inputs at most leaving the queue and none
\* handed over, keeps them sound: a cleanup that moves the run on has dropped
\* the inputs of every session still registered.
LEMMA EntriesKept ==
  ASSUME QueueAssumption, QueueInv, SessionsPersist, RecordsPersist, handed' = handed,
         \A k \in Keys : pending'[k] \in {pending[k], Absent},
         \A k \in Keys : pending'[k] # Absent /\ sessions'[k[1]] # Absent =>
           clears'[pending[k].model] = clears[pending[k].model]
  PROVE  EntriesSound'
<1> USE DEF QueueInv, EntriesSound
<1>1. \A k \in Keys : InUse(k)' => InUse(k)
  BY DEF InUse
<1>2. ASSUME NEW k \in Keys, InUse(k)
      PROVE  /\ admissions'[k] # 0 /\ k[1] \in Ids /\ k[1] < nextId
             /\ answered'[k] = "applied" => answered[k] = "applied"
             /\ records'[k] # Absent => records'[k].queued /\ records'[k].digest \in Inputs
  <2>1. UsedSound(k)
    BY <1>2
  <2>2. k[1] \in Ids /\ k[1] < nextId
    BY <2>1 DEF UsedSound, RegistryInv, OnceInv, Keys
  <2>3. admissions'[k] # 0 /\ SameRecord(k) /\ AppliedAtOnce(k)
    BY <2>1 DEF UsedSound, RecordsPersist
  <2>4. records'[k] # Absent => records'[k].queued /\ records'[k].digest \in Inputs
    BY <2>1, <2>3 DEF UsedSound, SameRecord
  <2>5. answered'[k] = "applied" => answered[k] = "applied"
    BY <2>1, <2>3 DEF UsedSound, AppliedAtOnce, QueueAssumption
  <2> QED
    BY <2>2, <2>3, <2>4, <2>5
<1>3. AppliedOnce'
  <2> SUFFICES ASSUME NEW k \in Keys
               PROVE  handed'[k] + (IF answered'[k] = "applied" THEN 1 ELSE 0) <= 1
    BY DEF AppliedOnce
  <2>1. handed[k] + (IF answered[k] = "applied" THEN 1 ELSE 0) <= 1 /\ handed[k] \in Nat
    BY DEF AppliedOnce, TablesSound, QueueTypeOK
  <2>2. CASE InUse(k)
    BY <1>2, <2>1, <2>2
  <2>3. CASE ~InUse(k)
    BY <2>3 DEF InUse
  <2> QED
    BY <2>2, <2>3
<1>4. ASSUME NEW k \in Keys, pending'[k] # Absent PROVE QueuedSound(k)'
  <2>1. pending'[k] = pending[k] /\ pending[k] # Absent /\ QueuedSound(k) /\ InUse(k)
    BY <1>4 DEF InUse
  <2>2. answered'[k] # "applied" /\ k[1] \in Ids /\ k[1] < nextId
    BY <1>2, <2>1 DEF QueuedSound
  <2>3. sessions'[k[1]] # Absent =>
          sessions[k[1]] # Absent /\ sessions'[k[1]].grant = sessions[k[1]].grant
    BY <2>2 DEF SessionsPersist
  <2> QED
    BY <1>4, <2>1, <2>2, <2>3 DEF QueuedSound
<1>5. ASSUME NEW k \in Keys, InUse(k)' PROVE UsedSound(k)'
  BY <1>1, <1>2, <1>5 DEF UsedSound
<1> QED
  BY <1>3, <1>4, <1>5

\* A newly queued input.
LEMMA EnqueueEntries ==
  ASSUME QueueAssumption, QueueInv, NEW key \in Keys, Enqueue(key),
         SessionsPersist, RecordsPersist
  PROVE  EntriesSound'
<1> USE DEF QueueInv, EntriesSound
<1> DEFINE s == key[1]
           m == ModelOf[LiveSessions[s].grant]
           content == records[key].digest
           entry == [content |-> content, model |-> m, received |-> records[key].received,
                     writer |-> [sid |-> s, lane |-> LaneOf[content]],
                     era |-> clears[m]]
<1>1. /\ LiveSessions[s] # Absent /\ KeptRecords[key] # Absent /\ content \in Inputs
      /\ Claim(key) /\ pending' = [pending EXCEPT ![key] = entry]
      /\ UNCHANGED <<steps, handed, clears>>
  BY DEF Enqueue
<1>2. s \in Ids /\ sessions[s] # Absent /\ LiveSessions[s] = sessions[s]
  BY <1>1, ExpiryType DEF Keys, RegistryInv
<1>3. KeptRecords[key] = records[key] /\ records[key] \in Record
  BY <1>1, ExpiryType, KeptIsRecord DEF RegistryInv
<1>4. /\ ~records[key].queued /\ records[key].answer # "applied"
      /\ sessions' = LiveSessions /\ answered' = answered /\ admissions' = admissions
      /\ records' = [KeptRecords EXCEPT ![key].queued = TRUE]
  BY <1>1, <1>3 DEF Claim, Usable, Expire, history
<1>5. /\ admissions[key] # 0 /\ answered[key] # "applied"
  BY <1>3, <1>4, AbsentAssumption DEF RegistryInv, FeedbackInv
<1>6. ~InUse(key)
  BY <1>3, <1>4, AbsentAssumption DEF UsedSound
<1>7. records'[key] = [records[key] EXCEPT !.queued = TRUE]
  BY <1>3, <1>4, ExpiryType DEF RegistryInv
<1>8. records'[key].queued /\ records'[key].digest = content
  BY <1>3, <1>7 DEF Record
<1>9. \A k \in Keys : pending'[k] = IF k = key THEN entry ELSE pending[k]
  BY <1>1 DEF TablesSound, QueueTypeOK
<1>10. QueuedSound(key)'
  <2>1. /\ pending'[key] = entry /\ handed'[key] = 0 /\ answered'[key] # "applied"
        /\ sessions'[s] = sessions[s] /\ clears' = clears
    BY <1>1, <1>2, <1>4, <1>5, <1>6, <1>9 DEF InUse
  <2> QED
    BY <1>2, <2>1 DEF QueuedSound
<1>11. UsedSound(key)'
  BY <1>1, <1>4, <1>5, <1>8 DEF UsedSound
<1>12. ASSUME NEW k \in Keys, k # key
       PROVE  /\ pending'[k] # Absent => QueuedSound(k)'
              /\ InUse(k)' => UsedSound(k)'
  <2>1. pending'[k] = pending[k] /\ handed'[k] = handed[k] /\ clears' = clears
        /\ answered' = answered /\ admissions' = admissions
    BY <1>1, <1>4, <1>9, <1>12
  <2>2. pending'[k] # Absent => QueuedSound(k)'
    <3> SUFFICES ASSUME pending'[k] # Absent PROVE QueuedSound(k)'
      OBVIOUS
    <3>1. QueuedSound(k) /\ UsedSound(k)
      BY <2>1 DEF InUse
    <3>2. k[1] \in Ids /\ k[1] < nextId
      BY <3>1 DEF UsedSound, RegistryInv, OnceInv, Keys
    <3>3. sessions'[k[1]] # Absent =>
            sessions[k[1]] # Absent /\ sessions'[k[1]].grant = sessions[k[1]].grant
      BY <3>2 DEF SessionsPersist
    <3> QED
      BY <2>1, <3>1, <3>3 DEF QueuedSound
  <2>3. InUse(k)' => UsedSound(k)'
    BY <2>1 DEF InUse, UsedSound, RecordsPersist, SameRecord
  <2> QED
    BY <2>2, <2>3
<1>13. AppliedOnce'
  BY <1>1, <1>4 DEF AppliedOnce
<1> QED
  BY <1>10, <1>11, <1>12, <1>13

\* A boundary hands over inputs that were queued, once, and forgets them.
LEMMA BeginEntries ==
  ASSUME QueueAssumption, QueueInv, NEW m \in Models, BeginStep(m),
         SessionsPersist, RecordsPersist
  PROVE  EntriesSound'
<1> USE DEF QueueInv, EntriesSound
<1> DEFINE step == steps[m] + 1
           gone == QueuedBy(Dead) \cup
                   {k \in Held(pending) : /\ pending[k].model = m
                                          /\ TargetOf[pending[k].content] <= step}
           due == Due(m, step)
<1>1. /\ pending' = Without(pending, gone) /\ UNCHANGED clears
      /\ handed' = [k \in Keys |-> IF k \in due THEN handed[k] + 1 ELSE handed[k]]
      /\ answered' = answered /\ admissions' = admissions
  BY DEF BeginStep, history
<1>2. step \in Nat
  BY DEF TablesSound, QueueTypeOK
<1>3. \A k \in due : k \in Keys /\ pending[k] # Absent /\ k \in gone
  BY <1>2 DEF Due, Held, TablesSound, QueueTypeOK
<1>4. \A k \in Keys : /\ pending'[k] = IF k \in gone THEN Absent ELSE pending[k]
                      /\ handed'[k] = IF k \in due THEN handed[k] + 1 ELSE handed[k]
  BY <1>1 DEF Without
<1>5. \A k \in Keys : InUse(k)' => InUse(k)
  BY <1>3, <1>4 DEF InUse
<1>6. ASSUME NEW k \in Keys, pending'[k] # Absent PROVE QueuedSound(k)'
  <2>1. /\ pending'[k] = pending[k] /\ pending[k] # Absent /\ handed'[k] = handed[k]
        /\ QueuedSound(k) /\ UsedSound(k)
    BY <1>3, <1>4, <1>6 DEF InUse
  <2>2. k[1] \in Ids /\ k[1] < nextId
    BY <2>1 DEF UsedSound, RegistryInv, OnceInv, Keys
  <2>3. sessions'[k[1]] # Absent =>
          sessions[k[1]] # Absent /\ sessions'[k[1]].grant = sessions[k[1]].grant
    BY <2>2 DEF SessionsPersist
  <2> QED
    BY <1>1, <2>1, <2>3 DEF QueuedSound
<1>7. ASSUME NEW k \in Keys, InUse(k)' PROVE UsedSound(k)'
  <2>1. UsedSound(k)
    BY <1>5, <1>7
  <2> QED
    BY <2>1 DEF UsedSound, RecordsPersist, SameRecord
<1>8. AppliedOnce'
  <2> SUFFICES ASSUME NEW k \in Keys
               PROVE  handed'[k] + (IF answered'[k] = "applied" THEN 1 ELSE 0) <= 1
    BY DEF AppliedOnce
  <2>1. CASE k \in due
    BY <1>1, <1>3, <1>4, <2>1 DEF QueuedSound
  <2>2. CASE k \notin due
    BY <1>1, <1>4, <2>2 DEF AppliedOnce
  <2> QED
    BY <2>1, <2>2
<1> QED
  BY <1>6, <1>7, <1>8

-----------------------------------------------------------------------------
(* Every step.                                                             *)

\* What a call of the registry does to it, and what its users rely on.
RegistryKept == RegistryInv' /\ SessionsPersist /\ RecordsPersist

LEMMA RegistryCall ==
  ASSUME RegistryInv, [Next]_vars
  PROVE  RegistryKept
BY RegistryInvStep, SessionsPersistStep, RecordsPersistStep DEF RegistryKept

LEMMA DeadAreIds == QueuedBy(Dead) \subseteq Held(pending) /\ Dead \in SUBSET Ids
BY DEF QueuedBy, Dead

\* An input that stays queued stays the same.
LEMMA WithoutKeeps ==
  ASSUME NEW gone, pending' = Without(pending, gone)
  PROVE  \A k \in Keys : /\ pending'[k] \in {pending[k], Absent}
                         /\ pending'[k] # Absent => k \notin gone /\ pending[k] # Absent
BY DEF Without

\* The sessions' inputs are discarded, and nothing else of the queue changes.
LEMMA DiscardStep ==
  ASSUME QueueAssumption, QueueInv, RegistryKept, NEW ids \in SUBSET Ids, Discard(ids),
         UNCHANGED <<steps, handed, clears>>
  PROVE  QueueInv'
<1> USE DEF QueueInv, RegistryKept
<1>1. /\ pending' = Without(pending, QueuedBy(ids))
      /\ reservations' = Released(reservations, QueuedBy(ids))
      /\ writers' = Disowned(ids)
      /\ QueuedBy(ids) \subseteq Held(pending)
  BY DEF Discard, QueuedBy
<1>2. /\ steps' \in [Models -> 0..MaxStep] /\ handed' \in [Keys -> Nat]
      /\ clears' \in [Models -> Nat]
  BY DEF TablesSound, QueueTypeOK
<1>3. TablesSound'
  BY <1>1, <1>2, DropTables
<1>4. EntriesSound'
  BY <1>1, WithoutKeeps, EntriesKept
<1> QED
  BY <1>3, <1>4

LEMMA BeginStepKeeps ==
  ASSUME QueueAssumption, QueueInv, NEW m \in Models, BeginStep(m)
  PROVE  QueueInv'
<1> USE DEF QueueInv
<1> DEFINE step == steps[m] + 1
           gone == QueuedBy(Dead) \cup
                   {k \in Held(pending) : /\ pending[k].model = m
                                          /\ TargetOf[pending[k].content] <= step}
<1>1. RegistryKept
  BY EndingKeeps, ExpiryType DEF BeginStep, Expire, RegistryInv, RegistryKept
<1>2. /\ pending' = Without(pending, gone) /\ reservations' = Released(reservations, gone)
      /\ writers' = Disowned(Dead) /\ steps' = [steps EXCEPT ![m] = step]
      /\ handed' = [k \in Keys |-> IF k \in Due(m, step) THEN handed[k] + 1 ELSE handed[k]]
      /\ clears' = clears
  BY DEF BeginStep
<1>3. step \in 0..MaxStep
  BY DEF BeginStep, Boundary, TablesSound, QueueTypeOK
<1>4. /\ steps' \in [Models -> 0..MaxStep] /\ handed' \in [Keys -> Nat]
      /\ clears' \in [Models -> Nat]
  BY <1>2, <1>3 DEF TablesSound, QueueTypeOK
<1>5. gone \in SUBSET Held(pending) /\ QueuedBy(Dead) \subseteq gone
  BY DeadAreIds
<1>6. TablesSound'
  BY <1>2, <1>4, <1>5, DeadAreIds, DropTables
<1>7. EntriesSound'
  BY <1>1, BeginEntries DEF RegistryKept
<1> QED
  BY <1>1, <1>6, <1>7 DEF RegistryKept

LEMMA LifecycleKeeps ==
  ASSUME QueueAssumption, QueueInv, NEW s \in Ids, NEW action, NEW n \in 0..MaxStep,
         Lifecycle(s, action, n)
  PROVE  QueueInv'
<1> USE DEF QueueInv
<1> DEFINE m == ModelOf[sessions[s].grant]
           run == RunSessions(s)
<1>1. sessions[s] \in Session /\ m \in Models
  <2>1. sessions[s] \in Session
    BY DEF Lifecycle, RegistryInv, TypeOK
  <2> QED
    BY <2>1 DEF Session, QueueAssumption
<1>2. run \subseteq Ids /\ \A t \in Ids :
        sessions[t] # Absent /\ ModelOf[sessions[t].grant] = m => t \in run
  BY DEF RunSessions, Held, RegistryInv, TypeOK
<1>3. RegistryKept
  <2>1. sessions' \in [Ids -> Session \cup {Absent}]
        /\ \A t \in Ids : sessions'[t] \in {sessions[t], Absent}
    BY DEF Lifecycle, RegistryInv, TypeOK
  <2>2. UNCHANGED <<now, nextId, closed, told, opens, records>> /\ UNCHANGED history
    BY DEF Lifecycle
  <2> QED
    BY <2>1, <2>2, EndingKeeps DEF RegistryKept
<1>4. steps' \in [Models -> 0..MaxStep] /\ handed' = handed /\ handed' \in [Keys -> Nat]
  BY DEF Lifecycle, TablesSound, QueueTypeOK
<1>5. CASE action = "START"
  <2>1. UNCHANGED <<pending, reservations, writers, clears>>
    BY <1>5 DEF Lifecycle
  <2>2. TablesSound'
    BY <1>4, <2>1 DEF TablesSound, QueueTypeOK, ReservedExactly, WriterHolds, Held
  <2>3. EntriesSound'
    BY <1>3, <1>4, <2>1, EntriesKept DEF RegistryKept
  <2> QED
    BY <1>3, <2>2, <2>3 DEF RegistryKept
<1>6. CASE action # "START"
  <2>1. Discard(run) /\ clears' = [clears EXCEPT ![m] = @ + 1]
    BY <1>6 DEF Lifecycle
  <2>2. /\ pending' = Without(pending, QueuedBy(run))
        /\ reservations' = Released(reservations, QueuedBy(run))
        /\ writers' = Disowned(run)
        /\ QueuedBy(run) \subseteq Held(pending)
    BY <2>1 DEF Discard, QueuedBy
  <2>3. clears' \in [Models -> Nat]
    BY <1>1, <2>1 DEF TablesSound, QueueTypeOK
  <2>4. TablesSound'
    BY <1>2, <1>4, <2>2, <2>3, DropTables
  <2>5. ASSUME NEW k \in Keys, pending'[k] # Absent, sessions'[k[1]] # Absent
        PROVE  clears'[pending[k].model] = clears[pending[k].model]
    <3>1. /\ k \notin QueuedBy(run) /\ pending[k] # Absent /\ QueuedSound(k) /\ InUse(k)
          /\ k \in Held(pending)
      BY <2>2, <2>5, WithoutKeeps DEF EntriesSound, InUse, Held, TablesSound, QueueTypeOK
    <3>2. k[1] \in Ids /\ k[1] < nextId
      BY <3>1 DEF EntriesSound, UsedSound, RegistryInv, OnceInv, Keys
    <3>3. sessions[k[1]] # Absent /\ k[1] \notin run
      BY <1>3, <2>5, <3>1, <3>2 DEF RegistryKept, SessionsPersist, QueuedBy
    <3>4. pending[k].model # m
      BY <1>2, <3>1, <3>2, <3>3 DEF QueuedSound
    <3> QED
      BY <2>1, <3>4 DEF TablesSound, QueueTypeOK
  <2>6. EntriesSound'
    BY <1>3, <1>4, <2>2, <2>5, WithoutKeeps, EntriesKept DEF RegistryKept
  <2> QED
    BY <1>3, <2>4, <2>6 DEF RegistryKept
<1> QED
  BY <1>5, <1>6

LEMMA QueueInvStep == QueueAssumption /\ QueueInv /\ [QueueNext]_allVars => QueueInv'
<1> SUFFICES ASSUME QueueAssumption, QueueInv, [QueueNext]_allVars PROVE QueueInv'
  OBVIOUS
<1> USE DEF QueueInv
<1>1. ASSUME [Next]_vars, UNCHANGED queueVars PROVE QueueInv'
  <2>1. RegistryKept
    BY <1>1, RegistryCall
  <2>2. TablesSound'
    BY <1>1 DEF TablesSound, QueueTypeOK, ReservedExactly, WriterHolds, Held, queueVars
  <2>3. EntriesSound'
    BY <1>1, <2>1, EntriesKept DEF RegistryKept, queueVars
  <2> QED
    BY <2>1, <2>2, <2>3 DEF RegistryKept
<1>2. CASE RegistryStep
  BY <1>1, <1>2 DEF RegistryStep, Next
<1>3. ASSUME NEW k \in Keys, Enqueue(k) PROVE QueueInv'
  <2>1. RegistryKept
    BY <1>3, RegistryCall DEF Enqueue, Next
  <2> QED
    BY <1>3, <2>1, EnqueueTables, EnqueueEntries DEF RegistryKept
<1>4. ASSUME NEW m \in Models, BeginStep(m) PROVE QueueInv'
  BY <1>4, BeginStepKeeps
<1>5. CASE ExpireInputs
  <2>1. RegistryKept
    BY <1>5, RegistryCall DEF ExpireInputs, Next
  <2> QED
    BY <1>5, <2>1, DeadAreIds, DiscardStep DEF ExpireInputs
<1>6. ASSUME NEW s \in Ids, Retire(s) PROVE QueueInv'
  <2>1. RegistryKept
    BY <1>6, RegistryCall DEF Retire, Next
  <2> QED
    BY <1>6, <2>1, DiscardStep DEF Retire
<1>7. ASSUME NEW s \in Ids, NEW a \in {"START", "STOP", "RESET", "RESUME"}, NEW n \in 0..MaxStep,
             Lifecycle(s, a, n)
      PROVE  QueueInv'
  BY <1>7, LifecycleKeeps
<1>8. CASE CloseAll
  <2>1. RegistryKept
    BY <1>8, RegistryCall DEF CloseAll, Next
  <2>2. /\ pending' = [k \in Keys |-> Absent] /\ writers' = [t \in Targets |-> Absent]
        /\ reservations' = [p \in Places |-> Absent] /\ UNCHANGED <<steps, handed, clears>>
    BY <1>8 DEF CloseAll
  <2>3. TablesSound'
    BY <2>2, QueueAbsentAssumption
       DEF TablesSound, QueueTypeOK, ReservedExactly, WriterHolds, Held
  <2>4. EntriesSound'
    BY <2>1, <2>2, EntriesKept DEF RegistryKept
  <2> QED
    BY <2>1, <2>3, <2>4 DEF RegistryKept
<1>9. CASE UNCHANGED allVars
  BY <1>1, <1>9 DEF allVars
<1> QED
  BY <1>2, <1>3, <1>4, <1>5, <1>6, <1>7, <1>8, <1>9 DEF QueueNext

LEMMA QueueInvInit == QueueAssumption /\ QueueInit => QueueInv
<1> SUFFICES ASSUME QueueAssumption, QueueInit PROVE QueueInv
  OBVIOUS
<1>1. RegistryInv
  BY RegistryInvInit DEF QueueInit
<1>2. /\ \A k \in Keys : pending[k] = Absent /\ handed[k] = 0 /\ answered[k] = "none"
      /\ \A p \in Places : reservations[p] = Absent
      /\ DOMAIN pending = Keys
  BY DEF QueueInit, Init
<1>3. QueueTypeOK
  <2>1. 0 \in 0..MaxStep
    BY DEF QueueAssumption
  <2> QED
    BY <2>1 DEF QueueInit, QueueTypeOK
<1>4. ReservedExactly /\ WriterHolds
  BY <1>2, QueueAbsentAssumption DEF ReservedExactly, WriterHolds, Held
<1>5. EntriesSound
  BY <1>2 DEF EntriesSound, AppliedOnce, InUse
<1> QED
  BY <1>1, <1>3, <1>4, <1>5 DEF QueueInv, TablesSound

-----------------------------------------------------------------------------
(* Results.                                                                *)

LEMMA QueueAlways == QueueSpec => []QueueInv
<1>1. QueueInit => QueueInv
  BY QueueAssumption, QueueInvInit
<1>2. QueueInv /\ [QueueNext]_allVars => QueueInv'
  BY QueueAssumption, QueueInvStep
<1> QED
  BY <1>1, <1>2, PTL DEF QueueSpec

\* The tables of the queue always have their types.
THEOREM QueueTypeCorrect == QueueSpec => []QueueTypeOK
BY QueueAlways, PTL DEF QueueInv, TablesSound

\* Whichever inputs are removed, discarded or cleaned up, a place is reserved
\* exactly by the queued input that writes it: no two write one path in one
\* step.
THEOREM PlacesAreExact == QueueSpec => []ReservedExactly
BY QueueAlways, PTL DEF QueueInv, TablesSound

\* Single writer: every path of every queued input is its session's and lane's.
THEOREM SingleWriter == QueueSpec => []WriterHolds
BY QueueAlways, PTL DEF QueueInv, TablesSound

\* An input acts at most once, at a boundary or through its service.
THEOREM ActsOnce == QueueSpec => []AppliedOnce
BY QueueAlways, PTL DEF QueueInv, EntriesSound

\* The registry keeps its bounds and admits nothing twice also when runs are
\* reset and sessions retired around the queue.
THEOREM RegistryUnderQueue == QueueSpec => [](AdmittedOnce /\ ToldStands /\ Bounded)
<1>1. QueueInv => AdmittedOnce /\ ToldStands /\ Bounded
  BY DEF QueueInv, RegistryInv, OnceInv, FeedbackInv, SizeInv
<1> QED
  BY <1>1, QueueAlways, PTL

\* What HandedInForce and NothingSurvivesCleanup say of one step.
InForce ==
  \A k \in Keys : handed'[k] # handed[k] =>
    /\ sessions[k[1]] # Absent /\ now < sessions[k[1]].deadline
    /\ TargetOf[pending[k].content] = steps'[pending[k].model]
    /\ pending[k].writer.lane # "stimulus" =>
         now < pending[k].received + ControlTimeout

OfThisRun ==
  \A k \in Keys : handed'[k] # handed[k] => pending[k].era = clears[pending[k].model]

LEMMA HandedSoundly ==
  ASSUME QueueAssumption, QueueInv, [QueueNext]_allVars
  PROVE  InForce /\ OfThisRun
<1> USE DEF QueueInv
<1>1. ASSUME NEW m \in Models, BeginStep(m) PROVE InForce /\ OfThisRun
  <2> SUFFICES ASSUME NEW k \in Keys, handed'[k] # handed[k]
               PROVE  /\ sessions[k[1]] # Absent /\ now < sessions[k[1]].deadline
                      /\ TargetOf[pending[k].content] = steps'[pending[k].model]
                      /\ pending[k].writer.lane # "stimulus" =>
                           now < pending[k].received + ControlTimeout
                      /\ pending[k].era = clears[pending[k].model]
    BY DEF InForce, OfThisRun
  <2>1. k \in Due(m, steps[m] + 1)
    BY <1>1 DEF BeginStep
  <2>2. k \in Held(pending) /\ k \notin QueuedBy(Dead) /\ pending[k].model = m
        /\ TargetOf[pending[k].content] = steps[m] + 1
        /\ (pending[k].writer.lane # "stimulus" =>
              now - pending[k].received < ControlTimeout)
    BY <2>1 DEF Due
  <2>3. k[1] \in Ids /\ LiveSessions[k[1]] # Absent
    BY <2>2 DEF QueuedBy, Dead, Keys
  <2>4. sessions[k[1]] # Absent /\ now < sessions[k[1]].deadline
    BY <2>3 DEF LiveSessions
  <2>5. steps' = [steps EXCEPT ![m] = steps[m] + 1] /\ m \in DOMAIN steps
    BY <1>1 DEF BeginStep, TablesSound, QueueTypeOK
  <2>6. pending[k] \in Queued /\ pending[k] # Absent
    BY <2>2 DEF Held, TablesSound, QueueTypeOK
  <2>7. now \in Nat /\ pending[k].received \in Nat /\ ControlTimeout \in Nat
    BY <2>6 DEF RegistryInv, TypeOK, Queued, QueueAssumption
  <2>8. pending[k].era = clears[pending[k].model]
    BY <2>4, <2>6 DEF EntriesSound, QueuedSound
  <2> QED
    BY <2>2, <2>4, <2>5, <2>7, <2>8
<1>2. ASSUME handed' = handed PROVE InForce /\ OfThisRun
  BY <1>2 DEF InForce, OfThisRun
<1>3. CASE RegistryStep \/ ExpireInputs \/ CloseAll \/ UNCHANGED allVars
  BY <1>2, <1>3 DEF RegistryStep, ExpireInputs, CloseAll, allVars, queueVars
<1>4. ASSUME NEW k \in Keys, Enqueue(k) PROVE InForce /\ OfThisRun
  BY <1>2, <1>4 DEF Enqueue
<1>5. ASSUME NEW s \in Ids, Retire(s) PROVE InForce /\ OfThisRun
  BY <1>2, <1>5 DEF Retire
<1>6. ASSUME NEW s \in Ids, NEW a \in {"START", "STOP", "RESET", "RESUME"}, NEW n \in 0..MaxStep,
             Lifecycle(s, a, n)
      PROVE  InForce /\ OfThisRun
  BY <1>2, <1>6 DEF Lifecycle
<1> QED
  BY <1>1, <1>3, <1>4, <1>5, <1>6 DEF QueueNext

\* What a boundary hands to the model is in force there: its session's lease
\* has not lapsed, the step is the one it names, and a control is fresh.
THEOREM HandedIsInForce == QueueSpec => HandedInForce
<1>1. QueueInv /\ [QueueNext]_allVars => [InForce]_allVars
  BY QueueAssumption, HandedSoundly
<1>2. HandedInForce <=> [][InForce]_allVars
  BY DEF HandedInForce, InForce
<1> QED
  BY <1>1, <1>2, QueueAlways, PTL DEF QueueSpec

\* What was queued before a stop, a reset or a resume is not handed over after
\* it, though the cleanup only reaches the sessions still registered: the
\* others are dead and never come back.
THEOREM CleanupIsComplete == QueueSpec => NothingSurvivesCleanup
<1>1. QueueInv /\ [QueueNext]_allVars => [OfThisRun]_allVars
  BY QueueAssumption, HandedSoundly
<1>2. NothingSurvivesCleanup <=> [][OfThisRun]_allVars
  BY DEF NothingSurvivesCleanup, OfThisRun
<1> QED
  BY <1>1, <1>2, QueueAlways, PTL DEF QueueSpec

\* The places and owners of the queue agree with what is queued, by whichever way
\* an input leaves it.
THEOREM QueueIsSound == QueueSpec => []QueueSound
BY QueueTypeCorrect, PlacesAreExact, SingleWriter, PTL DEF QueueSound

\* What a boundary hands to the model was neither outlived nor cleaned up while it
\* waited.
THEOREM HandedOverInTime == QueueSpec => HandedOver
BY HandedIsInForce, CleanupIsComplete DEF HandedOver
=============================================================================
