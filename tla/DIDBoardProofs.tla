--------------------------- MODULE DIDBoardProofs ---------------------------
(***************************************************************************)
(* Proofs about the contract, for every set of identities, accounts,       *)
(* documents and roots and for chains of any length.                       *)
(***************************************************************************)
EXTENDS DIDBoard, TLAPS

-----------------------------------------------------------------------------
(* What appending one event does to the log *)

\* Emitting an event keeps the log's prefix and puts the event at its end.
LEMMA EmitAppends ==
    ASSUME log \in Seq(Event), NEW e \in Event, Emit(e)
    PROVE  /\ log' \in Seq(Event)
           /\ Len(log) \in Nat
           /\ Len(log') = Len(log) + 1
           /\ \A i \in 1..Len(log) : log'[i] = log[i]
           /\ log'[Len(log) + 1] = e
  BY DEF Emit

-----------------------------------------------------------------------------
(* Type correctness *)

\* The storage and the event log always have their declared shapes.
THEOREM TypeCorrect == Spec => []TypeOK
<1>1. Init => TypeOK
  BY BoardAssumption DEF Init, TypeOK, EmptyRecord, Record, EmptyAnchor, Anchor
<1>2. TypeOK /\ [Next]_vars => TypeOK'
  <2> SUFFICES ASSUME TypeOK, [Next]_vars
               PROVE  TypeOK'
    OBVIOUS
  <2> USE BoardAssumption DEF TypeOK
  <2>1. ASSUME NEW from \in Accounts, NEW a \in Accounts \cup {NoAddr},
               setRootUpdater(from, a)
        PROVE  TypeOK'
    <3>1. RootUpdaterChanged(a) \in Event
      BY <2>1 DEF setRootUpdater, RootUpdaterChanged, Event
    <3> QED
      BY <2>1, <3>1, EmitAppends DEF setRootUpdater
  <2>2. ASSUME NEW id \in Ids, NEW doc \in Docs,
               NEW owner \in Accounts \cup {NoAddr},
               NEW recovery \in Accounts \cup {NoAddr},
               registerZK(id, doc, owner, recovery)
        PROVE  TypeOK'
    <3>1. RegisteredZK(id, doc, owner, recovery) \in Event
      BY <2>2 DEF registerZK, RegisteredZK, Event
    <3>2. records' \in [Ids -> Record]
      BY <2>2 DEF registerZK, Record
    <3> QED
      BY <2>2, <3>1, <3>2, EmitAppends DEF registerZK
  <2>3. ASSUME NEW id \in Ids, NEW doc \in Docs,
               NEW owner \in Accounts \cup {NoAddr},
               NEW recovery \in Accounts \cup {NoAddr},
               NEW from \in Accounts, NEW v \in 0..MaxLog,
               applyRecoveryRotateZK(from, id, doc, v, owner, recovery)
        PROVE  TypeOK'
    <3>1. RecoveredZK(id, doc, v, owner, recovery, from) \in Event
      BY <2>3 DEF applyRecoveryRotateZK, RecoveredZK, Event
    <3>2. records' \in [Ids -> Record]
      BY <2>3 DEF applyRecoveryRotateZK, Record
    <3> QED
      BY <2>3, <3>1, <3>2, EmitAppends DEF applyRecoveryRotateZK
  <2>4. ASSUME NEW from \in Accounts, NEW id \in Ids, NEW doc \in Docs,
               NEW v \in 0..MaxLog,
               applyUpdateZK(from, id, doc, v)
        PROVE  TypeOK'
    <3>1. UpdatedZK(id, doc, v, from) \in Event
      BY <2>4 DEF UpdatedZK, Event
    <3>2. records' \in [Ids -> Record]
      BY <2>4 DEF applyUpdateZK, Record
    <3> QED
      BY <2>4, <3>1, <3>2, EmitAppends DEF applyUpdateZK
  <2>5. ASSUME NEW from \in Accounts, NEW root \in Roots, NEW e \in 0..MaxEpoch,
               setActiveRoot(from, root, e)
        PROVE  TypeOK'
    <3>1. RootUpdated(root, e, from) \in Event
      BY <2>5 DEF RootUpdated, Event
    <3> QED
      BY <2>5, <3>1, EmitAppends DEF setActiveRoot
  <2>6. ASSUME NEW from \in Accounts, NEW id \in Ids, NEW d \in Digests,
               NEW v \in 0..MaxLog, NEW e \in 0..MaxEpoch,
               setTTSSMeta(from, id, v, e, d)
        PROVE  TypeOK'
    <3>1. TTSSMetaUpdated(id, v, e, d, from) \in Event
      BY DEF TTSSMetaUpdated, Event
    <3>2. ttss' \in [Ids -> Anchor]
      BY <2>6 DEF setTTSSMeta, Anchor
    <3> QED
      BY <2>6, <3>1, <3>2, EmitAppends DEF setTTSSMeta
  <2>7. ASSUME NEW from \in Accounts, NEW id \in Ids, NEW d \in Digests,
               NEW v \in 0..MaxLog, NEW e \in 0..MaxEpoch,
               publishTraceResult(from, id, v, e, d)
        PROVE  TypeOK'
    <3>1. TraceResultPublished(id, v, e, d, from) \in Event
      BY DEF TraceResultPublished, Event
    <3>2. trace' \in [Ids -> Anchor]
      BY <2>7 DEF publishTraceResult, Anchor
    <3> QED
      BY <2>7, <3>1, <3>2, EmitAppends DEF publishTraceResult
  <2>8. CASE UNCHANGED vars
    BY <2>8 DEF vars
  <2> QED
    BY <2>1, <2>2, <2>3, <2>4, <2>5, <2>6, <2>7, <2>8 DEF Next
<1> QED
  BY <1>1, <1>2, PTL DEF Spec

-----------------------------------------------------------------------------
(* The shape of a step: one event, and what the storage does with it *)

\* The step appends the event e and nothing else.
Appends(e) ==
    /\ Len(log) \in Nat
    /\ Len(log') = Len(log) + 1
    /\ \A i \in 1..Len(log) : log'[i] = log[i]
    /\ log'[Len(log) + 1] = e

\* A record changes only with an event that tells its new fields.
RecordShape(e) ==
    \A id \in Ids :
        \/ records'[id] = records[id] /\ ~IsRecordEvent(e, id)
        \/ /\ IsRecordEvent(e, id)
           /\ records'[id].active
           /\ records'[id].doc = e.doc
           /\ records'[id].version = e.ver
           /\ records[id].active => e.ver = records[id].version + 1
           /\ IF IsControlEvent(e, id)
              THEN /\ records'[id].owner = e.owner
                   /\ records'[id].recovery = e.recovery
              ELSE /\ records'[id].owner = records[id].owner
                   /\ records'[id].recovery = records[id].recovery
           /\ e.kind # "RegisteredZK" =>
                  /\ records[id].active
                  /\ e.from = IF e.kind = "UpdatedZK" THEN records[id].owner
                              ELSE records[id].recovery

\* The root moves only with a root event, to a higher epoch.
RootShape(e) ==
    \/ /\ ~IsRootEvent(e)
       /\ activeRoot' = activeRoot /\ rootEpoch' = rootEpoch
    \/ /\ IsRootEvent(e)
       /\ e.root = activeRoot' /\ e.epoch = rootEpoch' /\ rootEpoch' > rootEpoch

\* An anchor event cites the record and the epoch it was accepted under.
AnchorShape(e) ==
    IsAnchorEvent(e) =>
        /\ records[e.id].active
        /\ e.ver = records[e.id].version
        /\ e.epoch = rootEpoch

\* Every step of the contract has this shape.
LEMMA StepShape ==
    ASSUME TypeOK, Next
    PROVE  \E e : Appends(e) /\ RecordShape(e) /\ RootShape(e) /\ AnchorShape(e)
<1> USE BoardAssumption DEF TypeOK
<1>e. ASSUME NEW e, Emit(e) PROVE Appends(e)
  BY <1>e DEF Emit, Appends
<1> USE DEF IsRecordEvent, IsControlEvent, IsRootEvent, IsAnchorEvent,
            RecordShape, RootShape, AnchorShape, Record
<1>1. ASSUME NEW from \in Accounts, NEW a \in Accounts \cup {NoAddr},
             setRootUpdater(from, a)
      PROVE  \E e : Appends(e) /\ RecordShape(e) /\ RootShape(e) /\ AnchorShape(e)
  <2> DEFINE e == RootUpdaterChanged(a)
  <2>1. Appends(e)
    BY <1>1, <1>e DEF setRootUpdater
  <2>2. RecordShape(e) /\ RootShape(e) /\ AnchorShape(e)
    BY <1>1 DEF setRootUpdater, RootUpdaterChanged
  <2> QED BY <2>1, <2>2
<1>2. ASSUME NEW id \in Ids, NEW doc \in Docs,
             NEW owner \in Accounts \cup {NoAddr},
             NEW recovery \in Accounts \cup {NoAddr},
             registerZK(id, doc, owner, recovery)
      PROVE  \E e : Appends(e) /\ RecordShape(e) /\ RootShape(e) /\ AnchorShape(e)
  <2> DEFINE e == RegisteredZK(id, doc, owner, recovery)
  <2>1. Appends(e)
    BY <1>2, <1>e DEF registerZK
  <2>2. RecordShape(e)
    BY <1>2 DEF registerZK, RegisteredZK
  <2>3. RootShape(e) /\ AnchorShape(e)
    BY <1>2 DEF registerZK, RegisteredZK
  <2> QED BY <2>1, <2>2, <2>3
<1>3. ASSUME NEW id \in Ids, NEW doc \in Docs,
             NEW owner \in Accounts \cup {NoAddr},
             NEW recovery \in Accounts \cup {NoAddr},
             NEW from \in Accounts, NEW v \in 0..MaxLog,
             applyRecoveryRotateZK(from, id, doc, v, owner, recovery)
      PROVE  \E e : Appends(e) /\ RecordShape(e) /\ RootShape(e) /\ AnchorShape(e)
  <2> DEFINE e == RecoveredZK(id, doc, v, owner, recovery, from)
  <2>1. Appends(e)
    BY <1>3, <1>e DEF applyRecoveryRotateZK
  <2>2. RecordShape(e)
    BY <1>3 DEF applyRecoveryRotateZK, RecoveredZK
  <2>3. RootShape(e) /\ AnchorShape(e)
    BY <1>3 DEF applyRecoveryRotateZK, RecoveredZK
  <2> QED BY <2>1, <2>2, <2>3
<1>4. ASSUME NEW from \in Accounts, NEW id \in Ids, NEW doc \in Docs,
             NEW v \in 0..MaxLog,
             applyUpdateZK(from, id, doc, v)
      PROVE  \E e : Appends(e) /\ RecordShape(e) /\ RootShape(e) /\ AnchorShape(e)
  <2> DEFINE e == UpdatedZK(id, doc, v, from)
  <2>1. Appends(e)
    BY <1>4, <1>e DEF applyUpdateZK
  <2>2. RecordShape(e)
    BY <1>4 DEF applyUpdateZK, UpdatedZK
  <2>3. RootShape(e) /\ AnchorShape(e)
    BY <1>4 DEF applyUpdateZK, UpdatedZK
  <2> QED BY <2>1, <2>2, <2>3
<1>5. ASSUME NEW from \in Accounts, NEW root \in Roots, NEW ep \in 0..MaxEpoch,
             setActiveRoot(from, root, ep)
      PROVE  \E e : Appends(e) /\ RecordShape(e) /\ RootShape(e) /\ AnchorShape(e)
  <2> DEFINE e == RootUpdated(root, ep, from)
  <2>1. Appends(e)
    BY <1>5, <1>e DEF setActiveRoot
  <2>2. RecordShape(e) /\ RootShape(e) /\ AnchorShape(e)
    BY <1>5 DEF setActiveRoot, RootUpdated
  <2> QED BY <2>1, <2>2
<1>6. ASSUME NEW from \in Accounts, NEW id \in Ids, NEW d \in Digests,
             NEW v \in 0..MaxLog, NEW ep \in 0..MaxEpoch,
             setTTSSMeta(from, id, v, ep, d)
      PROVE  \E e : Appends(e) /\ RecordShape(e) /\ RootShape(e) /\ AnchorShape(e)
  <2> DEFINE e == TTSSMetaUpdated(id, v, ep, d, from)
  <2>1. Appends(e)
    BY <1>6, <1>e DEF setTTSSMeta
  <2>2. RecordShape(e) /\ RootShape(e) /\ AnchorShape(e)
    BY <1>6 DEF setTTSSMeta, citesCurrent, TTSSMetaUpdated
  <2> QED BY <2>1, <2>2
<1>7. ASSUME NEW from \in Accounts, NEW id \in Ids, NEW d \in Digests,
             NEW v \in 0..MaxLog, NEW ep \in 0..MaxEpoch,
             publishTraceResult(from, id, v, ep, d)
      PROVE  \E e : Appends(e) /\ RecordShape(e) /\ RootShape(e) /\ AnchorShape(e)
  <2> DEFINE e == TraceResultPublished(id, v, ep, d, from)
  <2>1. Appends(e)
    BY <1>7, <1>e DEF publishTraceResult
  <2>2. RecordShape(e) /\ RootShape(e) /\ AnchorShape(e)
    BY <1>7 DEF publishTraceResult, citesCurrent, TraceResultPublished
  <2> QED BY <2>1, <2>2
<1> QED
  BY <1>1, <1>2, <1>3, <1>4, <1>5, <1>6, <1>7 DEF Next

-----------------------------------------------------------------------------
(* The log invariants are preserved, one lemma for each *)

\* A new record event is newer than all before it, which were at most as new
\* as the record, and by one newer than the last of them, which was as new.
LEMMA VersionsStep ==
    ASSUME TypeOK, TypeOK', VersionsInOrder, LogDeterminesRecord,
           NEW e, Appends(e), RecordShape(e)
    PROVE  VersionsInOrder'
<1> SUFFICES ASSUME NEW j \in 1..(Len(log) + 1), NEW id \in Ids,
                    IsRecordEvent(log'[j], id)
             PROVE  /\ records'[id].active
                    /\ log'[j].ver <= records'[id].version
                    /\ \A i \in 1..(j - 1) :
                           IsRecordEvent(log'[i], id) => log'[i].ver < log'[j].ver
                    /\ log'[j].ver > 0 =>
                           \E i \in 1..(j - 1) :
                               /\ IsRecordEvent(log'[i], id)
                               /\ log'[i].ver + 1 = log'[j].ver
  BY DEF VersionsInOrder, Appends
<1>n. /\ records[id].version \in Nat
      /\ records'[id].version \in Nat
      /\ Len(log) \in Nat
  BY DEF TypeOK, Record, Appends
<1>p. \A i \in 1..Len(log) : log'[i] = log[i]
  BY DEF Appends
<1>1. CASE j \in 1..Len(log)
  <2>1. log'[j] = log[j] /\ IsRecordEvent(log[j], id)
    BY <1>1, <1>p
  <2>2. /\ records[id].active
        /\ log[j].ver <= records[id].version
        /\ \A i \in 1..(j - 1) :
               IsRecordEvent(log[i], id) => log[i].ver < log[j].ver
        /\ log[j].ver > 0 =>
               \E i \in 1..(j - 1) :
                   IsRecordEvent(log[i], id) /\ log[i].ver + 1 = log[j].ver
    BY <1>1, <2>1 DEF VersionsInOrder
  <2>3. /\ records'[id].active
        /\ \/ records'[id].version = records[id].version
           \/ records'[id].version = records[id].version + 1
    BY <2>2 DEF RecordShape
  <2>4. log[j].ver \in Nat
    BY <1>1, <2>1 DEF IsRecordEvent, Event, TypeOK
  <2>5. \A i \in 1..(j - 1) : log'[i] = log[i]
    BY <1>1, <1>p, <1>n
  <2> QED
    BY <1>n, <2>1, <2>2, <2>3, <2>4, <2>5
<1>2. CASE j = Len(log) + 1
  <2>1. log'[j] = e /\ IsRecordEvent(e, id)
    BY <1>2 DEF Appends
  <2>2. /\ records'[id].active
        /\ records'[id].version = e.ver
        /\ records[id].active => e.ver = records[id].version + 1
    BY <2>1 DEF RecordShape
  <2>3. ASSUME NEW i \in 1..(j - 1), IsRecordEvent(log'[i], id)
        PROVE  log'[i].ver < e.ver
    <3>1. i \in 1..Len(log) /\ log'[i] = log[i] /\ IsRecordEvent(log[i], id)
      BY <1>2, <1>n, <1>p, <2>3
    <3>2. records[id].active /\ log[i].ver <= records[id].version
      BY <3>1 DEF VersionsInOrder
    <3>3. log[i].ver \in Nat
      BY <3>1 DEF IsRecordEvent, Event, TypeOK
    <3> QED
      BY <1>n, <2>2, <3>1, <3>2, <3>3
  <2>4. ASSUME e.ver > 0
        PROVE  \E i \in 1..(j - 1) :
                   IsRecordEvent(log'[i], id) /\ log'[i].ver + 1 = e.ver
    <3>1. e \in Event
      BY <1>2, <1>n DEF Appends, TypeOK
    <3>2. e.kind # "RegisteredZK"
      BY <2>4, <3>1 DEF Event
    <3>3. records[id].active /\ e.ver = records[id].version + 1
      BY <2>1, <2>2, <3>2 DEF RecordShape
    <3>4. PICK i \in 1..Len(log) :
              IsRecordEvent(log[i], id) /\ log[i].ver = records[id].version
      BY <3>3 DEF LogDeterminesRecord, LastBefore, Now
    <3> QED
      BY <1>2, <1>n, <1>p, <3>3, <3>4
  <2> QED
    BY <1>n, <2>1, <2>2, <2>3, <2>4
<1> QED
  BY <1>1, <1>2, <1>n

\* The event of the step tells the new fields of the records it changes, and
\* the last events of the other records stay the last.
LEMMA DeterminesStep ==
    ASSUME TypeOK, LogDeterminesRecord, NEW e, Appends(e), RecordShape(e)
    PROVE  LogDeterminesRecord'
<1> SUFFICES ASSUME NEW id \in Ids, records'[id].active
             PROVE  /\ \E i \in 1..Len(log') :
                           /\ \A k \in (i + 1)..Len(log') : ~IsRecordEvent(log'[k], id)
                           /\ IsRecordEvent(log'[i], id)
                           /\ log'[i].doc = records'[id].doc
                           /\ log'[i].ver = records'[id].version
                    /\ \E i \in 1..Len(log') :
                           /\ \A k \in (i + 1)..Len(log') : ~IsControlEvent(log'[k], id)
                           /\ IsControlEvent(log'[i], id)
                           /\ log'[i].owner = records'[id].owner
                           /\ log'[i].recovery = records'[id].recovery
  BY DEF LogDeterminesRecord, LastBefore, Now, Appends
<1> USE DEF Appends
<1>1. CASE records'[id] = records[id] /\ ~IsRecordEvent(e, id)
  <2>0. ~IsControlEvent(e, id)
    BY <1>1 DEF IsRecordEvent, IsControlEvent
  <2>1. PICK i \in 1..Len(log) :
            /\ \A k \in (i + 1)..Len(log) : ~IsRecordEvent(log[k], id)
            /\ IsRecordEvent(log[i], id)
            /\ log[i].doc = records[id].doc
            /\ log[i].ver = records[id].version
    BY <1>1 DEF LogDeterminesRecord, LastBefore, Now
  <2>2. PICK h \in 1..Len(log) :
            /\ \A k \in (h + 1)..Len(log) : ~IsControlEvent(log[k], id)
            /\ IsControlEvent(log[h], id)
            /\ log[h].owner = records[id].owner
            /\ log[h].recovery = records[id].recovery
    BY <1>1 DEF LogDeterminesRecord, LastBefore, Now
  <2>3. \A k \in (i + 1)..Len(log') : ~IsRecordEvent(log'[k], id)
    BY <1>1, <2>1
  <2>4. \A k \in (h + 1)..Len(log') : ~IsControlEvent(log'[k], id)
    BY <2>0, <2>2
  <2> QED
    BY <1>1, <2>1, <2>2, <2>3, <2>4
<1>2. CASE IsControlEvent(e, id)
  <2>1. IsRecordEvent(e, id)
    BY <1>2 DEF IsRecordEvent, IsControlEvent
  <2>2. /\ records'[id].doc = e.doc /\ records'[id].version = e.ver
        /\ records'[id].owner = e.owner /\ records'[id].recovery = e.recovery
    BY <1>2, <2>1 DEF RecordShape
  <2>3. /\ Len(log) + 1 \in 1..Len(log') /\ log'[Len(log) + 1] = e
        /\ \A k \in (Len(log) + 1 + 1)..Len(log') : FALSE
    OBVIOUS
  <2> QED
    BY <1>2, <2>1, <2>2, <2>3
<1>3. CASE IsRecordEvent(e, id) /\ ~IsControlEvent(e, id)
  <2>1. /\ records'[id].doc = e.doc /\ records'[id].version = e.ver
        /\ records[id].active
        /\ records'[id].owner = records[id].owner
        /\ records'[id].recovery = records[id].recovery
    BY <1>3 DEF RecordShape, IsRecordEvent, IsControlEvent
  <2>2. PICK h \in 1..Len(log) :
            /\ \A k \in (h + 1)..Len(log) : ~IsControlEvent(log[k], id)
            /\ IsControlEvent(log[h], id)
            /\ log[h].owner = records[id].owner
            /\ log[h].recovery = records[id].recovery
    BY <2>1 DEF LogDeterminesRecord, LastBefore, Now
  <2>3. \A k \in (h + 1)..Len(log') : ~IsControlEvent(log'[k], id)
    BY <1>3, <2>2
  <2>4. /\ Len(log) + 1 \in 1..Len(log') /\ log'[Len(log) + 1] = e
        /\ \A k \in (Len(log) + 1 + 1)..Len(log') : FALSE
    OBVIOUS
  <2> QED
    BY <1>3, <2>1, <2>2, <2>3, <2>4
<1> QED
  BY <1>1, <1>2, <1>3 DEF RecordShape

\* A change is sent by the controller that the last control event names,
\* which is the one the record holds.
LEMMA HistoryStep ==
    ASSUME TypeOK, LogDeterminesRecord, ControlFollowsHistory,
           NEW e, Appends(e), RecordShape(e)
    PROVE  ControlFollowsHistory'
<1> SUFFICES ASSUME NEW j \in 1..(Len(log) + 1), NEW id \in Ids,
                    IsRecordEvent(log'[j], id), log'[j].kind # "RegisteredZK"
             PROVE  \E i \in 1..(j - 1) :
                        /\ IsControlEvent(log'[i], id)
                        /\ \A k \in (i + 1)..(j - 1) : ~IsControlEvent(log'[k], id)
                        /\ log'[j].from = IF log'[j].kind = "UpdatedZK"
                                          THEN log'[i].owner ELSE log'[i].recovery
  BY DEF ControlFollowsHistory, LastBefore, Appends
<1>p. Len(log) \in Nat /\ \A i \in 1..Len(log) : log'[i] = log[i]
  BY DEF Appends
<1>1. CASE j \in 1..Len(log)
  <2>1. log'[j] = log[j]
    BY <1>1, <1>p
  <2>2. PICK i \in 1..(j - 1) :
            /\ IsControlEvent(log[i], id)
            /\ \A k \in (i + 1)..(j - 1) : ~IsControlEvent(log[k], id)
            /\ log[j].from = IF log[j].kind = "UpdatedZK"
                             THEN log[i].owner ELSE log[i].recovery
    BY <1>1, <2>1 DEF ControlFollowsHistory, LastBefore
  <2>3. log'[i] = log[i] /\ \A k \in (i + 1)..(j - 1) : log'[k] = log[k]
    BY <1>1, <1>p
  <2> QED
    BY <2>1, <2>2, <2>3
<1>2. CASE j = Len(log) + 1
  <2>1. log'[j] = e
    BY <1>2 DEF Appends
  <2>2. /\ records[id].active
        /\ e.from = IF e.kind = "UpdatedZK" THEN records[id].owner
                    ELSE records[id].recovery
    BY <2>1 DEF RecordShape
  <2>3. PICK i \in 1..Len(log) :
            /\ \A k \in (i + 1)..Len(log) : ~IsControlEvent(log[k], id)
            /\ IsControlEvent(log[i], id)
            /\ log[i].owner = records[id].owner
            /\ log[i].recovery = records[id].recovery
    BY <2>2 DEF LogDeterminesRecord, LastBefore, Now
  <2>4. i \in 1..(j - 1) /\ log'[i] = log[i]
    BY <1>2, <1>p
  <2>5. \A k \in (i + 1)..(j - 1) : ~IsControlEvent(log'[k], id)
    BY <1>2, <1>p, <2>3
  <2> QED
    BY <2>1, <2>2, <2>3, <2>4, <2>5
<1> QED
  BY <1>1, <1>2, <1>p

\* A new root event has a higher epoch than all before it and becomes the
\* active root.
LEMMA RootStep ==
    ASSUME TypeOK, TypeOK', OneRootPerEpoch, NEW e, Appends(e), RootShape(e)
    PROVE  OneRootPerEpoch'
<1>p. /\ Len(log) \in Nat /\ Len(log') = Len(log) + 1
      /\ \A i \in 1..Len(log) : log'[i] = log[i]
      /\ log'[Len(log) + 1] = e
      /\ rootEpoch \in Nat /\ rootEpoch' \in Nat
  BY DEF Appends, TypeOK
<1>1. ASSUME NEW j \in 1..Len(log'), IsRootEvent(log'[j])
      PROVE  /\ log'[j].epoch \in 1..rootEpoch'
             /\ \A i \in 1..(j - 1) :
                    IsRootEvent(log'[i]) => log'[i].epoch < log'[j].epoch
  <2>1. CASE j \in 1..Len(log)
    <3>1. log'[j] = log[j] /\ \A i \in 1..(j - 1) : log'[i] = log[i]
      BY <1>p, <2>1
    <3>2. rootEpoch <= rootEpoch'
      BY <1>p DEF RootShape
    <3> QED
      BY <1>1, <1>p, <2>1, <3>1, <3>2 DEF OneRootPerEpoch
  <2>2. CASE j = Len(log) + 1
    <3>1. IsRootEvent(e) /\ e.epoch = rootEpoch' /\ rootEpoch' > rootEpoch
      BY <1>1, <1>p, <2>2 DEF RootShape
    <3>2. \A i \in 1..(j - 1) : i \in 1..Len(log) /\ log'[i] = log[i]
      BY <1>p, <2>2
    <3>3. \A i \in 1..Len(log) : IsRootEvent(log[i]) => log[i].epoch \in 1..rootEpoch
      BY DEF OneRootPerEpoch
    <3> QED
      BY <1>p, <2>2, <3>1, <3>2, <3>3
  <2> QED
    BY <1>p, <2>1, <2>2
<1>2. ASSUME rootEpoch' > 0
      PROVE  \E i \in 1..Len(log') :
                 /\ IsRootEvent(log'[i])
                 /\ \A k \in (i + 1)..Len(log') : ~IsRootEvent(log'[k])
                 /\ log'[i].root = activeRoot'
                 /\ log'[i].epoch = rootEpoch'
  <2>1. CASE ~IsRootEvent(e)
    <3>1. activeRoot' = activeRoot /\ rootEpoch' = rootEpoch
      BY <2>1 DEF RootShape
    <3>2. PICK i \in 1..Len(log) :
              /\ IsRootEvent(log[i])
              /\ \A k \in (i + 1)..Len(log) : ~IsRootEvent(log[k])
              /\ log[i].root = activeRoot
              /\ log[i].epoch = rootEpoch
      BY <1>2, <3>1 DEF OneRootPerEpoch, LastBefore, Now
    <3>3. \A k \in (i + 1)..Len(log') : ~IsRootEvent(log'[k])
      BY <1>p, <2>1, <3>2
    <3> QED
      BY <1>p, <3>1, <3>2, <3>3
  <2>2. CASE IsRootEvent(e)
    <3>1. e.root = activeRoot' /\ e.epoch = rootEpoch'
      BY <2>2 DEF RootShape
    <3>2. /\ Len(log) + 1 \in 1..Len(log')
          /\ \A k \in (Len(log) + 1 + 1)..Len(log') : FALSE
      BY <1>p
    <3> QED
      BY <1>p, <2>2, <3>1, <3>2
  <2> QED
    BY <2>1, <2>2
<1> QED
  BY <1>1, <1>2 DEF OneRootPerEpoch, LastBefore, Now

\* A new anchor cites the record's version, which its last record event
\* carries, and the current epoch, which the last root event carries.
LEMMA AnchorStep ==
    ASSUME TypeOK, LogDeterminesRecord, OneRootPerEpoch, AnchorsCiteLiveState,
           NEW e, Appends(e), AnchorShape(e)
    PROVE  AnchorsCiteLiveState'
<1> SUFFICES ASSUME NEW j \in 1..(Len(log) + 1), NEW id \in Ids,
                    IsAnchorEvent(log'[j]), log'[j].id = id
             PROVE  /\ \E i \in 1..(j - 1) :
                           /\ IsRecordEvent(log'[i], id)
                           /\ \A k \in (i + 1)..(j - 1) : ~IsRecordEvent(log'[k], id)
                           /\ log'[i].ver = log'[j].ver
                    /\ \/ /\ log'[j].epoch = 0
                          /\ \A i \in 1..(j - 1) : ~IsRootEvent(log'[i])
                       \/ \E i \in 1..(j - 1) :
                              /\ IsRootEvent(log'[i])
                              /\ \A k \in (i + 1)..(j - 1) : ~IsRootEvent(log'[k])
                              /\ log'[i].epoch = log'[j].epoch
  BY DEF AnchorsCiteLiveState, LastBefore, Appends
<1>p. Len(log) \in Nat /\ \A i \in 1..Len(log) : log'[i] = log[i]
  BY DEF Appends
<1>1. CASE j \in 1..Len(log)
  <2>1. log'[j] = log[j] /\ \A i \in 1..(j - 1) : log'[i] = log[i]
    BY <1>1, <1>p
  <2>2. IsAnchorEvent(log[j]) /\ log[j].id = id
    BY <2>1
  <2>3. PICK i \in 1..(j - 1) :
            /\ IsRecordEvent(log[i], id)
            /\ \A k \in (i + 1)..(j - 1) : ~IsRecordEvent(log[k], id)
            /\ log[i].ver = log[j].ver
    BY <1>1, <2>2, Zenon DEF AnchorsCiteLiveState, LastBefore
  <2>4. \A k \in (i + 1)..(j - 1) : ~IsRecordEvent(log'[k], id)
    BY <1>1, <1>p, <2>3
  <2>5. \/ log[j].epoch = 0 /\ \A r \in 1..(j - 1) : ~IsRootEvent(log[r])
        \/ \E r \in 1..(j - 1) :
               /\ IsRootEvent(log[r])
               /\ \A k \in (r + 1)..(j - 1) : ~IsRootEvent(log[k])
               /\ log[r].epoch = log[j].epoch
    BY <1>1, <2>2, Zenon DEF AnchorsCiteLiveState, LastBefore
  <2>6. CASE log[j].epoch = 0 /\ \A r \in 1..(j - 1) : ~IsRootEvent(log[r])
    BY <2>1, <2>3, <2>4, <2>6
  <2>7. ASSUME NEW r \in 1..(j - 1), IsRootEvent(log[r]),
               \A k \in (r + 1)..(j - 1) : ~IsRootEvent(log[k]),
               log[r].epoch = log[j].epoch
        PROVE  /\ IsRootEvent(log'[r])
               /\ \A k \in (r + 1)..(j - 1) : ~IsRootEvent(log'[k])
               /\ log'[r].epoch = log'[j].epoch
    BY <1>1, <1>p, <2>1, <2>7
  <2> QED
    BY <2>1, <2>3, <2>4, <2>5, <2>6, <2>7
<1>2. CASE j = Len(log) + 1
  <2>1. log'[j] = e
    BY <1>2 DEF Appends
  <2>2. records[id].active /\ e.ver = records[id].version /\ e.epoch = rootEpoch
    BY <2>1 DEF AnchorShape
  <2>3. \A i \in 1..(j - 1) : i \in 1..Len(log) /\ log'[i] = log[i]
    BY <1>2, <1>p
  <2>4. PICK i \in 1..Len(log) :
            /\ IsRecordEvent(log[i], id)
            /\ \A k \in (i + 1)..Len(log) : ~IsRecordEvent(log[k], id)
            /\ log[i].ver = records[id].version
    BY <2>2 DEF LogDeterminesRecord, LastBefore, Now
  <2>5. /\ i \in 1..(j - 1)
        /\ \A k \in (i + 1)..(j - 1) : ~IsRecordEvent(log'[k], id)
    BY <1>2, <1>p, <2>4
  <2>6. CASE rootEpoch = 0
    <3>1. \A k \in 1..Len(log) : ~IsRootEvent(log[k])
      BY <2>6 DEF OneRootPerEpoch
    <3> QED
      BY <2>1, <2>2, <2>3, <2>4, <2>5, <2>6, <3>1
  <2>7. CASE rootEpoch > 0
    <3>1. PICK r \in 1..Len(log) :
              /\ IsRootEvent(log[r])
              /\ \A k \in (r + 1)..Len(log) : ~IsRootEvent(log[k])
              /\ log[r].epoch = rootEpoch
      BY <2>7 DEF OneRootPerEpoch, LastBefore, Now
    <3>2. /\ r \in 1..(j - 1)
          /\ \A k \in (r + 1)..(j - 1) : ~IsRootEvent(log'[k])
      BY <1>2, <1>p, <3>1
    <3> QED
      BY <2>1, <2>2, <2>3, <2>4, <2>5, <3>1, <3>2
  <2> QED
    BY <2>6, <2>7 DEF TypeOK
<1> QED
  BY <1>1, <1>2, <1>p

-----------------------------------------------------------------------------
(* The theorem *)

\* The invariants that relate the contract's storage to its event log.  No
\* strengthening is needed: together they are inductive.
LogInv ==
    /\ VersionsInOrder
    /\ LogDeterminesRecord
    /\ ControlFollowsHistory
    /\ OneRootPerEpoch
    /\ AnchorsCiteLiveState

\* Storage and event log agree in every reachable state.
THEOREM LogInvariant == Spec => []LogInv
<1>1. Init => LogInv
  <2> SUFFICES ASSUME Init PROVE LogInv
    OBVIOUS
  <2>1. Len(log) = 0 /\ 1..Len(log) = {}
    BY DEF Init
  <2>2. rootEpoch = 0 /\ \A id \in Ids : ~records[id].active
    BY DEF Init, EmptyRecord
  <2> QED
    BY <2>1, <2>2 DEF LogInv, VersionsInOrder, LogDeterminesRecord,
       ControlFollowsHistory, OneRootPerEpoch, AnchorsCiteLiveState
<1>2. TypeOK /\ TypeOK' /\ LogInv /\ [Next]_vars => LogInv'
  <2> SUFFICES ASSUME TypeOK, TypeOK', LogInv, [Next]_vars
               PROVE  LogInv'
    OBVIOUS
  <2>1. CASE Next
    <3>1. PICK e : Appends(e) /\ RecordShape(e) /\ RootShape(e) /\ AnchorShape(e)
      BY <2>1, StepShape
    <3> QED
      BY <3>1, VersionsStep, DeterminesStep, HistoryStep, RootStep, AnchorStep
         DEF LogInv
  <2>2. CASE UNCHANGED vars
    BY <2>2 DEF vars, LogInv, VersionsInOrder, LogDeterminesRecord,
       ControlFollowsHistory, OneRootPerEpoch, AnchorsCiteLiveState,
       LastBefore, Now
  <2> QED
    BY <2>1, <2>2
<1> QED
  BY <1>1, <1>2, TypeCorrect, PTL DEF Spec

\* No late anchor: what TTSS and trace anchors cite was in force when the
\* contract accepted them.
THEOREM AnchorsAreLive == Spec => []AnchorsCiteLiveState
  BY LogInvariant, PTL DEF LogInv

\* Nobody but the controllers of record ever changes an identity.
THEOREM ControlIsInherited == Spec => []ControlFollowsHistory
  BY LogInvariant, PTL DEF LogInv

\* The event log is a complete account of the records.
THEOREM LogIsComplete == Spec => [](VersionsInOrder /\ LogDeterminesRecord)
  BY LogInvariant, PTL DEF LogInv

\* An epoch names one root.
THEOREM EpochsNameRoots == Spec => []OneRootPerEpoch
  BY LogInvariant, PTL DEF LogInv

\* The record events of an identity carry the versions 0, 1, 2, ..., none above
\* the version of the record: no version is replayed, issued twice or left out.
THEOREM VersionsAreOrdered == Spec => []VersionsInOrder
  BY LogIsComplete, PTL
=============================================================================
