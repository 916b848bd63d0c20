------------------------- MODULE RootServiceProofs --------------------------
(***************************************************************************)
(* Proofs about the root machinery, for every set of identities, every     *)
(* kind of request and of background work, any number of faults, kills and *)
(* recomputations and chains of any length: the service's memory keeps its *)
(* shape, nothing it holds or anchors is ahead of the contract, and what   *)
(* it does to the contract is what the contract allows.                    *)
(*                                                                         *)
(* The second part is about a service in which nothing runs beside a pass: *)
(* it is started with AUTO_REBUILD=0 and nobody calls /recomputeRoot, so   *)
(* the worker runs at the start and the chain of refreshes after it.       *)
(* Requests, repairs, faults and kills stay arbitrary.  What is served is  *)
(* then the chain's, whether clients wait for the settlement or not.       *)
(* Mirror, tree and roots never go back under two more conditions: the     *)
(* clients wait (wait=1) before they change an identity again, and the     *)
(* identities are either updated or recovered but not both, or nothing     *)
(* fails and nothing is killed.  The runs show that each is needed.        *)
(***************************************************************************)
EXTENDS RootService, WellFoundedInduction, TLAPS

-----------------------------------------------------------------------------
(* The inductive invariant *)

MaybeVersion == Versions \cup {Absent}
Root == Leaves \cup {NoRoot}

PassPcs == {"idle", "sync", "apply", "refresh", "patch", "readRoot", "readEpoch",
            "send", "mined", "claim", "finish"}

PassType ==
    [pc : PassPcs, kind : {"none", "rebuild", "inline", "late", "repair"}, full : BOOLEAN,
     ids : SUBSET Ids, from : Nat, latest : Nat, ver : MaybeVersion, root : Root,
     epoch : Nat, changed : BOOLEAN]

PathEntry == {NoPath} \cup [leaves : Leaves, root : Leaves]
CacheEntry == [root : Root, epoch : Nat]
Task == [kind : {"inline", "late", "repair"}, id : Ids]
Request ==
    [pc : {"none", "mined", "queued", "caught", "fetched"}, ver : MaybeVersion,
     again : BOOLEAN]

\* Event i is about the record of an identity.
RecordAt(i, id) == log[i].kind \in RecordKinds /\ log[i].id = id

\* No leaf of l is newer than the record of its identity.
Issued(l) == \A id \in Ids : l[id] <= OnChain(id)

\* The contract: versions and epochs are paid for with events, and no event
\* and no leaf of the active root is newer than its record.
ChainInv ==
    /\ Board!TypeOK
    /\ rootEpoch <= Len(log)
    /\ \A id \in Ids : /\ OnChain(id) \in MaybeVersion
                       /\ records[id].version <= Len(log)
    /\ \A i \in 1..Len(log), id \in Ids : RecordAt(i, id) => log[i].ver <= OnChain(id)
    /\ activeRoot # NoRoot => Issued(activeRoot)

\* What the service knows of records.
KnownInv ==
    /\ mirror \in Leaves /\ Issued(mirror)
    /\ tree \in Leaves /\ Issued(tree)
    /\ req \in [Ids -> Request]
    /\ \A id \in Ids : req[id].ver <= OnChain(id)
    /\ late \in [Ids -> SUBSET Versions]
    /\ \A id \in Ids : \A v \in late[id] : v <= OnChain(id)

\* The caches, the timer and what clients were told.
CacheInv ==
    /\ lastSynced \in 0..Len(log)
    /\ rootCache \in CacheEntry
    /\ chainCache \in CacheEntry
    /\ pathCache \in [Ids -> PathEntry]
    /\ timer \in [on : BOOLEAN, latest : Nat, root : Root, epoch : Nat]
    /\ acked \in [Ids -> MaybeVersion]

\* The versions the contract has.
ChainVersions == [id \in Ids |-> OnChain(id)]

\* Pass q has read nothing that a chain of n events, with root epoch e and
\* versions v, does not have.
PassFits(q, n, e, v) ==
    /\ q.latest <= n
    /\ q.epoch <= e
    /\ q.pc = "mined" => q.epoch < e
    /\ q.pc = "apply" => q.from # 0
    /\ q.pc \in {"refresh", "patch"} => \E id \in Ids : q.ids = {id}
    /\ q.pc = "patch" => \A id \in q.ids : q.ver <= v[id]

\* No pass is ahead of the chain.
PassInv ==
    /\ pass \in [Passes -> PassType]
    /\ \A p \in Passes : PassFits(pass[p], Len(log), rootEpoch, ChainVersions)

\* The flags agree with the passes.
ControlInv ==
    /\ queue \in Seq(Task)
    /\ {bootstrapped, inFlight, dirty, fullSync} \subseteq BOOLEAN
    /\ inFlight = (pass["worker"].pc # "idle")
    /\ dirty => inFlight
    /\ pass["serial"].pc # "idle" => queue # <<>>
    /\ heard \in [RecordKinds -> Nat]

Inv == ChainInv /\ KnownInv /\ CacheInv /\ PassInv /\ ControlInv

-----------------------------------------------------------------------------
(* Replaying events *)

\* A non-empty set of positions has a last one.
LEMMA LastOne ==
    ASSUME NEW n \in Nat, NEW S, S \subseteq 0..n, S # {}
    PROVE  \E i \in S : \A j \in S : j <= i
<1> DEFINE D == {d \in Nat : n - d \in S}
<1>1. PICK s \in S : TRUE
  OBVIOUS
<1>2. n - s \in D /\ D \subseteq Nat
  <2>1. n - s \in Nat /\ n - (n - s) = s
    OBVIOUS
  <2> QED
    BY <2>1
<1>3. PICK d \in D : \A e \in D : d <= e
  <2> HIDE DEF D
  <2>1. \A d, e \in Nat : e < d => <<e, d>> \in OpToRel(<, Nat)
    BY DEF OpToRel
  <2>2. PICK R : IsWellFoundedOn(R, Nat) /\ \A d, e \in Nat : e < d => <<e, d>> \in R
    BY <2>1, NatLessThanWellFounded
  <2>3. PICK d \in D : \A e \in D : <<e, d>> \notin R
    BY <1>2, <2>2, WFMin
  <2>4. \A e \in D : ~(e < d) /\ e \in Nat /\ d \in Nat
    BY <1>2, <2>2, <2>3, Zenon
  <2>5. \A e \in D : d <= e
    BY <2>4
  <2> QED
    BY <2>5
<1>4. ASSUME NEW j \in S PROVE j <= n - d
  <2>1. j \in 0..n
    OBVIOUS
  <2>2. n - j \in Nat /\ n - (n - j) = j
    BY <2>1
  <2>3. n - j \in D
    BY <2>2
  <2>4. d <= n - j
    BY <1>3, <2>3
  <2>5. d \in Nat
    OBVIOUS
  <2> QED
    BY <2>1, <2>4, <2>5
<1> QED
  BY <1>3, <1>4

\* What is replayed for an identity is the version of one of its events in
\* the range, and the mirror's entry where the range has none.
LEMMA ReplayedEntry ==
    ASSUME Board!TypeOK, NEW m \in Leaves, NEW from \in Nat, NEW to \in Nat, from # 0,
           to <= Len(log), NEW id \in Ids
    PROVE  \/ /\ \A i \in from..to : ~RecordAt(i, id)
              /\ Replayed(m, from, to)[id] = m[id]
           \/ \E i \in from..to :
                  /\ RecordAt(i, id)
                  /\ Replayed(m, from, to)[id] = log[i].ver
<1> DEFINE last(k) == {i \in from..to : log[i].kind = k /\ log[i].id = id}
           latest(k) == log[CHOOSE i \in last(k) : \A j \in last(k) : j <= i].ver
<1>1. Replayed(m, from, to)[id] =
          IF last("RecoveredZK") # {} THEN latest("RecoveredZK")
          ELSE IF last("UpdatedZK") # {} THEN latest("UpdatedZK")
          ELSE IF last("RegisteredZK") # {} THEN 0
          ELSE m[id]
  BY DEF Replayed
<1>2. ASSUME NEW k \in RecordKinds, last(k) # {}
      PROVE  \E i \in from..to : RecordAt(i, id) /\ latest(k) = log[i].ver
  <2>1. last(k) \subseteq 0..to
    OBVIOUS
  <2>2. \E i \in last(k) : \A j \in last(k) : j <= i
    BY <1>2, <2>1, LastOne
  <2>3. (CHOOSE i \in last(k) : \A j \in last(k) : j <= i) \in last(k)
    BY <2>2
  <2> QED
    BY <2>3 DEF RecordAt
<1>3. ASSUME NEW i \in last("RegisteredZK")
      PROVE  log[i].ver = 0
  <2>1. i \in 1..Len(log)
    BY DEF Board!TypeOK
  <2>2. log[i] \in Board!Event
    BY <2>1 DEF Board!TypeOK
  <2> QED
    BY <2>2 DEF Board!Event
<1>4. CASE last("RecoveredZK") # {}
  BY <1>1, <1>2, <1>4 DEF RecordKinds
<1>5. CASE last("RecoveredZK") = {} /\ last("UpdatedZK") # {}
  BY <1>1, <1>2, <1>5 DEF RecordKinds
<1>6. CASE last("RecoveredZK") = {} /\ last("UpdatedZK") = {} /\ last("RegisteredZK") # {}
  <2>1. PICK i \in last("RegisteredZK") : TRUE
    BY <1>6
  <2>2. Replayed(m, from, to)[id] = log[i].ver
    BY <1>1, <1>3, <1>6
  <2> QED
    BY <2>2 DEF RecordAt, RecordKinds
<1>7. CASE last("RecoveredZK") = {} /\ last("UpdatedZK") = {} /\ last("RegisteredZK") = {}
  BY <1>1, <1>7 DEF RecordAt, RecordKinds
<1> QED
  BY <1>4, <1>5, <1>6, <1>7

-----------------------------------------------------------------------------
(* What a step does to the contract *)

\* Only a client's transaction and a root of the service reach the contract.
LEMMA ChainView ==
    ASSUME Next
    PROVE  \/ UNCHANGED chain
           \/ \E id \in Ids : Submit(id)
           \/ \E p \in Passes : SendRoot(p)
<1> USE DEF Passes
<1>1. ASSUME NEW p \in Passes, PassStep(p)
      PROVE  UNCHANGED chain \/ SendRoot(p)
  BY <1>1 DEF PassStep, ReadLatest, ApplyEvents, ReadRecord, PatchRecord, ReadRoot,
     ReadEpoch, Receipt, Claim
<1>2. CASE Serial
  BY <1>1, <1>2 DEF Serial, FinishSerial, SerialThrows, StartSerial
<1>3. CASE Worker
  BY <1>1, <1>3 DEF Worker, FinishWorker, WorkerThrows
<1> QED
  BY <1>2, <1>3 DEF Next, Kill, TimerReads, TimerActs, RecomputeRoot, Hear, Settle,
     LateSettle, SettleFails, Reregister, CatchReads, CatchPatches, Get

\* The chain of a later moment continues that of an earlier one.
ChainContinues ==
    /\ Len(log) \in Nat /\ Len(log') \in Nat /\ Len(log) <= Len(log')
    /\ \A i \in 1..Len(log) : log'[i] = log[i]
    /\ rootEpoch \in Nat /\ rootEpoch' \in Nat /\ rootEpoch <= rootEpoch'
    /\ \A id \in Ids : /\ OnChain(id) \in MaybeVersion /\ OnChain(id)' \in MaybeVersion
                       /\ OnChain(id) <= OnChain(id)'

\* A record that a transaction has brought to its next version.
IssuesRecord(id, e) ==
    /\ e \in Board!Event
    /\ e.kind \in RecordKinds /\ e.id = id /\ e.ver = OnChain(id) + 1
    /\ e.kind # "RegisteredZK" => e.kind \in Kinds
    /\ log' = Append(log, e)
    /\ OnChain(id)' = OnChain(id) + 1
    /\ \A x \in Ids \ {id} : OnChain(x)' = OnChain(x)
    /\ UNCHANGED <<activeRoot, rootEpoch>>

\* The versions that can be compared.
LEMMA VersionTypes == MaybeVersion \subseteq Int /\ Versions \subseteq Nat /\ Absent \in Int
  BY ServiceAssumption DEF MaybeVersion, Versions, Absent

\* The client of identity id waits for version v to be settled, or does not.
Asks(id, v) ==
    \/ /\ TRUE \in Waits
       /\ req[id].pc = "none"
       /\ \E again \in BOOLEAN :
              req' = [req EXCEPT ![id] = [pc |-> "mined", ver |-> v, again |-> again]]
       /\ UNCHANGED late
    \/ /\ FALSE \in Waits
       /\ late' = [late EXCEPT ![id] = @ \cup {v}]
       /\ UNCHANGED req

\* A request of a client is one record of one identity, one version on.
LEMMA SubmitIssues ==
    ASSUME ChainInv, NEW id \in Ids, Submit(id)
    PROVE  /\ \E e : IssuesRecord(id, e)
           /\ Board!Next
           /\ Board!TypeOK'
           /\ Asks(id, OnChain(id) + 1)
           /\ OnChain(id) + 1 \in Versions
           /\ OnChain(id)' = OnChain(id) + 1
           /\ \A x \in Ids \ {id} : records'[x] = records[x]
           /\ records'[id].version <= Len(log')
           /\ records'[id].active
           /\ Len(log') = Len(log) + 1
<1> USE ServiceAssumption DEF ChainInv
<1>a. /\ records \in [Ids -> Board!Record]
      /\ log \in Seq(Board!Event)
      /\ Len(log) \in Nat
  BY DEF Board!TypeOK
<1>b. /\ records[id] \in Board!Record
      /\ records[id].version \in Nat
      /\ records[id].active \in BOOLEAN
      /\ records[id].version <= Len(log)
  BY <1>a DEF Board!Record
<1>v. PICK w \in Versions, wait \in Waits :
          /\ Change(id, w)
          /\ \/ /\ wait
                /\ req[id].pc = "none"
                /\ req' = [req EXCEPT ![id] = [pc |-> "mined", ver |-> w, again |-> w = 0]]
                /\ UNCHANGED late
             \/ /\ ~wait
                /\ late' = [late EXCEPT ![id] = @ \cup {w}]
                /\ UNCHANGED req
  BY DEF Submit
<1>q. Asks(id, w)
  <2>1. (w = 0) \in BOOLEAN
    OBVIOUS
  <2>2. wait \in BOOLEAN
    OBVIOUS
  <2>3. CASE wait
    BY <1>v, <2>1, <2>2, <2>3, Zenon DEF Asks
  <2>4. CASE ~wait
    BY <1>v, <2>2, <2>4, Zenon DEF Asks
  <2> QED
    BY <2>3, <2>4
<1>1. ASSUME Board!registerZK(id, Doc, Service, Service)
      PROVE  /\ \E e : IssuesRecord(id, e)
             /\ Board!Next
             /\ Board!TypeOK'
             /\ OnChain(id) + 1 = 0
             /\ OnChain(id)' = OnChain(id) + 1
             /\ \A x \in Ids \ {id} : records'[x] = records[x]
             /\ records'[id].version <= Len(log')
             /\ records'[id].active
             /\ Len(log') = Len(log) + 1
  <2>1. /\ ~records[id].active
        /\ records' = [records EXCEPT ![id] =
               [doc |-> Doc, owner |-> Service, recovery |-> Service,
                version |-> 0, active |-> TRUE]]
        /\ log' = Append(log, Board!RegisteredZK(id, Doc, Service, Service))
        /\ Len(log) < MaxLog
        /\ UNCHANGED <<rootUpdater, activeRoot, rootEpoch, ttss, trace>>
    BY <1>1 DEF Board!registerZK, Board!Emit
  <2>2. Board!RegisteredZK(id, Doc, Service, Service) \in Board!Event
    BY DEF Board!RegisteredZK, Board!Event
  <2>3. OnChain(id) = -1 /\ OnChain(id)' = 0
    BY <1>a, <2>1 DEF OnChain, Absent
  <2>4. \A x \in Ids \ {id} : OnChain(x)' = OnChain(x)
    BY <1>a, <2>1 DEF OnChain
  <2>5. IssuesRecord(id, Board!RegisteredZK(id, Doc, Service, Service))
    BY <2>1, <2>2, <2>3, <2>4 DEF IssuesRecord, Board!RegisteredZK, RecordKinds
  <2>6. Board!TypeOK'
    <3>1. records' \in [Ids -> Board!Record]
      BY <1>a, <2>1 DEF Board!Record
    <3>2. log' \in Seq(Board!Event)
      BY <1>a, <2>1, <2>2
    <3> QED
      BY <2>1, <3>1, <3>2 DEF Board!TypeOK
  <2>7. Board!Next
    BY <1>1 DEF Board!Next
  <2>10. /\ \A x \in Ids \ {id} : records'[x] = records[x]
         /\ records'[id].version <= Len(log')
         /\ records'[id].active
         /\ Len(log') = Len(log) + 1
    BY <1>a, <2>1
  <2>11. OnChain(id) + 1 = 0
    BY <2>3
  <2> QED
    BY <2>3, <2>5, <2>6, <2>7, <2>10, <2>11
<1>2. ASSUME OnChain(id) # Absent, OnChain(id) + 1 \in Versions,
             NEW k \in {"UpdatedZK", "RecoveredZK"} \cap Kinds, NEW e,
             \/ /\ k = "UpdatedZK"
                /\ Board!applyUpdateZK(Service, id, Doc, OnChain(id) + 1)
                /\ e = Board!UpdatedZK(id, Doc, OnChain(id) + 1, Service)
             \/ /\ k = "RecoveredZK"
                /\ Board!applyRecoveryRotateZK(Service, id, Doc, OnChain(id) + 1,
                                               Service, Service)
                /\ e = Board!RecoveredZK(id, Doc, OnChain(id) + 1, Service, Service,
                                         Service)
      PROVE  /\ IssuesRecord(id, e)
             /\ Board!Next
             /\ Board!TypeOK'
             /\ OnChain(id) + 1 \in Versions
             /\ OnChain(id)' = OnChain(id) + 1
             /\ \A x \in Ids \ {id} : records'[x] = records[x]
             /\ records'[id].version <= Len(log')
             /\ records'[id].active
             /\ Len(log') = Len(log) + 1
  <2> DEFINE v == OnChain(id) + 1
  <2>1. records[id].active /\ OnChain(id) = records[id].version /\ v = records[id].version + 1
    BY <1>b, <1>2 DEF OnChain, Absent
  <2>2. v \in Versions /\ v \in Nat /\ v \in 0..MaxLog
    <3>1. Len(log) < MaxLog /\ MaxLog \in Nat /\ MaxVersion \in Nat
      BY <1>2 DEF Board!applyUpdateZK, Board!applyRecoveryRotateZK, Board!Emit
    <3> QED
      BY <1>a, <1>b, <1>2, <2>1, <3>1 DEF Versions
  <2>3. /\ UNCHANGED <<rootUpdater, activeRoot, rootEpoch, ttss, trace>>
        /\ log' = Append(log, e)
        /\ \E doc \in {Doc}, owner, recovery \in {Service, NoAddr} :
               records' = [records EXCEPT ![id] =
                   [doc |-> doc, owner |-> owner, recovery |-> recovery,
                    version |-> v, active |-> TRUE]]
    <3>1. records[id].owner \in {Service, NoAddr} /\ records[id].recovery \in {Service, NoAddr}
      BY <1>b DEF Board!Record
    <3>2. CASE k = "UpdatedZK"
      BY <1>a, <1>2, <2>1, <3>1, <3>2 DEF Board!applyUpdateZK, Board!Emit
    <3>3. CASE k = "RecoveredZK"
      BY <1>a, <1>2, <2>1, <3>1, <3>3 DEF Board!applyRecoveryRotateZK, Board!Emit
    <3> QED
      BY <3>2, <3>3
  <2>4. e \in Board!Event /\ e.kind = k /\ e.id = id /\ e.ver = v
    BY <1>2, <2>2 DEF Board!UpdatedZK, Board!RecoveredZK, Board!Event
  <2>5. OnChain(id)' = v
    BY <1>a, <2>3 DEF OnChain
  <2>6. \A x \in Ids \ {id} : OnChain(x)' = OnChain(x)
    BY <1>a, <2>3 DEF OnChain
  <2>7. IssuesRecord(id, e)
    BY <2>3, <2>4, <2>5, <2>6 DEF IssuesRecord, RecordKinds
  <2>8. Board!TypeOK'
    <3>1. records' \in [Ids -> Board!Record]
      BY <1>a, <2>2, <2>3 DEF Board!Record
    <3>2. log' \in Seq(Board!Event)
      BY <1>a, <2>3, <2>4
    <3> QED
      BY <2>3, <3>1, <3>2 DEF Board!TypeOK
  <2>9. Board!Next
    BY <1>2, <2>2 DEF Board!Next
  <2>10. /\ \A x \in Ids \ {id} : records'[x] = records[x]
         /\ records'[id].active
         /\ records'[id].version = v
         /\ Len(log') = Len(log) + 1
    BY <1>a, <2>3
  <2>11. records'[id].version <= Len(log')
    BY <1>a, <1>b, <2>1, <2>10
  <2> QED
    BY <1>2, <2>2, <2>5, <2>7, <2>8, <2>9, <2>10, <2>11
<1> QED
  <2>1. CASE w = 0 /\ Board!registerZK(id, Doc, Service, Service)
    BY <1>1, <1>q, <2>1
  <2>2. CASE /\ OnChain(id) # Absent
             /\ w = OnChain(id) + 1
             /\ \/ /\ "UpdatedZK" \in Kinds
                   /\ Board!applyUpdateZK(Service, id, Doc, w)
                \/ /\ "RecoveredZK" \in Kinds
                   /\ Board!applyRecoveryRotateZK(Service, id, Doc, w, Service, Service)
    <3>1. PICK k \in {"UpdatedZK", "RecoveredZK"} \cap Kinds :
              \/ /\ k = "UpdatedZK"
                 /\ Board!applyUpdateZK(Service, id, Doc, OnChain(id) + 1)
              \/ /\ k = "RecoveredZK"
                 /\ Board!applyRecoveryRotateZK(Service, id, Doc, OnChain(id) + 1,
                                               Service, Service)
      BY <2>2
    <3>2. OnChain(id) + 1 \in Versions
      BY <2>2
    <3>3. CASE k = "UpdatedZK"
      BY <1>2, <1>q, <2>2, <3>1, <3>2, <3>3
    <3>4. CASE k = "RecoveredZK"
      BY <1>2, <1>q, <2>2, <3>1, <3>2, <3>4
    <3> QED
      BY <3>3, <3>4
  <2> QED
    BY <1>v, <2>1, <2>2 DEF Change

\* A root of the service takes the next epoch and is its tree.
LEMMA SendRootAnchors ==
    ASSUME ChainInv, KnownInv, PassInv, NEW p \in Passes, SendRoot(p)
    PROVE  /\ Board!Next
           /\ Board!TypeOK'
           /\ \A id \in Ids : OnChain(id)' = OnChain(id)
           /\ records' = records
           /\ activeRoot' = tree
           /\ rootEpoch' = rootEpoch + 1
           /\ rootEpoch' = pass[p].epoch + 1
           /\ log' = Append(log, Board!RootUpdated(tree, rootEpoch + 1, Service))
<1> USE ServiceAssumption DEF ChainInv, KnownInv, PassInv, PassFits
<1>1. /\ pass[p].epoch + 1 > rootEpoch
      /\ activeRoot' = tree
      /\ rootEpoch' = pass[p].epoch + 1
      /\ Len(log) < MaxLog
      /\ log' = Append(log, Board!RootUpdated(tree, pass[p].epoch + 1, Service))
      /\ UNCHANGED <<records, rootUpdater, ttss, trace>>
  BY DEF SendRoot, Board!setActiveRoot, Board!Emit
<1>2. pass[p].epoch \in Nat /\ pass[p].epoch <= rootEpoch /\ rootEpoch \in Nat
      /\ rootEpoch <= Len(log) /\ Len(log) \in Nat
  BY DEF PassType, Board!TypeOK
<1>3. pass[p].epoch = rootEpoch
  BY <1>1, <1>2
<1>4. \A id \in Ids : OnChain(id)' = OnChain(id)
  BY <1>1 DEF OnChain
<1>5. rootEpoch + 1 \in 0..MaxLog
  BY <1>1, <1>2
<1>6. Board!Next
  BY <1>3, <1>5 DEF SendRoot, Board!Next
<1>7. Board!TypeOK'
  <2>1. Board!RootUpdated(tree, rootEpoch + 1, Service) \in Board!Event
    BY <1>2 DEF Board!RootUpdated, Board!Event
  <2>2. log \in Seq(Board!Event)
    BY DEF Board!TypeOK
  <2>3. log' \in Seq(Board!Event)
    BY <1>1, <1>3, <2>1, <2>2
  <2> QED
    BY <1>1, <1>2, <1>3, <2>3 DEF Board!TypeOK
<1> QED
  BY <1>1, <1>3, <1>4, <1>6, <1>7

\* The chain only grows.
LEMMA ChainGrows ==
    ASSUME ChainInv, KnownInv, PassInv, [Next]_vars
    PROVE  ChainContinues /\ Board!TypeOK'
<1> USE DEF ChainInv
<1>a. /\ log \in Seq(Board!Event) /\ Len(log) \in Nat /\ rootEpoch \in Nat
      /\ \A id \in Ids : OnChain(id) \in MaybeVersion /\ OnChain(id) \in Int
  <2>1. log \in Seq(Board!Event) /\ rootEpoch \in Nat
    BY DEF Board!TypeOK
  <2>2. \A id \in Ids : OnChain(id) \in MaybeVersion
    OBVIOUS
  <2>3. \A id \in Ids : OnChain(id) \in Int
    BY <2>2, VersionTypes, Zenon
  <2>4. Len(log) \in Nat
    BY <2>1
  <2> QED
    BY <2>1, <2>2, <2>3, <2>4
<1>1. CASE UNCHANGED chain
  <2>1. \A id \in Ids : OnChain(id)' = OnChain(id)
    BY <1>1 DEF chain, OnChain
  <2>2. Board!TypeOK'
    BY <1>1 DEF chain, Board!TypeOK
  <2> QED
    BY <1>1, <1>a, <2>1, <2>2 DEF chain, ChainContinues
<1>2. ASSUME NEW id \in Ids, Submit(id)
      PROVE  ChainContinues /\ Board!TypeOK'
  <2>1. req \in [Ids -> Request]
    BY DEF KnownInv
  <2>2. PICK e : IssuesRecord(id, e)
    BY <1>2, <2>1, SubmitIssues
  <2>3. /\ OnChain(id)' = OnChain(id) + 1 /\ OnChain(id) + 1 \in Versions
        /\ Board!TypeOK'
        /\ Len(log') = Len(log) + 1
    BY <1>2, <2>1, SubmitIssues
  <2>4. \A x \in Ids : /\ OnChain(x)' \in MaybeVersion
                       /\ OnChain(x) <= OnChain(x)'
    BY <1>a, <2>2, <2>3 DEF IssuesRecord, MaybeVersion
  <2>5. \A i \in 1..Len(log) : log'[i] = log[i]
    BY <1>a, <2>2 DEF IssuesRecord
  <2> QED
    BY <1>a, <2>2, <2>3, <2>4, <2>5 DEF IssuesRecord, ChainContinues
<1>3. ASSUME NEW p \in Passes, SendRoot(p)
      PROVE  ChainContinues /\ Board!TypeOK'
  <2>1. /\ \A id \in Ids : OnChain(id)' = OnChain(id)
        /\ rootEpoch' = rootEpoch + 1
        /\ log' = Append(log, Board!RootUpdated(tree, rootEpoch + 1, Service))
        /\ Board!TypeOK'
    BY <1>3, SendRootAnchors
  <2>2. Len(log') = Len(log) + 1 /\ \A i \in 1..Len(log) : log'[i] = log[i]
    BY <1>a, <2>1
  <2> QED
    BY <1>a, <2>1, <2>2 DEF ChainContinues
<1>4. CASE UNCHANGED vars
  BY <1>1, <1>4 DEF vars
<1> QED
  BY <1>1, <1>2, <1>3, <1>4, ChainView

\* What was issued stays issued.
LEMMA IssuedStays ==
    ASSUME ChainContinues, NEW l \in Leaves, Issued(l)
    PROVE  Issued(l)'
<1> SUFFICES ASSUME NEW id \in Ids PROVE l[id] <= OnChain(id)'
  BY DEF Issued
<1>1. l[id] \in Int /\ OnChain(id) \in Int /\ OnChain(id)' \in Int
  BY VersionTypes DEF Leaves, ChainContinues, MaybeVersion
<1>2. l[id] <= OnChain(id) /\ OnChain(id) <= OnChain(id)'
  BY DEF Issued, ChainContinues
<1> QED
  BY <1>1, <1>2

\* The contract's part of the invariant.
LEMMA ChainStep ==
    ASSUME ChainInv, KnownInv, PassInv, [Next]_vars
    PROVE  ChainInv'
<1>c. ChainContinues /\ Board!TypeOK'
  BY ChainGrows
<1>a. /\ log \in Seq(Board!Event) /\ Len(log) \in Nat /\ Len(log') \in Nat
      /\ rootEpoch \in Nat /\ rootEpoch <= Len(log)
      /\ \A id \in Ids : /\ OnChain(id) \in Int /\ OnChain(id)' \in Int
                         /\ records[id].version \in Nat
                         /\ records[id].version <= Len(log)
      /\ activeRoot \in Root
  BY <1>c, VersionTypes DEF ChainInv, ChainContinues, Board!TypeOK, Board!Record, Root,
     MaybeVersion
<1>b. ASSUME NEW i \in 1..Len(log), NEW id \in Ids, RecordAt(i, id)
      PROVE  log[i].ver \in Nat
  <2>1. log[i] \in Board!Event
    BY <1>a
  <2> QED
    BY <1>b, <2>1 DEF RecordAt, RecordKinds, Board!Event
<1>d. ASSUME NEW i \in 1..Len(log), NEW id \in Ids, RecordAt(i, id)'
      PROVE  log'[i].ver <= OnChain(id)'
  <2>1. log'[i] = log[i] /\ OnChain(id) <= OnChain(id)'
    BY <1>c DEF ChainContinues
  <2>2. RecordAt(i, id)
    BY <1>d, <2>1 DEF RecordAt
  <2>3. log[i].ver <= OnChain(id) /\ log[i].ver \in Nat
    BY <1>b, <2>2 DEF ChainInv
  <2> QED
    BY <1>a, <2>1, <2>3
<1>1. /\ rootEpoch' <= Len(log')
      /\ \A id \in Ids : records'[id].version <= Len(log')
      /\ \A i \in 1..Len(log'), id \in Ids : RecordAt(i, id)' => log'[i].ver <= OnChain(id)'
  <2>1. CASE UNCHANGED chain
    BY <1>a, <1>d, <2>1 DEF chain
  <2>2. ASSUME NEW x \in Ids, Submit(x)
        PROVE  /\ rootEpoch' <= Len(log')
               /\ \A id \in Ids : records'[id].version <= Len(log')
               /\ \A i \in 1..Len(log'), id \in Ids :
                      RecordAt(i, id)' => log'[i].ver <= OnChain(id)'
    <3>1. req \in [Ids -> Request]
      BY DEF KnownInv
    <3>2. PICK e : IssuesRecord(x, e)
      BY <2>2, <3>1, SubmitIssues
    <3>3. /\ Len(log') = Len(log) + 1
          /\ \A id \in Ids \ {x} : records'[id] = records[id]
          /\ records'[x].version <= Len(log')
      BY <2>2, <3>1, SubmitIssues
    <3>4. /\ rootEpoch' = rootEpoch /\ log'[Len(log) + 1] = e
          /\ e.id = x /\ e.ver = OnChain(x)'
      BY <1>a, <3>2 DEF IssuesRecord
    <3>5. \A id \in Ids : records'[id].version <= Len(log')
      BY <1>a, <3>3
    <3>6. ASSUME NEW i \in 1..Len(log'), NEW id \in Ids, RecordAt(i, id)'
          PROVE  log'[i].ver <= OnChain(id)'
      <4>1. CASE i = Len(log) + 1
        BY <1>a, <3>4, <3>6, <4>1 DEF RecordAt
      <4>2. CASE i # Len(log) + 1
        BY <1>a, <1>d, <3>3, <3>6, <4>2
      <4> QED
        BY <4>1, <4>2
    <3> QED
      BY <1>a, <3>3, <3>4, <3>5, <3>6
  <2>3. ASSUME NEW p \in Passes, SendRoot(p)
        PROVE  /\ rootEpoch' <= Len(log')
               /\ \A id \in Ids : records'[id].version <= Len(log')
               /\ \A i \in 1..Len(log'), id \in Ids :
                      RecordAt(i, id)' => log'[i].ver <= OnChain(id)'
    <3>1. /\ records' = records /\ rootEpoch' = rootEpoch + 1
          /\ log' = Append(log, Board!RootUpdated(tree, rootEpoch + 1, Service))
      BY <2>3, SendRootAnchors
    <3>2. /\ Len(log') = Len(log) + 1
          /\ log'[Len(log) + 1].kind = "RootUpdated"
      BY <1>a, <3>1 DEF Board!RootUpdated
    <3>3. ASSUME NEW i \in 1..Len(log'), NEW id \in Ids, RecordAt(i, id)'
          PROVE  log'[i].ver <= OnChain(id)'
      <4>1. i # Len(log) + 1
        BY <3>2, <3>3 DEF RecordAt, RecordKinds
      <4> QED
        BY <1>a, <1>d, <3>2, <3>3, <4>1
    <3> QED
      BY <1>a, <3>1, <3>2, <3>3
  <2>4. CASE UNCHANGED vars
    BY <2>1, <2>4 DEF vars
  <2> QED
    BY <2>1, <2>2, <2>3, <2>4, ChainView
<1>2. (activeRoot # NoRoot => Issued(activeRoot))'
  <2>1. CASE UNCHANGED activeRoot
    <3>1. SUFFICES ASSUME activeRoot # NoRoot PROVE Issued(activeRoot)'
      BY <2>1
    <3>2. activeRoot \in Leaves /\ Issued(activeRoot)
      BY <1>a, <3>1 DEF ChainInv, Root
    <3> QED
      BY <1>c, <2>1, <3>2, IssuedStays DEF Issued
  <2>2. ASSUME NEW p \in Passes, SendRoot(p)
        PROVE  Issued(activeRoot)'
    BY <2>2, SendRootAnchors DEF KnownInv, Issued
  <2>3. ASSUME NEW x \in Ids, Submit(x)
        PROVE  UNCHANGED activeRoot
    <3>1. \E e : IssuesRecord(x, e)
      BY <2>3, SubmitIssues DEF KnownInv
    <3> QED
      BY <3>1 DEF IssuesRecord
  <2>4. CASE UNCHANGED vars
    BY <2>1, <2>4 DEF vars, chain
  <2>5. CASE UNCHANGED chain
    BY <2>1, <2>5 DEF chain
  <2> QED
    BY <2>1, <2>2, <2>3, <2>4, <2>5, ChainView
<1> QED
  BY <1>1, <1>2, <1>c DEF ChainInv, ChainContinues

-----------------------------------------------------------------------------
(* What a step does to the mirror, the tree and the requests *)

\* An event names a version that its record has had.
LEMMA EventVersion ==
    ASSUME ChainInv, NEW i \in 1..Len(log), NEW id \in Ids, RecordAt(i, id)
    PROVE  log[i].ver \in Versions /\ log[i].ver <= OnChain(id)
<1>1. log[i] \in Board!Event
  BY DEF ChainInv, Board!TypeOK
<1>2. log[i].ver \in Nat
  BY <1>1 DEF RecordAt, RecordKinds, Board!Event
<1>3. OnChain(id) \in MaybeVersion /\ log[i].ver <= OnChain(id)
  BY DEF ChainInv
<1>4. MaxVersion \in Nat
  BY ServiceAssumption
<1> QED
  BY <1>2, <1>3, <1>4 DEF MaybeVersion, Versions, Absent

\* What is replayed is a mirror that knows nothing the contract has not issued.
LEMMA ReplayedIssued ==
    ASSUME ChainInv, NEW m \in Leaves, Issued(m), NEW from \in Nat, NEW to \in Nat,
           from # 0, to <= Len(log)
    PROVE  Replayed(m, from, to) \in Leaves /\ Issued(Replayed(m, from, to))
<1>1. ASSUME NEW id \in Ids
      PROVE  /\ Replayed(m, from, to)[id] \in MaybeVersion
             /\ Replayed(m, from, to)[id] <= OnChain(id)
  <2>1. CASE Replayed(m, from, to)[id] = m[id]
    BY <2>1 DEF Leaves, Issued, MaybeVersion
  <2>2. ASSUME NEW i \in from..to, RecordAt(i, id), Replayed(m, from, to)[id] = log[i].ver
        PROVE  /\ Replayed(m, from, to)[id] \in MaybeVersion
               /\ Replayed(m, from, to)[id] <= OnChain(id)
    <3>1. i \in 1..Len(log)
      BY DEF ChainInv, Board!TypeOK
    <3> QED
      BY <2>2, <3>1, EventVersion DEF MaybeVersion
  <2>3. Board!TypeOK
    BY DEF ChainInv
  <2> QED
    BY <2>1, <2>2, <2>3, ReplayedEntry
<1>2. \E f : Replayed(m, from, to) = [id \in Ids |-> f[id]]
  <2>1. Replayed(m, from, to) = [id \in Ids |-> Replayed(m, from, to)[id]]
    BY DEF Replayed
  <2> QED
    BY <2>1
<1> QED
  BY <1>1, <1>2 DEF Leaves, Issued, MaybeVersion

\* A path leads through the tree it was computed in.
LEMMA PathEntries ==
    ASSUME NEW t \in Leaves, NEW id \in Ids
    PROVE  PathIn(t, id) \in PathEntry
  BY DEF PathIn, PathEntry

\* An update puts entries of the mirror into the tree and keeps the others.
LEMMA TreeUpdate ==
    ASSUME KnownInv, CacheInv, NEW m \in Leaves, NEW ids,
           FullRebuild(m, ids) \/ IncrementalUpdate(m, ids)
    PROVE  /\ tree' \in Leaves
           /\ \A id \in Ids : tree'[id] \in {m[id], tree[id]}
           /\ pathCache' \in [Ids -> PathEntry]
<1> USE DEF KnownInv, CacheInv
<1>1. CASE FullRebuild(m, ids)
  <2>1. NoPath \in PathEntry
    BY DEF PathEntry
  <2> QED
    BY <1>1, <2>1, PathEntries DEF FullRebuild
<1>2. CASE ~FullRebuild(m, ids) /\ IncrementalUpdate(m, ids)
  <2> DEFINE t == [id \in Ids |-> IF id \in ids THEN m[id] ELSE tree[id]]
  <2>1. /\ tree' = t
        /\ pathCache' = [id \in Ids |-> IF id \in ids THEN PathIn(t, id) ELSE pathCache[id]]
    BY <1>2 DEF IncrementalUpdate
  <2>2. t \in Leaves /\ \A id \in Ids : t[id] \in {m[id], tree[id]}
    BY DEF Leaves
  <2> HIDE DEF t
  <2> QED
    BY <2>1, <2>2, PathEntries
<1> QED
  BY <1>1, <1>2

\* Who writes the mirror.
LEMMA MirrorView ==
    ASSUME Next
    PROVE  \/ UNCHANGED mirror
           \/ Boot
           \/ \E p \in Passes : ReadLatest(p) \/ ApplyEvents(p) \/ PatchRecord(p)
           \/ \E k \in RecordKinds : Hear(k)
           \/ \E id \in Ids : Settle(id) \/ LateSettle(id) \/ CatchPatches(id)
<1> USE DEF Passes, caches
<1>1. ASSUME NEW p \in Passes, PassStep(p)
      PROVE  UNCHANGED mirror \/ ReadLatest(p) \/ ApplyEvents(p) \/ PatchRecord(p)
  BY <1>1 DEF PassStep, ReadRecord, ReadRoot, ReadEpoch, SendRoot, Receipt, Claim
<1>2. CASE Serial
  BY <1>1, <1>2 DEF Serial, FinishSerial, SerialThrows, StartSerial, Conclude
<1>3. CASE Worker
  BY <1>1, <1>3 DEF Worker, FinishWorker, WorkerThrows, Conclude
<1> QED
  BY <1>2, <1>3 DEF Next, Kill, TimerReads, TimerActs, RecomputeRoot, Submit,
     SettleFails, Reregister, CatchReads, Get

\* Who writes the tree.
LEMMA TreeView ==
    ASSUME Next
    PROVE  \/ UNCHANGED tree
           \/ Boot
           \/ \E p \in Passes : ApplyEvents(p) \/ PatchRecord(p)
<1> USE DEF Passes, caches
<1>1. ASSUME NEW p \in Passes, PassStep(p)
      PROVE  UNCHANGED tree \/ ApplyEvents(p) \/ PatchRecord(p)
  BY <1>1 DEF PassStep, ReadLatest, ReadRecord, ReadRoot, ReadEpoch, SendRoot, Receipt,
     Claim
<1>2. CASE Serial
  BY <1>1, <1>2 DEF Serial, FinishSerial, SerialThrows, StartSerial, Conclude
<1>3. CASE Worker
  BY <1>1, <1>3 DEF Worker, FinishWorker, WorkerThrows, Conclude
<1> QED
  BY <1>2, <1>3 DEF Next, Kill, TimerReads, TimerActs, RecomputeRoot, Hear, Submit,
     Settle, LateSettle, SettleFails, Reregister, CatchReads, CatchPatches, Get

\* Who writes the requests.
LEMMA RequestView ==
    ASSUME Next
    PROVE  \/ UNCHANGED req
           \/ Boot
           \/ FinishSerial
           \/ SerialThrows
           \/ \E id \in Ids : \/ Submit(id) \/ Settle(id) \/ SettleFails(id)
                             \/ Reregister(id) \/ CatchReads(id) \/ CatchPatches(id)
<1> USE DEF Passes
<1>1. ASSUME NEW p \in Passes, PassStep(p)
      PROVE  UNCHANGED req
  BY <1>1 DEF PassStep, ReadLatest, ApplyEvents, ReadRecord, PatchRecord, ReadRoot,
     ReadEpoch, SendRoot, Receipt, Claim
<1>2. CASE Serial
  BY <1>1, <1>2 DEF Serial, StartSerial
<1>3. CASE Worker
  BY <1>1, <1>3 DEF Worker, FinishWorker, WorkerThrows
<1> QED
  BY <1>2, <1>3 DEF Next, Kill, TimerReads, TimerActs, RecomputeRoot, Hear,
     LateSettle, Get

\* Who writes the changes that are not settled yet.
LEMMA LateView ==
    ASSUME Next
    PROVE  \/ UNCHANGED late
           \/ Boot
           \/ \E id \in Ids : Submit(id) \/ LateSettle(id) \/ SettleFails(id)
<1> USE DEF Passes
<1>1. ASSUME NEW p \in Passes, PassStep(p)
      PROVE  UNCHANGED late
  BY <1>1 DEF PassStep, ReadLatest, ApplyEvents, ReadRecord, PatchRecord, ReadRoot,
     ReadEpoch, SendRoot, Receipt, Claim
<1>2. CASE Serial
  BY <1>1, <1>2 DEF Serial, StartSerial, FinishSerial, SerialThrows
<1>3. CASE Worker
  BY <1>1, <1>3 DEF Worker, FinishWorker, WorkerThrows
<1> QED
  BY <1>2, <1>3 DEF Next, Kill, TimerReads, TimerActs, RecomputeRoot, Hear, Settle,
     Reregister, CatchReads, CatchPatches, Get

\* A full sync starts with an empty mirror.
LEMMA NoLeavesIssued == ASSUME ChainInv PROVE NoLeaves \in Leaves /\ Issued(NoLeaves)
<1>1. \A id \in Ids : OnChain(id) \in MaybeVersion
  BY DEF ChainInv
<1>2. MaxVersion \in Nat
  BY ServiceAssumption
<1> QED
  BY <1>1, <1>2 DEF NoLeaves, Leaves, Issued, MaybeVersion, Versions, Absent

\* What every pass has, in the small facts the steps need.
LEMMA PassFacts ==
    ASSUME Inv, NEW p \in Passes
    PROVE  /\ pass[p].latest \in Nat /\ pass[p].latest <= Len(log)
           /\ pass[p].from \in Nat
           /\ pass[p].pc = "apply" => pass[p].from # 0
           /\ pass[p].ver \in MaybeVersion
           /\ pass[p].root \in Root
           /\ pass[p].epoch \in Nat /\ pass[p].epoch <= rootEpoch
           /\ pass[p].ids \subseteq Ids
           /\ pass[p].changed \in BOOLEAN
           /\ pass[p].pc \in PassPcs
           /\ pass[p].kind \in {"none", "rebuild", "inline", "late", "repair"}
           /\ pass[p].full \in BOOLEAN
<1>1. pass[p] \in PassType
  BY DEF Inv, PassInv
<1> QED
  BY <1>1 DEF Inv, PassInv, PassFits, PassType

\* The events are applied to a mirror that stays within the contract's records.
LEMMA AppliedIssued ==
    ASSUME Inv, NEW p \in Passes, ApplyEvents(p)
    PROVE  mirror' \in Leaves /\ Issued(mirror')
<1>1. /\ pass[p].latest \in Nat /\ pass[p].latest <= Len(log)
      /\ pass[p].from \in Nat /\ pass[p].from # 0
  BY PassFacts DEF ApplyEvents
<1>2. Replayed(mirror, pass[p].from, pass[p].latest) \in Leaves
      /\ Issued(Replayed(mirror, pass[p].from, pass[p].latest))
  BY <1>1, ReplayedIssued DEF Inv, KnownInv
<1> QED
  BY <1>2 DEF ApplyEvents

\* A record is patched with a version it has had.
LEMMA PatchedIssued ==
    ASSUME Inv, NEW p \in Passes, PatchRecord(p)
    PROVE  mirror' \in Leaves /\ Issued(mirror')
<1>1. /\ mirror' = [id \in Ids |-> IF id \in pass[p].ids THEN pass[p].ver ELSE mirror[id]]
      /\ pass[p].pc = "patch"
  BY DEF PatchRecord
<1>2. pass[p].ver \in MaybeVersion /\ \A id \in pass[p].ids : pass[p].ver <= OnChain(id)
  BY <1>1, PassFacts DEF Inv, PassInv, PassFits, ChainVersions
<1> QED
  BY <1>1, <1>2 DEF Inv, KnownInv, Leaves, Issued, MaybeVersion

\* The mirror after a step.
LEMMA MirrorStep ==
    ASSUME Inv, Next
    PROVE  mirror' \in Leaves /\ Issued(mirror)'
<1>c. ChainContinues
  BY ChainGrows DEF Inv
<1>i. ASSUME mirror' \in Leaves /\ Issued(mirror')
      PROVE  mirror' \in Leaves /\ Issued(mirror)'
  BY <1>c, <1>i, IssuedStays DEF Issued
<1>k. mirror \in Leaves /\ Issued(mirror)
  BY DEF Inv, KnownInv
<1>n. NoLeaves \in Leaves /\ Issued(NoLeaves)
  BY NoLeavesIssued DEF Inv
<1>1. CASE UNCHANGED mirror
  BY <1>1, <1>i, <1>k
<1>2. CASE Boot
  BY <1>2, <1>i, <1>n DEF Boot
<1>3. ASSUME NEW p \in Passes, ReadLatest(p) \/ ApplyEvents(p) \/ PatchRecord(p)
      PROVE  mirror' \in Leaves /\ Issued(mirror')
  BY <1>3, <1>k, <1>n, AppliedIssued, PatchedIssued DEF ReadLatest
<1>4. ASSUME NEW k \in RecordKinds, Hear(k)
      PROVE  mirror' \in Leaves /\ Issued(mirror')
  <2>1. PICK i \in (heard[k] + 1)..Len(log) :
            log[i].kind = k /\ mirror' = [mirror EXCEPT ![log[i].id] = log[i].ver]
    BY <1>4 DEF Hear
  <2>2. heard[k] \in Nat
    BY DEF Inv, ControlInv
  <2>3. log \in Seq(Board!Event)
    BY DEF Inv, ChainInv, Board!TypeOK
  <2>4. i \in 1..Len(log)
    BY <2>2, <2>3
  <2>5. log[i] \in Board!Event
    BY <2>3, <2>4
  <2>6. log[i].id \in Ids
    BY <2>1, <2>5 DEF RecordKinds, Board!Event
  <2>7. log[i].ver \in Versions /\ log[i].ver <= OnChain(log[i].id)
    BY <2>1, <2>4, <2>6, EventVersion DEF Inv, RecordAt
  <2> QED
    BY <1>k, <2>1, <2>6, <2>7 DEF Leaves, Issued
<1>5. ASSUME NEW id \in Ids, Settle(id) \/ CatchPatches(id)
      PROVE  mirror' \in Leaves /\ Issued(mirror')
  <2>1. mirror' = [mirror EXCEPT ![id] = req[id].ver]
    BY <1>5 DEF Settle, CatchPatches
  <2>2. req[id].ver \in MaybeVersion /\ req[id].ver <= OnChain(id)
    BY DEF Inv, KnownInv, Request
  <2> QED
    BY <1>k, <2>1, <2>2 DEF Leaves, Issued, MaybeVersion
<1>6. ASSUME NEW id \in Ids, LateSettle(id)
      PROVE  mirror' \in Leaves /\ Issued(mirror')
  <2>1. PICK v \in late[id] : mirror' = [mirror EXCEPT ![id] = v]
    BY <1>6 DEF LateSettle
  <2>2. v \in MaybeVersion /\ v <= OnChain(id)
    BY DEF Inv, KnownInv, MaybeVersion
  <2> QED
    BY <1>k, <2>1, <2>2 DEF Leaves, Issued, MaybeVersion
<1> QED
  BY <1>1, <1>2, <1>3, <1>4, <1>5, <1>6, <1>i, MirrorView

\* The tree after a step, and the paths that come with it.
LEMMA TreeStep ==
    ASSUME Inv, Next
    PROVE  tree' \in Leaves /\ Issued(tree)'
<1>c. ChainContinues
  BY ChainGrows DEF Inv
<1>k. tree \in Leaves /\ Issued(tree)
  BY DEF Inv, KnownInv
<1>i. ASSUME tree' \in Leaves /\ Issued(tree')
      PROVE  tree' \in Leaves /\ Issued(tree)'
  BY <1>c, <1>i, IssuedStays DEF Issued
<1>1. CASE UNCHANGED tree
  BY <1>1, <1>i, <1>k
<1>2. CASE Boot
  BY <1>2, <1>i, NoLeavesIssued DEF Boot, Inv
<1>3. ASSUME NEW p \in Passes, ApplyEvents(p) \/ PatchRecord(p)
      PROVE  tree' \in Leaves /\ Issued(tree')
  <2>1. mirror' \in Leaves /\ Issued(mirror')
    BY <1>3, AppliedIssued, PatchedIssued
  <2>2. FullRebuild(mirror', pass[p].ids) \/ IncrementalUpdate(mirror', pass[p].ids)
    BY <1>3 DEF ApplyEvents, PatchRecord
  <2>3. tree' \in Leaves /\ \A id \in Ids : tree'[id] \in {mirror'[id], tree[id]}
    BY <2>1, <2>2, TreeUpdate DEF Inv
  <2> QED
    BY <1>k, <2>1, <2>3 DEF Issued
<1> QED
  BY <1>1, <1>2, <1>3, <1>i, TreeView

\* The requests after a step.
LEMMA RequestStep ==
    ASSUME Inv, Next
    PROVE  req' \in [Ids -> Request] /\ \A id \in Ids : req'[id].ver <= OnChain(id)'
<1>c. ChainContinues
  BY ChainGrows DEF Inv
<1>t. /\ req \in [Ids -> Request]
      /\ \A id \in Ids : /\ req[id].ver \in Int /\ OnChain(id) \in Int /\ OnChain(id)' \in Int
                         /\ req[id].ver <= OnChain(id) /\ OnChain(id) <= OnChain(id)'
  <2>1. \A id \in Ids : req[id].ver \in MaybeVersion /\ req[id].ver <= OnChain(id)
    BY DEF Inv, KnownInv, Request
  <2> QED
    BY <1>c, <2>1, VersionTypes DEF ChainContinues, Inv, KnownInv
<1>n. /\ NoReq \in Request
      /\ \A id \in Ids : NoReq.ver <= OnChain(id)'
  <2>1. \A id \in Ids : Absent <= OnChain(id)'
    BY <1>c, ServiceAssumption DEF ChainContinues, MaybeVersion, Versions, Absent
  <2> QED
    BY <2>1 DEF NoReq, Request, MaybeVersion
<1>k. \A id \in Ids : req[id].ver <= OnChain(id)'
  BY <1>t
<1>1. CASE UNCHANGED req
  BY <1>1, <1>t, <1>k
<1>2. CASE Boot
  BY <1>2, <1>n DEF Boot
<1>q. ASSUME queue # <<>> PROVE Head(queue).id \in Ids
  <2>1. Head(queue) \in Task
    BY <1>q DEF Inv, ControlInv
  <2> QED
    BY <2>1 DEF Task
<1>3. CASE FinishSerial
  <2>1. req' = req \/ req' = [req EXCEPT ![Head(queue).id] = NoReq]
    BY <1>3 DEF FinishSerial
  <2> QED
    BY <1>t, <1>k, <1>n, <2>1
<1>f. \A r : /\ Failed(r) \in Request
            /\ \A id \in Ids : Failed(r).ver <= OnChain(id)'
  BY <1>n DEF Failed, NoReq, Request
<1>4. CASE SerialThrows
  <2>1. \/ req' = req
        \/ req' = [req EXCEPT ![Head(queue).id] = Failed(@)]
    BY <1>4 DEF SerialThrows
  <2> QED
    BY <1>t, <1>k, <1>f, <2>1
<1>5. ASSUME NEW id \in Ids, Submit(id)
      PROVE  req' \in [Ids -> Request] /\ \A x \in Ids : req'[x].ver <= OnChain(x)'
  <2>1. /\ Asks(id, OnChain(id) + 1)
        /\ OnChain(id) + 1 \in Versions
        /\ OnChain(id)' = OnChain(id) + 1
    BY <1>5, SubmitIssues DEF Inv
  <2>2. CASE UNCHANGED req
    BY <1>t, <1>k, <2>2
  <2>3. CASE ~UNCHANGED req
    <3>1. PICK again \in BOOLEAN :
              req' = [req EXCEPT ![id] = [pc |-> "mined", ver |-> OnChain(id) + 1,
                                          again |-> again]]
      BY <2>1, <2>3 DEF Asks
    <3>2. [pc |-> "mined", ver |-> OnChain(id) + 1, again |-> again] \in Request
      BY <2>1 DEF Request, MaybeVersion
    <3>3. req'[id].ver = OnChain(id)'
      BY <1>t, <2>1, <3>1
    <3>4. req' \in [Ids -> Request] /\ \A x \in Ids \ {id} : req'[x] = req[x]
      BY <1>t, <3>1, <3>2
    <3> QED
      BY <1>t, <1>k, <3>3, <3>4
  <2> QED
    BY <2>2, <2>3
<1>6. ASSUME NEW id \in Ids, \/ Settle(id) \/ SettleFails(id)
                             \/ Reregister(id) \/ CatchReads(id) \/ CatchPatches(id)
      PROVE  req' \in [Ids -> Request] /\ \A x \in Ids : req'[x].ver <= OnChain(x)'
  <2>0. req[id] \in Request /\ OnChain(id) \in MaybeVersion
    BY <1>t DEF Inv, ChainInv
  <2>1. \A pc \in {"queued", "caught"} :
            /\ [req[id] EXCEPT !.pc = pc] \in Request
            /\ [req[id] EXCEPT !.pc = pc].ver = req[id].ver
    BY <2>0 DEF Request
  <2>2. /\ [req[id] EXCEPT !.pc = "fetched", !.ver = OnChain(id)] \in Request
        /\ [req[id] EXCEPT !.pc = "fetched", !.ver = OnChain(id)].ver = OnChain(id)
    BY <2>0 DEF Request
  <2>3. \/ \E pc \in {"queued", "caught"} :
               req' = [req EXCEPT ![id] = [req[id] EXCEPT !.pc = pc]]
        \/ req' = [req EXCEPT ![id] = [req[id] EXCEPT !.pc = "fetched", !.ver = OnChain(id)]]
        \/ req' = [req EXCEPT ![id] = Failed(req[id])]
        \/ req' = [req EXCEPT ![id] = NoReq]
        \/ req' = req
    BY <1>6, <1>t DEF Settle, SettleFails, Reregister, CatchReads, CatchPatches
  <2> DEFINE Known(r) == r \in Request /\ r.ver <= OnChain(id)'
  <2>4. /\ \A pc \in {"queued", "caught"} : Known([req[id] EXCEPT !.pc = pc])
        /\ Known([req[id] EXCEPT !.pc = "fetched", !.ver = OnChain(id)])
        /\ Known(Failed(req[id]))
        /\ Known(NoReq)
    <3>1. OnChain(id) <= OnChain(id)' /\ req[id].ver <= OnChain(id)'
      BY <1>t, <1>k
    <3> QED
      BY <1>n, <1>f, <2>1, <2>2, <3>1
  <2> HIDE DEF Known
  <2>5. \E r : Known(r) /\ (req' = [req EXCEPT ![id] = r] \/ req' = req)
    BY <2>3, <2>4, Zenon
  <2> QED
    BY <1>t, <1>k, <2>5 DEF Known
<1> QED
  BY <1>1, <1>2, <1>3, <1>4, <1>5, <1>6, RequestView

\* The changes that are not settled yet after a step.
LEMMA LateStep ==
    ASSUME Inv, Next
    PROVE  /\ late' \in [Ids -> SUBSET Versions]
           /\ \A id \in Ids : \A v \in late'[id] : v <= OnChain(id)'
<1>c. \A id \in Ids : /\ OnChain(id) \in Int /\ OnChain(id)' \in Int
                      /\ OnChain(id) <= OnChain(id)'
  BY ChainGrows, VersionTypes DEF Inv, ChainContinues
<1>t. late \in [Ids -> SUBSET Versions]
  BY DEF Inv, KnownInv
<1>k. \A id \in Ids : \A v \in late[id] : v <= OnChain(id)'
  <2> SUFFICES ASSUME NEW id \in Ids, NEW v \in late[id] PROVE v <= OnChain(id)'
    OBVIOUS
  <2>1. v \in Int /\ v <= OnChain(id)
    BY <1>t, VersionTypes DEF Inv, KnownInv
  <2> QED
    BY <1>c, <2>1
<1>1. CASE UNCHANGED late
  BY <1>1, <1>t, <1>k
<1>2. CASE Boot
  BY <1>2 DEF Boot
<1>3. ASSUME NEW id \in Ids, Submit(id)
      PROVE  /\ late' \in [Ids -> SUBSET Versions]
             /\ \A x \in Ids : \A v \in late'[x] : v <= OnChain(x)'
  <2>1. /\ Asks(id, OnChain(id) + 1)
        /\ OnChain(id) + 1 \in Versions
        /\ OnChain(id)' = OnChain(id) + 1
    BY <1>3, SubmitIssues DEF Inv
  <2>2. CASE ~UNCHANGED late
    <3>1. late' = [late EXCEPT ![id] = @ \cup {OnChain(id) + 1}]
      BY <2>1, <2>2 DEF Asks
    <3>2. OnChain(id) + 1 <= OnChain(id)'
      BY <1>c, <2>1
    <3> QED
      BY <1>t, <1>k, <2>1, <3>1, <3>2
  <2> QED
    BY <1>1, <2>2
<1>4. ASSUME NEW id \in Ids, LateSettle(id) \/ SettleFails(id)
      PROVE  /\ late' \in [Ids -> SUBSET Versions]
             /\ \A x \in Ids : \A v \in late'[x] : v <= OnChain(x)'
  <2>1. PICK v : late' = [late EXCEPT ![id] = @ \ {v}] \/ late' = late
    BY <1>4 DEF LateSettle, SettleFails
  <2> QED
    BY <1>t, <1>k, <2>1
<1> QED
  BY <1>1, <1>2, <1>3, <1>4, LateView

\* What the service knows stays behind the contract.
LEMMA KnownStep ==
    ASSUME Inv, Next
    PROVE  KnownInv'
  BY MirrorStep, TreeStep, RequestStep, LateStep DEF KnownInv

-----------------------------------------------------------------------------
(* What a step does to the caches *)

\* Who writes the caches, the timer and what clients were told.
LEMMA CacheView ==
    ASSUME Next
    PROVE  \/ UNCHANGED <<lastSynced, rootCache, chainCache, pathCache, timer, acked>>
           \/ Boot /\ UNCHANGED acked
           \/ \E p \in Passes : ApplyEvents(p) \/ PatchRecord(p) \/ Claim(p)
           \/ FinishWorker
           \/ FinishSerial
           \/ TimerReads \/ TimerActs
           \/ \E id \in Ids : Get(id)
<1> USE DEF Passes, caches, history
<1>1. ASSUME NEW p \in Passes, PassStep(p)
      PROVE  \/ UNCHANGED <<lastSynced, rootCache, chainCache, pathCache, timer, acked>>
             \/ ApplyEvents(p) \/ PatchRecord(p) \/ Claim(p)
  BY <1>1 DEF PassStep, ReadLatest, ReadRecord, ReadRoot, ReadEpoch, SendRoot, Receipt
<1>2. CASE Serial
  BY <1>1, <1>2 DEF Serial, SerialThrows, StartSerial
<1>3. CASE Worker
  BY <1>1, <1>3 DEF Worker, WorkerThrows
<1> QED
  BY <1>2, <1>3 DEF Next, Kill, RecomputeRoot, Hear, Submit, Settle, LateSettle,
     SettleFails, Reregister, CatchReads, CatchPatches

\* The end of a pass.
LEMMA ConcludeCaches ==
    ASSUME Inv, NEW p \in Passes, Conclude(p)
    PROVE  /\ rootCache' \in CacheEntry /\ chainCache' \in CacheEntry
           /\ pathCache' \in [Ids -> PathEntry]
           /\ acked' \in [Ids -> MaybeVersion]
           /\ lastSynced' = lastSynced
<1>t. tree \in Leaves /\ chainCache \in CacheEntry /\ pathCache \in [Ids -> PathEntry]
  BY DEF Inv, KnownInv, CacheInv
<1>p. pass[p].root \in Root /\ pass[p].epoch \in Nat
  BY PassFacts
<1>1. chainCache' \in CacheEntry
  BY <1>t, <1>p DEF Conclude, CacheEntry
<1>2. chainCache'.epoch \in Nat
  BY <1>1 DEF CacheEntry
<1>3. rootCache' \in CacheEntry
  BY <1>t, <1>2 DEF Conclude, CacheEntry, Root
<1>4. ASSUME NEW id \in Ids
      PROVE  /\ PathIn(tree, id) \in PathEntry
             /\ NoPath \in PathEntry
             /\ pathCache[id] # NoPath => [pathCache[id] EXCEPT !.root = tree] \in PathEntry
  <2>1. pathCache[id] \in PathEntry
    BY <1>t
  <2> QED
    BY <1>t, <2>1, PathEntries DEF PathEntry
<1>5. pathCache' \in [Ids -> PathEntry]
  BY <1>t, <1>4 DEF Conclude
<1>6. acked' \in [Ids -> MaybeVersion]
  <2>1. \A id \in Ids : tree[id] \in MaybeVersion /\ acked[id] \in MaybeVersion
    BY <1>t DEF Inv, CacheInv, Leaves, MaybeVersion
  <2> QED
    BY <2>1 DEF Conclude, Told
<1> QED
  BY <1>1, <1>3, <1>5, <1>6 DEF Conclude

\* The caches after a step.
LEMMA CacheStep ==
    ASSUME Inv, Next
    PROVE  CacheInv'
<1>c. ChainContinues
  BY ChainGrows DEF Inv
<1>n. Len(log) \in Nat /\ Len(log') \in Nat /\ Len(log) <= Len(log')
  BY <1>c DEF ChainContinues
<1>t. /\ lastSynced \in 0..Len(log')
      /\ rootCache \in CacheEntry /\ chainCache \in CacheEntry
      /\ pathCache \in [Ids -> PathEntry]
      /\ timer \in [on : BOOLEAN, latest : Nat, root : Root, epoch : Nat]
      /\ acked \in [Ids -> MaybeVersion]
      /\ tree \in Leaves
  <2>1. lastSynced \in 0..Len(log)
    BY DEF Inv, CacheInv
  <2> QED
    BY <1>n, <2>1 DEF Inv, CacheInv, KnownInv
<1>1. CASE UNCHANGED <<lastSynced, rootCache, chainCache, pathCache, timer, acked>>
  BY <1>1, <1>t DEF CacheInv
<1>2. CASE Boot /\ UNCHANGED acked
  <2>1. /\ lastSynced' = 0
        /\ rootCache' = [root |-> NoRoot, epoch |-> 0]
        /\ chainCache' = [root |-> NoRoot, epoch |-> 0]
        /\ pathCache' = [id \in Ids |-> NoPath]
        /\ timer' = NoTimer
    BY <1>2 DEF Boot
  <2> QED
    BY <1>2, <1>n, <1>t, <2>1 DEF CacheInv, CacheEntry, Root, PathEntry, NoTimer
<1>3. ASSUME NEW p \in Passes, ApplyEvents(p) \/ PatchRecord(p)
      PROVE  CacheInv'
  <2>1. mirror' \in Leaves
    BY <1>3, AppliedIssued, PatchedIssued
  <2>2. FullRebuild(mirror', pass[p].ids) \/ IncrementalUpdate(mirror', pass[p].ids)
    BY <1>3 DEF ApplyEvents, PatchRecord
  <2>3. pathCache' \in [Ids -> PathEntry]
    BY <2>1, <2>2, TreeUpdate DEF Inv
  <2>4. pass[p].latest \in Nat /\ pass[p].latest <= Len(log')
    BY <1>n, PassFacts
  <2>5. lastSynced' \in {lastSynced, pass[p].latest}
    BY <1>3 DEF ApplyEvents, PatchRecord
  <2>6. lastSynced' \in 0..Len(log')
    BY <1>n, <1>t, <2>4, <2>5
  <2> QED
    BY <1>3, <1>t, <2>3, <2>6 DEF ApplyEvents, PatchRecord, CacheInv, history
<1>4. ASSUME NEW p \in Passes, Claim(p)
      PROVE  CacheInv'
  <2>1. pass[p].root \in Root /\ pass[p].epoch \in Nat
    BY PassFacts
  <2> QED
    BY <1>4, <1>t, <2>1 DEF Claim, CacheInv, CacheEntry, history
<1>5. CASE FinishWorker
  <2>1. Conclude("worker") /\ UNCHANGED timer
    BY <1>5 DEF FinishWorker
  <2> QED
    BY <1>t, <2>1, ConcludeCaches DEF CacheInv, Passes
<1>6. CASE FinishSerial
  <2>1. Conclude("serial") /\ UNCHANGED timer
    BY <1>6 DEF FinishSerial
  <2> QED
    BY <1>t, <2>1, ConcludeCaches DEF CacheInv, Passes
<1>7. CASE TimerReads
  <2>1. /\ timer' = [on |-> TRUE, latest |-> Len(log), root |-> activeRoot, epoch |-> rootEpoch]
        /\ UNCHANGED <<lastSynced, rootCache, chainCache, pathCache, acked>>
    BY <1>7 DEF TimerReads, caches, history
  <2>2. activeRoot \in Root /\ rootEpoch \in Nat
    BY DEF Inv, ChainInv, Board!TypeOK, Root
  <2> QED
    BY <1>n, <1>t, <2>1, <2>2 DEF CacheInv
<1>8. CASE TimerActs
  <2>1. /\ timer' = NoTimer
        /\ chainCache' = [root |-> timer.root, epoch |-> timer.epoch]
        /\ UNCHANGED <<lastSynced, rootCache, pathCache, acked>>
    BY <1>8 DEF TimerActs, history
  <2>2. NoTimer \in [on : BOOLEAN, latest : Nat, root : Root, epoch : Nat]
    BY DEF NoTimer, Root
  <2>3. chainCache' \in CacheEntry
    BY <1>t, <2>1 DEF CacheEntry
  <2> QED
    BY <1>t, <2>1, <2>2, <2>3 DEF CacheInv
<1>9. ASSUME NEW id \in Ids, Get(id)
      PROVE  CacheInv'
  <2>1. PICK path \in {PathIn(tree, id), pathCache[id]} :
            pathCache' = [pathCache EXCEPT ![id] = path]
    BY <1>9 DEF Get
  <2>2. pathCache' \in [Ids -> PathEntry]
    BY <1>t, <2>1, PathEntries
  <2>3. PICK a \in {tree[id], acked[id]} : acked' = [acked EXCEPT ![id] = a] \/ acked' = acked
    BY <1>9, Zenon DEF Get
  <2>4. acked' \in [Ids -> MaybeVersion]
    BY <1>t, <2>3 DEF Leaves, MaybeVersion
  <2>5. UNCHANGED <<lastSynced, rootCache, chainCache, timer>>
    BY <1>9 DEF Get
  <2> QED
    BY <1>t, <2>2, <2>4, <2>5 DEF CacheInv
<1> QED
  BY <1>1, <1>2, <1>3, <1>4, <1>5, <1>6, <1>7, <1>8, <1>9, CacheView

-----------------------------------------------------------------------------
(* What a step does to the passes *)

\* What fits an earlier chain fits a later one.
LEMMA FitsLater ==
    ASSUME ChainContinues, NEW q \in PassType,
           PassFits(q, Len(log), rootEpoch, ChainVersions)
    PROVE  PassFits(q, Len(log'), rootEpoch', ChainVersions')
<1>1. /\ q.latest \in Nat /\ q.epoch \in Nat /\ q.ids \subseteq Ids /\ q.ver \in Int
  BY VersionTypes DEF PassType
<1>2. /\ Len(log) \in Nat /\ Len(log') \in Nat /\ Len(log) <= Len(log')
      /\ rootEpoch \in Nat /\ rootEpoch' \in Nat /\ rootEpoch <= rootEpoch'
  BY DEF ChainContinues
<1>3. \A id \in Ids : /\ ChainVersions[id] \in Int /\ ChainVersions'[id] \in Int
                      /\ ChainVersions[id] <= ChainVersions'[id]
  BY VersionTypes DEF ChainContinues, ChainVersions
<1> HIDE DEF ChainVersions
<1>4. q.pc = "patch" => \A id \in q.ids : q.ver <= ChainVersions'[id]
  <2> SUFFICES ASSUME q.pc = "patch", NEW id \in q.ids
               PROVE  q.ver <= ChainVersions'[id]
    OBVIOUS
  <2>1. q.ver <= ChainVersions[id]
    BY DEF PassFits
  <2> QED
    BY <1>1, <1>3, <2>1
<1> QED
  BY <1>1, <1>2, <1>4 DEF PassFits

\* Who writes the passes.
LEMMA PassView ==
    ASSUME Next
    PROVE  \/ UNCHANGED pass
           \/ Boot
           \/ \E p \in Passes : PassStep(p)
           \/ FinishWorker \/ FinishSerial \/ SerialThrows \/ StartSerial
           \/ \E full \in BOOLEAN : ScheduleRebuild(full)
<1> USE DEF Passes
<1>1. CASE Serial
  BY <1>1 DEF Serial
<1>2. CASE Worker
  BY <1>2 DEF Worker, WorkerThrows
<1>3. CASE TimerActs
  <2>1. (timer.root # rootCache.root) \in BOOLEAN
    OBVIOUS
  <2> QED
    BY <1>3, <2>1 DEF TimerActs
<1> QED
  BY <1>1, <1>2, <1>3 DEF Next, Kill, TimerReads, RecomputeRoot, Hear, Submit, Settle,
     LateSettle, SettleFails, Reregister, CatchReads, CatchPatches, Get

\* A pass that begins has read nothing.
LEMMA FreshPasses ==
    ASSUME NEW full \in BOOLEAN, NEW n \in Nat, NEW e \in Nat, NEW v
    PROVE  /\ IdlePass \in PassType /\ PassFits(IdlePass, n, e, v)
           /\ BootPass \in PassType /\ PassFits(BootPass, n, e, v)
           /\ BootPass.pc # "idle" /\ IdlePass.pc = "idle"
           /\ [BootPass EXCEPT !.full = full] \in PassType
           /\ [BootPass EXCEPT !.full = full].pc # "idle"
           /\ PassFits([BootPass EXCEPT !.full = full], n, e, v)
<1>1. Absent \in MaybeVersion /\ NoRoot \in Root
  BY DEF MaybeVersion, Root
<1>2. IdlePass \in PassType
  BY <1>1 DEF IdlePass, PassType, PassPcs
<1>3. /\ IdlePass.pc = "idle" /\ IdlePass.latest = 0 /\ IdlePass.epoch = 0
  BY DEF IdlePass
<1>4. /\ BootPass \in PassType /\ BootPass.pc = "sync"
      /\ BootPass.latest = 0 /\ BootPass.epoch = 0
  BY <1>2, <1>3 DEF BootPass, PassType, PassPcs
<1> DEFINE q == [BootPass EXCEPT !.full = full]
<1>5. /\ q \in PassType /\ q.pc = "sync" /\ q.latest = 0 /\ q.epoch = 0
  BY <1>4 DEF PassType
<1> HIDE DEF q
<1> QED
  BY <1>2, <1>3, <1>4, <1>5 DEF PassFits, q

\* What the steps of a pass make of it.
LEMMA PassOfStep ==
    ASSUME Inv, ChainContinues, NEW p \in Passes, PassStep(p), [Next]_vars
    PROVE  \E q \in PassType :
               /\ pass' = [pass EXCEPT ![p] = q]
               /\ q.pc # "idle"
               /\ PassFits(q, Len(log'), rootEpoch', ChainVersions')
<1> DEFINE r == pass[p]
           Fits(q) == PassFits(q, Len(log'), rootEpoch', ChainVersions')
<1>t. r \in PassType /\ pass \in [Passes -> PassType]
  BY DEF Inv, PassInv
<1>f. Fits(r)
  BY <1>t, FitsLater DEF Inv, PassInv
<1>g. PassFits(r, Len(log), rootEpoch, ChainVersions)
  BY DEF Inv, PassInv
<1>n. /\ Len(log) \in Nat /\ Len(log') \in Nat /\ Len(log) <= Len(log')
      /\ rootEpoch \in Nat /\ rootEpoch' \in Nat /\ rootEpoch <= rootEpoch'
  BY DEF ChainContinues
<1>w. tree \in Root /\ activeRoot \in Root
  BY DEF Inv, KnownInv, ChainInv, Board!TypeOK, Root
<1>e. r.epoch \in Nat /\ r.epoch <= rootEpoch
  BY PassFacts
<1> HIDE DEF r
<1>1. CASE ReadLatest(p)
  <2> DEFINE q == [r EXCEPT !.pc = "apply", !.latest = Len(log),
                     !.from = IF r.full THEN 1 ELSE lastSynced + 1]
  <2>1. lastSynced + 1 \in Nat /\ lastSynced + 1 # 0
    BY DEF Inv, CacheInv
  <2>2. q \in PassType /\ q.pc # "idle"
    BY <1>n, <1>t, <2>1 DEF PassType, PassPcs
  <2>3. q.pc = "apply" /\ q.latest = Len(log) /\ q.from # 0 /\ q.epoch = r.epoch
    BY <1>t, <2>1 DEF PassType
  <2>4. Fits(q)
    BY <1>f, <1>n, <2>3 DEF PassFits
  <2>5. pass' = [pass EXCEPT ![p] = q]
    BY <1>1, <1>t DEF ReadLatest, r
  <2> QED
    BY <2>2, <2>4, <2>5
<1>2. CASE ApplyEvents(p)
  <2> DEFINE q == [r EXCEPT !.pc = "readRoot", !.from = 0, !.latest = 0]
  <2>1. q \in PassType /\ q.pc = "readRoot" /\ q.latest = 0 /\ q.epoch = r.epoch
    BY <1>t DEF PassType, PassPcs
  <2>2. Fits(q)
    BY <1>f, <1>n, <2>1 DEF PassFits
  <2>3. pass' = [pass EXCEPT ![p] = q]
    BY <1>2, <1>t DEF ApplyEvents, r
  <2> QED
    BY <2>1, <2>2, <2>3
<1>3. CASE ReadRecord(p)
  <2> DEFINE x == CHOOSE id \in r.ids : TRUE
  <2>0. PICK v : /\ v = OnChain(x)
                 /\ pass' = [pass EXCEPT ![p].pc = "patch", ![p].ver = v]
    BY <1>3 DEF ReadRecord, r
  <2> DEFINE q == [r EXCEPT !.pc = "patch", !.ver = v]
  <2>1. r.pc = "refresh"
    BY <1>3 DEF ReadRecord, r
  <2>2. PICK id \in Ids : r.ids = {id}
    BY <1>g, <2>1 DEF PassFits
  <2>3. x = id
    BY <2>2
  <2>4. v \in MaybeVersion /\ v = OnChain(id)
    BY <2>0, <2>3 DEF ChainContinues
  <2>5. /\ q \in PassType /\ q.pc = "patch" /\ q.latest = r.latest /\ q.epoch = r.epoch
        /\ q.ids = {id} /\ q.ver = OnChain(id)
    BY <1>t, <2>2, <2>3, <2>4 DEF PassType, PassPcs
  <2>6. q.ver <= ChainVersions'[id]
    <3>1. OnChain(id) <= OnChain(id)' /\ ChainVersions'[id] = OnChain(id)'
      BY DEF ChainVersions, ChainContinues
    <3> QED
      BY <2>5, <3>1
  <2>7. Fits(q)
    BY <1>f, <2>5, <2>6 DEF PassFits
  <2>8. pass' = [pass EXCEPT ![p] = q]
    <3>1. pass' = [pass EXCEPT ![p].pc = "patch", ![p].ver = v]
      BY <2>0, Zenon
    <3> QED
      BY <1>t, <3>1 DEF r
  <2> QED
    BY <2>5, <2>7, <2>8
<1>4. CASE PatchRecord(p)
  <2> DEFINE q == [r EXCEPT !.pc = "readRoot", !.ver = Absent]
  <2>1. q \in PassType /\ q.pc = "readRoot" /\ q.latest = r.latest /\ q.epoch = r.epoch
    BY <1>t DEF PassType, PassPcs, MaybeVersion
  <2>2. Fits(q)
    BY <1>f, <2>1 DEF PassFits
  <2>3. pass' = [pass EXCEPT ![p] = q]
    BY <1>4, <1>t DEF PatchRecord, r
  <2> QED
    BY <2>1, <2>2, <2>3
<1>5. CASE ReadRoot(p)
  <2> DEFINE q == [r EXCEPT !.pc = "readEpoch", !.root = activeRoot]
  <2>1. q \in PassType /\ q.pc = "readEpoch" /\ q.latest = r.latest /\ q.epoch = r.epoch
    BY <1>t, <1>w DEF PassType, PassPcs
  <2>2. Fits(q)
    BY <1>f, <2>1 DEF PassFits
  <2>3. pass' = [pass EXCEPT ![p] = q]
    BY <1>5, <1>t DEF ReadRoot, r
  <2> QED
    BY <2>1, <2>2, <2>3
<1>6. CASE ReadEpoch(p)
  <2>0. PICK pc \in {"claim", "send"}, changed \in BOOLEAN :
            pass' = [pass EXCEPT ![p].pc = pc, ![p].epoch = rootEpoch, ![p].changed = changed]
    BY <1>6 DEF ReadEpoch
  <2> DEFINE q == [r EXCEPT !.pc = pc, !.epoch = rootEpoch, !.changed = changed]
  <2>1. q \in PassType /\ q.pc = pc /\ q.latest = r.latest /\ q.epoch = rootEpoch
    BY <1>t, <1>n DEF PassType, PassPcs
  <2>2. Fits(q)
    BY <1>f, <1>n, <2>1 DEF PassFits
  <2>3. pass' = [pass EXCEPT ![p] = q]
    BY <2>0, <1>t DEF r
  <2> QED
    BY <2>1, <2>2, <2>3
<1>7. CASE SendRoot(p)
  <2> DEFINE q == [r EXCEPT !.pc = "mined", !.root = NoRoot]
  <2>1. q \in PassType /\ q.pc = "mined" /\ q.latest = r.latest /\ q.epoch = r.epoch
    BY <1>t DEF PassType, PassPcs, Root
  <2>2. rootEpoch' = r.epoch + 1
    BY <1>7, SendRootAnchors DEF Inv, r
  <2>3. Fits(q)
    BY <1>e, <1>f, <1>n, <2>1, <2>2 DEF PassFits
  <2>4. pass' = [pass EXCEPT ![p] = q]
    BY <1>7, <1>t DEF SendRoot, r
  <2> QED
    BY <2>1, <2>3, <2>4
<1>8. CASE Receipt(p)
  <2> DEFINE q == [r EXCEPT !.pc = "claim", !.root = tree, !.epoch = r.epoch + 1]
  <2>0. r.epoch + 1 \in Nat
    BY <1>e
  <2>1. q \in PassType /\ q.pc = "claim" /\ q.latest = r.latest /\ q.epoch = r.epoch + 1
    BY <1>t, <1>w, <2>0 DEF PassType, PassPcs
  <2>2. r.epoch < rootEpoch
    BY <1>8, <1>g DEF Receipt, PassFits, r
  <2>3. Fits(q)
    BY <1>e, <1>f, <1>n, <2>1, <2>2 DEF PassFits
  <2>4. pass' = [pass EXCEPT ![p] = q]
    BY <1>8, <1>t DEF Receipt, r
  <2> QED
    BY <2>1, <2>3, <2>4
<1>9. CASE Claim(p)
  <2> DEFINE q == [r EXCEPT !.pc = "finish", !.root = tree]
  <2>1. q \in PassType /\ q.pc = "finish" /\ q.latest = r.latest /\ q.epoch = r.epoch
    BY <1>t, <1>w DEF PassType, PassPcs
  <2>2. Fits(q)
    BY <1>f, <2>1 DEF PassFits
  <2>3. pass' = [pass EXCEPT ![p] = q]
    BY <1>9, <1>t DEF Claim, r
  <2> QED
    BY <2>1, <2>2, <2>3
<1> QED
  BY <1>1, <1>2, <1>3, <1>4, <1>5, <1>6, <1>7, <1>8, <1>9 DEF PassStep

\* The passes after a step.
LEMMA PassesStep ==
    ASSUME Inv, Next
    PROVE  PassInv'
<1> DEFINE Fits(q) == PassFits(q, Len(log'), rootEpoch', ChainVersions')
<1>c. ChainContinues
  BY ChainGrows DEF Inv
<1>n. Len(log') \in Nat /\ rootEpoch' \in Nat
  BY <1>c DEF ChainContinues
<1>t. pass \in [Passes -> PassType] /\ \A p \in Passes : Fits(pass[p])
  BY <1>c, FitsLater DEF Inv, PassInv
<1>q. ASSUME NEW p \in Passes, NEW q \in PassType, Fits(q), pass' = [pass EXCEPT ![p] = q]
      PROVE  PassInv'
  BY <1>q, <1>t DEF PassInv
<1>f. /\ IdlePass \in PassType /\ Fits(IdlePass) /\ BootPass \in PassType /\ Fits(BootPass)
      /\ \A full \in BOOLEAN : /\ [BootPass EXCEPT !.full = full] \in PassType
                               /\ Fits([BootPass EXCEPT !.full = full])
  BY <1>n, FreshPasses
<1>b. fullSync \in BOOLEAN /\ "worker" \in Passes /\ "serial" \in Passes
  BY DEF Inv, ControlInv, Passes
<1> HIDE DEF Fits
<1>1. CASE UNCHANGED pass
  BY <1>1, <1>t DEF PassInv, Fits
<1>2. CASE Boot
  BY <1>2, <1>f DEF Boot, PassInv, Fits
<1>3. ASSUME NEW p \in Passes, PassStep(p)
      PROVE  PassInv'
  BY <1>3, <1>c, <1>q, PassOfStep DEF Fits
<1>4. CASE FinishWorker
  <2>1. PICK q \in {IdlePass, [BootPass EXCEPT !.full = fullSync]} :
            pass' = [pass EXCEPT !["worker"] = q]
    BY <1>4 DEF FinishWorker
  <2> QED
    BY <1>b, <1>f, <1>q, <2>1
<1>5. CASE FinishSerial \/ SerialThrows
  <2>1. pass' = [pass EXCEPT !["serial"] = IdlePass]
    BY <1>5 DEF FinishSerial, SerialThrows
  <2> QED
    BY <1>b, <1>f, <1>q, <2>1
<1>6. CASE StartSerial
  <2> DEFINE h == Head(queue)
  <2>0. h \in Task
    BY <1>6 DEF StartSerial, Inv, ControlInv
  <2>1. PICK pc \in {"refresh", "sync"} :
            pass' = [pass EXCEPT !["serial"] =
                        [IdlePass EXCEPT !.ids = {h.id}, !.kind = h.kind, !.pc = pc]]
    BY <1>6 DEF StartSerial
  <2>2. h.id \in Ids /\ h.kind \in {"inline", "late", "repair"}
    BY <2>0 DEF Task
  <2> DEFINE q == [IdlePass EXCEPT !.ids = {h.id}, !.kind = h.kind, !.pc = pc]
  <2> HIDE DEF h
  <2>3. /\ q \in PassType /\ q.pc = pc /\ q.latest = IdlePass.latest /\ q.ids = {h.id}
        /\ q.epoch = IdlePass.epoch
    BY <1>f, <2>2 DEF PassType, PassPcs
  <2>4. Fits(q)
    BY <1>f, <2>2, <2>3 DEF Fits, PassFits
  <2> QED
    BY <1>b, <1>q, <2>1, <2>3, <2>4
<1>7. ASSUME NEW full \in BOOLEAN, ScheduleRebuild(full)
      PROVE  PassInv'
  <2>1. CASE UNCHANGED pass
    BY <1>1, <2>1
  <2>2. CASE pass' = [pass EXCEPT !["worker"] = [BootPass EXCEPT !.full = fullSync \/ full]]
    <3>1. (fullSync \/ full) \in BOOLEAN
      BY <1>b
    <3> QED
      BY <1>b, <1>f, <1>q, <2>2, <3>1
  <2> QED
    BY <1>7, <2>1, <2>2 DEF ScheduleRebuild
<1> QED
  BY <1>1, <1>2, <1>3, <1>4, <1>5, <1>6, <1>7, PassView

-----------------------------------------------------------------------------
(* What a step does to the flags and the queue *)

\* Who writes the flags and the queue.
LEMMA ControlView ==
    ASSUME Next
    PROVE  \/ UNCHANGED <<bootstrapped, inFlight, dirty, fullSync, queue, pass, heard>>
           \/ Boot
           \/ \E p \in Passes :
                  PassStep(p) /\ UNCHANGED <<bootstrapped, inFlight, dirty, fullSync, queue, heard>>
           \/ FinishWorker \/ FinishSerial \/ SerialThrows \/ StartSerial
           \/ \E full \in BOOLEAN :
                  ScheduleRebuild(full) /\ UNCHANGED <<bootstrapped, queue, heard>>
           \/ \E k \in RecordKinds : Hear(k)
           \/ \E id \in Ids : Settle(id) \/ LateSettle(id) \/ CatchPatches(id) \/ Get(id)
<1> USE DEF Passes, caches
<1>1. ASSUME NEW p \in Passes, PassStep(p)
      PROVE  UNCHANGED <<bootstrapped, inFlight, dirty, fullSync, queue, heard>>
  BY <1>1 DEF PassStep, ReadLatest, ApplyEvents, ReadRecord, PatchRecord, ReadRoot,
     ReadEpoch, SendRoot, Receipt, Claim
<1>2. CASE Serial
  BY <1>1, <1>2 DEF Serial
<1>3. CASE Worker
  BY <1>1, <1>3 DEF Worker, WorkerThrows
<1>4. CASE TimerActs
  <2>1. (timer.root # rootCache.root) \in BOOLEAN
    OBVIOUS
  <2> QED
    BY <1>4, <2>1 DEF TimerActs
<1> QED
  BY <1>2, <1>3, <1>4 DEF Next, Kill, TimerReads, RecomputeRoot, Submit, SettleFails,
     Reregister, CatchReads

\* The flags and the queue after a step.
LEMMA ControlStep ==
    ASSUME Inv, Next
    PROVE  ControlInv'
<1>c. ChainContinues
  BY ChainGrows DEF Inv
<1>t. /\ queue \in Seq(Task)
      /\ bootstrapped \in BOOLEAN /\ inFlight \in BOOLEAN
      /\ dirty \in BOOLEAN /\ fullSync \in BOOLEAN
      /\ heard \in [RecordKinds -> Nat]
      /\ pass \in [Passes -> PassType]
  BY DEF Inv, ControlInv, PassInv
<1>w. /\ inFlight = (pass["worker"].pc # "idle")
      /\ dirty => inFlight
      /\ pass["serial"].pc # "idle" => queue # <<>>
  BY DEF Inv, ControlInv
<1>b. "worker" \in DOMAIN pass /\ "serial" \in DOMAIN pass /\ "worker" # "serial"
  BY <1>t DEF Passes
<1>f. /\ IdlePass.pc = "idle" /\ BootPass.pc # "idle"
      /\ \A full \in BOOLEAN : [BootPass EXCEPT !.full = full].pc # "idle"
  BY FreshPasses
<1>q. queue # <<>> => Tail(queue) \in Seq(Task)
  BY <1>t
<1>1. CASE UNCHANGED <<bootstrapped, inFlight, dirty, fullSync, queue, pass, heard>>
  BY <1>1, <1>t, <1>w DEF ControlInv
<1>2. CASE Boot
  <2>1. <<>> \in Seq(Task)
    OBVIOUS
  <2> QED
    BY <1>2, <1>f, <2>1 DEF Boot, ControlInv, Passes
<1>3. ASSUME NEW p \in Passes, PassStep(p),
             UNCHANGED <<bootstrapped, inFlight, dirty, fullSync, queue, heard>>
      PROVE  ControlInv'
  <2>1. PICK q \in PassType : pass' = [pass EXCEPT ![p] = q] /\ q.pc # "idle"
    BY <1>3, <1>c, PassOfStep
  <2>2. pass[p].pc # "idle"
    BY <1>3 DEF PassStep, ReadLatest, ApplyEvents, ReadRecord, PatchRecord, ReadRoot,
       ReadEpoch, SendRoot, Receipt, Claim
  <2>3. \A r \in Passes : (pass'[r].pc = "idle") <=> (pass[r].pc = "idle")
    BY <1>t, <2>1, <2>2
  <2> QED
    BY <1>3, <1>t, <1>w, <2>3 DEF ControlInv, Passes
<1>4. CASE FinishWorker
  <2>1. /\ dirty' = FALSE /\ inFlight' = dirty /\ queue' = queue /\ bootstrapped' = TRUE
        /\ fullSync' \in BOOLEAN
    BY <1>4, <1>t DEF FinishWorker, Conclude
  <2>2. pass'["serial"] = pass["serial"] /\ (dirty = (pass'["worker"].pc # "idle"))
    BY <1>4, <1>b, <1>f, <1>t DEF FinishWorker
  <2>3. heard' \in [RecordKinds -> Nat]
    BY <1>4, <1>c, <1>t DEF FinishWorker, ChainContinues
  <2> QED
    BY <1>t, <1>w, <2>1, <2>2, <2>3 DEF ControlInv
<1>5. CASE FinishSerial \/ SerialThrows
  <2>1. /\ queue' = Tail(queue) /\ pass' = [pass EXCEPT !["serial"] = IdlePass]
        /\ bootstrapped' \in BOOLEAN
        /\ UNCHANGED <<inFlight, dirty, fullSync, heard>>
    BY <1>5, <1>t DEF FinishSerial, SerialThrows, Conclude, caches
  <2>2. pass["serial"].pc # "idle"
    BY <1>5 DEF FinishSerial, SerialThrows, Throws, Rejected, Awaiting
  <2>3. pass'["serial"].pc = "idle" /\ pass'["worker"] = pass["worker"]
    BY <1>b, <1>f, <2>1
  <2> QED
    BY <1>q, <1>t, <1>w, <2>1, <2>2, <2>3 DEF ControlInv
<1>6. CASE StartSerial
  <2>1. /\ queue # <<>> /\ pass'["worker"] = pass["worker"]
        /\ UNCHANGED <<bootstrapped, inFlight, dirty, fullSync, queue, heard>>
    BY <1>6, <1>b DEF StartSerial
  <2> QED
    BY <1>t, <1>w, <2>1 DEF ControlInv
<1>7. ASSUME NEW full \in BOOLEAN, ScheduleRebuild(full), UNCHANGED <<bootstrapped, queue, heard>>
      PROVE  ControlInv'
  <2>1. (fullSync \/ full) \in BOOLEAN
    BY <1>t
  <2>2. CASE inFlight
    BY <1>7, <1>t, <1>w, <2>1, <2>2 DEF ScheduleRebuild, ControlInv
  <2>3. CASE ~inFlight
    <3>1. /\ inFlight' = TRUE /\ dirty' = FALSE /\ fullSync' = FALSE
          /\ pass' = [pass EXCEPT !["worker"] = [BootPass EXCEPT !.full = fullSync \/ full]]
      BY <1>7, <2>3 DEF ScheduleRebuild
    <3>2. pass'["worker"].pc # "idle" /\ pass'["serial"] = pass["serial"]
      BY <1>b, <1>f, <2>1, <3>1
    <3> QED
      BY <1>7, <1>t, <1>w, <3>1, <3>2 DEF ControlInv
  <2> QED
    BY <1>t, <2>2, <2>3
<1>8. ASSUME NEW k \in RecordKinds, Hear(k)
      PROVE  ControlInv'
  <2>1. PICK i \in (heard[k] + 1)..Len(log) : heard' = [heard EXCEPT ![k] = i]
    BY <1>8 DEF Hear
  <2>2. heard' \in [RecordKinds -> Nat]
    BY <1>c, <1>t, <2>1 DEF ChainContinues
  <2> QED
    BY <1>8, <1>t, <1>w, <2>2 DEF Hear, ControlInv
<1>9. ASSUME NEW id \in Ids, Settle(id) \/ LateSettle(id) \/ CatchPatches(id) \/ Get(id)
      PROVE  ControlInv'
  <2>0. \A kind \in {"inline", "late", "repair"} : [kind |-> kind, id |-> id] \in Task
    BY DEF Task
  <2>1. queue' = queue \/ \E e \in Task : queue' = Append(queue, e)
    BY <1>9, <2>0, Zenon DEF Settle, LateSettle, CatchPatches, Get
  <2>2. queue' \in Seq(Task) /\ (queue # <<>> => queue' # <<>>)
    BY <1>t, <2>1
  <2>3. UNCHANGED <<bootstrapped, inFlight, dirty, fullSync, pass, heard>>
    BY <1>9 DEF Settle, LateSettle, CatchPatches, Get
  <2> QED
    BY <1>t, <1>w, <2>2, <2>3 DEF ControlInv
<1> QED
  BY <1>1, <1>2, <1>3, <1>4, <1>5, <1>6, <1>7, <1>8, <1>9, ControlView

-----------------------------------------------------------------------------
(* The theorems *)

\* The service starts with nothing known and nothing anchored.
LEMMA InitInv == Init => Inv
<1> SUFFICES ASSUME Init PROVE Inv
  OBVIOUS
<1>r. records = [id \in Ids |-> Board!EmptyRecord] /\ log = <<>>
      /\ activeRoot = NoRoot /\ rootEpoch = 0
  BY DEF Init, Board!Init
<1>o. \A id \in Ids : OnChain(id) = Absent /\ records[id].version = 0
  BY <1>r DEF OnChain, Board!EmptyRecord
<1>n. Absent \in MaybeVersion /\ Absent <= Absent /\ Len(log) = 0 /\ Len(log) \in Nat
  BY <1>r DEF MaybeVersion, Absent
<1>l. NoLeaves \in Leaves /\ Issued(NoLeaves)
  BY <1>o, <1>n DEF NoLeaves, Leaves, Issued, MaybeVersion
<1>1. ChainInv
  <2>1. Board!EmptyRecord \in Board!Record /\ Board!EmptyAnchor \in Board!Anchor
    BY DEF Board!EmptyRecord, Board!Record, Board!EmptyAnchor, Board!Anchor
  <2>2. <<>> \in Seq(Board!Event)
    OBVIOUS
  <2>3. Board!TypeOK
    BY <1>r, <2>1, <2>2 DEF Init, Board!Init, Board!TypeOK
  <2>4. \A i \in 1..Len(log) : FALSE
    BY <1>n
  <2> QED
    BY <1>r, <1>o, <1>n, <2>3, <2>4 DEF ChainInv
<1>2. KnownInv
  <2>1. NoReq \in Request /\ NoReq.ver = Absent
    BY <1>n DEF NoReq, Request
  <2> QED
    BY <1>l, <1>o, <1>n, <2>1 DEF Init, KnownInv
<1>3. CacheInv
  BY <1>n DEF Init, CacheInv, CacheEntry, Root, PathEntry, NoTimer
<1>4. PassInv
  BY <1>r, <1>n, FreshPasses DEF Init, PassInv
<1>5. ControlInv
  <2>1. <<>> \in Seq(Task)
    OBVIOUS
  <2> QED
    BY <2>1, FreshPasses DEF Init, ControlInv, Passes
<1> QED
  BY <1>1, <1>2, <1>3, <1>4, <1>5 DEF Inv

\* Every step of the service keeps the invariant.
LEMMA StepInv == Inv /\ [Next]_vars => Inv'
<1> SUFFICES ASSUME Inv, [Next]_vars PROVE Inv'
  OBVIOUS
<1>1. ChainInv'
  BY ChainStep DEF Inv
<1>2. CASE Next
  BY <1>1, <1>2, KnownStep, CacheStep, PassesStep, ControlStep DEF Inv
<1>3. CASE UNCHANGED vars
  <2> USE <1>3 DEF vars, chain, caches, control, history
  <2>1. \A id \in Ids : OnChain(id)' = OnChain(id)
    BY DEF OnChain
  <2>2. KnownInv'
    BY <2>1 DEF Inv, KnownInv, Issued
  <2>3. CacheInv'
    BY DEF Inv, CacheInv
  <2>4. ChainVersions' = ChainVersions
    BY <2>1 DEF ChainVersions
  <2>5. PassInv'
    BY <2>4 DEF Inv, PassInv
  <2>6. ControlInv'
    BY DEF Inv, ControlInv
  <2> QED
    BY <1>1, <2>2, <2>3, <2>5, <2>6 DEF Inv
<1> QED
  BY <1>2, <1>3

\* The inductive invariant of the root machinery: whatever passes, requests,
\* listeners, timers, faults and kills do to each other, nothing the service
\* remembers, caches, sends or anchors is ahead of the contract.
THEOREM Invariance == Spec => []Inv
  BY InitInv, StepInv, PTL DEF Spec

\* The memory of the service always has its shape: in particular the worker
\* is marked busy exactly while it has a pass, so it is never started twice
\* and never waited for in vain, and a serial pass always has its request.
THEOREM TypeCorrect == Spec => []TypeOK
<1>1. Inv => TypeOK
  <2> SUFFICES ASSUME Inv PROVE TypeOK
    OBVIOUS
  <2>1. \A id \in Ids :
            req[id].ver \in Versions \cup {Absent} /\ late[id] \subseteq Versions
    BY DEF Inv, KnownInv, Request, MaybeVersion
  <2>2. \A id \in Ids : pathCache[id] \in {NoPath} \cup [leaves : Leaves, root : Leaves]
    BY DEF Inv, CacheInv, PathEntry
  <2> QED
    BY <2>1, <2>2 DEF Inv, KnownInv, CacheInv, ControlInv, CacheEntry, Root, TypeOK
<1> QED
  BY <1>1, Invariance, PTL

\* Every leaf of the active root is a version the contract has issued: no
\* overlap of passes, no restart and no stale answer anchors a leaf that is
\* ahead of the record of its identity.
THEOREM NothingAhead == Spec => []AnchoredLeavesExist
<1>1. Inv => AnchoredLeavesExist
  BY DEF Inv, ChainInv, Issued, AnchoredLeavesExist
<1> QED
  BY <1>1, Invariance, PTL

\* The service uses the contract as the contract allows: seen at the chain,
\* each of its behaviours is one of the contract's, so everything that holds
\* of the contract holds of the chain the service leaves behind.
THEOREM ServiceUsesBoard == Spec => Board!Spec
<1>1. Init => Board!Init
  BY DEF Init
<1>2. Inv /\ [Next]_vars => [Board!Next]_(Board!vars)
  <2> SUFFICES ASSUME Inv, [Next]_vars PROVE Board!Next \/ UNCHANGED Board!vars
    OBVIOUS
  <2>1. CASE UNCHANGED vars \/ UNCHANGED chain
    BY <2>1 DEF vars, chain, Board!vars
  <2>2. ASSUME NEW id \in Ids, Submit(id)
        PROVE  Board!Next
    BY <2>2, SubmitIssues DEF Inv, KnownInv
  <2>3. ASSUME NEW p \in Passes, SendRoot(p)
        PROVE  Board!Next
    BY <2>3, SendRootAnchors DEF Inv
  <2> QED
    BY <2>1, <2>2, <2>3, ChainView
<1> QED
  BY <1>1, <1>2, Invariance, PTL DEF Spec, Board!Spec

-----------------------------------------------------------------------------
(* The invariant of a service whose passes run one at a time *)

\* No timer, no listeners, no /recomputeRoot.
Alone == Background = {} /\ MaxRecomputes = 0

\* What pass q has read of root and epoch is still so.
Sees(q) ==
    /\ q.pc # "idle" => cacheStale
    /\ q.pc = "readEpoch" => q.root = activeRoot
    /\ q.pc = "mined" => tree = activeRoot /\ rootEpoch = q.epoch + 1
    /\ q.pc \in {"claim", "finish"} =>
           q.root = activeRoot /\ tree = activeRoot /\ q.epoch = rootEpoch
    /\ q.pc = "finish" => chainCache = [root |-> activeRoot, epoch |-> rootEpoch]

\* The worker has the first pass, the chain of refreshes all others.
TurnInv ==
    /\ dirty = FALSE /\ timer.on = FALSE /\ recomputes = 0
    /\ pass["worker"].pc = "idle" <=> bootstrapped
    /\ pass["worker"].pc # "idle" => pass["worker"].full
    /\ pass["serial"].pc # "idle" => ~pass["serial"].full
    /\ ~bootstrapped => /\ queue = <<>>
                        /\ \A id \in Ids : req[id].pc = "none" /\ late[id] = {}

AloneInv ==
    /\ Alone
    /\ TurnInv
    /\ \A p \in Passes : Sees(pass[p])
    /\ ServedRootIsActive

\* While a pass runs no other does.
LEMMA OneRuns ==
    ASSUME Inv, TurnInv, NEW p \in Passes, pass[p].pc # "idle"
    PROVE  \A r \in Passes \ {p} : pass[r].pc = "idle"
<1>1. pass["worker"].pc = "idle" \/ pass["serial"].pc = "idle"
  BY DEF Inv, ControlInv, TurnInv
<1> QED
  BY <1>1 DEF Passes

\* What does not happen without background work.
LEMMA NothingBeside ==
    ASSUME Alone, TurnInv
    PROVE  /\ ~TimerReads /\ ~TimerActs /\ ~RecomputeRoot
           /\ \A k \in RecordKinds : ~Hear(k)
  BY DEF Alone, TurnInv, TimerReads, TimerActs, RecomputeRoot, Hear

\* The steps that are left.
LEMMA AloneView ==
    ASSUME Alone, TurnInv, Next
    PROVE  \/ \E p \in Passes : PassStep(p)
           \/ FinishWorker \/ FinishSerial \/ SerialThrows \/ StartSerial
           \/ Boot /\ UNCHANGED <<activeRoot, rootEpoch, log, records, acked, recomputes>>
           \/ \E id \in Ids : \/ Submit(id) \/ Settle(id) \/ LateSettle(id) \/ SettleFails(id)
                             \/ Reregister(id) \/ CatchReads(id) \/ CatchPatches(id)
                             \/ Get(id)
  BY NothingBeside DEF Next, Serial, Worker, WorkerThrows, Kill, Passes, chain

\* The turns after a step.
LEMMA TurnStep ==
    ASSUME Inv, Alone, TurnInv, Next
    PROVE  TurnInv'
<1>t. /\ pass \in [Passes -> PassType] /\ req \in [Ids -> Request]
      /\ "worker" \in DOMAIN pass /\ "serial" \in DOMAIN pass
      /\ queue \in Seq(Task)
  BY DEF Inv, PassInv, KnownInv, ControlInv, Passes
<1>w. /\ inFlight = (pass["worker"].pc # "idle")
      /\ pass["serial"].pc # "idle" => queue # <<>>
  BY DEF Inv, ControlInv
<1>h. /\ dirty = FALSE /\ timer.on = FALSE /\ recomputes = 0
      /\ pass["worker"].pc = "idle" <=> bootstrapped
      /\ pass["worker"].pc # "idle" => pass["worker"].full
      /\ pass["serial"].pc # "idle" => ~pass["serial"].full
      /\ ~bootstrapped => /\ queue = <<>>
                          /\ \A id \in Ids : req[id].pc = "none" /\ late[id] = {}
  BY DEF TurnInv
<1>i. IdlePass.pc = "idle" /\ IdlePass.full = FALSE
  BY DEF IdlePass
<1>b. BootPass.pc = "sync" /\ BootPass.full = TRUE
  BY DEF BootPass, IdlePass
<1>1. ASSUME NEW p \in Passes, PassStep(p)
      PROVE  TurnInv'
  <2>1. UNCHANGED <<dirty, timer, recomputes, bootstrapped, queue, req, late>>
    BY <1>1 DEF PassStep, ReadLatest, ApplyEvents, ReadRecord, PatchRecord, ReadRoot,
       ReadEpoch, SendRoot, Receipt, Claim, caches, history
  <2>2. \A r \in Passes : /\ (pass'[r].pc = "idle") <=> (pass[r].pc = "idle")
                          /\ pass'[r].full = pass[r].full
    <3>1. pass[p] \in PassType
      BY <1>t
    <3>2. pass[p].pc # "idle" /\ pass'[p].pc # "idle" /\ pass'[p].full = pass[p].full
          /\ \A r \in Passes \ {p} : pass'[r] = pass[r]
      <4> USE <1>t, <3>1
      <4>1. CASE ReadLatest(p)
        BY <4>1 DEF ReadLatest, PassType
      <4>2. CASE ApplyEvents(p)
        BY <4>2 DEF ApplyEvents, PassType
      <4>3. CASE ReadRecord(p)
        <5>1. PICK v : pass' = [pass EXCEPT ![p].pc = "patch", ![p].ver = v]
          BY <4>3 DEF ReadRecord
        <5> QED
          BY <4>3, <5>1 DEF ReadRecord, PassType
      <4>4. CASE PatchRecord(p)
        BY <4>4 DEF PatchRecord, PassType
      <4>5. CASE ReadRoot(p)
        BY <4>5 DEF ReadRoot, PassType
      <4>6. CASE ReadEpoch(p)
        BY <4>6 DEF ReadEpoch, PassType
      <4>7. CASE SendRoot(p)
        BY <4>7 DEF SendRoot, PassType
      <4>8. CASE Receipt(p)
        BY <4>8 DEF Receipt, PassType
      <4>9. CASE Claim(p)
        BY <4>9 DEF Claim, PassType
      <4> QED
        BY <1>1, <4>1, <4>2, <4>3, <4>4, <4>5, <4>6, <4>7, <4>8, <4>9 DEF PassStep
    <3> QED
      BY <3>2
  <2> QED
    BY <1>h, <2>1, <2>2 DEF TurnInv, Passes
<1>2. CASE FinishWorker
  <2>1. /\ bootstrapped' = TRUE /\ dirty' = FALSE
        /\ pass' = [pass EXCEPT !["worker"] = IdlePass]
        /\ UNCHANGED <<timer, recomputes>>
    BY <1>2, <1>h DEF FinishWorker, Conclude, history
  <2> QED
    BY <1>h, <1>i, <1>t, <2>1 DEF TurnInv
<1>3. CASE FinishSerial
  <2>1. /\ bootstrapped' = TRUE
        /\ pass' = [pass EXCEPT !["serial"] = IdlePass]
        /\ UNCHANGED <<dirty, timer, recomputes>>
        /\ pass["serial"].pc # "idle"
    BY <1>3 DEF FinishSerial, Conclude
  <2>2. bootstrapped = TRUE
    BY <1>h, <1>w, <2>1 DEF Inv, ControlInv
  <2> QED
    BY <1>h, <1>i, <1>t, <2>1, <2>2 DEF TurnInv
<1>4. CASE SerialThrows
  <2>1. /\ pass' = [pass EXCEPT !["serial"] = IdlePass]
        /\ UNCHANGED <<dirty, timer, recomputes, bootstrapped>>
        /\ pass["serial"].pc # "idle"
    BY <1>4 DEF SerialThrows, Throws, Rejected, Awaiting, caches
  <2>2. bootstrapped
    BY <1>h, <1>w, <2>1
  <2> QED
    BY <1>h, <1>i, <1>t, <2>1, <2>2 DEF TurnInv
<1>5. CASE StartSerial
  <2>1. PICK q : /\ q.full = FALSE
                 /\ pass' = [pass EXCEPT !["serial"] = q]
    BY <1>5, <1>i DEF StartSerial, IdlePass
  <2>2. UNCHANGED <<dirty, timer, recomputes, bootstrapped, queue, req, late>>
    BY <1>5 DEF StartSerial, history
  <2> QED
    BY <1>h, <1>t, <2>1, <2>2 DEF TurnInv
<1>6. CASE Boot /\ UNCHANGED recomputes
  BY <1>6, <1>b, <1>i, <1>h DEF Boot, TurnInv, NoTimer, NoReq, Passes
<1>7. ASSUME NEW id \in Ids, \/ Submit(id) \/ Settle(id) \/ LateSettle(id) \/ SettleFails(id)
                             \/ Reregister(id) \/ CatchReads(id) \/ CatchPatches(id)
                             \/ Get(id)
      PROVE  TurnInv'
  <2>1. bootstrapped
    BY <1>7, <1>h DEF Submit, Settle, LateSettle, SettleFails, Reregister, CatchReads,
       CatchPatches, Get
  <2>2. UNCHANGED <<dirty, timer, recomputes, bootstrapped, pass>>
    BY <1>7 DEF Submit, Settle, LateSettle, SettleFails, Reregister, CatchReads,
       CatchPatches, Get, caches, history
  <2> QED
    BY <1>h, <2>1, <2>2 DEF TurnInv
<1> QED
  BY <1>1, <1>2, <1>3, <1>4, <1>5, <1>6, <1>7, AloneView

\* Root, epoch, tree and caches after a step: the pass that runs sees them as
\* they are, and they are served only when they agree.
LEMMA AloneStep ==
    ASSUME Inv, AloneInv, Next
    PROVE  (\A p \in Passes : Sees(pass[p]))' /\ ServedRootIsActive'
<1>t. pass \in [Passes -> PassType] /\ "worker" \in Passes /\ "serial" \in Passes
  BY DEF Inv, PassInv, Passes
<1>a. TurnInv /\ Alone /\ ServedRootIsActive /\ \A p \in Passes : Sees(pass[p])
  BY DEF AloneInv
<1>s. ASSUME NEW p \in Passes, pass[p].pc # "idle"
      PROVE  cacheStale /\ \A r \in Passes \ {p} : pass[r].pc = "idle"
  BY <1>a, <1>s, OneRuns DEF Sees
<1>i. \A q : q.pc = "idle" => /\ q.pc # "readEpoch" /\ q.pc # "mined" /\ q.pc # "claim"
                              /\ q.pc # "finish"
  OBVIOUS
<1>p. ASSUME NEW p \in Passes, pass[p].pc # "idle", NEW q, pass' = [pass EXCEPT ![p] = q],
             q.pc # "idle" => cacheStale',
             q.pc = "readEpoch" => q.root = activeRoot',
             q.pc = "mined" => tree' = activeRoot' /\ rootEpoch' = q.epoch + 1,
             q.pc \in {"claim", "finish"} =>
                 q.root = activeRoot' /\ tree' = activeRoot' /\ q.epoch = rootEpoch',
             q.pc = "finish" => chainCache' = [root |-> activeRoot', epoch |-> rootEpoch']
      PROVE  (\A r \in Passes : Sees(pass[r]))'
  <2>1. pass'[p] = q /\ \A r \in Passes \ {p} : pass'[r].pc = "idle"
    BY <1>p, <1>s, <1>t
  <2> QED
    BY <1>p, <1>i, <2>1 DEF Sees
<1>1. ASSUME NEW p \in Passes, PassStep(p)
      PROVE  (\A r \in Passes : Sees(pass[r]))' /\ ServedRootIsActive'
  <2>0. pass[p].pc # "idle" /\ UNCHANGED cacheStale
    BY <1>1 DEF PassStep, ReadLatest, ApplyEvents, ReadRecord, PatchRecord, ReadRoot,
       ReadEpoch, SendRoot, Receipt, Claim, caches
  <2>s. cacheStale /\ cacheStale' /\ Sees(pass[p]) /\ pass[p] \in PassType
    BY <1>a, <1>s, <1>t, <2>0
  <2>v. ServedRootIsActive'
    BY <2>s DEF ServedRootIsActive
  <2>a. CASE ReadLatest(p)
    <3> DEFINE q == [pass[p] EXCEPT !.pc = "apply", !.latest = Len(log),
                       !.from = IF pass[p].full THEN 1 ELSE lastSynced + 1]
    <3>1. pass' = [pass EXCEPT ![p] = q]
      BY <2>a, <1>t DEF ReadLatest
    <3>2. q.pc = "apply"
      BY <2>s DEF PassType
    <3> HIDE DEF q
    <3> QED
      BY <1>p, <2>0, <2>s, <2>v, <3>1, <3>2
  <2>b. CASE ApplyEvents(p)
    <3> DEFINE q == [pass[p] EXCEPT !.pc = "readRoot", !.from = 0, !.latest = 0]
    <3>1. pass' = [pass EXCEPT ![p] = q]
      BY <2>b, <1>t DEF ApplyEvents
    <3>2. q.pc = "readRoot"
      BY <2>s DEF PassType
    <3> HIDE DEF q
    <3> QED
      BY <1>p, <2>0, <2>s, <2>v, <3>1, <3>2
  <2>c. CASE ReadRecord(p)
    <3>1. PICK v : pass' = [pass EXCEPT ![p].pc = "patch", ![p].ver = v]
      BY <2>c DEF ReadRecord
    <3> DEFINE q == [pass[p] EXCEPT !.pc = "patch", !.ver = v]
    <3>2. pass' = [pass EXCEPT ![p] = q]
      BY <3>1, <1>t
    <3>3. q.pc = "patch"
      BY <2>s DEF PassType
    <3> HIDE DEF q
    <3> QED
      BY <1>p, <2>0, <2>s, <2>v, <3>2, <3>3
  <2>d. CASE PatchRecord(p)
    <3> DEFINE q == [pass[p] EXCEPT !.pc = "readRoot", !.ver = Absent]
    <3>1. pass' = [pass EXCEPT ![p] = q]
      BY <2>d, <1>t DEF PatchRecord
    <3>2. q.pc = "readRoot"
      BY <2>s DEF PassType
    <3> HIDE DEF q
    <3> QED
      BY <1>p, <2>0, <2>s, <2>v, <3>1, <3>2
  <2>2. CASE ReadRoot(p)
    <3> DEFINE q == [pass[p] EXCEPT !.pc = "readEpoch", !.root = activeRoot]
    <3>1. pass' = [pass EXCEPT ![p] = q] /\ UNCHANGED activeRoot
      BY <1>t, <2>2 DEF ReadRoot, chain
    <3>2. q.pc = "readEpoch" /\ q.root = activeRoot
      BY <2>s DEF PassType
    <3> HIDE DEF q
    <3> QED
      BY <1>p, <2>0, <2>s, <2>v, <3>1, <3>2
  <2>3. CASE ReadEpoch(p)
    <3>1. /\ pass[p].root = activeRoot /\ pass[p].pc = "readEpoch"
          /\ UNCHANGED <<activeRoot, rootEpoch, tree, chainCache>>
      BY <2>3, <2>s DEF ReadEpoch, Sees, chain, caches
    <3>2. PICK pc \in {"claim", "send"}, changed \in BOOLEAN :
              /\ pass' = [pass EXCEPT ![p].pc = pc, ![p].epoch = rootEpoch, ![p].changed = changed]
              /\ pc = "claim" => tree = pass[p].root
      BY <2>3 DEF ReadEpoch
    <3> DEFINE q == [pass[p] EXCEPT !.pc = pc, !.epoch = rootEpoch, !.changed = changed]
    <3>3. pass' = [pass EXCEPT ![p] = q]
      BY <1>t, <3>2
    <3>4. q.pc = pc /\ q.epoch = rootEpoch /\ q.root = pass[p].root
      BY <2>s DEF PassType
    <3> HIDE DEF q
    <3> QED
      BY <1>p, <2>0, <2>s, <2>v, <3>1, <3>2, <3>3, <3>4
  <2>4. CASE SendRoot(p)
    <3> DEFINE q == [pass[p] EXCEPT !.pc = "mined", !.root = NoRoot]
    <3>1. pass' = [pass EXCEPT ![p] = q] /\ UNCHANGED tree
      BY <1>t, <2>4 DEF SendRoot, caches
    <3>2. q.pc = "mined" /\ q.epoch = pass[p].epoch
      BY <2>s DEF PassType
    <3>3. activeRoot' = tree /\ rootEpoch' = pass[p].epoch + 1
      BY <2>4, SendRootAnchors DEF Inv
    <3> HIDE DEF q
    <3> QED
      BY <1>p, <2>0, <2>s, <2>v, <3>1, <3>2, <3>3
  <2>5. CASE Receipt(p)
    <3> DEFINE q == [pass[p] EXCEPT !.pc = "claim", !.root = tree, !.epoch = pass[p].epoch + 1]
    <3>1. /\ pass' = [pass EXCEPT ![p] = q] /\ pass[p].pc = "mined"
          /\ UNCHANGED <<activeRoot, rootEpoch, tree>>
      BY <1>t, <2>5 DEF Receipt, chain, caches
    <3>2. q.pc = "claim" /\ q.epoch = pass[p].epoch + 1 /\ q.root = tree
      BY <2>s DEF PassType
    <3>3. tree = activeRoot /\ rootEpoch = pass[p].epoch + 1
      BY <2>s, <3>1 DEF Sees
    <3> HIDE DEF q
    <3> QED
      BY <1>p, <2>0, <2>s, <2>v, <3>1, <3>2, <3>3
  <2>6. CASE Claim(p)
    <3> DEFINE q == [pass[p] EXCEPT !.pc = "finish", !.root = tree]
    <3>1. /\ pass' = [pass EXCEPT ![p] = q] /\ pass[p].pc = "claim"
          /\ chainCache' = [root |-> pass[p].root, epoch |-> pass[p].epoch]
          /\ UNCHANGED <<activeRoot, rootEpoch, tree>>
      BY <1>t, <2>6 DEF Claim, chain
    <3>2. q.pc = "finish" /\ q.epoch = pass[p].epoch /\ q.root = tree
      BY <2>s DEF PassType
    <3>3. tree = activeRoot /\ rootEpoch = pass[p].epoch /\ pass[p].root = activeRoot
      BY <2>s, <3>1 DEF Sees
    <3> HIDE DEF q
    <3> QED
      BY <1>p, <2>0, <2>s, <2>v, <3>1, <3>2, <3>3
  <2> QED
    BY <1>1, <2>a, <2>b, <2>c, <2>d, <2>2, <2>3, <2>4, <2>5, <2>6 DEF PassStep
<1>2. ASSUME NEW p \in Passes, pass[p].pc = "finish", Conclude(p),
             pass' = [pass EXCEPT ![p] = IdlePass], UNCHANGED <<activeRoot, rootEpoch>>
      PROVE  (\A r \in Passes : Sees(pass[r]))' /\ ServedRootIsActive'
  <2>1. /\ pass[p].root = activeRoot /\ tree = activeRoot /\ pass[p].epoch = rootEpoch
        /\ chainCache = [root |-> activeRoot, epoch |-> rootEpoch]
    BY <1>2, <1>a DEF Sees
  <2>2. /\ chainCache' = [root |-> activeRoot, epoch |-> rootEpoch]
        /\ rootCache' = [root |-> tree, epoch |-> chainCache'.epoch]
        /\ tree' = tree
    BY <1>2, <2>1 DEF Conclude
  <2>3. rootCache' = [root |-> activeRoot, epoch |-> rootEpoch]
    BY <2>1, <2>2
  <2>4. ServedRootIsActive'
    BY <1>2, <2>1, <2>2, <2>3 DEF ServedRootIsActive
  <2>5. IdlePass.pc = "idle"
    BY DEF IdlePass
  <2>6. \A r \in Passes : pass'[r].pc = "idle"
    BY <1>2, <1>s, <1>t, <2>5
  <2>7. (\A r \in Passes : Sees(pass[r]))'
    BY <1>i, <2>6 DEF Sees
  <2> QED
    BY <2>4, <2>7
<1>3. CASE FinishWorker
  <2>1. pass' = [pass EXCEPT !["worker"] = IdlePass]
    BY <1>3, <1>a DEF FinishWorker, TurnInv
  <2> QED
    BY <1>2, <1>3, <1>t, <2>1 DEF FinishWorker, chain
<1>4. CASE FinishSerial
  BY <1>2, <1>4, <1>t DEF FinishSerial, chain
<1>5. CASE SerialThrows
  <2>1. /\ pass["serial"].pc # "idle" /\ pass' = [pass EXCEPT !["serial"] = IdlePass]
        /\ UNCHANGED <<activeRoot, rootEpoch, tree, chainCache, rootCache, cacheStale>>
    BY <1>5 DEF SerialThrows, Throws, Rejected, Awaiting, chain, caches
  <2>2. IdlePass.pc = "idle"
    BY DEF IdlePass
  <2>3. ServedRootIsActive'
    BY <1>a, <2>1 DEF ServedRootIsActive
  <2> QED
    BY <1>p, <1>t, <2>1, <2>2, <2>3
<1>6. CASE StartSerial
  <2>1. pass'["serial"].pc \in {"refresh", "sync"}
    <3>1. PICK pc \in {"refresh", "sync"} :
              pass' = [pass EXCEPT !["serial"] =
                  [IdlePass EXCEPT !.ids = {Head(queue).id},
                       !.kind = Head(queue).kind, !.pc = pc]]
      BY <1>6 DEF StartSerial
    <3> QED
      BY <1>s, <1>t, <3>1 DEF Passes, IdlePass
  <2>2. cacheStale' = TRUE /\ pass["serial"].pc = "idle" /\ pass["worker"].pc = "idle"
    BY <1>6 DEF StartSerial, Inv, ControlInv
  <2>3. pass'["serial"].pc \in {"refresh", "sync"} /\ pass'["worker"].pc = "idle"
    BY <1>6, <1>t, <2>1, <2>2 DEF StartSerial, Passes
  <2>4. (\A r \in Passes : Sees(pass[r]))'
    BY <2>2, <2>3 DEF Passes, Sees
  <2> QED
    BY <2>2, <2>4 DEF ServedRootIsActive
<1>7. CASE Boot
  <2>1. /\ cacheStale' = TRUE
        /\ pass'["worker"].pc = "sync" /\ pass'["serial"].pc = "idle"
    BY <1>7 DEF Boot, BootPass, IdlePass, Passes
  <2>2. (\A r \in Passes : Sees(pass[r]))'
    BY <2>1 DEF Passes, Sees
  <2> QED
    BY <2>1, <2>2 DEF ServedRootIsActive
<1>8. ASSUME NEW id \in Ids, \/ Submit(id) \/ Settle(id) \/ LateSettle(id) \/ SettleFails(id)
                             \/ Reregister(id) \/ CatchReads(id) \/ CatchPatches(id)
                             \/ Get(id)
      PROVE  (\A r \in Passes : Sees(pass[r]))' /\ ServedRootIsActive'
  <2>1. UNCHANGED <<pass, tree, chainCache, rootCache, cacheStale>>
    BY <1>8 DEF Submit, Settle, LateSettle, SettleFails, Reregister, CatchReads,
       CatchPatches, Get, caches
  <2>2. UNCHANGED <<activeRoot, rootEpoch>>
    <3>1. CASE Submit(id)
      BY <3>1, SubmitIssues DEF Inv, KnownInv, IssuesRecord
    <3>2. CASE ~Submit(id)
      BY <1>8, <3>2 DEF Settle, LateSettle, SettleFails, Reregister, CatchReads,
         CatchPatches, Get, chain
    <3> QED
      BY <3>1, <3>2
  <2> QED
    BY <1>a, <2>1, <2>2 DEF Sees, ServedRootIsActive
<1> QED
  BY <1>1, <1>3, <1>4, <1>5, <1>6, <1>7, <1>8, <1>a, AloneView

\* The invariant from the start on.
LEMMA AloneInductive ==
    /\ Alone /\ Init => AloneInv
    /\ Inv /\ AloneInv /\ [Next]_vars => AloneInv'
<1>1. Alone /\ Init => AloneInv
  <2> SUFFICES ASSUME Alone, Init PROVE AloneInv
    OBVIOUS
  <2>1. /\ pass["worker"] = BootPass /\ pass["serial"] = IdlePass
        /\ BootPass.pc = "sync" /\ BootPass.full = TRUE /\ IdlePass.pc = "idle"
    BY DEF Init, Passes, BootPass, IdlePass
  <2>2. TurnInv
    BY <2>1 DEF Init, TurnInv, NoTimer, NoReq
  <2>3. \A p \in Passes : Sees(pass[p])
    BY <2>1 DEF Init, Sees, Passes
  <2> QED
    BY <2>2, <2>3 DEF Init, AloneInv, ServedRootIsActive
<1>2. Inv /\ AloneInv /\ [Next]_vars => AloneInv'
  <2> SUFFICES ASSUME Inv, AloneInv, [Next]_vars PROVE AloneInv'
    OBVIOUS
  <2>1. CASE Next
    BY <2>1, TurnStep, AloneStep DEF AloneInv, Alone
  <2>2. CASE UNCHANGED vars
    BY <2>2 DEF vars, chain, caches, control, history, AloneInv, Alone, TurnInv, Sees,
       ServedRootIsActive
  <2> QED
    BY <2>1, <2>2
<1> QED
  BY <1>1, <1>2

\* Passes one at a time: at every step the pass that runs sees root, epoch
\* and tree as they are.
THEOREM AloneInvariance == Alone /\ Spec => []AloneInv
  BY AloneInductive, Invariance, PTL DEF Spec

\* Without background work what is served is what the contract has: root and
\* epoch are the active ones and the leaves are those of the active root.
THEOREM ServedRootIsTheChains == Alone /\ Spec => []ServedRootIsActive
  BY AloneInvariance, PTL DEF AloneInv

-----------------------------------------------------------------------------
(* The invariant of a service that replays events in their order *)

\* Records are updated or recovered, not both.
OneKind == \E k \in {"UpdatedZK", "RecoveredZK"} : Kinds \subseteq {"RegisteredZK", k}

\* No call fails and the process is not killed.
Undisturbed == MaxFaults = 0 /\ MaxKills = 0

\* The replay of a range applies the events of one kind after those of the
\* other, whatever their order was.  That does no harm when there is only one
\* kind, or when clients wait and no request fails, so that no request leaves
\* its event to a later replay.
Orderly == OneKind \/ Undisturbed

\* Every client waits until its change is settled before it sends the next one
\* of that identity (wait=1; the routes do not ask for it).  Without that the
\* settlement of an earlier change may come after a later one and write the
\* older version into the mirror.
Awaited == Waits \subseteq {TRUE}

\* No change is left to be settled after its answer.
WaitInv == Awaited /\ \A id \in Ids : late[id] = {}

\* The events of a record come in the order of their versions, and one of
\* them brought it to the version it has.
OrderInv ==
    /\ \A i \in 1..Len(log) :
           log[i].kind \in {"UpdatedZK", "RecoveredZK"} => log[i].kind \in Kinds
    /\ \A id \in Ids : \A i, j \in 1..Len(log) :
           RecordAt(i, id) /\ RecordAt(j, id) /\ i < j => log[i].ver < log[j].ver
    /\ \A id \in Ids : OnChain(id) # Absent =>
           \E i \in 1..Len(log) : RecordAt(i, id) /\ log[i].ver = OnChain(id)

\* Version v of an identity is that of its latest event up to n or a later one.
Newest(v, id, n) == \A i \in 1..n : RecordAt(i, id) => log[i].ver <= v

\* The first n events account for every leaf of l.
Covered(l, n) ==
    \A id \in Ids : l[id] = Absent \/ \E i \in 1..n : RecordAt(i, id) /\ l[id] <= log[i].ver

\* The request has a version to write into the mirror, or has written it.
Writes(r) == r.pc \in {"mined", "fetched", "queued"}

\* The mirror has what the synced events say, a worker that has not applied
\* its events has synced none, and a request writes the record's version.
SyncInv ==
    /\ \A id \in Ids : Newest(mirror[id], id, lastSynced)
    /\ pass["worker"].pc \in {"sync", "apply"} => lastSynced = 0
    /\ pass["worker"].pc \notin {"refresh", "patch"}
    /\ \A id \in Ids : Writes(req[id]) => req[id].ver = OnChain(id)

\* The events that pass q is about to apply follow the synced ones and account
\* for the active root; the record it is about to patch is not older than the
\* leaf and the synced events.
Reads(q) ==
    /\ q.pc = "apply" =>
           /\ q.from = lastSynced + 1 /\ lastSynced <= q.latest
           /\ activeRoot # NoRoot => Covered(activeRoot, q.latest)
    /\ q.pc = "patch" => \A id \in q.ids :
           tree[id] <= q.ver /\ Newest(q.ver, id, lastSynced)

\* The tree is not behind the active root once the first events are applied,
\* nor the active root behind what clients were told.
RootInv ==
    /\ activeRoot # NoRoot /\ pass["worker"].pc \notin {"sync", "apply"} =>
           \A id \in Ids : activeRoot[id] <= tree[id]
    /\ \A id \in Ids : acked[id] # Absent =>
           activeRoot # NoRoot /\ acked[id] <= activeRoot[id]

\* Event i about the record of an identity has not been applied yet.
Unsynced(i, id) == i \in (lastSynced + 1)..Len(log) /\ RecordAt(i, id)

\* The task of the request under way for an identity.
TaskOf(id) == [kind |-> "inline", id |-> id]

\* An identity has at most one event that is not applied, that of the request
\* under way.
EventsInv ==
    \A id \in Ids : \A i \in Nat : Unsynced(i, id) =>
        /\ req[id].pc # "none"
        /\ \A j \in Nat : Unsynced(j, id) => i = j

\* The chain has the task of a request at most once.
TasksInv ==
    \A id \in Ids : \A n \in 1..Len(queue) : queue[n] = TaskOf(id) =>
        /\ req[id].pc = "queued"
        /\ \A m \in 1..Len(queue) : queue[m] = TaskOf(id) => m = n

\* The pass that serves a request is still to read how far the events go, or
\* is about to apply the request's, or has applied it.
ServedInv ==
    pass["serial"].pc # "idle" => \A id \in Ids : \A i \in Nat :
        Head(queue) = TaskOf(id) /\ Unsynced(i, id) =>
            \/ pass["serial"].pc = "sync"
            \/ /\ pass["serial"].pc = "apply"
               /\ i <= pass["serial"].latest

\* Nothing has failed, and the epoch of a root that is to be sent is free.
CalmInv ==
    /\ faults = 0 /\ kills = 0
    /\ \A p \in Passes : pass[p].pc = "send" => pass[p].epoch = rootEpoch

LoneInv == CalmInv /\ EventsInv /\ TasksInv /\ ServedInv

GrowInv ==
    /\ Orderly
    /\ WaitInv
    /\ OrderInv
    /\ SyncInv
    /\ \A p \in Passes : Reads(pass[p])
    /\ RootInv
    /\ Undisturbed => LoneInv

\* How versions compare, Absent being the lowest.
LEMMA VersionOrder ==
    \A a, b, c \in MaybeVersion :
        /\ a <= a /\ Absent <= a
        /\ a < b => a <= b
        /\ a <= b => a < b + 1
        /\ a <= b /\ b <= c => a <= c
        /\ a <= b /\ b <= a => a = b
  BY VersionTypes, ServiceAssumption DEF MaybeVersion, Versions, Absent

\* A transaction gives its record the next version and its event comes last.
LEMMA OrderStep ==
    ASSUME Inv, OrderInv, [Next]_vars
    PROVE  OrderInv'
<1>c. ChainContinues
  BY ChainGrows DEF Inv
<1>n. Len(log) \in Nat /\ \A i \in 1..Len(log) : log'[i] = log[i]
  BY <1>c DEF ChainContinues
<1>1. CASE UNCHANGED chain
  BY <1>1 DEF OrderInv, chain, RecordAt, OnChain
<1>2. ASSUME NEW id \in Ids, NEW e, IssuesRecord(id, e)
      PROVE  OrderInv'
  <2>1. /\ Len(log') = Len(log) + 1 /\ log'[Len(log) + 1] = e
        /\ e.kind \in RecordKinds /\ e.id = id /\ e.ver = OnChain(id) + 1
        /\ e.kind # "RegisteredZK" => e.kind \in Kinds
        /\ OnChain(id)' = OnChain(id) + 1
        /\ \A x \in Ids \ {id} : OnChain(x)' = OnChain(x)
    BY <1>2 DEF IssuesRecord, Inv, ChainInv, Board!TypeOK
  <2>2. \A i \in 1..Len(log') : i \in 1..Len(log) \/ i = Len(log) + 1
    BY <1>n, <2>1
  <2>3. \A i \in 1..Len(log') :
            log'[i].kind \in {"UpdatedZK", "RecoveredZK"} => log'[i].kind \in Kinds
    BY <1>n, <2>1, <2>2 DEF OrderInv
  <2>4. ASSUME NEW x \in Ids, NEW i \in 1..Len(log'), NEW j \in 1..Len(log'),
               RecordAt(i, x)', RecordAt(j, x)', i < j
        PROVE  log'[i].ver < log'[j].ver
    <3>1. i \in 1..Len(log) /\ log'[i] = log[i] /\ RecordAt(i, x)
      BY <1>n, <2>1, <2>4 DEF RecordAt
    <3>2. CASE j \in 1..Len(log)
      BY <1>n, <2>4, <3>1, <3>2 DEF OrderInv, RecordAt
    <3>3. CASE j = Len(log) + 1
      <4>1. x = id
        BY <2>1, <2>4, <3>3 DEF RecordAt
      <4>2. log[i].ver \in Versions /\ log[i].ver <= OnChain(id)
        BY <3>1, <4>1, EventVersion DEF Inv
      <4>3. OnChain(id) \in MaybeVersion
        BY DEF Inv, ChainInv
      <4>4. log[i].ver < OnChain(id) + 1
        BY <4>2, <4>3, VersionOrder DEF MaybeVersion
      <4>5. log'[j].ver = OnChain(id) + 1 /\ log'[i].ver = log[i].ver
        BY <2>1, <3>1, <3>3
      <4> QED
        BY <4>4, <4>5
    <3> QED
      BY <2>2, <3>2, <3>3
  <2>5. ASSUME NEW x \in Ids, OnChain(x)' # Absent
        PROVE  \E i \in 1..Len(log') : RecordAt(i, x)' /\ log'[i].ver = OnChain(x)'
    <3>1. CASE x = id
      <4>1. Len(log) + 1 \in 1..Len(log')
        BY <1>n, <2>1
      <4> QED
        BY <2>1, <3>1, <4>1 DEF RecordAt
    <3>2. CASE x # id
      <4>1. PICK i \in 1..Len(log) : RecordAt(i, x) /\ log[i].ver = OnChain(x)
        BY <2>1, <2>5, <3>2 DEF OrderInv
      <4>2. i \in 1..Len(log')
        BY <1>n, <2>1
      <4> QED
        BY <1>n, <2>1, <3>2, <4>1, <4>2 DEF RecordAt
    <3> QED
      BY <3>1, <3>2
  <2> QED
    BY <2>3, <2>4, <2>5 DEF OrderInv
<1>3. ASSUME NEW p \in Passes, SendRoot(p)
      PROVE  OrderInv'
  <2>1. /\ log' = Append(log, Board!RootUpdated(tree, rootEpoch + 1, Service))
        /\ \A id \in Ids : OnChain(id)' = OnChain(id)
    BY <1>3, SendRootAnchors DEF Inv
  <2>2. /\ Len(log') = Len(log) + 1
        /\ log'[Len(log) + 1].kind = "RootUpdated"
    BY <2>1 DEF Inv, ChainInv, Board!TypeOK, Board!RootUpdated
  <2>3. \A i \in 1..Len(log') : i \in 1..Len(log) \/ i = Len(log) + 1
    BY <1>n, <2>2
  <2>4. \A i \in 1..Len(log') : \A id \in Ids :
            RecordAt(i, id)' => i \in 1..Len(log) /\ RecordAt(i, id)
    BY <1>n, <2>2, <2>3 DEF RecordAt, RecordKinds
  <2>5. 1..Len(log) \subseteq 1..Len(log')
    BY <1>n, <2>2
  <2>6. \A id \in Ids : OnChain(id)' # Absent =>
            \E i \in 1..Len(log') : RecordAt(i, id)' /\ log'[i].ver = OnChain(id)'
    BY <1>n, <2>1, <2>5 DEF OrderInv, RecordAt
  <2>7. \A i \in 1..Len(log') :
            log'[i].kind \in {"UpdatedZK", "RecoveredZK"} => log'[i].kind \in Kinds
    BY <1>n, <2>2, <2>3 DEF OrderInv
  <2>8. \A id \in Ids : \A i, j \in 1..Len(log') :
            RecordAt(i, id)' /\ RecordAt(j, id)' /\ i < j => log'[i].ver < log'[j].ver
    BY <1>n, <2>4 DEF OrderInv
  <2> QED
    BY <2>6, <2>7, <2>8 DEF OrderInv
<1>4. CASE UNCHANGED vars
  BY <1>1, <1>4 DEF vars, chain
<1>5. CASE \E id \in Ids : Submit(id)
  BY <1>2, <1>5, SubmitIssues DEF Inv, KnownInv
<1> QED
  BY <1>1, <1>3, <1>4, <1>5, ChainView

\* The events of an identity in the range are of one kind, registration aside.
Alike(id, from, to) ==
    \/ OneKind
    \/ \A j, n \in from..to : RecordAt(j, id) /\ RecordAt(n, id) => j = n

\* What is replayed for an identity is not older than its events in the range.
LEMMA ReplayedNewest ==
    ASSUME Inv, OrderInv, NEW m \in Leaves, NEW from \in Nat, NEW to \in Nat,
           from # 0, to <= Len(log), NEW id \in Ids, Alike(id, from, to),
           NEW i \in from..to, RecordAt(i, id)
    PROVE  log[i].ver <= Replayed(m, from, to)[id]
<1> DEFINE last(k) == {j \in from..to : log[j].kind = k /\ log[j].id = id}
           latest(k) == log[CHOOSE j \in last(k) : \A n \in last(k) : n <= j].ver
<1>0. from..to \subseteq 1..Len(log)
  BY DEF Inv, ChainInv, Board!TypeOK
<1>1. Replayed(m, from, to)[id] =
          IF last("RecoveredZK") # {} THEN latest("RecoveredZK")
          ELSE IF last("UpdatedZK") # {} THEN latest("UpdatedZK")
          ELSE IF last("RegisteredZK") # {} THEN 0
          ELSE m[id]
  BY DEF Replayed
<1>2. \A j \in from..to : RecordAt(j, id) => log[j].ver \in Nat
  BY <1>0, EventVersion, VersionTypes DEF Inv
<1>3. \A j \in last("RegisteredZK") : log[j].ver = 0
  <2>1. \A j \in from..to : log[j] \in Board!Event
    BY <1>0 DEF Inv, ChainInv, Board!TypeOK
  <2> QED
    BY <2>1 DEF Board!Event
<1>4. PICK k \in {"UpdatedZK", "RecoveredZK"} :
          \A x \in {"UpdatedZK", "RecoveredZK"} : last(x) # {} => x = k
  <2>1. CASE OneKind
    <3>1. PICK k \in {"UpdatedZK", "RecoveredZK"} : Kinds \subseteq {"RegisteredZK", k}
      BY <2>1 DEF OneKind
    <3>2. \A x \in {"UpdatedZK", "RecoveredZK"} : last(x) # {} => x = k
      BY <1>0, <3>1 DEF OrderInv
    <3> QED
      BY <3>2
  <2>2. CASE \A j \in from..to : RecordAt(j, id) => j = i
    <3>1. \A x \in {"UpdatedZK", "RecoveredZK"} : last(x) # {} => x = log[i].kind
      BY <2>2 DEF RecordAt, RecordKinds
    <3>2. CASE log[i].kind \in {"UpdatedZK", "RecoveredZK"}
      BY <3>1, <3>2
    <3>3. CASE log[i].kind \notin {"UpdatedZK", "RecoveredZK"}
      BY <3>1, <3>3
    <3> QED
      BY <3>2, <3>3
  <2> QED
    BY <2>1, <2>2 DEF Alike
<1>5. CASE last(k) # {}
  <2>1. last(k) \subseteq 0..to
    OBVIOUS
  <2>2. \E j \in last(k) : \A n \in last(k) : n <= j
    BY <1>5, <2>1, LastOne
  <2>3. PICK j \in last(k) : latest(k) = log[j].ver /\ \A n \in last(k) : n <= j
    <3> DEFINE c == CHOOSE j \in last(k) : \A n \in last(k) : n <= j
    <3>1. c \in last(k) /\ \A n \in last(k) : n <= c
      BY <2>2, Zenon
    <3>2. latest(k) = log[c].ver
      OBVIOUS
    <3> HIDE DEF c
    <3> QED
      BY <3>1, <3>2, Zenon
  <2>4. Replayed(m, from, to)[id] = log[j].ver
    <3> HIDE DEF last, latest
    <3>1. k = "UpdatedZK" => last("RecoveredZK") = {}
      BY <1>4
    <3> QED
      BY <1>1, <1>4, <1>5, <2>3, <3>1
  <2>5. RecordAt(j, id) /\ j \in from..to
    BY DEF RecordAt, RecordKinds
  <2>6. CASE i \in last("RegisteredZK")
    BY <1>2, <1>3, <2>4, <2>5, <2>6
  <2>7. CASE i \in last(k)
    <3>1. i <= j
      BY <2>3, <2>7
    <3>2. i < j => log[i].ver < log[j].ver
      BY <1>0, <2>5 DEF OrderInv
    <3> QED
      BY <1>2, <2>4, <2>5, <3>1, <3>2
  <2>8. i \in last("RegisteredZK") \/ i \in last(k)
    BY <1>4 DEF RecordAt, RecordKinds
  <2> QED
    BY <2>6, <2>7, <2>8
<1>6. CASE last(k) = {}
  <2>1. last("UpdatedZK") = {} /\ last("RecoveredZK") = {}
    <3> HIDE DEF last
    <3> QED
      BY <1>4, <1>6
  <2>2. i \in last("RegisteredZK")
    BY <2>1 DEF RecordAt, RecordKinds
  <2>3. Replayed(m, from, to)[id] = 0
    BY <1>1, <2>1, <2>2
  <2> QED
    BY <1>3, <2>2, <2>3
<1> QED
  BY <1>5, <1>6

-----------------------------------------------------------------------------
(* The steps of that invariant *)

\* The records have versions and an event for each; the root has leaves.
LEMMA ChainFacts ==
    ASSUME Inv
    PROVE  /\ Len(log) \in Nat /\ lastSynced \in Nat /\ lastSynced <= Len(log)
           /\ activeRoot \in Root
           /\ \A id \in Ids : /\ mirror[id] \in MaybeVersion /\ mirror[id] <= OnChain(id)
                              /\ tree[id] \in MaybeVersion /\ tree[id] <= OnChain(id)
                              /\ OnChain(id) \in MaybeVersion
                              /\ acked[id] \in MaybeVersion
           /\ activeRoot # NoRoot =>
                  \A id \in Ids : /\ activeRoot[id] \in MaybeVersion
                                  /\ activeRoot[id] <= OnChain(id)
<1>1. Len(log) \in Nat /\ lastSynced \in 0..Len(log)
  BY DEF Inv, ChainInv, CacheInv, Board!TypeOK
<1>2. activeRoot \in Root
  BY DEF Inv, ChainInv, Board!TypeOK, Root
<1>3. \A id \in Ids : /\ mirror[id] \in MaybeVersion /\ mirror[id] <= OnChain(id)
                      /\ tree[id] \in MaybeVersion /\ tree[id] <= OnChain(id)
                      /\ OnChain(id) \in MaybeVersion
                      /\ acked[id] \in MaybeVersion
  BY DEF Inv, ChainInv, KnownInv, CacheInv, Issued, Leaves, MaybeVersion
<1>4. activeRoot # NoRoot =>
          \A id \in Ids : activeRoot[id] \in MaybeVersion /\ activeRoot[id] <= OnChain(id)
  BY <1>2 DEF Inv, ChainInv, Issued, Root, Leaves, MaybeVersion
<1> QED
  BY <1>1, <1>2, <1>3, <1>4

\* After a pass has applied its events the mirror has what the synced events
\* say and is not behind the active root.
LEMMA AppliedNewest ==
    ASSUME Inv, AloneInv, GrowInv, NEW p \in Passes, ApplyEvents(p), NEW id \in Ids
    PROVE  /\ Newest(mirror'[id], id, lastSynced')
           /\ activeRoot # NoRoot => activeRoot[id] <= mirror'[id]
<1> DEFINE from == pass[p].from
           to == pass[p].latest
<1>1. /\ mirror' = Replayed(mirror, from, to)
      /\ lastSynced' = IF from <= to \/ pass[p].full THEN to ELSE lastSynced
      /\ pass[p].pc = "apply"
  BY DEF ApplyEvents
<1>2. /\ from = lastSynced + 1 /\ lastSynced <= to
      /\ activeRoot # NoRoot => Covered(activeRoot, to)
  BY <1>1 DEF GrowInv, Reads
<1>3. /\ from \in Nat /\ from # 0 /\ to \in Nat /\ to <= Len(log)
      /\ mirror \in Leaves
  BY <1>1, PassFacts DEF Inv, KnownInv
<1>n. Len(log) \in Nat /\ lastSynced \in Nat
  BY ChainFacts
<1>f. mirror'[id] \in MaybeVersion
  BY AppliedIssued DEF Leaves, MaybeVersion
<1>s. lastSynced' <= to /\ to <= lastSynced' /\ lastSynced' \in Nat
  <2>1. lastSynced' = to \/ (lastSynced' = lastSynced /\ ~(from <= to))
    BY <1>1
  <2> HIDE DEF from, to
  <2> QED
    BY <1>2, <1>3, <1>n, <2>1
<1> HIDE DEF from, to
<1>a. Alike(id, from, to)
  <2>1. \A j \in from..to : RecordAt(j, id) => j \in Nat /\ Unsynced(j, id)
    BY <1>2, <1>3, <1>n DEF Unsynced
  <2> QED
    BY <2>1 DEF Alike, GrowInv, Orderly, LoneInv, EventsInv
<1>4. \A i \in from..to : RecordAt(i, id) => log[i].ver <= mirror'[id]
  BY <1>1, <1>3, <1>a, ReplayedNewest DEF GrowInv
<1>5. ASSUME NEW i \in 1..to, RecordAt(i, id)
      PROVE  log[i].ver <= mirror'[id]
  <2>0. i \in 1..Len(log) /\ log[i].ver \in MaybeVersion
    <3>1. i \in 1..Len(log)
      BY <1>3, <1>n
    <3> QED
      BY <1>5, <3>1, EventVersion DEF Inv, MaybeVersion
  <2>1. CASE i \in from..to
    BY <1>4, <1>5, <2>1
  <2>2. CASE i \in 1..lastSynced
    <3>1. log[i].ver <= mirror[id]
      BY <1>5, <2>2 DEF GrowInv, SyncInv, Newest
    <3>2. CASE mirror'[id] = mirror[id]
      BY <3>1, <3>2
    <3>3. CASE \E j \in from..to : RecordAt(j, id) /\ mirror'[id] = log[j].ver
      <4>1. PICK j \in from..to : RecordAt(j, id) /\ mirror'[id] = log[j].ver
        BY <3>3
      <4>2. j \in 1..Len(log) /\ i < j
        BY <1>2, <1>3, <1>n, <2>2
      <4>3. log[i].ver < log[j].ver
        BY <1>5, <2>0, <4>1, <4>2 DEF GrowInv, OrderInv
      <4> QED
        BY <1>f, <2>0, <4>1, <4>3, VersionOrder
    <3> QED
      BY <1>1, <1>3, <3>2, <3>3, ReplayedEntry DEF Inv, ChainInv
  <2> QED
    BY <1>2, <1>3, <1>n, <2>1, <2>2
<1>6. Newest(mirror'[id], id, lastSynced')
  BY <1>3, <1>5, <1>s DEF Newest
<1>7. ASSUME activeRoot # NoRoot
      PROVE  activeRoot[id] <= mirror'[id]
  <2>1. activeRoot[id] \in MaybeVersion
    BY <1>7, ChainFacts
  <2>2. CASE activeRoot[id] = Absent
    BY <1>f, <2>2, VersionOrder
  <2>3. CASE \E i \in 1..to : RecordAt(i, id) /\ activeRoot[id] <= log[i].ver
    <3>1. PICK i \in 1..to : RecordAt(i, id) /\ activeRoot[id] <= log[i].ver
      BY <2>3
    <3>2. log[i].ver <= mirror'[id]
      BY <1>5, <3>1
    <3>3. i \in 1..Len(log)
      BY <1>3, <1>n
    <3>4. log[i].ver \in MaybeVersion
      BY <3>1, <3>3, EventVersion DEF Inv, MaybeVersion
    <3> QED
      BY <1>f, <2>1, <3>1, <3>2, <3>4, VersionOrder
  <2> QED
    BY <1>2, <1>7, <2>2, <2>3 DEF Covered
<1> QED
  BY <1>6, <1>7

\* An old version stays the newest up to a position the log had.
LEMMA NewestStays ==
    ASSUME ChainContinues, NEW v, NEW id \in Ids, NEW n \in Nat, n <= Len(log),
           Newest(v, id, n)
    PROVE  Newest(v, id, n)'
<1>1. \A i \in 1..n : log'[i] = log[i]
  BY DEF ChainContinues
<1> QED
  BY <1>1 DEF Newest, RecordAt

LEMMA CoveredStays ==
    ASSUME ChainContinues, NEW l, NEW n \in Nat, n <= Len(log), Covered(l, n)
    PROVE  Covered(l, n)'
<1>1. \A i \in 1..n : log'[i] = log[i]
  BY DEF ChainContinues
<1> QED
  BY <1>1 DEF Covered, RecordAt

\* A record's version is at least that of each of its events.
LEMMA RecordNewest ==
    ASSUME Inv, NEW id \in Ids, NEW n \in Nat, n <= Len(log)
    PROVE  Newest(OnChain(id), id, n)
<1>1. \A i \in 1..n : i \in 1..Len(log)
  BY ChainFacts
<1> QED
  BY <1>1, EventVersion DEF Newest, Inv

\* How a pass comes to apply events or to patch a record.
LEMMA ReadsView ==
    ASSUME Inv, AloneInv, Next, NEW p \in Passes, pass'[p].pc \in {"apply", "patch"}
    PROVE  \/ ReadLatest(p)
           \/ ReadRecord(p)
           \/ /\ pass'[p] = pass[p]
              /\ UNCHANGED <<lastSynced, tree, activeRoot>>
<1>t. pass \in [Passes -> PassType] /\ Alone /\ TurnInv /\ pass[p] \in PassType
  BY DEF Inv, PassInv, AloneInv
<1>1. ASSUME NEW r \in Passes, PassStep(r)
      PROVE  r = p /\ (ReadLatest(r) \/ ReadRecord(r))
  <2>1. r = p
    <3>1. CASE r # p
      <4>1. pass[r].pc # "idle" /\ pass'[p] = pass[p]
        BY <1>t, <1>1, <3>1 DEF PassStep, ReadLatest, ApplyEvents, ReadRecord,
           PatchRecord, ReadRoot, ReadEpoch, SendRoot, Receipt, Claim
      <4>2. pass[p].pc = "idle"
        BY <1>t, <3>1, <4>1, OneRuns
      <4> QED
        BY <4>1, <4>2
    <3> QED
      BY <3>1
  <2>2. ~ApplyEvents(r)
    BY <1>t, <2>1 DEF ApplyEvents, PassType
  <2>3. ~PatchRecord(r)
    BY <1>t, <2>1 DEF PatchRecord, PassType
  <2>4. ~ReadRoot(r)
    BY <1>t, <2>1 DEF ReadRoot, PassType
  <2>5. ~ReadEpoch(r)
    BY <1>t, <2>1 DEF ReadEpoch, PassType
  <2>6. ~SendRoot(r) /\ ~Receipt(r)
    BY <1>t, <2>1 DEF SendRoot, Receipt, PassType
  <2>7. ~Claim(r)
    BY <1>t, <2>1 DEF Claim, PassType
  <2> QED
    BY <1>1, <2>1, <2>2, <2>3, <2>4, <2>5, <2>6, <2>7 DEF PassStep
<1>i. IdlePass.pc = "idle" /\ BootPass.pc = "sync"
  BY DEF IdlePass, BootPass
<1>2. CASE FinishWorker
  <2>1. pass' = [pass EXCEPT !["worker"] = IdlePass]
    BY <1>2, <1>t DEF FinishWorker, TurnInv
  <2> QED
    BY <1>2, <1>i, <1>t, <2>1 DEF FinishWorker, Conclude, chain
<1>3. CASE FinishSerial
  BY <1>3, <1>i, <1>t DEF FinishSerial, Conclude, chain
<1>4. CASE SerialThrows
  BY <1>4, <1>i, <1>t DEF SerialThrows, chain, caches
<1>5. CASE StartSerial
  <2>1. PICK pc \in {"refresh", "sync"} :
            pass' = [pass EXCEPT !["serial"] =
                [IdlePass EXCEPT !.ids = {Head(queue).id},
                     !.kind = Head(queue).kind, !.pc = pc]]
    BY <1>5 DEF StartSerial
  <2>2. pass'["serial"].pc \in {"refresh", "sync"}
    BY <1>t, <2>1 DEF Passes, IdlePass
  <2>3. p = "worker" /\ pass'[p] = pass[p]
    BY <1>t, <2>1, <2>2 DEF Passes
  <2> QED
    BY <1>5, <2>3 DEF StartSerial, chain
<1>6. CASE Boot
  BY <1>6, <1>i DEF Boot, Passes
<1>7. ASSUME NEW id \in Ids, \/ Submit(id) \/ Settle(id) \/ LateSettle(id) \/ SettleFails(id)
                             \/ Reregister(id) \/ CatchReads(id) \/ CatchPatches(id)
                             \/ Get(id)
      PROVE  pass'[p] = pass[p] /\ UNCHANGED <<lastSynced, tree, activeRoot>>
  <2>1. UNCHANGED <<pass, lastSynced, tree>>
    BY <1>7 DEF Submit, Settle, LateSettle, SettleFails, Reregister, CatchReads,
       CatchPatches, Get, caches
  <2>2. UNCHANGED activeRoot
    <3>1. CASE Submit(id)
      BY <3>1, SubmitIssues DEF Inv, KnownInv, IssuesRecord
    <3>2. CASE ~Submit(id)
      BY <1>7, <3>2 DEF Settle, LateSettle, SettleFails, Reregister, CatchReads,
         CatchPatches, Get, chain
    <3> QED
      BY <3>1, <3>2
  <2> QED
    BY <2>1, <2>2
<1> QED
  BY <1>1, <1>2, <1>3, <1>4, <1>5, <1>6, <1>7, <1>t, AloneView

\* What passes have read after a step.
LEMMA ReadsStep ==
    ASSUME Inv, AloneInv, GrowInv, Next, NEW p \in Passes
    PROVE  Reads(pass[p])'
<1>c. ChainContinues
  BY ChainGrows DEF Inv
<1>t. pass \in [Passes -> PassType] /\ pass[p] \in PassType
  BY DEF Inv, PassInv
<1>f. /\ Len(log) \in Nat /\ lastSynced \in Nat /\ lastSynced <= Len(log)
      /\ pass[p].latest \in Nat /\ pass[p].latest <= Len(log)
  BY ChainFacts, PassFacts
<1>1. CASE ReadLatest(p)
  <2>1. /\ pass'[p].pc = "apply" /\ pass'[p].latest = Len(log)
        /\ pass'[p].from = IF pass[p].full THEN 1 ELSE lastSynced + 1
        /\ pass[p].pc = "sync"
        /\ UNCHANGED <<log, records, activeRoot, lastSynced>>
    BY <1>1, <1>t DEF ReadLatest, PassType, chain
  <2>2. pass[p].full => p = "worker"
    BY <2>1 DEF AloneInv, TurnInv, Passes
  <2>3. pass'[p].from = lastSynced + 1
    BY <2>1, <2>2 DEF GrowInv, SyncInv
  <2>4. ASSUME activeRoot # NoRoot
        PROVE  Covered(activeRoot, Len(log))
    <3> SUFFICES ASSUME NEW id \in Ids, activeRoot[id] # Absent
                 PROVE  \E i \in 1..Len(log) : RecordAt(i, id) /\ activeRoot[id] <= log[i].ver
      BY DEF Covered
    <3>1. /\ activeRoot[id] \in MaybeVersion /\ OnChain(id) \in MaybeVersion
          /\ activeRoot[id] <= OnChain(id)
      BY <2>4, ChainFacts
    <3>2. OnChain(id) # Absent
      <4>1. Absent <= activeRoot[id]
        BY <3>1, VersionOrder
      <4>2. Absent \in MaybeVersion
        BY DEF MaybeVersion
      <4> QED
        BY <3>1, <4>1, <4>2, VersionOrder
    <3> QED
      BY <3>1, <3>2 DEF GrowInv, OrderInv
  <2>5. ASSUME activeRoot # NoRoot
        PROVE  Covered(activeRoot, pass[p].latest)'
    <3> DEFINE l == activeRoot
               n == Len(log)
    <3>1. Covered(l, n) /\ l = activeRoot' /\ n = pass'[p].latest
      BY <2>1, <2>4, <2>5
    <3> HIDE DEF l, n
    <3> QED
      BY <2>1, <3>1 DEF Covered, RecordAt
  <2>6. lastSynced' = lastSynced /\ lastSynced <= pass'[p].latest
    BY <1>f, <2>1
  <2> QED
    BY <2>1, <2>3, <2>5, <2>6 DEF Reads
<1>2. CASE ReadRecord(p)
  <2>1. PICK id \in Ids : pass[p].ids = {id}
    BY <1>2 DEF ReadRecord, Inv, PassInv, PassFits
  <2>2. (CHOOSE x \in pass[p].ids : TRUE) = id
    BY <2>1
  <2>3. PICK v : v = OnChain(id) /\ pass' = [pass EXCEPT ![p].pc = "patch", ![p].ver = v]
    BY <1>2, <2>2 DEF ReadRecord
  <2>4. /\ pass'[p].pc = "patch" /\ pass'[p].ver = OnChain(id) /\ pass'[p].ids = {id}
        /\ UNCHANGED <<tree, lastSynced, log>>
    BY <1>2, <1>t, <2>1, <2>3 DEF ReadRecord, PassType, chain, caches
  <2>5. tree[id] <= OnChain(id) /\ Newest(OnChain(id), id, lastSynced)
    BY <1>f, ChainFacts, RecordNewest
  <2> QED
    BY <2>4, <2>5 DEF Reads, Newest, RecordAt
<1>3. CASE pass'[p] = pass[p] /\ UNCHANGED <<lastSynced, tree, activeRoot>>
  <2>1. Reads(pass[p])
    BY DEF GrowInv
  <2>2. ASSUME pass[p].pc = "apply", activeRoot # NoRoot
        PROVE  Covered(activeRoot, pass[p].latest)'
    <3>1. Covered(activeRoot, pass[p].latest)
      BY <2>1, <2>2 DEF Reads
    <3> DEFINE l == activeRoot
               n == pass[p].latest
    <3>2. Covered(l, n) /\ n \in Nat /\ n <= Len(log) /\ l = activeRoot' /\ n = pass'[p].latest
      BY <1>3, <1>f, <3>1
    <3> HIDE DEF l, n
    <3>3. \A i \in 1..n : log'[i] = log[i]
      BY <1>c, <3>2 DEF ChainContinues
    <3> QED
      BY <3>2, <3>3 DEF Covered, RecordAt
  <2>3. ASSUME pass[p].pc = "patch", NEW id \in pass[p].ids
        PROVE  tree'[id] <= pass'[p].ver /\ Newest(pass[p].ver, id, lastSynced)'
    <3>1. Newest(pass[p].ver, id, lastSynced) /\ tree[id] <= pass[p].ver
      BY <2>1, <2>3 DEF Reads
    <3>2. \A i \in 1..lastSynced : log'[i] = log[i]
      BY <1>c, <1>f DEF ChainContinues
    <3> QED
      BY <1>3, <3>1, <3>2 DEF Newest, RecordAt
  <2> QED
    BY <1>3, <2>1, <2>2, <2>3 DEF Reads
<1>4. CASE pass'[p].pc \notin {"apply", "patch"}
  BY <1>4 DEF Reads
<1> QED
  BY <1>1, <1>2, <1>3, <1>4, ReadsView

\* Clients that wait have nothing settled late and one change under way.
LEMMA WaitStep ==
    ASSUME Inv, WaitInv, [Next]_vars
    PROVE  /\ WaitInv'
           /\ \A id \in Ids : /\ ~LateSettle(id)
                              /\ SettleFails(id) => req' = [req EXCEPT ![id] = Failed(@)]
                              /\ Submit(id) => req[id].pc = "none"
<1>1. \A id \in Ids : /\ ~LateSettle(id)
                      /\ SettleFails(id) => /\ req' = [req EXCEPT ![id] = Failed(@)]
                                            /\ UNCHANGED late
  BY DEF WaitInv, LateSettle, SettleFails
<1>2. ASSUME NEW id \in Ids, Submit(id)
      PROVE  req[id].pc = "none" /\ UNCHANGED late
  BY <1>2 DEF WaitInv, Awaited, Submit
<1>3. Boot => \A id \in Ids : late'[id] = {}
  BY DEF Boot
<1>4. CASE Next
  BY <1>1, <1>2, <1>3, <1>4, LateView DEF WaitInv, Awaited
<1>5. CASE UNCHANGED vars
  BY <1>1, <1>2, <1>5 DEF WaitInv, Awaited, vars, control
<1> QED
  BY <1>1, <1>2, <1>4, <1>5

\* Which steps change the synced position or the requests' versions.
LEMMA SyncedView ==
    ASSUME Next
    PROVE  \/ UNCHANGED lastSynced
           \/ Boot
           \/ \E p \in Passes : ApplyEvents(p)
<1> USE DEF Passes
<1>1. ASSUME NEW p \in Passes, PassStep(p)
      PROVE  UNCHANGED lastSynced \/ ApplyEvents(p)
  BY <1>1 DEF PassStep, ReadLatest, ReadRecord, PatchRecord, ReadRoot, ReadEpoch, SendRoot,
     Receipt, Claim, caches
<1>2. CASE Serial
  BY <1>1, <1>2 DEF Serial, FinishSerial, SerialThrows, StartSerial, Conclude, caches
<1>3. CASE Worker
  BY <1>1, <1>3 DEF Worker, FinishWorker, WorkerThrows, Conclude
<1> QED
  BY <1>2, <1>3 DEF Next, Kill, TimerReads, TimerActs, RecomputeRoot, Hear, Submit, Settle,
     LateSettle, SettleFails, Reregister, CatchReads, CatchPatches, Get, caches

\* The mirror after a step.
LEMMA NewestStep ==
    ASSUME Inv, AloneInv, GrowInv, Next, NEW id \in Ids
    PROVE  Newest(mirror[id], id, lastSynced)'
<1>c. ChainContinues
  BY ChainGrows DEF Inv
<1>f. Len(log) \in Nat /\ lastSynced \in Nat /\ lastSynced <= Len(log)
  BY ChainFacts
<1>n. Newest(mirror[id], id, lastSynced)
  BY DEF GrowInv, SyncInv
<1>l. \A i \in 1..lastSynced : log'[i] = log[i]
  BY <1>c, <1>f DEF ChainContinues
<1>1. CASE Boot
  BY <1>1 DEF Boot, Newest
<1>2. ASSUME NEW p \in Passes, ApplyEvents(p)
      PROVE  Newest(mirror[id], id, lastSynced)'
  <2>1. Newest(mirror'[id], id, lastSynced') /\ UNCHANGED log
    BY <1>2, AppliedNewest DEF ApplyEvents, chain
  <2> QED
    BY <2>1 DEF Newest, RecordAt
<1>3. CASE UNCHANGED lastSynced
  <2>1. SUFFICES Newest(mirror'[id], id, lastSynced)
    BY <1>3, <1>l, <2>1 DEF Newest, RecordAt
  <2>2. CASE UNCHANGED mirror
    BY <1>n, <2>2
  <2>3. ASSUME NEW p \in Passes, ReadLatest(p)
        PROVE  Newest(mirror'[id], id, lastSynced)
    <3>1. CASE ~pass[p].full
      BY <1>n, <2>3, <3>1 DEF ReadLatest
    <3>2. CASE pass[p].full
      <4>1. pass[p].pc = "sync" /\ p = "worker"
        BY <2>3, <3>2 DEF ReadLatest, AloneInv, TurnInv, Passes
      <4>2. lastSynced = 0
        BY <4>1 DEF GrowInv, SyncInv
      <4> QED
        BY <4>2 DEF Newest
    <3> QED
      BY <3>1, <3>2
  <2>4. ASSUME NEW p \in Passes, PatchRecord(p)
        PROVE  Newest(mirror'[id], id, lastSynced)
    <3>1. mirror'[id] = IF id \in pass[p].ids THEN pass[p].ver ELSE mirror[id]
      BY <2>4 DEF PatchRecord
    <3>2. id \in pass[p].ids => Newest(pass[p].ver, id, lastSynced)
      BY <2>4 DEF PatchRecord, GrowInv, Reads
    <3> QED
      BY <1>n, <3>1, <3>2
  <2>5. ASSUME NEW x \in Ids, Settle(x) \/ CatchPatches(x)
        PROVE  Newest(mirror'[id], id, lastSynced)
    <3>1. mirror'[id] = IF id = x THEN req[x].ver ELSE mirror[id]
      BY <2>5 DEF Settle, CatchPatches, Inv, KnownInv, Leaves
    <3>2. req[x].ver = OnChain(x)
      BY <2>5 DEF Settle, CatchPatches, GrowInv, SyncInv, Writes
    <3>3. Newest(OnChain(id), id, lastSynced)
      BY <1>f, RecordNewest
    <3> QED
      BY <1>n, <3>1, <3>2, <3>3
  <2>6. \A k \in RecordKinds : ~Hear(k)
    BY NothingBeside DEF AloneInv
  <2>7. CASE Boot
    <3>1. lastSynced = 0
      BY <1>3, <2>7 DEF Boot
    <3> QED
      BY <3>1 DEF Newest
  <2>8. ASSUME NEW p \in Passes, ApplyEvents(p)
        PROVE  Newest(mirror'[id], id, lastSynced)
    BY <1>3, <2>8, AppliedNewest
  <2>9. \A x \in Ids : ~LateSettle(x)
    BY WaitStep DEF GrowInv
  <2> QED
    BY <2>2, <2>3, <2>4, <2>5, <2>6, <2>7, <2>8, <2>9, MirrorView
<1> QED
  BY <1>1, <1>2, <1>3, SyncedView

\* The requests after a step: only their own transactions change the records.
LEMMA RequestsFollow ==
    ASSUME Inv, GrowInv, [Next]_vars, NEW id \in Ids, Writes(req'[id])
    PROVE  req'[id].ver = OnChain(id)'
<1>r. /\ req \in [Ids -> Request]
      /\ Writes(req[id]) => req[id].ver = OnChain(id)
      /\ req[id] \in Request
  BY DEF Inv, KnownInv, GrowInv, SyncInv
<1>1. ASSUME NEW x \in Ids, Submit(x)
      PROVE  req'[id].ver = OnChain(id)'
  <2>1. PICK again : req' = [req EXCEPT ![x] = [pc |-> "mined", ver |-> OnChain(x) + 1,
                                               again |-> again]]
    <3>1. FALSE \notin Waits
      BY DEF GrowInv, WaitInv, Awaited
    <3> QED
      BY <1>1, <3>1, SubmitIssues DEF Inv, Asks
  <2>2. /\ OnChain(x)' = OnChain(x) + 1
        /\ \A y \in Ids \ {x} : OnChain(y)' = OnChain(y)
    <3>1. PICK e : IssuesRecord(x, e)
      BY <1>1, SubmitIssues DEF Inv
    <3> QED
      BY <1>1, <3>1, SubmitIssues DEF Inv, IssuesRecord
  <2>3. CASE id = x
    BY <1>r, <2>1, <2>2, <2>3
  <2>4. CASE id # x
    BY <1>r, <2>1, <2>2, <2>4
  <2> QED
    BY <2>3, <2>4
<1>2. ASSUME ~ \E x \in Ids : Submit(x)
      PROVE  req'[id].ver = OnChain(id)'
  <2>1. OnChain(id)' = OnChain(id)
    <3>1. CASE UNCHANGED chain
      BY <3>1 DEF chain, OnChain
    <3>2. CASE \E p \in Passes : SendRoot(p)
      BY <3>2, SendRootAnchors DEF Inv
    <3>3. CASE UNCHANGED vars
      BY <3>1, <3>3 DEF vars
    <3> QED
      BY <1>2, <3>1, <3>2, <3>3, ChainView
  <2>2. /\ req'[id].ver = req[id].ver /\ Writes(req[id])
        \/ req'[id].ver = OnChain(id)
    <3>f. ~Writes(NoReq) /\ \A r : ~Writes(Failed(r))
      BY DEF Writes, NoReq, Failed
    <3>1. CASE UNCHANGED req
      BY <3>1
    <3>2. CASE Boot
      BY <3>2, <3>f DEF Boot
    <3>3. CASE FinishSerial
      <4>1. PICK x : req' = req \/ req' = [req EXCEPT ![x] = NoReq]
        BY <3>3 DEF FinishSerial
      <4> QED
        BY <1>r, <3>f, <4>1
    <3>4. ASSUME NEW x, \/ req' = req
                        \/ req' = [req EXCEPT ![x] = Failed(@)]
          PROVE  req'[id].ver = req[id].ver /\ Writes(req[id])
      BY <1>r, <3>f, <3>4
    <3>5. CASE SerialThrows \/ \E x \in Ids : SettleFails(x)
      BY <3>4, <3>5, WaitStep DEF SerialThrows, GrowInv
    <3>6. ASSUME NEW x \in Ids, Settle(x) \/ CatchPatches(x)
          PROVE  req'[id].ver = req[id].ver /\ Writes(req[id])
      BY <1>r, <3>6 DEF Settle, CatchPatches, Writes, Request
    <3>7. ASSUME NEW x \in Ids, Reregister(x) \/ CatchReads(x)
          PROVE  \/ req'[id].ver = req[id].ver /\ Writes(req[id])
                 \/ req'[id].ver = OnChain(id)
      <4>1. CASE x = id
        <5>1. \/ req' = [req EXCEPT ![id] = NoReq]
              \/ req' = [req EXCEPT ![id].pc = "fetched", ![id].ver = OnChain(id)]
          BY <3>7, <4>1 DEF Reregister, CatchReads
        <5>2. CASE req' = [req EXCEPT ![id] = NoReq]
          BY <1>r, <3>f, <5>2
        <5>3. CASE req' = [req EXCEPT ![id].pc = "fetched", ![id].ver = OnChain(id)]
          BY <1>r, <5>3 DEF Request
        <5> QED
          BY <5>1, <5>2, <5>3
      <4>2. CASE x # id
        BY <1>r, <3>7, <4>2 DEF Reregister, CatchReads
      <4> QED
        BY <4>1, <4>2
    <3>8. CASE UNCHANGED vars
      BY <3>8 DEF vars, control
    <3> QED
      BY <1>2, <3>1, <3>2, <3>3, <3>5, <3>6, <3>7, <3>8, RequestView
  <2> QED
    BY <1>r, <2>1, <2>2
<1> QED
  BY <1>1, <1>2

\* The worker's first pass: what it has not applied is all there is.
LEMMA WorkerView ==
    ASSUME Inv, AloneInv, Next
    PROVE  \/ Boot
           \/ ApplyEvents("worker") /\ pass'["worker"].pc = "readRoot"
           \/ /\ pass'["worker"].pc \in {"sync", "apply"} <=> pass["worker"].pc \in {"sync", "apply"}
              /\ pass'["worker"].pc \in {"refresh", "patch"} =>
                     pass["worker"].pc \in {"refresh", "patch"}
<1>t. /\ pass \in [Passes -> PassType] /\ Alone /\ TurnInv
      /\ "worker" \in Passes /\ "serial" \in Passes /\ pass["worker"] \in PassType
  BY DEF Inv, PassInv, AloneInv, Passes
<1> DEFINE w == pass["worker"].pc
<1>1. ASSUME NEW p \in Passes, PassStep(p), ~ApplyEvents(p)
      PROVE  /\ w' \in {"sync", "apply"} <=> w \in {"sync", "apply"}
             /\ w' \in {"refresh", "patch"} => w \in {"refresh", "patch"}
  <2>1. CASE p = "serial"
    <3>1. UNCHANGED w
      BY <1>t, <1>1, <2>1 DEF PassStep, ReadLatest, ReadRecord, PatchRecord, ReadRoot,
         ReadEpoch, SendRoot, Receipt, Claim
    <3> QED
      BY <3>1
  <2>2. CASE p = "worker"
    <3> USE <1>t, <2>2
    <3>1. CASE ReadLatest(p)
      BY <3>1 DEF ReadLatest, PassType
    <3>2. CASE ReadRecord(p)
      <4>1. PICK v : pass' = [pass EXCEPT ![p].pc = "patch", ![p].ver = v]
        BY <3>2 DEF ReadRecord
      <4> QED
        BY <3>2, <4>1 DEF ReadRecord, PassType
    <3>3. CASE PatchRecord(p)
      BY <3>3 DEF PatchRecord, PassType
    <3>4. CASE ReadRoot(p)
      BY <3>4 DEF ReadRoot, PassType
    <3>5. CASE ReadEpoch(p)
      BY <3>5 DEF ReadEpoch, PassType
    <3>6. CASE SendRoot(p) \/ Receipt(p)
      BY <3>6 DEF SendRoot, Receipt, PassType
    <3>7. CASE Claim(p)
      BY <3>7 DEF Claim, PassType
    <3> QED
      BY <1>1, <3>1, <3>2, <3>3, <3>4, <3>5, <3>6, <3>7 DEF PassStep
  <2> QED
    BY <2>1, <2>2 DEF Passes
<1>2. ASSUME ApplyEvents("worker")
      PROVE  pass'["worker"].pc = "readRoot"
  BY <1>t, <1>2 DEF ApplyEvents, PassType
<1>3. ASSUME ApplyEvents("serial")
      PROVE  UNCHANGED w
  BY <1>t, <1>3 DEF ApplyEvents
<1>4. CASE FinishWorker
  <2>1. pass' = [pass EXCEPT !["worker"] = IdlePass] /\ w = "finish"
    BY <1>4, <1>t DEF FinishWorker, TurnInv
  <2>2. w' = "idle"
    BY <1>t, <2>1 DEF IdlePass
  <2> QED
    BY <2>1, <2>2
<1>5. CASE FinishSerial \/ SerialThrows \/ StartSerial
  <2>1. UNCHANGED w
    BY <1>t, <1>5 DEF FinishSerial, SerialThrows, StartSerial
  <2> QED
    BY <2>1
<1>6. ASSUME NEW id \in Ids, \/ Submit(id) \/ Settle(id) \/ LateSettle(id) \/ SettleFails(id)
                             \/ Reregister(id) \/ CatchReads(id) \/ CatchPatches(id)
                             \/ Get(id)
      PROVE  UNCHANGED w
  BY <1>6 DEF Submit, Settle, LateSettle, SettleFails, Reregister, CatchReads,
     CatchPatches, Get
<1> HIDE DEF w
<1>7. CASE \E p \in Passes : PassStep(p)
  <2>1. PICK p \in Passes : PassStep(p)
    BY <1>7
  <2>2. p = "worker" \/ p = "serial"
    BY DEF Passes
  <2> QED
    BY <1>1, <1>2, <1>3, <2>1, <2>2 DEF w
<1>8. CASE \E id \in Ids : \/ Submit(id) \/ Settle(id) \/ LateSettle(id) \/ SettleFails(id)
                          \/ Reregister(id) \/ CatchReads(id) \/ CatchPatches(id)
                          \/ Get(id)
  <2>1. UNCHANGED w
    BY <1>6, <1>8
  <2> QED
    BY <2>1 DEF w
<1> QED
  BY <1>4, <1>5, <1>7, <1>8, <1>t, AloneView DEF w

LEMMA SyncStep ==
    ASSUME Inv, AloneInv, GrowInv, Next
    PROVE  SyncInv'
<1>1. \A id \in Ids : Newest(mirror[id], id, lastSynced)'
  BY NewestStep
<1>2. \A id \in Ids : Writes(req[id])' => req'[id].ver = OnChain(id)'
  BY RequestsFollow DEF Writes
<1>3. CASE Boot
  <2>1. lastSynced' = 0 /\ pass'["worker"].pc = "sync"
    BY <1>3 DEF Boot, Passes, BootPass, IdlePass
  <2> QED
    BY <1>1, <1>2, <2>1 DEF SyncInv
<1>4. CASE pass'["worker"].pc = "readRoot"
  BY <1>1, <1>2, <1>4 DEF SyncInv
<1>5. ASSUME pass'["worker"].pc \in {"sync", "apply"} <=> pass["worker"].pc \in {"sync", "apply"},
             pass'["worker"].pc \in {"refresh", "patch"} =>
                 pass["worker"].pc \in {"refresh", "patch"},
             ~Boot
      PROVE  SyncInv'
  <2>1. pass'["worker"].pc \notin {"refresh", "patch"}
    BY <1>5 DEF GrowInv, SyncInv
  <2>2. ASSUME pass'["worker"].pc \in {"sync", "apply"}
        PROVE  lastSynced' = 0
    <3>1. lastSynced = 0
      BY <1>5, <2>2 DEF GrowInv, SyncInv
    <3>2. \A p \in Passes : ~ApplyEvents(p)
      <4> SUFFICES ASSUME NEW p \in Passes, ApplyEvents(p) PROVE FALSE
        OBVIOUS
      <4>1. pass \in [Passes -> PassType] /\ pass[p].pc = "apply"
        BY DEF ApplyEvents, Inv, PassInv
      <4>2. p = "worker"
        <5>1. p # "worker" => pass["worker"].pc = "idle"
          BY <4>1, OneRuns DEF AloneInv, Passes
        <5> QED
          BY <1>5, <2>2, <5>1
      <4>3. pass'["worker"].pc = "readRoot"
        BY <4>1, <4>2 DEF ApplyEvents, PassType
      <4> QED
        BY <2>2, <4>3
    <3> QED
      BY <1>5, <3>1, <3>2, SyncedView
  <2> QED
    BY <1>1, <1>2, <2>1, <2>2 DEF SyncInv
<1> QED
  BY <1>3, <1>4, <1>5, WorkerView

\* The tree after a step is not behind the active root.
LEMMA TreeNotBehind ==
    ASSUME Inv, AloneInv, GrowInv, Next, UNCHANGED activeRoot, activeRoot # NoRoot,
           pass'["worker"].pc \notin {"sync", "apply"}, NEW id \in Ids
    PROVE  activeRoot[id] <= tree'[id]
<1>1. \/ ApplyEvents("worker")
      \/ pass["worker"].pc \notin {"sync", "apply"} /\ ~Boot
  <2>1. Boot => pass'["worker"].pc = "sync"
    BY DEF Boot, Passes, BootPass, IdlePass
  <2> QED
    BY <2>1, WorkerView
<1>2. pass["worker"].pc \notin {"sync", "apply"} => activeRoot[id] <= tree[id]
  BY DEF GrowInv, RootInv
<1>3. ASSUME NEW p \in Passes, ApplyEvents(p)
      PROVE  activeRoot[id] <= tree'[id]
  <2>1. activeRoot[id] <= mirror'[id]
    BY <1>3, AppliedNewest
  <2>2. CASE p = "worker"
    <3>1. FullRebuild(mirror', pass[p].ids)
      BY <1>3, <2>2 DEF ApplyEvents, AloneInv, TurnInv
    <3> QED
      BY <2>1, <3>1 DEF FullRebuild
  <2>3. CASE p = "serial"
    <3>1. activeRoot[id] <= tree[id]
      <4>1. pass[p].pc = "apply"
        BY <1>3 DEF ApplyEvents
      <4>2. pass["worker"].pc = "idle"
        BY <2>3, <4>1, OneRuns DEF AloneInv, Passes
      <4> QED
        BY <1>2, <4>2
    <3>2. tree'[id] \in {mirror'[id], tree[id]}
      <4>1. mirror' \in Leaves
        BY <1>3, AppliedIssued
      <4>2. FullRebuild(mirror', pass[p].ids) \/ IncrementalUpdate(mirror', pass[p].ids)
        BY <1>3 DEF ApplyEvents
      <4> QED
        BY <4>1, <4>2, TreeUpdate DEF Inv
    <3> QED
      BY <2>1, <3>1, <3>2
  <2> QED
    BY <2>2, <2>3 DEF Passes
<1>4. ASSUME NEW p \in Passes, PatchRecord(p)
      PROVE  activeRoot[id] <= tree'[id]
  <2>1. pass[p].pc = "patch"
    BY <1>4 DEF PatchRecord
  <2>2. p = "serial"
    BY <2>1 DEF GrowInv, SyncInv, Passes
  <2>3. pass["worker"].pc = "idle" /\ bootstrapped
    BY <2>1, <2>2, OneRuns DEF AloneInv, TurnInv, Passes
  <2>4. /\ activeRoot[id] <= tree[id]
        /\ id \in pass[p].ids => tree[id] <= pass[p].ver
    BY <1>2, <2>1, <2>3 DEF GrowInv, Reads
  <2>5. tree'[id] = IF id \in pass[p].ids THEN pass[p].ver ELSE tree[id]
    BY <1>4, <2>3 DEF PatchRecord, IncrementalUpdate
  <2>6. activeRoot[id] \in MaybeVersion /\ tree[id] \in MaybeVersion /\ pass[p].ver \in MaybeVersion
    BY ChainFacts, PassFacts
  <2> QED
    BY <2>4, <2>5, <2>6, VersionOrder
<1>5. CASE UNCHANGED tree
  <2>1. CASE ApplyEvents("worker")
    BY <1>3, <2>1 DEF Passes
  <2> QED
    BY <1>1, <1>2, <1>5, <2>1
<1> QED
  BY <1>1, <1>3, <1>4, <1>5, TreeView DEF Passes

\* A version is reported only when the active root has it.
LEMMA AckedAnchored ==
    ASSUME Inv, AloneInv, GrowInv, Next, UNCHANGED activeRoot, NEW id \in Ids,
           acked'[id] # Absent
    PROVE  activeRoot # NoRoot /\ acked'[id] <= activeRoot[id]
<1>t. /\ acked \in [Ids -> MaybeVersion] /\ tree \in Leaves /\ NoRoot \notin Leaves
      /\ acked[id] # Absent => activeRoot # NoRoot /\ acked[id] <= activeRoot[id]
  BY ServiceAssumption DEF Inv, CacheInv, KnownInv, GrowInv, RootInv
<1>1. CASE UNCHANGED acked
  BY <1>1, <1>t
<1>2. CASE FinishSerial \/ FinishWorker
  <2>1. PICK p \in Passes : pass[p].pc = "finish" /\ Conclude(p)
    BY <1>2 DEF FinishSerial, FinishWorker, Passes
  <2>2. tree = activeRoot
    BY <2>1 DEF AloneInv, Sees
  <2>3. acked'[id] = tree[id] \/ acked'[id] = acked[id]
    BY <2>1 DEF Conclude, Told
  <2>4. tree[id] <= tree[id]
    BY ChainFacts, VersionOrder
  <2> QED
    BY <1>t, <2>2, <2>3, <2>4
<1>3. ASSUME NEW x \in Ids, Get(x)
      PROVE  activeRoot # NoRoot /\ acked'[id] <= activeRoot[id]
  <2>1. \/ UNCHANGED acked
        \/ /\ acked' = [acked EXCEPT ![x] = tree[x]]
           /\ ~cacheStale
    <3>1. PICK ready \in BOOLEAN :
              \/ UNCHANGED acked
              \/ /\ acked' = [acked EXCEPT ![x] = IF ready THEN tree[x] ELSE @]
                 /\ ~cacheStale
      <4> DEFINE path == IF pathCache[x] = NoPath /\ ~cacheStale THEN PathIn(tree, x)
                         ELSE pathCache[x]
                 ready == path # NoPath /\ path.root = rootCache.root /\ tree[x] > acked[x]
      <4>1. \/ UNCHANGED acked
            \/ /\ acked' = [acked EXCEPT ![x] = IF ready THEN tree[x] ELSE @]
               /\ ~cacheStale
        BY <1>3 DEF Get, NeedsRepair
      <4>2. ready \in BOOLEAN
        OBVIOUS
      <4> HIDE DEF ready
      <4> QED
        BY <4>1, <4>2
    <3> QED
      BY <1>t, <3>1
  <2>2. CASE acked' = [acked EXCEPT ![x] = tree[x]] /\ ~cacheStale
    <3>1. tree = activeRoot
      BY <2>2 DEF AloneInv, ServedRootIsActive
    <3>2. tree[id] <= tree[id]
      BY ChainFacts, VersionOrder
    <3> QED
      BY <1>t, <2>2, <3>1, <3>2
  <2> QED
    BY <1>1, <2>1, <2>2
<1>4. UNCHANGED acked \/ FinishSerial \/ FinishWorker \/ \E x \in Ids : Get(x)
  <2>1. ASSUME NEW p \in Passes, ApplyEvents(p) \/ PatchRecord(p) \/ Claim(p)
        PROVE  UNCHANGED acked
    BY <2>1 DEF ApplyEvents, PatchRecord, Claim, history
  <2>2. TimerReads \/ TimerActs => UNCHANGED acked
    BY DEF TimerReads, TimerActs, history
  <2> QED
    BY <2>1, <2>2, CacheView
<1> QED
  BY <1>1, <1>2, <1>3, <1>4

LEMMA RootStep ==
    ASSUME Inv, AloneInv, GrowInv, Next
    PROVE  RootInv'
<1>1. CASE UNCHANGED activeRoot
  BY <1>1, TreeNotBehind, AckedAnchored DEF RootInv
<1>2. ASSUME NEW p \in Passes, SendRoot(p)
      PROVE  RootInv'
  <2>1. /\ activeRoot' = tree /\ tree' = tree /\ acked' = acked
        /\ activeRoot' # NoRoot
    BY <1>2, SendRootAnchors, ServiceAssumption
       DEF Inv, KnownInv, SendRoot, caches, history
  <2>2. \A id \in Ids : activeRoot'[id] <= tree'[id]
    BY <2>1, ChainFacts, VersionOrder
  <2>3. pass["worker"].pc \notin {"sync", "apply"}
    <3>1. pass[p].pc = "send"
      BY <1>2 DEF SendRoot
    <3>2. p # "worker" => pass["worker"].pc = "idle"
      BY <3>1, OneRuns DEF AloneInv, Passes
    <3> QED
      BY <3>1, <3>2
  <2>4. ASSUME NEW id \in Ids, acked[id] # Absent
        PROVE  acked[id] <= tree[id]
    <3>1. activeRoot # NoRoot /\ acked[id] <= activeRoot[id] /\ activeRoot[id] <= tree[id]
      BY <2>3, <2>4 DEF GrowInv, RootInv
    <3>2. /\ acked[id] \in MaybeVersion /\ tree[id] \in MaybeVersion
          /\ activeRoot[id] \in MaybeVersion
      BY <3>1, ChainFacts
    <3> QED
      BY <3>1, <3>2, VersionOrder
  <2> QED
    BY <2>1, <2>2, <2>4 DEF RootInv
<1>3. ASSUME NEW id \in Ids, Submit(id)
      PROVE  UNCHANGED activeRoot
  BY <1>3, SubmitIssues DEF Inv, KnownInv, IssuesRecord
<1> QED
  BY <1>1, <1>2, <1>3, ChainView DEF chain

-----------------------------------------------------------------------------
(* A service where nothing fails *)

\* What does not happen when nothing fails.
LEMMA NothingFails ==
    ASSUME Inv, WaitInv, Undisturbed, LoneInv
    PROVE  /\ \A p \in Passes : ~Throws(p)
           /\ ~SerialThrows /\ ~WorkerThrows /\ ~Kill
           /\ \A id \in Ids : ~SettleFails(id)
<1>1. \A p \in Passes : ~Throws(p)
  <2>1. rootEpoch \in Nat
    BY DEF Inv, ChainInv, Board!TypeOK
  <2> QED
    BY <2>1 DEF Undisturbed, LoneInv, CalmInv, Throws, Rejected
<1>2. "serial" \in Passes /\ "worker" \in Passes
  BY DEF Passes
<1> QED
  BY <1>1, <1>2 DEF SerialThrows, WorkerThrows, Kill, SettleFails, Undisturbed, LoneInv, CalmInv

\* The steps that are left.
LEMMA LoneView ==
    ASSUME Inv, AloneInv, WaitInv, Undisturbed, LoneInv, Next
    PROVE  \/ \E p \in Passes : PassStep(p)
           \/ FinishWorker \/ FinishSerial \/ StartSerial
           \/ \E id \in Ids : \/ Submit(id) \/ Settle(id) \/ Reregister(id)
                             \/ CatchReads(id) \/ CatchPatches(id) \/ Get(id)
  BY NothingBeside, NothingFails, WaitStep DEF AloneInv, Next, Serial, Worker, Passes

\* An event stays unapplied or is applied; only a request has a new one.
LEMMA UnsyncedView ==
    ASSUME Inv, AloneInv, \A p \in Passes : Reads(pass[p]), WaitInv, Undisturbed, LoneInv, Next,
           NEW id \in Ids, NEW i \in Nat, Unsynced(i, id)'
    PROVE  \/ /\ Unsynced(i, id)
              /\ \A p \in Passes : ApplyEvents(p) => pass[p].latest < i
           \/ /\ Submit(id)
              /\ i = Len(log) + 1
<1>f. Len(log) \in Nat /\ lastSynced \in Nat /\ lastSynced <= Len(log)
  BY ChainFacts
<1>1. ASSUME NEW p \in Passes, ApplyEvents(p)
      PROVE  Unsynced(i, id) /\ pass[p].latest < i
  <2>1. /\ pass[p].pc = "apply" /\ UNCHANGED log
        /\ lastSynced' = IF pass[p].from <= pass[p].latest \/ pass[p].full
                         THEN pass[p].latest ELSE lastSynced
    BY <1>1 DEF ApplyEvents, chain
  <2>2. pass[p].from = lastSynced + 1 /\ lastSynced <= pass[p].latest
    BY <2>1 DEF Reads
  <2>3. pass[p].latest \in Nat
    BY PassFacts
  <2>4. lastSynced' = pass[p].latest
    <3>1. CASE pass[p].from <= pass[p].latest \/ pass[p].full
      BY <2>1, <3>1
    <3>2. CASE ~(pass[p].from <= pass[p].latest)
      BY <1>f, <2>1, <2>2, <2>3, <3>2
    <3> QED
      BY <3>1, <3>2
  <2>5. i \in (pass[p].latest + 1)..Len(log) /\ RecordAt(i, id)
    BY <2>1, <2>4 DEF Unsynced, RecordAt
  <2> QED
    BY <1>f, <2>2, <2>3, <2>5 DEF Unsynced
<1>2. ASSUME UNCHANGED <<log, lastSynced>>
      PROVE  Unsynced(i, id)
  BY <1>2 DEF Unsynced, RecordAt
<1>3. ASSUME NEW p \in Passes, SendRoot(p)
      PROVE  Unsynced(i, id)
  <2>1. /\ log' = Append(log, Board!RootUpdated(tree, rootEpoch + 1, Service))
        /\ UNCHANGED lastSynced
    BY <1>3, SendRootAnchors DEF Inv, SendRoot, caches
  <2>2. /\ Len(log') = Len(log) + 1
        /\ log'[Len(log) + 1].kind = "RootUpdated"
        /\ \A j \in 1..Len(log) : log'[j] = log[j]
    BY <2>1 DEF Inv, ChainInv, Board!TypeOK, Board!RootUpdated
  <2>3. i \in (lastSynced + 1)..Len(log') /\ RecordAt(i, id)'
    BY <2>1 DEF Unsynced
  <2>4. i # Len(log) + 1
    BY <2>2, <2>3 DEF RecordAt, RecordKinds
  <2>5. i \in 1..Len(log) /\ i \in (lastSynced + 1)..Len(log)
    BY <1>f, <2>2, <2>3, <2>4
  <2> QED
    BY <2>2, <2>3, <2>5 DEF Unsynced, RecordAt
<1>4. ASSUME NEW x \in Ids, Submit(x)
      PROVE  Unsynced(i, id) \/ (Submit(id) /\ i = Len(log) + 1)
  <2>1. PICK e : IssuesRecord(x, e)
    BY <1>4, SubmitIssues DEF Inv, KnownInv
  <2>2. /\ log' = Append(log, e) /\ e.id = x
        /\ UNCHANGED lastSynced
    BY <1>4, <2>1 DEF IssuesRecord, Submit, caches
  <2>3. /\ Len(log') = Len(log) + 1
        /\ log'[Len(log) + 1] = e
        /\ \A j \in 1..Len(log) : log'[j] = log[j]
    BY <2>2 DEF Inv, ChainInv, Board!TypeOK
  <2>4. i \in (lastSynced + 1)..Len(log') /\ RecordAt(i, id)'
    BY <2>2 DEF Unsynced
  <2>5. CASE i = Len(log) + 1
    BY <1>4, <2>2, <2>3, <2>4, <2>5 DEF RecordAt
  <2>6. CASE i # Len(log) + 1
    <3>1. i \in 1..Len(log) /\ i \in (lastSynced + 1)..Len(log)
      BY <1>f, <2>3, <2>4, <2>6
    <3> QED
      BY <2>3, <2>4, <3>1 DEF Unsynced, RecordAt
  <2> QED
    BY <2>5, <2>6
<1>5. \/ UNCHANGED <<log, lastSynced>>
      \/ \E p \in Passes : ApplyEvents(p) \/ SendRoot(p)
      \/ \E x \in Ids : Submit(x)
  <2>1. ASSUME NEW p \in Passes, PassStep(p)
        PROVE  UNCHANGED <<log, lastSynced>> \/ ApplyEvents(p) \/ SendRoot(p)
    BY <2>1 DEF PassStep, ReadLatest, ReadRecord, PatchRecord, ReadRoot, ReadEpoch,
       Receipt, Claim, chain, caches
  <2>2. FinishWorker \/ FinishSerial => UNCHANGED <<log, lastSynced>>
    BY DEF FinishWorker, FinishSerial, Conclude, chain
  <2>3. StartSerial => UNCHANGED <<log, lastSynced>>
    BY DEF StartSerial, chain
  <2>4. \A x \in Ids :
            Settle(x) \/ Reregister(x) \/ CatchReads(x) \/ CatchPatches(x) \/ Get(x) =>
                UNCHANGED <<log, lastSynced>>
    BY DEF Settle, Reregister, CatchReads, CatchPatches, Get, chain, caches
  <2> QED
    BY <2>1, <2>2, <2>3, <2>4, LoneView
<1>6. CASE \E p \in Passes : ApplyEvents(p)
  BY <1>1, <1>6
<1>7. CASE ~ \E p \in Passes : ApplyEvents(p)
  BY <1>2, <1>3, <1>4, <1>5, <1>7
<1> QED
  BY <1>6, <1>7

\* Failures and what is sent: no root was anchored since its epoch was read.
LEMMA LoneSends ==
    ASSUME Inv, AloneInv, WaitInv, Undisturbed, LoneInv, Next
    PROVE  /\ faults' = 0 /\ kills' = 0
           /\ \A p \in Passes : pass'[p].pc = "send" => pass'[p].epoch = rootEpoch'
<1>t. pass \in [Passes -> PassType] /\ TurnInv
  BY DEF Inv, PassInv, AloneInv
<1>l. /\ faults = 0 /\ kills = 0
      /\ \A p \in Passes : pass[p].pc = "send" => pass[p].epoch = rootEpoch
  BY DEF LoneInv, CalmInv
<1>1. ASSUME NEW p \in Passes, PassStep(p)
      PROVE  /\ UNCHANGED <<faults, kills>>
             /\ \A r \in Passes : pass'[r].pc = "send" => pass'[r].epoch = rootEpoch'
  <2>1. UNCHANGED history
    BY <1>1 DEF PassStep, ReadLatest, ApplyEvents, ReadRecord, PatchRecord, ReadRoot,
       ReadEpoch, SendRoot, Receipt, Claim
  <2>2. pass[p].pc # "idle" /\ pass[p] \in PassType
    BY <1>1, <1>t DEF PassStep, ReadLatest, ApplyEvents, ReadRecord, PatchRecord, ReadRoot,
       ReadEpoch, SendRoot, Receipt, Claim
  <2>3. \A r \in Passes \ {p} : pass'[r].pc # "send"
    <3>1. \A r \in Passes \ {p} : pass'[r] = pass[r]
      BY <1>1, <1>t DEF PassStep, ReadLatest, ApplyEvents, ReadRecord, PatchRecord,
         ReadRoot, ReadEpoch, SendRoot, Receipt, Claim
    <3>2. \A r \in Passes \ {p} : pass[r].pc = "idle"
      BY <1>t, <2>2, OneRuns
    <3> QED
      BY <3>1, <3>2
  <2>4. pass'[p].pc = "send" => pass'[p].epoch = rootEpoch'
    <3> USE <1>t, <2>2
    <3>1. CASE ReadLatest(p)
      BY <3>1 DEF ReadLatest, PassType
    <3>2. CASE ApplyEvents(p)
      BY <3>2 DEF ApplyEvents, PassType
    <3>3. CASE ReadRecord(p)
      <4>1. PICK v : pass' = [pass EXCEPT ![p].pc = "patch", ![p].ver = v]
        BY <3>3 DEF ReadRecord
      <4> QED
        BY <4>1 DEF PassType
    <3>4. CASE PatchRecord(p)
      BY <3>4 DEF PatchRecord, PassType
    <3>5. CASE ReadRoot(p)
      BY <3>5 DEF ReadRoot, PassType
    <3>6. CASE ReadEpoch(p)
      BY <3>6 DEF ReadEpoch, PassType, chain
    <3>7. CASE SendRoot(p)
      BY <3>7 DEF SendRoot, PassType
    <3>8. CASE Receipt(p)
      BY <3>8 DEF Receipt, PassType
    <3>9. CASE Claim(p)
      BY <3>9 DEF Claim, PassType
    <3> QED
      BY <1>1, <3>1, <3>2, <3>3, <3>4, <3>5, <3>6, <3>7, <3>8, <3>9 DEF PassStep
  <2> QED
    BY <2>1, <2>3, <2>4 DEF history
<1>i. IdlePass.pc = "idle" /\ BootPass.pc = "sync"
  BY DEF IdlePass, BootPass
<1>2. CASE FinishWorker
  <2>1. pass' = [pass EXCEPT !["worker"] = IdlePass] /\ UNCHANGED <<faults, kills, chain>>
    BY <1>2, <1>t DEF FinishWorker, TurnInv
  <2> QED
    BY <1>i, <1>l, <1>t, <2>1 DEF chain
<1>3. CASE FinishSerial
  BY <1>3, <1>i, <1>l, <1>t DEF FinishSerial, chain
<1>4. CASE StartSerial
  <2>1. PICK pc \in {"refresh", "sync"} :
            pass' = [pass EXCEPT !["serial"] =
                [IdlePass EXCEPT !.ids = {Head(queue).id},
                     !.kind = Head(queue).kind, !.pc = pc]]
    BY <1>4 DEF StartSerial
  <2>2. UNCHANGED <<history, chain>> /\ pass'["serial"].pc \in {"refresh", "sync"}
    BY <1>4, <1>t, <2>1 DEF StartSerial, Passes, IdlePass
  <2>3. \A r \in Passes : r # "serial" => pass'[r] = pass[r]
    BY <1>t, <2>1
  <2> QED
    BY <1>l, <2>2, <2>3 DEF history, chain
<1>5. ASSUME NEW id \in Ids, \/ Submit(id) \/ Settle(id) \/ Reregister(id)
                             \/ CatchReads(id) \/ CatchPatches(id) \/ Get(id)
      PROVE  UNCHANGED <<faults, kills, pass, rootEpoch>>
  <2>1. UNCHANGED <<faults, kills, pass>>
    <3>1. ~(faults < MaxFaults)
      BY <1>l DEF Undisturbed
    <3> QED
      BY <1>5, <3>1 DEF Submit, Settle, Reregister, CatchReads, CatchPatches, Get, history
  <2>2. CASE Submit(id)
    BY <2>1, <2>2, SubmitIssues DEF Inv, KnownInv, IssuesRecord
  <2>3. CASE ~Submit(id)
    BY <1>5, <2>1, <2>3 DEF Settle, Reregister, CatchReads, CatchPatches, Get, chain
  <2> QED
    BY <2>2, <2>3
<1> QED
  BY <1>1, <1>2, <1>3, <1>4, <1>5, <1>l, LoneView

\* How the requests and the chain of tasks change.
LEMMA TaskView ==
    ASSUME Inv, AloneInv, WaitInv, Undisturbed, LoneInv, Next
    PROVE  \/ UNCHANGED <<req, queue>>
           \/ \E x \in Ids, r \in Request :
                  /\ req[x].pc \in {"none", "caught"} /\ r.pc # "none"
                  /\ req' = [req EXCEPT ![x] = r]
                  /\ UNCHANGED <<queue, pass>>
           \/ \E x \in Ids : /\ req[x].pc \in {"mined", "fetched"}
                             /\ req' = [req EXCEPT ![x].pc = "queued"]
                             /\ queue' = Append(queue, TaskOf(x))
                             /\ UNCHANGED pass
           \/ \E x \in Ids : /\ queue' = Append(queue, [kind |-> "repair", id |-> x])
                             /\ UNCHANGED <<req, pass>>
           \/ /\ FinishSerial
              /\ queue' = Tail(queue)
              /\ \/ \E x \in Ids : /\ Head(queue) = TaskOf(x)
                                   /\ req' = [req EXCEPT ![x] = NoReq]
                 \/ UNCHANGED req
<1>t. queue \in Seq(Task) /\ (pass["serial"].pc # "idle" => queue # <<>>)
  BY DEF Inv, ControlInv
<1>1. ASSUME NEW p \in Passes, PassStep(p)
      PROVE  UNCHANGED <<req, queue>>
  BY <1>1 DEF PassStep, ReadLatest, ApplyEvents, ReadRecord, PatchRecord, ReadRoot,
     ReadEpoch, SendRoot, Receipt, Claim
<1>2. FinishWorker \/ StartSerial => UNCHANGED <<req, queue>>
  BY DEF FinishWorker, StartSerial
<1>3. CASE FinishSerial
  <2>1. /\ pass["serial"].pc = "finish" /\ queue' = Tail(queue)
        /\ IF Head(queue).kind = "inline" THEN req' = [req EXCEPT ![Head(queue).id] = NoReq]
           ELSE UNCHANGED req
    BY <1>3 DEF FinishSerial
  <2>2. Head(queue) \in Task
    BY <1>t, <2>1
  <2>3. CASE Head(queue).kind = "inline"
    <3>1. Head(queue) = TaskOf(Head(queue).id) /\ Head(queue).id \in Ids
      BY <2>2, <2>3 DEF Task, TaskOf
    <3> QED
      BY <1>3, <2>1, <2>3, <3>1
  <2> QED
    BY <1>3, <2>1, <2>3
<1>4. ASSUME NEW x \in Ids, Submit(x) \/ Reregister(x) \/ CatchReads(x)
      PROVE  \E r \in Request : /\ req[x].pc \in {"none", "caught"} /\ r.pc # "none"
                               /\ req' = [req EXCEPT ![x] = r]
                               /\ UNCHANGED <<queue, pass>>
  <2>1. req \in [Ids -> Request] /\ req' \in [Ids -> Request] /\ req[x] \in Request
    BY RequestStep DEF Inv, KnownInv
  <2>2. UNCHANGED <<queue, pass>> /\ req[x].pc \in {"none", "caught"}
    BY <1>4, WaitStep DEF Submit, Reregister, CatchReads
  <2>3. \E r : r.pc # "none" /\ req' = [req EXCEPT ![x] = r]
    <3>1. CASE Submit(x)
      <4>1. FALSE \notin Waits
        BY DEF WaitInv, Awaited
      <4>2. PICK again : req' = [req EXCEPT ![x] = [pc |-> "mined", ver |-> OnChain(x) + 1,
                                                   again |-> again]]
        BY <3>1, <4>1, SubmitIssues DEF Inv, Asks
      <4> QED
        BY <4>2
    <3>2. CASE Reregister(x) \/ CatchReads(x)
      <4>1. ~(faults < MaxFaults)
        BY DEF Undisturbed, LoneInv, CalmInv
      <4>2. req' = [req EXCEPT ![x] =
                       [req[x] EXCEPT !.pc = "fetched", !.ver = OnChain(x)]]
        BY <2>1, <3>2, <4>1 DEF Reregister, CatchReads
      <4>3. [req[x] EXCEPT !.pc = "fetched", !.ver = OnChain(x)].pc = "fetched"
        BY <2>1 DEF Request
      <4> QED
        BY <4>2, <4>3
    <3> QED
      BY <1>4, <3>1, <3>2
  <2>4. PICK r : r.pc # "none" /\ req' = [req EXCEPT ![x] = r]
    BY <2>3
  <2>5. r \in Request
    <3>1. req'[x] = r
      BY <2>1, <2>4
    <3> QED
      BY <2>1, <3>1
  <2> QED
    BY <2>2, <2>4, <2>5
<1>5. ASSUME NEW x \in Ids, Settle(x) \/ CatchPatches(x)
      PROVE  /\ req[x].pc \in {"mined", "fetched"}
             /\ req' = [req EXCEPT ![x].pc = "queued"]
             /\ queue' = Append(queue, TaskOf(x))
             /\ UNCHANGED pass
  BY <1>5 DEF Settle, CatchPatches, TaskOf
<1>6. ASSUME NEW x \in Ids, Get(x)
      PROVE  \/ UNCHANGED <<req, queue>>
             \/ /\ queue' = Append(queue, [kind |-> "repair", id |-> x])
                /\ UNCHANGED <<req, pass>>
  BY <1>6 DEF Get
<1> QED
  BY <1>1, <1>2, <1>3, <1>4, <1>5, <1>6, LoneView

\* The tasks after a step: a request joins the chain once, and leaves it answered.
LEMMA LoneTasks ==
    ASSUME Inv, AloneInv, WaitInv, Undisturbed, LoneInv, Next, TasksInv
    PROVE  TasksInv'
<1> SUFFICES ASSUME NEW id \in Ids, NEW n \in 1..Len(queue'), queue'[n] = TaskOf(id)
             PROVE  /\ req'[id].pc = "queued"
                    /\ \A m \in 1..Len(queue') : queue'[m] = TaskOf(id) => m = n
  BY DEF TasksInv, TaskOf
<1>t. queue \in Seq(Task) /\ req \in [Ids -> Request] /\ Len(queue) \in Nat
  BY DEF Inv, ControlInv, KnownInv
<1>q. \A k \in 1..Len(queue) : queue[k] = TaskOf(id) =>
          /\ req[id].pc = "queued"
          /\ \A m \in 1..Len(queue) : queue[m] = TaskOf(id) => m = k
  BY DEF TasksInv
<1>i. \A x : TaskOf(x).id = x /\ TaskOf(x).kind = "inline"
  BY DEF TaskOf
<1>1. CASE UNCHANGED <<req, queue>>
  BY <1>1, <1>q
<1>2. ASSUME NEW x \in Ids, NEW r \in Request, req[x].pc \in {"none", "caught"},
             UNCHANGED queue, req' = [req EXCEPT ![x] = r]
      PROVE  /\ req'[id].pc = "queued"
             /\ \A m \in 1..Len(queue') : queue'[m] = TaskOf(id) => m = n
  BY <1>2, <1>q, <1>t
<1>3. ASSUME NEW x \in Ids, req[x].pc \in {"mined", "fetched"}, queue' = Append(queue, TaskOf(x)),
             req' = [req EXCEPT ![x].pc = "queued"]
      PROVE  /\ req'[id].pc = "queued"
             /\ \A m \in 1..Len(queue') : queue'[m] = TaskOf(id) => m = n
  <2>1. /\ Len(queue') = Len(queue) + 1 /\ queue'[Len(queue) + 1] = TaskOf(x)
        /\ \A k \in 1..Len(queue) : queue'[k] = queue[k]
    BY <1>3, <1>t
  <2>2. \A k \in 1..Len(queue') : k \in 1..Len(queue) \/ k = Len(queue) + 1
    BY <1>t, <2>1
  <2>3. CASE id = x
    <3>1. \A k \in 1..Len(queue') : queue'[k] = TaskOf(id) => k = Len(queue) + 1
      BY <1>3, <1>q, <2>1, <2>2, <2>3
    <3>2. req'[id].pc = "queued"
      BY <1>3, <1>t, <2>3 DEF Request
    <3> QED
      BY <3>1, <3>2
  <2>4. CASE id # x
    <3>1. \A k \in 1..Len(queue') : queue'[k] = TaskOf(id) => k \in 1..Len(queue) /\ queue[k] = TaskOf(id)
      BY <1>i, <2>1, <2>2, <2>4
    <3>2. req'[id] = req[id]
      BY <1>3, <1>t, <2>4
    <3> QED
      BY <1>q, <3>1, <3>2
  <2> QED
    BY <2>3, <2>4
<1>4. ASSUME NEW x \in Ids, queue' = Append(queue, [kind |-> "repair", id |-> x]), UNCHANGED req
      PROVE  /\ req'[id].pc = "queued"
             /\ \A m \in 1..Len(queue') : queue'[m] = TaskOf(id) => m = n
  <2>1. /\ Len(queue') = Len(queue) + 1 /\ queue'[Len(queue) + 1].kind = "repair"
        /\ \A k \in 1..Len(queue) : queue'[k] = queue[k]
    BY <1>4, <1>t
  <2>2. \A k \in 1..Len(queue') : queue'[k] = TaskOf(id) => k \in 1..Len(queue) /\ queue[k] = TaskOf(id)
    BY <1>i, <1>t, <2>1
  <2> QED
    BY <1>4, <1>q, <2>2
<1>5. ASSUME queue' = Tail(queue), pass["serial"].pc # "idle",
             \/ \E x \in Ids : Head(queue) = TaskOf(x) /\ req' = [req EXCEPT ![x] = NoReq]
             \/ UNCHANGED req
      PROVE  /\ req'[id].pc = "queued"
             /\ \A m \in 1..Len(queue') : queue'[m] = TaskOf(id) => m = n
  <2>1. queue # <<>>
    BY <1>5 DEF Inv, ControlInv
  <2>2. /\ Len(queue') = Len(queue) - 1 /\ Head(queue) = queue[1] /\ 1 \in 1..Len(queue)
        /\ \A k \in 1..Len(queue') : k + 1 \in 1..Len(queue) /\ queue'[k] = queue[k + 1]
    BY <1>5, <1>t, <2>1
  <2>3. /\ req[id].pc = "queued"
        /\ \A m \in 1..Len(queue) : queue[m] = TaskOf(id) => m = n + 1
    BY <1>q, <2>2
  <2>4. req'[id] = req[id]
    <3>1. Head(queue) # TaskOf(id)
      BY <2>2, <2>3
    <3>2. \A x \in Ids : Head(queue) = TaskOf(x) => x # id
      BY <3>1
    <3> QED
      BY <1>5, <1>t, <3>2
  <2>5. ASSUME NEW m \in 1..Len(queue'), queue'[m] = TaskOf(id)
        PROVE  m = n
    <3>1. m + 1 = n + 1
      BY <2>2, <2>3, <2>5
    <3> QED
      BY <3>1
  <2> QED
    BY <2>3, <2>4, <2>5
<1>6. FinishSerial => pass["serial"].pc # "idle"
  BY DEF FinishSerial
<1> QED
  BY <1>1, <1>2, <1>3, <1>4, <1>5, <1>6, TaskView

\* The events: a request is answered only when its event is applied.
LEMMA LoneEvents ==
    ASSUME Inv, AloneInv, \A p \in Passes : Reads(pass[p]), WaitInv, Undisturbed, LoneInv, Next,
           EventsInv, ServedInv
    PROVE  EventsInv'
<1> SUFFICES ASSUME NEW id \in Ids, NEW i \in Nat, Unsynced(i, id)'
             PROVE  /\ req'[id].pc # "none"
                    /\ \A j \in Nat : Unsynced(j, id)' => i = j
  BY DEF EventsInv
<1>t. req \in [Ids -> Request]
  BY DEF Inv, KnownInv
<1>s. ASSUME Submit(id)
      PROVE  req[id].pc = "none" /\ req'[id].pc = "mined"
  <2>1. FALSE \notin Waits
    BY DEF WaitInv, Awaited
  <2>2. Asks(id, OnChain(id) + 1)
    BY <1>s, SubmitIssues DEF Inv
  <2>3. PICK again \in BOOLEAN :
            req' = [req EXCEPT ![id] =
                       [pc |-> "mined", ver |-> OnChain(id) + 1, again |-> again]]
    BY <2>1, <2>2 DEF Asks
  <2>4. req[id].pc = "none"
    BY <2>1, <2>2 DEF Asks
  <2> QED
    BY <1>t, <2>3, <2>4
<1>1. CASE Unsynced(i, id)
  <2>1. req[id].pc # "none" /\ \A j \in Nat : Unsynced(j, id) => i = j
    BY <1>1 DEF EventsInv
  <2>2. \A j \in Nat : Unsynced(j, id)' => i = j
    BY <1>s, <2>1, UnsyncedView
  <2>3. ASSUME FinishSerial, Head(queue) = TaskOf(id)
        PROVE  FALSE
    <3>1. pass["serial"].pc = "finish"
      BY <2>3 DEF FinishSerial
    <3> QED
      BY <1>1, <2>3, <3>1 DEF ServedInv
  <2>4. req'[id].pc # "none"
    <3>1. CASE UNCHANGED req
      BY <2>1, <3>1
    <3>2. ASSUME NEW x \in Ids, NEW r \in Request, r.pc # "none",
                 req' = [req EXCEPT ![x] = r]
          PROVE  req'[id].pc # "none"
      BY <1>t, <2>1, <3>2
    <3>3. ASSUME NEW x \in Ids, req' = [req EXCEPT ![x].pc = "queued"]
          PROVE  req'[id].pc # "none"
      BY <1>t, <2>1, <3>3 DEF Request
    <3>4. ASSUME FinishSerial, NEW x \in Ids, Head(queue) = TaskOf(x),
                 req' = [req EXCEPT ![x] = NoReq]
          PROVE  req'[id].pc # "none"
      <4>1. x # id
        BY <2>3, <3>4
      <4> QED
        BY <1>t, <2>1, <3>4, <4>1
    <3> QED
      BY <3>1, <3>2, <3>3, <3>4, TaskView
  <2> QED
    BY <2>2, <2>4
<1>2. CASE ~Unsynced(i, id)
  <2>1. Submit(id) /\ i = Len(log) + 1
    BY <1>2, UnsyncedView
  <2>2. \A j \in Nat : ~Unsynced(j, id)
    BY <1>s, <2>1 DEF EventsInv
  <2>3. \A j \in Nat : Unsynced(j, id)' => i = j
    BY <2>1, <2>2, UnsyncedView
  <2> QED
    BY <1>s, <2>1, <2>3
<1> QED
  BY <1>1, <1>2

\* The pass of a request: the events it reads are up to the request's.
LEMMA LoneServed ==
    ASSUME Inv, AloneInv, \A p \in Passes : Reads(pass[p]), WaitInv, Undisturbed, LoneInv, Next,
           TasksInv, ServedInv
    PROVE  ServedInv'
<1> DEFINE s == pass["serial"]
<1> SUFFICES ASSUME s'.pc # "idle", NEW id \in Ids, NEW i \in Nat,
                    Head(queue') = TaskOf(id), Unsynced(i, id)'
             PROVE  s'.pc = "sync" \/ (s'.pc = "apply" /\ i <= s'.latest)
  BY DEF ServedInv, TaskOf
<1>t. /\ pass \in [Passes -> PassType] /\ queue \in Seq(Task) /\ req \in [Ids -> Request]
      /\ "serial" \in Passes /\ "worker" \in Passes /\ s \in PassType /\ TurnInv
      /\ s.pc # "idle" => queue # <<>>
  BY DEF Inv, PassInv, ControlInv, KnownInv, Passes, AloneInv
<1>i. IdlePass.pc = "idle" /\ TaskOf(id).kind = "inline"
  BY DEF IdlePass, TaskOf
<1>h. ASSUME s.pc # "idle", Head(queue) = TaskOf(id), Unsynced(i, id)
      PROVE  s.pc = "sync" \/ (s.pc = "apply" /\ i <= s.latest)
  BY <1>h DEF ServedInv
<1>1. ASSUME NEW p \in Passes, PassStep(p)
      PROVE  s'.pc = "sync" \/ (s'.pc = "apply" /\ i <= s'.latest)
  <2>1. UNCHANGED queue /\ pass[p].pc # "idle" /\ \A r \in Passes \ {p} : pass'[r] = pass[r]
    BY <1>1, <1>t DEF PassStep, ReadLatest, ApplyEvents, ReadRecord, PatchRecord, ReadRoot,
       ReadEpoch, SendRoot, Receipt, Claim
  <2>2. p = "serial"
    BY <1>t, <2>1, OneRuns
  <2>3. /\ Unsynced(i, id)
        /\ ApplyEvents(p) => pass[p].latest < i
    <3>1. ~Submit(id)
      <4>1. s.pc # "idle" /\ Head(queue) = TaskOf(id) /\ queue # <<>>
        BY <1>t, <2>1, <2>2
      <4>2. queue[1] = TaskOf(id) /\ 1 \in 1..Len(queue)
        BY <1>t, <4>1
      <4>3. req[id].pc = "queued"
        BY <4>2 DEF TasksInv
      <4> QED
        BY <4>3, WaitStep
    <3> QED
      BY <3>1, UnsyncedView
  <2>4. s.pc = "sync" \/ (s.pc = "apply" /\ i <= s.latest)
    BY <1>h, <2>1, <2>2, <2>3
  <2>5. s.latest \in Nat
    BY <1>t DEF PassType
  <2>6. CASE s.pc = "apply"
    <3>1. ApplyEvents(p)
      BY <1>1, <2>2, <2>6 DEF PassStep, ReadLatest, ReadRecord, PatchRecord, ReadRoot,
         ReadEpoch, SendRoot, Receipt, Claim
    <3> QED
      BY <2>2, <2>3, <2>4, <2>5, <2>6, <3>1
  <2>7. CASE s.pc = "sync"
    <3>1. ReadLatest(p)
      BY <1>1, <2>2, <2>7 DEF PassStep, ApplyEvents, ReadRecord, PatchRecord, ReadRoot,
         ReadEpoch, SendRoot, Receipt, Claim
    <3>2. s'.pc = "apply" /\ s'.latest = Len(log)
      BY <1>t, <2>2, <3>1 DEF ReadLatest, PassType
    <3>3. i <= Len(log)
      BY <2>3, ChainFacts DEF Unsynced
    <3> QED
      BY <3>2, <3>3
  <2> QED
    BY <2>4, <2>6, <2>7
<1>2. CASE FinishWorker
  <2>1. pass' = [pass EXCEPT !["worker"] = IdlePass] /\ pass["worker"].pc = "finish"
    BY <1>2, <1>t DEF FinishWorker, TurnInv
  <2>2. s.pc = "idle"
    BY <1>t, <2>1, OneRuns
  <2> QED
    BY <1>t, <2>1, <2>2
<1>3. CASE FinishSerial
  BY <1>3, <1>i, <1>t DEF FinishSerial
<1>4. CASE StartSerial
  <2>1. PICK pc : /\ pc = IF Head(queue).kind = "repair" THEN "refresh" ELSE "sync"
                  /\ pass' = [pass EXCEPT !["serial"] =
                         [IdlePass EXCEPT !.ids = {Head(queue).id},
                              !.kind = Head(queue).kind, !.pc = pc]]
    BY <1>4 DEF StartSerial
  <2>2. UNCHANGED queue
    BY <1>4 DEF StartSerial
  <2>3. pc = "sync"
    BY <1>i, <2>1, <2>2
  <2> QED
    BY <1>t, <2>1, <2>3 DEF IdlePass
<1>5. ASSUME NEW x \in Ids, Submit(x)
      PROVE  s'.pc = "sync" \/ (s'.pc = "apply" /\ i <= s'.latest)
  <2>1. UNCHANGED <<queue, pass>>
    BY <1>5 DEF Submit
  <2>2. queue[1] = TaskOf(id) /\ 1 \in 1..Len(queue)
    BY <1>t, <2>1
  <2>3. ~Submit(id)
    BY <2>2, WaitStep DEF TasksInv
  <2> QED
    BY <1>h, <2>1, <2>3, UnsyncedView
<1>6. ASSUME NEW x \in Ids, \/ Settle(x) \/ Reregister(x) \/ CatchReads(x)
                            \/ CatchPatches(x) \/ Get(x)
      PROVE  s'.pc = "sync" \/ (s'.pc = "apply" /\ i <= s'.latest)
  <2>1. UNCHANGED <<chain, lastSynced, pass>>
    BY <1>6 DEF Settle, Reregister, CatchReads, CatchPatches, Get, caches
  <2>0. \A kind \in {"inline", "repair"} : [kind |-> kind, id |-> x] \in Task
    BY DEF Task
  <2>2. UNCHANGED queue \/ \E task \in Task : queue' = Append(queue, task)
    BY <1>6, <2>0, Zenon DEF Settle, Reregister, CatchReads, CatchPatches, Get
  <2>3. Head(queue') = Head(queue)
    <3>1. queue # <<>>
      BY <1>t, <2>1
    <3> QED
      BY <1>t, <2>2, <3>1
  <2>4. Unsynced(i, id)
    BY <2>1 DEF Unsynced, RecordAt, chain
  <2> QED
    BY <1>h, <2>1, <2>3, <2>4
<1> QED
  BY <1>1, <1>2, <1>3, <1>4, <1>5, <1>6, LoneView

\* A service where nothing fails after a step.
LEMMA LoneStep ==
    ASSUME Inv, AloneInv, \A p \in Passes : Reads(pass[p]), WaitInv, Undisturbed, LoneInv, Next
    PROVE  LoneInv'
<1>1. EventsInv /\ TasksInv /\ ServedInv
  BY DEF LoneInv
<1> QED
  BY <1>1, LoneSends, LoneEvents, LoneTasks, LoneServed DEF LoneInv, CalmInv

-----------------------------------------------------------------------------
(* The invariant holds *)

\* The invariant from the start on.
LEMMA GrowInductive ==
    /\ Orderly /\ Awaited /\ Init => GrowInv
    /\ Inv /\ AloneInv /\ GrowInv /\ [Next]_vars => GrowInv'
<1>1. Orderly /\ Awaited /\ Init => GrowInv
  <2> SUFFICES ASSUME Orderly, Awaited, Init PROVE GrowInv
    OBVIOUS
  <2>1. /\ pass["worker"].pc = "sync" /\ pass["serial"].pc = "idle"
        /\ \A p \in Passes : pass[p].pc \in {"sync", "idle"}
    BY DEF Init, Passes, BootPass, IdlePass
  <2>2. log = <<>> /\ activeRoot = NoRoot /\ \A id \in Ids : OnChain(id) = Absent
    BY DEF Init, Board!Init, OnChain, Board!EmptyRecord
  <2>3. OrderInv
    BY <2>2 DEF OrderInv
  <2>4. SyncInv
    BY <2>1 DEF Init, SyncInv, Newest, NoReq, Writes
  <2>5. \A p \in Passes : Reads(pass[p])
    BY <2>1 DEF Reads
  <2>6. RootInv
    BY <2>2 DEF Init, RootInv
  <2>7. LoneInv
    <3>1. queue = <<>> /\ faults = 0 /\ kills = 0 /\ lastSynced = 0
      BY DEF Init
    <3>2. \A id \in Ids : \A i \in Nat : ~Unsynced(i, id)
      BY <2>2, <3>1 DEF Unsynced
    <3>3. CalmInv /\ EventsInv /\ TasksInv
      BY <2>1, <3>1, <3>2 DEF CalmInv, EventsInv, TasksInv
    <3> QED
      BY <2>1, <3>3 DEF LoneInv, ServedInv
  <2>8. WaitInv
    BY DEF Init, WaitInv
  <2> QED
    BY <2>3, <2>4, <2>5, <2>6, <2>7, <2>8 DEF GrowInv
<1>2. Inv /\ AloneInv /\ GrowInv /\ [Next]_vars => GrowInv'
  <2> SUFFICES ASSUME Inv, AloneInv, GrowInv, [Next]_vars PROVE GrowInv'
    OBVIOUS
  <2>1. CASE Next
    <3>1. Orderly' /\ (Undisturbed' => LoneInv')
      BY <2>1, LoneStep DEF GrowInv, Orderly, OneKind, Undisturbed
    <3> QED
      BY <2>1, <3>1, WaitStep, OrderStep, SyncStep, ReadsStep, RootStep DEF GrowInv
  <2>2. CASE UNCHANGED vars
    <3>1. OrderInv' /\ Orderly' /\ WaitInv'
      BY OrderStep, WaitStep DEF GrowInv, Orderly, OneKind, Undisturbed
    <3>3. Undisturbed' => LoneInv'
      BY <2>2 DEF vars, chain, caches, control, history, GrowInv, Undisturbed, LoneInv,
         CalmInv, EventsInv, TasksInv, ServedInv, Unsynced, RecordAt
    <3>2. SyncInv' /\ (\A p \in Passes : Reads(pass[p]))' /\ RootInv'
      BY <2>2 DEF vars, chain, caches, control, history, GrowInv, SyncInv, Reads, RootInv,
         Newest, Covered, RecordAt, OnChain, Writes
    <3> QED
      BY <3>1, <3>2, <3>3 DEF GrowInv
  <2> QED
    BY <2>1, <2>2
<1> QED
  BY <1>1, <1>2

\* Mirror, tree and roots of a service that replays events in their order and
\* whose clients wait for the settlement.
THEOREM GrowInvariance ==
    Alone /\ Orderly /\ Awaited /\ Spec => [](Inv /\ AloneInv /\ GrowInv)
  BY GrowInductive, AloneInvariance, Invariance, PTL DEF Spec

-----------------------------------------------------------------------------
(* What the invariant is for *)

\* The mirror of an identity without unsynced events is the contract's record.
LEMMA MirrorIsRecord == Inv /\ GrowInv => MirrorFollowsChain
<1> SUFFICES ASSUME Inv, GrowInv, NEW id \in Ids,
                    \A i \in (lastSynced + 1)..Len(log) :
                        log[i].kind \in RecordKinds => log[i].id # id
             PROVE  mirror[id] = OnChain(id)
  BY DEF MirrorFollowsChain
<1>1. /\ Len(log) \in Nat /\ lastSynced \in Nat
      /\ mirror[id] \in MaybeVersion /\ OnChain(id) \in MaybeVersion
      /\ mirror[id] <= OnChain(id)
  BY ChainFacts
<1>2. CASE OnChain(id) = Absent
  BY <1>1, <1>2, VersionOrder
<1>3. CASE OnChain(id) # Absent
  <2>1. PICK i \in 1..Len(log) : RecordAt(i, id) /\ log[i].ver = OnChain(id)
    BY <1>3 DEF GrowInv, OrderInv
  <2>2. i \notin (lastSynced + 1)..Len(log)
    BY <2>1 DEF RecordAt
  <2>3. i \in 1..lastSynced
    BY <1>1, <2>2
  <2>4. OnChain(id) <= mirror[id]
    BY <2>1, <2>3 DEF GrowInv, SyncInv, Newest
  <2> QED
    BY <1>1, <2>4, VersionOrder
<1> QED
  BY <1>2, <1>3

\* Without background work, with clients that wait and with one kind of change
\* or no failure, the mirror entry of an identity whose events are all synced
\* is the contract's record: whatever replaced it last, an event, a record that
\* was read or the service's own transaction, no synced event is undone.
THEOREM MirrorFollows == Alone /\ Orderly /\ Awaited /\ Spec => []MirrorFollowsChain
  BY GrowInvariance, MirrorIsRecord, PTL

\* Under the same conditions no root takes back a leaf of its predecessor, not
\* even the first one after a kill, when the tree is built anew from the events.
THEOREM RootsGrow == Alone /\ Orderly /\ Awaited /\ Spec => RootsOnlyGrow
<1>1. Inv /\ AloneInv /\ GrowInv /\ [Next]_vars =>
          [\A id \in Ids : activeRoot # NoRoot => activeRoot[id] <= activeRoot'[id]]_activeRoot
  <2> SUFFICES ASSUME Inv, AloneInv, GrowInv, Next, activeRoot' # activeRoot,
                      activeRoot # NoRoot, NEW id \in Ids
               PROVE  activeRoot[id] <= activeRoot'[id]
    BY DEF vars, chain
  <2>1. PICK p \in Passes : SendRoot(p)
    BY ChainView, SubmitIssues DEF chain, Inv, KnownInv, IssuesRecord
  <2>2. activeRoot' = tree
    BY <2>1, SendRootAnchors DEF Inv
  <2>3. pass["worker"].pc \notin {"sync", "apply"}
    <3>1. pass[p].pc = "send"
      BY <2>1 DEF SendRoot
    <3>2. p # "worker" => pass["worker"].pc = "idle"
      BY <3>1, OneRuns DEF AloneInv, Passes
    <3> QED
      BY <3>1, <3>2
  <2> QED
    BY <2>2, <2>3 DEF GrowInv, RootInv
<1> QED
  BY <1>1, GrowInvariance, PTL DEF Spec, RootsOnlyGrow

\* Under the same conditions what a client was told is READY stays anchored,
\* through kills, failed transactions and every later root.
THEOREM ReadyStays == Alone /\ Orderly /\ Awaited /\ Spec => []ReadyStaysAnchored
<1>1. Inv /\ GrowInv => ReadyStaysAnchored
  <2> SUFFICES ASSUME Inv, GrowInv, NEW id \in Ids, acked[id] # Absent
               PROVE  activeRoot[id] >= acked[id]
    BY DEF ReadyStaysAnchored
  <2>1. activeRoot # NoRoot /\ acked[id] <= activeRoot[id]
    BY DEF GrowInv, RootInv
  <2>2. acked[id] \in MaybeVersion /\ activeRoot[id] \in MaybeVersion
    BY <2>1, ChainFacts
  <2> QED
    BY <2>1, <2>2, VersionTypes
<1> QED
  BY <1>1, GrowInvariance, PTL
=============================================================================
