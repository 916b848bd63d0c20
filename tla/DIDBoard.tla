------------------------------- MODULE DIDBoard -------------------------------
(***************************************************************************)
(* The bulletin board contract DIDBulletinBoardZK.sol: who controls each   *)
(* identity, which Merkle root is active, and which TTSS and trace digests *)
(* are anchored.  One action per external function; a call that reverts    *)
(* changes nothing, so its guards are simply false.  The emitted events    *)
(* are kept in order in `log', because the services rebuild their state    *)
(* from nothing else.                                                      *)
(*                                                                         *)
(* Abstractions: the three hashes that always move together (cid,          *)
(* pkNormHash, pkRecHash) are one document; the hashes of one TTSS or      *)
(* trace anchor are one digest.  Events also carry msg.sender (`from').    *)
(***************************************************************************)
EXTENDS Naturals, Sequences

CONSTANTS
    Ids,        \* identity hashes
    Accounts,   \* addresses that can send a transaction
    NoAddr,     \* address(0)
    Admin,      \* the deployer
    Docs,       \* documents: cid with both public key hashes
    NoDoc,      \* the document of an empty storage slot
    Roots,      \* Merkle roots
    NoRoot,     \* bytes32(0), the root before the first setActiveRoot
    Digests,    \* what a TTSS or a trace anchor stores
    NoDigest,   \* the digest of an empty storage slot
    MaxEpoch,   \* bound: highest epoch a caller proposes
    MaxLog      \* bound: number of events emitted

ASSUME BoardAssumption ==
    /\ NoAddr \notin Accounts
    /\ Admin \in Accounts
    /\ NoDoc \notin Docs
    /\ MaxEpoch \in Nat
    /\ MaxLog \in Nat

VARIABLES
    records,      \* records[id]: the Record of an identity
    rootUpdater,  \* the account that may anchor, beside Admin
    activeRoot,
    rootEpoch,
    ttss,         \* ttss[id]: the last TTSS anchor
    trace,        \* trace[id]: the last trace anchor
    log           \* the events emitted so far, in chain order

vars == <<records, rootUpdater, activeRoot, rootEpoch, ttss, trace, log>>

-----------------------------------------------------------------------------
(* Storage and events *)

Record == [doc : Docs \cup {NoDoc}, owner : Accounts \cup {NoAddr},
           recovery : Accounts \cup {NoAddr}, version : Nat, active : BOOLEAN]

EmptyRecord == [doc |-> NoDoc, owner |-> NoAddr, recovery |-> NoAddr,
                version |-> 0, active |-> FALSE]

Anchor == [digest : Digests \cup {NoDigest}, ver : Nat, epoch : Nat]

EmptyAnchor == [digest |-> NoDigest, ver |-> 0, epoch |-> 0]

RegisteredZK(id, doc, owner, recovery) ==
    [kind |-> "RegisteredZK", id |-> id, doc |-> doc, ver |-> 0,
     owner |-> owner, recovery |-> recovery]

UpdatedZK(id, doc, ver, from) ==
    [kind |-> "UpdatedZK", id |-> id, doc |-> doc, ver |-> ver, from |-> from]

RecoveredZK(id, doc, ver, owner, recovery, from) ==
    [kind |-> "RecoveredZK", id |-> id, doc |-> doc, ver |-> ver,
     owner |-> owner, recovery |-> recovery, from |-> from]

RootUpdated(root, epoch, from) ==
    [kind |-> "RootUpdated", root |-> root, epoch |-> epoch, from |-> from]

TTSSMetaUpdated(id, ver, epoch, digest, from) ==
    [kind |-> "TTSSMetaUpdated", id |-> id, ver |-> ver, epoch |-> epoch,
     digest |-> digest, from |-> from]

TraceResultPublished(id, ver, epoch, digest, from) ==
    [kind |-> "TraceResultPublished", id |-> id, ver |-> ver, epoch |-> epoch,
     digest |-> digest, from |-> from]

RootUpdaterChanged(account) ==
    [kind |-> "RootUpdaterChanged", account |-> account]

Event ==
    [kind : {"RegisteredZK"}, id : Ids, doc : Docs, ver : {0},
     owner : Accounts, recovery : Accounts]
    \cup [kind : {"UpdatedZK"}, id : Ids, doc : Docs, ver : Nat, from : Accounts]
    \cup [kind : {"RecoveredZK"}, id : Ids, doc : Docs, ver : Nat,
          owner : Accounts, recovery : Accounts, from : Accounts]
    \cup [kind : {"RootUpdated"}, root : Roots, epoch : Nat, from : Accounts]
    \cup [kind : {"TTSSMetaUpdated", "TraceResultPublished"}, id : Ids,
          ver : Nat, epoch : Nat, digest : Digests, from : Accounts]
    \cup [kind : {"RootUpdaterChanged"}, account : Accounts]

Emit(e) ==
    /\ Len(log) < MaxLog
    /\ log' = Append(log, e)

-----------------------------------------------------------------------------
(* The constructor and the external functions *)

Init ==
    /\ records = [id \in Ids |-> EmptyRecord]
    /\ rootUpdater \in Accounts
    /\ activeRoot = NoRoot
    /\ rootEpoch = 0
    /\ ttss = [id \in Ids |-> EmptyAnchor]
    /\ trace = [id \in Ids |-> EmptyAnchor]
    /\ log = <<>>

onlyRootUpdater(from) == from \in {rootUpdater, Admin}

setRootUpdater(from, newUpdater) ==
    /\ from = Admin
    /\ newUpdater # NoAddr
    /\ rootUpdater' = newUpdater
    /\ Emit(RootUpdaterChanged(newUpdater))
    /\ UNCHANGED <<records, activeRoot, rootEpoch, ttss, trace>>

\* Sensitivity variant of registerZK: the zero address is not rejected.
registerZKAnyAddress(id, doc, owner, recovery) ==
    /\ records[id].recovery = NoAddr
    /\ records[id].owner = NoAddr
    /\ ~records[id].active
    /\ records' = [records EXCEPT ![id] =
           [doc |-> doc, owner |-> owner, recovery |-> recovery,
            version |-> 0, active |-> TRUE]]
    /\ Emit(RegisteredZK(id, doc, owner, recovery))
    /\ UNCHANGED <<rootUpdater, activeRoot, rootEpoch, ttss, trace>>

registerZK(id, doc, owner, recovery) ==
    /\ records[id].recovery = NoAddr
    /\ records[id].owner = NoAddr
    /\ ~records[id].active
    /\ owner # NoAddr
    /\ recovery # NoAddr
    /\ records' = [records EXCEPT ![id] =
           [doc |-> doc, owner |-> owner, recovery |-> recovery,
            version |-> 0, active |-> TRUE]]
    /\ Emit(RegisteredZK(id, doc, owner, recovery))
    /\ UNCHANGED <<rootUpdater, activeRoot, rootEpoch, ttss, trace>>

\* Sensitivity variant of applyUpdateZK: any newer version is accepted.
applyUpdateZKAnyNewer(from, id, doc, newVersion) ==
    /\ records[id].active
    /\ from = records[id].owner
    /\ newVersion > records[id].version
    /\ records' = [records EXCEPT ![id] =
           [doc |-> doc, owner |-> @.owner, recovery |-> @.recovery,
            version |-> newVersion, active |-> @.active]]
    /\ Emit(UpdatedZK(id, doc, newVersion, from))
    /\ UNCHANGED <<rootUpdater, activeRoot, rootEpoch, ttss, trace>>

\* Sensitivity variant of applyUpdateZK: the recovery key may update as well.
applyUpdateZKByRecovery(from, id, doc, newVersion) ==
    /\ records[id].active
    /\ from \in {records[id].owner, records[id].recovery}
    /\ newVersion = records[id].version + 1
    /\ records' = [records EXCEPT ![id] =
           [doc |-> doc, owner |-> @.owner, recovery |-> @.recovery,
            version |-> newVersion, active |-> @.active]]
    /\ Emit(UpdatedZK(id, doc, newVersion, from))
    /\ UNCHANGED <<rootUpdater, activeRoot, rootEpoch, ttss, trace>>

applyUpdateZK(from, id, doc, newVersion) ==
    /\ records[id].active
    /\ from = records[id].owner
    /\ newVersion = records[id].version + 1
    /\ records' = [records EXCEPT ![id] =
           [doc |-> doc, owner |-> @.owner, recovery |-> @.recovery,
            version |-> newVersion, active |-> @.active]]
    /\ Emit(UpdatedZK(id, doc, newVersion, from))
    /\ UNCHANGED <<rootUpdater, activeRoot, rootEpoch, ttss, trace>>

\* Sensitivity variant of applyRecoveryRotateZK: the recovery key that was
\* just used up stays in force.
applyRecoveryRotateZKKeepsRecovery(from, id, doc, newVersion, newOwner, newRecovery) ==
    /\ records[id].active
    /\ from = records[id].recovery
    /\ newVersion = records[id].version + 1
    /\ newOwner # NoAddr
    /\ newRecovery # NoAddr
    /\ records' = [records EXCEPT ![id] =
           [doc |-> doc, owner |-> newOwner, recovery |-> @.recovery,
            version |-> newVersion, active |-> @.active]]
    /\ Emit(RecoveredZK(id, doc, newVersion, newOwner, newRecovery, from))
    /\ UNCHANGED <<rootUpdater, activeRoot, rootEpoch, ttss, trace>>

applyRecoveryRotateZK(from, id, doc, newVersion, newOwner, newRecovery) ==
    /\ records[id].active
    /\ from = records[id].recovery
    /\ newVersion = records[id].version + 1
    /\ newOwner # NoAddr
    /\ newRecovery # NoAddr
    /\ records' = [records EXCEPT ![id] =
           [doc |-> doc, owner |-> newOwner, recovery |-> newRecovery,
            version |-> newVersion, active |-> @.active]]
    /\ Emit(RecoveredZK(id, doc, newVersion, newOwner, newRecovery, from))
    /\ UNCHANGED <<rootUpdater, activeRoot, rootEpoch, ttss, trace>>

\* Sensitivity variant of setActiveRoot: the current epoch is accepted again.
setActiveRootSameEpoch(from, newRoot, newEpoch) ==
    /\ onlyRootUpdater(from)
    /\ newEpoch >= rootEpoch
    /\ activeRoot' = newRoot
    /\ rootEpoch' = newEpoch
    /\ Emit(RootUpdated(newRoot, newEpoch, from))
    /\ UNCHANGED <<records, rootUpdater, ttss, trace>>

setActiveRoot(from, newRoot, newEpoch) ==
    /\ onlyRootUpdater(from)
    /\ newEpoch > rootEpoch
    /\ activeRoot' = newRoot
    /\ rootEpoch' = newEpoch
    /\ Emit(RootUpdated(newRoot, newEpoch, from))
    /\ UNCHANGED <<records, rootUpdater, ttss, trace>>

\* Sensitivity variant of citesCurrent: an older root epoch passes.
citesAnyEpoch(from, id, ver, epoch) ==
    /\ onlyRootUpdater(from)
    /\ records[id].active
    /\ ver = records[id].version
    /\ epoch <= rootEpoch

\* The guards that setTTSSMeta and publishTraceResult share.
citesCurrent(from, id, ver, epoch) ==
    /\ onlyRootUpdater(from)
    /\ records[id].active
    /\ ver = records[id].version
    /\ epoch = rootEpoch

setTTSSMeta(from, id, ver, epoch, digest) ==
    /\ citesCurrent(from, id, ver, epoch)
    /\ ttss' = [ttss EXCEPT ![id] = [digest |-> digest, ver |-> ver, epoch |-> epoch]]
    /\ Emit(TTSSMetaUpdated(id, ver, epoch, digest, from))
    /\ UNCHANGED <<records, rootUpdater, activeRoot, rootEpoch, trace>>

publishTraceResult(from, id, ver, epoch, digest) ==
    /\ citesCurrent(from, id, ver, epoch)
    /\ trace' = [trace EXCEPT ![id] = [digest |-> digest, ver |-> ver, epoch |-> epoch]]
    /\ Emit(TraceResultPublished(id, ver, epoch, digest, from))
    /\ UNCHANGED <<records, rootUpdater, activeRoot, rootEpoch, ttss>>

Next ==
    \/ \E from \in Accounts, a \in Accounts \cup {NoAddr} : setRootUpdater(from, a)
    \/ \E id \in Ids, doc \in Docs :
        \E owner, recovery \in Accounts \cup {NoAddr} :
            \/ registerZK(id, doc, owner, recovery)
            \/ \E from \in Accounts, v \in 0..MaxLog :
                   applyRecoveryRotateZK(from, id, doc, v, owner, recovery)
    \/ \E from \in Accounts, id \in Ids, doc \in Docs, v \in 0..MaxLog :
           applyUpdateZK(from, id, doc, v)
    \/ \E from \in Accounts, root \in Roots, e \in 0..MaxEpoch :
           setActiveRoot(from, root, e)
    \/ \E from \in Accounts, id \in Ids, d \in Digests :
        \E v \in 0..MaxLog, e \in 0..MaxEpoch :
            \/ setTTSSMeta(from, id, v, e, d)
            \/ publishTraceResult(from, id, v, e, d)

Spec == Init /\ [][Next]_vars

-----------------------------------------------------------------------------
(* What the event log says *)

IsRecordEvent(e, id) ==
    /\ e.kind \in {"RegisteredZK", "UpdatedZK", "RecoveredZK"}
    /\ e.id = id

\* Events that name the controllers of an identity.
IsControlEvent(e, id) ==
    /\ e.kind \in {"RegisteredZK", "RecoveredZK"}
    /\ e.id = id

IsRootEvent(e) == e.kind = "RootUpdated"

IsAnchorEvent(e) == e.kind \in {"TTSSMetaUpdated", "TraceResultPublished"}

\* Event i is the last one before position n that satisfies P.
LastBefore(P(_), i, n) ==
    /\ i \in 1..(n - 1)
    /\ P(log[i])
    /\ \A k \in (i + 1)..(n - 1) : ~P(log[k])

Now == Len(log) + 1

-----------------------------------------------------------------------------
(* Properties *)

\* Type correctness of the contract's storage and of its event log.
TypeOK ==
    /\ records \in [Ids -> Record]
    /\ rootUpdater \in Accounts
    /\ activeRoot \in Roots \cup {NoRoot}
    /\ rootEpoch \in Nat
    /\ ttss \in [Ids -> Anchor]
    /\ trace \in [Ids -> Anchor]
    /\ log \in Seq(Event)

\* "Monotonic version": along the chain the record events of one identity
\* carry the versions 0, 1, 2, ... and none is newer than the record, so an
\* identity is registered once and no version is issued twice or left out.
VersionsInOrder ==
    \A j \in 1..Len(log), id \in Ids :
        IsRecordEvent(log[j], id) =>
            /\ records[id].active
            /\ log[j].ver <= records[id].version
            /\ \A i \in 1..(j - 1) :
                   IsRecordEvent(log[i], id) => log[i].ver < log[j].ver
            /\ log[j].ver > 0 =>
                   \E i \in 1..(j - 1) :
                       IsRecordEvent(log[i], id) /\ log[i].ver + 1 = log[j].ver

\* The events determine the storage: document and version are those of the
\* identity's last record event, the controllers those of its last control
\* event.  A service that replays the log in order needs nothing else.
LogDeterminesRecord ==
    \A id \in Ids :
        records[id].active =>
            /\ \E i \in 1..Len(log) :
                   /\ LastBefore(LAMBDA e : IsRecordEvent(e, id), i, Now)
                   /\ log[i].doc = records[id].doc
                   /\ log[i].ver = records[id].version
            /\ \E i \in 1..Len(log) :
                   /\ LastBefore(LAMBDA e : IsControlEvent(e, id), i, Now)
                   /\ log[i].owner = records[id].owner
                   /\ log[i].recovery = records[id].recovery

\* Every change is authorised by the control history: an update was sent by
\* the owner, and a rotation by the recovery key, that the last control event
\* before it named.  A controller that was rotated out can change nothing.
ControlFollowsHistory ==
    \A j \in 1..Len(log), id \in Ids :
        IsRecordEvent(log[j], id) /\ log[j].kind # "RegisteredZK" =>
            \E i \in 1..(j - 1) :
                /\ LastBefore(LAMBDA e : IsControlEvent(e, id), i, j)
                /\ log[j].from = IF log[j].kind = "UpdatedZK"
                                 THEN log[i].owner ELSE log[i].recovery

\* Root epochs strictly increase along the chain, so an epoch names at most
\* one root, and the active root is the one the last root event announced.
OneRootPerEpoch ==
    /\ \A j \in 1..Len(log) :
           IsRootEvent(log[j]) =>
               /\ log[j].epoch \in 1..rootEpoch
               /\ \A i \in 1..(j - 1) :
                      IsRootEvent(log[i]) => log[i].epoch < log[j].epoch
    /\ rootEpoch > 0 =>
           \E i \in 1..Len(log) :
               /\ LastBefore(IsRootEvent, i, Now)
               /\ log[i].root = activeRoot
               /\ log[i].epoch = rootEpoch

\* An anchored TTSS or trace digest cites the version of the identity and the
\* root epoch that were in force at its own place in the log: an anchor
\* prepared for an older snapshot is never accepted late.
AnchorsCiteLiveState ==
    \A j \in 1..Len(log), id \in Ids :
        IsAnchorEvent(log[j]) /\ log[j].id = id =>
            /\ \E i \in 1..(j - 1) :
                   /\ LastBefore(LAMBDA e : IsRecordEvent(e, id), i, j)
                   /\ log[i].ver = log[j].ver
            /\ \/ /\ log[j].epoch = 0
                  /\ \A i \in 1..(j - 1) : ~IsRootEvent(log[i])
               \/ \E i \in 1..(j - 1) :
                      /\ LastBefore(IsRootEvent, i, j)
                      /\ log[i].epoch = log[j].epoch
=============================================================================
