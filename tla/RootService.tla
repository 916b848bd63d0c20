----------------------------- MODULE RootService -----------------------------
(***************************************************************************)
(* The root machinery of the bulletin board service, bb_service_zk.js with *)
(* merkle_tree.js, on top of the contract: how identity records become     *)
(* mirror entries, leaves, anchored roots and cached paths, and how the    *)
(* passes that do this run beside each other on one event loop.            *)
(*                                                                         *)
(* Two passes may be in progress at a time: that of the rebuild worker     *)
(* (runRebuildWorker, guarded by rebuildInFlight) and that at the head of  *)
(* the inlineReadyRefreshSerial chain.  A pass is cut where the code       *)
(* awaits an answer of the node; between two awaits nothing interleaves.   *)
(*                                                                         *)
(* Abstractions.  A leaf is the version of its identity, a Merkle root is  *)
(* the leaves it commits to (hashing is injective and every identity has   *)
(* its own slot), so a root, a tree and a mirror are functions from Ids to *)
(* versions, with Absent where there is nothing.  A path is remembered     *)
(* with the leaves its siblings were computed from.  leafCache follows the *)
(* tree in the same step and is not kept apart.  Log positions stand for   *)
(* block numbers: every transaction is mined in a block of its own.        *)
(***************************************************************************)
EXTENDS Integers, Sequences, FiniteSets

CONSTANTS
    Ids,          \* identities
    Service,      \* the account of the service: deployer and root updater
    NoAddr, Doc, NoDoc, Digest, NoDigest,   \* of the contract
    NoRoot,       \* bytes32(0)
    NoPath,       \* no entry in pathCache
    Kinds,        \* what clients request beside the first registration
    Waits,        \* do clients wait for the settlement (wait=1)?
    Background,   \* what runs by itself under AUTO_REBUILD
    MaxVersion,   \* bound: highest version of a record
    MaxFaults,    \* bound: calls to the node that fail
    MaxKills,     \* bound: how often the process is killed
    MaxRecomputes, \* bound: calls of POST /recomputeRoot
    MaxQueue,     \* bound: repairs that GET requests have in the chain
    MaxLog        \* bound: transactions on the chain

Absent == -1
Versions == 0..MaxVersion
Leaves == [Ids -> Versions \cup {Absent}]
NoLeaves == [id \in Ids |-> Absent]

ASSUME ServiceAssumption ==
    /\ IsFiniteSet(Ids)
    /\ NoAddr # Service
    /\ NoRoot \notin Leaves
    /\ Kinds \subseteq {"RegisteredZK", "UpdatedZK", "RecoveredZK"}
    /\ Waits \subseteq BOOLEAN
    /\ Background \subseteq {"timer", "listeners"}
    /\ {MaxVersion, MaxFaults, MaxKills, MaxRecomputes, MaxQueue, MaxLog}
           \subseteq Nat

VARIABLES
    \* the contract
    records, rootUpdater, activeRoot, rootEpoch, ttss, trace, log,
    \* the memory of the service
    mirror,       \* state.mirror
    lastSynced,   \* state.meta.lastSyncedBlock
    tree,         \* treeCache: the leaves
    rootCache, chainCache,
    pathCache,
    bootstrapped, \* state.cacheBootstrapped
    cacheStale,
    inFlight,     \* state.rebuildInFlight
    dirty,        \* state.rebuildDirty
    fullSync,     \* state.fullSyncRequested
    queue,        \* the tasks chained on inlineReadyRefreshSerial
    pass,         \* pass[p]: the pass of the worker or of the chain's head
    timer,        \* what a run of the sanity timer has read
    heard,        \* heard[k]: log position up to which listener k was called
    req,          \* req[id]: the request whose answer the client waits for
    late,         \* late[id]: changes answered when sent, not settled yet
    \* history and bounds
    acked,        \* acked[id]: highest version a client was told is READY
    faults, kills, recomputes

chain == <<records, rootUpdater, activeRoot, rootEpoch, ttss, trace, log>>
caches == <<mirror, lastSynced, tree, rootCache, chainCache, pathCache,
            bootstrapped, cacheStale>>
control == <<inFlight, dirty, fullSync, queue, pass, timer, heard,
             req, late>>
history == <<acked, faults, kills, recomputes>>
vars == <<chain, caches, control, history>>

Board == INSTANCE DIDBoard WITH
    Accounts <- {Service}, Admin <- Service, Docs <- {Doc},
    Roots <- Leaves, Digests <- {Digest},
    MaxEpoch <- MaxLog

Passes == {"worker", "serial"}

IdlePass == [pc |-> "idle", kind |-> "none", full |-> FALSE, ids |-> {},
             from |-> 0, latest |-> 0, ver |-> Absent, root |-> NoRoot,
             epoch |-> 0, changed |-> FALSE]

NoReq == [pc |-> "none", ver |-> Absent, again |-> FALSE]
NoTimer == [on |-> FALSE, latest |-> 0, root |-> NoRoot, epoch |-> 0]
RecordKinds == {"RegisteredZK", "UpdatedZK", "RecoveredZK"}

\* The version the contract has for an identity.
OnChain(id) == IF records[id].active THEN records[id].version ELSE Absent

-----------------------------------------------------------------------------
(* Starting and restarting the process: bootstrap runs the worker with a   *)
(* full sync before anything else is served.  What loadState restores is   *)
(* replaced by that sync before it is read.                                *)

BootPass == [IdlePass EXCEPT !.pc = "sync", !.kind = "rebuild", !.full = TRUE]

Boot ==
    /\ mirror' = NoLeaves
    /\ lastSynced' = 0
    /\ tree' = NoLeaves
    /\ rootCache' = [root |-> NoRoot, epoch |-> 0]
    /\ chainCache' = [root |-> NoRoot, epoch |-> 0]
    /\ pathCache' = [id \in Ids |-> NoPath]
    /\ bootstrapped' = FALSE
    /\ cacheStale' = TRUE
    /\ inFlight' = TRUE
    /\ dirty' = FALSE
    /\ fullSync' = FALSE
    /\ queue' = <<>>
    /\ pass' = [p \in Passes |-> IF p = "worker" THEN BootPass ELSE IdlePass]
    /\ timer' = NoTimer
    /\ heard' = [k \in RecordKinds |-> 0]
    /\ req' = [id \in Ids |-> NoReq]
    /\ late' = [id \in Ids |-> {}]

Init ==
    /\ Board!Init
    /\ mirror = NoLeaves
    /\ lastSynced = 0
    /\ tree = NoLeaves
    /\ rootCache = [root |-> NoRoot, epoch |-> 0]
    /\ chainCache = [root |-> NoRoot, epoch |-> 0]
    /\ pathCache = [id \in Ids |-> NoPath]
    /\ bootstrapped = FALSE
    /\ cacheStale = TRUE
    /\ inFlight = TRUE
    /\ dirty = FALSE
    /\ fullSync = FALSE
    /\ queue = <<>>
    /\ pass = [p \in Passes |-> IF p = "worker" THEN BootPass ELSE IdlePass]
    /\ timer = NoTimer
    /\ heard = [k \in RecordKinds |-> 0]
    /\ req = [id \in Ids |-> NoReq]
    /\ late = [id \in Ids |-> {}]
    /\ acked = [id \in Ids |-> Absent]
    /\ faults = 0
    /\ kills = 0
    /\ recomputes = 0

-----------------------------------------------------------------------------
(* The mirror and the tree *)

\* Sensitivity variant of Replayed: registrations are applied last.
ReplayedRegistrationsLast(m, from, to) ==
    LET last(k, id) == {i \in from..to : log[i].kind = k /\ log[i].id = id}
        latest(k, id) == log[CHOOSE i \in last(k, id) :
                                 \A j \in last(k, id) : j <= i].ver
    IN  [id \in Ids |->
            IF last("RegisteredZK", id) # {} THEN 0
            ELSE IF last("RecoveredZK", id) # {} THEN latest("RecoveredZK", id)
            ELSE IF last("UpdatedZK", id) # {} THEN latest("UpdatedZK", id)
            ELSE m[id]]

\* What syncMirrorFromEventsIncremental makes of mirror m: it applies all
\* RegisteredZK events of the range, then all UpdatedZK, then all RecoveredZK.
Replayed(m, from, to) ==
    LET last(k, id) == {i \in from..to : log[i].kind = k /\ log[i].id = id}
        latest(k, id) == log[CHOOSE i \in last(k, id) :
                                 \A j \in last(k, id) : j <= i].ver
    IN  [id \in Ids |->
            IF last("RecoveredZK", id) # {} THEN latest("RecoveredZK", id)
            ELSE IF last("UpdatedZK", id) # {} THEN latest("UpdatedZK", id)
            ELSE IF last("RegisteredZK", id) # {} THEN 0
            ELSE m[id]]

\* recomputePathCacheForId: a path to id in tree t.
PathIn(t, id) ==
    IF t[id] = Absent THEN NoPath ELSE [leaves |-> t, root |-> t]

\* fullRebuildSparseTreeFromMirror: every leaf anew, paths of the given ids.
FullRebuild(m, ids) ==
    /\ tree' = m
    /\ pathCache' = [id \in Ids |-> IF id \in ids THEN PathIn(m, id) ELSE NoPath]

\* Sensitivity variant of IncrementalUpdate: the tree keeps no other leaves.
IncrementalUpdateForgetting(m, ids) ==
    /\ tree' = [id \in Ids |-> IF id \in ids \/ ~bootstrapped THEN m[id] ELSE Absent]
    /\ pathCache' = [id \in Ids |-> IF id \in ids THEN PathIn(tree', id)
                                     ELSE pathCache[id]]

\* incrementalUpdateTreeCacheFromMirror: the leaves and paths of the given ids.
IncrementalUpdate(m, ids) ==
    IF ~bootstrapped THEN FullRebuild(m, ids)
    ELSE LET t == [id \in Ids |-> IF id \in ids THEN m[id] ELSE tree[id]]
         IN  /\ tree' = t
             /\ pathCache' = [id \in Ids |-> IF id \in ids THEN PathIn(t, id)
                                             ELSE pathCache[id]]

-----------------------------------------------------------------------------
(* The steps of a pass *)

\* The block number arrives; a full sync empties the mirror at once.
ReadLatest(p) ==
    /\ pass[p].pc = "sync"
    /\ pass' = [pass EXCEPT ![p].pc = "apply", ![p].latest = Len(log),
                    ![p].from = IF pass[p].full THEN 1 ELSE lastSynced + 1]
    /\ mirror' = IF pass[p].full THEN NoLeaves ELSE mirror
    /\ UNCHANGED <<chain, lastSynced, tree, rootCache, chainCache, pathCache,
                   bootstrapped, cacheStale, inFlight, dirty, fullSync, queue,
                   timer, heard, req, late, history>>

\* Sensitivity variant of ApplyEvents: the synced position is the block number
\* after the queries, not the one the queries went up to.
ApplyEventsSkipping(p) ==
    /\ pass[p].pc = "apply"
    /\ mirror' = Replayed(mirror, pass[p].from, pass[p].latest)
    /\ lastSynced' = Len(log)
    /\ IF pass[p].full THEN FullRebuild(mirror', pass[p].ids)
                       ELSE IncrementalUpdate(mirror', pass[p].ids)
    /\ pass' = [pass EXCEPT ![p].pc = "readRoot", ![p].from = 0, ![p].latest = 0]
    /\ UNCHANGED <<chain, rootCache, chainCache, bootstrapped, cacheStale,
                   inFlight, dirty, fullSync, queue, timer, heard, req, late,
                   history>>

\* The events arrive: apply them and update the tree.
ApplyEvents(p) ==
    /\ pass[p].pc = "apply"
    /\ mirror' = Replayed(mirror, pass[p].from, pass[p].latest)
    /\ lastSynced' = IF pass[p].from <= pass[p].latest \/ pass[p].full
                     THEN pass[p].latest ELSE lastSynced
    /\ IF pass[p].full THEN FullRebuild(mirror', pass[p].ids)
                       ELSE IncrementalUpdate(mirror', pass[p].ids)
    /\ pass' = [pass EXCEPT ![p].pc = "readRoot", ![p].from = 0, ![p].latest = 0]
    /\ UNCHANGED <<chain, rootCache, chainCache, bootstrapped, cacheStale,
                   inFlight, dirty, fullSync, queue, timer, heard, req, late,
                   history>>

\* A repair reads one record instead ...
ReadRecord(p) ==
    /\ pass[p].pc = "refresh"
    /\ pass' = [pass EXCEPT ![p].pc = "patch",
                    ![p].ver = OnChain(CHOOSE id \in pass[p].ids : TRUE)]
    /\ UNCHANGED <<chain, caches, inFlight, dirty, fullSync, queue, timer,
                   heard, req, late, history>>

\* ... and patches its mirror entry and its leaf.
PatchRecord(p) ==
    /\ pass[p].pc = "patch"
    /\ mirror' = [id \in Ids |-> IF id \in pass[p].ids THEN pass[p].ver
                                 ELSE mirror[id]]
    /\ IncrementalUpdate(mirror', pass[p].ids)
    /\ pass' = [pass EXCEPT ![p].pc = "readRoot", ![p].ver = Absent]
    /\ UNCHANGED <<chain, lastSynced, rootCache, chainCache, bootstrapped,
                   cacheStale, inFlight, dirty, fullSync, queue, timer, heard,
                   req, late, history>>

\* pushRootIfChanged: activeRoot() is answered, ...
ReadRoot(p) ==
    /\ pass[p].pc = "readRoot"
    /\ pass' = [pass EXCEPT ![p].pc = "readEpoch", ![p].root = activeRoot]
    /\ UNCHANGED <<chain, caches, inFlight, dirty, fullSync, queue, timer,
                   heard, req, late, history>>

\* ... then rootEpoch(), and the tree is compared with the root.
ReadEpoch(p) ==
    /\ pass[p].pc = "readEpoch"
    /\ pass' = [pass EXCEPT ![p].pc = IF tree = pass[p].root THEN "claim" ELSE "send",
                    ![p].epoch = rootEpoch, ![p].changed = tree # pass[p].root]
    /\ UNCHANGED <<chain, caches, inFlight, dirty, fullSync, queue, timer,
                   heard, req, late, history>>

\* setActiveRoot with the tree as it is when the nonce is known.
SendRoot(p) ==
    /\ pass[p].pc = "send"
    /\ Board!setActiveRoot(Service, tree, pass[p].epoch + 1)
    /\ pass' = [pass EXCEPT ![p].pc = "mined", ![p].root = NoRoot]
    /\ UNCHANGED <<caches, inFlight, dirty, fullSync, queue, timer, heard,
                   req, late, history>>

\* The receipt: the tree of this moment is taken to be the anchored one.
Receipt(p) ==
    /\ pass[p].pc = "mined"
    /\ pass' = [pass EXCEPT ![p].pc = "claim", ![p].root = tree,
                            ![p].epoch = @ + 1]
    /\ UNCHANGED <<chain, caches, inFlight, dirty, fullSync, queue, timer,
                   heard, req, late, history>>

\* A block number later chainCache is set; pushRootIfChanged returns.
Claim(p) ==
    /\ pass[p].pc = "claim"
    /\ chainCache' = [root |-> pass[p].root, epoch |-> pass[p].epoch]
    /\ pass' = [pass EXCEPT ![p].pc = "finish", ![p].root = tree]
    /\ UNCHANGED <<chain, mirror, lastSynced, tree, rootCache, pathCache,
                   bootstrapped, cacheStale, inFlight, dirty, fullSync, queue,
                   timer, heard, req, late, history>>

\* updateAllOperationReadinessFromCache at the end of a pass and the answer of
\* a repair: every identity whose leaf is in the tree is READY at its version
\* when the caches agree; a path that is missing then is computed.
Told ==
    acked' = [id \in Ids |->
        IF rootCache' = chainCache' /\ tree[id] > acked[id] THEN tree[id]
        ELSE acked[id]]

\* Sensitivity variant of Conclude: cacheStale is not computed anew.
ConcludeStale(p) ==
    /\ chainCache' = IF pass[p].changed THEN chainCache
                     ELSE [root |-> pass[p].root, epoch |-> pass[p].epoch]
    /\ rootCache' = [root |-> tree, epoch |-> chainCache'.epoch]
    /\ pathCache' = [id \in Ids |->
           IF pass[p].kind = "repair" /\ id \in pass[p].ids THEN PathIn(tree, id)
           ELSE IF pathCache[id] = NoPath THEN NoPath
           ELSE [pathCache[id] EXCEPT !.root = tree]]
    /\ bootstrapped' = TRUE
    /\ Told
    /\ UNCHANGED <<mirror, lastSynced, tree, cacheStale>>

\* The caches at the end of a pass, and who is READY by them.  Every cached
\* path is said to belong to the new root; a repair computes the path of its
\* own identity anew.
Conclude(p) ==
    /\ chainCache' = IF pass[p].changed THEN chainCache
                     ELSE [root |-> pass[p].root, epoch |-> pass[p].epoch]
    /\ rootCache' = [root |-> tree, epoch |-> chainCache'.epoch]
    /\ pathCache' = [id \in Ids |->
           IF pass[p].kind = "repair" /\ id \in pass[p].ids THEN PathIn(tree, id)
           ELSE IF pathCache[id] = NoPath THEN NoPath
           ELSE [pathCache[id] EXCEPT !.root = tree]]
    /\ bootstrapped' = TRUE
    /\ cacheStale' = (rootCache' # chainCache')
    /\ Told
    /\ UNCHANGED <<mirror, lastSynced, tree>>

\* Sensitivity variant of FinishWorker: rebuildInFlight is not reset.
FinishWorkerInFlight ==
    /\ pass["worker"].pc = "finish"
    /\ Conclude("worker")
    /\ pass' = [pass EXCEPT !["worker"] =
           IF dirty THEN [BootPass EXCEPT !.full = fullSync] ELSE IdlePass]
    /\ fullSync' = IF dirty THEN FALSE ELSE fullSync
    /\ dirty' = FALSE
    /\ UNCHANGED <<chain, inFlight, queue, timer, heard, req, late, faults,
                   kills, recomputes>>

\* The last step of a pass of the worker: run again when dirty, else stop.
FinishWorker ==
    /\ pass["worker"].pc = "finish"
    /\ Conclude("worker")
    /\ pass' = [pass EXCEPT !["worker"] =
           IF dirty THEN [BootPass EXCEPT !.full = fullSync] ELSE IdlePass]
    /\ fullSync' = IF dirty THEN FALSE ELSE fullSync
    /\ dirty' = FALSE
    /\ inFlight' = dirty
    /\ heard' = IF bootstrapped \/ "listeners" \notin Background THEN heard
                ELSE [k \in RecordKinds |-> Len(log)]
    /\ UNCHANGED <<chain, queue, timer, req, late, faults, kills,
                   recomputes>>

\* The last step of the chain's head.  The request for which an inline pass
\* was made is answered; the pass of a late settlement answers nobody.
FinishSerial ==
    /\ pass["serial"].pc = "finish"
    /\ Conclude("serial")
    /\ pass' = [pass EXCEPT !["serial"] = IdlePass]
    /\ queue' = Tail(queue)
    /\ req' = IF Head(queue).kind = "inline"
              THEN [req EXCEPT ![Head(queue).id] = NoReq] ELSE req
    /\ UNCHANGED <<chain, inFlight, dirty, fullSync, timer, heard, late, faults,
                   kills, recomputes>>

-----------------------------------------------------------------------------
(* Passes that throw *)

Rejected(p) == pass[p].pc = "send" /\ rootEpoch >= pass[p].epoch + 1

Awaiting == {"sync", "refresh", "readRoot", "readEpoch", "send", "mined"}

\* The node is unreachable, or rejects a root epoch that was taken meanwhile.
Throws(p) ==
    \/ /\ Rejected(p)
       /\ UNCHANGED faults
    \/ /\ pass[p].pc \in Awaiting
       /\ faults < MaxFaults
       /\ faults' = faults + 1

\* What becomes of a request that failed: a registration with wait=1 goes to
\* the catch block of registerZk, the others are answered with the error.
Failed(r) == IF r.again THEN [NoReq EXCEPT !.pc = "caught"] ELSE NoReq

\* The chain goes on with the next task, the caches stay stale.
SerialThrows ==
    /\ Throws("serial")
    /\ pass' = [pass EXCEPT !["serial"] = IdlePass]
    /\ queue' = Tail(queue)
    /\ req' = IF Head(queue).kind = "inline"
              THEN [req EXCEPT ![Head(queue).id] = Failed(@)] ELSE req
    /\ UNCHANGED <<chain, caches, inFlight, dirty, fullSync, timer, heard, late,
                   acked, kills, recomputes>>

\* bootstrap exits; the handler of scheduleRebuild calls logError, which the
\* file does not define, and the unhandled rejection ends the process.  It is
\* started again.
WorkerThrows ==
    /\ Throws("worker")
    /\ Boot
    /\ UNCHANGED <<chain, acked, kills, recomputes>>

Kill ==
    /\ kills < MaxKills
    /\ kills' = kills + 1
    /\ Boot
    /\ UNCHANGED <<chain, acked, faults, recomputes>>

-----------------------------------------------------------------------------
(* What starts passes *)

\* Sensitivity variant of StartSerial: the caches are not marked stale.
StartSerialUnmarked ==
    /\ pass["serial"].pc = "idle"
    /\ queue # <<>>
    /\ ~inFlight
    /\ pass' = [pass EXCEPT !["serial"] =
           [IdlePass EXCEPT !.ids = {Head(queue).id}, !.kind = Head(queue).kind,
                !.pc = IF Head(queue).kind = "repair" THEN "refresh" ELSE "sync"]]
    /\ UNCHANGED <<chain, caches, inFlight, dirty, fullSync, queue, timer,
                   heard, req, late, history>>

\* The next task of the chain has waited for the worker.
StartSerial ==
    /\ pass["serial"].pc = "idle"
    /\ queue # <<>>
    /\ ~inFlight
    /\ cacheStale' = TRUE
    /\ pass' = [pass EXCEPT !["serial"] =
           [IdlePass EXCEPT !.ids = {Head(queue).id}, !.kind = Head(queue).kind,
                !.pc = IF Head(queue).kind = "repair" THEN "refresh" ELSE "sync"]]
    /\ UNCHANGED <<chain, mirror, lastSynced, tree, rootCache, chainCache,
                   pathCache, bootstrapped, inFlight, dirty, fullSync, queue,
                   timer, heard, req, late, history>>

\* scheduleRebuild without affected ids: start the worker or mark it dirty.
ScheduleRebuild(full) ==
    IF inFlight
    THEN /\ dirty' = TRUE
         /\ fullSync' = (fullSync \/ full)
         /\ UNCHANGED <<pass, cacheStale, inFlight>>
    ELSE /\ pass' = [pass EXCEPT !["worker"] =
                [BootPass EXCEPT !.full = fullSync \/ full]]
         /\ cacheStale' = TRUE
         /\ inFlight' = TRUE
         /\ dirty' = FALSE
         /\ fullSync' = FALSE

\* The sanity timer, unless the worker runs, reads the chain ...
TimerReads ==
    /\ "timer" \in Background
    /\ bootstrapped
    /\ ~inFlight
    /\ ~timer.on
    /\ timer' = [on |-> TRUE, latest |-> Len(log), root |-> activeRoot,
                 epoch |-> rootEpoch]
    /\ UNCHANGED <<chain, caches, inFlight, dirty, fullSync, queue, pass,
                   heard, req, late, history>>

\* ... and compares what it read with the caches.
TimerActs ==
    /\ timer.on
    /\ timer' = NoTimer
    /\ chainCache' = [root |-> timer.root, epoch |-> timer.epoch]
    /\ LET mismatch == timer.root # rootCache.root
       IN  IF timer.latest > lastSynced \/ mismatch
           THEN ScheduleRebuild(mismatch)
           ELSE UNCHANGED <<inFlight, dirty, fullSync, pass, cacheStale>>
    /\ UNCHANGED <<chain, mirror, lastSynced, tree, rootCache, pathCache,
                   bootstrapped, queue, heard, req, late, history>>

\* POST /recomputeRoot.
RecomputeRoot ==
    /\ recomputes < MaxRecomputes
    /\ recomputes' = recomputes + 1
    /\ bootstrapped
    /\ ScheduleRebuild(TRUE)
    /\ UNCHANGED <<chain, mirror, lastSynced, tree, rootCache, chainCache,
                   pathCache, bootstrapped, queue, timer, heard, req, late,
                   acked, faults, kills>>

\* A listener is called with the next event of its kind.
Hear(k) ==
    /\ "listeners" \in Background
    /\ bootstrapped
    /\ \E i \in (heard[k] + 1)..Len(log) :
        /\ log[i].kind = k
        /\ \A j \in (heard[k] + 1)..(i - 1) : log[j].kind # k
        /\ heard' = [heard EXCEPT ![k] = i]
        /\ mirror' = [mirror EXCEPT ![log[i].id] = log[i].ver]
    /\ UNCHANGED <<chain, lastSynced, tree, rootCache, chainCache, pathCache,
                   bootstrapped, cacheStale, inFlight, dirty, fullSync, queue,
                   pass, timer, req, late, history>>

-----------------------------------------------------------------------------
(* Requests.  A client that waits (wait=1) has one request under way for its *)
(* identity; one that does not may send the next change at any time.         *)

\* The transaction of POST /registerZk, /applyUpdateZk or
\* /applyRecoveryRotateZk that gives the record version v.
Change(id, v) ==
    \/ v = 0 /\ Board!registerZK(id, Doc, Service, Service)
    \/ /\ OnChain(id) # Absent
       /\ v = OnChain(id) + 1
       /\ \/ "UpdatedZK" \in Kinds /\ Board!applyUpdateZK(Service, id, Doc, v)
          \/ "RecoveredZK" \in Kinds
             /\ Board!applyRecoveryRotateZK(Service, id, Doc, v, Service, Service)

\* Sensitivity variant of Submit: a transaction that was sent counts as mined,
\* even when it reverts.
SubmitUnchecked(id) ==
    /\ bootstrapped
    /\ req[id].pc = "none"
    /\ req' = [req EXCEPT ![id] =
           [pc |-> "mined", ver |-> OnChain(id) + 1, again |-> FALSE]]
    /\ OnChain(id) < MaxVersion
    /\ UNCHANGED <<chain, caches, inFlight, dirty, fullSync, queue, pass,
                   timer, heard, late, history>>

\* The transaction is sent and mined.  With wait=1 the client is answered after
\* the settlement; without, now, and the change is settled later.
Submit(id) ==
    /\ bootstrapped
    /\ \E v \in Versions, wait \in Waits :
           /\ Change(id, v)
           /\ \/ /\ wait
                 /\ req[id].pc = "none"
                 /\ req' = [req EXCEPT ![id] =
                               [pc |-> "mined", ver |-> v, again |-> v = 0]]
                 /\ UNCHANGED late
              \/ /\ ~wait
                 /\ late' = [late EXCEPT ![id] = @ \cup {v}]
                 /\ UNCHANGED req
    /\ UNCHANGED <<caches, inFlight, dirty, fullSync, queue, pass, timer,
                   heard, history>>

\* waitForTxAndRefresh after the receipt: patch the mirror entry with what the
\* request wrote, join the chain of inline refreshes.
Settle(id) ==
    /\ req[id].pc = "mined"
    /\ mirror' = [mirror EXCEPT ![id] = req[id].ver]
    /\ queue' = Append(queue, [kind |-> "inline", id |-> id])
    /\ req' = [req EXCEPT ![id].pc = "queued"]
    /\ UNCHANGED <<chain, lastSynced, tree, rootCache, chainCache, pathCache,
                   bootstrapped, cacheStale, inFlight, dirty, fullSync, pass,
                   timer, heard, late, history>>

\* The same of a change that was answered before (scheduleTxSettlement),
\* whatever has happened to the record since.
LateSettle(id) ==
    \E v \in late[id] :
        /\ mirror' = [mirror EXCEPT ![id] = v]
        /\ queue' = Append(queue, [kind |-> "late", id |-> id])
        /\ late' = [late EXCEPT ![id] = @ \ {v}]
        /\ UNCHANGED <<chain, lastSynced, tree, rootCache, chainCache, pathCache,
                       bootstrapped, cacheStale, inFlight, dirty, fullSync,
                       pass, timer, heard, req, history>>

\* The receipt never arrives.
SettleFails(id) ==
    /\ faults < MaxFaults
    /\ faults' = faults + 1
    /\ \/ /\ req[id].pc = "mined"
          /\ req' = [req EXCEPT ![id] = Failed(@)]
          /\ UNCHANGED late
       \/ \E v \in late[id] :
             /\ late' = [late EXCEPT ![id] = @ \ {v}]
             /\ UNCHANGED req
    /\ UNCHANGED <<chain, caches, inFlight, dirty, fullSync, queue, pass,
                   timer, heard, acked, kills, recomputes>>

\* A registration is sent for an identity that has a record: it reverts, for
\* wait=0 as for wait=1 before the answer, and the catch block of registerZk
\* reads the record.  (A record never goes away, and if the read fails nothing
\* has changed: so both are one step.)
Reregister(id) ==
    /\ "RegisteredZK" \in Kinds
    /\ bootstrapped
    /\ req[id].pc = "none"
    /\ OnChain(id) # Absent
    /\ req' = [req EXCEPT ![id].pc = "fetched", ![id].ver = OnChain(id)]
    /\ UNCHANGED <<chain, caches, inFlight, dirty, fullSync, queue, pass,
                   timer, heard, late, history>>

\* After a failed settlement too the catch block reads the record ...
CatchReads(id) ==
    /\ req[id].pc = "caught"
    /\ \/ /\ req' = [req EXCEPT ![id].pc = "fetched", ![id].ver = OnChain(id)]
          /\ UNCHANGED faults
       \/ /\ faults < MaxFaults
          /\ faults' = faults + 1
          /\ req' = [req EXCEPT ![id] = NoReq]
    /\ UNCHANGED <<chain, caches, inFlight, dirty, fullSync, queue, pass,
                   timer, heard, late, acked, kills, recomputes>>

\* ... and, outside the chain of inline refreshes, writes what it has read
\* into the mirror before it joins that chain.
CatchPatches(id) ==
    /\ req[id].pc = "fetched"
    /\ mirror' = [mirror EXCEPT ![id] = req[id].ver]
    /\ queue' = Append(queue, [kind |-> "inline", id |-> id])
    /\ req' = [req EXCEPT ![id].pc = "queued"]
    /\ UNCHANGED <<chain, lastSynced, tree, rootCache, chainCache, pathCache,
                   bootstrapped, cacheStale, inFlight, dirty, fullSync, pass,
                   timer, heard, late, history>>

\* Sensitivity variant of NeedsRepair: only cacheStale counts.
NeedsRepairWhenStale(id, path, seen) == cacheStale

\* snapshotNeedsRepair, given a path entry and, unless reading it failed, the
\* record on the chain.
NeedsRepair(id, path, seen) ==
    \/ cacheStale
    \/ /\ seen
       /\ OnChain(id) # Absent
       /\ \/ tree[id] < OnChain(id)
          \/ path = NoPath
          \/ path.root # rootCache.root

\* GET /leaf, /path, /readySnapshot or /registerStatus: a missing path is
\* computed when the caches are not stale; a snapshot that needs repair is
\* queued for it, any other is READY at the version of its leaf.  (A repair
\* that did not suffice is repeated once: that is another Get.)
Get(id) ==
    /\ bootstrapped
    /\ \E seen \in BOOLEAN :
        LET path == IF pathCache[id] = NoPath /\ ~cacheStale THEN PathIn(tree, id)
                    ELSE pathCache[id]
        IN  /\ IF seen THEN UNCHANGED faults
                       ELSE faults < MaxFaults /\ faults' = faults + 1
            /\ pathCache' = [pathCache EXCEPT ![id] = path]
            /\ IF NeedsRepair(id, path, seen)
               THEN /\ Cardinality({i \in 1..Len(queue) : queue[i].kind = "repair"})
                          < MaxQueue
                    /\ queue' = Append(queue, [kind |-> "repair", id |-> id])
                    /\ UNCHANGED acked
               ELSE /\ acked' = [acked EXCEPT ![id] =
                           IF path # NoPath /\ path.root = rootCache.root
                              /\ tree[id] > @ THEN tree[id] ELSE @]
                    /\ UNCHANGED queue
    /\ UNCHANGED <<chain, mirror, lastSynced, tree, rootCache, chainCache,
                   bootstrapped, cacheStale, inFlight, dirty, fullSync, pass,
                   timer, heard, req, late, kills, recomputes>>

-----------------------------------------------------------------------------

PassStep(p) ==
    \/ ReadLatest(p) \/ ApplyEvents(p) \/ ReadRecord(p) \/ PatchRecord(p)
    \/ ReadRoot(p) \/ ReadEpoch(p) \/ SendRoot(p) \/ Receipt(p) \/ Claim(p)

Serial == PassStep("serial") \/ FinishSerial \/ SerialThrows \/ StartSerial
Worker == PassStep("worker") \/ FinishWorker \/ WorkerThrows

Next ==
    \/ Serial
    \/ Worker
    \/ Kill
    \/ TimerReads \/ TimerActs \/ RecomputeRoot
    \/ \E k \in RecordKinds : Hear(k)
    \/ \E id \in Ids :
           \/ Submit(id) \/ Settle(id) \/ LateSettle(id) \/ SettleFails(id)
           \/ Reregister(id) \/ CatchReads(id) \/ CatchPatches(id)
           \/ Get(id)

\* The event loop runs what is ready, transactions are settled, the interval
\* timer keeps firing and clients poll /readySnapshot.
Fairness ==
    /\ WF_vars(Serial)
    /\ WF_vars(Worker)
    /\ WF_vars(TimerReads) /\ WF_vars(TimerActs)
    /\ \A id \in Ids :
           /\ WF_vars(Settle(id)) /\ WF_vars(LateSettle(id))
           /\ WF_vars(CatchReads(id)) /\ WF_vars(CatchPatches(id))
           /\ WF_vars(Get(id))

Spec == Init /\ [][Next]_vars /\ Fairness

-----------------------------------------------------------------------------
(* Properties *)

\* Type correctness of the service's memory.
TypeOK ==
    /\ {mirror, tree} \subseteq Leaves
    /\ lastSynced \in 0..Len(log)
    /\ {rootCache, chainCache} \subseteq [root : Leaves \cup {NoRoot}, epoch : Nat]
    /\ \A id \in Ids : pathCache[id] \in {NoPath} \cup [leaves : Leaves, root : Leaves]
    /\ inFlight = (pass["worker"].pc # "idle")
    /\ dirty => inFlight
    /\ pass["serial"].pc # "idle" => queue # <<>>
    /\ \A id \in Ids :
           req[id].ver \in Versions \cup {Absent} /\ late[id] \subseteq Versions

\* When the caches are served they are the chain's: root and epoch are the
\* active ones, the believed chain state is the real one, and the leaves that
\* are handed out are those the root commits to.
ServedRootIsActive ==
    ~cacheStale =>
        /\ rootCache = [root |-> activeRoot, epoch |-> rootEpoch]
        /\ chainCache = rootCache
        /\ tree = activeRoot

\* A version that was reported READY stays anchored: no later root, of
\* whatever pass and after whatever restart, carries an older one.  (When
\* clients wait for the settlement; the settlement of a change that was
\* answered before writes its own version over a newer one.)
ReadyStaysAnchored ==
    \A id \in Ids : acked[id] # Absent => activeRoot[id] >= acked[id]

\* A root is never ahead of the chain: every leaf it carries is a version the
\* contract has issued, whether it came from an event, from a record or from
\* the transaction the service has just sent.
AnchoredLeavesExist ==
    activeRoot # NoRoot => \A id \in Ids : activeRoot[id] <= OnChain(id)

\* From one root to the next no identity disappears or goes back, when clients
\* wait for the settlement.
RootsOnlyGrow ==
    [][\A id \in Ids : activeRoot # NoRoot => activeRoot[id] <= activeRoot'[id]]_activeRoot

\* The path that is served for an identity leads from its leaf to the root
\* that is served with it.
ServedPathsAuthenticate ==
    \A id \in Ids :
        ~cacheStale /\ pathCache[id] # NoPath /\ pathCache[id].root = rootCache.root
        => pathCache[id].leaves = rootCache.root

\* The root and epoch that are served together were active together.
ServedRootWasActive ==
    ~cacheStale =>
        \E i \in 1..Len(log) :
            /\ log[i].kind = "RootUpdated"
            /\ log[i].root = rootCache.root
            /\ log[i].epoch = rootCache.epoch

\* Once all events of an identity are in the synced range, its mirror entry
\* is the contract's record, whichever of the service's three ways to write it
\* (event, record, own transaction) came last.  (When clients wait for the
\* settlement.)
MirrorFollowsChain ==
    \A id \in Ids :
        (\A i \in (lastSynced + 1)..Len(log) :
            log[i].kind \in RecordKinds => log[i].id # id)
        /\ (\A p \in Passes : pass[p].pc # "apply" \/ ~pass[p].full)
        => mirror[id] = OnChain(id)

\* Convergence: although passes overlap and some are rejected, in the end, as
\* long as clients ask and the timer runs, the caches are served for good, and
\* their root, the active root and the contract's records agree.  (The epoch
\* in rootCache need not: nothing compares it with the chain's again.)
ConvergesToChain ==
    <>[](/\ ~cacheStale
         /\ rootCache.root = activeRoot
         /\ \A id \in Ids : activeRoot[id] = OnChain(id))

\* Nobody waits for ever on anybody: who waits for an answer gets one,
\* although the chain waits for the worker and its predecessors may throw.
RequestsAnswered ==
    \A id \in Ids : req[id].pc # "none" ~> req[id].pc = "none"
=============================================================================
