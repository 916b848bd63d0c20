# Formal models of DID_VC

This directory holds TLA+ models of DID_VC, a DID / verifiable-credential system
with anonymous authentication: identity records on a contract, a service that
turns them into a Merkle root and inclusion paths, committees that keep threshold
shares, and a command-line client. TLC checks the models on small instances;
TLAPS proves the theorems of the `*Proofs` modules for every value of the
constants. Paths below are relative to `src/`.

## 1. Inventory of the system

| part | state | operations | talks to |
|---|---|---|---|
| Contract `hardhat/contracts/DIDBulletinBoardZK.sol` | records, rootUpdater, activeRoot, rootEpoch, TTSS and trace anchors, event log | setRootUpdater, registerZK, applyUpdateZK, applyRecoveryRotateZK, setActiveRoot, setTTSSMeta, publishTraceResult | called by the service; read through events and getters |
| Service, root machinery `hardhat/bb_service_zk.js`, `merkle_tree.js` | mirror, lastSyncedBlock, treeCache, leafCache, pathCache, rootCache, chainCache, cacheStale, rebuild flags, inline chain | syncMirrorFromEventsIncremental, pushRootIfChanged, performRebuildPass, runRebuildWorker, runInlineReadyRefresh, forceRefreshSnapshotForId, listeners, sanity timer | contract (await), routes (calls) |
| Service, transaction lock | addrLock, addrLockStats | withAddrLock, sendContractTxLocked | every route that sends |
| Service, operations | ops, requestToOp | createOperation, updateOperation, failOperation, prune, refresh | routes, passes |
| Routes `routes_register.js`, `routes_ttss.js`, `routes_trace.js` | key slots, TTSS and trace anchors | registerZk, applyUpdateZk, applyRecoveryRotateZk, registerTTSSMeta, applyRecoveryRotateTTSS, publishTrace, GETs | lock, root machinery, operations |
| State file `state_store.js` | the JSON file, flush flags | load, schedule and flush | all of the service |
| Committee node `cpp/committee_node.cpp` | shares, versions, invalidations (memory only) | setShareEnvelope, serve, invalidate | client |
| Client flows `cpp/ttss_*_flow.cpp`, `zk_auth_flow.cpp`, `http_client.cpp` | identity state files, keys in memory | set-up, rotate, trace, authenticate | service, committees, verifier |
| TTSS algorithms `cpp/ttss_nits_shamir.cpp`, `ttss_trace.cpp`, `share_envelope.cpp` | none | share, pack, reconstruct, trace | flows |
| Harness `pirate_box.js`, `tracer_client.js`, `zk_verify_service.js`, circuits, experiments | | | |

What is hard, and what makes each part correct:

* The contract must keep an event log from which everything else can be rebuilt:
  versions without gaps or repetition, control that only the current controllers
  pass on, one root per epoch, anchors that cite the state in force.
* The service is one event loop with `await` everywhere. A rebuild worker, a chain
  of inline refreshes, forced repairs of GETs, three listeners and a timer write
  the same mirror, tree and caches. What is served must be the chain's root with its
  epoch, with leaves and paths that belong to it; roots must not lose identities or go
  back; requests must be answered; after a restart all this must come back.
* The transaction lock must keep the order of arrival, never let two requests share
  a nonce, and be released on every error path.
* Operations are found by request key and must reach a final state that tells the truth.
* The client flows cross several services without a transaction: rotation
  recovers the old keys, rotates on the chain, invalidates old shares and
  distributes new ones, and may stop anywhere between. At no time may two share sets
  exist that give a seed each, and what a run that ended well leaves must stay usable.
* A proof is made from a root, a path, a leaf and an epoch that come from separate
  requests to a service whose tree moves. What is accepted must be about one tree,
  and a replaced key must be dead.
* The threshold scheme must give the seed to any T guardians and nothing to fewer, must
  refuse what was altered, and its tracing must name those who leaked and no one else.

`PROJECT.json` lists every component with its status and every hazard with its line.

## 2. Modules

| module | models | composition |
|---|---|---|
| `DIDBoard` | the contract | |
| `DIDBoardProofs` | theorems about it | EXTENDS DIDBoard |
| `AddrLock` | the transaction lock | |
| `AddrLockProofs` | theorems about it | EXTENDS AddrLock |
| `RootService` | the root machinery over the contract | INSTANCE DIDBoard |
| `RootServiceProofs` | theorems about it: whatever runs beside a pass, and without background work | EXTENDS RootService |
| `CommitteeNode` | the store of the committee nodes and its handlers | |
| `ShareCustody` | abstract: what the committee promises about an identity's seed | |
| `TtssFlow` | set-up, recovery and rotation of the client, over nodes and service | EXTENDS CommitteeNode, refines ShareCustody |
| `TtssFlowProofs` | theorems about it: custody, and the refinement | EXTENDS TtssFlow |
| `TtssKeepProofs` | theorems about it: what a good run leaves, and failures | EXTENDS TtssFlowProofs |
| `ShamirField` | field arithmetic, interpolation and packing | |
| `ShamirFieldProofs` | theorems about it: inverses, interpolation, secrecy of a constant, packing | EXTENDS ShamirField |
| `TtssShares` | dealing, envelopes, recovery | EXTENDS ShamirField |
| `TtssTrace` | the pirate box and the two tracers | EXTENDS TtssShares |
| `TtssTraceProofs` | theorems about shares, recovery, the box and the tracers | EXTENDS TtssTrace, ShamirFieldProofs |
| `SessionBundle` | Merkle path, witness, session and what a verifier accepts | |
| `ClientAuth` | authentication and recovery of the client, over the service | EXTENDS SessionBundle |
| `ClientAuthProofs` | theorems about it | EXTENDS ClientAuth |
| `MC*` | what TLC needs to instantiate a module (symmetry sets) | |

A definition whose comment says "sensitivity variant of X" is X with a mistake in it.
No run uses it; it serves to check that a property notices the mistake.

### DIDBoard

One action per external function; a revert is a disabled action, as it changes
nothing. cid and the two key hashes move together and are one document; the
hashes of an anchor are one digest. Events are kept in `log` in chain order and
carry msg.sender. `MaxLog` and `MaxEpoch` bound the instance; the theorems hold for
every value of both.

### AddrLock

A call is one execution of `sendContractTxLocked`; `Enqueue` is everything up to
`await prev`, `Acquire` what follows it, `ReadNonce` and `SendAccepted` /
`SendNonceTaken` / `SendFails` the retry loop, and `Release` the finally block. The map
of promises is a map to calls, since the promise of a call is resolved when the call has
released and its predecessor had resolved. The node is external: it accepts the next
nonce only, an answer may be lost, and an outsider with the same key may take nonces.
`ticket` and `arrivals` are history.

### RootService

A pass is cut at its awaits, and every cut is an action:

    ReadLatest -> ApplyEvents          syncMirrorFromEventsIncremental and the tree update
    ReadRecord -> PatchRecord          the same of a forced repair
    ReadRoot -> ReadEpoch              pushRootIfChanged, the comparison
      -> SendRoot -> Receipt           setActiveRoot and its receipt
      -> Claim                         what it then believes of the chain
    FinishWorker / FinishSerial        caches, readiness, the next round or task

`pass["worker"]` is the pass of the rebuild worker and `pass["serial"]` the head of the
inline chain: these two, and only these two, run beside each other. `Throws` is a
failing call of the node or an epoch rejected by the contract; `SettleFails` a
receipt that does not arrive. `Kill` and `WorkerThrows` restart the process with a
full sync, which is all a restart comes to here: what the state file restores of
the mirror is emptied before it is read.

A change is sent and mined in `Submit`. A client with wait=1 is answered after its
settlement (`Settle`, and the pass that `Settle` puts into the inline chain) and has one
request of an identity under way. A client with wait=0, the default of the routes and of the
C++ client, is answered at once; the change joins `late`, any number of further changes of the identity
may be sent, and `LateSettle` settles them in any order, each writing its own version into the mirror.
`Waits` says which clients there are. (Several clients that wait but change one identity at the
same time settle like those that do not.) A registration that throws, because the settlement failed with
wait=1 or because the identity has a record (`Reregister`, which no wait prevents), goes through the catch
block of the route: it reads the record (`CatchReads`; in `Reregister` that is the same step), and `CatchPatches`
writes it into the mirror beside the inline chain and then joins it.

Abstractions: a leaf is the version of its record, a root is the function of leaves it
commits to (Poseidon is taken to be injective and an identity to have a slot of its own), a
path remembers the leaves its siblings were computed from. Every transaction has its own
block. The three queries of a timer run, and the record and the cache check of a GET, are
one step each. Reading the three event lists is one query. `leafCache` follows the tree.
`yieldImmediate` inside the tree update is not a cut (it happens every REBUILD_CHUNK
leaves only). A GET asks for no more than the record has (a minVersion above it only
queues more repairs), and the second forced repair of a GET is another `Get`. `MaxLog` bounds the transactions on the chain, of which the other bounds allow
fewer than the 99 that the runs give it: the bound is there so that the service's chain is
the chain of `DIDBoard`, to the letter.

### CommitteeNode, ShareCustody, TtssFlow

A node is the map of `CommitteeStore`: every handler takes the mutex once and is one step.
`shares[g]` holds the envelopes of node g, keyed by version and epoch; a deal is version, epoch
and the seed its shares were cut from. The store is not persisted, so `RestartNode`
empties it.

`pc` walks through the phases of `run_ttss_setup`, `run_ttss_recover` and
`run_ttss_recover_and_rotate`:

    setup    post -> wait -> check -> distribute -> verify -> meta -> metapost
             -> metawait -> save
    recover  fetch
    rotate   fetch -> post -> wait -> invalidate -> distribute -> verify -> meta
             -> metapost -> metawait -> validate -> save -> compare

In `invalidate`, `distribute` and `verify` there is one task per node (std::async); each
answers or fails on its own and `Joined` is the loop over the futures. Keys are
reused by no two runs, so a run's number is its seed. Of the service there are the routes'
decisions by request key (`TakePost`), its transactions (`Mine*`, `MetaReverts`, `TxFails`), the
deferred attach of the anchor (`Settle`), and the tree taking the record in (`PushRoot`). What can
go wrong is one disjunction, `Misfortune`, counted by `faults`. A request whose sender gave up, or
died, stays in `late` and may reach the node at any later time.

`ShareCustody` has the version on the board and the one deal that can be rebuilt. `TtssFlow`
refines it with `custody` being the deal of which T nodes serve a share: `CustodySpec`.

### ShamirField, TtssShares, TtssTrace

The algorithms are written for a prime `2^ChunkBits + 1` and `ChunkCount` chunks packed into bytes
of `ByteBits` bits. The code has 16, 16 and 8; a chunk's share needs one bit more
than the chunk in both. `FieldAssumption` is what is used of these numbers: 65537 is a prime, and
16 elements of 17 bits fill 34 bytes. `PowMod`, `PolyEval`, the packing and the sums are the code's
loops, as recursive functions and folds. Hashes are injective records: SHA-256, the derivation of coefficients
and x values from `rho` (a random oracle, whose answers are enumerated by the constant
`Rhos`), and the signature of an envelope. The code's polynomials have `rho`'s coefficients and the
seed as constant term; a repeated x is drawn again up to the limit of candidates.

`TtssTrace` has the box that the leaking guardians fed (`pirate_box.js`), queries of the
tracer with the honest shares that could be fetched, and the two computations of a result:
`ScriptResult` (`tracer_client.js`) and `LibraryResult` (`ttss_trace.cpp`), with
`TVerify`, which both go through. `Ascend` is the sorting of indexes and roots in either, and
`Part` the choice of some positions of a sequence; both say by cardinality what the result is.
`Alterations` change any field of an envelope and leave its signature alone. The key that signs is carried
inside the envelope (`ttss_nits_shamir.cpp:303`), so who alters an envelope can sign it anew and it is accepted;
`OnlyIntactSharesUsed` says nothing of that.

### SessionBundle, ClientAuth

A leaf is the key generation and version it was computed from; a root is the pair of its
children. `RootFromPath`, `PathFits` and `VerifyError` have the order of
`compute_root_from_path`, `verify_merkle_path_local` and `verify_bundle_with_session`.

`ClientAuth` runs `run_one_zk_auth_round` and `run_zk_recovery_e2e`:

    post -> poll -> ask -> root -> path -> leaf -> check          authentication
      check -> rotatepost -> record -> newroot -> ask -> ...      recovery

`root`, `path` and `leaf` are the requests of `materialize_ready_snapshot_outputs`, and the
service may rebuild its tree between any two. `fast` is the fast path: the root named in
the answer to the post is used and the poll skipped. Of the service there are the
records and the tree of two identities, the cached sibling, passes (`StartPass`, `EndPass`) and the
routes with their operations; a registration with wait=0 is answered when mined and settled later
(`IsLate`). `EndPass` takes one record into the tree and serves the new root with its epoch. That is how the
service behaves while its passes do not overlap, and not otherwise; what else
the client may see of it are two misfortunes, which the history variable `strayed` remembers:

* `"back"`: the tree goes back to the older leaf of the identity (`GoesBack`), as after the late
  settlement of `root_back` or after overlapping passes;
* `"mixed"`: a root is served with the epoch of another (`EndPassMixed`), as in `root_phantom`.

When the old bundle is still accepted for the new root, the run goes on as in the code and its
`exit` is settled to be a failure (`NewRootSeen`). A tree of two leaves has paths of one level; the
theorems are about that tree, and `RootFromPath` is written for any length.

## 3. Runs

| run | instance | question |
|---|---|---|
| `board` | 2 identities, 2 accounts, 4 events, epochs to 2 | does every history keep log, records, controllers, epochs and anchors together? |
| `addr_lock` | 3 calls, 2 wallets, 2 attempts, 2 outside transactions per wallet | order, nonces, statistics, and that every call settles |
| `root_serial` | 2 identities, versions to 1, rotations and repeated registrations, clients that wait, 1 fault, 1 kill, no background tasks | served root, READY promises, mirror, growth of roots |
| `root_overlap` | 1 identity, timer, listeners, 1 forced recomputation | overlap of the two passes: convergence, answers |
| `root_unwaited` | 1 identity, versions to 2, clients that do not wait, updates and rotations, 1 fault, no background tasks | late settlements in any order: served root, anchored leaves, convergence |
| `root_paths` | 2 identities, no background tasks | violated: cached paths of other identities |
| `root_phantom` | 1 identity, timer | violated: root and epoch served together |
| `root_order` | 1 identity, versions to 2, 1 kill | violated: replay of a rotation and an update |
| `root_back` | 1 identity, versions to 1, clients that do not wait, no fault | violated: READY stays anchored |
| `ttss_flow` | 3 nodes, T = 2, 3 runs of the client, 3 misfortunes | custody of the seed, usable results, failure only for a reason, termination, refinement of ShareCustody |
| `ttss_shares` | 4 guardians, T = 3, field of 5, 2 chunks, 2 seeds, 3 choices of `rho`, 1 alteration or invalidation | threshold recovery, integrity, secrecy below the threshold, box and tracers |
| `client_auth` | 2 runs of the client, 3 misfortunes | what an accepted bundle is about, the replaced key, failure only for a reason, termination |

Bounds. Two identities are what a pass needs to affect one and not the other; a third adds
a path or a leaf of the same kind. Two versions suffice for a stale write to differ from a
fresh one; three (`root_unwaited`, `root_order`) let an update and a rotation follow each other in
either order. One kill and one fault may hit every step. One queued repair at a time (`MaxQueue`)
suffices, because repairs of one identity repeat each other. Clients wait
for the settlement in all runs but `root_unwaited` and `root_back`, where none does: a registration, an
update and a rotation unsettled at once are every order two late writes can have. The real
retry loop makes three attempts; two in `addr_lock` have both outcomes of an attempt and
the proofs take any number. In `ttss_flow`, three nodes with T = 2 have two disjoint ways
to miss the threshold and one node that is never read from; three runs are a set-up, a rotation that
fails half way, and a run on what it left; three misfortunes let a request be late in
one run, hit the next, and something else go wrong besides. In `ttss_shares`, T = 3 of 4 has
subsets below, at and above the threshold and a polynomial of degree two; the field of five is the
smallest that gives four guardians different non-zero points (`(h % 4) + 1`), so that all points
are used, the choices of `rho` need a second draw and run out of candidates once, and a
chunk takes the value 4 that needs the extra bit. In `client_auth` the second run finds
the record and the operations of the first; three misfortunes let the tree move between
two pairs of requests and a request be lost, or a leaf go back beside both. CHECK_DEADLOCK is FALSE because every instance ends
when its bounds are used up.

Fairness. In `AddrLock` a call that can go on does so: the node answers, with a result or
an error. In `RootService` the event loop runs what is ready (`Serial`, `Worker`,
`Settle`, `LateSettle`, `CatchReads`, `CatchPatches`), the interval timer keeps firing (`TimerReads`, `TimerActs`) and clients keep
polling (`Get`), as the C++ client does until it sees its version. Requests, listeners,
faults, kills and `/recomputeRoot` are not fair. `root_overlap` and, without the timer,
`root_unwaited` show convergence from there; the epoch in `rootCache` is left out of it, since nothing repairs it.

In `TtssFlow` and `ClientAuth` the client's process runs (`ClientStep`), the service works
off what it accepted (`ServiceStep`), and every wait of the client has a deadline
(`DeadlinePasses`): the polling loops count attempts or compare with a steady clock, and the
HTTP transport has a timeout. Nothing else is fair; operators, late requests and
misfortunes need not happen. A deadline that passes while the answer is still to come is
a misfortune and counts; one that passes when nothing can come is the run's own end, so
`FailsOnlyByMisfortune` says that without a misfortune the answer always comes in time.

### What the violations show

* `ServedPathsAuthenticate` (bb_service_zk.js:661): finishing a pass writes the new root
  into every cached path but computes siblings only for the affected ids. Two registrations
  leave the first identity with a path that does not lead to the root it names.
* `ServedRootWasActive` (:655): the timer looks at `rebuildInFlight` only and starts the
  worker during an inline pass. The pass that ends last names the tree of that moment
  with an epoch it read earlier.
* `MirrorFollowsChain` (:498): events are applied by kind. A rotation and a later update in
  one range end with the rotation. Every restart reads the whole history as one range. The
  same replay after a failed pass, without a restart, can anchor an older leaf over a newer
  one that was reported READY.
* `ReadyStaysAnchored` (:943): the settlement of a request writes what that request sent into
  the mirror, however late it comes. With wait=0 (`cpp/main_cli.hpp:39`: `bbAsyncSubmit{true}`) a
  registration may settle after the rotation that followed it was synced, anchored and reported
  READY; the pass it starts finds no event to correct the mirror and anchors version 0 again.
  A GET repairs it later.

One more finding has no run, since the step that models it says all there is: the error handler of
`scheduleRebuild` (:696) calls `logError`, which is defined nowhere. So `WorkerThrows` ends the process, and
no failure of the node is needed: in `root_overlap` a worker pass and an inline pass propose the same
epoch and one of them is rejected. `ConvergesToChain` holds because the process is started again.

`root_serial` checks the safety properties without background tasks on purpose: with
the timer on, `ServedRootIsActive`, `ReadyStaysAnchored`, `RootsOnlyGrow` and `MirrorFollowsChain`
fail as well, all from the overlap `root_phantom` shows. `root_serial` changes identities by rotations
only, so that it does not meet the reordering of `root_order`.

`ReadyStaysAnchored`, `RootsOnlyGrow` and `MirrorFollowsChain` are promises to clients that wait, one change of
an identity at a time. Without waiting all three fail by the late write of `root_back`, with one kind of
change and without fault, kill or background task; and the reordering of `root_order` is met without a
restart, since a rotation and an update may both be mined before a pass reads their range. What
remains then is in `root_unwaited`. `ServedRootIsActive` does not depend on it.

For the client of `ClientAuth` this means: against a service that takes a leaf back (`"back"`), `OldBundleDies`
fails, since the old root, or one like it, is served again; against one that serves a root with another's
epoch (`"mixed"`), `BundleIsAnchored` fails. `client_auth` has both steps, and each property is claimed until the
step that breaks it: `BundleIsAnchored` after leaves that go back, `OldBundleDies` after epochs that are
mixed up. The service as it is configured by default (timer on, wait=0) can take both; without
background work and with `--bb_async_submit 0` it takes neither (`ServedRootIsTheChains` and `RootsGrow`, section 4).

### What the flows do not promise

Reading and checking the client showed behaviour that a user may not expect. No document
of the repository promises the opposite unless said, so these are notes and no run states them.

* A client that stops between the rotation's transaction and `save_ttss_setup_artifacts`
  takes the new keys with it: nothing on disk or at the nodes has them
  (`ttss_rotate_flow.cpp`). `GoodFileHolds` therefore ends when the board moves on.
* A set-up whose registration succeeded cannot be repeated: the next run has new keys, the
  route answers for the record that is there, and the client then finds another leaf
  (`CheckSetup`).
* A rotation repeated while the operation of the first is pending is answered as idempotent
  for other keys. The second run then invalidates and distributes, writes its file,
  and only then compares the leaf and exits with status 1 (`Compare`); the file it wrote
  names a seed that is not on the board.
* The operation of a deferred attach blocks an explicit `registerTTSSMeta` of the same
  version, whatever the request contains (`Idempotent`).
* Recovery reads from guardians 1..T and no others, so one of these failing ends it, though
  `docs/ARCHITECTURE.md` describes recovery from any T active shares.
* The status of an operation is recomputed from the caches (`bb_service_zk.js:605`). A
  registration that FAILED turns READY or pending again when the caches have a record of the
  identity, so that a polling client may never see the failure, and a retry is answered as idempotent.
* `ttss_rec_nits_shamir` compares epoch, n and t of the shares it combines, and not the
  vkSetHash or rho. Shares of two deals of one epoch combine to a wrong seed without an
  error, which `OnlyIntactSharesUsed` leaves out; the flows notice by comparing with the seed they
  expect (`Rebuilt`), and `NoMixedShares` shows that the nodes never hold such shares.
* The accused of a trace are sorted by index and the witness roots are not sorted with them.
  A right accusation is refused with root_ui_mismatch when the two orders differ: the order of the leaks
  in `tracer_client.js`, the order of the points in `ttss_trace.cpp`. `TraceBlamesLeakers` states
  exactly when it is accepted.

## 4. Proofs

`DIDBoardProofs`, from `BoardAssumption` alone (address zero sends nothing, the empty
document is no document). `StepShape` says what a step does in terms of the one event it emits;
each log invariant is then preserved by a lemma of its own (`VersionsStep`,
`DeterminesStep`, `HistoryStep`, `RootStep`, `AnchorStep`). None of the five is inductive
alone: that anchors are live needs the log to determine the record, which needs versions
in order. Their conjunction `LogInv` is, and `LogInvariant` states it.

`AddrLockProofs`, from `LockAssumption` (finitely many calls, at least one attempt).
`ServedInOrder` says nothing of how calls are linked, so it is strengthened with
`ChainInv`: tickets of an address are distinct and go up to the number of arrivals, the
map holds the last of them, and each call awaits the ticket before its own. With it, the
predecessor of a call that acquires has left, and by `ServedInOrder` so have all before.
`OneHolder` (mutual exclusion) follows, and from it that no other call consumes a nonce
between reading and sending, and that the chain has the order of the calls (with
`SendersLeft`: who is on the chain has left the lock). `StatsAreExact` counts the two sets.

`ClientAuthProofs`, from `AuthAssumption` (at least one run; any number of misfortunes). Two of its properties
are conditional on the history: `BundleIsAnchored` holds as long as no root was served with the epoch of another
(`Paired`), `OldBundleDies` as long as no older leaf of the identity was taken back (`Forward`).
`RootServiceProofs` shows when the service never does either: `ServedRootIsTheChains` gives the first, `RootsGrow`
the second. Neither condition can be dropped, as section 3 says. `StrayedStays` carries them from a state to the
one before, and the parts of `IInv` that need one are conditional on it. `BundleIsAnchored`
is about the end of a run and says nothing of the requests before it, so `IInv` adds what they
establish: a root and an epoch belong together from the moment they are fetched or answered
(`SeenInv`, `AnswerInv`), the path has one level, and the epochs anchored so far keep their roots
(`BoardInv`, `RootsStay`). An accepted bundle passed the fold over its path
(`OneStepPath` unrolls it), so its root is the pair with the run's leaf on the left, and the
root it was verified against is that of its epoch (`AcceptedIsAnchored`). `OldBundleDies`
needs the history of the rotation (`RetiredInv`): a bundle is retired only when the
rotated leaf was seen in the tree, passes only take the newer leaf in (by `Forward`), and a bundle made
before has version 0 in its root, which no served root has again. `BundleInv` carries from
the first proof of a recovery to the second that the bundle in hand is the old one.

The last property, `FailsOnlyByMisfortune`, needs to know all that is under way while nothing
has gone wrong: `CalmInv` says for each phase of the first run which requests, operations and
versions there are, so that no answer can be an error and no wait is in vain; settlements that
were answered before may still come at any time. `OldBundleRejected` is why a calm recovery does not end
with the old bundle accepted.

`TtssFlowProofs`, from `FlowAssumption` (a finite committee of positive numbers that contains
1..T). `OneInCustody` counts nodes, which is hopeless as an induction; what is
inductive is about deals. A deal is *loose* if shares or requests of it exist and no file has it:
at a node, on the way to one, announced to the service, or in the hands of the
running client. `LooseInv` says that there is at most one loose deal, that it has the version on the
board, and that it is newer than every file; `ActiveInv` that nothing is loose while a
node serves a share of a filed deal; `VersionInv` that files have versions of their own and that
a rotation asked for is the successor of a file; `RotateInv` what each phase has
established (before a rotation distributes, every node has answered the invalidation). Two deals of
which T nodes serve a share would share a node of 1..T or be on file twice, so there is
at most one. The refinement `KeepsCustody` follows step by step: custody is taken
up for the version on the board and given up before it is taken up again.

`TtssKeepProofs` strengthens this with what `GoodFileHolds` needs. `EpochInv`: a registration that
was accepted predicted an epoch that the first file has reached, so a deferred attach that comes
late cannot replace an anchor (`MetaKept`). `ShareInv`: invalidations still under way are of
versions before the board's, so they cannot hit the shares of the last good run
(`ShareKept`), and a run that distributes has its share at each node that answered and was not
restarted. `FailsOnlyByMisfortune` says only how a run ends; what is inductive is `CalmInv`, which
says, as long as nothing went wrong, all there is in the system: between runs everything is
about the last good file (`Settled`), and a run and the service go through the same stages
(`Together`), from the request for the record (`Asked`, `Taken`, `Mined`, `Shown`) to the anchor
(`Attaching` or `Registering`, `Anchored`), whichever of the two is ahead. `ServiceAdvances` and
a lemma for each step of the client keep it, and `NothingGoesWrong` uses it to show that no
deadline passes: while a run waits there is something to wait for.

`ShamirFieldProofs`, from `FieldAssumption`, has the arithmetic that the threshold scheme rests on,
from division up. Induction over data is by sets: what has the property is a set of numbers, and
the least number outside of it (`WFMin` of the library, for `<`) leads to a contradiction
(`NatInduct`); a recursive function is shown to exist (`RecursionExists`) before anything is said
of it, and a fold of the community modules, which is a choice, to be independent of the order
(`FoldTakes`). From there:

* `InvModInverts`: the non-zero multiples of x are the non-zero elements in another order
  (`ProductRenamed`), so that x^(P-1) is 1 (`Fermat`), and `pow_mod` computes powers by halving the
  exponent (`PowModIs`). That 65537 is prime enters in `NoZeroDivisors`.
* `LagrangeFindsConstant`, by induction over the coefficients: the weights of any set of points add
  up to one (`ValueOfOne`), and a product with the points themselves is a value over one point
  fewer (`ValueWithout`).
* `SharesHideConstant`: for m points other than zero there is a polynomial that vanishes at all of
  them and has constant one (`Vanishing`). Adding a multiple of it maps the polynomials of one
  constant through given values into those of any other, without two becoming one.
* `PackedComesBack`: a number is made of its bits (`NumberOfBits`, `BitOfNumber`), and bit `at` of
  the stream is one bit of one element and one bit of one byte (`Located`, `Placed`).

`TtssTraceProofs`, from `SharesAssumption` and `FieldAssumption`, for every number of guardians and
threshold. `SharesInv` says that every envelope keeps the signature of its dealer, which covers
all its fields, and that the last result is that of the envelopes at hand; with it an altered
envelope never takes part in a recovery that ends well (`IntactSharesOnly`).
`BoxAgreesWithRecovery` is about two pieces of code that count shares in different ways: recovery
takes the first T of a sequence and demands that their points differ, the box skips shares whose
point it has and stops at T (`CountPositions`, `TakenCounts`). When recovery works, both interpolate
the same shares, even if the box is fed each twice.

`DealtInv` adds that a deal stays what the dealer made of some seed, for points that are all found,
different and not zero (`DistinctPoints`; this is what `derive_distinct_x` and its shift away from zero are
for). With it `ThresholdRecovers` goes through the checks of a recovery, the unpacking and the
interpolation (`DealtPasses`, `DealtValues`, `DealtRebuilds`), and `FewerTellNothing` is
`SharesHideConstant` at the points of T - 1 guardians.

`LeakersBlamed` is about the end of a trace; what is inductive is `TraceInv`: an envelope may come
back with another point but keeps the key entry it was dealt with (`BoundInv`), so the box, which
refuses a share that does not fit its entry, holds the points that were dealt, in the
operator's order; roots are these or none, whatever the other guardians answer; and the verdicts are
what follows from the roots. As different points have different entries (`UiTells`), each root has
one owner (`OwnersAre`) and the leaking guardians are accused. Whether the verifier accepts is a
question of order, and there is one way to sort (`AscendRises`, `OneAscent`): the script's roots
are in the order of the leaks (`ScriptBlames`), the library's in the order of their values
(`LibraryBlames`), and both have to be in the order of the guardians.

`RootServiceProofs`, from `ServiceAssumption` alone, for any interleaving of passes, repairs, timer,
listeners, faults and kills. `Invariance` says that nothing the service remembers is ahead of the
contract: not the mirror, the tree, a cached leaf, a record or event under way, a request, an anchored root.
Leaves are written back from records that were read earlier, so nothing less is inductive.
`NothingAhead` is the consequence for anchored roots. `ServiceUsesBoard` is a refinement: the
service's chain is a behaviour of `DIDBoard`, so every theorem of `DIDBoardProofs` holds of it.

Its second part adds hypotheses, each named in the theorems. `Alone` is that no timer or listener
starts work and no one asks for a recomputation: the worker is then idle and one pass at
a time runs (`AloneInvariance`). What is served is then the board's root and epoch
(`ServedRootIsTheChains`), what was reported READY is anchored (`ReadyStays`), the
mirror agrees with the chain (`MirrorFollows`) and roots only grow (`RootsGrow`).
The last three need two more hypotheses. `Awaited` is that clients send wait=1 (`--bb_async_submit 0`), so that,
with one change at a time per identity and clients that do not give up before the answer, no change is
settled after a later one; the routes do not ask for it. `Orderly` is there because a replay applies updates before rotations
whatever their order was: beside their registrations, which may be repeated, identities are changed by
updates only or by rotations only (`OneKind`), or no call fails and the
process is not killed (`Undisturbed`). In the second case the invariant has one more part, `LoneInv`: an
identity has at most one event that is not applied, that of the request under way, since a client that
waits is answered only after the pass that serves it has applied its event; so no replay has two events of an
identity to confuse. No hypothesis can be dropped: `root_phantom` shows a violation without `Alone`,
`root_back` without `Awaited`, and `root_order`, with both kinds of change and one kill, without `Orderly`.
`ServedRootIsTheChains` needs only `Alone`. TLC checks the case `OneKind` in `root_serial`; the case
`Undisturbed` is proved only.

Every invariant and action property of a passing run is stated by a theorem, those of `RootService`
without background work under the hypotheses above. Model-checked only:

* Liveness (`EveryCallSettles`, `ConvergesToChain`, `RequestsAnswered`, `RunsEnd`), which the prover
  does not reach.
* The properties that the violating runs refute, in the instances without the cause.

## 5. Not modelled, and why

* `RootService`: event queries that fail and count as empty, the worker pass a trace publication
  schedules, `refreshKnownMirrorFromChain`, duplicated delivery by listeners, and
  slot collisions in the tree.
* Operations: opIds, pruning and the listing endpoints. Request keys, states and answers are in
  `TtssFlow` and `ClientAuth`.
* Routes: the key slots kept in the state, the inline TTSS attach of the other set-up mode,
  and `publishTrace` (its contract side is in `DIDBoard`).
* The state file: the debounced flush. A restart reads the chain again, which repairs mirror and
  tree and not the key slots.
* Client: repeated rounds and result files for measurement, old rotation endpoints that no
  flow calls, textual normalisation of field elements.
* Prover and verifier: the prover processes and their files, the Poseidon permutation, and the
  Groth16 check that the verifier makes if DIDZK_VERIFY_BUNDLE_RUN_GROTH16 asks for it. That a proof
  exists exactly for a witness that satisfies the circuit is assumed. Circuits are
  arithmetic constraints.
* The other command-line modes of tracer and box, and boxes that answer with a forged result.
* HTTP, parsing and path helpers: I/O and conversions without state. `cpp/httplib.h` is a
  third-party library in one header, two thirds of the lines of C++ in the repository, and
  is used only as a transport that delivers, fails or is late.

## 6. Plan

1. `RootService`: query failures and trace passes; an abstract registry that the serial
   instance implements.
2. `OpTracker` and `StateFlush`: pruning of operations, the debounced writer and kills.
   Properties: a completed flush is a snapshot of one moment; the last change is eventually
   flushed; key slots after a restart.
