------------------------------ MODULE TtssFlow ------------------------------
(***************************************************************************)
(* The flows that put an identity's recovery seed into the custody of the  *)
(* committee and rotate it: run_ttss_setup, run_ttss_recover and           *)
(* run_ttss_recover_and_rotate of the C++ client, with the committee nodes *)
(* they talk to and as much of the bulletin board service as answers them. *)
(*                                                                         *)
(* One operator runs the client again and again on one identity, one run   *)
(* at a time; run number `try' generates the seed `try'.  A run fans out   *)
(* to the nodes with one task per node (std::async) and joins them all.    *)
(* What can go wrong is counted by `faults': a node that does not answer,  *)
(* an answer that is lost, a request that a node handles only after the    *)
(* client stopped waiting for it (they stay in `late'), a restart of a     *)
(* node, a root update made for another identity, a transaction that       *)
(* fails, a service slower than the client's deadline, a dead client.      *)
(*                                                                         *)
(* Of the service, the record and root on the board, the operations found  *)
(* by request key and the TTSS anchor are kept.  A local copy of the       *)
(* anchor is stored when its transaction is confirmed; it and the anchor   *)
(* on the board are one variable here.                                     *)
(***************************************************************************)
EXTENDS CommitteeNode, Integers

CONSTANTS
    T,          \* the threshold; node 1..T are the ones shares are read from
    NoFile,     \* no set-up file
    NoDeal,     \* no TTSS anchor
    MaxFaults   \* bound: how often something goes wrong

ASSUME FlowAssumption ==
    /\ Nodes \in SUBSET (Nat \ {0})
    /\ IsFiniteSet(Nodes)
    /\ T \in Nat \ {0}
    /\ 1..T \subseteq Nodes
    /\ Seeds \subseteq Nat \ {0}
    /\ IsFiniteSet(Seeds)
    /\ MaxFaults \in Nat
    /\ NoDeal \notin Deal
    /\ NoFile \notin Deal

VARIABLES
    pc,      \* where the running client is, "idle" between runs
    mode,    \* its command: setup, recover or rotate
    try,     \* its number
    base,    \* the file it loaded
    pred,    \* the epoch it predicts for the root that holds its record
    ep,      \* the epoch it observed
    task,    \* task[g]: the request to node g in this phase
    got,     \* the envelopes it fetched
    exit,    \* how the last run ended
    files,   \* set-up files on disk
    good,    \* history: the file of the last run to end well
    lost,    \* history: nodes that were restarted
    late,    \* requests still under way to nodes, with nobody waiting
    chain,   \* the record on the board: version and recovery key
    shown,   \* the record in the tree whose root is on the board
    epoch,   \* the root's epoch
    meta,    \* the TTSS anchor
    posts,   \* requests to the service, not yet read
    jobs,    \* requests the service is working on
    ops,     \* request keys that find an operation that did not fail
    answer,  \* the service's answer to the running client
    faults

run == <<mode, try, base, pred, ep>>
control == <<pc, task, exit, answer>>
disk == <<files, good, lost>>
board == <<chain, shown, epoch, meta>>
queues == <<posts, jobs, ops>>
vars == <<shares, run, control, got, disk, late, board, queues, faults>>

Unregistered == [ver |-> -1, rec |-> 0]

Todo == [g \in Nodes |-> "todo"]

\* Sensitivity variant of NewVer: the version counts down.
NewVerBack == IF mode = "setup" THEN 0 ELSE base.ver - 1

\* The version of the running set-up or rotation.
NewVer == IF mode = "setup" THEN 0 ELSE base.ver + 1

\* Its deal.  Shares are dealt before the post for the predicted epoch; they
\* are used if that is the epoch observed, and dealt again for the observed
\* epoch otherwise.
MyDeal == [ver |-> NewVer, epoch |-> ep, seed |-> try]

Fault == faults < MaxFaults /\ faults' = faults + 1

Init ==
    /\ InitStore
    /\ mode = "setup" /\ try = 0 /\ base = NoFile /\ pred = 0 /\ ep = 0
    /\ pc = "idle" /\ task = Todo /\ exit = "none" /\ answer = "none"
    /\ got = {} /\ files = {} /\ good = NoFile /\ lost = {} /\ late = {}
    /\ chain = Unregistered /\ shown = Unregistered /\ epoch = 0 /\ meta = NoDeal
    /\ posts = {} /\ jobs = {} /\ ops = {}
    /\ faults = 0

-----------------------------------------------------------------------------
(* The running client. *)

\* On to another phase, with every node's request to be made.
GoTo(p) == pc' = p /\ task' = Todo /\ answer' = "none" /\ UNCHANGED exit

\* The run throws, or returns with a status.
End(how) == pc' = "idle" /\ task' = Todo /\ answer' = "none" /\ exit' = how

Begin(m, f, p) ==
    /\ pc = "idle" /\ try + 1 \in Seeds
    /\ try' = try + 1
    /\ mode' = m /\ base' = f /\ got' = {} /\ ep' = 0
    /\ pc' = p /\ task' = Todo /\ answer' = "none" /\ exit' = "none"
    /\ UNCHANGED <<shares, disk, late, board, jobs, ops, faults>>

Post(kind, deal, old) ==
    posts' = posts \cup {[kind |-> kind, by |-> deal.seed, deal |-> deal, old |-> old]}

\* run_ttss_setup up to post_register_zk: read the root, generate the keys,
\* deal for the predicted epoch, post.
StartSetup ==
    /\ files = {}
    /\ Begin("setup", NoFile, "post")
    /\ pred' = epoch + 1
    /\ Post("register", [ver |-> 0, epoch |-> epoch + 1, seed |-> try + 1], try + 1)

\* run_ttss_recover and run_ttss_recover_and_rotate load a set-up file.
StartFromFile(m, f) ==
    /\ f \in files
    /\ Begin(m, f, "fetch")
    /\ pred' = f.epoch + 1
    /\ UNCHANGED posts

\* The deal whose shares a fetching phase asks for.
Wanted == IF pc = "fetch" THEN base ELSE MyDeal

\* recover_shares_from_committees, and the same loop in
\* validate_rotated_shares: nodes 1..T one after the other, and an error
\* ends the run.
FetchShare(g) ==
    /\ pc \in {"fetch", "validate"}
    /\ g \in 1..T /\ task[g] = "todo"
    /\ \A h \in 1..(g - 1) : task[h] = "ok"
    /\ LET served == Served(g, Wanted.ver, Wanted.epoch) IN
       \/ /\ served = {}
          /\ End("failed")
          /\ UNCHANGED got
       \/ /\ served # {}
          /\ task' = [task EXCEPT ![g] = "ok"]
          /\ got' = got \cup served
          /\ UNCHANGED <<pc, exit, answer>>
    /\ UNCHANGED <<shares, run, disk, late, board, queues, faults>>

FetchedAll == \A g \in 1..T : task[g] = "ok"

\* ttss_rec_nits_shamir takes shares of one deal only, and the seed has to be
\* the expected one.
Rebuilt(seed) == {e.seed : e \in got} = {seed}

\* With the old shares: recover is done, rotate posts.
Recovered ==
    /\ pc = "fetch" /\ FetchedAll
    /\ \/ /\ Rebuilt(base.seed) => mode = "recover"
          /\ End(IF Rebuilt(base.seed) THEN "ok" ELSE "failed")
          /\ UNCHANGED posts
       \/ /\ Rebuilt(base.seed) /\ mode = "rotate"
          /\ Post("rotate", [ver |-> NewVer, epoch |-> pred, seed |-> try], base.seed)
          /\ GoTo("post")
    /\ got' = {}
    /\ UNCHANGED <<shares, run, disk, late, board, jobs, ops, faults>>

\* post_register_zk, post_apply_recovery_rotate_zk and post_ttss_meta_endpoint
\* return or throw.
PostAnswered ==
    /\ pc \in {"post", "metapost"} /\ answer # "none"
    /\ IF answer = "ok"
       THEN GoTo(IF pc = "post" THEN "wait" ELSE "metawait")
       ELSE End("failed")
    /\ UNCHANGED <<shares, run, got, disk, late, board, queues, faults>>

Step(p) == GoTo(p) /\ UNCHANGED <<shares, run, got, disk, late, board, queues, faults>>
Throw == End("failed") /\ UNCHANGED <<shares, run, got, disk, late, board, queues, faults>>

\* probe_path_ready: the tree whose root is on the board has the record in a
\* version new enough.
ReadyFor(v) == shown.ver >= v

\* wait_for_identity_ready_after_register, which also looks for the operation,
\* and wait_for_rotate_ready_state.
Ready == ReadyFor(NewVer) /\ (mode = "setup" => <<"register", 0>> \in ops)

ReadySeen ==
    /\ pc = "wait" /\ Ready
    /\ ep' = epoch
    /\ GoTo(IF mode = "setup" THEN "check" ELSE "invalidate")
    /\ UNCHANGED <<shares, mode, try, base, pred, got, disk, late, board, queues, faults>>

\* Sensitivity variant of OwnLeaf: whose leaf it is does not matter.
AnyLeaf == shown.ver >= NewVer

\* The leaf the service shows is the one computed from this run's keys.
OwnLeaf == shown = [ver |-> NewVer, rec |-> try]

\* The set-up compares leaves, and the root over the path it fetched last
\* with the root it observed.
CheckSetup ==
    /\ pc = "check"
    /\ IF OwnLeaf /\ epoch = ep THEN Step("distribute") ELSE Throw

\* The phases that ask all nodes at once.
Parallel == {"invalidate", "distribute", "verify"}

\* What node g does with the request of the running phase.
Handled(g) ==
    CASE pc = "invalidate" -> InvalidateShares(g, base.ver, base.epoch)
      [] pc = "distribute" -> SetShareEnvelope(g, MyDeal)
      [] OTHER -> UNCHANGED shares

\* It answers ok, except that the share may not be there to be verified.
AnswerOf(g) ==
    IF pc = "verify" /\ Served(g, MyDeal.ver, MyDeal.epoch) = {} THEN "failed" ELSE "ok"

NodeAnswers(g) ==
    /\ pc \in Parallel /\ task[g] = "todo"
    /\ Handled(g)
    /\ task' = [task EXCEPT ![g] = AnswerOf(g)]
    /\ UNCHANGED <<run, pc, exit, answer, got, disk, late, board, queues, faults>>

\* Sensitivity variant of Joined: a task that failed does not end the run.
JoinedAnyway(p) ==
    /\ \A g \in Nodes : task[g] # "todo"
    /\ Step(p)

\* All tasks are joined; the first that failed throws.
Joined(p) ==
    /\ \A g \in Nodes : task[g] # "todo"
    /\ IF \A g \in Nodes : task[g] = "ok" THEN Step(p) ELSE Throw

PhaseEnds ==
    \/ pc = "invalidate" /\ Joined("distribute")
    \/ pc = "distribute" /\ Joined("verify")
    \/ pc = "verify" /\ Joined("meta")

\* TTSSMetaRegistrar: the anchor is seen, or asked for.
RegisterMeta ==
    /\ pc = "meta"
    /\ \/ /\ meta = MyDeal
          /\ Step("metawait")
       \/ /\ Post(IF mode = "setup" THEN "meta" ELSE "metarotate", MyDeal, try)
          /\ GoTo("metapost")
          /\ UNCHANGED <<shares, run, got, disk, late, board, jobs, ops, faults>>

\* wait_for_ttss_meta_ready.
MetaSeen ==
    /\ pc = "metawait" /\ meta = MyDeal
    /\ Step(IF mode = "setup" THEN "save" ELSE "validate")

Validated ==
    /\ pc = "validate" /\ FetchedAll
    /\ IF Rebuilt(try) THEN Step("save") ELSE Throw

\* save_ttss_setup_artifacts; a set-up is done with it.
Save ==
    /\ pc = "save"
    /\ files' = files \cup {MyDeal}
    /\ IF mode = "setup"
       THEN End("ok") /\ good' = MyDeal
       ELSE GoTo("compare") /\ UNCHANGED good
    /\ UNCHANGED <<shares, run, got, lost, late, board, queues, faults>>

\* Sensitivity variant of Compare: the leaf is not compared.
CompareNothing ==
    /\ pc = "compare"
    /\ End("ok")
    /\ good' = MyDeal
    /\ UNCHANGED <<shares, run, got, files, lost, late, board, queues, faults>>

\* A rotation compares the leaf only now, after the file is written.
Compare ==
    /\ pc = "compare"
    /\ End(IF OwnLeaf THEN "ok" ELSE "failed")
    /\ good' = IF OwnLeaf THEN MyDeal ELSE good
    /\ UNCHANGED <<shares, run, got, files, lost, late, board, queues, faults>>

ClientStep ==
    \/ Recovered \/ PostAnswered \/ ReadySeen \/ CheckSetup \/ PhaseEnds
    \/ RegisterMeta \/ MetaSeen \/ Validated \/ Save \/ Compare
    \/ \E g \in Nodes : FetchShare(g) \/ NodeAnswers(g)

-----------------------------------------------------------------------------
(* The service. *)

ServiceIdle == posts = {} /\ jobs = {} /\ shown = chain

RequestKey(m) ==
    CASE m.kind = "register" -> <<"register", 0>>
      [] m.kind = "rotate" -> <<"recovery", m.deal.ver>>
      [] m.kind \in {"meta", "deferred"} -> <<"ttss_meta", m.deal.ver>>
      [] m.kind = "metarotate" -> <<"ttss_meta_rotate", m.deal.ver>>

\* The answer reaches the client if it still waits for it.
Reply(m, a) ==
    answer' = IF \/ m.by = try /\ pc = "post" /\ m.kind \in {"register", "settle", "rotate"}
                 \/ m.by = try /\ pc = "metapost" /\ m.kind \in {"meta", "metarotate"}
              THEN a ELSE answer

serviceFrame == <<shares, run, pc, task, exit, got, disk, late>>

\* applyRecoveryRotateZk wants the recovery seed on the board and the version
\* after it.
Refused(m) == m.kind = "rotate" /\ (m.old # chain.rec \/ m.deal.ver # chain.ver + 1)

\* The anchor is there already, or an operation of this key is at work.
Idempotent(m) ==
    \/ m.kind \in {"meta", "metarotate"} /\ meta = m.deal
    \/ RequestKey(m) \in ops

\* A route reads a request.  What it answers depends on the operation's key
\* and not on what is in the request.
TakePost(m) ==
    /\ posts' = posts \ {m}
    /\ \/ /\ Refused(m)
          /\ Reply(m, "error")
          /\ UNCHANGED <<jobs, ops>>
       \/ /\ ~Refused(m) /\ Idempotent(m)
          /\ Reply(m, "ok")
          /\ UNCHANGED <<jobs, ops>>
       \/ /\ ~Refused(m) /\ ~Idempotent(m)
          /\ jobs' = jobs \cup {m}
          /\ ops' = ops \cup {RequestKey(m)}
          /\ IF m.kind = "metarotate" THEN Reply(m, "ok") ELSE UNCHANGED answer
    /\ UNCHANGED <<serviceFrame, board, faults>>

\* The transaction reverts or cannot be sent.  Some routes mark the operation
\* FAILED, so that its key is free again; a rotation and an explicit
\* registerTTSSMeta leave it as it is.
JobFails(j) ==
    /\ jobs' = jobs \ {j}
    /\ ops' = IF j.kind \in {"register", "metarotate", "deferred"}
              THEN ops \ {RequestKey(j)} ELSE ops
    /\ Reply(j, "error")
    /\ UNCHANGED <<serviceFrame, board, posts>>

\* registerZK is mined.  Without `wait' the client is answered; with it, the
\* route goes on to settle.  A record that is there makes the transaction
\* revert, and the route answers for the record.
MineRegister(j) ==
    /\ j.kind = "register"
    /\ \/ /\ chain = Unregistered
          /\ chain' = [ver |-> 0, rec |-> j.deal.seed]
          /\ \/ jobs' = jobs \ {j} /\ Reply(j, "ok")
             \/ jobs' = (jobs \ {j}) \cup {[j EXCEPT !.kind = "settle"]} /\ UNCHANGED answer
       \/ /\ chain # Unregistered
          /\ jobs' = jobs \ {j}
          /\ Reply(j, "ok")
          /\ UNCHANGED chain
    /\ UNCHANGED <<serviceFrame, shown, epoch, meta, posts, ops, faults>>

Deferred(j) == [j EXCEPT !.kind = "deferred"]

\* Sensitivity variant of Settle: the operation is created, its work is not.
SettleIdly(j) ==
    /\ j.kind = "settle" /\ shown = chain
    /\ jobs' = jobs \ {j}
    /\ ops' = IF epoch = j.deal.epoch THEN ops \cup {RequestKey(Deferred(j))} ELSE ops
    /\ Reply(j, "ok")
    /\ UNCHANGED <<serviceFrame, board, posts, faults>>

\* The root is pushed: scheduleDeferredTTSSMetaAttach takes the anchor on if
\* the prediction was right (and the service is not busy), and the client is
\* answered.
Settle(j) ==
    /\ j.kind = "settle" /\ shown = chain
    /\ \/ /\ epoch = j.deal.epoch /\ RequestKey(Deferred(j)) \notin ops
          /\ jobs' = (jobs \ {j}) \cup {Deferred(j)}
          /\ ops' = ops \cup {RequestKey(Deferred(j))}
          /\ UNCHANGED faults
       \/ /\ epoch # j.deal.epoch \/ RequestKey(Deferred(j)) \in ops
          /\ jobs' = jobs \ {j}
          /\ UNCHANGED <<ops, faults>>
       \/ /\ Fault
          /\ jobs' = jobs \ {j}
          /\ UNCHANGED ops
    /\ Reply(j, "ok")
    /\ UNCHANGED <<serviceFrame, board, posts>>

MineRotate(j) ==
    /\ j.kind = "rotate" /\ ~Refused(j)
    /\ chain' = [ver |-> j.deal.ver, rec |-> j.deal.seed]
    /\ jobs' = jobs \ {j}
    /\ Reply(j, "ok")
    /\ UNCHANGED <<serviceFrame, shown, epoch, meta, posts, ops, faults>>

\* setTTSSMeta: for the record's version and the root's epoch only.
Anchorable(d) == d.ver = chain.ver /\ d.epoch = epoch

MineMeta(j) ==
    /\ j.kind \in {"meta", "metarotate", "deferred"} /\ Anchorable(j.deal)
    /\ meta' = j.deal
    /\ jobs' = jobs \ {j}
    /\ Reply(j, "ok")
    /\ UNCHANGED <<serviceFrame, chain, shown, epoch, posts, ops, faults>>

MetaReverts(j) ==
    /\ j.kind \in {"meta", "metarotate", "deferred"} /\ ~Anchorable(j.deal)
    /\ JobFails(j)
    /\ UNCHANGED faults

\* The service's tree takes the record in and its root goes to the board.
PushRoot ==
    /\ shown # chain
    /\ shown' = chain
    /\ epoch' = epoch + 1
    /\ UNCHANGED <<serviceFrame, answer, chain, meta, queues, faults>>

ServiceStep ==
    \/ \E m \in posts : TakePost(m)
    \/ \E j \in jobs : MineRegister(j) \/ Settle(j) \/ MineRotate(j) \/ MineMeta(j) \/ MetaReverts(j)
    \/ PushRoot

-----------------------------------------------------------------------------
(* What goes wrong. *)

\* What the client waits for may still come.
Hope == \/ ~ServiceIdle
        \/ pc = "wait" /\ Ready
        \/ pc = "metawait" /\ meta = MyDeal

\* Sensitivity variant of DeadlinePasses: wait_for_ttss_meta_ready has none.
DeadlinePassesButForMeta ==
    /\ IF Hope THEN Fault ELSE UNCHANGED faults
    /\ \/ /\ pc = "wait"
          /\ End("failed")
       \/ /\ pc \in {"post", "metapost"} /\ answer = "none"
          /\ IF pc = "post" THEN GoTo("wait")
             ELSE IF mode = "rotate" THEN GoTo("metawait") ELSE End("failed")
    /\ UNCHANGED <<shares, run, got, disk, late, board, queues>>

\* A deadline passes.  That is a misfortune if the client would have been
\* answered, and its own end otherwise.  The timeout of a post is tolerated,
\* except by registerTTSSMeta.
DeadlinePasses ==
    /\ IF Hope THEN Fault ELSE UNCHANGED faults
    /\ \/ /\ pc \in {"wait", "metawait"}
          /\ End("failed")
       \/ /\ pc \in {"post", "metapost"} /\ answer = "none"
          /\ IF pc = "post" THEN GoTo("wait")
             ELSE IF mode = "rotate" THEN GoTo("metawait") ELSE End("failed")
    /\ UNCHANGED <<shares, run, got, disk, late, board, queues>>

Message(g) ==
    [kind |-> pc, node |-> g,
     deal |-> IF pc = "invalidate" THEN base ELSE MyDeal]

\* A node does not answer task g: its request was handled all the same, or is
\* still under way, or is lost.
TaskFails(g) ==
    /\ Fault
    /\ pc \in Parallel /\ task[g] = "todo"
    /\ task' = [task EXCEPT ![g] = "failed"]
    /\ \/ Handled(g) /\ UNCHANGED late
       \/ /\ pc # "verify"
          /\ late' = late \cup {Message(g)}
          /\ UNCHANGED shares
       \/ UNCHANGED <<shares, late>>
    /\ UNCHANGED <<run, pc, exit, answer, got, disk, board, queues>>

\* A node that shares are fetched from does not answer, or simulates a failure.
FetchFails ==
    /\ Fault
    /\ pc \in {"fetch", "validate"} /\ ~FetchedAll
    /\ End("failed")
    /\ UNCHANGED <<shares, run, got, disk, late, board, queues>>

\* A node gets to a request nobody waits for any more.
LateArrives(m) ==
    /\ late' = late \ {m}
    /\ IF m.kind = "invalidate"
       THEN InvalidateShares(m.node, m.deal.ver, m.deal.epoch)
       ELSE SetShareEnvelope(m.node, m.deal)
    /\ UNCHANGED <<run, control, got, disk, board, queues, faults>>

NodeRestarts(g) ==
    /\ Fault
    /\ RestartNode(g)
    /\ lost' = lost \cup {g}
    /\ UNCHANGED <<run, control, got, files, good, late, board, queues>>

\* The client dies; any of its requests may be on their way.
ClientDies ==
    /\ Fault
    /\ pc # "idle"
    /\ \E S \in SUBSET {g \in Nodes : pc \in {"invalidate", "distribute"} /\ task[g] = "todo"} :
           late' = late \cup {Message(g) : g \in S}
    /\ End("failed")
    /\ UNCHANGED <<shares, run, got, disk, board, queues>>

\* A request to the service is lost, or a transaction fails.
PostLost(m) ==
    /\ Fault
    /\ posts' = posts \ {m}
    /\ UNCHANGED <<serviceFrame, answer, board, jobs, ops>>

TxFails(j) == Fault /\ j.kind # "settle" /\ JobFails(j)

\* Another identity's record changes: a root of which this record is or is
\* not yet a part.
OtherIdentity ==
    /\ Fault
    /\ epoch' = epoch + 1
    /\ shown' \in {shown, chain}
    /\ UNCHANGED <<serviceFrame, answer, chain, meta, queues>>

Misfortune ==
    \/ DeadlinePasses \/ FetchFails \/ ClientDies \/ OtherIdentity
    \/ \E g \in Nodes : TaskFails(g) \/ NodeRestarts(g)
    \/ \E m \in late : LateArrives(m)
    \/ \E m \in posts : PostLost(m)
    \/ \E j \in jobs : TxFails(j)

Operator ==
    \/ StartSetup
    \/ \E f \in files : StartFromFile("recover", f) \/ StartFromFile("rotate", f)

Next == Operator \/ ClientStep \/ ServiceStep \/ Misfortune

Spec == Init /\ [][Next]_vars

\* The client's process runs, its waits have deadlines, and the service works
\* off what it accepted.
FairSpec ==
    /\ Spec
    /\ WF_vars(ClientStep)
    /\ WF_vars(ServiceStep)
    /\ WF_vars(DeadlinePasses)

-----------------------------------------------------------------------------
Kinds == {"register", "settle", "rotate", "meta", "metarotate", "deferred"}

TypeOK ==
    /\ StoreTypeOK
    /\ pc \in {"idle", "fetch", "post", "wait", "check", "invalidate", "distribute",
               "verify", "meta", "metapost", "metawait", "validate", "save", "compare"}
    /\ mode \in {"setup", "recover", "rotate"}
    /\ try \in {0} \cup Seeds
    /\ base \in Deal \cup {NoFile}
    /\ pred \in Nat /\ ep \in Nat
    /\ task \in [Nodes -> {"todo", "ok", "failed"}]
    /\ got \subseteq Envelope
    /\ exit \in {"none", "ok", "failed"}
    /\ files \subseteq Deal
    /\ good \in Deal \cup {NoFile}
    /\ lost \subseteq Nodes
    /\ late \subseteq [kind : {"invalidate", "distribute"}, node : Nodes, deal : Deal]
    /\ chain \in [ver : Nat \cup {-1}, rec : {0} \cup Seeds]
    /\ shown \in [ver : Nat \cup {-1}, rec : {0} \cup Seeds]
    /\ epoch \in Nat
    /\ meta \in Deal \cup {NoDeal}
    /\ posts \subseteq [kind : Kinds, by : Seeds, deal : Deal, old : Seeds]
    /\ jobs \subseteq [kind : Kinds, by : Seeds, deal : Deal, old : Seeds]
    /\ answer \in {"none", "ok", "error"}
    /\ faults \in Nat

\* The deals of which T nodes would serve a share.
Custodians(d) == {g \in Nodes : ActiveEnvelope(d) \in shares[g]}
Dealt == UNION {{[ver |-> e.ver, epoch |-> e.epoch, seed |-> e.seed] : e \in shares[g]} : g \in Nodes}
InCustody == {d \in Dealt : Cardinality(Custodians(d)) >= T}

Custody == INSTANCE ShareCustody WITH
    Deals <- Deal,
    version <- chain.ver,
    custody <- IF InCustody = {} THEN NoDeal ELSE CHOOSE d \in InCustody : TRUE

\* At most one seed can be rebuilt from what the nodes serve: every old share
\* is given up before the next one is stored, late requests included.
OneInCustody == Cardinality(InCustody) <= 1

\* The custody of seeds comes and goes as ShareCustody says: a seed comes into
\* custody only while its version is the board's and never replaces another
\* in one step, and requests that arrive after their run has ended do not
\* bring back what was given up.
CustodySpec == Custody!Spec

\* Nodes never hold shares of two deals under one version and epoch, which
\* ttss_rec_nits_shamir could not put together.
NoMixedShares ==
    \A g, h \in Nodes : \A e \in shares[g], f \in shares[h] :
        HasKey(e, f.ver, f.epoch) => e.seed = f.seed

\* What a run that ended well leaves behind stays usable for as long as the
\* board has its version: the seed in the file is the recovery key on the
\* board, the anchor is for its shares, and every node that was not restarted
\* serves its share.  So no flow, late request or failed run after it takes
\* shares away before the board has moved on.
GoodFileHolds ==
    good # NoFile /\ chain.ver = good.ver =>
        /\ chain.rec = good.seed
        /\ meta = good
        /\ \A g \in Nodes \ lost : ActiveEnvelope(good) \in shares[g]

\* A run with the file of the last good run, or the first run of all, fails
\* only when something went wrong, then or before.
FailsOnlyByMisfortune ==
    exit = "failed" /\ faults = 0 => base # good /\ base # NoFile

\* Every run ends.
RunsEnd == pc # "idle" ~> pc = "idle"
=============================================================================
