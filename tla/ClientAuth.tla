----------------------------- MODULE ClientAuth -----------------------------
(***************************************************************************)
(* run_one_zk_auth_round and run_zk_recovery_e2e of the C++ client, with   *)
(* the waits of http_client.cpp and as much of the bulletin board service  *)
(* as answers them: register an identity, wait until its record is in the  *)
(* served tree, fetch root, path and leaf with three requests, prove and   *)
(* verify; for a recovery rotate the keys, wait, see the old bundle        *)
(* rejected and prove again.                                               *)
(*                                                                         *)
(* An operator runs the client again and again with one identity; run      *)
(* `try' has keys of its own, its leaves are [by |-> try, ver |-> 0 or 1]. *)
(* Of the service there are the records of this and of one other identity, *)
(* the served tree of the two, the cached path of this identity, and the   *)
(* passes that take records into the tree, one at a time (RootService has  *)
(* them in full, and overlapping).  What the client may see of a service   *)
(* whose passes overlap or settle late is in GoesBack and EndPassMixed.    *)
(* What can go wrong is counted by `faults': a request that is lost, an    *)
(* answer that is lost or later than the client's deadline, a transaction  *)
(* that fails, a change of the other identity, a dead client, a pass that  *)
(* strays.                                                                 *)
(***************************************************************************)
EXTENDS SessionBundle, FiniteSets

CONSTANTS
    MaxTries,   \* bound: runs of the client
    MaxFaults   \* bound: how often something goes wrong

ASSUME AuthAssumption ==
    /\ MaxTries \in Nat \ {0}
    /\ MaxFaults \in Nat

VARIABLES
    pc,       \* where the running client is, "idle" between runs
    mode,     \* its command: auth or recovery
    try,      \* its number
    ver,      \* the version it is about to prove
    fast,     \* it believes the answer to its post that all is ready
    answer,   \* the service's answer to its post
    seen,     \* root, epoch, path and leaf it fetched
    bundle,   \* its last verified bundle
    exit,     \* how the last run ended, or will if nothing worse happens
    retired,  \* history: the bundles that recoveries have put out of use
    records,  \* the records on the board
    tree,     \* the leaves of the served tree
    anchored, \* the trees whose roots were on the board, by epoch
    sibling,  \* the sibling leaf in the cached path of this identity
    pass,     \* whose record a pass is taking into the tree, or "back"
    strayed,  \* history: "back" once a pass took an older leaf back, "mixed"
              \* once one served its root with the epoch of another
    posts,    \* requests not yet read by the service
    jobs,     \* requests the service works on
    op,       \* the status of the operation register:<id>
    rotating, \* there is an operation recovery:<id>:1
    faults

round == <<mode, try, ver, fast>>
client == <<pc, round, answer, seen, bundle, exit, retired>>
board == <<records, tree, anchored, sibling, pass, strayed>>
queues == <<posts, jobs, op, rotating>>
vars == <<client, board, queues, faults>>

Tries == 1..MaxTries
NoLeaf == [by |-> 0, ver |-> 0]
Leaf == [by : Tries, ver : {0, 1}]
Identities == {"me", "other"}

NoAnswer == [is |-> "none", epoch |-> 0]
NoBundle == [is |-> "none"]
Nothing == [epoch |-> 0]

MyLeaf == [by |-> try, ver |-> ver]
RootOf(t) == Hash2(t.me, t.other)
Epoch == Len(anchored)
ServedRoot == RootOf(tree)

\* What a root of this epoch commits to.
RootAt(e) == RootOf(anchored[e])

Fault == faults < MaxFaults /\ faults' = faults + 1

Init ==
    /\ pc = "idle" /\ mode = "auth" /\ try = 0 /\ ver = 0 /\ fast = FALSE
    /\ answer = NoAnswer /\ seen = Nothing /\ bundle = NoBundle
    /\ exit = "none" /\ retired = {}
    /\ records = [me |-> NoLeaf, other |-> 0]
    /\ tree = [me |-> NoLeaf, other |-> 0]
    /\ anchored = <<tree>> /\ sibling = 0 /\ pass = "none" /\ strayed = {}
    /\ posts = {} /\ jobs = {} /\ op = "none" /\ rotating = FALSE
    /\ faults = 0

-----------------------------------------------------------------------------
(* The client. *)

End(how) ==
    /\ pc' = "idle" /\ exit' = how
    /\ seen' = Nothing /\ answer' = NoAnswer /\ fast' = FALSE

\* gen_identity_local_keys, gen_identity_state and post_register_zk.
StartRun(m, wait) ==
    /\ pc = "idle" /\ try < MaxTries
    /\ try' = try + 1 /\ mode' = m /\ ver' = 0
    /\ posts' = posts \cup {[kind |-> "register", by |-> try + 1, wait |-> wait]}
    /\ pc' = "post" /\ exit' = "none" /\ bundle' = NoBundle
    /\ UNCHANGED <<fast, answer, seen, retired, board, jobs, op, rotating, faults>>

Goes(p) ==
    /\ pc' = p
    /\ UNCHANGED <<round, answer, seen, bundle, exit, retired, board, queues, faults>>

Throws ==
    /\ End("failed")
    /\ UNCHANGED <<mode, try, ver, bundle, retired, board, queues, faults>>

\* The post of a registration or rotation returns or throws.  An answer that
\* says READY and names a root is used for the fast path.
PostAnswered ==
    /\ pc \in {"post", "rotatepost"} /\ answer.is # "none"
    /\ IF answer.is = "error" THEN Throws
       ELSE /\ fast' = (pc = "post" /\ answer.is = "ready")
            /\ pc' = IF pc = "rotatepost" THEN "record"
                     ELSE IF fast' THEN "ask" ELSE "poll"
            /\ UNCHANGED <<mode, try, ver, answer, seen, bundle, exit, retired,
                           board, queues, faults>>

\* updateOperationReadinessFromCache: what may become of status o.  It looks
\* at the caches only, so that a failed operation does not stay failed.
Refreshed(o) ==
    IF pass = "none" THEN IF tree.me # NoLeaf THEN {"ready"} ELSE {"pending"}
    ELSE {o, "pending"}

\* A poll of /registerStatus.
Poll ==
    /\ pc = "poll" /\ op # "none"
    /\ \E status \in Refreshed(op) :
           /\ op' = status
           /\ IF status = "failed" THEN End("failed")
              ELSE /\ pc' = IF status = "ready" /\ pass = "none" THEN "ask" ELSE pc
                   /\ UNCHANGED <<fast, answer, seen, exit>>
    /\ UNCHANGED <<mode, try, ver, bundle, retired, board, posts, jobs, rotating, faults>>

\* Requests about an identity whose caches lag are answered after a repair.
Fresh == pass = "none" /\ records.me = tree.me

\* The snapshot is ready: the tree has the record in a version new enough.
SnapshotReady == tree.me # NoLeaf /\ tree.me.ver >= ver

\* Where a probe that fails is tried again.
Retry == IF ver = 1 \/ fast THEN "ask" ELSE "poll"

\* probe_path_ready asks for /readySnapshot, ...
Ask ==
    /\ pc = "ask" /\ Fresh
    /\ Goes(IF SnapshotReady THEN "root" ELSE Retry)

Fetches(p, s) ==
    /\ pc' = p /\ seen' = s
    /\ UNCHANGED <<round, answer, bundle, exit, retired, board, queues, faults>>

\* ... and materialize_ready_snapshot_outputs for /root, which answers only
\* when no pass is in progress, ...
GetRoot ==
    /\ pc = "root" /\ pass = "none"
    /\ Fetches("path", [root |-> ServedRoot, epoch |-> Epoch])

\* ... for /path, whose root is the served one whatever its siblings were
\* computed from, ...
CachedPath == [root |-> ServedRoot, elements |-> <<sibling>>, index |-> <<0>>]

GetPath ==
    /\ pc = "path" /\ Fresh
    /\ Fetches("leaf", [root |-> seen.root, epoch |-> seen.epoch, path |-> CachedPath])

\* Sensitivity variant of ChosenRoot: the root comes with the path, the epoch
\* does not.
ChosenRootMixed == [root |-> seen.path.root, epoch |-> seen.epoch]

\* choose_root_after_ready: the fast path takes the root from the answer.
ChosenRoot ==
    IF fast THEN [root |-> answer.root, epoch |-> answer.epoch]
    ELSE [root |-> seen.root, epoch |-> seen.epoch]

\* ... and for /leaf.
GetLeaf ==
    /\ pc = "leaf" /\ Fresh
    /\ LET r == ChosenRoot IN
       Fetches("check", [root |-> r.root, epoch |-> r.epoch, path |-> seen.path,
                         leaf |-> tree.me])

\* A request is refused because a pass is in progress, or gets no answer; the
\* probe fails and the client tries again.
GetFails ==
    /\ pc \in {"ask", "root", "path", "leaf"}
    /\ \/ pass # "none" /\ UNCHANGED faults
       \/ Fault
    /\ pc' = Retry
    /\ seen' = Nothing
    /\ UNCHANGED <<round, answer, bundle, exit, retired, board, queues>>

\* The fast path is given up after two seconds.
FastGivesUp ==
    /\ pc = "ask" /\ fast
    /\ fast' = FALSE /\ pc' = "poll"
    /\ UNCHANGED <<mode, try, ver, answer, seen, bundle, exit, retired, board, queues, faults>>

\* What run_one_zk_auth_round compares with the keys of the run.
LocalChecks ==
    ver = 0 => /\ seen.leaf = MyLeaf
               /\ RootFromPath(MyLeaf, seen.path) = seen.root

MySession == Session(MyLeaf, seen.epoch)
NewBundle == Bundle(seen.path, MySession)

\* The bundle can be made and is accepted.
Accepted ==
    /\ PathFits(MyLeaf, seen.path)
    /\ VerifyError(NewBundle, seen.root, MySession.key, MySession.ctx, MySession.epoch) = "none"

\* A bundle is checked with what its session was made for.
StillAccepted(b, root) ==
    VerifyError(b, root, b.signals.key, b.signals.ctx, b.signals.epoch) = "none"

\* The checks, the proof and its verification.  A recovery has the bundle of
\* its first round and posts the rotation; with that of the second it is done.
Check ==
    /\ pc = "check"
    /\ IF ~(LocalChecks /\ Accepted) THEN Throws /\ UNCHANGED posts
       ELSE /\ bundle' = NewBundle
            /\ IF mode = "recovery" /\ ver = 0
               THEN /\ posts' = posts \cup {[kind |-> "rotate", by |-> try, wait |-> FALSE]}
                    /\ pc' = "rotatepost" /\ fast' = FALSE
                    /\ answer' = NoAnswer /\ seen' = Nothing
                    /\ UNCHANGED <<exit, retired>>
               ELSE /\ End(IF exit = "failed" THEN "failed" ELSE "ok")
                    /\ retired' = IF ver = 1 THEN retired \cup {bundle} ELSE retired
                    /\ UNCHANGED posts
            /\ UNCHANGED <<mode, try, ver, board, jobs, op, rotating, faults>>

\* wait_for_record_active looks at the record or at the tree.
RecordSeen ==
    /\ pc = "record" /\ Fresh
    /\ records.me # NoLeaf /\ records.me.ver >= 1
    /\ Goes("newroot")

\* wait_for_new_root: any other root will do.
IsNewRoot == Epoch > bundle.signals.epoch \/ ServedRoot # bundle.signals.root

\* The old bundle has to be rejected for the new root; if it is not, the run
\* goes on and reports ok=0 in the end.
NewRootSeen ==
    /\ pc = "newroot" /\ pass = "none" /\ IsNewRoot
    /\ pc' = "ask" /\ ver' = 1
    /\ exit' = IF StillAccepted(bundle, ServedRoot) THEN "failed" ELSE exit
    /\ UNCHANGED <<mode, try, fast, answer, seen, bundle, retired, board, queues,
                   faults>>

ClientStep ==
    \/ PostAnswered \/ Poll \/ Ask \/ GetRoot \/ GetPath \/ GetLeaf
    \/ FastGivesUp \/ Check \/ RecordSeen \/ NewRootSeen

-----------------------------------------------------------------------------
(* The service. *)

Reply(m, a) ==
    answer' = IF \/ m.by = try /\ pc = "post" /\ m.kind # "rotate"
                 \/ m.by = try /\ pc = "rotatepost" /\ m.kind = "rotate"
              THEN a ELSE answer

Plain(is) == [is |-> is, epoch |-> 0]

\* Sensitivity variant of ReadyAnswer: it names the root from before.
ReadyAnswerBefore == [is |-> "ready", root |-> RootAt(Epoch - 1), epoch |-> Epoch - 1]

ReadyAnswer == [is |-> "ready", root |-> ServedRoot, epoch |-> Epoch]

\* The answer for the operation in this status.
AnswerFor(status) == IF status = "ready" THEN ReadyAnswer ELSE Plain("ok")

serviceFrame == <<pc, round, seen, bundle, exit, retired>>

\* A route reads a registration; one whose operation is known and did not
\* fail is answered at once.
TakeRegister(m) ==
    /\ m.kind = "register"
    /\ posts' = posts \ {m}
    /\ IF op \in {"none", "failed"}
       THEN op' = "pending" /\ jobs' = jobs \cup {m} /\ UNCHANGED answer
       ELSE /\ \E status \in Refreshed(op) : op' = status /\ Reply(m, AnswerFor(status))
            /\ UNCHANGED jobs
    /\ UNCHANGED <<serviceFrame, board, rotating, faults>>

\* The rotation needs the recovery key of the record and its version.
TakeRotate(m) ==
    /\ m.kind = "rotate"
    /\ posts' = posts \ {m}
    /\ IF records.me # [by |-> m.by, ver |-> 0]
       THEN Reply(m, Plain("error")) /\ UNCHANGED <<jobs, rotating>>
       ELSE IF rotating THEN Reply(m, Plain("ok")) /\ UNCHANGED <<jobs, rotating>>
       ELSE jobs' = jobs \cup {m} /\ rotating' = TRUE /\ UNCHANGED answer
    /\ UNCHANGED <<serviceFrame, board, op, faults>>

\* registerZK is mined, or reverts because there is a record.  With `wait'
\* and after a revert the answer is given when the tree has the record, else
\* now, and the settlement goes on in the background.
MineRegister(j) ==
    /\ j.kind = "register"
    /\ records' = IF records.me = NoLeaf
                  THEN [records EXCEPT !.me = [by |-> j.by, ver |-> 0]] ELSE records
    /\ LET waits == j.wait \/ records.me # NoLeaf
       IN  /\ jobs' = (jobs \ {j}) \cup {[j EXCEPT !.kind = "settle", !.wait = waits]}
           /\ IF waits THEN UNCHANGED answer ELSE Reply(j, Plain("ok"))
    /\ UNCHANGED <<serviceFrame, tree, anchored, sibling, pass, strayed, posts, op, rotating,
                   faults>>

\* The settlement of a registration that was answered before.
IsLate(j) == j.kind = "settle" /\ ~j.wait

ReplyUnlessLate(j, a) == IF IsLate(j) THEN UNCHANGED answer ELSE Reply(j, a)

Settle(j) ==
    /\ j.kind = "settle" /\ Fresh
    /\ jobs' = jobs \ {j}
    /\ op' = "ready"
    /\ ReplyUnlessLate(j, ReadyAnswer)
    /\ UNCHANGED <<serviceFrame, board, posts, rotating, faults>>

\* The answer of a rotation says nothing the client uses, so it may as well
\* come before the settlement, which writes what the record has anyhow.
MineRotate(j) ==
    /\ j.kind = "rotate"
    /\ records' = [records EXCEPT !.me = [by |-> j.by, ver |-> 1]]
    /\ jobs' = jobs \ {j}
    /\ Reply(j, Plain("ok"))
    /\ UNCHANGED <<serviceFrame, tree, anchored, sibling, pass, strayed, posts, op, rotating,
                   faults>>

\* A pass for an identity whose record is not in the tree, or because the
\* root on the board is not that of the tree.
StartPass(w) ==
    /\ pass = "none"
    /\ records[w] # tree[w] \/ anchored[Epoch] # tree
    /\ pass' = w
    /\ UNCHANGED <<client, records, tree, anchored, sibling, strayed, queues, faults>>

\* Sensitivity variant of TreeAfter: a pass for the other identity starts from
\* the tree before the served one.
TreeAfterRollback(w) ==
    IF w = "me" \/ Epoch = 1 THEN [tree EXCEPT ![w] = records[w]] ELSE anchored[Epoch - 1]

\* It changes the leaf of that identity.
TreeAfter(w) ==
    IF w = "back" THEN [tree EXCEPT !.me.ver = 0] ELSE [tree EXCEPT ![w] = records[w]]

\* Sensitivity variant of Pushed: the root is not sent.
PushedNot(t) == anchored

\* pushRootIfChanged: the root goes to the board with the next epoch.
Pushed(t) == Append(anchored, t)

\* The client may be waiting for an answer that needs the caches.
Asking == pc \in {"ask", "path", "leaf", "record"}

\* The root is pushed and the caches are fresh.  The path of this identity is
\* computed anew by a pass of its own, or by the repair that a request makes
\* that came while the caches were stale.
EndPass ==
    /\ pass # "none"
    /\ tree' = TreeAfter(pass)
    /\ anchored' = Pushed(tree')
    /\ \/ /\ pass # "other" \/ Asking
          /\ sibling' = tree'.other
       \/ /\ pass = "other"
          /\ UNCHANGED sibling
    /\ pass' = "none"
    /\ UNCHANGED <<client, records, strayed, queues, faults>>

\* The mirror gets an older version of this identity and a pass anchors it: the
\* settlement of its registration came after the rotation, or a pass that
\* overlapped with another had read the record before.
GoesBack ==
    /\ Fault
    /\ pass = "none" /\ tree.me.ver = 1
    /\ pass' = "back"
    /\ strayed' = strayed \cup {"back"}
    /\ UNCHANGED <<client, records, tree, anchored, sibling, queues>>

\* While the root of a pass is on its way another pass takes more records into
\* the tree: the newer root is served with the epoch of the older.
EndPassMixed ==
    /\ Fault
    /\ pass # "none"
    /\ strayed' = strayed \cup {"mixed"}
    /\ anchored' = Pushed(TreeAfter(pass))
    /\ tree' = records
    /\ sibling' \in {sibling, records.other}
    /\ pass' = "none"
    /\ UNCHANGED <<client, records, queues>>

ServiceStep ==
    \/ \E m \in posts : TakeRegister(m) \/ TakeRotate(m)
    \/ \E j \in jobs : MineRegister(j) \/ Settle(j) \/ MineRotate(j)
    \/ \E w \in Identities : StartPass(w)
    \/ EndPass

-----------------------------------------------------------------------------
(* What goes wrong. *)

\* What the client waits for is there or may still come.
Hope ==
    \/ posts # {} \/ pass # "none" \/ records # tree
    \/ \E j \in jobs : ~IsLate(j)
    \/ pc = "poll" /\ op # "none" /\ SnapshotReady
    \/ pc = "ask" /\ SnapshotReady
    \/ pc = "record" /\ records.me.ver >= 1
    \/ pc = "newroot" /\ IsNewRoot

\* Sensitivity variant of DeadlinePasses: a registration is polled for ever.
DeadlinePassesButForPoll ==
    /\ IF Hope THEN Fault ELSE UNCHANGED faults
    /\ \/ /\ (pc = "ask" /\ ~fast) \/ pc \in {"record", "newroot"}
          /\ End("failed")
       \/ /\ pc \in {"post", "rotatepost"} /\ answer.is = "none"
          /\ pc' = IF pc = "post" THEN "poll" ELSE "record"
          /\ UNCHANGED <<fast, answer, seen, exit>>
    /\ UNCHANGED <<mode, try, ver, bundle, retired, board, queues>>

\* A deadline passes.  That is a misfortune if the client would have been
\* answered, and its own end otherwise.  The timeout of a post is tolerated.
DeadlinePasses ==
    /\ IF Hope THEN Fault ELSE UNCHANGED faults
    /\ \/ /\ (pc = "ask" /\ ~fast) \/ pc \in {"poll", "record", "newroot"}
          /\ End("failed")
       \/ /\ pc \in {"post", "rotatepost"} /\ answer.is = "none"
          /\ pc' = IF pc = "post" THEN "poll" ELSE "record"
          /\ UNCHANGED <<fast, answer, seen, exit>>
    /\ UNCHANGED <<mode, try, ver, bundle, retired, board, queues>>

ClientDies ==
    /\ Fault
    /\ pc # "idle"
    /\ End("failed")
    /\ UNCHANGED <<mode, try, ver, bundle, retired, board, queues>>

PostLost(m) ==
    /\ Fault
    /\ posts' = posts \ {m}
    /\ UNCHANGED <<client, board, jobs, op, rotating>>

\* A transaction fails: registerZk marks its operation, applyRecoveryRotateZk
\* does not, and nobody is told of a settlement that was late.
TxFails(j) ==
    /\ Fault
    /\ \/ j.kind = "register" /\ records.me = NoLeaf /\ op' = "failed"
       \/ (j.kind = "rotate" \/ IsLate(j)) /\ UNCHANGED op
    /\ jobs' = jobs \ {j}
    /\ ReplyUnlessLate(j, Plain("error"))
    /\ UNCHANGED <<serviceFrame, board, posts, rotating>>

OtherIdentity ==
    /\ Fault
    /\ records' = [records EXCEPT !.other = @ + 1]
    /\ UNCHANGED <<client, tree, anchored, sibling, pass, strayed, queues>>

Misfortune ==
    \/ GetFails \/ DeadlinePasses \/ ClientDies \/ OtherIdentity
    \/ GoesBack \/ EndPassMixed
    \/ \E m \in posts : PostLost(m)
    \/ \E j \in jobs : TxFails(j)

Operator == \E m \in {"auth", "recovery"}, wait \in BOOLEAN : StartRun(m, wait)

Next == Operator \/ ClientStep \/ ServiceStep \/ Misfortune

Spec == Init /\ [][Next]_vars

\* The client's process runs, its waits have deadlines, and the service works
\* off what it accepted.
FairSpec ==
    /\ Spec
    /\ WF_vars(ClientStep)
    /\ WF_vars(ServiceStep)
    /\ WF_vars(DeadlinePasses)

-----------------------------------------------------------------------------
Requests == [kind : {"register", "settle", "rotate"}, by : Tries, wait : BOOLEAN]

TypeOK ==
    /\ pc \in {"idle", "post", "poll", "ask", "root", "path", "leaf", "check",
               "rotatepost", "record", "newroot"}
    /\ mode \in {"auth", "recovery"}
    /\ try \in {0} \cup Tries /\ ver \in {0, 1} /\ fast \in BOOLEAN
    /\ answer.is \in {"none", "ok", "ready", "error"} /\ answer.epoch \in Nat
    /\ seen.epoch \in Nat
    /\ exit \in {"none", "ok", "failed"}
    /\ records.me \in Leaf \cup {NoLeaf} /\ records.other \in Nat
    /\ tree.me \in Leaf \cup {NoLeaf} /\ tree.other \in Nat
    /\ Len(anchored) > 0 /\ ("mixed" \notin strayed => anchored[Epoch] = tree)
    /\ sibling \in Nat /\ pass \in Identities \cup {"none", "back"}
    /\ strayed \subseteq {"back", "mixed"}
    /\ posts \subseteq Requests /\ jobs \subseteq Requests
    /\ op \in {"none", "pending", "ready", "failed"} /\ rotating \in BOOLEAN
    /\ faults \in Nat

\* As long as no root was served with the epoch of another, and whatever else
\* happened between the requests for root, path and leaf, a bundle that the
\* client accepts is about one tree that was on the board at the epoch the
\* session is bound to, and that tree had the leaf of the run.
BundleIsAnchored ==
    bundle # NoBundle /\ "mixed" \notin strayed =>
        /\ bundle.signals.epoch \in 1..Epoch
        /\ bundle.signals.root = RootAt(bundle.signals.epoch)
        /\ bundle.signals.root.left = bundle.signals.key
        /\ bundle.signals.key.by = try

\* A bundle made with the keys that a recovery replaced is not accepted for the
\* served root again, as long as no older leaf was taken back into the tree.
OldBundleDies ==
    "back" \notin strayed => \A b \in retired : ~StillAccepted(b, ServedRoot)

\* A run for an identity nobody registered before fails only when something
\* went wrong.
FailsOnlyByMisfortune == exit = "failed" /\ faults = 0 => records.me.by \notin {0, try}

\* Every run ends.
RunsEnd == pc # "idle" ~> pc = "idle"
=============================================================================
