--------------------------- MODULE TtssKeepProofs ---------------------------
(***************************************************************************)
(* Proofs that a run which ended well leaves something behind that stays   *)
(* usable: no later flow, late request or failed run takes the anchor or   *)
(* the shares away before the board has moved on.  And that a run does not *)
(* fail for nothing: without a misfortune, the service, the nodes and the  *)
(* client always have for each other what the next step needs.  They rest  *)
(* on the invariant of TtssFlowProofs.                                     *)
(***************************************************************************)
EXTENDS TtssFlowProofs

-----------------------------------------------------------------------------
(* The invariant *)

\* The requests that an accepted registration goes on with.
Accepted == {m \in jobs : m.kind \in {"settle", "deferred"}}

\* Predicted and observed epochs.
EpochInv ==
    /\ \A m \in posts \cup jobs : m.kind \in {"register", "settle", "deferred"} =>
           m.deal.ver = 0 /\ m.deal.epoch <= epoch + 1
    /\ \A m \in posts : m.kind \notin {"settle", "deferred"}
    /\ \A m \in Accepted :
           /\ chain.ver >= 0
           /\ chain.ver = 0 => m.deal.seed = chain.rec
           /\ shown.ver >= 0 => m.deal.epoch <= epoch
    /\ ep <= epoch
    /\ \A f \in files : f.epoch <= epoch
    /\ mode = "setup" /\ (pc = "check" \/ Dealing) =>
           /\ shown.ver >= 0
           /\ \A m \in Accepted : m.deal.epoch <= ep
    /\ mode = "setup" /\ Dealing => chain.rec = try

\* What keeps the shares of a deal that is complete.
ShareInv ==
    /\ \A m \in late : m.kind = "invalidate" => m.deal.ver < chain.ver
    /\ pc = "distribute" => \A g \in Nodes \ lost :
           task[g] = "ok" => ActiveEnvelope(MyDeal) \in shares[g]
    /\ pc \in {"verify", "meta", "metapost", "metawait", "validate", "save", "compare"}
            /\ chain.ver = NewVer =>
           \A g \in Nodes \ lost : ActiveEnvelope(MyDeal) \in shares[g]
    /\ pc \in {"validate", "save", "compare"} /\ chain.ver = NewVer => meta = MyDeal
    /\ pc = "compare" => MyDeal \in files /\ NewVer <= chain.ver

\* What the file of the last good run relies on.
GoodInv ==
    good # NoFile =>
        /\ good \in files
        /\ good.ver <= chain.ver
        /\ good.ver = 0 => shown.ver >= 0 /\ \A m \in Accepted : m.deal.epoch <= good.epoch

KeepInv == EpochInv /\ ShareInv /\ GoodInv /\ GoodFileHolds

-----------------------------------------------------------------------------
(* What a step can change *)

\* The root's epoch, with the record in the tree.
LEMMA EpochView ==
    ASSUME Next
    PROVE  \/ UNCHANGED <<epoch, shown>>
           \/ /\ epoch' = epoch + 1
              /\ UNCHANGED <<shares, late, pc, run, files, good, chain, meta, posts, jobs>>
  <1> USE DEF board
  <1>1. CASE Operator
    BY <1>1 DEF Operator, StartSetup, StartFromFile, Begin
  <1>2. CASE ClientStep
    BY <1>2 DEF ClientStep, Recovered, PostAnswered, ReadySeen, CheckSetup, PhaseEnds,
       RegisterMeta, MetaSeen, Validated, Save, Compare, FetchShare, NodeAnswers, Joined,
       Step, Throw
  <1>3. CASE ServiceStep
    BY <1>3 DEF ServiceStep, TakePost, MineRegister, Settle, MineRotate, MineMeta,
       MetaReverts, JobFails, PushRoot, serviceFrame, disk, queues
  <1>4. CASE Misfortune
    BY <1>4 DEF Misfortune, DeadlinePasses, FetchFails, OtherIdentity, PostLost, TxFails,
       JobFails, ClientDies, TaskFails, NodeRestarts, LateArrives, serviceFrame, disk, queues
  <1> QED
    BY <1>1, <1>2, <1>3, <1>4 DEF Next

\* The anchor.
LEMMA MetaView ==
    ASSUME Next
    PROVE  UNCHANGED meta \/ \E j \in jobs : MineMeta(j)
  <1> USE DEF board
  <1>1. CASE Operator
    BY <1>1 DEF Operator, StartSetup, StartFromFile, Begin
  <1>2. CASE ClientStep
    BY <1>2 DEF ClientStep, Recovered, PostAnswered, ReadySeen, CheckSetup, PhaseEnds,
       RegisterMeta, MetaSeen, Validated, Save, Compare, FetchShare, NodeAnswers, Joined,
       Step, Throw
  <1>3. CASE ServiceStep
    BY <1>3 DEF ServiceStep, TakePost, MineRegister, Settle, MineRotate,
       MetaReverts, JobFails, PushRoot
  <1>4. CASE Misfortune
    BY <1>4 DEF Misfortune, DeadlinePasses, FetchFails, OtherIdentity, PostLost, TxFails,
       JobFails, ClientDies, TaskFails, NodeRestarts, LateArrives
  <1> QED
    BY <1>1, <1>2, <1>3, <1>4 DEF Next

\* The nodes that were restarted, and the last good file.
LEMMA HistoryView ==
    ASSUME Next
    PROVE  /\ UNCHANGED lost \/ \E g \in Nodes : NodeRestarts(g)
           /\ \/ UNCHANGED good
              \/ Save /\ mode = "setup" /\ good' = MyDeal
              \/ Compare /\ OwnLeaf /\ good' = MyDeal
  <1> USE DEF disk
  <1>1. CASE Operator
    BY <1>1 DEF Operator, StartSetup, StartFromFile, Begin
  <1>2. CASE ClientStep
    BY <1>2 DEF ClientStep, Recovered, PostAnswered, ReadySeen, CheckSetup, PhaseEnds,
       RegisterMeta, MetaSeen, Validated, Save, Compare, FetchShare, NodeAnswers, Joined,
       Step, Throw
  <1>3. CASE ServiceStep
    BY <1>3 DEF ServiceStep, TakePost, MineRegister, Settle, MineRotate, MineMeta,
       MetaReverts, JobFails, PushRoot, serviceFrame
  <1>4. CASE Misfortune
    BY <1>4 DEF Misfortune, DeadlinePasses, FetchFails, OtherIdentity, PostLost, TxFails,
       JobFails, ClientDies, TaskFails, NodeRestarts, LateArrives, serviceFrame
  <1> QED
    BY <1>1, <1>2, <1>3, <1>4 DEF Next

\* The epoch that the client observed is one it was shown.
LEMMA EpView ==
    ASSUME Next
    PROVE  ep' \in {0, ep, epoch}
  <1> USE DEF run, GoTo, End
  <1>1. CASE Operator
    BY <1>1 DEF Operator, StartSetup, StartFromFile, Begin
  <1>2. CASE ClientStep
    BY <1>2 DEF ClientStep, Recovered, PostAnswered, ReadySeen, CheckSetup, PhaseEnds,
       RegisterMeta, MetaSeen, Validated, Save, Compare, FetchShare, NodeAnswers, Joined,
       Step, Throw
  <1>3. CASE ServiceStep
    BY <1>3 DEF ServiceStep, TakePost, MineRegister, Settle, MineRotate, MineMeta,
       MetaReverts, JobFails, PushRoot, serviceFrame
  <1>4. CASE Misfortune
    BY <1>4 DEF Misfortune, DeadlinePasses, FetchFails, OtherIdentity, PostLost, TxFails,
       JobFails, ClientDies, TaskFails, NodeRestarts, LateArrives, serviceFrame
  <1> QED
    BY <1>1, <1>2, <1>3, <1>4 DEF Next

\* A new post is of one of the client's kinds.
LEMMA PostView ==
    ASSUME Next, NEW m \in posts'
    PROVE  m \in posts \/ m.kind \in {"register", "rotate", "meta", "metarotate"}
  <1> USE DEF queues
  <1>1. CASE Operator
    BY <1>1 DEF Operator, StartSetup, StartFromFile, Begin, Post
  <1>2. CASE Recovered
    BY <1>2 DEF Recovered, Post
  <1>3. CASE RegisterMeta
    BY <1>3 DEF RegisterMeta, Post, Step
  <1>4. CASE ClientStep /\ ~Recovered /\ ~RegisterMeta
    BY <1>4 DEF ClientStep, PostAnswered, ReadySeen, CheckSetup, PhaseEnds,
       MetaSeen, Validated, Save, Compare, FetchShare, NodeAnswers, Joined, Step, Throw
  <1>5. CASE ServiceStep
    BY <1>5 DEF ServiceStep, TakePost, MineRegister, Settle, MineRotate, MineMeta,
       MetaReverts, JobFails, PushRoot
  <1>6. CASE Misfortune
    BY <1>6 DEF Misfortune, DeadlinePasses, FetchFails, OtherIdentity, PostLost, TxFails,
       JobFails, ClientDies, TaskFails, NodeRestarts, LateArrives
  <1> QED
    BY <1>1, <1>2, <1>3, <1>4, <1>5, <1>6 DEF Next

\* The phases after the anchor is seen are entered with it.
LEMMA AnchorSeen ==
    ASSUME Next, pc \notin {"validate", "save", "compare"}, pc' \in {"validate", "save", "compare"}
    PROVE  pc = "metawait" /\ meta = MyDeal /\ UNCHANGED <<shares, meta, chain, run, files, lost>>
  <1> USE DEF run, control, GoTo, End
  <1>1. CASE MetaSeen
    BY <1>1 DEF MetaSeen, Step, board, disk
  <1>2. CASE Operator
    BY <1>2 DEF Operator, StartSetup, StartFromFile, Begin
  <1>3. CASE ClientStep /\ ~MetaSeen
    BY <1>3 DEF ClientStep, Recovered, PostAnswered, ReadySeen, CheckSetup, PhaseEnds,
       RegisterMeta, Validated, Save, Compare, FetchShare, NodeAnswers, Joined, Step, Throw
  <1>4. CASE ServiceStep
    BY <1>4 DEF ServiceStep, TakePost, MineRegister, Settle, MineRotate, MineMeta,
       MetaReverts, JobFails, PushRoot, serviceFrame
  <1>5. CASE Misfortune
    BY <1>5 DEF Misfortune, DeadlinePasses, FetchFails, OtherIdentity, PostLost, TxFails,
       JobFails, ClientDies, TaskFails, NodeRestarts, LateArrives, serviceFrame
  <1> QED
    BY <1>1, <1>2, <1>3, <1>4, <1>5 DEF Next

\* A phase after the shares are dealt follows one, or the dealing.
LEMMA AfterDealing ==
    ASSUME TypeOK, RunInv, Next,
           pc' \in {"verify", "meta", "metapost", "metawait", "validate", "save", "compare"}
    PROVE  /\ pc \in {"distribute", "verify", "meta", "metapost", "metawait", "validate", "save",
                      "compare"}
           /\ pc' = "compare" => pc \in {"save", "compare"}
           /\ pc = "compare" => pc' = "compare"
           /\ MyDeal' = MyDeal /\ NewVer' = NewVer /\ UNCHANGED <<mode, try, base, ep>>
  <1>1. ~Operator /\ ~Enters /\ ~ReadySeen
    BY DEF Operator, StartSetup, StartFromFile, Begin, Enters, ReadySeen, GoTo
  <1>2. Save => pc = "save" /\ pc' \in {"idle", "compare"}
    BY DEF Save, GoTo, End
  <1> QED
    BY <1>1, <1>2, RunView DEF Dealing, MyDeal, NewVer

-----------------------------------------------------------------------------
(* Registrations that were accepted, and epochs *)

LEMMA ChainGrows ==
    ASSUME Inv, Next
    PROVE  UNCHANGED chain \/ chain'.ver = chain.ver + 1
  BY BoardMoves

\* Once the identity is registered no other registration is accepted: what
\* the service still works on has the deals it had.
LEMMA AcceptedKept ==
    ASSUME Inv, EpochInv, Next, NEW m \in Accepted', chain # Unregistered
    PROVE  \E j \in Accepted : j.deal = m.deal
  <1>1. m \in jobs' /\ m.kind \in {"settle", "deferred"}
    BY DEF Accepted
  <1>2. CASE m \in posts \cup jobs
    BY <1>1, <1>2 DEF Accepted, EpochInv
  <1>3. CASE m \notin posts \cup jobs
    <2>1. CASE \E j \in jobs : MineRegister(j) /\ m = [j EXCEPT !.kind = "settle"]
      BY <1>1, <1>3, <2>1 DEF MineRegister
    <2>2. CASE \E j \in jobs : Settle(j) /\ m = [j EXCEPT !.kind = "deferred"]
      <3>1. PICK j \in jobs : Settle(j) /\ m = [j EXCEPT !.kind = "deferred"]
        BY <2>2
      <3>2. j.kind = "settle" /\ m.deal = j.deal
        BY <3>1 DEF Settle, Inv, TypeOK
      <3> QED
        BY <3>2 DEF Accepted
    <2> QED
      BY <1>1, <1>3, <2>1, <2>2, RequestView
  <1> QED
    BY <1>2, <1>3

\* A registration that is accepted later than that is the one on the board.
LEMMA AcceptedFirst ==
    ASSUME Inv, EpochInv, Next, NEW m \in Accepted', chain = Unregistered
    PROVE  /\ chain'.ver = 0 /\ m.deal.seed = chain'.rec
           /\ UNCHANGED shown
  <1>1. Accepted = {}
    BY DEF EpochInv, Unregistered
  <1>2. m \in jobs' /\ m.kind \in {"settle", "deferred"}
    BY DEF Accepted
  <1>3. m \notin posts \cup jobs
    BY <1>1, <1>2 DEF Accepted, EpochInv
  <1>4. ~(\E j \in jobs : Settle(j))
    BY <1>1 DEF Settle, Accepted
  <1>5. PICK j \in jobs : MineRegister(j) /\ m = [j EXCEPT !.kind = "settle"]
    BY <1>2, <1>3, <1>4, RequestView
  <1>6. m.deal = j.deal
    BY <1>5 DEF Inv, TypeOK
  <1>7. chain' = [ver |-> 0, rec |-> j.deal.seed] /\ UNCHANGED shown
    BY <1>5 DEF MineRegister
  <1> QED
    BY <1>6, <1>7

LEMMA EpochStep ==
    ASSUME Inv, Inv', EpochInv, Next
    PROVE  EpochInv'
  <1>0. /\ epoch \in Nat /\ ep \in Nat /\ chain.ver \in Int /\ shown.ver \in Int
        /\ chain'.ver \in Int /\ shown'.ver \in Int /\ epoch' \in Nat
    BY DEF Inv, TypeOK
  <1>1. epoch <= epoch'
    BY <1>0, EpochView
  <1>b. epoch + 1 <= epoch' + 1
    <2>1. \A a, b \in Nat : a <= b => a + 1 <= b + 1
      OBVIOUS
    <2> QED
      BY <1>0, <1>1, <2>1
  <1>2. ASSUME NEW m \in posts' \cup jobs', m.kind \in {"register", "settle", "deferred"}
        PROVE  m.deal.ver = 0 /\ m.deal.epoch <= epoch' + 1
    <2>1. CASE m \in posts \cup jobs
      <3>1. m.deal.epoch \in Nat
        BY <2>1 DEF Inv, TypeOK, Deal
      <3> QED
        BY <1>0, <1>1, <1>2, <2>1, <3>1 DEF EpochInv
    <2>2. CASE m \notin posts \cup jobs
      <3>1. \/ m.deal = [ver |-> 0, epoch |-> epoch + 1, seed |-> try + 1]
            \/ \E j \in jobs : j.kind \in {"register", "settle"} /\ m.deal = j.deal
        <4>1. ASSUME NEW j \in jobs
              PROVE  /\ [j EXCEPT !.kind = "settle"].deal = j.deal
                     /\ [j EXCEPT !.kind = "deferred"].deal = j.deal
                     /\ MineRegister(j) => j.kind = "register"
                     /\ Settle(j) => j.kind = "settle"
          <5>1. j \in [kind : Kinds, by : Seeds, deal : Deal, old : Seeds]
            BY DEF Inv, TypeOK
          <5>2. /\ [j EXCEPT !.kind = "settle"].deal = j.deal
                /\ [j EXCEPT !.kind = "deferred"].deal = j.deal
            BY <5>1
          <5> QED
            BY <5>2 DEF MineRegister, Settle
        <4>2. CASE \E j \in jobs : MineRegister(j) /\ m = [j EXCEPT !.kind = "settle"]
          BY <4>1, <4>2
        <4>3. CASE \E j \in jobs : Settle(j) /\ m = [j EXCEPT !.kind = "deferred"]
          BY <4>1, <4>3
        <4>4. CASE \/ m.kind = "rotate"
                   \/ m.kind = IF mode = "setup" THEN "meta" ELSE "metarotate"
          BY <1>2, <4>4
        <4>5. \/ m.deal = [ver |-> 0, epoch |-> epoch + 1, seed |-> try + 1]
              \/ m.kind = "rotate"
              \/ m.kind = IF mode = "setup" THEN "meta" ELSE "metarotate"
              \/ \E j \in jobs : MineRegister(j) /\ m = [j EXCEPT !.kind = "settle"]
              \/ \E j \in jobs : Settle(j) /\ m = [j EXCEPT !.kind = "deferred"]
          BY <2>2, RequestView, Zenon
        <4> QED
          BY <4>2, <4>3, <4>4, <4>5
      <3>2. CASE m.deal = [ver |-> 0, epoch |-> epoch + 1, seed |-> try + 1]
        <4>1. m.deal.ver = 0 /\ m.deal.epoch = epoch + 1
          BY <3>2
        <4>2. epoch + 1 <= epoch' + 1
          BY <1>b
        <4> QED
          BY <4>1, <4>2, Zenon
      <3>3. ASSUME NEW j \in jobs, j.kind \in {"register", "settle"}, m.deal = j.deal
            PROVE  m.deal.ver = 0 /\ m.deal.epoch <= epoch' + 1
        <4>1. j.deal.epoch \in Nat
          BY DEF Inv, TypeOK, Deal
        <4> QED
          BY <1>0, <1>1, <3>3, <4>1 DEF EpochInv
      <3> QED
        BY <3>1, <3>2, <3>3
    <2> QED
      BY <2>1, <2>2
  <1>3. \A m \in posts' : m.kind \notin {"settle", "deferred"}
    BY PostView DEF EpochInv
  <1>4. ASSUME NEW m \in Accepted'
        PROVE  /\ chain'.ver >= 0
               /\ chain'.ver = 0 => m.deal.seed = chain'.rec
               /\ shown'.ver >= 0 => m.deal.epoch <= epoch'
    <2>1. CASE chain = Unregistered
      <3>1. chain.ver = -1 /\ shown.ver <= -1
        BY <2>1 DEF Unregistered, Inv, VersionInv
      <3> QED
        BY <1>0, <2>1, <3>1, AcceptedFirst
    <2>2. CASE chain # Unregistered
      <3>1. PICK j \in Accepted : j.deal = m.deal
        BY <2>2, AcceptedKept
      <3>2. /\ j.deal.epoch \in Nat /\ chain.ver >= 0
            /\ chain.ver = 0 => j.deal.seed = chain.rec
            /\ shown.ver >= 0 => j.deal.epoch <= epoch
            /\ j.deal.epoch <= epoch + 1
        BY DEF EpochInv, Accepted, Inv, TypeOK, Deal
      <3>3. shown'.ver >= 0 => m.deal.epoch <= epoch'
        BY <1>0, <3>1, <3>2, EpochView
      <3> QED
        BY <1>0, <3>1, <3>2, <3>3, ChainGrows
    <2> QED
      BY <2>1, <2>2
  <1>5. ep' <= epoch'
    BY <1>0, <1>1, EpView DEF EpochInv
  <1>6. ASSUME NEW f \in files'
        PROVE  f.epoch <= epoch'
    <2>1. CASE f \in files
      BY <1>0, <1>1, <2>1 DEF EpochInv, Inv, TypeOK, Deal
    <2>2. CASE f \notin files
      <3>1. f = MyDeal
        BY <2>2, FilesView DEF Save
      <3>2. f.epoch = ep
        BY <3>1 DEF MyDeal
      <3> QED
        BY <1>0, <1>1, <3>2 DEF EpochInv
    <2> QED
      BY <2>1, <2>2
  <1>7. ASSUME mode' = "setup", pc' = "check" \/ Dealing'
        PROVE  /\ shown'.ver >= 0
               /\ \A m \in Accepted' : m.deal.epoch <= ep'
    <2>1. ~Operator /\ ~Save
      BY <1>7 DEF Operator, StartSetup, StartFromFile, Begin, Save, GoTo, End, Dealing
    <2>2. mode = "setup" /\ pc # "idle"
      <3>1. TypeOK /\ RunInv
        BY DEF Inv
      <3> QED
        BY <1>7, <2>1, <3>1, RunView DEF Dealing, Enters, CheckSetup, ReadySeen
    <2>3. CASE ReadySeen
      <3>1. shown.ver >= 0 /\ ep' = epoch /\ UNCHANGED <<shown, jobs, chain>>
        BY <2>2, <2>3 DEF ReadySeen, Ready, ReadyFor, NewVer, board, queues
      <3> QED
        BY <3>1 DEF Accepted, EpochInv
    <2>4. CASE ~ReadySeen
      <3>1. (pc = "check" \/ Dealing) /\ UNCHANGED ep
        BY <1>7, <2>1, <2>2, <2>4, RunView DEF Dealing, Enters, CheckSetup, Inv, RunInv
      <3>2. shown.ver >= 0 /\ \A m \in Accepted : m.deal.epoch <= ep
        BY <2>2, <3>1 DEF EpochInv
      <3>3. chain # Unregistered
        BY <1>0, <3>2 DEF Unregistered, Inv, VersionInv
      <3>4. shown'.ver >= 0
        BY <1>0, <3>2, ShownView DEF Inv, VersionInv
      <3> QED
        BY <3>1, <3>2, <3>3, <3>4, AcceptedKept
    <2> QED
      BY <2>3, <2>4
  <1>8. ASSUME mode' = "setup", Dealing'
        PROVE  chain'.rec = try'
    <2>1. CASE Enters
      <3>1. files = {}
        BY <1>8, <2>1 DEF Enters, run, Inv, RunInv, CheckSetup
      <3> QED
        BY <2>1, <3>1, ClearToDeal DEF Enters, board, run
    <2>2. CASE ~Enters
      <3>1. ~Operator
        BY <1>8 DEF Operator, StartSetup, StartFromFile, Begin, Dealing
      <3>2. Dealing /\ UNCHANGED <<mode, try>>
        BY <1>8, <2>2, <3>1, LooseShrinks, RunView DEF Inv
      <3>3. UNCHANGED chain
        BY <3>2, LooseOrFiled, BoardMoves DEF Inv, LooseInv
      <3> QED
        BY <1>8, <3>2, <3>3 DEF EpochInv
    <2> QED
      BY <2>1, <2>2
  <1> QED
    BY <1>2, <1>3, <1>4, <1>5, <1>6, <1>7, <1>8 DEF EpochInv

-----------------------------------------------------------------------------
(* Shares that are kept *)

\* A deal in no danger: whatever may be handled now has another key, except
\* that its own share may be stored again.
Safe(d) ==
    /\ pc = "invalidate" => base.ver # d.ver
    /\ \A m \in late : m.kind = "invalidate" => m.deal.ver # d.ver
    /\ pc = "distribute" => MyDeal.ver # d.ver \/ MyDeal = d
    /\ \A m \in late : m.kind = "distribute" => m.deal.ver # d.ver \/ m.deal = d

\* The deals that are on file and of the board's version, or loose, are safe
\* but from the rotation that gives them up, which the board has moved on for.
LEMMA KeptSafe ==
    ASSUME Inv, ShareInv, NEW d \in files \cup Loose, d.ver = chain.ver
    PROVE  Safe(d)
  <1>1. pc = "invalidate" => base.ver # d.ver
    BY DEF Inv, RotateInv, RunInv, TypeOK, Deal
  <1>2. \A m \in late : m.kind = "invalidate" => m.deal.ver # d.ver
    BY DEF ShareInv, Inv, TypeOK, Deal
  <1>3. ASSUME NEW c \in Loose
        PROVE  c.ver # d.ver \/ c = d
    <2>1. CASE d \in Loose
      BY <2>1 DEF Inv, LooseInv
    <2>2. CASE d \in files
      BY <2>2, LooseDeals DEF Inv, LooseInv, TypeOK, Deal
    <2> QED
      BY <2>1, <2>2
  <1>4. pc = "distribute" => MyDeal \in Loose
    BY LooseOrFiled DEF Inv, LooseInv, Dealing
  <1>5. \A m \in late : m.kind = "distribute" => m.deal \in Loose
    BY LooseOrFiled DEF Inv, LooseInv
  <1> QED
    BY <1>1, <1>2, <1>3, <1>4, <1>5 DEF Safe

\* A node that is not restarted keeps the share of a safe deal.
LEMMA ShareKept ==
    ASSUME TypeOK, RunInv, Next, NEW d \in Deal, Safe(d),
           NEW g \in Nodes \ lost', ActiveEnvelope(d) \in shares[g]
    PROVE  ActiveEnvelope(d) \in shares'[g]
  <1> DEFINE e == ActiveEnvelope(d)
  <1>0. e.ver = d.ver /\ e.epoch = d.epoch /\ e.active /\ DealOf(e) = d
    BY DealOfActive DEF ActiveEnvelope
  <1> HIDE DEF e
  <1>1. ASSUME NEW h \in Nodes, NEW v, NEW ep0, InvalidateShares(h, v, ep0), v # d.ver
        PROVE  e \in shares'[g]
    <2>1. ~HasKey(e, v, ep0)
      BY <1>0, <1>1 DEF HasKey
    <2> QED
      BY <1>1, <2>1, Invalidates DEF TypeOK, e
  <1>2. ASSUME NEW h \in Nodes, NEW c \in Deal, SetShareEnvelope(h, c), c.ver # d.ver \/ c = d
        PROVE  e \in shares'[g]
    <2>1. CASE c = d
      <3>1. CASE h = g
        BY <1>2, <2>1, <3>1, Stores DEF TypeOK, e
      <3>2. CASE h # g
        BY <1>2, <3>2, Stores DEF TypeOK, e
      <3> QED
        BY <3>1, <3>2
    <2>2. CASE c # d
      <3>1. ~HasKey(e, c.ver, c.epoch)
        BY <1>0, <1>2, <2>2 DEF HasKey
      <3> QED
        BY <1>2, <3>1, Stores DEF TypeOK, e
    <2> QED
      BY <2>1, <2>2
  <1>3. ASSUME NEW h \in Nodes, pc # "idle", Handled(h)
        PROVE  e \in shares'[g]
    <2>1. CASE pc = "invalidate"
      BY <1>1, <1>3, <2>1 DEF Handled, Safe
    <2>2. CASE pc = "distribute"
      <3>1. SetShareEnvelope(h, MyDeal) /\ MyDeal \in Deal
        BY <1>3, <2>2, MyDealType DEF Handled
      <3> QED
        BY <1>2, <2>2, <3>1 DEF Safe
    <2>3. CASE pc \notin {"invalidate", "distribute"}
      BY <1>3, <2>3 DEF Handled, e
    <2> QED
      BY <2>1, <2>2, <2>3
  <1>4. ASSUME NEW h \in Nodes, NodeAnswers(h) \/ TaskFails(h)
        PROVE  e \in shares'[g]
    BY <1>3, <1>4 DEF NodeAnswers, TaskFails, Parallel, e
  <1>5. ASSUME NEW h \in Nodes, NodeRestarts(h)
        PROVE  e \in shares'[g]
    <2>1. h # g
      BY <1>5 DEF NodeRestarts
    <2> QED
      BY <1>5, <2>1, Restarts DEF NodeRestarts, TypeOK, e
  <1>6. ASSUME NEW m \in late, LateArrives(m)
        PROVE  e \in shares'[g]
    <2>1. m.node \in Nodes /\ m.deal \in Deal /\ m.kind \in {"invalidate", "distribute"}
      BY DEF TypeOK
    <2>2. CASE m.kind = "invalidate"
      BY <1>1, <1>6, <2>1, <2>2 DEF LateArrives, Safe
    <2>3. CASE m.kind = "distribute"
      BY <1>2, <1>6, <2>1, <2>3 DEF LateArrives, Safe
    <2> QED
      BY <2>1, <2>2, <2>3
  <1>7. CASE UNCHANGED shares
    BY <1>7 DEF e
  <1> QED
    BY <1>4, <1>5, <1>6, <1>7, NodeView DEF ClientDies, e

\* Nothing replaces the anchor of a deal that is on file or loose and of the
\* board's version, not even the attachment that a registration left behind.
LEMMA MetaKept ==
    ASSUME Inv, EpochInv, Next, meta \in files \cup Loose, meta.ver = chain.ver,
           meta.epoch <= epoch,
           meta.ver = 0 => /\ chain.rec = meta.seed
                           /\ \A m \in Accepted : m.deal.epoch <= meta.epoch
    PROVE  UNCHANGED meta
  <1> SUFFICES ASSUME NEW j \in jobs, MineMeta(j)
               PROVE  j.deal = meta
    BY MetaView DEF MineMeta
  <1>1. /\ j.kind \in {"meta", "metarotate", "deferred"}
        /\ j.deal.ver = chain.ver /\ j.deal.epoch = epoch /\ j.deal \in Deal
    BY DEF MineMeta, Anchorable, Inv, TypeOK
  <1>2. meta \in Deal
    BY LooseDeals DEF Inv, TypeOK
  <1>3. CASE j.kind \in {"meta", "metarotate"}
    <2>1. j.deal \in files \cup Loose
      BY <1>3, LooseOrFiled DEF Inv
    <2>2. CASE j.deal \in files /\ meta \in files
      BY <1>1, <2>2 DEF Inv, VersionInv
    <2>3. CASE j.deal \in Loose /\ meta \in Loose
      BY <2>3 DEF Inv, LooseInv
    <2>4. CASE \/ j.deal \in Loose /\ meta \in files
               \/ j.deal \in files /\ meta \in Loose
      BY <1>1, <1>2, <2>4 DEF Inv, LooseInv, Deal
    <2> QED
      BY <2>1, <2>2, <2>3, <2>4
  <1>4. CASE j.kind = "deferred"
    <2>1. j \in Accepted /\ j.deal.ver = 0
      BY <1>4 DEF Accepted, EpochInv
    <2>2. j.deal.seed = meta.seed /\ j.deal.epoch <= meta.epoch /\ j.deal.ver = meta.ver
      BY <1>1, <2>1 DEF EpochInv
    <2>3. j.deal.epoch = meta.epoch
      <3>1. meta.epoch \in Nat /\ epoch \in Nat
        BY <1>2 DEF Deal, Inv, TypeOK
      <3> QED
        BY <1>1, <2>2, <3>1
    <2> QED
      BY <1>1, <1>2, <2>2, <2>3 DEF Deal
  <1> QED
    BY <1>1, <1>3, <1>4

-----------------------------------------------------------------------------
(* The invariant is kept *)

LEMMA ShareStep ==
    ASSUME Inv, Inv', EpochInv, ShareInv, Next
    PROVE  ShareInv'
  <1>0. /\ chain.ver \in Int /\ chain'.ver \in Int
        /\ lost \subseteq lost'
    BY HistoryView DEF Inv, TypeOK, NodeRestarts
  <1>a. chain.ver <= chain'.ver
    BY <1>0, ChainGrows
  <1>1. ASSUME NEW m \in late', m.kind = "invalidate"
        PROVE  m.deal.ver < chain'.ver
    <2>1. m.deal.ver \in Nat
      BY DEF Inv, TypeOK, Deal
    <2>2. m.deal.ver < chain.ver
      <3>1. CASE m \in late
        BY <1>1, <3>1 DEF ShareInv
      <3>2. CASE m \notin late
        <4>1. pc = "invalidate" /\ m.deal = base
          BY <1>1, <3>2, LateStep DEF Inv
        <4>2. chain.ver = base.ver + 1
          BY <4>1 DEF Inv, RotateInv
        <4> QED
          BY <2>1, <4>1, <4>2
      <3> QED
        BY <3>1, <3>2
    <2> QED
      BY <1>0, <1>a, <2>1, <2>2
  <1>2. ASSUME pc' = "distribute", NEW g \in Nodes \ lost', task'[g] = "ok"
        PROVE  ActiveEnvelope(MyDeal') \in shares'[g]
    <2>1. ~Enters
      BY <1>2 DEF Enters, Todo
    <2>2. pc = "distribute" /\ MyDeal' = MyDeal
      <3>1. Dealing /\ MyDeal' = MyDeal
        BY <1>2, <2>1, LooseShrinks DEF Dealing, Inv
      <3>2. pc = "distribute"
        BY <1>2, <2>1, RunView DEF Inv, Operator, StartSetup, StartFromFile, Begin, ReadySeen,
           Save, GoTo, End
      <3> QED
        BY <3>1, <3>2
    <2>3. MyDeal \in Deal /\ MyDeal \in Loose /\ MyDeal.ver = chain.ver
      <3>1. MyDeal \in Deal
        BY <2>2, MyDealType DEF Inv
      <3>2. MyDeal \in Loose
        BY <2>2, LooseOrFiled DEF Inv, LooseInv, Dealing
      <3> QED
        BY <3>1, <3>2 DEF Inv, LooseInv
    <2>4. CASE NodeAnswers(g)
      BY <2>2, <2>3, <2>4, Stores DEF NodeAnswers, Handled, Inv, TypeOK
    <2>5. CASE ~NodeAnswers(g)
      <3>1. task[g] = "ok"
        BY <1>2, <2>2, <2>5, TaskView DEF Parallel, Inv
      <3>2. ActiveEnvelope(MyDeal) \in shares[g]
        BY <1>0, <1>2, <2>2, <3>1 DEF ShareInv
      <3> QED
        BY <2>2, <2>3, <3>2, KeptSafe, ShareKept DEF Inv
    <2> QED
      BY <2>4, <2>5
  <1>3. ASSUME pc' \in {"verify", "meta", "metapost", "metawait", "validate", "save", "compare"}
        PROVE  /\ MyDeal' = MyDeal /\ NewVer' = NewVer
               /\ pc \in {"distribute", "verify", "meta", "metapost", "metawait", "validate",
                          "save", "compare"}
               /\ MyDeal \in Deal /\ MyDeal \in files \cup Loose /\ MyDeal.ver = NewVer
               /\ NewVer <= chain.ver
    <2>1. /\ MyDeal' = MyDeal /\ NewVer' = NewVer
          /\ pc \in {"distribute", "verify", "meta", "metapost", "metawait", "validate",
                     "save", "compare"}
      BY <1>3, AfterDealing DEF Inv
    <2>2. MyDeal \in Deal /\ MyDeal.ver = NewVer /\ NewVer \in Nat
      BY <2>1, MyDealType DEF Inv, MyDeal
    <2>3. CASE pc = "compare"
      BY <2>1, <2>2, <2>3 DEF ShareInv
    <2>4. CASE pc # "compare"
      <3>1. MyDeal \in Loose
        BY <2>1, <2>4, LooseOrFiled DEF Inv, LooseInv, Dealing
      <3> QED
        BY <2>1, <2>2, <3>1 DEF Inv, LooseInv
    <2> QED
      BY <2>3, <2>4
  <1>4. ASSUME pc' \in {"verify", "meta", "metapost", "metawait", "validate", "save", "compare"},
               chain'.ver = NewVer', NEW g \in Nodes \ lost'
        PROVE  ActiveEnvelope(MyDeal') \in shares'[g]
    <2>1. chain.ver = NewVer
      BY <1>0, <1>a, <1>3, <1>4, MyDealType DEF Inv
    <2>2. ActiveEnvelope(MyDeal) \in shares[g]
      <3>1. CASE pc = "distribute"
        BY <1>0, <1>4, <3>1, DistributedAll DEF ShareInv
      <3>2. CASE pc # "distribute"
        BY <1>0, <1>3, <1>4, <2>1, <3>2 DEF ShareInv
      <3> QED
        BY <3>1, <3>2
    <2> QED
      BY <1>3, <1>4, <2>1, <2>2, KeptSafe, ShareKept DEF Inv
  <1>5. ASSUME pc' \in {"validate", "save", "compare"}, chain'.ver = NewVer'
        PROVE  meta' = MyDeal'
    <2>1. chain.ver = NewVer
      BY <1>0, <1>a, <1>3, <1>5, MyDealType DEF Inv
    <2>2. CASE pc \notin {"validate", "save", "compare"}
      BY <1>3, <1>5, <2>2, AnchorSeen
    <2>3. CASE pc \in {"validate", "save", "compare"}
      <3>1. meta = MyDeal
        BY <2>1, <2>3 DEF ShareInv
      <3>2. MyDeal.epoch = ep /\ MyDeal.seed = try /\ ep <= epoch
        BY DEF MyDeal, EpochInv
      <3>3. MyDeal.ver = 0 => chain.rec = try /\ \A m \in Accepted : m.deal.epoch <= ep
        <4> SUFFICES ASSUME MyDeal.ver = 0
                     PROVE  chain.rec = try /\ \A m \in Accepted : m.deal.epoch <= ep
          OBVIOUS
        <4>1. mode = "setup"
          BY <1>3, <1>5, <2>3 DEF NewVer, Inv, RunInv, TypeOK, Deal
        <4>2. Dealing
          BY <2>3, <4>1 DEF Dealing, Inv, RunInv
        <4> QED
          BY <4>1, <4>2 DEF EpochInv
      <3>4. UNCHANGED meta
        BY <1>3, <1>5, <2>1, <3>1, <3>2, <3>3, MetaKept
      <3> QED
        BY <1>3, <1>5, <3>1, <3>4
    <2> QED
      BY <2>2, <2>3
  <1>6. ASSUME pc' = "compare"
        PROVE  MyDeal' \in files' /\ NewVer' <= chain'.ver
    <2>1. files \subseteq files'
      BY FilesView DEF Save
    <2>2. NewVer \in Nat
      BY <1>3, <1>6, MyDealType DEF Inv
    <2>3. CASE pc = "compare"
      BY <1>0, <1>a, <1>3, <1>6, <2>1, <2>2, <2>3 DEF ShareInv
    <2>4. CASE pc # "compare"
      <3>1. Save
        BY <1>6, <2>4, RunView DEF Inv, Operator, StartSetup, StartFromFile, Begin, Enters,
           ReadySeen, Dealing, GoTo
      <3> QED
        BY <1>0, <1>a, <1>3, <1>6, <2>2, <3>1, CleanSave
    <2> QED
      BY <2>3, <2>4
  <1> QED
    BY <1>1, <1>2, <1>4, <1>5, <1>6 DEF ShareInv

\* A run that ends well now leaves a file that holds.
LEMMA GoodEnd ==
    ASSUME Inv, Inv', EpochInv, ShareInv, Next, ~UNCHANGED good
    PROVE  GoodInv' /\ GoodFileHolds'
  <1>1. \/ Save /\ mode = "setup"
        \/ Compare /\ OwnLeaf
    BY HistoryView
  <1>2. good' = MyDeal /\ UNCHANGED <<shares, lost, board, jobs>>
    <2>1. Save => UNCHANGED <<shares, lost, board, queues>>
      BY DEF Save
    <2>2. Compare => UNCHANGED <<shares, lost, board, queues>>
      BY DEF Compare
    <2> QED
      BY <1>1, <2>1, <2>2, HistoryView DEF queues
  <1>3. MyDeal \in Deal /\ MyDeal.ver = NewVer /\ MyDeal.seed = try /\ MyDeal.epoch = ep
    BY <1>1, MyDealType DEF Inv, MyDeal, Save, Compare
  <1>4. /\ MyDeal \in files' /\ MyDeal.ver <= chain.ver /\ pc \in {"save", "compare"}
        /\ chain.ver \in Int
    BY <1>1, <1>3, CleanSave DEF ShareInv, Compare, Save, disk, Inv, TypeOK, Deal
  <1>5. chain.ver = MyDeal.ver =>
            /\ meta = MyDeal
            /\ \A g \in Nodes \ lost : ActiveEnvelope(MyDeal) \in shares[g]
    BY <1>3, <1>4 DEF ShareInv
  <1>6. chain.ver = MyDeal.ver => chain.rec = MyDeal.seed
    <2>1. CASE Save /\ mode = "setup"
      BY <1>3, <2>1 DEF Save, EpochInv, Dealing
    <2>2. CASE Compare /\ OwnLeaf
      BY <1>3, <2>2 DEF OwnLeaf, Inv, VersionInv
    <2> QED
      BY <1>1, <2>1, <2>2
  <1>7. MyDeal.ver = 0 => shown.ver >= 0 /\ \A m \in Accepted : m.deal.epoch <= MyDeal.epoch
    <2> SUFFICES ASSUME MyDeal.ver = 0
                 PROVE  shown.ver >= 0 /\ \A m \in Accepted : m.deal.epoch <= MyDeal.epoch
      OBVIOUS
    <2>1. mode = "setup"
      BY <1>3, <1>4 DEF NewVer, Inv, RunInv, TypeOK, Deal
    <2>2. Dealing
      BY <1>1, <2>1 DEF Save, Compare, Dealing, Inv, RunInv
    <2> QED
      BY <1>3, <2>1, <2>2 DEF EpochInv
  <1>8. GoodInv'
    BY <1>2, <1>4, <1>7 DEF GoodInv, Accepted, board
  <1>9. GoodFileHolds'
    BY <1>2, <1>5, <1>6 DEF GoodFileHolds, board
  <1> QED
    BY <1>8, <1>9

\* And a file that holds goes on to hold.
LEMMA GoodStays ==
    ASSUME Inv, Inv', EpochInv, ShareInv, GoodInv, GoodFileHolds, Next, UNCHANGED good
    PROVE  GoodInv' /\ GoodFileHolds'
  <1> SUFFICES ASSUME good # NoFile
               PROVE  GoodInv' /\ GoodFileHolds'
    BY DEF GoodInv, GoodFileHolds
  <1>1. /\ good \in files /\ good \in files' /\ good \in Deal /\ good.ver \in Nat /\ good.ver <= chain.ver
        /\ chain.ver \in Int /\ chain'.ver \in Int
    BY FilesView DEF GoodInv, Inv, TypeOK, Deal, Save
  <1>2. good.ver <= chain'.ver
    BY <1>1, ChainGrows
  <1>3. good.ver = 0 => shown'.ver >= 0 /\ \A m \in Accepted' : m.deal.epoch <= good.epoch
    <2> SUFFICES ASSUME good.ver = 0
                 PROVE  shown'.ver >= 0 /\ \A m \in Accepted' : m.deal.epoch <= good.epoch
      OBVIOUS
    <2>1. shown.ver >= 0 /\ \A m \in Accepted : m.deal.epoch <= good.epoch
      BY DEF GoodInv
    <2>2. chain # Unregistered
      BY <1>1 DEF Unregistered
    <2>3. shown'.ver >= 0
      BY <1>1, <2>1, ShownView
    <2> QED
      BY <2>1, <2>2, <2>3, AcceptedKept
  <1>4. GoodInv'
    BY <1>1, <1>2, <1>3 DEF GoodInv
  <1>5. ASSUME chain'.ver = good.ver
        PROVE  /\ chain'.rec = good.seed
               /\ meta' = good
               /\ \A g \in Nodes \ lost' : ActiveEnvelope(good) \in shares'[g]
    <2>1. UNCHANGED chain
      BY <1>1, <1>5, ChainGrows
    <2>2. /\ chain.rec = good.seed /\ meta = good
          /\ \A g \in Nodes \ lost : ActiveEnvelope(good) \in shares[g]
      BY <1>5, <2>1 DEF GoodFileHolds
    <2>3. good.epoch <= epoch /\ (good.ver = 0 => \A m \in Accepted : m.deal.epoch <= good.epoch)
      BY <1>1 DEF EpochInv, GoodInv
    <2>4. UNCHANGED meta
      BY <1>1, <1>5, <2>1, <2>2, <2>3, MetaKept
    <2>5. lost \subseteq lost'
      BY HistoryView DEF NodeRestarts
    <2>6. Safe(good)
      BY <1>1, <1>5, <2>1, KeptSafe
    <2>7. \A g \in Nodes \ lost' : ActiveEnvelope(good) \in shares'[g]
      BY <1>1, <2>2, <2>5, <2>6, ShareKept DEF Inv
    <2> QED
      BY <2>1, <2>2, <2>4, <2>7
  <1> QED
    BY <1>4, <1>5 DEF GoodFileHolds

LEMMA KeepInit == Init => KeepInv
  <1> SUFFICES ASSUME Init PROVE KeepInv
    OBVIOUS
  <1>1. Accepted = {}
    BY DEF Init, Accepted
  <1> QED
    BY <1>1 DEF Init, KeepInv, EpochInv, ShareInv, GoodInv, GoodFileHolds, Dealing, Unregistered

LEMMA KeepStep == Inv /\ Inv' /\ KeepInv /\ [Next]_vars => KeepInv'
  <1> SUFFICES ASSUME Inv, Inv', KeepInv, [Next]_vars
               PROVE  KeepInv'
    OBVIOUS
  <1>1. CASE Next
    BY <1>1, EpochStep, ShareStep, GoodEnd, GoodStays DEF KeepInv
  <1>2. CASE UNCHANGED vars
    <2> USE <1>2 DEF vars, run, control, disk, board, queues, KeepInv
    <2>1. Dealing' = Dealing /\ MyDeal' = MyDeal /\ NewVer' = NewVer /\ Accepted' = Accepted
      BY DEF Dealing, MyDeal, NewVer, Accepted
    <2>2. EpochInv'
      BY <2>1 DEF EpochInv
    <2>3. ShareInv'
      BY <2>1 DEF ShareInv
    <2>4. GoodInv' /\ GoodFileHolds'
      BY <2>1 DEF GoodInv, GoodFileHolds
    <2> QED
      BY <2>2, <2>3, <2>4
  <1> QED
    BY <1>1, <1>2

\* What a run that ended well leaves behind stays usable for as long as the
\* board has its version: whatever other runs, late requests, restarts and
\* registrations do, its recovery key, its anchor and its shares stay.
THEOREM GoodFilesHold == Spec => []GoodFileHolds
  <1>1. Spec => []KeepInv
    BY KeepInit, KeepStep, Invariance, PTL DEF Spec
  <1>2. KeepInv => GoodFileHolds
    BY DEF KeepInv
  <1> QED
    BY <1>1, <1>2, PTL

-----------------------------------------------------------------------------
(* Runs without a misfortune *)

\* A set-up or rotation on its way from one record to the next: what the board
\* has before it, and what it is to have.
Before == IF mode = "setup" THEN Unregistered ELSE [ver |-> base.ver, rec |-> base.seed]
AnchorBefore == IF mode = "setup" THEN NoDeal ELSE base
Own == [ver |-> NewVer, rec |-> try]
NewDeal == [ver |-> NewVer, epoch |-> pred, seed |-> try]

\* Its requests, and the keys of its operations.
Ask(kind, old) == [kind |-> kind, by |-> try, deal |-> NewDeal, old |-> old]
RecordPost ==
    IF mode = "setup" THEN Ask("register", try) ELSE Ask("rotate", base.seed)
AnchorPost == Ask(IF mode = "setup" THEN "meta" ELSE "metarotate", try)

\* Of version n or before are all rotations that were asked for.
OpsUpTo(n) ==
    \A v \in Nat : v > n =>
        <<"recovery", v>> \notin ops /\ <<"ttss_meta_rotate", v>> \notin ops

\* The board, from the request to the root that has the record.
OldBoard == chain = Before /\ shown = Before /\ epoch + 1 = pred /\ meta = AnchorBefore
MinedBoard == chain = Own /\ shown = Before /\ epoch + 1 = pred /\ meta = AnchorBefore
ShownBoard == chain = Own /\ shown = Own /\ epoch = pred

\* The service, from the request to the anchor.
Asked == OldBoard /\ posts = {RecordPost} /\ jobs = {}
         /\ RequestKey(RecordPost) \notin ops /\ RequestKey(AnchorPost) \notin ops
Taken == OldBoard /\ posts = {} /\ jobs = {RecordPost}
         /\ RequestKey(RecordPost) \in ops /\ RequestKey(AnchorPost) \notin ops
Settling == (MinedBoard \/ (ShownBoard /\ meta = AnchorBefore)) /\ posts = {}
            /\ mode = "setup" /\ jobs = {Ask("settle", try)}
            /\ RequestKey(RecordPost) \in ops /\ RequestKey(AnchorPost) \notin ops
Mined == MinedBoard /\ posts = {} /\ jobs = {}
         /\ RequestKey(RecordPost) \in ops /\ RequestKey(AnchorPost) \notin ops
Shown == ShownBoard /\ meta = AnchorBefore /\ jobs = {}
         /\ RequestKey(RecordPost) \in ops /\ RequestKey(AnchorPost) \notin ops
Anchoring(kind) == ShownBoard /\ meta = AnchorBefore /\ jobs = {Ask(kind, try)}
         /\ RequestKey(RecordPost) \in ops /\ RequestKey(AnchorPost) \in ops
Anchored == ShownBoard /\ meta = NewDeal /\ jobs = {} /\ RequestKey(RecordPost) \in ops

Attaching == mode = "setup" /\ Anchoring("deferred")
Registering == Anchoring(AnchorPost.kind)

\* The running client with the service, by phase.
Together ==
    /\ pc = "post" =>
           \/ answer = "none" /\ (Asked \/ Taken \/ Settling)
           \/ answer = "ok" /\ (Mined \/ (posts = {} /\ (Shown \/ Attaching \/ Anchored)))
    /\ pc = "wait" => Mined \/ (posts = {} /\ (Shown \/ Attaching \/ Anchored))
    /\ pc \in {"check", "invalidate", "distribute", "verify", "meta"} =>
           posts = {} /\ (Shown \/ Attaching \/ Anchored)
    /\ pc = "metapost" =>
           \/ answer = "none" /\ posts = {AnchorPost} /\ (Shown \/ Attaching \/ Anchored)
           \/ answer = "none" /\ posts = {} /\ Registering
           \/ answer = "ok" /\ posts = {} /\ (Registering \/ Attaching \/ Anchored)
    /\ pc = "metawait" => posts = {} /\ (Registering \/ Attaching \/ Anchored)
    /\ pc \in {"validate", "save", "compare"} => posts = {} /\ Anchored

\* The shares fetched are of one seed, and there are some once a node answered.
GotSeed(s) ==
    /\ \A e \in got : e.seed = s
    /\ (\E g \in 1..T : task[g] = "ok") => got # {}

\* What the run itself has to go on.
Ground ==
    /\ exit = "none" /\ mode \in {"setup", "rotate"}
    /\ mode = "setup" => base = NoFile /\ good = NoFile /\ pred = 1
    /\ mode = "rotate" =>
           /\ base = good /\ good \in files /\ pred = good.epoch + 1
           /\ NoFileAfter(IF pc = "compare" THEN NewVer ELSE good.ver)
    /\ OpsUpTo(NewVer)
    /\ pc \notin {"post", "wait"} => ep = pred
    /\ pc \in Parallel => \A g \in Nodes : task[g] # "failed"
    /\ pc \notin {"validate", "save", "compare"} => got = {}
    /\ pc = "validate" => GotSeed(try)

\* Between runs everything is about the file of the last run to end well.
Settled ==
    /\ posts = {} /\ jobs = {}
    /\ good \in files /\ NoFileAfter(good.ver) /\ OpsUpTo(good.ver)
    /\ chain = [ver |-> good.ver, rec |-> good.seed] /\ shown = chain
    /\ epoch = good.epoch /\ meta = good

Unused ==
    /\ pc = "idle" /\ exit = "none" /\ files = {} /\ good = NoFile
    /\ posts = {} /\ jobs = {} /\ ops = {}
    /\ chain = Unregistered /\ shown = Unregistered /\ epoch = 0 /\ meta = NoDeal

Resting ==
    /\ pc = "idle" /\ Settled
    /\ exit = "failed" => base # good /\ base # NoFile

Fetching ==
    /\ pc = "fetch" /\ Settled /\ exit = "none"
    /\ pred = base.epoch + 1
    /\ base # good => \A g \in 1..T : task[g] = "todo"
    /\ base = good => GotSeed(base.seed)

Working == pc \notin {"idle", "fetch"} /\ Ground /\ Together

Calm == late = {} /\ lost = {} /\ (Unused \/ Resting \/ Fetching \/ Working)

CalmInv == faults = 0 => Calm

\* What sets a record apart from the one before it.
LEMMA NewIsNew ==
    ASSUME TypeOK, RunInv, Working
    PROVE  /\ try \in Seeds /\ NewVer \in Nat /\ NewDeal \in Deal
           /\ mode = "setup" => NewVer = 0 /\ Before = Unregistered /\ AnchorBefore = NoDeal
           /\ mode = "rotate" => NewVer = base.ver + 1 /\ base \in Deal /\ AnchorBefore = base
                  /\ Before = [ver |-> base.ver, rec |-> base.seed]
           /\ Before.ver < NewVer /\ Before.ver + 1 = NewVer /\ Own # Before
           /\ AnchorBefore # NewDeal
           /\ MyDeal = [NewDeal EXCEPT !.epoch = ep]
  <1>1. mode \in {"setup", "rotate"} /\ pc # "idle"
    BY DEF Working, Ground
  <1>2. try \in Seeds /\ NewVer \in Nat /\ NewDeal \in Deal
    BY <1>1, MyDealType DEF RunInv, NewDeal, Deal, TypeOK
  <1>3. CASE mode = "setup"
    <2>1. NewVer = 0 /\ Before = Unregistered /\ AnchorBefore = NoDeal
      BY <1>3 DEF NewVer, Before, AnchorBefore
    <2> QED
      BY <1>2, <1>3, <2>1, FlowAssumption DEF Unregistered, Own, NewDeal, MyDeal
  <1>4. CASE mode = "rotate"
    <2>1. base \in Deal
      BY <1>1, <1>4, MyDealType
    <2>2. /\ NewVer = base.ver + 1 /\ AnchorBefore = base
          /\ Before = [ver |-> base.ver, rec |-> base.seed]
      BY <1>4 DEF NewVer, Before, AnchorBefore
    <2>3. base.ver \in Nat
      BY <2>1 DEF Deal
    <2> HIDE DEF NewVer
    <2>4. Own.ver = NewVer /\ NewDeal.ver = NewVer /\ Before.ver = base.ver
      BY <2>2 DEF Own, NewDeal
    <2>5. base.ver # NewVer
      BY <2>2, <2>3
    <2>6. MyDeal = [NewDeal EXCEPT !.epoch = ep]
      BY DEF MyDeal, NewDeal
    <2> QED
      BY <1>2, <1>4, <2>1, <2>2, <2>3, <2>4, <2>5, <2>6
  <1> QED
    BY <1>1, <1>3, <1>4

\* The requests of a run, with their keys.
LEMMA RequestsOfRun ==
    ASSUME mode \in {"setup", "rotate"}
    PROVE  /\ RecordPost.by = try /\ RecordPost.deal = NewDeal
           /\ AnchorPost.by = try /\ AnchorPost.deal = NewDeal
           /\ mode = "setup" =>
                  /\ RecordPost.kind = "register" /\ AnchorPost.kind = "meta"
                  /\ RequestKey(RecordPost) = <<"register", 0>>
                  /\ RequestKey(AnchorPost) = <<"ttss_meta", NewVer>>
           /\ mode = "rotate" =>
                  /\ RecordPost.kind = "rotate" /\ AnchorPost.kind = "metarotate"
                  /\ RecordPost.old = base.seed
                  /\ RequestKey(RecordPost) = <<"recovery", NewVer>>
                  /\ RequestKey(AnchorPost) = <<"ttss_meta_rotate", NewVer>>
           /\ RequestKey(Ask("deferred", try)) = <<"ttss_meta", NewVer>>
           /\ RequestKey(RecordPost) # RequestKey(AnchorPost)
  <1> USE DEF Ask, RecordPost, AnchorPost, RequestKey, NewDeal
  <1>1. CASE mode = "setup"
    BY <1>1
  <1>2. CASE mode = "rotate"
    BY <1>2
  <1> QED
    BY <1>1, <1>2

\* A step with a misfortune is counted.
LEMMA FaultCounted ==
    ASSUME TypeOK, Next, faults' = 0
    PROVE  faults = 0 /\ ~Fault
  <1>1. faults \in Nat
    BY DEF TypeOK
  <1>2. faults' = faults \/ faults' = faults + 1
    <2> USE DEF board, queues
    <2>1. CASE Operator
      BY <2>1 DEF Operator, StartSetup, StartFromFile, Begin
    <2>2. CASE ClientStep
      BY <2>2 DEF ClientStep, Recovered, PostAnswered, ReadySeen, CheckSetup, PhaseEnds,
         RegisterMeta, MetaSeen, Validated, Save, Compare, FetchShare, NodeAnswers, Joined,
         Step, Throw
    <2>3. CASE ServiceStep
      BY <2>3 DEF ServiceStep, TakePost, MineRegister, Settle, MineRotate, MineMeta,
         MetaReverts, JobFails, PushRoot, Fault
    <2>4. CASE Misfortune
      BY <2>4 DEF Misfortune, DeadlinePasses, FetchFails, OtherIdentity, PostLost, TxFails,
         JobFails, ClientDies, TaskFails, NodeRestarts, LateArrives, Fault
    <2> QED
      BY <2>1, <2>2, <2>3, <2>4 DEF Next
  <1> QED
    BY <1>1, <1>2 DEF Fault

\* While a run waits there is something to wait for.
LEMMA WaitsHaveHope ==
    ASSUME TypeOK, RunInv, Calm,
           pc \in {"wait", "metawait"} \/ (pc \in {"post", "metapost"} /\ answer = "none")
    PROVE  Hope
  <1>1. Working
    BY DEF Calm, Unused, Resting, Fetching
  <1>2. Together
    BY <1>1 DEF Working
  <1>3. Own # Before /\ NewVer \in Nat /\ mode \in {"setup", "rotate"}
    BY <1>1, NewIsNew DEF Working, Ground
  <1>4. CASE pc = "post" /\ answer = "none"
    BY <1>2, <1>4 DEF Together, Asked, Taken, Settling, Hope, ServiceIdle
  <1>5. CASE pc = "metapost" /\ answer = "none"
    BY <1>2, <1>5 DEF Together, Registering, Anchoring, Hope, ServiceIdle
  <1>6. CASE pc = "wait"
    <2>1. CASE Mined
      BY <1>3, <2>1 DEF Mined, MinedBoard, Hope, ServiceIdle
    <2>2. CASE Shown \/ Attaching \/ Anchored
      <3>1. shown.ver = NewVer
        BY <2>2 DEF Shown, Attaching, Anchoring, Anchored, ShownBoard, Own
      <3>2. RequestKey(RecordPost) \in ops
        BY <2>2 DEF Shown, Attaching, Anchoring, Anchored
      <3> QED
        BY <1>3, <1>6, <3>1, <3>2, RequestsOfRun DEF Hope, Ready, ReadyFor
    <2> QED
      BY <1>2, <1>6, <2>1, <2>2 DEF Together
  <1>7. CASE pc = "metawait"
    <2>1. CASE Registering \/ Attaching
      BY <2>1 DEF Registering, Attaching, Anchoring, Hope, ServiceIdle
    <2>2. CASE Anchored
      <3>1. ep = pred
        BY <1>1, <1>7 DEF Working, Ground
      <3> QED
        BY <1>7, <2>2, <3>1 DEF Anchored, Hope, MyDeal, NewDeal
    <2> QED
      BY <1>2, <1>7, <2>1, <2>2 DEF Together
  <1> QED
    BY <1>4, <1>5, <1>6, <1>7

LEMMA NothingGoesWrong ==
    ASSUME TypeOK, RunInv, Calm, Next, faults' = 0
    PROVE  ~Misfortune
  <1>1. ~Fault
    BY FaultCounted
  <1>2. ~DeadlinePasses
    <2> SUFFICES ASSUME DeadlinePasses PROVE Hope
      BY <1>1 DEF DeadlinePasses
    <2> QED
      BY WaitsHaveHope DEF DeadlinePasses
  <1>3. late = {}
    BY DEF Calm
  <1> QED
    BY <1>1, <1>2, <1>3 DEF Misfortune, FetchFails, ClientDies, OtherIdentity, TaskFails,
       NodeRestarts, PostLost, TxFails

\* While nothing but the phase changes, the stages stay what they are.
LEMMA SameStage ==
    ASSUME UNCHANGED <<mode, try, base, pred>>
    PROVE  /\ NewVer' = NewVer /\ Before' = Before /\ AnchorBefore' = AnchorBefore
           /\ Own' = Own /\ NewDeal' = NewDeal
           /\ RecordPost' = RecordPost /\ AnchorPost' = AnchorPost
           /\ UNCHANGED <<board, jobs, ops>> =>
                  /\ Shown' = Shown /\ Attaching' = Attaching /\ Registering' = Registering
                  /\ Anchored' = Anchored
           /\ UNCHANGED <<board, queues>> =>
                  Asked' = Asked /\ Taken' = Taken /\ Settling' = Settling /\ Mined' = Mined
  <1>1. NewVer' = NewVer /\ Before' = Before /\ AnchorBefore' = AnchorBefore
    BY DEF NewVer, Before, AnchorBefore
  <1>2. Own' = Own /\ NewDeal' = NewDeal
    BY <1>1 DEF Own, NewDeal
  <1>3. RecordPost' = RecordPost /\ AnchorPost' = AnchorPost
    BY <1>2 DEF RecordPost, AnchorPost, Ask
  <1>4. /\ Ask("settle", try)' = Ask("settle", try)
        /\ Ask("deferred", try)' = Ask("deferred", try)
        /\ Ask(AnchorPost.kind, try)' = Ask(AnchorPost.kind, try)
        /\ RequestKey(RecordPost)' = RequestKey(RecordPost)
        /\ RequestKey(AnchorPost)' = RequestKey(AnchorPost)
    BY <1>2, <1>3 DEF Ask, RequestKey
  <1>5. ASSUME UNCHANGED <<board, jobs, ops>>
        PROVE  /\ Shown' = Shown /\ Attaching' = Attaching /\ Registering' = Registering
               /\ Anchored' = Anchored
    BY <1>1, <1>2, <1>4, <1>5 DEF board, ShownBoard, Shown, Anchored, Attaching, Registering, Anchoring
  <1>6. ASSUME UNCHANGED <<board, queues>>
        PROVE  Asked' = Asked /\ Taken' = Taken /\ Settling' = Settling /\ Mined' = Mined
    BY <1>1, <1>2, <1>3, <1>4, <1>6 DEF board, queues, OldBoard, MinedBoard, ShownBoard,
       Asked, Taken, Settling, Mined
  <1> QED
    BY <1>1, <1>2, <1>3, <1>4, <1>5, <1>6

-----------------------------------------------------------------------------
(* Runs begin *)

LEMMA CalmInit == Init => CalmInv
  BY DEF Init, CalmInv, Calm, Unused

LEMMA CalmOperator ==
    ASSUME TypeOK, Calm, Operator
    PROVE  Calm'
  <1>0. pc = "idle" /\ UNCHANGED <<late, lost>> /\ (Unused \/ Resting)
    BY DEF Operator, StartSetup, StartFromFile, Begin, disk, Calm, Working, Fetching
  <1>1. CASE StartSetup
    <2>1. Unused
      BY <1>0, <1>1 DEF StartSetup, Resting, Settled
    <2>2. /\ pc' = "post" /\ mode' = "setup" /\ base' = NoFile /\ pred' = 1 /\ try' = try + 1
          /\ exit' = "none" /\ answer' = "none" /\ got' = {} /\ jobs' = {} /\ ops' = {}
          /\ chain' = Unregistered /\ shown' = Unregistered /\ epoch' = 0 /\ meta' = NoDeal
          /\ good' = NoFile
          /\ posts' = {[kind |-> "register", by |-> try', old |-> try',
                        deal |-> [ver |-> 0, epoch |-> 1, seed |-> try']]}
      BY <1>1, <2>1 DEF StartSetup, Begin, Post, Unused, board, disk
    <2>3. Ground'
      BY <2>2 DEF Ground, OpsUpTo, Parallel
    <2>4. Asked'
      BY <2>2 DEF Asked, OldBoard, Before, AnchorBefore, RecordPost, Ask, NewDeal, NewVer
    <2> QED
      BY <1>0, <2>2, <2>3, <2>4 DEF Calm, Working, Together
  <1>2. ASSUME NEW m \in {"recover", "rotate"}, NEW f \in files, StartFromFile(m, f)
        PROVE  Calm'
    <2>1. Resting
      BY <1>0 DEF Unused
    <2>2. /\ pc' = "fetch" /\ exit' = "none" /\ base' = f /\ pred' = f.epoch + 1
          /\ task' = Todo /\ got' = {}
          /\ UNCHANGED <<files, good, board, queues>>
      BY <1>2 DEF StartFromFile, Begin, disk, queues
    <2>3. Settled'
      BY <2>1, <2>2 DEF Resting, Settled, NoFileAfter, OpsUpTo, board, queues
    <2>4. \A g \in 1..T : task'[g] = "todo"
      BY <2>2, FlowAssumption DEF Todo
    <2> QED
      BY <1>0, <2>2, <2>3, <2>4 DEF Calm, Fetching, GotSeed
  <1> QED
    BY <1>1, <1>2 DEF Operator

-----------------------------------------------------------------------------
(* The service works on *)

\* How the service gets from one stage to the next, and what it answers.
ServiceMoves ==
    \/ Asked /\ Taken' /\ UNCHANGED answer
    \/ Taken /\ Mined' /\ Reply(RecordPost, "ok")
    \/ Taken /\ Settling' /\ UNCHANGED answer
    \/ Settling /\ Settling' /\ UNCHANGED answer
    \/ Settling /\ Attaching' /\ posts' = {} /\ Reply(Ask("settle", try), "ok")
    \/ Mined /\ Shown' /\ posts' = {} /\ UNCHANGED answer
    \/ Shown /\ posts = {AnchorPost} /\ Registering' /\ posts' = {} /\ answer' \in {answer, "ok"}
    \/ Attaching /\ posts = {AnchorPost} /\ Attaching' /\ posts' = {} /\ Reply(AnchorPost, "ok")
    \/ Attaching /\ Anchored' /\ UNCHANGED <<posts, answer>>
    \/ Registering /\ posts = {} /\ Anchored' /\ posts' = {} /\ Reply(AnchorPost, "ok")
    \/ Anchored /\ posts = {AnchorPost} /\ Anchored' /\ posts' = {} /\ Reply(AnchorPost, "ok")

\* The requests waiting, by stage.
LEMMA StageOfRun ==
    ASSUME TypeOK, Working
    PROVE  /\ mode \in {"setup", "rotate"}
           /\ \/ Asked \/ Taken \/ Settling \/ Mined
              \/ posts \in {{}, {AnchorPost}} /\ (Shown \/ Attaching \/ Anchored)
              \/ posts = {} /\ Registering
  BY DEF Working, Ground, Together, TypeOK

\* A job cannot be refused at its stage.
LEMMA JobOfRun ==
    ASSUME TypeOK, RunInv, Working, NEW j \in jobs
    PROVE  \/ Taken /\ j = RecordPost
           \/ Settling /\ j = Ask("settle", try)
           \/ Attaching /\ j = Ask("deferred", try) /\ Anchorable(j.deal)
           \/ Registering /\ j = AnchorPost /\ Anchorable(j.deal)
  <1>1. ASSUME ShownBoard
        PROVE  Anchorable(NewDeal)
    BY <1>1 DEF ShownBoard, Anchorable, NewDeal, Own
  <1>2. AnchorPost = Ask(AnchorPost.kind, try) /\ AnchorPost.deal = NewDeal
    BY DEF AnchorPost, Ask
  <1>3. Ask("deferred", try).deal = NewDeal
    BY DEF Ask
  <1> QED
    BY <1>1, <1>2, <1>3, StageOfRun DEF Asked, Taken, Settling, Mined, Shown, Attaching,
       Registering, Anchoring, Anchored

LEMMA ServiceAdvances ==
    ASSUME TypeOK, RunInv, Working, ServiceStep, ~Fault
    PROVE  ServiceMoves
  <1>1. /\ UNCHANGED serviceFrame /\ UNCHANGED <<mode, try, base, pred>>
    BY DEF ServiceStep, TakePost, MineRegister, Settle, MineRotate, MineMeta,
       MetaReverts, JobFails, PushRoot, serviceFrame, run
  <1>2. mode \in {"setup", "rotate"}
    BY StageOfRun
  <1> USE DEF ServiceMoves, board, queues
  <1>3. ASSUME NEW m \in posts, TakePost(m)
        PROVE  ServiceMoves
    <2>1. CASE Asked
      <3>1. m = RecordPost /\ posts' = {}
        BY <1>3, <2>1 DEF Asked, TakePost
      <3>2. ~Refused(m)
        <4>1. CASE mode = "setup"
          BY <3>1, <4>1, RequestsOfRun DEF Refused
        <4>2. CASE mode = "rotate"
          <5>1. m.old = base.seed /\ m.deal.ver = NewVer
            BY <1>2, <3>1, <4>2, RequestsOfRun DEF NewDeal
          <5>2. chain.rec = base.seed /\ chain.ver + 1 = NewVer
            BY <2>1, <4>2, NewIsNew DEF Asked, OldBoard
          <5> QED
            BY <5>1, <5>2 DEF Refused
        <4> QED
          BY <1>2, <4>1, <4>2
      <3>3. ~Idempotent(m) /\ m.kind # "metarotate"
        BY <1>2, <2>1, <3>1, RequestsOfRun DEF Idempotent, Asked
      <3>4. jobs' = {m} /\ ops' = ops \cup {RequestKey(m)} /\ UNCHANGED <<answer, board>>
        BY <1>3, <2>1, <3>2, <3>3 DEF TakePost, Asked
      <3>5. Taken'
        <4>1. OldBoard'
          BY <1>1, <2>1, <3>4, SameStage DEF Asked, OldBoard
        <4>2. /\ RequestKey(RecordPost)' = RequestKey(RecordPost)
              /\ RequestKey(AnchorPost)' = RequestKey(AnchorPost)
          BY <1>1, SameStage DEF RequestKey
        <4>3. RequestKey(RecordPost) # RequestKey(AnchorPost)
          BY <1>2, RequestsOfRun
        <4> QED
          BY <1>1, <2>1, <3>1, <3>4, <4>1, <4>2, <4>3, SameStage DEF Taken, Asked
      <3> QED
        BY <2>1, <3>4, <3>5
    <2>2. CASE ~Asked
      <3>1. m = AnchorPost /\ posts = {AnchorPost} /\ posts' = {} /\ (Shown \/ Attaching \/ Anchored)
        BY <1>3, <2>2, StageOfRun DEF TakePost, Taken, Settling, Mined
      <3>2. ~Refused(m) /\ m.kind \in {"meta", "metarotate"} /\ m.deal = NewDeal
        BY <1>2, <3>1, RequestsOfRun DEF Refused
      <3>3. CASE Idempotent(m)
        <4>1. ~Shown
          BY <3>1, <3>2, <3>3, NewIsNew DEF Idempotent, Shown
        <4>2. UNCHANGED <<board, jobs, ops>> /\ Reply(m, "ok")
          BY <1>3, <3>2, <3>3 DEF TakePost
        <4> QED
          BY <1>1, <3>1, <4>1, <4>2, SameStage
      <3>4. CASE ~Idempotent(m)
        <4>1. Shown
          BY <3>1, <3>2, <3>4 DEF Idempotent, Attaching, Anchoring, Anchored
        <4>2. /\ jobs' = {m} /\ ops' = ops \cup {RequestKey(m)} /\ UNCHANGED board
              /\ answer' \in {answer, "ok"}
          BY <1>3, <3>2, <3>4, <4>1 DEF TakePost, Shown, Reply
        <4>3. Registering'
          <5>1. ShownBoard' /\ (meta = AnchorBefore)'
            BY <1>1, <4>1, <4>2, SameStage DEF Shown, ShownBoard
          <5>2. /\ RequestKey(RecordPost)' = RequestKey(RecordPost)
                /\ RequestKey(AnchorPost)' = RequestKey(AnchorPost)
            BY <1>1, SameStage DEF RequestKey
          <5>3. Ask(AnchorPost.kind, try)' = AnchorPost
            BY <1>1, SameStage DEF Ask, AnchorPost
          <5> QED
            BY <1>1, <3>1, <4>1, <4>2, <5>1, <5>2, <5>3, SameStage DEF Registering, Anchoring, Shown
        <4> QED
          BY <3>1, <4>1, <4>2, <4>3
      <3> QED
        BY <3>3, <3>4
    <2> QED
      BY <2>1, <2>2
  <1>4. ASSUME NEW j \in jobs, MineRegister(j)
        PROVE  ServiceMoves
    <2>1. Taken /\ j = RecordPost /\ mode = "setup"
      BY <1>2, <1>4, JobOfRun, RequestsOfRun DEF MineRegister, Ask
    <2>2. chain = Unregistered /\ j.deal.seed = try
      BY <1>2, <2>1, NewIsNew, RequestsOfRun DEF Taken, OldBoard, NewDeal
    <2>3. MinedBoard' /\ UNCHANGED <<posts, ops>>
      BY <1>1, <1>4, <2>1, <2>2, NewIsNew, SameStage
         DEF MineRegister, Taken, OldBoard, MinedBoard, Own
    <2>4. /\ RequestKey(RecordPost)' = RequestKey(RecordPost)
          /\ RequestKey(AnchorPost)' = RequestKey(AnchorPost)
      BY <1>1, SameStage DEF RequestKey
    <2>5. CASE jobs' = jobs \ {j} /\ Reply(j, "ok")
      <3>1. Mined'
        BY <2>1, <2>3, <2>4, <2>5 DEF Mined, Taken
      <3> QED
        BY <2>1, <2>5, <3>1
    <2>6. CASE jobs' = (jobs \ {j}) \cup {[j EXCEPT !.kind = "settle"]} /\ UNCHANGED answer
      <3>1. [j EXCEPT !.kind = "settle"] = Ask("settle", try)
        BY <2>1 DEF RecordPost, Ask
      <3>2. Ask("settle", try)' = Ask("settle", try)
        BY <1>1, SameStage DEF Ask
      <3>3. Settling'
        BY <1>1, <2>1, <2>3, <2>4, <2>6, <3>1, <3>2 DEF Settling, Taken
      <3> QED
        BY <2>1, <2>6, <3>3
    <2> QED
      BY <1>4, <2>2, <2>5, <2>6 DEF MineRegister
  <1>5. ASSUME NEW j \in jobs, Settle(j)
        PROVE  ServiceMoves
    <2>1. Settling /\ j = Ask("settle", try) /\ shown = chain
      BY <1>2, <1>5, JobOfRun, RequestsOfRun DEF Settle, Ask
    <2>2. ShownBoard /\ meta = AnchorBefore /\ mode = "setup" /\ jobs = {j} /\ posts = {}
      BY <2>1, NewIsNew DEF Settling, MinedBoard
    <2>3. Deferred(j) = Ask("deferred", try) /\ j.deal = NewDeal
      BY <2>1 DEF Deferred, Ask
    <2>4. RequestKey(Deferred(j)) = RequestKey(AnchorPost)
      BY <2>2, <2>3, RequestsOfRun
    <2>5. epoch = j.deal.epoch /\ RequestKey(Deferred(j)) \notin ops
      BY <2>1, <2>2, <2>3, <2>4 DEF Settling, ShownBoard, NewDeal
    <2>6. /\ jobs' = {Ask("deferred", try)} /\ ops' = ops \cup {RequestKey(AnchorPost)}
          /\ UNCHANGED <<board, posts>> /\ Reply(j, "ok")
      BY <1>5, <2>2, <2>3, <2>4, <2>5 DEF Settle
    <2>7. Attaching'
      <3>1. /\ RequestKey(RecordPost)' = RequestKey(RecordPost)
            /\ RequestKey(AnchorPost)' = RequestKey(AnchorPost)
            /\ Ask("deferred", try)' = Ask("deferred", try)
        BY <1>1, SameStage DEF RequestKey, Ask
      <3>2. ShownBoard' /\ (meta = AnchorBefore)'
        BY <1>1, <2>2, <2>6, SameStage DEF ShownBoard
      <3> QED
        BY <1>1, <2>1, <2>2, <2>6, <3>1, <3>2 DEF Attaching, Anchoring, Settling
    <2> QED
      BY <2>1, <2>2, <2>6, <2>7
  <1>6. ASSUME NEW j \in jobs, MineRotate(j)
        PROVE  ServiceMoves
    <2>1. Taken /\ j = RecordPost
      BY <1>2, <1>6, JobOfRun, RequestsOfRun DEF MineRotate, Ask
    <2>2. j.deal = NewDeal
      BY <1>2, <2>1, RequestsOfRun
    <2>3. /\ RequestKey(RecordPost)' = RequestKey(RecordPost)
          /\ RequestKey(AnchorPost)' = RequestKey(AnchorPost)
      BY <1>1, SameStage DEF RequestKey
    <2>4. MinedBoard' /\ UNCHANGED <<posts, ops>> /\ jobs' = jobs \ {j} /\ Reply(j, "ok")
      BY <1>1, <1>6, <2>1, <2>2, SameStage
         DEF MineRotate, Taken, OldBoard, MinedBoard, Own, NewDeal
    <2>5. Mined'
      BY <2>1, <2>3, <2>4 DEF Mined, Taken
    <2> QED
      BY <2>1, <2>4, <2>5
  <1>7. ASSUME NEW j \in jobs, MineMeta(j)
        PROVE  ServiceMoves
    <2>1. \/ Attaching /\ j = Ask("deferred", try)
          \/ Registering /\ j = AnchorPost
      BY <1>2, <1>7, JobOfRun, RequestsOfRun DEF MineMeta, Ask
    <2>2. j.deal = NewDeal /\ jobs = {j}
      <3>1. AnchorPost = Ask(AnchorPost.kind, try)
        BY DEF AnchorPost, Ask
      <3> QED
        BY <2>1, <3>1 DEF Ask, Attaching, Registering, Anchoring
    <2>3. Anchored' /\ UNCHANGED posts /\ Reply(j, "ok")
      <3>1. RequestKey(RecordPost)' = RequestKey(RecordPost)
        BY <1>1, SameStage DEF RequestKey
      <3> QED
        BY <1>1, <1>7, <2>1, <2>2, <3>1, SameStage
           DEF MineMeta, Anchored, Attaching, Registering, Anchoring, ShownBoard
    <2>4. CASE Attaching /\ j = Ask("deferred", try)
      <3>1. UNCHANGED answer
        BY <2>3, <2>4 DEF Reply, Ask
      <3> QED
        BY <2>3, <2>4, <3>1
    <2>5. CASE Registering /\ j = AnchorPost /\ ~Attaching
      <3>1. posts = {}
        BY <2>2, <2>5, StageOfRun DEF Asked, Taken, Settling, Mined, Shown, Anchored
      <3> QED
        BY <2>3, <2>5, <3>1
    <2>6. CASE Registering /\ j = AnchorPost /\ Attaching
      <3>1. FALSE
        BY <2>2, <2>6, <1>2, RequestsOfRun DEF Attaching, Anchoring, Ask
      <3> QED
        BY <3>1
    <2> QED
      BY <2>1, <2>4, <2>5, <2>6
  <1>8. ASSUME NEW j \in jobs, MetaReverts(j)
        PROVE  ServiceMoves
    BY <1>2, <1>8, JobOfRun, RequestsOfRun DEF MetaReverts, Ask
  <1>9. CASE PushRoot
    <2>1. (Mined \/ Settling) /\ MinedBoard
      BY <1>9, StageOfRun DEF PushRoot, Asked, Taken, Mined, OldBoard, Settling, Shown, Attaching,
         Registering, Anchoring, Anchored, ShownBoard
    <2>2. MinedBoard /\ posts = {}
      BY <2>1 DEF Mined, Settling
    <2>3. ShownBoard' /\ (meta = AnchorBefore)' /\ UNCHANGED <<queues, answer>>
      BY <1>1, <1>9, <2>2, SameStage DEF PushRoot, MinedBoard, ShownBoard
    <2>4. /\ RequestKey(RecordPost)' = RequestKey(RecordPost)
          /\ RequestKey(AnchorPost)' = RequestKey(AnchorPost)
          /\ Ask("settle", try)' = Ask("settle", try)
      BY <1>1, SameStage DEF RequestKey, Ask
    <2>5. CASE Mined
      <3>1. Shown'
        BY <2>3, <2>4, <2>5 DEF Mined, Shown
      <3> QED
        BY <2>2, <2>3, <2>5, <3>1
    <2>6. CASE Settling
      <3>1. Settling'
        BY <1>1, <2>3, <2>4, <2>6 DEF Settling
      <3> QED
        BY <2>3, <2>6, <3>1
    <2> QED
      BY <2>1, <2>5, <2>6
  <1> QED
    BY <1>3, <1>4, <1>5, <1>6, <1>7, <1>8, <1>9 DEF ServiceStep

\* The stages exclude each other, so each goes with certain phases.
LEMMA PhaseOfStage ==
    ASSUME TypeOK, RunInv, Working
    PROVE  /\ Asked \/ Taken \/ Settling => pc = "post" /\ answer = "none"
           /\ Mined => pc = "wait" \/ (pc = "post" /\ answer = "ok")
           /\ Registering => pc \in {"metapost", "metawait"} /\ posts = {} /\ ~Attaching
           /\ posts = {AnchorPost} /\ (Shown \/ Attaching \/ Anchored) =>
                  pc = "metapost" /\ answer = "none"
           /\ Attaching => \/ pc = "post" /\ answer = "ok" /\ posts = {}
                           \/ pc \in {"wait", "check", "invalidate", "distribute", "verify", "meta",
                                      "metawait"} /\ posts = {}
                           \/ pc = "metapost"
  <1>1. Own # Before /\ mode \in {"setup", "rotate"}
    BY StageOfRun, NewIsNew
  <1>2. Together /\ pc \notin {"idle", "fetch"}
    BY DEF Working
  <1>3. AnchorPost.kind \in {"meta", "metarotate"} /\ RecordPost # AnchorPost
        /\ AnchorPost = Ask(AnchorPost.kind, try)
    BY <1>1, RequestsOfRun DEF AnchorPost, Ask
  <1>4. Ask("settle", try).kind = "settle" /\ Ask("deferred", try).kind = "deferred"
    BY DEF Ask
  <1>5. CASE Asked \/ Taken
    <2>1. /\ chain = Before /\ ~Mined /\ ~Settling /\ ~Shown /\ ~Attaching /\ ~Registering
          /\ ~Anchored
      BY <1>1, <1>5 DEF Asked, Taken, OldBoard, MinedBoard, ShownBoard, Mined, Settling, Shown,
         Attaching, Registering, Anchoring, Anchored
    <2> QED
      BY <1>2, <2>1 DEF Together, TypeOK
  <1>6. CASE Settling
    <2>1. jobs = {Ask("settle", try)}
      BY <1>6 DEF Settling
    <2>2. ~Mined /\ ~Shown /\ ~Attaching /\ ~Registering /\ ~Anchored
      BY <1>3, <1>4, <2>1 DEF Mined, Shown, Attaching, Registering, Anchoring, Anchored
    <2> QED
      BY <1>2, <1>6, <2>2 DEF Together, TypeOK
  <1>7. CASE Mined
    <2>1. ~Asked /\ ~Taken /\ ~Settling /\ ~Shown /\ ~Attaching /\ ~Registering /\ ~Anchored
      BY <1>1, <1>7 DEF Asked, Taken, OldBoard, MinedBoard, ShownBoard, Mined, Settling, Shown,
         Attaching, Registering, Anchoring, Anchored
    <2> QED
      BY <1>2, <1>7, <2>1 DEF Together, TypeOK
  <1>8. CASE Registering \/ Attaching \/ Shown \/ Anchored
    <2>1. chain = Own /\ shown = Own /\ ~Settling
      BY <1>3, <1>4, <1>8 DEF Settling, Shown, Attaching, Registering, Anchoring, Anchored, ShownBoard
    <2>2. ~Asked /\ ~Taken /\ ~Mined
      BY <1>1, <2>1 DEF Asked, Taken, OldBoard, MinedBoard, Mined
    <2>3. /\ Registering => ~Shown /\ ~Attaching /\ ~Anchored
          /\ Attaching => ~Anchored
      BY <1>3, <1>4 DEF Shown, Attaching, Registering, Anchoring, Anchored
    <2>4. {AnchorPost} # {}
      OBVIOUS
    <2> QED
      BY <1>2, <1>8, <2>1, <2>2, <2>3, <2>4 DEF Together, TypeOK
  <1> QED
    BY <1>5, <1>6, <1>7, <1>8 DEF Mined

\* A step of another part leaves a run what it has.
LEMMA GroundKept ==
    ASSUME Ground, UNCHANGED <<mode, base, pred, exit, files, good>>,
           \A v \in Nat : \A k \in {"recovery", "ttss_meta_rotate"} :
               <<k, v>> \in ops' => <<k, v>> \in ops \/ v = NewVer,
           NewVer \in Nat,
           pc' = "compare" <=> pc = "compare",
           pc' \notin {"post", "wait"} => ep' = pred,
           pc' \in Parallel => \A g \in Nodes : task'[g] # "failed",
           pc' \notin {"validate", "save", "compare"} => got' = {},
           pc' = "validate" => GotSeed(try)'
    PROVE  Ground'
  <1>1. NewVer' = NewVer
    BY DEF NewVer
  <1>2. OpsUpTo(NewVer)'
    BY <1>1 DEF OpsUpTo, Ground
  <1>3. NoFileAfter(IF pc = "compare" THEN NewVer ELSE good.ver)
            => NoFileAfter(IF pc = "compare" THEN NewVer ELSE good.ver)'
    BY <1>1 DEF NoFileAfter
  <1> QED
    BY <1>2, <1>3 DEF Ground

LEMMA CalmService ==
    ASSUME TypeOK, RunInv, Calm, ServiceStep, ~Fault
    PROVE  Calm'
  <1>1. Working
    BY DEF Calm, Unused, Resting, Fetching, Settled, ServiceStep, PushRoot
  <1>2. UNCHANGED serviceFrame
    BY DEF ServiceStep, TakePost, MineRegister, Settle, MineRotate, MineMeta,
       MetaReverts, JobFails, PushRoot, serviceFrame
  <1>3. ServiceMoves /\ mode \in {"setup", "rotate"} /\ Ground /\ Together /\ NewVer \in Nat
    BY <1>1, ServiceAdvances, StageOfRun, NewIsNew DEF Working
  <1>4. Ground'
    <2>1. ops' \subseteq ops \cup {RequestKey(RecordPost), RequestKey(AnchorPost)}
      <3>1. ASSUME NEW m \in posts, TakePost(m)
            PROVE  ops' \subseteq ops \cup {RequestKey(m)} /\ m \in {RecordPost, AnchorPost}
        BY <1>1, <3>1, StageOfRun DEF TakePost, Asked, Taken, Settling, Mined
      <3>2. ASSUME NEW j \in jobs, Settle(j)
            PROVE  ops' \subseteq ops \cup {RequestKey(AnchorPost)}
        <4>1. Settling /\ j = Ask("settle", try)
          BY <1>1, <1>3, <3>2, JobOfRun, RequestsOfRun DEF Settle, Ask
        <4>2. Deferred(j) = Ask("deferred", try) /\ mode = "setup"
          BY <4>1 DEF Deferred, Ask, Settling
        <4>3. RequestKey(Deferred(j)) = RequestKey(AnchorPost)
          BY <4>2, RequestsOfRun
        <4> QED
          BY <3>2, <4>3 DEF Settle
      <3>3. CASE \/ \E j \in jobs : MineRegister(j) \/ MineRotate(j) \/ MineMeta(j) \/ MetaReverts(j)
                 \/ PushRoot
        BY <3>3 DEF MineRegister, MineRotate, MineMeta, MetaReverts, JobFails, PushRoot, queues
      <3> QED
        BY <3>1, <3>2, <3>3 DEF ServiceStep
    <2>2. ASSUME NEW v \in Nat, NEW k \in {"recovery", "ttss_meta_rotate"}, <<k, v>> \in ops'
          PROVE  <<k, v>> \in ops \/ v = NewVer
      BY <1>3, <2>1, <2>2, RequestsOfRun
    <2>3. /\ UNCHANGED <<mode, try, base, pred, ep, exit, files, good, pc, task, got>>
          /\ (pc = "validate" => GotSeed(try)')
      BY <1>2, <1>3 DEF serviceFrame, run, disk, Ground, GotSeed
    <2> QED
      BY <1>3, <2>2, <2>3, GroundKept DEF Ground
  <1>5. Together'
    <2> USE DEF serviceFrame
    <2>1. UNCHANGED <<pc, mode, try>>
      BY <1>2 DEF run
    <2>2. pc \notin {"idle", "fetch"} /\ {AnchorPost} # {}
      BY <1>1 DEF Working
    <2>3. /\ RecordPost.by = try /\ AnchorPost.by = try /\ Ask("settle", try).by = try
          /\ RecordPost.kind \in {"register", "rotate"} /\ Ask("settle", try).kind = "settle"
          /\ AnchorPost.kind \in {"meta", "metarotate"}
      BY <1>3, RequestsOfRun DEF Ask
    <2>4. CASE Asked /\ Taken' /\ UNCHANGED answer
      BY <1>1, <2>1, <2>4, PhaseOfStage DEF Together
    <2>5. CASE Taken /\ Mined' /\ Reply(RecordPost, "ok")
      BY <1>1, <2>1, <2>3, <2>5, PhaseOfStage DEF Together, Reply
    <2>6. CASE (Taken \/ Settling) /\ Settling' /\ UNCHANGED answer
      BY <1>1, <2>1, <2>6, PhaseOfStage DEF Together
    <2>7. CASE Settling /\ Attaching' /\ posts' = {} /\ Reply(Ask("settle", try), "ok")
      BY <1>1, <2>1, <2>3, <2>7, PhaseOfStage DEF Together, Reply
    <2>8. CASE Mined /\ Shown' /\ posts' = {} /\ UNCHANGED answer
      BY <1>1, <2>1, <2>8, PhaseOfStage DEF Together
    <2>9. CASE Shown /\ posts = {AnchorPost} /\ Registering' /\ posts' = {} /\ answer' \in {answer, "ok"}
      BY <1>1, <2>1, <2>9, PhaseOfStage DEF Together
    <2>10. CASE Attaching /\ posts = {AnchorPost} /\ Attaching' /\ posts' = {} /\ Reply(AnchorPost, "ok")
      BY <1>1, <2>1, <2>3, <2>10, PhaseOfStage DEF Together, Reply
    <2>11. CASE Attaching /\ Anchored' /\ UNCHANGED <<posts, answer>>
      <3>1. pc = "metapost" =>
                \/ answer = "none" /\ posts = {AnchorPost}
                \/ answer = "ok" /\ posts = {}
        <4>1. ~Registering
          BY <1>1, <2>11, PhaseOfStage
        <4> QED
          BY <1>3, <4>1 DEF Together
      <3>2. posts = {AnchorPost} => AnchorPost' = AnchorPost
        BY <1>2, SameStage DEF run
      <3> QED
        BY <1>1, <2>1, <2>11, <3>1, <3>2, PhaseOfStage DEF Together
    <2>12. CASE Registering /\ posts = {} /\ Anchored' /\ posts' = {} /\ Reply(AnchorPost, "ok")
      <3>1. pc = "metapost" => answer' = "ok"
        BY <2>3, <2>12 DEF Reply
      <3> QED
        BY <1>1, <2>1, <2>12, <3>1, PhaseOfStage DEF Together
    <2>13. CASE Anchored /\ posts = {AnchorPost} /\ Anchored' /\ posts' = {} /\ Reply(AnchorPost, "ok")
      BY <1>1, <2>1, <2>3, <2>13, PhaseOfStage DEF Together, Reply
    <2> QED
      BY <1>3, <2>4, <2>5, <2>6, <2>7, <2>8, <2>9, <2>10, <2>11, <2>12, <2>13 DEF ServiceMoves
  <1> QED
    BY <1>1, <1>2, <1>4, <1>5 DEF Calm, Working, serviceFrame, disk

-----------------------------------------------------------------------------
(* The client goes on *)

\* A node serves the share of a deal that is complete, and no share of
\* another seed with it.
LEMMA ServesShare ==
    ASSUME Inv, NEW d \in Deal, NEW g \in Nodes, ActiveEnvelope(d) \in shares[g]
    PROVE  /\ Served(g, d.ver, d.epoch) # {}
           /\ \A e \in Served(g, d.ver, d.epoch) : e.seed = d.seed
  <1>1. /\ HasKey(ActiveEnvelope(d), d.ver, d.epoch) /\ ActiveEnvelope(d).active
        /\ ActiveEnvelope(d).seed = d.seed
        /\ ActiveEnvelope(d).ver = d.ver /\ ActiveEnvelope(d).epoch = d.epoch
    BY DEF ActiveEnvelope, HasKey
  <1>2. ActiveEnvelope(d) \in Served(g, d.ver, d.epoch)
    BY <1>1 DEF Served, Stored
  <1>3. ASSUME NEW e \in Served(g, d.ver, d.epoch)
        PROVE  e.seed = d.seed
    BY <1>1, SharesFit DEF Served, Stored, NoMixedShares
  <1> QED
    BY <1>2, <1>3

\* Of a file that is not the last one nothing is served.
LEMMA OldFileGone ==
    ASSUME Inv, base \in files, good \in files, NoFileAfter(good.ver), base # good,
           NEW g \in Nodes
    PROVE  Served(g, base.ver, base.epoch) = {}
  <1> SUFFICES ASSUME NEW e \in shares[g], e.active, HasKey(e, base.ver, base.epoch)
               PROVE  FALSE
    BY DEF Served, Stored
  <1>1. DealOf(e).ver = base.ver /\ e.ver = base.ver /\ base.ver \in Nat /\ good.ver \in Nat
    BY DEF HasKey, DealOf, Inv, TypeOK, Deal
  <1>2. DealOf(e) \in files
    BY <1>1, LooseOrFiled DEF Inv, LooseInv
  <1>3. NoFileAfter(base.ver)
    BY <1>1, <1>2 DEF Inv, ActiveInv
  <1>4. base.ver = good.ver
    BY <1>1, <1>3 DEF NoFileAfter
  <1> QED
    BY <1>4 DEF Inv, VersionInv

\* The shares of the running rotation are there once they are distributed.
LEMMA OwnSharesThere ==
    ASSUME Inv, ShareInv, Calm, Working, pc \in {"verify", "validate"}, NEW g \in Nodes
    PROVE  /\ Served(g, MyDeal.ver, MyDeal.epoch) # {}
           /\ \A e \in Served(g, MyDeal.ver, MyDeal.epoch) : e.seed = try
  <1>1. Shown \/ Attaching \/ Anchored
    BY DEF Working, Together
  <1>2. chain.ver = NewVer
    BY <1>1 DEF Shown, Attaching, Anchoring, Anchored, ShownBoard, Own
  <1>3. lost = {}
    BY DEF Calm
  <1>4. ActiveEnvelope(MyDeal) \in shares[g]
    BY <1>2, <1>3 DEF ShareInv
  <1>5. MyDeal \in Deal /\ MyDeal.seed = try
    BY MyDealType DEF Inv, MyDeal
  <1> QED
    BY <1>4, <1>5, ServesShare

LEMMA CalmFetch ==
    ASSUME Inv, KeepInv, Calm, NEW g \in Nodes, FetchShare(g)
    PROVE  Calm'
  <1>0. 1..T \subseteq Nodes /\ NoFile \notin Deal
    BY FlowAssumption
  <1>1. /\ pc \in {"fetch", "validate"} /\ g \in 1..T /\ task[g] = "todo"
        /\ UNCHANGED <<shares, run, disk, late, board, queues, faults>>
    BY DEF FetchShare
  <1> DEFINE served == Served(g, Wanted.ver, Wanted.epoch)
  <1>2. \/ served = {} /\ End("failed") /\ UNCHANGED got
        \/ /\ served # {} /\ task' = [task EXCEPT ![g] = "ok"] /\ got' = got \cup served
           /\ UNCHANGED <<pc, exit, answer>>
    BY DEF FetchShare
  <1>3. task \in [Nodes -> {"todo", "ok", "failed"}]
    BY DEF Inv, TypeOK
  <1>4. CASE pc = "fetch"
    <2>1. /\ Fetching /\ Wanted = base /\ base \in files /\ base \in Deal
      BY <1>4, MyDealType DEF Calm, Unused, Resting, Working, Wanted, Inv, RunInv
    <2>2. Settled'
      BY <1>1, <2>1 DEF Fetching, Settled, disk, board, queues, NoFileAfter, OpsUpTo
    <2>3. CASE base # good
      <3>1. served = {}
        BY <2>1, <2>3, OldFileGone DEF Fetching, Settled
      <3>2. pc' = "idle" /\ exit' = "failed" /\ base' = base /\ good' = good
        BY <1>1, <1>2, <3>1 DEF End, run, disk
      <3> QED
        BY <1>0, <1>1, <2>1, <2>2, <2>3, <3>2 DEF Calm, Resting, disk
    <2>4. CASE base = good
      <3>1. chain.ver = good.ver /\ good # NoFile /\ lost = {}
        BY <1>0, <2>1, <2>4 DEF Fetching, Settled, Calm
      <3>2. ActiveEnvelope(base) \in shares[g]
        BY <2>4, <3>1 DEF KeepInv, GoodFileHolds
      <3>3. served # {} /\ \A e \in served : e.seed = base.seed
        BY <2>1, <3>2, ServesShare
      <3>4. /\ pc' = "fetch" /\ exit' = exit /\ got' = got \cup served
            /\ base' = base /\ good' = good /\ pred' = pred
        BY <1>1, <1>2, <1>4, <3>3 DEF run, disk
      <3>5. GotSeed(base.seed)'
        <4>1. got' # {} /\ \A e \in got' : e.seed = base.seed
          BY <2>1, <2>4, <3>3, <3>4 DEF Fetching, GotSeed
        <4> QED
          BY <3>4, <4>1 DEF GotSeed
      <3> QED
        BY <1>1, <2>1, <2>2, <2>4, <3>4, <3>5 DEF Calm, Fetching, disk
    <2> QED
      BY <2>3, <2>4
  <1>5. CASE pc = "validate"
    <2>1. Working /\ Ground /\ Together
      BY <1>5 DEF Calm, Unused, Resting, Fetching, Working
    <2>2. Wanted = MyDeal
      BY <1>5 DEF Wanted
    <2>3. served # {} /\ \A e \in served : e.seed = try
      BY <1>5, <2>1, <2>2, OwnSharesThere DEF KeepInv
    <2>4. /\ pc' = pc /\ exit' = exit /\ answer' = answer /\ got' = got \cup served
      BY <1>2, <2>3
    <2>5. UNCHANGED <<mode, try, base, pred, ep, files, good, ops>>
      BY <1>1 DEF run, disk, queues
    <2>6. GotSeed(try)'
      <3>1. got' # {} /\ \A e \in got' : e.seed = try
        BY <1>5, <2>1, <2>3, <2>4 DEF Ground, GotSeed
      <3> QED
        BY <2>5, <3>1 DEF GotSeed
    <2>7. Ground'
      BY <1>5, <2>1, <2>4, <2>5, <2>6, GroundKept, NewIsNew DEF Ground, Parallel, Inv
    <2>8. Together'
      BY <1>1, <1>5, <2>1, <2>4, <2>5, SameStage DEF Together, queues
    <2> QED
      BY <1>1, <1>5, <2>4, <2>7, <2>8 DEF Calm, Working, disk
  <1> QED
    BY <1>1, <1>4, <1>5

LEMMA CalmRecovered ==
    ASSUME Inv, Calm, Recovered
    PROVE  Calm'
  <1>1. pc = "fetch" /\ UNCHANGED <<shares, run, disk, late, board, jobs, ops>> /\ got' = {}
    BY DEF Recovered
  <1>2. /\ Fetching /\ mode \in {"recover", "rotate"} /\ base \in files /\ base \in Deal
        /\ try \in Seeds
    BY <1>1, MyDealType DEF Calm, Unused, Resting, Working, Inv, RunInv, TypeOK
  <1>3. base = good /\ Rebuilt(base.seed)
    <2>1. 1 \in 1..T /\ task[1] = "ok"
      BY FlowAssumption DEF Recovered, FetchedAll
    <2>2. base = good /\ got # {} /\ \A e \in got : e.seed = base.seed
      BY <1>2, <2>1 DEF Fetching, GotSeed
    <2> QED
      BY <2>2 DEF Rebuilt
  <1>4. CASE mode = "recover"
    <2>1. End("ok") /\ UNCHANGED posts
      BY <1>3, <1>4 DEF Recovered
    <2>2. Settled'
      BY <1>1, <1>2, <2>1 DEF Fetching, Settled, disk, board, NoFileAfter, OpsUpTo
    <2> QED
      BY <1>1, <2>1, <2>2 DEF Calm, Resting, End, disk
  <1>5. CASE mode = "rotate"
    <2>1. GoTo("post")
          /\ Post("rotate", [ver |-> NewVer, epoch |-> pred, seed |-> try], base.seed)
      BY <1>3, <1>5 DEF Recovered
    <2>2. UNCHANGED <<mode, try, base, pred, ep, files, good, board, jobs, ops>>
      BY <1>1 DEF run, disk
    <2>3. /\ NewVer = base.ver + 1 /\ base.ver \in Nat
          /\ Before = [ver |-> base.ver, rec |-> base.seed] /\ AnchorBefore = base
          /\ NewDeal = [ver |-> NewVer, epoch |-> pred, seed |-> try]
      BY <1>2, <1>5 DEF NewVer, Before, AnchorBefore, NewDeal, Deal
    <2>4. Settled
      BY <1>2 DEF Fetching
    <2> HIDE DEF NewVer
    <2>5. posts' = {RecordPost}
      BY <1>5, <2>1, <2>3, <2>4 DEF Post, Settled, RecordPost, Ask
    <2>6. Ground'
      <3>1. NewVer' = NewVer
        BY <2>2, SameStage
      <3>2. OpsUpTo(NewVer)'
        BY <2>2, <2>3, <2>4, <1>3, <3>1 DEF OpsUpTo, Settled
      <3>3. NoFileAfter(good.ver)'
        BY <2>2, <2>4 DEF NoFileAfter, Settled
      <3> QED
        BY <1>1, <1>2, <1>3, <1>5, <2>1, <2>2, <2>4, <3>2, <3>3
           DEF Ground, GoTo, Parallel, Fetching, Settled
    <2>7. Asked'
      <3>1. OldBoard
        BY <1>2, <1>3, <2>3, <2>4 DEF OldBoard, Settled, Fetching, Inv, TypeOK
      <3>2. OldBoard'
        BY <2>2, <3>1, SameStage DEF OldBoard, board
      <3>3. RequestKey(RecordPost) \notin ops /\ RequestKey(AnchorPost) \notin ops
        BY <1>3, <1>5, <2>3, <2>4, RequestsOfRun DEF Settled, OpsUpTo
      <3>4. /\ RequestKey(RecordPost)' = RequestKey(RecordPost)
            /\ RequestKey(AnchorPost)' = RequestKey(AnchorPost)
        BY <2>2, SameStage DEF RequestKey
      <3> QED
        BY <2>2, <2>4, <2>5, <3>2, <3>3, <3>4, SameStage DEF Asked, Settled
    <2> QED
      BY <1>1, <2>1, <2>6, <2>7 DEF Calm, Working, Together, GoTo, disk
  <1> QED
    BY <1>2, <1>4, <1>5

\* A run in one of the later phases.
LEMMA RunIsWorking ==
    ASSUME Calm, pc \notin {"idle", "fetch"}
    PROVE  Working /\ Ground /\ Together
  BY DEF Calm, Unused, Resting, Fetching, Working

\* The own deal, from the moment the root with the record is observed.
LEMMA ObservedDeal ==
    ASSUME Inv, Working, pc \notin {"post", "wait"}
    PROVE  MyDeal = NewDeal /\ MyDeal \in Deal /\ ep = pred
  <1>1. ep = pred
    BY DEF Working, Ground
  <1> QED
    BY <1>1, NewIsNew DEF Inv, MyDeal, NewDeal

\* A run that goes on to its next phase.
LEMMA WorksOn ==
    ASSUME Inv, Calm, Working, NEW p, Step(p),
           p \notin {"idle", "fetch", "compare", "post"}, pc \notin {"save", "compare"},
           pc = "validate" => p = "save",
           p # "wait" => ep = pred,
           p = "wait" => Mined \/ (posts = {} /\ (Shown \/ Attaching \/ Anchored)),
           p \in {"check", "invalidate", "distribute", "verify", "meta"} =>
               posts = {} /\ (Shown \/ Attaching \/ Anchored),
           p # "metapost",
           p = "metawait" => posts = {} /\ (Registering \/ Attaching \/ Anchored),
           p \in {"validate", "save"} => posts = {} /\ Anchored
    PROVE  Calm'
  <1>1. /\ pc' = p /\ task' = Todo /\ exit' = exit
        /\ UNCHANGED <<shares, mode, try, base, pred, ep, got, files, good, lost, late, board,
                       queues, posts, jobs, ops>>
    BY DEF Step, GoTo, run, disk, queues
  <1>2. \A g \in Nodes : task'[g] # "failed" /\ task'[g] # "ok"
    BY <1>1 DEF Todo
  <1>3. Ground'
    <2>1. Ground /\ NewVer \in Nat
      BY NewIsNew DEF Working, Inv
    <2>2. pc' \notin {"validate", "save", "compare"} => got' = {}
      BY <1>1, <2>1 DEF Ground
    <2>3. pc' = "validate" => GotSeed(try)'
      BY <1>1, <1>2, <2>1, FlowAssumption DEF Ground, GotSeed
    <2> QED
      BY <1>1, <1>2, <2>1, <2>2, <2>3, GroundKept
  <1>4. Together'
    BY <1>1, SameStage DEF Together
  <1> QED
    BY <1>1, <1>3, <1>4 DEF Calm, Working

LEMMA CalmPhases ==
    ASSUME Inv, KeepInv, Calm,
           PostAnswered \/ ReadySeen \/ CheckSetup \/ PhaseEnds \/ MetaSeen \/ Validated
    PROVE  Calm'
  <1>1. pc \notin {"idle", "fetch"}
    BY DEF PostAnswered, ReadySeen, CheckSetup, PhaseEnds, MetaSeen, Validated
  <1>2. Working /\ Ground /\ Together /\ mode \in {"setup", "rotate"} /\ TypeOK /\ RunInv
    BY <1>1, RunIsWorking DEF Ground, Inv
  <1>3. CASE PostAnswered
    <2>1. answer = "ok" /\ pc \in {"post", "metapost"}
      BY <1>2, <1>3 DEF PostAnswered, Together
    <2>2. CASE pc = "post"
      <3>1. Step("wait")
        BY <1>3, <2>1, <2>2 DEF PostAnswered, Step
      <3>2. Mined \/ (posts = {} /\ (Shown \/ Attaching \/ Anchored))
        BY <1>2, <2>1, <2>2 DEF Together
      <3> QED
        BY <1>2, <2>2, <3>1, <3>2, WorksOn
    <2>3. CASE pc = "metapost"
      <3>1. Step("metawait")
        BY <1>3, <2>1, <2>3 DEF PostAnswered, Step
      <3>2. posts = {} /\ (Registering \/ Attaching \/ Anchored)
        BY <1>2, <2>1, <2>3 DEF Together
      <3>3. ep = pred
        BY <1>2, <2>3, ObservedDeal
      <3> QED
        BY <1>2, <2>3, <3>1, <3>2, <3>3, WorksOn
    <2> QED
      BY <2>1, <2>2, <2>3
  <1>4. CASE ReadySeen
    <2>1. /\ pc = "wait" /\ shown.ver >= NewVer /\ ep' = epoch /\ task' = Todo
          /\ pc' = IF mode = "setup" THEN "check" ELSE "invalidate"
          /\ UNCHANGED <<mode, try, base, pred, got, files, good, lost, late, board, queues,
                         posts, ops, exit>>
      BY <1>4 DEF ReadySeen, Ready, ReadyFor, GoTo, disk, queues
    <2>2. posts = {} /\ (Shown \/ Attaching \/ Anchored)
      <3>1. ~Mined
        <4>1. Before.ver < NewVer /\ Before.ver + 1 = NewVer /\ NewVer \in Nat
          BY <1>2, NewIsNew
        <4>2. ASSUME shown = Before PROVE FALSE
          <5>1. Before.ver \in Int
            BY <1>2, <4>2 DEF TypeOK
          <5> QED
            BY <2>1, <4>1, <4>2, <5>1
        <4> QED
          BY <4>2 DEF Mined, MinedBoard
      <3> QED
        BY <1>2, <2>1, <3>1 DEF Together
    <2>3. epoch = pred
      BY <2>2 DEF Shown, Attaching, Anchoring, Anchored, ShownBoard
    <2>4. pc' \in {"check", "invalidate"} /\ \A g \in Nodes : task'[g] # "failed"
      BY <2>1 DEF Todo
    <2>5. Ground'
      <3>1. NewVer \in Nat
        BY <1>2, NewIsNew
      <3>2. got' = {}
        BY <1>2, <2>1 DEF Ground
      <3> QED
        BY <1>2, <2>1, <2>3, <2>4, <3>1, <3>2, GroundKept
    <2>6. Together'
      BY <2>1, <2>2, <2>4, SameStage DEF Together, queues
    <2> QED
      BY <2>1, <2>4, <2>5, <2>6 DEF Calm, Working
  <1>5. CASE CheckSetup
    <2>1. pc = "check" /\ posts = {} /\ (Shown \/ Attaching \/ Anchored) /\ ep = pred
      BY <1>2, <1>5 DEF CheckSetup, Together, Ground
    <2>2. OwnLeaf /\ epoch = ep
      BY <2>1 DEF OwnLeaf, Own, Shown, Attaching, Anchoring, Anchored, ShownBoard
    <2>3. Step("distribute")
      BY <1>5, <2>2 DEF CheckSetup
    <2> QED
      BY <1>2, <2>1, <2>3, WorksOn
  <1>6. CASE PhaseEnds
    <2>1. pc \in Parallel /\ \A g \in Nodes : task[g] \in {"ok", "todo"}
      BY <1>2, <1>6 DEF PhaseEnds, Parallel, Ground, TypeOK
    <2>2. \E p \in {"distribute", "verify", "meta"} : Step(p)
      BY <1>6, <2>1 DEF PhaseEnds, Joined
    <2>3. posts = {} /\ (Shown \/ Attaching \/ Anchored) /\ ep = pred
      BY <1>2, <2>1 DEF Parallel, Together, Ground
    <2> QED
      BY <1>2, <2>1, <2>2, <2>3, WorksOn DEF Parallel
  <1>7. CASE MetaSeen
    <2>1. pc = "metawait" /\ meta = MyDeal /\ ep = pred /\ MyDeal = NewDeal
      BY <1>2, <1>7, ObservedDeal DEF MetaSeen
    <2>2. posts = {} /\ Anchored
      BY <1>2, <2>1, NewIsNew DEF Together, Registering, Attaching, Anchoring
    <2>3. \E p \in {"save", "validate"} : Step(p)
      BY <1>7 DEF MetaSeen
    <2> QED
      BY <1>2, <2>1, <2>2, <2>3, WorksOn
  <1>8. CASE Validated
    <2>1. pc = "validate" /\ posts = {} /\ Anchored /\ ep = pred /\ GotSeed(try)
      BY <1>2, <1>8 DEF Validated, Together, Ground
    <2>2. 1 \in 1..T /\ task[1] = "ok"
      BY <1>8, FlowAssumption DEF Validated, FetchedAll
    <2>3. Rebuilt(try)
      BY <2>1, <2>2 DEF GotSeed, Rebuilt
    <2>4. Step("save")
      BY <1>8, <2>3 DEF Validated
    <2> QED
      BY <1>2, <2>1, <2>4, WorksOn
  <1> QED
    BY <1>3, <1>4, <1>5, <1>6, <1>7, <1>8

LEMMA CalmNode ==
    ASSUME Inv, KeepInv, Calm, NEW g \in Nodes, NodeAnswers(g)
    PROVE  Calm'
  <1>1. /\ pc \in Parallel /\ task[g] = "todo"
        /\ UNCHANGED <<mode, try, base, pred, ep, pc, exit, answer, got, files, good, lost, late,
                       board, queues, posts, jobs, ops>>
        /\ task' = [task EXCEPT ![g] = AnswerOf(g)]
    BY DEF NodeAnswers, run, disk, queues
  <1>2. Working /\ Ground /\ Together /\ NewVer \in Nat
    BY <1>1, RunIsWorking, NewIsNew DEF Parallel, Inv
  <1>3. AnswerOf(g) = "ok"
    BY <1>2, OwnSharesThere DEF AnswerOf, KeepInv
  <1>4. \A h \in Nodes : task'[h] # "failed"
    BY <1>1, <1>2, <1>3 DEF Ground, Inv, TypeOK
  <1>5. Ground'
    BY <1>1, <1>2, <1>4, GroundKept DEF Ground, Parallel
  <1>6. Together'
    BY <1>1, <1>2, SameStage DEF Together
  <1> QED
    BY <1>1, <1>2, <1>5, <1>6 DEF Calm, Working

LEMMA CalmMeta ==
    ASSUME Inv, Calm, RegisterMeta
    PROVE  Calm'
  <1>1. pc = "meta"
    BY DEF RegisterMeta
  <1>2. Working /\ Ground /\ Together /\ mode \in {"setup", "rotate"}
    BY <1>1, RunIsWorking DEF Ground
  <1>3. posts = {} /\ (Shown \/ Attaching \/ Anchored) /\ ep = pred /\ MyDeal = NewDeal
    BY <1>1, <1>2, ObservedDeal DEF Together
  <1>4. CASE meta = MyDeal /\ Step("metawait")
    <2>1. ~Shown
      BY <1>2, <1>3, <1>4, NewIsNew DEF Shown, Inv
    <2> QED
      BY <1>1, <1>2, <1>3, <1>4, <2>1, WorksOn
  <1>5. CASE ~(meta = MyDeal /\ Step("metawait"))
    <2>1. /\ Post(IF mode = "setup" THEN "meta" ELSE "metarotate", MyDeal, try)
          /\ GoTo("metapost")
          /\ UNCHANGED <<mode, try, base, pred, ep, got, files, good, lost, late, board, jobs, ops>>
      BY <1>5 DEF RegisterMeta, run, disk
    <2>2. MyDeal.seed = try
      BY DEF MyDeal
    <2>3. posts' = {AnchorPost}
      BY <1>3, <2>1, <2>2 DEF Post, AnchorPost, Ask
    <2>4. Ground'
      <3>1. NewVer \in Nat /\ got' = {}
        BY <1>1, <1>2, <2>1, NewIsNew DEF Ground, Inv
      <3> QED
        BY <1>1, <1>2, <1>3, <2>1, <3>1, GroundKept DEF GoTo, Parallel
    <2>5. Together'
      BY <1>3, <2>1, <2>3, SameStage DEF Together, GoTo
    <2> QED
      BY <2>1, <2>4, <2>5 DEF Calm, Working, GoTo
  <1> QED
    BY <1>4, <1>5

\* What a run that is done leaves behind.
LEMMA SettledDeal ==
    ASSUME Inv, Working, Anchored, posts = {}, pc \in {"save", "compare"}
    PROVE  /\ meta = MyDeal /\ epoch = MyDeal.epoch /\ shown = chain
           /\ chain = [ver |-> MyDeal.ver, rec |-> MyDeal.seed]
           /\ OpsUpTo(MyDeal.ver) /\ jobs = {} /\ MyDeal.ver = NewVer
  <1>1. MyDeal = NewDeal /\ Ground
    BY ObservedDeal DEF Working
  <1>2. MyDeal.ver = NewVer /\ MyDeal.epoch = pred /\ MyDeal.seed = try
    BY <1>1 DEF NewDeal
  <1> QED
    BY <1>1, <1>2 DEF Anchored, ShownBoard, Own, Ground

LEMMA CalmSave ==
    ASSUME Inv, Calm, Save
    PROVE  Calm'
  <1>1. /\ pc = "save" /\ files' = files \cup {MyDeal}
        /\ UNCHANGED <<mode, try, base, pred, ep, got, lost, late, board, queues, posts, jobs, ops>>
    BY DEF Save, run, queues
  <1>2. Working /\ Ground /\ Together /\ mode \in {"setup", "rotate"}
    BY <1>1, RunIsWorking DEF Ground
  <1>3. posts = {} /\ Anchored
    BY <1>1, <1>2 DEF Together
  <1>4. /\ meta = MyDeal /\ epoch = MyDeal.epoch /\ shown = chain
        /\ chain = [ver |-> MyDeal.ver, rec |-> MyDeal.seed]
        /\ OpsUpTo(MyDeal.ver) /\ jobs = {} /\ MyDeal.ver = NewVer /\ NewVer \in Nat
    BY <1>1, <1>2, <1>3, SettledDeal, NewIsNew DEF Inv
  <1>5. CASE mode = "setup"
    <2>1. End("ok") /\ good' = MyDeal /\ files = {}
      BY <1>1, <1>5 DEF Save, Inv, RunInv
    <2>2. NoFileAfter(good.ver)'
      BY <1>1, <1>4, <2>1 DEF NoFileAfter
    <2>3. Settled'
      BY <1>1, <1>3, <1>4, <2>1, <2>2 DEF Settled, OpsUpTo, board, queues
    <2> QED
      BY <1>1, <2>1, <2>3 DEF Calm, Resting, End
  <1>6. CASE mode = "rotate"
    <2>1. GoTo("compare") /\ good' = good
      BY <1>1, <1>6 DEF Save
    <2>2. NewVer' = NewVer /\ OpsUpTo(NewVer)'
      BY <1>1, <1>2, SameStage DEF Ground, OpsUpTo
    <2>3. NoFileAfter(NewVer)'
      <3>1. \A f \in files : f.ver <= NewVer
        <4>1. good \in files /\ NewVer = good.ver + 1 /\ NoFileAfter(good.ver)
          BY <1>1, <1>2, <1>6, NewIsNew DEF Ground, Inv
        <4>2. \A f \in files : f.ver \in Nat
          BY DEF Inv, TypeOK, Deal
        <4> QED
          BY <4>1, <4>2 DEF NoFileAfter
      <3>2. \A f \in files' : f.ver <= NewVer
        BY <1>1, <1>4, <3>1
      <3> QED
        BY <2>2, <3>2 DEF NoFileAfter
    <2>4. Ground'
      BY <1>1, <1>2, <1>6, <2>1, <2>2, <2>3 DEF Ground, GoTo, Parallel
    <2>5. Together'
      BY <1>1, <1>3, <2>1, SameStage DEF Together, GoTo
    <2> QED
      BY <1>1, <2>1, <2>4, <2>5 DEF Calm, Working, GoTo
  <1> QED
    BY <1>2, <1>5, <1>6

LEMMA CalmCompare ==
    ASSUME Inv, KeepInv, Calm, Compare
    PROVE  Calm'
  <1>1. /\ pc = "compare"
        /\ UNCHANGED <<mode, try, base, pred, ep, got, files, lost, late, board, queues>>
    BY DEF Compare, run
  <1>2. Working /\ Ground /\ Together /\ mode = "rotate"
    BY <1>1, RunIsWorking DEF Ground, Inv, RunInv
  <1>3. posts = {} /\ Anchored
    BY <1>1, <1>2 DEF Together
  <1>4. OwnLeaf
    BY <1>3 DEF Anchored, ShownBoard, Own, OwnLeaf
  <1>5. End("ok") /\ good' = MyDeal
    BY <1>4 DEF Compare
  <1>6. MyDeal \in files
    BY <1>1 DEF KeepInv, ShareInv
  <1>7. /\ meta = MyDeal /\ epoch = MyDeal.epoch /\ shown = chain
        /\ chain = [ver |-> MyDeal.ver, rec |-> MyDeal.seed]
        /\ OpsUpTo(MyDeal.ver) /\ jobs = {} /\ MyDeal.ver = NewVer
    BY <1>1, <1>2, <1>3, SettledDeal
  <1>8. NoFileAfter(good.ver)'
    BY <1>1, <1>2, <1>5, <1>7 DEF NoFileAfter, Ground
  <1>9. Settled'
    BY <1>1, <1>3, <1>5, <1>6, <1>7, <1>8 DEF Settled, OpsUpTo, board, queues
  <1> QED
    BY <1>1, <1>5, <1>9 DEF Calm, Resting, End

-----------------------------------------------------------------------------
(* The theorem *)

LEMMA CalmStep == Inv /\ KeepInv /\ CalmInv /\ [Next]_vars => CalmInv'
  <1> SUFFICES ASSUME Inv, KeepInv, CalmInv, [Next]_vars, faults' = 0
               PROVE  Calm'
    BY DEF CalmInv
  <1> USE DEF Inv
  <1>1. CASE Next
    <2>1. Calm /\ ~Fault
      BY <1>1, FaultCounted DEF CalmInv
    <2>2. ~Misfortune
      BY <1>1, <2>1, NothingGoesWrong
    <2>3. CASE Operator
      BY <2>1, <2>3, CalmOperator
    <2>4. CASE ServiceStep
      BY <2>1, <2>4, CalmService
    <2>5. CASE ClientStep
      BY <2>1, <2>5, CalmFetch, CalmRecovered, CalmPhases, CalmNode, CalmMeta, CalmSave, CalmCompare
         DEF ClientStep
    <2> QED
      BY <1>1, <2>2, <2>3, <2>4, <2>5 DEF Next
  <1>2. CASE UNCHANGED vars
    <2> USE <1>2 DEF vars, run, control, disk
    <2>1. Calm
      BY DEF CalmInv
    <2>2. /\ UNCHANGED <<mode, try, base, pred, ep, pc, task, exit, answer, files, good, lost, late,
                         got, board, queues, posts, jobs, ops, chain, shown, epoch, meta>>
      BY DEF board, queues
    <2>3. Settled' = Settled /\ Unused' = Unused
      BY <2>2 DEF Settled, Unused, NoFileAfter, OpsUpTo
    <2>4. Ground' = Ground /\ Together' = Together
      <3>1. NewVer' = NewVer
        BY <2>2, SameStage
      <3>2. Ground' = Ground
        BY <2>2, <3>1 DEF Ground, OpsUpTo, NoFileAfter, GotSeed
      <3>3. Together' = Together
        BY <2>2, SameStage DEF Together
      <3> QED
        BY <3>2, <3>3
    <2> QED
      BY <2>1, <2>2, <2>3, <2>4 DEF Calm, Resting, Fetching, Working, GotSeed
  <1> QED
    BY <1>1, <1>2

\* FailsOnlyByMisfortune of TtssFlow: as long as nothing went wrong, no run
\* with the file of the last good run, and no first run, fails.  No answer of
\* the service, no epoch and no share the run finds is other than expected.
THEOREM FailsByMisfortune == Spec => []FailsOnlyByMisfortune
  <1>1. Spec => []KeepInv
    BY KeepInit, KeepStep, Invariance, PTL DEF Spec
  <1>2. Spec => []CalmInv
    BY <1>1, CalmInit, CalmStep, Invariance, PTL DEF Spec
  <1>3. CalmInv => FailsOnlyByMisfortune
    BY DEF CalmInv, FailsOnlyByMisfortune, Calm, Unused, Resting, Fetching, Working, Ground
  <1> QED
    BY <1>2, <1>3, PTL
=============================================================================
