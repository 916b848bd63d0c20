--------------------------- MODULE TtssFlowProofs ---------------------------
(***************************************************************************)
(* Proofs about the set-up and rotation flows, for every committee, every  *)
(* threshold, any number of runs and any number of misfortunes.            *)
(***************************************************************************)
EXTENDS TtssFlow, FiniteSetTheorems, TLAPS

-----------------------------------------------------------------------------
(* The invariant *)

\* The deal an envelope belongs to.
DealOf(e) == [ver |-> e.ver, epoch |-> e.epoch, seed |-> e.seed]

\* The phases from the first share handed out until the file is written.
Dealing == pc \in {"distribute", "verify", "meta", "metapost", "metawait", "validate", "save"}

\* Where a deal may be known outside the files: at a node, in a request that
\* is still under way, in a request for its anchor, with the running client.
AtNodes == UNION {{DealOf(e) : e \in shares[g]} : g \in Nodes}
OnTheirWay == {m.deal : m \in {n \in late : n.kind = "distribute"}}
Announced == {m.deal : m \in {n \in posts \cup jobs : n.kind \in {"meta", "metarotate"}}}
InHand == IF Dealing THEN {MyDeal} ELSE {}

\* The deals that were made and for which no file was written (yet, or ever).
Loose == (AtNodes \cup OnTheirWay \cup Announced \cup InHand) \ files

\* No file is newer than version v.
NoFileAfter(v) == \A f \in files : f.ver <= v

\* What a run knows, by its phase.
RunInv ==
    /\ pc # "idle" => try \in Seeds
    /\ pc # "idle" /\ mode = "setup" =>
           files = {} /\ pc \notin {"fetch", "invalidate", "validate", "compare"}
    /\ pc # "idle" /\ mode # "setup" => base \in files /\ pc # "check"
    /\ mode = "recover" => pc \in {"idle", "fetch"}

\* Files, the board and the requests for rotations.
VersionInv ==
    /\ \A f, h \in files : f.ver = h.ver => f = h
    /\ chain.ver > 0 => \E f \in files : chain.ver <= f.ver + 1
    /\ \A m \in posts \cup jobs : m.kind = "rotate" => \E f \in files : m.deal.ver = f.ver + 1
    /\ shown.ver <= chain.ver
    /\ shown.ver = chain.ver => shown = chain

\* There is at most one loose deal, of the version on the board and newer
\* than every file.  Nobody stores it once a file is written; before the
\* first file it is the deal of the key on the board.
LooseInv ==
    /\ \A d \in Loose : d.ver = chain.ver /\ \A f \in files : f.ver < d.ver
    /\ \A c, d \in Loose : c = d
    /\ Dealing => MyDeal \notin files
    /\ \A m \in late : m.kind = "distribute" => m.deal \notin files
    /\ files = {} => \A d \in Loose :
           /\ d.seed = chain.rec
           /\ d.seed <= try
           /\ pc # "idle" /\ ~Dealing => d.seed < try

\* While a node would serve a share of a file's deal, nothing is loose and no
\* file is newer.
ActiveInv ==
    \A g \in Nodes : \A e \in shares[g] :
        e.active /\ DealOf(e) \in files => Loose = {} /\ NoFileAfter(e.ver)

\* What the phases of a rotation rely on.
RotateInv ==
    /\ pc = "fetch" => \A e \in got :
           /\ HasKey(e, base.ver, base.epoch)
           /\ DealOf(e) \in files => Loose = {} /\ NoFileAfter(e.ver)
    /\ mode = "rotate" /\ pc \in {"post", "wait", "invalidate"} =>
           Loose = {} /\ NoFileAfter(base.ver)
    /\ pc = "invalidate" =>
           /\ chain.ver = base.ver + 1
           /\ \A g \in Nodes : task[g] = "ok" => \A e \in shares[g] : ~e.active
    /\ pc = "distribute" => \A m \in late : m.kind = "distribute" => task[m.node] = "failed"
    /\ pc \in {"verify", "meta", "metapost", "metawait", "validate", "save"} =>
           \A m \in late : m.kind # "distribute"

Inv == TypeOK /\ RunInv /\ VersionInv /\ LooseInv /\ ActiveInv /\ RotateInv

-----------------------------------------------------------------------------
(* What the handlers of a node do *)

\* /setShareEnvelope leaves the envelope that it was sent, and takes away at
\* most one with the same version and epoch.
LEMMA Stores ==
    ASSUME StoreTypeOK, NEW g \in Nodes, NEW d \in Deal, SetShareEnvelope(g, d)
    PROVE  /\ StoreTypeOK'
           /\ \A h \in Nodes \ {g} : shares'[h] = shares[h]
           /\ \A e \in shares'[g] : e \in shares[g] \/ e = ActiveEnvelope(d)
           /\ ActiveEnvelope(d) \in shares'[g]
           /\ \A e \in shares[g] : ~HasKey(e, d.ver, d.epoch) => e \in shares'[g]
  <1>1. ActiveEnvelope(d) \in Envelope
    BY DEF ActiveEnvelope, Envelope, Deal
  <1> QED
    BY <1>1 DEF SetShareEnvelope, StoreTypeOK, Stored

\* /invalidateShares changes the flag of the envelopes with its key and
\* nothing else.
LEMMA Invalidates ==
    ASSUME StoreTypeOK, NEW g \in Nodes, NEW ver, NEW ep0,
           InvalidateShares(g, ver, ep0)
    PROVE  /\ StoreTypeOK'
           /\ \A h \in Nodes \ {g} : shares'[h] = shares[h]
           /\ \A e \in shares'[g] : \E f \in shares[g] : DealOf(f) = DealOf(e)
           /\ \A e \in shares'[g] : e.active => e \in shares[g] /\ ~HasKey(e, ver, ep0)
           /\ \A e \in shares[g] : ~HasKey(e, ver, ep0) => e \in shares'[g]
  <1> DEFINE Off(e) == IF HasKey(e, ver, ep0) THEN [e EXCEPT !.active = FALSE] ELSE e
  <1>1. shares' = [shares EXCEPT ![g] = {Off(e) : e \in shares[g]}]
    BY DEF InvalidateShares
  <1>2. shares[g] \subseteq Envelope
    BY DEF StoreTypeOK
  <1>3. \A e \in Envelope :
            /\ Off(e) \in Envelope
            /\ DealOf(Off(e)) = DealOf(e)
            /\ HasKey(e, ver, ep0) => ~Off(e).active
            /\ ~HasKey(e, ver, ep0) => Off(e) = e
    BY DEF Envelope, DealOf, HasKey
  <1> HIDE DEF Off
  <1>4. shares'[g] = {Off(e) : e \in shares[g]} /\ \A h \in Nodes \ {g} : shares'[h] = shares[h]
    BY <1>1 DEF StoreTypeOK
  <1>5. StoreTypeOK'
    BY <1>1, <1>2, <1>3 DEF StoreTypeOK
  <1>6. \A e \in shares'[g] : \E f \in shares[g] : e = Off(f) /\ f \in Envelope
    BY <1>2, <1>4
  <1>7. \A e \in shares[g] : ~HasKey(e, ver, ep0) => e \in shares'[g]
    BY <1>2, <1>3, <1>4
  <1> QED
    BY <1>3, <1>4, <1>5, <1>6, <1>7

\* A restart empties one node.
LEMMA Restarts ==
    ASSUME StoreTypeOK, NEW g \in Nodes, RestartNode(g)
    PROVE  /\ StoreTypeOK'
           /\ shares'[g] = {}
           /\ \A h \in Nodes \ {g} : shares'[h] = shares[h]
  BY DEF RestartNode, StoreTypeOK

\* What a share belongs to.
LEMMA DealOfActive ==
    ASSUME NEW d \in Deal
    PROVE  DealOf(ActiveEnvelope(d)) = d /\ ActiveEnvelope(d).active
  BY DEF DealOf, ActiveEnvelope, Deal

-----------------------------------------------------------------------------
(* Types *)

LEMMA TypeInit == Init => TypeOK /\ RunInv
  BY FlowAssumption DEF Init, InitStore, TypeOK, StoreTypeOK, RunInv, Unregistered, Todo,
     Deal, Envelope

LEMMA OperatorTypes ==
    ASSUME TypeOK, RunInv, Operator
    PROVE  TypeOK' /\ RunInv'
  <1> USE FlowAssumption DEF TypeOK, RunInv, StoreTypeOK, Begin, Todo, disk, board
  <1>1. CASE StartSetup
    BY <1>1 DEF StartSetup, Post, Kinds, Deal
  <1>2. ASSUME NEW f \in files, StartFromFile("recover", f)
        PROVE  TypeOK' /\ RunInv'
    BY <1>2 DEF StartFromFile, Deal
  <1>3. ASSUME NEW f \in files, StartFromFile("rotate", f)
        PROVE  TypeOK' /\ RunInv'
    BY <1>3 DEF StartFromFile, Deal
  <1> QED
    BY <1>1, <1>2, <1>3 DEF Operator

\* The deal of a running set-up or rotation is a deal.
LEMMA MyDealType ==
    ASSUME TypeOK, RunInv, pc # "idle"
    PROVE  MyDeal \in Deal /\ NewVer \in Nat /\ (mode # "setup" => base \in Deal)
  BY FlowAssumption DEF TypeOK, RunInv, MyDeal, NewVer, Deal

\* A run that goes on to a phase of its mode, or throws.
LEMMA StepTypes ==
    ASSUME TypeOK, RunInv, pc # "idle",
           NEW p \in {"invalidate", "distribute", "verify", "meta", "metawait", "wait",
                      "validate", "save"},
           mode = "setup" => p \notin {"invalidate", "validate"},
           mode # "recover",
           Step(p) \/ Throw
    PROVE  TypeOK' /\ RunInv'
  <1> USE FlowAssumption DEF TypeOK, RunInv, StoreTypeOK, run, control, disk, board, queues, Todo
  <1>1. CASE Step(p)
    BY <1>1 DEF Step, GoTo
  <1>2. CASE Throw
    BY <1>2 DEF Throw, End
  <1> QED
    BY <1>1, <1>2

LEMMA ClientTypes ==
    ASSUME TypeOK, RunInv, ClientStep
    PROVE  TypeOK' /\ RunInv'
  <1> USE FlowAssumption DEF TypeOK, RunInv, run, control, disk, board, queues,
          GoTo, End, Step, Throw, Todo
  <1>1. CASE Recovered
    <2>1. CASE pc' = "idle"
      BY <1>1, <2>1 DEF Recovered, StoreTypeOK
    <2>2. CASE pc' = "post"
      BY <1>1, <2>2, MyDealType DEF Recovered, StoreTypeOK, Post, Kinds, Deal
    <2> QED
      BY <1>1, <2>1, <2>2 DEF Recovered
  <1>2. CASE PostAnswered
    BY <1>2 DEF PostAnswered, StoreTypeOK
  <1>3. CASE ReadySeen
    BY <1>3 DEF ReadySeen, StoreTypeOK
  <1>4. CASE CheckSetup
    BY <1>4 DEF CheckSetup, StoreTypeOK
  <1>5. CASE PhaseEnds
    <2>1. pc # "idle" /\ mode # "recover"
      BY <1>5 DEF PhaseEnds
    <2> HIDE DEF TypeOK, RunInv, Step, Throw
    <2>2. PICK p \in {"distribute", "verify", "meta"} : Step(p) \/ Throw
      <3>1. CASE Joined("distribute")
        BY <3>1, Zenon DEF Joined
      <3>2. CASE Joined("verify")
        BY <3>2, Zenon DEF Joined
      <3>3. CASE Joined("meta")
        BY <3>3, Zenon DEF Joined
      <3> QED
        BY <1>5, <3>1, <3>2, <3>3, Zenon DEF PhaseEnds
    <2> QED
      <3>1. p \in {"invalidate", "distribute", "verify", "meta", "metawait", "wait",
                   "validate", "save"} /\ p \notin {"invalidate", "validate"}
        OBVIOUS
      <3> QED
        BY <2>1, <2>2, <3>1, StepTypes, Zenon
  <1>6. CASE RegisterMeta
    <2>1. MyDeal \in Deal /\ try \in Seeds /\ MyDeal.seed = try
      BY <1>6, MyDealType DEF RegisterMeta, MyDeal
    <2>2. PICK k \in {"meta", "metarotate"} :
              \/ Step("metawait")
              \/ Post(k, MyDeal, try) /\ GoTo("metapost")
                 /\ UNCHANGED <<shares, run, got, disk, late, board, jobs, ops, faults>>
      <3>1. CASE mode = "setup"
        BY <1>6, <3>1 DEF RegisterMeta
      <3>2. CASE mode # "setup"
        BY <1>6, <3>2 DEF RegisterMeta
      <3> QED
        BY <3>1, <3>2
    <2>3. CASE Step("metawait")
      BY <1>6, <2>3 DEF RegisterMeta, StoreTypeOK
    <2>4. CASE ~Step("metawait")
      <3>1. [kind |-> k, by |-> MyDeal.seed, deal |-> MyDeal, old |-> try]
                \in [kind : Kinds, by : Seeds, deal : Deal, old : Seeds]
        BY <2>1 DEF Kinds
      <3> HIDE DEF Step
      <3>2. posts' \subseteq [kind : Kinds, by : Seeds, deal : Deal, old : Seeds]
        BY <2>2, <2>4, <3>1 DEF Post
      <3> QED
        BY <1>6, <2>2, <2>4, <3>2 DEF RegisterMeta, StoreTypeOK
    <2> QED
      BY <2>3, <2>4
  <1>7. CASE MetaSeen
    BY <1>7 DEF MetaSeen, StoreTypeOK
  <1>8. CASE Validated
    <2>1. mode = "rotate" /\ pc # "idle"
      BY <1>8 DEF Validated
    <2> HIDE DEF TypeOK, RunInv, Step, Throw
    <2>2. Step("save") \/ Throw
      BY <1>8, Zenon DEF Validated
    <2>3. mode # "setup" /\ mode # "recover"
      BY <2>1
    <2> QED
      BY <2>1, <2>2, <2>3, StepTypes, Zenon
  <1>9. CASE Save
    BY <1>9, MyDealType DEF Save, StoreTypeOK
  <1>10. CASE Compare
    BY <1>10, MyDealType DEF Compare, StoreTypeOK
  <1>11. ASSUME NEW g \in Nodes, FetchShare(g)
         PROVE  TypeOK' /\ RunInv'
    <2>1. Served(g, Wanted.ver, Wanted.epoch) \subseteq Envelope
      BY DEF Served, Stored, StoreTypeOK
    <2> QED
      BY <1>11, <2>1 DEF FetchShare, StoreTypeOK
  <1>12. ASSUME NEW g \in Nodes, NodeAnswers(g)
         PROVE  TypeOK' /\ RunInv'
    <2>1. StoreTypeOK'
      BY <1>12, Stores, Invalidates, MyDealType DEF NodeAnswers, Handled, StoreTypeOK
    <2>2. AnswerOf(g) \in {"ok", "failed"}
      BY DEF AnswerOf
    <2> QED
      BY <1>12, <2>1, <2>2 DEF NodeAnswers
  <1> QED
    BY <1>1, <1>2, <1>3, <1>4, <1>5, <1>6, <1>7, <1>8, <1>9, <1>10, <1>11, <1>12
       DEF ClientStep

LEMMA ServiceTypes ==
    ASSUME TypeOK, RunInv, ServiceStep
    PROVE  TypeOK' /\ RunInv'
  <1> USE FlowAssumption DEF TypeOK, RunInv, StoreTypeOK, run, disk, board, queues, serviceFrame
  <1>1. \A m, a : a \in {"ok", "error"} /\ Reply(m, a) => answer' \in {"none", "ok", "error"}
    BY DEF Reply
  <1>2. ASSUME NEW m \in posts, TakePost(m)
        PROVE  TypeOK' /\ RunInv'
    BY <1>1, <1>2 DEF TakePost
  <1>3. ASSUME NEW j \in jobs, MineRegister(j)
        PROVE  TypeOK' /\ RunInv'
    <2>1. [j EXCEPT !.kind = "settle"] \in [kind : Kinds, by : Seeds, deal : Deal, old : Seeds]
      BY DEF Kinds
    <2>2. [ver |-> 0, rec |-> j.deal.seed] \in [ver : Nat \cup {-1}, rec : {0} \cup Seeds]
      BY DEF Deal
    <2> QED
      BY <1>1, <1>3, <2>1, <2>2 DEF MineRegister
  <1>4. ASSUME NEW j \in jobs, Settle(j)
        PROVE  TypeOK' /\ RunInv'
    <2>1. Deferred(j) \in [kind : Kinds, by : Seeds, deal : Deal, old : Seeds]
      BY DEF Kinds, Deferred
    <2> QED
      BY <1>1, <1>4, <2>1 DEF Settle, Fault
  <1>5. ASSUME NEW j \in jobs, MineRotate(j)
        PROVE  TypeOK' /\ RunInv'
    <2>1. [ver |-> j.deal.ver, rec |-> j.deal.seed] \in [ver : Nat \cup {-1}, rec : {0} \cup Seeds]
      BY DEF Deal
    <2> QED
      BY <1>1, <1>5, <2>1 DEF MineRotate
  <1>6. ASSUME NEW j \in jobs, MineMeta(j)
        PROVE  TypeOK' /\ RunInv'
    BY <1>1, <1>6 DEF MineMeta
  <1>7. ASSUME NEW j \in jobs, MetaReverts(j)
        PROVE  TypeOK' /\ RunInv'
    BY <1>1, <1>7 DEF MetaReverts, JobFails
  <1>8. CASE PushRoot
    BY <1>8 DEF PushRoot
  <1> QED
    BY <1>2, <1>3, <1>4, <1>5, <1>6, <1>7, <1>8 DEF ServiceStep

LEMMA MisfortuneTypes ==
    ASSUME TypeOK, RunInv, Misfortune
    PROVE  TypeOK' /\ RunInv'
  <1> USE FlowAssumption DEF TypeOK, RunInv, run, control, disk, board, queues,
          GoTo, End, Todo, Fault
  <1>1. CASE DeadlinePasses
    <2>1. faults' \in Nat
      BY <1>1 DEF DeadlinePasses
    <2> QED
      BY <1>1, <2>1 DEF DeadlinePasses, StoreTypeOK
  <1>2. CASE FetchFails
    BY <1>2 DEF FetchFails, StoreTypeOK
  <1>3. CASE ClientDies
    <2>1. \A g \in Nodes : pc \in {"invalidate", "distribute"} =>
              Message(g) \in [kind : {"invalidate", "distribute"}, node : Nodes, deal : Deal]
      BY MyDealType DEF Message
    <2>2. late' \subseteq [kind : {"invalidate", "distribute"}, node : Nodes, deal : Deal]
      BY <1>3, <2>1 DEF ClientDies
    <2> QED
      BY <1>3, <2>2 DEF ClientDies, StoreTypeOK
  <1>4. CASE OtherIdentity
    BY <1>4 DEF OtherIdentity, StoreTypeOK, serviceFrame
  <1>5. ASSUME NEW g \in Nodes, TaskFails(g)
        PROVE  TypeOK' /\ RunInv'
    <2>1. pc \in {"invalidate", "distribute"} =>
              Message(g) \in [kind : {"invalidate", "distribute"}, node : Nodes, deal : Deal]
      BY MyDealType DEF Message
    <2>2. late' \subseteq [kind : {"invalidate", "distribute"}, node : Nodes, deal : Deal]
      BY <1>5, <2>1 DEF TaskFails, Parallel
    <2>3. StoreTypeOK'
      BY <1>5, Stores, Invalidates, MyDealType DEF TaskFails, Handled, Parallel, StoreTypeOK
    <2> QED
      BY <1>5, <2>2, <2>3 DEF TaskFails, Parallel
  <1>6. ASSUME NEW g \in Nodes, NodeRestarts(g)
        PROVE  TypeOK' /\ RunInv'
    BY <1>6, Restarts DEF NodeRestarts
  <1>7. ASSUME NEW m \in late, LateArrives(m)
        PROVE  TypeOK' /\ RunInv'
    <2>1. StoreTypeOK'
      BY <1>7, Stores, Invalidates DEF LateArrives
    <2> QED
      BY <1>7, <2>1 DEF LateArrives
  <1>8. ASSUME NEW m \in posts, PostLost(m)
        PROVE  TypeOK' /\ RunInv'
    BY <1>8 DEF PostLost, StoreTypeOK, serviceFrame
  <1>9. ASSUME NEW j \in jobs, TxFails(j)
        PROVE  TypeOK' /\ RunInv'
    BY <1>9 DEF TxFails, JobFails, Reply, StoreTypeOK, serviceFrame
  <1> QED
    BY <1>1, <1>2, <1>3, <1>4, <1>5, <1>6, <1>7, <1>8, <1>9 DEF Misfortune

LEMMA TypeStep == TypeOK /\ RunInv /\ [Next]_vars => TypeOK' /\ RunInv'
  <1> SUFFICES ASSUME TypeOK, RunInv, [Next]_vars
               PROVE  TypeOK' /\ RunInv'
    OBVIOUS
  <1>1. CASE UNCHANGED vars
    BY <1>1 DEF vars, run, control, disk, board, queues, TypeOK, StoreTypeOK, RunInv
  <1> QED
    BY <1>1, OperatorTypes, ClientTypes, ServiceTypes, MisfortuneTypes DEF Next

\* Every variable of the flows keeps its type, and a run its knowledge.
THEOREM TypeCorrect == Spec => [](TypeOK /\ RunInv)
  BY TypeInit, TypeStep, PTL DEF Spec

-----------------------------------------------------------------------------
(* What a step can change *)

\* The nodes and the requests that are under way to them.
LEMMA NodeView ==
    ASSUME Next
    PROVE  \/ UNCHANGED <<shares, late>>
           \/ ClientDies
           \/ \E g \in Nodes : NodeAnswers(g) \/ TaskFails(g) \/ NodeRestarts(g)
           \/ \E m \in late : LateArrives(m)
  <1>1. CASE Operator
    BY <1>1 DEF Operator, StartSetup, StartFromFile, Begin
  <1>2. CASE ClientStep
    BY <1>2 DEF ClientStep, Recovered, PostAnswered, ReadySeen, CheckSetup, PhaseEnds,
       RegisterMeta, MetaSeen, Validated, Save, Compare, FetchShare, Joined, Step, Throw
  <1>3. CASE ServiceStep
    BY <1>3 DEF ServiceStep, TakePost, MineRegister, Settle, MineRotate, MineMeta,
       MetaReverts, JobFails, PushRoot, serviceFrame
  <1>4. CASE Misfortune
    BY <1>4 DEF Misfortune, DeadlinePasses, FetchFails, OtherIdentity, PostLost, TxFails,
       JobFails, serviceFrame
  <1> QED
    BY <1>1, <1>2, <1>3, <1>4 DEF Next

\* The record on the board.
LEMMA ChainView ==
    ASSUME Next
    PROVE  UNCHANGED chain \/ \E j \in jobs : MineRegister(j) \/ MineRotate(j)
  <1> USE DEF board
  <1>1. CASE Operator
    BY <1>1 DEF Operator, StartSetup, StartFromFile, Begin
  <1>2. CASE ClientStep
    BY <1>2 DEF ClientStep, Recovered, PostAnswered, ReadySeen, CheckSetup, PhaseEnds,
       RegisterMeta, MetaSeen, Validated, Save, Compare, FetchShare, NodeAnswers, Joined,
       Step, Throw
  <1>3. CASE ServiceStep
    BY <1>3 DEF ServiceStep, TakePost, Settle, MineMeta, MetaReverts, JobFails, PushRoot
  <1>4. CASE Misfortune
    BY <1>4 DEF Misfortune, DeadlinePasses, FetchFails, OtherIdentity, PostLost, TxFails,
       JobFails, ClientDies, TaskFails, NodeRestarts, LateArrives
  <1> QED
    BY <1>1, <1>2, <1>3, <1>4 DEF Next

\* The record in the tree whose root is on the board.
LEMMA ShownView ==
    ASSUME Next
    PROVE  shown' \in {shown, chain}
  <1> USE DEF board
  <1>1. CASE Operator
    BY <1>1 DEF Operator, StartSetup, StartFromFile, Begin
  <1>2. CASE ClientStep
    BY <1>2 DEF ClientStep, Recovered, PostAnswered, ReadySeen, CheckSetup, PhaseEnds,
       RegisterMeta, MetaSeen, Validated, Save, Compare, FetchShare, NodeAnswers, Joined,
       Step, Throw
  <1>3. CASE ServiceStep
    BY <1>3 DEF ServiceStep, TakePost, MineRegister, Settle, MineRotate, MineMeta,
       MetaReverts, JobFails, PushRoot
  <1>4. CASE Misfortune
    BY <1>4 DEF Misfortune, DeadlinePasses, FetchFails, OtherIdentity, PostLost, TxFails,
       JobFails, ClientDies, TaskFails, NodeRestarts, LateArrives
  <1> QED
    BY <1>1, <1>2, <1>3, <1>4 DEF Next

\* The files.
LEMMA FilesView ==
    ASSUME Next
    PROVE  UNCHANGED files \/ Save
  <1> USE DEF disk
  <1>1. CASE Operator
    BY <1>1 DEF Operator, StartSetup, StartFromFile, Begin
  <1>2. CASE ClientStep
    BY <1>2 DEF ClientStep, Recovered, PostAnswered, ReadySeen, CheckSetup, PhaseEnds,
       RegisterMeta, MetaSeen, Validated, Compare, FetchShare, NodeAnswers, Joined,
       Step, Throw
  <1>3. CASE ServiceStep
    BY <1>3 DEF ServiceStep, TakePost, MineRegister, Settle, MineRotate, MineMeta,
       MetaReverts, JobFails, PushRoot, serviceFrame
  <1>4. CASE Misfortune
    BY <1>4 DEF Misfortune, DeadlinePasses, FetchFails, OtherIdentity, PostLost, TxFails,
       JobFails, ClientDies, TaskFails, NodeRestarts, LateArrives, serviceFrame
  <1> QED
    BY <1>1, <1>2, <1>3, <1>4 DEF Next

\* Which request a new one comes from: a post of the client, or a
\* registration that was accepted.
LEMMA RequestView ==
    ASSUME Next, NEW m \in posts' \cup jobs'
    PROVE  \/ m \in posts \cup jobs
           \/ /\ StartSetup
              /\ m \in posts'
              /\ m.kind = "register"
              /\ m.deal = [ver |-> 0, epoch |-> epoch + 1, seed |-> try + 1]
           \/ /\ Recovered /\ Rebuilt(base.seed) /\ mode = "rotate"
              /\ m \in posts'
              /\ m.kind = "rotate" /\ m.deal = [ver |-> NewVer, epoch |-> pred, seed |-> try]
           \/ /\ RegisterMeta
              /\ m \in posts'
              /\ m.kind = IF mode = "setup" THEN "meta" ELSE "metarotate"
              /\ m.deal = MyDeal
           \/ \E j \in jobs : MineRegister(j) /\ m = [j EXCEPT !.kind = "settle"]
           \/ \E j \in jobs : Settle(j) /\ m = [j EXCEPT !.kind = "deferred"]
  <1> USE DEF queues
  <1>1. CASE StartSetup
    BY <1>1 DEF StartSetup, Begin, Post
  <1>2. CASE \E f \in files : StartFromFile("recover", f) \/ StartFromFile("rotate", f)
    BY <1>2 DEF StartFromFile, Begin
  <1>3. CASE Recovered
    BY <1>3 DEF Recovered, Post
  <1>4. CASE RegisterMeta
    BY <1>4 DEF RegisterMeta, Post, Step
  <1>5. CASE ClientStep /\ ~Recovered /\ ~RegisterMeta
    BY <1>5 DEF ClientStep, PostAnswered, ReadySeen, CheckSetup, PhaseEnds,
       MetaSeen, Validated, Save, Compare, FetchShare, NodeAnswers, Joined, Step, Throw
  <1>6. CASE \E j \in jobs : MineRegister(j)
    BY <1>6 DEF MineRegister
  <1>7. CASE \E j \in jobs : Settle(j)
    BY <1>7 DEF Settle, Deferred
  <1>8. CASE \/ \E j \in posts : TakePost(j)
             \/ \E j \in jobs : MineRotate(j) \/ MineMeta(j) \/ MetaReverts(j)
             \/ PushRoot
    BY <1>8 DEF TakePost, MineRotate, MineMeta, MetaReverts, JobFails, PushRoot
  <1>9. CASE Misfortune
    BY <1>9 DEF Misfortune, DeadlinePasses, FetchFails, OtherIdentity, PostLost, TxFails,
       JobFails, ClientDies, TaskFails, NodeRestarts, LateArrives
  <1> QED
    BY <1>1, <1>2, <1>3, <1>4, <1>5, <1>6, <1>7, <1>8, <1>9
       DEF Next, Operator, ClientStep, ServiceStep

\* The step that a run begins to hand shares out with.
Enters ==
    /\ pc' = "distribute"
    /\ \/ CheckSetup /\ OwnLeaf
       \/ pc = "invalidate" /\ \A g \in Nodes : task[g] = "ok"
    /\ task' = Todo
    /\ UNCHANGED <<shares, run, files, late, board, queues>>

\* Where the running client is, and what it knows.
LEMMA RunView ==
    ASSUME TypeOK, RunInv, Next
    PROVE  \/ Operator
           \/ /\ UNCHANGED <<mode, try, base>>
              /\ \/ UNCHANGED ep
                 \/ pc = "wait" /\ pc' = (IF mode = "setup" THEN "check" ELSE "invalidate")
              /\ \/ pc' = pc
                 \/ pc' = "idle"
                 \/ Enters
                 \/ pc = "fetch" /\ pc' = "post" /\ Recovered
                 \/ pc = "post" /\ pc' = "wait"
                 \/ ReadySeen
                 \/ Dealing /\ Dealing' /\ pc' # "distribute"
                 \/ Save
  <1> USE DEF run, control, Dealing, GoTo, End
  <1>1. CASE Recovered
    BY <1>1 DEF Recovered
  <1>2. CASE PostAnswered
    BY <1>2 DEF PostAnswered
  <1>3. CASE ReadySeen
    BY <1>3 DEF ReadySeen
  <1>4. CASE CheckSetup
    BY <1>4 DEF CheckSetup, Enters, Step, Throw, disk
  <1>5. CASE PhaseEnds
    <2>1. CASE pc = "invalidate" /\ Joined("distribute")
      BY <2>1 DEF Joined, Enters, Step, Throw, disk
    <2>2. CASE pc = "distribute" /\ Joined("verify")
      BY <2>2 DEF Joined, Step, Throw
    <2>3. CASE pc = "verify" /\ Joined("meta")
      BY <2>3 DEF Joined, Step, Throw
    <2> QED
      BY <1>5, <2>1, <2>2, <2>3 DEF PhaseEnds
  <1>6. CASE RegisterMeta
    BY <1>6 DEF RegisterMeta, Step
  <1>7. CASE MetaSeen
    BY <1>7 DEF MetaSeen, Step
  <1>8. CASE Validated
    BY <1>8 DEF Validated, Step, Throw
  <1>9. CASE Save
    BY <1>9 DEF Save
  <1>10. CASE Compare
    BY <1>10 DEF Compare
  <1>11. CASE \E g \in Nodes : FetchShare(g) \/ NodeAnswers(g)
    BY <1>11 DEF FetchShare, NodeAnswers
  <1>12. CASE ServiceStep
    BY <1>12 DEF ServiceStep, TakePost, MineRegister, Settle, MineRotate, MineMeta,
       MetaReverts, JobFails, PushRoot, serviceFrame
  <1>13. CASE Misfortune
    <2>1. CASE DeadlinePasses
      BY <2>1 DEF DeadlinePasses
    <2>2. CASE ~DeadlinePasses
      BY <1>13, <2>2 DEF Misfortune, FetchFails, OtherIdentity, PostLost, TxFails,
         JobFails, ClientDies, TaskFails, NodeRestarts, LateArrives, serviceFrame
    <2> QED
      BY <2>1, <2>2
  <1> QED
    BY <1>1, <1>2, <1>3, <1>4, <1>5, <1>6, <1>7, <1>8, <1>9, <1>10, <1>11, <1>12, <1>13
       DEF Next, ClientStep

LEMMA LooseMember ==
    ASSUME NEW d
    PROVE  d \in Loose <=>
               /\ d \notin files
               /\ \/ \E g \in Nodes : \E e \in shares[g] : d = DealOf(e)
                  \/ \E m \in late : m.kind = "distribute" /\ d = m.deal
                  \/ \E m \in posts \cup jobs : m.kind \in {"meta", "metarotate"} /\ d = m.deal
                  \/ Dealing /\ d = MyDeal
  BY DEF Loose, AtNodes, OnTheirWay, Announced, InHand

LEMMA LooseMemberNext ==
    ASSUME NEW d
    PROVE  d \in Loose' <=>
               /\ d \notin files'
               /\ \/ \E g \in Nodes : \E e \in shares'[g] : d = DealOf(e)
                  \/ \E m \in late' : m.kind = "distribute" /\ d = m.deal
                  \/ \E m \in posts' \cup jobs' : m.kind \in {"meta", "metarotate"} /\ d = m.deal
                  \/ Dealing' /\ d = MyDeal'
  BY DEF Loose, AtNodes, OnTheirWay, Announced, InHand

\* Every envelope that a node keeps belongs to a file or is loose, and so
\* does every request about shares.
LEMMA LooseOrFiled ==
    ASSUME TypeOK
    PROVE  /\ \A g \in Nodes : \A e \in shares[g] : DealOf(e) \in files \cup Loose
           /\ \A m \in late : m.kind = "distribute" => m.deal \in files \cup Loose
           /\ \A m \in posts \cup jobs :
                  m.kind \in {"meta", "metarotate"} => m.deal \in files \cup Loose
           /\ Dealing => MyDeal \in files \cup Loose
  BY LooseMember

LEMMA LooseDeals ==
    ASSUME TypeOK, RunInv
    PROVE  Loose \subseteq Deal
  <1>1. \A g \in Nodes : \A e \in shares[g] : DealOf(e) \in Deal
    BY DEF TypeOK, StoreTypeOK, Envelope, Deal, DealOf
  <1>2. Dealing => MyDeal \in Deal
    BY MyDealType DEF Dealing
  <1> QED
    BY <1>1, <1>2, LooseMember DEF TypeOK

-----------------------------------------------------------------------------
(* What a step makes known *)

\* A deal that node g may be asked to store in this state.
Storable(g, d) ==
    \/ pc = "distribute" /\ d = MyDeal
    \/ \E m \in late : m.kind = "distribute" /\ m.node = g /\ m.deal = d

\* A new envelope is one that was asked for, or one that became inactive.
LEMMA EnvelopeStep ==
    ASSUME TypeOK, RunInv, Next, NEW g \in Nodes, NEW e \in shares'[g]
    PROVE  \/ e \in shares[g]
           \/ ~e.active /\ \E f \in shares[g] : DealOf(f) = DealOf(e)
           \/ e.active /\ Storable(g, DealOf(e))
  <1> USE DEF TypeOK
  <1>0. ASSUME NEW h \in Nodes, pc # "idle", Handled(h)
        PROVE  \/ e \in shares[g]
               \/ ~e.active /\ \E f \in shares[g] : DealOf(f) = DealOf(e)
               \/ e.active /\ Storable(g, DealOf(e))
    <2>1. CASE pc = "invalidate"
      BY <1>0, <2>1, Invalidates DEF Handled
    <2>2. CASE pc = "distribute"
      <3>1. MyDeal \in Deal /\ SetShareEnvelope(h, MyDeal)
        BY <1>0, <2>2, MyDealType DEF Handled
      <3> QED
        BY <2>2, <3>1, Stores, DealOfActive DEF Storable
    <2>3. CASE pc \notin {"invalidate", "distribute"}
      BY <1>0, <2>3 DEF Handled
    <2> QED
      BY <2>1, <2>2, <2>3
  <1>1. CASE UNCHANGED shares
    BY <1>1
  <1>2. ASSUME NEW h \in Nodes, NodeAnswers(h) \/ TaskFails(h), ~UNCHANGED shares
        PROVE  \/ e \in shares[g]
               \/ ~e.active /\ \E f \in shares[g] : DealOf(f) = DealOf(e)
               \/ e.active /\ Storable(g, DealOf(e))
    BY <1>0, <1>2 DEF NodeAnswers, TaskFails, Parallel
  <1>3. ASSUME NEW h \in Nodes, NodeRestarts(h)
        PROVE  e \in shares[g]
    BY <1>3, Restarts DEF NodeRestarts
  <1>4. ASSUME NEW m \in late, LateArrives(m)
        PROVE  \/ e \in shares[g]
               \/ ~e.active /\ \E f \in shares[g] : DealOf(f) = DealOf(e)
               \/ e.active /\ Storable(g, DealOf(e))
    <2>0. m.node \in Nodes /\ m.deal \in Deal /\ m.kind \in {"invalidate", "distribute"}
      OBVIOUS
    <2>1. CASE m.kind = "invalidate"
      BY <1>4, <2>0, <2>1, Invalidates DEF LateArrives
    <2>2. CASE m.kind = "distribute"
      BY <1>4, <2>0, <2>2, Stores, DealOfActive DEF LateArrives, Storable
    <2> QED
      BY <2>0, <2>1, <2>2
  <1>5. CASE ClientDies
    BY <1>5 DEF ClientDies
  <1> QED
    BY <1>1, <1>2, <1>3, <1>4, <1>5, NodeView

\* A request stays under way only when its task failed or its run is over.
LEMMA LateStep ==
    ASSUME TypeOK, Next, NEW m \in late'
    PROVE  \/ m \in late
           \/ /\ m.kind = "invalidate" /\ pc = "invalidate" /\ m.deal = base
           \/ /\ m.kind = "distribute" /\ pc = "distribute" /\ m.deal = MyDeal
              /\ \/ pc' = "idle"
                 \/ UNCHANGED pc /\ task' = [task EXCEPT ![m.node] = "failed"]
  <1>1. CASE UNCHANGED late
    BY <1>1
  <1>2. CASE ClientDies
    <2>1. PICK S \in SUBSET {g \in Nodes : pc \in {"invalidate", "distribute"} /\ task[g] = "todo"} :
              late' = late \cup {Message(g) : g \in S}
      BY <1>2 DEF ClientDies
    <2>2. CASE m \notin late
      <3>1. PICK g \in S : m = Message(g)
        BY <2>1, <2>2
      <3> QED
        BY <1>2, <2>1, <3>1 DEF ClientDies, Message, End
    <2> QED
      BY <2>2
  <1>3. ASSUME NEW g \in Nodes, TaskFails(g)
        PROVE  \/ m \in late
               \/ /\ m.kind = "invalidate" /\ pc = "invalidate" /\ m.deal = base
               \/ /\ m.kind = "distribute" /\ pc = "distribute" /\ m.deal = MyDeal
                  /\ UNCHANGED pc /\ task' = [task EXCEPT ![m.node] = "failed"]
    <2>1. CASE m \notin late
      <3>1. late' = late \cup {Message(g)} /\ pc # "verify" /\ pc \in Parallel
        BY <1>3, <2>1 DEF TaskFails
      <3>2. m = Message(g)
        BY <2>1, <3>1
      <3> QED
        BY <1>3, <3>1, <3>2 DEF TaskFails, Message, Parallel
    <2> QED
      BY <2>1
  <1>4. ASSUME NEW g \in Nodes, NodeAnswers(g) \/ NodeRestarts(g)
        PROVE  m \in late
    BY <1>4 DEF NodeAnswers, NodeRestarts, disk
  <1>5. ASSUME NEW n \in late, LateArrives(n)
        PROVE  m \in late
    BY <1>5 DEF LateArrives
  <1> QED
    BY <1>1, <1>2, <1>3, <1>4, <1>5, NodeView

\* Only a run that begins to hand shares out makes a deal loose.
LEMMA LooseShrinks ==
    ASSUME TypeOK, RunInv, Next, ~Enters
    PROVE  /\ Loose' \subseteq Loose
           /\ Dealing' => Dealing /\ MyDeal' = MyDeal
           /\ files \subseteq files'
  <1>1. files \subseteq files'
    BY FilesView DEF Save
  <1>2. Dealing' => Dealing /\ MyDeal' = MyDeal
    <2>1. CASE Operator
      BY <2>1 DEF Operator, StartSetup, StartFromFile, Begin, Dealing
    <2>2. CASE Save
      BY <2>2 DEF Save, GoTo, End, Dealing
    <2> QED
      BY <2>1, <2>2, RunView DEF Dealing, MyDeal, NewVer, ReadySeen, GoTo
  <1>3. \A g \in Nodes : \A e \in shares'[g] :
            \/ \E f \in shares[g] : DealOf(e) = DealOf(f)
            \/ \E m \in late : m.kind = "distribute" /\ DealOf(e) = m.deal
            \/ Dealing /\ DealOf(e) = MyDeal
    BY EnvelopeStep DEF Storable, Dealing
  <1>4. \A m \in late' : m.kind = "distribute" => m \in late \/ (Dealing /\ m.deal = MyDeal)
    BY LateStep DEF Dealing
  <1>5. \A m \in posts' \cup jobs' : m.kind \in {"meta", "metarotate"} =>
            m \in posts \cup jobs \/ (Dealing /\ m.deal = MyDeal)
    <2>1. RegisterMeta => Dealing
      BY DEF RegisterMeta, Dealing
    <2>2. \A j \in jobs : /\ [j EXCEPT !.kind = "settle"].kind = "settle"
                        /\ [j EXCEPT !.kind = "deferred"].kind = "deferred"
      BY DEF TypeOK
    <2> QED
      BY <2>1, <2>2, RequestView
  <1>6. ASSUME NEW d \in Loose'
        PROVE  d \in Loose
    <2>1. d \notin files
      BY <1>1, <1>6, LooseMemberNext
    <2> QED
      BY <1>2, <1>3, <1>4, <1>5, <1>6, <2>1, LooseMember, LooseMemberNext
  <1> QED
    BY <1>1, <1>2, <1>6

\* It makes its own deal loose.
LEMMA LooseGrows ==
    ASSUME Enters
    PROVE  /\ MyDeal' = MyDeal
           /\ Loose' = (Loose \cup {MyDeal}) \ files
  <1>1. MyDeal' = MyDeal /\ Dealing' /\ ~Dealing
    BY DEF Enters, CheckSetup, MyDeal, NewVer, run, Dealing
  <1> QED
    BY <1>1 DEF Loose, AtNodes, OnTheirWay, Announced, InHand, Enters, queues

-----------------------------------------------------------------------------
(* Tasks and fetched shares *)

\* In a phase that asks all nodes a task changes when its node answers or
\* fails to.
LEMMA TaskView ==
    ASSUME TypeOK, Next, pc \in Parallel, pc' = pc, NEW g \in Nodes
    PROVE  \/ task'[g] = task[g]
           \/ task'[g] = "failed"
           \/ NodeAnswers(g)
  <1> USE DEF TypeOK, Parallel, run, control, GoTo, End
  <1>1. CASE Operator
    BY <1>1 DEF Operator, StartSetup, StartFromFile, Begin
  <1>2. ASSUME NEW h \in Nodes, NodeAnswers(h) \/ TaskFails(h)
        PROVE  \/ task'[g] = task[g]
               \/ task'[g] = "failed"
               \/ NodeAnswers(g)
    <2>1. CASE h = g
      BY <1>2, <2>1 DEF TaskFails
    <2>2. CASE h # g
      BY <1>2, <2>2 DEF NodeAnswers, TaskFails
    <2> QED
      BY <2>1, <2>2
  <1>3. CASE ClientStep /\ \A h \in Nodes : ~NodeAnswers(h)
    BY <1>3 DEF ClientStep, Recovered, PostAnswered, ReadySeen, CheckSetup, PhaseEnds,
       RegisterMeta, MetaSeen, Validated, Save, Compare, FetchShare, Joined, Step, Throw
  <1>4. CASE ServiceStep
    BY <1>4 DEF ServiceStep, TakePost, MineRegister, Settle, MineRotate, MineMeta,
       MetaReverts, JobFails, PushRoot, serviceFrame
  <1>5. CASE Misfortune /\ \A h \in Nodes : ~TaskFails(h)
    BY <1>5 DEF Misfortune, DeadlinePasses, FetchFails, OtherIdentity, PostLost, TxFails,
       JobFails, ClientDies, NodeRestarts, LateArrives, serviceFrame
  <1> QED
    BY <1>1, <1>2, <1>3, <1>4, <1>5 DEF Next, Misfortune

\* The phase of handing out is left for the next one only when all is well.
LEMMA DistributedAll ==
    ASSUME Next, pc = "distribute", pc' \notin {"distribute", "idle"}
    PROVE  /\ pc' = "verify"
           /\ \A g \in Nodes : task[g] = "ok"
           /\ UNCHANGED <<shares, run, files, late, board, lost>>
  <1> USE DEF run, control, GoTo, End
  <1>1. CASE PhaseEnds
    BY <1>1 DEF PhaseEnds, Joined, Step, Throw, disk
  <1>2. CASE Operator
    BY <1>2 DEF Operator, StartSetup, StartFromFile, Begin
  <1>3. CASE ClientStep /\ ~PhaseEnds
    BY <1>3 DEF ClientStep, Recovered, PostAnswered, ReadySeen, CheckSetup, NodeAnswers,
       RegisterMeta, MetaSeen, Validated, Save, Compare, FetchShare, Step, Throw
  <1>4. CASE ServiceStep
    BY <1>4 DEF ServiceStep, TakePost, MineRegister, Settle, MineRotate, MineMeta,
       MetaReverts, JobFails, PushRoot, serviceFrame
  <1>5. CASE Misfortune
    BY <1>5 DEF Misfortune, DeadlinePasses, FetchFails, OtherIdentity, PostLost, TxFails,
       JobFails, ClientDies, TaskFails, NodeRestarts, LateArrives, serviceFrame
  <1> QED
    BY <1>1, <1>2, <1>3, <1>4, <1>5 DEF Next

\* Fetched are shares that a node serves, of the file's deal.
LEMMA GotView ==
    ASSUME TypeOK, RunInv, Next, pc' = "fetch"
    PROVE  \/ got' = {}
           \/ /\ pc = "fetch" /\ base' = base
              /\ \A e \in got' :
                     \/ e \in got
                     \/ /\ \E g \in Nodes : e \in shares[g]
                        /\ e.active /\ HasKey(e, base.ver, base.epoch)
  <1> USE DEF run, control, GoTo, End
  <1>1. CASE Operator
    BY <1>1 DEF Operator, StartSetup, StartFromFile, Begin
  <1>2. ASSUME NEW g \in Nodes, FetchShare(g)
        PROVE  /\ pc = "fetch" /\ base' = base
               /\ \A e \in got' :
                      \/ e \in got
                      \/ /\ \E h \in Nodes : e \in shares[h]
                         /\ e.active /\ HasKey(e, base.ver, base.epoch)
    <2>1. pc = "fetch" /\ base' = base
      BY <1>2 DEF FetchShare
    <2>2. got' \subseteq got \cup Served(g, base.ver, base.epoch)
      BY <1>2, <2>1 DEF FetchShare, Wanted
    <2> QED
      BY <2>1, <2>2 DEF Served, Stored
  <1>3. CASE ClientStep /\ \A g \in Nodes : ~FetchShare(g)
    BY <1>3 DEF ClientStep, Recovered, PostAnswered, ReadySeen, CheckSetup, PhaseEnds, Joined,
       RegisterMeta, MetaSeen, Validated, Save, Compare, NodeAnswers, Step, Throw
  <1>4. CASE ServiceStep
    BY <1>4 DEF ServiceStep, TakePost, MineRegister, Settle, MineRotate, MineMeta,
       MetaReverts, JobFails, PushRoot, serviceFrame
  <1>5. CASE Misfortune
    BY <1>5 DEF Misfortune, DeadlinePasses, FetchFails, OtherIdentity, PostLost, TxFails,
       JobFails, ClientDies, TaskFails, NodeRestarts, LateArrives, serviceFrame
  <1> QED
    BY <1>1, <1>2, <1>3, <1>4, <1>5 DEF Next

-----------------------------------------------------------------------------
(* The invariant is kept *)

\* When a run begins to hand shares out, nothing is left of any other deal
\* that could still be served or stored.
LEMMA ClearToDeal ==
    ASSUME Inv, Enters
    PROVE  /\ MyDeal \in Deal
           /\ Loose = {}
           /\ MyDeal.ver = chain.ver
           /\ \A f \in files : f.ver < MyDeal.ver
           /\ files = {} => chain.rec = try
           /\ \A g \in Nodes : \A e \in shares[g] : ~e.active
           /\ \A m \in late : m.kind # "distribute"
  <1>1. MyDeal \in Deal /\ NewVer \in Nat /\ MyDeal.ver = NewVer
    BY MyDealType DEF Inv, Enters, CheckSetup, MyDeal
  <1>2. CASE CheckSetup /\ OwnLeaf
    <2>1. mode = "setup" /\ files = {} /\ NewVer = 0
      BY <1>2 DEF CheckSetup, Inv, RunInv, NewVer
    <2>2. shown.ver = 0 /\ shown.rec = try
      BY <1>2, <2>1 DEF OwnLeaf
    <2>3. chain.ver \in Int /\ chain.ver <= 0 /\ 0 <= chain.ver
      BY <2>1, <2>2 DEF Inv, VersionInv, TypeOK
    <2>4. chain.ver = 0 /\ chain = shown
      BY <2>2, <2>3 DEF Inv, VersionInv
    <2>5. Loose = {}
      <3>1. pc = "check"
        BY <1>2 DEF CheckSetup
      <3>2. try \in Nat
        BY FlowAssumption DEF Inv, TypeOK
      <3>3. \A d \in Loose : d.seed = try /\ d.seed < try
        BY <2>1, <2>2, <2>4, <3>1 DEF Inv, LooseInv, Dealing
      <3> QED
        BY <3>2, <3>3
    <2> QED
      BY <1>1, <2>1, <2>2, <2>4, <2>5, LooseOrFiled DEF Inv
  <1>3. CASE pc = "invalidate" /\ \A g \in Nodes : task[g] = "ok"
    <2>1. mode = "rotate" /\ base \in files /\ NewVer = base.ver + 1
      BY <1>3 DEF Inv, RunInv, TypeOK, NewVer
    <2>2. Loose = {} /\ NoFileAfter(base.ver) /\ chain.ver = base.ver + 1
      BY <1>3, <2>1 DEF Inv, RotateInv
    <2>3. \A f \in files : f.ver \in Nat /\ f.ver < MyDeal.ver
      BY <1>1, <2>1, <2>2 DEF NoFileAfter, Inv, TypeOK, Deal
    <2>4. \A m \in late : m.kind # "distribute"
      BY <2>2, LooseOrFiled DEF Inv, LooseInv
    <2> QED
      BY <1>1, <1>3, <2>1, <2>2, <2>3, <2>4 DEF Inv, RotateInv
  <1> QED
    BY <1>2, <1>3 DEF Enters

\* When its file is written, a deal is the newest and no other is loose.
LEMMA CleanSave ==
    ASSUME Inv, Save
    PROVE  /\ MyDeal \in Deal
           /\ Loose = {MyDeal}
           /\ MyDeal.ver = chain.ver
           /\ \A f \in files : f.ver < MyDeal.ver
           /\ files' = files \cup {MyDeal}
           /\ UNCHANGED <<shares, late, posts, jobs, run, board>>
           /\ ~Dealing'
           /\ Loose' = {}
  <1>1. Dealing /\ pc # "idle"
    BY DEF Save, Dealing
  <1>2. MyDeal \in Deal /\ MyDeal \in Loose
    BY <1>1, MyDealType, LooseMember DEF Inv, LooseInv
  <1>3. Loose = {MyDeal} /\ MyDeal.ver = chain.ver /\ \A f \in files : f.ver < MyDeal.ver
    BY <1>2 DEF Inv, LooseInv
  <1>4. /\ files' = files \cup {MyDeal}
        /\ UNCHANGED <<shares, late, posts, jobs, run, board>>
        /\ ~Dealing'
    BY DEF Save, GoTo, End, queues, Dealing
  <1>5. ~Enters
    BY DEF Save, Enters, CheckSetup
  <1>6. Loose' = {}
    <2>1. Loose' \subseteq Loose
      BY <1>5, LooseShrinks DEF Inv, Next, ClientStep
    <2>2. MyDeal \notin Loose'
      BY <1>4, LooseMemberNext
    <2> QED
      BY <1>3, <2>1, <2>2
  <1> QED
    BY <1>2, <1>3, <1>4, <1>6

LEMMA VersionStep ==
    ASSUME Inv, Next, TypeOK'
    PROVE  VersionInv'
  <1> USE DEF VersionInv
  <1>1. \A f \in files' : f \in files \/ (Save /\ f = MyDeal)
    BY FilesView DEF Save
  <1>2. (\A f, h \in files : f.ver = h.ver => f = h)'
    BY <1>1, CleanSave DEF Inv, TypeOK, Deal
  <1>3. files \subseteq files'
    BY FilesView DEF Save
  <1>4. (\A m \in posts \cup jobs : m.kind = "rotate" => \E f \in files : m.deal.ver = f.ver + 1)'
    <2> SUFFICES ASSUME NEW m \in posts' \cup jobs', m.kind = "rotate"
                 PROVE  \E f \in files' : m.deal.ver = f.ver + 1
      OBVIOUS
    <2>1. CASE m \in posts \cup jobs
      BY <1>3, <2>1 DEF Inv
    <2>2. CASE m \notin posts \cup jobs
      <3>1. \A j \in jobs : /\ [j EXCEPT !.kind = "settle"].kind = "settle"
                            /\ [j EXCEPT !.kind = "deferred"].kind = "deferred"
        BY DEF Inv, TypeOK
      <3>2. ~(\E j \in jobs : \/ m = [j EXCEPT !.kind = "settle"]
                              \/ m = [j EXCEPT !.kind = "deferred"])
        BY <3>1
      <3>3. /\ Recovered /\ mode = "rotate"
            /\ m.deal = [ver |-> NewVer, epoch |-> pred, seed |-> try]
        BY <2>2, <3>2, RequestView
      <3>4. base \in files /\ NewVer = base.ver + 1
        BY <3>3 DEF Recovered, Inv, RunInv, NewVer
      <3>5. m.deal.ver = NewVer
        BY <3>3
      <3> QED
        BY <1>3, <3>4, <3>5
    <2> QED
      BY <2>1, <2>2
  <1>5. \/ UNCHANGED chain
        \/ chain.ver = -1 /\ chain'.ver = 0
        \/ chain'.ver = chain.ver + 1 /\ \E f \in files : chain'.ver = f.ver + 1
    <2>1. ASSUME NEW j \in jobs, MineRegister(j)
          PROVE  UNCHANGED chain \/ (chain.ver = -1 /\ chain'.ver = 0)
      BY <2>1 DEF MineRegister, Unregistered
    <2>2. ASSUME NEW j \in jobs, MineRotate(j)
          PROVE  chain'.ver = chain.ver + 1 /\ \E f \in files : chain'.ver = f.ver + 1
      BY <2>2 DEF MineRotate, Refused, Inv
    <2> QED
      BY <2>1, <2>2, ChainView
  <1>6. (chain.ver > 0 => \E f \in files : chain.ver <= f.ver + 1)'
    BY <1>3, <1>5 DEF Inv, TypeOK, Deal
  <1>7. (shown.ver <= chain.ver /\ (shown.ver = chain.ver => shown = chain))'
    <2>1. chain.ver \in Int /\ shown.ver \in Int /\ chain'.ver \in Int
      BY DEF Inv, TypeOK
    <2>2. CASE UNCHANGED chain
      BY <2>1, <2>2, ShownView DEF Inv
    <2>3. CASE ~UNCHANGED chain
      <3>1. chain'.ver > chain.ver
        BY <1>5, <2>1, <2>3
      <3> QED
        BY <2>1, <3>1, ShownView DEF Inv
    <2> QED
      BY <2>2, <2>3
  <1> QED
    BY <1>2, <1>4, <1>6, <1>7

\* The board moves on only when nothing is loose.
LEMMA BoardMoves ==
    ASSUME Inv, Next, ~UNCHANGED chain
    PROVE  /\ Loose = {}
           /\ ~Enters /\ ~Save
           /\ UNCHANGED <<shares, late, files, run, pc, task>>
           /\ chain'.ver = chain.ver + 1
  <1>1. \A d \in Loose : d.ver = chain.ver /\ d.ver \in Nat
    BY LooseDeals DEF Inv, LooseInv, Deal
  <1>2. ASSUME NEW j \in jobs, MineRegister(j)
        PROVE  Loose = {} /\ chain'.ver = chain.ver + 1
    BY <1>1, <1>2 DEF MineRegister, Unregistered
  <1>3. ASSUME NEW j \in jobs, MineRotate(j)
        PROVE  Loose = {} /\ chain'.ver = chain.ver + 1
    <2>1. j.kind = "rotate" /\ j.deal.ver = chain.ver + 1 /\ chain'.ver = j.deal.ver
      BY <1>3 DEF MineRotate, Refused
    <2>2. PICK f \in files : j.deal.ver = f.ver + 1
      BY <2>1 DEF Inv, VersionInv
    <2>3. f.ver \in Nat /\ chain.ver \in Int
      BY DEF Inv, TypeOK, Deal
    <2>4. ASSUME NEW d \in Loose PROVE FALSE
      BY <1>1, <2>1, <2>2, <2>3, <2>4 DEF Inv, LooseInv
    <2> QED
      BY <2>1, <2>4
  <1>4. \E j \in jobs : MineRegister(j) \/ MineRotate(j)
    BY ChainView
  <1>5. UNCHANGED <<shares, late, files, run, pc, task>>
    BY <1>4 DEF MineRegister, MineRotate, serviceFrame, disk
  <1>6. ~Enters /\ ~Save
    BY <1>4, <1>5 DEF Enters, CheckSetup, Save, End, GoTo, board
  <1> QED
    BY <1>2, <1>3, <1>4, <1>5, <1>6

LEMMA LooseStep ==
    ASSUME Inv, Next, TypeOK', RunInv'
    PROVE  LooseInv'
  <1> USE DEF Inv
  <1>1. CASE Enters
    <2>1. \A f \in files : f.ver < MyDeal.ver
      BY <1>1, ClearToDeal
    <2>2. UNCHANGED <<files, late, chain, try>>
      BY <1>1 DEF Enters, board, run
    <2>3. MyDeal \notin files
      BY <2>1 DEF TypeOK, Deal
    <2>a. MyDeal.ver = chain.ver /\ MyDeal \in Deal
      BY <1>1, ClearToDeal
    <2>b. Loose' = {MyDeal} /\ MyDeal' = MyDeal
      BY <1>1, <2>3, ClearToDeal, LooseGrows
    <2>c. Dealing'
      BY <1>1 DEF Enters, Dealing
    <2>4. \A m \in late : m.kind # "distribute"
      BY <1>1, ClearToDeal
    <2>5. files = {} => MyDeal.seed = chain.rec /\ MyDeal.seed <= try
      <3>1. MyDeal.seed = try /\ try \in Nat
        BY FlowAssumption DEF MyDeal, TypeOK
      <3> QED
        BY <1>1, <3>1, ClearToDeal
    <2> QED
      BY <2>1, <2>2, <2>3, <2>a, <2>b, <2>c, <2>4, <2>5 DEF LooseInv
  <1>2. CASE Save
    <2>1. Loose' = {} /\ ~Dealing' /\ files' = files \cup {MyDeal} /\ UNCHANGED late
      BY <1>2, CleanSave
    <2>2. \A m \in late : m.kind # "distribute"
      BY <1>2 DEF RotateInv, Save
    <2> QED
      BY <2>1, <2>2 DEF LooseInv
  <1>3. CASE ~Enters /\ ~Save
    <2>1. Loose' \subseteq Loose /\ (Dealing' => Dealing /\ MyDeal' = MyDeal) /\ UNCHANGED files
      BY <1>3, LooseShrinks, FilesView
    <2>2. Loose' # {} => UNCHANGED chain
      BY <2>1, BoardMoves
    <2>3. \A m \in late' : m.kind = "distribute" => m.deal \notin files
      BY LateStep DEF LooseInv, Dealing
    <2>4. ASSUME files = {}, NEW d \in Loose'
          PROVE  /\ d.seed <= try'
                 /\ pc' # "idle" /\ ~Dealing' => d.seed < try'
      <3>1. d \in Loose /\ d \in Deal /\ d.seed \in Nat /\ try \in Nat
        <4>1. d \in Loose /\ d \in Deal
          BY <2>1, <2>4, LooseDeals
        <4>2. Seeds \subseteq Nat
          BY FlowAssumption
        <4>3. d.seed \in Seeds
          BY <4>1 DEF Deal
        <4>4. try \in {0} \cup Seeds
          BY DEF TypeOK
        <4>5. d.seed \in Nat
          BY <4>2, <4>3
        <4>6. try \in Nat
          BY <4>2, <4>4
        <4> QED
          BY <4>1, <4>5, <4>6
      <3>2. d.seed <= try /\ (pc # "idle" /\ ~Dealing => d.seed < try)
        BY <2>4, <3>1 DEF LooseInv
      <3>3. CASE Operator
        <4>1. try' = try + 1
          BY <3>3 DEF Operator, StartSetup, StartFromFile, Begin
        <4> QED
          BY <3>1, <3>2, <4>1
      <3>4. CASE ~Operator
        <4>1. try' = try /\ (pc' # "idle" /\ ~Dealing' => pc # "idle" /\ ~Dealing)
          BY <1>3, <3>4, RunView DEF Dealing, ReadySeen
        <4> QED
          BY <3>2, <4>1
      <3> QED
        BY <3>3, <3>4
    <2> QED
      BY <2>1, <2>2, <2>3, <2>4 DEF LooseInv
  <1> QED
    BY <1>1, <1>2, <1>3

LEMMA ActiveStep ==
    ASSUME Inv, Next, TypeOK', RunInv'
    PROVE  ActiveInv'
  <1> USE DEF Inv
  <1> SUFFICES ASSUME NEW g \in Nodes, NEW e \in shares'[g], e.active, DealOf(e) \in files'
               PROVE  Loose' = {} /\ NoFileAfter(e.ver)'
    BY DEF ActiveInv
  <1>1. CASE Enters
    BY <1>1, ClearToDeal DEF Enters
  <1>2. CASE Save
    <2>1. /\ Loose = {MyDeal} /\ Loose' = {} /\ UNCHANGED shares
          /\ files' = files \cup {MyDeal} /\ \A f \in files : f.ver < MyDeal.ver
          /\ MyDeal \in Deal
      BY <1>2, CleanSave
    <2>2. DealOf(e) = MyDeal
      BY <2>1 DEF ActiveInv
    <2>3. e.ver = MyDeal.ver
      BY <2>2 DEF DealOf
    <2> QED
      BY <2>1, <2>3 DEF NoFileAfter, TypeOK, Deal
  <1>3. CASE ~Enters /\ ~Save
    <2>1. Loose' \subseteq Loose /\ UNCHANGED files
      BY <1>3, LooseShrinks, FilesView
    <2>2. e \in shares[g]
      <3>1. ~Storable(g, DealOf(e))
        BY <2>1 DEF Storable, LooseInv, Dealing
      <3> QED
        BY <3>1, EnvelopeStep
    <2> QED
      BY <2>1, <2>2 DEF ActiveInv, NoFileAfter
  <1> QED
    BY <1>1, <1>2, <1>3

\* While a rotation invalidates, whatever a node would serve has the key of
\* the share set that is given up.
LEMMA OnlyOldServed ==
    ASSUME Inv, pc = "invalidate",
           NEW g \in Nodes, NEW e \in shares[g], e.active
    PROVE  HasKey(e, base.ver, base.epoch)
  <1>1. mode = "rotate" /\ base \in files
    BY DEF Inv, RunInv, TypeOK
  <1>2. Loose = {} /\ NoFileAfter(base.ver)
    BY <1>1 DEF Inv, RotateInv
  <1>3. DealOf(e) \in files
    BY <1>2, LooseOrFiled DEF Inv
  <1>4. NoFileAfter(e.ver)
    BY <1>3 DEF Inv, ActiveInv
  <1>5. e.ver = DealOf(e).ver /\ e.epoch = DealOf(e).epoch
    BY DEF DealOf
  <1>6. base.ver \in Nat /\ DealOf(e).ver \in Nat
    BY <1>1, <1>3 DEF Inv, TypeOK, Deal
  <1>7. base.ver = DealOf(e).ver
    BY <1>1, <1>2, <1>3, <1>4, <1>5, <1>6 DEF NoFileAfter
  <1>8. base = DealOf(e)
    BY <1>1, <1>3, <1>7 DEF Inv, VersionInv
  <1> QED
    BY <1>5, <1>8 DEF HasKey

LEMMA FetchStep ==
    ASSUME Inv, Next, TypeOK', RunInv', pc' = "fetch", NEW e \in got'
    PROVE  /\ HasKey(e, base'.ver, base'.epoch)
           /\ DealOf(e) \in files' => Loose' = {} /\ NoFileAfter(e.ver)'
  <1>1. pc = "fetch" /\ base' = base
    BY GotView DEF Inv
  <1>2. ~Enters /\ ~Save
    BY <1>1 DEF Enters, Save
  <1>3. Loose' \subseteq Loose /\ UNCHANGED files
    BY <1>2, LooseShrinks, FilesView DEF Inv
  <1>4. HasKey(e, base.ver, base.epoch)
    BY <1>1, GotView DEF Inv, RotateInv
  <1>5. DealOf(e) \in files => Loose = {} /\ NoFileAfter(e.ver)
    BY <1>1, GotView DEF Inv, RotateInv, ActiveInv
  <1> QED
    BY <1>1, <1>3, <1>4, <1>5 DEF NoFileAfter

LEMMA RotateStep ==
    ASSUME Inv, Next, TypeOK', RunInv'
    PROVE  RotateInv'
  <1> USE DEF Inv
  <1>1. (pc = "fetch" => \A e \in got :
             /\ HasKey(e, base.ver, base.epoch)
             /\ DealOf(e) \in files => Loose = {} /\ NoFileAfter(e.ver))'
    BY FetchStep
  <1>2. ASSUME mode' = "rotate", pc' \in {"post", "wait", "invalidate"}
        PROVE  /\ Loose' = {} /\ NoFileAfter(base.ver)'
               /\ base' = base /\ mode = "rotate"
               /\ pc' = pc \/ pc = "fetch" \/ pc = "post" \/ pc = "wait"
               /\ Loose = {} /\ NoFileAfter(base.ver)
    <2>1. ~Enters /\ ~Save
      BY <1>2 DEF Enters, Save, GoTo, End
    <2>2. Loose' \subseteq Loose /\ UNCHANGED files
      BY <2>1, LooseShrinks, FilesView
    <2>3. ~Operator
      BY <1>2 DEF Operator, StartSetup, StartFromFile, Begin
    <2>4. base' = base /\ mode = "rotate"
      BY <1>2, <2>3, RunView
    <2>5. \/ pc \in {"post", "wait", "invalidate"} /\ (pc' = pc \/ pc = "post" \/ pc = "wait")
          \/ pc = "fetch" /\ Recovered /\ pc' = "post"
      BY <1>2, <2>1, <2>3, RunView DEF Dealing, ReadySeen
    <2>6. CASE pc = "fetch" /\ Recovered /\ pc' = "post"
      <3>1. Rebuilt(base.seed)
        BY <2>6 DEF Recovered, End
      <3>2. PICK e \in got : e.seed = base.seed
        BY <3>1 DEF Rebuilt
      <3>3. e.ver = base.ver /\ e.epoch = base.epoch
        BY <2>6, <3>2 DEF RotateInv, HasKey
      <3>4. base \in files /\ base \in Deal
        BY <2>6, <2>4 DEF RunInv, TypeOK
      <3>5. DealOf(e) = base
        BY <3>2, <3>3, <3>4 DEF DealOf, Deal
      <3>6. Loose = {} /\ NoFileAfter(base.ver)
        BY <2>6, <3>2, <3>3, <3>4, <3>5 DEF RotateInv
      <3> QED
        BY <2>2, <2>4, <2>6, <3>6 DEF NoFileAfter
    <2>7. CASE pc \in {"post", "wait", "invalidate"} /\ (pc' = pc \/ pc = "post" \/ pc = "wait")
      <3>1. Loose = {} /\ NoFileAfter(base.ver)
        BY <2>4, <2>7 DEF RotateInv
      <3> QED
        BY <2>2, <2>4, <2>7, <3>1 DEF NoFileAfter
    <2> QED
      BY <2>5, <2>6, <2>7
  <1>3. ASSUME pc' = "invalidate"
        PROVE  /\ chain'.ver = base'.ver + 1
               /\ \A g \in Nodes : task'[g] = "ok" => \A e \in shares'[g] : ~e.active
    <2>1. mode' = "rotate"
      BY <1>3 DEF RunInv, TypeOK
    <2>2. /\ Loose = {} /\ NoFileAfter(base.ver) /\ base' = base /\ mode = "rotate"
          /\ pc \in {"wait", "invalidate"}
      <3>1. ~Enters /\ ~Save /\ ~Operator
        BY <1>3 DEF Enters, Save, GoTo, End, Operator, StartSetup, StartFromFile, Begin
      <3>2. pc \in {"wait", "invalidate"}
        BY <1>3, <3>1, RunView DEF Dealing, ReadySeen
      <3> QED
        BY <1>2, <1>3, <2>1, <3>2
    <2>3. base \in files /\ base.ver \in Nat /\ NewVer = base.ver + 1
      BY <2>2 DEF RunInv, TypeOK, Deal, NewVer
    <2>4. \A f \in files : f.ver \in Nat /\ f.ver <= base.ver
      BY <2>2 DEF NoFileAfter, TypeOK, Deal
    <2>5. chain.ver \in Int /\ shown.ver \in Int
      BY DEF TypeOK
    <2>6. chain.ver <= base.ver + 1
      BY <2>3, <2>4, <2>5 DEF VersionInv
    <2>7. CASE pc = "wait"
      <3>1. ReadySeen
        BY <1>3, <2>7, RunView DEF Operator, StartSetup, StartFromFile, Begin, Enters, CheckSetup,
           Dealing, Save
      <3>2. shown.ver >= base.ver + 1
        BY <2>3, <3>1 DEF ReadySeen, Ready, ReadyFor
      <3>3. chain.ver = base.ver + 1
        BY <2>3, <2>5, <2>6, <3>2 DEF VersionInv
      <3>4. UNCHANGED chain /\ task' = Todo
        BY <3>1 DEF ReadySeen, board, GoTo
      <3> QED
        BY <2>2, <3>3, <3>4 DEF Todo
    <2>8. CASE pc = "invalidate"
      <3>1. chain.ver = base.ver + 1
        BY <2>8 DEF RotateInv
      <3>2. UNCHANGED chain
        <4>1. ASSUME NEW j \in jobs, MineRegister(j)
              PROVE  UNCHANGED chain
          BY <2>3, <3>1, <4>1 DEF MineRegister, Unregistered
        <4>2. ASSUME NEW j \in jobs, MineRotate(j)
              PROVE  FALSE
          <5>1. j.kind = "rotate" /\ j.deal.ver = chain.ver + 1
            BY <4>2 DEF MineRotate, Refused
          <5>2. PICK f \in files : j.deal.ver = f.ver + 1
            BY <5>1 DEF VersionInv
          <5> QED
            BY <2>3, <2>4, <2>5, <3>1, <5>1, <5>2
        <4> QED
          BY <4>1, <4>2, ChainView
      <3>3. ASSUME NEW g \in Nodes, task'[g] = "ok", NEW e \in shares'[g], e.active
            PROVE  FALSE
        <4>1. CASE NodeAnswers(g)
          <5>1. InvalidateShares(g, base.ver, base.epoch)
            BY <2>8, <4>1 DEF NodeAnswers, Handled
          <5>2. e \in shares[g] /\ ~HasKey(e, base.ver, base.epoch)
            BY <3>3, <5>1, Invalidates DEF TypeOK
          <5> QED
            BY <2>8, <3>3, <5>2, OnlyOldServed
        <4>2. CASE ~NodeAnswers(g)
          <5>1. task[g] = "ok"
            BY <1>3, <2>8, <3>3, <4>2, TaskView DEF Parallel
          <5>2. ~Storable(g, DealOf(e))
            BY <2>2, <2>8, LooseOrFiled DEF Storable, LooseInv
          <5>3. e \in shares[g]
            BY <3>3, <5>2, EnvelopeStep
          <5> QED
            BY <2>8, <3>3, <5>1, <5>3 DEF RotateInv
        <4> QED
          BY <4>1, <4>2
      <3> QED
        BY <2>2, <3>1, <3>2, <3>3
    <2> QED
      BY <2>2, <2>7, <2>8
  <1>4. ASSUME pc' = "distribute", NEW m \in late', m.kind = "distribute"
        PROVE  task'[m.node] = "failed"
    <2>1. CASE Enters
      BY <1>4, <2>1, ClearToDeal DEF Enters
    <2>2. CASE ~Enters
      <3>1. pc = "distribute"
        BY <1>4, <2>2, RunView DEF Operator, StartSetup, StartFromFile, Begin, ReadySeen,
           Save, GoTo, End
      <3>2. m.node \in Nodes
        BY DEF TypeOK
      <3>3. CASE m \in late
        <4>1. task[m.node] = "failed"
          BY <1>4, <3>1, <3>3 DEF RotateInv
        <4>2. ~NodeAnswers(m.node)
          BY <4>1 DEF NodeAnswers
        <4> QED
          BY <1>4, <3>1, <3>2, <4>1, <4>2, TaskView DEF Parallel
      <3>4. CASE m \notin late
        <4>1. task' = [task EXCEPT ![m.node] = "failed"]
          BY <1>4, <3>4, LateStep
        <4> QED
          BY <3>2, <4>1 DEF TypeOK
      <3> QED
        BY <3>3, <3>4
    <2> QED
      BY <2>1, <2>2
  <1>5. ASSUME pc' \in {"verify", "meta", "metapost", "metawait", "validate", "save"},
               NEW m \in late'
        PROVE  m.kind # "distribute"
    <2>1. pc \in {"distribute", "verify", "meta", "metapost", "metawait", "validate", "save"}
      BY <1>5, RunView DEF Operator, StartSetup, StartFromFile, Begin, Enters, Dealing,
         ReadySeen, Save, GoTo, End
    <2>2. CASE pc = "distribute"
      <3>1. late' = late /\ \A g \in Nodes : task[g] = "ok"
        BY <1>5, <2>2, DistributedAll
      <3>2. m.kind = "distribute" => task[m.node] = "failed" /\ m.node \in Nodes
        BY <2>2, <3>1 DEF RotateInv, TypeOK
      <3> QED
        BY <3>1, <3>2
    <2>3. CASE pc # "distribute"
      BY <1>5, <2>1, <2>3, LateStep DEF RotateInv
    <2> QED
      BY <2>2, <2>3
  <1> QED
    BY <1>1, <1>2, <1>3, <1>4, <1>5 DEF RotateInv

LEMMA InvInit == Init => Inv
  <1> SUFFICES ASSUME Init PROVE Inv
    OBVIOUS
  <1>1. TypeOK /\ RunInv
    BY TypeInit
  <1>2. Loose = {}
    <2>1. \A g \in Nodes : shares[g] = {}
      BY DEF Init, InitStore
    <2>2. ~Dealing /\ late = {} /\ posts = {} /\ jobs = {}
      BY DEF Init, Dealing
    <2> QED
      BY <2>1, <2>2, LooseMember
  <1>3. VersionInv
    BY DEF Init, VersionInv, Unregistered
  <1>4. \A g \in Nodes : shares[g] = {}
    BY DEF Init, InitStore
  <1> QED
    BY <1>1, <1>2, <1>3, <1>4 DEF Inv, LooseInv, ActiveInv, RotateInv, Init, Dealing

LEMMA InvStep == Inv /\ [Next]_vars => Inv'
  <1> SUFFICES ASSUME Inv, [Next]_vars
               PROVE  Inv'
    OBVIOUS
  <1>1. CASE Next
    BY <1>1, TypeStep, VersionStep, LooseStep, ActiveStep, RotateStep DEF Inv
  <1>2. CASE UNCHANGED vars
    <2> USE <1>2 DEF vars, run, control, disk, board, queues
    <2>1. Loose' = Loose /\ Dealing' = Dealing /\ MyDeal' = MyDeal
      BY DEF Loose, AtNodes, OnTheirWay, Announced, InHand, Dealing, MyDeal, NewVer
    <2>2. TypeOK' /\ RunInv'
      BY TypeStep DEF Inv
    <2>3. VersionInv'
      BY DEF Inv, VersionInv
    <2>4. LooseInv'
      BY <2>1 DEF Inv, LooseInv
    <2>5. ActiveInv'
      BY <2>1 DEF Inv, ActiveInv, NoFileAfter
    <2>6. RotateInv'
      BY <2>1 DEF Inv, RotateInv, NoFileAfter
    <2> QED
      BY <2>2, <2>3, <2>4, <2>5, <2>6 DEF Inv
  <1> QED
    BY <1>1, <1>2

\* The inductive invariant of the flows: at most one deal is loose at a time,
\* the newest one, and it is only made when no older share is served.
THEOREM Invariance == Spec => []Inv
  BY InvInit, InvStep, PTL DEF Spec

-----------------------------------------------------------------------------
(* What follows for custody *)

\* All shares that nodes would serve are of one deal.
LEMMA OneDealServed ==
    ASSUME Inv, NEW g \in Nodes, NEW h \in Nodes,
           NEW e \in shares[g], NEW f \in shares[h], e.active, f.active
    PROVE  DealOf(e) = DealOf(f)
  <1>1. DealOf(e) \in files \cup Loose /\ DealOf(f) \in files \cup Loose
    BY LooseOrFiled DEF Inv
  <1>2. CASE DealOf(e) \in Loose \/ DealOf(f) \in Loose
    BY <1>1, <1>2 DEF Inv, ActiveInv, LooseInv
  <1>3. CASE DealOf(e) \in files /\ DealOf(f) \in files
    <2>1. DealOf(e).ver = e.ver /\ DealOf(f).ver = f.ver
      BY DEF DealOf
    <2>2. e.ver \in Nat /\ f.ver \in Nat
      BY DEF Inv, TypeOK, StoreTypeOK, Envelope
    <2>3. e.ver <= f.ver /\ f.ver <= e.ver
      BY <1>3, <2>1 DEF Inv, ActiveInv, NoFileAfter
    <2>4. DealOf(e).ver = DealOf(f).ver
      BY <2>1, <2>2, <2>3
    <2> QED
      BY <1>3, <2>4 DEF Inv, VersionInv
  <1> QED
    BY <1>1, <1>2, <1>3

\* A seed in custody has a share at some node.
LEMMA CustodyIsServed ==
    ASSUME TypeOK, NEW d \in InCustody
    PROVE  d \in Deal /\ \E g \in Nodes : ActiveEnvelope(d) \in shares[g]
  <1>1. d \in Dealt /\ Cardinality(Custodians(d)) >= T
    BY DEF InCustody
  <1>2. d \in Deal
    <2>1. PICK g \in Nodes :
              d \in {[ver |-> e.ver, epoch |-> e.epoch, seed |-> e.seed] : e \in shares[g]}
      BY <1>1 DEF Dealt
    <2>2. PICK e \in shares[g] : d = [ver |-> e.ver, epoch |-> e.epoch, seed |-> e.seed]
      BY <2>1
    <2> QED
      BY <2>2 DEF TypeOK, StoreTypeOK, Envelope, Deal
  <1>3. Custodians(d) # {}
    BY <1>1, FS_EmptySet, FlowAssumption
  <1> QED
    BY <1>2, <1>3 DEF Custodians

\* At most one deal is in custody.
LEMMA CustodyUnique ==
    ASSUME Inv, NEW c \in InCustody, NEW d \in InCustody
    PROVE  c = d
  <1>1. PICK g \in Nodes : ActiveEnvelope(c) \in shares[g]
    BY CustodyIsServed DEF Inv
  <1>2. PICK h \in Nodes : ActiveEnvelope(d) \in shares[h]
    BY CustodyIsServed DEF Inv
  <1>3. c \in Deal /\ d \in Deal
    BY CustodyIsServed DEF Inv
  <1> QED
    BY <1>1, <1>2, <1>3, OneDealServed, DealOfActive

\* At any time at most one seed can be rebuilt from what the nodes serve.
THEOREM CustodyOfOne == Spec => []OneInCustody
  <1>1. Inv => OneInCustody
    <2> SUFFICES ASSUME Inv PROVE OneInCustody
      OBVIOUS
    <2>1. CASE InCustody = {}
      BY <2>1, FS_EmptySet DEF OneInCustody
    <2>2. CASE InCustody # {}
      <3>1. PICK d : InCustody = {d}
        BY <2>2, CustodyUnique
      <3> QED
        BY <3>1, FS_Singleton DEF OneInCustody
    <2> QED
      BY <2>1, <2>2
  <1> QED
    BY <1>1, Invariance, PTL

LEMMA SharesFit == Inv => NoMixedShares
  <1> SUFFICES ASSUME Inv,
                      NEW g \in Nodes, NEW h \in Nodes, NEW e \in shares[g], NEW f \in shares[h],
                      HasKey(e, f.ver, f.epoch)
               PROVE  e.seed = f.seed
    BY DEF NoMixedShares
  <1>1. DealOf(e) \in files \cup Loose /\ DealOf(f) \in files \cup Loose
    BY LooseOrFiled DEF Inv
  <1>2. /\ DealOf(e).ver = DealOf(f).ver /\ DealOf(f).ver \in Nat
        /\ DealOf(e).seed = e.seed /\ DealOf(f).seed = f.seed
    BY DEF DealOf, HasKey, Inv, TypeOK, StoreTypeOK, Envelope
  <1>3. DealOf(e) = DealOf(f)
    <2>1. CASE DealOf(e) \in files /\ DealOf(f) \in files
      BY <1>2, <2>1 DEF Inv, VersionInv
    <2>2. CASE DealOf(e) \in Loose /\ DealOf(f) \in Loose
      BY <2>2 DEF Inv, LooseInv
    <2>3. CASE \/ DealOf(e) \in Loose /\ DealOf(f) \in files
               \/ DealOf(f) \in Loose /\ DealOf(e) \in files
      BY <1>2, <2>3 DEF Inv, LooseInv
    <2> QED
      BY <1>1, <2>1, <2>2, <2>3
  <1> QED
    BY <1>2, <1>3

\* Shares under one version and epoch are always of one deal, at all nodes.
THEOREM SharesFitTogether == Spec => []NoMixedShares
  BY SharesFit, Invariance, PTL

-----------------------------------------------------------------------------
(* The refinement *)

\* A deal that comes into custody is loose, of the version on the board, and
\* nothing was in custody before.
LEMMA CustodyGained ==
    ASSUME Inv, Next, TypeOK', NEW d \in InCustody', d \notin InCustody
    PROVE  d \in Deal /\ d.ver = chain.ver /\ InCustody = {}
  <1>1. d \in Dealt' /\ Cardinality(Custodians(d)') >= T
    BY DEF InCustody, Custodians
  <1>2. d \in Deal
    <2>1. PICK g \in Nodes :
              d \in {[ver |-> e.ver, epoch |-> e.epoch, seed |-> e.seed] : e \in shares'[g]}
      BY <1>1 DEF Dealt
    <2>2. PICK e \in shares'[g] : d = [ver |-> e.ver, epoch |-> e.epoch, seed |-> e.seed]
      BY <2>1
    <2> QED
      BY <2>2 DEF TypeOK, StoreTypeOK, Envelope, Deal
  <1>3. PICK g \in Nodes : ActiveEnvelope(d) \in shares'[g] /\ ActiveEnvelope(d) \notin shares[g]
    <2> SUFFICES ASSUME Custodians(d)' \subseteq Custodians(d)
                 PROVE  FALSE
      BY DEF Custodians
    <2>1. IsFiniteSet(Custodians(d)) /\ Custodians(d)' \subseteq Nodes
      BY FS_Subset, FlowAssumption DEF Custodians
    <2>2. /\ Cardinality(Custodians(d)') <= Cardinality(Custodians(d))
          /\ Cardinality(Custodians(d)) \in Nat /\ IsFiniteSet(Custodians(d)')
      BY <2>1, FS_Subset, FS_CardinalityType
    <2>3. Cardinality(Custodians(d)') \in Nat
      BY <2>2, FS_CardinalityType
    <2>4. Cardinality(Custodians(d)) >= T /\ T \in Nat \ {0}
      BY <1>1, <2>2, <2>3, FlowAssumption
    <2>5. PICK h \in Nodes : ActiveEnvelope(d) \in shares[h]
      <3>1. Custodians(d) # {}
        BY <2>4, FS_EmptySet
      <3> QED
        BY <3>1 DEF Custodians
    <2>6. d \in Dealt
      <3> DEFINE D(e) == [ver |-> e.ver, epoch |-> e.epoch, seed |-> e.seed]
      <3>1. D(ActiveEnvelope(d)) = d
        BY <1>2 DEF ActiveEnvelope, Deal
      <3>2. d \in {D(e) : e \in shares[h]}
        BY <2>5, <3>1
      <3> QED
        BY <3>2 DEF Dealt
    <2> QED
      BY <2>4, <2>6 DEF InCustody
  <1>4. Storable(g, d)
    BY <1>2, <1>3, EnvelopeStep, DealOfActive DEF Inv
  <1>5. d \in Loose
    BY <1>4, LooseOrFiled DEF Inv, LooseInv, Storable, Dealing
  <1>6. InCustody = {}
    <2> SUFFICES ASSUME NEW c \in InCustody PROVE FALSE
      OBVIOUS
    <2>1. PICK h \in Nodes : ActiveEnvelope(c) \in shares[h] /\ c \in Deal
      BY CustodyIsServed DEF Inv
    <2>2. c \in files \cup Loose
      BY <2>1, LooseOrFiled, DealOfActive DEF Inv
    <2>3. c \in Loose
      BY <1>5, <2>1, <2>2, DealOfActive DEF Inv, ActiveInv
    <2> QED
      BY <1>5, <2>3 DEF Inv, LooseInv
  <1> QED
    BY <1>2, <1>5, <1>6 DEF Inv, LooseInv

\* CustodyUnique, of the state after a step.
LEMMA CustodyUniqueNext == Inv' => (\A c, d \in InCustody : c = d)'
  <1>1. Inv => \A c, d \in InCustody : c = d
    BY CustodyUnique
  <1> QED
    BY <1>1, PTL

\* What the refinement takes for custody.
InTheirCustody == IF InCustody = {} THEN NoDeal ELSE CHOOSE d \in InCustody : TRUE

LEMMA CustodyStep ==
    ASSUME Inv, Inv', Next
    PROVE  Custody!Next \/ UNCHANGED <<chain.ver, InTheirCustody>>
  <1>1. CASE ~UNCHANGED chain
    <2>1. UNCHANGED shares /\ chain'.ver = chain.ver + 1
      BY <1>1, BoardMoves
    <2>2. InTheirCustody' = InTheirCustody
      BY <2>1 DEF InTheirCustody, InCustody, Custodians, Dealt
    <2> QED
      BY <2>1, <2>2 DEF Custody!Next, Custody!Advance, InTheirCustody
  <1>2. CASE UNCHANGED chain /\ InCustody' = {}
    <2>1. InTheirCustody' = NoDeal
      BY <1>2 DEF InTheirCustody
    <2> QED
      BY <1>2, <2>1 DEF Custody!Next, Custody!Lose, InTheirCustody
  <1>3. CASE UNCHANGED chain /\ InCustody' # {}
    <2>1. PICK d : d \in InCustody'
      BY <1>3
    <2>2. InCustody' = {d}
      BY <2>1, CustodyUniqueNext
    <2>3. InTheirCustody' = d
      BY <2>2 DEF InTheirCustody
    <2>4. CASE d \in InCustody
      <3>1. InCustody = {d}
        BY <2>4, CustodyUnique
      <3>2. InTheirCustody = d
        BY <3>1 DEF InTheirCustody
      <3> QED
        BY <1>3, <2>3, <3>2
    <2>5. CASE d \notin InCustody
      <3>1. d \in Deal /\ d.ver = chain.ver /\ InCustody = {}
        BY <2>1, <2>5, CustodyGained DEF Inv
      <3>2. InTheirCustody = NoDeal
        BY <3>1 DEF InTheirCustody
      <3> QED
        BY <1>3, <2>3, <3>1, <3>2 DEF Custody!Next, Custody!Gain, InTheirCustody
    <2> QED
      BY <2>4, <2>5
  <1> QED
    BY <1>1, <1>2, <1>3

\* The flows keep the promise of ShareCustody.
THEOREM KeepsCustody == Spec => CustodySpec
  <1>1. Init => Custody!Init
    <2> SUFFICES ASSUME Init PROVE Custody!Init
      OBVIOUS
    <2>1. \A g \in Nodes : shares[g] = {}
      BY DEF Init, InitStore
    <2>2. InCustody = {}
      BY <2>1 DEF InCustody, Dealt
    <2> QED
      BY <2>2 DEF Init, Unregistered, Custody!Init
  <1>2. Inv /\ Inv' /\ [Next]_vars => [Custody!Next]_<<chain.ver, InTheirCustody>>
    <2> SUFFICES ASSUME Inv, Inv', [Next]_vars
                 PROVE  [Custody!Next]_<<chain.ver, InTheirCustody>>
      OBVIOUS
    <2>1. CASE Next
      BY <2>1, CustodyStep
    <2>2. CASE UNCHANGED vars
      BY <2>2 DEF vars, board, InTheirCustody, InCustody, Custodians, Dealt
    <2> QED
      BY <2>1, <2>2
  <1> QED
    BY <1>1, <1>2, Invariance, PTL DEF Spec, CustodySpec, Custody!Spec, InTheirCustody
=============================================================================
