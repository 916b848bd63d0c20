-------------------------- MODULE ClientAuthProofs --------------------------
(***************************************************************************)
(* Proofs about ClientAuth: its types, that an accepted bundle is about    *)
(* one tree that was on the board (BundleIsAnchored), that the bundles of  *)
(* a replaced key are dead (OldBundleDies), and that a run for a fresh     *)
(* identity fails only when something goes wrong (FailsOnlyByMisfortune),  *)
(* for any number of runs and of misfortunes.  The second holds as long    *)
(* as no root was served with the epoch of another (Paired), the third as  *)
(* long as no older leaf was taken back (Forward).  RootServiceProofs says *)
(* when the service is so: ServedRootIsTheChains and RootsGrow.            *)
(***************************************************************************)
EXTENDS ClientAuth, TLAPS, SequenceTheorems

-----------------------------------------------------------------------------
(* The inductive invariant. *)

TreeSet == [me : Leaf \cup {NoLeaf}, other : Nat]

\* No root was served with the epoch of another so far.
Paired == "mixed" \notin strayed

\* No pass took an older leaf of this identity back into the tree so far.
Forward == "back" \notin strayed

\* The client's program counter, its numbers and the service's queues.
ShapeInv ==
    /\ pc \in {"idle", "post", "poll", "ask", "root", "path", "leaf", "check",
               "rotatepost", "record", "newroot"}
    /\ mode \in {"auth", "recovery"}
    /\ try \in {0} \cup Tries /\ ver \in {0, 1} /\ fast \in BOOLEAN
    /\ exit \in {"none", "ok", "failed"}
    /\ sibling \in Nat /\ pass \in Identities \cup {"none", "back"}
    /\ strayed \subseteq {"back", "mixed"} /\ (Forward => pass # "back")
    /\ posts \subseteq Requests /\ jobs \subseteq Requests
    /\ op \in {"none", "pending", "ready", "failed"} /\ rotating \in BOOLEAN
    /\ faults \in Nat
    /\ pc # "idle" => try \in Tries

\* The served tree is the one anchored last and never ahead of the record.
BoardInv ==
    /\ records \in TreeSet /\ tree \in TreeSet
    /\ anchored \in Seq(TreeSet) /\ Epoch > 0
    /\ Paired => anchored[Epoch] = tree
    /\ tree.me.ver <= records.me.ver

Anchored(r, e) == e \in 1..Epoch /\ (Paired => r = RootAt(e))

\* An answer that is ready names a root and its epoch; only a run that was
\* answered so is fast.
AnswerInv ==
    /\ \/ \E is \in {"none", "ok", "error"} : answer = Plain(is)
       \/ \E r, e : Anchored(r, e) /\ answer = [is |-> "ready", root |-> r, epoch |-> e]
    /\ fast => answer.is = "ready" /\ pc \in {"ask", "root", "path", "leaf", "check"}

\* Root and epoch belong together from when they are fetched.
SeenInv ==
    /\ seen.epoch \in Nat
    /\ pc \in {"path", "leaf", "check"} => Anchored(seen.root, seen.epoch)
    /\ pc \in {"leaf", "check"} =>
           \E r, s : seen.path = [root |-> r, elements |-> <<s>>, index |-> <<0>>]

\* The bundle is about a root with the leaf of the run, anchored with its epoch;
\* that of a running client was made for the version before rotation.
BundleInv ==
    /\ bundle # NoBundle =>
           /\ Anchored(bundle.signals.root, bundle.signals.epoch)
           /\ bundle.signals.root.left = bundle.signals.key
           /\ bundle.signals.key.by = try
    /\ pc # "idle" /\ bundle # NoBundle => bundle.signals.key.ver = 0
    /\ pc \in {"rotatepost", "record", "newroot"} \/ (pc # "idle" /\ ver = 1) =>
           bundle # NoBundle

\* A rotation that was seen is in the tree for good, unless leaves go back.
RetiredInv ==
    /\ Forward /\ (pc = "newroot" \/ (pc # "idle" /\ ver = 1)) => tree.me.ver = 1
    /\ Forward /\ retired # {} => tree.me.ver = 1
    /\ \A b \in retired : b.signals.root.left.ver = 0

IInv == ShapeInv /\ BoardInv /\ AnswerInv /\ SeenInv /\ BundleInv /\ RetiredInv

-----------------------------------------------------------------------------
(* Paths. *)

\* compute_root_from_path over a path of one sibling, on the right.
LEMMA OneStepPath ==
    ASSUME NEW leaf, NEW r, NEW s
    PROVE  RootFromPath(leaf, [root |-> r, elements |-> <<s>>, index |-> <<0>>])
               = Hash2(leaf, s)
<1> DEFINE path == [root |-> r, elements |-> <<s>>, index |-> <<0>>]
<1> DEFINE Fold(f) == [i \in 0..Len(path.elements) |->
                          IF i = 0 THEN leaf
                          ELSE FoldLevel(f[i - 1], path.elements[i], path.index[i])]
<1> DEFINE g == [i \in 0..1 |-> IF i = 0 THEN leaf ELSE Hash2(leaf, s)]
<1> DEFINE node == CHOOSE f : f = Fold(f)
<1>1. Len(path.elements) = 1 /\ path.elements[1] = s /\ path.index[1] = 0
  OBVIOUS
<1>2. g = Fold(g)
  BY <1>1 DEF FoldLevel
<1>3. node = Fold(node)
  <2> HIDE DEF Fold, g
  <2> QED BY <1>2
<1>4. node[0] = leaf
  <2> HIDE DEF node
  <2> QED BY <1>1, <1>3
<1>5. node[1] = Hash2(leaf, s)
  <2> HIDE DEF node
  <2> QED BY <1>1, <1>3, <1>4 DEF FoldLevel
<1>6. RootFromPath(leaf, path) = node[Len(path.elements)]
  BY DEF RootFromPath
<1> QED BY <1>1, <1>5, <1>6

-----------------------------------------------------------------------------
(* What steps do, in the large. *)

\* What went astray is remembered.
LEMMA StrayedStays ==
    ASSUME [Next]_vars
    PROVE  /\ UNCHANGED strayed \/ GoesBack \/ EndPassMixed
           /\ Paired' => Paired
           /\ Forward' => Forward
           /\ EndPassMixed => ~Paired'
           /\ GoesBack => ~Forward'
<1>1. UNCHANGED strayed \/ GoesBack \/ EndPassMixed
  <2> USE DEF vars, client, board, queues, round, serviceFrame
  <2>1. CASE Operator
    BY <2>1 DEF Operator, StartRun
  <2>2. CASE ClientStep
    BY <2>2 DEF ClientStep, PostAnswered, Poll, Ask, GetRoot, GetPath, GetLeaf, FastGivesUp,
       Check, RecordSeen, NewRootSeen, Throws, Goes, Fetches
  <2>3. CASE ServiceStep
    BY <2>3 DEF ServiceStep, TakeRegister, TakeRotate, MineRegister, Settle, MineRotate,
       StartPass, EndPass
  <2>4. CASE Misfortune
    BY <2>4 DEF Misfortune, GetFails, DeadlinePasses, ClientDies, OtherIdentity, PostLost, TxFails
  <2>5. CASE UNCHANGED vars
    BY <2>5
  <2> QED BY <2>1, <2>2, <2>3, <2>4, <2>5 DEF Next
<1>2. EndPassMixed => strayed' = strayed \cup {"mixed"}
  BY DEF EndPassMixed
<1>3. GoesBack => strayed' = strayed \cup {"back"}
  BY DEF GoesBack
<1> QED BY <1>1, <1>2, <1>3 DEF Paired, Forward

\* Which actions change records, tree and anchors.
LEMMA BoardMoves ==
    ASSUME [Next]_vars
    PROVE  \/ UNCHANGED <<records, tree, anchored>>
           \/ /\ \E j \in jobs : MineRegister(j) \/ MineRotate(j)
              /\ UNCHANGED <<tree, anchored>>
           \/ OtherIdentity /\ UNCHANGED <<tree, anchored>>
           \/ (EndPass \/ EndPassMixed) /\ UNCHANGED records
<1> USE DEF vars, client, board, queues, round, serviceFrame
<1>1. CASE Operator
  BY <1>1 DEF Operator, StartRun
<1>2. CASE ClientStep
  <2> USE DEF Throws, Goes, Fetches
  <2>1. CASE PostAnswered \/ Poll \/ Ask
    BY <2>1 DEF PostAnswered, Poll, Ask
  <2>2. CASE GetRoot \/ GetPath \/ GetLeaf
    BY <2>2 DEF GetRoot, GetPath, GetLeaf
  <2>3. CASE FastGivesUp \/ Check
    BY <2>3 DEF FastGivesUp, Check
  <2>4. CASE RecordSeen \/ NewRootSeen
    BY <2>4 DEF RecordSeen, NewRootSeen
  <2> QED BY <1>2, <2>1, <2>2, <2>3, <2>4 DEF ClientStep
<1>3. CASE ServiceStep
  <2>1. ASSUME NEW m \in posts, TakeRegister(m) \/ TakeRotate(m)
        PROVE  UNCHANGED <<records, tree, anchored>>
    BY <2>1 DEF TakeRegister, TakeRotate
  <2>2. ASSUME NEW j \in jobs, MineRegister(j) \/ Settle(j) \/ MineRotate(j)
        PROVE  \/ UNCHANGED <<records, tree, anchored>>
               \/ (MineRegister(j) \/ MineRotate(j)) /\ UNCHANGED <<tree, anchored>>
    BY <2>2 DEF MineRegister, Settle, MineRotate
  <2>3. ASSUME NEW w \in Identities, StartPass(w)
        PROVE  UNCHANGED <<records, tree, anchored>>
    BY <2>3 DEF StartPass
  <2>4. EndPass => UNCHANGED records
    BY DEF EndPass
  <2> QED BY <1>3, <2>1, <2>2, <2>3, <2>4 DEF ServiceStep
<1>4. CASE Misfortune
  <2>1. ASSUME NEW m \in posts, PostLost(m)
        PROVE  UNCHANGED <<records, tree, anchored>>
    BY <2>1 DEF PostLost
  <2>2. ASSUME NEW j \in jobs, TxFails(j)
        PROVE  UNCHANGED <<records, tree, anchored>>
    BY <2>2 DEF TxFails
  <2>3. CASE GetFails \/ DeadlinePasses \/ ClientDies
    BY <2>3 DEF GetFails, DeadlinePasses, ClientDies
  <2>4. OtherIdentity => UNCHANGED <<tree, anchored>>
    BY DEF OtherIdentity
  <2>5. GoesBack => UNCHANGED <<records, tree, anchored>>
    BY DEF GoesBack
  <2>6. EndPassMixed => UNCHANGED records
    BY DEF EndPassMixed
  <2> QED BY <1>4, <2>1, <2>2, <2>3, <2>4, <2>5, <2>6 DEF Misfortune
<1>5. CASE UNCHANGED vars
  BY <1>5
<1> QED BY <1>1, <1>2, <1>3, <1>4, <1>5 DEF Next

\* A pass makes a tree of the same shape.
LEMMA PassMakes ==
    ASSUME ShapeInv, BoardInv, pass # "none"
    PROVE  /\ TreeAfter(pass) \in TreeSet
           /\ TreeAfter(pass).me.ver <= records.me.ver
           /\ \/ TreeAfter(pass).me = tree.me
              \/ TreeAfter(pass).me = records.me
              \/ ~Forward
<1>t. /\ records.me.ver \in {0, 1} /\ tree.me \in Leaf \cup {NoLeaf}
      /\ records \in TreeSet /\ tree \in TreeSet /\ tree.me.ver <= records.me.ver
  BY DEF BoardInv, TreeSet, Leaf, NoLeaf
<1>1. CASE pass = "me"
  <2>1. TreeAfter(pass) = [tree EXCEPT !.me = records.me]
    BY <1>1 DEF TreeAfter
  <2> QED BY <1>t, <2>1 DEF TreeSet
<1>2. CASE pass = "other"
  <2>1. TreeAfter(pass) = [tree EXCEPT !.other = records.other]
    BY <1>2 DEF TreeAfter
  <2> QED BY <1>t, <2>1 DEF TreeSet
<1>3. CASE pass = "back"
  <2>1. TreeAfter(pass) = [tree EXCEPT !.me.ver = 0] /\ ~Forward
    BY <1>3 DEF TreeAfter, ShapeInv
  <2>2. [tree.me EXCEPT !.ver = 0] \in Leaf \cup {NoLeaf}
    BY <1>t DEF Leaf, NoLeaf
  <2>3. [tree.me EXCEPT !.ver = 0].ver = 0
    BY <1>t DEF Leaf, NoLeaf
  <2>4. /\ TreeAfter(pass).me = [tree.me EXCEPT !.ver = 0]
        /\ TreeAfter(pass) \in TreeSet
    BY <1>t, <2>1, <2>2 DEF TreeSet
  <2>5. TreeAfter(pass).me.ver = 0
    BY <2>3, <2>4
  <2>6. 0 <= records.me.ver
    BY <1>t
  <2> QED BY <2>1, <2>4, <2>5, <2>6
<1> QED BY <1>1, <1>2, <1>3 DEF ShapeInv, Identities

\* A pass anchors what it made, and serves that too unless it is mixed up.
LEMMA PassAnchors ==
    ASSUME ShapeInv, BoardInv, [Next]_vars, EndPass \/ EndPassMixed
    PROVE  /\ tree' \in TreeSet
           /\ TreeAfter(pass) \in TreeSet
           /\ anchored' = Append(anchored, TreeAfter(pass))
           /\ Paired' => tree' = TreeAfter(pass)
           /\ tree'.me.ver <= records.me.ver
           /\ Forward' => tree'.me = tree.me \/ tree'.me = records.me
<1>0. Forward' => Forward
  BY StrayedStays
<1>1. pass # "none"
  BY DEF EndPass, EndPassMixed
<1>2. CASE EndPass
  <2>1. tree' = TreeAfter(pass) /\ anchored' = Append(anchored, tree')
    BY <1>2 DEF EndPass, Pushed
  <2> QED BY <1>0, <1>1, <2>1, PassMakes
<1>3. CASE EndPassMixed
  <2>1. /\ tree' = records /\ anchored' = Append(anchored, TreeAfter(pass))
        /\ ~Paired'
    BY <1>3, StrayedStays DEF EndPassMixed, Pushed
  <2>2. records \in TreeSet /\ records.me.ver <= records.me.ver
    BY DEF BoardInv, TreeSet, Leaf, NoLeaf
  <2> QED BY <1>1, <2>1, <2>2, PassMakes
<1> QED BY <1>2, <1>3

\* The served tree stays the last anchored one, at or behind the record.
LEMMA BoardStep ==
    ASSUME ShapeInv, BoardInv, [Next]_vars
    PROVE  BoardInv'
<1>0. Paired' => Paired
  BY StrayedStays
<1>1. CASE UNCHANGED <<records, tree, anchored>>
  BY <1>0, <1>1 DEF BoardInv, Epoch
<1>2. CASE (\E j \in jobs : MineRegister(j) \/ MineRotate(j)) /\ UNCHANGED <<tree, anchored>>
  <2>1. PICK j \in jobs : MineRegister(j) \/ MineRotate(j)
    BY <1>2
  <2>2. j.by \in Tries
    BY DEF ShapeInv, Requests
  <2>3. CASE MineRegister(j)
    <3>1. records' = records \/ records' = [records EXCEPT !.me = [by |-> j.by, ver |-> 0]]
      BY <2>3 DEF MineRegister
    <3>2. records' # records => records.me = NoLeaf
      BY <2>3 DEF MineRegister
    <3>3. tree.me.ver <= records'.me.ver
      BY <3>1, <3>2 DEF BoardInv, TreeSet, NoLeaf
    <3> QED BY <1>0, <1>2, <2>2, <3>1, <3>3 DEF BoardInv, TreeSet, Leaf, Epoch
  <2>4. CASE MineRotate(j)
    <3>1. records' = [records EXCEPT !.me = [by |-> j.by, ver |-> 1]]
      BY <2>4 DEF MineRotate
    <3>2. tree.me.ver <= 1
      BY DEF BoardInv, TreeSet, Leaf, NoLeaf
    <3>3. records' \in TreeSet /\ records'.me.ver = 1
      BY <2>2, <3>1 DEF BoardInv, TreeSet, Leaf
    <3> QED BY <1>0, <1>2, <3>2, <3>3 DEF BoardInv, Epoch
  <2> QED BY <2>1, <2>3, <2>4
<1>3. CASE OtherIdentity /\ UNCHANGED <<tree, anchored>>
  <2>1. records' = [records EXCEPT !.other = @ + 1]
    BY <1>3 DEF OtherIdentity
  <2>2. records \in TreeSet /\ records.other + 1 \in Nat
    BY DEF BoardInv, TreeSet
  <2>3. records' \in TreeSet /\ records'.me = records.me
    BY <2>1, <2>2 DEF TreeSet
  <2> QED BY <1>0, <1>3, <2>3 DEF BoardInv, Epoch
<1>4. CASE (EndPass \/ EndPassMixed) /\ UNCHANGED records
  <2> DEFINE t == TreeAfter(pass)
  <2>1. /\ tree' \in TreeSet /\ t \in TreeSet /\ anchored' = Append(anchored, t)
        /\ Paired' => tree' = t
        /\ tree'.me.ver <= records.me.ver
    BY <1>4, PassAnchors
  <2> HIDE DEF t
  <2>2. /\ anchored' \in Seq(TreeSet) /\ Len(anchored') = Len(anchored) + 1
        /\ anchored'[Len(anchored')] = t
    BY <2>1 DEF BoardInv
  <2> QED BY <1>4, <2>1, <2>2 DEF BoardInv, Epoch
<1> QED BY <1>1, <1>2, <1>3, <1>4, BoardMoves

\* The roots of the epochs so far stay what they are.
LEMMA RootsStay ==
    ASSUME ShapeInv, BoardInv, [Next]_vars
    PROVE  /\ Epoch \in Nat /\ Epoch' \in Nat /\ Epoch <= Epoch'
           /\ \A e \in 1..Epoch : RootAt(e)' = RootAt(e)
<1>1. CASE anchored' = anchored
  BY <1>1 DEF Epoch, RootAt, RootOf, BoardInv
<1>2. CASE EndPass \/ EndPassMixed
  <2> DEFINE t == TreeAfter(pass)
  <2>1. t \in TreeSet /\ anchored' = Append(anchored, t)
    BY <1>2, PassAnchors
  <2> HIDE DEF t
  <2>2. /\ Len(anchored) \in Nat /\ Len(anchored') = Len(anchored) + 1
        /\ \A e \in 1..Len(anchored) : anchored'[e] = anchored[e]
    BY <2>1 DEF BoardInv
  <2> QED BY <2>2 DEF Epoch, RootAt, RootOf
<1> QED BY <1>1, <1>2, BoardMoves

\* What was root and epoch of an anchor remains so.
LEMMA AnchoredStays ==
    ASSUME ShapeInv, BoardInv, [Next]_vars, NEW r, NEW e, Anchored(r, e)
    PROVE  e \in 1..Epoch' /\ (Paired' => r = RootAt(e)')
BY RootsStay, StrayedStays DEF Anchored

\* A version that is in the tree stays there.
LEMMA RotatedStays ==
    ASSUME ShapeInv, BoardInv, [Next]_vars, Forward', tree.me.ver = 1
    PROVE  tree'.me.ver = 1
<1>1. records.me.ver = 1
  BY DEF BoardInv, TreeSet, Leaf, NoLeaf
<1> QED BY <1>1, BoardMoves, PassAnchors

-----------------------------------------------------------------------------
(* Each part of the invariant, step by step. *)

\* Program counter, numbers and queues keep their sets.
LEMMA ShapeStep ==
    ASSUME ShapeInv, BoardInv, [Next]_vars
    PROVE  ShapeInv'
<1> USE DEF ShapeInv, Forward, vars, client, board, queues, round, serviceFrame
<1>1. CASE Operator
  <2>1. PICK m \in {"auth", "recovery"}, wait \in BOOLEAN : StartRun(m, wait)
    BY <1>1 DEF Operator
  <2>2. try + 1 \in Tries
    BY <2>1, AuthAssumption DEF StartRun, Tries
  <2>3. [kind |-> "register", by |-> try + 1, wait |-> wait] \in Requests
    BY <2>2 DEF Requests
  <2> QED BY <2>1, <2>2, <2>3 DEF StartRun
<1>2. CASE ClientStep
  <2> USE DEF Throws, Goes, Fetches, End
  <2>1. CASE PostAnswered
    BY <2>1 DEF PostAnswered
  <2>2. CASE Poll
    <3>1. \A o \in {"none", "pending", "ready", "failed"} :
              Refreshed(o) \subseteq {"none", "pending", "ready", "failed"}
      BY DEF Refreshed
    <3> QED BY <2>2, <3>1 DEF Poll
  <2>3. CASE Ask
    BY <2>3 DEF Ask, Retry
  <2>4. CASE GetRoot \/ GetPath \/ GetLeaf
    BY <2>4 DEF GetRoot, GetPath, GetLeaf
  <2>5. CASE FastGivesUp
    BY <2>5 DEF FastGivesUp
  <2>6. CASE Check
    <3>1. pc = "check" => [kind |-> "rotate", by |-> try, wait |-> FALSE] \in Requests
      BY DEF Requests
    <3> QED BY <2>6, <3>1 DEF Check
  <2>7. CASE RecordSeen
    BY <2>7 DEF RecordSeen
  <2>8. CASE NewRootSeen
    BY <2>8 DEF NewRootSeen
  <2> QED BY <1>2, <2>1, <2>2, <2>3, <2>4, <2>5, <2>6, <2>7, <2>8 DEF ClientStep
<1>3. CASE ServiceStep
  <2>1. ASSUME NEW m \in posts, TakeRegister(m)
        PROVE  ShapeInv'
    <3>1. \A o \in {"none", "pending", "ready", "failed"} :
              Refreshed(o) \subseteq {"none", "pending", "ready", "failed"}
      BY DEF Refreshed
    <3> QED BY <2>1, <3>1 DEF TakeRegister
  <2>2. ASSUME NEW m \in posts, TakeRotate(m)
        PROVE  ShapeInv'
    <3>1. /\ posts' \subseteq posts /\ jobs' \subseteq jobs \cup {m}
          /\ rotating' \in BOOLEAN
      BY <2>2 DEF TakeRotate
    <3>2. UNCHANGED <<serviceFrame, mode, try, ver, fast, sibling, pass, strayed, op, faults>>
      BY <2>2 DEF TakeRotate
    <3> QED BY <3>1, <3>2
  <2>3. ASSUME NEW j \in jobs, MineRegister(j)
        PROVE  ShapeInv'
    <3>1. PICK waits \in BOOLEAN :
              jobs' = (jobs \ {j}) \cup {[j EXCEPT !.kind = "settle", !.wait = waits]}
      BY <2>3 DEF MineRegister, Requests
    <3>2. [j EXCEPT !.kind = "settle", !.wait = waits] \in Requests
      BY DEF Requests
    <3> QED BY <2>3, <3>1, <3>2 DEF MineRegister
  <2>4. ASSUME NEW j \in jobs, Settle(j) \/ MineRotate(j)
        PROVE  ShapeInv'
    BY <2>4 DEF Settle, MineRotate
  <2>5. ASSUME NEW w \in Identities, StartPass(w)
        PROVE  ShapeInv'
    BY <2>5 DEF StartPass, Identities
  <2>6. CASE EndPass
    <3>1. sibling' = tree'.other \/ sibling' = sibling
      BY <2>6 DEF EndPass
    <3>2. tree'.other \in Nat
      BY <2>6, PassAnchors DEF TreeSet
    <3>3. pass' = "none" /\ UNCHANGED <<client, strayed, queues, faults>>
      BY <2>6 DEF EndPass
    <3> QED BY <3>1, <3>2, <3>3
  <2> QED BY <1>3, <2>1, <2>2, <2>3, <2>4, <2>5, <2>6 DEF ServiceStep
<1>4. CASE Misfortune
  <2> USE DEF Fault, End
  <2>1. ASSUME NEW m \in posts, PostLost(m)
        PROVE  ShapeInv'
    BY <2>1 DEF PostLost
  <2>2. ASSUME NEW j \in jobs, TxFails(j)
        PROVE  ShapeInv'
    BY <2>2 DEF TxFails
  <2>3. CASE GetFails
    BY <2>3 DEF GetFails, Retry
  <2>4. CASE DeadlinePasses
    <3>1. faults' \in Nat
      BY <2>4 DEF DeadlinePasses
    <3>2. /\ pc' \in {"idle", "poll", "record"} /\ pc # "idle"
          /\ exit' \in {exit, "failed"} /\ fast' \in {fast, FALSE}
      BY <2>4 DEF DeadlinePasses
    <3>3. UNCHANGED <<mode, try, ver, sibling, pass, strayed, posts, jobs, op, rotating>>
      BY <2>4 DEF DeadlinePasses
    <3>4. fast' \in BOOLEAN /\ exit' \in {"none", "ok", "failed"} /\ try' \in Tries
      BY <3>2, <3>3
    <3> QED BY <3>1, <3>2, <3>3, <3>4
  <2>5. CASE ClientDies
    <3>1. faults' \in Nat
      BY <2>5 DEF ClientDies
    <3>2. pc' = "idle" /\ exit' = "failed" /\ fast' = FALSE
      BY <2>5 DEF ClientDies
    <3>3. UNCHANGED <<mode, try, ver, board, queues>>
      BY <2>5 DEF ClientDies
    <3> QED BY <3>1, <3>2, <3>3
  <2>6. CASE OtherIdentity
    BY <2>6 DEF OtherIdentity
  <2>7. CASE GoesBack
    BY <2>7 DEF GoesBack
  <2>8. CASE EndPassMixed
    <3>0. strayed' = strayed \cup {"mixed"}
      BY <2>8 DEF EndPassMixed
    <3>1. sibling' \in {sibling, records.other} /\ records.other \in Nat
      BY <2>8 DEF EndPassMixed, BoardInv, TreeSet
    <3>2. pass' = "none" /\ faults' \in Nat /\ UNCHANGED <<client, queues>>
      BY <2>8 DEF EndPassMixed
    <3> QED BY <3>0, <3>1, <3>2
  <2> QED BY <1>4, <2>1, <2>2, <2>3, <2>4, <2>5, <2>6, <2>7, <2>8 DEF Misfortune
<1>5. CASE UNCHANGED vars
  BY <1>5
<1> QED BY <1>1, <1>2, <1>3, <1>4, <1>5 DEF Next

\* Only a request that is waited for is answered, and while it is, the run is
\* not fast.
LEMMA RepliesKeepAnswer ==
    ASSUME ShapeInv, BoardInv, AnswerInv, NEW m, NEW a,
           \/ \E is \in {"none", "ok", "error"} : a = Plain(is)
           \/ a = ReadyAnswer,
           Reply(m, a), [Next]_vars, UNCHANGED <<pc, fast>>
    PROVE  AnswerInv'
<1>1. CASE answer' = answer
  <2>1. CASE \E is \in {"none", "ok", "error"} : answer = Plain(is)
    BY <1>1, <2>1 DEF AnswerInv
  <2>2. CASE \E r, e : Anchored(r, e) /\ answer = [is |-> "ready", root |-> r, epoch |-> e]
    <3>1. PICK r, e : Anchored(r, e) /\ answer = [is |-> "ready", root |-> r, epoch |-> e]
      BY <2>2
    <3>2. Anchored(r, e)'
      BY <3>1, AnchoredStays DEF Anchored
    <3> QED BY <1>1, <3>1, <3>2 DEF AnswerInv
  <2> QED BY <2>1, <2>2 DEF AnswerInv
<1>2. CASE answer' = a /\ pc \in {"post", "rotatepost"}
  <2>1. ~fast
    BY <1>2 DEF AnswerInv
  <2>2. CASE \E is \in {"none", "ok", "error"} : a = Plain(is)
    BY <1>2, <2>1, <2>2 DEF AnswerInv
  <2>3. CASE a = ReadyAnswer
    <3>1. PICK r, e : r = ServedRoot /\ e = Epoch
      OBVIOUS
    <3>2. Anchored(r, e) /\ ReadyAnswer = [is |-> "ready", root |-> r, epoch |-> e]
      BY <3>1, RootsStay DEF ReadyAnswer, ServedRoot, RootAt, BoardInv, Anchored
    <3>3. Anchored(r, e)'
      BY <3>2, AnchoredStays DEF Anchored
    <3> QED BY <1>2, <2>1, <2>3, <3>2, <3>3 DEF AnswerInv
  <2> QED BY <2>2, <2>3
<1> QED BY <1>1, <1>2 DEF Reply

\* A ready answer names a root with the epoch it was anchored at.
LEMMA AnswerStep ==
    ASSUME ShapeInv, BoardInv, AnswerInv, [Next]_vars
    PROVE  AnswerInv'
<1> USE DEF vars, client, board, queues, round, serviceFrame
<1>1. ASSUME UNCHANGED answer,
             fast' => /\ fast \/ answer.is = "ready"
                      /\ pc' \in {"ask", "root", "path", "leaf", "check"}
      PROVE  AnswerInv'
  <2>1. fast' => answer'.is = "ready"
    BY <1>1 DEF AnswerInv
  <2>2. CASE \E is \in {"none", "ok", "error"} : answer = Plain(is)
    BY <1>1, <2>1, <2>2 DEF AnswerInv
  <2>3. CASE \E r, e : Anchored(r, e) /\ answer = [is |-> "ready", root |-> r, epoch |-> e]
    <3>1. PICK r, e : Anchored(r, e) /\ answer = [is |-> "ready", root |-> r, epoch |-> e]
      BY <2>3
    <3>2. Anchored(r, e)'
      BY <3>1, AnchoredStays DEF Anchored
    <3>3. fast' => answer'.is = "ready" /\ pc' \in {"ask", "root", "path", "leaf", "check"}
      BY <1>1, <2>1
    <3> QED BY <1>1, <3>1, <3>2, <3>3 DEF AnswerInv
  <2> QED BY <2>2, <2>3 DEF AnswerInv
<1>2. ASSUME answer' = NoAnswer, fast' = FALSE
      PROVE  AnswerInv'
  BY <1>2 DEF AnswerInv, NoAnswer, Plain
<1> DEFINE Still == UNCHANGED <<answer, pc, fast>>
<1>3. Still => AnswerInv'
  BY <1>1 DEF AnswerInv
<1>4. CASE Operator
  <2>1. PICK m \in {"auth", "recovery"}, wait \in BOOLEAN : StartRun(m, wait)
    BY <1>4 DEF Operator
  <2>2. ~fast
    BY <2>1 DEF StartRun, AnswerInv
  <2> QED BY <1>1, <2>1, <2>2 DEF StartRun
<1>5. CASE ClientStep
  <2> USE DEF Throws, Goes, Fetches, End
  <2>1. CASE PostAnswered
    <3>1. CASE answer.is = "error"
      BY <1>2, <2>1, <3>1 DEF PostAnswered
    <3>2. CASE answer.is # "error"
      <4>1. UNCHANGED answer /\ fast' = (pc = "post" /\ answer.is = "ready")
        BY <2>1, <3>2 DEF PostAnswered
      <4>2. fast' => pc' = "ask"
        BY <2>1, <3>2 DEF PostAnswered
      <4> QED BY <1>1, <4>1, <4>2
    <3> QED BY <3>1, <3>2
  <2>2. CASE Poll
    <3>1. pc = "poll" /\ ~fast
      BY <2>2 DEF Poll, AnswerInv
    <3>2. (answer' = NoAnswer /\ fast' = FALSE) \/ UNCHANGED <<answer, fast>>
      BY <2>2 DEF Poll
    <3>3. CASE UNCHANGED <<answer, fast>>
      <4>1. UNCHANGED answer /\ ~fast'
        BY <3>1, <3>3
      <4> QED BY <1>1, <4>1
    <3> QED BY <1>2, <3>2, <3>3
  <2>3. CASE Ask
    <3>1. UNCHANGED <<answer, fast>> /\ (fast => pc' \in {"ask", "root"})
      BY <2>3 DEF Ask, Retry
    <3> QED BY <1>1, <3>1
  <2>4. CASE GetRoot \/ GetPath \/ GetLeaf
    <3>1. UNCHANGED <<answer, fast>> /\ pc' \in {"path", "leaf", "check"}
      BY <2>4 DEF GetRoot, GetPath, GetLeaf
    <3> QED BY <1>1, <3>1
  <2>5. CASE FastGivesUp
    BY <1>1, <2>5 DEF FastGivesUp
  <2>6. CASE Check
    BY <1>2, <2>6 DEF Check
  <2>7. CASE RecordSeen
    BY <1>1, <2>7 DEF RecordSeen, AnswerInv
  <2>8. CASE NewRootSeen
    <3>1. UNCHANGED answer /\ ~fast'
      BY <2>8 DEF NewRootSeen, AnswerInv
    <3> QED BY <1>1, <3>1
  <2> QED BY <1>5, <2>1, <2>2, <2>3, <2>4, <2>5, <2>6, <2>7, <2>8 DEF ClientStep
<1>6. CASE ServiceStep
  <2>1. ASSUME NEW m \in posts, TakeRegister(m)
        PROVE  AnswerInv'
    <3>1. UNCHANGED <<pc, fast>>
      BY <2>1 DEF TakeRegister
    <3>2. UNCHANGED answer \/ \E status : Reply(m, AnswerFor(status))
      BY <2>1 DEF TakeRegister
    <3>3. ASSUME NEW status, Reply(m, AnswerFor(status))
          PROVE  AnswerInv'
      <4>1. AnswerFor(status) = ReadyAnswer \/ AnswerFor(status) = Plain("ok")
        BY DEF AnswerFor
      <4> QED BY <3>1, <3>3, <4>1, RepliesKeepAnswer
    <3> QED BY <1>3, <3>1, <3>2, <3>3
  <2>2. ASSUME NEW m \in posts, TakeRotate(m)
        PROVE  AnswerInv'
    <3>1. UNCHANGED <<pc, fast>>
      BY <2>2 DEF TakeRotate
    <3>2. UNCHANGED answer \/ Reply(m, Plain("error")) \/ Reply(m, Plain("ok"))
      BY <2>2 DEF TakeRotate
    <3> QED BY <1>3, <3>1, <3>2, RepliesKeepAnswer
  <2>3. ASSUME NEW j \in jobs, MineRegister(j) \/ MineRotate(j)
        PROVE  AnswerInv'
    <3>1. UNCHANGED <<pc, fast>>
      BY <2>3 DEF MineRegister, MineRotate
    <3>2. UNCHANGED answer \/ Reply(j, Plain("ok"))
      BY <2>3 DEF MineRegister, MineRotate
    <3> QED BY <1>3, <3>1, <3>2, RepliesKeepAnswer
  <2>4. ASSUME NEW j \in jobs, Settle(j)
        PROVE  AnswerInv'
    <3>1. UNCHANGED <<pc, fast>> /\ (UNCHANGED answer \/ Reply(j, ReadyAnswer))
      BY <2>4 DEF Settle, ReplyUnlessLate
    <3> QED BY <1>3, <3>1, RepliesKeepAnswer
  <2>5. ASSUME NEW w \in Identities, StartPass(w)
        PROVE  AnswerInv'
    BY <1>3, <2>5 DEF StartPass
  <2>6. CASE EndPass
    <3>1. Still
      BY <2>6 DEF EndPass
    <3> QED BY <1>3, <3>1
  <2> QED BY <1>6, <2>1, <2>2, <2>3, <2>4, <2>5, <2>6 DEF ServiceStep
<1>7. CASE Misfortune
  <2> USE DEF End
  <2>1. ASSUME NEW m \in posts, PostLost(m)
        PROVE  AnswerInv'
    BY <1>3, <2>1 DEF PostLost
  <2>2. ASSUME NEW j \in jobs, TxFails(j)
        PROVE  AnswerInv'
    <3>1. UNCHANGED <<pc, fast>> /\ (UNCHANGED answer \/ Reply(j, Plain("error")))
      BY <2>2 DEF TxFails, ReplyUnlessLate
    <3> QED BY <1>3, <3>1, RepliesKeepAnswer
  <2>3. CASE GetFails
    <3>1. UNCHANGED <<answer, fast>> /\ (fast => pc' = "ask")
      BY <2>3 DEF GetFails, Retry
    <3> QED BY <1>1, <3>1
  <2>4. CASE DeadlinePasses
    <3>1. \/ answer' = NoAnswer /\ fast' = FALSE
          \/ pc \in {"post", "rotatepost"} /\ UNCHANGED <<answer, fast>>
      BY <2>4 DEF DeadlinePasses
    <3>2. CASE pc \in {"post", "rotatepost"} /\ UNCHANGED <<answer, fast>>
      <4>1. UNCHANGED answer /\ ~fast'
        BY <3>2 DEF AnswerInv
      <4> QED BY <1>1, <4>1
    <3> QED BY <1>2, <3>1, <3>2
  <2>5. CASE ClientDies
    BY <1>2, <2>5 DEF ClientDies
  <2>6. CASE OtherIdentity \/ GoesBack \/ EndPassMixed
    <3>1. Still
      BY <2>6 DEF OtherIdentity, GoesBack, EndPassMixed
    <3> QED BY <1>3, <3>1
  <2> QED BY <1>7, <2>1, <2>2, <2>3, <2>4, <2>5, <2>6 DEF Misfortune
<1>8. CASE UNCHANGED vars
  BY <1>3, <1>8
<1> QED BY <1>4, <1>5, <1>6, <1>7, <1>8 DEF Next

\* The client keeps a root only with its own epoch, and a path of one sibling.
LEMMA SeenStep ==
    ASSUME ShapeInv, BoardInv, AnswerInv, SeenInv, [Next]_vars
    PROVE  SeenInv'
<1> USE DEF vars, client, board, queues, round, serviceFrame
<1>1. ASSUME UNCHANGED seen, pc' \in {"path", "leaf", "check"} => pc' = pc
      PROVE  SeenInv'
  <2>1. seen'.epoch \in Nat
    BY <1>1 DEF SeenInv
  <2>2. ASSUME pc' \in {"path", "leaf", "check"}
        PROVE  Anchored(seen.root, seen.epoch)'
    <3>1. PICK r, e : r = seen.root /\ e = seen.epoch
      OBVIOUS
    <3>2. Anchored(r, e)
      BY <1>1, <2>2, <3>1 DEF SeenInv
    <3> QED BY <1>1, <3>1, <3>2, AnchoredStays DEF Anchored
  <2> QED BY <1>1, <2>1, <2>2 DEF SeenInv
<1>2. ASSUME seen' = Nothing, pc' \notin {"path", "leaf", "check"}
      PROVE  SeenInv'
  BY <1>2 DEF SeenInv, Nothing
<1>3. CASE Operator
  <2>1. UNCHANGED seen /\ pc' = "post"
    BY <1>3 DEF Operator, StartRun
  <2> QED BY <1>1, <2>1
<1>4. CASE ClientStep
  <2> USE DEF Throws, Goes, End
  <2>1. CASE PostAnswered
    <3>1. pc' \notin {"path", "leaf", "check"} /\ (UNCHANGED seen \/ seen' = Nothing)
      BY <2>1 DEF PostAnswered
    <3> QED BY <1>1, <1>2, <3>1
  <2>2. CASE Poll
    <3>1. pc' \notin {"path", "leaf", "check"} /\ (UNCHANGED seen \/ seen' = Nothing)
      BY <2>2 DEF Poll
    <3> QED BY <1>1, <1>2, <3>1
  <2>3. CASE Ask
    <3>1. pc' \notin {"path", "leaf", "check"} /\ UNCHANGED seen
      BY <2>3 DEF Ask, Retry
    <3> QED BY <1>1, <3>1
  <2>4. CASE GetRoot
    <3>1. /\ seen' = [root |-> ServedRoot, epoch |-> Epoch] /\ pc' = "path"
          /\ UNCHANGED <<anchored, strayed>>
      BY <2>4 DEF GetRoot, Fetches
    <3>2. Epoch \in 1..Epoch /\ (Paired => ServedRoot = RootAt(Epoch))
      BY RootsStay DEF ServedRoot, RootAt, BoardInv
    <3> QED BY <3>1, <3>2 DEF SeenInv, Anchored, Epoch, RootAt, Paired
  <2>5. CASE GetPath
    <3>1. /\ seen' = [root |-> seen.root, epoch |-> seen.epoch, path |-> CachedPath]
          /\ pc = "path" /\ pc' = "leaf" /\ UNCHANGED <<anchored, strayed>>
      BY <2>5 DEF GetPath, Fetches
    <3>2. Anchored(seen.root, seen.epoch)
      BY <3>1 DEF SeenInv
    <3>3. \E r, s : seen'.path = [root |-> r, elements |-> <<s>>, index |-> <<0>>]
      BY <3>1 DEF CachedPath
    <3> QED BY <3>1, <3>2, <3>3 DEF SeenInv, Anchored, Epoch, RootAt, Paired
  <2>6. CASE GetLeaf
    <3>1. /\ seen'.root = ChosenRoot.root /\ seen'.epoch = ChosenRoot.epoch
          /\ seen'.path = seen.path
          /\ pc = "leaf" /\ pc' = "check" /\ UNCHANGED <<anchored, strayed>>
      BY <2>6 DEF GetLeaf, Fetches
    <3>2. CASE fast
      <4>1. PICK r, e : Anchored(r, e) /\ answer = [is |-> "ready", root |-> r, epoch |-> e]
        BY <3>2 DEF AnswerInv, Plain
      <4>2. seen'.root = r /\ seen'.epoch = e
        BY <3>1, <3>2, <4>1 DEF ChosenRoot
      <4>3. e \in Nat
        BY <4>1, RootsStay DEF Anchored
      <4> QED BY <3>1, <4>1, <4>2, <4>3 DEF SeenInv, Anchored, Epoch, RootAt, Paired
    <3>3. CASE ~fast
      <4>1. seen'.root = seen.root /\ seen'.epoch = seen.epoch
        BY <3>1, <3>3 DEF ChosenRoot
      <4> QED BY <3>1, <4>1 DEF SeenInv, Anchored, Epoch, RootAt, Paired
    <3> QED BY <3>2, <3>3
  <2>7. CASE FastGivesUp
    <3>1. pc' = "poll" /\ UNCHANGED seen
      BY <2>7 DEF FastGivesUp
    <3> QED BY <1>1, <3>1
  <2>8. CASE Check
    <3>1. pc' \in {"idle", "rotatepost"} /\ seen' = Nothing
      BY <2>8 DEF Check
    <3> QED BY <1>2, <3>1
  <2>9. CASE RecordSeen
    <3>1. pc' = "newroot" /\ UNCHANGED seen
      BY <2>9 DEF RecordSeen
    <3> QED BY <1>1, <3>1
  <2>10. CASE NewRootSeen
    <3>1. pc' \in {"idle", "ask"} /\ (UNCHANGED seen \/ seen' = Nothing)
      BY <2>10 DEF NewRootSeen
    <3> QED BY <1>1, <1>2, <3>1
  <2> QED BY <1>4, <2>1, <2>2, <2>3, <2>4, <2>5, <2>6, <2>7, <2>8, <2>9, <2>10 DEF ClientStep
<1>5. CASE ServiceStep
  <2>1. ASSUME NEW m \in posts, TakeRegister(m) \/ TakeRotate(m)
        PROVE  UNCHANGED <<pc, seen>>
    BY <2>1 DEF TakeRegister, TakeRotate
  <2>2. ASSUME NEW j \in jobs, MineRegister(j) \/ Settle(j) \/ MineRotate(j)
        PROVE  UNCHANGED <<pc, seen>>
    BY <2>2 DEF MineRegister, Settle, MineRotate
  <2>3. ASSUME NEW w \in Identities, StartPass(w)
        PROVE  UNCHANGED <<pc, seen>>
    BY <2>3 DEF StartPass
  <2>4. EndPass => UNCHANGED <<pc, seen>>
    BY DEF EndPass
  <2> QED BY <1>1, <1>5, <2>1, <2>2, <2>3, <2>4 DEF ServiceStep
<1>6. CASE Misfortune
  <2> USE DEF End
  <2>1. ASSUME NEW m \in posts, PostLost(m)
        PROVE  UNCHANGED <<pc, seen>>
    BY <2>1 DEF PostLost
  <2>2. ASSUME NEW j \in jobs, TxFails(j)
        PROVE  UNCHANGED <<pc, seen>>
    BY <2>2 DEF TxFails
  <2>3. CASE GetFails \/ ClientDies
    <3>1. pc' \in {"ask", "poll", "idle"} /\ seen' = Nothing
      BY <2>3 DEF GetFails, Retry, ClientDies
    <3> QED BY <1>2, <3>1
  <2>4. CASE DeadlinePasses
    <3>1. pc' \in {"idle", "poll", "record"} /\ (UNCHANGED seen \/ seen' = Nothing)
      BY <2>4 DEF DeadlinePasses
    <3> QED BY <1>1, <1>2, <3>1
  <2>5. OtherIdentity \/ GoesBack \/ EndPassMixed => UNCHANGED <<pc, seen>>
    BY DEF OtherIdentity, GoesBack, EndPassMixed
  <2> QED BY <1>1, <1>6, <2>1, <2>2, <2>3, <2>4, <2>5 DEF Misfortune
<1>7. CASE UNCHANGED vars
  BY <1>1, <1>7
<1> QED BY <1>3, <1>4, <1>5, <1>6, <1>7 DEF Next

\* What is accepted was made from one tree, the one of its epoch.
LEMMA AcceptedIsAnchored ==
    ASSUME ShapeInv, SeenInv, pc = "check", Accepted
    PROVE  /\ NewBundle.signals.epoch = seen.epoch
           /\ NewBundle.signals.root = seen.root
           /\ NewBundle.signals.key = MyLeaf
           /\ Anchored(seen.root, seen.epoch)
           /\ seen.root.left = MyLeaf
<1>1. /\ NewBundle.signals.root = seen.path.root
      /\ NewBundle.signals.key = MyLeaf
      /\ NewBundle.signals.epoch = seen.epoch
  BY DEF NewBundle, Bundle, Signals, MySession, Session
<1>2. seen.root = NewBundle.signals.root
  BY DEF Accepted, VerifyError
<1>3. PICK r, s : seen.path = [root |-> r, elements |-> <<s>>, index |-> <<0>>]
  BY DEF SeenInv
<1>4. seen.path.root = Hash2(MyLeaf, s)
  BY <1>3, OneStepPath DEF Accepted, PathFits
<1> QED BY <1>1, <1>2, <1>4 DEF SeenInv, Hash2

\* Check ends the run, or accepts a bundle and then rotates or ends.
LEMMA CheckOutcomes ==
    ASSUME Check
    PROVE  /\ pc = "check" /\ UNCHANGED <<try, ver, board>>
           /\ \/ pc' = "idle" /\ UNCHANGED <<bundle, retired>>
              \/ /\ Accepted /\ bundle' = NewBundle
                 /\ pc' = "rotatepost" /\ ver = 0 /\ UNCHANGED retired
              \/ /\ Accepted /\ bundle' = NewBundle /\ pc' = "idle"
                 /\ retired' = IF ver = 1 THEN retired \cup {bundle} ELSE retired
BY DEF Check, Throws, End, board, queues

\* The bundle in hand is anchored, and in a recovery it is the one before
\* the rotation until the second authentication.
LEMMA BundleStep ==
    ASSUME ShapeInv, BoardInv, SeenInv, BundleInv, [Next]_vars
    PROVE  BundleInv'
<1> USE DEF vars, client, board, queues, round, serviceFrame
<1> DEFINE Needed == pc \in {"rotatepost", "record", "newroot"} \/ (pc # "idle" /\ ver = 1)
<1>1. ASSUME UNCHANGED <<bundle, try>>, pc = "idle" => pc' = "idle", Needed' => Needed
      PROVE  BundleInv'
  <2>1. ASSUME bundle' # NoBundle
        PROVE  Anchored(bundle.signals.root, bundle.signals.epoch)'
    <3>1. PICK r, e : r = bundle.signals.root /\ e = bundle.signals.epoch
      OBVIOUS
    <3>2. Anchored(r, e)
      BY <1>1, <2>1, <3>1 DEF BundleInv
    <3> QED BY <1>1, <3>1, <3>2, AnchoredStays DEF Anchored
  <2> QED BY <1>1, <2>1 DEF BundleInv
<1>2. CASE Operator
  <2>1. bundle' = NoBundle /\ pc' = "post" /\ ver' = 0
    BY <1>2 DEF Operator, StartRun
  <2> QED BY <2>1 DEF BundleInv
<1>3. CASE ClientStep
  <2> USE DEF Throws, Goes, Fetches, End
  <2>1. CASE PostAnswered
    <3>1. /\ UNCHANGED <<bundle, try, ver>> /\ pc \in {"post", "rotatepost"}
          /\ pc' \in {"idle", "record", "ask", "poll"} /\ (pc' = "record" => pc = "rotatepost")
      BY <2>1 DEF PostAnswered
    <3> QED BY <1>1, <3>1
  <2>2. CASE Poll
    <3>1. UNCHANGED <<bundle, try, ver>> /\ pc = "poll" /\ pc' \in {"idle", "ask", "poll"}
      BY <2>2 DEF Poll
    <3> QED BY <1>1, <3>1
  <2>3. CASE Ask
    <3>1. UNCHANGED <<bundle, try, ver>> /\ pc = "ask" /\ pc' \in {"root", "ask", "poll"}
      BY <2>3 DEF Ask, Retry
    <3> QED BY <1>1, <3>1
  <2>4. CASE GetRoot \/ GetPath \/ GetLeaf
    <3>1. /\ UNCHANGED <<bundle, try, ver>> /\ pc \in {"root", "path", "leaf"}
          /\ pc' \in {"path", "leaf", "check"}
      BY <2>4 DEF GetRoot, GetPath, GetLeaf
    <3> QED BY <1>1, <3>1
  <2>5. CASE FastGivesUp
    <3>1. UNCHANGED <<bundle, try, ver>> /\ pc = "ask" /\ pc' = "poll"
      BY <2>5 DEF FastGivesUp
    <3> QED BY <1>1, <3>1
  <2>6. CASE Check
    <3>1. CASE pc' = "idle" /\ UNCHANGED <<bundle, retired>>
      BY <1>1, <2>6, <3>1, CheckOutcomes
    <3>2. CASE Accepted /\ bundle' = NewBundle
      <4>1. /\ NewBundle.signals.epoch = seen.epoch /\ NewBundle.signals.root = seen.root
            /\ NewBundle.signals.key = MyLeaf
            /\ Anchored(seen.root, seen.epoch)
            /\ seen.root.left = MyLeaf
        BY <2>6, <3>2, CheckOutcomes, AcceptedIsAnchored
      <4>2. UNCHANGED <<try, ver, anchored, strayed>>
        BY <2>6, CheckOutcomes
      <4>3. /\ Anchored(bundle.signals.root, bundle.signals.epoch)'
            /\ bundle'.signals.root.left = bundle'.signals.key
            /\ bundle'.signals.key.by = try'
        BY <3>2, <4>1, <4>2 DEF Anchored, Paired, Epoch, RootAt, MyLeaf
      <4>4. NewBundle # NoBundle
        BY DEF NewBundle, Bundle, NoBundle
      <4>5. pc' = "idle" \/ (pc' = "rotatepost" /\ ver = 0 /\ NewBundle.signals.key.ver = 0)
        <5>1. MyLeaf.ver = ver
          BY DEF MyLeaf
        <5>2. pc' = "idle" \/ (pc' = "rotatepost" /\ ver = 0)
          BY <2>6, CheckOutcomes, <4>4, <3>2
        <5> QED BY <4>1, <5>1, <5>2
      <4> QED BY <3>2, <4>2, <4>3, <4>4, <4>5 DEF BundleInv
    <3> QED BY <2>6, <3>1, <3>2, CheckOutcomes
  <2>7. CASE RecordSeen
    <3>1. UNCHANGED <<bundle, try, ver>> /\ pc = "record" /\ pc' = "newroot"
      BY <2>7 DEF RecordSeen
    <3> QED BY <1>1, <3>1
  <2>8. CASE NewRootSeen
    <3>1. UNCHANGED <<bundle, try>> /\ pc = "newroot" /\ pc' \in {"idle", "ask"}
      BY <2>8 DEF NewRootSeen
    <3> QED BY <1>1, <3>1
  <2> QED BY <1>3, <2>1, <2>2, <2>3, <2>4, <2>5, <2>6, <2>7, <2>8 DEF ClientStep
<1> DEFINE Aside == UNCHANGED <<pc, bundle, try, ver>>
<1>4. Aside => BundleInv'
  BY <1>1
<1>5. CASE ServiceStep
  <2>1. ASSUME NEW m \in posts, TakeRegister(m) \/ TakeRotate(m)
        PROVE  Aside
    BY <2>1 DEF TakeRegister, TakeRotate
  <2>2. ASSUME NEW j \in jobs, MineRegister(j) \/ Settle(j) \/ MineRotate(j)
        PROVE  Aside
    BY <2>2 DEF MineRegister, Settle, MineRotate
  <2>3. ASSUME NEW w \in Identities, StartPass(w)
        PROVE  Aside
    BY <2>3 DEF StartPass
  <2>4. EndPass => Aside
    BY DEF EndPass
  <2> QED BY <1>4, <1>5, <2>1, <2>2, <2>3, <2>4 DEF ServiceStep
<1>6. CASE Misfortune
  <2> USE DEF End
  <2>1. ASSUME NEW m \in posts, PostLost(m)
        PROVE  Aside
    BY <2>1 DEF PostLost
  <2>2. ASSUME NEW j \in jobs, TxFails(j)
        PROVE  Aside
    BY <2>2 DEF TxFails
  <2>3. CASE GetFails
    <3>1. /\ UNCHANGED <<bundle, try, ver>> /\ pc' \in {"ask", "poll"}
          /\ pc \in {"ask", "root", "path", "leaf"}
      BY <2>3 DEF GetFails, Retry
    <3> QED BY <1>1, <3>1
  <2>4. CASE DeadlinePasses
    <3>1. /\ UNCHANGED <<bundle, try, ver>> /\ pc' \in {"idle", "poll", "record"}
          /\ pc # "idle" /\ (pc' = "record" => pc = "rotatepost")
      BY <2>4 DEF DeadlinePasses
    <3> QED BY <1>1, <3>1
  <2>5. CASE ClientDies
    <3>1. UNCHANGED <<bundle, try, ver>> /\ pc' = "idle"
      BY <2>5 DEF ClientDies
    <3> QED BY <1>1, <3>1
  <2>6. OtherIdentity \/ GoesBack \/ EndPassMixed => Aside
    BY DEF OtherIdentity, GoesBack, EndPassMixed
  <2> QED BY <1>4, <1>6, <2>1, <2>2, <2>3, <2>4, <2>5, <2>6 DEF Misfortune
<1>7. CASE UNCHANGED vars
  BY <1>4, <1>7
<1> QED BY <1>2, <1>3, <1>5, <1>6, <1>7 DEF Next

\* A bundle is retired only when the tree has the rotated leaf.
LEMMA RetiredStep ==
    ASSUME ShapeInv, BoardInv, BundleInv, RetiredInv, [Next]_vars
    PROVE  RetiredInv'
<1> USE DEF vars, client, board, queues, round, serviceFrame
<1>0. Forward' => Forward
  BY StrayedStays
<1> DEFINE Rotated == pc = "newroot" \/ (pc # "idle" /\ ver = 1)
<1>1. ASSUME UNCHANGED retired, Rotated' => Rotated
      PROVE  RetiredInv'
  <2>1. Forward' /\ (Rotated' \/ retired' # {}) => tree'.me.ver = 1
    BY <1>0, <1>1, RotatedStays DEF RetiredInv
  <2>2. \A b \in retired' : b.signals.root.left.ver = 0
    BY <1>1 DEF RetiredInv
  <2> QED BY <2>1, <2>2 DEF RetiredInv
<1>2. CASE Operator
  <2>1. UNCHANGED retired /\ pc' = "post" /\ ver' = 0
    BY <1>2 DEF Operator, StartRun
  <2> QED BY <1>1, <2>1
<1>3. CASE ClientStep
  <2> USE DEF Throws, Goes, Fetches, End
  <2>1. CASE PostAnswered
    <3>1. /\ UNCHANGED <<retired, ver>> /\ pc # "idle" /\ pc' # "newroot"
      BY <2>1 DEF PostAnswered
    <3> QED BY <1>1, <3>1
  <2>2. CASE Poll
    <3>1. UNCHANGED <<retired, ver>> /\ pc = "poll" /\ pc' # "newroot"
      BY <2>2 DEF Poll
    <3> QED BY <1>1, <3>1
  <2>3. CASE Ask
    <3>1. UNCHANGED <<retired, ver>> /\ pc = "ask" /\ pc' # "newroot"
      BY <2>3 DEF Ask, Retry
    <3> QED BY <1>1, <3>1
  <2>4. CASE GetRoot \/ GetPath \/ GetLeaf
    <3>1. /\ UNCHANGED <<retired, ver>> /\ pc # "idle" /\ pc' # "newroot"
      BY <2>4 DEF GetRoot, GetPath, GetLeaf
    <3> QED BY <1>1, <3>1
  <2>5. CASE FastGivesUp
    <3>1. UNCHANGED <<retired, ver>> /\ pc = "ask" /\ pc' # "newroot"
      BY <2>5 DEF FastGivesUp
    <3> QED BY <1>1, <3>1
  <2>6. CASE Check
    <3>1. CASE UNCHANGED retired
      BY <1>1, <2>6, <3>1, CheckOutcomes
    <3>2. CASE retired' = retired \cup {bundle} /\ ver = 1 /\ pc' = "idle"
      <4>1. /\ pc = "check" /\ bundle # NoBundle
        BY <2>6, <3>2, CheckOutcomes DEF BundleInv
      <4>2. bundle.signals.root.left.ver = 0
        BY <4>1 DEF BundleInv
      <4>3. Forward' => tree'.me.ver = 1
        BY <1>0, <3>2, <4>1, RotatedStays DEF RetiredInv
      <4> QED BY <3>2, <4>2, <4>3 DEF RetiredInv
    <3> QED BY <2>6, <3>1, <3>2, CheckOutcomes
  <2>7. CASE RecordSeen
    <3>1. UNCHANGED <<retired, ver, tree>> /\ pc = "record" /\ tree.me.ver >= 1
      BY <2>7 DEF RecordSeen, Fresh
    <3>2. tree'.me.ver = 1
      BY <3>1 DEF BoardInv, TreeSet, Leaf, NoLeaf
    <3> QED BY <3>1, <3>2 DEF RetiredInv
  <2>8. CASE NewRootSeen
    <3>1. UNCHANGED retired /\ pc = "newroot"
      BY <2>8 DEF NewRootSeen
    <3> QED BY <1>1, <3>1
  <2> QED BY <1>3, <2>1, <2>2, <2>3, <2>4, <2>5, <2>6, <2>7, <2>8 DEF ClientStep
<1> DEFINE Aside == UNCHANGED <<pc, retired, ver>>
<1>4. Aside => RetiredInv'
  BY <1>1
<1>5. CASE ServiceStep
  <2>1. ASSUME NEW m \in posts, TakeRegister(m) \/ TakeRotate(m)
        PROVE  Aside
    BY <2>1 DEF TakeRegister, TakeRotate
  <2>2. ASSUME NEW j \in jobs, MineRegister(j) \/ Settle(j) \/ MineRotate(j)
        PROVE  Aside
    BY <2>2 DEF MineRegister, Settle, MineRotate
  <2>3. ASSUME NEW w \in Identities, StartPass(w)
        PROVE  Aside
    BY <2>3 DEF StartPass
  <2>4. EndPass => Aside
    BY DEF EndPass
  <2> QED BY <1>4, <1>5, <2>1, <2>2, <2>3, <2>4 DEF ServiceStep
<1>6. CASE Misfortune
  <2> USE DEF End
  <2>1. ASSUME NEW m \in posts, PostLost(m)
        PROVE  Aside
    BY <2>1 DEF PostLost
  <2>2. ASSUME NEW j \in jobs, TxFails(j)
        PROVE  Aside
    BY <2>2 DEF TxFails
  <2>3. CASE GetFails \/ DeadlinePasses \/ ClientDies
    <3>1. UNCHANGED <<retired, ver>> /\ pc # "idle" /\ pc' # "newroot"
      BY <2>3 DEF GetFails, Retry, DeadlinePasses, ClientDies
    <3> QED BY <1>1, <3>1
  <2>4. OtherIdentity \/ GoesBack \/ EndPassMixed => Aside
    BY DEF OtherIdentity, GoesBack, EndPassMixed
  <2> QED BY <1>4, <1>6, <2>1, <2>2, <2>3, <2>4 DEF Misfortune
<1>7. CASE UNCHANGED vars
  BY <1>4, <1>7
<1> QED BY <1>2, <1>3, <1>5, <1>6, <1>7 DEF Next

-----------------------------------------------------------------------------
(* The theorems. *)

\* The initial states.
LEMMA InitInv == Init => IInv
<1> SUFFICES ASSUME Init PROVE IInv
  OBVIOUS
<1>1. ShapeInv
  BY DEF Init, ShapeInv
<1>2. tree \in TreeSet /\ records \in TreeSet /\ tree.me.ver <= records.me.ver
  BY DEF Init, TreeSet, NoLeaf
<1>3. BoardInv
  BY <1>2 DEF Init, BoardInv, Epoch, Paired
<1>4. AnswerInv /\ SeenInv
  BY DEF Init, AnswerInv, NoAnswer, Plain, SeenInv, Nothing
<1>5. BundleInv /\ RetiredInv
  BY DEF Init, BundleInv, RetiredInv
<1> QED BY <1>1, <1>3, <1>4, <1>5 DEF IInv

\* The invariant has the types.
LEMMA InvIsTypeOK == IInv => TypeOK
<1> SUFFICES ASSUME IInv PROVE TypeOK
  OBVIOUS
<1>1. answer.is \in {"none", "ok", "ready", "error"} /\ answer.epoch \in Nat
  <2>1. Epoch \in Nat
    BY DEF IInv, BoardInv, Epoch
  <2> QED BY <2>1 DEF IInv, AnswerInv, Anchored, Plain
<1>2. /\ records.me \in Leaf \cup {NoLeaf} /\ records.other \in Nat
      /\ tree.me \in Leaf \cup {NoLeaf} /\ tree.other \in Nat
      /\ Len(anchored) > 0 /\ ("mixed" \notin strayed => anchored[Epoch] = tree)
  BY DEF IInv, BoardInv, TreeSet, Epoch, Paired
<1> QED BY <1>1, <1>2 DEF IInv, ShapeInv, SeenInv, TypeOK

\* A retired bundle's root has the old leaf, the served root the new one.
LEMMA InvOldBundleDies == IInv => OldBundleDies
<1> SUFFICES ASSUME Forward, IInv, NEW b \in retired
             PROVE  ~StillAccepted(b, ServedRoot)
  BY DEF OldBundleDies, Forward
<1>1. ServedRoot.left.ver = 1 /\ b.signals.root.left.ver = 0
  BY DEF IInv, RetiredInv, ServedRoot, RootOf, Hash2
<1> QED BY <1>1 DEF StillAccepted, VerifyError

\* The invariant of the client, its service and the board, with what holds
\* only as long as the service did not stray.
THEOREM Invariance == Spec => []IInv
<1>1. Init => IInv
  BY InitInv
<1>2. IInv /\ [Next]_vars => IInv'
  BY ShapeStep, BoardStep, AnswerStep, SeenStep, BundleStep, RetiredStep DEF IInv
<1> QED BY <1>1, <1>2, PTL DEF Spec

\* The variables keep their types; the last anchored tree is the served one
\* as long as no root was served with another's epoch.
THEOREM TypeCorrect == Spec => []TypeOK
BY Invariance, InvIsTypeOK, PTL

\* run_one_zk_auth_round: an accepted bundle is about one tree that was on the
\* board at its epoch and had the run's leaf, whatever happened between the
\* requests of materialize_ready_snapshot_outputs, as long as the service
\* served no root with the epoch of another.
THEOREM BundlesAreAnchored == Spec => []BundleIsAnchored
<1>1. IInv => BundleIsAnchored
  BY DEF IInv, BundleInv, BundleIsAnchored, Anchored, Paired
<1> QED BY <1>1, Invariance, PTL

\* run_zk_recovery_e2e: a bundle made with keys that were replaced is not
\* accepted for any root served from then on, as long as the service took no
\* older leaf of the identity back into its tree.
THEOREM OldBundlesDie == Spec => []OldBundleDies
BY InvOldBundleDies, Invariance, PTL

-----------------------------------------------------------------------------
(* The first run of an identity while nothing goes wrong. *)

\* Requests, jobs and the record come from runs that were started, and a
\* rotation is worked on only for the run that has the record.
ByInv ==
    /\ records.me.by <= try
    /\ \A m \in posts \cup jobs : m.by <= try
    /\ \A j \in jobs : j.kind = "rotate" => j.by = records.me.by

\* Nothing is waited for: there are at most settlements answered before.
Quiet == posts = {} /\ \A j \in jobs : IsLate(j)
MineAt(v) == records.me = [by |-> try, ver |-> v]
Caught == tree.me = records.me

\* The registration is on its way, worked on, waiting for the tree, or answered.
Registering ==
    /\ ver = 0 /\ ~rotating
    /\ \/ /\ answer.is = "none" /\ op = "none" /\ records.me = NoLeaf
          /\ jobs = {} /\ \E m : posts = {m} /\ m.kind = "register" /\ m.by = try
       \/ /\ answer.is = "none" /\ op # "none" /\ records.me = NoLeaf
          /\ posts = {} /\ \E j : jobs = {j} /\ j.kind = "register" /\ j.by = try
       \/ /\ answer.is = "none" /\ op # "none" /\ MineAt(0)
          /\ posts = {} /\ \E j : jobs = {j} /\ j.kind = "settle" /\ j.wait /\ j.by = try
       \/ /\ answer.is \in {"ok", "ready"} /\ op # "none" /\ MineAt(0) /\ Quiet
          /\ answer.is = "ready" => Caught /\ answer.root = RootOf(records)

\* Nothing is under way but passes; once the snapshot was ready not even those,
\* and what is fetched is the tree with the record.
Proving ==
    /\ op # "none" /\ MineAt(ver) /\ Quiet
    /\ ver = 0 => ~rotating
    /\ pc = "poll" => ver = 0
    /\ fast => ver = 0 /\ Caught /\ answer.root = RootOf(records)
    /\ pc \in {"root", "path", "leaf", "check"} => Caught /\ pass = "none"
    /\ pc \in {"path", "leaf", "check"} => seen.root = RootOf(records)
    /\ pc \in {"leaf", "check"} =>
           seen.path = [root |-> RootOf(records), elements |-> <<0>>, index |-> <<0>>]
    /\ pc = "check" => seen.leaf = MyLeaf

\* The rotation is on its way, worked on, or answered.
Rotating ==
    /\ op # "none" /\ ver = 0
    /\ \/ /\ answer.is = "none" /\ MineAt(0) /\ ~rotating
          /\ \A i \in jobs : IsLate(i)
          /\ \E m : posts = {m} /\ m.kind = "rotate" /\ m.by = try
       \/ /\ answer.is = "none" /\ MineAt(0) /\ posts = {}
          /\ \E j \in jobs : /\ j.kind = "rotate" /\ j.by = try
                            /\ \A i \in jobs \ {j} : IsLate(i)
       \/ answer.is = "ok" /\ MineAt(1) /\ Quiet

Unused ==
    /\ answer.is = "none" /\ posts = {} /\ jobs = {} /\ op = "none" /\ ~rotating
    /\ records.me = NoLeaf

Honest ==
    /\ exit # "failed" /\ op # "failed"
    /\ records.other = 0 /\ tree.other = 0 /\ sibling = 0
    /\ pass \notin {"other", "back"} /\ anchored[Len(anchored)] = tree
    /\ pc = "idle" => IF try = 0 THEN Unused ELSE records.me.by = try
    /\ pc = "post" => Registering
    /\ pc \in {"poll", "ask", "root", "path", "leaf", "check"} => Proving
    /\ pc = "rotatepost" => Rotating
    /\ pc \in {"record", "newroot"} => op # "none" /\ MineAt(1) /\ Quiet /\ ver = 0
    /\ pc = "newroot" => Caught

\* Nothing went wrong so far and nobody else has registered the identity.
Calm == faults = 0 /\ records.me.by \in {0, try}

CalmInv == ByInv /\ (Calm => Honest)

\* Who changes the record, the run and the queues.
LEMMA ByStep ==
    ASSUME IInv, ByInv, [Next]_vars
    PROVE  ByInv'
<1> USE DEF vars, client, board, queues, round, serviceFrame
<1>t. /\ try \in Nat /\ records \in TreeSet /\ posts \subseteq Requests /\ jobs \subseteq Requests
      /\ \A m \in Requests : m.by \in Nat \ {0}
      /\ records.me.by \in Nat
      /\ records.me.by <= try
      /\ \A m \in posts \cup jobs : m.by <= try
      /\ \A j \in jobs : j.kind = "rotate" => j.by = records.me.by
  BY DEF IInv, ShapeInv, BoardInv, TreeSet, Leaf, NoLeaf, Tries, Requests, ByInv
<1>1. CASE Operator
  <2>1. PICK m \in {"auth", "recovery"}, wait \in BOOLEAN : StartRun(m, wait)
    BY <1>1 DEF Operator
  <2>2. /\ try' = try + 1 /\ UNCHANGED <<records, jobs>>
        /\ posts' = posts \cup {[kind |-> "register", by |-> try + 1, wait |-> wait]}
    BY <2>1 DEF StartRun
  <2>3. \A n \in Nat : n <= try => n <= try + 1
    BY <1>t
  <2> QED
    BY <1>t, <2>2, <2>3 DEF ByInv
<1>2. CASE ClientStep
  <2>1. CASE Check
    <3>1. UNCHANGED <<try, records, jobs>>
      BY <2>1 DEF Check, Throws, End
    <3>2. \A m \in posts' : m \in posts \/ m.by = try
      BY <2>1 DEF Check, Throws, End
    <3> QED
      BY <1>t, <3>1, <3>2 DEF ByInv
  <2>2. CASE ~Check
    <3>1. UNCHANGED <<try, records, posts, jobs>>
      BY <1>2, <2>2 DEF ClientStep, PostAnswered, Poll, Ask, GetRoot, GetPath, GetLeaf,
         FastGivesUp, RecordSeen, NewRootSeen, Throws, Goes, Fetches, End
    <3> QED
      BY <3>1 DEF ByInv
  <2> QED
    BY <2>1, <2>2
<1>3. CASE ServiceStep
  <2>1. ASSUME NEW m \in posts, TakeRegister(m)
        PROVE  ByInv'
    <3>1. /\ UNCHANGED <<try, records>> /\ posts' \subseteq posts
          /\ jobs' \subseteq jobs \cup {m} /\ m.kind = "register"
      BY <2>1 DEF TakeRegister
    <3> QED
      BY <1>t, <3>1 DEF ByInv
  <2>2. ASSUME NEW m \in posts, TakeRotate(m)
        PROVE  ByInv'
    <3>1. /\ UNCHANGED <<try, records>> /\ posts' \subseteq posts
          /\ jobs' = jobs \/ (jobs' = jobs \cup {m} /\ records.me.by = m.by)
      BY <2>2 DEF TakeRotate
    <3> QED
      BY <1>t, <3>1 DEF ByInv
  <2>3. ASSUME NEW j \in jobs, MineRegister(j)
        PROVE  ByInv'
    <3>1. /\ UNCHANGED <<try, posts>>
          /\ \A x \in jobs' : \/ x \in jobs
                              \/ \E w : x = [j EXCEPT !.kind = "settle", !.wait = w]
      BY <2>3 DEF MineRegister
    <3>2. \A x \in jobs' : x \in jobs \/ (x.kind = "settle" /\ x.by = j.by)
      BY <1>t, <3>1 DEF Requests
    <3>3. CASE records.me = NoLeaf
      <4>1. records'.me.by = j.by
        BY <1>t, <2>3, <3>3 DEF MineRegister, TreeSet
      <4>2. \A x \in jobs : x.kind # "rotate"
        BY <1>t, <3>3 DEF NoLeaf
      <4> QED
        BY <1>t, <3>1, <3>2, <4>1, <4>2 DEF ByInv
    <3>4. CASE records.me # NoLeaf
      <4>1. UNCHANGED records
        BY <2>3, <3>4 DEF MineRegister
      <4> QED
        BY <1>t, <3>1, <3>2, <4>1 DEF ByInv
    <3> QED
      BY <3>3, <3>4
  <2>4. ASSUME NEW j \in jobs, Settle(j)
        PROVE  ByInv'
    <3>1. UNCHANGED <<try, records, posts>> /\ jobs' \subseteq jobs
      BY <2>4 DEF Settle
    <3> QED
      BY <1>t, <3>1 DEF ByInv
  <2>5. ASSUME NEW j \in jobs, MineRotate(j)
        PROVE  ByInv'
    <3>1. UNCHANGED <<try, posts>> /\ jobs' \subseteq jobs /\ j.kind = "rotate"
      BY <2>5 DEF MineRotate
    <3>2. records'.me.by = j.by /\ j.by = records.me.by
      BY <1>t, <2>5, <3>1 DEF MineRotate, TreeSet
    <3> QED
      BY <1>t, <3>1, <3>2 DEF ByInv
  <2>6. ASSUME NEW w \in Identities, StartPass(w)
        PROVE  ByInv'
    BY <2>6 DEF StartPass, ByInv
  <2>7. CASE EndPass
    BY <2>7 DEF EndPass, ByInv
  <2> QED
    BY <1>3, <2>1, <2>2, <2>3, <2>4, <2>5, <2>6, <2>7 DEF ServiceStep
<1>4. CASE Misfortune
  <2>1. UNCHANGED try /\ posts' \subseteq posts /\ jobs' \subseteq jobs
    BY <1>4 DEF Misfortune, GetFails, DeadlinePasses, ClientDies, OtherIdentity, GoesBack,
       EndPassMixed, PostLost, TxFails, End
  <2>2. records'.me = records.me
    <3>1. CASE OtherIdentity
      BY <1>t, <3>1 DEF OtherIdentity, TreeSet
    <3>2. CASE ~OtherIdentity
      BY <1>4, <3>2 DEF Misfortune, GetFails, DeadlinePasses, ClientDies, GoesBack,
         EndPassMixed, PostLost, TxFails, End
    <3> QED
      BY <3>1, <3>2
  <2> QED
    BY <1>t, <2>1, <2>2 DEF ByInv
<1>5. CASE UNCHANGED vars
  BY <1>5 DEF ByInv
<1> QED
  BY <1>1, <1>2, <1>3, <1>4, <1>5 DEF Next

\* What an honest state looks like to the rest of the invariant.
LEMMA HonestFacts ==
    ASSUME IInv, ByInv, Honest
    PROVE  /\ try \in Nat /\ ver \in {0, 1} /\ faults \in Nat
           /\ pc \in {"idle", "post", "poll", "ask", "root", "path", "leaf", "check",
                      "rotatepost", "record", "newroot"}
           /\ pc # "idle" => try # 0
           /\ records \in TreeSet /\ tree \in TreeSet
           /\ pass \in {"none", "me"}
           /\ op \in {"none", "pending", "ready"}
           /\ Caught => tree = records
           /\ fast => pc \in {"ask", "root", "path", "leaf", "check"}
           /\ NoLeaf.by = 0
<1>1. records \in TreeSet /\ tree \in TreeSet /\ records.other = 0 /\ tree.other = 0
  BY DEF IInv, BoardInv, Honest
<1>2. Caught => tree = records
  BY <1>1 DEF Caught, TreeSet
<1> QED
  BY <1>1, <1>2 DEF IInv, ShapeInv, AnswerInv, Honest, Tries, Identities, NoLeaf

\* At the end of an honest round the bundle is accepted.
LEMMA HonestProof ==
    ASSUME IInv, ByInv, Honest, pc = "check"
    PROVE  LocalChecks /\ Accepted
<1>1. /\ MineAt(ver) /\ Caught /\ seen.leaf = MyLeaf
      /\ fast => answer.root = RootOf(records)
      /\ seen.root = RootOf(records)
      /\ seen.path = [root |-> RootOf(records), elements |-> <<0>>, index |-> <<0>>]
  BY DEF Honest, Proving
<1>2. RootOf(records) = Hash2(MyLeaf, 0)
  BY <1>1 DEF RootOf, MineAt, MyLeaf, Honest
<1>3. RootFromPath(MyLeaf, seen.path) = RootOf(records)
  BY <1>1, <1>2, OneStepPath
<1>4. PathValid(seen.path)
  BY <1>1 DEF PathValid
<1>5. seen.path.root = RootOf(records)
  BY <1>1
<1> QED
  BY <1>1, <1>3, <1>4, <1>5 DEF LocalChecks, Accepted, PathFits, NewBundle, Bundle, Signals,
     MySession, Session, VerifyError

\* While a recovery waits for a new root the served one is not that of its bundle.
LEMMA OldBundleRejected ==
    ASSUME IInv, Honest, pc = "newroot"
    PROVE  bundle # NoBundle /\ ServedRoot # bundle.signals.root
<1>1. ServedRoot.left = [by |-> try, ver |-> 1]
  BY DEF Honest, Caught, MineAt, ServedRoot, RootOf, Hash2
<1>2. bundle # NoBundle /\ bundle.signals.root.left.ver = 0
  BY DEF IInv, BundleInv
<1> QED
  BY <1>1, <1>2

\* Steps of the client.
LEMMA HonestClient ==
    ASSUME IInv, ByInv, Honest, ClientStep
    PROVE  Honest'
<1> USE HonestFacts DEF board, queues, round
<1>1. CASE PostAnswered
  <2>1. CASE pc = "post"
    <3>1. answer.is # "error"
      BY <1>1, <2>1 DEF PostAnswered, Honest, Registering
    <3> QED
      BY <1>1, <2>1, <3>1 DEF PostAnswered, Honest, Registering, Proving, Quiet, MineAt, Caught, RootOf
  <2>2. CASE pc = "rotatepost"
    BY <1>1, <2>2 DEF PostAnswered, Honest, Rotating, Quiet, MineAt
  <2> QED
    BY <1>1, <2>1, <2>2 DEF PostAnswered
<1>2. CASE Poll
  <2>1. /\ pc = "poll" /\ Proving
        /\ op' \in {"pending", "ready"} /\ pc' \in {"ask", "poll"}
        /\ UNCHANGED <<try, ver, fast, answer, exit, board, posts, jobs, rotating>>
    BY <1>2 DEF Poll, Refreshed, Honest
  <2> QED
    BY <2>1 DEF Honest, Proving, Quiet, MineAt, Caught, RootOf
<1>3. CASE Ask
  <2>1. /\ pc = "ask" /\ Proving /\ pass = "none" /\ Caught
        /\ UNCHANGED <<round, answer, exit, board, queues>>
        /\ pc' \in {"root", "ask", "poll"} /\ (pc' = "poll" => ver # 1)
    BY <1>3 DEF Ask, Goes, Retry, Fresh, Honest, Caught
  <2> QED
    BY <2>1 DEF Honest, Proving, Quiet, MineAt, Caught, RootOf
<1>4. CASE GetRoot
  <2>1. /\ pc = "root" /\ Proving /\ pc' = "path" /\ seen'.root = RootOf(tree)
        /\ UNCHANGED <<round, answer, exit, board, queues>>
    BY <1>4 DEF GetRoot, Fetches, Honest, ServedRoot
  <2> QED
    BY <2>1 DEF Honest, Proving, Quiet, MineAt, Caught, RootOf
<1>5. CASE GetPath
  <2>1. /\ pc = "path" /\ Proving /\ pc' = "leaf" /\ seen'.root = seen.root
        /\ seen'.path = [root |-> RootOf(tree), elements |-> <<sibling>>, index |-> <<0>>]
        /\ UNCHANGED <<round, answer, exit, board, queues>>
    BY <1>5 DEF GetPath, CachedPath, Fetches, Honest, ServedRoot
  <2>2. tree = records /\ sibling = 0
    BY <2>1 DEF Proving, Honest
  <2> QED
    BY <2>1, <2>2 DEF Honest, Proving, Quiet, MineAt, Caught, RootOf
<1>6. CASE GetLeaf
  <2>1. /\ pc = "leaf" /\ Proving /\ pc' = "check" /\ seen'.path = seen.path
        /\ seen'.leaf = tree.me
        /\ seen'.root = IF fast THEN answer.root ELSE seen.root
        /\ UNCHANGED <<round, answer, exit, board, queues>>
    BY <1>6 DEF GetLeaf, ChosenRoot, Fetches, Honest
  <2>2. seen'.root = RootOf(records) /\ tree.me = MyLeaf
    BY <2>1 DEF Proving, MineAt, Caught, MyLeaf
  <2> QED
    BY <2>1, <2>2 DEF Honest, Proving, Quiet, MineAt, Caught, RootOf, MyLeaf
<1>7. CASE FastGivesUp
  BY <1>7 DEF FastGivesUp, Honest, Proving, Quiet, MineAt, Caught, RootOf
<1>8. CASE Check
  <2>1. pc = "check" /\ Proving /\ Accepted /\ LocalChecks /\ exit # "failed"
    BY <1>8, HonestProof DEF Check, Honest
  <2>2. \/ /\ posts' = {[kind |-> "rotate", by |-> try, wait |-> FALSE]} /\ ver = 0
           /\ pc' = "rotatepost" /\ answer' = NoAnswer /\ UNCHANGED exit
        \/ pc' = "idle" /\ exit' = "ok" /\ UNCHANGED posts
    BY <1>8, <2>1 DEF Check, End, Proving, Quiet
  <2>3. UNCHANGED <<try, ver, board, jobs, op, rotating>>
    BY <1>8, <2>1 DEF Check, End
  <2>4. CASE pc' = "rotatepost"
    <3> DEFINE r == [kind |-> "rotate", by |-> try, wait |-> FALSE]
    <3>1. posts' = {r} /\ r.kind = "rotate" /\ r.by = try' /\ answer'.is = "none"
      BY <2>2, <2>3, <2>4 DEF NoAnswer
    <3> HIDE DEF r
    <3>2. Rotating'
      BY <2>1, <2>2, <2>3, <2>4, <3>1 DEF Proving, Rotating, Quiet, MineAt
    <3> QED
      BY <2>2, <2>3, <2>4, <3>2 DEF Honest
  <2>5. CASE pc' = "idle"
    BY <2>1, <2>2, <2>3, <2>5 DEF Honest, Proving, MineAt
  <2> QED
    BY <2>2, <2>4, <2>5
<1>9. CASE RecordSeen
  BY <1>9 DEF RecordSeen, Fresh, Caught, Goes, Honest, Quiet, MineAt
<1>10. CASE NewRootSeen
  <2>1. pc = "newroot" /\ ~StillAccepted(bundle, ServedRoot)
    BY <1>10, OldBundleRejected DEF NewRootSeen, StillAccepted, VerifyError
  <2>2. UNCHANGED exit
    BY <1>10, <2>1 DEF NewRootSeen
  <2> QED
    BY <1>10, <2>1, <2>2 DEF NewRootSeen, Honest, Proving, Quiet, MineAt
<1> QED
  BY <1>1, <1>2, <1>3, <1>4, <1>5, <1>6, <1>7, <1>8, <1>9, <1>10 DEF ClientStep

\* Steps of the service: there is one request at a time, and no record but
\* that of the run is taken into the tree.
LEMMA HonestService ==
    ASSUME IInv, ByInv, Honest, ServiceStep
    PROVE  Honest'
<1> USE HonestFacts DEF board, queues, round, client, serviceFrame
<1>1. ASSUME NEW m \in posts, TakeRegister(m)
      PROVE  Honest'
  <2>1. /\ m.kind = "register" /\ posts' = posts \ {m}
        /\ op' \in {"pending", "ready"}
        /\ UNCHANGED <<pc, try, ver, fast, exit, seen, board, rotating>>
    BY <1>1 DEF TakeRegister, Refreshed, Honest
  <2>2. CASE pc = "idle"
    BY <2>1, <2>2 DEF Honest, Unused, Quiet
  <2>3. CASE pc = "post"
    <3>1. op = "none" /\ posts = {m} /\ jobs = {} /\ m.by = try
      BY <2>1, <2>3 DEF Honest, Registering, Quiet
    <3>2. jobs' = {m} /\ posts' = {} /\ UNCHANGED answer
      BY <1>1, <2>1, <3>1 DEF TakeRegister
    <3> QED
      BY <2>1, <2>3, <3>1, <3>2 DEF Honest, Registering, MineAt, Quiet
  <2> QED
    BY <2>1, <2>2, <2>3 DEF Honest, Proving, Rotating, Quiet
<1>2. ASSUME NEW m \in posts, TakeRotate(m)
      PROVE  Honest'
  <2>1. /\ m.kind = "rotate"
        /\ UNCHANGED <<pc, try, ver, fast, exit, seen, board, op>>
    BY <1>2 DEF TakeRotate
  <2>2. CASE pc = "idle"
    BY <2>1, <2>2 DEF Honest, Unused, Quiet
  <2>3. CASE pc = "rotatepost"
    <3>1. /\ posts = {m} /\ m.by = try /\ ~rotating /\ MineAt(0) /\ answer.is = "none"
          /\ \A i \in jobs : IsLate(i)
      BY <2>1, <2>3 DEF Honest, Rotating, Quiet
    <3>2. jobs' = jobs \cup {m} /\ posts' = {} /\ UNCHANGED answer
      BY <1>2, <2>1, <3>1 DEF TakeRotate, MineAt
    <3> QED
      BY <2>1, <2>3, <3>1, <3>2 DEF Honest, Rotating, MineAt, Quiet
  <2> QED
    BY <2>1, <2>2, <2>3 DEF Honest, Registering, Proving, Quiet
<1>3. ASSUME NEW j \in jobs, MineRegister(j)
      PROVE  Honest'
  <2>1. /\ j.kind = "register"
        /\ UNCHANGED <<pc, try, ver, fast, exit, seen, tree, anchored, sibling, pass, posts,
                       op, rotating>>
        /\ records' = IF records.me = NoLeaf
                      THEN [records EXCEPT !.me = [by |-> j.by, ver |-> 0]] ELSE records
    BY <1>3 DEF MineRegister
  <2>2. CASE pc = "idle"
    BY <2>1, <2>2 DEF Honest, Unused, Quiet
  <2>3. CASE pc = "post"
    <3>1. /\ posts = {} /\ jobs = {j} /\ j.by = try /\ records.me = NoLeaf
          /\ op # "none" /\ answer.is = "none" /\ ver = 0 /\ ~rotating
      BY <2>1, <2>3 DEF Honest, Registering, Quiet, IsLate
    <3>2. MineAt(0)' /\ records'.other = 0
      BY <2>1, <3>1 DEF MineAt, TreeSet, Honest
    <3>3. CASE j.wait
      <4> DEFINE k == [j EXCEPT !.kind = "settle", !.wait = TRUE]
      <4>1. jobs' = {k} /\ UNCHANGED answer
        BY <1>3, <3>1, <3>3 DEF MineRegister, IInv, ShapeInv, Requests
      <4>2. k.kind = "settle" /\ k.wait /\ k.by = try
        BY <3>1 DEF IInv, ShapeInv, Requests
      <4> HIDE DEF k
      <4> QED
        BY <2>1, <2>3, <3>1, <3>2, <4>1, <4>2 DEF Honest, Registering
    <3>4. CASE ~j.wait
      <4> DEFINE k == [j EXCEPT !.kind = "settle", !.wait = FALSE]
      <4>1. jobs' = {k} /\ answer' = Plain("ok")
        BY <1>3, <2>1, <2>3, <3>1, <3>4 DEF MineRegister, Reply, IInv, ShapeInv, Requests
      <4>2. IsLate(k)
        BY DEF IsLate, IInv, ShapeInv, Requests
      <4> HIDE DEF k
      <4> QED
        BY <2>1, <2>3, <3>1, <3>2, <4>1, <4>2 DEF Honest, Registering, Plain, Quiet
    <3> QED
      BY <3>3, <3>4
  <2> QED
    BY <2>1, <2>2, <2>3 DEF Honest, Proving, Rotating, Quiet, IsLate
<1>4. ASSUME NEW j \in jobs, Settle(j)
      PROVE  Honest'
  <2>1. /\ j.kind = "settle" /\ Caught /\ op' = "ready" /\ jobs' = jobs \ {j}
        /\ UNCHANGED <<pc, try, ver, fast, exit, seen, board, posts, rotating>>
    BY <1>4 DEF Settle, Fresh, Caught
  <2>2. CASE pc = "idle"
    BY <2>1, <2>2 DEF Honest, Unused
  <2>3. CASE IsLate(j) /\ pc # "idle"
    <3>1. UNCHANGED answer
      BY <1>4, <2>3 DEF Settle, ReplyUnlessLate
    <3>2. j.kind # "rotate" /\ j.kind # "register" /\ ~j.wait
      BY <2>3 DEF IsLate
    <3>3. CASE pc = "post"
      <4>1. /\ op # "none" /\ answer.is \in {"ok", "ready"} /\ MineAt(0) /\ Quiet
            /\ answer.is = "ready" => Caught /\ answer.root = RootOf(records)
            /\ ver = 0 /\ ~rotating
        BY <2>1, <3>2, <3>3 DEF Honest, Registering
      <4>2. Registering'
        BY <2>1, <3>1, <4>1 DEF Registering, MineAt, Quiet, Caught, RootOf
      <4> QED
        BY <2>1, <3>3, <4>2 DEF Honest
    <3>4. CASE pc = "rotatepost"
      <4>1. Rotating /\ op' # "none"
        BY <2>1, <3>4 DEF Honest
      <4>2. Rotating'
        BY <2>1, <3>1, <3>2, <4>1 DEF Rotating, MineAt, Quiet
      <4> QED
        BY <2>1, <3>4, <4>2 DEF Honest
    <3>5. CASE pc \in {"record", "newroot"}
      BY <2>1, <3>5 DEF Honest, MineAt, Quiet, Caught
    <3>6. CASE pc \in {"poll", "ask", "root", "path", "leaf", "check"}
      <4>1. Proving'
        BY <2>1, <3>1, <3>6 DEF Honest, Proving, MineAt, Quiet, Caught, RootOf, MyLeaf
      <4> QED
        BY <2>1, <3>6, <4>1 DEF Honest
    <3> QED
      BY <2>3, <3>3, <3>4, <3>5, <3>6
  <2>4. CASE ~IsLate(j) /\ pc = "post"
    <3>1. posts = {} /\ jobs = {j} /\ j.by = try /\ MineAt(0) /\ ver = 0 /\ ~rotating
      BY <2>1, <2>4 DEF Honest, Registering, Quiet
    <3>2. jobs' = {} /\ answer' = ReadyAnswer
      BY <1>4, <2>1, <2>4, <3>1 DEF Settle, ReplyUnlessLate, Reply
    <3>3. answer'.is = "ready" /\ answer'.root = RootOf(records)
      BY <2>1, <3>2 DEF ReadyAnswer, ServedRoot
    <3> QED
      BY <2>1, <2>4, <3>1, <3>2, <3>3 DEF Honest, Registering, MineAt, Quiet, Caught, RootOf
  <2>5. CASE ~IsLate(j) /\ pc \notin {"idle", "post"}
    BY <2>1, <2>5 DEF Honest, Proving, Rotating, Quiet
  <2> QED
    BY <2>2, <2>3, <2>4, <2>5
<1>5. ASSUME NEW j \in jobs, MineRotate(j)
      PROVE  Honest'
  <2>1. /\ j.kind = "rotate"
        /\ UNCHANGED <<pc, try, ver, fast, exit, seen, tree, anchored, sibling, pass, posts,
                       op, rotating>>
        /\ records' = [records EXCEPT !.me = [by |-> j.by, ver |-> 1]]
    BY <1>5 DEF MineRotate
  <2>2. records'.other = 0 /\ records'.me = [by |-> j.by, ver |-> 1] /\ j.by = records.me.by
    BY <2>1 DEF TreeSet, Honest, ByInv
  <2>3. CASE pc = "idle"
    BY <2>1, <2>2, <2>3 DEF Honest, Unused, Quiet
  <2>4. CASE pc = "rotatepost"
    <3>1. posts = {} /\ j.by = try /\ \A i \in jobs \ {j} : IsLate(i)
      BY <2>1, <2>4 DEF Honest, Rotating, Quiet, IsLate
    <3>2. jobs' = jobs \ {j} /\ answer' = Plain("ok")
      BY <1>5, <2>1, <2>4, <3>1 DEF MineRotate, Reply
    <3> QED
      BY <2>1, <2>2, <2>4, <3>1, <3>2 DEF Honest, Rotating, Plain, Quiet, MineAt
  <2> QED
    BY <2>1, <2>3, <2>4 DEF Honest, Registering, Proving, Quiet, IsLate
<1>6. ASSUME NEW w \in Identities, StartPass(w)
      PROVE  Honest'
  <2>1. w = "me" /\ ~Caught
    BY <1>6 DEF StartPass, Epoch, Identities, Caught, Honest
  <2> QED
    BY <1>6, <2>1 DEF StartPass, Honest, Unused, Registering, Proving, Rotating, Quiet, MineAt, Caught, RootOf
<1>7. CASE EndPass
  <2>1. pass = "me" /\ tree' = [tree EXCEPT !.me = records.me]
    BY <1>7 DEF EndPass, TreeAfter
  <2>2. tree' = records
    BY <2>1 DEF TreeSet, Honest
  <2>4. anchored'[Len(anchored')] = tree'
    <3>1. anchored \in Seq(TreeSet) /\ records \in TreeSet
      BY DEF IInv, BoardInv
    <3>2. anchored' = Append(anchored, records)
      BY <1>7, <2>2 DEF EndPass, Pushed
    <3> QED
      BY <2>2, <3>1, <3>2
  <2>3. sibling' = 0 /\ pass' = "none" /\ UNCHANGED <<client, records, queues>>
    BY <1>7, <2>1, <2>2 DEF EndPass, Honest
  <2> QED
    BY <2>1, <2>2, <2>3, <2>4 DEF Honest, Unused, Registering, Proving, Rotating, Quiet, MineAt, Caught, RootOf
<1> QED
  BY <1>1, <1>2, <1>3, <1>4, <1>5, <1>6, <1>7 DEF ServiceStep

\* Without a misfortune a deadline passes only where an honest run does not wait.
LEMMA HonestHopes ==
    ASSUME IInv, ByInv, Honest, DeadlinePasses
    PROVE  Hope
<1> USE HonestFacts
<1> SUFFICES ASSUME Quiet, pass = "none", records = tree PROVE Hope
  BY DEF Hope, Quiet
<1>1. CASE pc \in {"ask", "poll"}
  <2>1. MineAt(ver) /\ op # "none"
    BY <1>1 DEF Honest, Proving
  <2>2. tree.me.by = try /\ tree.me.ver = ver /\ try # 0 /\ ver >= ver
    BY <1>1, <2>1 DEF MineAt
  <2>3. SnapshotReady
    BY <2>2 DEF SnapshotReady
  <2> QED
    BY <1>1, <2>1, <2>3 DEF Hope
<1>2. CASE pc = "record"
  BY <1>2 DEF Honest, MineAt, Hope
<1>3. CASE pc = "newroot"
  BY <1>3, OldBundleRejected DEF Hope, IsNewRoot
<1>4. CASE pc \in {"post", "rotatepost"} /\ answer.is = "none"
  BY <1>4 DEF Honest, Registering, Rotating, Quiet, IsLate
<1> QED
  BY <1>1, <1>2, <1>3, <1>4 DEF DeadlinePasses

\* A first run stays honest as long as nothing goes wrong.
LEMMA HonestStep ==
    ASSUME IInv, ByInv, Calm => Honest, [Next]_vars, Calm'
    PROVE  Honest'
<1>t. /\ faults \in Nat /\ try \in Nat /\ records \in TreeSet
      /\ records.me.by \in Nat /\ records.me.by <= try
      /\ \A j \in jobs : j.by # 0
  BY DEF IInv, ShapeInv, BoardInv, TreeSet, Leaf, NoLeaf, Tries, ByInv, Requests
<1>1. CASE Operator
  <2>1. PICK m \in {"auth", "recovery"}, wait \in BOOLEAN : StartRun(m, wait)
    BY <1>1 DEF Operator
  <2>2. /\ pc = "idle" /\ try' = try + 1 /\ ver' = 0 /\ pc' = "post" /\ exit' = "none"
        /\ posts' = posts \cup {[kind |-> "register", by |-> try + 1, wait |-> wait]}
        /\ UNCHANGED <<answer, board, jobs, op, rotating, faults>>
    BY <2>1 DEF StartRun
  <2>3. records.me.by = 0 /\ Calm
    BY <1>t, <2>2 DEF Calm, board
  <2>4. try = 0 /\ Unused /\ Honest
    BY <2>2, <2>3 DEF Honest
  <2> DEFINE r == [kind |-> "register", by |-> try + 1, wait |-> wait]
  <2>5. posts' = {r} /\ r.kind = "register" /\ r.by = try'
    BY <2>2, <2>4 DEF Unused, Quiet
  <2> HIDE DEF r
  <2>6. Registering'
    BY <2>2, <2>4, <2>5 DEF Unused, Registering, Quiet, board
  <2> QED
    BY <2>2, <2>4, <2>6 DEF Honest, board
<1>2. CASE ClientStep
  <2>1. UNCHANGED <<records, try, faults>>
    BY <1>2 DEF ClientStep, PostAnswered, Poll, Ask, GetRoot, GetPath, GetLeaf, FastGivesUp,
       Check, RecordSeen, NewRootSeen, Throws, Goes, Fetches, End, round, board, queues
  <2> QED
    BY <1>2, <2>1, HonestClient DEF Calm
<1>3. CASE ServiceStep
  <2>1. UNCHANGED <<try, faults>>
    BY <1>3 DEF ServiceStep, TakeRegister, TakeRotate, MineRegister, Settle, MineRotate,
       StartPass, EndPass, serviceFrame, client, round
  <2>2. records.me.by = 0 \/ records'.me.by = records.me.by
    <3>1. ASSUME NEW j \in jobs, MineRegister(j)
          PROVE  records.me.by = 0 \/ UNCHANGED records
      BY <3>1 DEF MineRegister, NoLeaf
    <3>2. ASSUME NEW j \in jobs, MineRotate(j)
          PROVE  records'.me.by = records.me.by
      <4>1. records' = [records EXCEPT !.me = [by |-> j.by, ver |-> 1]] /\ j.by = records.me.by
        BY <3>2 DEF MineRotate, ByInv
      <4> QED
        BY <1>t, <4>1 DEF TreeSet
    <3>3. \/ UNCHANGED records
          \/ \E j \in jobs : MineRegister(j) \/ MineRotate(j)
      BY <1>3 DEF ServiceStep, TakeRegister, TakeRotate, Settle, StartPass, EndPass, board
    <3> QED
      BY <3>1, <3>2, <3>3
  <2> QED
    BY <1>3, <2>1, <2>2, HonestService DEF Calm
<1>4. CASE Misfortune
  <2>1. ~Fault
    BY <1>t DEF Fault, Calm
  <2>2. CASE GetFails
    <3>1. /\ pc \in {"ask", "root", "path", "leaf"} /\ pc' = Retry
          /\ UNCHANGED <<round, answer, exit, board, queues, faults>>
      BY <2>1, <2>2 DEF GetFails
    <3>2. Honest /\ Proving
      BY <3>1 DEF Calm, Honest, round, board
    <3>3. pc' \in {"ask", "poll"} /\ (pc' = "poll" => ver = 0)
      BY <3>1, <3>2, HonestFacts DEF Retry
    <3> QED
      BY <3>1, <3>2, <3>3 DEF Honest, Proving, Quiet, MineAt, Caught, RootOf, round, board, queues
  <2>3. CASE DeadlinePasses
    <3>1. UNCHANGED <<try, records, faults>> /\ ~Hope
      BY <2>1, <2>3 DEF DeadlinePasses, board
    <3>2. Honest
      BY <3>1 DEF Calm
    <3> QED
      BY <2>3, <3>1, <3>2, HonestHopes
  <2> QED
    BY <1>4, <2>1, <2>2, <2>3 DEF Misfortune, ClientDies, OtherIdentity, GoesBack, EndPassMixed,
       PostLost, TxFails
<1>5. CASE UNCHANGED vars
  BY <1>5 DEF vars, client, board, queues, round, Calm, Honest, Unused, Registering, Proving,
     Rotating, Quiet, MineAt, Caught, RootOf, MyLeaf
<1> QED
  BY <1>1, <1>2, <1>3, <1>4, <1>5 DEF Next

LEMMA CalmInvariance == Spec => [](IInv /\ CalmInv)
<1>1. Init => CalmInv
  BY DEF Init, CalmInv, ByInv, Calm, Honest, Unused, Quiet, NoLeaf, NoAnswer
<1>2. IInv /\ CalmInv /\ [Next]_vars => CalmInv'
  BY ByStep, HonestStep DEF CalmInv
<1> QED
  BY <1>1, <1>2, Invariance, PTL DEF Spec

\* A run for an identity that nobody registered before, whatever the delays of
\* passes, answers and polls, fails only after something went wrong.
THEOREM FailsByMisfortune == Spec => []FailsOnlyByMisfortune
<1>1. CalmInv => FailsOnlyByMisfortune
  BY DEF CalmInv, Calm, Honest, FailsOnlyByMisfortune
<1> QED
  BY <1>1, CalmInvariance, PTL
=============================================================================
