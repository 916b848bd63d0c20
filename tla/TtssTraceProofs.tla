-------------------------- MODULE TtssTraceProofs ---------------------------
(***************************************************************************)
(* Proofs about dealing, recovery and tracing, for every field, number of  *)
(* guardians and threshold, any seeds and derivations, and any number of   *)
(* alterations, invalidations and second deals: intact shares recover the  *)
(* seed and altered ones do not, fewer than the threshold tell nothing, the*)
(* pirate box finds what a recovery finds, and a trace blames those who    *)
(* leaked.  They rest on a signature covering everything in an envelope but*)
(* itself, and on the arithmetic of ShamirFieldProofs.                     *)
(***************************************************************************)
EXTENDS TtssTrace, ShamirFieldProofs, SequenceTheorems

-----------------------------------------------------------------------------
(* The invariant *)

Fields == Core \cup {"sigma"}

\* Every envelope of a deal signed by the dealer, with the deal's epoch.
Genuine(deal) ==
    /\ DOMAIN deal.envelopes = Guardians
    /\ \A g \in Guardians :
           LET e == deal.envelopes[g] IN
           /\ e = [f \in Fields |-> e[f]]
           /\ e.sigma = Payload(e)
           /\ e.t = T /\ e.epoch = deal.epoch

\* What came back of it: the fields may differ, the signature is the old one.
SignedOnce(d) ==
    /\ DOMAIN envs[d] = Guardians
    /\ \A g \in Guardians :
           /\ envs[d][g] = [f \in Fields |-> envs[d][g][f]]
           /\ envs[d][g].sigma = Payload(deals[d].envelopes[g])

\* The deals that were made.
Made == {1} \cup {d \in {2} : deals[d] # NoDeal}

\* The result a client holds is that of the envelopes as they are now.
ResultInv ==
    outcome # NoOutcome =>
        \E slots \in Requests :
            outcome = [from |-> slots, result |-> TtssRec(Fetched(slots))]

SharesInv ==
    /\ DOMAIN deals = 1..2 /\ DOMAIN envs = 1..2
    /\ \A d \in Made : Genuine(deals[d]) /\ SignedOnce(d)
    /\ ResultInv

-----------------------------------------------------------------------------
(* Signatures *)

\* The dealer's envelopes are genuine.
LEMMA DealIsGenuine ==
    ASSUME NEW seed, NEW rho, NEW epoch0
    PROVE  Genuine(Deal(seed, rho, epoch0))
<1> DEFINE xs == DeriveXs(rho)
           vk == [g \in Guardians |-> Ui(xs[g])]
           core(g) == [guardianIndex |-> g, n |-> N, t |-> T, epoch |-> epoch0,
                       x |-> xs[g], y |-> PackChunks(Values(seed, rho, xs[g])),
                       ui |-> vk[g], vkSet |-> vk, active |-> TRUE]
<1>1. \A g \in Guardians : Deal(seed, rho, epoch0).envelopes[g] = Signed(core(g))
  BY DEF Deal, Share
<1>2. Deal(seed, rho, epoch0).epoch = epoch0 /\ DOMAIN Deal(seed, rho, epoch0).envelopes = Guardians
  BY DEF Deal, Share
<1>3. \A g \in Guardians : core(g).t = T /\ core(g).epoch = epoch0
  OBVIOUS
<1> HIDE DEF core
<1> SUFFICES ASSUME NEW g \in Guardians
             PROVE  LET e == Signed(core(g)) IN
                    /\ e = [f \in Fields |-> e[f]]
                    /\ e.sigma = Payload(e)
                    /\ e.t = T /\ e.epoch = epoch0
  BY <1>1, <1>2, Zenon DEF Genuine
<1>4. Signed(core(g)) = [f \in Fields |-> Signed(core(g))[f]]
  BY DEF Signed, Fields
<1>5. \A f \in Core : Signed(core(g))[f] = core(g)[f]
  BY DEF Signed, Core
<1>6. Signed(core(g)).sigma = Payload(core(g))
  BY DEF Signed
<1>7. Payload(Signed(core(g))) = Payload(core(g))
  BY <1>5 DEF Payload
<1>8. {"t", "epoch"} \subseteq Core
  BY DEF Core
<1> QED
  BY <1>3, <1>4, <1>5, <1>6, <1>7, <1>8

\* The envelope, or the i-th of some shares, has no error.
Valid(e) == VerifyError(e) = ""
Passes(shares, i) == ShareError(shares, i) = ""

\* An envelope whose signature is right is the one that was dealt.
LEMMA SignatureCovers ==
    ASSUME NEW d \in Made, NEW g \in Guardians, Genuine(deals[d]), SignedOnce(d),
           Valid(envs[d][g])
    PROVE  envs[d][g] = deals[d].envelopes[g]
<1> DEFINE e == envs[d][g]
           o == deals[d].envelopes[g]
<1>1. e.sigma = Payload(e)
  BY Zenon DEF VerifyError, Valid
<1>2. e = [f \in Fields |-> e[f]] /\ e.sigma = Payload(o)
  BY DEF SignedOnce
<1>3. o = [f \in Fields |-> o[f]] /\ o.sigma = Payload(o)
  BY DEF Genuine
<1> HIDE DEF e, o
<1>4. \A f \in Core : Payload(e)[f] = e[f] /\ Payload(o)[f] = o[f]
  BY DEF Payload
<1>5. \A f \in Fields : e[f] = o[f]
  BY <1>1, <1>2, <1>3, <1>4 DEF Fields
<1> QED
  BY <1>2, <1>3, <1>5 DEF e, o

\* What ttss_rec_nits_shamir has checked when it returns a seed.
Checked(shares) ==
    /\ shares # <<>> /\ Valid(shares[1])
    /\ ~(Len(shares) < shares[1].t)
    /\ \A i \in 1..shares[1].t : Passes(shares, i)

\* A recovery that succeeds has checked every share and interpolates T of them.
LEMMA RecChecks ==
    ASSUME NEW shares, TtssRec(shares).ok
    PROVE  /\ Checked(shares)
           /\ TtssRec(shares) = Gives(Rebuild(SubSeq(shares, 1, shares[1].t)))
<1>1. \A error : ~Fails(error).ok
  BY DEF Fails
<1> HIDE DEF Fails
<1> QED
  BY <1>1, Zenon DEF TtssRec, Checked, Valid, Passes

\* What a share has passed that has no error.
LEMMA NoShareError ==
    ASSUME NEW shares, NEW i, Passes(shares, i)
    PROVE  /\ Valid(shares[i])
           /\ Header(shares[i]) = Header(shares[1])
           /\ shares[i].active
           /\ \A j \in 1..(i - 1) : shares[j].x # shares[i].x
           /\ Len(shares[i].y) = Bytes
  BY Zenon DEF ShareError, Valid, Passes
-----------------------------------------------------------------------------
(* What is changed on the way *)

\* The first deal is as the dealer made it.
LEMMA SharesInvInit == Init => SharesInv
<1> SUFFICES ASSUME Init PROVE SharesInv
  OBVIOUS
<1>1. PICK seed \in Seeds, rho \in UsableRhos : deals = <<Deal(seed, rho, 1), NoDeal>>
  BY DEF Init, SharesInit
<1>2. envs = <<deals[1].envelopes, <<>>>> /\ outcome = NoOutcome
  BY DEF Init, SharesInit
<1>3. Genuine(deals[1])
  BY <1>1, DealIsGenuine
<1>4. Made = {1} /\ DOMAIN deals = 1..2 /\ DOMAIN envs = 1..2
  BY <1>1, <1>2 DEF Made
<1>5. SignedOnce(1)
  BY <1>2, <1>3 DEF SignedOnce, Genuine
<1> QED
  BY <1>2, <1>3, <1>4, <1>5 DEF SharesInv, ResultInv

\* An altered envelope has the fields and the signature it had.
LEMMA AlteredKeepsSignature ==
    ASSUME NEW e, e = [f \in Fields |-> e[f]],
           NEW a \in Alterations(e) \cup {[e EXCEPT !.active = FALSE]}
    PROVE  a = [f \in Fields |-> a[f]] /\ a.sigma = e.sigma
<1> DOMAIN e = Fields
  OBVIOUS
<1> {"active", "epoch", "t", "guardianIndex", "x", "y", "sigma"} \subseteq Fields
  BY DEF Fields, Core
<1>1. ASSUME NEW c \in Core, NEW v
      PROVE  LET b == [e EXCEPT ![c] = v] IN b = [f \in Fields |-> b[f]] /\ b.sigma = e.sigma
  BY DEF Fields, Core
<1>2. \E c \in Core : \E v : a = [e EXCEPT ![c] = v]
  BY DEF Alterations, Core
<1> QED
  BY <1>1, <1>2

\* One envelope is replaced.
LEMMA EnvelopeReplaced ==
    ASSUME SharesInv, outcome = NoOutcome, UNCHANGED <<deals, outcome>>,
           NEW d \in Made, NEW g \in Guardians,
           NEW a \in Alterations(envs[d][g]) \cup {[envs[d][g] EXCEPT !.active = FALSE]},
           envs' = [envs EXCEPT ![d][g] = a]
    PROVE  SharesInv'
<1>1. Made' = Made /\ Made \subseteq 1..2
  BY DEF Made
<1>2. SignedOnce(d)
  BY DEF SharesInv
<1>3. a = [f \in Fields |-> a[f]] /\ a.sigma = envs[d][g].sigma
  BY <1>2, AlteredKeepsSignature DEF SignedOnce
<1>4. /\ DOMAIN envs' = 1..2
      /\ \A c \in (1..2) \ {d} : envs'[c] = envs[c]
      /\ envs'[d] = [envs[d] EXCEPT ![g] = a]
  BY <1>1 DEF SharesInv
<1>5. SignedOnce(d)'
  <2>1. DOMAIN envs'[d] = Guardians /\ envs'[d][g] = a
        /\ \A h \in Guardians \ {g} : envs'[d][h] = envs[d][h]
    BY <1>2, <1>4 DEF SignedOnce
  <2> QED
    BY <1>2, <1>3, <2>1 DEF SignedOnce
<1>6. \A c \in Made \ {d} : SignedOnce(c)'
  BY <1>1, <1>4 DEF SharesInv, SignedOnce
<1>7. \A c \in Made : Genuine(deals'[c])
  BY DEF SharesInv
<1> QED
  BY <1>1, <1>4, <1>5, <1>6, <1>7 DEF SharesInv, ResultInv

\* A second deal is as genuine as the first.
LEMMA DealtAgain ==
    ASSUME SharesInv, NEW seed, NEW rho, NEW epoch0, ShareAgain(seed, rho, epoch0)
    PROVE  SharesInv'
<1>1. /\ outcome = NoOutcome /\ outcome' = NoOutcome
      /\ deals' = [deals EXCEPT ![2] = Deal(seed, rho, epoch0)]
      /\ envs' = [envs EXCEPT ![2] = deals'[2].envelopes]
  BY DEF ShareAgain, Trouble
<1>2. /\ DOMAIN deals' = 1..2 /\ DOMAIN envs' = 1..2
      /\ deals'[1] = deals[1] /\ envs'[1] = envs[1]
      /\ deals'[2] = Deal(seed, rho, epoch0) /\ envs'[2] = deals'[2].envelopes
  BY <1>1 DEF SharesInv
<1>3. Genuine(deals'[1]) /\ SignedOnce(1)'
  BY <1>2 DEF SharesInv, Made, SignedOnce
<1>4. Genuine(deals'[2])
  BY <1>2, DealIsGenuine
<1>5. SignedOnce(2)'
  BY <1>2, <1>4 DEF SignedOnce, Genuine
<1>6. Made' \subseteq {1, 2}
  BY DEF Made
<1> QED
  BY <1>1, <1>2, <1>3, <1>4, <1>5, <1>6 DEF SharesInv, ResultInv

\* Every step keeps SharesInv.
LEMMA SharesInvStep == SharesInv /\ [Next]_vars => SharesInv'
<1> SUFFICES ASSUME SharesInv, [Next]_vars PROVE SharesInv'
  OBVIOUS
<1>1. CASE UNCHANGED sharesVars
  <2>1. UNCHANGED <<deals, envs, outcome>>
    BY <1>1 DEF sharesVars
  <2>2. Requests' = Requests /\ \A s : Fetched(s)' = Fetched(s)
    BY <2>1 DEF Requests, Slots, Fetched
  <2>3. ResultInv'
    BY <2>1, <2>2 DEF SharesInv, ResultInv
  <2> QED
    BY <2>1, <2>3 DEF SharesInv, SignedOnce, Made
<1>2. CASE Recover
  <2>1. UNCHANGED <<deals, envs>>
    BY <1>2 DEF Recover
  <2>2. PICK slots \in Requests : outcome' = [from |-> slots, result |-> TtssRec(Fetched(slots))]
    BY <1>2 DEF Recover
  <2>3. slots \in Requests' /\ Fetched(slots)' = Fetched(slots)
    BY <2>1, <2>2 DEF Requests, Slots, Fetched
  <2>4. ResultInv'
    BY <2>2, <2>3 DEF ResultInv
  <2> QED
    BY <2>1, <2>4 DEF SharesInv, SignedOnce, Made
<1>3. CASE Return
  BY <1>3 DEF Return, SharesInv, SignedOnce, Made, ResultInv
<1>4. ASSUME NEW seed, NEW rho, NEW epoch0, ShareAgain(seed, rho, epoch0)
      PROVE  SharesInv'
  BY <1>4, DealtAgain
<1>5. ASSUME NEW d \in {1, 2}, NEW g \in Guardians, Invalidate(d, g) \/ Alter(d, g)
      PROVE  SharesInv'
  <2>1. d \in Made /\ outcome = NoOutcome /\ UNCHANGED <<deals, outcome>>
    BY <1>5 DEF Invalidate, Alter, Trouble, Slots, Made
  <2>2. CASE Invalidate(d, g)
    <3>1. d \in DOMAIN envs /\ g \in DOMAIN envs[d]
      BY <2>1 DEF SharesInv, Made, SignedOnce
    <3>2. envs' = [envs EXCEPT ![d][g] = [envs[d][g] EXCEPT !.active = FALSE]]
      BY <2>2, <3>1 DEF Invalidate
    <3> QED
      BY <2>1, <3>2, EnvelopeReplaced
  <2>3. CASE Alter(d, g)
    <3>1. PICK e \in Alterations(envs[d][g]) : envs' = [envs EXCEPT ![d][g] = e]
      BY <2>3 DEF Alter
    <3> QED
      BY <2>1, <3>1, EnvelopeReplaced
  <2> QED
    BY <1>5, <2>2, <2>3
<1>6. CASE UNCHANGED vars
  BY <1>1, <1>6 DEF vars
<1>7. ASSUME NEW order, LoadBox(order) PROVE UNCHANGED sharesVars
  BY <1>7 DEF LoadBox
<1>8. ASSUME NEW answering, Query(answering) PROVE UNCHANGED sharesVars
  BY <1>8 DEF Query
<1>9. ASSUME Conclude PROVE UNCHANGED sharesVars
  BY <1>9 DEF Conclude
<1> QED
  BY <1>1, <1>2, <1>3, <1>4, <1>5, <1>6, <1>7, <1>8, <1>9 DEF Next

\* Signatures and results, at all times.
THEOREM Invariance == Spec => []SharesInv
<1> QED
  BY SharesInvInit, SharesInvStep, PTL DEF Spec

-----------------------------------------------------------------------------
(* What a recovery used *)

\* A request of k envelopes names k slots of deals that were made.
LEMMA RequestShape ==
    ASSUME NEW slots \in Requests
    PROVE  /\ \E k \in Nat : slots \in [1..k -> Made \X Guardians]
           /\ Len(slots) \in Nat /\ DOMAIN slots = 1..Len(slots)
<1>1. Slots \subseteq Made \X Guardians
  BY DEF Slots, Made
<1>2. ASSUME NEW k \in 0..T, slots \in [1..k -> Slots]
      PROVE  \E j \in Nat : slots \in [1..j -> Made \X Guardians]
  BY <1>1, <1>2, SharesAssumption
<1>3. ASSUME slots = [g \in Guardians |-> <<1, g>>]
      PROVE  \E j \in Nat : slots \in [1..j -> Made \X Guardians]
  BY <1>3, SharesAssumption DEF Guardians, Made
<1>4. PICK j \in Nat : slots \in [1..j -> Made \X Guardians]
  BY <1>2, <1>3 DEF Requests
<1>5. DOMAIN slots = 1..j /\ Len(slots) = j
  BY <1>4
<1> QED
  BY <1>4, <1>5

\* The shares of a recovery that gave a seed: each of the first T is what the
\* dealer made of its slot, all for one epoch and at points of their own.
LEMMA SharesUsed ==
    ASSUME SharesInv, NEW slots \in Requests, Checked(Fetched(slots))
    PROVE  /\ Len(slots) >= T
           /\ \A i \in 1..T :
                  /\ slots[i] \in Made \X Guardians
                  /\ AsDealt(slots[i])
                  /\ Fetched(slots)[i] = envs[slots[i][1]][slots[i][2]]
                  /\ Fetched(slots)[i].t = T
                  /\ Fetched(slots)[i].epoch = deals[slots[i][1]].epoch
                  /\ Passes(Fetched(slots), i)
           /\ Fetched(slots)[1].t = T
           /\ Len(Fetched(slots)) = Len(slots)
<1> DEFINE sh == Fetched(slots)
<1>1. DOMAIN slots = 1..Len(slots) /\ Len(slots) \in Nat
      /\ \A i \in 1..Len(slots) : slots[i] \in Made \X Guardians
  BY RequestShape
<1>2. DOMAIN sh = 1..Len(slots) /\ Len(sh) = Len(slots)
      /\ \A i \in 1..Len(slots) : sh[i] = envs[slots[i][1]][slots[i][2]]
  BY <1>1 DEF Fetched
<1>3. sh # <<>> /\ Valid(sh[1]) /\ ~(Len(sh) < sh[1].t)
      /\ \A i \in 1..sh[1].t : Passes(sh, i)
  BY DEF Checked
<1> HIDE DEF sh
<1>4. Len(slots) >= 1
  <2>1. Len(slots) = 0 => Fetched(slots) = <<>>
    BY <1>1 DEF Fetched
  <2> QED
    BY <1>1, <1>3, <2>1 DEF sh
<1>5. \A i \in 1..Len(slots) : Valid(sh[i]) =>
         /\ AsDealt(slots[i]) /\ sh[i].t = T
         /\ sh[i].epoch = deals[slots[i][1]].epoch
  <2> SUFFICES ASSUME NEW i \in 1..Len(slots), Valid(sh[i])
               PROVE  /\ AsDealt(slots[i]) /\ sh[i].t = T
                      /\ sh[i].epoch = deals[slots[i][1]].epoch
    OBVIOUS
  <2>1. PICK d \in Made, g \in Guardians : slots[i] = <<d, g>>
    BY <1>1
  <2>2. sh[i] = envs[d][g] /\ Genuine(deals[d]) /\ SignedOnce(d)
    BY <1>2, <2>1 DEF SharesInv
  <2>3. envs[d][g] = deals[d].envelopes[g]
    BY <2>2, SignatureCovers
  <2>4. slots[i][1] = d /\ slots[i][2] = g
    BY <2>1
  <2>5. AsDealt(slots[i])
    BY <2>3, <2>4 DEF AsDealt
  <2>6. sh[i].t = T /\ sh[i].epoch = deals[d].epoch
    <3>1. deals[d].envelopes[g].t = T /\ deals[d].envelopes[g].epoch = deals[d].epoch
      BY <2>2 DEF Genuine
    <3> QED
      BY <2>2, <2>3, <3>1, Zenon
  <2> QED
    BY <2>4, <2>5, <2>6
<1>6. sh[1].t = T
  BY <1>3, <1>4, <1>5, <1>1
<1>7. Len(slots) >= T
  BY <1>1, <1>2, <1>3, <1>6, SharesAssumption
<1>8. \A i \in 1..T : Passes(sh, i) /\ Valid(sh[i])
  BY <1>3, <1>6, NoShareError
<1>9. \A i \in 1..T : i \in 1..Len(slots)
  BY <1>1, <1>7, SharesAssumption
<1> QED
  BY <1>1, <1>2, <1>5, <1>6, <1>7, <1>8, <1>9 DEF sh

\* OnlyIntactSharesUsed of TtssShares.
THEOREM IntactSharesOnly == Spec => []OnlyIntactSharesUsed
<1>1. ASSUME SharesInv PROVE OnlyIntactSharesUsed
  <2> SUFFICES ASSUME outcome.result.ok
               PROVE  LET s == outcome.from IN
                      /\ Len(s) >= T
                      /\ \A i \in 1..T : AsDealt(s[i])
                             /\ deals[s[i][1]].epoch = deals[s[1][1]].epoch
                      /\ \A i, j \in 1..T : s[i] = s[j] => i = j
    BY DEF OnlyIntactSharesUsed
  <2>1. outcome # NoOutcome
    <3>1. NoOutcome.result.ok = FALSE
      BY DEF NoOutcome, Fails
    <3> QED
      BY <3>1, Zenon
  <2>2. PICK s \in Requests : outcome = [from |-> s, result |-> TtssRec(Fetched(s))]
    BY <1>1, <2>1 DEF SharesInv, ResultInv
  <2>3. TtssRec(Fetched(s)).ok /\ outcome.from = s
    BY <2>2
  <2> DEFINE sh == Fetched(s)
  <2>4. /\ Len(s) >= T
        /\ \A i \in 1..T : /\ AsDealt(s[i]) /\ Passes(sh, i)
                           /\ sh[i].epoch = deals[s[i][1]].epoch
                           /\ sh[i] = envs[s[i][1]][s[i][2]]
    BY <1>1, <2>3, SharesUsed, RecChecks, Zenon
  <2> HIDE DEF sh
  <2>5. \A i \in 1..T : Header(sh[i]) = Header(sh[1]) /\ \A j \in 1..(i - 1) : sh[j].x # sh[i].x
    BY <2>4, NoShareError
  <2>6. 1 \in 1..T
    BY SharesAssumption
  <2>7. \A i \in 1..T : deals[s[i][1]].epoch = deals[s[1][1]].epoch
    BY <2>4, <2>5, <2>6 DEF Header
  <2>8. ASSUME NEW i \in 1..T, NEW j \in 1..T, s[i] = s[j], i < j PROVE FALSE
    <3>1. sh[i].x = sh[j].x
      BY <2>4, <2>8
    <3>2. i \in 1..(j - 1)
      BY <2>8, SharesAssumption
    <3> QED
      BY <2>5, <3>1, <3>2
  <2>9. \A i, j \in 1..T : s[i] = s[j] => i = j
    BY <2>8, SharesAssumption
  <2> QED
    BY <2>3, <2>4, <2>7, <2>9
<1> QED
  BY <1>1, Invariance, PTL

-----------------------------------------------------------------------------
(* What the box takes of its shares *)

\* k positions, one after the other, are k elements.
LEMMA CountPositions ==
    ASSUME NEW k \in Nat, NEW pos,
           \A m \in 1..k : pos[m] \in Nat,
           \A m, n \in 1..k : m < n => pos[m] < pos[n]
    PROVE  IsFiniteSet({pos[m] : m \in 1..k}) /\ Cardinality({pos[m] : m \in 1..k}) = k
<1> DEFINE S == {pos[m] : m \in 1..k}
           f == [m \in 1..k |-> pos[m]]
<1>1. f \in Bijection(1..k, S)
  <2>1. f \in [1..k -> S]
    OBVIOUS
  <2>2. \A m, n \in 1..k : f[m] = f[n] => m = n
    <3> SUFFICES ASSUME NEW m \in 1..k, NEW n \in 1..k, pos[m] = pos[n], m # n PROVE FALSE
      OBVIOUS
    <3>1. pos[m] \in Nat /\ pos[n] \in Nat
      OBVIOUS
    <3>2. m < n \/ n < m
      OBVIOUS
    <3> QED
      BY <3>1, <3>2
  <2>3. \A s \in S : \E m \in 1..k : f[m] = s
    OBVIOUS
  <2> QED
    BY <2>1, <2>2, <2>3 DEF Bijection, Injection, Surjection, IsInjective
<1>2. IsFiniteSet(1..k) /\ Cardinality(1..k) = k
  BY FS_Interval
<1>3. ExistsBijection(1..k, S)
  BY <1>1, Zenon DEF ExistsBijection
<1> HIDE DEF S
<1> QED
  BY <1>2, <1>3, FS_Bijection DEF S

\* The number of shares that the box has taken up to the i-th.
Taken(shares, i) == Cardinality({j \in FirstOfTheirX(shares) : j <= i})

\* pos[1], pos[2], ... are the first T shares at points of their own.
Leads(shares, pos) ==
    /\ \A k \in 1..T : pos[k] \in FirstOfTheirX(shares)
    /\ \A m, k \in 1..T : m < k => pos[m] < pos[k]
    /\ \A i \in FirstOfTheirX(shares) : i <= pos[T] => \E k \in 1..T : i = pos[k]

\* The box has taken k shares at pos[k], and not T before pos[T].
LEMMA TakenCounts ==
    ASSUME NEW shares, NEW len \in Nat, DOMAIN shares = 1..len,
           NEW pos, Leads(shares, pos)
    PROVE  /\ \A k \in 1..T : Taken(shares, pos[k]) = k
           /\ \A i \in 1..len : i < pos[T] => Taken(shares, i) < T
           /\ \A i \in Nat : i >= pos[T] => Taken(shares, i) >= T
           /\ \A i \in FirstOfTheirX(shares) : i > pos[T] => Taken(shares, i) > T
           /\ \A i \in Nat : Taken(shares, i) \in Nat
<1> DEFINE F == FirstOfTheirX(shares)
           Upto(i) == {j \in F : j <= i}
           P1(k) == {pos[m] : m \in 1..k}
<1>1. F \subseteq 1..len
  BY DEF FirstOfTheirX
<1>2. T \in Nat /\ T >= 2
  BY SharesAssumption
<1> HIDE DEF F
<1>3. /\ \A k \in 1..T : pos[k] \in F /\ pos[k] \in 1..len
      /\ \A m, k \in 1..T : m < k => pos[m] < pos[k]
      /\ \A i \in F : i <= pos[T] => \E k \in 1..T : i = pos[k]
  BY <1>1 DEF Leads, F
<1>4. \A k \in 1..T : IsFiniteSet(P1(k)) /\ Cardinality(P1(k)) = k
  <2> SUFFICES ASSUME NEW k \in 1..T PROVE IsFiniteSet(P1(k)) /\ Cardinality(P1(k)) = k
    OBVIOUS
  <2>1. k \in Nat /\ \A m \in 1..k : m \in 1..T /\ pos[m] \in Nat
    BY <1>2, <1>3
  <2>2. \A m, n \in 1..k : m < n => pos[m] < pos[n]
    BY <1>3, <2>1
  <2> QED
    BY <2>1, <2>2, CountPositions
<1>5. IsFiniteSet(F) /\ \A i : IsFiniteSet(Upto(i)) /\ Cardinality(Upto(i)) \in Nat
  <2>1. IsFiniteSet(1..len)
    BY FS_Interval
  <2>2. IsFiniteSet(F)
    BY <1>1, <2>1, FS_Subset
  <2>3. \A i : Upto(i) \in SUBSET F
    OBVIOUS
  <2> QED
    BY <2>2, <2>3, FS_Subset, FS_CardinalityType
<1>6. \A k \in 1..T : Upto(pos[k]) = P1(k)
  <2> SUFFICES ASSUME NEW k \in 1..T PROVE Upto(pos[k]) = P1(k)
    OBVIOUS
  <2>1. ASSUME NEW m \in 1..k PROVE pos[m] \in Upto(pos[k])
    <3>1. m \in 1..T /\ (m = k \/ m < k)
      BY <1>2
    <3>2. pos[m] \in F /\ pos[m] \in Nat /\ pos[k] \in Nat
      BY <1>3, <3>1
    <3>3. pos[m] <= pos[k]
      BY <1>3, <3>1, <3>2
    <3> QED
      BY <3>2, <3>3
  <2>2. ASSUME NEW i \in Upto(pos[k]) PROVE i \in P1(k)
    <3>1. T \in 1..T /\ (k = T \/ k < T)
      BY <1>2
    <3>2. i \in Nat /\ pos[k] \in Nat /\ pos[T] \in Nat /\ i <= pos[k]
      BY <1>1, <1>3, <3>1
    <3>3. pos[k] <= pos[T]
      BY <1>3, <3>1, <3>2
    <3>4. PICK m \in 1..T : i = pos[m]
      BY <1>3, <3>2, <3>3
    <3>5. ~(k < m)
      BY <1>3, <3>2, <3>4
    <3>6. m \in 1..k
      BY <1>2, <3>5
    <3> QED
      BY <3>4, <3>6
  <2> QED
    BY <2>1, <2>2
<1>7. T \in 1..T /\ pos[T] \in 1..len
  BY <1>2, <1>3
<1>8. \A i : Taken(shares, i) = Cardinality(Upto(i))
  BY DEF Taken, F
<1>9. ASSUME NEW i \in 1..len, i < pos[T] PROVE Cardinality(Upto(i)) < T
  <2>1. Upto(i) \in SUBSET P1(T)
    <3>1. ASSUME NEW j \in Upto(i) PROVE j \in Upto(pos[T])
      <4>1. j \in F /\ j <= i /\ j \in Nat /\ i \in Nat /\ pos[T] \in Nat
        BY <1>1, <1>7
      <4> QED
        BY <1>9, <4>1
    <3> QED
      BY <1>6, <1>7, <3>1
  <2>2. pos[T] \in P1(T) /\ pos[T] \notin Upto(i)
    BY <1>7, <1>9
  <2>3. IsFiniteSet(P1(T)) /\ Cardinality(P1(T)) = T
    BY <1>4, <1>7
  <2> HIDE DEF P1
  <2>4. Cardinality(Upto(i)) <= T /\ (Cardinality(Upto(i)) = T => P1(T) = Upto(i))
    <3> HIDE DEF Upto
    <3> QED
      BY <2>1, <2>3, FS_Subset
  <2>5. Cardinality(Upto(i)) # T
    BY <2>2, <2>4
  <2>6. Cardinality(Upto(i)) \in Nat
    BY <1>5
  <2> HIDE DEF Upto
  <2> QED
    BY <1>2, <2>4, <2>5, <2>6
<1>10. ASSUME NEW i \in Nat, i >= pos[T] PROVE Cardinality(Upto(i)) >= T
  <2>1. ASSUME NEW j \in Upto(pos[T]) PROVE j \in Upto(i)
    <3>1. j \in F /\ j <= pos[T] /\ j \in Nat /\ i \in Nat /\ pos[T] \in Nat
      BY <1>1, <1>7
    <3> QED
      BY <1>10, <3>1
  <2>2. Cardinality(Upto(pos[T])) = T
    BY <1>4, <1>6, <1>7
  <2>3. IsFiniteSet(Upto(i)) /\ Cardinality(Upto(i)) \in Nat
    BY <1>5
  <2> HIDE DEF Upto
  <2>4. Cardinality(Upto(pos[T])) <= Cardinality(Upto(i))
    BY <2>1, <2>3, FS_Subset
  <2> QED
    BY <1>2, <2>2, <2>3, <2>4
<1>11. ASSUME NEW i \in F, i > pos[T] PROVE Cardinality(Upto(i)) > T
  <2> i \in Nat /\ pos[T] \in Nat
    BY <1>1, <1>7
  <2>a. ASSUME NEW j \in Upto(pos[T]) PROVE j \in Upto(i)
    <3>1. j \in F /\ j <= pos[T] /\ j \in Nat
      BY <1>1
    <3> QED
      BY <1>11, <3>1
  <2>1. Upto(pos[T]) \in SUBSET Upto(i) /\ i \in Upto(i) /\ i \notin Upto(pos[T])
    <3>1. i \in Upto(i)
      OBVIOUS
    <3>2. i \notin Upto(pos[T])
      BY <1>11
    <3>3. Upto(pos[T]) \subseteq Upto(i)
      <4> HIDE DEF Upto
      <4> QED
        BY <2>a
    <3> QED
      BY <3>1, <3>2, <3>3
  <2>2. Cardinality(Upto(i)) >= T
    BY <1>1, <1>7, <1>10, <1>11
  <2>3. Cardinality(Upto(pos[T])) = T
    BY <1>4, <1>6, <1>7
  <2>4. IsFiniteSet(Upto(i)) /\ Cardinality(Upto(i)) \in Nat
    BY <1>5
  <2> HIDE DEF Upto
  <2>5. Cardinality(Upto(i)) # T
    BY <2>1, <2>3, <2>4, FS_Subset
  <2> QED
    BY <1>2, <2>2, <2>4, <2>5
<1>12. \A k \in 1..T : Cardinality(Upto(pos[k])) = k
  BY <1>4, <1>6
<1> HIDE DEF Upto
<1> QED
  BY <1>5, <1>8, <1>9, <1>10, <1>11, <1>12 DEF F

\* The box has nothing against the i-th share.
Sound(shares, i) ==
    Header(shares[i]) = Header(shares[1]) /\ shares[i].active /\ Len(shares[i].y) = Bytes

\* The box rebuilds from the first T shares at points of their own, if there
\* is nothing against them and what comes before them.
LEMMA BoxReads ==
    ASSUME NEW shares, NEW len \in Nat, DOMAIN shares = 1..len, Len(shares) = len,
           shares[1].t = T,
           NEW pos, Leads(shares, pos),
           \A i \in 1..len : i <= pos[T] => Sound(shares, i)
    PROVE  BoxRebuilds(shares) = Gives(Rebuild([k \in 1..T |-> shares[pos[k]]]))
<1> DEFINE F == FirstOfTheirX(shares)
           Tk(i) == Taken(shares, i)
           Pick(k) == CHOOSE i \in F : Tk(i) = k
<1>1. BoxRebuilds(shares) =
          IF shares = <<>> THEN Fails("no_shares")
          ELSE IF \E i \in {i \in DOMAIN shares : Tk(i - 1) < T} : ~Sound(shares, i)
               THEN Fails("bad_share")
          ELSE IF Tk(Len(shares)) < T THEN Fails("not_enough_distinct_points")
          ELSE Gives(Rebuild([k \in 1..T |-> shares[Pick(k)]]))
  <2> HIDE DEF Sound
  <2>1. \A i : ~Sound(shares, i) <=>
            Header(shares[i]) # Header(shares[1]) \/ ~shares[i].active \/ Len(shares[i].y) # Bytes
    BY Zenon DEF Sound
  <2> QED
    BY <2>1, Zenon DEF BoxRebuilds, Taken
<1>2. /\ \A k \in 1..T : Tk(pos[k]) = k
      /\ \A i \in Nat : i >= pos[T] => Tk(i) >= T
      /\ \A i \in F : i > pos[T] => Tk(i) > T
      /\ \A i \in Nat : Tk(i) \in Nat
  BY TakenCounts
<1>3. /\ F \subseteq 1..len
      /\ \A k \in 1..T : pos[k] \in F
      /\ \A i \in F : i <= pos[T] => \E k \in 1..T : i = pos[k]
  BY DEF Leads, FirstOfTheirX
<1>4. T \in 1..T /\ pos[T] \in 1..len /\ len >= 1
  <2>1. T \in 1..T
    BY SharesAssumption
  <2>2. pos[T] \in 1..len
    BY <1>3, <2>1
  <2> QED
    BY <2>1, <2>2
<1> HIDE DEF F, Tk
<1>5. shares # <<>>
  BY <1>4
<1>6. ~\E i \in {i \in DOMAIN shares : Tk(i - 1) < T} : ~Sound(shares, i)
  <2> SUFFICES ASSUME NEW i \in 1..len, Tk(i - 1) < T PROVE Sound(shares, i)
    OBVIOUS
  <2>1. CASE i <= pos[T]
    BY <2>1
  <2>2. CASE ~(i <= pos[T])
    <3>1. i - 1 \in Nat /\ i - 1 >= pos[T]
      BY <1>4, <2>2
    <3> QED
      BY <1>2, <3>1, SharesAssumption
  <2> QED
    BY <2>1, <2>2
<1>7. ~(Tk(Len(shares)) < T)
  <2>1. Tk(len) >= T /\ Tk(len) \in Nat
    BY <1>2, <1>4
  <2>2. ~(Tk(len) < T)
    BY <2>1, SharesAssumption
  <2> QED
    BY <2>2, Zenon
<1>8. ASSUME NEW k \in 1..T PROVE Pick(k) = pos[k]
  <2>1. pos[k] \in F /\ Tk(pos[k]) = k
    BY <1>2, <1>3
  <2>2. ASSUME NEW i \in F, Tk(i) = k PROVE i = pos[k]
    <3>1. i <= pos[T]
      <4>1. i \in Nat /\ pos[T] \in Nat /\ (i <= pos[T] \/ i > pos[T])
        BY <1>3, <1>4
      <4>2. ~(k > T)
        BY SharesAssumption
      <4> QED
        BY <1>2, <2>2, <4>1, <4>2
    <3>2. PICK m \in 1..T : i = pos[m]
      BY <1>3, <3>1
    <3>3. Tk(pos[m]) = m /\ Tk(pos[m]) = k
      BY <1>2, <2>2, <3>2
    <3> QED
      BY <3>2, <3>3, Zenon
  <2> QED
    BY <2>1, <2>2, Zenon
<1> HIDE DEF Pick
<1>9. [k \in 1..T |-> shares[Pick(k)]] = [k \in 1..T |-> shares[pos[k]]]
  BY <1>8
<1> QED
  BY <1>1, <1>5, <1>6, <1>7, <1>9, Zenon

\* Every share of a sequence, twice.
Doubled(shares) == [i \in 1..(2 * Len(shares)) |-> shares[(i + 1) \div 2]]

\* Where share (i + 1) \div 2 comes when each comes twice.
LEMMA Halves ==
    ASSUME NEW len \in Nat, NEW i \in 1..(2 * len)
    PROVE  /\ (i + 1) \div 2 \in 1..len
           /\ \A j \in 1..(i - 1) : (j + 1) \div 2 <= (i + 1) \div 2
           /\ (i = 2 * ((i + 1) \div 2) - 1) \/ ((i - 1) \in 1..(i - 1) /\ ((i - 1) + 1) \div 2 = (i + 1) \div 2)
  OBVIOUS

\* The first of the two is at an odd position.
LEMMA OddHalves ==
    ASSUME NEW k \in Nat \ {0}
    PROVE  /\ (2 * k - 1 + 1) \div 2 = k
           /\ \A j \in 1..(2 * k - 2) : (j + 1) \div 2 \in 1..(k - 1)
           /\ \A j \in 1..(2 * k - 1) : (j + 1) \div 2 \in 1..k
  OBVIOUS

\* The box finds what a recovery from the same shares found, and the same when
\* each comes twice.
LEMMA BoxFollows ==
    ASSUME NEW sh, NEW len \in Nat, DOMAIN sh = 1..len, Len(sh) = len, len >= T,
           sh[1].t = T, \A i \in 1..T : Passes(sh, i)
    PROVE  /\ BoxRebuilds(sh) = Gives(Rebuild([k \in 1..T |-> sh[k]]))
           /\ BoxRebuilds(Doubled(sh)) = Gives(Rebuild([k \in 1..T |-> sh[k]]))
<1>1. T \in Nat /\ T >= 2
  BY SharesAssumption
<1>2. \A i \in 1..T : Sound(sh, i) /\ \A j \in 1..(i - 1) : sh[j].x # sh[i].x
  BY NoShareError DEF Sound
<1>3. BoxRebuilds(sh) = Gives(Rebuild([k \in 1..T |-> sh[k]]))
  <2> DEFINE pos == [k \in 1..T |-> k]
  <2>1. Leads(sh, pos)
    BY <1>1, <1>2 DEF Leads, FirstOfTheirX
  <2>2. \A i \in 1..len : i <= pos[T] => Sound(sh, i)
    BY <1>1, <1>2
  <2>3. [k \in 1..T |-> sh[pos[k]]] = [k \in 1..T |-> sh[k]]
    OBVIOUS
  <2> HIDE DEF pos
  <2>4. BoxRebuilds(sh) = Gives(Rebuild([k \in 1..T |-> sh[pos[k]]]))
    BY <2>1, <2>2, BoxReads
  <2> QED
    BY <2>3, <2>4, Zenon
<1>4. BoxRebuilds(Doubled(sh)) = Gives(Rebuild([k \in 1..T |-> sh[k]]))
  <2> DEFINE pos == [k \in 1..T |-> 2 * k - 1]
             dd == Doubled(sh)
             d2 == 2 * len
  <2>1. /\ d2 \in Nat /\ DOMAIN dd = 1..d2 /\ Len(dd) = d2
        /\ \A i \in 1..d2 : dd[i] = sh[(i + 1) \div 2]
    BY DEF Doubled
  <2>2. \A k \in 1..T : pos[k] = 2 * k - 1 /\ pos[k] \in 1..d2
    BY <1>1
  <2> HIDE DEF pos, dd
  <2>3. \A k \in 1..T : dd[pos[k]] = sh[k]
    BY <1>1, <2>1, <2>2, OddHalves
  <2>4. dd[1] = sh[1]
    <3>1. 1 \in 1..d2 /\ (1 + 1) \div 2 = 1
      BY <1>1
    <3> QED
      BY <2>1, <3>1
  <2>5. \A k \in 1..T : pos[k] \in FirstOfTheirX(dd)
    <3> SUFFICES ASSUME NEW k \in 1..T, NEW j \in 1..(pos[k] - 1)
                 PROVE  dd[j].x # dd[pos[k]].x
      BY <2>1, <2>2 DEF FirstOfTheirX
    <3>1. j \in 1..(2 * k - 2) /\ j \in 1..d2 /\ k \in Nat \ {0}
      BY <1>1, <2>2
    <3>2. (j + 1) \div 2 \in 1..(k - 1) /\ dd[j] = sh[(j + 1) \div 2]
      BY <2>1, <3>1, OddHalves
    <3> QED
      BY <1>2, <2>3, <3>2
  <2>6. \A m, k \in 1..T : m < k => pos[m] < pos[k]
    BY <2>2
  <2>7. pos[T] = 2 * T - 1
    BY <1>1, <2>2
  <2>8. ASSUME NEW i \in FirstOfTheirX(dd), i <= pos[T]
        PROVE  \E k \in 1..T : i = pos[k]
    <3>1. i \in 1..(2 * len) /\ \A j \in 1..(i - 1) : dd[j].x # dd[i].x
      BY <2>1 DEF FirstOfTheirX
    <3>2. i = 2 * ((i + 1) \div 2) - 1
      <4>1. CASE (i - 1) \in 1..(i - 1) /\ ((i - 1) + 1) \div 2 = (i + 1) \div 2
        <5>1. i - 1 \in 1..d2
          BY <3>1, <4>1
        <5>2. dd[i - 1] = dd[i]
          BY <2>1, <3>1, <4>1, <5>1
        <5> QED
          BY <3>1, <4>1, <5>2
      <4> QED
        BY <3>1, <4>1, Halves
    <3>3. (i + 1) \div 2 \in 1..T
      BY <1>1, <2>7, <2>8, <3>1, OddHalves
    <3> QED
      BY <2>2, <3>2, <3>3
  <2>9. Leads(dd, pos)
    BY <2>5, <2>6, <2>8 DEF Leads
  <2>10. \A i \in 1..d2 : i <= pos[T] => Sound(dd, i)
    <3> SUFFICES ASSUME NEW i \in 1..d2, i <= pos[T] PROVE Sound(dd, i)
      OBVIOUS
    <3>1. (i + 1) \div 2 \in 1..T
      BY <1>1, <2>7, OddHalves
    <3>2. dd[i] = sh[(i + 1) \div 2]
      BY <2>1
    <3> QED
      BY <1>2, <2>4, <3>1, <3>2 DEF Sound
  <2>11. BoxRebuilds(dd) = Gives(Rebuild([k \in 1..T |-> dd[pos[k]]]))
    <3>1. dd[1].t = T
      BY <2>4
    <3> HIDE DEF d2
    <3> QED
      BY <2>1, <2>9, <2>10, <3>1, BoxReads
  <2>12. [k \in 1..T |-> dd[pos[k]]] = [k \in 1..T |-> sh[k]]
    BY <2>3
  <2> QED
    BY <2>11, <2>12, Zenon DEF dd
<1> QED
  BY <1>3, <1>4

\* BoxAgrees of TtssTrace.
THEOREM BoxAgreesWithRecovery == Spec => []BoxAgrees
<1>1. ASSUME SharesInv PROVE BoxAgrees
  <2> SUFFICES ASSUME outcome.result.ok
               PROVE  LET shares == Fetched(outcome.from) IN
                      /\ BoxRebuilds(shares) = outcome.result
                      /\ BoxRebuilds(Doubled(shares)) = outcome.result
    BY Zenon DEF BoxAgrees, Doubled
  <2>1. outcome # NoOutcome
    <3>1. NoOutcome.result.ok = FALSE
      BY DEF NoOutcome, Fails
    <3> QED
      BY <3>1, Zenon
  <2>2. PICK s \in Requests : outcome = [from |-> s, result |-> TtssRec(Fetched(s))]
    BY <1>1, <2>1 DEF SharesInv, ResultInv
  <2>3. TtssRec(Fetched(s)).ok /\ outcome.from = s /\ outcome.result = TtssRec(Fetched(s))
    BY <2>2
  <2> DEFINE sh == Fetched(s)
  <2>4. Checked(sh) /\ TtssRec(sh) = Gives(Rebuild(SubSeq(sh, 1, sh[1].t)))
    BY <2>3, RecChecks, Zenon
  <2>5. Len(s) >= T /\ sh[1].t = T /\ Len(sh) = Len(s) /\ \A i \in 1..T : Passes(sh, i)
    BY <1>1, <2>4, SharesUsed, Zenon
  <2>6. Len(s) \in Nat /\ DOMAIN sh = 1..Len(s)
    BY RequestShape DEF Fetched
  <2> HIDE DEF sh
  <2>7. SubSeq(sh, 1, T) = [k \in 1..T |-> sh[k]]
    BY <2>5, <2>6, SharesAssumption
  <2>8. /\ BoxRebuilds(sh) = Gives(Rebuild([k \in 1..T |-> sh[k]]))
        /\ BoxRebuilds(Doubled(sh)) = Gives(Rebuild([k \in 1..T |-> sh[k]]))
    BY <2>5, <2>6, BoxFollows
  <2> QED
    BY <2>3, <2>4, <2>5, <2>7, <2>8, Zenon DEF sh
<1> QED
  BY <1>1, Invariance, PTL

-----------------------------------------------------------------------------
(* The points of the guardians *)

\* What the next guardian g gets when the points in used are taken.
Fresh(r, g, used) == {c \in DOMAIN r.x[g] : NonZero(r.x[g][c]) \notin used}
NextX(r, g, used) ==
    IF Fresh(r, g, used) = {} THEN 0
    ELSE NonZero(r.x[g][CHOOSE c \in Fresh(r, g, used) : \A k \in Fresh(r, g, used) : c <= k])

\* A candidate becomes an element other than 0.
LEMMA NonZeroIs ==
    ASSUME NEW h \in Nat
    PROVE  NonZero(h) \in 1..(P - 1)
<1> DEFINE m == P - 1
<1>1. m \in Nat \ {0} /\ h \in Int
  BY Modulus
<1> HIDE DEF m
<1>2. h % m \in 0..(m - 1)
  BY <1>1, DivDef
<1>3. (h % m) + 1 \in 1..m
  BY <1>1, <1>2
<1> QED
  BY <1>3, Zenon DEF m, NonZero

\* The point that is chosen was not used before, unless there is none.
LEMMA NextXIs ==
    ASSUME NEW r, NEW g, NEW used, r.x[g] \in Seq(Field)
    PROVE  /\ NextX(r, g, used) \in Field
           /\ Fresh(r, g, used) # {} => /\ NextX(r, g, used) \in 1..(P - 1)
                                        /\ NextX(r, g, used) \notin used
<1> DEFINE F == Fresh(r, g, used)
           c == CHOOSE c \in F : \A k \in F : c <= k
<1>1. CASE F = {}
  BY <1>1, Modulus DEF NextX
<1>2. CASE F # {}
  <2>1. F \in SUBSET Nat
    BY DEF Fresh
  <2>2. c \in F
    <3> HIDE DEF F
    <3>1. \E m \in F : \A k \in F : m <= k
      BY <1>2, <2>1, LeastOne
    <3> QED
      BY <3>1, Zenon
  <2>3. NextX(r, g, used) = NonZero(r.x[g][c])
    BY <1>2, Zenon DEF NextX
  <2> HIDE DEF c
  <2>4. r.x[g][c] \in Field /\ NonZero(r.x[g][c]) \notin used
    BY <2>2 DEF Fresh
  <2>5. NonZero(r.x[g][c]) \in 1..(P - 1)
    BY <2>4, FieldInt, NonZeroIs
  <2>6. 1..(P - 1) \subseteq Field
    BY Modulus DEF Field
  <2> QED
    BY <2>3, <2>4, <2>5, <2>6
<1> QED
  BY <1>1, <1>2

\* Each guardian's point is chosen after those before it.
LEMMA DeriveXsIs ==
    ASSUME NEW r \in Rhos
    PROVE  /\ DeriveXs(r) = [g \in Guardians |-> DeriveXs(r)[g]]
           /\ \A g \in Guardians :
                  DeriveXs(r)[g] = NextX(r, g, {DeriveXs(r)[k] : k \in 1..(g - 1)})
<1> DEFINE D == Guardians
           V == Field
           rank == [g \in D |-> g]
           B(g) == Below(D, rank, g)
           value(g, h) == NextX(r, g, {h[k] : k \in 1..(g - 1)})
           step == [g \in D |-> [h \in [B(g) -> V] |-> value(g, h)]]
           Eq(h) == h = [g \in D |-> value(g, h)]
           xs == CHOOSE h : Eq(h)
<1>1. \A g \in D : r.x[g] \in Seq(Field)
  BY SharesAssumption DEF Guardians
<1>2. \A g \in D : 1..(g - 1) \subseteq B(g) /\ B(g) \subseteq D
  BY SharesAssumption DEF Guardians, Below
<1>3. \A g \in D : \A h : value(g, h) \in V
  BY <1>1, NextXIs
<1>4. Steps(D, rank, N + 1, V, step)
  <2>1. rank \in [D -> Nat] /\ N + 1 \in Nat /\ \A z \in D : rank[z] < N + 1
    BY SharesAssumption DEF Guardians
  <2>2. \A g \in D : \A h \in [B(g) -> V] : step[g][h] = value(g, h)
    BY Zenon
  <2> HIDE DEF value, step, rank, D, V
  <2>3. \A g \in D : \A h \in [B(g) -> V] : step[g][h] \in V
    BY <1>3, <2>2, Zenon
  <2> QED
    BY <2>1, <2>3, Zenon DEF Steps
<1>5. PICK h : Recurs(D, rank, V, step, h)
  <2> HIDE DEF step, rank, D, V
  <2> QED
    BY <1>4, RecursionExists
<1>6. h \in [D -> V] /\ \A g \in D : h[g] = value(g, h)
  <2>1. h \in [D -> V] /\ \A g \in D : h[g] = step[g][[y \in B(g) |-> h[y]]]
    BY <1>5, Zenon DEF Recurs
  <2> SUFFICES ASSUME NEW g \in D PROVE h[g] = value(g, h)
    BY <2>1
  <2> DEFINE q == [y \in B(g) |-> h[y]]
  <2>3. q \in [B(g) -> V]
    BY <1>2, <2>1
  <2>4. h[g] = value(g, q)
    BY <2>1, <2>3, Zenon
  <2>5. \A k \in 1..(g - 1) : q[k] = h[k]
    BY <1>2, Zenon
  <2> HIDE DEF q
  <2>6. {q[k] : k \in 1..(g - 1)} = {h[k] : k \in 1..(g - 1)}
    BY <2>5
  <2> QED
    BY <2>4, <2>6, Zenon
<1>7. Eq(h)
  BY <1>6
<1>8. Eq(xs)
  <2> HIDE DEF Eq
  <2> QED
    BY <1>7, Zenon
<1>9. DeriveXs(r) = xs
  BY Zenon DEF DeriveXs, NextX, Fresh
<1>10. xs = [g \in Guardians |-> xs[g]] /\ \A g \in Guardians : xs[g] = value(g, xs)
  <2> HIDE DEF value, xs
  <2> QED
    BY <1>8
<1> HIDE DEF xs
<1> QED
  BY <1>9, <1>10

\* Different points for different guardians, none of them zero: what
\* derive_distinct_x is for.
LEMMA DistinctPoints ==
    ASSUME NEW r \in UsableRhos
    PROVE  /\ DeriveXs(r) \in [Guardians -> 1..(P - 1)]
           /\ \A g, h \in Guardians : DeriveXs(r)[g] = DeriveXs(r)[h] => g = h
<1> DEFINE xs == DeriveXs(r)
           Used(g) == {xs[k] : k \in 1..(g - 1)}
<1>1. r \in Rhos /\ Derivable(r)
  BY DEF UsableRhos
<1>2. xs = [g \in Guardians |-> xs[g]] /\ \A g \in Guardians : xs[g] = NextX(r, g, Used(g))
  BY <1>1, DeriveXsIs
<1>3. \A g \in Guardians : \E c \in DOMAIN r.x[g] : \A k \in 1..(g - 1) : NonZero(r.x[g][c]) # xs[k]
  BY <1>1 DEF Derivable
<1>4. ASSUME NEW g \in Guardians PROVE xs[g] \in 1..(P - 1) /\ xs[g] \notin Used(g)
  <2>1. Fresh(r, g, Used(g)) # {}
    BY <1>3 DEF Fresh
  <2>2. r.x[g] \in Seq(Field)
    BY <1>1, SharesAssumption DEF Guardians
  <2> HIDE DEF Used
  <2> QED
    BY <1>2, <2>1, <2>2, NextXIs
<1>6. ASSUME NEW g \in Guardians, NEW h \in Guardians, g < h PROVE xs[g] # xs[h]
  <2>1. g \in 1..(h - 1)
    BY <1>6, SharesAssumption DEF Guardians
  <2> QED
    BY <1>4, <2>1
<1>7. \A g, h \in Guardians : g < h \/ g = h \/ h < g
  BY SharesAssumption DEF Guardians
<1> HIDE DEF xs, Used
<1> QED
  BY <1>2, <1>4, <1>6, <1>7 DEF xs

-----------------------------------------------------------------------------
(* What the dealer dealt *)

\* A deal of one of the seeds, with a derivation that gives points.
Proper(deal) ==
    \E seed \in Seeds, rho \in UsableRhos, epoch0 \in Epochs \cup {1} : deal = Deal(seed, rho, epoch0)

DealtInv == \A d \in Made : Proper(deals[d])

\* The envelope of guardian g at the point x.
IsEnvelope(e, seed, rho, epoch0, g, x) ==
    /\ e.guardianIndex = g /\ e.n = N /\ e.t = T /\ e.epoch = epoch0 /\ e.active = TRUE
    /\ e.x = x /\ e.ui = Ui(x) /\ e.y = PackChunks(Values(seed, rho, x))
    /\ e.sigma = Payload(e)

\* What is in a dealt envelope.
LEMMA EnvelopeIs ==
    ASSUME NEW seed, NEW rho, NEW epoch0, NEW g \in Guardians
    PROVE  IsEnvelope(Deal(seed, rho, epoch0).envelopes[g], seed, rho, epoch0, g, DeriveXs(rho)[g])
<1> DEFINE xs == DeriveXs(rho)
           vk == [h \in Guardians |-> Ui(xs[h])]
           core(h) == [guardianIndex |-> h, n |-> N, t |-> T, epoch |-> epoch0,
                       x |-> xs[h], y |-> PackChunks(Values(seed, rho, xs[h])),
                       ui |-> vk[h], vkSet |-> vk, active |-> TRUE]
           c == core(g)
           e == Signed(c)
<1>1. Deal(seed, rho, epoch0).envelopes[g] = e
  BY DEF Deal, Share
<1>2. /\ c.guardianIndex = g /\ c.n = N /\ c.t = T /\ c.epoch = epoch0 /\ c.active = TRUE
      /\ c.x = xs[g] /\ c.ui = Ui(xs[g]) /\ c.y = PackChunks(Values(seed, rho, xs[g]))
  OBVIOUS
<1> HIDE DEF c
<1>3. \A f \in Core : e[f] = c[f]
  BY DEF Signed, Core
<1>4. e.sigma = Payload(c)
  BY DEF Signed
<1>5. Payload(e) = Payload(c)
  BY <1>3 DEF Payload
<1>6. {"guardianIndex", "n", "t", "epoch", "active", "x", "ui", "y"} \subseteq Core
  BY DEF Core
<1> HIDE DEF e
<1>7. /\ e.guardianIndex = g /\ e.n = N /\ e.t = T /\ e.epoch = epoch0 /\ e.active = TRUE
      /\ e.x = xs[g] /\ e.ui = Ui(xs[g]) /\ e.y = PackChunks(Values(seed, rho, xs[g]))
  BY <1>2, <1>3, <1>6
<1> QED
  BY <1>1, <1>4, <1>5, <1>7, Zenon DEF IsEnvelope

\* Whatever is altered, invalidated or dealt again, a deal is what
\* ttss_share_nits_shamir made of some seed with points that were all found.
THEOREM DealtInvariant == Spec => []DealtInv
<1>1. Init => DealtInv
  <2> SUFFICES ASSUME Init PROVE DealtInv
    OBVIOUS
  <2>1. PICK seed \in Seeds, rho \in UsableRhos : deals = <<Deal(seed, rho, 1), NoDeal>>
    BY DEF Init, SharesInit
  <2>2. deals[1] = Deal(seed, rho, 1) /\ Made = {1}
    BY <2>1 DEF Made
  <2>3. Proper(deals[1])
    BY <2>2, Zenon DEF Proper
  <2> QED
    BY <2>2, <2>3 DEF DealtInv
<1>2. SharesInv /\ DealtInv /\ [Next]_vars => DealtInv'
  <2> SUFFICES ASSUME SharesInv, DealtInv, [Next]_vars PROVE DealtInv'
    OBVIOUS
  <2>1. CASE UNCHANGED deals
    BY <2>1 DEF DealtInv, Made
  <2>2. ASSUME NEW seed \in Seeds, NEW rho \in UsableRhos, NEW epoch \in Epochs, ShareAgain(seed, rho, epoch)
        PROVE  DealtInv'
    <3>1. deals' = [deals EXCEPT ![2] = Deal(seed, rho, epoch)]
      BY <2>2 DEF ShareAgain
    <3>2. deals'[1] = deals[1] /\ deals'[2] = Deal(seed, rho, epoch)
      BY <3>1 DEF SharesInv
    <3>3. Proper(deals'[1])
      BY <3>2 DEF DealtInv, Made
    <3>4. Proper(deals'[2])
      BY <3>2, Zenon DEF Proper
    <3>5. \A d \in Made' : d = 1 \/ d = 2
      BY DEF Made
    <3>6. \A d \in Made' : Proper(deals'[d])
      BY <3>3, <3>4, <3>5, Zenon
    <3> QED
      BY <3>6 DEF DealtInv, Proper
  <2>3. CASE UNCHANGED vars
    BY <2>1, <2>3 DEF vars, sharesVars
  <2>4. ASSUME NEW order, LoadBox(order) PROVE UNCHANGED deals
    BY <2>4 DEF LoadBox, sharesVars
  <2>5. ASSUME NEW answering, Query(answering) PROVE UNCHANGED deals
    BY <2>5 DEF Query, sharesVars
  <2>6. Conclude => UNCHANGED deals
    BY DEF Conclude, sharesVars
  <2>7. Recover \/ Return => UNCHANGED deals
    BY DEF Recover, Return
  <2>8. ASSUME NEW d, NEW g, Invalidate(d, g) \/ Alter(d, g) PROVE UNCHANGED deals
    BY <2>8 DEF Invalidate, Alter
  <2> QED
    BY <2>1, <2>2, <2>3, <2>4, <2>5, <2>6, <2>7, <2>8 DEF Next
<1> QED
  BY <1>1, <1>2, Invariance, PTL DEF Spec

-----------------------------------------------------------------------------
(* A threshold of intact shares *)

\* The first T shares are those that the guardians gs were dealt.
DealtTo(gs, shares, seed, rho, epoch0) ==
    /\ seed \in Seeds /\ rho \in UsableRhos
    /\ gs \in [1..T -> Guardians]
    /\ \A i, j \in 1..T : gs[i] = gs[j] => i = j
    /\ Len(shares) \in Nat /\ Len(shares) >= T /\ DOMAIN shares = 1..Len(shares)
    /\ \A i \in 1..T : shares[i] = Deal(seed, rho, epoch0).envelopes[gs[i]]

\* The polynomial of chunk c.
Coeffs(seed, rho, c) == <<seed[c]>> \o rho.coeff[c]

\* The dealer's polynomials have T coefficients, the constant from the seed.
LEMMA CoeffsAre ==
    ASSUME NEW seed \in Seeds, NEW rho \in UsableRhos, NEW c \in 1..ChunkCount
    PROVE  Coeffs(seed, rho, c) \in [1..T -> Field] /\ Coeffs(seed, rho, c)[1] = seed[c]
<1> DEFINE a == rho.coeff[c]
           s == seed[c]
           q == Coeffs(seed, rho, c)
<1>1. rho \in Rhos
  BY DEF UsableRhos
<1>2. a \in [1..(T - 1) -> Field] /\ s \in Chunk /\ T \in Nat /\ T >= 2
  BY <1>1, SharesAssumption
<1>3. s \in Field
  <2> DEFINE q2 == 2^ChunkBits
  <2>1. q2 \in Nat
    BY FieldAssumption, TwoPower
  <2>2. Chunk = 0..(q2 - 1) /\ Field = 0..((q2 + 1) - 1)
    BY Zenon DEF Chunk, Field, P
  <2> HIDE DEF q2
  <2> QED
    BY <1>2, <2>1, <2>2
<1>4. q = <<s>> \o a
  BY DEF Coeffs
<1> HIDE DEF a, s, q
<1>5. a \in Seq(Field) /\ Len(a) = T - 1 /\ <<s>> \in Seq(Field) /\ Len(<<s>>) = 1
  BY <1>2, <1>3
<1>6. q \in Seq(Field) /\ Len(q) = T /\ q[1] = s
  BY <1>2, <1>4, <1>5
<1> QED
  BY <1>2, <1>6 DEF s, q

\* The values dealt at x, one for each chunk.
LEMMA ValuesAre ==
    ASSUME NEW seed \in Seeds, NEW rho \in UsableRhos, NEW x \in Field
    PROVE  /\ Values(seed, rho, x) \in [1..ChunkCount -> Field]
           /\ \A c \in 1..ChunkCount : Values(seed, rho, x)[c] = PolyEval(Coeffs(seed, rho, c), x)
<1>1. \A c \in 1..ChunkCount : Values(seed, rho, x)[c] = PolyEval(Coeffs(seed, rho, c), x)
  BY Zenon DEF Values, Coeffs
<1>2. \A c \in 1..ChunkCount : PolyEval(Coeffs(seed, rho, c), x) \in Field
  <2> SUFFICES ASSUME NEW c \in 1..ChunkCount PROVE PolyEval(Coeffs(seed, rho, c), x) \in Field
    OBVIOUS
  <2> DEFINE q == Coeffs(seed, rho, c)
             X == [i \in {1} |-> x]
  <2>1. q \in [1..T -> Field] /\ T \in Nat /\ X \in [{1} -> Field] /\ X[1] = x
    BY CoeffsAre, SharesAssumption
  <2> HIDE DEF q, X
  <2>2. At({1}, X, q)[1] \in Field /\ At({1}, X, q)[1] = PolyEval(q, X[1])
    BY <2>1, AtType
  <2> QED
    BY <2>1, <2>2 DEF q
<1>3. Values(seed, rho, x) = [c \in 1..ChunkCount |-> Values(seed, rho, x)[c]]
  BY DEF Values
<1> HIDE DEF Values
<1> QED
  BY <1>1, <1>2, <1>3

\* What PolyEval gives is in the field, and PackChunks fills the bytes.
LEMMA DealtValues ==
    ASSUME NEW seed \in Seeds, NEW rho \in UsableRhos, NEW epoch0, NEW g \in Guardians
    PROVE  LET e == Deal(seed, rho, epoch0).envelopes[g]
           IN /\ e.x \in 1..(P - 1) /\ e.x \in Field /\ e.x = DeriveXs(rho)[g]
              /\ UnpackChunks(e.y) = Values(seed, rho, e.x)
              /\ Len(e.y) = Bytes /\ e.y # <<>>
<1> DEFINE e == Deal(seed, rho, epoch0).envelopes[g]
           x == DeriveXs(rho)[g]
<1>1. x \in 1..(P - 1) /\ x \in Field
  <2>1. x \in 1..(P - 1)
    BY DistinctPoints
  <2> QED
    BY <2>1, Modulus DEF Field
<1>2. e.x = x /\ e.y = PackChunks(Values(seed, rho, x))
  <2>1. IsEnvelope(e, seed, rho, epoch0, g, x)
    BY EnvelopeIs, Zenon
  <2> QED
    BY <2>1, Zenon DEF IsEnvelope
<1> HIDE DEF x, e
<1>3. UnpackChunks(PackChunks(Values(seed, rho, x))) = Values(seed, rho, x)
      /\ Len(PackChunks(Values(seed, rho, x))) = Bytes
  BY <1>1, ValuesAre, PackedComesBack, Zenon
<1>4. Bytes # 0
  <2> DEFINE w == Width
             b == ByteBits
             n == ChunkCount
             k == Bytes
  <2>1. w \in Nat \ {0} /\ b \in Nat \ {0} /\ n \in Nat \ {0} /\ k \in Nat /\ k * b = n * w
    BY WidthFits
  <2> HIDE DEF w, b, n, k
  <2>2. n * w # 0
    BY <2>1
  <2>3. k # 0
    BY <2>1, <2>2
  <2> QED
    BY <2>3 DEF k
<1>5. Len(<<>>) = 0
  OBVIOUS
<1> QED
  BY <1>1, <1>2, <1>3, <1>4, <1>5, Zenon DEF x, e

\* T different envelopes of a deal pass the checks of a recovery.
LEMMA DealtPasses ==
    ASSUME NEW gs, NEW shares, NEW seed, NEW rho, NEW epoch0,
           DealtTo(gs, shares, seed, rho, epoch0)
    PROVE  Checked(shares) /\ shares[1].t = T
<1> DEFINE Env(i) == Deal(seed, rho, epoch0).envelopes[gs[i]]
           xs == DeriveXs(rho)
<1>0. /\ seed \in Seeds /\ rho \in UsableRhos /\ gs \in [1..T -> Guardians]
      /\ \A i, j \in 1..T : gs[i] = gs[j] => i = j
      /\ Len(shares) \in Nat /\ Len(shares) >= T /\ DOMAIN shares = 1..Len(shares)
      /\ \A i \in 1..T : shares[i] = Env(i)
      /\ N \in Nat /\ T \in Nat /\ 2 <= T /\ T <= N /\ 1 \in 1..T
  BY SharesAssumption DEF DealtTo
<1> HIDE DEF Env
<1>1. \A i \in 1..T :
          /\ shares[i].guardianIndex = gs[i] /\ shares[i].n = N /\ shares[i].t = T
          /\ shares[i].epoch = epoch0 /\ shares[i].active = TRUE
          /\ shares[i].x = xs[gs[i]] /\ shares[i].sigma = Payload(shares[i])
  <2> SUFFICES ASSUME NEW i \in 1..T
               PROVE  /\ shares[i].guardianIndex = gs[i] /\ shares[i].n = N /\ shares[i].t = T
                      /\ shares[i].epoch = epoch0 /\ shares[i].active = TRUE
                      /\ shares[i].x = xs[gs[i]] /\ shares[i].sigma = Payload(shares[i])
    OBVIOUS
  <2>1. gs[i] \in Guardians /\ shares[i] = Env(i)
    BY <1>0
  <2>2. IsEnvelope(shares[i], seed, rho, epoch0, gs[i], xs[gs[i]])
    BY <2>1, EnvelopeIs, Zenon DEF Env
  <2> QED
    BY <2>2, Zenon DEF IsEnvelope
<1>2. \A i \in 1..T : shares[i].y # <<>> /\ Len(shares[i].y) = Bytes
  <2> SUFFICES ASSUME NEW i \in 1..T PROVE Env(i).y # <<>> /\ Len(Env(i).y) = Bytes
    BY <1>0, Zenon
  <2>1. gs[i] \in Guardians
    BY <1>0
  <2> QED
    BY <1>0, <2>1, DealtValues DEF Env
<1>3. \A i \in 1..T : Valid(shares[i])
  <2> SUFFICES ASSUME NEW i \in 1..T PROVE Valid(shares[i])
    OBVIOUS
  <2> DEFINE e == shares[i]
  <2>1. e.guardianIndex # 0 /\ ~(e.n < 2) /\ ~(e.t < 2) /\ ~(e.t > e.n)
    <3>1. gs[i] \in 1..N
      BY <1>0 DEF Guardians
    <3> QED
      BY <1>0, <1>1, <3>1
  <2>2. e.sigma = Payload(e) /\ e.y # <<>>
    BY <1>1, <1>2
  <2> QED
    BY <2>1, <2>2, Zenon DEF Valid, VerifyError
<1>4. \A i \in 1..T : Passes(shares, i)
  <2> SUFFICES ASSUME NEW i \in 1..T PROVE Passes(shares, i)
    OBVIOUS
  <2> DEFINE e == shares[i]
  <2>1. Header(e) = Header(shares[1])
    BY <1>0, <1>1 DEF Header
  <2>2. e.active
    BY <1>1
  <2>3. ~(\E j \in 1..(i - 1) : shares[j].x = e.x)
    <3> SUFFICES ASSUME NEW j \in 1..(i - 1), shares[j].x = e.x PROVE FALSE
      OBVIOUS
    <3>1. j \in 1..T /\ j # i
      BY <1>0
    <3>2. xs[gs[j]] = xs[gs[i]] /\ gs[i] \in Guardians /\ gs[j] \in Guardians
      BY <1>0, <1>1, <3>1
    <3>3. gs[i] = gs[j]
      BY <1>0, <3>2, DistinctPoints
    <3> QED
      BY <1>0, <3>1, <3>3
  <2>4. ~(Len(e.y) # Bytes)
    BY <1>2
  <2>5. Valid(e)
    BY <1>3
  <2> QED
    BY <2>1, <2>2, <2>3, <2>4, <2>5, Zenon DEF Passes, ShareError, Valid
<1>5. shares # <<>>
  BY <1>0
<1> QED
  BY <1>0, <1>1, <1>3, <1>4, <1>5 DEF Checked

\* The interpolation gives the seed.
LEMMA DealtRebuilds ==
    ASSUME NEW gs, NEW shares, NEW seed, NEW rho, NEW epoch0,
           DealtTo(gs, shares, seed, rho, epoch0)
    PROVE  Rebuild(SubSeq(shares, 1, T)) = seed
<1> DEFINE Env(i) == Deal(seed, rho, epoch0).envelopes[gs[i]]
           xs == DeriveXs(rho)
           first == SubSeq(shares, 1, T)
           X == [i \in 1..T |-> xs[gs[i]]]
<1>0. /\ seed \in Seeds /\ rho \in UsableRhos /\ gs \in [1..T -> Guardians]
      /\ \A i, j \in 1..T : gs[i] = gs[j] => i = j
      /\ Len(shares) \in Nat /\ Len(shares) >= T /\ DOMAIN shares = 1..Len(shares)
      /\ \A i \in 1..T : shares[i] = Env(i)
      /\ T \in Nat \ {0} /\ T \in 1..T
  BY SharesAssumption DEF DealtTo
<1>1. first = [i \in 1..T |-> Env(i)]
  <2>1. first = [i \in 1..(T - 1 + 1) |-> shares[i + 1 - 1]]
    BY <1>0
  <2> HIDE DEF Env
  <2> QED
    BY <1>0, <2>1
<1> HIDE DEF Env
<1>2. X \in [1..T -> Field] /\ \A i, j \in 1..T : X[i] = X[j] => i = j
  <2>1. \A g \in Guardians : xs[g] \in Field
    <3>1. \A g \in Guardians : xs[g] \in 1..(P - 1)
      BY <1>0, DistinctPoints
    <3> QED
      BY <3>1, Modulus DEF Field
  <2>2. \A g, h \in Guardians : xs[g] = xs[h] => g = h
    BY <1>0, DistinctPoints
  <2> HIDE DEF xs
  <2> QED
    BY <1>0, <2>1, <2>2
<1>3. \A i \in 1..T : Env(i).x = X[i] /\ UnpackChunks(Env(i).y) = Values(seed, rho, X[i])
  <2> SUFFICES ASSUME NEW i \in 1..T PROVE Env(i).x = X[i] /\ UnpackChunks(Env(i).y) = Values(seed, rho, X[i])
    OBVIOUS
  <2>1. gs[i] \in Guardians /\ X[i] = xs[gs[i]]
    BY <1>0
  <2>2. Env(i).x = xs[gs[i]] /\ UnpackChunks(Env(i).y) = Values(seed, rho, Env(i).x)
    BY <1>0, <2>1, DealtValues DEF Env
  <2> QED
    BY <2>1, <2>2, Zenon
<1> HIDE DEF X
<1>4. ASSUME NEW c \in 1..ChunkCount
      PROVE  LagrangeAtZero([i \in DOMAIN first |-> <<first[i].x, UnpackChunks(first[i].y)[c]>>]) = seed[c]
  <2> DEFINE q == Coeffs(seed, rho, c)
             points == [i \in DOMAIN first |-> <<first[i].x, UnpackChunks(first[i].y)[c]>>]
  <2>1. q \in [1..T -> Field] /\ q[1] = seed[c]
    BY <1>0, CoeffsAre
  <2>2. DOMAIN first = 1..T /\ \A i \in 1..T : first[i] = Env(i)
    BY <1>1
  <2>3. \A i \in 1..T : UnpackChunks(Env(i).y)[c] = PolyEval(q, X[i])
    <3> SUFFICES ASSUME NEW i \in 1..T PROVE UnpackChunks(Env(i).y)[c] = PolyEval(q, X[i])
      OBVIOUS
    <3>1. X[i] \in Field
      BY <1>2
    <3>2. Values(seed, rho, X[i])[c] = PolyEval(q, X[i])
      BY <1>0, <3>1, ValuesAre
    <3> QED
      BY <1>3, <3>2
  <2> HIDE DEF q, first
  <2>4. points = [i \in 1..T |-> <<X[i], PolyEval(q, X[i])>>]
    BY <1>3, <2>2, <2>3
  <2> HIDE DEF points
  <2>5. LagrangeAtZero(points) = q[1]
    <3>1. Samples(points, T, X, T, q)
      BY <1>0, <1>2, <2>1, <2>4 DEF Samples
    <3> QED
      BY <3>1, LagrangeFindsConstant
  <2> QED
    BY <2>1, <2>5 DEF points
<1>5. Rebuild(first) =
          [c \in 1..ChunkCount |->
              LagrangeAtZero([i \in DOMAIN first |-> <<first[i].x, UnpackChunks(first[i].y)[c]>>])]
  BY Zenon DEF Rebuild
<1>6. seed = [c \in 1..ChunkCount |-> seed[c]]
  BY <1>0, SharesAssumption
<1> HIDE DEF first
<1>7. Rebuild(first) = [c \in 1..ChunkCount |-> seed[c]]
  BY <1>4, <1>5, Zenon
<1> QED
  BY <1>6, <1>7, Zenon DEF first

\* AnyThresholdRecovers of TtssShares.
THEOREM ThresholdRecovers == Spec => []AnyThresholdRecovers
<1>1. ASSUME SharesInv, DealtInv PROVE AnyThresholdRecovers
  <2> DEFINE s == outcome.from
             d == s[1][1]
  <2> SUFFICES ASSUME /\ Len(s) >= T
                      /\ \A i \in 1..T : AsDealt(s[i]) /\ s[i][1] = d
                      /\ \A i, j \in 1..T : s[i] = s[j] => i = j
               PROVE  outcome.result = [ok |-> TRUE, seed |-> deals[d].seed]
    BY Zenon DEF AnyThresholdRecovers
  <2>1. T \in Nat /\ T >= 2 /\ 1 \in 1..T
    BY SharesAssumption
  <2>2. outcome # NoOutcome
    <3>1. NoOutcome.from = <<>> /\ Len(<<>>) = 0
      BY DEF NoOutcome
    <3> QED
      BY <2>1, <3>1
  <2>3. PICK slots \in Requests : outcome = [from |-> slots, result |-> TtssRec(Fetched(slots))]
    BY <1>1, <2>2 DEF SharesInv, ResultInv
  <2>4. s = slots /\ outcome.result = TtssRec(Fetched(s))
    BY <2>3
  <2>5. /\ DOMAIN s = 1..Len(s) /\ Len(s) \in Nat
        /\ \A i \in 1..Len(s) : s[i] \in Made \X Guardians
    BY <2>3, <2>4, RequestShape
  <2>6. \A i \in 1..T : i \in 1..Len(s) /\ s[i] \in Made \X Guardians
    BY <2>1, <2>5
  <2> DEFINE sh == Fetched(s)
             gs == [i \in 1..T |-> s[i][2]]
  <2>7. d \in Made /\ Proper(deals[d])
    BY <1>1, <2>1, <2>6 DEF DealtInv
  <2>8. PICK seed \in Seeds, rho \in UsableRhos, epoch0 \in Epochs \cup {1} : deals[d] = Deal(seed, rho, epoch0)
    BY <2>7, Zenon DEF Proper
  <2>9. DOMAIN sh = 1..Len(s) /\ \A i \in 1..Len(s) : sh[i] = envs[s[i][1]][s[i][2]]
    BY <2>5 DEF Fetched
  <2>10. Len(sh) = Len(s)
    BY <2>5, <2>9
  <2>11. gs \in [1..T -> Guardians] /\ \A i \in 1..T : gs[i] = s[i][2] /\ s[i] = <<d, gs[i]>>
    BY <2>6
  <2> HIDE DEF gs, sh
  <2>12. \A i \in 1..T : sh[i] = Deal(seed, rho, epoch0).envelopes[gs[i]]
    BY <2>6, <2>8, <2>9, <2>11 DEF AsDealt
  <2>13. \A i, j \in 1..T : gs[i] = gs[j] => i = j
    BY <2>11
  <2>14. DealtTo(gs, sh, seed, rho, epoch0)
    BY <2>5, <2>9, <2>10, <2>11, <2>12, <2>13 DEF DealtTo
  <2>15. Checked(sh) /\ sh[1].t = T /\ Rebuild(SubSeq(sh, 1, T)) = seed
    BY <2>14, DealtPasses, DealtRebuilds
  <2>16. TtssRec(sh) = Gives(seed)
    <3>1. /\ sh # <<>> /\ Valid(sh[1]) /\ ~(Len(sh) < sh[1].t)
          /\ \A i \in 1..sh[1].t : Passes(sh, i)
      BY <2>15 DEF Checked
    <3>2. {i \in 1..sh[1].t : ~Passes(sh, i)} = {}
      BY <3>1
    <3> QED
      BY <2>15, <3>1, <3>2, Zenon DEF TtssRec, Valid, Passes
  <2>17. Gives(seed) = [ok |-> TRUE, seed |-> seed]
    BY SharesAssumption, Zenon DEF Gives
  <2>18. deals[d].seed = seed
    BY <2>8 DEF Deal
  <2> QED
    BY <2>4, <2>16, <2>17, <2>18, Zenon DEF sh
<1> QED
  BY <1>1, Invariance, DealtInvariant, PTL

-----------------------------------------------------------------------------
(* Fewer shares than the threshold *)

\* A chunk of the seed is an element of the field.
LEMMA ChunkInField == Chunk \subseteq Field
<1> DEFINE q == 2^ChunkBits
<1>1. q \in Nat
  BY FieldAssumption, TwoPower
<1>2. Chunk = 0..(q - 1) /\ Field = 0..((q + 1) - 1)
  BY Zenon DEF Chunk, Field, P
<1> HIDE DEF q
<1> QED
  BY <1>1, <1>2

\* The points of T - 1 guardians of a deal.
LEMMA FewerPoints ==
    ASSUME NEW deal, Proper(deal), NEW G \in kSubset(T - 1, Guardians)
    PROVE  Outside(G, [g \in G |-> deal.envelopes[g].x], T - 1)
<1>1. PICK seed \in Seeds, rho \in UsableRhos, epoch0 \in Epochs \cup {1} : deal = Deal(seed, rho, epoch0)
  BY Zenon DEF Proper
<1>2. G \in SUBSET Guardians /\ Cardinality(G) = T - 1
  BY DEF kSubset
<1>3. T - 1 \in Nat /\ IsFiniteSet(Guardians)
  <2>1. IsFiniteSet(1..N)
    BY SharesAssumption, FS_Interval
  <2> QED
    BY <2>1, SharesAssumption DEF Guardians
<1>4. IsFiniteSet(G)
  BY <1>2, <1>3, FS_Subset
<1>5. \A g \in G : deal.envelopes[g].x \in Field /\ deal.envelopes[g].x # 0
  <2> SUFFICES ASSUME NEW g \in G PROVE deal.envelopes[g].x \in Field /\ deal.envelopes[g].x # 0
    OBVIOUS
  <2> DEFINE x == deal.envelopes[g].x
  <2>1. g \in Guardians
    BY <1>2
  <2>2. x \in 1..(P - 1) /\ x \in Field
    BY <1>1, <2>1, DealtValues, Zenon
  <2> HIDE DEF x
  <2>3. x # 0
    BY <2>2
  <2> QED
    BY <2>2, <2>3 DEF x
<1> DEFINE X == [g \in G |-> deal.envelopes[g].x]
<1>6. X \in [G -> Field] /\ \A g \in G : X[g] # 0
  BY <1>5
<1> HIDE DEF X
<1>7. Outside(G, X, T - 1)
  BY <1>2, <1>3, <1>4, <1>6 DEF Outside
<1> QED
  BY <1>7 DEF X

\* BelowThresholdTellsNothing of TtssShares.
THEOREM FewerTellNothing == Spec => []BelowThresholdTellsNothing
<1>1. ASSUME DealtInv PROVE BelowThresholdTellsNothing
  <2> DEFINE deal == deals[1]
             Seen(G, c) == [g \in G |-> UnpackChunks(deal.envelopes[g].y)[c]]
             X(G) == [g \in G |-> deal.envelopes[g].x]
             Ways(G, c, v) == {a \in [1..(T - 1) -> Field] :
                 \A g \in G : PolyEval(<<v>> \o a, deal.envelopes[g].x) = Seen(G, c)[g]}
  <2>1. SUFFICES ASSUME NEW G \in kSubset(T - 1, Guardians), NEW c \in 1..ChunkCount, NEW v \in Chunk
                 PROVE  Cardinality(Ways(G, c, v)) = Cardinality(Ways(G, c, 0))
    BY Zenon DEF BelowThresholdTellsNothing
  <2>2. Proper(deal)
    BY <1>1 DEF DealtInv, Made
  <2>3. v \in Field /\ 0 \in Field
    BY ChunkInField, Modulus
  <2> HIDE DEF deal, Seen
  <2>4. /\ Ways(G, c, v) = WaysOf(G, X(G), T - 1, Seen(G, c), v)
        /\ Ways(G, c, 0) = WaysOf(G, X(G), T - 1, Seen(G, c), 0)
    BY DEF WaysOf, Coefficients
  <2>5. Outside(G, X(G), T - 1)
    BY <2>2, FewerPoints, Zenon
  <2> HIDE DEF X, Ways
  <2>6. Cardinality(WaysOf(G, X(G), T - 1, Seen(G, c), v))
        = Cardinality(WaysOf(G, X(G), T - 1, Seen(G, c), 0))
    BY <2>3, <2>5, SharesHideConstant
  <2> QED
    BY <2>4, <2>6, Zenon
<1> QED
  BY <1>1, DealtInvariant, PTL

-----------------------------------------------------------------------------
(* Sorting *)

\* s names the k numbers of S from the lowest.
Rises(s, k, S) ==
    /\ k \in Nat /\ s \in [1..k -> Nat] /\ S = {s[i] : i \in 1..k}
    /\ \A i, j \in 1..k : i < j => s[i] < s[j]

Lower(S, x) == {y \in S : y < x}
Rank(S, x) == Cardinality(Lower(S, x))

\* Each number of a finite set has a rank of its own.
LEMMA RankIs ==
    ASSUME NEW S \in SUBSET Nat, IsFiniteSet(S)
    PROVE  /\ Cardinality(S) \in Nat
           /\ \A x \in S : Rank(S, x) \in 0..(Cardinality(S) - 1)
           /\ \A x, y \in S : x < y => Rank(S, x) < Rank(S, y)
<1>1. Cardinality(S) \in Nat
  BY FS_CardinalityType
<1>2. \A x \in S : IsFiniteSet(Lower(S, x)) /\ Rank(S, x) \in Nat
  <2> SUFFICES ASSUME NEW x \in S PROVE IsFiniteSet(Lower(S, x)) /\ Rank(S, x) \in Nat
    OBVIOUS
  <2>1. Lower(S, x) \in SUBSET S
    BY DEF Lower
  <2>2. IsFiniteSet(Lower(S, x))
    BY <2>1, FS_Subset
  <2> QED
    BY <2>2, FS_CardinalityType DEF Rank
<1>3. ASSUME NEW x \in S PROVE Rank(S, x) \in 0..(Cardinality(S) - 1)
  <2>1. Lower(S, x) \in SUBSET S /\ x \notin Lower(S, x)
    BY DEF Lower
  <2>2. Rank(S, x) <= Cardinality(S) /\ Cardinality(S) # Rank(S, x)
    BY <2>1, FS_Subset DEF Rank
  <2>3. Rank(S, x) \in Nat
    BY <1>2
  <2> QED
    BY <1>1, <2>2, <2>3
<1>4. ASSUME NEW x \in S, NEW y \in S, x < y PROVE Rank(S, x) < Rank(S, y)
  <2>1. Lower(S, x) \subseteq Lower(S, y) /\ x \notin Lower(S, x) /\ x \in Lower(S, y)
    <3>1. x \in Nat /\ y \in Nat /\ ~(x < x) /\ \A z \in Nat : z < x => z < y
      BY <1>4
    <3>2. \A z \in S : z < x => z < y
      BY <3>1, Zenon
    <3> QED
      BY <1>4, <3>1, <3>2, Zenon DEF Lower
  <2>2. Rank(S, x) <= Rank(S, y) /\ Rank(S, y) # Rank(S, x)
    <3>1. IsFiniteSet(Lower(S, y)) /\ Lower(S, x) \in SUBSET Lower(S, y)
      BY <1>2, <2>1
    <3> QED
      BY <2>1, <3>1, FS_Subset DEF Rank
  <2>3. Rank(S, x) \in Nat /\ Rank(S, y) \in Nat
    BY <1>2
  <2> QED
    BY <2>2, <2>3
<1> QED
  BY <1>1, <1>3, <1>4

\* Ascend sorts.
LEMMA AscendRises ==
    ASSUME NEW S \in SUBSET Nat, IsFiniteSet(S)
    PROVE  Rises(Ascend(S), Cardinality(S), S)
<1> DEFINE n == Cardinality(S)
           f == [x \in S |-> Rank(S, x)]
           s == Ascend(S)
<1>1. /\ n \in Nat /\ \A x \in S : Rank(S, x) \in 0..(n - 1)
      /\ \A x, y \in S : x < y => Rank(S, x) < Rank(S, y)
  BY RankIs
<1>2. \A x, y \in S : Rank(S, x) = Rank(S, y) => x = y
  <2> SUFFICES ASSUME NEW x \in S, NEW y \in S, Rank(S, x) = Rank(S, y), x # y PROVE FALSE
    OBVIOUS
  <2>1. x \in Nat /\ y \in Nat
    OBVIOUS
  <2>2. x < y \/ y < x
    BY <2>1
  <2>3. Rank(S, x) \in Nat /\ Rank(S, y) \in Nat
    BY <1>1
  <2> QED
    BY <1>1, <2>2, <2>3
<1>3. \A r \in 0..(n - 1) : \E x \in S : Rank(S, x) = r
  <2>1. f \in Injection(S, 0..(n - 1))
    BY <1>1, <1>2 DEF Injection, IsInjective
  <2>2. IsFiniteSet(0..(n - 1)) /\ Cardinality(0..(n - 1)) = n
    <3>1. IsFiniteSet(0..(n - 1)) /\ Cardinality(0..(n - 1)) = IF 0 > n - 1 THEN 0 ELSE (n - 1) - 0 + 1
      BY <1>1, FS_Interval
    <3> QED
      BY <1>1, <3>1
  <2> HIDE DEF f
  <2>3. f \in Surjection(S, 0..(n - 1))
    BY <2>1, <2>2, FS_Injection
  <2> QED
    BY <2>3 DEF Surjection, f
<1>4. s = [i \in 1..n |-> CHOOSE x \in S : Rank(S, x) = i - 1]
  BY Zenon DEF Ascend, Rank, Lower
<1> HIDE DEF n, s
<1>5. ASSUME NEW i \in 1..n PROVE s[i] \in S /\ Rank(S, s[i]) = i - 1
  <2> DEFINE r == i - 1
  <2>1. r \in 0..(n - 1)
    BY <1>1
  <2> HIDE DEF r
  <2>2. \E x \in S : Rank(S, x) = r
    BY <1>3, <2>1
  <2>3. s[i] = CHOOSE x \in S : Rank(S, x) = r
    BY <1>4, Zenon DEF r
  <2>4. s[i] \in S /\ Rank(S, s[i]) = r
    BY <2>2, <2>3, Zenon
  <2> QED
    BY <2>4 DEF r
<1>6. s \in [1..n -> Nat]
  BY <1>4, <1>5
<1>7. ASSUME NEW i \in 1..n, NEW j \in 1..n, i < j PROVE s[i] < s[j]
  <2>1. s[i] \in Nat /\ s[j] \in Nat /\ s[i] \in S /\ s[j] \in S
    BY <1>5
  <2>2. Rank(S, s[i]) = i - 1 /\ Rank(S, s[j]) = j - 1
    BY <1>5
  <2>3. ~(s[j] < s[i])
    BY <1>1, <1>7, <2>1, <2>2
  <2>4. s[i] # s[j]
    BY <1>7, <2>2
  <2> QED
    BY <2>1, <2>3, <2>4
<1>8. S = {s[i] : i \in 1..n}
  <2>1. ASSUME NEW x \in S PROVE \E i \in 1..n : x = s[i]
    <3>1. Rank(S, x) + 1 \in 1..n /\ Rank(S, x) = (Rank(S, x) + 1) - 1
      BY <1>1
    <3>2. PICK i \in 1..n : Rank(S, x) = i - 1
      BY <3>1
    <3>3. s[i] \in S /\ Rank(S, s[i]) = Rank(S, x)
      BY <1>5, <3>2
    <3> QED
      BY <1>2, <3>3
  <2> QED
    BY <1>5, <2>1
<1>9. Rises(s, n, S)
  BY <1>1, <1>6, <1>7, <1>8 DEF Rises
<1> QED
  BY <1>9 DEF s, n

\* And there is one way to sort.
LEMMA OneAscent ==
    ASSUME NEW s, NEW k, NEW S, Rises(s, k, S)
    PROVE  /\ Ascend(S) = s /\ Cardinality(S) = k /\ IsFiniteSet(S) /\ S \in SUBSET Nat
<1>0. /\ k \in Nat /\ s \in [1..k -> Nat] /\ S = {s[i] : i \in 1..k}
      /\ \A i, j \in 1..k : i < j => s[i] < s[j]
  BY DEF Rises
<1>1. S \in SUBSET Nat
  BY <1>0
<1>2. IsFiniteSet(S) /\ Cardinality(S) = k
  BY <1>0, CountPositions
<1>3. ASSUME NEW i \in 1..k PROVE Rank(S, s[i]) = i - 1
  <2>1. PICK m \in Nat : m + 1 = i
    <3>1. i - 1 \in Nat /\ (i - 1) + 1 = i
      BY <1>0
    <3> QED
      BY <3>1
  <2>2. \A j \in 1..k : s[j] \in Nat /\ s[i] \in Nat
    BY <1>0
  <2>3. \A j \in 1..k : j \in 1..m <=> s[j] < s[i]
    <3> SUFFICES ASSUME NEW j \in 1..k PROVE j \in 1..m <=> s[j] < s[i]
      OBVIOUS
    <3>1. CASE j < i
      BY <1>0, <2>1, <3>1
    <3>2. CASE j = i
      BY <1>0, <2>1, <2>2, <3>2
    <3>3. CASE i < j
      <4>1. s[i] < s[j] /\ s[i] \in Nat /\ s[j] \in Nat
        BY <1>0, <2>2, <3>3
      <4>2. ~(s[j] < s[i])
        BY <4>1
      <4> QED
        BY <1>0, <2>1, <3>3, <4>2
    <3> QED
      BY <1>0, <3>1, <3>2, <3>3
  <2>4. \A j \in 1..m : j \in 1..k
    BY <1>0, <2>1
  <2>5. Lower(S, s[i]) = {s[j] : j \in 1..m}
    BY <1>0, <2>3, <2>4 DEF Lower
  <2>6. Cardinality({s[j] : j \in 1..m}) = m
    <3>1. /\ \A j \in 1..m : s[j] \in Nat
          /\ \A j, l \in 1..m : j < l => s[j] < s[l]
      BY <1>0, <2>2, <2>4
    <3> QED
      BY <3>1, CountPositions
  <2>7. m = i - 1
    BY <2>1
  <2> QED
    BY <2>5, <2>6, <2>7 DEF Rank
<1>4. Rises(Ascend(S), Cardinality(S), S)
  BY <1>1, <1>2, AscendRises
<1>5. Ascend(S) \in [1..k -> Nat]
  BY <1>2, <1>4 DEF Rises
<1>6. ASSUME NEW i \in 1..k PROVE Ascend(S)[i] = s[i]
  <2>1. Ascend(S)[i] = CHOOSE x \in S : Rank(S, x) = i - 1
    BY <1>2, Zenon DEF Ascend, Rank, Lower
  <2>2. s[i] \in S /\ Rank(S, s[i]) = i - 1
    BY <1>0, <1>3
  <2>3. ASSUME NEW x \in S, Rank(S, x) = i - 1 PROVE x = s[i]
    <3>1. PICK j \in 1..k : x = s[j]
      BY <1>0
    <3>2. Rank(S, s[j]) = j - 1
      BY <1>3
    <3>3. j - 1 = i - 1
      BY <2>3, <3>1, <3>2
    <3> QED
      BY <1>0, <3>1, <3>3
  <2> QED
    BY <2>1, <2>2, <2>3, Zenon
<1>7. Ascend(S) = s
  <2>1. Ascend(S) = [i \in 1..k |-> Ascend(S)[i]] /\ s = [i \in 1..k |-> s[i]]
    BY <1>0, <1>5
  <2> QED
    BY <1>6, <2>1, Zenon
<1> QED
  BY <1>1, <1>2, <1>7

\* All of a sequence, and nothing of it.
LEMMA Parts ==
    ASSUME NEW k \in Nat, NEW s, s = [i \in 1..k |-> s[i]]
    PROVE  Part(s, 1..k) = s /\ Part(s, {}) = <<>> /\ Ascend({}) = <<>>
<1> DEFINE e == [i \in 1..k |-> i]
           z == [i \in 1..0 |-> i]
<1>1. Rises(e, k, 1..k) /\ Rises(z, 0, {})
  BY DEF Rises
<1>2. z = <<>>
  OBVIOUS
<1> HIDE DEF e, z
<1>3. Ascend(1..k) = e /\ Ascend({}) = z
  BY <1>1, OneAscent
<1>4. Part(s, 1..k) = s
  BY <1>3 DEF Part, e
<1>5. Part(s, {}) = <<>>
  BY <1>2, <1>3 DEF Part
<1> QED
  BY <1>2, <1>3, <1>4, <1>5

-----------------------------------------------------------------------------
(* What a trace has found *)

\* The point that guardian g was dealt, and those of the guardians in order.
PointOf(g) == deals[1].envelopes[g].x
PointsOf(order) == [i \in DOMAIN order |-> PointOf(order[i])]

\* An envelope may come back with another point, but with the key entry it
\* was dealt with.
BoundInv ==
    \A g \in Guardians :
        /\ envs[1][g].x \in 1..(P - 1)
        /\ envs[1][g].ui = deals[1].envelopes[g].ui

Loaded(order) ==
    /\ order \in LeakOrders
    /\ box = [i \in DOMAIN order |-> box[i]]
    /\ \A i \in DOMAIN order : box[i].x = PointOf(order[i])

Concluded == [script |-> ScriptResult(VkEntries(deals[1])),
              library |-> LibraryResult(VkEntries(deals[1]))]

\* The box holds the points that the leaking guardians were dealt, the roots
\* are those points or none, and the verdict is what follows from them.
TraceInv ==
    /\ BoundInv
    /\ IF box = <<>> THEN roots = <<>> /\ okRoots = {} /\ verdict = NoVerdict
                     ELSE /\ Loaded(leaked)
                          /\ roots \in {<<>>, PointsOf(leaked)}
                          /\ okRoots \in {{}, ToSet(PointsOf(leaked))}
    /\ verdict \in {NoVerdict, Concluded}

\* The points of a deal.
LEMMA DealtPoints ==
    ASSUME NEW deal, Proper(deal)
    PROVE  /\ \A g \in Guardians : /\ deal.envelopes[g].x \in 1..(P - 1)
                                   /\ deal.envelopes[g].ui = Ui(deal.envelopes[g].x)
           /\ \A g, h \in Guardians : deal.envelopes[g].x = deal.envelopes[h].x => g = h
<1>1. PICK seed \in Seeds, rho \in UsableRhos, epoch0 \in Epochs \cup {1} : deal = Deal(seed, rho, epoch0)
  BY Zenon DEF Proper
<1> DEFINE xs == DeriveXs(rho)
<1>2. xs \in [Guardians -> 1..(P - 1)] /\ \A g, h \in Guardians : xs[g] = xs[h] => g = h
  BY DistinctPoints
<1> HIDE DEF xs
<1>3. \A g \in Guardians : deal.envelopes[g].x = xs[g] /\ deal.envelopes[g].ui = Ui(xs[g])
  <2> SUFFICES ASSUME NEW g \in Guardians
               PROVE  deal.envelopes[g].x = xs[g] /\ deal.envelopes[g].ui = Ui(xs[g])
    OBVIOUS
  <2>1. IsEnvelope(deal.envelopes[g], seed, rho, epoch0, g, xs[g])
    BY <1>1, EnvelopeIs, Zenon DEF xs
  <2> QED
    BY <2>1, Zenon DEF IsEnvelope
<1> QED
  BY <1>2, <1>3

\* Different points have different key entries.
LEMMA UiTells ==
    ASSUME NEW a \in 1..(P - 1), NEW b \in 1..(P - 1)
    PROVE  Ui(a) = Ui(b) <=> a = b
<1>1. a \in Field /\ b \in Field
  BY Modulus DEF Field
<1>2. a % P = a /\ b % P = b
  BY <1>1, FieldInt
<1>3. Ui(a) = [ui |-> a] /\ Ui(b) = [ui |-> b]
  BY <1>2, Zenon DEF Ui
<1> QED
  BY <1>3

\* An altered envelope keeps its key entry, and a point in range.
LEMMA AlteredKeepsEntry ==
    ASSUME NEW e, e = [f \in Fields |-> e[f]], e.x \in 1..(P - 1),
           NEW a \in Alterations(e) \cup {[e EXCEPT !.active = FALSE]}
    PROVE  a.ui = e.ui /\ a.x \in 1..(P - 1)
<1> DOMAIN e = Fields
  OBVIOUS
<1> {"active", "epoch", "t", "guardianIndex", "x", "y", "ui"} \subseteq Fields
  BY DEF Fields, Core
<1>1. ASSUME NEW c \in Core \ {"x", "ui"}, NEW v
      PROVE  LET b == [e EXCEPT ![c] = v] IN b.x = e.x /\ b.ui = e.ui
  BY DEF Fields, Core
<1>2. ASSUME NEW v PROVE LET b == [e EXCEPT !["x"] = v] IN b.x = v /\ b.ui = e.ui
  BY DEF Fields, Core
<1>3. \/ \E c \in Core \ {"x", "ui"} : \E v : a = [e EXCEPT ![c] = v]
      \/ a = [e EXCEPT !["x"] = (e.x % (P - 1)) + 1]
  BY DEF Alterations, Core
<1>4. (e.x % (P - 1)) + 1 \in 1..(P - 1)
  <2>1. e.x \in Nat
    OBVIOUS
  <2> QED
    BY <2>1, NonZeroIs, Zenon DEF NonZero
<1> QED
  BY <1>1, <1>2, <1>3, <1>4

\* The first part of what is put together.
LEMMA FrontPart ==
    ASSUME NEW k \in Nat, NEW m \in Nat, NEW s, NEW t,
           s = [i \in 1..k |-> s[i]], t = [i \in 1..m |-> t[i]]
    PROVE  \A i \in 1..k : (s \o t)[i] = s[i]
<1> DEFINE V == {s[i] : i \in 1..k} \cup {t[i] : i \in 1..m}
<1>1. s \in [1..k -> V] /\ t \in [1..m -> V]
  BY Zenon
<1> HIDE DEF V
<1>2. s \in Seq(V) /\ t \in Seq(V) /\ Len(s) = k
  BY <1>1
<1> QED
  BY <1>2

\* An order of leaks names k < T different guardians.
LEMMA LeakOrderIs ==
    ASSUME NEW order \in LeakOrders
    PROVE  \E k \in 1..(T - 1) : /\ order \in [1..k -> Guardians] /\ k \in Nat /\ k >= 1
                                 /\ DOMAIN order = 1..k /\ Len(order) = k
                                 /\ \A i, j \in 1..k : order[i] = order[j] => i = j
<1>1. PICK k \in 1..(T - 1) : order \in [1..k -> Guardians]
  BY DEF LeakOrders
<1>2. IsInjective(order)
  BY DEF LeakOrders
<1>3. k \in Nat /\ k >= 1
  BY SharesAssumption
<1> QED
  BY <1>1, <1>2, <1>3 DEF IsInjective

\* The honest shares are a sequence.
LEMMA HonestIs ==
    ASSUME NEW answering \in SUBSET Guardians, leaked \in LeakOrders
    PROVE  \E m \in Nat : HonestShares(answering) = [i \in 1..m |-> HonestShares(answering)[i]]
<1> DEFINE A == {g \in answering : envs[1][g].active /\ envs[1][g].guardianIndex # 0}
           count == T - Len(leaked)
           m == IF Len(Ascend(A)) < count THEN Len(Ascend(A)) ELSE count
<1>1. IsFiniteSet(A) /\ A \in SUBSET Nat
  <2>1. A \in SUBSET Guardians /\ Guardians \in SUBSET Nat
    <3>1. \A g \in Guardians : g \in Nat
      BY SharesAssumption DEF Guardians
    <3> QED
      BY <3>1, Zenon
  <2>2. IsFiniteSet(Guardians)
    BY SharesAssumption, FS_Interval DEF Guardians
  <2>3. IsFiniteSet(A)
    <3> HIDE DEF A
    <3> QED
      BY <2>1, <2>2, FS_Subset
  <2> QED
    BY <2>1, <2>3
<1>2. Len(Ascend(A)) \in Nat
  <2> HIDE DEF A
  <2>1. Rises(Ascend(A), Cardinality(A), A)
    BY <1>1, AscendRises
  <2> QED
    BY <2>1 DEF Rises
<1>3. count \in Nat
  BY LeakOrderIs, SharesAssumption
<1>4. HonestShares(answering) = [i \in 1..m |-> envs[1][Ascend(A)[i]]]
  BY Zenon DEF HonestShares
<1> HIDE DEF A, count
<1>5. m \in Nat
  BY <1>2, <1>3
<1> HIDE DEF m
<1> QED
  BY <1>4, <1>5

\* Nothing is loaded at first.
LEMMA TraceInvInit == Init /\ DealtInv => TraceInv
<1> SUFFICES ASSUME Init, DealtInv PROVE TraceInv
  OBVIOUS
<1>1. Proper(deals[1])
  BY DEF DealtInv, Made
<1>2. envs[1] = deals[1].envelopes
  BY DEF Init, SharesInit
<1>3. BoundInv
  BY <1>1, <1>2, DealtPoints DEF BoundInv
<1> QED
  BY <1>3 DEF Init, TraceInv

\* The trace's own variables as they were.
LEMMA TraceStays ==
    ASSUME TraceInv, BoundInv', deals'[1] = deals[1], UNCHANGED traceVars
    PROVE  TraceInv'
<1>1. UNCHANGED <<leaked, box, roots, okRoots, verdict>>
  BY DEF traceVars
<1>2. Concluded' = Concluded
  BY <1>1 DEF Concluded, ScriptResult, LibraryResult
<1>3. PointsOf(leaked)' = PointsOf(leaked) /\ (Loaded(leaked) <=> Loaded(leaked)')
  BY <1>1 DEF PointsOf, PointOf, Loaded
<1> QED
  BY <1>1, <1>2, <1>3 DEF TraceInv

\* The box takes the shares of the guardians in order.
LEMMA TraceLoads ==
    ASSUME SharesInv, DealtInv, TraceInv, NEW order \in LeakOrders, LoadBox(order)
    PROVE  TraceInv'
<1>1. /\ box = <<>> /\ leaked' = order /\ box' = [i \in DOMAIN order |-> envs[1][order[i]]]
      /\ \A i \in DOMAIN order : FitsBinding(envs[1][order[i]])
      /\ UNCHANGED <<deals, envs, roots, okRoots, verdict>>
  BY DEF LoadBox, sharesVars
<1>2. BoundInv /\ roots = <<>> /\ okRoots = {} /\ verdict = NoVerdict
  BY <1>1 DEF TraceInv
<1>3. BoundInv'
  BY <1>1, <1>2 DEF BoundInv
<1>4. Proper(deals[1])
  BY DEF DealtInv, Made
<1>5. \A i \in DOMAIN order : order[i] \in Guardians
  BY LeakOrderIs
<1>6. ASSUME NEW i \in DOMAIN order PROVE box'[i].x = PointOf(order[i])
  <2> DEFINE g == order[i]
             e == envs[1][g]
  <2>1. g \in Guardians /\ box'[i] = e
    BY <1>1, <1>5
  <2>2. e.x \in 1..(P - 1) /\ e.ui = deals[1].envelopes[g].ui
    BY <1>2, <2>1 DEF BoundInv
  <2>3. PointOf(g) \in 1..(P - 1) /\ deals[1].envelopes[g].ui = Ui(PointOf(g))
    BY <1>4, <2>1, DealtPoints DEF PointOf
  <2>4. Ui(e.x) = e.ui
    BY <1>1 DEF FitsBinding
  <2> HIDE DEF e, g
  <2>5. e.x = PointOf(g)
    BY <2>2, <2>3, <2>4, UiTells
  <2> QED
    BY <2>1, <2>5 DEF g
<1>7. Loaded(leaked)'
  <2>1. box' = [i \in DOMAIN order |-> box'[i]]
    BY <1>1
  <2>2. \A g : PointOf(g)' = PointOf(g)
    BY <1>1 DEF PointOf
  <2> QED
    BY <1>1, <1>6, <2>1, <2>2, Zenon DEF Loaded
<1> QED
  BY <1>1, <1>2, <1>3, <1>7 DEF TraceInv

\* A query brings the points of the box, once.
LEMMA TraceQueries ==
    ASSUME SharesInv, DealtInv, TraceInv, NEW answering \in SUBSET Guardians, Query(answering)
    PROVE  TraceInv'
<1> DEFINE honest == HonestShares(answering)
           shares == box \o honest
           seen == OracleRoots(shares)
           fresh == {i \in DOMAIN seen : seen[i] \notin ToSet(roots)}
           points == PointsOf(leaked)
<1>1. /\ box # <<>> /\ verdict = NoVerdict
      /\ roots' = roots \o Part(seen, fresh)
      /\ okRoots' = okRoots \cup ToSet(seen) \/ okRoots' = okRoots
      /\ UNCHANGED <<deals, envs, leaked, box, verdict>>
  BY Zenon DEF Query, sharesVars
<1>2. /\ BoundInv /\ Loaded(leaked) /\ roots \in {<<>>, points} /\ okRoots \in {{}, ToSet(points)}
  BY <1>1 DEF TraceInv
<1>3. /\ leaked \in LeakOrders /\ box = [i \in DOMAIN leaked |-> box[i]]
      /\ \A i \in DOMAIN leaked : box[i].x = PointOf(leaked[i])
  BY <1>2 DEF Loaded
<1>4. PICK k \in Nat : DOMAIN leaked = 1..k
  BY <1>3, LeakOrderIs
<1>5. PICK m \in Nat : honest = [i \in 1..m |-> honest[i]]
  BY <1>3, HonestIs
<1>6. points = [i \in 1..k |-> PointOf(leaked[i])]
  BY <1>4 DEF PointsOf
<1>7. seen = points
  <2> HIDE DEF honest
  <2>1. \A i \in 1..k : shares[i] = box[i]
    BY <1>3, <1>4, <1>5, FrontPart
  <2>2. DOMAIN box = 1..k
    BY <1>3, <1>4
  <2>3. seen = [i \in 1..k |-> shares[i].x]
    BY <2>2, Zenon DEF OracleRoots
  <2>4. \A i \in 1..k : shares[i].x = PointOf(leaked[i])
    BY <1>3, <1>4, <2>1
  <2> HIDE DEF shares, seen
  <2> QED
    BY <1>6, <2>3, <2>4
<1>8. points = [i \in 1..k |-> points[i]] /\ DOMAIN points = 1..k
  BY <1>6
<1> HIDE DEF seen, points
<1>9. roots' = points
  <2>1. CASE roots = <<>>
    <3>1. fresh = 1..k
      BY <1>7, <1>8, <2>1 DEF ToSet
    <3> HIDE DEF fresh
    <3>2. Part(seen, fresh) = points
      BY <1>4, <1>7, <1>8, <3>1, Parts
    <3>3. <<>> \o points = points
      <4> DEFINE V == {points[i] : i \in 1..k}
      <4>1. points \in [1..k -> V]
        BY <1>8, Zenon
      <4> HIDE DEF V
      <4>2. points \in Seq(V)
        BY <4>1
      <4> QED
        BY <4>2
    <3> QED
      BY <1>1, <2>1, <3>2, <3>3
  <2>2. CASE roots = points
    <3>1. fresh = {}
      BY <1>7, <1>8, <2>2 DEF ToSet
    <3> HIDE DEF fresh
    <3>2. Part(seen, fresh) = <<>>
      BY <1>4, <1>7, <1>8, <3>1, Parts
    <3>3. points \o <<>> = points
      <4> DEFINE V == {points[i] : i \in 1..k}
      <4>1. points \in [1..k -> V]
        BY <1>8, Zenon
      <4> HIDE DEF V
      <4>2. points \in Seq(V)
        BY <4>1
      <4> QED
        BY <4>2
    <3> QED
      BY <1>1, <2>2, <3>2, <3>3
  <2> QED
    BY <1>2, <2>1, <2>2
<1>10. okRoots' \in {{}, ToSet(points)}
  BY <1>1, <1>2, <1>7
<1>11. PointsOf(leaked)' = points /\ Loaded(leaked)' /\ BoundInv'
  BY <1>1, <1>2 DEF PointsOf, PointOf, Loaded, BoundInv, points
<1> QED
  BY <1>1, <1>9, <1>10, <1>11, Zenon DEF TraceInv

\* Envelopes that are altered on the way.
LEMMA TraceAltered ==
    ASSUME SharesInv, TraceInv, NEW d \in {1, 2}, NEW g \in Guardians,
           Invalidate(d, g) \/ Alter(d, g), UNCHANGED traceVars
    PROVE  TraceInv'
<1>1. UNCHANGED deals /\ d \in Made /\ BoundInv
  BY DEF Invalidate, Alter, Slots, Made, TraceInv
<1>2. DOMAIN envs = 1..2 /\ SignedOnce(d) /\ SignedOnce(1)
  BY <1>1 DEF SharesInv, Made
<1>3. PICK a \in Alterations(envs[d][g]) \cup {[envs[d][g] EXCEPT !.active = FALSE]} :
          envs' = [envs EXCEPT ![d][g] = a]
  <2>1. CASE Invalidate(d, g)
    <3>1. d \in DOMAIN envs /\ g \in DOMAIN envs[d]
      BY <1>2 DEF SignedOnce
    <3>2. envs' = [envs EXCEPT ![d][g] = [envs[d][g] EXCEPT !.active = FALSE]]
      BY <2>1, <3>1 DEF Invalidate
    <3> QED
      BY <3>2
  <2>2. CASE Alter(d, g)
    BY <2>2 DEF Alter
  <2> QED
    BY <2>1, <2>2
<1>4. BoundInv'
  <2>1. CASE d # 1
    <3>1. envs'[1] = envs[1]
      BY <1>2, <1>3, <2>1
    <3> QED
      BY <1>1, <3>1 DEF BoundInv
  <2>2. CASE d = 1
    <3> DEFINE e == envs[1][g]
    <3>1. /\ envs'[1][g] = a
          /\ \A h \in Guardians \ {g} : envs'[1][h] = envs[1][h]
      BY <1>2, <1>3, <2>2 DEF SignedOnce
    <3>2. e = [f \in Fields |-> e[f]] /\ e.x \in 1..(P - 1) /\ e.ui = deals[1].envelopes[g].ui
      BY <1>1, <1>2 DEF BoundInv, SignedOnce
    <3>3. a \in Alterations(e) \cup {[e EXCEPT !.active = FALSE]}
      BY <1>3, <2>2
    <3> HIDE DEF e
    <3>4. a.ui = e.ui /\ a.x \in 1..(P - 1)
      BY <3>2, <3>3, AlteredKeepsEntry
    <3> QED
      BY <1>1, <3>1, <3>2, <3>4 DEF BoundInv
  <2> QED
    BY <2>1, <2>2
<1> QED
  BY <1>1, <1>4, TraceStays

\* Every step keeps TraceInv.
LEMMA TraceInvStep == SharesInv /\ DealtInv /\ TraceInv /\ [Next]_vars => TraceInv'
<1> SUFFICES ASSUME SharesInv, DealtInv, TraceInv, [Next]_vars PROVE TraceInv'
  OBVIOUS
<1>1. ASSUME UNCHANGED <<deals, envs>>, UNCHANGED traceVars PROVE TraceInv'
  <2>1. BoundInv'
    BY <1>1 DEF TraceInv, BoundInv
  <2> QED
    BY <1>1, <2>1, TraceStays
<1>2. CASE UNCHANGED vars
  BY <1>1, <1>2 DEF vars, sharesVars
<1>3. CASE (Recover \/ Return) /\ UNCHANGED traceVars
  BY <1>1, <1>3 DEF Recover, Return
<1>4. ASSUME NEW seed, NEW rho, NEW epoch, ShareAgain(seed, rho, epoch), UNCHANGED traceVars
      PROVE  TraceInv'
  <2>1. deals'[1] = deals[1] /\ envs'[1] = envs[1]
    BY <1>4 DEF ShareAgain, SharesInv
  <2>2. BoundInv'
    BY <2>1 DEF TraceInv, BoundInv
  <2> QED
    BY <1>4, <2>1, <2>2, TraceStays
<1>5. ASSUME NEW d \in {1, 2}, NEW g \in Guardians, Invalidate(d, g) \/ Alter(d, g), UNCHANGED traceVars
      PROVE  TraceInv'
  BY <1>5, TraceAltered
<1>6. ASSUME NEW order \in LeakOrders, LoadBox(order) PROVE TraceInv'
  BY <1>6, TraceLoads
<1>7. ASSUME NEW answering \in SUBSET (Guardians \ ToSet(leaked)), Query(answering) PROVE TraceInv'
  <2>1. answering \in SUBSET Guardians
    OBVIOUS
  <2> QED
    BY <1>7, <2>1, TraceQueries
<1>8. CASE Conclude
  <2>1. /\ UNCHANGED <<deals, envs, leaked, box, roots, okRoots>> /\ verdict' = Concluded
    BY <1>8 DEF Conclude, sharesVars, Concluded
  <2>2. Concluded' = Concluded
    BY <2>1 DEF Concluded, ScriptResult, LibraryResult
  <2>3. PointsOf(leaked)' = PointsOf(leaked) /\ (Loaded(leaked) <=> Loaded(leaked)')
    BY <2>1 DEF PointsOf, PointOf, Loaded
  <2>4. BoundInv' /\ box # <<>>
    BY <1>8, <2>1 DEF TraceInv, BoundInv, Conclude
  <2> QED
    BY <2>1, <2>2, <2>3, <2>4, Zenon DEF TraceInv
<1> QED
  BY <1>2, <1>3, <1>4, <1>5, <1>6, <1>7, <1>8 DEF Next

\* TraceInv holds at all times: what run_ttss_trace loads into the box are the
\* points that were dealt, in the operator's order; the queries bring these
\* points or none; and the verdicts are what follows from them.
THEOREM TraceInvariance == Spec => []TraceInv
<1>1. SharesInv /\ DealtInv /\ TraceInv /\ [Next]_vars => TraceInv'
  BY TraceInvStep
<1>2. Init /\ DealtInv => TraceInv
  BY TraceInvInit
<1> QED
  BY <1>1, <1>2, Invariance, DealtInvariant, PTL DEF Spec

-----------------------------------------------------------------------------
(* What a trace concludes *)

\* k positions with nothing twice.
Distinct(s, k) == k \in Nat /\ \A i, j \in 1..k : s[i] = s[j] => i = j

\* k points, as witness roots.
Witnesses(w, k) == w \in [1..k -> 1..(P - 1)]

\* The guardians o leak, in this order, and vk is a key set of their points.
Traced(vk, o, k) ==
    /\ k \in Nat /\ k >= 1 /\ o \in [1..k -> Guardians]
    /\ \A i, j \in 1..k : o[i] = o[j] => i = j
    /\ DOMAIN vk = Guardians
    /\ \A g \in Guardians : PointOf(g) \in 1..(P - 1) /\ vk[g] = Ui(PointOf(g))
    /\ \A g, h \in Guardians : PointOf(g) = PointOf(h) => g = h

\* As many elements as positions.
LEMMA HowMany ==
    ASSUME NEW k, NEW s, Distinct(s, k)
    PROVE  IsFiniteSet({s[i] : i \in 1..k}) /\ Cardinality({s[i] : i \in 1..k}) = k
<1> DEFINE S == {s[i] : i \in 1..k}
           f == [i \in 1..k |-> s[i]]
<1>0. k \in Nat
  BY DEF Distinct
<1>1. f \in Bijection(1..k, S)
  BY DEF Distinct, Bijection, Injection, Surjection, IsInjective
<1>2. ExistsBijection(1..k, S)
  BY <1>1 DEF ExistsBijection
<1>3. IsFiniteSet(1..k) /\ Cardinality(1..k) = k
  <2>1. IsFiniteSet(1..k) /\ Cardinality(1..k) = IF 1 > k THEN 0 ELSE k - 1 + 1
    BY <1>0, FS_Interval
  <2> QED
    BY <1>0, <2>1
<1> HIDE DEF S
<1>4. IsFiniteSet(S) /\ Cardinality(S) = k
  BY <1>2, <1>3, FS_Bijection
<1> QED
  BY <1>4 DEF S

\* A point is that of one guardian.
LEMMA OwnersAre ==
    ASSUME NEW vk, NEW o, NEW k, Traced(vk, o, k), NEW g \in Guardians
    PROVE  Owners(vk, PointOf(g)) = {g}
<1>1. DOMAIN vk = Guardians
  BY DEF Traced
<1>2. ASSUME NEW h \in Guardians PROVE vk[h] = Ui(PointOf(g)) <=> h = g
  <2>1. PointOf(g) \in 1..(P - 1) /\ PointOf(h) \in 1..(P - 1) /\ vk[h] = Ui(PointOf(h))
    BY DEF Traced
  <2>2. PointOf(h) = PointOf(g) => h = g
    BY DEF Traced
  <2>3. Ui(PointOf(h)) = Ui(PointOf(g)) <=> PointOf(h) = PointOf(g)
    BY <2>1, UiTells
  <2> QED
    BY <2>1, <2>2, <2>3
<1> QED
  BY <1>1, <1>2 DEF Owners

\* The points of some guardians accuse them.
LEMMA AccusedAre ==
    ASSUME NEW vk, NEW o, NEW k, Traced(vk, o, k), NEW S \in SUBSET Guardians,
           NEW rs, ToSet(rs) = {PointOf(g) : g \in S}
    PROVE  AccusedBy(vk, rs) = S
<1>1. \A g \in S : Owners(vk, PointOf(g)) = {g}
  <2> SUFFICES ASSUME NEW g \in S PROVE Owners(vk, PointOf(g)) = {g}
    OBVIOUS
  <2>1. g \in Guardians
    OBVIOUS
  <2> QED
    BY <2>1, OwnersAre, Zenon
<1>2. \A g \in S : PointOf(g) \in ToSet(rs)
  BY Zenon
<1>3. \A r \in ToSet(rs) : \E g \in S : r = PointOf(g)
  BY Zenon
<1>4. ASSUME NEW x \in AccusedBy(vk, rs) PROVE x \in S
  <2>1. PICK r \in ToSet(rs) : x \in Owners(vk, r)
    BY Zenon DEF AccusedBy
  <2>2. PICK g \in S : r = PointOf(g)
    BY <1>3
  <2>3. x \in {g}
    BY <1>1, <2>1, <2>2, Zenon
  <2> QED
    BY <2>3
<1>5. ASSUME NEW g \in S PROVE g \in AccusedBy(vk, rs)
  <2>1. g \in Owners(vk, PointOf(g))
    BY <1>1
  <2> QED
    BY <1>2, <2>1, Zenon DEF AccusedBy
<1> QED
  BY <1>4, <1>5, Zenon

\* The verifier accepts points of the accused in the order of the accused.
LEMMA VerifyIs ==
    ASSUME NEW vk, NEW o, NEW k, Traced(vk, o, k), NEW S, S \subseteq Guardians,
           NEW c, Rises(c, k, S), NEW w, Witnesses(w, k)
    PROVE  TVerify(vk, c, w) <=> \A i \in 1..k : w[i] = PointOf(c[i])
<1>1. /\ k \in Nat /\ k >= 1 /\ DOMAIN vk = Guardians
      /\ w \in [1..k -> 1..(P - 1)] /\ c \in [1..k -> Nat] /\ S = {c[i] : i \in 1..k}
      /\ \A i, j \in 1..k : i < j => c[i] < c[j]
  BY DEF Traced, Rises, Witnesses
<1>2. Len(c) = k /\ Len(w) = k /\ DOMAIN c = 1..k
  BY <1>1
<1>3. c # <<>>
  BY <1>1, <1>2
<1>4. IsInjective(c)
  <2> SUFFICES ASSUME NEW i \in 1..k, NEW j \in 1..k, c[i] = c[j] PROVE i = j
    BY <1>2 DEF IsInjective
  <2>1. i \in Int /\ j \in Int /\ c[i] \in Nat /\ c[j] \in Nat
    BY <1>1
  <2>2. (i < j => c[i] < c[j]) /\ (j < i => c[j] < c[i])
    BY <1>1
  <2> QED
    BY <2>1, <2>2
<1>5. ASSUME NEW i \in 1..k
      PROVE  c[i] \in Guardians /\ (Ui(w[i]) = vk[c[i]] <=> w[i] = PointOf(c[i]))
  <2>1. c[i] \in Guardians
    BY <1>1
  <2>2. PointOf(c[i]) \in 1..(P - 1) /\ vk[c[i]] = Ui(PointOf(c[i])) /\ w[i] \in 1..(P - 1)
    BY <1>1, <2>1 DEF Traced
  <2>3. Ui(w[i]) = Ui(PointOf(c[i])) <=> w[i] = PointOf(c[i])
    BY <2>2, UiTells
  <2> QED
    BY <2>1, <2>2, <2>3
<1> QED
  BY <1>1, <1>2, <1>3, <1>4, <1>5, Zenon DEF TVerify

\* Right, of TraceBlamesLeakers.
Blames(a, L, holds) ==
    /\ ToSet(a.accused) \subseteq L
    /\ a.accepted => ToSet(a.accused) = L
    /\ a.accepted <=> holds

\* Without a root nobody is accused, and nothing is accepted.
LEMMA NobodyAccused ==
    ASSUME NEW vk, NEW rs, NEW w, NEW L, ToSet(rs) = {}
    PROVE  Blames(Accusation(vk, Ascend(AccusedBy(vk, rs)), w), L, FALSE)
<1> DEFINE a == Accusation(vk, Ascend(AccusedBy(vk, rs)), w)
<1>1. AccusedBy(vk, rs) = {}
  BY DEF AccusedBy
<1>2. Ascend({}) = <<>>
  <2>1. <<>> = [i \in 1..0 |-> <<>>[i]] /\ 0 \in Nat
    OBVIOUS
  <2> QED
    BY <2>1, Parts
<1>3. a.accused = <<>> /\ a.accepted = TVerify(vk, <<>>, w)
  BY <1>1, <1>2 DEF Accusation
<1>4. ~TVerify(vk, <<>>, w)
  BY Zenon DEF TVerify
<1>5. ToSet(<<>>) = {}
  BY DEF ToSet
<1>6. Blames(a, L, FALSE)
  <2> HIDE DEF a
  <2>1. ToSet(a.accused) = {} /\ ~a.accepted
    BY <1>3, <1>4, <1>5, Zenon
  <2> QED
    BY <2>1 DEF Blames
<1> QED
  BY <1>6

\* With roots, the leaking guardians are accused, and it is for the order of
\* the roots whether that is accepted.
LEMMA LeakersAccused ==
    ASSUME NEW vk, NEW o, NEW k, Traced(vk, o, k),
           NEW rs, ToSet(rs) = {PointOf(g) : g \in ToSet(o)},
           NEW w, Witnesses(w, k)
    PROVE  LET c == Ascend(ToSet(o)) IN
           /\ Rises(c, k, ToSet(o))
           /\ Blames(Accusation(vk, Ascend(AccusedBy(vk, rs)), w), ToSet(o),
                     \A i \in 1..k : w[i] = PointOf(c[i]))
<1> DEFINE L == ToSet(o)
           c == Ascend(L)
           a == Accusation(vk, Ascend(AccusedBy(vk, rs)), w)
<1>1. /\ k \in Nat /\ o \in [1..k -> Guardians] /\ \A i, j \in 1..k : o[i] = o[j] => i = j
  BY DEF Traced
<1>2. L = {o[i] : i \in 1..k}
  BY <1>1 DEF ToSet
<1>3. L \in SUBSET Guardians
  BY <1>1, <1>2
<1>4. IsFiniteSet(L) /\ Cardinality(L) = k
  <2>1. IsFiniteSet({o[i] : i \in 1..k}) /\ Cardinality({o[i] : i \in 1..k}) = k
    <3>1. Distinct(o, k)
      BY <1>1 DEF Distinct
    <3> QED
      BY <3>1, HowMany
  <2> HIDE DEF L
  <2> QED
    BY <1>2, <2>1, Zenon
<1>5. AccusedBy(vk, rs) = L
  <2> HIDE DEF L
  <2>1. ToSet(rs) = {PointOf(g) : g \in L}
    BY DEF L
  <2> QED
    BY <1>3, <2>1, AccusedAre
<1> HIDE DEF L
<1>6. Rises(c, k, L)
  <2>1. L \in SUBSET Nat
    BY <1>3, SharesAssumption DEF Guardians
  <2> QED
    BY <1>4, <2>1, AscendRises
<1> HIDE DEF c
<1>7. a.accused = c /\ a.accepted = TVerify(vk, c, w)
  BY <1>5 DEF Accusation, c
<1>8. ToSet(c) = L
  <2>1. c \in [1..k -> Nat] /\ L = {c[i] : i \in 1..k}
    BY <1>6 DEF Rises
  <2> QED
    BY <2>1 DEF ToSet
<1>9. TVerify(vk, c, w) <=> \A i \in 1..k : w[i] = PointOf(c[i])
  BY <1>3, <1>6, VerifyIs
<1>10. Blames(a, L, \A i \in 1..k : w[i] = PointOf(c[i]))
  <2> HIDE DEF a
  <2> QED
    BY <1>7, <1>8, <1>9, Zenon DEF Blames
<1> QED
  BY <1>6, <1>10 DEF c, L

\* Roots in the order of the leaks are those of the accused, in order, if the
\* leaks were named so.
LEMMA ScriptBlames ==
    ASSUME NEW vk, NEW o, NEW k, Traced(vk, o, k), roots = PointsOf(o)
    PROVE  Blames(ScriptResult(vk), ToSet(o), Ascending(o))
<1> DEFINE L == ToSet(o)
           c == Ascend(L)
           w == Part(roots, {i \in DOMAIN roots : Owners(vk, roots[i]) # {}})
<1>1. /\ k \in Nat /\ o \in [1..k -> Guardians] /\ \A i, j \in 1..k : o[i] = o[j] => i = j
      /\ \A g \in Guardians : PointOf(g) \in 1..(P - 1)
      /\ \A g, h \in Guardians : PointOf(g) = PointOf(h) => g = h
  BY DEF Traced
<1>2. roots = [i \in 1..k |-> PointOf(o[i])]
  BY <1>1 DEF PointsOf
<1>3. DOMAIN roots = 1..k /\ \A i \in 1..k : roots[i] = PointOf(o[i])
  BY <1>2
<1>4. ToSet(roots) = {PointOf(g) : g \in L}
  <2>1. L = {o[i] : i \in 1..k} /\ ToSet(roots) = {roots[i] : i \in 1..k}
    BY <1>1, <1>3 DEF ToSet
  <2>2. \A r \in ToSet(roots) : \E g \in L : r = PointOf(g)
    BY <1>3, <2>1
  <2>3. \A g \in L : PointOf(g) \in ToSet(roots)
    BY <1>3, <2>1
  <2> HIDE DEF L
  <2> QED
    BY <2>2, <2>3
<1>5. w = roots
  <2>1. \A i \in 1..k : o[i] \in Guardians
    BY <1>1
  <2>2. \A i \in 1..k : Owners(vk, roots[i]) = {o[i]}
    BY <1>3, <2>1, OwnersAre
  <2>3. {i \in DOMAIN roots : Owners(vk, roots[i]) # {}} = 1..k
    BY <1>3, <2>2
  <2>4. roots = [i \in 1..k |-> roots[i]]
    BY <1>2
  <2>5. Part(roots, 1..k) = roots
    BY <1>1, <2>4, Parts
  <2> QED
    BY <2>3, <2>5
<1> HIDE DEF w
<1>6. Witnesses(w, k)
  BY <1>1, <1>2, <1>5 DEF Witnesses
<1>7. /\ Rises(c, k, L)
      /\ Blames(Accusation(vk, Ascend(AccusedBy(vk, roots)), w), L,
                \A i \in 1..k : w[i] = PointOf(c[i]))
  BY <1>4, <1>6, LeakersAccused
<1>8. (\A i \in 1..k : w[i] = PointOf(c[i])) <=> Ascending(o)
  <2>1. L = {o[i] : i \in 1..k}
    BY <1>1 DEF ToSet
  <2> HIDE DEF L
  <2>2. c \in [1..k -> Guardians] /\ \A i, j \in 1..k : i < j => c[i] < c[j]
    <3>1. c \in [1..k -> Nat] /\ L = {c[i] : i \in 1..k} /\ \A i, j \in 1..k : i < j => c[i] < c[j]
      BY <1>7 DEF Rises
    <3>2. L \subseteq Guardians
      BY <1>1, <2>1
    <3> HIDE DEF c
    <3>3. \A i \in 1..k : c[i] \in L
      BY <3>1
    <3>4. \A i \in 1..k : c[i] \in Guardians
      BY <3>2, <3>3
    <3> QED
      BY <3>1, <3>4
  <2>3. ASSUME \A i \in 1..k : w[i] = PointOf(c[i]) PROVE Ascending(o)
    <3> HIDE DEF c
    <3>1. \A i \in 1..k : c[i] = o[i]
      BY <1>1, <1>3, <1>5, <2>2, <2>3
    <3>2. DOMAIN o = 1..k
      BY <1>1
    <3> QED
      BY <2>2, <3>1, <3>2 DEF Ascending
  <2>4. ASSUME Ascending(o) PROVE \A i \in 1..k : w[i] = PointOf(c[i])
    <3>1. Rises(o, k, L)
      <4>1. o \in [1..k -> Nat]
        BY <1>1, SharesAssumption DEF Guardians
      <4> QED
        BY <1>1, <2>1, <2>4, <4>1 DEF Rises, Ascending
    <3>2. c = o
      BY <3>1, OneAscent
    <3> HIDE DEF c
    <3> QED
      BY <1>3, <1>5, <3>2
  <2> QED
    BY <2>3, <2>4
<1>9. ScriptResult(vk) = Accusation(vk, Ascend(AccusedBy(vk, roots)), w)
  BY DEF ScriptResult, w
<1> QED
  BY <1>7, <1>8, <1>9 DEF Blames

\* Roots in the order of their values are those of the accused, in order, if
\* the points of the leaking guardians are in the order of the guardians.
LEMMA LibraryBlames ==
    ASSUME NEW vk, NEW o, NEW k, Traced(vk, o, k), okRoots = ToSet(PointsOf(o))
    PROVE  Blames(LibraryResult(vk), ToSet(o),
                  \A g, h \in ToSet(o) : g < h => PointOf(g) < PointOf(h))
<1> DEFINE L == ToSet(o)
           c == Ascend(L)
           w == Ascend(okRoots)
           q == [i \in 1..k |-> PointOf(c[i])]
<1>1. /\ k \in Nat /\ o \in [1..k -> Guardians] /\ \A i, j \in 1..k : o[i] = o[j] => i = j
      /\ \A g \in Guardians : PointOf(g) \in 1..(P - 1)
      /\ \A g, h \in Guardians : PointOf(g) = PointOf(h) => g = h
  BY DEF Traced
<1>2. PointsOf(o) = [i \in 1..k |-> PointOf(o[i])]
  BY <1>1 DEF PointsOf
<1>3. okRoots = {PointsOf(o)[i] : i \in 1..k} /\ L = {o[i] : i \in 1..k}
  BY <1>1, <1>2 DEF ToSet
<1>4. \A i \in 1..k : PointsOf(o)[i] = PointOf(o[i])
  BY <1>2
<1>5. okRoots = {PointOf(g) : g \in L}
  <2>1. \A r \in okRoots : \E g \in L : r = PointOf(g)
    BY <1>3, <1>4
  <2>2. \A g \in L : PointOf(g) \in okRoots
    BY <1>3, <1>4
  <2> HIDE DEF L
  <2> QED
    BY <2>1, <2>2
<1>6. okRoots \subseteq 1..(P - 1) /\ okRoots \in SUBSET Nat
  <2>1. \A r \in okRoots : r \in 1..(P - 1)
    BY <1>1, <1>3, <1>4
  <2> QED
    BY <2>1
<1>7. Rises(w, k, okRoots)
  <2>1. Distinct(PointsOf(o), k)
    BY <1>1, <1>4 DEF Distinct
  <2>2. IsFiniteSet(okRoots) /\ Cardinality(okRoots) = k
    BY <1>3, <2>1, HowMany
  <2> QED
    BY <1>6, <2>2, AscendRises
<1> HIDE DEF w
<1>8. /\ w \in [1..k -> Nat] /\ okRoots = {w[i] : i \in 1..k}
      /\ \A i, j \in 1..k : i < j => w[i] < w[j]
  BY <1>7 DEF Rises
<1>9. Witnesses(w, k)
  BY <1>6, <1>8 DEF Witnesses
<1>10. ToSet(w) = {PointOf(g) : g \in L}
  <2>1. ToSet(w) = okRoots
    BY <1>8 DEF ToSet
  <2> QED
    BY <1>5, <2>1
<1>11. /\ Rises(c, k, L)
       /\ Blames(Accusation(vk, Ascend(AccusedBy(vk, w)), w), L,
                 \A i \in 1..k : w[i] = PointOf(c[i]))
  BY <1>9, <1>10, LeakersAccused
<1> HIDE DEF c
<1>12. /\ c \in [1..k -> Nat] /\ L = {c[i] : i \in 1..k}
       /\ \A i, j \in 1..k : i < j => c[i] < c[j]
  BY <1>11 DEF Rises
<1>13. \A i \in 1..k : c[i] \in Guardians
  <2>1. L \subseteq Guardians
    BY <1>1, <1>3
  <2> HIDE DEF L
  <2>2. \A i \in 1..k : c[i] \in L
    BY <1>12
  <2> QED
    BY <2>1, <2>2
<1> HIDE DEF L
<1>14. ASSUME \A i \in 1..k : w[i] = PointOf(c[i]), NEW g \in L, NEW h \in L, g < h
       PROVE  PointOf(g) < PointOf(h)
  <2>1. PICK i \in 1..k : g = c[i]
    BY <1>12
  <2>2. PICK j \in 1..k : h = c[j]
    BY <1>12
  <2>3. i \in Int /\ j \in Int /\ c[i] \in Nat /\ c[j] \in Nat
    BY <1>12
  <2>4. i < j
    BY <1>12, <1>14, <2>1, <2>2, <2>3
  <2>5. w[i] < w[j]
    BY <1>8, <2>4
  <2> QED
    BY <1>14, <2>1, <2>2, <2>5
<1>15. ASSUME \A g, h \in L : g < h => PointOf(g) < PointOf(h)
       PROVE  \A i \in 1..k : w[i] = PointOf(c[i])
  <2>1. \A i \in 1..k : q[i] = PointOf(c[i]) /\ c[i] \in L /\ PointOf(c[i]) \in Nat
    <3>1. \A i \in 1..k : PointOf(c[i]) \in 1..(P - 1)
      BY <1>1, <1>13
    <3> QED
      BY <1>12, <3>1
  <2>2. q \in [1..k -> Nat]
    BY <2>1
  <2> HIDE DEF q
  <2>3. okRoots = {q[i] : i \in 1..k}
    <3>1. \A r \in okRoots : \E i \in 1..k : r = q[i]
      <4> SUFFICES ASSUME NEW r \in okRoots PROVE \E i \in 1..k : r = q[i]
        OBVIOUS
      <4>1. PICK g \in L : r = PointOf(g)
        BY <1>5
      <4>2. PICK i \in 1..k : g = c[i]
        BY <1>12
      <4> QED
        BY <2>1, <4>1, <4>2
    <3>2. \A i \in 1..k : q[i] \in okRoots
      BY <1>5, <2>1
    <3> QED
      BY <3>1, <3>2
  <2>4. \A i, j \in 1..k : i < j => q[i] < q[j]
    <3> SUFFICES ASSUME NEW i \in 1..k, NEW j \in 1..k, i < j PROVE q[i] < q[j]
      OBVIOUS
    <3>1. c[i] < c[j] /\ c[i] \in L /\ c[j] \in L
      BY <1>12, <2>1
    <3> QED
      BY <1>15, <2>1, <3>1
  <2>5. Rises(q, k, okRoots)
    BY <1>1, <2>2, <2>3, <2>4 DEF Rises
  <2>6. w = q
    BY <2>5, OneAscent DEF w
  <2> QED
    BY <2>1, <2>6
<1>16. LibraryResult(vk) = Accusation(vk, Ascend(AccusedBy(vk, w)), w)
  BY DEF LibraryResult, w
<1>17. Blames(LibraryResult(vk), L, \A g, h \in L : g < h => PointOf(g) < PointOf(h))
  BY <1>11, <1>14, <1>15, <1>16 DEF Blames
<1> QED
  BY <1>17 DEF L

\* The verdict of a trace blames the guardians that leaked, in every state.
LEMMA VerdictBlames ==
    ASSUME SharesInv, DealtInv, TraceInv PROVE TraceBlamesLeakers
<1> SUFFICES ASSUME verdict # NoVerdict PROVE TraceBlamesLeakers
  BY DEF TraceBlamesLeakers
<1> DEFINE vk == VkEntries(deals[1])
           L == ToSet(leaked)
           inOrder == \A g, h \in L : g < h => PointOf(g) < PointOf(h)
<1>1. box # <<>> /\ verdict = Concluded
  BY DEF TraceInv
<1>2. /\ leaked \in LeakOrders
      /\ roots \in {<<>>, PointsOf(leaked)} /\ okRoots \in {{}, ToSet(PointsOf(leaked))}
  BY <1>1 DEF TraceInv, Loaded
<1>3. PICK k : Traced(vk, leaked, k)
  <2>1. PICK k \in 1..(T - 1) : /\ leaked \in [1..k -> Guardians] /\ k \in Nat /\ k >= 1
                                /\ \A i, j \in 1..k : leaked[i] = leaked[j] => i = j
    BY <1>2, LeakOrderIs
  <2>2. Proper(deals[1])
    BY DEF DealtInv, Made
  <2>3. /\ \A g \in Guardians : PointOf(g) \in 1..(P - 1) /\ deals[1].envelopes[g].ui = Ui(PointOf(g))
        /\ \A g, h \in Guardians : PointOf(g) = PointOf(h) => g = h
    BY <2>2, DealtPoints DEF PointOf
  <2>4. DOMAIN vk = Guardians /\ \A g \in Guardians : vk[g] = deals[1].envelopes[g].ui
    BY DEF VkEntries
  <2> HIDE DEF vk
  <2>5. Traced(vk, leaked, k)
    BY <2>1, <2>3, <2>4, Zenon DEF Traced
  <2> QED
    BY <2>5
<1> HIDE DEF vk
<1>4. k \in Nat /\ k >= 1 /\ leaked \in [1..k -> Guardians]
  BY <1>3 DEF Traced
<1>5. PointsOf(leaked) = [i \in 1..k |-> PointOf(leaked[i])]
  BY <1>4 DEF PointsOf
<1>6. Blames(ScriptResult(vk), L, ToSet(roots) # {} /\ Ascending(leaked))
  <2>1. CASE roots = <<>>
    <3>1. ToSet(roots) = {}
      BY <2>1 DEF ToSet
    <3>2. Blames(ScriptResult(vk), L, FALSE)
      BY <3>1, NobodyAccused DEF ScriptResult
    <3> QED
      BY <3>1, <3>2 DEF Blames
  <2>2. CASE roots = PointsOf(leaked)
    <3>1. ToSet(roots) # {}
      <4>1. roots[1] \in ToSet(roots)
        BY <1>4, <1>5, <2>2 DEF ToSet
      <4> QED
        BY <4>1
    <3>2. Blames(ScriptResult(vk), L, Ascending(leaked))
      BY <1>3, <2>2, ScriptBlames
    <3> QED
      BY <3>1, <3>2 DEF Blames
  <2> QED
    BY <1>2, <2>1, <2>2
<1>7. Blames(LibraryResult(vk), L, okRoots # {} /\ inOrder)
  <2>1. CASE okRoots = {}
    <3>1. ToSet(Ascend(okRoots)) = {}
      <4>1. Ascend({}) = <<>>
        <5>1. <<>> = [i \in 1..0 |-> <<>>[i]] /\ 0 \in Nat
          OBVIOUS
        <5> QED
          BY <5>1, Parts
      <4> QED
        BY <2>1, <4>1 DEF ToSet
    <3>2. Blames(LibraryResult(vk), L, FALSE)
      BY <3>1, NobodyAccused DEF LibraryResult
    <3> HIDE DEF inOrder
    <3> QED
      BY <2>1, <3>2 DEF Blames
  <2>2. CASE okRoots = ToSet(PointsOf(leaked))
    <3>1. okRoots # {}
      <4>1. PointsOf(leaked)[1] \in okRoots
        BY <1>4, <1>5, <2>2 DEF ToSet
      <4> QED
        BY <4>1
    <3>2. Blames(LibraryResult(vk), L, inOrder)
      BY <1>3, <2>2, LibraryBlames
    <3> HIDE DEF inOrder
    <3> QED
      BY <3>1, <3>2 DEF Blames
  <2> QED
    BY <1>2, <2>1, <2>2
<1>8. verdict.script = ScriptResult(vk) /\ verdict.library = LibraryResult(vk)
  BY <1>1 DEF Concluded, vk
<1> QED
  BY <1>6, <1>7, <1>8, Zenon DEF TraceBlamesLeakers, Blames, PointOf, vk

\* TraceBlamesLeakers of TtssTrace: both tracers, run_ttss_trace's script and
\* ttss_trace.cpp, name leaking guardians only, and the verifier accepts just
\* when the order of the roots and that of the guardians agree.
THEOREM LeakersBlamed == Spec => []TraceBlamesLeakers
<1>1. SharesInv /\ DealtInv /\ TraceInv => TraceBlamesLeakers
  BY VerdictBlames
<1> QED
  BY <1>1, Invariance, DealtInvariant, TraceInvariance, PTL
=============================================================================
