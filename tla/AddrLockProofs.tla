--------------------------- MODULE AddrLockProofs ---------------------------
(***************************************************************************)
(* Proofs about the per-address lock, for any number of calls, wallets,    *)
(* attempts and outsiders.                                                 *)
(***************************************************************************)
EXTENDS AddrLock, FiniteSetTheorems, TLAPS

-----------------------------------------------------------------------------
(* The chain of an address: its calls have the tickets 1, 2, ... and each  *)
(* awaits the one before it, the map holding the last.                     *)

\* Exactly the calls that were made have a wallet.
IdleHasNoWallet == \A c \in Calls : pc[c] = "idle" <=> wallet[c] = NoWallet

\* The calls of an address have tickets up to the number of arrivals ...
TicketsInRange ==
    \A c \in Calls : wallet[c] # NoWallet => ticket[c] \in 1..arrivals[wallet[c]]

\* ... no two the same one.
TicketsDiffer ==
    \A c, d \in Calls :
        wallet[c] # NoWallet /\ wallet[c] = wallet[d] /\ ticket[c] = ticket[d]
        => c = d

\* addrLock holds the call with the highest ticket.
TailIsLast ==
    \A a \in Wallets :
        \/ tail[a] = NoCall /\ arrivals[a] = 0
        \/ tail[a] \in Calls /\ wallet[tail[a]] = a /\ ticket[tail[a]] = arrivals[a]

\* A call awaits the call with the ticket before its own.
PrevIsBefore ==
    \A c \in Calls : wallet[c] # NoWallet =>
        \/ prev[c] = NoCall /\ ticket[c] = 1
        \/ /\ prev[c] \in Calls
           /\ wallet[prev[c]] = wallet[c]
           /\ ticket[c] = ticket[prev[c]] + 1

ChainInv ==
    /\ IdleHasNoWallet
    /\ TicketsInRange
    /\ TicketsDiffer
    /\ TailIsLast
    /\ PrevIsBefore

-----------------------------------------------------------------------------
(* Type correctness and the chain *)

\* A call that left "idle" has one of the wallets.
LEMMA MadeHasWallet ==
    ASSUME TypeOK, ChainInv, NEW c \in Calls, pc[c] # "idle"
    PROVE  wallet[c] \in Wallets /\ wallet[c] # NoWallet
  BY DEF TypeOK, ChainInv, IdleHasNoWallet

\* Every step keeps the types.
LEMMA TypeStep ==
    ASSUME TypeOK, ChainInv, [Next]_vars
    PROVE  TypeOK'
<1> USE LockAssumption DEF TypeOK, history
<1>1. ASSUME NEW c \in Calls, NEW a \in Wallets, Enqueue(c, a)
      PROVE  TypeOK'
  BY <1>1 DEF Enqueue, Entered
<1>2. ASSUME NEW c \in Calls, Acquire(c)
      PROVE  TypeOK'
  <2>1. wallet[c] \in Wallets
    BY <1>2, MadeHasWallet DEF Acquire
  <2> QED
    BY <1>2, <2>1 DEF Acquire, Entered, Holding
<1>3. ASSUME NEW c \in Calls, ReadNonce(c)
      PROVE  TypeOK'
  <2>1. wallet[c] \in Wallets
    BY <1>3, MadeHasWallet DEF ReadNonce
  <2>2. PendingNonce(wallet[c]) \in Nat
    BY <2>1 DEF PendingNonce
  <2> QED
    BY <1>3, <2>2 DEF ReadNonce, Entered, Holding
<1>4. ASSUME NEW c \in Calls, NEW how \in Settled, pc[c] \in Holding,
             Release(c, how)
      PROVE  /\ pc' \in [Calls -> {"idle", "waiting"} \cup Entered]
             /\ wallet' \in [Calls -> Wallets \cup {NoWallet}]
             /\ tail' \in [Wallets -> Calls \cup {NoCall}]
             /\ prev' \in [Calls -> Calls \cup {NoCall}]
             /\ stats' \in [Wallets -> [queued : Nat, active : Nat]]
             /\ attempt' \in [Calls -> 0..Attempts]
             /\ nonce' \in [Calls -> Nat]
             /\ ticket' \in [Calls -> Nat]
             /\ arrivals' \in [Wallets -> Nat]
  <2>1. wallet[c] \in Wallets
    BY <1>4, MadeHasWallet DEF Holding
  <2> QED
    BY <1>4, <2>1 DEF Release, Entered
<1>5. ASSUME NEW c \in Calls, SendAccepted(c)
      PROVE  TypeOK'
  <2>1. wallet[c] \in Wallets
    BY <1>5, MadeHasWallet DEF SendAccepted
  <2>2. txs' \in [Wallets -> Seq(Calls \cup {Outsider})]
    BY <1>5, <2>1 DEF SendAccepted
  <2> QED
    BY <1>4, <1>5, <2>2 DEF SendAccepted, Holding
<1>6. ASSUME NEW c \in Calls, SendNonceTaken(c)
      PROVE  TypeOK'
  <2>1. CASE /\ attempt[c] < Attempts
             /\ attempt' = [attempt EXCEPT ![c] = @ + 1]
             /\ pc' = [pc EXCEPT ![c] = "reading"]
             /\ UNCHANGED <<wallet, tail, prev, stats, nonce, history>>
    BY <1>6, <2>1 DEF SendNonceTaken, Entered, Holding
  <2>2. CASE Release(c, "thrown")
    BY <1>4, <1>6, <2>2 DEF SendNonceTaken, Settled, Holding
  <2> QED
    BY <1>6, <2>1, <2>2 DEF SendNonceTaken
<1>7. ASSUME NEW c \in Calls, SendFails(c)
      PROVE  TypeOK'
  BY <1>4, <1>7 DEF SendFails, Settled
<1>8. ASSUME NEW a \in Wallets, OutsiderSends(a)
      PROVE  TypeOK'
  BY <1>8 DEF OutsiderSends
<1>9. CASE UNCHANGED vars
  BY <1>9 DEF vars
<1> QED
  BY <1>1, <1>2, <1>3, <1>5, <1>6, <1>7, <1>8, <1>9 DEF Next, CallStep

\* Once a call has joined, its place in the chain is fixed.
LEMMA PlacesFixed ==
    ASSUME TypeOK, NEW c \in Calls, CallStep(c)
    PROVE  /\ UNCHANGED <<wallet, tail, prev, ticket, arrivals>>
           /\ \A d \in Calls : d # c => pc'[d] = pc[d]
           /\ pc[c] # "idle" /\ pc'[c] # "idle"
  BY DEF TypeOK, CallStep, Acquire, ReadNonce, SendAccepted, SendNonceTaken,
         SendFails, Release, Settled, Holding, history

\* Every step keeps the chain.
LEMMA ChainStep ==
    ASSUME TypeOK, ChainInv, [Next]_vars
    PROVE  ChainInv'
<1> USE LockAssumption
<1>1. ASSUME NEW c \in Calls, NEW a \in Wallets, Enqueue(c, a)
      PROVE  ChainInv'
  <2>1. wallet[c] = NoWallet /\ a # NoWallet
    BY <1>1 DEF ChainInv, IdleHasNoWallet, Enqueue
  <2>2. /\ wallet' = [wallet EXCEPT ![c] = a]
        /\ ticket' = [ticket EXCEPT ![c] = arrivals[a] + 1]
        /\ arrivals' = [arrivals EXCEPT ![a] = arrivals[a] + 1]
        /\ tail' = [tail EXCEPT ![a] = c]
        /\ prev' = [prev EXCEPT ![c] = tail[a]]
        /\ pc' = [pc EXCEPT ![c] = "waiting"]
    BY <1>1 DEF Enqueue
  <2> USE DEF TypeOK, ChainInv
  <2>3. IdleHasNoWallet'
    BY <2>1, <2>2 DEF IdleHasNoWallet
  <2>4. TicketsInRange'
    <3> SUFFICES ASSUME NEW d \in Calls, wallet'[d] # NoWallet
                 PROVE  ticket'[d] \in 1..arrivals'[wallet'[d]]
      BY DEF TicketsInRange
    <3>1. CASE d = c
      BY <2>2, <3>1
    <3>2. CASE d # c
      <4>1. wallet'[d] = wallet[d] /\ ticket'[d] = ticket[d] /\ wallet[d] \in Wallets
        BY <2>2, <3>2
      <4>2. ticket[d] \in 1..arrivals[wallet[d]]
        BY <4>1 DEF TicketsInRange
      <4>3. arrivals[wallet[d]] \in Nat /\ arrivals'[wallet[d]] >= arrivals[wallet[d]]
        BY <2>2, <4>1
      <4>4. arrivals'[wallet[d]] \in Nat
        BY <2>2, <4>1
      <4> QED
        BY <4>1, <4>2, <4>3, <4>4
    <3> QED
      BY <3>1, <3>2
  <2>5. TicketsDiffer'
    BY <2>1, <2>2 DEF TicketsDiffer, TicketsInRange
  <2>6. TailIsLast'
    BY <2>1, <2>2 DEF TailIsLast
  <2>7. PrevIsBefore'
    <3> SUFFICES ASSUME NEW d \in Calls, wallet'[d] # NoWallet
                 PROVE  \/ prev'[d] = NoCall /\ ticket'[d] = 1
                        \/ /\ prev'[d] \in Calls
                           /\ wallet'[prev'[d]] = wallet'[d]
                           /\ ticket'[d] = ticket'[prev'[d]] + 1
      BY DEF PrevIsBefore
    <3>1. CASE d = c
      <4>1. prev'[d] = tail[a] /\ ticket'[d] = arrivals[a] + 1 /\ wallet'[d] = a
        BY <2>2, <3>1
      <4>2. CASE tail[a] = NoCall /\ arrivals[a] = 0
        BY <4>1, <4>2
      <4>3. CASE tail[a] \in Calls /\ wallet[tail[a]] = a /\ ticket[tail[a]] = arrivals[a]
        <5>1. tail[a] # c
          BY <2>1, <4>3
        <5> QED
          BY <2>2, <4>1, <4>3, <5>1
      <4> QED
        BY <4>2, <4>3 DEF TailIsLast
    <3>2. CASE d # c
      <4>1. wallet'[d] = wallet[d] /\ ticket'[d] = ticket[d] /\ prev'[d] = prev[d]
        BY <2>2, <3>2
      <4>2. CASE prev[d] = NoCall /\ ticket[d] = 1
        BY <4>1, <4>2
      <4>3. CASE /\ prev[d] \in Calls
                 /\ wallet[prev[d]] = wallet[d]
                 /\ ticket[d] = ticket[prev[d]] + 1
        <5>1. prev[d] # c
          BY <2>1, <4>1, <4>3
        <5> QED
          BY <2>2, <4>1, <4>3, <5>1
      <4> QED
        BY <4>1, <4>2, <4>3 DEF PrevIsBefore
    <3> QED
      BY <3>1, <3>2
  <2> QED
    BY <2>3, <2>4, <2>5, <2>6, <2>7
<1>2. ASSUME NEW c \in Calls, CallStep(c)
      PROVE  ChainInv'
  <2>1. /\ UNCHANGED <<wallet, tail, prev, ticket, arrivals>>
        /\ \A d \in Calls : d # c => pc'[d] = pc[d]
        /\ pc[c] # "idle" /\ pc'[c] # "idle"
    BY <1>2, PlacesFixed
  <2>2. IdleHasNoWallet'
    BY <2>1 DEF ChainInv, IdleHasNoWallet
  <2> QED
    BY <2>1, <2>2 DEF ChainInv, TicketsInRange, TicketsDiffer, TailIsLast, PrevIsBefore
<1>3. ASSUME NEW a \in Wallets, OutsiderSends(a)
      PROVE  ChainInv'
  BY <1>3 DEF OutsiderSends, history, ChainInv, IdleHasNoWallet, TicketsInRange,
         TicketsDiffer, TailIsLast, PrevIsBefore
<1>4. CASE UNCHANGED vars
  BY <1>4 DEF vars, ChainInv, IdleHasNoWallet, TicketsInRange,
         TicketsDiffer, TailIsLast, PrevIsBefore
<1> QED
  BY <1>1, <1>2, <1>3, <1>4 DEF Next

\* The initial state has the types and an empty chain.
LEMMA ChainInit == Init => TypeOK /\ ChainInv
  BY LockAssumption DEF Init, TypeOK, ChainInv, IdleHasNoWallet, TicketsInRange,
     TicketsDiffer, TailIsLast, PrevIsBefore

\* The types and the chain are invariants.
THEOREM TypeCorrect == Spec => [](TypeOK /\ ChainInv)
<1>1. TypeOK /\ ChainInv /\ [Next]_vars => (TypeOK /\ ChainInv)'
  BY TypeStep, ChainStep
<1> QED
  BY <1>1, ChainInit, PTL DEF Spec

-----------------------------------------------------------------------------
(* The order of service *)

\* Nobody overtakes: every step keeps the order of service.
LEMMA OrderStep ==
    ASSUME TypeOK, ChainInv, ServedInOrder, [Next]_vars
    PROVE  ServedInOrder'
<1> USE LockAssumption
<1>1. ASSUME NEW c \in Calls, NEW a \in Wallets, Enqueue(c, a)
      PROVE  ServedInOrder'
  <2>1. wallet[c] = NoWallet /\ a # NoWallet
    BY <1>1 DEF ChainInv, IdleHasNoWallet, Enqueue
  <2> SUFFICES ASSUME NEW d \in Calls, NEW e \in Calls,
                      pc'[e] \in Entered, pc'[d] # "idle",
                      wallet'[d] = wallet'[e], ticket'[d] < ticket'[e]
               PROVE  pc'[d] \in Settled
    BY DEF ServedInOrder
  <2>2. e # c /\ wallet[e] \in Wallets
    BY <1>1, MadeHasWallet DEF Enqueue, TypeOK, Entered, Settled, Holding
  <2>3. d # c
    <3>1. SUFFICES ASSUME d = c PROVE FALSE
      OBVIOUS
    <3>2. wallet[e] = a /\ ticket[e] > arrivals[a]
      BY <1>1, <2>2, <3>1 DEF Enqueue, TypeOK
    <3>3. ticket[e] \in 1..arrivals[a]
      BY <2>1, <3>2 DEF ChainInv, TicketsInRange
    <3> QED
      BY <3>2, <3>3 DEF TypeOK
  <2> QED
    BY <1>1, <2>2, <2>3 DEF Enqueue, TypeOK, ServedInOrder
<1>2. ASSUME NEW c \in Calls, Acquire(c)
      PROVE  ServedInOrder'
  <2>1. /\ wallet[c] # NoWallet
        /\ UNCHANGED <<wallet, ticket>>
        /\ pc' = [pc EXCEPT ![c] = "reading"]
        /\ pc[c] = "waiting"
    BY <1>2, MadeHasWallet DEF Acquire, history
  <2> SUFFICES ASSUME NEW d \in Calls, NEW e \in Calls,
                      pc'[e] \in Entered, pc'[d] # "idle",
                      wallet[d] = wallet[e], ticket[d] < ticket[e]
               PROVE  pc'[d] \in Settled
    BY <2>1 DEF ServedInOrder
  <2>2. CASE e # c
    BY <2>1, <2>2 DEF TypeOK, ServedInOrder, Settled
  <2>3. CASE e = c
    <3>1. d # c
      BY <2>3 DEF TypeOK
    <3>2. ticket[d] >= 1
      BY <2>1, <2>3 DEF TypeOK, ChainInv, TicketsInRange
    <3>3. PICK p \in Calls : /\ p = prev[c]
                             /\ pc[p] \in Settled
                             /\ wallet[p] = wallet[c]
                             /\ ticket[c] = ticket[p] + 1
      BY <1>2, <2>1, <2>3, <3>2 DEF Acquire, Resolved, TypeOK, ChainInv, PrevIsBefore
    <3>4. CASE ticket[d] = ticket[p]
      BY <2>1, <2>3, <3>1, <3>3, <3>4 DEF TypeOK, ChainInv, TicketsDiffer
    <3>5. CASE ticket[d] < ticket[p]
      BY <2>1, <2>3, <3>1, <3>3, <3>5 DEF TypeOK, ServedInOrder, Entered
    <3> QED
      BY <2>3, <3>3, <3>4, <3>5 DEF TypeOK
  <2> QED
    BY <2>2, <2>3
<1>3. ASSUME NEW c \in Calls, CallStep(c), pc[c] \in Holding
      PROVE  ServedInOrder'
  <2>1. pc'[c] \in Entered /\ pc[c] \in Entered /\ pc[c] \notin Settled
    BY <1>3 DEF TypeOK, CallStep, Acquire, ReadNonce, SendAccepted,
         SendNonceTaken, SendFails, Release, Settled, Holding, Entered
  <2> QED
    BY <1>3, <2>1, PlacesFixed DEF TypeOK, ServedInOrder
<1>4. ASSUME NEW c \in Calls, CallStep(c)
      PROVE  Acquire(c) \/ pc[c] \in Holding
  BY <1>4 DEF CallStep, ReadNonce, SendAccepted, SendNonceTaken, SendFails, Holding
<1>5. ASSUME NEW a \in Wallets, OutsiderSends(a)
      PROVE  ServedInOrder'
  BY <1>5 DEF OutsiderSends, history, ServedInOrder
<1>6. CASE UNCHANGED vars
  BY <1>6 DEF vars, ServedInOrder
<1> QED
  BY <1>1, <1>2, <1>3, <1>4, <1>5, <1>6 DEF Next

LockInv == TypeOK /\ ChainInv /\ ServedInOrder

\* The inductive invariant of the lock.
LEMMA LockInvariant == Spec => []LockInv
<1>1. Init => LockInv
  BY ChainInit DEF Init, LockInv, ServedInOrder, Entered, Settled, Holding
<1>2. LockInv /\ [Next]_vars => LockInv'
  BY TypeStep, ChainStep, OrderStep DEF LockInv
<1> QED
  BY <1>1, <1>2, PTL DEF Spec

\* Calls of an address are served in the order in which they joined its
\* chain, however many there are and whichever of them throw.
THEOREM OrderOfService == Spec => []ServedInOrder
<1>1. LockInv => ServedInOrder
  BY DEF LockInv
<1> QED
  BY <1>1, LockInvariant, PTL

\* Two calls never hold the lock of one address together.
LEMMA OneHolder ==
    ASSUME LockInv, NEW c \in Calls, NEW d \in Calls,
           pc[c] \in Holding, pc[d] \in Holding, wallet[c] = wallet[d]
    PROVE  c = d
<1>1. wallet[c] # NoWallet /\ pc[c] # "idle" /\ pc[d] # "idle"
  BY MadeHasWallet DEF LockInv, Holding
<1>2. pc[c] \notin Settled /\ pc[d] \notin Settled
  BY DEF Holding, Settled
<1>3. ~(ticket[c] < ticket[d]) /\ ~(ticket[d] < ticket[c])
  BY <1>1, <1>2 DEF LockInv, ServedInOrder, Entered
<1>4. ticket[c] \in Nat /\ ticket[d] \in Nat
  BY DEF LockInv, TypeOK
<1> QED
  BY <1>1, <1>3, <1>4 DEF LockInv, ChainInv, TicketsDiffer

-----------------------------------------------------------------------------
(* The nonces *)

\* What is on the chain of a wallet was sent by calls that have left its lock.
SendersLeft ==
    \A a \in Wallets : \A i \in 1..Len(txs[a]) :
        txs[a][i] # Outsider =>
            /\ txs[a][i] \in Calls
            /\ wallet[txs[a][i]] = a
            /\ pc[txs[a][i]] \in Settled

NonceInv == LockInv /\ SendersLeft /\ OnlyOutsidersTakeNonces /\ ChainOrderIsArrivalOrder

\* A step that sends nothing and settles no call that had settled.
LEMMA QuietStep ==
    ASSUME NonceInv, UNCHANGED txs,
           \A c \in Calls : pc[c] # "idle" =>
               wallet'[c] = wallet[c] /\ ticket'[c] = ticket[c],
           \A c \in Calls : pc[c] \in Settled => pc'[c] = pc[c],
           \A c \in Calls : pc'[c] = "sending" =>
               \/ /\ pc[c] = "sending"
                  /\ nonce'[c] = nonce[c]
               \/ /\ pc[c] = "reading"
                  /\ nonce'[c] = Len(txs[wallet[c]])
    PROVE  SendersLeft' /\ OnlyOutsidersTakeNonces' /\ ChainOrderIsArrivalOrder'
<1> USE DEF NonceInv
<1>1. SendersLeft'
  BY DEF SendersLeft, Settled
<1>2. OnlyOutsidersTakeNonces'
  <2> SUFFICES ASSUME NEW c \in Calls, pc'[c] = "sending"
               PROVE  /\ nonce'[c] <= Len(txs[wallet[c]])
                      /\ \A i \in (nonce'[c] + 1)..Len(txs[wallet[c]]) :
                             txs[wallet[c]][i] = Outsider
    BY DEF OnlyOutsidersTakeNonces
  <2>1. wallet[c] \in Wallets
    BY MadeHasWallet DEF LockInv
  <2>2. Len(txs[wallet[c]]) \in Nat
    BY <2>1 DEF LockInv, TypeOK
  <2> QED
    BY <2>2 DEF OnlyOutsidersTakeNonces
<1>3. ChainOrderIsArrivalOrder'
  BY DEF ChainOrderIsArrivalOrder, SendersLeft, Settled
<1> QED
  BY <1>1, <1>2, <1>3

\* What appending one transaction does to the chain of its wallet.
LEMMA SendAppends ==
    ASSUME TypeOK, NEW a \in Wallets, NEW x \in Calls \cup {Outsider},
           txs' = [txs EXCEPT ![a] = Append(@, x)]
    PROVE  /\ \A b \in Wallets : b # a => txs'[b] = txs[b]
           /\ Len(txs[a]) \in Nat
           /\ Len(txs'[a]) = Len(txs[a]) + 1
           /\ txs'[a][Len(txs[a]) + 1] = x
           /\ \A i \in 1..Len(txs[a]) : txs'[a][i] = txs[a][i]
<1>1. txs[a] \in Seq(Calls \cup {Outsider})
  BY DEF TypeOK
<1>2. txs'[a] = Append(txs[a], x)
  BY DEF TypeOK
<1>3. \A b \in Wallets : b # a => txs'[b] = txs[b]
  BY DEF TypeOK
<1> QED
  BY <1>1, <1>2, <1>3

\* A call that sends keeps the order of the chain, and takes no nonce that
\* another call has read.
LEMMA SendStep ==
    ASSUME NonceInv, NEW c \in Calls, SendAccepted(c)
    PROVE  SendersLeft' /\ OnlyOutsidersTakeNonces' /\ ChainOrderIsArrivalOrder'
<1> USE LockAssumption DEF NonceInv
<1> DEFINE a == wallet[c]
<1>1. /\ a \in Wallets /\ a # NoWallet
      /\ pc[c] = "sending"
      /\ wallet' = wallet /\ nonce' = nonce /\ ticket' = ticket
      /\ txs' = [txs EXCEPT ![a] = Append(@, c)]
      /\ pc'[c] \in Settled
      /\ \A d \in Calls : d # c => pc'[d] = pc[d]
  BY MadeHasWallet DEF SendAccepted, Release, history, LockInv, TypeOK
<1> HIDE DEF a
<1>2. /\ \A b \in Wallets : b # a => txs'[b] = txs[b]
      /\ Len(txs[a]) \in Nat
      /\ Len(txs'[a]) = Len(txs[a]) + 1
      /\ txs'[a][Len(txs[a]) + 1] = c
      /\ \A i \in 1..Len(txs[a]) : txs'[a][i] = txs[a][i]
  BY <1>1, SendAppends DEF LockInv
<1>3. SendersLeft'
  <2> SUFFICES ASSUME NEW b \in Wallets, NEW i \in 1..Len(txs'[b]),
                      txs'[b][i] # Outsider
               PROVE  /\ txs'[b][i] \in Calls
                      /\ wallet[txs'[b][i]] = b
                      /\ pc'[txs'[b][i]] \in Settled
    BY <1>1 DEF SendersLeft
  <2>1. CASE b = a /\ i = Len(txs[a]) + 1
    BY <1>1, <1>2, <2>1 DEF a
  <2>2. CASE ~(b = a /\ i = Len(txs[a]) + 1)
    <3>1. i \in 1..Len(txs[b]) /\ txs'[b][i] = txs[b][i]
      BY <1>2, <2>2
    <3> QED
      BY <1>1, <3>1 DEF SendersLeft
  <2> QED
    BY <2>1, <2>2
<1>4. OnlyOutsidersTakeNonces'
  <2> SUFFICES ASSUME NEW d \in Calls, pc'[d] = "sending"
               PROVE  /\ nonce'[d] <= Len(txs'[wallet'[d]])
                      /\ \A i \in (nonce'[d] + 1)..Len(txs'[wallet'[d]]) :
                             txs'[wallet'[d]][i] = Outsider
    BY DEF OnlyOutsidersTakeNonces
  <2>1. d # c /\ pc[d] = "sending"
    BY <1>1 DEF Settled
  <2>2. wallet[d] # a
    BY <1>1, <2>1, OneHolder DEF a, Holding
  <2>3. wallet[d] \in Wallets
    BY <2>1, MadeHasWallet DEF LockInv
  <2>4. txs'[wallet[d]] = txs[wallet[d]]
    BY <1>2, <2>2, <2>3
  <2>5. /\ nonce[d] <= Len(txs[wallet[d]])
        /\ \A i \in (nonce[d] + 1)..Len(txs[wallet[d]]) :
               txs[wallet[d]][i] = Outsider
    BY <2>1 DEF OnlyOutsidersTakeNonces
  <2>6. nonce'[d] = nonce[d] /\ wallet'[d] = wallet[d]
    BY <1>1
  <2> HIDE DEF NonceInv
  <2> QED
    BY <2>4, <2>5, <2>6
<1>5. ChainOrderIsArrivalOrder'
  <2> SUFFICES ASSUME NEW b \in Wallets,
                      NEW i \in 1..Len(txs'[b]), NEW j \in 1..Len(txs'[b]),
                      i < j, txs'[b][i] # Outsider, txs'[b][j] # Outsider
               PROVE  ticket[txs'[b][i]] < ticket[txs'[b][j]]
    BY <1>1 DEF ChainOrderIsArrivalOrder
  <2>1. CASE b = a /\ j = Len(txs[a]) + 1
    <3>1. i \in 1..Len(txs[a]) /\ txs'[a][i] = txs[a][i] /\ txs'[a][j] = c
      BY <1>2, <2>1
    <3>2. PICK e \in Calls : e = txs[a][i] /\ wallet[e] = a /\ pc[e] \in Settled
      BY <1>1, <2>1, <3>1 DEF SendersLeft
    <3>3. e # c /\ pc[c] \notin Settled
      BY <1>1, <3>2 DEF Settled
    <3>4. ticket[e] \in Nat /\ ticket[c] \in Nat
      BY DEF LockInv, TypeOK
    <3>5. ticket[e] # ticket[c]
      BY <1>1, <3>2, <3>3 DEF LockInv, ChainInv, TicketsDiffer, a
    <3>6. ~(ticket[c] < ticket[e])
      BY <1>1, <3>2, <3>3 DEF LockInv, ServedInOrder, Entered, a
    <3> QED
      BY <2>1, <3>1, <3>2, <3>4, <3>5, <3>6
  <2>2. CASE ~(b = a /\ j = Len(txs[a]) + 1)
    <3>1. /\ i \in 1..Len(txs[b]) /\ txs'[b][i] = txs[b][i]
          /\ j \in 1..Len(txs[b]) /\ txs'[b][j] = txs[b][j]
      BY <1>2, <2>2
    <3> QED
      BY <3>1 DEF ChainOrderIsArrivalOrder
  <2> QED
    BY <2>1, <2>2
<1> QED
  BY <1>3, <1>4, <1>5

\* An outsider's transaction is none of the service's.
LEMMA OutsideStep ==
    ASSUME NonceInv, NEW a \in Wallets, OutsiderSends(a)
    PROVE  SendersLeft' /\ OnlyOutsidersTakeNonces' /\ ChainOrderIsArrivalOrder'
<1> USE LockAssumption DEF NonceInv
<1>1. /\ UNCHANGED <<pc, wallet, nonce, ticket>>
      /\ txs' = [txs EXCEPT ![a] = Append(@, Outsider)]
  BY DEF OutsiderSends, history
<1>2. /\ \A b \in Wallets : b # a => txs'[b] = txs[b]
      /\ Len(txs[a]) \in Nat
      /\ Len(txs'[a]) = Len(txs[a]) + 1
      /\ txs'[a][Len(txs[a]) + 1] = Outsider
      /\ \A i \in 1..Len(txs[a]) : txs'[a][i] = txs[a][i]
  BY <1>1, SendAppends DEF LockInv
<1>3. ASSUME NEW b \in Wallets, NEW i \in 1..Len(txs'[b]), txs'[b][i] # Outsider
      PROVE  i \in 1..Len(txs[b]) /\ txs'[b][i] = txs[b][i]
  BY <1>2, <1>3
<1>4. SendersLeft'
  BY <1>1, <1>3 DEF SendersLeft
<1>5. ChainOrderIsArrivalOrder'
  BY <1>1, <1>3 DEF ChainOrderIsArrivalOrder
<1>6. OnlyOutsidersTakeNonces'
  <2> SUFFICES ASSUME NEW d \in Calls, pc[d] = "sending"
               PROVE  /\ nonce[d] <= Len(txs'[wallet[d]])
                      /\ \A i \in (nonce[d] + 1)..Len(txs'[wallet[d]]) :
                             txs'[wallet[d]][i] = Outsider
    BY <1>1 DEF OnlyOutsidersTakeNonces
  <2>1. wallet[d] \in Wallets /\ nonce[d] \in Nat
    BY MadeHasWallet DEF LockInv, TypeOK
  <2>2. /\ nonce[d] <= Len(txs[wallet[d]])
        /\ \A i \in (nonce[d] + 1)..Len(txs[wallet[d]]) :
               txs[wallet[d]][i] = Outsider
    BY DEF OnlyOutsidersTakeNonces
  <2>3. CASE wallet[d] # a
    BY <1>2, <2>1, <2>2, <2>3
  <2>4. CASE wallet[d] = a
    <3>1. nonce[d] <= Len(txs'[a])
      BY <1>2, <2>1, <2>2, <2>4
    <3>2. ASSUME NEW i \in (nonce[d] + 1)..Len(txs'[a])
          PROVE  txs'[a][i] = Outsider
      <4>1. CASE i = Len(txs[a]) + 1
        BY <1>2, <4>1
      <4>2. CASE i # Len(txs[a]) + 1
        <5>1. i \in (nonce[d] + 1)..Len(txs[a]) /\ i \in 1..Len(txs[a])
          BY <1>2, <2>1, <4>2
        <5> QED
          BY <1>2, <2>2, <2>4, <5>1
      <4> QED
        BY <4>1, <4>2
    <3> QED
      BY <2>4, <3>1, <3>2
  <2> QED
    BY <2>3, <2>4
<1> QED
  BY <1>4, <1>5, <1>6

\* Every step keeps the promises about nonces.
LEMMA NonceStep ==
    ASSUME NonceInv, [Next]_vars
    PROVE  SendersLeft' /\ OnlyOutsidersTakeNonces' /\ ChainOrderIsArrivalOrder'
<1> USE DEF NonceInv, LockInv, TypeOK
<1>1. ASSUME NEW c \in Calls, NEW a \in Wallets, Enqueue(c, a)
      PROVE  SendersLeft' /\ OnlyOutsidersTakeNonces' /\ ChainOrderIsArrivalOrder'
  BY <1>1, QuietStep DEF Enqueue, Settled
<1>2. ASSUME NEW c \in Calls, Acquire(c) \/ ReadNonce(c) \/ SendFails(c)
      PROVE  SendersLeft' /\ OnlyOutsidersTakeNonces' /\ ChainOrderIsArrivalOrder'
  BY <1>2, QuietStep DEF Acquire, ReadNonce, SendFails, Release, history,
         PendingNonce, Settled, Holding
<1>3. ASSUME NEW c \in Calls, SendNonceTaken(c)
      PROVE  SendersLeft' /\ OnlyOutsidersTakeNonces' /\ ChainOrderIsArrivalOrder'
  BY <1>3, QuietStep DEF SendNonceTaken, Release, history, Settled
<1>4. CASE UNCHANGED vars
  BY <1>4, QuietStep DEF vars
<1> QED
  BY <1>1, <1>2, <1>3, <1>4, SendStep, OutsideStep DEF Next, CallStep

\* The inductive invariant about nonces.
LEMMA NonceInvariant == Spec => []NonceInv
<1>1. Init => NonceInv
  <2> SUFFICES ASSUME Init PROVE NonceInv
    OBVIOUS
  <2>1. LockInv
    BY ChainInit DEF Init, LockInv, ServedInOrder, Entered, Settled, Holding
  <2>2. \A a \in Wallets : Len(txs[a]) = 0
    BY DEF Init
  <2>3. \A c \in Calls : pc[c] # "sending"
    BY DEF Init
  <2> QED
    BY <2>1, <2>2, <2>3 DEF NonceInv, SendersLeft, OnlyOutsidersTakeNonces,
       ChainOrderIsArrivalOrder
<1>2. NonceInv /\ [Next]_vars => NonceInv'
  <2>1. NonceInv /\ [Next]_vars => LockInv'
    BY TypeStep, ChainStep, OrderStep DEF LockInv, NonceInv
  <2> QED
    BY <2>1, NonceStep DEF NonceInv
<1> QED
  BY <1>1, <1>2, PTL DEF Spec

\* Between the reading of the pending nonce and the send no call of the
\* service consumes a nonce of that wallet.
THEOREM NoncesAreSafe == Spec => []OnlyOutsidersTakeNonces
<1>1. NonceInv => OnlyOutsidersTakeNonces
  BY DEF NonceInv
<1> QED
  BY <1>1, NonceInvariant, PTL

\* The chain has the transactions of a wallet in the order of the calls.
THEOREM ChainOrder == Spec => []ChainOrderIsArrivalOrder
<1>1. NonceInv => ChainOrderIsArrivalOrder
  BY DEF NonceInv
<1> QED
  BY <1>1, NonceInvariant, PTL

-----------------------------------------------------------------------------
(* The statistics *)

Waiters(a) == {c \in Calls : pc[c] = "waiting" /\ wallet[c] = a}
Holders(a) == {c \in Calls : pc[c] \in Holding /\ wallet[c] = a}

\* Sets of calls are finite, and grow and shrink by one.
LEMMA CountCalls ==
    ASSUME NEW S \in SUBSET Calls, NEW c \in Calls
    PROVE  /\ Cardinality(S) \in Nat
           /\ c \notin S => Cardinality(S \cup {c}) = Cardinality(S) + 1
           /\ c \in S => /\ Cardinality(S) > 0
                         /\ Cardinality(S \ {c}) = Cardinality(S) - 1
<1>1. IsFiniteSet(S)
  BY FS_Subset, LockAssumption
<1>2. Cardinality(S) \in Nat
  BY <1>1, FS_CardinalityType
<1>3. c \notin S => Cardinality(S \cup {c}) = Cardinality(S) + 1
  BY <1>1, FS_AddElement
<1>4. ASSUME c \in S
      PROVE  Cardinality(S) > 0 /\ Cardinality(S \ {c}) = Cardinality(S) - 1
  <2>1. Cardinality(S \ {c}) = Cardinality(S) - 1
    BY <1>1, <1>4, FS_RemoveElement
  <2>2. Cardinality(S) # 0
    BY <1>1, <1>4, FS_EmptySet
  <2> QED
    BY <1>2, <2>1, <2>2
<1> QED
  BY <1>2, <1>3, <1>4

\* StatsExact, said with the two sets it counts.
LEMMA StatsShape ==
    StatsExact <=> \A a \in Wallets : /\ stats[a].queued = Cardinality(Waiters(a))
                                      /\ stats[a].active = Cardinality(Holders(a))
  BY DEF StatsExact, Waiters, Holders

\* Every step changes the statistics as it changes the two sets.
LEMMA StatsStep ==
    ASSUME TypeOK, ChainInv, StatsExact, [Next]_vars
    PROVE  StatsExact'
<1> SUFFICES ASSUME NEW a \in Wallets
             PROVE  /\ stats'[a].queued = Cardinality(Waiters(a)')
                    /\ stats'[a].active = Cardinality(Holders(a)')
  BY DEF StatsExact, Waiters, Holders
<1>1. /\ stats[a].queued = Cardinality(Waiters(a))
      /\ stats[a].active = Cardinality(Holders(a))
      /\ Waiters(a) \in SUBSET Calls
      /\ Holders(a) \in SUBSET Calls
  BY StatsShape DEF Waiters, Holders
<1>2. ASSUME stats'[a] = stats[a], Waiters(a)' = Waiters(a), Holders(a)' = Holders(a)
      PROVE  /\ stats'[a].queued = Cardinality(Waiters(a)')
             /\ stats'[a].active = Cardinality(Holders(a)')
  BY <1>1, <1>2
<1>3. ASSUME NEW c \in Calls, NEW b \in Wallets, Enqueue(c, b)
      PROVE  /\ stats'[a].queued = Cardinality(Waiters(a)')
             /\ stats'[a].active = Cardinality(Holders(a)')
  <2>1. wallet[c] = NoWallet /\ c \notin Waiters(a)
    BY <1>3 DEF ChainInv, IdleHasNoWallet, Enqueue, Waiters
  <2>2. Holders(a)' = Holders(a)
    BY <1>3, <2>1 DEF Enqueue, Holders, Holding, TypeOK
  <2>3. CASE a = b
    <3>1. Waiters(a)' = Waiters(a) \cup {c}
      BY <1>3, <2>1, <2>3 DEF Enqueue, Waiters, TypeOK
    <3>2. stats'[a].queued = stats[a].queued + 1 /\ stats'[a].active = stats[a].active
      BY <1>3, <2>3 DEF Enqueue, TypeOK
    <3> QED
      BY <1>1, <2>1, <2>2, <3>1, <3>2, CountCalls
  <2>4. CASE a # b
    <3>1. Waiters(a)' = Waiters(a) /\ stats'[a] = stats[a]
      BY <1>3, <2>1, <2>4 DEF Enqueue, Waiters, TypeOK
    <3> QED
      BY <1>2, <2>2, <3>1
  <2> QED
    BY <2>3, <2>4
<1>4. ASSUME NEW c \in Calls, Acquire(c)
      PROVE  /\ stats'[a].queued = Cardinality(Waiters(a)')
             /\ stats'[a].active = Cardinality(Holders(a)')
  <2>1. CASE wallet[c] = a
    <3>1. c \in Waiters(a) /\ c \notin Holders(a)
      BY <1>4, <2>1 DEF Acquire, Waiters, Holders, Holding
    <3>2. Waiters(a)' = Waiters(a) \ {c} /\ Holders(a)' = Holders(a) \cup {c}
      BY <1>4, <2>1 DEF Acquire, Waiters, Holders, Holding, TypeOK
    <3>3. Cardinality(Waiters(a)) > 0
      BY <1>1, <3>1, CountCalls
    <3>4. /\ stats'[a].queued = stats[a].queued - 1
          /\ stats'[a].active = stats[a].active + 1
      BY <1>1, <1>4, <2>1, <3>3 DEF Acquire, TypeOK
    <3> QED
      BY <1>1, <3>1, <3>2, <3>4, CountCalls
  <2>2. CASE wallet[c] # a
    BY <1>2, <1>4, <2>2 DEF Acquire, Waiters, Holders, Holding, TypeOK
  <2> QED
    BY <2>1, <2>2
<1>5. ASSUME NEW c \in Calls, NEW how \in Settled, pc[c] \in Holding, Release(c, how)
      PROVE  /\ stats'[a].queued = Cardinality(Waiters(a)')
             /\ stats'[a].active = Cardinality(Holders(a)')
  <2>1. Waiters(a)' = Waiters(a)
    BY <1>5 DEF Release, Waiters, Holding, Settled, TypeOK
  <2>2. CASE wallet[c] = a
    <3>1. c \in Holders(a) /\ Holders(a)' = Holders(a) \ {c}
      BY <1>5, <2>2 DEF Release, Holders, Holding, Settled, TypeOK
    <3>2. Cardinality(Holders(a)) > 0
      BY <1>1, <3>1, CountCalls
    <3>3. /\ stats'[a].queued = stats[a].queued
          /\ stats'[a].active = stats[a].active - 1
      BY <1>1, <1>5, <2>2, <3>2 DEF Release, TypeOK
    <3> QED
      BY <1>1, <2>1, <3>1, <3>3, CountCalls
  <2>3. CASE wallet[c] # a
    BY <1>2, <1>5, <2>1, <2>3 DEF Release, Holders, Holding, Settled, TypeOK
  <2> QED
    BY <2>2, <2>3
<1>6. ASSUME UNCHANGED <<stats, wallet>>,
             \A c \in Calls : \/ pc'[c] = pc[c]
                              \/ pc[c] \in Holding /\ pc'[c] \in Holding
      PROVE  /\ stats'[a].queued = Cardinality(Waiters(a)')
             /\ stats'[a].active = Cardinality(Holders(a)')
  BY <1>2, <1>6 DEF Waiters, Holders, Holding
<1>7. ASSUME NEW c \in Calls, ReadNonce(c)
      PROVE  /\ stats'[a].queued = Cardinality(Waiters(a)')
             /\ stats'[a].active = Cardinality(Holders(a)')
  BY <1>6, <1>7 DEF ReadNonce, Holding, TypeOK
<1>8. ASSUME NEW c \in Calls, SendNonceTaken(c)
      PROVE  /\ stats'[a].queued = Cardinality(Waiters(a)')
             /\ stats'[a].active = Cardinality(Holders(a)')
  <2>1. CASE /\ pc' = [pc EXCEPT ![c] = "reading"]
             /\ UNCHANGED <<wallet, tail, prev, stats, nonce, history>>
    BY <1>6, <1>8, <2>1 DEF SendNonceTaken, Holding, TypeOK
  <2>2. CASE Release(c, "thrown")
    BY <1>5, <1>8, <2>2 DEF SendNonceTaken, Settled, Holding
  <2> QED
    BY <1>8, <2>1, <2>2 DEF SendNonceTaken
<1>9. ASSUME NEW c \in Calls, SendAccepted(c) \/ SendFails(c)
      PROVE  /\ stats'[a].queued = Cardinality(Waiters(a)')
             /\ stats'[a].active = Cardinality(Holders(a)')
  BY <1>5, <1>9 DEF SendAccepted, SendFails, Settled, Holding
<1>10. ASSUME NEW b \in Wallets, OutsiderSends(b)
       PROVE  /\ stats'[a].queued = Cardinality(Waiters(a)')
              /\ stats'[a].active = Cardinality(Holders(a)')
  BY <1>6, <1>10 DEF OutsiderSends
<1>11. CASE UNCHANGED vars
  BY <1>6, <1>11 DEF vars
<1> QED
  BY <1>3, <1>4, <1>7, <1>8, <1>9, <1>10, <1>11 DEF Next, CallStep

\* The statistics count, at every moment, the calls that wait and that hold.
THEOREM StatsAreExact == Spec => []StatsExact
<1>1. Init => TypeOK /\ ChainInv /\ StatsExact
  <2> SUFFICES ASSUME Init PROVE StatsExact
    BY ChainInit
  <2>1. \A a \in Wallets : Waiters(a) = {} /\ Holders(a) = {}
    BY DEF Init, Waiters, Holders, Holding
  <2> QED
    BY <2>1, FS_EmptySet, StatsShape DEF Init
<1>2. TypeOK /\ ChainInv /\ StatsExact /\ [Next]_vars => (TypeOK /\ ChainInv /\ StatsExact)'
  BY TypeStep, ChainStep, StatsStep
<1> QED
  BY <1>1, <1>2, PTL DEF Spec
=============================================================================
