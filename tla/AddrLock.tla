------------------------------ MODULE AddrLock ------------------------------
(***************************************************************************)
(* withAddrLock and sendContractTxLocked of bb_service_zk.js: every        *)
(* transaction a wallet sends goes through a per-address chain of          *)
(* promises, and under it the pending nonce is read, the transaction is    *)
(* sent, and both are tried again, three times in all, when the nonce      *)
(* turns out to be taken.                                                  *)
(*                                                                         *)
(* A call is one execution of sendContractTxLocked.  addrLock maps an      *)
(* address to the promise of its last caller; that promise is resolved     *)
(* when the caller has released, since it then held the lock and its       *)
(* predecessor's promise was resolved.  So the map holds a call here, and  *)
(* waiting for a promise is waiting for a call to have settled.            *)
(*                                                                         *)
(* The node is external: it accepts a transaction only with the wallet's   *)
(* next nonce.  Someone else may hold the same key (an outsider), which is *)
(* what the retry is for.                                                  *)
(***************************************************************************)
EXTENDS Naturals, Sequences, FiniteSets

CONSTANTS
    Calls,       \* executions of sendContractTxLocked
    NoCall,      \* no entry in addrLock
    Wallets,     \* addresses
    NoWallet,    \* the wallet of a call that was not made yet
    Outsider,    \* sender of a transaction that did not come through the lock
    Attempts,    \* the 3 of the retry loop
    MaxOutside   \* bound: transactions of outsiders per wallet

ASSUME LockAssumption ==
    /\ IsFiniteSet(Calls)
    /\ NoCall \notin Calls
    /\ Outsider \notin Calls
    /\ NoWallet \notin Wallets
    /\ Attempts \in Nat \ {0}
    /\ MaxOutside \in Nat

VARIABLES
    pc,        \* pc[c]: where call c is
    wallet,    \* wallet[c]: the address it locks
    tail,      \* addrLock: tail[a] is the last call to lock a
    prev,      \* prev[c]: the call whose promise c awaits
    stats,     \* addrLockStats
    attempt,   \* attempt[c]: the running attempt, from 1
    nonce,     \* nonce[c]: the pending nonce c has read
    txs,       \* txs[a]: senders of the transactions the node accepted from a
    ticket,    \* history: ticket[c] is c's place in the order of arrival at a
    arrivals   \* history: how many calls arrived at a

vars == <<pc, wallet, tail, prev, stats, attempt, nonce, txs, ticket, arrivals>>
history == <<ticket, arrivals>>

\* The node's answer to eth_getTransactionCount(a, "pending").
PendingNonce(a) == Len(txs[a])

Settled == {"returned", "thrown"}
Holding == {"reading", "sending"}
Entered == Holding \cup Settled

Outside(a) == Cardinality({i \in 1..Len(txs[a]) : txs[a][i] = Outsider})

-----------------------------------------------------------------------------

Init ==
    /\ pc = [c \in Calls |-> "idle"]
    /\ wallet = [c \in Calls |-> NoWallet]
    /\ tail = [a \in Wallets |-> NoCall]
    /\ prev = [c \in Calls |-> NoCall]
    /\ stats = [a \in Wallets |-> [queued |-> 0, active |-> 0]]
    /\ attempt = [c \in Calls |-> 0]
    /\ nonce = [c \in Calls |-> 0]
    /\ txs = [a \in Wallets |-> <<>>]
    /\ ticket = [c \in Calls |-> 0]
    /\ arrivals = [a \in Wallets |-> 0]

\* Sensitivity variant of Enqueue: the lock's entry is read but never moved on.
EnqueueLosesPlace(c, a) ==
    /\ pc[c] = "idle"
    /\ pc' = [pc EXCEPT ![c] = "waiting"]
    /\ wallet' = [wallet EXCEPT ![c] = a]
    /\ prev' = [prev EXCEPT ![c] = tail[a]]
    /\ tail' = [tail EXCEPT ![a] = IF @ = NoCall THEN c ELSE @]
    /\ stats' = [stats EXCEPT ![a] = [queued |-> @.queued + 1, active |-> @.active]]
    /\ ticket' = [ticket EXCEPT ![c] = arrivals[a] + 1]
    /\ arrivals' = [arrivals EXCEPT ![a] = @ + 1]
    /\ UNCHANGED <<attempt, nonce, txs>>

\* Up to `await prev': join the chain of a and count as queued.
Enqueue(c, a) ==
    /\ pc[c] = "idle"
    /\ pc' = [pc EXCEPT ![c] = "waiting"]
    /\ wallet' = [wallet EXCEPT ![c] = a]
    /\ prev' = [prev EXCEPT ![c] = tail[a]]
    /\ tail' = [tail EXCEPT ![a] = c]
    /\ stats' = [stats EXCEPT ![a] = [queued |-> @.queued + 1, active |-> @.active]]
    /\ ticket' = [ticket EXCEPT ![c] = arrivals[a] + 1]
    /\ arrivals' = [arrivals EXCEPT ![a] = @ + 1]
    /\ UNCHANGED <<attempt, nonce, txs>>

\* Sensitivity variant of Resolved: `await prev' is missing.
ResolvedAtOnce(c) == c \in {NoCall} \cup Calls

\* Sensitivity variant of Resolved: the promise of a call that throws is
\* never resolved, as without the finally block.
ResolvedOnSuccess(c) == c \in {NoCall} \cup {d \in Calls : pc[d] = "returned"}

\* A promise is resolved when its call has released the lock; the first
\* caller of an address awaits Promise.resolve().
Resolved(c) == c \in {NoCall} \cup {d \in Calls : pc[d] \in Settled}

\* After `await prev': the lock is held, the loop starts.
Acquire(c) ==
    /\ pc[c] = "waiting"
    /\ Resolved(prev[c])
    /\ pc' = [pc EXCEPT ![c] = "reading"]
    /\ attempt' = [attempt EXCEPT ![c] = 1]
    /\ stats' = [stats EXCEPT ![wallet[c]] =
           [queued |-> IF @.queued > 0 THEN @.queued - 1 ELSE 0,
            active |-> @.active + 1]]
    /\ UNCHANGED <<wallet, tail, prev, nonce, txs, history>>

\* getPendingNonceRaw answers.
ReadNonce(c) ==
    /\ pc[c] = "reading"
    /\ nonce' = [nonce EXCEPT ![c] = PendingNonce(wallet[c])]
    /\ pc' = [pc EXCEPT ![c] = "sending"]
    /\ UNCHANGED <<wallet, tail, prev, stats, attempt, txs, history>>

\* Sensitivity variant of Release: the statistics are not counted out.
ReleaseUncounted(c, how) ==
    /\ pc' = [pc EXCEPT ![c] = how]
    /\ UNCHANGED <<stats, wallet, tail, prev, attempt, nonce, history>>

\* The finally block of withAddrLock: count out and resolve the promise.
Release(c, how) ==
    /\ pc' = [pc EXCEPT ![c] = how]
    /\ stats' = [stats EXCEPT ![wallet[c]] =
           [queued |-> @.queued,
            active |-> IF @.active > 0 THEN @.active - 1 ELSE 0]]
    /\ UNCHANGED <<wallet, tail, prev, attempt, nonce, history>>

\* The node takes the transaction, and the answer arrives or is lost.
SendAccepted(c) ==
    /\ pc[c] = "sending"
    /\ nonce[c] = PendingNonce(wallet[c])
    /\ txs' = [txs EXCEPT ![wallet[c]] = Append(@, c)]
    /\ \E how \in Settled : Release(c, how)

\* Sensitivity variant of SendNonceTaken: one attempt too many.
SendNonceTakenOnceMore(c) ==
    /\ pc[c] = "sending"
    /\ nonce[c] < PendingNonce(wallet[c])
    /\ \/ /\ attempt[c] <= Attempts
          /\ attempt' = [attempt EXCEPT ![c] = @ + 1]
          /\ pc' = [pc EXCEPT ![c] = "reading"]
          /\ UNCHANGED <<wallet, tail, prev, stats, nonce, history>>
       \/ /\ attempt[c] > Attempts
          /\ Release(c, "thrown")
    /\ UNCHANGED txs

\* "nonce too low" or "already been used": try again, or give up at the end.
SendNonceTaken(c) ==
    /\ pc[c] = "sending"
    /\ nonce[c] < PendingNonce(wallet[c])
    /\ \/ /\ attempt[c] < Attempts
          /\ attempt' = [attempt EXCEPT ![c] = @ + 1]
          /\ pc' = [pc EXCEPT ![c] = "reading"]
          /\ UNCHANGED <<wallet, tail, prev, stats, nonce, history>>
       \/ /\ attempt[c] = Attempts
          /\ Release(c, "thrown")
    /\ UNCHANGED txs

\* Any other error (a revert at gas estimation, a transport error) is thrown.
SendFails(c) ==
    /\ pc[c] \in Holding
    /\ Release(c, "thrown")
    /\ UNCHANGED txs

\* External: another holder of the key sends a transaction.
OutsiderSends(a) ==
    /\ Outside(a) < MaxOutside
    /\ txs' = [txs EXCEPT ![a] = Append(@, Outsider)]
    /\ UNCHANGED <<pc, wallet, tail, prev, stats, attempt, nonce, history>>

CallStep(c) ==
    Acquire(c) \/ ReadNonce(c) \/ SendAccepted(c) \/ SendNonceTaken(c) \/ SendFails(c)

Next ==
    \/ \E c \in Calls : CallStep(c) \/ \E a \in Wallets : Enqueue(c, a)
    \/ \E a \in Wallets : OutsiderSends(a)

Fairness == \A c \in Calls : WF_vars(CallStep(c))

Spec == Init /\ [][Next]_vars /\ Fairness

-----------------------------------------------------------------------------
(* Properties *)

\* Type correctness of the lock's map, its statistics and the calls.
TypeOK ==
    /\ pc \in [Calls -> {"idle", "waiting"} \cup Entered]
    /\ wallet \in [Calls -> Wallets \cup {NoWallet}]
    /\ tail \in [Wallets -> Calls \cup {NoCall}]
    /\ prev \in [Calls -> Calls \cup {NoCall}]
    /\ stats \in [Wallets -> [queued : Nat, active : Nat]]
    /\ attempt \in [Calls -> 0..Attempts]
    /\ nonce \in [Calls -> Nat]
    /\ txs \in [Wallets -> Seq(Calls \cup {Outsider})]
    /\ ticket \in [Calls -> Nat]
    /\ arrivals \in [Wallets -> Nat]

\* The lock is served in order of arrival: when a call has entered, every
\* call that arrived at the same address before it has already left.
ServedInOrder ==
    \A c, d \in Calls :
        /\ pc[d] \in Entered
        /\ pc[c] # "idle"
        /\ wallet[c] = wallet[d]
        /\ ticket[c] < ticket[d]
        => pc[c] \in Settled

\* Between reading the pending nonce and sending, only outsiders can consume
\* nonces of the wallet: the service's own calls never make each other retry.
OnlyOutsidersTakeNonces ==
    \A c \in Calls :
        pc[c] = "sending" =>
            /\ nonce[c] <= Len(txs[wallet[c]])
            /\ \A i \in (nonce[c] + 1)..Len(txs[wallet[c]]) :
                   txs[wallet[c]][i] = Outsider

\* The chain sees the service's transactions in the order of the calls, each
\* at most once.
ChainOrderIsArrivalOrder ==
    \A a \in Wallets : \A i, j \in 1..Len(txs[a]) :
        /\ i < j
        /\ txs[a][i] # Outsider
        /\ txs[a][j] # Outsider
        => ticket[txs[a][i]] < ticket[txs[a][j]]

\* What the deferred TTSS attach and the logs read as load is exact: the
\* statistics count the calls that wait for and that hold the address.
StatsExact ==
    \A a \in Wallets :
        /\ stats[a].queued =
               Cardinality({c \in Calls : pc[c] = "waiting" /\ wallet[c] = a})
        /\ stats[a].active =
               Cardinality({c \in Calls : pc[c] \in Holding /\ wallet[c] = a})

\* No call waits for ever: a promise that throws is settled as well, so an
\* error of one call never blocks the address for the others.
EveryCallSettles ==
    \A c \in Calls : (pc[c] = "waiting") ~> (pc[c] \in Settled)
=============================================================================
