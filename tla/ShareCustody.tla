---------------------------- MODULE ShareCustody ----------------------------
(***************************************************************************)
(* What the committee promises about one identity.  At any time at most    *)
(* one recovery seed can be rebuilt from the shares the nodes would serve; *)
(* a seed comes into custody only while its version is the one on the      *)
(* board and only when nothing else is in custody; and custody may be      *)
(* lost.  So while the board moves from one version to the next, an old    *)
(* share set is given up before a new one exists, and what was given up    *)
(* never comes back.                                                       *)
(***************************************************************************)
EXTENDS Integers

CONSTANTS Deals, NoDeal

VARIABLES
    version,  \* version of the record on the board, -1 before registration
    custody   \* the deal that can be rebuilt, or NoDeal

Init == version = -1 /\ custody = NoDeal

Advance == version' = version + 1 /\ UNCHANGED custody

Gain ==
    /\ custody = NoDeal
    /\ custody' \in Deals
    /\ custody'.ver = version
    /\ UNCHANGED version

Lose == custody' = NoDeal /\ UNCHANGED version

Next == Advance \/ Gain \/ Lose

Spec == Init /\ [][Next]_<<version, custody>>
=============================================================================
