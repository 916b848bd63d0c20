------------------------------ MODULE TtssShares -----------------------------
(***************************************************************************)
(* Dealing a recovery seed to N guardians and rebuilding it from T shares: *)
(* ttss_share_nits_shamir, share_envelope.cpp and ttss_rec_nits_shamir.    *)
(*                                                                         *)
(* The seed is a sequence of chunks, each shared with a polynomial of its  *)
(* own.  What the code derives by hashing the dealer's rho seed (the       *)
(* coefficients, and a stream of candidates for every guardian's x) is     *)
(* given by a constant set of such derivations.  A hash is the record it   *)
(* is computed from.                                                       *)
(*                                                                         *)
(* `envs' holds what a client gets when it asks for an envelope.  It may   *)
(* have been made inactive, or altered on the way, since it was dealt, and *)
(* the identity may have been dealt for a second time, for the same epoch  *)
(* or for another.                                                         *)
(***************************************************************************)
EXTENDS ShamirField, FiniteSetsExt

CONSTANTS
    N, T,       \* guardians, threshold
    Seeds,      \* seeds that may be dealt
    Rhos,       \* derivations: coefficients and candidates for x
    Epochs,     \* of a second deal; the first is for epoch 1
    NoDeal,
    MaxTrouble  \* bound: second deals and alterations

ASSUME SharesAssumption ==
    /\ N \in Nat /\ T \in Nat /\ 2 <= T /\ T <= N
    /\ \A s \in Seeds : s \in [1..ChunkCount -> Chunk]
    /\ \A r \in Rhos : /\ r.coeff \in [1..ChunkCount -> [1..(T - 1) -> Field]]
                       /\ r.x \in [1..N -> Seq(Field)]

VARIABLES
    deals,    \* deals[1] and deals[2]: what was dealt, with the envelopes
    envs,     \* envs[d][g]: the envelope of guardian g from deal d
    outcome,  \* the last call of ttss_rec_nits_shamir
    trouble

Guardians == 1..N

\* Sensitivity variant of NonZero: the shift away from zero is missing.
NonZeroMissing(h) == h % (P - 1)

\* A candidate for x is brought into 1..P-1.
NonZero(h) == (h % (P - 1)) + 1

\* derive_distinct_x for one guardian after another: the first candidate
\* that no guardian before has.  0 when there is none.
DeriveXs(r) ==
    LET xs[g \in Guardians] ==
            LET used == {xs[k] : k \in 1..(g - 1)}
                fresh == {c \in DOMAIN r.x[g] : NonZero(r.x[g][c]) \notin used}
            IN IF fresh = {} THEN 0
               ELSE NonZero(r.x[g][CHOOSE c \in fresh : \A k \in fresh : c <= k])
    IN xs

\* unable_to_derive_distinct_x is not thrown.
Derivable(r) ==
    \A g \in Guardians :
        \E c \in DOMAIN r.x[g] :
            \A k \in 1..(g - 1) : NonZero(r.x[g][c]) # DeriveXs(r)[k]

\* The chunks of the share at the point x.
Values(seed, rho, x) ==
    [c \in 1..ChunkCount |-> PolyEval(<<seed[c]>> \o rho.coeff[c], x)]

Ui(x) == [ui |-> x % P]

Core == {"guardianIndex", "n", "t", "epoch", "x", "y", "ui", "vkSet", "active"}

\* Sensitivity variant of Payload: what is signed leaves out the share.
PayloadWithoutShare(e) == [f \in Core \ {"x", "y"} |-> e[f]]

\* canonical_share_envelope_payload: everything but the signature.
Payload(e) == [f \in Core |-> e[f]]

Signed(e) == [f \in Core \cup {"sigma"} |-> IF f = "sigma" THEN Payload(e) ELSE e[f]]

\* ttss_share_nits_shamir.
Share(seed, rho, epoch) ==
    LET xs == DeriveXs(rho)
        vk == [g \in Guardians |-> Ui(xs[g])]
    IN [g \in Guardians |->
           Signed([guardianIndex |-> g, n |-> N, t |-> T, epoch |-> epoch,
                   x |-> xs[g], y |-> PackChunks(Values(seed, rho, xs[g])),
                   ui |-> vk[g], vkSet |-> vk, active |-> TRUE])]

Deal(seed, rho, epoch) ==
    [seed |-> seed, rho |-> rho, epoch |-> epoch, envelopes |-> Share(seed, rho, epoch)]

VkEntries(deal) == [g \in Guardians |-> deal.envelopes[g].ui]

-----------------------------------------------------------------------------
(* verify_share_envelope_demo, with basic_validate_share_envelope, and     *)
(* ttss_rec_nits_shamir.  An error is named as in the code; "" is none.    *)

VerifyError(e) ==
    IF e.guardianIndex = 0 THEN "bad_guardian_index"
    ELSE IF e.n < 2 \/ e.t < 2 \/ e.t > e.n THEN "bad_threshold"
    ELSE IF e.y = <<>> THEN "missing_share_core"
    ELSE IF e.sigma # Payload(e) THEN "sigma_mismatch"
    ELSE ""

Header(e) == <<e.epoch, e.n, e.t>>

ShareError(shares, i) ==
    LET e == shares[i] IN
    IF VerifyError(e) # "" THEN VerifyError(e)
    ELSE IF Header(e) # Header(shares[1]) THEN "share_header_mismatch"
    ELSE IF ~e.active THEN "inactive_share_present"
    ELSE IF \E j \in 1..(i - 1) : shares[j].x = e.x THEN "duplicate_x"
    ELSE IF Len(e.y) # Bytes THEN "bad_y_encoding"
    ELSE ""

\* Interpolation chunk by chunk through the points of some shares.
Rebuild(shares) ==
    [c \in 1..ChunkCount |->
        LagrangeAtZero([i \in DOMAIN shares |-> <<shares[i].x, UnpackChunks(shares[i].y)[c]>>])]

Fails(error) == [ok |-> FALSE, error |-> error]
Gives(seed) ==
    IF seed \in [1..ChunkCount -> Chunk] THEN [ok |-> TRUE, seed |-> seed]
    ELSE Fails("recovered_chunk_out_of_range")

\* Every share of the first t adds a point or fails, so the loop stops at the
\* t-th and looks at none after it.
TtssRec(shares) ==
    IF shares = <<>> THEN Fails("no_shares")
    ELSE IF VerifyError(shares[1]) # "" THEN Fails(VerifyError(shares[1]))
    ELSE IF Len(shares) < shares[1].t THEN Fails("insufficient_shares")
    ELSE LET t == shares[1].t
             bad == {i \in 1..t : ShareError(shares, i) # ""}
         IN IF bad = {} THEN Gives(Rebuild(SubSeq(shares, 1, t)))
            ELSE Fails(ShareError(shares, CHOOSE i \in bad : \A j \in bad : i <= j))

-----------------------------------------------------------------------------

NoOutcome == [from |-> <<>>, result |-> Fails("")]

\* The envelopes of the slots <<d, g>> that are asked for.
Fetched(slots) == [i \in DOMAIN slots |-> envs[slots[i][1]][slots[i][2]]]

Slots == {s \in {1, 2} \X Guardians : deals[s[1]] # NoDeal}

\* What is asked for: up to T envelopes in any order, or all of a deal.
Requests ==
    LET slots == Slots
    IN (UNION {[1..k -> slots] : k \in 0..T}) \cup {[g \in Guardians |-> <<1, g>>]}

Recover ==
    /\ outcome = NoOutcome
    /\ \E slots \in Requests : outcome' = [from |-> slots, result |-> TtssRec(Fetched(slots))]
    /\ UNCHANGED <<deals, envs, trouble>>

Return ==
    /\ outcome # NoOutcome /\ outcome' = NoOutcome
    /\ UNCHANGED <<deals, envs, trouble>>

Trouble ==
    /\ trouble < MaxTrouble /\ trouble' = trouble + 1
    /\ outcome = NoOutcome /\ UNCHANGED outcome

\* A second run of the dealer, with another rho.
ShareAgain(seed, rho, epoch) ==
    /\ Trouble
    /\ deals[2] = NoDeal /\ rho # deals[1].rho
    /\ deals' = [deals EXCEPT ![2] = Deal(seed, rho, epoch)]
    /\ envs' = [envs EXCEPT ![2] = deals'[2].envelopes]

\* register_invalidate_route clears the flag and does not sign again.
Invalidate(d, g) ==
    /\ Trouble
    /\ <<d, g>> \in Slots /\ envs[d][g].active
    /\ envs' = [envs EXCEPT ![d][g].active = FALSE]
    /\ UNCHANGED deals

\* Ways to come back other than it was signed, with the signature left alone.
\* (Its key is derived from a field of the envelope itself, so that it tells
\* damage and mix-ups and nothing more; no envelope here is signed anew.)
Alterations(e) ==
    {[e EXCEPT !.epoch = @ + 1], [e EXCEPT !.t = @ - 1], [e EXCEPT !.guardianIndex = 0],
     [e EXCEPT !.x = (@ % (P - 1)) + 1], [e EXCEPT !.y = Tail(@)],
     [e EXCEPT !.y[1] = (@ + 1) % 2^ByteBits]}

Alter(d, g) ==
    /\ Trouble
    /\ <<d, g>> \in Slots
    /\ \E e \in Alterations(envs[d][g]) : envs' = [envs EXCEPT ![d][g] = e]
    /\ UNCHANGED deals

UsableRhos == {r \in Rhos : Derivable(r)}

SharesInit ==
    /\ \E seed \in Seeds, rho \in UsableRhos : deals = <<Deal(seed, rho, 1), NoDeal>>
    /\ envs = <<deals[1].envelopes, <<>>>>
    /\ outcome = NoOutcome
    /\ trouble = 0

-----------------------------------------------------------------------------

\* What the dealer made of slot s.
AsDealt(s) == envs[s[1]][s[2]] = deals[s[1]].envelopes[s[2]]

\* Any T envelopes of one deal, of different guardians, as they were dealt and
\* in any order give exactly the seed that was dealt, the values that need
\* the bit beyond ChunkBits included; and whatever follows the first T
\* does not matter.
AnyThresholdRecovers ==
    LET s == outcome.from IN
    /\ Len(s) >= T
    /\ \A i \in 1..T : AsDealt(s[i]) /\ s[i][1] = s[1][1]
    /\ \A i, j \in 1..T : s[i] = s[j] => i = j
    => outcome.result = [ok |-> TRUE, seed |-> deals[s[1][1]].seed]

\* Nothing is rebuilt from an envelope that was altered or made inactive, from
\* one envelope taken twice, or from deals of different epochs.
OnlyIntactSharesUsed ==
    LET s == outcome.from IN
    outcome.result.ok =>
        /\ Len(s) >= T
        /\ \A i \in 1..T : AsDealt(s[i]) /\ deals[s[i][1]].epoch = deals[s[1][1]].epoch
        /\ \A i, j \in 1..T : s[i] = s[j] => i = j

\* Fewer than T shares tell nothing: for every chunk, whatever T - 1 guardians
\* hold would have come about from each possible value of the chunk by as
\* many choices of coefficients as from any other.  (Looked at when the deal
\* is made: nothing else matters to it.)
BelowThresholdTellsNothing ==
    trouble = 0 /\ outcome = NoOutcome =>
        \A G \in kSubset(T - 1, Guardians) : \A c \in 1..ChunkCount :
            LET deal == deals[1]
                X(g) == deal.envelopes[g].x
                seen == [g \in G |-> UnpackChunks(deal.envelopes[g].y)[c]]
                Ways(v) == {a \in [1..(T - 1) -> Field] :
                               \A g \in G : PolyEval(<<v>> \o a, X(g)) = seen[g]}
            IN \A v \in Chunk : Cardinality(Ways(v)) = Cardinality(Ways(0))
=============================================================================
