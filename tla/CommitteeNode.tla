--------------------------- MODULE CommitteeNode ----------------------------
(***************************************************************************)
(* The committee nodes (committee_node.cpp): each keeps share envelopes in *)
(* memory, in a map from (idHash, ver, epoch, guardianIndex) to the last   *)
(* envelope stored under that key, with an active flag.  One identity is   *)
(* modelled, and node g is only ever asked about guardian index g, so a    *)
(* key is a version and an epoch.  What the shares of one deal have in     *)
(* common (the recovery seed they were cut from, with its vkSetHash) is    *)
(* the deal's seed; two deals of one version and epoch have different      *)
(* seeds.                                                                  *)
(*                                                                         *)
(* Every handler takes the store's mutex once, so a handler is a step.     *)
(* The store is not persisted: a restart empties it.                       *)
(***************************************************************************)
EXTENDS Naturals, FiniteSets

CONSTANTS
    Nodes,   \* committee nodes, with the guardian index they serve
    Seeds    \* recovery seeds that may be dealt

VARIABLE
    shares   \* shares[g]: the envelopes in g's ttssShares

Deal == [ver : Nat, epoch : Nat, seed : Seeds]
Envelope == [ver : Nat, epoch : Nat, seed : Seeds, active : BOOLEAN]

StoreTypeOK == shares \in [Nodes -> SUBSET Envelope]

HasKey(e, ver, epoch) == e.ver = ver /\ e.epoch = epoch

\* What share_lookup_key finds at g: the empty set or a singleton.
Stored(g, ver, epoch) == {e \in shares[g] : HasKey(e, ver, epoch)}

\* find_requested_envelope with a guardian index: the share, or an error
\* (no_share, share_inactive).
Served(g, ver, epoch) == {e \in Stored(g, ver, epoch) : e.active}

ActiveEnvelope(d) == [ver |-> d.ver, epoch |-> d.epoch, seed |-> d.seed, active |-> TRUE]

-----------------------------------------------------------------------------

\* POST /setShareEnvelope: verified, then stored over whatever has its key.
SetShareEnvelope(g, d) ==
    shares' = [shares EXCEPT ![g] =
                  (@ \ Stored(g, d.ver, d.epoch)) \cup {ActiveEnvelope(d)}]

\* Sensitivity variant of InvalidateShares: every version is invalidated but
\* the one that is asked for.
InvalidateSharesOther(g, ver, epoch) ==
    shares' = [shares EXCEPT ![g] =
        {IF HasKey(e, ver, epoch) THEN e ELSE [e EXCEPT !.active = FALSE] : e \in @}]

\* POST /invalidateShares: every envelope of the version becomes inactive.
\* The answer is ok even when there was none.
InvalidateShares(g, ver, epoch) ==
    shares' = [shares EXCEPT ![g] =
        {IF HasKey(e, ver, epoch) THEN [e EXCEPT !.active = FALSE] ELSE e : e \in @}]

\* The process ends and is started again: main makes an empty CommitteeStore.
RestartNode(g) == shares' = [shares EXCEPT ![g] = {}]

InitStore == shares = [g \in Nodes |-> {}]

\* One envelope for each key, as in an unordered_map.
OneEnvelopePerKey ==
    \A g \in Nodes : \A e, f \in shares[g] : HasKey(e, f.ver, f.epoch) => e = f
=============================================================================
