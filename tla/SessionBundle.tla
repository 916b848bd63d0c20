---------------------------- MODULE SessionBundle ----------------------------
(***************************************************************************)
(* What a client proves and what the verifier accepts: the Merkle path of  *)
(* merkle_poseidon.cpp, the witness of zk_backend.cpp, the session of      *)
(* identity_state.cpp and the bundle check of verifier_wrap.cpp.           *)
(*                                                                         *)
(* Hashes and signatures are records of what they are computed from, so    *)
(* they are equal only for equal inputs.  A leaf is the key generation     *)
(* (`by') and the version it was computed from, a session key is the leaf  *)
(* it was generated for.  That a proof exists exactly for a witness that   *)
(* satisfies the circuit is assumed of the external prover; the verifier   *)
(* checks the proof again only if an environment variable asks for it, and *)
(* that is left out.  The nullifier is no part of any decision here.       *)
(***************************************************************************)
EXTENDS Naturals, Sequences

Hash2(l, r) == [left |-> l, right |-> r]

\* fold_merkle_level
FoldLevel(node, sibling, bit) ==
    IF bit = 0 THEN Hash2(node, sibling) ELSE Hash2(sibling, node)

\* compute_root_from_path
RootFromPath(leaf, path) ==
    LET node[i \in 0..Len(path.elements)] ==
            IF i = 0 THEN leaf
            ELSE FoldLevel(node[i - 1], path.elements[i], path.index[i])
    IN  node[Len(path.elements)]

\* validate_path
PathValid(path) ==
    /\ Len(path.elements) = Len(path.index)
    /\ \A i \in 1..Len(path.index) : path.index[i] \in {0, 1}

\* verify_merkle_path_local
PathFits(leaf, path) == PathValid(path) /\ RootFromPath(leaf, path) = path.root

\* build_session_context: the context is bound to an epoch.
Session(key, epoch) ==
    [key |-> key, ctx |-> [for |-> key, epoch |-> epoch], epoch |-> epoch]

\* The public signals of a proof over build_zk_witness_input.
Signals(path, sess) ==
    [root |-> path.root, ctx |-> sess.ctx, key |-> sess.key, epoch |-> sess.epoch]

\* build_session_transcript
Transcript(ctx, signals, epoch) == [ctx |-> ctx, signals |-> signals, epoch |-> epoch]

\* sign_session_transcript_hex
Sign(key, transcript) == [by |-> key, of |-> transcript]

\* session_gen_zk and the signature over what it returns.
Bundle(path, sess) ==
    LET signals == Signals(path, sess) IN
    [signals |-> signals,
     sig |-> Sign(sess.key, Transcript(sess.ctx, signals, sess.epoch))]

\* verify_bundle_with_session
VerifyError(bundle, root, key, ctx, epoch) ==
    LET s == bundle.signals IN
    IF root # s.root THEN "public_root_mismatch"
    ELSE IF ctx # s.ctx THEN "ctxHash_mismatch"
    ELSE IF epoch # 0 /\ epoch # s.epoch THEN "epoch_mismatch"
    ELSE IF bundle.sig # Sign(key, Transcript(s.ctx, s, s.epoch))
         THEN "session_signature_invalid"
    ELSE "none"
=============================================================================
