------------------------------ MODULE TtssTrace ------------------------------
(***************************************************************************)
(* Tracing who leaked shares, after a deal: run_ttss_trace of the C++      *)
(* client fetches the shares that count as leaked and loads a pirate box   *)
(* with them (pirate_box.js), the tracer (tracer_client.js) queries the    *)
(* box with shares of the other guardians and names the accused, and the   *)
(* verifier checks the accusation against the key set.  ttss_trace.cpp is  *)
(* a second implementation of the tracer, used as a library; both are fed  *)
(* the same answers here.                                                  *)
(***************************************************************************)
EXTENDS TtssShares, SequencesExt

VARIABLES
    leaked,   \* the guardians named as leaking, in the operator's order
    box,      \* the envelopes the box was loaded with
    roots,    \* what the script has of roots, each once, as they arrived
    okRoots,  \* roots that came with an answer that decrypts
    verdict   \* the two accusations, once the queries are over

traceVars == <<leaked, box, roots, okRoots, verdict>>
sharesVars == <<deals, envs, outcome, trouble>>
vars == <<sharesVars, traceVars>>

\* The numbers of S from the lowest: std::sort, and sort with (a, b) => a - b.
Ascend(S) ==
    [i \in 1..Cardinality(S) |-> CHOOSE x \in S : Cardinality({y \in S : y < x}) = i - 1]

\* What s has at the positions in I, in their order.
Part(s, I) == LET at == Ascend(I) IN [k \in DOMAIN at |-> s[at[k]]]

NoVerdict == [script |-> <<>>, library |-> <<>>]

Init ==
    /\ SharesInit
    /\ leaked = <<>> /\ box = <<>>
    /\ roots = <<>> /\ okRoots = {}
    /\ verdict = NoVerdict

\* A node hands out active envelopes only, and what the client gets has to
\* parse (basic_validate_share_envelope).
Fetchable(g) ==
    LET e == envs[1][g] IN e.active /\ VerifyError(e) \in {"", "sigma_mismatch"}

\* validateShareEnvelopeShape: the share fits its trace binding.
FitsBinding(e) == Ui(e.x) = e.ui

\* What the operator may name: fewer than T guardians, each once, in any order
\* (parse_guardian_indexes_csv does not sort).
LeakOrders ==
    {o \in UNION {[1..k -> Guardians] : k \in 1..(T - 1)} : IsInjective(o)}

\* load_pirate_box_for_trace and /loadStaticBox, which wants one header.
LoadBox(order) ==
    LET shares == [i \in DOMAIN order |-> envs[1][order[i]]] IN
    /\ box = <<>> /\ deals[2] = NoDeal /\ outcome = NoOutcome
    /\ \A i \in DOMAIN order : Fetchable(order[i]) /\ FitsBinding(shares[i])
    /\ \A i \in DOMAIN order : shares[i].epoch = shares[1].epoch
    /\ leaked' = order
    /\ box' = shares
    /\ UNCHANGED <<sharesVars, roots, okRoots, verdict>>

\* Sensitivity variant of FirstOfTheirX: no share is skipped.
EveryShare(shares) == DOMAIN shares

\* The shares reconstructSeedFromShares takes: it skips one whose x it has.
FirstOfTheirX(shares) ==
    {i \in DOMAIN shares : \A j \in 1..(i - 1) : shares[j].x # shares[i].x}

\* reconstructSeedFromShares: it stops at the t-th share it takes, and checks
\* no signature.
BoxRebuilds(shares) ==
    LET t == shares[1].t
        Taken(i) == Cardinality({j \in FirstOfTheirX(shares) : j <= i})
        read == {i \in DOMAIN shares : Taken(i - 1) < t}
        Bad(e) == Header(e) # Header(shares[1]) \/ ~e.active \/ Len(e.y) # Bytes
        points == [k \in 1..t |-> shares[CHOOSE i \in FirstOfTheirX(shares) : Taken(i) = k]]
    IN IF shares = <<>> THEN Fails("no_shares")
       ELSE IF \E i \in read : Bad(shares[i]) THEN Fails("bad_share")
       ELSE IF Taken(Len(shares)) < t THEN Fails("not_enough_distinct_points")
       ELSE Gives(Rebuild(points))

\* fetchHonestShares, asking the guardians that do not leak in the order of
\* their index: the first T - Len(leaked) of those that answer.
HonestShares(answering) ==
    LET asked == Ascend({g \in answering :
                     envs[1][g].active /\ envs[1][g].guardianIndex # 0})
        count == T - Len(leaked)
    IN [i \in 1..(IF Len(asked) < count THEN Len(asked) ELSE count) |-> envs[1][asked[i]]]

\* Sensitivity variant of OracleRoots: those of the honest shares as well.
OracleRootsOfAll(shares) == [i \in DOMAIN shares |-> shares[i].x]

\* debugCandidateRootsHex, of the shares /oracle works with.
OracleRoots(shares) == [i \in DOMAIN box |-> shares[i].x]

\* /oracle, with the loop of cmdTraceRun around it.  A query with a share that
\* does not fit its binding is refused and brings no roots.
Query(answering) ==
    /\ box # <<>> /\ verdict = NoVerdict
    /\ LET honest == HonestShares(answering)
           shares == box \o honest
           seen == OracleRoots(shares)
           new == Part(seen, {i \in DOMAIN seen : seen[i] \notin ToSet(roots)})
       IN
       /\ \A i \in DOMAIN honest : FitsBinding(honest[i])
       /\ roots' = roots \o new
       /\ okRoots' = IF BoxRebuilds(shares).ok THEN okRoots \cup ToSet(seen)
                                               ELSE okRoots
       /\ UNCHANGED <<sharesVars, leaked, box, verdict>>

\* Guardians whose key entry fits the root.
Owners(vk, root) == {g \in DOMAIN vk : vk[g] = Ui(root)}

AccusedBy(vk, rs) == UNION {Owners(vk, r) : r \in ToSet(rs)}

\* ttss_tverify_nits_shamir and verifyTrace.
TVerify(vk, accused, witness) ==
    /\ accused # <<>> /\ Len(accused) = Len(witness)
    /\ IsInjective(accused)
    /\ \A i \in DOMAIN accused : accused[i] \in DOMAIN vk /\ Ui(witness[i]) = vk[accused[i]]

Accusation(vk, accused, witness) ==
    [accused |-> accused, accepted |-> TVerify(vk, accused, witness)]

\* buildTraceResult: the accused are sorted, the witness roots are not.
ScriptResult(vk) ==
    Accusation(vk, Ascend(AccusedBy(vk, roots)),
               Part(roots, {i \in DOMAIN roots : Owners(vk, roots[i]) # {}}))

\* ttss_trace_nits_shamir: both are sorted, each by itself.
LibraryResult(vk) ==
    LET rs == Ascend(okRoots)
    IN Accusation(vk, Ascend(AccusedBy(vk, rs)), rs)

\* trace-verify, with the key set of the set-up.
Conclude ==
    /\ box # <<>> /\ verdict = NoVerdict
    /\ verdict' = [script |-> ScriptResult(VkEntries(deals[1])),
                   library |-> LibraryResult(VkEntries(deals[1]))]
    /\ UNCHANGED <<sharesVars, leaked, box, roots, okRoots>>

\* A recovery reads and writes nothing of the trace: it is taken without one.
Next ==
    \/ \E order \in LeakOrders : LoadBox(order)
    \/ \E answering \in SUBSET (Guardians \ ToSet(leaked)) : Query(answering)
    \/ Conclude
    \/ box = <<>> /\ Recover /\ UNCHANGED traceVars
    \/ Return /\ UNCHANGED traceVars
    \/ \E seed \in Seeds, rho \in UsableRhos, epoch \in Epochs :
          box = <<>> /\ ShareAgain(seed, rho, epoch) /\ UNCHANGED traceVars
    \/ \E d \in {1, 2}, g \in Guardians :
          (Invalidate(d, g) \/ Alter(d, g)) /\ UNCHANGED traceVars

Spec == Init /\ [][Next]_vars

-----------------------------------------------------------------------------

\* A box that is fed the envelopes of a recovery that works finds the same seed
\* (pirate_box.js reimplements ttss_nits_shamir.cpp), and it needs no more of
\* them when some are there twice.
BoxAgrees ==
    LET shares == Fetched(outcome.from)
        Twice == [i \in 1..(2 * Len(shares)) |-> shares[(i + 1) \div 2]]
    IN outcome.result.ok =>
          /\ BoxRebuilds(shares) = outcome.result
          /\ BoxRebuilds(Twice) = outcome.result

Ascending(s) == \A i, j \in DOMAIN s : i < j => s[i] < s[j]

\* What a trace concludes, with shares altered or withdrawn before or during
\* it.  Nobody is named but guardians that leaked, and an accepted
\* accusation names all of them.  The script's is accepted when some query
\* was answered and the leaks were named in order of index; the
\* library's when some query decrypted and the order of the leaked points
\* is the order of the guardians.
TraceBlamesLeakers ==
    LET vk == VkEntries(deals[1])
        Right(a, rs, order) ==
            /\ ToSet(a.accused) \subseteq ToSet(leaked)
            /\ a.accepted => ToSet(a.accused) = ToSet(leaked)
            /\ a.accepted <=> rs # {} /\ order
    IN verdict # NoVerdict =>
          /\ Right(verdict.script, ToSet(roots), Ascending(leaked))
          /\ Right(verdict.library, okRoots,
                   \A g, h \in ToSet(leaked) : g < h =>
                       deals[1].envelopes[g].x < deals[1].envelopes[h].x)
=============================================================================
