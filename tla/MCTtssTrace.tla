---------------------------- MODULE MCTtssTrace ----------------------------
\* Four guardians of whom three recover a seed of two chunks of two bits: the
\* prime is 5, and a share is two values of three bits in three bytes of two.
EXTENDS TtssTrace

MCSeeds == {<<0, 3>>, <<2, 1>>}

\* In the first, the points are in the order of the guardians and the second
\* has to try twice; in the second they are in another order; the third
\* runs out of candidates for the last guardian and is never dealt.
MCRhos == {[coeff |-> <<<<1, 0>>, <<4, 3>>>>, x |-> <<<<4>>, <<0, 1>>, <<2>>, <<3>>>>],
           [coeff |-> <<<<2, 2>>, <<0, 1>>>>, x |-> <<<<3>>, <<1>>, <<3, 2>>, <<0>>>>],
           [coeff |-> <<<<0, 1>>, <<3, 0>>>>, x |-> <<<<0>>, <<1>>, <<2>>, <<0, 4>>>>]}
============================================================================
