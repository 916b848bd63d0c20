----------------------------- MODULE MCTtssFlow -----------------------------
EXTENDS TtssFlow

MCNodes == 1..3
MCSeeds == 1..3
=============================================================================
