-------------------------- MODULE MCProviderRegistry --------------------------
EXTENDS ProviderRegistry

CONSTANTS p1, p2, k1, k2
=============================================================================
