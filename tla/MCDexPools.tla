------------------------------ MODULE MCDexPools ------------------------------
EXTENDS DexPools
CuratedPool == {<<"eth", 2>>}
==============================================================================
