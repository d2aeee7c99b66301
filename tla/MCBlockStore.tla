---------------------------- MODULE MCBlockStore ----------------------------
EXTENDS BlockStore

\* Two hashes of two bytes, which differ in the first.
MCHashes == {<<1, 0>>, <<2, 0>>}

=============================================================================
