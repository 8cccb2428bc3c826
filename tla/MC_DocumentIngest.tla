------------------------- MODULE MC_DocumentIngest -------------------------
EXTENDS DocumentIngest, TLC
WorkerSymmetry == Permutations(Workers)
DocSymmetry == Permutations(Docs)
OneText == {<<"a">>}
Short == {<<"a">>, <<"b">>, <<"a", "b">>}
============================================================================
