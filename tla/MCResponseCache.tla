--------------------------- MODULE MCResponseCache ---------------------------
EXTENDS ResponseCache, TLC

CONSTANTS t1, t2, plain, spaced, wide, hard, r1

\* "ls Doc", "ls    Doc" and "ls\tDoc" have one normal form.
WhitespaceNorm == plain :> plain @@ spaced :> plain @@ wide :> plain

\* The data file has an entry that is not in normal form.
WideEntry == <<[key |-> wide, data |-> hard]>>

NoEntries == <<>>
=============================================================================
