--------------------------- MODULE MCThreatIntel ---------------------------
(* Small instances of ThreatIntel for TLC. *)
EXTENDS ThreatIntel, TLC

CONSTANTS i1, i2, i3, t1, t2

\* Two indicators share a text, the third has one of its own.
Texts3 == [i \in Indicators |-> IF i = i3 THEN t2 ELSE t1]

Item(i, c) == [indicator |-> i, confidence |-> c]

\* Three opinions of i1, so that of two upserts that have read the first one
\* the lower may be committed last; two of them come with another indicator.
FeedsMixed == {<<Item(i2, 1), Item(i1, 1)>>, <<Item(i1, 2)>>,
               <<Item(i1, 3), Item(i3, 1)>>}

\* An asset holds no indicator's text, or every one's.
Contents2 == {{}, {t1, t2}}

Symmetric == Permutations(Requests)
=============================================================================
