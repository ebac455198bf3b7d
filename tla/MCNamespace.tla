---------------------------- MODULE MCNamespace ----------------------------
EXTENDS Namespace

CONSTANTS a, b, aLong

\* Two names, and a third that is cut to the first.
ShortNames == {a, b}
LongNames == {a, b, aLong}
StoredShort == [n \in {a, b, Dot, DotDot} |-> n]
StoredLong == [n \in {a, b, aLong, Dot, DotDot} |-> IF n = aLong THEN a ELSE n]
=============================================================================
