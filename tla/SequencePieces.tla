--------------------------- MODULE SequencePieces ---------------------------
(* Vectors that are drained from the front, and numbered messages in them.  *)
EXTENDS Naturals, Sequences

Least(a, b) == IF a < b THEN a ELSE b

\* The first n elements, or all there are, and those after them.
First(s, n) == SubSeq(s, 1, Least(n, Len(s)))
After(s, n) == SubSeq(s, n + 1, Len(s))

Elements(s) == {s[i] : i \in DOMAIN s}

Increasing(s) == \A i, j \in DOMAIN s : i < j => s[i] < s[j]

\* All messages of s were made before those of t.
Before(s, t) == \A m \in Elements(s), n \in Elements(t) : m < n
=============================================================================
