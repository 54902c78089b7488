-------------------------- MODULE MCQuicConnection --------------------------
(* The finite instances of QuicConnection that TLC checks.                 *)
EXTENDS QuicConnection, TLC

CONSTANTS s1, s2, s3, a1, a2, a3

\* Attempts are interchangeable, and so are the streams of one kind.
Symmetry == Permutations(Attempts)
=============================================================================
