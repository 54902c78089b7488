---------------------------- MODULE MCSendStream ----------------------------
(* The finite instances of SendStream that TLC checks.                     *)
EXTENDS SendStream

\* The application does not produce without end: the unbounded numbers are
\* bounded by MaxMessages and MaxCalls, in the guards of the specification.
=============================================================================
