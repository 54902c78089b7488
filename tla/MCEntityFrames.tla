--------------------------- MODULE MCEntityFrames ---------------------------
(* The finite instances of EntityFrames that TLC checks.                   *)
EXTENDS EntityFrames

=============================================================================
