-------------------------- MODULE MCEndlessReceive --------------------------
(* The finite instances of EndlessReceive that TLC checks.                 *)
EXTENDS EndlessReceive

=============================================================================
