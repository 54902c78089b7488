---------------------------- MODULE OrderedPipe -----------------------------
(***************************************************************************)
(* What a stream's path between the application and the QUIC library       *)
(* promises, in either direction: messages come out in the order in which  *)
(* they went in and none comes out twice; any may be lost on the way, and  *)
(* one that is lost does not turn up again; nothing comes out once the     *)
(* path is over.  Batches, channels, cancelled calls and the vectors that  *)
(* go round do not appear here.                                            *)
(***************************************************************************)
EXTENDS Naturals, Sequences

VARIABLES
  made,      \* messages that have gone in, the n-th is n
  transit,   \* those on their way
  out,       \* those that have come out, in order
  over       \* will nothing come out any more?

vars == <<made, transit, out, over>>

Init == made = 0 /\ transit = {} /\ out = <<>> /\ over \in BOOLEAN

\* One goes in, or several behind each other.
Enter ==
  /\ made' \in Nat /\ made' > made
  /\ transit' = transit \cup (made + 1 .. made')
  /\ UNCHANGED <<out, over>>

\* What a step takes out at the end of the path.
Passed == SubSeq(out', Len(out) + 1, Len(out'))

\* Some come out, past those that are lost, and others may be lost behind them.
Leave ==
  /\ out' = out \o Passed
  /\ over => over' /\ Passed = <<>>
  /\ \A i, j \in DOMAIN Passed : i < j => Passed[i] < Passed[j]
  /\ \A i \in DOMAIN Passed :
       Passed[i] \in transit /\ \A m \in transit' : Passed[i] < m
  /\ transit' \subseteq transit
  /\ UNCHANGED made

Next == Enter \/ Leave

Spec == Init /\ [][Next]_vars
=============================================================================
