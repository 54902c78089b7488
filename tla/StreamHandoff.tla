--------------------------- MODULE StreamHandoff ----------------------------
(***************************************************************************)
(* What a connection promises about the streams its peer opens, whatever   *)
(* accept method the application uses: each is handed to at most one       *)
(* attempt, each attempt gets at most one, at most one is held back while  *)
(* it waits to be asked for, and none is lost but the one that is held     *)
(* when the connection's task is over.                                     *)
(***************************************************************************)
CONSTANTS Streams, Attempts

VARIABLES
  opened,    \* streams the peer has opened
  waiting,   \* those nobody has looked at
  held,      \* those taken in and not yet asked for
  given,     \* pairs of a stream and the attempt it went to
  over       \* is the connection's task over?

vars == <<opened, waiting, held, given, over>>

Init ==
  /\ opened = {} /\ waiting = {} /\ held = {} /\ given = {}
  /\ over \in BOOLEAN

Open(s) ==
  /\ s \notin opened
  /\ opened' = opened \cup {s} /\ waiting' = waiting \cup {s}
  /\ UNCHANGED <<held, given, over>>

Hold(s) ==
  /\ ~over /\ s \in waiting /\ held = {}
  /\ held' = {s} /\ waiting' = waiting \ {s}
  /\ UNCHANGED <<opened, given, over>>

Give(s, a) ==
  /\ ~over /\ s \in waiting \cup held
  /\ \A pair \in given : pair[2] # a
  /\ given' = given \cup {<<s, a>>}
  /\ waiting' = waiting \ {s} /\ held' = held \ {s}
  /\ UNCHANGED <<opened, over>>

End ==
  /\ ~over /\ over' = TRUE
  /\ held' = {}
  /\ UNCHANGED <<opened, waiting, given>>

Next ==
  \/ \E s \in Streams : Open(s) \/ Hold(s) \/ \E a \in Attempts : Give(s, a)
  \/ End

Spec == Init /\ [][Next]_vars
=============================================================================
