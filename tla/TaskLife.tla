------------------------------ MODULE TaskLife ------------------------------
(***************************************************************************)
(* What the orchestrator promises to the tasks of connections and streams, *)
(* and what those tasks take for granted (the actions Dispatch,            *)
(* DispatchDrop and Reap of their modules): a task is refused at once,     *)
(* dropped on its way, or it comes to one worker, which polls it until it  *)
(* says it is finished, then lets go of it and never polls it again.       *)
(***************************************************************************)
CONSTANT Tasks

VARIABLE phase

Init == phase = [t \in Tasks |-> "new"]

Steps == {<<"new", "refused">>, <<"new", "queued">>,     \* push_*
          <<"queued", "run">>, <<"queued", "dropped">>,  \* the dispatcher
          <<"run", "done">>,                             \* a poll
          <<"done", "gone">>}                            \* swap_remove

\* A worker may take several tasks at once.
Next == \A t \in Tasks : phase'[t] = phase[t] \/ <<phase[t], phase'[t]>> \in Steps

\* What never happens to a task.
Lives == Init /\ [][Next]_phase

\* Neither the way to a worker nor the removal takes for ever.
Settles ==
  \A t \in Tasks : /\ phase[t] = "queued" ~> phase[t] # "queued"
                   /\ phase[t] = "done" ~> phase[t] = "gone"

Spec == Lives /\ Settles
=============================================================================
