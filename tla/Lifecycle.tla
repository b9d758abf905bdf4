----------------------------- MODULE Lifecycle -----------------------------
(***************************************************************************)
(* What the server promises about one user name: it is taken by a client   *)
(* that connects, then that client is being decided on, and then it is     *)
(* authorized for good, unless it was blocked while being decided on,      *)
(* which frees the name.  One step moves one name.                         *)
(***************************************************************************)
CONSTANTS
  Usernames,     \* the names
  Blockable      \* those that may be blocked

VARIABLES
  phase,         \* how far the name has come
  running        \* whether the process is up

Phases == {"absent", "connecting", "deciding", "authorized"}

Moves(u, from, to) ==
  /\ running
  /\ phase[u] = from
  /\ phase' = [phase EXCEPT ![u] = to]
  /\ UNCHANGED running

Init ==
  /\ phase = [u \in Usernames |-> "absent"]
  /\ running = TRUE

Stop ==
  /\ running' = FALSE
  /\ UNCHANGED phase

Next ==
  \/ \E u \in Usernames : \/ Moves(u, "absent", "connecting")
                          \/ Moves(u, "connecting", "deciding")
                          \/ Moves(u, "deciding", "authorized")
  \/ \E u \in Blockable : Moves(u, "deciding", "absent")
  \/ Stop

Spec == Init /\ [][Next]_<<phase, running>>
=============================================================================
