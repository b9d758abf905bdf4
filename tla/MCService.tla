----------------------------- MODULE MCService -----------------------------
(***************************************************************************)
(* Values for model-checking Service: two users, one window size, two      *)
(* lists of keys that cross the left and upper edge, and two requests.     *)
(***************************************************************************)
EXTENDS Service, TLC

MCUsernames == {"ann", "bob", ""}
MCRawNames == {"ann", "bob"}
MCSanitize == [n \in MCRawNames |-> n]
MCPayloads == {"password", "800x600", "left", "around", "tile", "nothing"}
MCKeys ==
  [d \in {"left", "around"} |->
     IF d = "left" THEN <<"A", "other">> ELSE <<"W", "D", "D", "S", "S">>]
MCRequests ==
  [d \in {"tile", "nothing"} |-> IF d = "tile" THEN <<"tile", "none">> ELSE <<>>]
MCBodies ==
  [k \in PacketKinds |->
     CASE k = "message" -> {"password"}
       [] k = "clientInfo" -> {"800x600"}
       [] k = "input" -> DOMAIN MCKeys
       [] k = "resource" -> DOMAIN MCRequests]

MCSymmetry == Permutations(Endpoints)

\* For two users: one input and one request; they are
\* authorized by their processes.
MCKeys2 ==
  [d \in {"left", "around"} |->
     IF d = "left" THEN <<"A", "other">> ELSE <<"W", "D", "D", "S", "W">>]
MCRequests2 == [d \in {"tile"} |-> <<"tile", "none">>]
MCBodies2 ==
  [k \in PacketKinds |->
     CASE k = "message" -> {}
       [] k = "clientInfo" -> {}
       [] k = "input" -> DOMAIN MCKeys2
       [] k = "resource" -> DOMAIN MCRequests2]
=============================================================================
