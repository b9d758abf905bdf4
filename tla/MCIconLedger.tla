---------------------------- MODULE MCIconLedger ----------------------------
(***************************************************************************)
(* Values for model-checking IconLedger: two users and the empty name,     *)
(* requests of up to two icons, of which two fit into a reply.             *)
(***************************************************************************)
EXTENDS IconLedger

MCUsernames == {"ann", "bob", ""}
MCHome == [u \in MCUsernames |-> CASE u = "ann" -> 1 [] u = "bob" -> 2 [] u = "" -> 3]
MCPayloads == {"both", "one", "nothing"}
MCRequests ==
  [d \in MCPayloads |->
     CASE d = "both" -> <<"player", "tile">> [] d = "one" -> <<"tile">>
       [] d = "nothing" -> <<>>]
=============================================================================
