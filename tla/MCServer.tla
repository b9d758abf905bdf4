------------------------------ MODULE MCServer ------------------------------
(***************************************************************************)
(* Values for model-checking Server: two users.                            *)
(***************************************************************************)
EXTENDS Server

MCUsernames == {"ann", "bob", ""}
MCRawNames == {"ann", "bob"}
MCSanitize == [n \in MCRawNames |-> n]
MCPayloads == {"password", "hello", "800x600"}
MCBodies ==
  [k \in PacketKinds |->
     IF k = "message" THEN {"password", "hello"} ELSE {"800x600"}]
=============================================================================
