----------------------------- MODULE MCNetwork -----------------------------
(***************************************************************************)
(* Values for model-checking Network: two spellings of one user name, a    *)
(* second user, and a name of which sanitizing leaves nothing.             *)
(***************************************************************************)
EXTENDS Network

MCRawNames == {"ann", " ann ", "bob", "?!"}
MCUsernames == {"ann", "bob", ""}
MCSanitize ==
  [n \in MCRawNames |->
     CASE n \in {"ann", " ann "} -> "ann" [] n = "bob" -> "bob" [] n = "?!" -> ""]
MCBodies == [k \in PacketKinds |-> Payloads]
=============================================================================
