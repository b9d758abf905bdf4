------------------------------- MODULE Sieve -------------------------------
(***************************************************************************)
(* The elements of a list that are in a set, in the order of the list.     *)
(* This is SelectSeq for a test that is a set, as a loop over the list, so *)
(* that proofs can follow the loop.                                        *)
(***************************************************************************)
EXTENDS Naturals, Sequences

Kept(s, S) ==
  LET kept[n \in 0 .. Len(s)] ==
        IF n = 0 THEN <<>>
        ELSE IF s[n] \in S THEN Append(kept[n - 1], s[n]) ELSE kept[n - 1]
  IN  kept[Len(s)]
=============================================================================
