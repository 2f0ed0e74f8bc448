----------------------------- MODULE MCSessions -----------------------------
(***************************************************************************)
(* An instance of Sessions for TLC: two tabs, two accounts of one wallet.  *)
(***************************************************************************)
EXTENDS Sessions, TLC

CONSTANTS w1, w2, tab1, tab2

UnderWay(t) == {slot \in Slots : calls[t][slot] # NoCall}

(* Bound: two calls of one tab go on at once in its first page, before a   *)
(* second tab is loaded, a second nonce issued or the wallet switched, and *)
(* with no request abandoned by then.  What comes after is free, a reload  *)
(* in the middle of the two included.                                      *)
OverlapsEarly ==
  \A t \in Tabs :
    \/ Cardinality(UnderWay(t)) <= 1
    \/ loads = 1 /\ Len(nonces) <= 1 /\ switches = 0 /\ abandoned = EmptyBag

Interchangeable == Permutations(Wallets) \cup Permutations(Tabs)
=============================================================================
