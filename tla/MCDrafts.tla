------------------------------ MODULE MCDrafts ------------------------------
(***************************************************************************)
(* An instance of DraftPage for TLC: two sets of terms of one creator that *)
(* differ in what a tenant pays, and agreements that anybody creates with  *)
(* them, or with the hash of one and the arguments of the other.           *)
(***************************************************************************)
EXTENDS DraftPage, TLC

CONSTANTS alice, bob, rita

TermsA == [creator |-> alice, recipient |-> rita, roster |-> << <<alice, 1>>, <<bob, 1>> >>]
TermsB == [creator |-> alice, recipient |-> rita, roster |-> << <<alice, 2>>, <<bob, 1>> >>]

TwoTerms == {TermsA, TermsB}

Created(terms, creator, hash) ==
  [creator |-> creator, recipient |-> terms.recipient, hash |-> hash, roster |-> terms.roster]

SomeCreations ==
  {Created(TermsA, bob, TermsA), Created(TermsA, alice, TermsB)}

(* Requests, drafts and transactions are only told apart by what they do.  *)
Interchangeable == Permutations(Workers) \cup Permutations(DraftIds) \cup Permutations(Txs)
=============================================================================
