--------------------------- MODULE MCTransactions ---------------------------
(***************************************************************************)
(* Instances of Transactions for TLC: the transaction that creates an      *)
(* agreement and one that moves it on, recorded as they are or not.        *)
(***************************************************************************)
EXTENDS CacheSync, TLC

CONSTANTS x1, x2, a1, alice, bob

Creating == [sender |-> alice, function |-> "createAgreement", agreement |-> NoAgreement, creates |-> a1]
Depositing == [sender |-> bob, function |-> "deposit", agreement |-> a1, creates |-> NoAgreement]

CreateAndDeposit == (x1 :> Creating) @@ (x2 :> Depositing)
CreateOnly == x1 :> Creating

Said(wallet, function, agreement) ==
  [wallet |-> wallet, function |-> function, agreement |-> agreement]

TrueAndFalse ==
  {Said(alice, "createAgreement", NoAgreement), Said(alice, "deposit", a1)}

(* The requests in progress are interchangeable.                           *)
SymmetricWorkers == Permutations(Workers)
=============================================================================
