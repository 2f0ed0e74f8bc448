------------------------------ MODULE MCPages ------------------------------
(***************************************************************************)
(* An instance of Pages for TLC: room for three tenants, and in every card *)
(* good values and odd ones, which a rule somewhere is about.  Forms with  *)
(* more than one odd value are made but not gone on from.                  *)
(***************************************************************************)
EXTENDS Pages, Integers

CONSTANTS alice, bob, rita, h1

NoProposals == {}

Good == [alias |-> "flat", addressFits |-> TRUE, leaseStart |-> 0, leaseEnd |-> 1,
         fundingDeadline |-> 1, claimDeadline |-> 2, settlementDeadline |-> 3]

Late == [Good EXCEPT !.leaseEnd = 2, !.fundingDeadline = 2, !.claimDeadline = 3, !.settlementDeadline = 4]

SomeBasics ==
  {Good, Late, [Late EXCEPT !.claimDeadline = 2], [Good EXCEPT !.fundingDeadline = 2],
   [Good EXCEPT !.leaseStart = 2], [Good EXCEPT !.alias = ""],
   [Good EXCEPT !.leaseStart = -1], [Good EXCEPT !.addressFits = FALSE]}

OddAmounts == TypedAmounts \ {1}

(* Bound: the fields with an odd value, by what and where they are.        *)
Odd ==
  LET rows == DOMAIN form.tenants
  IN  {<<"wallet", i>> : i \in {j \in rows : form.tenants[j].wallet \in {NoWallet, Garbage}}}
      \cup {<<"label", i>> : i \in {j \in rows : ~ form.tenants[j].labelFits}}
      \cup {<<"amount", i>> : i \in {j \in rows : form.tenants[j].amount \in OddAmounts}}
      \cup {<<"amount", 0>> : i \in {x \in OddAmounts : form.creatorAmount = x}}
      \cup {<<"wallet", 0>> : i \in {w \in {NoWallet, Garbage} : form.recipient = w}}
      \cup {<<"basics", 0>> : i \in {b \in SomeBasics \ {Good} : form.basics = b}}

OneOddity == Cardinality(Odd) <= 1
=============================================================================
