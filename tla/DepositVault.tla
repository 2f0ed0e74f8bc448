---------------------------- MODULE DepositVault ----------------------------
(***************************************************************************)
(* What the escrow promises about money, whatever its claims, votes and    *)
(* deadlines do.  Every agreement holds a stake per wallet.  A tenant's    *)
(* stake grows only by paying in, shrinks only by paying that wallet out,  *)
(* and cannot move at all while the agreement is locked.  Settling moves   *)
(* stakes once, from the other wallets to the agreement's payee only, and  *)
(* neither makes nor loses a wei.  SharedDepositEscrow implements it.      *)
(***************************************************************************)
EXTENDS Integers, FiniteSets, Functions

CONSTANTS
  Agreements,   (* a finite set                                            *)
  Wallets,      (* a finite set                                            *)
  NoWallet,
  Amounts       (* the amounts, natural numbers                            *)

VARIABLES
  phase,    (* agreement -> unused, collecting, locked or released         *)
  payee,    (* agreement -> the wallet that settling may favour            *)
  stake,    (* agreement -> wallet -> what the vault holds for it          *)
  custody   (* the vault's money                                           *)

vaultVars == <<phase, payee, stake, custody>>

VaultInit ==
  /\ phase = [a \in Agreements |-> "unused"]
  /\ payee = [a \in Agreements |-> NoWallet]
  /\ stake = [a \in Agreements |-> [w \in Wallets |-> 0]]
  /\ custody = 0

Open(a, w) ==
  /\ phase[a] = "unused"
  /\ phase' = [phase EXCEPT ![a] = "collecting"]
  /\ payee' = [payee EXCEPT ![a] = w]
  /\ UNCHANGED <<stake, custody>>

(* The last payment may lock the agreement in the same step.               *)
PayIn(a, w, x, next) ==
  /\ phase[a] = "collecting"
  /\ w # payee[a]
  /\ x > 0
  /\ next \in {"collecting", "locked"}
  /\ phase' = [phase EXCEPT ![a] = next]
  /\ stake' = [stake EXCEPT ![a][w] = @ + x]
  /\ custody' = custody + x
  /\ UNCHANGED payee

Lock(a) ==
  /\ phase[a] = "collecting"
  /\ phase' = [phase EXCEPT ![a] = "locked"]
  /\ UNCHANGED <<payee, stake, custody>>

PayOut(a, w, x) ==
  /\ phase[a] \in {"collecting", "released"}
  /\ x > 0
  /\ x <= stake[a][w]
  /\ phase[a] = "released" => x = stake[a][w]
  /\ stake' = [stake EXCEPT ![a][w] = @ - x]
  /\ custody' = custody - x
  /\ UNCHANGED <<phase, payee>>

(* Cancelled before it was locked: everybody may take its own stake back.  *)
Release(a) ==
  /\ phase[a] = "collecting"
  /\ phase' = [phase EXCEPT ![a] = "released"]
  /\ UNCHANGED <<payee, stake, custody>>

Settle(a) ==
  /\ phase[a] = "locked"
  /\ phase' = [phase EXCEPT ![a] = "released"]
  /\ \E settled \in [Wallets -> Amounts] :
       /\ SumFunction(settled) = SumFunction(stake[a])
       /\ \A w \in Wallets : w # payee[a] => settled[w] <= stake[a][w]
       /\ stake' = [stake EXCEPT ![a] = settled]
  /\ UNCHANGED <<payee, custody>>

VaultNext ==
  \E a \in Agreements :
    \/ \E w \in Wallets : Open(a, w)
    \/ \E w \in Wallets, x \in Amounts, next \in {"collecting", "locked"} :
         PayIn(a, w, x, next)
    \/ Lock(a)
    \/ \E w \in Wallets, x \in Amounts : PayOut(a, w, x)
    \/ Release(a)
    \/ Settle(a)

VaultSpec == VaultInit /\ [][VaultNext]_vaultVars

-----------------------------------------------------------------------------
(* The vault holds exactly what it owes.                                   *)
Balanced ==
  custody = SumFunction([a \in Agreements |-> SumFunction(stake[a])])
=============================================================================
