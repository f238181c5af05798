------------------------------ MODULE Funding -------------------------------
(***************************************************************************)
(* How a transaction is paid for: coin selection (select_utxos) and the    *)
(* builders of ktcs-core, for the four callers of the program.             *)
(*   calendar  all coins of the STAMP wallet, TransactionBuilder of        *)
(*             tx_builder.rs                                               *)
(*   recycle   all coins of the RETURN wallet, TransferTransactionBuilder  *)
(*   browser   coins selected for the burn, the same TransactionBuilder    *)
(*   cli       coins selected for nothing but the fee, the                 *)
(*             TransactionBuilder of tx.rs                                 *)
(* A step takes one coin, which is one turn of the selection's loop or of  *)
(* the builder's sum.  The checked arithmetic of tx_builder.rs fails above *)
(* MaxU64; tx.rs does not check, but its rate is fixed and its amounts are *)
(* coins on chain, so that its sums stay below 2^64.                       *)
(***************************************************************************)
EXTENDS Integers, FiniteSets, FiniteSetsExt

CONSTANTS
  Utxos,                \* the coins a wallet may have
  Amounts,              \* what a coin may be worth
  Rates,                \* fee_per_gram as the calendar is configured
  ClientRate,           \* fee_per_gram of the browser and the command line
  MaxU64,               \* the largest u64
  BaseMass, InputMass, OutputMass,
  CommitmentOutputMass, \* tx.rs has a mass of its own for the commitment
  Burn,                 \* COMMITMENT_BURN_AMOUNT
  Dust                  \* DUST_THRESHOLD

ASSUME FundingAssumption ==
  /\ IsFiniteSet(Utxos)
  /\ Amounts \subseteq Nat \ {0} /\ Rates \subseteq Nat
  /\ {ClientRate, BaseMass, InputMass, OutputMass, CommitmentOutputMass, Dust} \subseteq Nat \ {0}
  /\ MaxU64 \in Nat
  /\ Burn \in Nat /\ Burn >= Dust
  /\ CommitmentOutputMass >= OutputMass

VARIABLES
  caller,   \* who builds
  rate,     \* fee_per_gram
  amount,   \* what each coin is worth
  coins,    \* the wallet's coins
  taken,    \* the coins taken so far
  total,    \* their sum, as the code keeps it
  phase,    \* select, gather, build, built, failed
  tx        \* the transaction

vars == <<caller, rate, amount, coins, taken, total, phase, tx>>

Callers == {"calendar", "recycle", "browser", "cli"}
Selecting == {"browser", "cli"}

NoTx == [total_input |-> 0, burn |-> 0, change |-> 0, fee |-> 0]

Init ==
  /\ caller \in Callers
  /\ rate \in (IF caller \in Selecting THEN {ClientRate} ELSE Rates)
  /\ amount \in [Utxos -> Amounts]
  /\ coins \in SUBSET Utxos
  /\ taken = {} /\ total = 0
  /\ phase = (IF coins = {} THEN "failed"
              ELSE IF caller \in Selecting THEN "select" ELSE "gather")
  /\ tx = NoTx

-----------------------------------------------------------------------------
(* Mass and fee *)

Mass(inputs, outputs) == BaseMass + InputMass * inputs + OutputMass * outputs

(* The mass that tx.rs computes, always for commitment and change.         *)
MassWithCommitment(inputs) ==
  BaseMass + InputMass * inputs + OutputMass + CommitmentOutputMass

(* fee_per_gram is raised to MIN_FEE_PER_GRAM by the builders only.        *)
BuildRate == IF rate = 0 THEN 1 ELSE rate

(* A checked sum of tx_builder.rs, or any sum of tx.rs.                    *)
Fits(value) == caller = "cli" \/ value <= MaxU64

-----------------------------------------------------------------------------
(* Selection *)

(* The amount to cover besides the fee.  The slip is what the command line *)
(* does, with the comment that no more is needed.                          *)
TargetNothing == 0
Target == IF caller = "cli" THEN 0 ELSE Burn

SelectionFee(inputs) ==
  rate * (IF caller = "cli" THEN MassWithCommitment(inputs) ELSE Mass(inputs, 2))

Covers(sum, inputs) == sum >= Target + SelectionFee(inputs)

Largest(coin) == \A other \in coins \ taken : amount[other] <= amount[coin]

AfterTaking(sum, now) ==
  IF ~Fits(sum) \/ ~Fits(Target + SelectionFee(Cardinality(now))) THEN "failed"
  ELSE IF Covers(sum, Cardinality(now)) THEN "build"
  ELSE IF now = coins THEN "failed" ELSE "select"

(* The next coin of the list sorted by amount. *)
SelectUtxo(coin) ==
  /\ phase = "select"
  /\ coin \in coins \ taken /\ Largest(coin)
  /\ taken' = taken \cup {coin}
  /\ total' = total + amount[coin]
  /\ phase' = AfterTaking(total', taken')
  /\ UNCHANGED <<caller, rate, amount, coins, tx>>

(* The builders' checked sum over all coins, where none were selected.     *)
SumInput(coin) ==
  /\ phase = "gather"
  /\ coin \in coins \ taken
  /\ taken' = taken \cup {coin}
  /\ total' = total + amount[coin]
  /\ phase' = (IF ~Fits(total') THEN "failed" ELSE IF taken' = coins THEN "build" ELSE "gather")
  /\ UNCHANGED <<caller, rate, amount, coins, tx>>

-----------------------------------------------------------------------------
(* The builders: a transaction, or NoTx for an error *)

(* Change below the dust threshold goes to the fee.  The slip forgets to   *)
(* say so in the fee.                                                      *)
AbsorbDustSilently(rest, fee) ==
  [total_input |-> total, burn |-> Burn, change |-> IF rest < Dust THEN 0 ELSE rest, fee |-> fee]
AbsorbDust(rest, fee) ==
  IF rest < Dust
    THEN [total_input |-> total, burn |-> Burn, change |-> 0, fee |-> fee + rest]
    ELSE [total_input |-> total, burn |-> Burn, change |-> rest, fee |-> fee]

FeeFor(inputs, outputs) == BuildRate * Mass(inputs, outputs)

(* Whether there is change is decided with the fee for two outputs.  The   *)
(* slip never reckons with change.                                         *)
HasChangeNever(inputs) == FALSE
HasChange(inputs) == total - (FeeFor(inputs, 2) + Burn) >= Dust

(* tx_builder.rs; the second fee never exceeds the first, so one check of  *)
(* the sums is enough.                                                     *)
BuildCommitment(inputs) ==
  LET fee == FeeFor(inputs, IF HasChange(inputs) THEN 2 ELSE 1)
  IN  IF Fits(FeeFor(inputs, 2) + Burn) /\ total >= fee + Burn
        THEN AbsorbDust(total - (fee + Burn), fee) ELSE NoTx

(* tx.rs: change below the dust threshold is an error.                     *)
BuildDirect(inputs) ==
  LET fee == BuildRate * MassWithCommitment(inputs)
      rest == total - (fee + Burn)
  IN  IF rest = 0 \/ rest >= Dust
        THEN [total_input |-> total, burn |-> Burn, change |-> rest, fee |-> fee] ELSE NoTx

(* All but the fee is sent, and must not be dust.                          *)
BuildTransfer(inputs) ==
  LET fee == FeeFor(inputs, 1)
  IN  IF Fits(fee) /\ total > fee /\ total - fee >= Dust
        THEN [total_input |-> total, burn |-> 0, change |-> total - fee, fee |-> fee] ELSE NoTx

Built(inputs) ==
  CASE caller = "cli" -> BuildDirect(inputs)
    [] caller = "recycle" -> BuildTransfer(inputs)
    [] OTHER -> BuildCommitment(inputs)

Build ==
  /\ phase = "build"
  /\ tx' = Built(Cardinality(taken))
  /\ phase' = (IF tx' = NoTx THEN "failed" ELSE "built")
  /\ UNCHANGED <<caller, rate, amount, coins, taken, total>>

-----------------------------------------------------------------------------

Next ==
  \/ \E coin \in Utxos : SelectUtxo(coin) \/ SumInput(coin)
  \/ Build

Spec == Init /\ [][Next]_vars

-----------------------------------------------------------------------------

(* Type invariant; the sum is that of the coins taken. *)
TypeOK ==
  /\ caller \in Callers /\ rate \in Rates \cup {ClientRate}
  /\ amount \in [Utxos -> Amounts]
  /\ coins \subseteq Utxos /\ taken \subseteq coins
  /\ total \in Nat
  /\ phase \in {"select", "gather", "build", "built", "failed"}
  /\ tx \in [total_input : Nat, burn : Nat, change : Nat, fee : Nat]

(* What a built transaction takes in, it pays out or leaves to the fee it  *)
(* reports, and no output is dust: absorbing dust neither loses nor makes  *)
(* money, with whichever builder.                                          *)
Balanced ==
  phase = "built" =>
    /\ tx.total_input = tx.burn + tx.change + tx.fee
    /\ tx.burn = 0 \/ tx.burn >= Dust
    /\ tx.change = 0 \/ tx.change >= Dust

(* The calendar and the browser fail only for want of money: a wallet that *)
(* can pay for the burn and for a transaction that spends all its coins is *)
(* not refused, whatever coins the selection stops at.                     *)
AffordableIsBuilt ==
  (phase = "failed" /\ caller \in {"calendar", "browser"}) =>
    \/ taken = coins /\ total < Burn + FeeFor(Cardinality(coins), 2)
    \/ ~Fits(total) \/ ~Fits(Burn + FeeFor(Cardinality(taken), 2))

Outputs == (IF tx.burn > 0 THEN 1 ELSE 0) + (IF tx.change > 0 THEN 1 ELSE 0)

(* The fee pays for the mass the transaction has, but where the change is  *)
(* less than an output's fee above the threshold: there the fee was        *)
(* computed without the change output, which falls short by that much.     *)
FeeShortByOneOutput ==
  phase = "built" =>
    LET mass == Mass(Cardinality(taken), Outputs)
    IN  \/ tx.fee >= BuildRate * mass
        \/ /\ tx.fee >= BuildRate * (mass - OutputMass)
           /\ tx.change < Dust + BuildRate * OutputMass

=============================================================================
