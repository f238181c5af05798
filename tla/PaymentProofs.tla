--------------------------- MODULE PaymentProofs ----------------------------
(***************************************************************************)
(* Proofs about modules Funding and Payment, for any wallet, any amounts,  *)
(* any rates and any keys.                                                 *)
(***************************************************************************)
EXTENDS Payment, FiniteSetTheorems, SequenceTheorems, WellFoundedInduction, TLAPS


(* What the code knows when it starts to build: a selection has covered    *)
(* its target, a sum over all coins has taken them all.                    *)
ReadyToBuild ==
  /\ phase = "select" => caller \in Selecting
  /\ phase = "gather" => caller \notin Selecting
  /\ phase = "build" => Fits(total)
  /\ phase = "build" /\ caller = "calendar" => taken = coins
  /\ caller \in Selecting => rate = ClientRate
  /\ phase = "build" /\ caller = "browser" =>
       /\ total >= Burn + rate * Mass(Cardinality(taken), 2)
       /\ Fits(Burn + rate * Mass(Cardinality(taken), 2))

IInv == TypeOK /\ ReadyToBuild /\ Balanced /\ AffordableIsBuilt /\ FeeShortByOneOutput

-----------------------------------------------------------------------------

(* Masses and fees are natural numbers, whatever the number of inputs.     *)
LEMMA FeeType ==
  ASSUME NEW inputs \in Nat, rate \in Nat
  PROVE  /\ \A outputs \in Nat : Mass(inputs, outputs) \in Nat
         /\ MassWithCommitment(inputs) \in Nat
         /\ BuildRate \in Nat \ {0}
         /\ FeeFor(inputs, 1) \in Nat /\ FeeFor(inputs, 2) \in Nat
         /\ BuildRate * OutputMass \in Nat
         /\ BuildRate * MassWithCommitment(inputs) \in Nat
         /\ rate * Mass(inputs, 2) \in Nat
         /\ rate * MassWithCommitment(inputs) \in Nat
<1> USE FundingAssumption
<1>0. \A a \in Nat, b \in Nat : a * b \in Nat
  OBVIOUS
<1>1. /\ \A outputs \in Nat : Mass(inputs, outputs) \in Nat
      /\ MassWithCommitment(inputs) \in Nat
  <2>1. InputMass * inputs \in Nat /\ \A outputs \in Nat : OutputMass * outputs \in Nat
    BY <1>0
  <2> QED
    BY <2>1 DEF Mass, MassWithCommitment
<1>2. BuildRate \in Nat \ {0}
  BY DEF BuildRate
<1>3. Mass(inputs, 1) \in Nat /\ Mass(inputs, 2) \in Nat
  BY <1>1
<1> QED
  BY <1>0, <1>1, <1>2, <1>3 DEF FeeFor

(* An output more costs its mass times the rate.                           *)
LEMMA FeeOfOutput ==
  ASSUME NEW inputs \in Nat, rate \in Nat
  PROVE  /\ FeeFor(inputs, 2) = FeeFor(inputs, 1) + BuildRate * OutputMass
         /\ BuildRate * (Mass(inputs, 2) - OutputMass) = FeeFor(inputs, 1)
         /\ BuildRate * (Mass(inputs, 1) - OutputMass) = FeeFor(inputs, 1) - BuildRate * OutputMass
         /\ BuildRate * MassWithCommitment(inputs) >= FeeFor(inputs, 2)
<1> USE FundingAssumption
<1>1. BuildRate \in Nat /\ Mass(inputs, 1) \in Nat /\ Mass(inputs, 2) \in Nat
      /\ MassWithCommitment(inputs) \in Nat
  BY FeeType
<1>2. /\ Mass(inputs, 2) = Mass(inputs, 1) + OutputMass
      /\ MassWithCommitment(inputs) = Mass(inputs, 2) + (CommitmentOutputMass - OutputMass)
  <2>1. InputMass * inputs \in Nat
    OBVIOUS
  <2> QED
    BY <2>1 DEF Mass, MassWithCommitment
<1>3. \A r \in Nat, a \in Int, b \in Int : r * (a + b) = r * a + r * b /\ r * (a - b) = r * a - r * b
  OBVIOUS
<1>4. BuildRate * (CommitmentOutputMass - OutputMass) \in Nat
  <2>1. CommitmentOutputMass - OutputMass \in Nat
    OBVIOUS
  <2> QED
    BY <1>1, <2>1
<1>5. BuildRate * (Mass(inputs, 1) + OutputMass) = BuildRate * Mass(inputs, 1) + BuildRate * OutputMass
  BY <1>1, <1>3
<1>6. Mass(inputs, 2) - OutputMass = Mass(inputs, 1)
  BY <1>1, <1>2
<1>7. BuildRate * (Mass(inputs, 1) - OutputMass) = BuildRate * Mass(inputs, 1) - BuildRate * OutputMass
  BY <1>1, <1>3
<1>8. BuildRate * (Mass(inputs, 2) + (CommitmentOutputMass - OutputMass))
        = BuildRate * Mass(inputs, 2) + BuildRate * (CommitmentOutputMass - OutputMass)
  BY <1>1, <1>3
<1>9. BuildRate * Mass(inputs, 2) \in Nat
  BY <1>1
<1> QED
  BY <1>1, <1>2, <1>4, <1>5, <1>6, <1>7, <1>8, <1>9 DEF FeeFor

-----------------------------------------------------------------------------

(* Nothing is built initially, and a wallet without coins has no money.    *)
LEMMA InitIInv == Init => IInv
<1> SUFFICES ASSUME Init PROVE IInv
  OBVIOUS
<1> USE FundingAssumption
<1>1. rate \in Nat /\ phase \in {"select", "gather", "failed"} /\ tx = NoTx
  BY DEF Init
<1>2. TypeOK
  BY <1>1 DEF Init, TypeOK, NoTx
<1>3. ReadyToBuild /\ Balanced /\ FeeShortByOneOutput
  BY <1>1 DEF Init, ReadyToBuild, Balanced, FeeShortByOneOutput, Selecting
<1>4. AffordableIsBuilt
  <2> SUFFICES ASSUME phase = "failed"
               PROVE  taken = coins /\ total < Burn + FeeFor(Cardinality(coins), 2)
    BY DEF AffordableIsBuilt
  <2>1. coins = {} /\ taken = {} /\ total = 0
    BY DEF Init
  <2>2. FeeFor(Cardinality(coins), 2) \in Nat
    BY <1>1, <2>1, FS_EmptySet, FeeType
  <2> QED
    BY <2>1, <2>2
<1> QED
  BY <1>2, <1>3, <1>4 DEF IInv

(* Taking a coin keeps the types, and the number of coins taken a number.  *)
LEMMA TakeType ==
  ASSUME TypeOK, NEW coin \in coins \ taken,
         taken' = taken \cup {coin}, total' = total + amount[coin]
  PROVE  total' \in Nat /\ taken' \subseteq coins /\ Cardinality(taken') \in Nat
<1> USE FundingAssumption DEF TypeOK
<1>1. taken' \subseteq coins /\ amount[coin] \in Nat /\ total \in Nat
  OBVIOUS
<1>2. IsFiniteSet(taken')
  BY <1>1, FS_Subset
<1>3. Cardinality(taken') \in Nat
  BY <1>2, FS_CardinalityType
<1>4. total' \in Nat
  BY <1>1
<1> QED
  BY <1>1, <1>3, <1>4

(* The selection stops at coins that cover their target, or for want of    *)
(* coins; the other callers stop at the last coin.                         *)
LEMMA TakeIInv ==
  ASSUME IInv, NEW coin \in Utxos, SelectUtxo(coin) \/ SumInput(coin)
  PROVE  IInv'
<1> USE FundingAssumption
<1> DEFINE n == Cardinality(taken')
<1>1. /\ coin \in coins \ taken /\ taken' = taken \cup {coin} /\ total' = total + amount[coin]
      /\ UNCHANGED <<caller, rate, amount, coins, tx>>
      /\ phase \in {"select", "gather"}
  BY DEF SelectUtxo, SumInput
<1>2. TypeOK
  BY DEF IInv
<1>3. total' \in Nat /\ taken' \subseteq coins /\ n \in Nat
  BY <1>1, <1>2, TakeType
<1>4. phase' \in {"select", "gather", "build", "failed"}
  BY DEF SelectUtxo, SumInput, AfterTaking
<1>5. TypeOK'
  BY <1>1, <1>2, <1>3, <1>4 DEF TypeOK
<1>6. Balanced' /\ FeeShortByOneOutput'
  BY <1>4 DEF Balanced, FeeShortByOneOutput
<1>7. /\ (caller \in Selecting => rate = ClientRate) /\ rate \in Nat
      /\ (phase = "select" => caller \in Selecting)
      /\ (phase = "gather" => caller \notin Selecting)
  BY <1>2 DEF IInv, TypeOK, ReadyToBuild
<1>8. /\ rate * Mass(n, 2) \in Nat /\ rate * MassWithCommitment(n) \in Nat
      /\ FeeFor(n, 2) \in Nat
  BY <1>3, <1>7, FeeType
<1>9. ReadyToBuild' /\ AffordableIsBuilt'
  <2>1. ASSUME SelectUtxo(coin) PROVE ReadyToBuild' /\ AffordableIsBuilt'
    <3>1. phase' = AfterTaking(total', taken') /\ caller \in {"browser", "cli"}
      BY <2>1, <1>7 DEF SelectUtxo, Selecting
    <3>2. ASSUME caller = "browser"
          PROVE  /\ Target = Burn /\ SelectionFee(n) = rate * Mass(n, 2)
                 /\ FeeFor(n, 2) = rate * Mass(n, 2) /\ rate = ClientRate
      BY <3>2, <1>7 DEF Target, SelectionFee, FeeFor, BuildRate, Selecting
    <3>3. ReadyToBuild'
      BY <1>1, <1>3, <1>7, <1>8, <3>1, <3>2
      DEF ReadyToBuild, AfterTaking, Covers, Selecting, Fits, Mass
    <3>4. AffordableIsBuilt'
      <4> SUFFICES ASSUME phase' = "failed", caller = "browser"
                   PROVE  \/ taken' = coins /\ total' < Burn + FeeFor(n, 2)
                          \/ ~(total' <= MaxU64) \/ ~(Burn + FeeFor(n, 2) <= MaxU64)
        BY <1>1, <3>1 DEF AffordableIsBuilt, Fits, FeeFor, Mass, BuildRate
      <4> QED
        BY <1>3, <1>8, <3>1, <3>2 DEF AfterTaking, Covers, Fits
    <3> QED
      BY <3>3, <3>4
  <2>2. ASSUME SumInput(coin) PROVE ReadyToBuild' /\ AffordableIsBuilt'
    <3>1. /\ caller \notin {"browser", "cli"}
          /\ phase' \in {"gather", "build", "failed"}
          /\ phase' = "failed" => ~Fits(total')
          /\ phase' = "build" => Fits(total') /\ taken' = coins
      BY <2>2, <1>7 DEF SumInput, Selecting
    <3> QED
      BY <1>1, <1>7, <3>1 DEF ReadyToBuild, AffordableIsBuilt, Selecting, Fits
  <2> QED
    BY <2>1, <2>2
<1> QED
  BY <1>5, <1>6, <1>9 DEF IInv

-----------------------------------------------------------------------------

(* What each builder makes of enough money: everything is accounted for,   *)
(* and the fee is short by at most one output.                             *)
LEMMA BuildIInv == ASSUME IInv, Build PROVE IInv'
<1> USE FundingAssumption
<1> DEFINE n == Cardinality(taken)
<1>1. /\ phase = "build" /\ tx' = Built(n)
      /\ phase' = (IF tx' = NoTx THEN "failed" ELSE "built")
      /\ UNCHANGED <<caller, rate, amount, coins, taken, total>>
  BY DEF Build
<1>2. TypeOK /\ ReadyToBuild
  BY DEF IInv
<1>3. n \in Nat /\ rate \in Nat /\ total \in Nat
  BY <1>2, FS_Subset, FS_CardinalityType DEF TypeOK
<1>4. /\ FeeFor(n, 1) \in Nat /\ FeeFor(n, 2) \in Nat /\ BuildRate * OutputMass \in Nat
      /\ BuildRate * MassWithCommitment(n) \in Nat
  BY <1>3, FeeType
<1>5. /\ FeeFor(n, 2) = FeeFor(n, 1) + BuildRate * OutputMass
      /\ BuildRate * (Mass(n, 2) - OutputMass) = FeeFor(n, 1)
      /\ BuildRate * (Mass(n, 1) - OutputMass) = FeeFor(n, 1) - BuildRate * OutputMass
      /\ BuildRate * MassWithCommitment(n) >= FeeFor(n, 2)
  BY <1>3, FeeOfOutput
<1> HIDE DEF n
<1> DEFINE Good(t) ==
       /\ t \in [total_input : Nat, burn : Nat, change : Nat, fee : Nat]
       /\ t # NoTx =>
            /\ t.total_input = t.burn + t.change + t.fee
            /\ t.burn = 0 \/ t.burn >= Dust
            /\ t.change = 0 \/ t.change >= Dust
            /\ \/ t.burn = 0 /\ t.change > 0 /\ t.fee >= FeeFor(n, 1)
               \/ t.burn > 0 /\ t.change = 0 /\ t.fee >= FeeFor(n, 1)
               \/ t.burn > 0 /\ t.change > 0 /\ t.fee >= FeeFor(n, 2)
               \/ /\ t.burn > 0 /\ t.change > 0 /\ t.fee >= FeeFor(n, 1)
                  /\ t.change < Dust + BuildRate * OutputMass
<1>6. Good(BuildDirect(n))
  BY <1>3, <1>4, <1>5 DEF BuildDirect, NoTx
<1>7. Good(BuildTransfer(n))
  BY <1>3, <1>4, <1>5 DEF BuildTransfer, NoTx
<1>8. Good(BuildCommitment(n))
  <2>1. ASSUME NEW fee \in Nat, NEW rest \in Nat, total = rest + fee + Burn, fee >= FeeFor(n, 1),
               fee >= FeeFor(n, 2) \/ rest < Dust + BuildRate * OutputMass
        PROVE  Good(AbsorbDust(rest, fee))
    <3>1. CASE rest < Dust
      <4>1. AbsorbDust(rest, fee) = [total_input |-> total, burn |-> Burn, change |-> 0, fee |-> fee + rest]
        BY <3>1 DEF AbsorbDust
      <4> QED
        BY <1>3, <1>4, <2>1, <4>1
    <3>2. CASE rest >= Dust
      <4>1. AbsorbDust(rest, fee) = [total_input |-> total, burn |-> Burn, change |-> rest, fee |-> fee]
        BY <2>1, <3>2 DEF AbsorbDust
      <4> QED
        BY <1>3, <1>4, <2>1, <3>2, <4>1
    <3> QED
      BY <2>1, <3>1, <3>2
  <2>2. CASE BuildCommitment(n) = NoTx
    BY <2>2 DEF NoTx
  <2> DEFINE fee == FeeFor(n, IF HasChange(n) THEN 2 ELSE 1)
             rest == total - (fee + Burn)
  <2>3. CASE total >= fee + Burn /\ BuildCommitment(n) = AbsorbDust(rest, fee)
    <3>1. fee = IF HasChange(n) THEN FeeFor(n, 2) ELSE FeeFor(n, 1)
      OBVIOUS
    <3> HIDE DEF fee
    <3>2. /\ fee \in Nat /\ rest \in Nat /\ total = rest + fee + Burn /\ fee >= FeeFor(n, 1)
          /\ fee >= FeeFor(n, 2) \/ rest < Dust + BuildRate * OutputMass
      BY <1>3, <1>4, <1>5, <2>3, <3>1 DEF HasChange
    <3> QED
      BY <2>1, <2>3, <3>2
  <2> QED
    BY <2>2, <2>3 DEF BuildCommitment
<1>9. Good(tx')
  BY <1>1, <1>6, <1>7, <1>8 DEF Built
<1>10. TypeOK'
  BY <1>1, <1>2, <1>9 DEF TypeOK
<1>11. ReadyToBuild'
  BY <1>1, <1>2 DEF ReadyToBuild
<1>12. Balanced'
  BY <1>1, <1>9 DEF Balanced
<1>13. FeeShortByOneOutput'
  <2> SUFFICES ASSUME phase' = "built"
               PROVE  LET mass == Mass(n, Outputs')
                      IN  \/ tx'.fee >= BuildRate * mass
                          \/ /\ tx'.fee >= BuildRate * (mass - OutputMass)
                             /\ tx'.change < Dust + BuildRate * OutputMass
    BY <1>1 DEF FeeShortByOneOutput, n, Mass, BuildRate
  <2>1. CASE tx'.burn = 0 \/ tx'.change = 0
    <3>1. Outputs' = 1 /\ tx'.fee >= FeeFor(n, 1)
      BY <2>1, <1>1, <1>9 DEF Outputs
    <3> QED
      BY <3>1 DEF FeeFor
  <2>2. CASE tx'.burn > 0 /\ tx'.change > 0
    <3>1. Outputs' = 2
      BY <2>2 DEF Outputs
    <3> QED
      BY <2>2, <3>1, <1>1, <1>5, <1>9 DEF FeeFor
  <2> QED
    BY <2>1, <2>2, <1>9
<1>14. AffordableIsBuilt'
  <2> SUFFICES ASSUME tx' = NoTx, caller \in {"calendar", "browser"}
               PROVE  \/ taken = coins /\ total < Burn + FeeFor(n, 2)
                      \/ ~Fits(total) \/ ~Fits(Burn + FeeFor(n, 2))
    BY <1>1 DEF AffordableIsBuilt, n, FeeFor, Mass, BuildRate, Fits
  <2>1. tx' = BuildCommitment(n)
    BY <1>1 DEF Built
  <2>2. ASSUME Fits(FeeFor(n, 2) + Burn) PROVE total < Burn + FeeFor(n, 2)
    BY <2>1, <2>2, <1>3, <1>4, <1>5 DEF BuildCommitment, AbsorbDust, NoTx
  <2>3. CASE caller = "calendar"
    BY <2>2, <2>3, <1>1, <1>2, <1>4 DEF ReadyToBuild, Fits
  <2>4. CASE caller = "browser"
    <3>1. total >= Burn + FeeFor(n, 2)
      BY <2>4, <1>1, <1>2 DEF ReadyToBuild, Selecting, FeeFor, BuildRate, n
    <3> QED
      BY <2>2, <3>1, <1>3, <1>4 DEF Fits
  <2> QED
    BY <2>3, <2>4
<1> QED
  BY <1>10, <1>11, <1>12, <1>13, <1>14 DEF IInv

-----------------------------------------------------------------------------

LEMMA StepIInv == IInv /\ [Next]_vars => IInv'
<1> SUFFICES ASSUME IInv, [Next]_vars PROVE IInv'
  OBVIOUS
<1>1. ASSUME NEW coin \in Utxos, SelectUtxo(coin) \/ SumInput(coin) PROVE IInv'
  BY <1>1, TakeIInv
<1>2. ASSUME Build PROVE IInv'
  BY <1>2, BuildIInv
<1>3. ASSUME UNCHANGED vars PROVE IInv'
  BY <1>3 DEF vars, IInv, TypeOK, ReadyToBuild, Balanced, AffordableIsBuilt,
              FeeShortByOneOutput, Outputs, Fits, FeeFor, Mass, BuildRate
<1> QED
  BY <1>1, <1>2, <1>3 DEF Next

LEMMA AlwaysIInv == Spec => []IInv
<1>1. Init => IInv
  BY InitIInv
<1>2. IInv /\ [Next]_vars => IInv'
  BY StepIInv
<1> QED
  BY <1>1, <1>2, PTL DEF Spec

(* Every reachable state has its types: select_utxos and the builders keep *)
(* taking coins of the wallet and sums of u64.                             *)
THEOREM FundingTypes == Spec => []TypeOK
<1>1. IInv => TypeOK
  BY DEF IInv
<1> QED
  BY <1>1, AlwaysIInv, PTL

(* Whatever the coins and rates, a transaction of any of the builders      *)
(* takes in what it pays out and leaves to the fee, without a dust output. *)
THEOREM BalancedHolds == Spec => []Balanced
<1>1. IInv => Balanced
  BY DEF IInv
<1> QED
  BY <1>1, AlwaysIInv, PTL

(* Largest-first selection with the burn as its target never leads the     *)
(* builder to an error, and neither the calendar nor the browser is        *)
(* refused with enough money.                                              *)
THEOREM AffordableHolds == Spec => []AffordableIsBuilt
<1>1. IInv => AffordableIsBuilt
  BY DEF IInv
<1> QED
  BY <1>1, AlwaysIInv, PTL

(* The fee of build is short by at most one output's, and only where the   *)
(* change is close to the dust threshold.                                  *)
THEOREM FeeShortHolds == Spec => []FeeShortByOneOutput
<1>1. IInv => FeeShortByOneOutput
  BY DEF IInv
<1> QED
  BY <1>1, AlwaysIInv, PTL


-----------------------------------------------------------------------------
(* Sequences, whatever they are of *)

IsSeq(s) == \E S : s \in Seq(S)

(* What is put together from sequences, or cut out of one, is a sequence.  *)
LEMMA SeqClosure ==
  ASSUME NEW s, IsSeq(s)
  PROVE  /\ Len(s) \in Nat
         /\ \A t : IsSeq(t) => IsSeq(s \o t)
         /\ \A m, n \in Int : IsSeq(SubSeq(s, m, n))
         /\ s # <<>> => IsSeq(Tail(s))
<1>1. PICK S : s \in Seq(S)
  BY DEF IsSeq
<1>2. Len(s) \in Nat
  BY <1>1, LenProperties
<1>3. ASSUME NEW t, IsSeq(t) PROVE IsSeq(s \o t)
  <2>1. PICK T : t \in Seq(T)
    BY <1>3 DEF IsSeq
  <2>2. s \in Seq(S \cup T) /\ t \in Seq(S \cup T)
    BY <1>1, <2>1, SeqMonotonic
  <2>3. s \o t \in Seq(S \cup T)
    BY <2>2, ConcatProperties
  <2> QED
    BY <2>3 DEF IsSeq
<1>4. ASSUME NEW m \in Int, NEW n \in Int PROVE IsSeq(SubSeq(s, m, n))
  <2> DEFINE M == {s[i] : i \in m..n}
  <2>1. \A i \in m..n : s[i] \in M
    OBVIOUS
  <2> HIDE DEF M
  <2>2. SubSeq(s, m, n) \in Seq(M)
    BY <2>1, SubSeqProperties
  <2> QED
    BY <2>2 DEF IsSeq
<1>5. s # <<>> => IsSeq(Tail(s))
  BY <1>1, HeadTailProperties DEF IsSeq
<1> QED
  BY <1>2, <1>3, <1>4, <1>5

(* Singletons                                                              *)
LEMMA Singleton ==
  ASSUME NEW a
  PROVE  IsSeq(<<a>>) /\ Len(<<a>>) = 1 /\ <<a>>[1] = a
<1>1. <<a>> \in Seq({a}) /\ Len(<<a>>) = 1 /\ <<a>>[1] = a
  OBVIOUS
<1> QED
  BY <1>1 DEF IsSeq

-----------------------------------------------------------------------------
(* Induction, and sequences of digits *)

(* Ordinary induction: a set with 0 that is closed under successor holds   *)
(* every natural number, since a least number outside it cannot exist.     *)
LEMMA NatSetInduction ==
  ASSUME NEW S, 0 \in S, \A n \in Nat : n \in S => n + 1 \in S
  PROVE  Nat \subseteq S
<1> DEFINE T == Nat \ S
<1>1. ASSUME T # {} PROVE FALSE
  <2>1. \E x \in T : \A y \in T : ~ (<<y, x>> \in OpToRel(<, Nat))
    BY <1>1, WFMin, NatLessThanWellFounded
  <2>2. PICK x \in T : \A y \in T : ~ (<<y, x>> \in OpToRel(<, Nat))
    BY <2>1
  <2>3. x # 0 /\ x \in Nat
    OBVIOUS
  <2>4. x - 1 \in T
    <3>1. CASE x - 1 \in S
      BY <2>3, <3>1
    <3> QED
      BY <2>3, <3>1
  <2>5. <<x - 1, x>> \in OpToRel(<, Nat)
    BY <2>3, <2>4 DEF OpToRel
  <2> QED
    BY <2>2, <2>4, <2>5
<1> QED
  BY <1>1

(* A function on 1..n is a sequence of length n.                           *)
LEMMA FunctionInSeq ==
  ASSUME NEW S, NEW n \in Nat, NEW f \in [1..n -> S]
  PROVE  f \in Seq(S) /\ Len(f) = n
<1>1. f \in Seq(S)
  BY SeqDef
<1>2. DOMAIN f = 1..n /\ DOMAIN f = 1..Len(f) /\ Len(f) \in Nat
  BY <1>1, LenProperties
<1> QED
  BY <1>1, <1>2

(* A sequence of digits is one of numbers, and is its own function.        *)
LEMMA SeqOfNat ==
  ASSUME NEW top \in Nat, NEW data \in Seq(0..top)
  PROVE  /\ data \in Seq(Nat) /\ Len(data) \in Nat /\ DOMAIN data = 1..Len(data)
         /\ \A i \in 1..Len(data) : data[i] \in 0..top
         /\ data = [i \in 1..Len(data) |-> data[i]]
<1> DEFINE D == 0..top
           n == Len(data)
<1>1. \A x \in D : x \in Nat
  OBVIOUS
<1>2. data \in Seq(D)
  OBVIOUS
<1> HIDE DEF D
<1>3. n \in Nat /\ data \in [1..n -> D] /\ DOMAIN data = 1..n
  BY <1>2, LenProperties
<1> HIDE DEF n
<1>4. data \in [1..n -> Nat]
  BY <1>1, <1>3
<1>5. data \in Seq(Nat)
  BY <1>3, <1>4, FunctionInSeq
<1> QED
  BY <1>3, <1>5 DEF D, n

(* The powers of two that stand for the bits of a byte.                    *)
LEMMA Powers == /\ 2 ^ 0 = 1 /\ 2 ^ 1 = 2 /\ 2 ^ 2 = 4 /\ 2 ^ 3 = 8 /\ 2 ^ 4 = 16
                /\ 2 ^ 5 = 32 /\ 2 ^ 6 = 64 /\ 2 ^ 7 = 128 /\ 2 ^ 8 = 256
  OBVIOUS

-----------------------------------------------------------------------------
(* Bytes as words, and words as bytes *)

(* Gathered satisfies its own equation.                                    *)
LEMMA GatheredDef ==
  ASSUME NEW bits, Len(bits) \in Nat
  PROVE  Gathered(bits) =
           [k \in 0..Len(bits) |-> IF k = 0 THEN 0 ELSE 2 * Gathered(bits)[k - 1] + bits[k]]
<1> DEFINE After(number, bit) == 2 * number + bit
           Solves(n, f) == f = [k \in 0..n |-> IF k = 0 THEN 0 ELSE After(f[k - 1], bits[k])]
           S == {n \in Nat : \E f : Solves(n, f)}
<1>1. Gathered(bits) = CHOOSE f : Solves(Len(bits), f)
  BY DEF Gathered
<1> HIDE DEF After
<1>2. 0 \in S
  <2>1. Solves(0, [k \in 0..0 |-> 0])
    OBVIOUS
  <2> QED
    BY <2>1
<1>3. ASSUME NEW n \in Nat, n \in S PROVE n + 1 \in S
  <2>1. PICK f : Solves(n, f)
    BY <1>3
  <2> DEFINE g == [k \in 0..(n + 1) |-> IF k <= n THEN f[k] ELSE After(f[n], bits[n + 1])]
             h == [k \in 0..(n + 1) |-> IF k = 0 THEN 0 ELSE After(g[k - 1], bits[k])]
  <2>2. ASSUME NEW k \in 0..(n + 1) PROVE g[k] = h[k]
    <3>1. CASE k = 0
      BY <2>1, <3>1
    <3>2. CASE k \in 1..n
      BY <2>1, <3>2
    <3>3. CASE k = n + 1
      BY <2>1, <3>3
    <3> QED
      BY <3>1, <3>2, <3>3
  <2>3. g = h
    BY <2>2
  <2>4. Solves(n + 1, g)
    BY <2>3
  <2>5. \E f_1 : Solves(n + 1, f_1)
    <3> HIDE DEF g, Solves
    <3> QED
      BY <2>4
  <2> HIDE DEF Solves
  <2> QED
    BY <2>5
<1> HIDE DEF S
<1>4. Nat \subseteq S
  BY <1>2, <1>3, NatSetInduction
<1>5. \E f : Solves(Len(bits), f)
  BY <1>4 DEF S
<1>6. Solves(Len(bits), Gathered(bits))
  <2> HIDE DEF Solves
  <2> QED
    BY <1>1, <1>5
<1> QED
  BY <1>6 DEF After

(* A bit more doubles what has been gathered and adds the bit.             *)
LEMMA GatheredStep ==
  ASSUME NEW bits, Len(bits) \in Nat, NEW k \in 1..Len(bits)
  PROVE  Gathered(bits)[k] = 2 * Gathered(bits)[k - 1] + bits[k]
<1>1. k \in 0..Len(bits) /\ k # 0
  OBVIOUS
<1> QED
  BY <1>1, GatheredDef

(* Before the first bit nothing has been gathered.                         *)
LEMMA GatheredNone ==
  ASSUME NEW bits, Len(bits) \in Nat PROVE Gathered(bits)[0] = 0
  BY GatheredDef

(* Padding of zeros is worth nothing, however long.                        *)
LEMMA NumberOfZeros ==
  ASSUME NEW bits, Len(bits) \in Nat, \A k \in 1..Len(bits) : bits[k] = 0
  PROVE  Number(bits) = 0
<1> DEFINE S == {k \in Nat : k <= Len(bits) => Gathered(bits)[k] = 0}
<1>1. 0 \in S
  BY GatheredNone
<1>2. ASSUME NEW k \in Nat, k \in S PROVE k + 1 \in S
  <2>1. SUFFICES ASSUME k + 1 <= Len(bits) PROVE Gathered(bits)[k + 1] = 0
    OBVIOUS
  <2>2. k + 1 \in 1..Len(bits) /\ (k + 1) - 1 = k /\ bits[k + 1] = 0 /\ Gathered(bits)[k] = 0
    BY <1>2, <2>1
  <2>3. Gathered(bits)[k + 1] = 2 * Gathered(bits)[k] + bits[k + 1]
    BY <2>2, GatheredStep
  <2> QED
    BY <2>2, <2>3
<1> HIDE DEF S
<1>3. Nat \subseteq S
  BY <1>1, <1>2, NatSetInduction
<1> QED
  BY <1>3 DEF S, Number

(* Five bits make a word, and the word has these bits.                     *)
LEMMA FiveBits ==
  ASSUME NEW bits, Len(bits) = 5, \A k \in 1..5 : bits[k] \in {0, 1}
  PROVE  /\ Number(bits) \in 0..31
         /\ \A k \in 1..5 : (Number(bits) \div 2 ^ (5 - k)) % 2 = bits[k]
<1>1. Gathered(bits)[0] = 0
  BY GatheredNone
<1> DEFINE G == Gathered(bits)
<1>2. \A k \in 1..5 : G[k] = 2 * G[k - 1] + bits[k]
  BY GatheredStep
<1> HIDE DEF G
<1>3. /\ G[1 - 1] = G[0]
      /\ G[2 - 1] = G[1]
      /\ G[3 - 1] = G[2]
      /\ G[4 - 1] = G[3]
      /\ G[5 - 1] = G[4]
  OBVIOUS
<1>4. /\ G[1] = 2 * G[0] + bits[1]
      /\ G[2] = 2 * G[1] + bits[2]
      /\ G[3] = 2 * G[2] + bits[3]
      /\ G[4] = 2 * G[3] + bits[4]
      /\ G[5] = 2 * G[4] + bits[5]
  BY <1>2, <1>3
<1>5. /\ bits[1] \in {0, 1} /\ bits[2] \in {0, 1} /\ bits[3] \in {0, 1} /\ bits[4] \in {0, 1}
      /\ bits[5] \in {0, 1}
  OBVIOUS
<1>6. Number(bits) = 16 * bits[1] + 8 * bits[2] + 4 * bits[3] + 2 * bits[4] + bits[5]
  BY <1>1, <1>4, <1>5 DEF Number, G
<1>7. /\ Number(bits) \in 0..31
      /\ (Number(bits) \div 16) % 2 = bits[1] /\ (Number(bits) \div 8) % 2 = bits[2]
      /\ (Number(bits) \div 4) % 2 = bits[3] /\ (Number(bits) \div 2) % 2 = bits[4]
      /\ (Number(bits) \div 1) % 2 = bits[5]
  BY <1>5, <1>6
<1>8. ASSUME NEW k \in 1..5 PROVE (Number(bits) \div 2 ^ (5 - k)) % 2 = bits[k]
  <2>1. CASE k = 1
    BY <1>7, <2>1, Powers
  <2>2. CASE k = 2
    BY <1>7, <2>2, Powers
  <2>3. CASE k = 3
    BY <1>7, <2>3, Powers
  <2>4. CASE k = 4
    BY <1>7, <2>4, Powers
  <2>5. CASE k = 5
    BY <1>7, <2>5, Powers
  <2> QED
    BY <2>1, <2>2, <2>3, <2>4, <2>5
<1> QED
  BY <1>7, <1>8

(* The eight bits of a byte make the byte.                                 *)
LEMMA EightBits ==
  ASSUME NEW bits, Len(bits) = 8, NEW byte \in 0..255,
         \A k \in 1..8 : bits[k] = (byte \div 2 ^ (8 - k)) % 2
  PROVE  Number(bits) = byte
<1>1. Gathered(bits)[0] = 0
  BY GatheredNone
<1> DEFINE G == Gathered(bits)
<1>2. \A k \in 1..8 : G[k] = 2 * G[k - 1] + bits[k]
  <2>1. Len(bits) \in Nat
    OBVIOUS
  <2>2. \A k \in 1..Len(bits) : G[k] = 2 * G[k - 1] + bits[k]
    BY <2>1, GatheredStep, Zenon
  <2> QED
    BY <2>2
<1> HIDE DEF G
<1>3. /\ G[1 - 1] = G[0]
      /\ G[2 - 1] = G[1]
      /\ G[3 - 1] = G[2]
      /\ G[4 - 1] = G[3]
      /\ G[5 - 1] = G[4]
      /\ G[6 - 1] = G[5]
      /\ G[7 - 1] = G[6]
      /\ G[8 - 1] = G[7]
  OBVIOUS
<1>4. /\ G[1] = 2 * G[0] + bits[1]
      /\ G[2] = 2 * G[1] + bits[2]
      /\ G[3] = 2 * G[2] + bits[3]
      /\ G[4] = 2 * G[3] + bits[4]
      /\ G[5] = 2 * G[4] + bits[5]
      /\ G[6] = 2 * G[5] + bits[6]
      /\ G[7] = 2 * G[6] + bits[7]
      /\ G[8] = 2 * G[7] + bits[8]
  BY <1>2, <1>3
<1>5. /\ bits[1] = (byte \div 128) % 2 /\ bits[2] = (byte \div 64) % 2
      /\ bits[3] = (byte \div 32) % 2 /\ bits[4] = (byte \div 16) % 2
      /\ bits[5] = (byte \div 8) % 2 /\ bits[6] = (byte \div 4) % 2
      /\ bits[7] = (byte \div 2) % 2 /\ bits[8] = (byte \div 1) % 2
  BY Powers
<1>6. byte = 128 * ((byte \div 128) % 2) + 64 * ((byte \div 64) % 2) + 32 * ((byte \div 32) % 2)
             + 16 * ((byte \div 16) % 2) + 8 * ((byte \div 8) % 2) + 4 * ((byte \div 4) % 2)
             + 2 * ((byte \div 2) % 2) + ((byte \div 1) % 2)
  OBVIOUS
<1> QED
  BY <1>1, <1>4, <1>5, <1>6 DEF Number, G

(* The k-th bit of n words lies in one of them, at one of its places.      *)
LEMMA Within ==
  ASSUME NEW n \in Nat, NEW w \in {5, 8}, NEW k \in 1..(w * n)
  PROVE  /\ (k - 1) \div w + 1 \in 1..n /\ (k - 1) % w \in 0..(w - 1)
         /\ k = w * ((k - 1) \div w) + ((k - 1) % w) + 1
<1>1. CASE w = 5
  BY <1>1
<1>2. CASE w = 8
  BY <1>2
<1> QED
  BY <1>1, <1>2

(* A bit is zero or one.                                                   *)
LEMMA BitIn ==
  ASSUME NEW w \in {5, 8}, NEW word \in Nat, NEW j \in 0..(w - 1)
  PROVE  (word \div 2 ^ j) % 2 \in {0, 1}
<1> DEFINE p == 2 ^ j
<1>1. j = 0 \/ j = 1 \/ j = 2 \/ j = 3 \/ j = 4 \/ j = 5 \/ j = 6 \/ j = 7
  OBVIOUS
<1>2. p = 1 \/ p = 2 \/ p = 4 \/ p = 8 \/ p = 16 \/ p = 32 \/ p = 64 \/ p = 128
  <2>1. CASE j = 0
    BY <2>1, Powers
  <2>2. CASE j = 1
    BY <2>2, Powers
  <2>3. CASE j = 2
    BY <2>3, Powers
  <2>4. CASE j = 3
    BY <2>4, Powers
  <2>5. CASE j = 4
    BY <2>5, Powers
  <2>6. CASE j = 5
    BY <2>6, Powers
  <2>7. CASE j = 6
    BY <2>7, Powers
  <2>8. CASE j = 7
    BY <2>8, Powers
  <2> QED
    BY <1>1, <2>1, <2>2, <2>3, <2>4, <2>5, <2>6, <2>7, <2>8
<1> HIDE DEF p
<1>3. (word \div p) % 2 \in {0, 1}
  BY <1>2
<1> QED
  BY <1>3 DEF p

(* The bits of a sequence of words are a sequence, of so many for each.    *)
LEMMA BitsType ==
  ASSUME NEW w \in {5, 8}, NEW data \in Seq(Nat)
  PROVE  /\ Bits(data, w) \in Seq({0, 1}) /\ Len(Bits(data, w)) = w * Len(data)
         /\ \A k \in 1..(w * Len(data)) :
              Bits(data, w)[k] =
                (data[(k - 1) \div w + 1] \div 2 ^ (w - 1 - ((k - 1) % w))) % 2
<1>1. Len(data) \in Nat /\ w * Len(data) \in Nat
  BY LenProperties
<1>2. ASSUME NEW k \in 1..(w * Len(data))
      PROVE  (data[(k - 1) \div w + 1] \div 2 ^ (w - 1 - ((k - 1) % w))) % 2 \in {0, 1}
  <2>1. (k - 1) \div w + 1 \in 1..Len(data) /\ (k - 1) % w \in 0..(w - 1)
    BY <1>1, Within
  <2>2. data[(k - 1) \div w + 1] \in Nat
    BY <2>1, ElementOfSeq
  <2>3. w - 1 - ((k - 1) % w) \in 0..(w - 1)
    BY <2>1
  <2> QED
    BY <2>2, <2>3, BitIn
<1>3. Bits(data, w) \in [1..(w * Len(data)) -> {0, 1}]
  BY <1>2 DEF Bits
<1>4. Bits(data, w) \in Seq({0, 1}) /\ Len(Bits(data, w)) = w * Len(data)
  BY <1>1, <1>3, FunctionInSeq
<1> QED
  BY <1>4 DEF Bits

(* The bits of the g-th word follow those of the words before it.          *)
LEMMA BitAt ==
  ASSUME NEW w \in {5, 8}, NEW data \in Seq(Nat), NEW g \in 1..Len(data), NEW j \in 1..w
  PROVE  /\ w * (g - 1) + j \in 1..(w * Len(data))
         /\ Bits(data, w)[w * (g - 1) + j] = (data[g] \div 2 ^ (w - j)) % 2
<1> DEFINE k == w * (g - 1) + j
<1>1. Len(data) \in Nat
  BY LenProperties
<1>2. k \in 1..(w * Len(data)) /\ (k - 1) \div w = g - 1 /\ (k - 1) % w = j - 1
  <2>1. CASE w = 5
    BY <1>1, <2>1
  <2>2. CASE w = 8
    BY <1>1, <2>2
  <2> QED
    BY <2>1, <2>2
<1>3. (k - 1) \div w + 1 = g /\ w - 1 - ((k - 1) % w) = w - j
  BY <1>2
<1> HIDE DEF k
<1>4. Bits(data, w)[k] = (data[(k - 1) \div w + 1] \div 2 ^ (w - 1 - ((k - 1) % w))) % 2
  BY <1>2, BitsType
<1> QED
  BY <1>2, <1>3, <1>4 DEF k

(* A group of bits is a piece of them of its width.                        *)
LEMMA GroupAt ==
  ASSUME NEW w \in {5, 8}, NEW bits \in Seq({0, 1}),
         NEW n \in Nat, w * n <= Len(bits), NEW g \in 1..n
  PROVE  LET group == SubSeq(bits, w * (g - 1) + 1, w * g)
         IN  /\ group \in Seq({0, 1}) /\ Len(group) = w
             /\ \A j \in 1..w : group[j] = bits[w * (g - 1) + j]
<1> DEFINE from == w * (g - 1) + 1
           to == w * g
<1>1. Len(bits) \in Nat
  BY LenProperties
<1>2. from \in Int /\ to \in Int /\ from >= 1 /\ to <= Len(bits) /\ to - from + 1 = w /\ from <= to
      /\ \A j \in 1..w : from + j - 1 = w * (g - 1) + j
  <2>1. CASE w = 5
    BY <1>1, <2>1
  <2>2. CASE w = 8
    BY <1>1, <2>2
  <2> QED
    BY <2>1, <2>2
<1> HIDE DEF from, to
<1>3. \A i \in from..to : bits[i] \in {0, 1}
  <2>1. ASSUME NEW i \in from..to PROVE bits[i] \in {0, 1}
    <3>1. i \in 1..Len(bits)
      BY <1>1, <1>2
    <3> QED
      BY <3>1, ElementOfSeq
  <2> QED
    BY <2>1
<1>4. /\ SubSeq(bits, from, to) \in Seq({0, 1})
      /\ Len(SubSeq(bits, from, to)) = IF from <= to THEN to - from + 1 ELSE 0
      /\ \A i \in 1..(to - from + 1) : SubSeq(bits, from, to)[i] = bits[from + i - 1]
  <2> DEFINE B == {0, 1}
  <2>1. \A i \in from..to : bits[i] \in B
    BY <1>3
  <2>2. from \in Int /\ to \in Int
    BY <1>2
  <2> HIDE DEF B
  <2>3. /\ SubSeq(bits, from, to) \in Seq(B)
        /\ Len(SubSeq(bits, from, to)) = IF from <= to THEN to - from + 1 ELSE 0
        /\ \A i \in 1..(to - from + 1) : SubSeq(bits, from, to)[i] = bits[from + i - 1]
    BY <2>1, <2>2, SubSeqProperties
  <2> QED
    BY <2>3 DEF B
<1>5. \A j \in 1..w : SubSeq(bits, from, to)[j] = bits[w * (g - 1) + j]
  BY <1>2, <1>4
<1>6. Len(SubSeq(bits, from, to)) = w
  BY <1>2, <1>4
<1> QED
  BY <1>4, <1>5, <1>6 DEF from, to

(* The bits of the bytes, filled up with zeros to whole words              *)
Padding(data, padded, m, r) ==
  /\ Len(padded) = 5 * m /\ 5 * m = 8 * Len(data) + r
  /\ \A k \in 1..(8 * Len(data)) : padded[k] = Bits(data, 8)[k]
  /\ \A k \in (8 * Len(data) + 1)..(5 * m) : padded[k] = 0

(* The words that whole groups of five bits make have these bits.          *)
LEMMA WordsOfBits ==
  ASSUME NEW padded \in Seq({0, 1}), NEW m \in Nat, Len(padded) = 5 * m
  PROVE  /\ Groups(padded, 5) \in Seq(0..31) /\ Len(Groups(padded, 5)) = m
         /\ Bits(Groups(padded, 5), 5) = padded
<1> DEFINE words == Groups(padded, 5)
           group(g) == SubSeq(padded, 5 * (g - 1) + 1, 5 * g)
<1>1. (5 * m) \div 5 = m /\ 5 \in {5, 8} /\ 5 * m <= Len(padded)
  OBVIOUS
<1>2. words = [g \in 1..m |-> Number(group(g))]
  BY <1>1 DEF Groups
<1>3. ASSUME NEW g \in 1..m
      PROVE  /\ Number(group(g)) \in 0..31
             /\ \A j \in 1..5 : (Number(group(g)) \div 2 ^ (5 - j)) % 2 = padded[5 * (g - 1) + j]
  <2> DEFINE bits == group(g)
  <2>1. /\ bits \in Seq({0, 1}) /\ Len(bits) = 5
        /\ \A j \in 1..5 : bits[j] = padded[5 * (g - 1) + j]
    BY <1>1, GroupAt
  <2>2. \A j \in 1..5 : bits[j] \in {0, 1}
    <3> HIDE DEF bits
    <3> QED
      BY <2>1, ElementOfSeq
  <2> HIDE DEF bits
  <2>3. /\ Number(bits) \in 0..31
        /\ \A j \in 1..5 : (Number(bits) \div 2 ^ (5 - j)) % 2 = bits[j]
    BY <2>1, <2>2, FiveBits
  <2>4. \A j \in 1..5 : (Number(bits) \div 2 ^ (5 - j)) % 2 = padded[5 * (g - 1) + j]
    BY <2>1, <2>3
  <2> QED
    BY <2>3, <2>4 DEF bits
<1> HIDE DEF group
<1>4. words \in [1..m -> 0..31]
  BY <1>2, <1>3
<1>5. words \in Seq(0..31) /\ Len(words) = m
  <2> HIDE DEF words
  <2> QED
    BY <1>4, FunctionInSeq
<1>6. words \in Seq(Nat)
  <2> HIDE DEF words
  <2>1. 31 \in Nat
    OBVIOUS
  <2> QED
    BY <1>5, <2>1, SeqOfNat
<1>7. ASSUME NEW k \in 1..(5 * m) PROVE Bits(words, 5)[k] = padded[k]
  <2> DEFINE g == (k - 1) \div 5 + 1
             j == ((k - 1) % 5) + 1
  <2>1. g \in 1..m /\ j \in 1..5 /\ k = 5 * (g - 1) + j
    OBVIOUS
  <2> HIDE DEF g, j
  <2>2. words[g] = Number(group(g))
    BY <1>2, <2>1
  <2> HIDE DEF words
  <2>3. Bits(words, 5)[5 * (g - 1) + j] = (words[g] \div 2 ^ (5 - j)) % 2
    BY <1>1, <1>5, <1>6, <2>1, BitAt
  <2>4. (words[g] \div 2 ^ (5 - j)) % 2 = padded[5 * (g - 1) + j]
    BY <1>3, <2>1, <2>2
  <2> QED
    BY <2>1, <2>3, <2>4
<1> HIDE DEF words
<1>8. Bits(words, 5) \in Seq({0, 1}) /\ Len(Bits(words, 5)) = 5 * m
  BY <1>1, <1>5, <1>6, BitsType
<1>9. Bits(words, 5) = padded
  <2>1. /\ Bits(words, 5) \in [1..(5 * m) -> {0, 1}]
        /\ padded \in [1..(5 * m) -> {0, 1}]
    BY <1>8, LenProperties
  <2> QED
    BY <1>7, <2>1
<1> QED
  BY <1>5, <1>9 DEF words

(* convert_bits fills up to whole words with at most four zeros.           *)
LEMMA ToWords ==
  ASSUME NEW data \in Seq(0..255)
  PROVE  \E padded \in Seq({0, 1}), m \in Nat, r \in 0..4 :
           Padding(data, padded, m, r) /\ ConvertBits(data, 8, 5, TRUE) = Groups(padded, 5)
<1> DEFINE bits == Bits(data, 8)
           n == Len(data)
           rest == SubSeq(bits, Len(bits) - (Len(bits) % 5) + 1, Len(bits))
           fill == [k \in 1..(5 - Len(rest)) |-> 0]
<1>1. n \in Nat /\ \A i \in 1..n : data[i] \in 0..255
  <2>1. 255 \in Nat
    OBVIOUS
  <2> QED
    BY <2>1, SeqOfNat, Zenon
<1>2. data \in Seq(Nat) /\ DOMAIN data = 1..n
  <2>1. 255 \in Nat
    OBVIOUS
  <2> QED
    BY <2>1, SeqOfNat, Zenon
<1>3. bits \in Seq({0, 1}) /\ Len(bits) = 8 * n
  <2>1. 8 \in {5, 8}
    OBVIOUS
  <2> QED
    BY <1>2, <2>1, BitsType
<1>4. ~ \E i \in DOMAIN data : data[i] >= 2 ^ 8
  <2> HIDE DEF n
  <2>1. ASSUME NEW i \in 1..n PROVE ~(data[i] >= 256)
    <3>1. data[i] \in 0..255
      BY <1>1
    <3>2. \A x \in 0..255 : ~(x >= 256)
      OBVIOUS
    <3> QED
      BY <3>1, <3>2, Zenon
  <2> QED
    BY <1>2, <2>1, Powers
<1>5. ConvertBits(data, 8, 5, TRUE) =
        IF rest = <<>> THEN Groups(bits, 5) ELSE Groups(bits \o fill, 5)
  BY <1>4 DEF ConvertBits
<1> DEFINE q == (8 * n) % 5
<1>6. rest \in Seq({0, 1}) /\ Len(rest) = q
  <2> DEFINE B == {0, 1}
             from == Len(bits) - (Len(bits) % 5) + 1
  <2>1. from \in Int /\ Len(bits) \in Int /\ from >= 1
        /\ Len(bits) - from + 1 = q /\ (from <= Len(bits) <=> q # 0)
    <3> HIDE DEF bits, n
    <3> QED
      BY <1>1, <1>3
  <2>2. \A i \in from..Len(bits) : bits[i] \in B
    <3>1. ASSUME NEW i \in from..Len(bits) PROVE bits[i] \in B
      <4> HIDE DEF bits, from
      <4>1. i \in 1..Len(bits)
        BY <2>1
      <4> QED
        BY <1>3, <4>1, ElementOfSeq
    <3> QED
      BY <3>1
  <2> HIDE DEF B, bits, from
  <2>3. /\ SubSeq(bits, from, Len(bits)) \in Seq(B)
        /\ Len(SubSeq(bits, from, Len(bits))) =
             IF from <= Len(bits) THEN Len(bits) - from + 1 ELSE 0
    BY <2>1, <2>2, SubSeqProperties
  <2> QED
    BY <2>1, <2>3 DEF B, from
<1> HIDE DEF rest, bits
<1>7. CASE rest = <<>>
  <2>1. q = 0
    BY <1>6, <1>7, EmptySeq
  <2> DEFINE m == (8 * n) \div 5
  <2>2. m \in Nat /\ 5 * m = 8 * n + 0
    <3> HIDE DEF n
    <3> QED
      BY <1>1, <2>1
  <2>3. \A k \in (8 * n + 1)..(5 * m) : bits[k] = 0
    <3> HIDE DEF m, n
    <3> QED
      BY <1>1, <2>2
  <2> HIDE DEF m
  <2>4. ConvertBits(data, 8, 5, TRUE) = Groups(bits, 5)
    BY <1>5, <1>7
  <2>5. Padding(data, bits, m, 0)
    BY <1>3, <2>2, <2>3 DEF Padding, bits
  <2>6. 0 \in 0..4 /\ m \in Nat
    BY <2>2
  <2> QED
    BY <1>3, <2>4, <2>5, <2>6, Zenon
<1>8. CASE rest # <<>>
  <2>1. q # 0 /\ q \in 1..4
    <3>1. Len(rest) # 0
      BY <1>6, <1>8, EmptySeq
    <3> HIDE DEF n
    <3> QED
      BY <1>1, <1>6, <3>1
  <2> DEFINE r == 5 - q
             m == (8 * n + r) \div 5
             padded == bits \o fill
  <2>2. r \in 1..4 /\ m \in Nat /\ 5 * m = 8 * n + r
    <3> HIDE DEF n
    <3> QED
      BY <1>1, <2>1
  <2>3. fill \in Seq({0, 1}) /\ Len(fill) = r /\ \A k \in 1..r : fill[k] = 0
    <3>1. fill = [k \in 1..r |-> 0]
      BY <1>6
    <3>2. fill \in [1..r -> {0, 1}] /\ r \in Nat
      BY <2>2, <3>1
    <3> HIDE DEF fill, r
    <3> QED
      BY <3>1, <3>2, FunctionInSeq
  <2> HIDE DEF fill, r, m, n
  <2>4. /\ padded \in Seq({0, 1}) /\ Len(padded) = 8 * n + r
        /\ \A k \in 1..(8 * n + r) : padded[k] = IF k <= 8 * n THEN bits[k] ELSE fill[k - 8 * n]
    <3> DEFINE B == {0, 1}
    <3>1. bits \in Seq(B) /\ fill \in Seq(B)
      BY <1>3, <2>3
    <3> HIDE DEF B
    <3>2. /\ bits \o fill \in Seq(B) /\ Len(bits \o fill) = Len(bits) + Len(fill)
          /\ \A k \in 1..(Len(bits) + Len(fill)) :
               (bits \o fill)[k] = IF k <= Len(bits) THEN bits[k] ELSE fill[k - Len(bits)]
      BY <3>1, ConcatProperties
    <3> QED
      BY <1>3, <2>3, <3>2 DEF B
  <2> HIDE DEF padded
  <2>5. \A k \in 1..(8 * n) : padded[k] = bits[k]
    BY <1>1, <2>2, <2>4
  <2>6. \A k \in (8 * n + 1)..(5 * m) : padded[k] = 0
    <3>1. ASSUME NEW k \in (8 * n + 1)..(5 * m) PROVE padded[k] = 0
      <4>1. k \in 1..(8 * n + r) /\ ~(k <= 8 * n) /\ k - 8 * n \in 1..r
        BY <1>1, <2>2
      <4> QED
        BY <2>3, <2>4, <4>1
    <3> QED
      BY <3>1
  <2>7. ConvertBits(data, 8, 5, TRUE) = Groups(padded, 5)
    BY <1>5, <1>8 DEF padded
  <2>8. r \in 0..4 /\ Len(padded) = 5 * m
    BY <2>2, <2>4
  <2>9. Padding(data, padded, m, r)
    BY <2>2, <2>5, <2>6, <2>8 DEF Padding, n, bits
  <2> QED
    BY <2>2, <2>4, <2>7, <2>8, <2>9
<1> QED
  BY <1>7, <1>8

(* convert_bits reads the bytes back of the words made from them: the      *)
(* padding is shorter than a word and zero, as it demands.                 *)
LEMMA WordsConvertBack ==
  ASSUME NEW data \in Seq(0..255), NEW padded \in Seq({0, 1}), NEW m \in Nat, NEW r \in 0..4,
         Padding(data, padded, m, r)
  PROVE  ConvertBits(Groups(padded, 5), 5, 8, FALSE) = data
<1> DEFINE words == Groups(padded, 5)
           n == Len(data)
           rest == SubSeq(padded, Len(padded) - (Len(padded) % 8) + 1, Len(padded))
<1>1. /\ Len(padded) = 5 * m /\ 5 * m = 8 * n + r
      /\ \A k \in 1..(8 * n) : padded[k] = Bits(data, 8)[k]
      /\ \A k \in (8 * n + 1)..(5 * m) : padded[k] = 0
  BY DEF Padding
<1>2. words \in Seq(0..31) /\ Len(words) = m /\ Bits(words, 5) = padded
  BY <1>1, WordsOfBits
<1>3. /\ n \in Nat /\ \A i \in 1..n : data[i] \in 0..255
      /\ data \in Seq(Nat) /\ data = [i \in 1..n |-> data[i]]
  <2>1. 255 \in Nat
    OBVIOUS
  <2> QED
    BY <2>1, SeqOfNat, Zenon
<1> HIDE DEF words, n
<1>4. Len(padded) = 5 * m /\ 5 * m = 8 * n + r
  BY <1>1
<1>5. (8 * n + r) % 8 = r /\ (8 * n + r) \div 8 = n
  <2>1. \A a \in Nat, b \in 0..4 : (8 * a + b) % 8 = b /\ (8 * a + b) \div 8 = a
    OBVIOUS
  <2> QED
    BY <1>3, <2>1
<1>6. Len(padded) % 8 = r /\ Len(padded) \div 8 = n
  BY <1>4, <1>5
<1>7. ~ \E i \in DOMAIN words : words[i] >= 2 ^ 5
  <2>1. DOMAIN words = 1..m /\ \A i \in 1..m : words[i] \in 0..31
    BY <1>2, SeqOfNat
  <2>2. ASSUME NEW i \in 1..m PROVE ~(words[i] >= 32)
    <3>1. words[i] \in 0..31
      BY <2>1
    <3>2. \A x \in 0..31 : ~(x >= 32)
      OBVIOUS
    <3> QED
      BY <3>1, <3>2, Zenon
  <2> QED
    BY <2>1, <2>2, Powers
<1>8. ConvertBits(words, 5, 8, FALSE) =
        IF Len(rest) >= 5 \/ Number(rest) # 0 THEN BadBits ELSE Groups(padded, 8)
  BY <1>2, <1>7 DEF ConvertBits
<1>9. Len(rest) = r /\ \A k \in 1..r : rest[k] = 0
  <2> DEFINE B == {0, 1}
             from == Len(padded) - (Len(padded) % 8) + 1
             to == Len(padded)
  <2>1. from = 8 * n + r - r + 1 /\ to = 8 * n + r /\ to = 5 * m
    <3>1. Len(padded) = 8 * n + r /\ n \in Nat
      BY <1>3, <1>4
    <3>2. Len(padded) - (Len(padded) % 8) + 1 = 8 * n + r - r + 1
      BY <1>6, <3>1
    <3> QED
      BY <1>4, <3>1, <3>2
  <2>2. from \in Int /\ to \in Int /\ from = 8 * n + 1 /\ to - from + 1 = r
        /\ (from <= to <=> r # 0) /\ to = 5 * m
    <3>1. \A a \in Nat, b \in 0..4 : a + b - b + 1 = a + 1 /\ a + b - (a + 1) + 1 = b
                                     /\ (a + 1 <= a + b <=> b # 0)
      OBVIOUS
    <3>2. 8 * n \in Nat
      BY <1>3
    <3> HIDE DEF from, to
    <3> QED
      BY <2>1, <3>1, <3>2
  <2>3. \A i \in from..to : padded[i] = 0 /\ padded[i] \in B
    BY <1>1, <2>2
  <2> HIDE DEF B, from, to
  <2>4. from \in Int /\ to \in Int /\ \A i \in from..to : padded[i] \in B
    BY <2>2, <2>3
  <2>5. /\ Len(SubSeq(padded, from, to)) = IF from <= to THEN to - from + 1 ELSE 0
        /\ \A i \in 1..(to - from + 1) : SubSeq(padded, from, to)[i] = padded[from + i - 1]
    BY <2>4, SubSeqProperties
  <2>6. \A i \in 1..r : from + i - 1 \in from..to
    BY <2>2
  <2>7. \A i \in 1..r : SubSeq(padded, from, to)[i] = 0
    BY <2>2, <2>3, <2>5, <2>6
  <2> QED
    BY <2>2, <2>5, <2>7 DEF from, to
<1> HIDE DEF rest
<1>10. Number(rest) = 0
  BY <1>9, NumberOfZeros
<1>11. ConvertBits(words, 5, 8, FALSE) = Groups(padded, 8)
  <2>1. ~(Len(rest) >= 5)
    BY <1>9
  <2> QED
    BY <1>8, <1>10, <2>1
<1>12. Groups(padded, 8) = [g \in 1..n |-> Number(SubSeq(padded, 8 * (g - 1) + 1, 8 * g))]
  BY <1>6 DEF Groups
<1>13. ASSUME NEW g \in 1..n
      PROVE  Number(SubSeq(padded, 8 * (g - 1) + 1, 8 * g)) = data[g]
  <2> DEFINE bits == SubSeq(padded, 8 * (g - 1) + 1, 8 * g)
  <2>1. 8 \in {5, 8} /\ 8 * n <= Len(padded)
    BY <1>1, <1>3
  <2>2. Len(bits) = 8 /\ \A j \in 1..8 : bits[j] = padded[8 * (g - 1) + j]
    BY <1>3, <2>1, GroupAt
  <2>3. \A j \in 1..8 : /\ 8 * (g - 1) + j \in 1..(8 * n)
                       /\ Bits(data, 8)[8 * (g - 1) + j] = (data[g] \div 2 ^ (8 - j)) % 2
    BY <1>3, <2>1, BitAt DEF n
  <2> HIDE DEF bits
  <2>4. \A j \in 1..8 : bits[j] = (data[g] \div 2 ^ (8 - j)) % 2
    BY <1>1, <2>2, <2>3
  <2>5. Number(bits) = data[g]
    BY <1>3, <2>2, <2>4, EightBits
  <2> QED
    BY <2>5 DEF bits
<1> QED
  BY <1>3, <1>11, <1>12, <1>13 DEF words

-----------------------------------------------------------------------------
(* The checksum *)

(* The bits of a digit, and eight digits                                   *)
Bit(a, i) == (a \div 2 ^ i) % 2
Digits8 == [1..8 -> 0..31]

(* The exclusive or of two digits is a digit, with the exclusive or of     *)
(* their bits.                                                             *)
LEMMA XorDef ==
  ASSUME NEW a \in 0..31, NEW b \in 0..31
  PROVE  /\ XorDigit(a, b) \in 0..31
         /\ \A i \in 0..4 : Bit(XorDigit(a, b), i) = (Bit(a, i) + Bit(b, i)) % 2
<1> DEFINE c(i) == ((a \div 2 ^ i) + (b \div 2 ^ i)) % 2
<1>1. \A i \in 0..4 : c(i) \in {0, 1}
  BY Powers
<1>2. XorDigit(a, b) = c(0) + 2 * c(1) + 4 * c(2) + 8 * c(3) + 16 * c(4)
  BY DEF XorDigit
<1>3. \A i \in 0..4 : c(i) = (Bit(a, i) + Bit(b, i)) % 2
  BY Powers DEF Bit
<1> HIDE DEF c
<1>4. /\ c(0) \in {0, 1} /\ c(1) \in {0, 1} /\ c(2) \in {0, 1} /\ c(3) \in {0, 1} /\ c(4) \in {0, 1}
  BY <1>1
<1>5. /\ XorDigit(a, b) % 2 = c(0) /\ (XorDigit(a, b) \div 2) % 2 = c(1)
      /\ (XorDigit(a, b) \div 4) % 2 = c(2) /\ (XorDigit(a, b) \div 8) % 2 = c(3)
      /\ (XorDigit(a, b) \div 16) % 2 = c(4)
  BY <1>2, <1>4
<1>6. Bit(XorDigit(a, b), 0) = XorDigit(a, b) % 2
  BY <1>2, <1>4, Powers DEF Bit
<1>7. ASSUME NEW i \in 0..4 PROVE Bit(XorDigit(a, b), i) = c(i)
  <2>1. i = 0 \/ i = 1 \/ i = 2 \/ i = 3 \/ i = 4
    OBVIOUS
  <2> QED
    BY <1>5, <1>6, <2>1, Powers DEF Bit
<1> QED
  BY <1>1, <1>2, <1>3, <1>4, <1>7

(* The same for one bit, of any two digits.                                *)
LEMMA XorBit ==
  ASSUME NEW i \in 0..4
  PROVE  \A a \in 0..31, b \in 0..31 : Bit(XorDigit(a, b), i) = (Bit(a, i) + Bit(b, i)) % 2
  BY XorDef

(* A bit of a digit is zero or one.                                        *)
LEMMA BitType ==
  ASSUME NEW a \in 0..31, NEW i \in 0..4 PROVE Bit(a, i) \in {0, 1}
<1>1. i = 0 \/ i = 1 \/ i = 2 \/ i = 3 \/ i = 4
  OBVIOUS
<1> QED
  BY <1>1, Powers DEF Bit

(* A digit is known by its five bits.                                      *)
LEMMA BitsDecide ==
  ASSUME NEW a \in 0..31, NEW b \in 0..31, \A i \in 0..4 : Bit(a, i) = Bit(b, i)
  PROVE  a = b
  BY Powers DEF Bit

(* The exclusive or does not care for the order.                           *)
LEMMA XorCommutes ==
  ASSUME NEW a \in 0..31, NEW b \in 0..31
  PROVE  XorDigit(a, b) = XorDigit(b, a)
<1>1. XorDigit(a, b) \in 0..31 /\ XorDigit(b, a) \in 0..31
  BY XorDef
<1>2. ASSUME NEW i \in 0..4 PROVE Bit(XorDigit(a, b), i) = Bit(XorDigit(b, a), i)
  <2>1. Bit(a, i) \in {0, 1} /\ Bit(b, i) \in {0, 1}
    BY BitType
  <2> QED
    BY <2>1, XorBit
<1> QED
  BY <1>1, <1>2, BitsDecide

(* Nor for the grouping.                                                   *)
LEMMA XorAssociates ==
  ASSUME NEW a \in 0..31, NEW b \in 0..31, NEW c \in 0..31
  PROVE  XorDigit(XorDigit(a, b), c) = XorDigit(a, XorDigit(b, c))
<1>1. XorDigit(a, b) \in 0..31 /\ XorDigit(b, c) \in 0..31
  BY XorDef
<1>2. XorDigit(XorDigit(a, b), c) \in 0..31 /\ XorDigit(a, XorDigit(b, c)) \in 0..31
  BY <1>1, XorDef
<1>3. ASSUME NEW i \in 0..4
      PROVE  Bit(XorDigit(XorDigit(a, b), c), i) = Bit(XorDigit(a, XorDigit(b, c)), i)
  <2>1. Bit(a, i) \in {0, 1} /\ Bit(b, i) \in {0, 1} /\ Bit(c, i) \in {0, 1}
    BY BitType
  <2>2. /\ Bit(XorDigit(a, b), i) = (Bit(a, i) + Bit(b, i)) % 2
        /\ Bit(XorDigit(b, c), i) = (Bit(b, i) + Bit(c, i)) % 2
    BY XorBit
  <2>3. /\ Bit(XorDigit(XorDigit(a, b), c), i) = (Bit(XorDigit(a, b), i) + Bit(c, i)) % 2
        /\ Bit(XorDigit(a, XorDigit(b, c)), i) = (Bit(a, i) + Bit(XorDigit(b, c), i)) % 2
    BY <1>1, XorBit, Zenon
  <2> QED
    BY <2>1, <2>2, <2>3
<1> QED
  BY <1>2, <1>3, BitsDecide

(* Done twice it undoes itself.                                            *)
LEMMA XorTwice ==
  ASSUME NEW a \in 0..31, NEW b \in 0..31
  PROVE  XorDigit(a, XorDigit(a, b)) = b
<1>1. XorDigit(a, b) \in 0..31
  BY XorDef
<1>2. XorDigit(a, XorDigit(a, b)) \in 0..31
  BY <1>1, XorDef
<1>3. ASSUME NEW i \in 0..4 PROVE Bit(XorDigit(a, XorDigit(a, b)), i) = Bit(b, i)
  <2>1. Bit(a, i) \in {0, 1} /\ Bit(b, i) \in {0, 1}
    BY BitType
  <2>2. Bit(XorDigit(a, b), i) = (Bit(a, i) + Bit(b, i)) % 2
    BY XorBit
  <2>3. Bit(XorDigit(a, XorDigit(a, b)), i) = (Bit(a, i) + Bit(XorDigit(a, b), i)) % 2
    BY <1>1, XorBit, Zenon
  <2> QED
    BY <2>1, <2>2, <2>3
<1> QED
  BY <1>2, <1>3, BitsDecide

(* Zero changes nothing.                                                   *)
LEMMA XorZero ==
  ASSUME NEW a \in 0..31 PROVE XorDigit(0, a) = a
<1>1. 0 \in 0..31
  OBVIOUS
<1>2. XorDigit(0, a) \in 0..31
  BY <1>1, XorDef
<1>3. ASSUME NEW i \in 0..4 PROVE Bit(XorDigit(0, a), i) = Bit(a, i)
  <2>1. i = 0 \/ i = 1 \/ i = 2 \/ i = 3 \/ i = 4
    OBVIOUS
  <2>2. /\ 0 \div 1 = 0 /\ 0 \div 2 = 0 /\ 0 \div 4 = 0 /\ 0 \div 8 = 0 /\ 0 \div 16 = 0
        /\ 0 % 2 = 0
    OBVIOUS
  <2>3. Bit(0, 0) = 0 /\ Bit(0, 1) = 0 /\ Bit(0, 2) = 0 /\ Bit(0, 3) = 0 /\ Bit(0, 4) = 0
    BY <2>2, Powers DEF Bit
  <2>4. Bit(0, i) = 0
    BY <2>1, <2>3
  <2>5. Bit(XorDigit(0, a), i) = (Bit(0, i) + Bit(a, i)) % 2
    BY <1>1, XorBit
  <2>6. Bit(a, i) \in {0, 1}
    BY BitType
  <2> QED
    BY <2>4, <2>5, <2>6
<1> QED
  BY <1>2, <1>3, BitsDecide

(* The last two of three may be swapped.                                   *)
LEMMA XorSwap ==
  ASSUME NEW a \in 0..31, NEW b \in 0..31, NEW c \in 0..31
  PROVE  XorDigit(XorDigit(a, b), c) = XorDigit(XorDigit(a, c), b)
<1>1. XorDigit(XorDigit(a, b), c) = XorDigit(a, XorDigit(b, c))
  BY XorAssociates
<1>2. XorDigit(XorDigit(a, c), b) = XorDigit(a, XorDigit(c, b))
  BY XorAssociates
<1>3. XorDigit(b, c) = XorDigit(c, b)
  BY XorCommutes
<1> QED
  BY <1>1, <1>2, <1>3

(* Eight digits at once.                                                   *)
LEMMA XorType ==
  ASSUME NEW x \in Digits8, NEW y \in Digits8
  PROVE  Xor(x, y) \in Digits8 /\ \A d \in 1..8 : Xor(x, y)[d] = XorDigit(x[d], y[d])
<1>1. \A d \in 1..8 : XorDigit(x[d], y[d]) \in 0..31
  BY XorDef DEF Digits8
<1> QED
  BY <1>1 DEF Xor, Digits8

(* The generators are eight digits each.                                   *)
LEMMA GenIn == ASSUME NEW i \in 1..5 PROVE GenDigits(i) \in [1..8 -> 0..31]
<1>1. ASSUME NEW d \in 1..8
      PROVE  (Gen[i][(d + 3) \div 4] \div 32 ^ (3 - ((d - 1) % 4))) % 32 \in 0..31
  <2>1. (d + 3) \div 4 \in 1..2 /\ 3 - ((d - 1) % 4) \in 0..3
    OBVIOUS
  <2>2. Gen[i][(d + 3) \div 4] \in Nat
    BY <2>1 DEF Gen
  <2>3. 32 ^ 0 = 1 /\ 32 ^ 1 = 32 /\ 32 ^ 2 = 1024 /\ 32 ^ 3 = 32768
    OBVIOUS
  <2> DEFINE e == 3 - ((d - 1) % 4)
  <2> HIDE DEF e
  <2>4. e = 0 \/ e = 1 \/ e = 2 \/ e = 3
    BY <2>1 DEF e
  <2>5. 32 ^ e \in {1, 32, 1024, 32768}
    <3>1. CASE e = 0
      BY <2>3, <3>1
    <3>2. CASE e = 1
      BY <2>3, <3>2
    <3>3. CASE e = 2
      BY <2>3, <3>3
    <3>4. CASE e = 3
      BY <2>3, <3>4
    <3> QED
      BY <2>4, <3>1, <3>2, <3>3, <3>4
  <2>6. \A n \in Nat, p \in {1, 32, 1024, 32768} : (n \div p) % 32 \in 0..31
    OBVIOUS
  <2> QED
    BY <2>2, <2>6, <2>5 DEF e
<1> QED
  BY <1>1 DEF GenDigits

(* So is what they feed back.                                              *)
LEMMA FeedbackType ==
  ASSUME NEW top \in 0..31 PROVE Feedback[top] \in Digits8
<1>1. Zero \in Digits8
  BY DEF Zero, Digits8
<1>2. \A i \in 1..5 : Generator(top, i) \in Digits8
  BY <1>1, GenIn DEF Generator, Digits8
<1>3. Feedback[top] = Xor(Generator(top, 1), Xor(Generator(top, 2),
                        Xor(Generator(top, 3), Xor(Generator(top, 4), Generator(top, 5)))))
  BY DEF Feedback
<1>4. Xor(Generator(top, 4), Generator(top, 5)) \in Digits8
  BY <1>2, XorType
<1>5. Xor(Generator(top, 3), Xor(Generator(top, 4), Generator(top, 5))) \in Digits8
  BY <1>2, <1>4, XorType
<1>6. Xor(Generator(top, 2), Xor(Generator(top, 3), Xor(Generator(top, 4), Generator(top, 5))))
        \in Digits8
  BY <1>2, <1>5, XorType
<1> QED
  BY <1>2, <1>3, <1>6, XorType

(* Checks satisfies its own equation.                                      *)
LEMMA ChecksDef ==
  ASSUME NEW values, Len(values) \in Nat
  PROVE  Checks(values) =
           [k \in 0..Len(values) |->
              IF k = 0 THEN One
              ELSE Xor(Shifted(Checks(values)[k - 1], values[k]),
                       Feedback[Checks(values)[k - 1][1]])]
<1> DEFINE After(chk, v) == Xor(Shifted(chk, v), Feedback[chk[1]])
           Solves(n, f) == f = [k \in 0..n |-> IF k = 0 THEN One ELSE After(f[k - 1], values[k])]
           S == {n \in Nat : \E f : Solves(n, f)}
<1>1. Checks(values) = CHOOSE f : Solves(Len(values), f)
  BY DEF Checks
<1> HIDE DEF After
<1>2. 0 \in S
  <2>1. Solves(0, [k \in 0..0 |-> One])
    OBVIOUS
  <2> QED
    BY <2>1
<1>3. ASSUME NEW n \in Nat, n \in S PROVE n + 1 \in S
  <2>1. PICK f : Solves(n, f)
    BY <1>3
  <2> DEFINE g == [k \in 0..(n + 1) |-> IF k <= n THEN f[k] ELSE After(f[n], values[n + 1])]
             h == [k \in 0..(n + 1) |-> IF k = 0 THEN One ELSE After(g[k - 1], values[k])]
  <2>2. ASSUME NEW k \in 0..(n + 1) PROVE g[k] = h[k]
    <3>1. CASE k = 0
      BY <2>1, <3>1
    <3>2. CASE k \in 1..n
      BY <2>1, <3>2
    <3>3. CASE k = n + 1
      BY <2>1, <3>3
    <3> QED
      BY <3>1, <3>2, <3>3
  <2>3. g = h
    BY <2>2
  <2>4. Solves(n + 1, g)
    BY <2>3
  <2>5. \E f_1 : Solves(n + 1, f_1)
    <3> HIDE DEF g, Solves
    <3> QED
      BY <2>4
  <2> HIDE DEF Solves
  <2> QED
    BY <2>5
<1> HIDE DEF S
<1>4. Nat \subseteq S
  BY <1>2, <1>3, NatSetInduction
<1>5. \E f : Solves(Len(values), f)
  BY <1>4 DEF S
<1>6. Solves(Len(values), Checks(values))
  <2> HIDE DEF Solves
  <2> QED
    BY <1>5, <1>1
<1> QED
  BY <1>6 DEF After

(* One value more shifts the checksum and feeds back its top digit.        *)
LEMMA CheckStep ==
  ASSUME NEW values, Len(values) \in Nat, NEW k \in Nat, k < Len(values)
  PROVE  Checks(values)[k + 1] =
           Xor(Shifted(Checks(values)[k], values[k + 1]), Feedback[Checks(values)[k][1]])
<1>1. k + 1 \in 0..Len(values) /\ k + 1 # 0 /\ (k + 1) - 1 = k
  OBVIOUS
<1> QED
  BY <1>1, ChecksDef

(* The checksum of digits is eight digits, at every length.                *)
LEMMA ChecksType ==
  ASSUME NEW values, Len(values) \in Nat, \A k \in 1..Len(values) : values[k] \in 0..31,
         NEW n \in 0..Len(values)
  PROVE  Checks(values)[n] \in Digits8
<1> DEFINE S == {k \in Nat : k <= Len(values) => Checks(values)[k] \in Digits8}
<1>1. 0 \in S
  <2>1. One \in Digits8
    <3>1. Zero \in Digits8
      BY DEF Zero, Digits8
    <3>2. 1 \in 0..31
      OBVIOUS
    <3> QED
      BY <3>1, <3>2 DEF One, Digits8
  <2>2. Checks(values)[0] = One
    BY ChecksDef
  <2> QED
    BY <2>1, <2>2
<1>2. ASSUME NEW k \in Nat, k \in S PROVE k + 1 \in S
  <2>1. SUFFICES ASSUME k + 1 <= Len(values) PROVE Checks(values)[k + 1] \in Digits8
    OBVIOUS
  <2> DEFINE chk == Checks(values)[k]
  <2>2. chk \in Digits8
    BY <1>2, <2>1
  <2>3. Checks(values)[k + 1] = Xor(Shifted(chk, values[k + 1]), Feedback[chk[1]])
    BY <2>1, CheckStep
  <2>4. values[k + 1] \in 0..31
    BY <2>1
  <2> HIDE DEF chk
  <2>5. Shifted(chk, values[k + 1]) \in Digits8 /\ chk[1] \in 0..31
    BY <2>2, <2>4 DEF Shifted, Digits8
  <2> QED
    BY <2>3, <2>5, FeedbackType, XorType
<1> HIDE DEF S
<1>3. Nat \subseteq S
  BY <1>1, <1>2, NatSetInduction
<1> QED
  BY <1>3 DEF S

(* Values that agree so far have the same checksum so far.                 *)
LEMMA ChecksAgree ==
  ASSUME NEW one, NEW other, Len(one) \in Nat, Len(other) \in Nat, NEW n \in Nat,
         n <= Len(one), n <= Len(other), \A k \in 1..n : one[k] = other[k]
  PROVE  Checks(one)[n] = Checks(other)[n]
<1> DEFINE S == {k \in Nat : k <= n => Checks(one)[k] = Checks(other)[k]}
<1>1. 0 \in S
  BY ChecksDef
<1>2. ASSUME NEW k \in Nat, k \in S PROVE k + 1 \in S
  <2>1. SUFFICES ASSUME k + 1 <= n PROVE Checks(one)[k + 1] = Checks(other)[k + 1]
    OBVIOUS
  <2>2. /\ Checks(one)[k + 1] =
             Xor(Shifted(Checks(one)[k], one[k + 1]), Feedback[Checks(one)[k][1]])
        /\ Checks(other)[k + 1] =
             Xor(Shifted(Checks(other)[k], other[k + 1]), Feedback[Checks(other)[k][1]])
    BY <2>1, CheckStep
  <2>3. one[k + 1] = other[k + 1]
    BY <2>1
  <2> QED
    BY <1>2, <2>1, <2>2, <2>3
<1> HIDE DEF S
<1>3. Nat \subseteq S
  BY <1>1, <1>2, NatSetInduction
<1> QED
  BY <1>3 DEF S

(* The values of both are digits and the first n the same; the last eight  *)
(* of the one are zero.                                                    *)
DifferInLast(one, other, n) ==
  /\ Len(one) = n + 8 /\ Len(other) = n + 8
  /\ \A k \in 1..(n + 8) : one[k] \in 0..31 /\ other[k] \in 0..31
  /\ \A k \in 1..n : one[k] = other[k]
  /\ \A k \in (n + 1)..(n + 8) : one[k] = 0

(* Eight values in place of eight zeros change the checksum by themselves: *)
(* until the last of them is in, none has reached the top digit, whose     *)
(* feedback is all that depends on what is in the register.                *)
LEMMA DigitsDiffer ==
  ASSUME NEW one, NEW other, NEW n \in Nat, DifferInLast(one, other, n), NEW d \in 1..8
  PROVE  Checks(other)[n + 8][d] = XorDigit(Checks(one)[n + 8][d], other[n + d])
<1>1. /\ Len(one) = n + 8 /\ Len(other) = n + 8
      /\ \A k \in 1..(n + 8) : one[k] \in 0..31 /\ other[k] \in 0..31
      /\ \A k \in 1..n : one[k] = other[k]
      /\ \A k \in (n + 1)..(n + 8) : one[k] = 0
  BY DEF DifferInLast
<1> USE <1>1
<1> DEFINE P(i) == Checks(one)[n + i]
           Q(i) == Checks(other)[n + i]
           v(i) == other[n + i]
           Differ(i) == \A e \in 1..8 :
                          Q(i)[e] = IF e <= 8 - i THEN P(i)[e]
                                    ELSE XorDigit(P(i)[e], v(e - 8 + i))
           S == {i \in Nat : i <= 8 => Differ(i)}
<1>2. \A i \in 0..8 : P(i) \in Digits8 /\ Q(i) \in Digits8
  <2>1. ASSUME NEW i \in 0..8 PROVE P(i) \in Digits8 /\ Q(i) \in Digits8
    <3>1. n + i \in 0..Len(one) /\ n + i \in 0..Len(other) /\ n + 8 \in Nat
      OBVIOUS
    <3>2. /\ \A k \in 1..Len(one) : one[k] \in 0..31
          /\ \A k \in 1..Len(other) : other[k] \in 0..31
      OBVIOUS
    <3>3. Checks(one)[n + i] \in Digits8
      BY <3>1, <3>2, ChecksType
    <3>4. Checks(other)[n + i] \in Digits8
      BY <3>1, <3>2, ChecksType
    <3> QED
      BY <3>3, <3>4
  <2> QED
    BY <2>1
<1>3. \A i \in 1..8 : v(i) \in 0..31
  OBVIOUS
<1>4. 0 \in S
  <2>1. n <= Len(one) /\ n <= Len(other) /\ Len(one) \in Nat /\ Len(other) \in Nat /\ n + 0 = n
    OBVIOUS
  <2>2. Checks(one)[n] = Checks(other)[n]
    BY <2>1, ChecksAgree
  <2>3. P(0) = Q(0)
    BY <2>1, <2>2
  <2>4. Differ(0)
    BY <2>3
  <2> QED
    BY <2>4
<1>5. ASSUME NEW i \in 0..7
      PROVE  /\ P(i + 1) = Xor(Shifted(P(i), 0), Feedback[P(i)[1]])
             /\ Q(i + 1) = Xor(Shifted(Q(i), v(i + 1)), Feedback[Q(i)[1]])
  <2>1. n + i \in Nat /\ n + i < n + 8 /\ n + (i + 1) = (n + i) + 1 /\ i + 1 \in 1..8
    OBVIOUS
  <2>2. one[n + (i + 1)] = 0
    BY <2>1
  <2>3. ASSUME NEW s, Len(s) = n + 8
        PROVE  Checks(s)[(n + i) + 1] =
                 Xor(Shifted(Checks(s)[n + i], s[(n + i) + 1]), Feedback[Checks(s)[n + i][1]])
    <3> DEFINE k == n + i
    <3>1. k \in Nat /\ k < Len(s) /\ Len(s) \in Nat
      BY <2>1, <2>3
    <3> HIDE DEF k
    <3>2. Checks(s)[k + 1] = Xor(Shifted(Checks(s)[k], s[k + 1]), Feedback[Checks(s)[k][1]])
      BY <3>1, CheckStep
    <3> QED
      BY <3>2 DEF k
  <2>4. (n + i) + 1 = n + (i + 1)
    BY <2>1
  <2> QED
    BY <2>2, <2>3, <2>4
<1> HIDE DEF P, Q, v
<1>6. ASSUME NEW i \in Nat, i \in S PROVE i + 1 \in S
  <2>1. SUFFICES ASSUME i \in 0..7 PROVE Differ(i + 1)
    OBVIOUS
  <2>2. Differ(i) /\ P(i) \in Digits8 /\ Q(i) \in Digits8
    BY <1>2, <1>6, <2>1
  <2>3. Q(i)[1] = P(i)[1] /\ P(i)[1] \in 0..31
    BY <2>1, <2>2 DEF Digits8
  <2> DEFINE F == Feedback[P(i)[1]]
  <2>4. F \in Digits8
    BY <2>3, FeedbackType
  <2>5. v(i + 1) \in 0..31
    <3>1. i + 1 \in 1..8
      BY <2>1
    <3> QED
      BY <1>3, <3>1
  <2>6. Shifted(P(i), 0) \in Digits8 /\ Shifted(Q(i), v(i + 1)) \in Digits8
    BY <2>2, <2>5 DEF Shifted, Digits8
  <2>7. \A e \in 1..8 : /\ P(i + 1)[e] = XorDigit(Shifted(P(i), 0)[e], F[e])
                        /\ Q(i + 1)[e] = XorDigit(Shifted(Q(i), v(i + 1))[e], F[e])
    <3>1. P(i + 1) = Xor(Shifted(P(i), 0), F) /\ Q(i + 1) = Xor(Shifted(Q(i), v(i + 1)), F)
      BY <1>5, <2>1, <2>3
    <3>2. ASSUME NEW x \in Digits8, NEW e \in 1..8 PROVE Xor(x, F)[e] = XorDigit(x[e], F[e])
      <4> HIDE DEF F
      <4> QED
        BY <2>4, <3>2, XorType
    <3> HIDE DEF F
    <3> QED
      BY <2>6, <3>1, <3>2
  <2>8. ASSUME NEW e \in 1..8
        PROVE  Q(i + 1)[e] = IF e <= 8 - (i + 1) THEN P(i + 1)[e]
                             ELSE XorDigit(P(i + 1)[e], v(e - 8 + (i + 1)))
    <3>1. F[e] \in 0..31
      BY <2>4 DEF Digits8
    <3>2. ASSUME NEW a \in 0..31, NEW b \in 0..31
          PROVE  XorDigit(XorDigit(a, b), F[e]) = XorDigit(XorDigit(a, F[e]), b)
      <4> HIDE DEF F
      <4> QED
        BY <3>1, XorSwap
    <3>3. CASE e = 8
      <4>1. Shifted(P(i), 0)[e] = 0 /\ Shifted(Q(i), v(i + 1))[e] = v(i + 1)
        BY <3>3 DEF Shifted
      <4>2. v(i + 1) = XorDigit(0, v(i + 1))
        BY <2>5, XorZero
      <4>3. 0 \in 0..31 /\ ~(e <= 8 - (i + 1)) /\ e - 8 + (i + 1) = i + 1
        BY <2>1, <3>3
      <4>4. Q(i + 1)[e] = XorDigit(XorDigit(0, v(i + 1)), F[e]) /\ P(i + 1)[e] = XorDigit(0, F[e])
        BY <2>7, <4>1, <4>2
      <4> QED
        BY <2>5, <3>2, <4>3, <4>4
    <3>4. CASE e # 8
      <4>1. Shifted(P(i), 0)[e] = P(i)[e + 1] /\ Shifted(Q(i), v(i + 1))[e] = Q(i)[e + 1]
        BY <3>4 DEF Shifted
      <4>2. e + 1 \in 1..8 /\ (e + 1 <= 8 - i <=> e <= 8 - (i + 1))
            /\ (e + 1) - 8 + i = e - 8 + (i + 1)
        BY <2>1, <3>4
      <4>3. P(i)[e + 1] \in 0..31
        BY <2>2, <4>2 DEF Digits8
      <4>4. CASE e <= 8 - (i + 1)
        <5>1. Q(i)[e + 1] = P(i)[e + 1]
          BY <2>2, <4>2, <4>4
        <5> QED
          BY <2>7, <4>1, <4>4, <5>1
      <4>5. CASE ~(e <= 8 - (i + 1))
        <5>1. Q(i)[e + 1] = XorDigit(P(i)[e + 1], v(e - 8 + (i + 1)))
          BY <2>2, <4>2, <4>5
        <5>2. e - 8 + (i + 1) \in 1..8
          BY <2>1, <4>5
        <5>3. v(e - 8 + (i + 1)) \in 0..31
          BY <1>3, <5>2
        <5>4. XorDigit(XorDigit(P(i)[e + 1], v(e - 8 + (i + 1))), F[e])
                = XorDigit(XorDigit(P(i)[e + 1], F[e]), v(e - 8 + (i + 1)))
          BY <3>2, <4>3, <5>3
        <5> QED
          BY <2>7, <4>1, <4>5, <5>1, <5>4
      <4> QED
        BY <4>4, <4>5
    <3> QED
      BY <3>3, <3>4
  <2> QED
    BY <2>8
<1> HIDE DEF S
<1>7. Nat \subseteq S
  BY <1>4, <1>6, NatSetInduction
<1>8. Differ(8)
  <2> HIDE DEF Differ
  <2>1. 8 \in S /\ 8 <= 8
    BY <1>7
  <2> QED
    BY <2>1 DEF S
<1>9. Q(8)[d] = XorDigit(P(8)[d], v(d - 8 + 8)) /\ d - 8 + 8 = d
  <2>1. ~(d <= 8 - 8) /\ d - 8 + 8 = d
    OBVIOUS
  <2> QED
    BY <1>8, <2>1
<1>10. Q(8)[d] = XorDigit(P(8)[d], v(d))
  BY <1>9
<1> QED
  BY <1>10 DEF P, Q, v

(* create_checksum makes what verify_checksum takes, for every network     *)
(* prefix and all words.                                                   *)
LEMMA ChecksumVerifies ==
  ASSUME NEW words \in Seq(0..31), NEW prefix \in Seq(0..31)
  PROVE  /\ CreateChecksum(prefix, words) \in Seq(0..31)
         /\ Len(CreateChecksum(prefix, words)) = 8
         /\ VerifyChecksum(prefix, words \o CreateChecksum(prefix, words))
<1> DEFINE head == prefix \o <<0>> \o words
           n == Len(head)
           chk == CreateChecksum(prefix, words)
           one == head \o Zero
           other == head \o chk
<1>1. head \in Seq(0..31) /\ n \in Nat
  <2>1. <<0>> \in Seq(0..31)
    OBVIOUS
  <2> QED
    BY <2>1
<1>2. Zero \in Digits8 /\ One \in Digits8
  <2>1. Zero \in Digits8 /\ 1 \in 0..31
    BY DEF Zero, Digits8
  <2> QED
    BY <2>1 DEF One, Digits8
<1>3. \A s \in Digits8 : s \in Seq(0..31) /\ Len(s) = 8
  <2>1. ASSUME NEW s \in Digits8 PROVE s \in Seq(0..31) /\ Len(s) = 8
    <3>1. s \in [1..8 -> 0..31] /\ 8 \in Nat
      BY DEF Digits8
    <3>2. s \in Seq(0..31)
      BY <3>1, SeqDef
    <3>3. DOMAIN s = 1..8
      BY <3>1
    <3> QED
      BY <3>1, <3>2, <3>3, LenProperties
  <2> QED
    BY <2>1
<1> HIDE DEF head
<1> HIDE DEF n
<1>4. ASSUME NEW s \in Digits8
      PROVE  /\ Len(head \o s) = n + 8
             /\ \A k \in 1..n : (head \o s)[k] = head[k]
             /\ \A k \in 1..8 : (head \o s)[n + k] = s[k]
             /\ \A k \in 1..(n + 8) : (head \o s)[k] \in 0..31
  <2>1. s \in Seq(0..31) /\ Len(s) = 8 /\ Len(head) = n
    BY <1>3 DEF n
  <2>2. /\ head \o s \in Seq(0..31) /\ Len(head \o s) = Len(head) + Len(s)
        /\ \A k \in 1..(Len(head) + Len(s)) :
             (head \o s)[k] = IF k <= Len(head) THEN head[k] ELSE s[k - Len(head)]
    BY <1>1, <2>1, ConcatProperties, Zenon
  <2>3. /\ Len(head \o s) = n + 8
        /\ \A k \in 1..(n + 8) : (head \o s)[k] = IF k <= n THEN head[k] ELSE s[k - n]
    BY <2>1, <2>2
  <2>4. \A k \in 1..8 : n + k \in 1..(n + 8) /\ ~(n + k <= n) /\ (n + k) - n = k
    BY <1>1
  <2>5. \A k \in 1..n : k \in 1..(n + 8) /\ k <= n
    BY <1>1
  <2>6. \A k \in 1..(n + 8) : (head \o s)[k] \in 0..31
    BY <2>2, <2>3, ElementOfSeq
  <2> QED
    BY <2>3, <2>4, <2>5, <2>6
<1>5. /\ Len(one) = n + 8 /\ \A k \in 1..(n + 8) : one[k] \in 0..31
      /\ \A k \in 1..8 : one[n + k] = 0
  <2>1. \A k \in 1..8 : Zero[k] = 0
    BY DEF Zero
  <2> QED
    BY <1>2, <1>4, <2>1
<1> DEFINE poly == Checks(one)[n + 8]
<1>6. poly \in Digits8 /\ chk = Xor(poly, One)
  <2>1. poly \in Digits8
    <3>1. n + 8 \in 0..Len(one) /\ Len(one) \in Nat
      BY <1>1, <1>5
    <3> QED
      BY <1>5, <3>1, ChecksType
  <2>2. one = prefix \o <<0>> \o words \o Zero
    BY DEF head
  <2> QED
    BY <1>5, <2>1, <2>2 DEF CreateChecksum, Polymod
<1> HIDE DEF chk
<1>7. chk \in Digits8 /\ \A d \in 1..8 : chk[d] = XorDigit(poly[d], One[d])
  BY <1>2, <1>6, XorType
<1>8. /\ Len(other) = n + 8 /\ \A k \in 1..(n + 8) : other[k] \in 0..31
      /\ \A k \in 1..n : one[k] = other[k]
      /\ \A k \in 1..8 : other[n + k] = chk[k]
  BY <1>2, <1>4, <1>7
<1> DEFINE got == Checks(other)[n + 8]
<1>9. got \in Digits8
  <2>1. n + 8 \in 0..Len(other) /\ Len(other) \in Nat
    BY <1>1, <1>8
  <2> QED
    BY <1>8, <2>1, ChecksType
<1>10. ASSUME NEW d \in 1..8 PROVE got[d] = One[d]
  <2>1. got[d] = XorDigit(poly[d], other[n + d])
    <3>1. n \in Nat
      BY <1>1
    <3>2. \A k \in 1..(n + 8) : one[k] \in 0..31 /\ other[k] \in 0..31
      BY <1>5, <1>8
    <3>3. Len(one) = n + 8 /\ Len(other) = n + 8
      BY <1>5, <1>8
    <3>4. \A k \in 1..n : one[k] = other[k]
      BY <1>8
    <3>5. \A k \in (n + 1)..(n + 8) : one[k] = 0
      <4>1. ASSUME NEW k \in (n + 1)..(n + 8) PROVE one[k] = 0
        <5>1. k - n \in 1..8 /\ n + (k - n) = k
          BY <3>1
        <5> QED
          BY <1>5, <5>1
      <4> QED
        BY <4>1
    <3>6. DifferInLast(one, other, n)
      <4> HIDE DEF one, other
      <4> QED
        BY <3>1, <3>2, <3>3, <3>4, <3>5 DEF DifferInLast
    <3> HIDE DEF one, other
    <3> QED
      BY <3>1, <3>6, DigitsDiffer
  <2>2. other[n + d] = XorDigit(poly[d], One[d])
    <3> HIDE DEF one, other, poly
    <3>1. other[n + d] = chk[d]
      BY <1>8
    <3>2. chk[d] = XorDigit(poly[d], One[d])
      BY <1>7
    <3> QED
      BY <3>1, <3>2
  <2>3. poly[d] \in 0..31 /\ One[d] \in 0..31
    BY <1>2, <1>6 DEF Digits8
  <2> DEFINE p == poly[d]
  <2>4. p \in 0..31 /\ got[d] = XorDigit(p, XorDigit(p, One[d]))
    <3> HIDE DEF one, other, poly, got
    <3> QED
      BY <2>1, <2>2, <2>3
  <2> HIDE DEF one, other, poly, got, p
  <2> QED
    BY <2>3, <2>4, XorTwice
<1>11. got = One
  <2> HIDE DEF got
  <2>1. got \in [1..8 -> 0..31] /\ One \in [1..8 -> 0..31]
    BY <1>2, <1>9 DEF Digits8
  <2> QED
    BY <1>10, <2>1
<1>12. prefix \o <<0>> \o (words \o chk) = other
  <2>1. chk \in Seq(0..31) /\ <<0>> \in Seq(0..31)
    BY <1>3, <1>7
  <2>2. prefix \o <<0>> \in Seq(0..31)
    BY <2>1
  <2> QED
    BY <2>1, <2>2 DEF head
<1>13. VerifyChecksum(prefix, words \o chk)
  BY <1>8, <1>11, <1>12 DEF VerifyChecksum, Polymod
<1> QED
  BY <1>3, <1>7, <1>13 DEF chk

-----------------------------------------------------------------------------
(* Addresses *)

(* decode_address gives the key back of which encode_address made the      *)
(* address, for every key and network.                                     *)
THEOREM AddressRoundTrip ==
  ASSUME NEW key \in Seq(0..255), Len(key) = KeyLength, NEW network \in Networks
  PROVE  DecodeAddress(EncodeAddress(key, network)) = [ok |-> TRUE, key |-> key]
<1> DEFINE data == Versioned(key)
           words == ConvertBits(data, 8, 5, TRUE)
           prefix == PrefixOf(network)
           sum == CreateChecksum(prefix, words)
           address == EncodeAddress(key, network)
<1>1. /\ data \in Seq(0..255) /\ Len(data) = KeyLength + 1
      /\ data[1] = 0 /\ data # <<>> /\ Tail(data) = key
  <2> DEFINE B == 0..255
             head == <<0>>
  <2>1. head \in Seq(B) /\ Len(head) = 1 /\ head[1] = 0
    OBVIOUS
  <2>2. key \in Seq(B) /\ Len(key) \in Nat
    BY AddressAssumption
  <2> HIDE DEF B, head
  <2>3. /\ head \o key \in Seq(B) /\ Len(head \o key) = Len(head) + Len(key)
        /\ \A i \in 1..(Len(head) + Len(key)) :
             (head \o key)[i] = IF i <= Len(head) THEN head[i] ELSE key[i - Len(head)]
    BY <2>1, <2>2, ConcatProperties
  <2>4. Len(head \o key) = KeyLength + 1 /\ (head \o key)[1] = 0
    BY <2>1, <2>2, <2>3
  <2>5. head \o key # <<>>
    BY <2>2, <2>4, EmptySeq
  <2>6. Tail(head \o key) = key
    <3> DEFINE whole == head \o key
    <3>1. whole \in Seq(B) /\ whole # <<>>
      BY <2>3, <2>5
    <3>2. Len(whole) = KeyLength + 1
      BY <2>4
    <3>3. \A i \in 1..KeyLength : whole[i + 1] = key[i]
      BY <2>1, <2>2, <2>3
    <3> HIDE DEF whole
    <3>4. Tail(whole) \in Seq(B) /\ Len(Tail(whole)) = Len(whole) - 1
          /\ \A i \in 1..Len(Tail(whole)) : Tail(whole)[i] = whole[i + 1]
      BY <3>1, HeadTailProperties
    <3>5. Len(Tail(whole)) = KeyLength
      BY <2>2, <3>4, <3>2
    <3>6. /\ Tail(whole) \in [1..KeyLength -> B]
          /\ key \in [1..KeyLength -> B]
      BY <2>2, <3>4, <3>5, LenProperties
    <3>7. Tail(whole) = key
      BY <3>4, <3>5, <3>6, <3>3
    <3> QED
      BY <3>7 DEF whole
  <2> QED
    BY <2>3, <2>4, <2>5, <2>6 DEF Versioned, B, head
<1>2. prefix \in Seq(0..31)
  <2>1. /\ <<11, 1, 19, 16, 1>> \in Seq(0..31)
        /\ <<11, 1, 19, 16, 1, 19, 9, 13>> \in Seq(0..31)
        /\ <<11, 1, 19, 16, 1, 4, 5, 22>> \in Seq(0..31)
        /\ <<11, 1, 19, 16, 1, 20, 5, 19, 20>> \in Seq(0..31)
    OBVIOUS
  <2>2. CASE network = "mainnet"
    <3>1. prefix = <<11, 1, 19, 16, 1>>
      BY <2>2 DEF PrefixOf
    <3> QED
      BY <2>1, <3>1, Zenon
  <2>3. CASE network = "simnet"
    <3>1. prefix = <<11, 1, 19, 16, 1, 19, 9, 13>>
      BY <2>3 DEF PrefixOf
    <3> QED
      BY <2>1, <3>1, Zenon
  <2>4. CASE network = "devnet"
    <3>1. prefix = <<11, 1, 19, 16, 1, 4, 5, 22>>
      BY <2>4 DEF PrefixOf
    <3> QED
      BY <2>1, <3>1, Zenon
  <2>5. CASE network \in {"testnet", "testnet-10", "testnet-11"}
    <3>1. prefix = <<11, 1, 19, 16, 1, 20, 5, 19, 20>>
      BY <2>5 DEF PrefixOf
    <3> QED
      BY <2>1, <3>1, Zenon
  <2> QED
    BY <2>2, <2>3, <2>4, <2>5 DEF Networks
<1> HIDE DEF data, prefix
<1>3. PICK padded \in Seq({0, 1}), m \in Nat, r \in 0..4 :
        Padding(data, padded, m, r) /\ words = Groups(padded, 5)
  BY <1>1, ToWords
<1>4. ConvertBits(words, 5, 8, FALSE) = data
  BY <1>1, <1>3, WordsConvertBack
<1>5. words \in Seq(0..31)
  <2>1. Len(padded) = 5 * m
    BY <1>3 DEF Padding
  <2> QED
    BY <1>3, <2>1, WordsOfBits
<1> HIDE DEF words
<1>6. sum \in Seq(0..31) /\ Len(sum) = 8 /\ VerifyChecksum(prefix, words \o sum)
  BY <1>2, <1>5, ChecksumVerifies
<1>7. address.prefix = prefix /\ address.data = words \o sum
  BY DEF EncodeAddress, data, words, prefix
<1> HIDE DEF sum, address
<1>8. ~(Len(address.data) < 8) /\ SubSeq(address.data, 1, Len(address.data) - 8) = words
  <2> DEFINE B == 0..31
             whole == words \o sum
             n == Len(words)
  <2>1. words \in Seq(B) /\ sum \in Seq(B) /\ n \in Nat /\ words \in [1..n -> B]
    BY <1>5, <1>6, LenProperties
  <2> HIDE DEF B, n
  <2>2. /\ whole \in Seq(B) /\ Len(whole) = Len(words) + Len(sum)
        /\ \A i \in 1..(Len(words) + Len(sum)) :
             whole[i] = IF i <= Len(words) THEN words[i] ELSE sum[i - Len(words)]
    BY <2>1, ConcatProperties
  <2>3. Len(whole) = n + 8 /\ \A i \in 1..n : whole[i] = words[i]
    BY <1>6, <2>1, <2>2 DEF n
  <2> HIDE DEF whole
  <2>4. \A i \in 1..n : whole[i] \in B
    BY <2>1, <2>3
  <2>5. 1 \in Int /\ n \in Int /\ n - 1 + 1 = n /\ (1 <= n <=> n # 0)
        /\ \A i \in 1..n : 1 + i - 1 = i
    BY <2>1
  <2> DEFINE cut == SubSeq(whole, 1, n)
  <2>6. /\ cut \in Seq(B) /\ Len(cut) = IF 1 <= n THEN n - 1 + 1 ELSE 0
        /\ \A i \in 1..(n - 1 + 1) : cut[i] = whole[1 + i - 1]
    BY <2>4, <2>5, SubSeqProperties
  <2> HIDE DEF cut
  <2>7. Len(cut) = n /\ \A i \in 1..n : cut[i] = words[i]
    BY <2>3, <2>5, <2>6
  <2>8. cut \in [1..n -> B]
    BY <2>6, <2>7, LenProperties
  <2>9. cut = words
    BY <2>1, <2>7, <2>8
  <2>10. Len(whole) - 8 = n /\ ~(Len(whole) < 8)
    BY <2>1, <2>3
  <2> QED
    BY <1>7, <2>9, <2>10 DEF whole, cut
<1>9. data # BadBits /\ KnownVersion(data)
  <2>1. Len(BadBits) = 1 /\ BadBits[1] = -1
    BY DEF BadBits
  <2>2. Len(data) - 1 = KeyLength
    BY <1>1, AddressAssumption
  <2> QED
    BY <1>1, <2>1, <2>2 DEF KnownVersion
<1>10. DecodeAddress(address) = [ok |-> TRUE, key |-> Tail(data)]
  BY <1>1, <1>4, <1>6, <1>7, <1>8, <1>9 DEF DecodeAddress
<1> QED
  BY <1>1, <1>10 DEF address

(* An address that the program derives from a key pays to that key.        *)
LEMMA ScriptOfAddress ==
  ASSUME NEW key \in Seq(0..255), Len(key) = KeyLength, NEW network \in Networks
  PROVE  AddressToScript(EncodeAddress(key, network)) = PayToKey(key)
<1> DEFINE decoded == DecodeAddress(EncodeAddress(key, network))
<1>1. decoded = [ok |-> TRUE, key |-> key]
  BY AddressRoundTrip
<1>2. decoded.ok /\ Len(decoded.key) \in {KeyLength, KeyLength + 1} /\ decoded.key = key
  <2> HIDE DEF decoded
  <2> QED
    BY <1>1
<1> QED
  BY <1>2 DEF AddressToScript

-----------------------------------------------------------------------------
(* Scripts *)

(* A script to a key is a sequence, and never empty.                       *)
LEMMA PayToKeyIsSeq ==
  ASSUME NEW key, IsSeq(key)
  PROVE  IsSeq(PayToKey(key)) /\ PayToKey(key) # <<>>
<1>1. IsSeq(<<Len(key)>>) /\ IsSeq(<<\hac>>)
  BY Singleton
<1>2. IsSeq(<<Len(key)>> \o key)
  BY <1>1, SeqClosure
<1>3. IsSeq(PayToKey(key))
  BY <1>1, <1>2, SeqClosure DEF PayToKey
<1>4. PICK S : key \in Seq(S)
  BY DEF IsSeq
<1>5. PayToKey(key) # <<>>
  <2> DEFINE T == S \cup {Len(key), \hac}
  <2>1. <<Len(key)>> \in Seq(T) /\ <<\hac>> \in Seq(T)
    OBVIOUS
  <2>2. key \in Seq(T)
    BY <1>4, SeqMonotonic
  <2>3. <<\hac>> # <<>> /\ <<Len(key)>> \o key \in Seq(T)
    BY <2>1, <2>2, ConcatProperties
  <2> HIDE DEF T
  <2> QED
    BY <2>1, <2>3, ConcatEqualIffEmpty DEF PayToKey
<1> QED
  BY <1>3, <1>5

(* The keys are bytes, and the script of an address made from one of them  *)
(* pays to that key: the decoder reads what the encoder writes.            *)
LEMMA ScriptsOfKeys ==
  /\ \A key \in {Commitment, StampKey, ReturnKey, StaleKey} :
       IsSeq(key) /\ Len(key) = KeyLength /\ key # <<>>
  /\ \A key \in {StampKey, ReturnKey, StaleKey} :
       ScriptOf[key] = PayToKey(key) /\ IsSeq(ScriptOf[key]) /\ ScriptOf[key] # <<>>
<1>1. ASSUME NEW key \in {Commitment, StampKey, ReturnKey, StaleKey}
      PROVE  /\ key \in Seq(0..255) /\ IsSeq(key) /\ Len(key) = KeyLength
             /\ key # <<>>
  <2>1. key \in Seq(0..255) /\ Len(key) = KeyLength /\ KeyLength \in Nat \ {0}
    BY <1>1, PaymentAssumption, AddressAssumption
  <2>2. IsSeq(key)
    BY <2>1 DEF IsSeq
  <2>3. key # <<>>
    BY <2>1, EmptySeq
  <2> QED
    BY <2>1, <2>2, <2>3
<1>2. ASSUME NEW key \in {StampKey, ReturnKey, StaleKey}
      PROVE  ScriptOf[key] = PayToKey(key) /\ IsSeq(ScriptOf[key]) /\ ScriptOf[key] # <<>>
  <2>1. key \in Seq(0..255) /\ Len(key) = KeyLength /\ IsSeq(key) /\ Network \in Networks
    BY <1>1, PaymentAssumption
  <2>2. ScriptOf[key] = PayToKey(key)
    BY <2>1, ScriptOfAddress DEF ScriptOf
  <2> QED
    BY <2>1, <2>2, PayToKeyIsSeq
<1> QED
  BY <1>1, <1>2

(* A script of version 0 is read from the wire as it was written, by the   *)
(* node, by the core client and by the browser.                            *)
LEMMA Unwired ==
  ASSUME NEW script, IsSeq(script)
  PROVE  /\ WireScript(0, script)[1] = 0 /\ WireScript(0, script)[2] = 0
         /\ SubSeq(WireScript(0, script), 3, Len(WireScript(0, script))) = script
<1> DEFINE wire == WireScript(0, script)
<1>1. 0 \div 256 = 0 /\ 0 % 256 = 0
  OBVIOUS
<1>2. wire = <<0, 0>> \o script
  BY <1>1 DEF WireScript
<1> HIDE DEF wire
<1>3. PICK S : script \in Seq(S)
  BY DEF IsSeq
<1> DEFINE T == S \cup {0}
<1>4. script \in Seq(T)
  BY <1>3, SeqMonotonic
<1>5. <<0, 0>> \in Seq(T) /\ Len(<<0, 0>>) = 2 /\ <<0, 0>>[1] = 0 /\ <<0, 0>>[2] = 0
  OBVIOUS
<1> HIDE DEF T
<1>6. /\ wire \in Seq(T) /\ Len(wire) = 2 + Len(script) /\ Len(script) \in Nat
      /\ \A i \in 1..(2 + Len(script)) :
           wire[i] = IF i <= 2 THEN <<0, 0>>[i] ELSE script[i - 2]
  BY <1>2, <1>4, <1>5, ConcatProperties, LenProperties
<1>7. wire[1] = 0 /\ wire[2] = 0
  BY <1>5, <1>6
<1>8. SubSeq(wire, 3, Len(wire)) = script
  <2>1. \A i \in 3..Len(wire) : wire[i] \in T
    BY <1>6, ElementOfSeq
  <2>2. 3 \in Int /\ Len(wire) \in Int
    BY <1>6
  <2>3. /\ SubSeq(wire, 3, Len(wire)) \in Seq(T)
        /\ Len(SubSeq(wire, 3, Len(wire))) = IF 3 <= Len(wire) THEN Len(wire) - 3 + 1 ELSE 0
        /\ \A i \in 1..(Len(wire) - 3 + 1) : SubSeq(wire, 3, Len(wire))[i] = wire[3 + i - 1]
    BY <2>1, <2>2, SubSeqProperties
  <2> DEFINE cut == SubSeq(wire, 3, Len(wire))
  <2> HIDE DEF cut
  <2>4. Len(cut) = Len(script)
    BY <1>6, <2>3 DEF cut
  <2>5. \A i \in 1..Len(cut) : cut[i] = script[i]
    <3>1. ASSUME NEW i \in 1..Len(cut) PROVE cut[i] = script[i]
      <4>1. i \in 1..(Len(wire) - 3 + 1) /\ 3 + i - 1 \in 1..(2 + Len(script)) /\ ~(3 + i - 1 <= 2)
            /\ 3 + i - 1 - 2 = i
        BY <1>6, <2>4
      <4> QED
        BY <1>6, <2>3, <4>1 DEF cut
    <3> QED
      BY <3>1
  <2> QED
    BY <1>4, <2>3, <2>4, <2>5, SeqEqual DEF cut
<1> QED
  BY <1>7, <1>8 DEF wire

-----------------------------------------------------------------------------
(* What was sent *)

(* Only a built transaction is sent, once, as one of the services has it.  *)
AsSent(s, order) == service = s /\ sent = RpcTransaction(order, s)
PayInv ==
  /\ caller \in Callers
  /\ phase = "built" => tx = Built(Cardinality(taken)) /\ tx # NoTx
  /\ \/ sent = NotSent
     \/ phase = "built" /\ \E s \in Services, order \in InputOrders : AsSent(s, order)

(* What a transaction on the wire is made of does not change.              *)
LEMMA RpcFrame ==
  ASSUME UNCHANGED <<caller, amount, taken, tx>>, NEW s, NEW order
  PROVE  /\ RpcTransaction(order, s)' = RpcTransaction(order, s)
         /\ InputOrders' = InputOrders /\ Services' = Services
<1>1. SigningKey(s)' = SigningKey(s) /\ PayeeAddress(s)' = PayeeAddress(s)
  BY DEF SigningKey, PayeeAddress
<1>2. ChainScript(s)' = ChainScript(s)
  BY <1>1 DEF ChainScript
<1>3. \A coin : Utxo(coin, s)' = Utxo(coin, s)
  BY <1>2 DEF Utxo
<1>4. SighashInputs(order, s)' = SighashInputs(order, s)
  BY <1>3 DEF SighashInputs, SignerList
<1>5. TxOutputs(s)' = TxOutputs(s)
  BY <1>1 DEF TxOutputs
<1>6. Signed(order, s)' = Signed(order, s)
  BY <1>1, <1>4, <1>5 DEF Signed
<1>7. RpcTransaction(order, s)' = RpcTransaction(order, s)
  BY <1>5, <1>6 DEF RpcTransaction
<1>8. InputOrders' = InputOrders
  BY DEF InputOrders
<1>9. Services' = Services
  BY DEF Services
<1> QED
  BY <1>7, <1>8, <1>9

(* Nothing is sent before the builder is done, nothing changes after.      *)
LEMMA PayStep == PayInv /\ [PaymentNext]_paymentVars => PayInv'
<1> SUFFICES ASSUME PayInv, [PaymentNext]_paymentVars PROVE PayInv'
  OBVIOUS
<1>1. CASE Next /\ UNCHANGED <<service, sent>>
  <2>1. phase # "built" /\ UNCHANGED caller
    BY <1>1 DEF Next, SelectUtxo, SumInput, Build
  <2>2. sent' = NotSent
    BY <1>1, <2>1 DEF PayInv
  <2>3. phase' = "built" => Build
    BY <1>1 DEF Next, SelectUtxo, SumInput, AfterTaking
  <2>4. ASSUME Build, phase' = "built" PROVE tx' = Built(Cardinality(taken))' /\ tx' # NoTx
    <3>1. tx' = Built(Cardinality(taken)) /\ tx' # NoTx /\ UNCHANGED <<caller, rate, taken, total>>
      BY <2>4 DEF Build
    <3>2. Built(Cardinality(taken))' = Built(Cardinality(taken))
      BY <3>1 DEF Built, BuildDirect, BuildTransfer, BuildCommitment, BuildRate, FeeFor, Mass,
                  MassWithCommitment, HasChange, AbsorbDust, Fits
    <3> QED
      BY <3>1, <3>2
  <2> QED
    BY <2>1, <2>2, <2>3, <2>4 DEF PayInv
<1>2. CASE Submit
  <2>1. /\ UNCHANGED <<caller, rate, amount, taken, total, tx>> /\ phase = "built" /\ sent = NotSent
    BY <1>2 DEF Submit
  <2>2. PICK s \in Services, order \in InputOrders :
          /\ service' = s
          /\ \/ phase' = "failed" /\ UNCHANGED sent
             \/ sent' = RpcTransaction(order, s) /\ UNCHANGED phase
    BY <1>2 DEF Submit
  <2>3. CASE phase' = "failed" /\ UNCHANGED sent
    BY <2>1, <2>3 DEF PayInv
  <2>4. CASE sent' = RpcTransaction(order, s) /\ UNCHANGED phase
    <3>1. Built(Cardinality(taken))' = Built(Cardinality(taken))
      BY <2>1 DEF Built, BuildDirect, BuildTransfer, BuildCommitment, BuildRate, FeeFor, Mass,
                  MassWithCommitment, HasChange, AbsorbDust, Fits
    <3>2. AsSent(s, order)' /\ s \in Services' /\ order \in InputOrders'
      BY <2>1, <2>2, <2>4, RpcFrame DEF AsSent
    <3> QED
      BY <2>1, <2>4, <3>1, <3>2 DEF PayInv
  <2> QED
    BY <2>2, <2>3, <2>4
<1>3. CASE UNCHANGED paymentVars
  <2>1. UNCHANGED <<caller, rate, amount, coins, taken, total, phase, tx, service, sent>>
    BY <1>3 DEF paymentVars
  <2>2. Built(Cardinality(taken))' = Built(Cardinality(taken))
    BY <2>1 DEF Built, BuildDirect, BuildTransfer, BuildCommitment, BuildRate, FeeFor, Mass,
                MassWithCommitment, HasChange, AbsorbDust, Fits
  <2>3. ASSUME NEW s \in Services, NEW order \in InputOrders, AsSent(s, order)
        PROVE  s \in Services' /\ order \in InputOrders' /\ AsSent(s, order)'
    BY <2>1, <2>3, RpcFrame DEF AsSent
  <2> QED
    BY <2>1, <2>2, <2>3 DEF PayInv
<1> QED
  BY <1>1, <1>2, <1>3 DEF PaymentNext

LEMMA AlwaysPayInv == PaymentSpec => []PayInv
<1>1. PaymentInit => PayInv
  BY DEF PaymentInit, Init, PayInv, Selecting
<1> QED
  BY <1>1, PayStep, PTL DEF PaymentSpec

(* The service's own wallet signs, and pays itself or the other wallet.    *)
LEMMA ServiceKeys ==
  ASSUME caller \in Callers, NEW s \in Services
  PROVE  /\ s.wallet = StampKey /\ s.wallet_address = StampKey
         /\ s.return_wallet \in {<<>>, ReturnKey}
         /\ caller = "recycle" => s.return_wallet = ReturnKey
         /\ SigningKey(s) \in {StampKey, ReturnKey} /\ PayeeAddress(s) \in {StampKey, ReturnKey}
         /\ s.return_wallet = <<>> => PayeeAddress(s) = StampKey
         /\ s.return_wallet # <<>> /\ caller \in {"calendar", "recycle"} =>
              PayeeAddress(s) # SigningKey(s)
<1>1. ReturnKey # <<>> /\ StampKey # ReturnKey
  BY ScriptsOfKeys, PaymentAssumption
<1>2. /\ s.wallet = StampKey /\ s.wallet_address = StampKey
      /\ s.return_wallet \in {<<>>, ReturnKey}
      /\ caller = "recycle" => s.return_wallet = ReturnKey
      /\ caller \notin {"calendar", "recycle"} => s.return_wallet = <<>>
  BY DEF Services, NewService, Callers
<1> QED
  BY <1>1, <1>2 DEF SigningKey, PayeeAddress, Callers

(* Every signature is by the owner of the coin and over exactly what the   *)
(* node was sent, whatever way the transaction took.                       *)
THEOREM NodeTakesItHolds == PaymentSpec => []NodeTakesIt
<1>1. PayInv => NodeTakesIt
  <2> SUFFICES ASSUME PayInv PROVE NodeTakesIt
    OBVIOUS
  <2>1. CASE sent = NotSent
    <3>1. DOMAIN sent.inputs = {}
      BY <2>1 DEF NotSent
    <3> QED
      BY <3>1 DEF NodeTakesIt
  <2>2. CASE sent # NotSent
    <3>1. PICK s \in Services, order \in InputOrders : AsSent(s, order)
      BY <2>2 DEF PayInv
    <3> DEFINE whole == SighashTransaction(SighashInputs(order, s), TxOutputs(s))
    <3>2. /\ service = s /\ caller \in Callers /\ IsSeq(SigningKey(s))
          /\ PayeeAddress(s) \in {StampKey, ReturnKey}
      BY <3>1, ServiceKeys, ScriptsOfKeys DEF AsSent, PayInv
    <3>3. DOMAIN sent.inputs = DOMAIN order /\ DOMAIN sent.outputs = DOMAIN TxOutputs(s)
      BY <3>1 DEF AsSent, RpcTransaction
    <3>4. ASSUME NEW i \in DOMAIN order
          PROVE  NodeTransaction.inputs[i] = SighashInputs(order, s)[i]
      <4>1. /\ sent.inputs[i].outpoint = order[i] /\ sent.inputs[i].sequence = Sequence
            /\ sent.inputs[i].sig_op_count = SigOpCount
        BY <3>1 DEF AsSent, RpcTransaction, WireSequence
      <4>2. NodeTransaction.inputs[i] =
              [outpoint |-> order[i], version |-> 0, script |-> ChainScript(s),
               value |-> amount[order[i]], sequence |-> Sequence, sig_op_count |-> SigOpCount]
        BY <3>2, <3>3, <4>1 DEF NodeTransaction, SighashTransaction
      <4>3. Utxo(order[i], s).spk = [version |-> 0, script |-> ChainScript(s)]
            /\ Utxo(order[i], s).value = amount[order[i]]
        <5>1. IsSeq(ChainScript(s))
          BY <3>2, PayToKeyIsSeq DEF ChainScript
        <5>2. /\ WireScript(0, ChainScript(s))[1] = 0 /\ WireScript(0, ChainScript(s))[2] = 0
              /\ SubSeq(WireScript(0, ChainScript(s)), 3, Len(WireScript(0, ChainScript(s)))) = ChainScript(s)
          BY <5>1, Unwired
        <5> DEFINE wire == WireScript(0, ChainScript(s))
        <5>3. wire[1] + 256 * wire[2] = 0
          BY <5>2
        <5>4. /\ BrowserScript(wire) = [version |-> 0, script |-> ChainScript(s)]
              /\ CoreScript(wire) = [version |-> 0, script |-> ChainScript(s)]
          BY <5>2, <5>3 DEF BrowserScript, CoreScript
        <5> QED
          BY <5>4 DEF Utxo
      <4>4. SighashInputs(order, s)[i] =
              [outpoint |-> order[i], version |-> 0, script |-> ChainScript(s),
               value |-> amount[order[i]], sequence |-> Sequence, sig_op_count |-> SigOpCount]
        BY <4>3 DEF SighashInputs, SignerList
      <4> QED
        BY <4>2, <4>4
    <3>5. ASSUME NEW o \in DOMAIN TxOutputs(s)
          PROVE  Hashed(NodeTransaction.outputs[o]) = Hashed(TxOutputs(s)[o])
      <4> DEFINE out == TxOutputs(s)[o]
      <4>1. out.version = 0 /\ IsSeq(out.script)
        <5>1. IsSeq(PayToKey(Commitment)) /\ IsSeq(ScriptOf[PayeeAddress(s)])
          BY <3>2, ScriptsOfKeys, PayToKeyIsSeq
        <5>2. /\ out \in {[value |-> tx.burn, version |-> 0, script |-> PayToKey(Commitment)],
                          [value |-> tx.change, version |-> 0, script |-> ScriptOf[PayeeAddress(s)]]}
          BY DEF TxOutputs
        <5> QED
          BY <5>1, <5>2
      <4>2. /\ sent.outputs[o].value = out.value
            /\ sent.outputs[o].script = WireScript(0, out.script)
        BY <3>1, <4>1 DEF AsSent, RpcTransaction
      <4>3. NodeTransaction.outputs[o] = [value |-> out.value, version |-> 0, script |-> out.script]
        <5> DEFINE wire == sent.outputs[o].script
        <5>1. wire[1] = 0 /\ wire[2] = 0 /\ SubSeq(wire, 3, Len(wire)) = out.script
          BY <4>1, <4>2, Unwired
        <5>2. 256 * wire[1] + wire[2] = 0
          BY <5>1
        <5>3. NodeTransaction.outputs[o] =
                [value |-> sent.outputs[o].value, version |-> 256 * wire[1] + wire[2],
                 script |-> SubSeq(wire, 3, Len(wire))]
          BY <3>3 DEF NodeTransaction, SighashTransaction
        <5> HIDE DEF wire
        <5> QED
          BY <4>2, <5>1, <5>2, <5>3
      <4> HIDE DEF out
      <4>4. Hashed(NodeTransaction.outputs[o]) = Hashed(out)
        BY <4>1, <4>3 DEF Hashed
      <4> QED
        BY <4>4 DEF out
    <3>6. /\ DOMAIN NodeTransaction.inputs = DOMAIN order
          /\ DOMAIN SighashInputs(order, s) = DOMAIN order
          /\ DOMAIN NodeTransaction.outputs = DOMAIN TxOutputs(s)
      BY <3>3 DEF NodeTransaction, SighashTransaction, SighashInputs
    <3>7. /\ whole.inputs = SighashInputs(order, s) /\ whole.outputs = TxOutputs(s)
          /\ \A other \in {whole, NodeTransaction} :
               /\ other.version = 0 /\ other.lock_time = 0 /\ other.subnetwork_id = Native
               /\ other.gas = 0 /\ other.payload = <<>>
      BY DEF SighashTransaction, NodeTransaction
    <3> HIDE DEF whole
    <3>8. OutputsHash(NodeTransaction.outputs) = OutputsHash(whole.outputs)
      BY <3>5, <3>6, <3>7 DEF OutputsHash
    <3>9. /\ PreviousOutputsHash(NodeTransaction.inputs) = PreviousOutputsHash(whole.inputs)
          /\ SequencesHash(NodeTransaction.inputs) = SequencesHash(whole.inputs)
          /\ SigOpCountsHash(NodeTransaction.inputs) = SigOpCountsHash(whole.inputs)
      BY <3>4, <3>6, <3>7 DEF PreviousOutputsHash, SequencesHash, SigOpCountsHash
    <3>10. \A i \in DOMAIN order : Sighash(NodeTransaction, i) = Sighash(whole, i)
      BY <3>4, <3>7, <3>8, <3>9 DEF Sighash
    <3>11. \A i \in DOMAIN order : sent.inputs[i].signature = [key |-> SigningKey(s), hash |-> Sighash(whole, i)]
      BY <3>1 DEF AsSent, RpcTransaction, Signed, whole
    <3>12. ASSUME NEW i \in DOMAIN sent.inputs
           PROVE  /\ sent.inputs[i].signature.hash = Sighash(NodeTransaction, i)
                  /\ sent.inputs[i].signature.key = SigningKey(s)
      <4>1. i \in DOMAIN order
        BY <3>3, <3>12
      <4>2. sent.inputs[i].signature = [key |-> SigningKey(s), hash |-> Sighash(whole, i)]
        BY <3>11, <4>1
      <4>3. Sighash(NodeTransaction, i) = Sighash(whole, i)
        BY <3>10, <4>1
      <4> QED
        BY <4>2, <4>3
    <3>13. ChainScript(service) = PayToKey(SigningKey(s))
      BY <3>2 DEF ChainScript
    <3> QED
      BY <3>12, <3>13 DEF NodeTakesIt
  <2> QED
    BY <2>1, <2>2
<1> QED
  BY <1>1, AlwaysPayInv, PTL

-----------------------------------------------------------------------------
(* Where the money goes *)

(* Addresses are read as they were written, so no transaction is lost for  *)
(* its change: every step is one of the builders' or leaves their state.   *)
THEOREM PaymentIsFunded == PaymentSpec => Spec
<1>1. PaymentInit => Init
  BY DEF PaymentInit
<1>2. ASSUME PayInv, [PaymentNext]_paymentVars PROVE [Next]_vars
  <2>1. CASE Next
    BY <2>1
  <2>2. CASE Submit
    <3>1. PICK s \in Services :
            (ScriptOf[PayeeAddress(s)] # <<>> => UNCHANGED phase)
      BY <2>2 DEF Submit
    <3>2. PayeeAddress(s) \in {StampKey, ReturnKey}
      BY <1>2, ServiceKeys DEF PayInv
    <3>3. ScriptOf[PayeeAddress(s)] # <<>>
      BY <3>2, ScriptsOfKeys, PayToKeyIsSeq
    <3> QED
      BY <2>2, <3>1, <3>3 DEF Submit, vars
  <2>3. CASE UNCHANGED paymentVars
    BY <2>3 DEF paymentVars, vars
  <2> QED
    BY <1>2, <2>1, <2>2, <2>3 DEF PaymentNext
<1> QED
  BY <1>1, <1>2, AlwaysPayInv, PTL DEF PaymentSpec, Spec

(* Money that is neither burnt nor fee goes to a key the program holds:    *)
(* from the STAMP wallet to the RETURN wallet where there is one, and back.*)
THEOREM MoneyStaysHeldHolds == PaymentSpec => []MoneyStaysHeld
<1> DEFINE Chosen == service # NoService => phase = "built" /\ service \in Services
<1>0. ASSUME NEW s \in Services PROVE ScriptOf[PayeeAddress(s)] # <<>> \/ caller \notin Callers
  <2>1. CASE caller \in Callers
    <3>1. PayeeAddress(s) \in {StampKey, ReturnKey}
      BY <2>1, ServiceKeys
    <3> QED
      BY <3>1, ScriptsOfKeys, PayToKeyIsSeq
  <2> QED
    BY <2>1
<1>1. PaymentInit => Chosen
  BY DEF PaymentInit
<1>2. ASSUME Chosen, PayInv, [PaymentNext]_paymentVars PROVE Chosen'
  <2>1. CASE Next /\ UNCHANGED <<service, sent>>
    <3>1. phase # "built"
      BY <2>1 DEF Next, SelectUtxo, SumInput, Build
    <3> QED
      BY <1>2, <2>1, <3>1
  <2>2. CASE Submit
    <3>1. UNCHANGED <<caller, amount, taken, tx>> /\ phase = "built"
      BY <2>2 DEF Submit
    <3>2. PICK s \in Services : service' = s /\ (ScriptOf[PayeeAddress(s)] # <<>> => UNCHANGED phase)
      BY <2>2 DEF Submit
    <3>3. UNCHANGED phase
      BY <1>0, <1>2, <3>2 DEF PayInv
    <3>4. Services' = Services
      BY <3>1 DEF Services
    <3> QED
      BY <3>1, <3>2, <3>3, <3>4
  <2>3. CASE UNCHANGED paymentVars
    <3>1. UNCHANGED <<caller, phase, service>>
      BY <2>3 DEF paymentVars
    <3>2. Services' = Services
      BY <3>1 DEF Services
    <3> QED
      BY <1>2, <3>1, <3>2
  <2> QED
    BY <1>2, <2>1, <2>2, <2>3 DEF PaymentNext
<1>3. ASSUME Chosen, PayInv PROVE MoneyStaysHeld
  <2>1. service # NoService => phase = "built"
    BY <1>3
  <2>2. ASSUME NEW o \in DOMAIN sent.outputs
        PROVE  LET script == SubSeq(sent.outputs[o].script, 3, Len(sent.outputs[o].script))
               IN  \/ script = PayToKey(Commitment) /\ sent.outputs[o].value = Burn
                   \/ \E key \in HeldKeys :
                        /\ script = PayToKey(key)
                        /\ service.return_wallet # <<>> => key # SigningKey(service)
    <3> DEFINE script == SubSeq(sent.outputs[o].script, 3, Len(sent.outputs[o].script))
    <3>1. sent # NotSent
      BY <2>2 DEF NotSent
    <3>2. phase = "built" /\ caller \in Callers /\ \E s \in Services, order \in InputOrders : AsSent(s, order)
      BY <1>3, <3>1 DEF PayInv
    <3>3. PICK s \in Services, order \in InputOrders : AsSent(s, order)
      BY <3>2
    <3>4. service = s /\ DOMAIN sent.outputs = DOMAIN TxOutputs(s)
      BY <3>3 DEF AsSent, RpcTransaction
    <3>5. ASSUME NEW out, IsSeq(out.script), out.version = 0, TxOutputs(s)[o] = out
          PROVE  script = out.script /\ sent.outputs[o].value = out.value
      <4>1. sent.outputs[o].script = WireScript(0, out.script) /\ sent.outputs[o].value = out.value
        BY <2>2, <3>3, <3>4, <3>5 DEF AsSent, RpcTransaction
      <4> QED
        BY <3>5, <4>1, Unwired
    <3> HIDE DEF script
    <3>6. CASE TxOutputs(s)[o] = [value |-> tx.burn, version |-> 0, script |-> PayToKey(Commitment)]
                 /\ caller # "recycle"
      <4>1. IsSeq(PayToKey(Commitment))
        BY ScriptsOfKeys, PayToKeyIsSeq
      <4>2. script = PayToKey(Commitment) /\ sent.outputs[o].value = tx.burn
        BY <3>5, <3>6, <4>1
      <4>3. tx = Built(Cardinality(taken)) /\ tx # NoTx
        BY <1>3, <3>2 DEF PayInv
      <4>4. tx.burn = Burn
        BY <3>6, <4>3 DEF Built, BuildDirect, BuildCommitment, AbsorbDust
      <4> QED
        BY <4>2, <4>4 DEF script
    <3>7. CASE TxOutputs(s)[o] =
                 [value |-> tx.change, version |-> 0, script |-> ScriptOf[PayeeAddress(s)]]
      <4> DEFINE key == PayeeAddress(s)
      <4>1. key \in {StampKey, ReturnKey} /\ ScriptOf[key] = PayToKey(key) /\ IsSeq(PayToKey(key))
        BY <3>2, ServiceKeys, ScriptsOfKeys, PayToKeyIsSeq
      <4>2. script = PayToKey(key)
        BY <3>5, <3>7, <4>1
      <4>3. key \in HeldKeys /\ (service.return_wallet # <<>> => key # SigningKey(service))
        <5>1. /\ s.return_wallet \in {<<>>, ReturnKey}
              /\ s.return_wallet = <<>> => PayeeAddress(s) = StampKey
              /\ s.return_wallet # <<>> => caller \in {"calendar", "recycle"}
              /\ s.return_wallet # <<>> /\ caller \in {"calendar", "recycle"} =>
                   PayeeAddress(s) # SigningKey(s)
          BY <3>2, ServiceKeys DEF Services, NewService, Callers
        <5> QED
          BY <3>4, <4>1, <5>1 DEF HeldKeys
      <4> QED
        BY <4>2, <4>3 DEF script
    <3>8. \/ /\ TxOutputs(s)[o] = [value |-> tx.burn, version |-> 0, script |-> PayToKey(Commitment)]
             /\ caller # "recycle"
          \/ TxOutputs(s)[o] =
               [value |-> tx.change, version |-> 0, script |-> ScriptOf[PayeeAddress(s)]]
      BY <2>2, <3>4 DEF TxOutputs
    <3> QED
      BY <3>6, <3>7, <3>8
  <2> QED
    BY <2>1, <2>2 DEF MoneyStaysHeld
<1> HIDE DEF Chosen
<1> QED
  BY <1>1, <1>2, <1>3, AlwaysPayInv, PTL DEF PaymentSpec
=============================================================================
