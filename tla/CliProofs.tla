----------------------------- MODULE CliProofs ------------------------------
(***************************************************************************)
(* Proofs about the command line, its files and the proofs in them.        *)
(*   First what the recursive functions of ProofFile compute, for every    *)
(* input: the way from a leaf to the root, and what is read back of a file *)
(* that was written, in whole or in part.  Then the invariant CliInv of    *)
(* Cli, for any inputs, batch, terminals, stamps and kills, and what       *)
(* follows from it of the verdicts and of what was paid for.               *)
(***************************************************************************)
EXTENDS Cli, SequenceTheorems, WellFoundedInduction, TLAPS

(* Ordinary induction: a set with 0 that is closed under successor holds   *)
(* every natural number, since a least number outside it cannot exist.     *)
LEMMA NatSetInduction ==
  ASSUME NEW S, 0 \in S, \A n \in Nat : n \in S => n + 1 \in S
  PROVE  Nat \subseteq S
<1> DEFINE T == Nat \ S
<1>1. ASSUME T # {} PROVE FALSE
  <2>1. \E x \in T : \A y \in T : ~ (<<y, x>> \in OpToRel(<, Nat))
    BY <1>1, WFMin, NatLessThanWellFounded
  <2>2. PICK x \in T : \A y \in T : ~ (<<y, x>> \in OpToRel(<, Nat))
    BY <2>1
  <2>3. x # 0 /\ x \in Nat
    OBVIOUS
  <2>4. x - 1 \in T
    <3>1. CASE x - 1 \in S
      BY <2>3, <3>1
    <3> QED BY <2>3, <3>1
  <2>5. <<x - 1, x>> \in OpToRel(<, Nat)
    BY <2>3, <2>4 DEF OpToRel
  <2> QED BY <2>2, <2>4, <2>5
<1> QED BY <1>1

(* A function on 1..n is a sequence of length n, of its own values.        *)
LEMMA FunctionIsSeq ==
  ASSUME NEW n \in Nat, NEW s, s = [i \in 1..n |-> s[i]]
  PROVE  s \in Seq({s[i] : i \in 1..n}) /\ Len(s) = n
<1>1. s \in [1..n -> {s[i] : i \in 1..n}]
  OBVIOUS
<1>2. s \in Seq({s[i] : i \in 1..n})
  BY <1>1, SeqDef
<1> QED BY <1>1, <1>2, LenProperties

-----------------------------------------------------------------------------
(* Applying operations *)

(* Results satisfies its own equation.                                     *)
LEMMA ResultsDef ==
  ASSUME NEW digest, NEW operations, Len(operations) \in Nat
  PROVE  Results(digest, operations) =
           [k \in 0..Len(operations) |->
              IF k = 0 THEN digest
              ELSE ApplyOperation(Results(digest, operations)[k - 1], operations[k])]
<1> DEFINE Fits(n, f) == f = [k \in 0..n |-> IF k = 0 THEN digest
                                             ELSE ApplyOperation(f[k - 1], operations[k])]
           S == {n \in Nat : \E f : Fits(n, f)}
<1>1. 0 \in S
  <2>1. Fits(0, [k \in 0..0 |-> digest])
    OBVIOUS
  <2> QED BY <2>1
<1>2. ASSUME NEW n \in Nat, n \in S PROVE n + 1 \in S
  <2>1. PICK f : Fits(n, f)
    BY <1>2
  <2> DEFINE g == [k \in 0..(n + 1) |-> IF k <= n THEN f[k]
                                         ELSE ApplyOperation(f[n], operations[n + 1])]
             h == [k \in 0..(n + 1) |-> IF k = 0 THEN digest
                                         ELSE ApplyOperation(g[k - 1], operations[k])]
  <2>2. ASSUME NEW k \in 0..(n + 1) PROVE g[k] = h[k]
    <3>1. CASE k = 0
      BY <2>1, <3>1
    <3>2. CASE k \in 1..n
      BY <2>1, <3>2
    <3>3. CASE k = n + 1
      BY <2>1, <3>3
    <3> QED BY <3>1, <3>2, <3>3
  <2>3. g = h
    BY <2>2
  <2>4. Fits(n + 1, g)
    BY <2>3
  <2>5. \E f_1 : Fits(n + 1, f_1)
    <3> HIDE DEF g, Fits
    <3> QED BY <2>4
  <2> HIDE DEF Fits
  <2> QED BY <2>5
<1> HIDE DEF S
<1>3. Nat \subseteq S
  BY <1>1, <1>2, NatSetInduction
<1>4. \E f : Fits(Len(operations), f)
  BY <1>3 DEF S
<1> QED BY <1>4 DEF Results

(* No operations leave the digest as it is.                                *)
LEMMA ApplyNone ==
  ASSUME NEW digest PROVE ApplyOperations(digest, <<>>) = digest
<1>1. Len(<<>>) = 0
  BY EmptySeq
<1> QED BY <1>1, ResultsDef DEF ApplyOperations

(* Operations that begin with others go through the results of those.      *)
LEMMA ResultsOfPrefix ==
  ASSUME NEW digest, NEW few, NEW many, Len(few) \in Nat, Len(many) \in Nat,
         Len(few) <= Len(many), \A k \in 1..Len(few) : few[k] = many[k]
  PROVE  Results(digest, many)[Len(few)] = ApplyOperations(digest, few)
<1> DEFINE S == {n \in Nat : n <= Len(few) =>
                               Results(digest, many)[n] = Results(digest, few)[n]}
<1>1. 0 \in S
  BY ResultsDef
<1>2. ASSUME NEW n \in Nat, n \in S PROVE n + 1 \in S
  <2>1. SUFFICES ASSUME n + 1 <= Len(few)
                 PROVE  Results(digest, many)[n + 1] = Results(digest, few)[n + 1]
    OBVIOUS
  <2>2. Results(digest, many)[n + 1] = ApplyOperation(Results(digest, many)[n], many[n + 1])
    BY <2>1, ResultsDef
  <2>3. Results(digest, few)[n + 1] = ApplyOperation(Results(digest, few)[n], few[n + 1])
    BY <2>1, ResultsDef
  <2> QED BY <1>2, <2>1, <2>2, <2>3
<1> HIDE DEF S
<1>3. Nat \subseteq S
  BY <1>1, <1>2, NatSetInduction
<1> QED BY <1>3 DEF S, ApplyOperations

(* One operation more is applied to the result of those before it.         *)
LEMMA ApplyOneMore ==
  ASSUME NEW digest, NEW few, NEW many, Len(few) \in Nat, Len(many) = Len(few) + 1,
         \A k \in 1..Len(few) : few[k] = many[k]
  PROVE  ApplyOperations(digest, many) =
           ApplyOperation(ApplyOperations(digest, few), many[Len(many)])
<1>1. Results(digest, many)[Len(few)] = ApplyOperations(digest, few)
  BY ResultsOfPrefix
<1>2. Results(digest, many)[Len(many)] =
        ApplyOperation(Results(digest, many)[Len(few)], many[Len(many)])
  BY ResultsDef
<1> QED BY <1>1, <1>2 DEF ApplyOperations

-----------------------------------------------------------------------------
(* Merkle trees *)

(* Layers satisfies its own equation.                                      *)
LEMMA LayersDef ==
  ASSUME NEW leaves, Len(leaves) \in Nat
  PROVE  Layers(leaves) =
           [k \in 0..Len(leaves) |->
              IF k = 0 THEN Padded(leaves)
              ELSE IF Len(Layers(leaves)[k - 1]) = 1 THEN Layers(leaves)[k - 1]
              ELSE LayerAbove(Layers(leaves)[k - 1])]
<1> DEFINE Up(layer) == IF Len(layer) = 1 THEN layer ELSE LayerAbove(layer)
           Fits(n, f) == f = [k \in 0..n |-> IF k = 0 THEN Padded(leaves) ELSE Up(f[k - 1])]
           S == {n \in Nat : \E f : Fits(n, f)}
<1> HIDE DEF Up
<1>1. 0 \in S
  <2>1. Fits(0, [k \in 0..0 |-> Padded(leaves)])
    OBVIOUS
  <2> QED BY <2>1
<1>2. ASSUME NEW n \in Nat, n \in S PROVE n + 1 \in S
  <2>1. PICK f : Fits(n, f)
    BY <1>2
  <2> DEFINE g == [k \in 0..(n + 1) |-> IF k <= n THEN f[k] ELSE Up(f[n])]
             h == [k \in 0..(n + 1) |-> IF k = 0 THEN Padded(leaves) ELSE Up(g[k - 1])]
  <2>2. ASSUME NEW k \in 0..(n + 1) PROVE g[k] = h[k]
    <3>1. CASE k = 0
      BY <2>1, <3>1
    <3>2. CASE k \in 1..n
      BY <2>1, <3>2
    <3>3. CASE k = n + 1
      BY <2>1, <3>3
    <3> QED BY <3>1, <3>2, <3>3
  <2>3. g = h
    BY <2>2
  <2>4. Fits(n + 1, g)
    BY <2>3
  <2>5. \E f_1 : Fits(n + 1, f_1)
    <3> HIDE DEF g, Fits
    <3> QED BY <2>4
  <2> HIDE DEF Fits
  <2> QED BY <2>5
<1> HIDE DEF S
<1>3. Nat \subseteq S
  BY <1>1, <1>2, NatSetInduction
<1>4. \E f : Fits(Len(leaves), f)
  BY <1>3 DEF S
<1> QED BY <1>4 DEF Layers, Up

(* A layer that can be climbed: one node, or an even number of them.       *)
IsLayer(layer) ==
  /\ \E n \in Nat \ {0} : layer = [i \in 1..n |-> layer[i]]
  /\ Len(layer) = 1 \/ Len(layer) % 2 = 0

(* Padding keeps the nodes there are and makes a layer of them.            *)
LEMMA PaddedIsLayer ==
  ASSUME NEW n \in Nat \ {0}, NEW nodes, nodes = [i \in 1..n |-> nodes[i]]
  PROVE  /\ IsLayer(Padded(nodes))
         /\ Len(Padded(nodes)) = IF n = 1 \/ n % 2 = 0 THEN n ELSE n + 1
         /\ \A i \in 1..n : Padded(nodes)[i] = nodes[i]
<1>1. nodes \in Seq({nodes[i] : i \in 1..n}) /\ Len(nodes) = n
  BY FunctionIsSeq
<1>2. CASE n = 1 \/ n % 2 = 0
  <2>1. Padded(nodes) = nodes
    BY <1>1, <1>2 DEF Padded
  <2> QED BY <1>1, <1>2, <2>1 DEF IsLayer
<1>3. CASE ~(n = 1 \/ n % 2 = 0)
  <2> DEFINE more == Append(nodes, nodes[n])
  <2>1. Padded(nodes) = more
    BY <1>1, <1>3 DEF Padded
  <2>2. /\ more \in Seq({nodes[i] : i \in 1..n})
        /\ Len(more) = n + 1
        /\ \A i \in 1..n : more[i] = nodes[i]
    BY <1>1, AppendProperties
  <2>3. more = [i \in 1..(n + 1) |-> more[i]]
    BY <2>2, LenProperties
  <2>4. (n + 1) % 2 = 0
    BY <1>3
  <2> HIDE DEF more
  <2>5. IsLayer(more)
    BY <2>2, <2>3, <2>4 DEF IsLayer
  <2> QED BY <1>3, <2>1, <2>2, <2>5
<1> QED BY <1>2, <1>3

(* Above a layer of more than one node is a shorter one, in which a node   *)
(* is the hash of the two below it.                                        *)
LEMMA LayerAboveIsLayer ==
  ASSUME NEW layer, IsLayer(layer), Len(layer) # 1
  PROVE  /\ IsLayer(LayerAbove(layer))
         /\ Len(LayerAbove(layer)) < Len(layer)
         /\ Len(layer) \div 2 <= Len(LayerAbove(layer))
         /\ \A i \in 1..(Len(layer) \div 2) :
              LayerAbove(layer)[i] = HashPair(layer[2 * i - 1], layer[2 * i])
<1>1. PICK n \in Nat \ {0} : layer = [i \in 1..n |-> layer[i]]
  BY DEF IsLayer
<1>2. Len(layer) = n /\ n % 2 = 0 /\ n # 1
  BY <1>1, FunctionIsSeq DEF IsLayer
<1> DEFINE m == n \div 2
           nodes == [i \in 1..m |-> HashPair(layer[2 * i - 1], layer[2 * i])]
<1>3. m \in Nat \ {0} /\ n = 2 * m
  BY <1>2
<1>4. nodes = [i \in 1..m |-> nodes[i]]
  OBVIOUS
<1>5. LayerAbove(layer) = Padded(nodes)
  BY <1>2 DEF LayerAbove
<1> HIDE DEF m
<1>6. /\ IsLayer(Padded(nodes))
      /\ Len(Padded(nodes)) = IF m = 1 \/ m % 2 = 0 THEN m ELSE m + 1
      /\ \A i \in 1..m : Padded(nodes)[i] = nodes[i]
  <2> HIDE DEF nodes
  <2> QED BY <1>3, <1>4, PaddedIsLayer
<1>7. m % 2 # 0 /\ m # 1 => m + 1 < 2 * m
  BY <1>3
<1>8. Len(layer) \div 2 = m
  BY <1>2, <1>3
<1>9. Len(LayerAbove(layer)) < Len(layer) /\ m <= Len(LayerAbove(layer))
  <2>1. LayerAbove(layer) = Padded(nodes) /\ Len(layer) = 2 * m
    BY <1>2, <1>3, <1>5
  <2>2. Len(Padded(nodes)) = IF m = 1 \/ m % 2 = 0 THEN m ELSE m + 1
    BY <1>6
  <2> HIDE DEF nodes
  <2> QED BY <2>1, <2>2, <1>3, <1>7
<1>10. \A i \in 1..m : LayerAbove(layer)[i] = HashPair(layer[2 * i - 1], layer[2 * i])
  BY <1>5, <1>6
<1> QED BY <1>5, <1>6, <1>8, <1>9, <1>10

(* Climb satisfies its own equation.                                       *)
LEMMA ClimbDef ==
  ASSUME NEW leaves, Len(leaves) \in Nat, NEW leaf_index
  PROVE  Climb(leaves, leaf_index) =
           [k \in 0..Len(leaves) |->
              IF k = 0 THEN [index |-> leaf_index, siblings |-> <<>>]
              ELSE Higher(Layers(leaves)[k - 1], Climb(leaves, leaf_index)[k - 1])]
<1> DEFINE start == [index |-> leaf_index, siblings |-> <<>>]
           Fits(n, f) == f = [k \in 0..n |-> IF k = 0 THEN start
                                             ELSE Higher(Layers(leaves)[k - 1], f[k - 1])]
           S == {n \in Nat : \E f : Fits(n, f)}
<1> HIDE DEF start
<1>1. 0 \in S
  <2>1. Fits(0, [k \in 0..0 |-> start])
    OBVIOUS
  <2> QED BY <2>1
<1>2. ASSUME NEW n \in Nat, n \in S PROVE n + 1 \in S
  <2>1. PICK f : Fits(n, f)
    BY <1>2
  <2> DEFINE g == [k \in 0..(n + 1) |-> IF k <= n THEN f[k] ELSE Higher(Layers(leaves)[n], f[n])]
             h == [k \in 0..(n + 1) |-> IF k = 0 THEN start
                                         ELSE Higher(Layers(leaves)[k - 1], g[k - 1])]
  <2>2. ASSUME NEW k \in 0..(n + 1) PROVE g[k] = h[k]
    <3>1. CASE k = 0
      BY <2>1, <3>1
    <3>2. CASE k \in 1..n
      BY <2>1, <3>2
    <3>3. CASE k = n + 1
      BY <2>1, <3>3
    <3> QED BY <3>1, <3>2, <3>3
  <2>3. g = h
    BY <2>2
  <2>4. Fits(n + 1, g)
    BY <2>3
  <2>5. \E f_1 : Fits(n + 1, f_1)
    <3> HIDE DEF g, Fits
    <3> QED BY <2>4
  <2> HIDE DEF Fits
  <2> QED BY <2>5
<1> HIDE DEF S
<1>3. Nat \subseteq S
  BY <1>1, <1>2, NatSetInduction
<1>4. \E f : Fits(Len(leaves), f)
  BY <1>3 DEF S
<1> QED BY <1>4 DEF Climb, start

(* The tree and a climb start at the padded leaves.                        *)
LEMMA FirstLayer ==
  ASSUME NEW leaves, Len(leaves) \in Nat, NEW leaf_index
  PROVE  /\ Layers(leaves)[0] = Padded(leaves)
         /\ Climb(leaves, leaf_index)[0] = [index |-> leaf_index, siblings |-> <<>>]
<1>1. 0 \in 0..Len(leaves)
  OBVIOUS
<1>2. Layers(leaves)[0] = Padded(leaves)
  BY <1>1, LayersDef
<1>3. Climb(leaves, leaf_index)[0] = [index |-> leaf_index, siblings |-> <<>>]
  BY <1>1, ClimbDef
<1> QED BY <1>2, <1>3

(* And they go on one layer at a time.                                     *)
LEMMA NextLayer ==
  ASSUME NEW leaves, Len(leaves) \in Nat, NEW leaf_index,
         NEW k \in Nat, k + 1 <= Len(leaves)
  PROVE  LET layer == Layers(leaves)[k]
             place == Climb(leaves, leaf_index)[k]
         IN  /\ Layers(leaves)[k + 1] = IF Len(layer) = 1 THEN layer ELSE LayerAbove(layer)
             /\ Climb(leaves, leaf_index)[k + 1] = Higher(layer, place)
<1>1. k + 1 \in 0..Len(leaves) /\ k + 1 # 0 /\ (k + 1) - 1 = k
  OBVIOUS
<1>2. Layers(leaves)[k + 1] =
        IF Len(Layers(leaves)[k]) = 1 THEN Layers(leaves)[k] ELSE LayerAbove(Layers(leaves)[k])
  BY <1>1, LayersDef
<1>3. Climb(leaves, leaf_index)[k + 1] =
        Higher(Layers(leaves)[k], Climb(leaves, leaf_index)[k])
  BY <1>1, ClimbDef
<1> QED BY <1>1, <1>2, <1>3

(* The operations for one sibling more join it on its side and hash.       *)
LEMMA ApplySibling ==
  ASSUME NEW m \in Nat, NEW siblings, siblings = [i \in 1..m |-> siblings[i]],
         NEW sibling, NEW digest
  PROVE  ApplyOperations(digest, ToOperations(siblings \o <<sibling>>)) =
           LET current == ApplyOperations(digest, ToOperations(siblings))
           IN  IF sibling.position = "left" THEN HashPair(sibling.hash, current)
               ELSE HashPair(current, sibling.hash)
<1> DEFINE T == {siblings[i] : i \in 1..m} \cup {sibling}
           longer == siblings \o <<sibling>>
           few == ToOperations(siblings)
           many == ToOperations(longer)
           most == [k \in 1..(2 * m + 1) |-> many[k]]
<1>1. siblings \in Seq(T) /\ Len(siblings) = m
  <2>1. siblings \in Seq({siblings[i] : i \in 1..m}) /\ Len(siblings) = m
    BY FunctionIsSeq
  <2> HIDE DEF T
  <2> QED BY <2>1, SeqMonotonic DEF T
<1>2. <<sibling>> \in Seq(T) /\ Len(<<sibling>>) = 1 /\ <<sibling>>[1] = sibling
  OBVIOUS
<1>3. /\ Len(longer) = m + 1
      /\ \A i \in 1..m : longer[i] = siblings[i]
      /\ longer[m + 1] = sibling
  <2> HIDE DEF T
  <2> QED BY <1>1, <1>2, ConcatProperties
<1> HIDE DEF longer, T
<1>4. few = [k \in 1..(2 * m) |-> IF k % 2 = 1 THEN Join(siblings[(k + 1) \div 2])
                                 ELSE Op("sha256", <<>>)]
  BY <1>1 DEF ToOperations
<1>5. many = [k \in 1..(2 * m + 2) |-> IF k % 2 = 1 THEN Join(longer[(k + 1) \div 2])
                                     ELSE Op("sha256", <<>>)]
  <2>1. 2 * Len(longer) = 2 * m + 2
    BY <1>3
  <2> QED BY <2>1 DEF ToOperations
<1>6. /\ \A k \in 1..(2 * m) : few[k] = many[k]
      /\ many[2 * m + 1] = Join(sibling)
      /\ many[2 * m + 2] = Op("sha256", <<>>)
  <2>1. ASSUME NEW k \in 1..(2 * m) PROVE few[k] = many[k]
    <3>1. CASE k % 2 = 1
      <4>1. (k + 1) \div 2 \in 1..m
        BY <3>1
      <4>2. longer[(k + 1) \div 2] = siblings[(k + 1) \div 2]
        BY <4>1, <1>3
      <4>3. few[k] = Join(siblings[(k + 1) \div 2])
        BY <3>1, <1>4
      <4>4. many[k] = Join(longer[(k + 1) \div 2])
        BY <3>1, <1>5
      <4> QED BY <4>2, <4>3, <4>4
    <3>2. CASE k % 2 # 1
      <4>1. few[k] = Op("sha256", <<>>)
        BY <3>2, <1>4
      <4>2. many[k] = Op("sha256", <<>>)
        BY <3>2, <1>5
      <4> QED BY <4>1, <4>2
    <3> QED BY <3>1, <3>2
  <2>2. (2 * m + 1) % 2 = 1 /\ (2 * m + 2) % 2 = 0 /\ (2 * m + 2) \div 2 = m + 1
    OBVIOUS
  <2>3. many[2 * m + 1] = Join(longer[(2 * m + 2) \div 2])
    BY <1>5, <2>2
  <2>4. many[2 * m + 2] = Op("sha256", <<>>)
    BY <1>5, <2>2
  <2> QED BY <2>1, <2>2, <2>3, <2>4, <1>3
<1>7. Len(few) = 2 * m /\ Len(most) = 2 * m + 1 /\ Len(many) = 2 * m + 2
  <2>1. Len(few) = 2 * m
    <3>1. few = [k \in 1..(2 * m) |-> few[k]]
      BY <1>4
    <3> HIDE DEF few
    <3> QED BY <3>1, FunctionIsSeq
  <2>2. Len(many) = 2 * m + 2
    <3>1. many = [k \in 1..(2 * m + 2) |-> many[k]]
      BY <1>5
    <3> HIDE DEF many
    <3> QED BY <3>1, FunctionIsSeq
  <2>3. Len(most) = 2 * m + 1
    <3>1. most = [k \in 1..(2 * m + 1) |-> most[k]]
      OBVIOUS
    <3> HIDE DEF most
    <3> QED BY <3>1, FunctionIsSeq
  <2> QED BY <2>1, <2>2, <2>3
<1>8. most[2 * m + 1] = Join(sibling) /\ \A k \in 1..(2 * m + 1) : most[k] = many[k]
  BY <1>6
<1> HIDE DEF few, many, most
<1>9. ApplyOperations(digest, most) =
        ApplyOperation(ApplyOperations(digest, few), Join(sibling))
  BY <1>6, <1>7, <1>8, ApplyOneMore
<1>10. ApplyOperations(digest, many) =
         ApplyOperation(ApplyOperations(digest, most), Op("sha256", <<>>))
  BY <1>6, <1>7, <1>8, ApplyOneMore
<1> QED BY <1>9, <1>10 DEF ApplyOperation, Join, Op, HashPair, few, many, longer

IsListOf(m, list) == list = [i \in 1..m |-> list[i]]

(* The way up from a leaf: at each layer it is at a node of the layer, and *)
(* the operations for the siblings so far compute that node from the leaf. *)
OnTheWay(leaves, leaf_index, k) ==
  LET layer == Layers(leaves)[k]
      place == Climb(leaves, leaf_index)[k]
  IN  /\ IsLayer(layer)
      /\ Len(layer) = 1 \/ Len(layer) + k <= Len(leaves) + 1
      /\ place.index \in Nat /\ place.index < Len(layer)
      /\ \E m \in Nat : IsListOf(m, place.siblings)
      /\ ApplyOperations(leaves[leaf_index + 1], ToOperations(place.siblings)) =
           layer[place.index + 1]

(* One layer up, where the layer has more than one node.                   *)
LEMMA OneLayerUp ==
  ASSUME NEW layer, IsLayer(layer), Len(layer) # 1,
         NEW index \in Nat, index < Len(layer),
         NEW m \in Nat, NEW siblings, IsListOf(m, siblings), NEW digest,
         ApplyOperations(digest, ToOperations(siblings)) = layer[index + 1]
  PROVE  /\ index \div 2 \in Nat /\ index \div 2 < Len(LayerAbove(layer))
         /\ IsListOf(m + 1, siblings \o Sibling(layer, index))
         /\ ApplyOperations(digest, ToOperations(siblings \o Sibling(layer, index))) =
              LayerAbove(layer)[index \div 2 + 1]
<1>1. /\ Len(layer) \in Nat /\ Len(layer) % 2 = 0
      /\ siblings = [i \in 1..m |-> siblings[i]]
  BY FunctionIsSeq DEF IsLayer, IsListOf
<1> DEFINE sibling == IF index % 2 # 0 THEN [hash |-> layer[index], position |-> "left"]
                      ELSE [hash |-> layer[index + 2], position |-> "right"]
           above == LayerAbove(layer)
<1>2. Sibling(layer, index) = <<sibling>>
  <2>1. index % 2 = 0 => index + 1 < Len(layer)
    BY <1>1
  <2> QED BY <2>1 DEF Sibling
<1>3. index \div 2 \in Nat /\ index \div 2 + 1 \in 1..(Len(layer) \div 2)
  BY <1>1
<1>4. /\ Len(layer) \div 2 <= Len(above)
      /\ above[index \div 2 + 1] = HashPair(layer[2 * (index \div 2 + 1) - 1],
                                           layer[2 * (index \div 2 + 1)])
  BY <1>3, LayerAboveIsLayer
<1>5. ApplyOperations(digest, ToOperations(siblings \o <<sibling>>)) = above[index \div 2 + 1]
  <2>1. CASE index % 2 # 0
    <3>1. 2 * (index \div 2 + 1) - 1 = index /\ 2 * (index \div 2 + 1) = index + 1
      BY <2>1
    <3>2. sibling.position = "left" /\ sibling.hash = layer[index]
      BY <2>1
    <3> HIDE DEF sibling, above
    <3>3. ApplyOperations(digest, ToOperations(siblings \o <<sibling>>)) =
            IF sibling.position = "left" THEN HashPair(sibling.hash, layer[index + 1])
            ELSE HashPair(layer[index + 1], sibling.hash)
      BY <1>1, ApplySibling
    <3> QED BY <3>1, <3>2, <3>3, <1>4
  <2>2. CASE index % 2 = 0
    <3>1. 2 * (index \div 2 + 1) - 1 = index + 1 /\ 2 * (index \div 2 + 1) = index + 2
      BY <2>2
    <3>2. sibling.position = "right" /\ sibling.hash = layer[index + 2]
      BY <2>2
    <3> HIDE DEF sibling, above
    <3>3. ApplyOperations(digest, ToOperations(siblings \o <<sibling>>)) =
            IF sibling.position = "left" THEN HashPair(sibling.hash, layer[index + 1])
            ELSE HashPair(layer[index + 1], sibling.hash)
      BY <1>1, ApplySibling
    <3> QED BY <3>1, <3>2, <3>3, <1>4
  <2> QED BY <2>1, <2>2
<1>6. IsListOf(m + 1, siblings \o <<sibling>>)
  <2> HIDE DEF sibling
  <2> DEFINE T == {siblings[i] : i \in 1..m} \cup {sibling}
  <2>1. siblings \in Seq(T) /\ Len(siblings) = m
    <3>1. siblings \in Seq({siblings[i] : i \in 1..m}) /\ Len(siblings) = m
      BY <1>1, FunctionIsSeq
    <3> HIDE DEF T
    <3> QED BY <3>1, SeqMonotonic DEF T
  <2>2. <<sibling>> \in Seq(T) /\ Len(<<sibling>>) = 1
    OBVIOUS
  <2> HIDE DEF T
  <2>3. siblings \o <<sibling>> \in Seq(T) /\ Len(siblings \o <<sibling>>) = m + 1
    BY <2>1, <2>2, ConcatProperties
  <2> QED BY <2>3, LenProperties DEF IsListOf
<1>7. Len(above) \in Nat
  <2>1. IsLayer(above)
    BY LayerAboveIsLayer
  <2> HIDE DEF above
  <2> QED BY <2>1, FunctionIsSeq DEF IsLayer
<1>8. index \div 2 < Len(above)
  <2> HIDE DEF above
  <2> QED BY <1>1, <1>3, <1>4, <1>7
<1> HIDE DEF sibling
<1> QED BY <1>2, <1>3, <1>5, <1>6, <1>8

(* The way leads up to the last layer.                                     *)
LEMMA TopIsReached ==
  ASSUME NEW n \in Nat \ {0}, NEW leaves, leaves = [i \in 1..n |-> leaves[i]],
         NEW leaf_index \in 0..(n - 1)
  PROVE  OnTheWay(leaves, leaf_index, n)
<1>1. Len(leaves) = n
  BY FunctionIsSeq
<1> DEFINE S == {k \in Nat : k <= n => OnTheWay(leaves, leaf_index, k)}
<1>2. 0 \in S
  <2>1. Layers(leaves)[0] = Padded(leaves)
    BY <1>1, FirstLayer
  <2>2. Climb(leaves, leaf_index)[0] = [index |-> leaf_index, siblings |-> <<>>]
    BY <1>1, FirstLayer
  <2>3. /\ IsLayer(Padded(leaves))
        /\ Len(Padded(leaves)) = IF n = 1 \/ n % 2 = 0 THEN n ELSE n + 1
        /\ Padded(leaves)[leaf_index + 1] = leaves[leaf_index + 1]
    BY PaddedIsLayer
  <2>4. ToOperations(<<>>) = <<>>
    <3>1. ToOperations(<<>>) = [k \in 1..0 |-> Op("sha256", <<>>)]
      BY EmptySeq DEF ToOperations
    <3> QED BY <3>1
  <2>5. ApplyOperations(leaves[leaf_index + 1], ToOperations(<<>>)) = leaves[leaf_index + 1]
    BY <2>4, ApplyNone
  <2>6. <<>> = [i \in 1..0 |-> <<>>[i]]
    OBVIOUS
  <2>7. \E m \in Nat : IsListOf(m, <<>>)
    BY <2>6 DEF IsListOf
  <2>8. OnTheWay(leaves, leaf_index, 0)
    <3> DEFINE layer == Layers(leaves)[0]
               place == Climb(leaves, leaf_index)[0]
    <3>1. place.index = leaf_index /\ place.siblings = <<>>
      BY <2>2
    <3>2. Len(layer) = 1 \/ Len(layer) + 0 <= n + 1
      BY <2>1, <2>3
    <3>3. leaf_index \in Nat /\ leaf_index < Len(layer)
      BY <2>1, <2>3
    <3> HIDE DEF place
    <3> QED BY <1>1, <2>1, <2>3, <2>5, <2>7, <3>1, <3>2, <3>3 DEF OnTheWay, place
  <2> QED BY <2>8
<1>3. ASSUME NEW k \in Nat, k \in S PROVE k + 1 \in S
  <2>1. SUFFICES ASSUME k + 1 <= n PROVE OnTheWay(leaves, leaf_index, k + 1)
    OBVIOUS
  <2> DEFINE layer == Layers(leaves)[k]
             place == Climb(leaves, leaf_index)[k]
             above == Layers(leaves)[k + 1]
             higher == Climb(leaves, leaf_index)[k + 1]
             leaf == leaves[leaf_index + 1]
  <2>2. OnTheWay(leaves, leaf_index, k)
    BY <1>3, <2>1
  <2>3. above = IF Len(layer) = 1 THEN layer ELSE LayerAbove(layer)
    BY <1>1, <2>1, NextLayer
  <2>4. higher = Higher(layer, place)
    BY <1>1, <2>1, NextLayer
  <2>5. CASE Len(layer) = 1
    BY <2>2, <2>3, <2>4, <2>5 DEF OnTheWay, Higher
  <2> HIDE DEF layer, place, above, higher, leaf
  <2>6. CASE Len(layer) # 1
    <3>1. PICK m \in Nat : IsListOf(m, place.siblings)
      BY <2>2 DEF OnTheWay, place
    <3> DEFINE more == place.siblings \o Sibling(layer, place.index)
    <3>2. /\ IsLayer(layer) /\ place.index \in Nat /\ place.index < Len(layer)
          /\ Len(layer) + k <= n + 1
          /\ ApplyOperations(leaf, ToOperations(place.siblings)) = layer[place.index + 1]
      BY <1>1, <2>2, <2>6 DEF OnTheWay, layer, place, leaf
    <3>3. /\ place.index \div 2 \in Nat /\ place.index \div 2 < Len(LayerAbove(layer))
          /\ IsListOf(m + 1, more)
          /\ ApplyOperations(leaf, ToOperations(more)) =
               LayerAbove(layer)[place.index \div 2 + 1]
      <4>1. /\ IsLayer(layer) /\ Len(layer) # 1
            /\ place.index \in Nat /\ place.index < Len(layer)
            /\ m \in Nat /\ IsListOf(m, place.siblings)
            /\ ApplyOperations(leaf, ToOperations(place.siblings)) = layer[place.index + 1]
        BY <2>6, <3>1, <3>2
      <4>2. place.index \div 2 \in Nat /\ place.index \div 2 < Len(LayerAbove(layer))
        BY <4>1, OneLayerUp
      <4>3. IsListOf(m + 1, more)
        BY <4>1, OneLayerUp
      <4>4. ApplyOperations(leaf, ToOperations(more)) =
              LayerAbove(layer)[place.index \div 2 + 1]
        BY <4>1, OneLayerUp
      <4> QED BY <4>2, <4>3, <4>4
    <3>4. IsLayer(LayerAbove(layer)) /\ Len(LayerAbove(layer)) < Len(layer)
      BY <2>6, <3>2, LayerAboveIsLayer
    <3>5. Len(layer) \in Nat /\ Len(LayerAbove(layer)) \in Nat
      BY <3>2, <3>4, FunctionIsSeq DEF IsLayer
    <3>6. Len(LayerAbove(layer)) + (k + 1) <= n + 1
      BY <3>2, <3>4, <3>5
    <3>7. above = LayerAbove(layer)
      BY <2>3, <2>6
    <3>8. higher.index = place.index \div 2 /\ higher.siblings = more
      BY <2>4, <2>6 DEF Higher
    <3> HIDE DEF more
    <3>9. \E j \in Nat : IsListOf(j, more)
      BY <3>3
    <3> QED BY <1>1, <3>3, <3>4, <3>6, <3>7, <3>8, <3>9 DEF OnTheWay, above, higher, leaf
  <2> QED BY <2>5, <2>6
<1> HIDE DEF S
<1>4. Nat \subseteq S
  BY <1>2, <1>3, NatSetInduction
<1> QED BY <1>4 DEF S

(* A proof for a batch is right: for every number of leaves and each of    *)
(* them, the operations MerkleProof::to_operations makes of get_proof's    *)
(* siblings compute the tree's root from the leaf.                         *)
THEOREM PathLeadsToRoot ==
  ASSUME NEW n \in Nat \ {0}, NEW leaves, leaves = [i \in 1..n |-> leaves[i]],
         NEW leaf_index \in 0..(n - 1)
  PROVE  ApplyOperations(leaves[leaf_index + 1],
                         ToOperations(GetProof(leaves, leaf_index))) = Root(leaves)
<1>1. Len(leaves) = n
  BY FunctionIsSeq
<1> DEFINE layer == Layers(leaves)[n]
           place == Climb(leaves, leaf_index)[n]
<1>2. /\ Len(layer) = 1 \/ Len(layer) + n <= n + 1
      /\ IsLayer(layer)
      /\ place.index \in Nat /\ place.index < Len(layer)
      /\ ApplyOperations(leaves[leaf_index + 1], ToOperations(place.siblings)) =
           layer[place.index + 1]
  BY <1>1, TopIsReached DEF OnTheWay
<1>3. place.index = 0
  <2> HIDE DEF layer, place
  <2>1. Len(layer) \in Nat
    BY <1>2, FunctionIsSeq DEF IsLayer
  <2> QED BY <1>2, <2>1
<1> QED BY <1>1, <1>2, <1>3 DEF GetProof, Root

(* Such a path is a list, of operations only.                              *)
LEMMA PathIsList ==
  ASSUME NEW n \in Nat \ {0}, NEW leaves, leaves = [i \in 1..n |-> leaves[i]],
         NEW leaf_index \in 0..(n - 1)
  PROVE  LET path == ToOperations(GetProof(leaves, leaf_index))
         IN  \E m \in Nat : IsListOf(m, path) /\ \A k \in 1..m : path[k][1] \in OpTags
<1> DEFINE siblings == GetProof(leaves, leaf_index)
           path == ToOperations(siblings)
<1>1. PICK j \in Nat : IsListOf(j, siblings)
  <2>1. Len(leaves) = n
    BY FunctionIsSeq
  <2> QED BY <2>1, TopIsReached DEF OnTheWay, GetProof
<1> HIDE DEF siblings
<1>2. Len(siblings) = j
  BY <1>1, FunctionIsSeq DEF IsListOf
<1>3. path = [k \in 1..(2 * j) |-> IF k % 2 = 1 THEN Join(siblings[(k + 1) \div 2])
                                  ELSE Op("sha256", <<>>)]
  BY <1>2 DEF ToOperations
<1> HIDE DEF path
<1>4. IsListOf(2 * j, path)
  BY <1>3 DEF IsListOf
<1>5. \A k \in 1..(2 * j) : path[k][1] \in OpTags
  BY <1>3 DEF Join, Op, OpTags
<1>6. 2 * j \in Nat
  BY <1>1
<1> QED BY <1>4, <1>5, <1>6 DEF path, siblings

-----------------------------------------------------------------------------
(* The .kts format *)

(* Tagged satisfies its own equation.                                      *)
LEMMA TaggedDef ==
  ASSUME NEW tokens, Len(tokens) \in Nat, NEW tags
  PROVE  \E kept :
           /\ kept = [k \in 0..Len(tokens) |->
                        IF k = 0 THEN <<>>
                        ELSE IF tokens[k][1] \in tags THEN Append(kept[k - 1], tokens[k])
                        ELSE kept[k - 1]]
           /\ Tagged(tokens, tags) = kept[Len(tokens)]
<1> DEFINE Keep(before, token) ==
             IF token[1] \in tags THEN Append(before, token) ELSE before
           Fits(n, f) == f = [k \in 0..n |-> IF k = 0 THEN <<>> ELSE Keep(f[k - 1], tokens[k])]
           S == {n \in Nat : \E f : Fits(n, f)}
<1> HIDE DEF Keep
<1>1. 0 \in S
  <2>1. Fits(0, [k \in 0..0 |-> <<>>])
    OBVIOUS
  <2> QED BY <2>1
<1>2. ASSUME NEW n \in Nat, n \in S PROVE n + 1 \in S
  <2>1. PICK f : Fits(n, f)
    BY <1>2
  <2> DEFINE g == [k \in 0..(n + 1) |-> IF k <= n THEN f[k] ELSE Keep(f[n], tokens[n + 1])]
             h == [k \in 0..(n + 1) |-> IF k = 0 THEN <<>> ELSE Keep(g[k - 1], tokens[k])]
  <2>2. ASSUME NEW k \in 0..(n + 1) PROVE g[k] = h[k]
    <3>1. CASE k = 0
      BY <2>1, <3>1
    <3>2. CASE k \in 1..n
      BY <2>1, <3>2
    <3>3. CASE k = n + 1
      BY <2>1, <3>3
    <3> QED BY <3>1, <3>2, <3>3
  <2>3. g = h
    BY <2>2
  <2>4. Fits(n + 1, g)
    BY <2>3
  <2>5. \E f_1 : Fits(n + 1, f_1)
    <3> HIDE DEF g, Fits
    <3> QED BY <2>4
  <2> HIDE DEF Fits
  <2> QED BY <2>5
<1> HIDE DEF S
<1>3. Nat \subseteq S
  BY <1>1, <1>2, NatSetInduction
<1>4. \E f : Fits(Len(tokens), f)
  BY <1>3 DEF S
<1> DEFINE kept == CHOOSE f : Fits(Len(tokens), f)
<1>5. Fits(Len(tokens), kept)
  BY <1>4
<1>6. Tagged(tokens, tags) = kept[Len(tokens)]
  BY DEF Tagged, Keep
<1> HIDE DEF kept
<1> QED BY <1>5, <1>6 DEF Keep

(* Of n tokens the tags are those of the ones after p and up to q.         *)
TaggedFromTo(n, tokens, tags, p, q) ==
  /\ n \in Nat /\ IsListOf(n, tokens)
  /\ p \in 0..n /\ q \in p..n
  /\ \A k \in 1..n : tokens[k][1] \in tags <=> p < k /\ k <= q

(* Then these are what is kept.                                            *)
LEMMA TaggedStretch ==
  ASSUME NEW n, NEW tokens, NEW tags, NEW p, NEW q, TaggedFromTo(n, tokens, tags, p, q)
  PROVE  Tagged(tokens, tags) = SubSeq(tokens, p + 1, q)
<1> USE DEF TaggedFromTo
<1> DEFINE T == {tokens[i] : i \in 1..n}
<1>1. tokens \in Seq(T) /\ Len(tokens) = n
  BY FunctionIsSeq DEF IsListOf
<1>2. \A k \in 1..n : tokens[k] \in T
  OBVIOUS
<1> HIDE DEF T
<1>3. PICK kept :
        /\ kept = [k \in 0..n |->
                     IF k = 0 THEN <<>>
                     ELSE IF tokens[k][1] \in tags THEN Append(kept[k - 1], tokens[k])
                     ELSE kept[k - 1]]
        /\ Tagged(tokens, tags) = kept[n]
  BY <1>1, TaggedDef
<1> DEFINE Part(k) == SubSeq(tokens, p + 1, IF k <= q THEN k ELSE q)
           S == {k \in Nat : k <= n => kept[k] = Part(k)}
<1>4. 0 \in S
  <2>1. Part(0) = <<>>
    BY SubSeqEmpty
  <2> QED BY <1>3, <2>1
<1>5. ASSUME NEW k \in Nat, k \in S PROVE k + 1 \in S
  <2>1. SUFFICES ASSUME k + 1 <= n PROVE kept[k + 1] = Part(k + 1)
    OBVIOUS
  <2>2. kept[k] = Part(k)
    BY <1>5, <2>1
  <2>3. kept[k + 1] = IF tokens[k + 1][1] \in tags THEN Append(kept[k], tokens[k + 1])
                      ELSE kept[k]
    <3>1. k + 1 \in 0..n /\ k + 1 # 0 /\ (k + 1) - 1 = k
      BY <2>1
    <3>2. kept[k + 1] = IF tokens[k + 1][1] \in tags
                        THEN Append(kept[(k + 1) - 1], tokens[k + 1])
                        ELSE kept[(k + 1) - 1]
      BY <1>3, <3>1
    <3> QED BY <3>1, <3>2
  <2>4. CASE p < k + 1 /\ k + 1 <= q
    <3>1. kept[k + 1] = Append(SubSeq(tokens, p + 1, k), tokens[k + 1])
      BY <2>1, <2>2, <2>3, <2>4
    <3>2. SubSeq(tokens, p + 1, k + 1) = SubSeq(tokens, p + 1, k) \o <<tokens[k + 1]>>
      <4>1. p + 1 \in 1..Len(tokens) /\ k + 1 \in (p + 1)..Len(tokens) /\ (k + 1) - 1 = k
        BY <1>1, <2>1, <2>4
      <4> QED BY <1>1, <4>1, SubSeqRecursiveSecond
    <3>3. SubSeq(tokens, p + 1, k) \in Seq(T)
      BY <1>1, <1>2, <2>1, SubSeqProperties
    <3>4. tokens[k + 1] \in T
      BY <1>2, <2>1
    <3>5. Append(SubSeq(tokens, p + 1, k), tokens[k + 1]) =
            SubSeq(tokens, p + 1, k) \o <<tokens[k + 1]>>
      BY <3>3, <3>4, AppendIsConcat
    <3> QED BY <2>4, <3>1, <3>2, <3>5
  <2>5. CASE ~(p < k + 1 /\ k + 1 <= q)
    <3>1. kept[k + 1] = kept[k]
      BY <2>1, <2>3, <2>5
    <3>2. CASE k + 1 <= p
      <4>1. SubSeq(tokens, p + 1, k) = <<>> /\ SubSeq(tokens, p + 1, k + 1) = <<>>
        BY <3>2, SubSeqEmpty
      <4> QED BY <2>2, <3>1, <3>2, <4>1
    <3>3. CASE q < k + 1
      <4>1. (IF k <= q THEN k ELSE q) = q /\ (IF k + 1 <= q THEN k + 1 ELSE q) = q
        BY <3>3
      <4> QED BY <2>2, <3>1, <4>1
    <3> QED BY <2>5, <3>2, <3>3
  <2> QED BY <2>4, <2>5
<1> HIDE DEF S
<1>6. Nat \subseteq S
  BY <1>4, <1>5, NatSetInduction
<1>7. kept[n] = Part(n)
  BY <1>6 DEF S
<1>8. (IF n <= q THEN n ELSE q) = q
  OBVIOUS
<1> QED BY <1>3, <1>7, <1>8

(* A proof whose operations are operations, with one attestation at most,  *)
(* as the program makes them.                                              *)
WellFormed(proof) ==
  /\ proof = Proof(proof.digest, proof.operations, proof.attestations)
  /\ \E n \in Nat : /\ IsListOf(n, proof.operations)
                    /\ \A k \in 1..n : proof.operations[k][1] \in OpTags
  /\ \/ proof.attestations = <<>>
     \/ \E a : proof.attestations = <<a>> /\ a[1] \in AttestationTags

(* The tokens of such a proof.                                             *)
LEMMA SerializedTokens ==
  ASSUME NEW proof, WellFormed(proof)
  PROVE  LET tokens == Serialize(proof)
         IN  \E n \in Nat, m \in {0, 1} :
               /\ IsListOf(n, proof.operations)
               /\ IsListOf(m, proof.attestations)
               /\ IsListOf(1 + n + m, tokens)
               /\ tokens[1] = Header(proof.digest)
               /\ \A k \in 1..n : /\ tokens[k + 1] = proof.operations[k]
                                  /\ proof.operations[k][1] \in OpTags
               /\ \A k \in 1..m : /\ tokens[k + 1 + n] = proof.attestations[k]
                                  /\ proof.attestations[k][1] \in AttestationTags
<1> DEFINE ops == proof.operations
           atts == proof.attestations
           head == Header(proof.digest)
<1>1. PICK n \in Nat : IsListOf(n, ops) /\ \A k \in 1..n : ops[k][1] \in OpTags
  BY DEF WellFormed
<1>2. PICK m \in {0, 1} : IsListOf(m, atts) /\ \A k \in 1..m : atts[k][1] \in AttestationTags
  <2>1. CASE atts = <<>>
    <3>1. IsListOf(0, atts)
      BY <2>1 DEF IsListOf
    <3> QED BY <3>1
  <2>2. CASE \E a : atts = <<a>> /\ a[1] \in AttestationTags
    <3>1. IsListOf(1, atts)
      BY <2>2 DEF IsListOf
    <3>2. \A k \in 1..1 : atts[k][1] \in AttestationTags
      BY <2>2
    <3> QED BY <3>1, <3>2
  <2> QED BY <2>1, <2>2 DEF WellFormed
<1> DEFINE T == {ops[i] : i \in 1..n} \cup {atts[i] : i \in 1..m} \cup {head}
           front == <<head>> \o ops
<1>3. /\ <<head>> \in Seq(T) /\ Len(<<head>>) = 1 /\ <<head>>[1] = head
  OBVIOUS
<1>4. ops \in Seq(T) /\ Len(ops) = n
  <2>1. ops \in Seq({ops[i] : i \in 1..n}) /\ Len(ops) = n
    <3> HIDE DEF ops
    <3> QED BY <1>1, FunctionIsSeq DEF IsListOf
  <2> HIDE DEF T, ops
  <2> QED BY <2>1, SeqMonotonic DEF T
<1>5. atts \in Seq(T) /\ Len(atts) = m
  <2>1. atts \in Seq({atts[i] : i \in 1..m}) /\ Len(atts) = m
    <3> HIDE DEF atts
    <3> QED BY <1>2, FunctionIsSeq DEF IsListOf
  <2> HIDE DEF T, atts
  <2> QED BY <2>1, SeqMonotonic DEF T
<1>6. Serialize(proof) = front \o atts
  BY DEF Serialize
<1> HIDE DEF T, ops, atts, head
<1>7. /\ front \in Seq(T) /\ Len(front) = 1 + n
      /\ front[1] = head /\ \A k \in 1..n : front[k + 1] = ops[k]
  <2>1. /\ front \in Seq(T) /\ Len(front) = 1 + n
        /\ \A i \in 1..(1 + n) : front[i] = IF i <= 1 THEN <<head>>[i] ELSE ops[i - 1]
    BY <1>1, <1>3, <1>4, ConcatProperties
  <2> HIDE DEF front
  <2> QED BY <1>1, <1>3, <2>1
<1> HIDE DEF front
<1> DEFINE tokens == front \o atts
<1>8. /\ tokens \in Seq(T) /\ Len(tokens) = 1 + n + m
      /\ \A i \in 1..(1 + n) : tokens[i] = front[i]
      /\ \A k \in 1..m : tokens[k + 1 + n] = atts[k]
  <2>1. /\ tokens \in Seq(T) /\ Len(tokens) = 1 + n + m
        /\ \A i \in 1..(1 + n + m) : tokens[i] = IF i <= 1 + n THEN front[i]
                                               ELSE atts[i - (1 + n)]
    BY <1>1, <1>2, <1>5, <1>7, ConcatProperties
  <2> HIDE DEF tokens
  <2>2. \A k \in 1..m : tokens[k + 1 + n] = atts[k]
    <3> TAKE k \in 1..m
    <3>1. k + 1 + n \in 1..(1 + n + m) /\ ~(k + 1 + n <= 1 + n) /\ (k + 1 + n) - (1 + n) = k
      BY <1>1, <1>2
    <3> QED BY <2>1, <3>1
  <2> QED BY <1>1, <1>2, <2>1, <2>2
<1> HIDE DEF tokens
<1>9. IsListOf(1 + n + m, tokens)
  BY <1>8, LenProperties DEF IsListOf
<1>10. tokens[1] = head /\ \A k \in 1..n : tokens[k + 1] = ops[k]
  BY <1>1, <1>7, <1>8
<1>11. Serialize(proof) = tokens
  BY <1>6 DEF tokens
<1> QED BY <1>1, <1>2, <1>8, <1>9, <1>10, <1>11 DEF ops, atts, head

(* Reading back what was written: deserialize_proof gives the proof that   *)
(* serialize_proof was given, whatever its operations and attestation.     *)
THEOREM RoundTrip ==
  ASSUME NEW proof, WellFormed(proof)
  PROVE  Deserialize(Serialize(proof)) = proof
<1> DEFINE tokens == Serialize(proof)
<1>1. PICK n \in Nat, m \in {0, 1} :
        /\ IsListOf(n, proof.operations)
        /\ IsListOf(m, proof.attestations)
        /\ IsListOf(1 + n + m, tokens)
        /\ tokens[1] = Header(proof.digest)
        /\ \A k \in 1..n : /\ tokens[k + 1] = proof.operations[k]
                           /\ proof.operations[k][1] \in OpTags
        /\ \A k \in 1..m : /\ tokens[k + 1 + n] = proof.attestations[k]
                           /\ proof.attestations[k][1] \in AttestationTags
  BY SerializedTokens
<1> HIDE DEF tokens
<1> DEFINE N == 1 + n + m
<1>2. N \in Nat /\ 1 <= N /\ n + 1 \in 1..N
  BY <1>1
<1>3. \A k \in 2..(n + 1) : tokens[k] = proof.operations[k - 1] /\ tokens[k][1] \in OpTags
  <2> TAKE k \in 2..(n + 1)
  <2>1. k - 1 \in 1..n /\ (k - 1) + 1 = k
    BY <1>1
  <2> QED BY <1>1, <2>1
<1>4. \A k \in (n + 2)..N : /\ tokens[k] = proof.attestations[k - (n + 1)]
                           /\ tokens[k][1] \in AttestationTags
  <2> TAKE k \in (n + 2)..N
  <2>1. k - (n + 1) \in 1..m /\ (k - (n + 1)) + 1 + n = k
    BY <1>1
  <2> QED BY <1>1, <2>1
<1>5. \A k \in 1..N : k = 1 \/ k \in 2..(n + 1) \/ k \in (n + 2)..N
  BY <1>1
<1>6. ASSUME NEW k \in 1..N
      PROVE  /\ tokens[k][1] \in OpTags <=> 1 < k /\ k <= n + 1
             /\ tokens[k][1] \in AttestationTags <=> n + 1 < k /\ k <= N
             /\ tokens[k] # Cut
  <2>1. CASE k = 1
    BY <1>1, <1>2, <2>1 DEF Header, OpTags, AttestationTags, Cut
  <2>2. CASE k \in 2..(n + 1)
    BY <1>1, <1>2, <1>3, <2>2 DEF OpTags, AttestationTags, Cut
  <2>3. CASE k \in (n + 2)..N
    BY <1>1, <1>2, <1>4, <2>3 DEF OpTags, AttestationTags, Cut
  <2> QED BY <1>5, <2>1, <2>2, <2>3
<1>7. Tagged(tokens, OpTags) = SubSeq(tokens, 2, n + 1)
  <2>1. Tagged(tokens, OpTags) = SubSeq(tokens, 1 + 1, n + 1)
    <3>1. 1 \in 0..N /\ n + 1 \in 1..N /\ IsListOf(N, tokens)
      BY <1>1, <1>2
    <3>2. \A k \in 1..N : tokens[k][1] \in OpTags <=> 1 < k /\ k <= n + 1
      BY <1>6
    <3> HIDE DEF N
    <3>3. TaggedFromTo(N, tokens, OpTags, 1, n + 1)
      BY <1>2, <3>1, <3>2 DEF TaggedFromTo
    <3>4. \A p, q : TaggedFromTo(N, tokens, OpTags, p, q) =>
                     Tagged(tokens, OpTags) = SubSeq(tokens, p + 1, q)
      BY TaggedStretch
    <3> QED BY <3>3, <3>4, Zenon
  <2> QED BY <2>1
<1>8. Tagged(tokens, AttestationTags) = SubSeq(tokens, n + 2, N)
  <2>1. Tagged(tokens, AttestationTags) = SubSeq(tokens, (n + 1) + 1, N)
    <3>1. n + 1 \in 0..N /\ N \in (n + 1)..N /\ IsListOf(N, tokens)
      BY <1>1, <1>2
    <3>2. \A k \in 1..N : tokens[k][1] \in AttestationTags <=> n + 1 < k /\ k <= N
      BY <1>6
    <3> HIDE DEF N
    <3>3. TaggedFromTo(N, tokens, AttestationTags, n + 1, N)
      BY <1>2, <3>1, <3>2 DEF TaggedFromTo
    <3> QED BY <3>3, TaggedStretch
  <2>2. (n + 1) + 1 = n + 2
    BY <1>1
  <2> QED BY <2>1, <2>2
<1>9. /\ tokens \in Seq({tokens[i] : i \in 1..N}) /\ Len(tokens) = N /\ DOMAIN tokens = 1..N
  <2>1. N \in Nat /\ tokens = [i \in 1..N |-> tokens[i]]
    BY <1>1, <1>2 DEF IsListOf
  <2> HIDE DEF N
  <2>2. DOMAIN tokens = 1..N
    BY <2>1
  <2> QED BY <2>1, <2>2, FunctionIsSeq
<1>10. SubSeq(tokens, 2, n + 1) = proof.operations
  <2>1. SubSeq(tokens, 2, n + 1) = [i \in 1..n |-> tokens[i + 1]]
    BY <1>1
  <2>2. \A i \in 1..n : tokens[i + 1] = proof.operations[i]
    BY <1>1
  <2> QED BY <1>1, <2>1, <2>2 DEF IsListOf
<1>11. SubSeq(tokens, n + 2, N) = proof.attestations
  <2>1. SubSeq(tokens, n + 2, N) = [i \in 1..m |-> tokens[i + 1 + n]]
    BY <1>1
  <2>2. \A i \in 1..m : tokens[i + 1 + n] = proof.attestations[i]
    BY <1>1
  <2> QED BY <1>1, <2>1, <2>2 DEF IsListOf
<1>12. tokens # <<>> /\ ~ \E i \in DOMAIN tokens : tokens[i] = Cut
  <2>1. Len(tokens) # 0
    BY <1>2, <1>9
  <2>2. tokens # <<>>
    BY <2>1, EmptySeq
  <2>3. \A i \in DOMAIN tokens : tokens[i] # Cut
    BY <1>6, <1>9
  <2> QED BY <2>2, <2>3
<1>13. tokens[1][1] = "header" /\ tokens[1][2] = proof.digest
  BY <1>1 DEF Header
<1>14. Deserialize(tokens) = Proof(proof.digest, proof.operations, proof.attestations)
  BY <1>7, <1>8, <1>10, <1>11, <1>12, <1>13 DEF Deserialize
<1> QED BY <1>14 DEF WellFormed, tokens

(* Tokens none of which is an attestation give a proof without one.        *)
LEMMA WithoutAttestations ==
  ASSUME NEW n \in Nat, NEW tokens, IsListOf(n, tokens),
         \A k \in 1..n : tokens[k][1] \notin AttestationTags
  PROVE  Deserialize(tokens).attestations = <<>>
<1>1. Tagged(tokens, AttestationTags) = SubSeq(tokens, n + 1, n)
  <2>1. TaggedFromTo(n, tokens, AttestationTags, n, n)
    BY DEF TaggedFromTo
  <2> QED BY <2>1, TaggedStretch
<1>2. SubSeq(tokens, n + 1, n) = <<>>
  BY SubSeqEmpty
<1> QED BY <1>1, <1>2 DEF Deserialize, Unreadable, Proof

(* Tokens with one that was cut off give nothing.                          *)
LEMMA CutIsUnreadable ==
  ASSUME NEW tokens, \E i \in DOMAIN tokens : tokens[i] = Cut
  PROVE  Deserialize(tokens) = Unreadable
BY DEF Deserialize

(* A beginning of a file, to the end of a token or into one, is all of it  *)
(* or has no attestation: what a kill leaves of a proof where nothing else *)
(* was.  (Over another command's longer file it may be read as anything.)  *)
THEOREM NoHalfProof ==
  ASSUME NEW proof, WellFormed(proof), NEW tokens \in Beginnings(Serialize(proof))
  PROVE  Deserialize(tokens) = proof \/ Deserialize(tokens).attestations = <<>>
<1> DEFINE whole == Serialize(proof)
<1>1. PICK n \in Nat, m \in {0, 1} :
        /\ IsListOf(1 + n + m, whole)
        /\ whole[1] = Header(proof.digest)
        /\ \A k \in 1..n : /\ whole[k + 1] = proof.operations[k]
                           /\ proof.operations[k][1] \in OpTags
  BY SerializedTokens
<1> HIDE DEF whole
<1> DEFINE N == 1 + n + m
           T == {whole[i] : i \in 1..N} \cup {Cut}
<1>2. whole \in Seq(T) /\ Len(whole) = N /\ \A i \in 1..N : whole[i] \in T
  <2>1. N \in Nat /\ whole = [i \in 1..N |-> whole[i]]
    BY <1>1 DEF IsListOf
  <2> HIDE DEF N
  <2>2. whole \in Seq({whole[i] : i \in 1..N}) /\ Len(whole) = N
    BY <2>1, FunctionIsSeq
  <2>3. {whole[i] : i \in 1..N} \subseteq T
    OBVIOUS
  <2> HIDE DEF T
  <2>4. whole \in Seq(T)
    BY <2>2, <2>3, SeqMonotonic
  <2> QED BY <2>2, <2>4 DEF T
<1>3. Cut \in T
  OBVIOUS
<1> HIDE DEF T
<1>4. CASE tokens \in {SubSeq(whole, 1, k) : k \in 0..N}
  <2>1. PICK k \in 0..N : tokens = SubSeq(whole, 1, k)
    BY <1>4
  <2>2. CASE k = N
    <3>1. tokens = whole
      BY <1>2, <2>1, <2>2, SubSeqFull
    <3> QED BY <3>1, RoundTrip DEF whole
  <2>3. CASE k # N
    <3>1. k \in Nat /\ k <= 1 + n
      BY <1>1, <2>3
    <3>2. tokens = [i \in 1..k |-> whole[i]]
      BY <1>2, <2>1, <3>1
    <3>3. IsListOf(k, tokens)
      BY <3>2 DEF IsListOf
    <3>4. ASSUME NEW i \in 1..k PROVE tokens[i][1] \notin AttestationTags
      <4>1. CASE i = 1
        BY <1>1, <3>1, <3>2, <4>1 DEF Header, AttestationTags
      <4>2. CASE i # 1
        <5>1. i - 1 \in 1..n /\ (i - 1) + 1 = i
          BY <1>1, <3>1, <4>2
        <5>2. tokens[i] = proof.operations[i - 1] /\ tokens[i][1] \in OpTags
          BY <1>1, <3>2, <5>1
        <5> QED BY <5>2 DEF OpTags, AttestationTags
      <4> QED BY <4>1, <4>2
    <3> QED BY <3>1, <3>3, <3>4, WithoutAttestations
  <2> QED BY <2>2, <2>3
<1>5. ASSUME NEW some \in Seq(T), tokens = some \o <<Cut>>
      PROVE  Deserialize(tokens).attestations = <<>>
  <2>1. /\ tokens \in Seq(T) /\ Len(tokens) = Len(some) + 1
        /\ tokens[Len(some) + 1] = Cut
    <3>1. Append(some, Cut) = tokens
      BY <1>3, <1>5, AppendIsConcat
    <3> QED BY <1>3, <3>1, AppendProperties
  <2>2. Len(some) + 1 \in DOMAIN tokens
    BY <2>1, LenProperties
  <2>3. Deserialize(tokens) = Unreadable
    BY <2>1, <2>2, CutIsUnreadable
  <2> QED BY <2>3 DEF Unreadable, Proof
<1>6. CASE tokens \in {Append(SubSeq(whole, 1, k), Cut) : k \in 0..(N - 1)}
  <2>1. PICK k \in 0..(N - 1) : tokens = Append(SubSeq(whole, 1, k), Cut)
    BY <1>6
  <2>2. SubSeq(whole, 1, k) \in Seq(T)
    BY <1>2, <2>1, SubSeqProperties
  <2>3. tokens = SubSeq(whole, 1, k) \o <<Cut>>
    BY <1>3, <2>1, <2>2, AppendIsConcat
  <2> QED BY <1>5, <2>2, <2>3
<1>7. Beginnings(whole) = {SubSeq(whole, 1, k) : k \in 0..N} \cup
                          {Append(SubSeq(whole, 1, k), Cut) : k \in 0..(N - 1)}
  BY <1>2 DEF Beginnings
<1> QED BY <1>4, <1>6, <1>7 DEF whole

-----------------------------------------------------------------------------
(* The invariant.  Blocks stand for a chain, pool for a mempool.           *)

DirectOperations(n) == <<Op("prepend", Piece("nonce", n)), Op("sha256", <<>>)>>
DirectProof(f, n, attestations) == Proof(Digest(f), DirectOperations(n), attestations)
DirectCommitment(f, n) == Sha256(Piece("nonce", n) \o Digest(f))
DirectTransaction(f, n) == Transaction(n, DirectCommitment(f, n))

Numbers == 1..MaxStamps
DirectTransactions == {DirectTransaction(f, n) : f \in Inputs, n \in Numbers}
Sent(pool, blocks) == pool \cup UNION {blocks[b] : b \in DOMAIN blocks}

(* The proofs with an attestation that the program makes: the one with the *)
(* guessed address, the calendar's, pending and confirmed, and the direct  *)
(* ones, pending or with the block their transaction is in.                *)
IsGuessed(p) == \E f \in Inputs : p = Proof(Digest(f), <<>>, <<Pending(GuessedUrl(f))>>)
IsPendingRow(p) == \E i \in Ours : p = PendingProofs[i]
IsConfirmedRow(p) == \E i \in Ours : p = ConfirmedProofs[i]
IsDirectUnseen(p) ==
  \E f \in Inputs, n \in Numbers : p = DirectProof(f, n, <<Pending(DirectUrl(n))>>)
IsDirectSeen(p, blocks) ==
  \E f \in Inputs, n \in Numbers, b \in DOMAIN blocks :
    /\ p = DirectProof(f, n, <<Kaspa(Attestation(n, b))>>)
    /\ DirectTransaction(f, n) \in blocks[b]

IsMade(p, blocks) ==
  \/ IsGuessed(p)
  \/ IsPendingRow(p)
  \/ IsConfirmedRow(p)
  \/ IsDirectUnseen(p)
  \/ IsDirectSeen(p, blocks)

(* What a file of one write is read as: a proof that was made, or one      *)
(* without an attestation, as after a kill.                                *)
ReadsAs(tokens, blocks) ==
  \/ Deserialize(tokens).attestations = <<>>
  \/ IsMade(Deserialize(tokens), blocks)

(* The commands: what a stamp writes is its own proof, and what a complete *)
(* writes is a row's, in place of what it read, which names a row: a made  *)
(* proof, or a mixture.                                                    *)
IsStampByCalendar(c) ==
  /\ c.kind = "stamp" /\ c.tx = 0
  /\ c.at \in {"polling", "writing", "opened"}
  /\ IsGuessed(c.proof)

IsUnsent(c, sent) ==
  /\ c.at = "signed"
  /\ \E f \in Inputs : c.proof = DirectProof(f, c.tx, <<>>)
  /\ \A x \in sent : x.tx # c.tx

IsAwaited(c, sent) ==
  /\ c.at = "waiting"
  /\ \E f \in Inputs : /\ c.proof = DirectProof(f, c.tx, <<>>)
                       /\ \A x \in sent : x.tx = c.tx => x = DirectTransaction(f, c.tx)

IsFinished(c, blocks) ==
  /\ c.at \in {"writing", "opened"}
  /\ \E f \in Inputs : c.proof = DirectProof(f, c.tx, c.proof.attestations)
  /\ IsMade(c.proof, blocks)

IsStampDirect(c, sent, blocks, last) ==
  /\ c.kind = "stamp" /\ c.tx \in 1..last
  /\ IsUnsent(c, sent) \/ IsAwaited(c, sent) \/ IsFinished(c, blocks)

NamesRow(p) ==
  /\ ~IsComplete(p) /\ PendingAt(p) # {}
  /\ \E i : PendingUrl(p) = CalendarUrl(i)

IsFetching(c) ==
  /\ c.at = "fetching" /\ c.proof = Deserialize(c.read)
  /\ ~IsComplete(c.proof) /\ PendingAt(c.proof) # {}

IsSaving(c) ==
  /\ c.at \in {"writing", "opened"}
  /\ IsPendingRow(c.proof) \/ IsConfirmedRow(c.proof)
  /\ NamesRow(Deserialize(c.read))

IsCompletion(c) ==
  /\ c.kind = "complete" /\ c.tx = 0
  /\ IsFetching(c) \/ IsSaving(c)

IsCommand(c, sent, blocks, last) ==
  \/ c = Idle
  \/ /\ c = Running(c.kind, c.at, c.path, c.read, c.proof, c.tx)
     /\ c.path \in Paths
     /\ IsStampByCalendar(c) \/ IsStampDirect(c, sent, blocks, last) \/ IsCompletion(c)

Typed ==
  /\ kts = [path \in Paths |-> kts[path]]
  /\ rows \in [Ours -> {"pending", "status", "confirmed"}]
  /\ mempool \subseteq DirectTransactions
  /\ chain \in Seq(SUBSET (DirectTransactions \cup {BatchTx}))
  /\ cmd = [t \in Terminals |-> cmd[t]]
  /\ stamps \in Nat /\ stamps <= MaxStamps
  /\ mixed \subseteq Paths

BatchIsFirst == Len(chain) >= 1 /\ BatchTx \in chain[1]

(* A transaction has the number of a stamp that was started, and no two    *)
(* commands have the same.                                                 *)
SentWereStamped == \A x \in Sent(mempool, chain) : x.tx <= stamps
NumbersDiffer == \A t, u \in Terminals : cmd[t].tx = cmd[u].tx /\ cmd[t].tx # 0 => t = u

FilesAreRead == \A path \in Paths \ mixed : ReadsAs(kts[path], chain)
CommandsAreKnown == \A t \in Terminals : IsCommand(cmd[t], Sent(mempool, chain), chain, stamps)

CliInv ==
  Typed /\ BatchIsFirst /\ SentWereStamped /\ NumbersDiffer /\ FilesAreRead /\ CommandsAreKnown

-----------------------------------------------------------------------------
(* The proofs that are made *)

(* The batch: its digests are a list.                                      *)
LEMMA BatchIsList ==
  /\ Len(Submitted) \in Nat \ {0} /\ DOMAIN Submitted = 1..Len(Submitted)
  /\ Digests = [i \in 1..Len(Submitted) |-> Digests[i]]
  /\ Ours \subseteq DOMAIN Submitted
<1>1. Len(Submitted) \in Nat \ {0} /\ DOMAIN Submitted = 1..Len(Submitted)
  BY CliAssumption, EmptySeq, LenProperties
<1> QED BY <1>1 DEF Digests, Ours

(* What a confirmed proof of the calendar commits to is the batch's root.  *)
LEMMA ConfirmedCommitsToRoot ==
  ASSUME NEW i \in Ours
  PROVE  CommitmentOf(ConfirmedProofs[i]) = Root(Digests)
<1> DEFINE n == Len(Submitted)
           path == ToOperations(GetProof(Digests, i - 1))
<1>1. n \in Nat \ {0} /\ Digests = [j \in 1..n |-> Digests[j]] /\ i \in 1..n
  BY BatchIsList
<1>2. i - 1 \in 0..(n - 1) /\ (i - 1) + 1 = i
  BY <1>1
<1>3. ApplyOperations(Digests[(i - 1) + 1], path) = Root(Digests)
  <2> HIDE DEF n
  <2> QED BY <1>1, <1>2, PathLeadsToRoot
<1>4. ConfirmedProofs[i] = Proof(Digests[i], path, <<Kaspa(Attestation(0, 1))>>)
  BY <1>1, BatchIsList DEF ConfirmedProofs
<1> QED BY <1>2, <1>3, <1>4 DEF CommitmentOf, Proof

(* What a direct proof commits to is the hash of its nonce and digest.     *)
LEMMA DirectCommits ==
  ASSUME NEW f, NEW n, NEW attestations
  PROVE  CommitmentOf(DirectProof(f, n, attestations)) = DirectCommitment(f, n)
<1> DEFINE first == Op("prepend", Piece("nonce", n))
           then == Op("sha256", <<>>)
<1>1. /\ Len(<<>>) = 0 /\ Len(<<first>>) = 1 /\ Len(<<first, then>>) = 2
      /\ <<first>>[1] = first /\ <<first, then>>[1] = first /\ <<first, then>>[2] = then
  BY EmptySeq
<1> HIDE DEF first, then
<1> DEFINE none == <<>>
           one == <<first>>
           two == <<first, then>>
<1>2. /\ \A k \in 1..Len(none) : none[k] = one[k]
      /\ \A k \in 1..Len(one) : one[k] = two[k]
  BY <1>1
<1>3. /\ Len(none) \in Nat /\ Len(one) \in Nat /\ Len(one) = Len(none) + 1
      /\ Len(two) = Len(one) + 1 /\ one[Len(one)] = first /\ two[Len(two)] = then
  BY <1>1
<1>4. ApplyOperations(Digest(f), none) = Digest(f)
  BY ApplyNone
<1> HIDE DEF none, one, two
<1>5. ApplyOperations(Digest(f), one) = ApplyOperation(ApplyOperations(Digest(f), none), first)
  BY <1>2, <1>3, ApplyOneMore
<1>6. ApplyOperations(Digest(f), two) = ApplyOperation(ApplyOperations(Digest(f), one), then)
  BY <1>2, <1>3, ApplyOneMore
<1>7. ApplyOperations(Digest(f), <<first, then>>) =
        ApplyOperation(ApplyOperation(Digest(f), first), then)
  BY <1>4, <1>5, <1>6 DEF two
<1> QED BY <1>7 DEF first, then, Op, ApplyOperation, CommitmentOf, DirectProof,
                    DirectOperations, DirectCommitment, Proof

(* The digest of a file is not the commitment of a direct stamp.           *)
LEMMA DigestIsNoCommitment ==
  ASSUME NEW g, NEW f, NEW n PROVE Digest(g) # DirectCommitment(f, n)
<1> DEFINE nonce == <<"nonce", n>>
           hash == <<"sha256", Data(f)>>
           T == {nonce, hash}
<1>1. <<nonce>> \in Seq(T) /\ <<hash>> \in Seq(T) /\ Len(<<nonce>>) = 1 /\ Len(<<hash>>) = 1
  OBVIOUS
<1> HIDE DEF T
<1>2. Len(<<nonce>> \o <<hash>>) = 2
  BY <1>1, ConcatProperties
<1>3. Len(Data(g)) = 1
  BY DEF Data, Piece
<1>4. Piece("nonce", n) \o Digest(f) = <<nonce>> \o <<hash>>
  BY DEF Piece, Digest, Sha256
<1>5. Data(g) # <<nonce>> \o <<hash>>
  BY <1>2, <1>3
<1> HIDE DEF nonce, hash
<1> QED BY <1>4, <1>5 DEF Digest, DirectCommitment, Sha256

(* A direct proof is well formed, at each stage of its stamp.              *)
LEMMA DirectIsWellFormed ==
  ASSUME NEW f, NEW n, NEW attestations,
         attestations = <<>> \/ \E a : attestations = <<a>> /\ a[1] \in AttestationTags
  PROVE  WellFormed(DirectProof(f, n, attestations))
<1>1. IsListOf(2, DirectOperations(n))
  BY DEF IsListOf, DirectOperations
<1>2. \A k \in 1..2 : DirectOperations(n)[k][1] \in OpTags
  BY DEF DirectOperations, Op, OpTags
<1>3. \E m \in Nat : /\ IsListOf(m, DirectOperations(n))
                    /\ \A k \in 1..m : DirectOperations(n)[k][1] \in OpTags
  BY <1>1, <1>2
<1> QED BY <1>3 DEF WellFormed, DirectProof, Proof

(* So is a pending proof of a calendar, at whatever address.               *)
LEMMA PlainIsWellFormed ==
  ASSUME NEW digest, NEW url
  PROVE  WellFormed(Proof(digest, <<>>, <<Pending(url)>>))
<1>1. IsListOf(0, <<>>)
  BY DEF IsListOf
<1>2. \E m \in Nat : IsListOf(m, <<>>) /\ \A k \in 1..m : <<>>[k][1] \in OpTags
  BY <1>1
<1>3. Pending(url)[1] \in AttestationTags
  BY DEF Pending, AttestationTags
<1> QED BY <1>2, <1>3 DEF WellFormed, Proof

(* So is a confirmed one: its path is a list of operations.                *)
LEMMA ConfirmedIsWellFormed ==
  ASSUME NEW i \in Ours PROVE WellFormed(ConfirmedProofs[i])
<1> DEFINE n == Len(Submitted)
           path == ToOperations(GetProof(Digests, i - 1))
<1>1. n \in Nat \ {0} /\ Digests = [j \in 1..n |-> Digests[j]] /\ i \in 1..n
  BY BatchIsList
<1>2. i - 1 \in 0..(n - 1)
  BY <1>1
<1>3. \E m \in Nat : IsListOf(m, path) /\ \A k \in 1..m : path[k][1] \in OpTags
  <2> HIDE DEF n
  <2> QED BY <1>1, <1>2, PathIsList
<1> HIDE DEF path
<1>4. ConfirmedProofs[i] = Proof(Digests[i], path, <<Kaspa(Attestation(0, 1))>>)
  BY <1>1, BatchIsList DEF ConfirmedProofs, path
<1>5. Kaspa(Attestation(0, 1))[1] \in AttestationTags
  BY DEF Kaspa, AttestationTags
<1> QED BY <1>3, <1>4, <1>5 DEF WellFormed, Proof

(* So is every proof the program makes.                                    *)
LEMMA MadeIsWellFormed ==
  ASSUME NEW p, NEW blocks, IsMade(p, blocks) PROVE WellFormed(p)
<1>1. CASE IsGuessed(p)
  BY <1>1, PlainIsWellFormed DEF IsGuessed
<1>2. CASE IsPendingRow(p)
  <2>1. PICK i \in Ours : p = PendingProofs[i]
    BY <1>2 DEF IsPendingRow
  <2>2. p = Proof(Digests[i], <<>>, <<Pending(CalendarUrl(i))>>)
    BY <2>1, BatchIsList DEF PendingProofs
  <2> QED BY <2>2, PlainIsWellFormed
<1>3. CASE IsConfirmedRow(p)
  BY <1>3, ConfirmedIsWellFormed DEF IsConfirmedRow
<1>4. CASE IsDirectUnseen(p)
  <2>1. PICK f \in Inputs, n \in Numbers : p = DirectProof(f, n, <<Pending(DirectUrl(n))>>)
    BY <1>4 DEF IsDirectUnseen
  <2>2. Pending(DirectUrl(n))[1] \in AttestationTags
    BY DEF Pending, AttestationTags
  <2> QED BY <2>1, <2>2, DirectIsWellFormed
<1>5. CASE IsDirectSeen(p, blocks)
  <2>1. PICK f \in Inputs, n \in Numbers, b \in DOMAIN blocks :
          p = DirectProof(f, n, <<Kaspa(Attestation(n, b))>>)
    BY <1>5 DEF IsDirectSeen
  <2>2. Kaspa(Attestation(n, b))[1] \in AttestationTags
    BY DEF Kaspa, AttestationTags
  <2> QED BY <2>1, <2>2, DirectIsWellFormed
<1> QED BY <1>1, <1>2, <1>3, <1>4, <1>5 DEF IsMade

(* A nonce is recorded in the file of its direct proof.                    *)
LEMMA DirectIsRecorded ==
  ASSUME NEW f \in Inputs, NEW n \in Numbers, NEW attestations,
         attestations = <<>> \/ \E a : attestations = <<a>> /\ a[1] \in AttestationTags
  PROVE  n \in Recorded(Serialize(DirectProof(f, n, attestations)))
<1> DEFINE p == DirectProof(f, n, attestations)
<1>1. Deserialize(Serialize(p)) = p
  BY DirectIsWellFormed, RoundTrip
<1>2. CommitmentOf(p) = DirectCommitment(f, n)
  BY DirectCommits
<1> HIDE DEF p
<1> QED BY <1>1, <1>2 DEF Recorded, DirectCommitment, Numbers, p

(* A file with a proof of the calendar that is still pending records none. *)
LEMMA PendingRecordsNone ==
  ASSUME NEW tokens, IsPendingRow(Deserialize(tokens))
  PROVE  Recorded(tokens) = {}
<1>1. PICK i \in Ours : Deserialize(tokens) = PendingProofs[i]
  BY DEF IsPendingRow
<1>2. PendingProofs[i] = Proof(Digest(Submitted[i]), <<>>, <<Pending(CalendarUrl(i))>>)
  BY BatchIsList DEF PendingProofs, Digests
<1>3. CommitmentOf(PendingProofs[i]) = Digest(Submitted[i])
  BY <1>2, ApplyNone DEF CommitmentOf, Proof
<1>4. \A n \in 1..MaxStamps : CommitmentOf(Deserialize(tokens)) \notin
                              {Sha256(Piece("nonce", n) \o Digest(f)) : f \in Inputs}
  BY <1>1, <1>3, DigestIsNoCommitment DEF DirectCommitment
<1> QED BY <1>4 DEF Recorded

(* A proof whose address is a row's is that of a row, still pending.       *)
LEMMA RowAddressIsRows ==
  ASSUME NEW p, NEW blocks, IsMade(p, blocks), ~IsComplete(p), NEW i,
         PendingUrl(p) = CalendarUrl(i)
  PROVE  IsPendingRow(p)
<1>1. ASSUME NEW digest, NEW operations, NEW url,
             p = Proof(digest, operations, <<Pending(url)>>)
      PROVE  PendingUrl(p) = url
  <2>1. p.attestations = <<Pending(url)>>
    BY <1>1 DEF Proof
  <2>2. PendingAt(p) = {1}
    BY <2>1 DEF PendingAt, Pending
  <2>3. Min({1}) = 1
    BY DEF Min
  <2> QED BY <2>1, <2>2, <2>3 DEF PendingUrl, Pending
<1>2. ASSUME IsGuessed(p) PROVE FALSE
  <2>1. \E f : PendingUrl(p) = GuessedUrl(f)
    BY <1>1, <1>2 DEF IsGuessed
  <2> QED BY <2>1 DEF GuessedUrl, CalendarUrl
<1>3. ASSUME NEW digest, NEW operations, NEW a, p = Proof(digest, operations, <<Kaspa(a)>>)
      PROVE  FALSE
  <2>1. p.attestations = <<Kaspa(a)>>
    BY <1>3 DEF Proof
  <2> QED BY <2>1 DEF IsComplete, Kaspa
<1>4. ASSUME IsConfirmedRow(p) PROVE FALSE
  BY <1>3, <1>4, BatchIsList DEF IsConfirmedRow, ConfirmedProofs
<1>5. ASSUME IsDirectUnseen(p) PROVE FALSE
  <2>1. \E n : PendingUrl(p) = DirectUrl(n)
    BY <1>1, <1>5 DEF IsDirectUnseen, DirectProof
  <2> QED BY <2>1 DEF DirectUrl, CalendarUrl
<1>6. ASSUME IsDirectSeen(p, blocks) PROVE FALSE
  BY <1>3, <1>6 DEF IsDirectSeen, DirectProof
<1> QED BY <1>2, <1>4, <1>5, <1>6 DEF IsMade

(* What was made stays made as the chain grows.                            *)
LEMMA MadeStays ==
  ASSUME NEW p, NEW blocks, NEW more, IsMade(p, blocks),
         \A b \in DOMAIN blocks : b \in DOMAIN more /\ blocks[b] = more[b]
  PROVE  IsMade(p, more)
<1>1. IsDirectSeen(p, blocks) => IsDirectSeen(p, more)
  BY DEF IsDirectSeen
<1> QED BY <1>1 DEF IsMade

(* What the program writes, and what a kill leaves of it, is read as it    *)
(* should be.                                                              *)
LEMMA WrittenReadsAs ==
  ASSUME NEW p, NEW blocks, IsMade(p, blocks),
         NEW tokens \in Beginnings(Serialize(p)) \cup {Serialize(p)}
  PROVE  ReadsAs(tokens, blocks)
<1>1. WellFormed(p)
  BY MadeIsWellFormed
<1>2. CASE tokens = Serialize(p)
  BY <1>1, <1>2, RoundTrip DEF ReadsAs
<1>3. CASE tokens \in Beginnings(Serialize(p))
  BY <1>1, <1>3, NoHalfProof DEF ReadsAs
<1> QED BY <1>2, <1>3

-----------------------------------------------------------------------------
(* One step of a command *)

Grows(blocks, more) == \A b \in DOMAIN blocks : b \in DOMAIN more /\ blocks[b] = more[b]

(* Mining moves transactions from the pool into the last block.            *)
LEMMA MinedIsSent ==
  ASSUME NEW S, NEW blocks \in Seq(S), NEW pool \in S
  PROVE  /\ Grows(blocks, Append(blocks, pool))
         /\ Sent({}, Append(blocks, pool)) = Sent(pool, blocks)
<1> DEFINE more == Append(blocks, pool)
<1>1. /\ Len(blocks) \in Nat /\ \A b \in 1..Len(blocks) : more[b] = blocks[b]
      /\ more[Len(blocks) + 1] = pool
      /\ DOMAIN blocks = 1..Len(blocks) /\ DOMAIN more = 1..(Len(blocks) + 1)
  <2>1. more \in Seq(S) /\ Len(more) = Len(blocks) + 1
    BY AppendProperties
  <2> QED BY <2>1, AppendProperties, LenProperties
<1> HIDE DEF more
<1>2. Grows(blocks, more)
  BY <1>1 DEF Grows
<1>3. Sent({}, more) = Sent(pool, blocks)
  <2>1. ASSUME NEW x PROVE x \in Sent({}, more) <=> x \in Sent(pool, blocks)
    <3>1. x \in Sent(pool, blocks) <=> x \in pool \/ \E b \in 1..Len(blocks) : x \in blocks[b]
      BY <1>1 DEF Sent
    <3>2. x \in Sent({}, more) <=> \E b \in 1..(Len(blocks) + 1) : x \in more[b]
      BY <1>1 DEF Sent
    <3>3. (\E b \in 1..(Len(blocks) + 1) : x \in more[b]) <=>
            (x \in more[Len(blocks) + 1] \/ \E b \in 1..Len(blocks) : x \in more[b])
      BY <1>1
    <3> QED BY <1>1, <3>1, <3>2, <3>3
  <2> QED BY <2>1
<1> QED BY <1>2, <1>3 DEF more

(* A command is what it was while others go on: the chain grows, nonces    *)
(* are drawn, and nobody submits a transaction with its number.            *)
LEMMA KnownStays ==
  ASSUME NEW c, NEW sent, NEW blocks, NEW last \in Nat, IsCommand(c, sent, blocks, last),
         NEW more, Grows(blocks, more), NEW later \in Nat, last <= later,
         NEW pool, \A x \in pool : x \in sent \/ x.tx # c.tx
  PROVE  IsCommand(c, pool, more, later)
<1>1. IsMade(c.proof, blocks) => IsMade(c.proof, more)
  BY MadeStays DEF Grows
<1>2. IsUnsent(c, sent) => IsUnsent(c, pool)
  BY DEF IsUnsent
<1>3. IsAwaited(c, sent) => IsAwaited(c, pool)
  BY DEF IsAwaited
<1>4. IsFinished(c, blocks) => IsFinished(c, more)
  BY <1>1 DEF IsFinished
<1>5. IsStampDirect(c, sent, blocks, last) => IsStampDirect(c, pool, more, later)
  BY <1>2, <1>3, <1>4 DEF IsStampDirect
<1> QED BY <1>5 DEF IsCommand

(* The command that has a number is a stamp whose proof is its record.     *)
LEMMA TxIsRecorded ==
  ASSUME NEW c, NEW sent, NEW blocks, NEW last \in Nat, IsCommand(c, sent, blocks, last),
         MaxStamps \in Nat, last <= MaxStamps, c.tx # 0
  PROVE  c.kind = "stamp" /\ c.tx \in 1..last /\ c.tx \in Recorded(Serialize(c.proof))
<1>1. IsStampDirect(c, sent, blocks, last)
  BY DEF IsCommand, Idle, IsStampByCalendar, IsCompletion
<1>2. c.kind = "stamp" /\ c.tx \in 1..last /\ c.tx \in Numbers
  BY <1>1 DEF IsStampDirect, Numbers
<1>3. CASE IsUnsent(c, sent) \/ IsAwaited(c, sent)
  BY <1>2, <1>3, DirectIsRecorded DEF IsUnsent, IsAwaited
<1>4. CASE IsFinished(c, blocks)
  <2>1. PICK f \in Inputs : c.proof = DirectProof(f, c.tx, c.proof.attestations)
    BY <1>4 DEF IsFinished
  <2>2. WellFormed(c.proof)
    BY <1>4, MadeIsWellFormed DEF IsFinished
  <2>3. \/ c.proof.attestations = <<>>
        \/ \E a : c.proof.attestations = <<a>> /\ a[1] \in AttestationTags
    BY <2>2 DEF WellFormed
  <2> QED BY <1>2, <2>1, <2>3, DirectIsRecorded
<1> QED BY <1>1, <1>2, <1>3, <1>4 DEF IsStampDirect

(* A running command that moves on keeps what it is about.                 *)
LEMMA MovesIsRunning ==
  ASSUME NEW t \in Terminals, cmd = [u \in Terminals |-> cmd[u]],
         cmd[t] = Running(cmd[t].kind, cmd[t].at, cmd[t].path, cmd[t].read, cmd[t].proof,
                          cmd[t].tx),
         NEW at, NEW proof, Moves(t, at, proof)
  PROVE  cmd' = [cmd EXCEPT ![t] = Running(cmd[t].kind, at, cmd[t].path, cmd[t].read, proof,
                                           cmd[t].tx)]
<1>1. [cmd[t] EXCEPT !.at = at, !.proof = proof] =
        Running(cmd[t].kind, at, cmd[t].path, cmd[t].read, proof, cmd[t].tx)
  <2> DEFINE moved(c) == [c EXCEPT !.at = at, !.proof = proof]
  <2>1. ASSUME NEW kind, NEW was, NEW path, NEW read, NEW before, NEW tx
        PROVE  moved(Running(kind, was, path, read, before, tx)) =
                 Running(kind, at, path, read, proof, tx)
    <3>1. [Running(kind, was, path, read, before, tx) EXCEPT !.at = at] =
            Running(kind, at, path, read, before, tx)
      BY DEF Running
    <3>2. [Running(kind, at, path, read, before, tx) EXCEPT !.proof = proof] =
            Running(kind, at, path, read, proof, tx)
      BY DEF Running
    <3> QED BY <3>1, <3>2
  <2> HIDE DEF moved
  <2>2. moved(cmd[t]) = Running(cmd[t].kind, at, cmd[t].path, cmd[t].read, proof, cmd[t].tx)
    BY <2>1
  <2> QED BY <2>2 DEF moved
<1>2. cmd' = [cmd EXCEPT ![t] = [cmd[t] EXCEPT !.at = at, !.proof = proof]]
  BY DEF Moves
<1> QED BY <1>1, <1>2

(* A file is still read as it was while the chain grows.                   *)
LEMMA ReadStays ==
  ASSUME NEW tokens, NEW blocks, ReadsAs(tokens, blocks), NEW more, Grows(blocks, more)
  PROVE  ReadsAs(tokens, more)
BY MadeStays DEF ReadsAs, Grows

(* A step of one command, as every one of them is: it becomes a known      *)
(* command, draws a new number or keeps its own, submits at most the       *)
(* transaction with its number, and leaves files that are read as they     *)
(* should be, if they are of one write.                                    *)
LEMMA OneCommand ==
  ASSUME CliInv, NEW t \in Terminals, NEW c, cmd' = [cmd EXCEPT ![t] = c],
         rows' = rows, chain' = chain,
         stamps' \in Nat, stamps <= stamps', stamps' <= MaxStamps,
         c.tx = 0 \/ c.tx = cmd[t].tx \/ c.tx = stamps + 1,
         IsCommand(c, Sent(mempool', chain), chain, stamps'),
         mempool' \subseteq DirectTransactions,
         \A x \in mempool' : x \in mempool \/ (x.tx = cmd[t].tx /\ cmd[t].tx # 0),
         kts' = [path \in Paths |-> kts'[path]], mixed' \subseteq Paths,
         \A path \in Paths \ mixed' : \/ path \notin mixed /\ kts'[path] = kts[path]
                                     \/ ReadsAs(kts'[path], chain)
  PROVE  CliInv'
<1>1. cmd'[t] = c /\ (\A u \in Terminals \ {t} : cmd'[u] = cmd[u])
      /\ cmd' = [u \in Terminals |-> cmd'[u]]
  BY DEF CliInv, Typed
<1>2. ASSUME NEW u \in Terminals, cmd[u].tx # 0 PROVE cmd[u].tx \in 1..stamps
  BY <1>2, TxIsRecorded, CliAssumption DEF CliInv, Typed, CommandsAreKnown
<1>3. Typed'
  BY <1>1 DEF CliInv, Typed
<1>4. BatchIsFirst'
  BY DEF CliInv, BatchIsFirst
<1>5. ASSUME NEW x \in Sent(mempool', chain)
      PROVE  x \in Sent(mempool, chain) \/ (x.tx = cmd[t].tx /\ cmd[t].tx # 0)
  BY <1>5 DEF Sent
<1>6. SentWereStamped'
  <2>1. ASSUME NEW x \in Sent(mempool', chain) PROVE x.tx <= stamps'
    <3>1. CASE x \in Sent(mempool, chain)
      <4>1. x.tx \in Int
        BY <3>1, CliAssumption DEF CliInv, Typed, Sent, DirectTransactions, DirectTransaction,
           Transaction, BatchTx, Numbers
      <4> QED BY <3>1, <4>1 DEF CliInv, Typed, SentWereStamped
    <3>2. CASE x.tx = cmd[t].tx /\ cmd[t].tx # 0
      BY <1>2, <3>2 DEF CliInv, Typed
    <3> QED BY <1>5, <3>1, <3>2
  <2> QED BY <2>1 DEF SentWereStamped
<1>7. NumbersDiffer'
  <2>1. ASSUME NEW u \in Terminals, NEW w \in Terminals, cmd'[u].tx = cmd'[w].tx,
               cmd'[u].tx # 0, u # w
        PROVE  FALSE
    <3>1. ASSUME NEW v \in Terminals \ {t}, cmd[v].tx = c.tx, c.tx # 0 PROVE FALSE
      BY <1>2, <3>1 DEF CliInv, Typed, NumbersDiffer
    <3> QED BY <1>1, <2>1, <3>1 DEF CliInv, NumbersDiffer
  <2> QED BY <2>1 DEF NumbersDiffer
<1>8. FilesAreRead'
  BY DEF CliInv, FilesAreRead
<1>9. CommandsAreKnown'
  <2>1. ASSUME NEW u \in Terminals, u # t
        PROVE  IsCommand(cmd[u], Sent(mempool', chain), chain, stamps')
    <3>1. ASSUME NEW x \in Sent(mempool', chain)
          PROVE  x \in Sent(mempool, chain) \/ x.tx # cmd[u].tx
      BY <1>5, <2>1 DEF CliInv, NumbersDiffer
    <3>2. Grows(chain, chain)
      BY DEF Grows
    <3>3. IsCommand(cmd[u], Sent(mempool, chain), chain, stamps) /\ stamps \in Nat
      BY DEF CliInv, Typed, CommandsAreKnown
    <3> QED BY <3>1, <3>2, <3>3, KnownStays
  <2> QED BY <1>1, <2>1 DEF CommandsAreKnown
<1> QED BY <1>3, <1>4, <1>6, <1>7, <1>8, <1>9 DEF CliInv

(* What a command is in each of its states.                                *)
LEMMA RunningIs ==
  ASSUME NEW c, NEW sent, NEW blocks, NEW last, IsCommand(c, sent, blocks, last),
         c.at # "idle"
  PROVE  /\ c = Running(c.kind, c.at, c.path, c.read, c.proof, c.tx)
         /\ c.path \in Paths
         /\ c.at = "polling" => IsStampByCalendar(c)
         /\ c.at = "signed" => IsStampDirect(c, sent, blocks, last) /\ IsUnsent(c, sent)
         /\ c.at = "waiting" => IsStampDirect(c, sent, blocks, last) /\ IsAwaited(c, sent)
         /\ c.at = "fetching" => IsCompletion(c) /\ IsFetching(c)
         /\ c.at \in {"writing", "opened"} =>
              \/ IsStampByCalendar(c)
              \/ IsStampDirect(c, sent, blocks, last) /\ IsFinished(c, blocks)
              \/ IsCompletion(c) /\ IsSaving(c)
<1>1. c # Idle
  BY DEF Idle
<1> QED BY <1>1 DEF IsCommand, IsStampByCalendar, IsStampDirect, IsUnsent, IsAwaited, IsFinished,
                    IsCompletion, IsFetching, IsSaving

(* What a command writes is a proof that was made.                         *)
LEMMA WritesMade ==
  ASSUME NEW c, NEW sent, NEW blocks, NEW last, IsCommand(c, sent, blocks, last),
         c.at \in {"writing", "opened"}
  PROVE  IsMade(c.proof, blocks)
<1>1. c.at # "idle"
  OBVIOUS
<1> QED BY <1>1, RunningIs DEF IsStampByCalendar, IsFinished, IsSaving, IsMade

-----------------------------------------------------------------------------
(* The invariant holds *)

(* What holds at the start.                                                *)
LEMMA InitCliInv == Init => CliInv
<1> SUFFICES ASSUME Init PROVE CliInv
  OBVIOUS
<1>1. /\ chain = <<{BatchTx}>> /\ chain \in Seq(SUBSET (DirectTransactions \cup {BatchTx}))
      /\ Len(chain) = 1 /\ DOMAIN chain = {1} /\ chain[1] = {BatchTx}
  BY DEF Init
<1>2. Typed
  BY <1>1, CliAssumption DEF Init, Typed
<1>3. BatchIsFirst
  BY <1>1 DEF BatchIsFirst
<1>4. SentWereStamped
  <2>1. Sent(mempool, chain) = {BatchTx}
    BY <1>1 DEF Init, Sent
  <2> QED BY <2>1 DEF Init, SentWereStamped, BatchTx, Transaction
<1>5. NumbersDiffer
  BY DEF Init, NumbersDiffer, Idle
<1>6. FilesAreRead
  BY DEF Init, FilesAreRead, ReadsAs, Deserialize, Unreadable, Proof
<1>7. CommandsAreKnown
  BY DEF Init, CommandsAreKnown, IsCommand
<1> QED BY <1>2, <1>3, <1>4, <1>5, <1>6, <1>7 DEF CliInv

(* What a step of one command leaves alone, for the steps that change      *)
(* neither a file, a pool nor the count of stamps.                         *)
LEMMA OneCommandOnly ==
  ASSUME CliInv, NEW t \in Terminals, NEW c, cmd' = [cmd EXCEPT ![t] = c],
         UNCHANGED <<kts, rows, mempool, chain, stamps, mixed>>,
         c.tx = 0 \/ c.tx = cmd[t].tx,
         IsCommand(c, Sent(mempool, chain), chain, stamps)
  PROVE  CliInv'
<1>1. /\ rows' = rows /\ chain' = chain
      /\ stamps' \in Nat /\ stamps <= stamps' /\ stamps' <= MaxStamps
      /\ c.tx = 0 \/ c.tx = cmd[t].tx \/ c.tx = stamps + 1
      /\ IsCommand(c, Sent(mempool', chain), chain, stamps')
      /\ mempool' \subseteq DirectTransactions
      /\ \A x \in mempool' : x \in mempool \/ (x.tx = cmd[t].tx /\ cmd[t].tx # 0)
      /\ kts' = [path \in Paths |-> kts'[path]] /\ mixed' \subseteq Paths
      /\ \A path \in Paths \ mixed' : \/ path \notin mixed /\ kts'[path] = kts[path]
                                     \/ ReadsAs(kts'[path], chain)
  BY DEF CliInv, Typed
<1> QED BY <1>1, OneCommand

(* A stamp that starts.                                                    *)
LEMMA StampStarts ==
  ASSUME CliInv, NEW t \in Terminals, NEW c, Becomes(t, c), StartsStamp,
         UNCHANGED <<kts, rows, mempool, chain, mixed>>,
         c.tx \in {0, stamps + 1},
         IsCommand(c, Sent(mempool, chain), chain, stamps + 1)
  PROVE  CliInv'
<1>1. /\ rows' = rows /\ chain' = chain
      /\ stamps' \in Nat /\ stamps <= stamps' /\ stamps' <= MaxStamps
      /\ c.tx = 0 \/ c.tx = cmd[t].tx \/ c.tx = stamps + 1
      /\ IsCommand(c, Sent(mempool', chain), chain, stamps')
      /\ mempool' \subseteq DirectTransactions
      /\ \A x \in mempool' : x \in mempool \/ (x.tx = cmd[t].tx /\ cmd[t].tx # 0)
      /\ kts' = [path \in Paths |-> kts'[path]] /\ mixed' \subseteq Paths
      /\ \A path \in Paths \ mixed' : \/ path \notin mixed /\ kts'[path] = kts[path]
                                     \/ ReadsAs(kts'[path], chain)
      /\ cmd' = [cmd EXCEPT ![t] = c]
  BY CliAssumption DEF CliInv, Typed, StartsStamp, Becomes
<1> QED BY <1>1, OneCommand

(* A command that ends.                                                    *)
LEMMA IdleIsCommand ==
  ASSUME NEW sent, NEW blocks, NEW last
  PROVE  IsCommand(Idle, sent, blocks, last) /\ Idle.tx = 0 /\ Idle.at = "idle"
BY DEF IsCommand, Idle

(* A direct stamp that goes from one attestation to another.               *)
LEMMA Reattested ==
  ASSUME NEW f, NEW n, NEW before, NEW after
  PROVE  [DirectProof(f, n, before) EXCEPT !.attestations = after] = DirectProof(f, n, after)
BY DEF DirectProof, Proof

(* Every step keeps the invariant: what others did in the meantime leaves  *)
(* a command and a file what they were.                                    *)
LEMMA NextCliInv == CliInv /\ [Next]_vars => CliInv'
<1> SUFFICES ASSUME CliInv, [Next]_vars PROVE CliInv'
  OBVIOUS
<1> USE CliAssumption
<1> DEFINE sent == Sent(mempool, chain)
<1>0. ASSUME NEW t \in Terminals
      PROVE  /\ IsCommand(cmd[t], sent, chain, stamps)
             /\ cmd = [u \in Terminals |-> cmd[u]] /\ stamps \in Nat /\ stamps <= MaxStamps
  BY DEF CliInv, Typed, CommandsAreKnown
<1>1. CASE UNCHANGED vars
  <2>1. /\ Typed' /\ BatchIsFirst' /\ SentWereStamped' /\ NumbersDiffer' /\ FilesAreRead'
        /\ CommandsAreKnown'
    BY <1>1 DEF CliInv, vars, Typed, BatchIsFirst, SentWereStamped, NumbersDiffer, FilesAreRead,
       CommandsAreKnown
  <2> QED BY <2>1 DEF CliInv
<1>2. CASE UpdateRow
  <2>1. /\ kts' = kts /\ mempool' = mempool /\ chain' = chain /\ cmd' = cmd /\ stamps' = stamps
        /\ mixed' = mixed
        /\ rows' \in [Ours -> {"pending", "status", "confirmed"}]
    BY <1>2 DEF UpdateRow, CliInv, Typed
  <2>2. /\ Typed' /\ BatchIsFirst' /\ SentWereStamped' /\ NumbersDiffer' /\ FilesAreRead'
        /\ CommandsAreKnown'
    BY <2>1 DEF CliInv, Typed, BatchIsFirst, SentWereStamped, NumbersDiffer, FilesAreRead,
       CommandsAreKnown
  <2> QED BY <2>2 DEF CliInv
<1>3. CASE Mine
  <2> DEFINE S == SUBSET (DirectTransactions \cup {BatchTx})
  <2>1. chain \in Seq(S) /\ mempool \in S /\ chain' = Append(chain, mempool) /\ mempool' = {}
    BY <1>3 DEF Mine, CliInv, Typed
  <2>2. /\ chain' \in Seq(S) /\ Len(chain) \in Nat /\ Len(chain') = Len(chain) + 1
        /\ \A b \in 1..Len(chain) : chain'[b] = chain[b]
    <3> HIDE DEF S
    <3> QED BY <2>1, AppendProperties, LenProperties
  <2>3. Grows(chain, chain') /\ Sent(mempool', chain') = sent
    <3> HIDE DEF S
    <3> QED BY <2>1, MinedIsSent
  <2>4. chain'[1] = chain[1]
    BY <2>2 DEF CliInv, BatchIsFirst
  <2>5. kts' = kts /\ rows' = rows /\ cmd' = cmd /\ stamps' = stamps /\ mixed' = mixed
    BY <1>3 DEF Mine
  <2>6. Typed'
    BY <2>1, <2>2, <2>5 DEF CliInv, Typed
  <2>7. BatchIsFirst'
    BY <2>2, <2>4 DEF CliInv, BatchIsFirst
  <2>8. SentWereStamped' /\ NumbersDiffer'
    BY <2>3, <2>5 DEF CliInv, SentWereStamped, NumbersDiffer
  <2>9. FilesAreRead'
    BY <2>3, <2>5, ReadStays DEF CliInv, FilesAreRead
  <2>10. CommandsAreKnown'
    BY <1>0, <2>3, <2>5, KnownStays DEF CommandsAreKnown
  <2> QED BY <2>6, <2>7, <2>8, <2>9, <2>10 DEF CliInv
<1>4. ASSUME NEW i \in Ours, Download(i) PROVE CliInv'
  <2> DEFINE path == DetermineOutputPath(Submitted[i])
  <2>1. /\ kts' = [kts EXCEPT ![path] = Serialize(PendingProofs[i])]
        /\ stamps' = stamps + 1 /\ stamps < MaxStamps /\ mixed' = mixed \ {path}
        /\ UNCHANGED <<rows, mempool, chain, cmd, kills>>
    BY <1>4 DEF Download, StartsStamp
  <2>2. IsMade(PendingProofs[i], chain)
    BY DEF IsMade, IsPendingRow
  <2>3. ReadsAs(Serialize(PendingProofs[i]), chain)
    BY <2>2, WrittenReadsAs
  <2>4. Typed'
    <3>1. kts = [p \in Paths |-> kts[p]]
      BY DEF CliInv, Typed
    <3> HIDE DEF path
    <3>2. kts' = [p \in Paths |-> kts'[p]]
      BY <2>1, <3>1
    <3>3. stamps' \in Nat /\ stamps' <= MaxStamps /\ mixed' \subseteq Paths
      BY <2>1 DEF CliInv, Typed
    <3> QED BY <2>1, <3>2, <3>3 DEF CliInv, Typed
  <2>5. BatchIsFirst' /\ NumbersDiffer'
    BY <2>1 DEF CliInv, BatchIsFirst, NumbersDiffer
  <2>6. SentWereStamped'
    <3>1. ASSUME NEW x \in sent PROVE x.tx <= stamps + 1
      <4>1. x.tx \in Int
        BY DEF CliInv, Typed, Sent, DirectTransactions, DirectTransaction, Transaction, BatchTx,
           Numbers
      <4> QED BY <4>1 DEF CliInv, Typed, SentWereStamped
    <3> QED BY <2>1, <3>1 DEF SentWereStamped
  <2>7. FilesAreRead'
    <3>1. ASSUME NEW p \in Paths
          PROVE  \/ p # path /\ kts'[p] = kts[p]
                 \/ kts'[p] = Serialize(PendingProofs[i])
      BY <2>1 DEF CliInv, Typed
    <3> HIDE DEF path
    <3> QED BY <2>1, <2>3, <3>1 DEF CliInv, FilesAreRead
  <2>8. CommandsAreKnown'
    <3>1. Grows(chain, chain)
      BY DEF Grows
    <3>2. stamps + 1 \in Nat /\ stamps <= stamps + 1 /\ stamps \in Nat
      BY DEF CliInv, Typed
    <3> QED BY <1>0, <2>1, <3>1, <3>2, KnownStays DEF CommandsAreKnown
  <2> QED BY <2>4, <2>5, <2>6, <2>7, <2>8 DEF CliInv
<1>5. ASSUME NEW t \in Terminals, NEW f \in Inputs, NEW async \in BOOLEAN,
             StampByCalendar(t, f, async)
      PROVE  CliInv'
  <2> DEFINE c == Running("stamp", IF async THEN "writing" ELSE "polling",
                          DetermineOutputPath(f), <<>>,
                          Proof(Digest(f), <<>>, <<Pending(GuessedUrl(f))>>), 0)
  <2>1. Becomes(t, c) /\ StartsStamp /\ UNCHANGED <<kts, rows, mempool, chain, mixed>>
    BY <1>5 DEF StampByCalendar
  <2>2. /\ c.kind = "stamp" /\ c.tx = 0 /\ c.at \in {"polling", "writing"}
        /\ c.path = DetermineOutputPath(f)
        /\ c.proof = Proof(Digest(f), <<>>, <<Pending(GuessedUrl(f))>>)
        /\ c = Running(c.kind, c.at, c.path, c.read, c.proof, c.tx)
    BY DEF Running
  <2> HIDE DEF c
  <2>3. IsCommand(c, sent, chain, stamps + 1)
    BY <2>2 DEF IsCommand, IsStampByCalendar, IsGuessed, Paths
  <2> QED BY <2>1, <2>2, <2>3, StampStarts
<1>6. ASSUME NEW t \in Terminals, NEW f \in Inputs, StampDirect(t, f) PROVE CliInv'
  <2> DEFINE n == stamps + 1
             c == Running("stamp", "signed", DetermineOutputPath(f), <<>>,
                          DirectProof(f, n, <<>>), n)
  <2>1. Becomes(t, c) /\ StartsStamp /\ UNCHANGED <<kts, rows, mempool, chain, mixed>>
    BY <1>6 DEF StampDirect, StartsStamp, DirectProof, DirectOperations
  <2>2. /\ c.kind = "stamp" /\ c.tx = n /\ c.at = "signed"
        /\ c.path = DetermineOutputPath(f) /\ c.proof = DirectProof(f, c.tx, <<>>)
        /\ c = Running(c.kind, c.at, c.path, c.read, c.proof, c.tx)
    BY DEF Running
  <2> HIDE DEF c
  <2>3. stamps \in Nat /\ n \in 1..n
    BY DEF CliInv, Typed
  <2>4. \A x \in sent : x.tx # c.tx
    BY <2>2, <2>3 DEF CliInv, SentWereStamped
  <2>5. IsCommand(c, sent, chain, n)
    BY <2>2, <2>3, <2>4 DEF IsCommand, IsStampDirect, IsUnsent, Paths
  <2> QED BY <2>1, <2>2, <2>5, StampStarts
<1>7. ASSUME NEW t \in Terminals, PollTimeout(t) PROVE CliInv'
  <2> DEFINE c == cmd[t]
             d == Running(c.kind, "writing", c.path, c.read, c.proof, c.tx)
  <2>1. /\ c.at = "polling" /\ Moves(t, "writing", c.proof)
        /\ UNCHANGED <<kts, rows, mempool, chain, stamps, mixed>>
    BY <1>7 DEF PollTimeout
  <2>2. /\ c = Running(c.kind, c.at, c.path, c.read, c.proof, c.tx)
        /\ c.path \in Paths /\ IsStampByCalendar(c)
    BY <1>0, <2>1, RunningIs
  <2>3. cmd' = [cmd EXCEPT ![t] = d]
    BY <1>0, <2>1, <2>2, MovesIsRunning
  <2>4. d.kind = c.kind /\ d.at = "writing" /\ d.path = c.path /\ d.proof = c.proof /\ d.tx = c.tx
        /\ d = Running(d.kind, d.at, d.path, d.read, d.proof, d.tx)
    BY DEF Running
  <2> HIDE DEF c, d
  <2>5. IsCommand(d, sent, chain, stamps)
    BY <2>2, <2>4 DEF IsCommand, IsStampByCalendar
  <2>6. d.tx = cmd[t].tx
    BY <2>4 DEF c
  <2> QED BY <2>1, <2>3, <2>5, <2>6, OneCommandOnly
<1>8. ASSUME NEW t \in Terminals, Submit(t) PROVE CliInv'
  <2> DEFINE c == cmd[t]
             d == Running(c.kind, "waiting", c.path, c.read, c.proof, c.tx)
             x == DirectTx(c)
  <2>1. c.at = "signed" /\ UNCHANGED <<kts, rows, chain, stamps, mixed>>
    BY <1>8 DEF Submit
  <2>2. /\ c = Running(c.kind, c.at, c.path, c.read, c.proof, c.tx)
        /\ c.path \in Paths /\ IsStampDirect(c, sent, chain, stamps) /\ IsUnsent(c, sent)
    BY <1>0, <2>1, RunningIs
  <2>3. PICK f \in Inputs : c.proof = DirectProof(f, c.tx, <<>>)
    BY <2>2 DEF IsUnsent
  <2>4. c.tx \in 1..stamps /\ c.tx \in Numbers /\ c.tx # 0
    BY <1>0, <2>2 DEF IsStampDirect, Numbers
  <2>5. x = DirectTransaction(f, c.tx) /\ x.tx = c.tx
    <3> HIDE DEF c
    <3> QED BY <2>3, DirectCommits DEF DirectTx, DirectTransaction, Transaction
  <2>6. x \in DirectTransactions
    BY <2>4, <2>5 DEF DirectTransactions
  <2>7. ASSUME mempool' \subseteq mempool \cup {x}, NEW e, cmd' = [cmd EXCEPT ![t] = e],
               e.tx = 0 \/ e.tx = c.tx, IsCommand(e, Sent(mempool', chain), chain, stamps)
        PROVE  CliInv'
    <3> HIDE DEF x
    <3>1. /\ rows' = rows /\ chain' = chain
          /\ stamps' \in Nat /\ stamps <= stamps' /\ stamps' <= MaxStamps
          /\ e.tx = 0 \/ e.tx = cmd[t].tx \/ e.tx = stamps + 1
          /\ IsCommand(e, Sent(mempool', chain), chain, stamps')
          /\ mempool' \subseteq DirectTransactions
          /\ \A y \in mempool' : y \in mempool \/ (y.tx = cmd[t].tx /\ cmd[t].tx # 0)
          /\ kts' = [path \in Paths |-> kts'[path]] /\ mixed' \subseteq Paths
          /\ \A path \in Paths \ mixed' : \/ path \notin mixed /\ kts'[path] = kts[path]
                                         \/ ReadsAs(kts'[path], chain)
      BY <1>0, <2>1, <2>4, <2>5, <2>6, <2>7 DEF CliInv, Typed
    <3> QED BY <2>7, <3>1, OneCommand
  <2>8. CASE Becomes(t, Idle)
    <3>1. mempool' \subseteq mempool \cup {x} /\ cmd' = [cmd EXCEPT ![t] = Idle]
      BY <1>8, <2>8 DEF Submit, Becomes
    <3> HIDE DEF x
    <3> QED BY <2>7, <3>1, IdleIsCommand
  <2>9. CASE mempool' = mempool \cup {x} /\ Moves(t, "waiting", c.proof)
    <3>1. cmd' = [cmd EXCEPT ![t] = d]
      BY <1>0, <2>2, <2>9, MovesIsRunning
    <3>2. d.kind = c.kind /\ d.at = "waiting" /\ d.path = c.path /\ d.proof = c.proof /\ d.tx = c.tx
          /\ d = Running(d.kind, d.at, d.path, d.read, d.proof, d.tx)
      BY DEF Running
    <3>3. ASSUME NEW y \in Sent(mempool', chain), y.tx = c.tx PROVE y = x
      BY <2>2, <2>9, <3>3 DEF Sent, IsUnsent
    <3> HIDE DEF c, d, x
    <3>4. IsAwaited(d, Sent(mempool', chain))
      BY <2>3, <2>5, <3>2, <3>3 DEF IsAwaited
    <3>5. IsCommand(d, Sent(mempool', chain), chain, stamps)
      BY <2>2, <3>2, <3>4 DEF IsCommand, IsStampDirect
    <3> QED BY <2>7, <2>9, <3>1, <3>2, <3>5
  <2>10. \/ Becomes(t, Idle)
         \/ mempool' = mempool \cup {x} /\ Moves(t, "waiting", c.proof)
    BY <1>8 DEF Submit
  <2> QED BY <2>8, <2>9, <2>10
<1>9. ASSUME NEW t \in Terminals, NEW attestations, NEW p,
             cmd[t].at = "waiting", UNCHANGED <<kts, rows, mempool, chain, stamps, mixed>>,
             p = [cmd[t].proof EXCEPT !.attestations = attestations],
             Moves(t, "writing", p),
             NEW g \in Inputs, cmd[t].proof = DirectProof(g, cmd[t].tx, <<>>),
             IsMade(DirectProof(g, cmd[t].tx, attestations), chain)
      PROVE  CliInv'
  <2> DEFINE c == cmd[t]
             d == Running(c.kind, "writing", c.path, c.read, p, c.tx)
  <2>1. p = DirectProof(g, c.tx, attestations)
    BY <1>9, Reattested
  <2>2. /\ c = Running(c.kind, c.at, c.path, c.read, c.proof, c.tx)
        /\ c.path \in Paths /\ IsStampDirect(c, sent, chain, stamps)
    BY <1>0, <1>9, RunningIs
  <2>3. cmd' = [cmd EXCEPT ![t] = d]
    BY <1>0, <1>9, <2>2, MovesIsRunning
  <2>4. d.kind = c.kind /\ d.at = "writing" /\ d.path = c.path /\ d.proof = p /\ d.tx = c.tx
        /\ d = Running(d.kind, d.at, d.path, d.read, d.proof, d.tx)
    BY DEF Running
  <2>5. p.attestations = attestations
    BY <2>1 DEF DirectProof, Proof
  <2>6. IsMade(p, chain) /\ p = DirectProof(g, c.tx, p.attestations)
    BY <1>9, <2>1, <2>5
  <2> HIDE DEF c, d
  <2>7. IsFinished(d, chain)
    BY <2>4, <2>6 DEF IsFinished
  <2>8. IsCommand(d, sent, chain, stamps)
    BY <2>2, <2>4, <2>7 DEF IsCommand, IsStampDirect
  <2>9. d.tx = cmd[t].tx
    BY <2>4 DEF c
  <2> QED BY <1>9, <2>3, <2>8, <2>9, OneCommandOnly
<1>10. ASSUME NEW t \in Terminals, cmd[t].at = "waiting"
       PROVE  /\ cmd[t].tx \in Numbers
              /\ \E f \in Inputs :
                   /\ cmd[t].proof = DirectProof(f, cmd[t].tx, <<>>)
                   /\ \A x \in sent : x.tx = cmd[t].tx => x = DirectTransaction(f, cmd[t].tx)
  <2>1. IsStampDirect(cmd[t], sent, chain, stamps) /\ IsAwaited(cmd[t], sent)
    BY <1>0, <1>10, RunningIs
  <2> QED BY <1>0, <2>1 DEF IsStampDirect, IsAwaited, Numbers
<1>11. ASSUME NEW t \in Terminals, Confirmed(t) PROVE CliInv'
  <2> DEFINE n == cmd[t].tx
  <2>1. PICK b \in BlockOf(n) :
          Moves(t, "writing", [cmd[t].proof EXCEPT !.attestations = <<Kaspa(Attestation(n, b))>>])
    BY <1>11 DEF Confirmed
  <2>2. cmd[t].at = "waiting" /\ UNCHANGED <<kts, rows, mempool, chain, stamps, mixed>>
    BY <1>11 DEF Confirmed
  <2>3. PICK f \in Inputs : /\ cmd[t].proof = DirectProof(f, n, <<>>)
                            /\ \A x \in sent : x.tx = n => x = DirectTransaction(f, n)
    BY <1>10, <2>2
  <2>4. b \in DOMAIN chain /\ DirectTransaction(f, n) \in chain[b]
    BY <2>1, <2>3 DEF BlockOf, Sent
  <2>5. IsMade(DirectProof(f, n, <<Kaspa(Attestation(n, b))>>), chain)
    BY <1>10, <2>2, <2>4 DEF IsMade, IsDirectSeen
  <2> QED BY <1>9, <2>1, <2>2, <2>3, <2>5
<1>12. ASSUME NEW t \in Terminals, WaitTimeout(t) PROVE CliInv'
  <2> DEFINE n == cmd[t].tx
  <2>1. /\ Moves(t, "writing", [cmd[t].proof EXCEPT !.attestations = <<Pending(DirectUrl(n))>>])
        /\ cmd[t].at = "waiting" /\ UNCHANGED <<kts, rows, mempool, chain, stamps, mixed>>
    BY <1>12 DEF WaitTimeout
  <2>2. PICK f \in Inputs : cmd[t].proof = DirectProof(f, n, <<>>)
    BY <1>10, <2>1
  <2>3. IsMade(DirectProof(f, n, <<Pending(DirectUrl(n))>>), chain)
    BY <1>10, <2>1 DEF IsMade, IsDirectUnseen
  <2> QED BY <1>9, <2>1, <2>2, <2>3
<1>13. ASSUME NEW t \in Terminals, NEW path \in Paths, StartComplete(t, path) PROVE CliInv'
  <2> DEFINE p == Deserialize(kts[path])
             c == Running("complete", "fetching", path, kts[path], p, 0)
  <2>1. /\ ~IsComplete(p) /\ PendingAt(p) # {} /\ cmd' = [cmd EXCEPT ![t] = c]
        /\ UNCHANGED <<kts, rows, mempool, chain, stamps, mixed>>
    BY <1>13 DEF StartComplete, Becomes
  <2>2. /\ c.kind = "complete" /\ c.tx = 0 /\ c.at = "fetching" /\ c.path = path
        /\ c.read = kts[path] /\ c.proof = p
        /\ c = Running(c.kind, c.at, c.path, c.read, c.proof, c.tx)
    BY DEF Running
  <2> HIDE DEF c
  <2>3. IsCommand(c, sent, chain, stamps)
    BY <2>1, <2>2 DEF IsCommand, IsCompletion, IsFetching
  <2> QED BY <2>1, <2>2, <2>3, OneCommandOnly
<1>14. ASSUME NEW t \in Terminals, Fetched(t) PROVE CliInv'
  <2> DEFINE c == cmd[t]
  <2>1. /\ c.at = "fetching" /\ UNCHANGED <<kts, rows, mempool, chain, stamps, mixed>>
        /\ \/ Becomes(t, Idle)
           \/ \E i \in Usable(c.proof) : Moves(t, "writing", RowProof(i))
    BY <1>14 DEF Fetched
  <2>2. CASE Becomes(t, Idle)
    BY <2>1, <2>2, IdleIsCommand, OneCommandOnly DEF Becomes
  <2>3. ASSUME NEW i \in Usable(c.proof), Moves(t, "writing", RowProof(i)) PROVE CliInv'
    <3> DEFINE d == Running(c.kind, "writing", c.path, c.read, RowProof(i), c.tx)
    <3>1. /\ c = Running(c.kind, c.at, c.path, c.read, c.proof, c.tx)
          /\ c.path \in Paths /\ IsCompletion(c) /\ IsFetching(c)
      BY <1>0, <2>1, RunningIs
    <3>2. cmd' = [cmd EXCEPT ![t] = d]
      BY <1>0, <2>3, <3>1, MovesIsRunning
    <3>3. /\ d.kind = c.kind /\ d.at = "writing" /\ d.path = c.path /\ d.read = c.read
          /\ d.proof = RowProof(i) /\ d.tx = c.tx
          /\ d = Running(d.kind, d.at, d.path, d.read, d.proof, d.tx)
      BY DEF Running
    <3> HIDE DEF c, d
    <3>4. i \in Ours /\ PendingUrl(c.proof) = CalendarUrl(i)
      BY DEF Usable, CliInv, Typed
    <3>5. IsPendingRow(d.proof) \/ IsConfirmedRow(d.proof)
      BY <3>3, <3>4 DEF RowProof, IsPendingRow, IsConfirmedRow
    <3>6. NamesRow(Deserialize(d.read))
      BY <3>1, <3>3, <3>4 DEF IsFetching, NamesRow
    <3>7. IsCommand(d, sent, chain, stamps)
      BY <3>1, <3>3, <3>5, <3>6 DEF IsCommand, IsCompletion, IsSaving
    <3>8. d.tx = cmd[t].tx
      BY <3>3 DEF c
    <3> QED BY <2>1, <3>2, <3>7, <3>8, OneCommandOnly
  <2> QED BY <2>1, <2>2, <2>3
<1>15. ASSUME NEW t \in Terminals, NEW d, cmd' = [cmd EXCEPT ![t] = d],
              d.tx = 0 \/ d.tx = cmd[t].tx, IsCommand(d, sent, chain, stamps),
              UNCHANGED <<rows, mempool, chain, stamps>>,
              NEW path \in Paths, NEW tokens, kts' = [kts EXCEPT ![path] = tokens],
              \/ tokens = kts[path] /\ mixed' = mixed
              \/ ReadsAs(tokens, chain) /\ mixed' = mixed \ {path}
              \/ mixed' = mixed \cup {path}
       PROVE  CliInv'
  <2>1. kts = [p \in Paths |-> kts[p]]
    BY DEF CliInv, Typed
  <2>2. kts' = [p \in Paths |-> kts'[p]]
    BY <1>15, <2>1
  <2>3. /\ mixed' \subseteq Paths
        /\ \A p \in Paths \ mixed' : \/ p \notin mixed /\ kts'[p] = kts[p]
                                  \/ ReadsAs(kts'[p], chain)
    BY <1>15, <2>1 DEF CliInv, Typed
  <2>4. /\ rows' = rows /\ chain' = chain
        /\ stamps' \in Nat /\ stamps <= stamps' /\ stamps' <= MaxStamps
        /\ d.tx = 0 \/ d.tx = cmd[t].tx \/ d.tx = stamps + 1
        /\ IsCommand(d, Sent(mempool', chain), chain, stamps')
        /\ mempool' \subseteq DirectTransactions
        /\ \A x \in mempool' : x \in mempool \/ (x.tx = cmd[t].tx /\ cmd[t].tx # 0)
    BY <1>15 DEF CliInv, Typed
  <2> QED BY <1>15, <2>2, <2>3, <2>4, OneCommand
<1>16. ASSUME NEW t \in Terminals, Truncate(t) PROVE CliInv'
  <2> DEFINE c == cmd[t]
             d == Running(c.kind, "opened", c.path, c.read, c.proof, c.tx)
  <2>1. /\ c.at = "writing" /\ kts' = [kts EXCEPT ![c.path] = <<>>]
        /\ Moves(t, "opened", c.proof) /\ mixed' = mixed \ {c.path}
        /\ UNCHANGED <<rows, mempool, chain, stamps>>
    BY <1>16 DEF Truncate
  <2>2. /\ c = Running(c.kind, c.at, c.path, c.read, c.proof, c.tx)
        /\ c.path \in Paths
        /\ \/ IsStampByCalendar(c)
           \/ IsStampDirect(c, sent, chain, stamps) /\ IsFinished(c, chain)
           \/ IsCompletion(c) /\ IsSaving(c)
    BY <1>0, <2>1, RunningIs
  <2>3. cmd' = [cmd EXCEPT ![t] = d]
    BY <1>0, <2>1, <2>2, MovesIsRunning
  <2>4. /\ d.kind = c.kind /\ d.at = "opened" /\ d.path = c.path /\ d.read = c.read
        /\ d.proof = c.proof /\ d.tx = c.tx
        /\ d = Running(d.kind, d.at, d.path, d.read, d.proof, d.tx)
    BY DEF Running
  <2> HIDE DEF c, d
  <2>5. IsCommand(d, sent, chain, stamps)
    BY <2>2, <2>4 DEF IsCommand, IsStampByCalendar, IsStampDirect, IsFinished, IsCompletion,
                      IsSaving
  <2>6. ReadsAs(<<>>, chain)
    BY DEF ReadsAs, Deserialize, Unreadable, Proof
  <2>7. d.tx = cmd[t].tx
    BY <2>4 DEF c
  <2> QED BY <1>15, <2>1, <2>2, <2>3, <2>5, <2>6, <2>7
<1>17. ASSUME NEW t \in Terminals, Write(t) PROVE CliInv'
  <2> DEFINE c == cmd[t]
             written == Serialize(c.proof)
  <2>1. PICK left :
          /\ kts' = [kts EXCEPT ![c.path] = left]
          /\ mixed' = IF left = written THEN mixed \ {c.path} ELSE mixed \cup {c.path}
    BY <1>17 DEF Write
  <2>2. /\ c.at = "opened" /\ cmd' = [cmd EXCEPT ![t] = Idle]
        /\ UNCHANGED <<rows, mempool, chain, stamps>>
    BY <1>17 DEF Write, Becomes
  <2>3. c.path \in Paths /\ IsMade(c.proof, chain)
    BY <1>0, <2>2, RunningIs, WritesMade
  <2>4. left = written => ReadsAs(left, chain)
    BY <2>3, WrittenReadsAs
  <2> HIDE DEF c, written
  <2>5. \/ ReadsAs(left, chain) /\ mixed' = mixed \ {c.path}
        \/ mixed' = mixed \cup {c.path}
    BY <2>1, <2>4
  <2> QED BY <1>15, <2>1, <2>2, <2>3, <2>5, IdleIsCommand
<1>18. ASSUME NEW t \in Terminals, Kill(t) PROVE CliInv'
  <2> DEFINE c == cmd[t]
             old == kts[c.path]
             written == Serialize(c.proof)
  <2>1. PICK left \in {old} \cup (IF c.at = "opened" THEN Begun(written, old) ELSE {}) :
          /\ kts' = [kts EXCEPT ![c.path] = left]
          /\ mixed' = IF left = old THEN mixed
                      ELSE IF left \in Beginnings(written) THEN mixed \ {c.path}
                      ELSE mixed \cup {c.path}
    BY <1>18 DEF Kill
  <2>2. /\ c # Idle /\ cmd' = [cmd EXCEPT ![t] = Idle]
        /\ UNCHANGED <<rows, mempool, chain, stamps>>
    BY <1>18 DEF Kill, Becomes
  <2>3. c.path \in Paths /\ (c.at = "opened" => IsMade(c.proof, chain))
    BY <1>0, <2>2, WritesMade DEF IsCommand
  <2>4. left # old /\ left \in Beginnings(written) => ReadsAs(left, chain)
    BY <2>1, <2>3, WrittenReadsAs
  <2> HIDE DEF c, written
  <2>5. \/ left = kts[c.path] /\ mixed' = mixed
        \/ ReadsAs(left, chain) /\ mixed' = mixed \ {c.path}
        \/ mixed' = mixed \cup {c.path}
    BY <2>1, <2>4
  <2> QED BY <1>15, <2>1, <2>2, <2>3, <2>5, IdleIsCommand
<1>19. ASSUME NEW t \in Terminals, RequestFails(t) PROVE CliInv'
  BY <1>19, IdleIsCommand, OneCommandOnly DEF RequestFails, Becomes
<1> QED
  BY <1>1, <1>2, <1>3, <1>4, <1>5, <1>6, <1>7, <1>8, <1>11, <1>12, <1>13, <1>14, <1>16, <1>17,
     <1>18, <1>19 DEF Next, Step

(* The invariant, type correctness among it, holds in every reachable      *)
(* state: a file with the bytes of one write in it is read as a proof the  *)
(* program made or as one without an attestation, and a direct one in a    *)
(* block is in the block it names.                                         *)
THEOREM CliInvHolds == Spec => []CliInv
<1>1. Init => CliInv
  BY InitCliInv
<1>2. CliInv /\ [Next]_vars => CliInv'
  BY NextCliInv
<1> QED BY <1>1, <1>2, PTL DEF Spec

-----------------------------------------------------------------------------
(* What a valid file says *)

(* A made proof that is complete is a row's or a direct one that was seen. *)
LEMMA CompleteIsConfirmed ==
  ASSUME NEW p, NEW blocks, IsMade(p, blocks), IsComplete(p)
  PROVE  IsConfirmedRow(p) \/ IsDirectSeen(p, blocks)
<1>1. ASSUME NEW digest, NEW operations, NEW url,
             p = Proof(digest, operations, <<Pending(url)>>)
      PROVE  FALSE
  <2>1. p.attestations = <<Pending(url)>>
    BY <1>1 DEF Proof
  <2> QED BY <2>1 DEF IsComplete, Pending
<1>2. ~IsGuessed(p)
  BY <1>1 DEF IsGuessed
<1>3. ~IsPendingRow(p)
  BY <1>1, BatchIsList DEF IsPendingRow, PendingProofs
<1>4. ~IsDirectUnseen(p)
  BY <1>1 DEF IsDirectUnseen, DirectProof
<1> QED BY <1>2, <1>3, <1>4 DEF IsMade

(* The one attestation of such a proof.                                    *)
LEMMA OneAttestation ==
  ASSUME NEW p, NEW a, p.attestations = <<Kaspa(a)>>
  PROVE  KaspaAttestations(p) = {a}
<1>1. {j \in DOMAIN p.attestations : p.attestations[j][1] = "kaspa"} = {1}
  BY DEF Kaspa
<1>2. p.attestations[1][2] = a
  BY DEF Kaspa
<1> QED BY <1>1, <1>2 DEF KaspaAttestations

(* VALID is never said of a file of one write whose commitment is not on   *)
(* the chain, though verify asks no node: ValidIsOnChain of the cli run.   *)
THEOREM ValidHolds == Spec => []ValidIsOnChain
<1>1. ASSUME CliInv PROVE ValidIsOnChain
  <2>1. ASSUME NEW path \in Paths \ mixed, IsComplete(Deserialize(kts[path]))
        PROVE  /\ KaspaAttestations(Deserialize(kts[path])) # {}
               /\ \A attestation \in KaspaAttestations(Deserialize(kts[path])) :
                    OnChain(attestation, CommitmentOf(Deserialize(kts[path])), OnTheChain)
    <3> DEFINE p == Deserialize(kts[path])
    <3>1. ReadsAs(kts[path], chain)
      BY <1>1 DEF CliInv, FilesAreRead
    <3>2. p.attestations # <<>>
      <4> HIDE DEF p
      <4>1. ASSUME p.attestations = <<>> PROVE FALSE
        <5>1. DOMAIN p.attestations = {}
          BY <4>1
        <5> QED BY <2>1, <5>1 DEF IsComplete, p
      <4> QED BY <4>1
    <3>3. IsMade(p, chain)
      BY <3>1, <3>2 DEF ReadsAs
    <3>4. ASSUME NEW tx, NEW b \in DOMAIN chain, p.attestations = <<Kaspa(Attestation(tx, b))>>,
                 Transaction(tx, CommitmentOf(p)) \in chain[b]
          PROVE  /\ KaspaAttestations(p) # {}
                 /\ \A attestation \in KaspaAttestations(p) :
                      OnChain(attestation, CommitmentOf(p), OnTheChain)
      <4> DEFINE commitment == CommitmentOf(p)
                 mined == [tx |-> tx, commitment |-> commitment, block |-> b, daa_score |-> b]
      <4>1. KaspaAttestations(p) = {Attestation(tx, b)}
        BY <3>4, OneAttestation
      <4> HIDE DEF p, commitment
      <4>2. /\ Transaction(tx, commitment).tx = tx
            /\ Transaction(tx, commitment).commitment = commitment
        BY DEF Transaction
      <4>3. mined \in OnTheChain
        BY <3>4, <4>2 DEF OnTheChain, commitment
      <4>4. OnChain(Attestation(tx, b), commitment, OnTheChain)
        BY <4>3 DEF OnChain, Attestation
      <4> QED BY <4>1, <4>4 DEF commitment
    <3> DEFINE found == /\ KaspaAttestations(p) # {}
                        /\ \A attestation \in KaspaAttestations(p) :
                             OnChain(attestation, CommitmentOf(p), OnTheChain)
    <3>5. ASSUME IsConfirmedRow(p) PROVE found
      <4>1. PICK i \in Ours : p = ConfirmedProofs[i]
        BY <3>5 DEF IsConfirmedRow
      <4>2. p.attestations = <<Kaspa(Attestation(0, 1))>>
        BY <4>1, BatchIsList DEF ConfirmedProofs, Proof
      <4>3. CommitmentOf(p) = Root(Digests)
        BY <4>1, ConfirmedCommitsToRoot
      <4> HIDE DEF p
      <4>4. 1 \in DOMAIN chain /\ Transaction(0, CommitmentOf(p)) \in chain[1]
        BY <1>1, <4>3, LenProperties DEF CliInv, Typed, BatchIsFirst, BatchTx
      <4> QED BY <3>4, <4>2, <4>4
    <3>6. ASSUME IsDirectSeen(p, chain) PROVE found
      <4>1. PICK f \in Inputs, n \in Numbers, b \in DOMAIN chain :
              /\ p = DirectProof(f, n, <<Kaspa(Attestation(n, b))>>)
              /\ DirectTransaction(f, n) \in chain[b]
        BY <3>6 DEF IsDirectSeen
      <4>2. p.attestations = <<Kaspa(Attestation(n, b))>>
        BY <4>1 DEF DirectProof, Proof
      <4>3. Transaction(n, CommitmentOf(p)) = DirectTransaction(f, n)
        BY <4>1, DirectCommits DEF DirectTransaction
      <4> HIDE DEF p
      <4> QED BY <3>4, <4>1, <4>2, <4>3
    <3>7. IsConfirmedRow(p) \/ IsDirectSeen(p, chain)
      BY <2>1, <3>3, CompleteIsConfirmed
    <3> QED BY <3>5, <3>6, <3>7
  <2> QED BY <2>1 DEF ValidIsOnChain, Valid
<1> QED BY <1>1, CliInvHolds, PTL

-----------------------------------------------------------------------------
(* What was paid for *)

PaidIn(pool, blocks) == {n \in Numbers : \E x \in Sent(pool, blocks) : x.tx = n}

(* Paid is about what was sent, in a block or not yet.                     *)
LEMMA PaidIsSent == Paid = PaidIn(mempool, chain)
BY DEF Paid, PaidIn, Sent, BlockOf, Numbers

(* What a step may not do without an excuse: drop a nonce that is paid for *)
(* from a file or from a command, unless it is in a file afterwards.       *)
LEMMA PaidStays ==
  ASSUME CliInv, PaidIsRecorded, excused \subseteq excused', Paid' \subseteq Paid,
         NEW t \in Terminals, NEW d, cmd' = [cmd EXCEPT ![t] = d],
         \A path \in Paths : Recorded(kts[path]) \subseteq Recorded(kts'[path]) \cup excused',
         \/ d.tx = cmd[t].tx
         \/ cmd[t].tx \notin Paid \ excused'
         \/ \E path \in Paths : cmd[t].tx \in Recorded(kts'[path])
  PROVE  PaidIsRecorded'
<1>1. ASSUME NEW n \in Paid' \ excused'
      PROVE  \/ \E path \in Paths : n \in Recorded(kts'[path])
             \/ \E u \in Terminals : cmd'[u].tx = n
  <2>1. n \in Paid \ excused /\ n \notin excused'
    OBVIOUS
  <2>2. CASE \E path \in Paths : n \in Recorded(kts[path])
    BY <2>1, <2>2
  <2>3. ASSUME NEW u \in Terminals, cmd[u].tx = n
        PROVE  \/ \E path \in Paths : n \in Recorded(kts'[path])
               \/ \E w \in Terminals : cmd'[w].tx = n
    <3>1. u # t => cmd'[u] = cmd[u]
      BY DEF CliInv, Typed
    <3>2. cmd'[t] = d
      BY DEF CliInv, Typed
    <3> QED BY <2>1, <2>3, <3>1, <3>2
  <2> QED BY <2>1, <2>2, <2>3 DEF PaidIsRecorded
<1> QED BY <1>1 DEF PaidIsRecorded, Recorded

(* The same of a step that leaves the files alone and keeps the number of  *)
(* its command, if it has one.                                             *)
LEMMA PaidStaysAlone ==
  ASSUME CliInv, PaidIsRecorded, NEW t \in Terminals, NEW d, cmd' = [cmd EXCEPT ![t] = d],
         UNCHANGED <<kts, mempool, chain, excused>>,
         cmd[t].tx # 0 => d.tx = cmd[t].tx
  PROVE  PaidIsRecorded'
<1>1. Paid' = Paid
  BY DEF Paid, BlockOf
<1>2. excused \subseteq excused' /\ Paid' \subseteq Paid
  BY <1>1
<1>3. \A path \in Paths : Recorded(kts[path]) \subseteq Recorded(kts'[path]) \cup excused'
  OBVIOUS
<1>4. d.tx = cmd[t].tx \/ cmd[t].tx \notin Paid \ excused'
  BY CliAssumption DEF Paid
<1> QED BY <1>2, <1>3, <1>4, PaidStays

(* Every step keeps the record of what is paid for.                        *)
LEMMA NextPaid == CliInv /\ PaidIsRecorded /\ [Next]_vars => PaidIsRecorded'
<1> SUFFICES ASSUME CliInv, PaidIsRecorded, [Next]_vars PROVE PaidIsRecorded'
  OBVIOUS
<1> USE CliAssumption
<1> DEFINE sent == Sent(mempool, chain)
<1>0. ASSUME NEW t \in Terminals
      PROVE  /\ IsCommand(cmd[t], sent, chain, stamps)
             /\ cmd = [u \in Terminals |-> cmd[u]] /\ stamps \in Nat /\ stamps <= MaxStamps
  BY DEF CliInv, Typed, CommandsAreKnown
<1>1. ASSUME UNCHANGED <<kts, cmd, excused>>, Paid' = Paid PROVE PaidIsRecorded'
  BY <1>1 DEF PaidIsRecorded, Recorded
<1>2. CASE UNCHANGED vars
  <2>1. Paid' = Paid
    BY <1>2 DEF vars, Paid, BlockOf
  <2> QED BY <1>1, <1>2, <2>1 DEF vars
<1>3. CASE UpdateRow
  <2>1. Paid' = Paid
    BY <1>3 DEF UpdateRow, Paid, BlockOf
  <2> QED BY <1>1, <1>3, <2>1 DEF UpdateRow
<1>4. CASE Mine
  <2>1. chain \in Seq(SUBSET (DirectTransactions \cup {BatchTx}))
        /\ mempool \in SUBSET (DirectTransactions \cup {BatchTx})
    BY DEF CliInv, Typed
  <2>2. Sent(mempool', chain') = sent
    BY <1>4, <2>1, MinedIsSent DEF Mine
  <2>3. Paid' = Paid
    <3>1. Paid' = PaidIn(mempool', chain')
      BY DEF Paid, PaidIn, Sent, BlockOf, Numbers
    <3> QED BY <2>2, <3>1, PaidIsSent DEF PaidIn
  <2> QED BY <1>1, <1>4, <2>3 DEF Mine
<1>5. ASSUME NEW i \in Ours, Download(i) PROVE PaidIsRecorded'
  <2> DEFINE path == DetermineOutputPath(Submitted[i])
  <2>1. Paid' = Paid
    BY <1>5 DEF Download, Paid, BlockOf
  <2>2. /\ excused' = excused \cup Recorded(kts[path]) /\ cmd' = cmd
        /\ \A p \in Paths : p # path => kts'[p] = kts[p]
    BY <1>5 DEF Download, CliInv, Typed
  <2> HIDE DEF path
  <2>3. \A n \in Paid' \ excused' :
          \/ \E p \in Paths : n \in Recorded(kts'[p])
          \/ \E t \in Terminals : cmd'[t].tx = n
    BY <2>1, <2>2 DEF PaidIsRecorded
  <2> QED BY <2>3 DEF PaidIsRecorded, Recorded
<1>6. ASSUME NEW t \in Terminals, cmd[t] = Idle, NEW d, Becomes(t, d),
             UNCHANGED <<kts, mempool, chain, excused>>
      PROVE  PaidIsRecorded'
  BY <1>6, PaidStaysAlone, IdleIsCommand DEF Becomes
<1>7. ASSUME NEW t \in Terminals, NEW f \in Inputs, NEW async \in BOOLEAN,
             StampByCalendar(t, f, async)
      PROVE  PaidIsRecorded'
  BY <1>6, <1>7 DEF StampByCalendar
<1>8. ASSUME NEW t \in Terminals, NEW f \in Inputs, StampDirect(t, f) PROVE PaidIsRecorded'
  BY <1>6, <1>8 DEF StampDirect
<1>9. ASSUME NEW t \in Terminals, NEW path \in Paths, StartComplete(t, path)
      PROVE  PaidIsRecorded'
  BY <1>6, <1>9 DEF StartComplete
<1>10. ASSUME NEW t \in Terminals, cmd[t].at # "idle", NEW at, NEW p, Moves(t, at, p)
       PROVE  \E d : cmd' = [cmd EXCEPT ![t] = d] /\ d.tx = cmd[t].tx
  <2>1. cmd[t] = Running(cmd[t].kind, cmd[t].at, cmd[t].path, cmd[t].read, cmd[t].proof, cmd[t].tx)
    BY <1>0, <1>10, RunningIs
  <2> DEFINE d == Running(cmd[t].kind, at, cmd[t].path, cmd[t].read, p, cmd[t].tx)
  <2>2. cmd' = [cmd EXCEPT ![t] = d]
    BY <1>0, <1>10, <2>1, MovesIsRunning
  <2>3. d.tx = cmd[t].tx
    BY DEF Running
  <2> HIDE DEF d
  <2> QED BY <2>2, <2>3
<1>11. ASSUME NEW t \in Terminals, cmd[t].at # "idle", NEW at, NEW p, Moves(t, at, p),
              UNCHANGED <<kts, mempool, chain, excused>>
       PROVE  PaidIsRecorded'
  BY <1>10, <1>11, PaidStaysAlone
<1>12. ASSUME NEW t \in Terminals, PollTimeout(t) PROVE PaidIsRecorded'
  BY <1>11, <1>12 DEF PollTimeout
<1>13. ASSUME NEW t \in Terminals, Confirmed(t) PROVE PaidIsRecorded'
  BY <1>11, <1>13 DEF Confirmed
<1>14. ASSUME NEW t \in Terminals, WaitTimeout(t) PROVE PaidIsRecorded'
  BY <1>11, <1>14 DEF WaitTimeout
<1>15. ASSUME NEW t \in Terminals, Fetched(t) PROVE PaidIsRecorded'
  <2>1. cmd[t].at = "fetching" /\ UNCHANGED <<kts, mempool, chain, excused>>
    BY <1>15 DEF Fetched
  <2>2. CASE Becomes(t, Idle)
    <3>1. cmd[t].tx = 0
      BY <1>0, <2>1, RunningIs DEF IsCompletion
    <3> QED BY <2>1, <2>2, <3>1, PaidStaysAlone DEF Becomes
  <2>3. CASE \E p : Moves(t, "writing", p)
    BY <1>11, <2>1, <2>3
  <2>4. Becomes(t, Idle) \/ \E p : Moves(t, "writing", p)
    BY <1>15 DEF Fetched
  <2> QED BY <2>2, <2>3, <2>4
<1>16. ASSUME NEW t \in Terminals, Submit(t) PROVE PaidIsRecorded'
  <2> DEFINE n == cmd[t].tx
             x == DirectTx(cmd[t])
  <2>1. cmd[t].at = "signed" /\ kts' = kts /\ chain' = chain
    BY <1>16 DEF Submit
  <2>2. x.tx = n
    BY DEF DirectTx, Transaction
  <2>3. n \notin Paid
    <3>1. IsUnsent(cmd[t], sent)
      BY <1>0, <2>1, RunningIs
    <3> QED BY <3>1, PaidIsSent DEF PaidIn, IsUnsent
  <2>4. CASE mempool' = mempool /\ Becomes(t, Idle) /\ excused' = excused
    <3>1. Paid' = Paid
      BY <2>1, <2>4 DEF Paid, BlockOf
    <3>2. excused \subseteq excused' /\ Paid' \subseteq Paid
      BY <2>4, <3>1
    <3>3. \A path \in Paths : Recorded(kts[path]) \subseteq Recorded(kts'[path]) \cup excused'
      BY <2>1
    <3>4. cmd' = [cmd EXCEPT ![t] = Idle] /\ cmd[t].tx \notin Paid \ excused'
      BY <2>3, <2>4 DEF Becomes
    <3> QED BY <3>2, <3>3, <3>4, PaidStays
  <2>5. CASE mempool' = mempool \cup {x}
    <3>1. Paid' \subseteq Paid \cup {n}
      <4> HIDE DEF x
      <4> QED BY <2>1, <2>2, <2>5 DEF Paid, BlockOf
    <3>2. ASSUME NEW d, cmd' = [cmd EXCEPT ![t] = d], excused \subseteq excused',
                 d.tx = n \/ n \in excused'
          PROVE  PaidIsRecorded'
      <4>1. /\ cmd'[t] = d /\ \A u \in Terminals \ {t} : cmd'[u] = cmd[u]
        BY <3>2 DEF CliInv, Typed
      <4>2. ASSUME NEW m \in Paid' \ excused'
            PROVE  \/ \E path \in Paths : m \in Recorded(kts'[path])
                   \/ \E u \in Terminals : cmd'[u].tx = m
        <5>1. CASE m = n
          BY <3>2, <4>1, <5>1
        <5>2. CASE m # n
          <6>1. m \in Paid \ excused
            BY <3>1, <3>2, <5>2
          <6> QED BY <2>1, <4>1, <5>2, <6>1 DEF PaidIsRecorded
        <5> QED BY <5>1, <5>2
      <4> QED BY <4>2 DEF PaidIsRecorded, Recorded
    <3>3. CASE Moves(t, "waiting", cmd[t].proof) /\ excused' = excused
      <4>1. cmd[t].at # "idle"
        BY <2>1
      <4>2. PICK d : cmd' = [cmd EXCEPT ![t] = d] /\ d.tx = cmd[t].tx
        BY <1>10, <3>3, <4>1
      <4> QED BY <3>2, <3>3, <4>2
    <3>4. CASE Becomes(t, Idle) /\ excused' = excused \cup {n}
      BY <3>2, <3>4 DEF Becomes
    <3>5. CASE Becomes(t, Idle) /\ mempool' = mempool /\ excused' = excused
      BY <2>4, <3>5
    <3> QED BY <1>16, <3>3, <3>4, <3>5 DEF Submit
  <2> QED BY <1>16, <2>4, <2>5 DEF Submit
<1>17. ASSUME NEW t \in Terminals, NEW d, cmd' = [cmd EXCEPT ![t] = d],
              UNCHANGED <<mempool, chain>>,
              NEW path \in Paths, NEW tokens, kts' = [kts EXCEPT ![path] = tokens],
              excused \subseteq excused',
              Recorded(kts[path]) \subseteq Recorded(tokens) \cup excused',
              \/ cmd[t].tx = 0
              \/ d.tx = cmd[t].tx
              \/ cmd[t].tx \in Recorded(tokens) \cup excused'
       PROVE  PaidIsRecorded'
  <2>1. Paid' = Paid
    BY <1>17 DEF Paid, BlockOf
  <2>2. kts'[path] = tokens /\ \A p \in Paths : p # path => kts'[p] = kts[p]
    BY <1>17 DEF CliInv, Typed
  <2>3. Paid' \subseteq Paid /\ excused \subseteq excused'
    BY <1>17, <2>1
  <2>4. \A p \in Paths : Recorded(kts[p]) \subseteq Recorded(kts'[p]) \cup excused'
    BY <1>17, <2>2
  <2>5. \/ d.tx = cmd[t].tx
        \/ cmd[t].tx \notin Paid \ excused'
        \/ \E p \in Paths : cmd[t].tx \in Recorded(kts'[p])
    BY <1>17, <2>2 DEF Paid
  <2> QED BY <1>17, <2>3, <2>4, <2>5, PaidStays
<1>18. ASSUME NEW t \in Terminals, Truncate(t) PROVE PaidIsRecorded'
  <2> DEFINE c == cmd[t]
  <2>1. /\ c.at = "writing" /\ kts' = [kts EXCEPT ![c.path] = <<>>]
        /\ Moves(t, "opened", c.proof) /\ UNCHANGED <<mempool, chain>>
        /\ excused' = IF c.kind = "stamp" \/ c.read # kts[c.path] \/ c.path \in mixed
                      THEN excused \cup Recorded(kts[c.path]) ELSE excused
    BY <1>18 DEF Truncate
  <2>2. c.path \in Paths /\ (c.kind # "stamp" => NamesRow(Deserialize(c.read)))
    <3>1. c.path \in Paths /\ \/ IsStampByCalendar(c)
                              \/ IsStampDirect(c, sent, chain, stamps) /\ IsFinished(c, chain)
                              \/ IsCompletion(c) /\ IsSaving(c)
      BY <1>0, <2>1, RunningIs
    <3> QED BY <3>1 DEF IsStampByCalendar, IsStampDirect, IsSaving
  <2>3. PICK d : cmd' = [cmd EXCEPT ![t] = d] /\ d.tx = cmd[t].tx
    BY <1>10, <2>1
  <2>4. ASSUME c.kind # "stamp", c.read = kts[c.path], c.path \notin mixed
        PROVE  Recorded(kts[c.path]) = {}
    <3> DEFINE p == Deserialize(kts[c.path])
    <3> HIDE DEF c
    <3>1. ReadsAs(kts[c.path], chain) /\ NamesRow(p)
      BY <2>2, <2>4 DEF CliInv, FilesAreRead
    <3> HIDE DEF p
    <3>2. ASSUME p.attestations = <<>> PROVE FALSE
      <4>1. DOMAIN p.attestations = {}
        BY <3>2
      <4> QED BY <3>1, <4>1 DEF NamesRow, PendingAt
    <3>3. IsMade(p, chain)
      BY <3>1, <3>2 DEF ReadsAs, p
    <3>4. IsPendingRow(p)
      BY <3>1, <3>3, RowAddressIsRows DEF NamesRow
    <3> QED BY <3>4, PendingRecordsNone DEF p
  <2>5. excused \subseteq excused' /\ Recorded(kts[c.path]) \subseteq Recorded(<<>>) \cup excused'
    BY <2>1, <2>4
  <2> QED BY <1>17, <2>1, <2>2, <2>3, <2>5
<1>19. ASSUME NEW t \in Terminals, cmd[t].tx # 0
       PROVE  cmd[t].tx \in Recorded(Serialize(cmd[t].proof))
  BY <1>0, <1>19, TxIsRecorded
<1>20. ASSUME NEW t \in Terminals, Write(t) PROVE PaidIsRecorded'
  <2> DEFINE c == cmd[t]
             written == Serialize(c.proof)
  <2>1. PICK left :
          /\ kts' = [kts EXCEPT ![c.path] = left]
          /\ excused' = excused \cup Recorded(kts[c.path]) \cup
                        (IF left = written THEN {} ELSE Recorded(written))
    BY <1>20 DEF Write
  <2>2. c.at = "opened" /\ cmd' = [cmd EXCEPT ![t] = Idle] /\ UNCHANGED <<mempool, chain>>
    BY <1>20 DEF Write, Becomes
  <2>3. c.path \in Paths
    BY <1>0, <2>2, RunningIs
  <2>4. cmd[t].tx = 0 \/ cmd[t].tx \in Recorded(left) \cup excused'
    BY <1>19, <2>1
  <2>5. excused \subseteq excused' /\ Recorded(kts[c.path]) \subseteq Recorded(left) \cup excused'
    BY <2>1
  <2> QED BY <1>17, <2>1, <2>2, <2>3, <2>4, <2>5
<1>21. ASSUME NEW t \in Terminals, Kill(t) PROVE PaidIsRecorded'
  <2> DEFINE c == cmd[t]
             old == kts[c.path]
             written == Serialize(c.proof)
  <2>1. PICK left \in {old} \cup (IF c.at = "opened" THEN Begun(written, old) ELSE {}) :
          kts' = [kts EXCEPT ![c.path] = left]
    BY <1>21 DEF Kill
  <2>2. /\ c # Idle /\ cmd' = [cmd EXCEPT ![t] = Idle] /\ UNCHANGED <<mempool, chain>>
        /\ excused' = excused \cup Recorded(written) \cup
                      (IF c.at = "opened" THEN Recorded(old) ELSE {})
    BY <1>21 DEF Kill, Becomes
  <2>3. c.path \in Paths
    BY <1>0, <2>2 DEF IsCommand
  <2>4. cmd[t].tx = 0 \/ cmd[t].tx \in Recorded(left) \cup excused'
    BY <1>19, <2>2
  <2>5. excused \subseteq excused' /\ Recorded(old) \subseteq Recorded(left) \cup excused'
    BY <2>1, <2>2
  <2> QED BY <1>17, <2>1, <2>2, <2>3, <2>4, <2>5
<1>22. ASSUME NEW t \in Terminals, RequestFails(t) PROVE PaidIsRecorded'
  <2>1. cmd[t].at = "fetching" /\ UNCHANGED <<kts, mempool, chain, excused>> /\ Becomes(t, Idle)
    BY <1>22 DEF RequestFails
  <2>2. cmd[t].tx = 0
    BY <1>0, <2>1, RunningIs DEF IsCompletion
  <2> QED BY <2>1, <2>2, PaidStaysAlone DEF Becomes
<1> QED
  BY <1>2, <1>3, <1>4, <1>5, <1>7, <1>8, <1>9, <1>12, <1>13, <1>14, <1>15, <1>16, <1>18, <1>20,
     <1>21, <1>22 DEF Next, Step

(* The nonce of every commitment that was paid for is in a file or with    *)
(* the command at work on it, or there is an excuse: PaidIsRecorded of the *)
(* cli run.                                                                *)
THEOREM PaidHolds == Spec => []PaidIsRecorded
<1>1. Init => PaidIsRecorded
  <2> SUFFICES ASSUME Init PROVE PaidIsRecorded
    OBVIOUS
  <2>1. mempool = {} /\ chain = <<{BatchTx}>> /\ DOMAIN chain = {1} /\ chain[1] = {BatchTx}
    BY DEF Init
  <2>2. Sent(mempool, chain) = {BatchTx}
    BY <2>1 DEF Sent
  <2>3. BatchTx.tx = 0
    BY DEF BatchTx, Transaction
  <2>4. Paid = {}
    BY <2>2, <2>3, PaidIsSent, CliAssumption DEF PaidIn, Numbers
  <2> QED BY <2>4 DEF PaidIsRecorded
<1>2. CliInv /\ PaidIsRecorded /\ [Next]_vars => PaidIsRecorded'
  BY NextPaid
<1> QED BY <1>1, <1>2, CliInvHolds, PTL DEF Spec

=============================================================================
