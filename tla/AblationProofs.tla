--------------------------- MODULE AblationProofs ---------------------------
(***************************************************************************)
(* Proofs about AblationCampaign, for any rosters, base tasks, arms and    *)
(* number of repetitions, and whatever the seed shuffled.  The invariant   *)
(* says of the order what the two properties need of it: no unit twice,    *)
(* and the arms of a block side by side.                                   *)
(***************************************************************************)
EXTENDS AblationCampaign, FiniteSetTheorems, SequenceTheorems, FunctionTheorems,
        WellFoundedInduction, TLAPS

SameBlock(u, v) == u.model = v.model /\ u.base = v.base /\ u.rep = v.rep

\* What ablation_run_order promises of an order.
Ordered(o) ==
  /\ o \in Seq(Units)
  /\ \A i, j \in DOMAIN o : o[i] = o[j] => i = j
  /\ \A i \in DOMAIN o, a \in Arms :
       \E j \in DOMAIN o : SameBlock(o[j], o[i]) /\ o[j].arm = a
  /\ \A i, j, k \in DOMAIN o :
       i <= j /\ j <= k /\ SameBlock(o[i], o[k]) => SameBlock(o[i], o[j])

TypeOK ==
  /\ shuffles \in [0 .. Blocks(Cardinality(Models)) - 1 -> SetToSeqs(Arms)]
  /\ Ordered(order)
  /\ shut \in Seq(Models) /\ opened \in SUBSET Models
  /\ artifact \in [Models -> Seq(Units)]
  /\ realized \in Seq(Units)
  /\ process \in {"idle", "opening", "running", "graded", "ended"}
  /\ selected \in SUBSET Arms
  /\ todo \in SUBSET (1 .. Len(order))

Distinct(s) == \A i, j \in DOMAIN s : s[i] = s[j] => i = j
UnitsAt(P)  == {order[i] : i \in P}

\* An invocation has gone through its selection of the order from the front,
\* and knows what it has run.
ProgressInv ==
  process # "idle" =>
    /\ todo \subseteq Selected(order, selected)
    /\ \A i \in todo, j \in Selected(order, selected) : i <= j => j \in todo
    /\ Distinct(realized)
    /\ ToSet(realized) = UnitsAt(Selected(order, selected) \ todo)

\* Nothing is run before all the artifacts its order needs have been opened.
RosterInv ==
  process # "idle" =>
    /\ \A i \in DOMAIN order : order[i].model \in opened \cup ToSet(shut)
    /\ \A u \in ToSet(realized) : u.model \in opened
    /\ process = "opening" => shut # <<>> /\ realized = <<>>
    /\ process \in {"running", "graded"} => shut = <<>>

\* The files say the same, a row ahead between the two notes of an attempt.
FilesInv ==
  /\ process \in {"opening", "running", "ended"} =>
       \A m \in opened : IsPartOf(artifact[m], realized, m)
  /\ process = "graded" =>
       /\ todo # {}
       /\ \A m \in opened : IsPartOf(artifact[m], Append(realized, Unit), m)
  /\ process = "ended" => sidecar = realized

IInv == TypeOK /\ ProgressInv /\ RosterInv /\ FilesInv

-----------------------------------------------------------------------------
(* The order.                                                              *)

LEMMA Division ==
  ASSUME NEW x \in Nat, NEW d \in Nat, d >= 1
  PROVE  /\ x \div d \in Nat
         /\ x % d \in 0 .. d - 1 /\ x % d \in Nat
         /\ x = d * (x \div d) + (x % d)
  OBVIOUS

LEMMA DivisionBelow ==
  ASSUME NEW x \in Nat, NEW d \in Nat, d >= 1, NEW c \in Nat, x < c * d
  PROVE  x \div d < c
<1> DEFINE q == x \div d
           r == x % d
<1>1. q \in Nat /\ r \in 0 .. d - 1 /\ x = d * q + r
  BY Division
<1> HIDE DEF q, r
<1>2. ASSUME q >= c PROVE FALSE
  <2>1. PICK e \in Nat : q = c + e
    <3>1. q - c \in Nat /\ q = c + (q - c)
      BY <1>1, <1>2
    <3>2. QED
      BY <3>1
  <2>2. d * q = c * d + d * e
    BY <2>1
  <2>3. d * e \in Nat /\ c * d \in Nat
    BY <2>1
  <2>4. QED
    BY <1>1, <2>2, <2>3
<1>3. q < c
  BY <1>1, <1>2
<1>4. QED
  BY <1>3 DEF q

LEMMA DivisionMonotone ==
  ASSUME NEW x \in Nat, NEW y \in Nat, x <= y, NEW d \in Nat, d >= 1
  PROVE  x \div d <= y \div d
<1> DEFINE q == y \div d
<1>1. q \in Nat /\ y % d \in 0 .. d - 1 /\ y = d * q + (y % d)
  BY Division
<1>2. y < (q + 1) * d
  <2>1. (q + 1) * d = d * q + d
    BY <1>1
  <2>2. QED
    BY <1>1, <2>1
<1>3. x < (q + 1) * d
  <2>1. (q + 1) * d \in Nat
    BY <1>1
  <2>2. QED
    BY <1>2, <2>1
<1>4. x \div d < q + 1
  BY <1>1, <1>3, DivisionBelow
<1>5. x \div d \in Nat
  OBVIOUS
<1>6. QED
  BY <1>1, <1>4, <1>5

\* A listing of a set has all of it, once.
LEMMA Listing ==
  ASSUME NEW S, IsFiniteSet(S), NEW l \in SetToSeqs(S)
  PROVE  /\ l \in [1 .. Cardinality(S) -> S]
         /\ \A i, j \in 1 .. Cardinality(S) : l[i] = l[j] => i = j
         /\ \A a \in S : \E i \in 1 .. Cardinality(S) : l[i] = a
<1> DEFINE D == 1 .. Cardinality(S)
<1>1. l \in [D -> S] /\ \A i, j \in D : i # j => l[i] # l[j]
  BY DEF SetToSeqs
<1>2. Cardinality(S) \in Nat
  BY FS_CardinalityType
<1>3. Cardinality(D) = Cardinality(S)
  BY <1>2, FS_Interval
<1>4. l \in Injection(D, S)
  BY <1>1 DEF Injection, IsInjective
<1>5. l \in Surjection(D, S)
  BY <1>3, <1>4, FS_Injection
<1>6. \A a \in S : \E i \in D : l[i] = a
  BY <1>5 DEF Surjection
<1>7. QED
  BY <1>1, <1>6

\* The numbers an order is made of.
LEMMA Numbers ==
  /\ Cardinality(Arms) \in Nat /\ Cardinality(Arms) >= 1 /\ IsFiniteSet(Arms)
  /\ Cardinality(Bases) \in Nat /\ Cardinality(Bases) >= 1 /\ IsFiniteSet(Bases)
  /\ Cardinality(Models) \in Nat /\ Cardinality(Models) >= 1 /\ IsFiniteSet(Models)
  /\ K \in Nat /\ K >= 1
<1>1. IsFiniteSet(Arms) /\ Arms # {} /\ IsFiniteSet(Bases) /\ Bases # {}
      /\ IsFiniteSet(Models) /\ Models # {} /\ K \in Nat /\ K >= 1
  BY AblationAssumption
<1>2. ASSUME NEW S, IsFiniteSet(S), S # {} PROVE Cardinality(S) \in Nat /\ Cardinality(S) >= 1
  <2>1. Cardinality(S) \in Nat
    BY <1>2, FS_CardinalityType
  <2>2. Cardinality(S) # 0
    BY <1>2, FS_EmptySet
  <2>3. QED
    BY <2>1, <2>2
<1>3. QED
  BY <1>1, <1>2

LEMMA BlocksNat ==
  ASSUME NEW M \in Nat, NEW L \in Nat, M <= L
  PROVE  Blocks(M) \in Nat /\ Blocks(L) \in Nat /\ Blocks(M) <= Blocks(L)
<1>1. \A a, b \in Nat : a * b \in Nat
  OBVIOUS
<1>2. Cardinality(Bases) \in Nat /\ K \in Nat
  BY Numbers
<1>3. M * Cardinality(Bases) \in Nat /\ L * Cardinality(Bases) \in Nat
  BY <1>1, <1>2
<1>4. Blocks(M) \in Nat /\ Blocks(L) \in Nat
  BY <1>1, <1>2, <1>3 DEF Blocks
<1>5. PICK e \in Nat : L = M + e
  <2>1. L - M \in Nat /\ L = M + (L - M)
    OBVIOUS
  <2>2. QED
    BY <2>1
<1>6. L * Cardinality(Bases) = M * Cardinality(Bases) + e * Cardinality(Bases)
  BY <1>2, <1>5
<1>7. e * Cardinality(Bases) \in Nat
  BY <1>1, <1>2
<1>8. L * Cardinality(Bases) * K = M * Cardinality(Bases) * K + e * Cardinality(Bases) * K
  BY <1>2, <1>3, <1>6, <1>7
<1>9. e * Cardinality(Bases) * K \in Nat
  BY <1>1, <1>2, <1>7
<1>10. QED
  BY <1>4, <1>8, <1>9 DEF Blocks

\* The places of one block, n.
LEMMA BlockOfPlace ==
  ASSUME NEW M \in Nat, M >= 1, NEW i \in 1 .. Blocks(M) * Cardinality(Arms)
  PROVE  /\ Blocks(M) \in Nat
         /\ BlockOf(i) \in 0 .. Blocks(M) - 1
         /\ ((i - 1) % Cardinality(Arms)) + 1 \in 1 .. Cardinality(Arms)
         /\ i = Cardinality(Arms) * BlockOf(i) + ((i - 1) % Cardinality(Arms)) + 1
<1> DEFINE N == Cardinality(Arms)
           x == i - 1
<1>1. N \in Nat /\ N >= 1
  BY Numbers
<1>2. Blocks(M) \in Nat
  BY BlocksNat
<1> HIDE DEF N
<1>3. i \in 1 .. Blocks(M) * N /\ Blocks(M) * N \in Nat
  BY <1>1, <1>2 DEF N
<1>4. x \in Nat /\ x < Blocks(M) * N
  BY <1>3
<1> HIDE DEF x
<1>5. x \div N \in Nat /\ x % N \in 0 .. N - 1 /\ x = N * (x \div N) + (x % N)
  BY <1>1, <1>4, Division
<1>6. x \div N < Blocks(M)
  BY <1>1, <1>2, <1>4, DivisionBelow
<1>7. i = x + 1
  BY <1>3 DEF x
<1>8. (x % N) + 1 \in 1 .. N
  BY <1>1, <1>5
<1>9. BlockOf(i) = x \div N
  BY DEF BlockOf, x, N
<1>10. BlockOf(i) \in 0 .. Blocks(M) - 1
  BY <1>2, <1>5, <1>6, <1>9
<1>11. i = N * BlockOf(i) + (x % N) + 1
  BY <1>5, <1>7, <1>9
<1>12. QED
  BY <1>2, <1>8, <1>10, <1>11 DEF x, N

\* The coordinates of block n, and that no other has the same.
ModelOf(n) == ((n \div K) \div Cardinality(Bases)) + 1
BaseOf(n)  == ((n \div K) % Cardinality(Bases)) + 1
RepOf(n)   == (n % K) + 1

LEMMA Coordinates ==
  ASSUME NEW M \in Nat, M >= 1, NEW n \in 0 .. Blocks(M) - 1
  PROVE  /\ ModelOf(n) \in 1 .. M
         /\ BaseOf(n) \in 1 .. Cardinality(Bases)
         /\ RepOf(n) \in 1 .. K
<1> DEFINE B == Cardinality(Bases)
           q == n \div K
<1>1. M \in Nat /\ M >= 1 /\ B \in Nat /\ B >= 1 /\ K \in Nat /\ K >= 1
  BY Numbers
<1>2. Blocks(M) = (M * B) * K
  BY DEF Blocks
<1> HIDE DEF B
<1>3. M * B \in Nat
  BY <1>1
<1>4. (M * B) * K \in Nat
  BY <1>1, <1>3
<1>5. n \in Nat /\ n < (M * B) * K
  BY <1>2, <1>4
<1>6. q < M * B
  BY <1>1, <1>3, <1>5, DivisionBelow
<1>7. q \in Nat /\ n % K \in 0 .. K - 1
  BY <1>1, <1>5, Division
<1> HIDE DEF q
<1>8. q \div B < M
  BY <1>1, <1>6, <1>7, DivisionBelow
<1>9. q \div B \in Nat /\ q % B \in 0 .. B - 1
  BY <1>1, <1>7, Division
<1>10. (q \div B) + 1 \in 1 .. M /\ (q % B) + 1 \in 1 .. B /\ (n % K) + 1 \in 1 .. K
  BY <1>1, <1>7, <1>8, <1>9
<1>11. QED
  BY <1>10 DEF ModelOf, BaseOf, RepOf, B, q

LEMMA SameCoordinates ==
  ASSUME NEW M \in Nat, M >= 1,
         NEW n \in 0 .. Blocks(M) - 1, NEW o \in 0 .. Blocks(M) - 1,
         ModelOf(n) = ModelOf(o), BaseOf(n) = BaseOf(o), RepOf(n) = RepOf(o)
  PROVE  n = o
<1> DEFINE B == Cardinality(Bases)
           q == n \div K
           p == o \div K
<1>1. B \in Nat /\ B >= 1 /\ K \in Nat /\ K >= 1 /\ n \in Nat /\ o \in Nat
  BY Numbers, BlocksNat
<1> HIDE DEF B
<1>2. q \in Nat /\ n % K \in Nat /\ n = K * q + (n % K)
  BY <1>1, Division
<1>3. p \in Nat /\ o % K \in Nat /\ o = K * p + (o % K)
  BY <1>1, Division
<1> HIDE DEF q, p
<1>4. q \div B \in Nat /\ q % B \in Nat /\ q = B * (q \div B) + (q % B)
  BY <1>1, <1>2, Division
<1>5. p \div B \in Nat /\ p % B \in Nat /\ p = B * (p \div B) + (p % B)
  BY <1>1, <1>3, Division
<1>6. (q \div B) + 1 = (p \div B) + 1 /\ (q % B) + 1 = (p % B) + 1 /\ (n % K) + 1 = (o % K) + 1
  BY DEF ModelOf, BaseOf, RepOf, q, p, B
<1>7. q \div B = p \div B /\ q % B = p % B /\ n % K = o % K
  BY <1>2, <1>3, <1>4, <1>5, <1>6
<1>8. q = p
  BY <1>4, <1>5, <1>7
<1>9. QED
  BY <1>2, <1>3, <1>7, <1>8

\* Every order the shuffles can make is as promised.
LEMMA OrderIsOrdered ==
  ASSUME shuffles \in [0 .. Blocks(Cardinality(Models)) - 1 -> SetToSeqs(Arms)],
         NEW models \in Rosters, NEW bases \in SetToSeqs(Bases)
  PROVE  /\ Ordered(RunOrder(models, bases))
         /\ \A i \in DOMAIN RunOrder(models, bases) :
              RunOrder(models, bases)[i].model \in ToSet(models)
<1> DEFINE N == Cardinality(Arms)
           M == Len(models)
           at(i) == ((i - 1) % Cardinality(Arms)) + 1
           o == RunOrder(models, bases)
<1>1. o = [i \in 1 .. Blocks(M) * Cardinality(Arms) |-> UnitAt(models, bases, shuffles, i)]
  BY DEF RunOrder
<1>3. /\ M \in Nat /\ M >= 1 /\ M <= Cardinality(Models)
      /\ models \in [1 .. M -> Models] /\ DOMAIN models = 1 .. M
      /\ \A i, j \in 1 .. M : models[i] = models[j] => i = j
  <2>1. PICK R \in (SUBSET Models) \ {{}} : models \in SetToSeqs(R)
    BY DEF Rosters
  <2>2. IsFiniteSet(R) /\ Cardinality(R) <= Cardinality(Models)
    BY Numbers, FS_Subset
  <2>3. Cardinality(R) \in Nat /\ Cardinality(R) # 0
    <3>1. R # {}
      OBVIOUS
    <3>2. Cardinality(R) \in Nat
      BY <2>2, FS_CardinalityType
    <3>3. Cardinality(R) # 0
      BY <2>2, <3>1, FS_EmptySet
    <3>4. QED
      BY <3>2, <3>3
  <2>4. /\ models \in [1 .. Cardinality(R) -> R]
        /\ \A i, j \in 1 .. Cardinality(R) : models[i] = models[j] => i = j
    BY <2>1, <2>2, Listing
  <2>5. M = Cardinality(R)
    BY <2>3, <2>4
  <2> HIDE DEF M
  <2>6. QED
    BY <2>2, <2>3, <2>4, <2>5
<1> HIDE DEF M, o
<1>2. /\ N \in Nat /\ N >= 1 /\ Blocks(M) * N \in Nat /\ Blocks(M) \in Nat
      /\ Blocks(M) <= Blocks(Cardinality(Models)) /\ Blocks(Cardinality(Models)) \in Nat
  <2>1. /\ Blocks(M) \in Nat /\ Blocks(M) <= Blocks(Cardinality(Models))
        /\ Blocks(Cardinality(Models)) \in Nat
    BY <1>3, Numbers, BlocksNat
  <2>2. QED
    BY <2>1, Numbers
<1>4. /\ bases \in [1 .. Cardinality(Bases) -> Bases]
      /\ \A i, j \in 1 .. Cardinality(Bases) : bases[i] = bases[j] => i = j
  BY Numbers, Listing
<1>5. ASSUME NEW n \in 0 .. Blocks(M) - 1
      PROVE  /\ shuffles[n] \in [1 .. N -> Arms]
             /\ \A i, j \in 1 .. N : shuffles[n][i] = shuffles[n][j] => i = j
             /\ \A a \in Arms : \E i \in 1 .. N : shuffles[n][i] = a
  <2>1. shuffles[n] \in SetToSeqs(Arms)
    BY <1>2
  <2>2. QED
    BY <2>1, Numbers, Listing
<1>6. DOMAIN o = 1 .. Blocks(M) * N
  BY <1>1
<1>7. ASSUME NEW i \in DOMAIN o
      PROVE  /\ BlockOf(i) \in 0 .. Blocks(M) - 1 /\ at(i) \in 1 .. N
             /\ i = N * BlockOf(i) + at(i)
             /\ i \in Nat /\ i >= 1
             /\ o[i] = [model |-> models[ModelOf(BlockOf(i))], base |-> bases[BaseOf(BlockOf(i))],
                       arm |-> shuffles[BlockOf(i)][at(i)], rep |-> RepOf(BlockOf(i))]
  <2>1. i \in 1 .. Blocks(M) * Cardinality(Arms)
    BY <1>6
  <2>2. /\ Blocks(M) \in Nat /\ BlockOf(i) \in 0 .. Blocks(M) - 1 /\ at(i) \in 1 .. N
        /\ i = N * BlockOf(i) + ((i - 1) % Cardinality(Arms)) + 1
    BY <1>3, <2>1, BlockOfPlace
  <2>3. i = N * BlockOf(i) + at(i)
    <3>1. (i - 1) % Cardinality(Arms) \in Int
      BY <1>2, <2>1
    <3>2. N * BlockOf(i) \in Int
      BY <1>2, <2>2
    <3>3. QED
      BY <2>2, <3>1, <3>2
  <2>4. o[i] = UnitAt(models, bases, shuffles, i)
    BY <1>1, <2>1
  <2>5. QED
    BY <1>2, <2>1, <2>2, <2>3, <2>4 DEF UnitAt, ModelOf, BaseOf, RepOf
<1> HIDE DEF N, at
<1>8. ASSUME NEW i \in DOMAIN o PROVE o[i] \in Units
  <2>1. BlockOf(i) \in 0 .. Blocks(M) - 1 /\ at(i) \in 1 .. N
    BY <1>7
  <2>2. /\ ModelOf(BlockOf(i)) \in 1 .. M
        /\ BaseOf(BlockOf(i)) \in 1 .. Cardinality(Bases)
        /\ RepOf(BlockOf(i)) \in 1 .. K
    BY <1>3, <2>1, Coordinates
  <2>3. shuffles[BlockOf(i)][at(i)] \in Arms
    BY <1>5, <2>1
  <2>4. models[ModelOf(BlockOf(i))] \in Models /\ bases[BaseOf(BlockOf(i))] \in Bases
    BY <1>3, <1>4, <2>2
  <2>5. QED
    BY <1>7, <2>2, <2>3, <2>4 DEF Units
<1>9. o \in Seq(Units)
  <2>1. o \in [1 .. Blocks(M) * N -> Units]
    BY <1>1, <1>6, <1>8
  <2>2. QED
    BY <1>2, <2>1
<1>10. ASSUME NEW i \in DOMAIN o, NEW j \in DOMAIN o, SameBlock(o[i], o[j])
       PROVE  BlockOf(i) = BlockOf(j)
  <2>1. BlockOf(i) \in 0 .. Blocks(M) - 1 /\ BlockOf(j) \in 0 .. Blocks(M) - 1
    BY <1>7
  <2>2. /\ models[ModelOf(BlockOf(i))] = models[ModelOf(BlockOf(j))]
        /\ bases[BaseOf(BlockOf(i))] = bases[BaseOf(BlockOf(j))]
        /\ RepOf(BlockOf(i)) = RepOf(BlockOf(j))
    BY <1>7, <1>10 DEF SameBlock
  <2>3. /\ ModelOf(BlockOf(i)) = ModelOf(BlockOf(j))
        /\ BaseOf(BlockOf(i)) = BaseOf(BlockOf(j))
    BY <1>3, <1>4, <2>1, <2>2, Coordinates
  <2>4. QED
    BY <2>1, <2>2, <1>3, <2>3, SameCoordinates
<1>11. ASSUME NEW i \in DOMAIN o, NEW j \in DOMAIN o, BlockOf(i) = BlockOf(j)
       PROVE  SameBlock(o[i], o[j])
  BY <1>7, <1>11 DEF SameBlock
<1>12. ASSUME NEW i \in DOMAIN o, NEW j \in DOMAIN o, o[i] = o[j] PROVE i = j
  <2>1. BlockOf(i) = BlockOf(j)
    BY <1>10, <1>12 DEF SameBlock
  <2>2. BlockOf(i) \in 0 .. Blocks(M) - 1 /\ at(i) \in 1 .. N /\ at(j) \in 1 .. N
    BY <1>7
  <2>3. shuffles[BlockOf(i)][at(i)] = shuffles[BlockOf(i)][at(j)]
    BY <1>7, <1>12, <2>1
  <2>4. at(i) = at(j)
    BY <1>5, <2>2, <2>3
  <2>5. i = N * BlockOf(i) + at(i) /\ j = N * BlockOf(j) + at(j)
    BY <1>7
  <2>6. QED
    BY <2>1, <2>4, <2>5
<1>13. ASSUME NEW i \in DOMAIN o, NEW a \in Arms
       PROVE  \E j \in DOMAIN o : SameBlock(o[j], o[i]) /\ o[j].arm = a
  <2> DEFINE n == BlockOf(i)
  <2>1. n \in 0 .. Blocks(M) - 1
    BY <1>7
  <2>2. PICK x \in 1 .. N : shuffles[n][x] = a
    BY <1>5, <2>1
  <2> DEFINE j == N * n + x
  <2> HIDE DEF n
  <2>3. N * n \in Nat /\ n \in Nat /\ Blocks(M) \in Nat
    BY <1>2, <2>1
  <2>4. N * n + N <= Blocks(M) * N
    <3>1. PICK e \in Nat : Blocks(M) = n + 1 + e
      <4>1. Blocks(M) - n - 1 \in Nat /\ Blocks(M) = n + 1 + (Blocks(M) - n - 1)
        BY <2>1, <2>3
      <4>2. QED
        BY <4>1
    <3>2. Blocks(M) * N = N * n + N + N * e
      BY <1>2, <2>3, <3>1
    <3>3. N * e \in Nat
      BY <1>2, <3>1
    <3>4. QED
      BY <1>2, <2>3, <3>2, <3>3
  <2>5. j \in DOMAIN o
    BY <1>2, <1>6, <2>2, <2>3, <2>4
  <2>6. j - 1 \in Nat /\ j - 1 = N * n + (x - 1) /\ x - 1 \in 0 .. N - 1
    BY <1>2, <2>2, <2>3
  <2>7. (j - 1) \div N = n /\ (j - 1) % N = x - 1
    <3>1. \A y \in Nat, r \in 0 .. N - 1 : y = N * n + r => y \div N = n /\ y % N = r
      <4>1. ASSUME NEW y \in Nat, NEW r \in 0 .. N - 1, y = N * n + r
            PROVE  y \div N = n /\ y % N = r
        <5>1. y \div N \in Nat /\ y % N \in 0 .. N - 1 /\ y = N * (y \div N) + (y % N)
          BY <1>2, Division
        <5>2. y \div N < n + 1
          <6>1. (n + 1) * N = N * n + N
            BY <1>2, <2>3
          <6>2. y < (n + 1) * N
            BY <1>2, <2>3, <4>1, <6>1
          <6>3. n + 1 \in Nat
            BY <2>3
          <6>4. QED
            BY <1>2, <6>2, <6>3, DivisionBelow
        <5>3. n < (y \div N) + 1
          <6>1. ASSUME NEW z \in Nat, n >= z + 1 PROVE N * n >= N * z + N
            <7>1. PICK e \in Nat : n = z + 1 + e
              <8>1. n - z - 1 \in Nat /\ n = z + 1 + (n - z - 1)
                BY <2>3, <6>1
              <8>2. QED
                BY <8>1
            <7>2. N * n = N * z + N + N * e
              BY <1>2, <7>1
            <7>3. N * e \in Nat /\ N * z \in Nat
              BY <1>2, <7>1
            <7>4. QED
              BY <1>2, <7>2, <7>3
          <6>2. N * (y \div N) \in Nat
            BY <1>2, <5>1
          <6>3. ~(n >= (y \div N) + 1)
            BY <1>2, <2>3, <4>1, <5>1, <6>1, <6>2
          <6>4. QED
            BY <2>3, <5>1, <6>3
        <5>4. y \div N = n
          BY <2>3, <5>1, <5>2, <5>3
        <5>5. QED
          BY <1>2, <2>3, <4>1, <5>1, <5>4
      <4>2. QED
        BY <4>1
    <3>2. QED
      BY <2>6, <3>1
  <2>8. BlockOf(j) = n /\ at(j) = x
    <3>1. x - 1 + 1 = x
      BY <1>2, <2>2
    <3>2. QED
      BY <2>7, <3>1 DEF BlockOf, at, N
  <2> HIDE DEF j
  <2>9. o[j].arm = a
    BY <1>7, <2>2, <2>5, <2>8
  <2>10. SameBlock(o[j], o[i])
    BY <1>11, <2>5, <2>8 DEF n
  <2>11. QED
    BY <2>5, <2>9, <2>10
<1>14. ASSUME NEW i \in DOMAIN o, NEW j \in DOMAIN o, i <= j PROVE BlockOf(i) <= BlockOf(j)
  <2>1. i - 1 \in Nat /\ j - 1 \in Nat /\ i - 1 <= j - 1
    BY <1>7, <1>14
  <2>2. QED
    BY <2>1, Numbers, DivisionMonotone DEF BlockOf
<1>15. ASSUME NEW i \in DOMAIN o, NEW j \in DOMAIN o, NEW k \in DOMAIN o,
              i <= j, j <= k, SameBlock(o[i], o[k])
       PROVE  SameBlock(o[i], o[j])
  <2>1. BlockOf(i) <= BlockOf(j) /\ BlockOf(j) <= BlockOf(k) /\ BlockOf(i) = BlockOf(k)
    BY <1>10, <1>14, <1>15
  <2>2. BlockOf(i) \in 0 .. Blocks(M) - 1 /\ BlockOf(j) \in 0 .. Blocks(M) - 1
    BY <1>7
  <2>3. BlockOf(i) = BlockOf(j)
    BY <2>1, <2>2
  <2>4. QED
    BY <1>11, <2>3
<1>16. ASSUME NEW i \in DOMAIN o PROVE o[i].model \in ToSet(models)
  <2>1. ModelOf(BlockOf(i)) \in DOMAIN models
    BY <1>3, <1>7, Coordinates
  <2>2. QED
    BY <1>7, <2>1 DEF ToSet
<1>17. QED
  BY <1>9, <1>12, <1>13, <1>15, <1>16 DEF Ordered, o

-----------------------------------------------------------------------------
(* The rows of a model and the list of units.                              *)

Places(s, m) == {i \in DOMAIN s : s[i].model = m}
Rank(P, i)   == Cardinality({j \in P : j <= i})

LEMMA PartOf ==
  ASSUME NEW r, NEW s, NEW m
  PROVE  IsPartOf(r, s, m) <=>
           /\ Len(r) = Cardinality(Places(s, m))
           /\ \A i \in Places(s, m) : r[Rank(Places(s, m), i)] = s[i]
BY DEF IsPartOf, Places, Rank

LEMMA PlacesFinite ==
  ASSUME NEW s \in Seq(Units), NEW m
  PROVE  /\ IsFiniteSet(Places(s, m)) /\ Cardinality(Places(s, m)) \in Nat
         /\ Places(s, m) \subseteq 1 .. Len(s) /\ Len(s) \in Nat
<1>1. Len(s) \in Nat /\ DOMAIN s = 1 .. Len(s)
  OBVIOUS
<1>2. Places(s, m) \subseteq 1 .. Len(s)
  BY <1>1 DEF Places
<1>3. IsFiniteSet(1 .. Len(s))
  BY <1>1, FS_Interval
<1>4. IsFiniteSet(Places(s, m))
  BY <1>2, <1>3, FS_Subset
<1>5. QED
  BY <1>1, <1>2, <1>4, FS_CardinalityType

LEMMA UpTo ==
  ASSUME NEW n \in Nat
  PROVE  IsFiniteSet(1 .. n) /\ Cardinality(1 .. n) = n
<1>1. n \in Int /\ 1 \in Int /\ (1 > n <=> n = 0)
  OBVIOUS
<1>2. IsFiniteSet(1 .. n) /\ Cardinality(1 .. n) = IF 1 > n THEN 0 ELSE n - 1 + 1
  BY <1>1, FS_Interval
<1>3. QED
  BY <1>1, <1>2

LEMMA RankInRange ==
  ASSUME NEW P, IsFiniteSet(P), P \subseteq Nat, NEW i \in P
  PROVE  Rank(P, i) \in 1 .. Cardinality(P) /\ Cardinality(P) \in Nat
<1> DEFINE Q == {j \in P : j <= i}
<1>1. Q \in SUBSET P /\ i \in Q
  OBVIOUS
<1>2. IsFiniteSet(Q) /\ Cardinality(Q) <= Cardinality(P)
  BY <1>1, FS_Subset
<1>3. Cardinality(Q) \in Nat /\ Cardinality(P) \in Nat
  BY <1>2, FS_CardinalityType
<1>4. Cardinality(Q) # 0
  BY <1>1, <1>2, FS_EmptySet
<1>5. QED
  BY <1>2, <1>3, <1>4 DEF Rank

\* A unit that is put down in both, or in a list other models share.
LEMMA PartGrows ==
  ASSUME NEW m, NEW r \in Seq(Units), NEW s \in Seq(Units), NEW u \in Units,
         IsPartOf(r, s, m)
  PROVE  /\ u.model = m => IsPartOf(Append(r, u), Append(s, u), m)
         /\ u.model # m => IsPartOf(r, Append(s, u), m)
<1> DEFINE t == Append(s, u)
           n == Len(s) + 1
           P == Places(s, m)
           Q == Places(t, m)
<1>1. /\ IsFiniteSet(P) /\ Cardinality(P) \in Nat /\ P \subseteq 1 .. Len(s) /\ Len(s) \in Nat
  BY PlacesFinite
<1>2. /\ DOMAIN t = 1 .. n /\ t[n] = u /\ \A i \in 1 .. Len(s) : t[i] = s[i]
      /\ DOMAIN s = 1 .. Len(s)
  OBVIOUS
<1>3. Len(r) = Cardinality(P) /\ \A i \in P : r[Rank(P, i)] = s[i]
  BY PartOf
<1>4. n \notin P
  BY <1>1
<1>5. CASE u.model = m
  <2>1. Q = P \cup {n}
    BY <1>1, <1>2, <1>5 DEF Places
  <2>2. Cardinality(Q) = Cardinality(P) + 1
    BY <1>1, <1>4, <2>1, FS_AddElement
  <2> HIDE DEF t, P, Q
  <2>3. Len(Append(r, u)) = Cardinality(Q)
    BY <1>3, <2>2
  <2>4. ASSUME NEW i \in Q PROVE Append(r, u)[Rank(Q, i)] = t[i]
    <3>1. CASE i \in P
      <4>1. i \in 1 .. Len(s)
        BY <1>1, <3>1
      <4>2. {j \in Q : j <= i} = {j \in P : j <= i}
        BY <1>1, <2>1, <4>1
      <4>3. Rank(Q, i) = Rank(P, i)
        BY <4>2 DEF Rank
      <4>4. P \subseteq Nat
        BY <1>1
      <4>5. Rank(P, i) \in 1 .. Len(r)
        BY <1>1, <1>3, <3>1, <4>4, RankInRange
      <4>6. Append(r, u)[Rank(P, i)] = r[Rank(P, i)]
        BY <4>5
      <4>7. QED
        BY <1>2, <1>3, <3>1, <4>1, <4>3, <4>6
    <3>2. CASE i = n
      <4>a. \A j \in P : j <= n
        BY <1>1
      <4>b. \A j \in Q : j <= i
        BY <1>1, <2>1, <3>2, <4>a
      <4>1. {j \in Q : j <= i} = Q
        BY <4>b
      <4>2. Rank(Q, i) = Len(r) + 1
        BY <1>3, <2>2, <4>1 DEF Rank
      <4>3. QED
        BY <1>2, <3>2, <4>2
    <3>3. QED
      BY <2>1, <3>1, <3>2
  <2>5. IsPartOf(Append(r, u), t, m)
    BY <2>3, <2>4, PartOf DEF Q
  <2>6. QED
    BY <1>5, <2>5 DEF t
<1>6. CASE u.model # m
  <2>1. Q = P
    BY <1>1, <1>2, <1>6 DEF Places
  <2>2. \A i \in Q : t[i] = s[i]
    BY <1>1, <1>2, <2>1
  <2> HIDE DEF t, P
  <2>3. IsPartOf(r, t, m)
    BY <1>3, <2>1, <2>2, PartOf
  <2>4. QED
    BY <1>6, <2>3 DEF t
<1>7. QED
  BY <1>5, <1>6

LEMMA NothingYet ==
  ASSUME NEW m
  PROVE  IsPartOf(<<>>, <<>>, m)
<1>1. Places(<<>>, m) = {}
  BY DEF Places
<1>2. Cardinality(Places(<<>>, m)) = 0
  BY <1>1, FS_EmptySet
<1>3. Len(<<>>) = 0
  OBVIOUS
<1>4. QED
  BY <1>1, <1>2, <1>3, PartOf

\* The rows of a model are the units of the list that are its, and as many.
LEMMA PartIsWhole ==
  ASSUME NEW m, NEW r \in Seq(Units), NEW s \in Seq(Units), Distinct(s), IsPartOf(r, s, m)
  PROVE  /\ ToSet(r) = {u \in ToSet(s) : u.model = m}
         /\ Cardinality(ToSet(r)) = Len(r)
<1> DEFINE P == Places(s, m)
           S == {u \in ToSet(s) : u.model = m}
           R == ToSet(r)
           f == [i \in P |-> s[i]]
           g == [k \in 1 .. Len(r) |-> r[k]]
<1>1. /\ IsFiniteSet(P) /\ Cardinality(P) \in Nat /\ P \subseteq 1 .. Len(s) /\ Len(s) \in Nat
  BY PlacesFinite
<1>2. Len(r) = Cardinality(P) /\ \A i \in P : r[Rank(P, i)] = s[i]
  BY PartOf
<1>3. DOMAIN s = 1 .. Len(s) /\ DOMAIN r = 1 .. Len(r) /\ Len(r) \in Nat
  OBVIOUS
<1>4. S = {s[i] : i \in P}
  BY DEF ToSet, Places
<1>5. R = {r[k] : k \in 1 .. Len(r)}
  BY <1>3 DEF ToSet
<1>6. \A i, j \in P : s[i] = s[j] => i = j
  BY <1>1, <1>3 DEF Distinct
<1> HIDE DEF P, S, R
<1>7. S \subseteq R
  <2>1. ASSUME NEW i \in P PROVE s[i] \in R
    <3>1. P \subseteq Nat
      BY <1>1
    <3>2. Rank(P, i) \in 1 .. Len(r)
      BY <1>1, <1>2, <3>1, RankInRange
    <3>3. QED
      BY <1>2, <1>5, <3>2
  <2>2. QED
    BY <1>4, <2>1
<1>8. g \in Surjection(1 .. Len(r), R)
  BY <1>5 DEF Surjection
<1>9. IsFiniteSet(1 .. Len(r)) /\ Cardinality(1 .. Len(r)) = Len(r)
  BY <1>3, UpTo
<1> HIDE DEF g
<1>10. IsFiniteSet(R) /\ Cardinality(R) <= Len(r)
  BY <1>8, <1>9, FS_Surjection
<1>11. f \in Surjection(P, S) /\ f \in Injection(P, S)
  BY <1>4, <1>6 DEF Surjection, Injection, IsInjective
<1> HIDE DEF f
<1>12. IsFiniteSet(S) /\ Cardinality(S) = Cardinality(P)
  BY <1>1, <1>11, FS_Surjection
<1>13. Cardinality(S) <= Cardinality(R) /\ (Cardinality(R) = Cardinality(S) => R = S)
  BY <1>7, <1>10, FS_Subset
<1>14. Cardinality(R) \in Nat
  BY <1>10, FS_CardinalityType
<1>15. Cardinality(R) = Cardinality(S)
  BY <1>1, <1>2, <1>3, <1>10, <1>12, <1>13, <1>14
<1>16. QED
  BY <1>2, <1>12, <1>13, <1>15 DEF R, S

-----------------------------------------------------------------------------
(* The drift.                                                              *)

\* Of the places that are selected, D, those that have been run, come first.
\* Then at most one unit of an arm is run before its fellow of another.
LEMMA Drift ==
  ASSUME Ordered(order), NEW D \in SUBSET Selected(order, selected),
         \A i \in D, j \in Selected(order, selected) : j <= i => j \in D,
         NEW m \in Models, NEW b \in Bases, NEW a1 \in selected, NEW a2 \in selected,
         selected \subseteq Arms
  PROVE  Cardinality({u \in UnitsAt(D) : u.model = m /\ u.base = b /\ u.arm = a1}) <=
         Cardinality({u \in UnitsAt(D) : u.model = m /\ u.base = b /\ u.arm = a2}) + 1
<1> DEFINE Of(a) == {u \in UnitsAt(D) : u.model = m /\ u.base = b /\ u.arm = a}
           moved(u) == [u EXCEPT !.arm = a2]
           ahead == {u \in Of(a1) : moved(u) \notin Of(a2)}
<1>1. order \in Seq(Units) /\ DOMAIN order = 1 .. Len(order) /\ Len(order) \in Nat
  BY DEF Ordered
<1>2. D \subseteq 1 .. Len(order)
  BY <1>1 DEF Selected
<1>3. \A i \in D : order[i] \in Units
  BY <1>1, <1>2
<1>4. IsFiniteSet(UnitsAt(D))
  <2>1. IsFiniteSet(1 .. Len(order))
    BY <1>1, FS_Interval
  <2>2. IsFiniteSet(D)
    BY <1>2, <2>1, FS_Subset
  <2> DEFINE f == [i \in D |-> order[i]]
  <2>3. f \in Surjection(D, UnitsAt(D))
    BY DEF Surjection, UnitsAt
  <2>4. QED
    BY <2>2, <2>3, FS_Surjection
<1>5. ASSUME NEW a PROVE IsFiniteSet(Of(a)) /\ Cardinality(Of(a)) \in Nat
  <2>1. Of(a) \in SUBSET UnitsAt(D)
    OBVIOUS
  <2>2. QED
    BY <1>4, <2>1, FS_Subset, FS_CardinalityType
<1>6. \A u \in Of(a1) : u \in Units /\ \E i \in D : u = order[i]
  BY <1>3 DEF UnitsAt
<1>7. \A u \in Units : /\ moved(u) \in [model : Models, base : Bases, arm : Arms, rep : 1 .. K]
                       /\ moved(u).arm = a2 /\ SameBlock(moved(u), u)
  BY DEF Units, SameBlock
<1>8. \A u, v \in Of(a1) : SameBlock(u, v) => u = v
  <2>1. ASSUME NEW u \in Of(a1), NEW v \in Of(a1), SameBlock(u, v) PROVE u = v
    <3>1. u \in Units /\ v \in Units /\ u.arm = a1 /\ v.arm = a1
      BY <1>6
    <3>2. QED
      BY <2>1, <3>1 DEF Units, SameBlock
  <2>2. QED
    BY <2>1
\* Where the fellow of a unit that is ahead stands.
<1>9. ASSUME NEW u \in ahead
      PROVE  \E i \in D, j \in Selected(order, selected) :
               /\ u = order[i] /\ j \notin D /\ i <= j
               /\ i \in DOMAIN order /\ j \in DOMAIN order /\ SameBlock(order[i], order[j])
  <2>1. u \in Of(a1) /\ u \in Units /\ moved(u) \notin Of(a2)
    BY <1>6
  <2>2. PICK i \in D : u = order[i]
    BY <1>6, <2>1
  <2>3. i \in DOMAIN order /\ a2 \in Arms
    BY <1>1, <1>2
  <2>4. PICK j \in DOMAIN order : SameBlock(order[j], order[i]) /\ order[j].arm = a2
    BY <2>3 DEF Ordered
  <2>5. j \in Selected(order, selected)
    BY <2>4 DEF Selected
  <2>6. order[j] \in Units
    BY <1>1
  <2>7. order[j] = moved(u)
    BY <1>7, <2>1, <2>2, <2>4, <2>6 DEF SameBlock, Units
  <2>8. moved(u).model = m /\ moved(u).base = b
    BY <1>7, <2>1 DEF SameBlock
  <2>9. order[j] \notin UnitsAt(D)
    BY <1>7, <2>1, <2>7, <2>8
  <2>10. j \notin D
    BY <2>9 DEF UnitsAt
  <2>11. i <= j
    <3>1. ~(j <= i)
      BY <2>5, <2>10
    <3>2. QED
      BY <1>1, <2>3, <2>4, <3>1
  <2>12. SameBlock(order[i], order[j])
    BY <2>4 DEF SameBlock
  <2>13. QED
    BY <2>2, <2>3, <2>4, <2>5, <2>10, <2>11, <2>12
<1> HIDE DEF ahead
<1>10. ASSUME NEW u \in ahead, NEW v \in ahead PROVE u = v
  <2>1. PICK i \in D, j \in Selected(order, selected) :
          /\ u = order[i] /\ j \notin D /\ i <= j
          /\ i \in DOMAIN order /\ j \in DOMAIN order /\ SameBlock(order[i], order[j])
    BY <1>9
  <2>2. PICK k \in D, l \in Selected(order, selected) :
          /\ v = order[k] /\ l \notin D /\ k <= l
          /\ k \in DOMAIN order /\ l \in DOMAIN order /\ SameBlock(order[k], order[l])
    BY <1>9
  <2>3. u \in Of(a1) /\ v \in Of(a1)
    BY DEF ahead
  <2>4. k <= j /\ i <= l
    <3>1. ~(j <= k) /\ ~(l <= i)
      BY <2>1, <2>2
    <3>2. QED
      BY <1>1, <2>1, <2>2, <3>1
  <2>5. CASE i <= k
    <3>1. SameBlock(order[i], order[k])
      BY <2>1, <2>2, <2>4, <2>5 DEF Ordered
    <3>2. QED
      BY <1>8, <2>1, <2>2, <2>3, <3>1
  <2>6. CASE k <= i
    <3>1. SameBlock(order[k], order[i])
      BY <2>1, <2>2, <2>4, <2>6 DEF Ordered
    <3>2. QED
      BY <1>8, <2>1, <2>2, <2>3, <3>1
  <2>7. QED
    BY <1>1, <2>1, <2>2, <2>5, <2>6
\* The others of the arm have theirs.
<1>11. ASSUME NEW S \in SUBSET Of(a1), \A u \in S : moved(u) \in Of(a2)
       PROVE  Cardinality(S) <= Cardinality(Of(a2))
  <2> DEFINE f == [u \in S |-> moved(u)]
  <2>1. \A u, v \in S : moved(u) = moved(v) => u = v
    <3>1. ASSUME NEW u \in S, NEW v \in S, moved(u) = moved(v) PROVE u = v
      <4>1. u \in Units /\ v \in Units /\ u \in Of(a1) /\ v \in Of(a1)
        BY <1>6
      <4>2. SameBlock(moved(u), u) /\ SameBlock(moved(v), v)
        BY <1>7, <4>1
      <4>3. SameBlock(u, v)
        BY <3>1, <4>2 DEF SameBlock
      <4>4. QED
        BY <1>8, <4>1, <4>3
    <3>2. QED
      BY <3>1
  <2>2. f \in Injection(S, Of(a2))
    BY <1>11, <2>1 DEF Injection, IsInjective
  <2>3. IsFiniteSet(Of(a2))
    BY <1>5
  <2>4. QED
    BY <2>2, <2>3, FS_Injection
<1>12. IsFiniteSet(Of(a1)) /\ Cardinality(Of(a1)) \in Nat /\ Cardinality(Of(a2)) \in Nat
  BY <1>5
<1>13. CASE ahead = {}
  <2>1. \A u \in Of(a1) : moved(u) \in Of(a2)
    BY <1>13 DEF ahead
  <2>2. Cardinality(Of(a1)) <= Cardinality(Of(a2))
    BY <1>11, <2>1
  <2>3. QED
    BY <1>12, <2>2
<1>14. CASE ahead # {}
  <2>1. PICK w \in ahead : TRUE
    BY <1>14
  <2>2. w \in Of(a1)
    BY DEF ahead
  <2>3. \A u \in Of(a1) \ {w} : moved(u) \in Of(a2)
    BY <1>10, <2>1 DEF ahead
  <2>4. Cardinality(Of(a1) \ {w}) <= Cardinality(Of(a2))
    BY <1>11, <2>3
  <2>5. Cardinality(Of(a1) \ {w}) = Cardinality(Of(a1)) - 1
    BY <1>12, <2>2, FS_RemoveElement
  <2>6. QED
    BY <1>12, <2>4, <2>5
<1>15. QED
  BY <1>13, <1>14

-----------------------------------------------------------------------------
(* The steps.                                                              *)

LEMMA FirstIsLeast ==
  ASSUME TypeOK, todo # {}
  PROVE  /\ First \in todo /\ \A j \in todo : First <= j
         /\ First \in DOMAIN order /\ Unit \in Units
<1>1. todo \subseteq 1 .. Len(order) /\ order \in Seq(Units)
  BY DEF TypeOK, Ordered
<1>2. todo \in SUBSET Nat
  BY <1>1
<1> DEFINE R == OpToRel(<, Nat)
<1>3. IsWellFoundedOn(R, Nat)
  BY NatLessThanWellFounded
<1>a. \A x, y \in Nat : <<x, y>> \in R <=> x < y
  BY DEF OpToRel
<1> HIDE DEF R
<1>4. \E x \in todo : \A y \in todo : ~(<<y, x>> \in R)
  BY <1>2, <1>3, WFMin
<1>5. \E x \in todo : \A y \in todo : x <= y
  <2>1. PICK x \in todo : \A y \in todo : ~(<<y, x>> \in R)
    BY <1>4
  <2>2. \A y \in todo : ~(y < x)
    BY <1>2, <1>a, <2>1
  <2>3. QED
    BY <1>2, <2>2
<1>6. First \in todo /\ \A j \in todo : First <= j
  BY <1>5 DEF First
<1>7. QED
  BY <1>1, <1>6 DEF Unit

LEMMA SelectedStays ==
  ASSUME UNCHANGED <<order, selected>>
  PROVE  Selected(order, selected)' = Selected(order, selected)
BY DEF Selected

LEMMA InitStep == Init => IInv
<1> SUFFICES ASSUME Init PROVE IInv
  OBVIOUS
<1>1. /\ shuffles \in [0 .. Blocks(Cardinality(Models)) - 1 -> SetToSeqs(Arms)]
      /\ order = <<>> /\ shut = <<>> /\ opened = {}
      /\ todo = {} /\ realized = <<>> /\ artifact = [m \in Models |-> <<>>]
      /\ process = "idle" /\ selected = {}
  BY DEF Init
<1>2. Ordered(order)
  <2>1. order \in Seq(Units) /\ DOMAIN order = {}
    BY <1>1
  <2>2. QED
    BY <2>1 DEF Ordered
<1>3. TypeOK
  BY <1>1, <1>2 DEF TypeOK
<1>4. ProgressInv /\ RosterInv /\ FilesInv
  BY <1>1 DEF ProgressInv, RosterInv, FilesInv
<1>5. QED
  BY <1>3, <1>4 DEF IInv

LEMMA StartStep ==
  ASSUME IInv, Start
  PROVE  IInv'
<1>1. PICK roster \in Rosters, bases \in SetToSeqs(Bases), arms \in (SUBSET Arms) \ {{}} :
        /\ order' = RunOrder(roster, bases) /\ selected' = arms
        /\ todo' = Selected(order', arms) /\ shut' = roster
  BY DEF Start
<1>2. /\ opened' = {} /\ realized' = <<>> /\ process' = "opening"
      /\ UNCHANGED <<shuffles, artifact>>
  BY DEF Start
<1>3. TypeOK
  BY DEF IInv
<1>4. shuffles \in [0 .. Blocks(Cardinality(Models)) - 1 -> SetToSeqs(Arms)]
  BY <1>3 DEF TypeOK
<1>5. /\ Ordered(order') /\ \A i \in DOMAIN order' : order'[i].model \in ToSet(shut')
  BY <1>1, <1>4, OrderIsOrdered
<1>6. order' \in Seq(Units) /\ DOMAIN order' = 1 .. Len(order')
  BY <1>5 DEF Ordered
<1>7. shut' \in Seq(Models) /\ shut' # <<>>
  <2>1. PICK R \in (SUBSET Models) \ {{}} : roster \in SetToSeqs(R)
    BY DEF Rosters
  <2>2. IsFiniteSet(R)
    BY Numbers, FS_Subset
  <2>3. Cardinality(R) \in Nat /\ Cardinality(R) # 0
    <3>1. R # {}
      OBVIOUS
    <3>2. Cardinality(R) \in Nat
      BY <2>2, FS_CardinalityType
    <3>3. Cardinality(R) # 0
      BY <2>2, <3>1, FS_EmptySet
    <3>4. QED
      BY <3>2, <3>3
  <2>4. roster \in [1 .. Cardinality(R) -> R]
    BY <2>1, <2>2, Listing
  <2>5. roster \in Seq(R) /\ Len(roster) # 0
    BY <2>3, <2>4
  <2>6. QED
    BY <1>1, <2>5
<1>8. Selected(order, selected)' = todo'
  BY <1>1 DEF Selected
<1>9. TypeOK'
  <2>1. selected' \in SUBSET Arms /\ todo' \in SUBSET (1 .. Len(order'))
    BY <1>1, <1>6 DEF Selected
  <2>2. realized' \in Seq(Units) /\ opened' \in SUBSET Models
    BY <1>2
  <2>3. QED
    BY <1>2, <1>3, <1>5, <1>7, <2>1, <2>2 DEF TypeOK
<1>10. ToSet(realized') = {}
  BY <1>2 DEF ToSet
<1>11. ProgressInv'
  <2>1. UnitsAt(Selected(order, selected) \ todo)' = {}
    BY <1>8 DEF UnitsAt
  <2>2. Distinct(realized')
    BY <1>2 DEF Distinct
  <2>3. QED
    BY <1>8, <1>10, <2>1, <2>2 DEF ProgressInv
<1>12. RosterInv'
  BY <1>2, <1>5, <1>7, <1>10 DEF RosterInv
<1>13. FilesInv'
  BY <1>2 DEF FilesInv
<1>14. QED
  BY <1>9, <1>11, <1>12, <1>13 DEF IInv

LEMMA OpenStep ==
  ASSUME IInv, Open
  PROVE  IInv'
<1>1. TypeOK /\ ProgressInv /\ RosterInv /\ FilesInv
  BY DEF IInv
<1>2. /\ process = "opening" /\ artifact' = [artifact EXCEPT ![Head(shut)] = <<>>]
      /\ opened' = opened \cup {Head(shut)} /\ shut' = Tail(shut)
      /\ process' = IF shut' = <<>> THEN "running" ELSE "opening"
      /\ UNCHANGED <<shuffles, order, todo, realized, selected>>
  BY DEF Open
<1>3. /\ shut # <<>> /\ realized = <<>>
      /\ \A i \in DOMAIN order : order[i].model \in opened \cup ToSet(shut)
  BY <1>1, <1>2 DEF RosterInv
<1>4. shut \in Seq(Models) /\ opened \in SUBSET Models /\ artifact \in [Models -> Seq(Units)]
  BY <1>1 DEF TypeOK
<1>5. Head(shut) \in Models /\ Tail(shut) \in Seq(Models)
  BY <1>3, <1>4
<1>6. ToSet(shut) \subseteq {Head(shut)} \cup ToSet(Tail(shut))
  <2>1. ASSUME NEW i \in DOMAIN shut PROVE shut[i] \in {Head(shut)} \cup ToSet(Tail(shut))
    <3>1. i \in 1 .. Len(shut)
      BY <1>4
    <3>2. CASE i = 1
      BY <3>2
    <3>3. CASE i # 1
      <4>1. i - 1 \in 1 .. Len(Tail(shut)) /\ Tail(shut)[i - 1] = shut[i]
        BY <1>3, <1>4, <3>1, <3>3
      <4>2. DOMAIN Tail(shut) = 1 .. Len(Tail(shut))
        BY <1>5
      <4>3. QED
        BY <4>1, <4>2 DEF ToSet
    <3>4. QED
      BY <3>2, <3>3
  <2>2. QED
    BY <2>1 DEF ToSet
<1>7. TypeOK'
  <2>1. artifact' \in [Models -> Seq(Units)]
    <3>1. <<>> \in Seq(Units)
      OBVIOUS
    <3>2. QED
      BY <1>2, <1>4, <1>5, <3>1, Zenon
  <2>2. shut' \in Seq(Models) /\ opened' \in SUBSET Models
    BY <1>2, <1>4, <1>5
  <2>3. QED
    BY <1>1, <1>2, <2>1, <2>2 DEF TypeOK
<1>8. ProgressInv'
  BY <1>1, <1>2, SelectedStays DEF ProgressInv, UnitsAt
<1>9. ToSet(realized') = {}
  BY <1>2, <1>3 DEF ToSet
<1>10. RosterInv'
  <2>1. \A i \in DOMAIN order' : order'[i].model \in opened' \cup ToSet(shut')
    BY <1>2, <1>3, <1>6
  <2>2. QED
    BY <1>2, <1>3, <1>9, <2>1 DEF RosterInv
<1>11. FilesInv'
  <2>1. ASSUME NEW m \in opened' PROVE IsPartOf(artifact'[m], realized', m)
    <3>1. CASE m = Head(shut)
      <4>1. artifact'[m] = <<>> /\ realized' = <<>>
        BY <1>2, <1>3, <1>4, <1>5, <3>1
      <4>2. QED
        BY <4>1, NothingYet
    <3>2. CASE m # Head(shut)
      <4>1. m \in opened /\ artifact'[m] = artifact[m]
        BY <1>2, <1>4, <3>2
      <4>2. IsPartOf(artifact[m], realized, m)
        BY <1>1, <1>2, <4>1 DEF FilesInv
      <4>3. QED
        BY <1>2, <4>1, <4>2
    <3>3. QED
      BY <3>1, <3>2
  <2>2. process' \in {"opening", "running"}
    BY <1>2
  <2>3. QED
    BY <2>1, <2>2 DEF FilesInv, IsPartOf
<1>12. QED
  BY <1>7, <1>8, <1>10, <1>11 DEF IInv

LEMMA AttemptStep ==
  ASSUME IInv, Attempt
  PROVE  IInv'
<1>1. TypeOK /\ ProgressInv /\ RosterInv /\ FilesInv
  BY DEF IInv
<1>2. /\ process = "running" /\ todo # {} /\ process' = "graded"
      /\ artifact' = [artifact EXCEPT ![Unit.model] = Append(@, Unit)]
      /\ UNCHANGED <<shuffles, order, todo, shut, opened, realized, sidecar, selected>>
  BY DEF Attempt
<1>3. Unit \in Units /\ Unit.model \in Models
  BY <1>1, <1>2, FirstIsLeast DEF Units
<1>4. artifact \in [Models -> Seq(Units)] /\ realized \in Seq(Units)
  BY <1>1 DEF TypeOK
<1>5. artifact' \in [Models -> Seq(Units)]
  BY <1>2, <1>3, <1>4
<1>6. TypeOK'
  BY <1>1, <1>2, <1>5 DEF TypeOK
<1>7. ProgressInv'
  BY <1>1, <1>2, SelectedStays DEF ProgressInv, UnitsAt
<1>8. Unit' = Unit
  BY <1>2 DEF Unit, First
<1>9. ASSUME NEW m \in opened PROVE IsPartOf(artifact'[m], Append(realized, Unit), m)
  <2>1. IsPartOf(artifact[m], realized, m) /\ m \in Models /\ artifact[m] \in Seq(Units)
    BY <1>1, <1>2, <1>4 DEF FilesInv, TypeOK
  <2>2. CASE Unit.model = m
    <3>1. artifact'[m] = Append(artifact[m], Unit)
      BY <1>2, <1>4, <2>1, <2>2
    <3>2. QED
      BY <1>3, <1>4, <2>1, <2>2, <3>1, PartGrows
  <2>3. CASE Unit.model # m
    <3>1. artifact'[m] = artifact[m]
      BY <1>2, <1>4, <2>1, <2>3
    <3>2. QED
      BY <1>3, <1>4, <2>1, <2>3, <3>1, PartGrows
  <2>4. QED
    BY <2>2, <2>3
<1>10. realized' = realized /\ opened' = opened /\ todo' # {} /\ process' = "graded"
  BY <1>2
<1>11. \A m \in opened' : IsPartOf(artifact'[m], Append(realized', Unit'), m)
  BY <1>8, <1>9, <1>10
<1>12. FilesInv'
  BY <1>10, <1>11 DEF FilesInv
<1>13. RosterInv'
  BY <1>1, <1>2 DEF RosterInv
<1>14. QED
  BY <1>6, <1>7, <1>12, <1>13 DEF IInv

LEMMA RealizeStep ==
  ASSUME IInv, Realize
  PROVE  IInv'
<1>1. TypeOK /\ ProgressInv /\ RosterInv /\ FilesInv
  BY DEF IInv
<1>2. /\ process = "graded" /\ process' = "running"
      /\ realized' = Append(realized, Unit) /\ todo' = todo \ {First}
      /\ UNCHANGED <<shuffles, order, shut, opened, artifact, sidecar, selected>>
  BY DEF Realize
<1>3. todo # {}
  BY <1>1, <1>2 DEF FilesInv
<1>4. /\ First \in todo /\ \A j \in todo : First <= j
      /\ First \in DOMAIN order /\ Unit \in Units
  BY <1>1, <1>3, FirstIsLeast
<1>5. realized \in Seq(Units) /\ todo \subseteq 1 .. Len(order) /\ Ordered(order) /\ order \in Seq(Units)
  BY <1>1 DEF TypeOK, Ordered
<1>6. Selected(order, selected)' = Selected(order, selected)
  BY <1>2, SelectedStays
<1>7. /\ todo \subseteq Selected(order, selected)
      /\ \A i \in todo, j \in Selected(order, selected) : i <= j => j \in todo
      /\ Distinct(realized)
      /\ ToSet(realized) = UnitsAt(Selected(order, selected) \ todo)
  BY <1>1, <1>2 DEF ProgressInv
<1>8. TypeOK'
  <2>1. realized' \in Seq(Units)
    BY <1>2, <1>4, <1>5
  <2>2. todo' \in SUBSET (1 .. Len(order'))
    BY <1>2, <1>5
  <2>3. QED
    BY <1>1, <1>2, <2>1, <2>2 DEF TypeOK
<1>9. ProgressInv'
  <2>1. Unit \notin ToSet(realized)
    <3>1. ASSUME NEW i \in Selected(order, selected) \ todo PROVE order[i] # order[First]
      <4>1. i \in DOMAIN order /\ i # First
        BY <1>4, <3>1 DEF Selected
      <4>2. QED
        BY <1>4, <1>5, <4>1 DEF Ordered
    <3>2. QED
      BY <1>7, <3>1 DEF UnitsAt, Unit
  <2>2. /\ DOMAIN realized' = 1 .. Len(realized) + 1 /\ realized'[Len(realized) + 1] = Unit
        /\ \A i \in 1 .. Len(realized) : realized'[i] = realized[i]
        /\ DOMAIN realized = 1 .. Len(realized) /\ Len(realized) \in Nat
    BY <1>2, <1>4, <1>5
  <2>3. Distinct(realized')
    <3>1. ASSUME NEW i \in 1 .. Len(realized) PROVE realized'[i] # Unit
      <4>1. realized[i] \in ToSet(realized)
        BY <2>2 DEF ToSet
      <4>2. QED
        BY <2>1, <2>2, <4>1
    <3>2. ASSUME NEW i \in DOMAIN realized', NEW j \in DOMAIN realized', realized'[i] = realized'[j]
          PROVE  i = j
      <4>1. CASE i \in 1 .. Len(realized) /\ j \in 1 .. Len(realized)
        BY <1>7, <2>2, <3>2, <4>1 DEF Distinct
      <4>2. CASE i = Len(realized) + 1 /\ j \in 1 .. Len(realized)
        BY <2>2, <3>1, <3>2, <4>2
      <4>3. CASE j = Len(realized) + 1 /\ i \in 1 .. Len(realized)
        BY <2>2, <3>1, <3>2, <4>3
      <4>4. CASE i = Len(realized) + 1 /\ j = Len(realized) + 1
        BY <4>4
      <4>5. QED
        BY <2>2, <4>1, <4>2, <4>3, <4>4
    <3>3. QED
      BY <3>2 DEF Distinct
  <2>4. ToSet(realized') = ToSet(realized) \cup {Unit}
    BY <2>2 DEF ToSet
  <2>5. Selected(order, selected) \ todo' = (Selected(order, selected) \ todo) \cup {First}
    BY <1>2, <1>4, <1>7
  <2>6. UnitsAt(Selected(order, selected) \ todo)' = UnitsAt(Selected(order, selected) \ todo) \cup {Unit}
    BY <1>2, <1>6, <2>5 DEF UnitsAt, Unit
  <2>7. ASSUME NEW i \in todo', NEW j \in Selected(order, selected), i <= j PROVE j \in todo'
    <3>1. i \in todo /\ i # First /\ j \in todo /\ First <= i
      BY <1>2, <1>4, <1>7, <2>7
    <3>2. i \in Nat /\ First \in Nat
      BY <1>4, <1>5, <3>1
    <3>3. j # First
      BY <2>7, <3>1, <3>2
    <3>4. QED
      BY <1>2, <3>1, <3>3
  <2>8. todo' \subseteq Selected(order, selected)
    BY <1>2, <1>7
  <2>9. QED
    BY <1>6, <1>7, <2>3, <2>4, <2>6, <2>7, <2>8 DEF ProgressInv
<1>10. FilesInv'
  <2>1. \A m \in opened : IsPartOf(artifact[m], Append(realized, Unit), m)
    BY <1>1, <1>2 DEF FilesInv
  <2>2. QED
    BY <1>2, <2>1 DEF FilesInv, IsPartOf
<1>11. RosterInv'
  <2>1. Unit.model \in opened
    <3>1. shut = <<>> /\ order[First].model \in opened \cup ToSet(shut)
      BY <1>1, <1>2, <1>4 DEF RosterInv
    <3>2. ToSet(shut) = {}
      BY <3>1 DEF ToSet
    <3>3. QED
      BY <3>1, <3>2 DEF Unit
  <2>2. ToSet(realized') \subseteq ToSet(realized) \cup {Unit}
    <3>1. /\ DOMAIN realized' = 1 .. Len(realized) + 1 /\ realized'[Len(realized) + 1] = Unit
          /\ \A i \in 1 .. Len(realized) : realized'[i] = realized[i]
          /\ DOMAIN realized = 1 .. Len(realized) /\ Len(realized) \in Nat
      BY <1>2, <1>4, <1>5
    <3>2. QED
      BY <3>1 DEF ToSet
  <2>3. QED
    BY <1>1, <1>2, <2>1, <2>2 DEF RosterInv
<1>12. QED
  BY <1>8, <1>9, <1>10, <1>11 DEF IInv

LEMMA EndsStep ==
  ASSUME IInv, Ends
  PROVE  IInv'
<1>1. TypeOK /\ ProgressInv /\ RosterInv /\ FilesInv
  BY DEF IInv
<1>2. /\ process \in {"opening", "running"} /\ process' = "ended" /\ sidecar' = realized
      /\ UNCHANGED <<shuffles, order, todo, shut, opened, artifact, realized, selected>>
  BY DEF Ends, Finally
<1>3. TypeOK'
  BY <1>1, <1>2 DEF TypeOK
<1>4. ProgressInv'
  BY <1>1, <1>2, SelectedStays DEF ProgressInv, UnitsAt
<1>5. FilesInv'
  BY <1>1, <1>2 DEF FilesInv, IsPartOf
<1>6. RosterInv'
  BY <1>1, <1>2 DEF RosterInv
<1>7. QED
  BY <1>3, <1>4, <1>5, <1>6 DEF IInv

\* What leaves no command behind.
LEMMA IdleStep ==
  ASSUME IInv, process' = "idle",
         UNCHANGED <<shuffles, order, todo, shut, opened, artifact, realized, selected>>
  PROVE  IInv'
<1>1. TypeOK'
  BY DEF IInv, TypeOK
<1>2. QED
  BY <1>1 DEF IInv, ProgressInv, RosterInv, FilesInv

-----------------------------------------------------------------------------
(* The theorems.                                                           *)

\* The inductive invariant: an order without repetition whose blocks are in
\* one piece, gone through from the front, and noted as it is gone through.
THEOREM CampaignIsOrdered == Spec => []IInv
<1>1. IInv /\ [Next]_vars => IInv'
  <2> SUFFICES ASSUME IInv, [Next]_vars PROVE IInv'
    OBVIOUS
  <2>1. CASE Start
    BY <2>1, StartStep
  <2>2. CASE DryRun
    BY <2>2, IdleStep DEF DryRun
  <2>3. CASE Attempt
    BY <2>3, AttemptStep
  <2>4. CASE Realize
    BY <2>4, RealizeStep
  <2>5. CASE Ends
    BY <2>5, EndsStep
  <2>6. CASE Interrupted
    BY <2>6, IdleStep DEF Interrupted, Finally
  <2>7. CASE Dies
    BY <2>7, IdleStep DEF Dies
  <2>8. CASE UNCHANGED vars
    <3>1. UNCHANGED <<shuffles, order, todo, shut, opened, artifact, realized, sidecar,
                      process, selected>>
      BY <2>8 DEF vars
    <3>2. TypeOK'
      BY <3>1 DEF IInv, TypeOK
    <3>3. ProgressInv'
      BY <3>1, SelectedStays DEF IInv, ProgressInv, UnitsAt
    <3>4. Unit' = Unit
      BY <3>1 DEF Unit, First
    <3>5. FilesInv'
      BY <3>1, <3>4 DEF IInv, FilesInv
    <3>6. RosterInv'
      BY <3>1 DEF IInv, RosterInv
    <3>7. QED
      BY <3>2, <3>3, <3>5, <3>6 DEF IInv
  <2>9. CASE Open
    BY <2>9, OpenStep
  <2>10. QED
    BY <2>1, <2>2, <2>3, <2>4, <2>5, <2>6, <2>7, <2>8, <2>9 DEF Next
<1>2. QED
  BY <1>1, InitStep, PTL DEF Spec

\* When the command has ended the sidecar lists exactly the rows of the artifacts
\* it opened, in the order of each file, and no unit twice.
THEOREM AuditsAreExact == Spec => []AuditIsExact
<1>1. IInv => AuditIsExact
  <2> SUFFICES ASSUME IInv, process = "ended"
               PROVE  /\ \A i \in DOMAIN sidecar : sidecar[i].model \in opened
                      /\ \A m \in opened : /\ IsPartOf(artifact[m], sidecar, m)
                                            /\ Cardinality(Rows(m)) = Len(artifact[m])
    BY DEF AuditIsExact
  <2>1. sidecar = realized /\ \A u \in ToSet(realized) : u.model \in opened
    BY DEF IInv, FilesInv, RosterInv
  <2>2. \A i \in DOMAIN sidecar : sidecar[i].model \in opened
    BY <2>1 DEF ToSet
  <2>3. ASSUME NEW m \in opened
        PROVE  IsPartOf(artifact[m], sidecar, m) /\ Cardinality(Rows(m)) = Len(artifact[m])
    <3>1. IsPartOf(artifact[m], realized, m)
      BY DEF IInv, FilesInv
    <3>2. m \in Models /\ artifact[m] \in Seq(Units) /\ realized \in Seq(Units) /\ Distinct(realized)
      BY DEF IInv, TypeOK, ProgressInv
    <3>3. QED
      BY <2>1, <3>1, <3>2, PartIsWhole DEF Rows
  <2>4. QED
    BY <2>2, <2>3
<1>2. QED
  BY <1>1, CampaignIsOrdered, PTL

\* No arm of an invocation is ever more than one repetition of a base task
\* ahead of another.
THEOREM DriftsAreShared == Spec => []DriftIsShared
<1>1. IInv => DriftIsShared
  <2> SUFFICES ASSUME IInv, NEW m \in opened, NEW b \in Bases, NEW a1 \in selected,
                      NEW a2 \in selected, process # "idle"
               PROVE  Cardinality({u \in Rows(m) : u.base = b /\ u.arm = a1}) <=
                      Cardinality({u \in Rows(m) : u.base = b /\ u.arm = a2}) + 1
    BY DEF DriftIsShared
  <2>1. TypeOK /\ ProgressInv /\ FilesInv
    BY DEF IInv
  <2>2. /\ Ordered(order) /\ m \in Models /\ artifact[m] \in Seq(Units) /\ realized \in Seq(Units)
        /\ selected \subseteq Arms /\ todo \subseteq 1 .. Len(order)
    BY <2>1 DEF TypeOK
  <2>3. /\ todo \subseteq Selected(order, selected)
        /\ \A i \in todo, j \in Selected(order, selected) : i <= j => j \in todo
        /\ Distinct(realized)
        /\ ToSet(realized) = UnitsAt(Selected(order, selected) \ todo)
    BY <2>1 DEF ProgressInv
  \* The rows are the places that were run, of this model.
  <2>4. ASSUME NEW D \in SUBSET Selected(order, selected),
               \A i \in D, j \in Selected(order, selected) : j <= i => j \in D,
               Rows(m) = {u \in UnitsAt(D) : u.model = m}
        PROVE  Cardinality({u \in Rows(m) : u.base = b /\ u.arm = a1}) <=
               Cardinality({u \in Rows(m) : u.base = b /\ u.arm = a2}) + 1
    <3>1. ASSUME NEW a
          PROVE  {u \in Rows(m) : u.base = b /\ u.arm = a} =
                 {u \in UnitsAt(D) : u.model = m /\ u.base = b /\ u.arm = a}
      BY <2>4
    <3>2. Cardinality({u \in UnitsAt(D) : u.model = m /\ u.base = b /\ u.arm = a1}) <=
          Cardinality({u \in UnitsAt(D) : u.model = m /\ u.base = b /\ u.arm = a2}) + 1
      BY <2>2, <2>4, Drift
    <3>3. QED
      BY <3>1, <3>2
  <2>5. CASE process \in {"opening", "running", "ended"}
    <3> DEFINE D == Selected(order, selected) \ todo
    <3>1. IsPartOf(artifact[m], realized, m)
      BY <2>1, <2>5 DEF FilesInv
    <3>2. Rows(m) = {u \in UnitsAt(D) : u.model = m}
      BY <2>2, <2>3, <3>1, PartIsWhole DEF Rows
    <3>3. \A i \in D, j \in Selected(order, selected) : j <= i => j \in D
      BY <2>3
    <3>4. D \in SUBSET Selected(order, selected)
      OBVIOUS
    <3> HIDE DEF D
    <3>5. QED
      BY <2>4, <3>2, <3>3, <3>4
  <2>6. CASE process = "graded"
    <3> DEFINE D == (Selected(order, selected) \ todo) \cup {First}
               s == Append(realized, Unit)
    <3>1. IsPartOf(artifact[m], s, m) /\ todo # {}
      BY <2>1, <2>6 DEF FilesInv
    <3>2. /\ First \in todo /\ \A j \in todo : First <= j
          /\ First \in DOMAIN order /\ Unit \in Units
      BY <2>1, <3>1, FirstIsLeast
    <3>3. s \in Seq(Units)
      BY <2>2, <3>2
    <3>4. /\ DOMAIN s = 1 .. Len(realized) + 1 /\ s[Len(realized) + 1] = Unit
          /\ \A i \in 1 .. Len(realized) : s[i] = realized[i]
          /\ DOMAIN realized = 1 .. Len(realized) /\ Len(realized) \in Nat
      BY <2>2, <3>2
    <3>5. Unit \notin ToSet(realized)
      <4>1. ASSUME NEW i \in Selected(order, selected) \ todo PROVE order[i] # order[First]
        <5>1. i \in DOMAIN order /\ i # First
          BY <3>2, <4>1 DEF Selected
        <5>2. QED
          BY <2>2, <3>2, <5>1 DEF Ordered
      <4>2. QED
        BY <2>3, <4>1 DEF UnitsAt, Unit
    <3>6. Distinct(s)
      <4>1. ASSUME NEW i \in 1 .. Len(realized) PROVE s[i] # Unit
        <5>1. realized[i] \in ToSet(realized)
          BY <3>4 DEF ToSet
        <5>2. QED
          BY <3>4, <3>5, <5>1
      <4>2. \A i, j \in 1 .. Len(realized) : s[i] = s[j] => i = j
        BY <2>3, <3>4 DEF Distinct
      <4>3. \A i \in DOMAIN s : i \in 1 .. Len(realized) \/ i = Len(realized) + 1
        BY <3>4
      <4> HIDE DEF s
      <4>4. QED
        BY <3>4, <4>1, <4>2, <4>3 DEF Distinct
    <3>7. ToSet(s) = ToSet(realized) \cup {Unit}
      BY <3>4 DEF ToSet
    <3>8. ToSet(s) = UnitsAt(D)
      BY <2>3, <3>7 DEF UnitsAt, Unit
    <3> HIDE DEF s
    <3>9. Rows(m) = {u \in UnitsAt(D) : u.model = m}
      BY <2>2, <3>1, <3>3, <3>6, <3>8, PartIsWhole DEF Rows
    <3>10. ASSUME NEW i \in D, NEW j \in Selected(order, selected), j <= i PROVE j \in D
      <4>1. i \in Nat /\ j \in Nat /\ First \in Nat
        <5>1. order \in Seq(Units)
          BY <2>2 DEF Ordered
        <5>2. DOMAIN order = 1 .. Len(order) /\ Len(order) \in Nat
          BY <5>1
        <5>3. i \in DOMAIN order /\ j \in DOMAIN order
          BY <3>2, <3>10 DEF Selected
        <5>4. QED
          BY <3>2, <5>2, <5>3
      <4>2. CASE i = First
        <5>1. ASSUME j \in todo PROVE j = First
          BY <3>2, <3>10, <4>1, <4>2, <5>1
        <5>2. QED
          BY <5>1
      <4>3. CASE i \in Selected(order, selected) \ todo
        BY <2>3, <3>10, <4>3
      <4>4. QED
        BY <4>2, <4>3
    <3>11. D \in SUBSET Selected(order, selected)
      BY <2>3, <3>2
    <3> HIDE DEF D
    <3>12. QED
      BY <2>4, <3>9, <3>10, <3>11
  <2>7. QED
    BY <2>1, <2>5, <2>6 DEF TypeOK
<1>2. QED
  BY <1>1, CampaignIsOrdered, PTL
=============================================================================
