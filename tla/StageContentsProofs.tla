------------------------ MODULE StageContentsProofs ------------------------
(* Proofs about StageContents for any jobs, websites and limits.            *)
EXTENDS StageContents, FiniteSetTheorems, SequenceTheorems, WellFoundedInduction, TLAPS

(* The function behind FlattenSeq.                                          *)
Flat(seqs) ==
  CHOOSE f : f = [i \in 1 .. Len(seqs) |-> IF i = 1 THEN seqs[i] ELSE f[i - 1] \o seqs[i]]

LEMMA FlattenSeqIs ==
  ASSUME NEW seqs
  PROVE  FlattenSeq(seqs) = IF Len(seqs) = 0 THEN seqs ELSE Flat(seqs)[Len(seqs)]
BY DEF FlattenSeq, Flat

(* Every set of numbers has a least one: the proofs by induction below take *)
(* the least number for which a claim fails.                                *)
LEMMA LeastNumber ==
  ASSUME NEW T \in SUBSET Nat, T # {}
  PROVE  \E n \in T : \A m \in T : n <= m
<1>1. PICK n \in T : \A m \in T : ~(<<m, n>> \in OpToRel(<, Nat))
  BY NatLessThanWellFounded, WFMin, Zenon
<1>2. \A m \in T : ~(m < n)
  BY <1>1 DEF OpToRel
<1> QED
  BY <1>2

LEMMA SeqMonotone ==
  ASSUME NEW T, NEW U, T \subseteq U
  PROVE  Seq(T) \subseteq Seq(U)
<1> SUFFICES ASSUME NEW s \in Seq(T) PROVE s \in Seq(U)
  OBVIOUS
<1>1. PICK n \in Nat : s \in [1 .. n -> T]
  BY SeqDef
<1>2. s \in [1 .. n -> U]
  BY <1>1
<1> QED
  BY <1>2, SeqDef

LEMMA ToSetAppend ==
  ASSUME NEW S, NEW s \in Seq(S), NEW x \in S
  PROVE  /\ ToSet(Append(s, x)) = ToSet(s) \cup {x}
         /\ Append(s, x) \in Seq(S) /\ Append(s, x) # <<>>
         /\ Len(Append(s, x)) = Len(s) + 1
<1>1. /\ Append(s, x) \in Seq(S) /\ Append(s, x) # <<>>
      /\ Len(Append(s, x)) = Len(s) + 1 /\ Len(s) \in Nat
      /\ \A i \in 1 .. Len(s) : Append(s, x)[i] = s[i]
      /\ Append(s, x)[Len(s) + 1] = x
  BY AppendProperties
<1>2. DOMAIN s = 1 .. Len(s) /\ DOMAIN Append(s, x) = 1 .. Len(s) + 1
  BY <1>1, LenProperties
<1>3. \A i : i \in 1 .. Len(s) + 1 <=> i \in 1 .. Len(s) \/ i = Len(s) + 1
  BY <1>1
<1> QED
  BY <1>1, <1>2, <1>3 DEF ToSet

LEMMA ToSetConcat ==
  ASSUME NEW S, NEW s \in Seq(S), NEW t \in Seq(S)
  PROVE  s \o t \in Seq(S) /\ ToSet(s \o t) = ToSet(s) \cup ToSet(t)
<1>1. /\ s \o t \in Seq(S) /\ Len(s \o t) = Len(s) + Len(t)
      /\ Len(s) \in Nat /\ Len(t) \in Nat
      /\ DOMAIN s = 1 .. Len(s) /\ DOMAIN t = 1 .. Len(t)
      /\ DOMAIN (s \o t) = 1 .. Len(s) + Len(t)
  BY ConcatProperties, LenProperties
<1>2. \A i \in 1 .. Len(s) + Len(t) :
        (s \o t)[i] = IF i <= Len(s) THEN s[i] ELSE t[i - Len(s)]
  BY <1>1, ConcatProperties
<1>3. ASSUME NEW x \in ToSet(s \o t) PROVE x \in ToSet(s) \cup ToSet(t)
  <2>1. PICK i \in 1 .. Len(s) + Len(t) : x = (s \o t)[i]
    BY <1>1 DEF ToSet
  <2>2. CASE i <= Len(s)
    BY <1>1, <1>2, <2>1, <2>2 DEF ToSet
  <2>3. CASE ~(i <= Len(s))
    <3>1. i - Len(s) \in 1 .. Len(t) /\ x = t[i - Len(s)]
      BY <1>1, <1>2, <2>1, <2>3
    <3> QED
      BY <1>1, <3>1 DEF ToSet
  <2> QED
    BY <2>2, <2>3
<1>4. ASSUME NEW x \in ToSet(s) PROVE x \in ToSet(s \o t)
  <2>1. PICK i \in 1 .. Len(s) : x = s[i]
    BY <1>1 DEF ToSet
  <2>2. i \in 1 .. Len(s) + Len(t) /\ x = (s \o t)[i]
    BY <1>1, <1>2, <2>1
  <2> QED
    BY <1>1, <2>2 DEF ToSet
<1>5. ASSUME NEW x \in ToSet(t) PROVE x \in ToSet(s \o t)
  <2>1. PICK i \in 1 .. Len(t) : x = t[i]
    BY <1>1 DEF ToSet
  <2>2. i + Len(s) \in 1 .. Len(s) + Len(t) /\ x = (s \o t)[i + Len(s)]
    BY <1>1, <1>2, <2>1
  <2> QED
    BY <1>1, <2>2 DEF ToSet
<1> QED
  BY <1>1, <1>3, <1>4, <1>5

(* The recursive function of FlattenSeq is what its definition says.        *)
FlatStep(seqs, f, i) == IF i = 1 THEN seqs[i] ELSE f[i - 1] \o seqs[i]

LEMMA FlatDefined ==
  ASSUME NEW S, NEW seqs \in Seq(Seq(S)), Len(seqs) # 0
  PROVE  Flat(seqs) = [i \in 1 .. Len(seqs) |-> FlatStep(seqs, Flat(seqs), i)]
<1> DEFINE N == Len(seqs)
           Ok(n, f) == f = [i \in 1 .. n |-> FlatStep(seqs, f, i)]
           T == {n \in 1 .. N : ~ \E f : Ok(n, f)}
<1>1. N \in Nat /\ N # 0
  BY LenProperties
<1>2. ASSUME T # {} PROVE FALSE
  <2>1. PICK n \in T : \A m \in T : n <= m
    <3>1. T \in SUBSET Nat
      OBVIOUS
    <3> HIDE DEF T
    <3> QED
      BY <1>2, <3>1, LeastNumber
  <2>2. CASE n = 1
    <3> DEFINE g == [i \in 1 .. 1 |-> seqs[i]]
    <3>1. Ok(1, g)
      BY DEF FlatStep
    <3> QED
      BY <2>1, <2>2, <3>1
  <2>3. CASE n # 1
    <3>0. n \in 1 .. N
      OBVIOUS
    <3>1. n \in 1 .. N /\ n - 1 \in 1 .. N /\ n - 1 \notin T
      <4> HIDE DEF T, N
      <4> QED
        BY <1>1, <2>1, <2>3, <3>0
    <3>2. PICK f : Ok(n - 1, f)
      BY <3>1
    <3> DEFINE g == [i \in 1 .. n |-> IF i = n THEN f[n - 1] \o seqs[n] ELSE f[i]]
    <3>3. ASSUME NEW i \in 1 .. n PROVE g[i] = FlatStep(seqs, g, i)
      <4>1. CASE i = n
        <5>1. n - 1 \in 1 .. n /\ n - 1 # n /\ n \in 1 .. n
          BY <3>1
        <5>2. g[n - 1] = f[n - 1] /\ g[n] = f[n - 1] \o seqs[n]
          BY <5>1
        <5> QED
          BY <2>3, <4>1, <5>2 DEF FlatStep
      <4>2. CASE i # n
        <5>1. i \in 1 .. n - 1 /\ g[i] = f[i] /\ f[i] = FlatStep(seqs, f, i)
          <6>1. i \in 1 .. n - 1
            BY <3>1, <4>2
          <6>2. f[i] = FlatStep(seqs, f, i)
            BY <3>2, <6>1
          <6> QED
            BY <4>2, <6>1, <6>2
        <5>2. CASE i = 1
          BY <5>1, <5>2 DEF FlatStep
        <5>3. CASE i # 1
          <6>1. g[i - 1] = f[i - 1]
            BY <3>1, <5>1, <5>3
          <6> QED
            BY <5>1, <5>3, <6>1 DEF FlatStep
        <5> QED
          BY <5>2, <5>3
      <4> QED
        BY <4>1, <4>2
    <3>4. Ok(n, g)
      BY <3>3
    <3> QED
      BY <2>1, <3>4
  <2> QED
    BY <2>2, <2>3
<1>3. PICK f : Ok(N, f)
  BY <1>1, <1>2
<1>4. Flat(seqs) = CHOOSE h : Ok(N, h)
  BY DEF Flat, FlatStep
<1> HIDE DEF Ok
<1>5. Ok(N, Flat(seqs))
  BY <1>3, <1>4
<1> QED
  BY <1>5 DEF Ok

(* What it has gathered after n of the sequences.                           *)
LEMMA FlatProperties ==
  ASSUME NEW S, NEW seqs \in Seq(Seq(S)), NEW k \in 1 .. Len(seqs)
  PROVE  /\ Flat(seqs)[k] \in Seq(S)
         /\ \A x : x \in ToSet(Flat(seqs)[k]) <=> \E i \in 1 .. k : x \in ToSet(seqs[i])
         /\ Flat(seqs)[k] = FlatStep(seqs, Flat(seqs), k)
<1> DEFINE N == Len(seqs)
           F == Flat(seqs)
           T == {n \in 1 .. N : ~(/\ F[n] \in Seq(S)
                                  /\ \A x : x \in ToSet(F[n])
                                              <=> \E i \in 1 .. n : x \in ToSet(seqs[i]))}
<1>1. /\ N \in Nat /\ DOMAIN seqs = 1 .. N /\ \A i \in 1 .. N : seqs[i] \in Seq(S)
      /\ k \in 1 .. N /\ N # 0
  BY LenProperties, ElementOfSeq
<1> HIDE DEF F
<1>2. \A i \in 1 .. N : F[i] = FlatStep(seqs, F, i)
  BY <1>1, FlatDefined DEF F
<1>3. ASSUME T # {} PROVE FALSE
  <2>1. PICK n \in T : \A m \in T : n <= m
    <3>1. T \in SUBSET Nat
      OBVIOUS
    <3> HIDE DEF T
    <3> QED
      BY <1>3, <3>1, LeastNumber
  <2>2. CASE n = 1
    <3>1. F[1] = seqs[1]
      BY <1>1, <1>2 DEF FlatStep
    <3> QED
      BY <1>1, <2>1, <2>2, <3>1
  <2>3. CASE n # 1
    <3>0. n \in 1 .. N
      OBVIOUS
    <3>1. n \in 1 .. N /\ n - 1 \in 1 .. N /\ n - 1 \notin T
      <4> HIDE DEF T, N
      <4> QED
        BY <1>1, <2>1, <2>3, <3>0
    <3>2. F[n] = F[n - 1] \o seqs[n]
      BY <1>2, <2>3, <3>1 DEF FlatStep
    <3>3. /\ F[n - 1] \in Seq(S)
          /\ \A x : x \in ToSet(F[n - 1]) <=> \E i \in 1 .. n - 1 : x \in ToSet(seqs[i])
      BY <3>1
    <3>4. F[n] \in Seq(S) /\ ToSet(F[n]) = ToSet(F[n - 1]) \cup ToSet(seqs[n])
      BY <1>1, <3>1, <3>2, <3>3, ToSetConcat
    <3>5. \A i : i \in 1 .. n <=> i \in 1 .. n - 1 \/ i = n
      BY <1>1, <3>1
    <3>6. ASSUME NEW x
          PROVE  x \in ToSet(F[n]) <=> \E i \in 1 .. n : x \in ToSet(seqs[i])
      BY <3>3, <3>4, <3>5
    <3> QED
      BY <2>1, <3>4, <3>6
  <2> QED
    BY <2>2, <2>3
<1>4. k \notin T
  <2> HIDE DEF T
  <2> QED
    BY <1>3
<1> QED
  BY <1>1, <1>2, <1>4 DEF F

LEMMA FlattenSeqProperties ==
  ASSUME NEW S, NEW seqs \in Seq(Seq(S))
  PROVE  /\ FlattenSeq(seqs) \in Seq(S)
         /\ \A x : x \in ToSet(FlattenSeq(seqs)) <=> \E i \in DOMAIN seqs : x \in ToSet(seqs[i])
<1> DEFINE N == Len(seqs)
<1>1. N \in Nat /\ DOMAIN seqs = 1 .. N
  BY LenProperties
<1>2. CASE N = 0
  <2>1. FlattenSeq(seqs) = seqs /\ seqs = <<>> /\ DOMAIN seqs = {}
    BY <1>1, <1>2, FlattenSeqIs, EmptySeq
  <2> QED
    BY <2>1 DEF ToSet
<1>3. CASE N # 0
  <2>1. N \in 1 .. N /\ FlattenSeq(seqs) = Flat(seqs)[N]
    BY <1>1, <1>3, FlattenSeqIs
  <2> QED
    BY <1>1, <2>1, FlatProperties
<1> QED
  BY <1>2, <1>3

(* Elements of different sequences have different places.                   *)
Apart(s, x, y) == \E k, l \in DOMAIN s : k # l /\ s[k] = x /\ s[l] = y

LEMMA ApartInConcat ==
  ASSUME NEW S, NEW s \in Seq(S), NEW t \in Seq(S), NEW x, NEW y
  PROVE  /\ Apart(s, x, y) => Apart(s \o t, x, y)
         /\ x \in ToSet(s) /\ y \in ToSet(t) => Apart(s \o t, x, y) /\ Apart(s \o t, y, x)
<1>1. /\ Len(s) \in Nat /\ Len(t) \in Nat
      /\ DOMAIN s = 1 .. Len(s) /\ DOMAIN t = 1 .. Len(t)
      /\ DOMAIN (s \o t) = 1 .. Len(s) + Len(t)
      /\ \A i \in 1 .. Len(s) + Len(t) :
           (s \o t)[i] = IF i <= Len(s) THEN s[i] ELSE t[i - Len(s)]
  BY ConcatProperties, LenProperties
<1>2. \A i \in DOMAIN s : i \in DOMAIN (s \o t) /\ (s \o t)[i] = s[i]
  BY <1>1
<1>3. \A i \in DOMAIN t : /\ i + Len(s) \in DOMAIN (s \o t) /\ (s \o t)[i + Len(s)] = t[i]
                          /\ i + Len(s) \notin DOMAIN s
  BY <1>1
<1>4. Apart(s, x, y) => Apart(s \o t, x, y)
  BY <1>2, Zenon DEF Apart
<1>5. ASSUME x \in ToSet(s), y \in ToSet(t) PROVE Apart(s \o t, x, y) /\ Apart(s \o t, y, x)
  <2>1. PICK k \in DOMAIN s : s[k] = x
    BY <1>5 DEF ToSet
  <2>2. PICK i \in DOMAIN t : t[i] = y
    BY <1>5 DEF ToSet
  <2>3. PICK l : l = i + Len(s)
    OBVIOUS
  <2>4. /\ k \in DOMAIN (s \o t) /\ l \in DOMAIN (s \o t) /\ k # l
        /\ (s \o t)[k] = x /\ (s \o t)[l] = y
    BY <1>2, <1>3, <2>1, <2>2, <2>3
  <2> QED
    BY <2>4, Zenon DEF Apart
<1> QED
  BY <1>4, <1>5

LEMMA FlattenSeqApart ==
  ASSUME NEW S, NEW seqs \in Seq(Seq(S)), NEW a \in DOMAIN seqs, NEW b \in DOMAIN seqs, a # b,
         NEW x \in ToSet(seqs[a]), NEW y \in ToSet(seqs[b])
  PROVE  Apart(FlattenSeq(seqs), x, y)
<1> DEFINE N == Len(seqs)
           F == Flat(seqs)
           T == {n \in 1 .. N : a <= n /\ b <= n /\ ~Apart(F[n], x, y)}
<1>1. /\ N \in Nat /\ DOMAIN seqs = 1 .. N /\ \A i \in 1 .. N : seqs[i] \in Seq(S)
  BY LenProperties, ElementOfSeq
<1>2. a \in 1 .. N /\ b \in 1 .. N
  BY <1>1
<1>3. \A n \in 1 .. N : /\ F[n] \in Seq(S) /\ F[n] = FlatStep(seqs, F, n)
                       /\ \A z : z \in ToSet(F[n]) <=> \E i \in 1 .. n : z \in ToSet(seqs[i])
  BY FlatProperties
<1> HIDE DEF F
<1>4. ASSUME T # {} PROVE FALSE
  <2>1. PICK n \in T : \A m \in T : n <= m
    <3>1. T \in SUBSET Nat
      OBVIOUS
    <3> HIDE DEF T
    <3> QED
      BY <1>4, <3>1, LeastNumber
  <2>2. n \in 1 .. N /\ a <= n /\ b <= n /\ ~Apart(F[n], x, y)
    OBVIOUS
  <2> HIDE DEF N
  <2>3. n # 1 /\ n - 1 \in 1 .. N
    BY <1>1, <1>2, <2>2
  <2>4. F[n] = F[n - 1] \o seqs[n] /\ F[n - 1] \in Seq(S) /\ seqs[n] \in Seq(S)
    BY <1>1, <1>3, <2>2, <2>3 DEF FlatStep
  <2>5. CASE a <= n - 1 /\ b <= n - 1
    <3>1. n - 1 \notin T
      <4> HIDE DEF T
      <4> QED
        BY <1>1, <2>1, <2>2, <2>3
    <3>2. Apart(F[n - 1], x, y)
      BY <2>3, <2>5, <3>1
    <3> QED
      BY <2>2, <2>4, <3>2, ApartInConcat
  <2>6. CASE a = n
    <3>1. b \in 1 .. n - 1
      BY <1>1, <1>2, <2>2, <2>6
    <3>2. y \in ToSet(F[n - 1]) /\ x \in ToSet(seqs[n])
      BY <1>3, <2>3, <2>6, <3>1
    <3> QED
      BY <2>2, <2>4, <3>2, ApartInConcat
  <2>7. CASE b = n
    <3>1. a \in 1 .. n - 1
      BY <1>1, <1>2, <2>2, <2>7
    <3>2. x \in ToSet(F[n - 1]) /\ y \in ToSet(seqs[n])
      BY <1>3, <2>3, <2>7, <3>1
    <3> QED
      BY <2>2, <2>4, <3>2, ApartInConcat
  <2> QED
    BY <1>1, <1>2, <2>2, <2>5, <2>6, <2>7
<1>5. N \in 1 .. N /\ a <= N /\ b <= N /\ N \notin T
  <2> HIDE DEF T
  <2> QED
    BY <1>1, <1>2, <1>4
<1>6. Apart(F[N], x, y)
  BY <1>5
<1> QED
  BY <1>1, <1>5, <1>6, FlattenSeqIs DEF F

(* A set is listed by appending its elements one by one.                    *)
ListStep(f, s) ==
  IF s = {} THEN <<>> ELSE Append(f[s \ {CHOOSE x \in s : TRUE}], CHOOSE x \in s : TRUE)
Listing(S) == CHOOSE f : f = [s \in SUBSET S |-> ListStep(f, s)]

LEMMA FoldSetIs ==
  ASSUME NEW S
  PROVE  FoldSet(LAMBDA pm, acc : Append(acc, pm), <<>>, S) = Listing(S)[S]
BY DEF FoldSet, MapThenFoldSet, Listing, ListStep

LEMMA ChosenLeft ==
  ASSUME NEW s, IsFiniteSet(s), s # {}, NEW r, r = s \ {CHOOSE x \in s : TRUE}
  PROVE  /\ (CHOOSE x \in s : TRUE) \in s
         /\ IsFiniteSet(r) /\ Cardinality(r) = Cardinality(s) - 1
         /\ Cardinality(s) \in Nat /\ Cardinality(s) # 0 /\ Cardinality(r) \in Nat
<1>1. (CHOOSE x \in s : TRUE) \in s
  OBVIOUS
<1> DEFINE c == CHOOSE x \in s : TRUE
<1>2. IsFiniteSet(s \ {c}) /\ Cardinality(s \ {c}) = Cardinality(s) - 1
  <2> HIDE DEF c
  <2>1. c \in s
    BY <1>1 DEF c
  <2> QED
    BY <2>1, FS_RemoveElement
<1>3. Cardinality(s) \in Nat /\ Cardinality(s) # 0 /\ Cardinality(s \ {c}) \in Nat
  BY <1>2, FS_CardinalityType, FS_EmptySet
<1> QED
  BY <1>1, <1>2, <1>3

LEMMA ListingDefined ==
  ASSUME NEW S, IsFiniteSet(S)
  PROVE  Listing(S) = [s \in SUBSET S |-> ListStep(Listing(S), s)]
<1> DEFINE N == Cardinality(S)
           D(n) == {s \in SUBSET S : Cardinality(s) <= n}
           Ok(n, f) == f = [s \in D(n) |-> ListStep(f, s)]
           T == {n \in 0 .. N : ~ \E f : Ok(n, f)}
<1>1. N \in Nat /\ \A s \in SUBSET S : IsFiniteSet(s) /\ Cardinality(s) \in Nat /\ Cardinality(s) <= N
  BY FS_CardinalityType, FS_Subset
<1>2. ASSUME T # {} PROVE FALSE
  <2>1. PICK n \in T : \A m \in T : n <= m
    <3>1. T \in SUBSET Nat
      BY <1>1
    <3> HIDE DEF T
    <3> QED
      BY <1>2, <3>1, LeastNumber
  <2>2. n \in 0 .. N
    OBVIOUS
  <2>3. CASE n = 0
    <3> DEFINE g == [s \in D(0) |-> <<>>]
    <3>1. \A s \in D(0) : s = {}
      BY <1>1, FS_EmptySet
    <3>2. \A s \in D(0) : g[s] = ListStep(g, s)
      BY <3>1 DEF ListStep
    <3>3. Ok(0, g)
      BY <3>2
    <3> QED
      BY <2>1, <2>3, <3>3
  <2>4. CASE n # 0
    <3>1. n - 1 \in 0 .. N /\ n - 1 \notin T
      <4> HIDE DEF T, N
      <4> QED
        BY <1>1, <2>1, <2>2, <2>4
    <3>2. PICK f : Ok(n - 1, f)
      BY <3>1
    <3> DEFINE g == [s \in D(n) |-> ListStep(f, s)]
    <3>3. ASSUME NEW s \in D(n - 1) PROVE s \in D(n) /\ g[s] = f[s]
      <4>1. s \in D(n)
        BY <1>1, <2>2
      <4>2. f[s] = ListStep(f, s)
        BY <3>2
      <4> QED
        BY <4>1, <4>2
    <3>4. ASSUME NEW s \in D(n) PROVE ListStep(g, s) = ListStep(f, s)
      <4>1. CASE s = {}
        BY <4>1 DEF ListStep
      <4>2. CASE s # {}
        <5> DEFINE r == s \ {CHOOSE x \in s : TRUE}
        <5>1. IsFiniteSet(s) /\ Cardinality(s) <= n /\ s \in SUBSET S
          BY <1>1
        <5>2. Cardinality(r) = Cardinality(s) - 1 /\ Cardinality(s) \in Nat
          BY <4>2, <5>1, ChosenLeft
        <5>3. r \in D(n - 1)
          BY <2>2, <5>1, <5>2
        <5>4. g[r] = f[r]
          BY <3>3, <5>3
        <5> HIDE DEF g
        <5> QED
          BY <4>2, <5>4 DEF ListStep
      <4> QED
        BY <4>1, <4>2
    <3>5. Ok(n, g)
      BY <3>4
    <3> QED
      BY <2>1, <3>5
  <2> QED
    BY <2>3, <2>4
<1>3. N \in 0 .. N /\ N \notin T
  <2> HIDE DEF T, N
  <2> QED
    BY <1>1, <1>2
<1>4. PICK f : Ok(N, f)
  BY <1>3
<1>5. D(N) = SUBSET S
  BY <1>1
<1>6. Listing(S) = CHOOSE h : Ok(N, h)
  BY <1>5 DEF Listing
<1>7. Ok(N, Listing(S))
  <2> HIDE DEF Ok
  <2> QED
    BY <1>4, <1>6
<1> QED
  BY <1>5, <1>7

LEMMA FoldSetLists ==
  ASSUME NEW S, IsFiniteSet(S)
  PROVE  LET list == FoldSet(LAMBDA pm, acc : Append(acc, pm), <<>>, S)
         IN  list \in Seq(S) /\ ToSet(list) = S
<1> DEFINE N == Cardinality(S)
           L == Listing(S)
           Lists(s) == L[s] \in Seq(s) /\ ToSet(L[s]) = s
           T == {n \in 0 .. N : ~ \A s \in SUBSET S : Cardinality(s) = n => Lists(s)}
<1>1. N \in Nat /\ \A s \in SUBSET S : IsFiniteSet(s) /\ Cardinality(s) \in Nat /\ Cardinality(s) <= N
  BY FS_CardinalityType, FS_Subset
<1>2. \A s \in SUBSET S : L[s] = ListStep(L, s)
  BY ListingDefined
<1> HIDE DEF L
<1>3. ASSUME T # {} PROVE FALSE
  <2>1. PICK n \in T : \A m \in T : n <= m
    <3>1. T \in SUBSET Nat
      BY <1>1
    <3> HIDE DEF T
    <3> QED
      BY <1>3, <3>1, LeastNumber
  <2>2. PICK s \in SUBSET S : Cardinality(s) = n /\ ~Lists(s)
    OBVIOUS
  <2>3. CASE s = {}
    <3>1. L[s] = <<>>
      BY <1>2, <2>3 DEF ListStep
    <3> QED
      BY <2>2, <2>3, <3>1 DEF ToSet
  <2>4. CASE s # {}
    <3> DEFINE c == CHOOSE x \in s : TRUE
               r == s \ {CHOOSE x \in s : TRUE}
    <3>1. /\ c \in s /\ Cardinality(r) = n - 1 /\ Cardinality(r) \in Nat /\ n \in Nat
          /\ r \in SUBSET S
      BY <1>1, <2>2, <2>4, ChosenLeft
    <3>2. n - 1 \in 0 .. N /\ n - 1 \notin T
      <4>1. n \in 0 .. N
        OBVIOUS
      <4> HIDE DEF T, N, r
      <4> QED
        BY <1>1, <2>1, <3>1, <4>1
    <3>3. Lists(r)
      BY <3>1, <3>2
    <3>4. L[s] = Append(L[r], c)
      BY <1>2, <2>4 DEF ListStep
    <3>5. L[r] \in Seq(s)
      BY <3>3, SeqMonotone
    <3> HIDE DEF r, c
    <3>6. Append(L[r], c) \in Seq(s) /\ ToSet(Append(L[r], c)) = ToSet(L[r]) \cup {c}
      BY <3>1, <3>5, ToSetAppend
    <3>7. r \cup {c} = s
      BY <3>1 DEF r, c
    <3> QED
      BY <2>2, <3>3, <3>4, <3>6, <3>7
  <2> QED
    BY <2>3, <2>4
<1>4. N \in 0 .. N /\ N \notin T
  <2> HIDE DEF T, N
  <2> QED
    BY <1>1, <1>3
<1>5. Lists(S)
  BY <1>4
<1> QED
  BY <1>5, FoldSetIs DEF L
-----------------------------------------------------------------------------
(* The inductive invariant, part by part.                                   *)
Stages == {"detect", "extract", "enhance", "validate_ir", "generate", "deploy",
           "validate_runtime", "serving", "failed"}

Requested == job \in Jobs /\ site = Sites[job.site]

(* Where the compilation is, and where it failed.                           *)
Staged ==
  /\ stage \in Stages
  /\ stage # "failed" => failedAt = "none"
  /\ stage = "failed" => failedAt \in Stages \ {"failed"}

ChosenProtocol ==
  stage # "detect" /\ failedAt # "detect" => protocol = Detected /\ protocol # "none"

RaisedFor ==
  failedAt = "extract" /\ protocol # "rest" => ExtractRaises(protocol, job.source)

ControlInv == Requested /\ Staged /\ ChosenProtocol /\ RaisedFor

(* An endpoint that discovery has seen.                                     *)
IsEndpoint(e) == e = Endpoint(e.methods, e.conf, e.db) /\ e.methods \subseteq Methods
Observed(obs) == IsFiniteSet(DOMAIN obs) /\ \A p \in DOMAIN obs : IsPath(p) /\ IsEndpoint(obs[p])

(* An operation with all its fields; one that is what was extracted, but    *)
(* for what later stages may change.                                        *)
IsOp(op) ==
  op = [id |-> op.id, method |-> op.method, contract |-> op.contract, level |-> op.level,
        writes |-> op.writes, destructive |-> op.destructive, at |-> op.at,
        open |-> op.open, body |-> op.body, conf |-> op.conf, enabled |-> op.enabled,
        intent |-> op.intent]

SameCore(op, base) ==
  /\ op.id = base.id /\ op.method = base.method /\ op.contract = base.contract
  /\ op.level = base.level /\ op.writes = base.writes
  /\ op.destructive = base.destructive /\ op.at = base.at
  /\ op.open = base.open /\ op.body = base.body

IsService(service) ==
  service = [ops |-> service.ops, events |-> service.events, auth |-> service.auth,
             groups |-> service.groups, prompts |-> service.prompts,
             resources |-> service.resources]

(* What the extractor made of the source.                                   *)
BaseOf(p, source, obs) == IF p = "rest" THEN RestExtract(obs) ELSE Extracted(p, source)
Base == BaseOf(protocol, job.source, observed)

OpMadeOf(op, base) ==
  /\ IsOp(op) /\ SameCore(op, base)
  /\ op.enabled \in BOOLEAN
  /\ op.enabled => op.level # "unknown"
  /\ op.intent = "discovery" => op.method \in {"GET", "HEAD", "OPTIONS"}

MadeOf(service, base) ==
  /\ IsService(service)
  /\ service.events = base.events
  /\ service.ops = [i \in DOMAIN base.ops |-> service.ops[i]]
  /\ \A i \in DOMAIN base.ops : OpMadeOf(service.ops[i], base.ops[i])

ServiceMade == stage \notin {"detect", "extract"} /\ failedAt \notin {"detect", "extract"}

ServiceKept ==
  /\ ServiceMade => /\ MadeOf(ir, Base)
                    /\ protocol # "rest" => ~ExtractRaises(protocol, job.source)
  /\ ~ServiceMade => ir = NoService

(* From its derivation on, what is referred to is enabled.                  *)
ReferencesEnabled(service) ==
  /\ \A p \in service.prompts : p.tools \subseteq EnabledIds(service)
  /\ \A g \in service.groups : g \subseteq EnabledIds(service)

Enhanced == {"validate_ir", "generate", "deploy", "validate_runtime", "serving"}
References == stage \in Enhanced => ReferencesEnabled(ir)

Checked == stage \in {"generate", "deploy"} => Valid(ir) /\ EventSupportPasses(ir)

Flagged == stage = "deploy" => env = ManifestEnv(ModelValidate(ir))

(* The runtime serves what was checked, with the flags made for it.         *)
Deployed ==
  /\ rt = BuildRuntimeState(ir, env) /\ env = ManifestEnv(ModelValidate(ir))
  /\ Valid(ir) /\ EventSupportPasses(ir)

IsDeployed ==
  stage \in {"validate_runtime", "serving"} \/ failedAt = "validate_runtime"

Running ==
  /\ IsDeployed => Deployed
  /\ ~IsDeployed => rt = NoRuntime /\ smoke = NoOp /\ audit = <<>>

Tried ==
  /\ stage = "serving" => rt.loaded
  /\ smoke # NoOp =>
       \E op \in SmokeChoices(rt, job.preferred, job.sampled) : smoke = op.id
  /\ audit # <<>> => \E connected \in BOOLEAN : audit = Audit(rt, job.sampled, job.numeric, connected)

StageInv ==
  /\ Observed(observed) /\ ServiceKept /\ References /\ Checked /\ Flagged
  /\ Running /\ Tried
-----------------------------------------------------------------------------
(* What an extractor makes of one item of the source, in order.             *)
ItemOps(p, s, item) ==
  CASE p = "openapi" -> IF item.kind = "webhook" THEN <<>> ELSE <<OpenAPIOperation(item)>>
    [] p = "graphql" -> IF item.kind = "subscription" THEN <<>> ELSE <<GraphQLOperation(item)>>
    [] p = "grpc" -> IF item.kind = "unary" \/ NativeStream(s, item)
                     THEN <<GrpcOperation(item)>> ELSE <<>>
    [] p = "soap" -> <<SoapOperation(item)>>
    [] p = "odata" -> IF item.kind = "set" THEN EntitySetOperations(item.name)
                      ELSE <<ImportOperation(item)>>
    [] p = "scim" -> IF item.kind \in {"bulk", "password"} THEN <<ScimGlobalOperation(item)>>
                     ELSE ScimResourceOperations(item)
    [] p = "jsonrpc" -> <<JsonRpcOperation(item)>>
    [] p = "asyncapi" -> ChannelOperations(item)
    [] p = "sql" -> RelationOperations(item)
    [] OTHER -> <<CommandOperation(item)>>

EntityOps(name) ==
  {EntityOperation("list", name, "GET"), EntityOperation("get_by_key", name, "GET"),
   EntityOperation("create", name, "POST"), EntityOperation("update", name, "PATCH"),
   EntityOperation("delete", name, "DELETE")}

ScimOperation(verb, name, method) ==
  [Operation(<<verb, name>>, method, "http", MethodRisk(method))
     EXCEPT !.open = verb \notin {"list", "create"}]

ScimOps(name) ==
  {ScimOperation("list", name, "GET"), ScimOperation("get", name, "GET"),
   ScimOperation("create", name, "POST"), ScimOperation("update", name, "PUT"),
   ScimOperation("patch", name, "PATCH"), ScimOperation("delete", name, "DELETE")}

(* The operations that can be among them.                                   *)
OpsOf(p, s, item) ==
  CASE p = "openapi" -> {OpenAPIOperation(item)}
    [] p = "graphql" -> {op \in {GraphQLOperation(item)} : item.kind # "subscription"}
    [] p = "grpc" -> {op \in {GrpcOperation(item)} : item.kind = "unary" \/ NativeStream(s, item)}
    [] p = "soap" -> {SoapOperation(item)}
    [] p = "odata" -> EntityOps(item.name) \cup {ImportOperation(item)}
    [] p = "scim" -> ScimOps(item.name) \cup {ScimGlobalOperation(item)}
    [] p = "jsonrpc" -> {JsonRpcOperation(item)}
    [] p = "asyncapi" -> {ObserveOperation(item), PublishOperation(item)}
    [] p = "sql" -> {QueryOperation(item), InsertOperation(item), UpdateOperation(item),
                     DeleteOperation(item)}
    [] OTHER -> {CommandOperation(item)}

AllOps(p, s) == UNION {OpsOf(p, s, item) : item \in ToSet(s.items)}

(* An operation as it leaves the extractor.                                 *)
Fresh(op) == IsOp(op) /\ op.enabled = TRUE /\ op.intent = "none"

(* An operation that was discovered.                                        *)
RestOp(op) ==
  /\ op.method \in Methods /\ op.contract = "http" /\ op.level = RestRisk(op.method)
  /\ op.writes = (op.level \in {"cautious", "dangerous"})
  /\ op.destructive = (op.level = "dangerous")
  /\ op.open = FALSE /\ op.body = "json"

(* A service as it leaves an extractor.                                     *)
FreshService(service) ==
  /\ IsService(service) /\ service.groups = {} /\ service.prompts = {}
  /\ service.ops = [i \in DOMAIN service.ops |-> service.ops[i]]
  /\ \A i \in DOMAIN service.ops : Fresh(service.ops[i])
-----------------------------------------------------------------------------
(* What the later stages make of a service.                                 *)
LEMMA ValidateKeeps ==
  ASSUME NEW service, NEW base, MadeOf(service, base)
  PROVE  /\ MadeOf(ModelValidate(service), base)
         /\ ModelValidate(service).ops = service.ops
         /\ ModelValidate(service).prompts = service.prompts
         /\ ModelValidate(service).groups = service.groups
<1> DEFINE new == ModelValidate(service)
<1>1. ASSUME NEW i \in DOMAIN base.ops
      PROVE  DisableUnknown(service.ops[i]) = service.ops[i]
  <2> DEFINE op == service.ops[i]
  <2>1. IsOp(op) /\ op.enabled \in BOOLEAN /\ (op.enabled => op.level # "unknown")
    BY DEF MadeOf, OpMadeOf
  <2>2. (op.enabled /\ op.level # "unknown") = op.enabled
    BY <2>1
  <2> HIDE DEF op
  <2>3. DisableUnknown(op) = op
    BY <2>1, <2>2 DEF DisableUnknown, IsOp
  <2> QED
    BY <2>3 DEF op
<1>2. new = [service EXCEPT !.ops = [i \in DOMAIN service.ops |-> DisableUnknown(service.ops[i])]]
  BY DEF ModelValidate
<1>3. IsService(service) /\ service.ops = [i \in DOMAIN base.ops |-> service.ops[i]]
  BY DEF MadeOf
<1>4. new.ops = [i \in DOMAIN base.ops |-> service.ops[i]]
  BY <1>1, <1>2, <1>3, SMTT(30) DEF IsService
<1> QED
  BY <1>2, <1>3, <1>4 DEF MadeOf, IsService

LEMMA ApplyKeeps ==
  ASSUME NEW service, NEW base, MadeOf(service, base)
  PROVE  MadeOf(ApplyEnhancements(service), base)
<1> DEFINE Enh(op) == IF op.id \in DOMAIN answers /\ answers[op.id] = "wild"
                      THEN [op EXCEPT !.conf = FALSE] ELSE op
           new == ApplyEnhancements(service)
<1>1. IsService(service) /\ service.ops = [i \in DOMAIN base.ops |-> service.ops[i]]
  BY DEF MadeOf
<1>2. /\ IsService(new) /\ new.events = service.events
      /\ new.ops = [i \in DOMAIN base.ops |-> Enh(service.ops[i])]
  <2> DEFINE ops == [i \in DOMAIN service.ops |-> Enh(service.ops[i])]
  <2>1. new = [service EXCEPT !.ops = ops]
    BY DEF ApplyEnhancements
  <2>2. ops = [i \in DOMAIN base.ops |-> Enh(service.ops[i])]
    BY <1>1
  <2> HIDE DEF ops, new
  <2>3. IsService(new) /\ new.events = service.events /\ new.ops = ops
    BY <1>1, <2>1 DEF IsService
  <2> QED
    BY <2>2, <2>3
<1>3. ASSUME NEW i \in DOMAIN base.ops PROVE OpMadeOf(Enh(service.ops[i]), base.ops[i])
  <2> DEFINE op == service.ops[i]
             act == [op EXCEPT !.conf = FALSE]
  <2>1. OpMadeOf(op, base.ops[i])
    BY DEF MadeOf
  <2> HIDE DEF op
  <2>2. /\ IsOp(act) /\ SameCore(act, op) /\ act.enabled = op.enabled
        /\ act.intent = op.intent
    <3>1. ASSUME NEW v
          PROVE  LET new1 == [op EXCEPT !.conf = v]
                 IN  /\ IsOp(new1) /\ SameCore(new1, op) /\ new1.enabled = op.enabled
                     /\ new1.intent = op.intent
      BY <2>1 DEF OpMadeOf, IsOp, SameCore
    <3> QED
      BY <3>1, Zenon
  <2> HIDE DEF act
  <2>3. OpMadeOf(act, base.ops[i])
    BY <2>1, <2>2 DEF OpMadeOf, SameCore
  <2> QED
    BY <2>1, <2>3 DEF op, act
<1> QED
  BY <1>2, <1>3 DEF MadeOf

LEMMA DeriveKeeps ==
  ASSUME NEW service, NEW base, MadeOf(service, base)
  PROVE  MadeOf(DeriveIntents(service), base)
<1> DEFINE Der(op) == IF op.intent = "none" THEN [op EXCEPT !.intent = ToolIntent(op)] ELSE op
           new == DeriveIntents(service)
<1>1. IsService(service) /\ service.ops = [i \in DOMAIN base.ops |-> service.ops[i]]
  BY DEF MadeOf
<1>2. /\ IsService(new) /\ new.events = service.events
      /\ new.ops = [i \in DOMAIN base.ops |-> Der(service.ops[i])]
  <2> DEFINE ops == [i \in DOMAIN service.ops |-> Der(service.ops[i])]
  <2>1. new = [service EXCEPT !.ops = ops]
    BY DEF DeriveIntents
  <2>2. ops = [i \in DOMAIN base.ops |-> Der(service.ops[i])]
    BY <1>1
  <2> HIDE DEF ops, new
  <2>3. IsService(new) /\ new.events = service.events /\ new.ops = ops
    BY <1>1, <2>1 DEF IsService
  <2> QED
    BY <2>2, <2>3
<1>3. ASSUME NEW i \in DOMAIN base.ops PROVE OpMadeOf(Der(service.ops[i]), base.ops[i])
  <2> DEFINE op == service.ops[i]
             act == [op EXCEPT !.intent = ToolIntent(op)]
  <2>1. OpMadeOf(op, base.ops[i])
    BY DEF MadeOf
  <2> HIDE DEF op
  <2>2. ToolIntent(op) = "discovery" => op.method \in {"GET", "HEAD", "OPTIONS"}
    BY DEF ToolIntent
  <2>3. /\ IsOp(act) /\ SameCore(act, op) /\ act.enabled = op.enabled
        /\ act.intent = ToolIntent(op)
    BY <2>1 DEF OpMadeOf, IsOp, SameCore
  <2> HIDE DEF act
  <2>4. OpMadeOf(act, base.ops[i])
    BY <2>1, <2>2, <2>3 DEF OpMadeOf, SameCore
  <2> QED
    BY <2>1, <2>4 DEF op, act
<1> QED
  BY <1>2, <1>3 DEF MadeOf

LEMMA PostKeeps ==
  ASSUME NEW service, NEW base, MadeOf(service, base), NEW proposed
  PROVE  /\ MadeOf(PostEnhancement(service, proposed), base)
         /\ ReferencesEnabled(PostEnhancement(service, proposed))
<1> DEFINE derived == DeriveIntents(service)
           grouped == Grouped(derived, proposed)
           new == PostEnhancement(service, proposed)
<1>1. MadeOf(derived, base)
  BY DeriveKeeps
<1>2. IsService(derived)
  BY <1>1 DEF MadeOf
<1>3. /\ IsService(grouped) /\ grouped.ops = derived.ops /\ grouped.events = derived.events
      /\ grouped.groups = {g \cap EnabledIds(derived) : g \in proposed} \ {{}}
  <2> HIDE DEF derived
  <2> QED
    BY <1>2 DEF Grouped, IsService
<1>4. /\ IsService(new) /\ new.ops = derived.ops /\ new.events = derived.events
      /\ new.groups = grouped.groups /\ new.prompts = GeneratedPrompts(grouped)
  <2>1. new = [grouped EXCEPT !.resources = GeneratedResources(grouped),
                             !.prompts = GeneratedPrompts(grouped)]
    BY DEF PostEnhancement
  <2> HIDE DEF derived, grouped, new
  <2> QED
    BY <1>3, <2>1 DEF IsService
<1>5. EnabledIds(new) = EnabledIds(derived) /\ EnabledIds(grouped) = EnabledIds(derived)
  BY <1>3, <1>4 DEF EnabledIds, EnabledOps
<1> HIDE DEF derived, grouped, new
<1>6. MadeOf(new, base)
  BY <1>1, <1>4 DEF MadeOf
<1>7. ASSUME NEW g \in new.groups PROVE g \subseteq EnabledIds(new)
  BY <1>3, <1>4, <1>5
<1>8. ASSUME NEW p \in GeneratedPrompts(grouped) PROVE p.tools \subseteq EnabledIds(grouped)
  <2>1. CASE p = ExplorePrompt(grouped)
    BY <2>1 DEF ExplorePrompt
  <2>2. CASE p = SafeDiscoveryPrompt(grouped)
    BY <2>2 DEF SafeDiscoveryPrompt, EnabledIds
  <2>3. CASE p = RiskAwarePrompt(grouped)
    BY <2>3 DEF RiskAwarePrompt, RiskyOps, EnabledIds
  <2> QED
    BY <2>1, <2>2, <2>3 DEF GeneratedPrompts
<1> QED
  BY <1>4, <1>5, <1>6, <1>7, <1>8 DEF ReferencesEnabled, new
-----------------------------------------------------------------------------
(* The cost of the enhancement.                                             *)

(* Only the calls in flight can take the cost over the budget, and each by  *)
(* no more than the dearest call.                                           *)
CostsCovered ==
  /\ IsFiniteSet(Calling) /\ Cardinality(Calling) <= Concurrency
  /\ usage \in Nat
  /\ usage + Cardinality(Calling) * MaxTokens <= TokenBudget - 1 + Concurrency * MaxTokens

LEMMA DearestCall ==
  MaxTokens \in CallTokens /\ MaxTokens \in Nat /\ MaxTokens > 0 /\ \A t \in CallTokens : t <= MaxTokens
<1>1. PICK most \in CallTokens : most > 0 /\ \A t \in CallTokens : t <= most
  BY EnhancementAssumption
<1>2. MaxTokens \in CallTokens /\ \A t \in CallTokens : t <= MaxTokens
  BY <1>1 DEF MaxTokens
<1>3. MaxTokens \in Nat /\ most \in Nat /\ most <= MaxTokens
  BY <1>1, <1>2, EnhancementAssumption
<1> QED
  BY <1>1, <1>2, <1>3

LEMMA Products ==
  ASSUME NEW k \in Nat, NEW n \in Nat, NEW m \in Nat
  PROVE  /\ k * m \in Nat
         /\ (k + 1) * m = k * m + m
         /\ k <= n => k * m <= n * m
         /\ 1 <= n /\ 1 <= m => 1 <= n * m
<1>1. k * m \in Nat /\ (k + 1) * m = k * m + m
  OBVIOUS
<1>2. ASSUME k <= n PROVE k * m <= n * m
  <2>1. PICK d \in Nat : n = k + d
    <3>1. n - k \in Nat /\ n = k + (n - k)
      BY <1>2
    <3> QED
      BY <3>1
  <2>2. n * m = k * m + d * m /\ d * m \in Nat /\ k * m \in Nat
    BY <2>1
  <2> QED
    BY <2>2
<1>3. ASSUME 1 <= n, 1 <= m PROVE 1 <= n * m
  <2>1. PICK d \in Nat : n = d + 1
    <3>1. n - 1 \in Nat /\ n = (n - 1) + 1
      BY <1>3
    <3> QED
      BY <3>1
  <2>2. n * m = d * m + m /\ d * m \in Nat
    BY <2>1
  <2> QED
    BY <2>2, <1>3
<1> QED
  BY <1>1, <1>2, <1>3

(* A batch that starts counts before it is paid for.                        *)
LEMMA BatchKeepsCosts ==
  ASSUME CostsCovered, BatchStep
  PROVE  CostsCovered'
<1> DEFINE M == MaxTokens
           K == Cardinality(Calling)
           C == Concurrency
<1>1. M \in Nat /\ M > 0 /\ C \in Nat /\ C > 0 /\ TokenBudget \in Nat /\ K \in Nat
  BY DearestCall, EnhancementAssumption, FS_CardinalityType DEF CostsCovered
<1>2. PICK b \in DOMAIN progress : StartBatch(b) \/ BatchAnswered(b) \/ BatchFails(b)
  BY DEF BatchStep
<1>3. MaxTokens' = MaxTokens
  BY DEF MaxTokens
<1>4. CASE StartBatch(b) /\ usage >= TokenBudget
  <2>1. Calling' = Calling
    BY <1>4 DEF StartBatch, Calling
  <2> QED
    BY <1>3, <1>4, <2>1 DEF StartBatch, CostsCovered
<1>5. CASE StartBatch(b) /\ ~(usage >= TokenBudget)
  <2>1. Calling' = Calling \cup {b} /\ b \notin Calling
    BY <1>5 DEF StartBatch, Calling
  <2>2. IsFiniteSet(Calling') /\ Cardinality(Calling') = K + 1
    BY <2>1, FS_AddElement DEF CostsCovered
  <2>3. K < C /\ usage' = usage /\ usage \in Nat
    BY <1>5 DEF StartBatch, CostsCovered
  <2>4. (K + 1) * M <= C * M /\ (K + 1) * M \in Nat /\ C * M \in Nat
    <3>1. K + 1 <= C /\ K + 1 \in Nat
      BY <1>1, <2>3
    <3> HIDE DEF K, M, C
    <3> QED
      BY <1>1, <3>1, Products
  <2>5. usage <= TokenBudget - 1
    BY <1>1, <1>5, <2>3
  <2> DEFINE P == (K + 1) * M
             Q == C * M
  <2>6. usage + P <= TokenBudget - 1 + Q
    <3> HIDE DEF P, Q, K, M, C
    <3> QED
      BY <1>1, <2>3, <2>4, <2>5 DEF P, Q
  <2>7. K + 1 <= C
    BY <1>1, <2>3
  <2> QED
    BY <1>3, <2>2, <2>3, <2>6, <2>7 DEF CostsCovered
<1>6. CASE BatchAnswered(b) \/ BatchFails(b)
  <2>1. Calling' = Calling \ {b} /\ b \in Calling
    BY <1>6 DEF BatchAnswered, BatchFails, Calling
  <2>2. IsFiniteSet(Calling') /\ Cardinality(Calling') = K - 1
    BY <2>1, FS_RemoveElement DEF CostsCovered
  <2>3. PICK t \in Nat : t <= M /\ usage' = usage + t
    <3>1. CASE BatchAnswered(b)
      BY <3>1, DearestCall, EnhancementAssumption DEF BatchAnswered
    <3>2. CASE BatchFails(b)
      <4>1. usage' = usage + 0 /\ 0 <= M
        BY <3>2, <1>1 DEF BatchFails, CostsCovered
      <4> QED
        BY <4>1
    <3> QED
      BY <1>6, <3>1, <3>2
  <2>4. K - 1 \in Nat
    BY <2>2, FS_CardinalityType
  <2>5. K * M = (K - 1) * M + M /\ (K - 1) * M \in Nat
    <3> HIDE DEF K, M
    <3>1. K = (K - 1) + 1
      BY <1>1
    <3> QED
      BY <1>1, <2>4, <3>1
  <2>6. usage \in Nat /\ K <= C /\ usage + K * M <= TokenBudget - 1 + C * M
    BY DEF CostsCovered
  <2>7. /\ usage' \in Nat /\ K - 1 <= C
        /\ usage' + (K - 1) * M <= TokenBudget - 1 + C * M
    <3> DEFINE P == (K - 1) * M
               R == K * M
               Q == C * M
    <3>1. R = P + M /\ P \in Nat /\ usage + R <= TokenBudget - 1 + Q
      BY <2>5, <2>6
    <3>2. Q \in Nat
      BY <1>1
    <3> HIDE DEF K, M, C, P, Q, R
    <3> QED
      BY <1>1, <2>3, <2>6, <3>1, <3>2 DEF P, Q
  <2> QED
    BY <1>3, <2>2, <2>7 DEF CostsCovered
<1> QED
  BY <1>2, <1>4, <1>5, <1>6

(* Enhancing starts, as every job does, with nothing spent or in flight.    *)
LEMMA NothingSpent ==
  ASSUME NEW running, NEW spent, running = {}, spent = 0
  PROVE  /\ IsFiniteSet(running) /\ Cardinality(running) <= Concurrency /\ spent \in Nat
         /\ spent + Cardinality(running) * MaxTokens <= TokenBudget - 1 + Concurrency * MaxTokens
<1> DEFINE Q == Concurrency * MaxTokens
<1>1. IsFiniteSet(running) /\ Cardinality(running) = 0
  BY FS_EmptySet
<1>2. Q \in Nat /\ 1 <= Q /\ 0 * MaxTokens = 0
  BY Products, DearestCall, EnhancementAssumption
<1>3. 0 <= TokenBudget - 1 + Q
  <2> HIDE DEF Q
  <2> QED
    BY <1>2, EnhancementAssumption
<1> QED
  BY <1>1, <1>2, <1>3, EnhancementAssumption

LEMMA CostsInductive ==
  ASSUME CostsCovered, [Next]_vars
  PROVE  CostsCovered'
<1>1. CASE EnhanceStart
  <2>1. Calling' = {} /\ usage' = 0
    BY <1>1 DEF EnhanceStart, StartEnhance, Calling
  <2> QED
    BY <2>1, NothingSpent DEF CostsCovered, MaxTokens
<1>2. CASE EnhanceBatch
  BY <1>2, BatchKeepsCosts DEF EnhanceBatch
<1>3. CASE UNCHANGED enhanceVars
  BY <1>3 DEF CostsCovered, Calling, enhanceVars, MaxTokens
<1>4. CASE vars' = vars
  BY <1>3, <1>4 DEF vars
<1> QED
  BY <1>1, <1>2, <1>3, <1>4
     DEF Next, DetectStage, ExtractStage, ExtractRestWithoutUrl, DiscoverStep,
         ExtractDiscovered, EnhancePassthrough, EnhanceEnd, ValidateIR, Generate,
         Deploy, ValidateRuntime, NothingToCall, AuditTools

(* IREnhancer.enhance, whatever the batches, the limits and the answers of  *)
(* the LLM: the token usage of a job exceeds its budget by less than what   *)
(* the calls in flight cost when the budget is reached.                     *)
THEOREM CostsAreBounded == Spec => []BudgetBounded
<1>1. Init => CostsCovered
  <2> SUFFICES ASSUME Init PROVE CostsCovered
    OBVIOUS
  <2>1. Calling = {} /\ usage = 0
    BY DEF Init, EnhanceInit, Calling
  <2> QED
    BY <2>1, NothingSpent DEF CostsCovered
<1>2. CostsCovered /\ [Next]_vars => CostsCovered'
  BY CostsInductive
<1>3. CostsCovered => BudgetBounded
  <2> SUFFICES ASSUME CostsCovered PROVE BudgetBounded
    OBVIOUS
  <2> DEFINE P == Cardinality(Calling) * MaxTokens
             Q == Concurrency * MaxTokens
  <2>1. usage \in Nat /\ usage + P <= TokenBudget - 1 + Q
    BY DEF CostsCovered
  <2>2. P \in Nat /\ Q \in Nat /\ TokenBudget \in Nat
    BY Products, DearestCall, FS_CardinalityType, EnhancementAssumption DEF CostsCovered
  <2>3. usage <= TokenBudget - 1 + Q
    <3> HIDE DEF P, Q
    <3> QED
      BY <2>1, <2>2
  <2> QED
    BY <2>3 DEF BudgetBounded
<1> QED
  BY <1>1, <1>2, <1>3, PTL DEF Spec
-----------------------------------------------------------------------------
(* What becomes of an answer.                                               *)

(* RuntimeProxy's handling of responses, for every operation and every      *)
(* answer of the upstream: an error that the protocol reports in its        *)
(* envelope is not returned as a result, and a success not as an error.     *)
THEOREM ErrorsAreReported == Spec => []AnswersTruthful
<1>1. AnswersTruthful
  <2> SUFFICES ASSUME NEW op \in HttpTools, NEW r \in Responses
               PROVE  LET enveloped == op.contract \in {"soap", "graphql", "jsonrpc"}
                                         \/ protocol \in {"odata", "scim"}
                          ok == Outcome(protocol, op, r) = "ok"
                      IN  /\ ~r.success => ~ok
                          /\ r.success /\ r.type = "readable" /\ r.body = "data" => ok
                          /\ r.body \in {"error", "malformed"} /\ enveloped /\ ok => r.type # "readable"
                          /\ op.contract \in {"soap", "graphql"} /\ ok => r.body \in {"data", "both"}
    BY DEF AnswersTruthful
  <2>1. /\ r.success \in BOOLEAN /\ r.type \in {"readable", "text", "binary"}
        /\ r.body \in {"data", "error", "malformed", "both", "other"}
    BY DEF Responses
  <2>2. Outcome(protocol, op, r) = "ok" <=>
          /\ ~ProtocolError(protocol, op, r) /\ r.success /\ ~UnwrapFails(op, r)
    BY DEF Outcome
  <2>3. ProtocolError(protocol, op, r) <=>
          \/ op.contract = "soap" /\ r.body = "error"
          \/ op.contract = "graphql" /\ Envelope(r) \in {"text", "error", "both"}
          \/ op.contract = "jsonrpc" /\ Envelope(r) \in {"error", "malformed", "both"}
          \/ protocol = "odata" /\ Envelope(r) \in {"error", "malformed", "both"}
          \/ protocol = "scim" /\ Envelope(r) \in {"error", "malformed"}
    BY DEF ProtocolError, SoapFault, GraphQLError, JsonRpcError, ODataError, ScimError
  <2>4. UnwrapFails(op, r) <=>
          \/ op.contract = "soap" /\ r.body \in {"malformed", "other"}
          \/ op.contract = "graphql" /\ Envelope(r) \notin {"data", "both"}
    BY DEF UnwrapFails, UnwrapSoapFails, UnwrapGraphQLFails
  <2>5. CASE r.type = "readable" /\ r.body # "other"
    <3>1. Envelope(r) = r.body
      BY <2>5 DEF Envelope
    <3> QED
      BY <2>1, <2>2, <2>3, <2>4, <2>5, <3>1
  <2>6. CASE ~(r.type = "readable" /\ r.body # "other")
    <3>1. Envelope(r) \in {"text", "binary"}
      BY <2>6 DEF Envelope
    <3> QED
      BY <2>1, <2>2, <2>3, <2>4, <2>6, <3>1
  <2> QED
    BY <2>5, <2>6
<1> QED
  BY <1>1, PTL
-----------------------------------------------------------------------------
(* Which extractor a source goes to, and when it fails.                     *)
LEMMA Confident ==
  ASSUME NEW s, NEW p \in ToSet(Extractors)
  PROVE  Confidence(s)[p] \in 0 .. 100
<1>1. p \in {"openapi", "graphql", "grpc", "soap", "odata", "scim", "jsonrpc",
             "asyncapi", "sql", "cli", "rest"}
  BY DEF ToSet, Extractors
<1>2. /\ OpenAPIDetect(s) \in 0 .. 100 /\ GraphQLDetect(s) \in 0 .. 100
      /\ GrpcDetect(s) \in 0 .. 100 /\ SoapDetect(s) \in 0 .. 100
  BY DEF OpenAPIDetect, GraphQLDetect, GrpcDetect, SoapDetect
<1>3. /\ ODataDetect(s) \in 0 .. 100 /\ ScimDetect(s) \in 0 .. 100
      /\ JsonRpcDetect(s) \in 0 .. 100
  BY DEF ODataDetect, ScimDetect, JsonRpcDetect
<1>4. /\ AsyncAPIDetect(s) \in 0 .. 100 /\ SqlDetect(s) \in 0 .. 100
      /\ CliDetect(s) \in 0 .. 100 /\ RestDetect(s) \in 0 .. 100
  BY DEF AsyncAPIDetect, SqlDetect, CliDetect, RestDetect
<1> QED
  BY <1>1, <1>2, <1>3, <1>4 DEF Confidence

(* The detector takes one that is sure, and none is surer.                  *)
LEMMA MostConfident ==
  ASSUME NEW s, Detect(s) # "none"
  PROVE  /\ Detect(s) \in ToSet(Extractors)
         /\ Confidence(s)[Detect(s)] # 0
         /\ \A p \in ToSet(Extractors) : Confidence(s)[p] <= Confidence(s)[Detect(s)]
<1> DEFINE c == Confidence(s)
           D == DOMAIN Extractors
           best == {i \in D : \A j \in D : c[Extractors[j]] <= c[Extractors[i]]}
           first == CHOOSE i \in best : \A j \in best : i <= j
           T == {100 - c[Extractors[i]] : i \in D}
<1>1. D = 1 .. 11 /\ \A i \in D : Extractors[i] \in ToSet(Extractors)
  BY DEF Extractors, ToSet
<1>2. \A p \in ToSet(Extractors) : \E i \in D : Extractors[i] = p
  BY DEF ToSet
<1>3. Detect(s) = IF c[Extractors[first]] = 0 THEN "none" ELSE Extractors[first]
  BY DEF Detect
<1>4. \A i \in D : c[Extractors[i]] \in 0 .. 100
  BY <1>1, Confident
<1> HIDE DEF c, D
<1>5. \E i \in D : \A j \in D : c[Extractors[j]] <= c[Extractors[i]]
  <2>1. T \in SUBSET Nat /\ T # {}
    <3>1. \A a \in 0 .. 100 : 100 - a \in Nat
      OBVIOUS
    <3>2. \A i \in D : 100 - c[Extractors[i]] \in Nat
      BY <1>4, <3>1, Zenon
    <3>3. 1 \in D
      BY <1>1
    <3> QED
      BY <3>2, <3>3, ZenonT(40)
  <2>2. PICK n \in T : \A m \in T : n <= m
    BY <2>1, LeastNumber
  <2>3. PICK i \in D : n = 100 - c[Extractors[i]]
    BY <2>2
  <2>4. ASSUME NEW j \in D PROVE c[Extractors[j]] <= c[Extractors[i]]
    <3>1. n <= 100 - c[Extractors[j]]
      BY <2>2
    <3>2. \A a, b \in 0 .. 100 : 100 - a <= 100 - b => b <= a
      OBVIOUS
    <3> QED
      BY <1>4, <2>3, <3>1, <3>2, Zenon
  <2> QED
    BY <2>4
<1>6. best \in SUBSET Nat /\ best # {}
  BY <1>1, <1>5
<1>7. first \in best
  <2>1. \E i \in best : \A j \in best : i <= j
    BY <1>6, LeastNumber
  <2> HIDE DEF best
  <2> QED
    BY <2>1
<1>8. Detect(s) = Extractors[first] /\ c[Extractors[first]] # 0
  BY <1>3
<1> HIDE DEF first
<1>9. first \in D /\ \A j \in D : c[Extractors[j]] <= c[Extractors[first]]
  BY <1>7
<1> QED
  BY <1>1, <1>2, <1>8, <1>9 DEF c

(* An extractor that is at all sure accepts the source, or went by a mark   *)
(* of it.                                                                   *)
LEMMA SureOfIt ==
  ASSUME NEW s, NEW p \in ToSet(Extractors) \ {"rest"}, Confidence(s)[p] # 0
  PROVE  Misled(p, s) \/ Accepts(p, s)
<1>1. p \in {"openapi", "graphql", "grpc", "soap", "odata", "scim", "jsonrpc",
             "asyncapi", "sql", "cli"}
  BY DEF ToSet, Extractors
<1>2. CASE p = "openapi"
  BY <1>2 DEF Confidence, OpenAPIDetect, Has, Mentions, Misled, Accepts
<1>3. CASE p \in {"graphql", "grpc", "soap"}
  BY <1>3 DEF Confidence, GraphQLDetect, GrpcDetect, SoapDetect, Has, Mentions, Misled, Accepts
<1>4. CASE p \in {"odata", "scim"}
  BY <1>4 DEF Confidence, ODataDetect, ScimDetect, Has, Mentions, Misled, Accepts
<1>5. CASE p = "jsonrpc"
  BY <1>5 DEF Confidence, JsonRpcDetect, Has, Misled, Accepts
<1>6. CASE p \in {"asyncapi", "sql", "cli"}
  BY <1>6 DEF Confidence, AsyncAPIDetect, SqlDetect, CliDetect, Has, Mentions, Misled, Accepts
<1> QED
  BY <1>1, <1>2, <1>3, <1>4, <1>5, <1>6

(* What an extractor that is as sure as can be has seen.                    *)
SureShapes(p) ==
  CASE p = "openapi" -> {"openapi", "swagger"}
    [] p = "graphql" -> {"introspection"}
    [] p = "grpc" -> {"proto"}
    [] p = "soap" -> {"wsdl"}
    [] p = "jsonrpc" -> {"openrpc"}
    [] p = "sql" -> {"database"}
    [] OTHER -> {}

(* The two marks that make an extractor as sure as the content can.         *)
StrongMark(p, s) ==
  \/ p = "odata" /\ s.name = "$metadata"
  \/ p = "openapi" /\ s.shape \in Prose /\ "openapi" \in s.words

LEMMA VerySure ==
  ASSUME NEW s, NEW p \in ToSet(Extractors), Confidence(s)[p] >= 95
  PROVE  s.shape \in SureShapes(p) \/ StrongMark(p, s)
<1>1. p \in {"openapi", "graphql", "grpc", "soap", "odata", "scim", "jsonrpc",
             "asyncapi", "sql", "cli", "rest"}
  BY DEF ToSet, Extractors
<1>2. CASE p = "openapi"
  BY <1>2 DEF Confidence, OpenAPIDetect, Has, Mentions, SureShapes, StrongMark
<1>3. CASE p \in {"graphql", "grpc", "soap"}
  BY <1>3 DEF Confidence, GraphQLDetect, GrpcDetect, SoapDetect, Has, SureShapes
<1>4. CASE p \in {"odata", "scim", "jsonrpc"}
  BY <1>4 DEF Confidence, ODataDetect, ScimDetect, JsonRpcDetect, Has, SureShapes, StrongMark
<1>5. CASE p \in {"asyncapi", "sql", "cli", "rest"}
  BY <1>5 DEF Confidence, AsyncAPIDetect, SqlDetect, CliDetect, RestDetect, SureShapes
<1> QED
  BY <1>1, <1>2, <1>3, <1>4, <1>5

(* No two extractors are as sure as can be of one document, but for those   *)
(* marks.                                                                   *)
LEMMA OneIsSure ==
  ASSUME NEW s, NEW p \in ToSet(Extractors), NEW q \in ToSet(Extractors), p # q,
         Confidence(s)[p] >= 95, Confidence(s)[q] >= 95, Accepts(p, s)
  PROVE  StrongMark(q, s)
<1>1. /\ p \in {"openapi", "graphql", "grpc", "soap", "odata", "scim", "jsonrpc",
                "asyncapi", "sql", "cli", "rest"}
      /\ q \in {"openapi", "graphql", "grpc", "soap", "odata", "scim", "jsonrpc",
                "asyncapi", "sql", "cli", "rest"}
  BY DEF ToSet, Extractors
<1>2. s.shape \in SureShapes(p) \/ (p = "odata" /\ s.shape = "edmx")
  <2>1. StrongMark(p, s) => p = "odata" /\ s.shape = "edmx"
    BY DEF Accepts, StrongMark, Prose
  <2> QED
    BY <2>1, VerySure
<1>3. SureShapes(p) \cap SureShapes(q) = {} /\ "edmx" \notin SureShapes(q)
  BY <1>1 DEF SureShapes
<1> QED
  BY <1>2, <1>3, VerySure

LEMMA ControlInductive ==
  ASSUME ControlInv, [Next]_vars
  PROVE  ControlInv'
<1> USE DEF ControlInv, Stages
<1>1. UNCHANGED job /\ site' = site => Requested'
  BY DEF Requested
<1>2. job' = job => Detected' = Detected
  BY DEF Detected
<1>3. CASE DetectStage
  <2>1. UNCHANGED <<job, site>>
    BY <1>3 DEF DetectStage, Raise, crawlVars
  <2>2. CASE Detected = "none"
    BY <1>1, <1>3, <2>1, <2>2 DEF DetectStage, Raise, Staged, ChosenProtocol, RaisedFor
  <2>3. CASE Detected # "none"
    BY <1>1, <1>2, <1>3, <2>1, <2>3 DEF DetectStage, Staged, ChosenProtocol, RaisedFor
  <2> QED
    BY <2>2, <2>3
<1>4. CASE ExtractStage
  <2>1. UNCHANGED <<job, site>>
    BY <1>4 DEF ExtractStage, Raise, Extract, crawlVars
  <2>2. CASE ExtractRaises(protocol, job.source)
    BY <1>1, <1>2, <1>4, <2>1, <2>2 DEF ExtractStage, Raise, Staged, ChosenProtocol, RaisedFor
  <2>3. CASE ~ExtractRaises(protocol, job.source)
    BY <1>1, <1>2, <1>4, <2>1, <2>3 DEF ExtractStage, Extract, Staged, ChosenProtocol, RaisedFor
  <2> QED
    BY <2>2, <2>3
<1>5. CASE Raise /\ UNCHANGED crawlVars /\ stage \in Stages \ {"detect", "failed"}
             /\ (stage = "extract" => protocol = "rest")
  BY <1>1, <1>2, <1>5 DEF Raise, crawlVars, Staged, ChosenProtocol, RaisedFor
<1>6. CASE /\ UNCHANGED <<job, protocol, failedAt>> /\ site' = site
           /\ stage \in Stages \ {"detect", "failed"} /\ stage' \in Stages \ {"detect", "failed"}
  BY <1>1, <1>2, <1>6 DEF Staged, ChosenProtocol, RaisedFor
<1>7. CASE ExtractRestWithoutUrl
  BY <1>5, <1>7 DEF ExtractRestWithoutUrl
<1>8. CASE DiscoverStep
  <2>1. site' = site
    BY <1>8 DEF DiscoverStep, StartCrawl, CrawlNext, FetchPage, FetchPageDetailLost, SkipVisited,
                CrawlEnds, ProbeAllowedMethods, MethodsKnown, Infer, PassesUsedUp, SeedMutation
  <2> QED
    BY <1>6, <1>8, <2>1 DEF DiscoverStep, ownVars
<1>9. CASE ExtractDiscovered
  BY <1>5, <1>6, <1>9 DEF ExtractDiscovered, Extract, crawlVars
<1>10. CASE EnhancePassthrough \/ EnhanceStart \/ EnhanceBatch
  BY <1>6, <1>10 DEF EnhancePassthrough, EnhanceStart, EnhanceBatch, ownVars, crawlVars
<1>11. CASE EnhanceEnd
  BY <1>5, <1>6, <1>11 DEF EnhanceEnd, crawlVars
<1>12. CASE \E answer \in TokenAnswers : ValidateIR(answer)
  BY <1>5, <1>6, <1>12 DEF ValidateIR, crawlVars
<1>13. CASE Generate \/ Deploy
  BY <1>6, <1>13 DEF Generate, Deploy, crawlVars
<1>14. CASE ValidateRuntime
  <2>1. \/ stage' = "serving" /\ failedAt' = failedAt
        \/ stage' = "failed" /\ failedAt' = stage
    BY <1>14 DEF ValidateRuntime
  <2>2. UNCHANGED <<job, protocol, site>> /\ stage = "validate_runtime"
    BY <1>14 DEF ValidateRuntime, crawlVars
  <2> QED
    BY <1>1, <1>2, <2>1, <2>2 DEF Staged, ChosenProtocol, RaisedFor
<1>15. CASE NothingToCall
  BY <1>5, <1>15 DEF NothingToCall
<1>16. CASE AuditTools
  BY <1>6, <1>16 DEF AuditTools, crawlVars
<1>17. CASE UNCHANGED vars
  BY <1>1, <1>2, <1>17 DEF vars, ownVars, crawlVars, Staged, ChosenProtocol, RaisedFor
<1> QED
  BY <1>3, <1>4, <1>7, <1>8, <1>9, <1>10, <1>11, <1>12, <1>13, <1>14, <1>15, <1>16, <1>17 DEF Next

LEMMA ControlAlways == Spec => []ControlInv
<1>1. Init => ControlInv
  BY DEF Init, CrawlInit, ControlInv, Requested, Staged, Stages, ChosenProtocol, RaisedFor
<1>2. ControlInv /\ [Next]_vars => ControlInv'
  BY ControlInductive
<1> QED
  BY <1>1, <1>2, PTL DEF Spec

(* TypeDetector and the extractors, for every source: when no protocol is   *)
(* forced, extraction fails only when the chosen extractor was misled by a  *)
(* word, a name or a probe, or when the document contradicts itself; and a  *)
(* document that an extractor is as sure of as can be and could have read   *)
(* is lost only to OData, by its name, or to OpenAPI, by a mention.         *)
THEOREM DetectionIsSound == Spec => []DetectedExtracts
<1>1. ControlInv => DetectedExtracts
  <2> SUFFICES ASSUME ControlInv, failedAt = "extract", job.forced = "none", protocol # "rest"
               PROVE  DetectedExtracts
    BY DEF DetectedExtracts
  <2> DEFINE s == job.source
  <2>1. protocol = Detect(s) /\ protocol # "none"
    BY DEF ControlInv, ChosenProtocol, Staged, Detected
  <2>2. ExtractRaises(protocol, s)
    BY DEF ControlInv, RaisedFor
  <2>3. /\ protocol \in ToSet(Extractors) /\ Confidence(s)[protocol] # 0
        /\ \A p \in ToSet(Extractors) : Confidence(s)[p] <= Confidence(s)[protocol]
    BY <2>1, MostConfident
  <2>4. Misled(protocol, s) \/ Accepts(protocol, s)
    BY <2>3, SureOfIt
  <2>5. ASSUME NEW p \in ToSet(Extractors), Confidence(s)[p] >= 95, ~ExtractRaises(p, s)
        PROVE  StrongMark(protocol, s)
    <3>1. p # protocol
      BY <2>2, <2>5
    <3>2. Confidence(s)[protocol] >= 95
      <4>1. Confidence(s)[protocol] \in 0 .. 100 /\ Confidence(s)[p] \in 0 .. 100
        BY <2>3, Confident
      <4>2. Confidence(s)[p] <= Confidence(s)[protocol]
        BY <2>3
      <4> QED
        BY <2>5, <4>1, <4>2
    <3>3. Accepts(p, s)
      BY <2>5 DEF ExtractRaises
    <3> QED
      BY <2>3, <2>5, <3>1, <3>2, <3>3, OneIsSure
  <2> QED
    BY <2>4, <2>5 DEF DetectedExtracts, StrongMark
<1> QED
  BY <1>1, ControlAlways, PTL
-----------------------------------------------------------------------------
(* What the extractors make.                                                *)
LEMMA OperationIsFresh ==
  ASSUME NEW id, NEW method, NEW contract, NEW level
  PROVE  /\ Fresh(Operation(id, method, contract, level))
         /\ Operation(id, method, contract, level).writes \in BOOLEAN
         /\ Operation(id, method, contract, level).destructive \in BOOLEAN
BY DEF Fresh, IsOp, Operation

(* A field that is set afterwards.                                          *)
LEMMA FreshField ==
  ASSUME NEW op, Fresh(op), NEW v
  PROVE  /\ Fresh([op EXCEPT !.open = v]) /\ Fresh([op EXCEPT !.body = v])
         /\ Fresh([op EXCEPT !.writes = v]) /\ Fresh([op EXCEPT !.destructive = v])
         /\ Fresh([op EXCEPT !.at = v]) /\ Fresh([op EXCEPT !.conf = v])
         /\ Fresh([op EXCEPT !.id = v])
<1>1. Fresh([op EXCEPT !.open = v])
  BY DEF Fresh, IsOp
<1>2. Fresh([op EXCEPT !.body = v])
  BY DEF Fresh, IsOp
<1>3. Fresh([op EXCEPT !.writes = v])
  BY DEF Fresh, IsOp
<1>4. Fresh([op EXCEPT !.destructive = v])
  BY DEF Fresh, IsOp
<1>5. Fresh([op EXCEPT !.at = v])
  BY DEF Fresh, IsOp
<1>6. Fresh([op EXCEPT !.conf = v])
  BY DEF Fresh, IsOp
<1>7. Fresh([op EXCEPT !.id = v])
  BY DEF Fresh, IsOp
<1> QED
  BY <1>1, <1>2, <1>3, <1>4, <1>5, <1>6, <1>7

LEMMA FreshExcept ==
  ASSUME NEW op, Fresh(op), NEW v, NEW w
  PROVE  /\ Fresh([op EXCEPT !.open = v, !.body = w])
         /\ Fresh([op EXCEPT !.writes = v, !.destructive = w])
         /\ Fresh([op EXCEPT !.at = v, !.conf = w])
<1>1. /\ Fresh([op EXCEPT !.open = v]) /\ Fresh([op EXCEPT !.writes = v])
      /\ Fresh([op EXCEPT !.at = v])
  BY FreshField, Zenon
<1>2. Fresh([[op EXCEPT !.open = v] EXCEPT !.body = w])
  BY <1>1, FreshField, Zenon
<1>3. Fresh([[op EXCEPT !.writes = v] EXCEPT !.destructive = w])
  BY <1>1, FreshField, Zenon
<1>4. Fresh([[op EXCEPT !.at = v] EXCEPT !.conf = w])
  BY <1>1, FreshField, Zenon
<1>5. [op EXCEPT !.open = v, !.body = w] = [[op EXCEPT !.open = v] EXCEPT !.body = w]
  OBVIOUS
<1>6. [op EXCEPT !.writes = v, !.destructive = w]
        = [[op EXCEPT !.writes = v] EXCEPT !.destructive = w]
  OBVIOUS
<1>7. [op EXCEPT !.at = v, !.conf = w] = [[op EXCEPT !.at = v] EXCEPT !.conf = w]
  OBVIOUS
<1> QED
  BY <1>2, <1>3, <1>4, <1>5, <1>6, <1>7, Zenon

LEMMA ShortSequences ==
  ASSUME NEW S
  PROVE  /\ <<>> \in Seq(S)
         /\ \A x \in S : <<x>> \in Seq(S)
         /\ \A x, y \in S : <<x, y>> \in Seq(S)
         /\ \A x, y, z, u \in S : <<x, y, z, u>> \in Seq(S)
OBVIOUS

LEMMA ItemOpsAre ==
  ASSUME NEW p, NEW s, NEW item
  PROVE  ItemOps(p, s, item) \in Seq(OpsOf(p, s, item))
<1> DEFINE S == OpsOf(p, s, item)
<1>1. CASE p \in {"openapi", "graphql", "grpc", "soap", "jsonrpc"}
  <2>1. ItemOps(p, s, item) = <<>> \/ \E op \in S : ItemOps(p, s, item) = <<op>>
    <3>1. CASE p = "openapi"
      BY <3>1 DEF ItemOps, OpsOf
    <3>2. CASE p = "graphql"
      BY <3>2 DEF ItemOps, OpsOf
    <3>3. CASE p = "grpc"
      BY <3>3 DEF ItemOps, OpsOf
    <3>4. CASE p = "soap" \/ p = "jsonrpc"
      BY <3>4 DEF ItemOps, OpsOf
    <3> QED
      BY <1>1, <3>1, <3>2, <3>3, <3>4
  <2> HIDE DEF S
  <2>2. ItemOps(p, s, item) \in Seq(S)
    BY <2>1, ShortSequences
  <2> QED
    BY <2>2 DEF S
<1>2. CASE p = "odata"
  <2>1. EntityReads(item.name) \in Seq(S) /\ EntityWrites(item.name) \in Seq(S)
    BY <1>2 DEF EntityReads, EntityWrites, OpsOf, EntityOps
  <2>2. EntitySetOperations(item.name) \in Seq(S)
    BY <2>1, ConcatProperties DEF EntitySetOperations
  <2>3. <<ImportOperation(item)>> \in Seq(S)
    BY <1>2 DEF OpsOf
  <2> QED
    BY <1>2, <2>2, <2>3 DEF ItemOps
<1>3. CASE p = "scim"
  <2> DEFINE N == item.name
             a == <<ScimOperation("list", N, "GET"), ScimOperation("get", N, "GET"),
                    ScimOperation("create", N, "POST"), ScimOperation("update", N, "PUT")>>
             b == IF item.kind = "patch" THEN <<ScimOperation("patch", N, "PATCH")>> ELSE <<>>
             c == <<ScimOperation("delete", N, "DELETE")>>
  <2>0. ScimOps(N) \subseteq S
    BY <1>3 DEF OpsOf
  <2>1. a \in Seq(S) /\ b \in Seq(S) /\ c \in Seq(S)
    <3> HIDE DEF S
    <3>1. /\ ScimOperation("list", N, "GET") \in S /\ ScimOperation("get", N, "GET") \in S
          /\ ScimOperation("create", N, "POST") \in S /\ ScimOperation("update", N, "PUT") \in S
          /\ ScimOperation("patch", N, "PATCH") \in S /\ ScimOperation("delete", N, "DELETE") \in S
      BY <2>0, Zenon DEF ScimOps
    <3> QED
      BY <3>1, ShortSequences
  <2>2. ScimResourceOperations(item) = a \o b \o c
    BY DEF ScimResourceOperations, ScimOperation
  <2>3. a \o b \o c \in Seq(S)
    <3> HIDE DEF a, b, c, S
    <3>1. a \o b \in Seq(S)
      BY <2>1, ConcatProperties
    <3> QED
      BY <2>1, <3>1, ConcatProperties
  <2>4. <<ScimGlobalOperation(item)>> \in Seq(S)
    BY <1>3 DEF OpsOf
  <2> QED
    BY <1>3, <2>2, <2>3, <2>4 DEF ItemOps
<1>4. CASE p = "asyncapi"
  <2> DEFINE o == ObserveOperation(item)
             q == PublishOperation(item)
  <2>1. /\ <<o>> \in Seq(S) /\ <<q>> \in Seq(S) /\ <<>> \in Seq(S)
    BY <1>4 DEF OpsOf
  <2>2. V2ChannelOperations(item) \in Seq(S)
    BY <2>1, ConcatProperties DEF V2ChannelOperations
  <2>3. V3Operations(item) \in Seq(S)
    BY <2>1 DEF V3Operations
  <2> QED
    BY <1>4, <2>2, <2>3 DEF ItemOps, ChannelOperations
<1>5. CASE p = "sql"
  <2> DEFINE a == <<QueryOperation(item)>>
             b == IF item.kind = "view" THEN <<>> ELSE <<InsertOperation(item)>>
             c == IF item.kind # "keyed" THEN <<>>
                  ELSE <<UpdateOperation(item), DeleteOperation(item)>>
  <2>0. /\ QueryOperation(item) \in S /\ InsertOperation(item) \in S
        /\ UpdateOperation(item) \in S /\ DeleteOperation(item) \in S
    BY <1>5 DEF OpsOf
  <2>1. a \in Seq(S) /\ b \in Seq(S) /\ c \in Seq(S)
    <3> HIDE DEF S
    <3> QED
      BY <2>0, ShortSequences
  <2>2. RelationOperations(item) = a \o b \o c
    BY DEF RelationOperations
  <2>3. a \o b \o c \in Seq(S)
    <3> HIDE DEF a, b, c, S
    <3>1. a \o b \in Seq(S)
      BY <2>1, ConcatProperties
    <3> QED
      BY <2>1, <3>1, ConcatProperties
  <2> QED
    BY <1>5, <2>2, <2>3 DEF ItemOps
<1>6. CASE p \notin {"openapi", "graphql", "grpc", "soap", "odata", "scim", "jsonrpc",
                     "asyncapi", "sql"}
  <2>1. ItemOps(p, s, item) = <<CommandOperation(item)>> /\ CommandOperation(item) \in S
    BY <1>6 DEF ItemOps, OpsOf
  <2> QED
    BY <2>1, ShortSequences, Zenon
<1> QED
  BY <1>1, <1>2, <1>3, <1>4, <1>5, <1>6

LEMMA ItemOpsFresh ==
  ASSUME NEW p, NEW s, NEW item, NEW op \in OpsOf(p, s, item)
  PROVE  Fresh(op)
<1>1. CASE p = "openapi"
  <2>1. op = OpenAPIOperation(item)
    BY <1>1 DEF OpsOf
  <2> QED
    BY <2>1, OperationIsFresh, FreshField, FreshExcept, Zenon DEF OpenAPIOperation
<1>2. CASE p \in {"graphql", "grpc", "soap", "jsonrpc"}
  <2>1. op \in {GraphQLOperation(item), GrpcOperation(item), SoapOperation(item),
                JsonRpcOperation(item)}
    BY <1>2 DEF OpsOf
  <2> QED
    BY <2>1, OperationIsFresh, Zenon
       DEF GraphQLOperation, GrpcOperation, SoapOperation, JsonRpcOperation
<1>3. CASE p = "odata"
  <2>1. op = ImportOperation(item) \/ op \in EntityOps(item.name)
    BY <1>3 DEF OpsOf
  <2>2. Fresh(ImportOperation(item))
    BY OperationIsFresh, Zenon DEF ImportOperation
  <2>3. \A verb, name, method : Fresh(EntityOperation(verb, name, method))
    BY OperationIsFresh, FreshField, FreshExcept, Zenon DEF EntityOperation
  <2> QED
    BY <2>1, <2>2, <2>3, Zenon DEF EntityOps
<1>4. CASE p = "scim"
  <2>1. op = ScimGlobalOperation(item) \/ op \in ScimOps(item.name)
    BY <1>4 DEF OpsOf
  <2>2. Fresh(ScimGlobalOperation(item))
    BY OperationIsFresh, FreshField, FreshExcept, Zenon DEF ScimGlobalOperation
  <2>3. \A verb, name, method : Fresh(ScimOperation(verb, name, method))
    BY OperationIsFresh, FreshField, FreshExcept, Zenon DEF ScimOperation
  <2> QED
    BY <2>1, <2>2, <2>3, Zenon DEF ScimOps
<1>5. CASE p \in {"asyncapi", "sql"}
  <2>1. op \in {ObserveOperation(item), PublishOperation(item), QueryOperation(item),
                InsertOperation(item), UpdateOperation(item), DeleteOperation(item)}
    BY <1>5 DEF OpsOf
  <2> QED
    BY <2>1, OperationIsFresh, Zenon
       DEF ObserveOperation, PublishOperation, QueryOperation, InsertOperation,
           UpdateOperation, DeleteOperation
<1>6. CASE p \notin {"openapi", "graphql", "grpc", "soap", "odata", "scim", "jsonrpc",
                     "asyncapi", "sql"}
  <2>1. op = CommandOperation(item)
    BY <1>6 DEF OpsOf
  <2> QED
    BY <2>1, OperationIsFresh, FreshField, FreshExcept, Zenon DEF CommandOperation
<1> QED
  BY <1>1, <1>2, <1>3, <1>4, <1>5, <1>6

(* The operations of a source are those of its items, in order.             *)
LEMMA ExtractedIs ==
  ASSUME NEW p, NEW s
  PROVE  /\ IsService(Extracted(p, s))
         /\ Extracted(p, s).ops = FlattenSeq([i \in DOMAIN s.items |-> ItemOps(p, s, s.items[i])])
         /\ Extracted(p, s).groups = {} /\ Extracted(p, s).prompts = {}
<1> DEFINE F == [i \in DOMAIN s.items |-> ItemOps(p, s, s.items[i])]
           Made(service) == /\ IsService(service) /\ service.ops = FlattenSeq(F)
                            /\ service.groups = {} /\ service.prompts = {}
<1>0. ASSUME NEW G, NEW events, NEW auth, G = F PROVE Made(Service(FlattenSeq(G), events, auth))
  BY <1>0 DEF Service, IsService
<1> SUFFICES Made(Extracted(p, s))
  OBVIOUS
<1>1. CASE p = "openapi"
  <2>1. F = [i \in DOMAIN s.items |-> IF s.items[i].kind = "webhook" THEN <<>>
                                      ELSE <<OpenAPIOperation(s.items[i])>>]
    BY <1>1 DEF ItemOps
  <2> HIDE DEF F, Made
  <2>2. Extracted(p, s) = OpenAPIExtract(s)
    BY <1>1 DEF Extracted
  <2> QED
    BY <1>0, <2>1, <2>2, Zenon DEF OpenAPIExtract, Each
<1>2. CASE p = "graphql"
  <2>1. F = [i \in DOMAIN s.items |-> IF s.items[i].kind = "subscription" THEN <<>>
                                      ELSE <<GraphQLOperation(s.items[i])>>]
    BY <1>2 DEF ItemOps
  <2> HIDE DEF F, Made
  <2>2. Extracted(p, s) = GraphQLExtract(s)
    BY <1>2 DEF Extracted
  <2> QED
    BY <1>0, <2>1, <2>2, Zenon DEF GraphQLExtract, Each
<1>3. CASE p = "grpc"
  <2>1. F = [i \in DOMAIN s.items |-> IF s.items[i].kind = "unary" \/ NativeStream(s, s.items[i])
                                      THEN <<GrpcOperation(s.items[i])>> ELSE <<>>]
    BY <1>3 DEF ItemOps
  <2> HIDE DEF F, Made
  <2>2. Extracted(p, s) = GrpcExtract(s)
    BY <1>3 DEF Extracted
  <2> QED
    BY <1>0, <2>1, <2>2, Zenon DEF GrpcExtract, Each
<1>4. CASE p = "soap"
  <2>1. F = [i \in DOMAIN s.items |-> <<SoapOperation(s.items[i])>>]
    BY <1>4 DEF ItemOps
  <2> HIDE DEF F, Made
  <2>2. Extracted(p, s) = SoapExtract(s)
    BY <1>4 DEF Extracted
  <2> QED
    BY <1>0, <2>1, <2>2, Zenon DEF SoapExtract, Each
<1>5. CASE p = "odata"
  <2>1. F = [i \in DOMAIN s.items |-> IF s.items[i].kind = "set"
                                      THEN EntitySetOperations(s.items[i].name)
                                      ELSE <<ImportOperation(s.items[i])>>]
    BY <1>5 DEF ItemOps
  <2> HIDE DEF F, Made
  <2>2. Extracted(p, s) = ODataExtract(s)
    BY <1>5 DEF Extracted
  <2> QED
    BY <1>0, <2>1, <2>2, Zenon DEF ODataExtract, Each
<1>6. CASE p = "scim"
  <2>1. F = [i \in DOMAIN s.items |-> IF s.items[i].kind \in {"bulk", "password"}
                                      THEN <<ScimGlobalOperation(s.items[i])>>
                                      ELSE ScimResourceOperations(s.items[i])]
    BY <1>6 DEF ItemOps
  <2> HIDE DEF F, Made
  <2>2. Extracted(p, s) = ScimExtract(s)
    BY <1>6 DEF Extracted
  <2> QED
    BY <1>0, <2>1, <2>2, Zenon DEF ScimExtract, Each
<1>7. CASE p = "jsonrpc"
  <2>1. F = [i \in DOMAIN s.items |-> <<JsonRpcOperation(s.items[i])>>]
    BY <1>7 DEF ItemOps
  <2> HIDE DEF F, Made
  <2>2. Extracted(p, s) = JsonRpcExtract(s)
    BY <1>7 DEF Extracted
  <2> QED
    BY <1>0, <2>1, <2>2, Zenon DEF JsonRpcExtract, Each
<1>8. CASE p = "asyncapi"
  <2>1. F = [i \in DOMAIN s.items |-> ChannelOperations(s.items[i])]
    BY <1>8 DEF ItemOps
  <2> HIDE DEF F, Made
  <2>2. Extracted(p, s) = AsyncAPIExtract(s)
    BY <1>8 DEF Extracted
  <2> QED
    BY <1>0, <2>1, <2>2, Zenon DEF AsyncAPIExtract, Each
<1>9. CASE p = "sql"
  <2>1. F = [i \in DOMAIN s.items |-> RelationOperations(s.items[i])]
    BY <1>9 DEF ItemOps
  <2> HIDE DEF F, Made
  <2>2. Extracted(p, s) = SqlExtract(s)
    BY <1>9 DEF Extracted
  <2> QED
    BY <1>0, <2>1, <2>2, Zenon DEF SqlExtract, Each
<1>10. CASE p \notin {"openapi", "graphql", "grpc", "soap", "odata", "scim", "jsonrpc",
                      "asyncapi", "sql"}
  <2>1. F = [i \in DOMAIN s.items |-> <<CommandOperation(s.items[i])>>]
    BY <1>10 DEF ItemOps
  <2> HIDE DEF F, Made
  <2>2. Extracted(p, s) = CliExtract(s)
    BY <1>10 DEF Extracted
  <2> QED
    BY <1>0, <2>1, <2>2, Zenon DEF CliExtract, Each
<1> QED
  BY <1>1, <1>2, <1>3, <1>4, <1>5, <1>6, <1>7, <1>8, <1>9, <1>10

LEMMA ItemSequences ==
  ASSUME NEW p, NEW s, NEW I, s.items \in Seq(I)
  PROVE  [i \in DOMAIN s.items |-> ItemOps(p, s, s.items[i])] \in Seq(Seq(AllOps(p, s)))
<1> DEFINE F == [i \in DOMAIN s.items |-> ItemOps(p, s, s.items[i])]
           N == Len(s.items)
<1>1. N \in Nat /\ DOMAIN s.items = 1 .. N
  BY LenProperties
<1>2. ASSUME NEW i \in DOMAIN s.items PROVE ItemOps(p, s, s.items[i]) \in Seq(AllOps(p, s))
  <2>1. OpsOf(p, s, s.items[i]) \subseteq AllOps(p, s)
    BY DEF AllOps, ToSet
  <2> QED
    BY <2>1, ItemOpsAre, SeqMonotone
<1>3. F \in [1 .. N -> Seq(AllOps(p, s))]
  BY <1>1, <1>2
<1> QED
  BY <1>1, <1>3, SeqDef

LEMMA ExtractedOps ==
  ASSUME NEW p, NEW s, NEW I, s.items \in Seq(I)
  PROVE  /\ Extracted(p, s).ops \in Seq(AllOps(p, s))
         /\ \A op \in AllOps(p, s) : Fresh(op)
<1>1. Extracted(p, s).ops \in Seq(AllOps(p, s))
  BY ExtractedIs, ItemSequences, FlattenSeqProperties
<1>2. \A op \in AllOps(p, s) : Fresh(op)
  BY ItemOpsFresh DEF AllOps
<1> QED
  BY <1>1, <1>2
-----------------------------------------------------------------------------
(* What discovery has seen are finitely many paths, with supported methods. *)
LEMMA FiniteImage ==
  ASSUME NEW f, IsFiniteSet(DOMAIN f)
  PROVE  IsFiniteSet({f[x] : x \in DOMAIN f})
<1> DEFINE T == {f[x] : x \in DOMAIN f}
           h == [x \in DOMAIN f |-> f[x]]
<1>1. h \in Surjection(DOMAIN f, T)
  BY DEF Surjection
<1> QED
  BY <1>1, FS_Surjection, Zenon

LEMMA AppendPath ==
  ASSUME NEW p, IsPath(p), NEW x
  PROVE  IsPath(Append(p, x))
<1> DEFINE S == ToSet(p) \cup {x}
<1>1. p \in Seq(S)
  BY SeqMonotone DEF IsPath
<1>2. Append(p, x) \in Seq(S) /\ ToSet(Append(p, x)) = S
  BY <1>1, ToSetAppend
<1> QED
  BY <1>2 DEF IsPath

LEMMA MergedObserved ==
  ASSUME NEW f, Observed(f), NEW g, Observed(g)
  PROVE  Observed(Replacing(f, g))
<1>1. /\ DOMAIN Replacing(f, g) = DOMAIN f \cup DOMAIN g
      /\ \A p \in DOMAIN f : Replacing(f, g)[p] = f[p]
      /\ \A p \in DOMAIN g \ DOMAIN f : Replacing(f, g)[p] = g[p]
  BY DEF Replacing
<1>2. IsFiniteSet(DOMAIN f \cup DOMAIN g)
  BY FS_Union DEF Observed
<1> QED
  BY <1>1, <1>2 DEF Observed

LEMMA EndpointIs ==
  ASSUME NEW methods, methods \subseteq Methods, NEW conf, NEW db
  PROVE  IsEndpoint(Endpoint(methods, conf, db))
BY DEF IsEndpoint, Endpoint

LEMMA ProbesSupported ==
  ASSUME Website(site), NEW p, NEW drop
  PROVE  ProbedMethods(p, drop) \subseteq Methods /\ ProbeOf(p).allow \subseteq Methods
         /\ HeadProbe(p) \subseteq Methods
<1>1. ProbeOf(p).allow \subseteq Methods
  BY DEF ProbeOf, NoProbe, Website
<1>2. HeadProbe(p) \subseteq Methods /\ GetProbe(p) \subseteq Methods
  BY DEF HeadProbe, GetProbe, Methods
<1> QED
  BY <1>1, <1>2 DEF ProbedMethods

LEMMA ProbedObserved ==
  ASSUME Website(site), NEW paths, IsFiniteSet(paths), \A p \in paths : IsPath(p), NEW dropped
  PROVE  Observed(Probed(paths, dropped))
<1> DEFINE D == {p \in paths : ProbedMethods(p, p = dropped) # {}}
           f == [p \in D |-> Endpoint(ProbedMethods(p, p = dropped), 85, FALSE)]
<1>1. Probed(paths, dropped) = f
  BY DEF Probed
<1>2. IsFiniteSet(D)
  BY FS_Subset
<1>3. ASSUME NEW p \in D PROVE IsPath(p) /\ IsEndpoint(f[p])
  <2>1. f[p] = Endpoint(ProbedMethods(p, p = dropped), 85, FALSE) /\ p \in paths
    OBVIOUS
  <2> QED
    BY <2>1, ProbesSupported, EndpointIs, ZenonT(40)
<1>4. DOMAIN f = D
  OBVIOUS
<1> HIDE DEF f, D
<1> QED
  BY <1>1, <1>2, <1>3, <1>4 DEF Observed

(* What one page shows.                                                     *)
Sighted(S) ==
  IsFiniteSet(S) /\ \A s \in S : IsPath(s.path) /\ IsEndpoint(s.e)

LEMMA SightingIs ==
  ASSUME NEW p, NEW methods, NEW conf, NEW db
  PROVE  /\ Sighting(p, methods, conf, db).path = p
         /\ Sighting(p, methods, conf, db).e = Endpoint(methods, conf, db)
BY DEF Sighting

LEMMA SightingGood ==
  ASSUME NEW s, NEW p, IsPath(p), NEW methods, methods \subseteq Methods, NEW conf, NEW db,
         s = Sighting(p, methods, conf, db)
  PROVE  IsPath(s.path) /\ IsEndpoint(s.e)
<1>1. s.path = p /\ s.e = Endpoint(methods, conf, db)
  BY SightingIs
<1>2. IsEndpoint(Endpoint(methods, conf, db))
  BY EndpointIs
<1> QED
  BY <1>1, <1>2

LEMMA SightedTogether ==
  ASSUME NEW S, Sighted(S), NEW T, Sighted(T)
  PROVE  Sighted(S \cup T)
BY FS_Union DEF Sighted

LEMMA SightedImage ==
  ASSUME NEW f, IsFiniteSet(DOMAIN f),
         \A x \in DOMAIN f : IsPath(f[x].path) /\ IsEndpoint(f[x].e)
  PROVE  Sighted({f[x] : x \in DOMAIN f})
BY FiniteImage DEF Sighted

LEMMA RegisterObserved ==
  ASSUME NEW obs, Observed(obs), NEW S, Sighted(S)
  PROVE  Observed(Register(obs, S))
<1> DEFINE new == Register(obs, S)
           all(p) == {s.e : s \in {s \in S : s.path = p}} \cup {obs[q] : q \in {p} \cap DOMAIN obs}
           D == DOMAIN obs \cup {s.path : s \in S}
           paths == [s \in S |-> s.path]
<1>1. new = [p \in D |-> Endpoint(UNION {e.methods : e \in all(p)}, Best({e.conf : e \in all(p)}),
                                  \E e \in all(p) : e.db)]
  BY DEF Register
<1>2. IsFiniteSet(D)
  <2>1. IsFiniteSet({paths[s] : s \in DOMAIN paths})
    <3>1. IsFiniteSet(DOMAIN paths)
      BY DEF Sighted
    <3> HIDE DEF paths
    <3> QED
      BY <3>1, FiniteImage
  <2>2. {paths[s] : s \in DOMAIN paths} = {s.path : s \in S}
    OBVIOUS
  <2> QED
    BY <2>1, <2>2, FS_Union DEF Observed
<1>3. \A p \in D : IsPath(p)
  BY DEF Observed, Sighted
<1>4. ASSUME NEW p \in D PROVE IsEndpoint(new[p])
  <2>1. \A e \in all(p) : IsEndpoint(e)
    BY DEF Observed, Sighted
  <2> DEFINE M == UNION {e.methods : e \in all(p)}
  <2>2. M \subseteq Methods
    BY <2>1 DEF IsEndpoint
  <2>3. new[p] = Endpoint(M, Best({e.conf : e \in all(p)}), \E e \in all(p) : e.db)
    BY <1>1
  <2> HIDE DEF M, all
  <2> QED
    BY <2>2, <2>3, EndpointIs, Zenon
<1>5. DOMAIN new = D
  BY <1>1
<1> HIDE DEF new, D
<1> QED
  BY <1>2, <1>3, <1>4, <1>5 DEF Observed, new

LEMMA PageObserved ==
  ASSUME Website(site), NEW obs, Observed(obs), NEW p \in DOMAIN site.pages, NEW drop
  PROVE  Observed(ObservePage(obs, p, site.pages[p], drop))
<1> DEFINE page == site.pages[p]
<1>1. /\ IsPath(p)
      /\ IsFiniteSet(page.db) /\ \A r \in page.db : IsPath(r.path)
      /\ IsFiniteSet(page.registry) /\ \A c \in page.registry : IsPath(c)
      /\ IsFiniteSet(page.links)
      /\ \A c \in page.links : IsPath(c.path) /\ c.how \in {"link", "json", "form"}
  BY DEF Website
<1>2. \A q : IsPath(q) => IsPath(DetailOf(q))
  BY AppendPath DEF DetailOf
<1> HIDE DEF page
<1>3. Sighted(JsonServerSightings(page))
  <2> DEFINE Own(r) == IF r.kind = "object" THEN {"GET", "PUT", "PATCH"} ELSE {"GET", "POST"}
             all == {"GET", "PUT", "PATCH", "DELETE"}
             f == [r \in page.db |-> Sighting(r.path, Own(r), 98, TRUE)]
             sampled == {r \in page.db : r.kind = "sampled"}
             g == [r \in sampled |-> Sighting(DetailOf(r.path), all, 97, TRUE)]
  <2>1. JsonServerSightings(page) = {f[r] : r \in DOMAIN f} \cup {g[r] : r \in DOMAIN g}
    BY DEF JsonServerSightings
  <2>2. IsFiniteSet(DOMAIN f) /\ IsFiniteSet(DOMAIN g)
    BY <1>1, FS_Subset
  <2>3. ASSUME NEW r \in DOMAIN f PROVE IsPath(f[r].path) /\ IsEndpoint(f[r].e)
    <3>1. f[r] = Sighting(r.path, Own(r), 98, TRUE) /\ r \in page.db /\ Own(r) \subseteq Methods
      BY DEF Methods
    <3> HIDE DEF f, Own
    <3> QED
      BY <1>1, <3>1, SightingGood, ZenonT(40)
  <2>4. ASSUME NEW r \in DOMAIN g PROVE IsPath(g[r].path) /\ IsEndpoint(g[r].e)
    <3>1. g[r] = Sighting(DetailOf(r.path), all, 97, TRUE) /\ r \in page.db /\ all \subseteq Methods
      BY DEF Methods
    <3> HIDE DEF g, all
    <3> QED
      BY <1>1, <1>2, <3>1, SightingGood, ZenonT(40)
  <2> HIDE DEF f, g
  <2> QED
    BY <2>1, <2>2, <2>3, <2>4, SightedImage, SightedTogether
<1>4. Sighted(EntrypointSightings(p, page))
  <2>1. CASE page.items = "none"
    BY <2>1, FS_EmptySet DEF EntrypointSightings, Sighted
  <2>2. CASE page.items # "none"
    <3> DEFINE s == Sighting(p, {"GET"}, 96, FALSE)
    <3>1. EntrypointSightings(p, page) = {s}
      BY <2>2 DEF EntrypointSightings
    <3>2. IsPath(s.path) /\ IsEndpoint(s.e)
      <4>1. {"GET"} \subseteq Methods
        BY DEF Methods
      <4> QED
        BY <1>1, <4>1, SightingGood, Zenon
    <3> HIDE DEF s
    <3> QED
      BY <3>1, <3>2, FS_Singleton DEF Sighted
  <2> QED
    BY <2>1, <2>2
<1>5. Sighted(RegistrySightings(page))
  <2> DEFINE f == [c \in page.registry |-> Sighting(c, {"GET", "POST"}, 93, FALSE)]
  <2>1. RegistrySightings(page) = {f[c] : c \in DOMAIN f} /\ IsFiniteSet(DOMAIN f)
    BY <1>1 DEF RegistrySightings
  <2>2. ASSUME NEW c \in DOMAIN f PROVE IsPath(f[c].path) /\ IsEndpoint(f[c].e)
    <3>1. f[c] = Sighting(c, {"GET", "POST"}, 93, FALSE) /\ c \in page.registry
      OBVIOUS
    <3>2. {"GET", "POST"} \subseteq Methods
      BY DEF Methods
    <3> HIDE DEF f
    <3> QED
      BY <1>1, <3>1, <3>2, SightingGood, ZenonT(40)
  <2> HIDE DEF f
  <2> QED
    BY <2>1, <2>2, SightedImage
<1>6. Sighted(CandidateSightings(page))
  <2> DEFINE S(c) == CASE c.how = "link" -> Sighting(c.path, {"GET"}, 75, FALSE)
                       [] c.how = "json" -> Sighting(c.path, {"GET"}, 70, FALSE)
                       [] c.how = "form" -> Sighting(c.path, {"POST"}, 85, FALSE)
             f == [c \in page.links |-> S(c)]
  <2>1. CandidateSightings(page) = {f[c] : c \in DOMAIN f} /\ IsFiniteSet(DOMAIN f)
    BY <1>1 DEF CandidateSightings
  <2>2. ASSUME NEW c \in DOMAIN f PROVE IsPath(f[c].path) /\ IsEndpoint(f[c].e)
    <3>1. c \in page.links /\ f[c] = S(c)
      OBVIOUS
    <3>2. \/ f[c] = Sighting(c.path, {"GET"}, 75, FALSE)
          \/ f[c] = Sighting(c.path, {"GET"}, 70, FALSE)
          \/ f[c] = Sighting(c.path, {"POST"}, 85, FALSE)
      BY <1>1, <3>1
    <3>3. {"GET"} \subseteq Methods /\ {"POST"} \subseteq Methods
      BY DEF Methods
    <3> HIDE DEF f
    <3> QED
      BY <1>1, <3>1, <3>2, <3>3, SightingGood, ZenonT(40)
  <2> HIDE DEF f
  <2> QED
    BY <2>1, <2>2, SightedImage
<1>7. Observed(EntrypointDetail(p, page, drop))
  <2> DEFINE details == IF page.items = "sampled" THEN {DetailOf(p)} ELSE {}
  <2>1. IsFiniteSet(details) /\ \A q \in details : IsPath(q)
    BY <1>1, <1>2, FS_Singleton, FS_EmptySet
  <2>2. EntrypointDetail(p, page, drop) = Probed(details, IF drop THEN DetailOf(p) ELSE NoOp)
    BY DEF EntrypointDetail
  <2> HIDE DEF details
  <2> QED
    BY <2>1, <2>2, ProbedObserved
<1> DEFINE before == Register(obs, JsonServerSightings(page) \cup EntrypointSightings(p, page))
           seen == Replacing(EntrypointDetail(p, page, drop), before)
<1>8. Observed(before)
  BY <1>3, <1>4, SightedTogether, RegisterObserved
<1>9. Observed(seen)
  <2> HIDE DEF before
  <2> QED
    BY <1>7, <1>8, MergedObserved
<1>10. ObservePage(obs, p, page, drop) = Register(seen, RegistrySightings(page) \cup CandidateSightings(page))
  BY DEF ObservePage
<1> HIDE DEF seen
<1>11. Observed(ObservePage(obs, p, page, drop))
  BY <1>5, <1>6, <1>9, <1>10, SightedTogether, RegisterObserved
<1> QED
  BY <1>11 DEF page

LEMMA CandidatesArePaths ==
  ASSUME Website(site), Observed(observed)
  PROVE  IsFiniteSet(Candidates) /\ \A p \in Candidates : IsPath(p)
<1> DEFINE Below(p) == {Append(p, r) : r \in SubResources(p)}
           From(p) == IF IsTemplate(Last(p)) THEN Below(p) ELSE {DetailOf(p)}
           named == {p \in DOMAIN observed : p # <<>>}
           f == [p \in named |-> From(p)]
<1>1. Candidates = UNION {f[p] : p \in DOMAIN f} \ DOMAIN observed
  BY DEF Candidates
<1>2. ASSUME NEW p \in named PROVE IsFiniteSet(f[p]) /\ \A q \in f[p] : IsPath(q)
  <2>1. IsPath(p)
    BY DEF Observed
  <2>2. IsFiniteSet(SubResources(p))
    BY FS_EmptySet, DiscoveryAssumption DEF SubResources, Website
  <2> DEFINE g == [r \in SubResources(p) |-> Append(p, r)]
  <2>3. IsFiniteSet({g[r] : r \in DOMAIN g})
    <3>1. IsFiniteSet(DOMAIN g)
      BY <2>2
    <3> HIDE DEF g
    <3> QED
      BY <3>1, FiniteImage
  <2>4. {g[r] : r \in DOMAIN g} = Below(p)
    OBVIOUS
  <2>5. IsFiniteSet(Below(p)) /\ \A q \in Below(p) : IsPath(q)
    <3>1. \A r : IsPath(Append(p, r))
      BY <2>1, AppendPath
    <3>2. IsFiniteSet(Below(p))
      <4> HIDE DEF g, Below
      <4> QED
        BY <2>3, <2>4
    <3> QED
      BY <3>1, <3>2
  <2>6. IsFiniteSet({DetailOf(p)}) /\ IsPath(DetailOf(p))
    BY <2>1, FS_Singleton, AppendPath DEF DetailOf
  <2> HIDE DEF Below
  <2>7. f[p] = From(p)
    OBVIOUS
  <2> QED
    BY <2>5, <2>6, <2>7
<1>3. IsFiniteSet(DOMAIN f)
  BY FS_Subset DEF Observed
<1>4. DOMAIN f = named
  OBVIOUS
<1> HIDE DEF f, From, named
<1>5. IsFiniteSet({f[p] : p \in DOMAIN f})
  BY <1>3, FiniteImage
<1>6. IsFiniteSet(UNION {f[p] : p \in DOMAIN f})
  BY <1>2, <1>4, <1>5, FS_UNION
<1>7. IsFiniteSet(Candidates)
  BY <1>1, <1>6, FS_Subset
<1> QED
  BY <1>1, <1>2, <1>4, <1>7

LEMMA ObservedKept ==
  ASSUME Website(site), Observed(observed), StartCrawl \/ CrawlNext
  PROVE  Observed(observed')
<1>1. CASE UNCHANGED observed
  BY <1>1
<1>2. CASE \E drop \in BOOLEAN : FetchPage(drop)
  <2>1. PICK drop \in BOOLEAN : FetchPage(drop)
    BY <1>2
  <2> DEFINE p == Head(queue).path
  <2>2. CASE drop \/ PageOf(p).kind = "none"
    BY <1>1, <2>1, <2>2 DEF FetchPage
  <2>3. CASE ~(drop \/ PageOf(p).kind = "none")
    <3>1. p \in DOMAIN site.pages /\ PageOf(p) = site.pages[p]
      BY <2>3 DEF PageOf, NoPage
    <3>2. observed' = ObservePage(observed, p, PageOf(p), FALSE)
      BY <2>1, <2>3 DEF FetchPage
    <3> HIDE DEF p
    <3> QED
      BY <3>1, <3>2, PageObserved
  <2> QED
    BY <2>2, <2>3
<1>3. CASE FetchPageDetailLost
  <2> DEFINE p == Head(queue).path
  <2>1. PageOf(p).kind = "json" /\ observed' = ObservePage(observed, p, PageOf(p), TRUE)
    BY <1>3 DEF FetchPageDetailLost
  <2>2. p \in DOMAIN site.pages /\ PageOf(p) = site.pages[p]
    BY <2>1 DEF PageOf, NoPage
  <2> HIDE DEF p
  <2> QED
    BY <2>1, <2>2, PageObserved
<1>4. CASE \E drop \in BOOLEAN : ProbeAllowedMethods(drop)
  <2>1. PICK drop \in BOOLEAN : ProbeAllowedMethods(drop)
    BY <1>4
  <2>2. CASE drop
    BY <1>1, <2>1, <2>2 DEF ProbeAllowedMethods
  <2>3. CASE ~drop
    <3> DEFINE p == CHOOSE p \in DOMAIN observed \ asked : TRUE
    <3>1. observed' = [observed EXCEPT ![p] = AllowedMethods(@, p)]
      BY <2>1, <2>3 DEF ProbeAllowedMethods
    <3> HIDE DEF p
    <3>2. ASSUME NEW e, IsEndpoint(e) PROVE IsEndpoint(AllowedMethods(e, p))
      <4>1. ProbeOf(p).allow \subseteq Methods /\ HeadProbe(p) \subseteq Methods
        BY ProbesSupported
      <4>2. e = [methods |-> e.methods, conf |-> e.conf, db |-> e.db] /\ e.methods \subseteq Methods
        BY <3>2 DEF IsEndpoint, Endpoint
      <4>3. CASE ProbeOf(p).options = "allow" /\ ProbeOf(p).allow # {}
        <5> DEFINE a == ProbeOf(p).allow
                   c == MaxOf(e.conf, 90)
        <5>1. AllowedMethods(e, p) = [e EXCEPT !.methods = a, !.conf = c]
          BY <4>3 DEF AllowedMethods
        <5>2. a \subseteq Methods
          BY <4>1
        <5> HIDE DEF a, c
        <5>3. [e EXCEPT !.methods = a, !.conf = c] = [methods |-> a, conf |-> c, db |-> e.db]
          <6>1. [e EXCEPT !.methods = a, !.conf = c] = [[e EXCEPT !.methods = a] EXCEPT !.conf = c]
            OBVIOUS
          <6>2. [e EXCEPT !.methods = a] = [methods |-> a, conf |-> e.conf, db |-> e.db]
            BY <4>2
          <6>3. [[methods |-> a, conf |-> e.conf, db |-> e.db] EXCEPT !.conf = c]
                  = [methods |-> a, conf |-> c, db |-> e.db]
            OBVIOUS
          <6> QED
            BY <6>1, <6>2, <6>3
        <5> QED
          BY <5>1, <5>2, <5>3 DEF IsEndpoint, Endpoint
      <4>4. CASE ~(ProbeOf(p).options = "allow" /\ ProbeOf(p).allow # {}) /\ ProbeOf(p).options = "405"
        <5> DEFINE h == HeadProbe(p)
        <5>1. AllowedMethods(e, p) = [e EXCEPT !.methods = e.methods \cup h]
          BY <4>4 DEF AllowedMethods
        <5>2. h \subseteq Methods
          BY <4>1
        <5> HIDE DEF h
        <5> QED
          BY <4>2, <5>1, <5>2 DEF IsEndpoint, Endpoint
      <4>5. CASE ~(ProbeOf(p).options = "allow" /\ ProbeOf(p).allow # {}) /\ ProbeOf(p).options # "405"
        BY <3>2, <4>5 DEF AllowedMethods
      <4> QED
        BY <4>3, <4>4, <4>5
    <3> QED
      BY <3>1, <3>2 DEF Observed
  <2> QED
    BY <2>2, <2>3
<1>5. CASE \E drop \in BOOLEAN : Infer(drop)
  <2>1. PICK dropped : observed' = Replacing(Inferred(dropped), observed)
    BY <1>5 DEF Infer
  <2>2. Observed(Inferred(dropped))
    BY CandidatesArePaths, ProbedObserved DEF Inferred
  <2> QED
    BY <2>1, <2>2, MergedObserved
<1>6. CASE SeedMutation
  <2>1. PICK proposed \in SUBSET Seeds : observed' = Replacing(Probed(proposed \ DOMAIN observed, NoOp), observed)
    BY <1>6 DEF SeedMutation
  <2> DEFINE new == proposed \ DOMAIN observed
  <2>2. IsFiniteSet(new) /\ \A p \in new : IsPath(p)
    BY FS_Subset, DiscoveryAssumption
  <2> HIDE DEF new
  <2>3. Observed(Probed(new, NoOp))
    BY <2>2, ProbedObserved
  <2> QED
    BY <2>1, <2>3, MergedObserved DEF new
<1> QED
  BY <1>1, <1>2, <1>3, <1>4, <1>5, <1>6
     DEF StartCrawl, CrawlNext, SkipVisited, CrawlEnds, MethodsKnown, PassesUsedUp
-----------------------------------------------------------------------------
(* Merging paths into templates loses nothing.                              *)
LEMMA PathIs ==
  ASSUME NEW p, IsPath(p)
  PROVE  Len(p) \in Nat /\ DOMAIN p = 1 .. Len(p) /\ p \in Seq(ToSet(p)) /\ (p # <<>> <=> Len(p) # 0)
<1>1. p \in Seq(ToSet(p))
  BY DEF IsPath
<1> QED
  BY <1>1, LenProperties, EmptySeq

LEMMA ParentIs ==
  ASSUME NEW p, IsPath(p), p # <<>>
  PROVE  /\ IsPath(Parent(p)) /\ Len(Parent(p)) = Len(p) - 1
         /\ \A i \in 1 .. Len(p) - 1 : Parent(p)[i] = p[i]
<1> DEFINE S == ToSet(p)
           n == Len(p)
           q == Parent(p)
<1>1. n \in Nat /\ n # 0 /\ p \in Seq(S) /\ DOMAIN p = 1 .. n
  BY PathIs
<1>2. q = SubSeq(p, 1, n - 1)
  BY DEF Parent, Front
<1>3. q = [i \in 1 .. n - 1 |-> p[i]]
  BY <1>1, <1>2, SubSeqProperties
<1>4. q \in Seq(ToSet(q))
  <2>1. n - 1 \in Nat
    BY <1>1
  <2>2. \A i \in 1 .. n - 1 : q[i] \in ToSet(q)
    BY <1>3 DEF ToSet
  <2>3. q \in [1 .. n - 1 -> ToSet(q)]
    BY <1>3, <2>2
  <2> HIDE DEF q, n
  <2> QED
    BY <2>1, <2>3, SeqDef
<1>5. Len(q) = n - 1
  BY <1>1, <1>3
<1> QED
  BY <1>3, <1>4, <1>5 DEF IsPath

LEMMA ParentOfAppend ==
  ASSUME NEW q, IsPath(q), NEW x
  PROVE  /\ Append(q, x) # <<>> /\ Parent(Append(q, x)) = q /\ Last(Append(q, x)) = x
         /\ IsPath(Append(q, x)) /\ Len(Append(q, x)) = Len(q) + 1
         /\ \A i \in 1 .. Len(q) : Append(q, x)[i] = q[i]
<1> DEFINE S == ToSet(q) \cup {x}
           a == Append(q, x)
           n == Len(q)
<1>1. q \in Seq(S) /\ n \in Nat /\ DOMAIN q = 1 .. n
  BY SeqMonotone, PathIs
<1>2. /\ a \in Seq(S) /\ a # <<>> /\ Len(a) = n + 1 /\ a[n + 1] = x
      /\ \A i \in 1 .. n : a[i] = q[i]
  BY <1>1, AppendProperties
<1>3. IsPath(a)
  BY AppendPath
<1>4. Parent(a) = q
  <2>1. /\ IsPath(Parent(a)) /\ Len(Parent(a)) = n
        /\ \A i \in 1 .. n : Parent(a)[i] = q[i]
    <3> HIDE DEF a, n
    <3>1. Len(Parent(a)) = Len(a) - 1 /\ Len(a) - 1 = n
      BY <1>1, <1>2, <1>3, ParentIs
    <3> QED
      BY <1>1, <1>2, <1>3, <3>1, ParentIs
  <2>2. DOMAIN Parent(a) = 1 .. n /\ Parent(a) \in Seq(ToSet(Parent(a)))
    BY <2>1, PathIs
  <2> DEFINE b == Parent(a)
             U == S \cup ToSet(b)
  <2>3. b \in Seq(U) /\ q \in Seq(U)
    BY <1>1, <2>2, SeqMonotone
  <2> HIDE DEF b, U, n
  <2> QED
    BY <1>1, <2>1, <2>2, <2>3, SeqEqual DEF b
<1> QED
  BY <1>2, <1>3, <1>4 DEF Last

LEMMA TemplatesCounted ==
  ASSUME NEW p, IsPath(p)
  PROVE  TemplateCount(p) \in Nat /\ TemplateCount(p) <= Len(p)
<1> DEFINE T == {i \in DOMAIN p : IsTemplate(p[i])}
<1>1. Len(p) \in Nat /\ DOMAIN p = 1 .. Len(p)
  BY PathIs
<1>2. IsFiniteSet(1 .. Len(p)) /\ Cardinality(1 .. Len(p)) = Len(p)
  <2>1. ASSUME NEW n \in Nat PROVE IsFiniteSet(1 .. n) /\ Cardinality(1 .. n) = n
    BY FS_Interval
  <2> QED
    BY <1>1, <2>1
<1>3. IsFiniteSet(T) /\ Cardinality(T) <= Len(p)
  BY <1>1, <1>2, FS_Subset
<1> QED
  BY <1>3, FS_CardinalityType DEF TemplateCount

LEMMA CoversTransitive ==
  ASSUME NEW t, NEW u, NEW p, IsPath(t), IsPath(u), IsPath(p), Covers(t, u), Covers(u, p)
  PROVE  Covers(t, p)
<1>1. DOMAIN t = 1 .. Len(t) /\ DOMAIN u = 1 .. Len(u) /\ Len(t) = Len(u) /\ Len(u) = Len(p)
  BY PathIs DEF Covers
<1> QED
  BY <1>1 DEF Covers

(* The template that a path is merged into covers it.                       *)
LEMMA MostGeneralCovers ==
  ASSUME NEW obs, Observed(obs), NEW p \in DOMAIN obs
  PROVE  MostGeneral(obs, p) \in DOMAIN obs /\ Covers(MostGeneral(obs, p), p)
<1> DEFINE S == Subsumers(obs, p)
           T == {Len(p) - TemplateCount(t) : t \in S}
<1>1. \A t \in DOMAIN obs : IsPath(t)
  BY DEF Observed
<1>2. S \subseteq DOMAIN obs /\ \A t \in S : Covers(t, p)
  BY DEF Subsumers
<1>3. CASE S = {}
  <2>1. MostGeneral(obs, p) = p
    BY <1>3 DEF MostGeneral
  <2>2. Covers(p, p)
    BY DEF Covers
  <2> QED
    BY <2>1, <2>2
<1>4. CASE S # {}
  <2>1. MostGeneral(obs, p) = CHOOSE t \in S : \A u \in S : TemplateCount(u) <= TemplateCount(t)
    BY <1>4 DEF MostGeneral
  <2>2. Len(p) \in Nat
    BY <1>1, PathIs
  <2>3. ASSUME NEW t \in S PROVE TemplateCount(t) \in Nat /\ TemplateCount(t) <= Len(p)
    <3>1. IsPath(t) /\ Len(t) = Len(p)
      BY <1>1, <1>2 DEF Covers
    <3> QED
      BY <3>1, TemplatesCounted
  <2> HIDE DEF S
  <2>4. T \in SUBSET Nat /\ T # {}
    <3>1. \A m \in Nat : m <= Len(p) => Len(p) - m \in Nat
      BY <2>2
    <3>2. T \in SUBSET Nat
      BY <2>3, <3>1
    <3> QED
      BY <1>4, <3>2
  <2>5. PICK n \in T : \A m \in T : n <= m
    BY <2>4, LeastNumber
  <2>6. PICK t \in S : n = Len(p) - TemplateCount(t)
    BY <2>5
  <2>7. ASSUME NEW u \in S PROVE TemplateCount(u) <= TemplateCount(t)
    <3>1. n <= Len(p) - TemplateCount(u)
      BY <2>5
    <3>2. \A a, b \in Nat : Len(p) - a <= Len(p) - b => b <= a
      BY <2>2
    <3> QED
      BY <2>3, <2>6, <3>1, <3>2, Zenon
  <2>8. MostGeneral(obs, p) \in S
    BY <2>1, <2>7
  <2> QED
    BY <1>2, <2>8
<1> QED
  BY <1>3, <1>4

LEMMA DeduplicateKeeps ==
  ASSUME NEW obs, Observed(obs)
  PROVE  /\ Observed(Deduplicate(obs))
         /\ \A p \in DOMAIN obs : \A m \in obs[p].methods :
              \E t \in DOMAIN Deduplicate(obs) : m \in Deduplicate(obs)[t].methods /\ Covers(t, p)
<1> DEFINE D == {MostGeneral(obs, p) : p \in DOMAIN obs}
           G(t) == {p \in DOMAIN obs : MostGeneral(obs, p) = t}
           new == Deduplicate(obs)
<1>1. D \subseteq DOMAIN obs
  BY MostGeneralCovers
<1>2. new = [t \in D |-> [obs[t] EXCEPT !.methods = MergedMethods(obs, G(t)),
                                        !.conf = MergedConf(obs, G(t))]]
  BY DEF Deduplicate
<1>3. DOMAIN new = D
  BY <1>2
<1>4. IsFiniteSet(D)
  BY <1>1, FS_Subset DEF Observed
<1>5. ASSUME NEW t \in D
      PROVE  new[t] = Endpoint(MergedMethods(obs, G(t)), MergedConf(obs, G(t)), obs[t].db)
  <2> DEFINE e == obs[t]
             a == MergedMethods(obs, G(t))
             c == MergedConf(obs, G(t))
  <2>1. e = [methods |-> e.methods, conf |-> e.conf, db |-> e.db]
    BY <1>1 DEF Observed, IsEndpoint, Endpoint
  <2>2. new[t] = [e EXCEPT !.methods = a, !.conf = c]
    BY <1>2
  <2> HIDE DEF e, a, c, new
  <2>3. [e EXCEPT !.methods = a, !.conf = c] = [[e EXCEPT !.methods = a] EXCEPT !.conf = c]
    OBVIOUS
  <2>4. [e EXCEPT !.methods = a] = [methods |-> a, conf |-> e.conf, db |-> e.db]
    BY <2>1
  <2>5. [[methods |-> a, conf |-> e.conf, db |-> e.db] EXCEPT !.conf = c]
          = [methods |-> a, conf |-> c, db |-> e.db]
    OBVIOUS
  <2> QED
    BY <2>2, <2>3, <2>4, <2>5 DEF Endpoint, e, a, c
<1>6. \A t : MergedMethods(obs, G(t)) \subseteq Methods
  BY DEF MergedMethods, Observed, IsEndpoint
<1>7. Observed(new)
  <2>1. ASSUME NEW t \in D PROVE IsPath(t) /\ IsEndpoint(new[t])
    <3>1. IsEndpoint(Endpoint(MergedMethods(obs, G(t)), MergedConf(obs, G(t)), obs[t].db))
      BY <1>6, EndpointIs
    <3> QED
      BY <1>1, <1>5, <3>1 DEF Observed
  <2> HIDE DEF new, D
  <2> QED
    BY <1>3, <1>4, <2>1 DEF Observed
<1>8. ASSUME NEW p \in DOMAIN obs, NEW m \in obs[p].methods
      PROVE  \E t \in DOMAIN new : m \in new[t].methods /\ Covers(t, p)
  <2> DEFINE t == MostGeneral(obs, p)
  <2>1. t \in D /\ Covers(t, p) /\ p \in G(t)
    BY MostGeneralCovers
  <2>2. m \in MergedMethods(obs, G(t))
    BY <2>1 DEF MergedMethods
  <2>3. new[t].methods = MergedMethods(obs, G(t))
    <3>1. \A a, c, db : Endpoint(a, c, db).methods = a
      BY DEF Endpoint
    <3>2. new[t] = Endpoint(MergedMethods(obs, G(t)), MergedConf(obs, G(t)), obs[t].db)
      BY <1>5, <2>1
    <3> HIDE DEF t, G, new
    <3> QED
      BY <3>1, <3>2
  <2> HIDE DEF t, G, new, D
  <2> QED
    BY <1>3, <2>1, <2>2, <2>3
<1> QED
  BY <1>7, <1>8
LEMMA GroupKeeps ==
  ASSUME NEW obs, Observed(obs), NEW t \in DOMAIN obs
  PROVE  LET parent == Parent(t)
             g == CoalesceGroup(obs, parent)
         IN  /\ IsFiniteSet(DOMAIN g)
             /\ \A q \in DOMAIN g : IsPath(q) /\ IsEndpoint(g[q]) /\ Parent(q) = parent
             /\ \E q \in DOMAIN g : obs[t].methods \subseteq g[q].methods /\ Covers(q, t)
<1> DEFINE parent == Parent(t)
           group == Siblings(obs, parent)
           g == CoalesceGroup(obs, parent)
           kept == {p \in group : ~LooksLikeValue(p)} \ GroupTemplates(group)
           path == CoalescedPath(parent, group)
           e == Endpoint(MergedMethods(obs, group), MergedConf(obs, group), FALSE)
<1>1. /\ t \in group /\ group \subseteq DOMAIN obs /\ IsFiniteSet(group)
      /\ \A p \in group : IsPath(p) /\ IsEndpoint(obs[p]) /\ Parent(p) = parent
  BY FS_Subset DEF Siblings, Observed
<1>2. Covers(t, t)
  BY DEF Covers
<1>3. CASE ~HasValue(group)
  <2>1. g = [p \in group |-> obs[p]]
    BY <1>3 DEF CoalesceGroup
  <2> HIDE DEF g, group
  <2> QED
    BY <1>1, <1>2, <2>1 DEF g, group
<1>4. CASE HasValue(group)
  <2>1. g = [p \in {path} \cup kept |-> IF p # path THEN obs[p] ELSE e]
    BY <1>4 DEF CoalesceGroup
  <2>2. IsPath(parent)
    <3>1. CASE t = <<>>
      <4>1. parent = <<>>
        BY <3>1 DEF Parent
      <4> QED
        BY <4>1, EmptySeq DEF IsPath, ToSet
    <3>2. CASE t # <<>>
      BY <1>1, <3>2, ParentIs
    <3> QED
      BY <3>1, <3>2
  <2>3. /\ IsPath(path) /\ Parent(path) = parent /\ path # <<>>
        /\ IsTemplate(Last(path))
    <3>1. CASE GroupTemplates(group) = {}
      <4>1. path = Append(parent, "{id}") /\ IsTemplate("{id}")
        BY <3>1, DiscoveryAssumption DEF CoalescedPath, IsTemplate
      <4> HIDE DEF parent, path
      <4> QED
        BY <2>2, <4>1, ParentOfAppend
    <3>2. CASE GroupTemplates(group) # {}
      <4>1. path \in GroupTemplates(group)
        BY <3>2 DEF CoalescedPath
      <4> QED
        BY <1>1, <4>1 DEF GroupTemplates
    <3> QED
      BY <3>1, <3>2
  <2>4. MergedMethods(obs, group) \subseteq Methods /\ obs[t].methods \subseteq MergedMethods(obs, group)
    BY <1>1 DEF MergedMethods, IsEndpoint
  <2>5. IsEndpoint(e) /\ e.methods = MergedMethods(obs, group)
    BY <2>4, EndpointIs DEF Endpoint
  <2>6. kept \subseteq group /\ DOMAIN g = {path} \cup kept
    BY <2>1
  <2>7. IsFiniteSet(DOMAIN g)
    <3>1. IsFiniteSet(kept)
      BY <1>1, <2>6, FS_Subset
    <3> QED
      BY <2>6, <3>1, FS_AddElement
  <2>8. ASSUME NEW q \in DOMAIN g PROVE IsPath(q) /\ IsEndpoint(g[q]) /\ Parent(q) = parent
    <3> HIDE DEF path, kept, e, g, group, parent
    <3>1. CASE q = path
      <4>1. g[q] = e
        BY <2>1, <2>6, <3>1
      <4> QED
        BY <2>3, <2>5, <3>1, <4>1
    <3>2. CASE q # path
      <4>1. q \in group /\ g[q] = obs[q]
        BY <2>1, <2>6, <3>2
      <4> QED
        BY <1>1, <4>1
    <3> QED
      BY <3>1, <3>2
  <2>9. \E q \in DOMAIN g : obs[t].methods \subseteq g[q].methods /\ Covers(q, t)
    <3>1. g[path] = e /\ path \in DOMAIN g
      BY <2>1, <2>6
    <3>2. CASE t = path
      BY <1>2, <2>4, <2>5, <3>1, <3>2
    <3>3. CASE t # path /\ t \in kept
      <4>1. t \in DOMAIN g /\ g[t] = obs[t]
        BY <2>1, <2>6, <3>3
      <4> HIDE DEF g
      <4> QED
        BY <1>2, <4>1
    <3>4. CASE t # path /\ t \notin kept
      <4>1. t # <<>>
        BY <1>1, <3>4 DEF LooksLikeValue, GroupTemplates
      <4>2. /\ Len(parent) = Len(t) - 1 /\ \A i \in 1 .. Len(t) - 1 : parent[i] = t[i]
            /\ Len(t) \in Nat /\ Len(t) # 0
        BY <1>1, <4>1, ParentIs, PathIs
      <4>3. /\ Len(parent) = Len(path) - 1 /\ \A i \in 1 .. Len(path) - 1 : parent[i] = path[i]
            /\ Len(path) \in Nat /\ Len(path) # 0 /\ DOMAIN path = 1 .. Len(path)
        BY <2>3, ParentIs, PathIs
      <4>4. IsTemplate(path[Len(path)])
        BY <2>3 DEF Last
      <4>5. Covers(path, t)
        <5> HIDE DEF path, parent
        <5>1. Len(path) = Len(t)
          BY <4>2, <4>3
        <5>2. ASSUME NEW i \in DOMAIN path PROVE IsTemplate(path[i]) \/ path[i] = t[i]
          <6>1. i = Len(path) \/ i \in 1 .. Len(path) - 1
            BY <4>3
          <6> QED
            BY <4>2, <4>3, <4>4, <5>1, <6>1
        <5> QED
          BY <5>1, <5>2 DEF Covers
      <4> HIDE DEF g, path, e
      <4> QED
        BY <2>4, <2>5, <3>1, <4>5
    <3> QED
      BY <3>2, <3>3, <3>4
  <2> QED
    BY <2>7, <2>8, <2>9
<1> QED
  BY <1>3, <1>4

LEMMA CoalesceKeeps ==
  ASSUME NEW obs, Observed(obs)
  PROVE  /\ Observed(Coalesce(obs))
         /\ \A t \in DOMAIN obs : \E q \in DOMAIN Coalesce(obs) :
              obs[t].methods \subseteq Coalesce(obs)[q].methods /\ Covers(q, t)
<1> DEFINE Of(p) == CoalesceGroup(obs, Parent(p))
           G == {CoalesceGroup(obs, parent) : parent \in {Parent(p) : p \in DOMAIN obs}}
           D == UNION {DOMAIN g : g \in G}
           new == Coalesce(obs)
           f == [p \in DOMAIN obs |-> DOMAIN Of(p)]
<1>1. new = [p \in D |-> LET g == CHOOSE g \in G : p \in DOMAIN g IN g[p]]
  BY DEF Coalesce
<1>2. \A g : g \in G <=> \E p \in DOMAIN obs : g = Of(p)
  OBVIOUS
<1>3. \A p \in DOMAIN obs :
        /\ IsFiniteSet(DOMAIN Of(p))
        /\ \A q \in DOMAIN Of(p) : IsPath(q) /\ IsEndpoint(Of(p)[q]) /\ Parent(q) = Parent(p)
        /\ \E q \in DOMAIN Of(p) : obs[p].methods \subseteq Of(p)[q].methods /\ Covers(q, p)
  BY GroupKeeps
<1>4. D = UNION {f[p] : p \in DOMAIN f}
  OBVIOUS
<1>5. IsFiniteSet(D)
  <2>1. /\ DOMAIN f = DOMAIN obs /\ IsFiniteSet(DOMAIN f)
        /\ \A p \in DOMAIN f : IsFiniteSet(f[p])
    BY <1>3 DEF Observed
  <2> HIDE DEF f, D
  <2>2. IsFiniteSet({f[p] : p \in DOMAIN f})
    BY <2>1, FiniteImage
  <2> QED
    BY <1>4, <2>1, <2>2, FS_UNION
<1>6. ASSUME NEW p \in DOMAIN obs, NEW q \in DOMAIN Of(p) PROVE q \in D /\ new[q] = Of(p)[q]
  <2>1. Of(p) \in G /\ q \in D
    BY <1>2
  <2>2. Parent(q) = Parent(p)
    BY <1>3
  <2> DEFINE c == CHOOSE g \in G : q \in DOMAIN g
  <2>3. c \in G /\ q \in DOMAIN c
    <3> HIDE DEF G, Of
    <3> QED
      BY <1>6, <2>1
  <2> HIDE DEF c
  <2>4. PICK r \in DOMAIN obs : c = Of(r)
    BY <1>2, <2>3
  <2>5. Parent(r) = Parent(q)
    BY <1>3, <2>3, <2>4
  <2>6. c = Of(p)
    BY <2>2, <2>4, <2>5
  <2>7. new[q] = c[q]
    <3> HIDE DEF D, G
    <3> QED
      BY <1>1, <2>1 DEF c
  <2> QED
    BY <2>1, <2>6, <2>7
<1>7. \A q \in D : \E p \in DOMAIN obs : q \in DOMAIN Of(p)
  OBVIOUS
<1>8. DOMAIN new = D
  BY <1>1
<1> HIDE DEF new, D, G, Of
<1>9. \A q \in D : IsPath(q) /\ IsEndpoint(new[q])
  BY <1>3, <1>6, <1>7
<1>10. ASSUME NEW t \in DOMAIN obs
       PROVE  \E q \in D : obs[t].methods \subseteq new[q].methods /\ Covers(q, t)
  BY <1>3, <1>6
<1> QED
  BY <1>5, <1>8, <1>9, <1>10 DEF Observed, new

(* What _discover returns offers every method of every path it has seen.    *)
LEMMA DiscoveredKeeps ==
  ASSUME NEW obs, Observed(obs)
  PROVE  /\ Observed(Discovered(obs))
         /\ \A p \in DOMAIN obs : \A m \in obs[p].methods :
              \E q \in DOMAIN Discovered(obs) : m \in Discovered(obs)[q].methods /\ Covers(q, p)
<1> DEFINE once == Deduplicate(obs)
           found == Coalesce(once)
           new == Discovered(obs)
<1>1. /\ Observed(once)
      /\ \A p \in DOMAIN obs : \A m \in obs[p].methods :
           \E t \in DOMAIN once : m \in once[t].methods /\ Covers(t, p)
  BY DeduplicateKeeps
<1> HIDE DEF once
<1>2. /\ Observed(found)
      /\ \A t \in DOMAIN once : \E q \in DOMAIN found :
           once[t].methods \subseteq found[q].methods /\ Covers(q, t)
  BY <1>1, CoalesceKeeps
<1>3. new = [p \in DOMAIN found |-> Frozen(found[p])]
  BY DEF Discovered, once
<1> HIDE DEF found
<1>4. ASSUME NEW p \in DOMAIN found
      PROVE  IsEndpoint(Frozen(found[p])) /\ found[p].methods \subseteq Frozen(found[p]).methods
  <2> DEFINE e == found[p]
             ms == IF e.methods = {} THEN {"GET"} ELSE e.methods
  <2>1. e = [methods |-> e.methods, conf |-> e.conf, db |-> e.db] /\ e.methods \subseteq Methods
    BY <1>2 DEF Observed, IsEndpoint, Endpoint
  <2>2. ms \subseteq Methods /\ e.methods \subseteq ms
    BY <2>1 DEF Methods
  <2>3. Frozen(e) = [e EXCEPT !.methods = ms]
    BY DEF Frozen
  <2> HIDE DEF e, ms
  <2>4. Frozen(e) = [methods |-> ms, conf |-> e.conf, db |-> e.db]
    BY <2>1, <2>3
  <2> QED
    BY <2>2, <2>4 DEF IsEndpoint, Endpoint, e
<1>5. Observed(new)
  BY <1>2, <1>3, <1>4 DEF Observed
<1>6. ASSUME NEW p \in DOMAIN obs, NEW m \in obs[p].methods
      PROVE  \E q \in DOMAIN new : m \in new[q].methods /\ Covers(q, p)
  <2>1. PICK t \in DOMAIN once : m \in once[t].methods /\ Covers(t, p)
    BY <1>1, <1>6
  <2>2. PICK q \in DOMAIN found : once[t].methods \subseteq found[q].methods /\ Covers(q, t)
    BY <1>2, <2>1
  <2>3. Covers(q, p)
    BY <1>1, <1>2, <2>1, <2>2, CoversTransitive DEF Observed
  <2>4. q \in DOMAIN new /\ m \in new[q].methods
    BY <1>3, <1>4, <2>1, <2>2
  <2> QED
    BY <2>3, <2>4
<1> QED
  BY <1>5, <1>6
LEMMA RestOperationIs ==
  ASSUME NEW p, NEW e, NEW m \in Methods
  PROVE  LET op == RestOperation(p, e, m)
         IN  Fresh(op) /\ RestOp(op) /\ op.method = m /\ op.at = p
<1> DEFINE id == <<m>> \o [i \in DOMAIN p |-> Text[p[i]]]
           plain == Operation(id, m, "http", RestRisk(m))
           c == m \in {"POST", "PUT", "PATCH"} => e.conf >= 80
           at1 == [plain EXCEPT !.at = p]
           op == [at1 EXCEPT !.conf = c]
<1>1. RestOperation(p, e, m) = op
  <2>1. RestOperation(p, e, m) = [plain EXCEPT !.at = p, !.conf = c]
    BY DEF RestOperation
  <2> HIDE DEF plain, c
  <2>2. [plain EXCEPT !.at = p, !.conf = c] = [[plain EXCEPT !.at = p] EXCEPT !.conf = c]
    OBVIOUS
  <2> QED
    BY <2>1, <2>2
<1>2. Fresh(plain)
  BY OperationIsFresh
<1> HIDE DEF c, id
<1>3. /\ plain.method = m /\ plain.contract = "http" /\ plain.level = RestRisk(m)
      /\ plain.writes = (RestRisk(m) \in {"cautious", "dangerous"})
      /\ plain.destructive = (RestRisk(m) = "dangerous")
      /\ plain.open = FALSE /\ plain.body = "json"
  BY DEF Operation
<1> HIDE DEF plain
<1>4. /\ Fresh(at1) /\ at1.method = plain.method /\ at1.contract = plain.contract
      /\ at1.level = plain.level /\ at1.writes = plain.writes
      /\ at1.destructive = plain.destructive /\ at1.open = plain.open /\ at1.body = plain.body
      /\ at1.at = p
  <2>1. Fresh(at1)
    BY <1>2, FreshField
  <2> QED
    BY <1>2, <2>1 DEF Fresh, IsOp
<1> HIDE DEF at1
<1>5. /\ Fresh(op) /\ op.method = at1.method /\ op.contract = at1.contract
      /\ op.level = at1.level /\ op.writes = at1.writes
      /\ op.destructive = at1.destructive /\ op.open = at1.open /\ op.body = at1.body
      /\ op.at = at1.at
  <2>1. Fresh(op)
    BY <1>4, FreshField
  <2> QED
    BY <1>4, <2>1 DEF Fresh, IsOp
<1> HIDE DEF op
<1> QED
  BY <1>1, <1>3, <1>4, <1>5, ZenonT(40) DEF RestOp

LEMMA SuffixKeeps ==
  ASSUME NEW op, Fresh(op), RestOp(op), NEW id
  PROVE  LET new == [op EXCEPT !.id = id]
         IN  Fresh(new) /\ RestOp(new) /\ new.method = op.method /\ new.at = op.at
<1> DEFINE new == [op EXCEPT !.id = id]
<1>1. Fresh(new)
  BY FreshField
<1>2. /\ new.method = op.method /\ new.contract = op.contract
      /\ new.level = op.level /\ new.writes = op.writes
      /\ new.destructive = op.destructive /\ new.open = op.open /\ new.body = op.body
      /\ new.at = op.at
  BY DEF Fresh, IsOp
<1> HIDE DEF new
<1>3. RestOp(new)
  BY <1>2, Zenon DEF RestOp
<1> QED
  BY <1>1, <1>2, <1>3 DEF new

(* Every method of every discovered path becomes an operation.              *)
LEMMA RestExtractIs ==
  ASSUME NEW obs, Observed(obs)
  PROVE  LET base == RestExtract(obs)
             found == Discovered(obs)
         IN  /\ FreshService(base) /\ base.events = {}
             /\ \A i \in DOMAIN base.ops : RestOp(base.ops[i])
             /\ \A p \in DOMAIN found : \A m \in found[p].methods :
                  \E i \in DOMAIN base.ops : base.ops[i].method = m /\ base.ops[i].at = p
<1> DEFINE base == RestExtract(obs)
           found == Discovered(obs)
           pairs == UNION {{<<p, m>> : m \in found[p].methods} : p \in DOMAIN found}
           order == FoldSet(LAMBDA pm, acc : Append(acc, pm), <<>>, pairs)
           plain == [i \in DOMAIN order |->
                       RestOperation(order[i][1], found[order[i][1]], order[i][2])]
           ops == SuffixedOps(plain)
<1>1. base = Service(ops, {}, "none")
  BY DEF RestExtract
<1>2. Observed(found)
  BY DiscoveredKeeps
<1> HIDE DEF found
<1>3. IsFiniteSet(pairs) /\ \A pm \in pairs : pm[1] \in DOMAIN found /\ pm[2] \in found[pm[1]].methods
  <2>1. IsFiniteSet(Methods)
    <3>1. Methods = ((({"GET"} \cup {"POST"}) \cup {"PUT"}) \cup {"PATCH"}) \cup {"DELETE"}
      BY DEF Methods
    <3>2. \A S, x : IsFiniteSet(S) => IsFiniteSet(S \cup {x})
      BY FS_AddElement
    <3> QED
      BY <3>1, <3>2, FS_Singleton, Zenon
  <2> DEFINE f == [p \in DOMAIN found |-> {<<p, m>> : m \in found[p].methods}]
  <2>2. ASSUME NEW p \in DOMAIN found PROVE IsFiniteSet(f[p])
    <3> DEFINE g == [m \in found[p].methods |-> <<p, m>>]
    <3>1. IsFiniteSet(found[p].methods)
      BY <1>2, <2>1, FS_Subset DEF Observed, IsEndpoint
    <3>2. IsFiniteSet(DOMAIN g) /\ f[p] = {g[m] : m \in DOMAIN g}
      BY <3>1
    <3> HIDE DEF f, g
    <3> QED
      BY <3>2, FiniteImage
  <2>3. pairs = UNION {f[p] : p \in DOMAIN f} /\ DOMAIN f = DOMAIN found
    OBVIOUS
  <2>4. \A pm \in pairs : pm[1] \in DOMAIN found /\ pm[2] \in found[pm[1]].methods
    OBVIOUS
  <2> HIDE DEF pairs, f
  <2>5. IsFiniteSet({f[p] : p \in DOMAIN f})
    BY <1>2, <2>3, FiniteImage DEF Observed
  <2>6. IsFiniteSet(UNION {f[p] : p \in DOMAIN f})
    BY <2>2, <2>3, <2>5, FS_UNION
  <2> QED
    BY <2>3, <2>4, <2>6
<1>4. order \in Seq(pairs) /\ ToSet(order) = pairs
  <2> HIDE DEF pairs
  <2> QED
    BY <1>3, FoldSetLists
<1>5. \A p \in DOMAIN found : \A m \in found[p].methods : <<p, m>> \in pairs
  OBVIOUS
<1> HIDE DEF pairs, order
<1>6. ASSUME NEW i \in DOMAIN order
      PROVE  /\ Fresh(plain[i]) /\ RestOp(plain[i]) /\ plain[i].method = order[i][2]
             /\ plain[i].at = order[i][1]
  <2>1. order[i] \in pairs
    BY <1>4 DEF ToSet
  <2>2. order[i][2] \in Methods
    BY <1>2, <1>3, <2>1 DEF Observed, IsEndpoint
  <2>3. plain[i] = RestOperation(order[i][1], found[order[i][1]], order[i][2])
    OBVIOUS
  <2> HIDE DEF plain
  <2> QED
    BY <2>2, <2>3, RestOperationIs
<1>7. DOMAIN plain = DOMAIN order
  OBVIOUS
<1> HIDE DEF plain
<1>8. /\ ops = [i \in DOMAIN order |-> ops[i]]
      /\ \A i \in DOMAIN order : ops[i] = plain[i] \/ \E id : ops[i] = [plain[i] EXCEPT !.id = id]
  <2> DEFINE Before(i) == Cardinality({j \in 1 .. i - 1 : plain[j].id = plain[i].id})
             Id(i) == Append(plain[i].id, <<"1", "2", "3">>[Before(i)])
  <2>1. ops = [i \in DOMAIN plain |-> IF Before(i) = 0 THEN plain[i]
                                      ELSE [plain[i] EXCEPT !.id = Id(i)]]
    BY DEF SuffixedOps
  <2> HIDE DEF Before, Id, ops
  <2>2. ops = [i \in DOMAIN order |-> ops[i]]
    BY <1>7, <2>1
  <2>3. \A i \in DOMAIN order : ops[i] = IF Before(i) = 0 THEN plain[i]
                                         ELSE [plain[i] EXCEPT !.id = Id(i)]
    BY <1>7, <2>1
  <2> QED
    BY <2>2, <2>3, Zenon
<1> HIDE DEF ops
<1>9. ASSUME NEW i \in DOMAIN order
      PROVE  /\ Fresh(ops[i]) /\ RestOp(ops[i]) /\ ops[i].method = order[i][2]
             /\ ops[i].at = order[i][1]
  <2>1. CASE ops[i] = plain[i]
    BY <1>6, <2>1
  <2>2. CASE ops[i] # plain[i]
    <3>1. PICK id : ops[i] = [plain[i] EXCEPT !.id = id]
      BY <1>8, <2>2
    <3> QED
      BY <1>6, <3>1, SuffixKeeps
  <2> QED
    BY <2>1, <2>2
<1>10. DOMAIN ops = DOMAIN order
  BY <1>8
<1>11. /\ IsService(base) /\ base.groups = {} /\ base.prompts = {} /\ base.events = {}
       /\ base.ops = ops
  BY <1>1 DEF Service, IsService
<1>12. ASSUME NEW p \in DOMAIN found, NEW m \in found[p].methods
       PROVE  \E i \in DOMAIN ops : ops[i].method = m /\ ops[i].at = p
  <2>1. <<p, m>> \in ToSet(order)
    BY <1>4, <1>5
  <2>2. PICK i \in DOMAIN order : order[i] = <<p, m>>
    BY <2>1 DEF ToSet
  <2>3. order[i][1] = p /\ order[i][2] = m
    BY <2>2
  <2> QED
    BY <1>9, <1>10, <2>3
<1> HIDE DEF base
<1>13. FreshService(base)
  BY <1>8, <1>9, <1>10, <1>11 DEF FreshService
<1> QED
  BY <1>9, <1>10, <1>11, <1>12, <1>13 DEF base, found

LEMMA BaseIsFresh ==
  ASSUME ControlInv, Observed(observed)
  PROVE  FreshService(Base)
<1>1. CASE protocol = "rest"
  BY <1>1, RestExtractIs DEF Base, BaseOf
<1>2. CASE protocol # "rest"
  <2> DEFINE s == job.source
             ops == Extracted(protocol, s).ops
  <2>1. s.items \in Seq([name : STRING, verb : STRING, kind : STRING])
    BY JobsAssumption DEF ControlInv, Requested
  <2>2. /\ IsService(Extracted(protocol, s)) /\ Extracted(protocol, s).groups = {}
        /\ Extracted(protocol, s).prompts = {}
    BY ExtractedIs
  <2>3. ops \in Seq(AllOps(protocol, s)) /\ \A op \in AllOps(protocol, s) : Fresh(op)
    BY <2>1, ExtractedOps
  <2>4. Base = Extracted(protocol, s)
    BY <1>2 DEF Base, BaseOf
  <2>5. \A i \in DOMAIN ops : ops[i] \in AllOps(protocol, s)
    <3> HIDE DEF ops
    <3> QED
      BY <2>3, ElementOfSeq, LenProperties
  <2>6. ops = [i \in DOMAIN ops |-> ops[i]]
    <3> HIDE DEF ops
    <3> QED
      BY <2>3, LenProperties
  <2> QED
    BY <2>2, <2>3, <2>4, <2>5, <2>6 DEF FreshService
<1> QED
  BY <1>1, <1>2

LEMMA ExtractMakes ==
  ASSUME NEW base, FreshService(base)
  PROVE  MadeOf(AuthOverride(ModelValidate(base)), base)
<1> DEFINE valid == ModelValidate(base)
           new == AuthOverride(valid)
           ops == [i \in DOMAIN base.ops |-> DisableUnknown(base.ops[i])]
<1>1. valid = [base EXCEPT !.ops = ops]
  BY DEF ModelValidate
<1> HIDE DEF ops
<1>2. IsService(valid) /\ valid.events = base.events /\ valid.ops = ops
  <2> HIDE DEF valid
  <2> QED
    BY <1>1 DEF FreshService, IsService
<1> HIDE DEF valid
<1>3. IsService(new) /\ new.events = base.events /\ new.ops = ops
  <2>1. CASE job.auth = "keep"
    BY <1>2, <2>1 DEF AuthOverride
  <2>2. CASE job.auth # "keep"
    <3>1. new = [valid EXCEPT !.auth = job.auth]
      BY <2>2 DEF AuthOverride
    <3> HIDE DEF new
    <3> QED
      BY <1>2, <3>1 DEF IsService
  <2> QED
    BY <2>1, <2>2
<1>4. ASSUME NEW i \in DOMAIN base.ops PROVE OpMadeOf(DisableUnknown(base.ops[i]), base.ops[i])
  <2> DEFINE op == base.ops[i]
             v == (op.enabled /\ op.level # "unknown")
             act == [op EXCEPT !.enabled = v]
  <2>1. Fresh(op)
    BY DEF FreshService
  <2>2. DisableUnknown(op) = act
    BY DEF DisableUnknown
  <2>3. v \in BOOLEAN /\ (v => op.level # "unknown")
    OBVIOUS
  <2> HIDE DEF op, v
  <2>4. IsOp(act) /\ SameCore(act, op) /\ act.enabled = v /\ act.intent = "none"
    BY <2>1 DEF Fresh, IsOp, SameCore
  <2> HIDE DEF act
  <2>5. act.level = op.level
    BY <2>4 DEF SameCore
  <2>6. OpMadeOf(act, op)
    BY <2>3, <2>4, <2>5 DEF OpMadeOf
  <2> QED
    BY <2>2, <2>6 DEF op
<1>5. ops = [i \in DOMAIN base.ops |-> ops[i]] /\ \A i \in DOMAIN base.ops : OpMadeOf(ops[i], base.ops[i])
  BY <1>4 DEF ops
<1> HIDE DEF new
<1>6. MadeOf(new, base)
  BY <1>3, <1>5 DEF MadeOf
<1> QED
  BY <1>6 DEF new, valid
-----------------------------------------------------------------------------
(* The invariant of the data path.                                          *)

(* A step that leaves the data alone.                                       *)
LEMMA FrameKeeps ==
  ASSUME StageInv, UNCHANGED <<job, protocol, ir, env, rt, smoke, audit, observed>>,
         ServiceMade' <=> ServiceMade, IsDeployed' <=> IsDeployed,
         stage' \in Enhanced => stage \in Enhanced,
         stage' \in {"generate", "deploy"} =>
           stage \in {"generate", "deploy"} \/ (Valid(ir) /\ EventSupportPasses(ir)),
         stage' = "deploy" => stage = "deploy", stage' = "serving" => stage = "serving"
  PROVE  StageInv'
<1>1. Observed(observed)'
  BY DEF StageInv
<1>2. Base' = Base
  BY DEF Base
<1>3. ServiceKept'
  BY <1>2 DEF StageInv, ServiceKept
<1>4. References'
  BY DEF StageInv, References, Enhanced
<1>5. Checked'
  BY DEF StageInv, Checked
<1>6. Flagged'
  BY DEF StageInv, Flagged
<1>7. Running'
  BY DEF StageInv, Running, Deployed
<1>8. Tried'
  BY DEF StageInv, Tried
<1> QED
  BY <1>1, <1>3, <1>4, <1>5, <1>6, <1>7, <1>8 DEF StageInv

LEMMA RaiseKeeps ==
  ASSUME ControlInv, StageInv, Raise, UNCHANGED crawlVars, stage # "failed", stage # "serving"
  PROVE  StageInv'
<1>1. UNCHANGED <<job, protocol, ir, env, rt, smoke, audit, observed>>
  BY DEF Raise, crawlVars
<1>2. failedAt = "none" /\ stage' = "failed" /\ failedAt' = stage /\ stage \in Stages
  BY DEF Raise, ControlInv, Staged
<1>3. ServiceMade' <=> ServiceMade
  BY <1>2 DEF ServiceMade
<1>4. IsDeployed' <=> IsDeployed
  BY <1>2 DEF IsDeployed
<1> QED
  BY <1>1, <1>2, <1>3, <1>4, FrameKeeps DEF Enhanced

(* The extractor's service is stored.                                       *)
LEMMA ExtractKeeps ==
  ASSUME ControlInv, StageInv, stage = "extract", Extract(Base), UNCHANGED crawlVars,
         protocol # "rest" => ~ExtractRaises(protocol, job.source)
  PROVE  StageInv'
<1>1. failedAt = "none" /\ ~IsDeployed /\ failedAt' = failedAt /\ stage' = "enhance"
  BY DEF ControlInv, Staged, IsDeployed, Extract
<1>2. /\ UNCHANGED <<job, protocol, env, rt, smoke, audit, observed>>
      /\ ir' = AuthOverride(ModelValidate(Base))
  BY DEF Extract, crawlVars
<1>3. Base' = Base
  BY <1>2 DEF Base
<1>4. MadeOf(ir', Base')
  BY <1>2, <1>3, BaseIsFresh, ExtractMakes DEF StageInv
<1>5. ServiceKept'
  BY <1>1, <1>2, <1>4 DEF ServiceKept, ServiceMade
<1>6. References' /\ Checked' /\ Flagged'
  BY <1>1 DEF References, Checked, Flagged, Enhanced
<1>7. Running' /\ Tried'
  BY <1>1, <1>2 DEF StageInv, Running, IsDeployed, Tried
<1> QED
  BY <1>2, <1>5, <1>6, <1>7 DEF StageInv

(* The service is enhanced.                                                 *)
LEMMA EnhanceKeeps ==
  ASSUME ControlInv, StageInv, stage = "enhance", UNCHANGED crawlVars,
         NEW service, MadeOf(service, Base), NEW proposed,
         ir' = PostEnhancement(service, proposed), stage' = "validate_ir",
         UNCHANGED <<job, failedAt, protocol, env, rt, smoke, audit>>
  PROVE  StageInv'
<1>1. failedAt = "none" /\ ~IsDeployed /\ observed' = observed
  BY DEF ControlInv, Staged, IsDeployed, crawlVars
<1>2. Base' = Base
  BY <1>1 DEF Base
<1>3. MadeOf(ir', Base') /\ ReferencesEnabled(ir')
  BY <1>2, PostKeeps
<1>4. ServiceKept'
  BY <1>1, <1>3 DEF StageInv, ServiceKept, ServiceMade
<1>5. References' /\ Checked' /\ Flagged'
  BY <1>3 DEF References, Checked, Flagged
<1>6. Running' /\ Tried'
  BY <1>1 DEF StageInv, Running, IsDeployed, Tried
<1> QED
  BY <1>1, <1>4, <1>5, <1>6 DEF StageInv

LEMMA StageInductive ==
  ASSUME ControlInv, StageInv, [Next]_vars
  PROVE  StageInv'
<1>0. /\ stage # "failed" => failedAt = "none"
      /\ stage \in Stages
  BY DEF ControlInv, Staged
<1>1. CASE DetectStage
  <2>1. CASE Detected = "none"
    BY <1>1, <2>1, RaiseKeeps DEF DetectStage
  <2>2. CASE Detected # "none"
    <3>1. /\ UNCHANGED <<job, failedAt, ir, env, rt, smoke, audit, observed>>
          /\ stage = "detect" /\ stage' = "extract"
      BY <1>1, <2>2 DEF DetectStage, crawlVars
    <3>2. Observed(observed)' /\ ServiceKept'
      BY <3>1 DEF StageInv, ServiceKept, ServiceMade
    <3>3. References' /\ Checked' /\ Flagged'
      BY <3>1 DEF References, Checked, Flagged, Enhanced
    <3>4. Running' /\ Tried'
      BY <1>0, <3>1 DEF StageInv, Running, IsDeployed, Deployed, Tried
    <3> QED
      BY <3>2, <3>3, <3>4 DEF StageInv
  <2> QED
    BY <2>1, <2>2
<1>2. CASE ExtractStage
  <2>1. CASE ExtractRaises(protocol, job.source)
    BY <1>2, <2>1, RaiseKeeps DEF ExtractStage
  <2>2. CASE ~ExtractRaises(protocol, job.source)
    <3>1. stage = "extract" /\ Extract(Base) /\ UNCHANGED crawlVars
      BY <1>2, <2>2 DEF ExtractStage, Base, BaseOf
    <3> QED
      BY <2>2, <3>1, ExtractKeeps
  <2> QED
    BY <2>1, <2>2
<1>3. CASE ExtractRestWithoutUrl
  BY <1>3, RaiseKeeps DEF ExtractRestWithoutUrl
<1>4. CASE DiscoverStep
  <2>1. UNCHANGED <<job, stage, failedAt, protocol, ir, env, rt, smoke, audit>> /\ stage = "extract"
    BY <1>4 DEF DiscoverStep, ownVars
  <2>2. Website(site)
    BY JobsAssumption DEF ControlInv, Requested
  <2>3. Observed(observed)'
    BY <1>4, <2>2, ObservedKept DEF DiscoverStep, StageInv
  <2>4. ServiceKept'
    BY <2>1 DEF StageInv, ServiceKept, ServiceMade
  <2>5. References' /\ Checked' /\ Flagged'
    BY <2>1 DEF References, Checked, Flagged, Enhanced
  <2>6. Running' /\ Tried'
    BY <2>1 DEF StageInv, Running, IsDeployed, Deployed, Tried
  <2> QED
    BY <2>3, <2>4, <2>5, <2>6 DEF StageInv
<1>5. CASE ExtractDiscovered
  <2>1. \/ Raise
        \/ Extract(Base)
    BY <1>5 DEF ExtractDiscovered, Base, BaseOf
  <2>2. stage = "extract" /\ protocol = "rest" /\ UNCHANGED crawlVars
    BY <1>5 DEF ExtractDiscovered
  <2> QED
    BY <2>1, <2>2, RaiseKeeps, ExtractKeeps
<1>6. CASE EnhancePassthrough
  <2>1. /\ stage = "enhance" /\ UNCHANGED crawlVars /\ stage' = "validate_ir"
        /\ ir' = PostEnhancement(ModelValidate(ir), {})
        /\ UNCHANGED <<job, failedAt, protocol, env, rt, smoke, audit>>
    BY <1>6 DEF EnhancePassthrough
  <2>2. MadeOf(ModelValidate(ir), Base)
    BY <1>0, <2>1, ValidateKeeps DEF StageInv, ServiceKept, ServiceMade
  <2> QED
    BY <2>1, <2>2, EnhanceKeeps
<1>7. CASE EnhanceStart \/ EnhanceBatch
  <2>1. UNCHANGED <<job, stage, failedAt, protocol, ir, env, rt, smoke, audit, observed>>
    BY <1>7 DEF EnhanceStart, EnhanceBatch, ownVars, crawlVars
  <2> QED
    BY <2>1, FrameKeeps DEF ServiceMade, IsDeployed
<1>8. CASE EnhanceEnd
  <2>1. /\ stage = "enhance" /\ UNCHANGED crawlVars
        /\ \/ Raise
           \/ /\ \E proposed \in Proposals : ir' = PostEnhancement(ApplyEnhancements(ir), proposed)
              /\ stage' = "validate_ir"
              /\ UNCHANGED <<job, failedAt, protocol, env, rt, smoke, audit>>
    BY <1>8 DEF EnhanceEnd
  <2>2. MadeOf(ApplyEnhancements(ir), Base)
    BY <1>0, <2>1, ApplyKeeps DEF StageInv, ServiceKept, ServiceMade
  <2> QED
    BY <2>1, <2>2, EnhanceKeeps, RaiseKeeps
<1>9. CASE \E answer \in TokenAnswers : ValidateIR(answer)
  <2>1. PICK answer \in TokenAnswers : ValidateIR(answer)
    BY <1>9
  <2>2. CASE ~PreDeployPasses(ir, answer)
    BY <2>1, <2>2, RaiseKeeps DEF ValidateIR
  <2>3. CASE PreDeployPasses(ir, answer)
    <3>1. /\ stage = "validate_ir" /\ stage' = "generate" /\ failedAt' = failedAt
          /\ UNCHANGED <<job, protocol, ir, env, rt, smoke, audit, observed>>
      BY <2>1, <2>3 DEF ValidateIR, crawlVars
    <3>2. Valid(ir) /\ EventSupportPasses(ir)
      BY <2>3 DEF PreDeployPasses
    <3>3. (ServiceMade' <=> ServiceMade) /\ (IsDeployed' <=> IsDeployed)
      BY <3>1 DEF ServiceMade, IsDeployed
    <3> QED
      BY <3>1, <3>2, <3>3, FrameKeeps DEF Enhanced
  <2> QED
    BY <2>2, <2>3
<1>10. CASE Generate
  <2>1. /\ stage = "generate" /\ stage' = "deploy" /\ env' = ManifestEnv(ModelValidate(ir))
        /\ UNCHANGED <<job, failedAt, protocol, ir, rt, smoke, audit, observed>>
    BY <1>10 DEF Generate, crawlVars
  <2>2. Base' = Base
    BY <2>1 DEF Base
  <2>3. ServiceKept'
    BY <2>1, <2>2 DEF StageInv, ServiceKept, ServiceMade
  <2>4. References' /\ Checked' /\ Flagged'
    BY <2>1 DEF StageInv, References, Checked, Flagged, Enhanced
  <2>5. Running' /\ Tried'
    BY <1>0, <2>1 DEF StageInv, Running, IsDeployed, Tried
  <2> QED
    BY <2>1, <2>3, <2>4, <2>5 DEF StageInv
<1>11. CASE Deploy
  <2>1. /\ stage = "deploy" /\ stage' = "validate_runtime" /\ rt' = BuildRuntimeState(ir, env)
        /\ UNCHANGED <<job, failedAt, protocol, ir, env, smoke, audit, observed>>
    BY <1>11 DEF Deploy, crawlVars
  <2>2. Base' = Base
    BY <2>1 DEF Base
  <2>3. ServiceKept'
    BY <2>1, <2>2 DEF StageInv, ServiceKept, ServiceMade
  <2>4. References' /\ Checked' /\ Flagged'
    BY <2>1 DEF StageInv, References, Checked, Flagged, Enhanced
  <2>5. smoke = NoOp /\ audit = <<>>
    BY <1>0, <2>1 DEF StageInv, Running, IsDeployed
  <2>6. Running' /\ Tried'
    BY <2>1, <2>5 DEF StageInv, Checked, Flagged, Running, Deployed, IsDeployed, Tried
  <2> QED
    BY <2>1, <2>3, <2>4, <2>6 DEF StageInv
<1>12. CASE ValidateRuntime
  <2>1. /\ stage = "validate_runtime"
        /\ UNCHANGED <<job, protocol, ir, env, rt, audit, observed>>
        /\ rt.loaded
    BY <1>12 DEF ValidateRuntime, HealthPasses, crawlVars
  <2>2. \/ stage' = "serving" /\ failedAt' = failedAt
        \/ stage' = "failed" /\ failedAt' = "validate_runtime"
    BY <1>12 DEF ValidateRuntime
  <2>3. \E op \in SmokeChoices(rt, job.preferred, job.sampled) : smoke' = op.id
    BY <1>12 DEF ValidateRuntime
  <2>4. Base' = Base
    BY <2>1 DEF Base
  <2>5. ServiceKept'
    BY <1>0, <2>1, <2>2, <2>4 DEF StageInv, ServiceKept, ServiceMade
  <2>6. References' /\ Checked' /\ Flagged'
    BY <2>1, <2>2 DEF StageInv, References, Checked, Flagged, Enhanced
  <2>7. Running' /\ Tried'
    BY <2>1, <2>2, <2>3 DEF StageInv, Running, Deployed, IsDeployed, Tried
  <2> QED
    BY <2>1, <2>5, <2>6, <2>7 DEF StageInv
<1>13. CASE NothingToCall
  BY <1>13, RaiseKeeps DEF NothingToCall
<1>14. CASE AuditTools
  <2>1. /\ stage = "serving"
        /\ UNCHANGED <<job, stage, failedAt, protocol, ir, env, rt, smoke, observed>>
        /\ \E connected \in BOOLEAN : audit' = Audit(rt, job.sampled, job.numeric, connected)
    BY <1>14 DEF AuditTools, crawlVars
  <2>2. Base' = Base
    BY <2>1 DEF Base
  <2>3. ServiceKept'
    BY <2>1, <2>2 DEF StageInv, ServiceKept, ServiceMade
  <2>4. References' /\ Checked' /\ Flagged'
    BY <2>1 DEF StageInv, References, Checked, Flagged
  <2>5. Running' /\ Tried'
    BY <2>1 DEF StageInv, Running, Deployed, IsDeployed, Tried
  <2> QED
    BY <2>1, <2>3, <2>4, <2>5 DEF StageInv
<1>15. CASE UNCHANGED vars
  <2>1. UNCHANGED <<job, stage, failedAt, protocol, ir, env, rt, smoke, audit, observed>>
    BY <1>15 DEF vars, ownVars, crawlVars
  <2> QED
    BY <2>1, FrameKeeps DEF ServiceMade, IsDeployed
<1> QED
  BY <1>1, <1>2, <1>3, <1>4, <1>5, <1>6, <1>7, <1>8, <1>9, <1>10, <1>11, <1>12, <1>13, <1>14,
     <1>15 DEF Next

LEMMA StageAlways == Spec => [](ControlInv /\ StageInv)
<1>1. Init => StageInv
  <2> SUFFICES ASSUME Init PROVE StageInv
    OBVIOUS
  <2>1. /\ stage = "detect" /\ failedAt = "none" /\ ir = NoService /\ rt = NoRuntime
        /\ smoke = NoOp /\ audit = <<>> /\ observed = <<>>
    BY DEF Init, CrawlInit
  <2>2. Observed(observed)
    <3>1. DOMAIN observed = {}
      BY <2>1
    <3> QED
      BY <3>1, FS_EmptySet DEF Observed
  <2> QED
    BY <2>1, <2>2 DEF StageInv, ServiceKept, ServiceMade, References, Enhanced, Checked, Flagged,
                      Running, IsDeployed, Tried
<1>2. ControlInv /\ StageInv /\ [Next]_vars => StageInv'
  BY StageInductive
<1> QED
  BY <1>1, <1>2, ControlAlways, PTL DEF Spec
-----------------------------------------------------------------------------
(* What a deployed runtime serves.                                          *)
LEMMA ServedIs ==
  ASSUME ControlInv, StageInv, IsDeployed
  PROVE  /\ MadeOf(ir, Base) /\ MadeOf(rt.ir, Base) /\ Valid(ir) /\ EventSupportPasses(ir)
         /\ protocol # "rest" => ~ExtractRaises(protocol, job.source)
         /\ rt.ir = ModelValidate(ir) /\ rt.ir.ops = ir.ops /\ rt.ir.prompts = ir.prompts
         /\ rt.ir.groups = ir.groups /\ rt.tools = EnabledIds(rt.ir)
         /\ rt.executors = Executors(rt.ir, env) /\ env = ManifestEnv(rt.ir)
<1>1. Deployed
  BY DEF StageInv, Running
<1>2. ServiceMade
  BY DEF ControlInv, Staged, IsDeployed, ServiceMade, Stages
<1>3. MadeOf(ir, Base) /\ (protocol # "rest" => ~ExtractRaises(protocol, job.source))
  BY <1>2 DEF StageInv, ServiceKept
<1>4. /\ rt.ir = ModelValidate(ir) /\ rt.executors = Executors(rt.ir, env)
      /\ Valid(ir) => rt.tools = EnabledIds(rt.ir)
  BY <1>1 DEF Deployed, BuildRuntimeState, RegisteredTools
<1> QED
  BY <1>1, <1>3, <1>4, ValidateKeeps DEF Deployed

(* An id names one operation.                                               *)
LEMMA ToolIs ==
  ASSUME ControlInv, StageInv, IsDeployed, NEW op \in ToSet(ir.ops)
  PROVE  /\ OpOf(rt.ir, op.id) = op /\ OpOf(ir, op.id) = op
         /\ \E i \in DOMAIN Base.ops : op = ir.ops[i] /\ OpMadeOf(op, Base.ops[i])
<1>1. rt.ir.ops = ir.ops /\ MadeOf(ir, Base) /\ Valid(ir)
  BY ServedIs
<1>2. \A a, b \in ToSet(ir.ops) : a.id = b.id => a = b
  BY <1>1 DEF Valid, UniqueOpIds, ToSet
<1>3. OpOf(ir, op.id) = op
  BY <1>2 DEF OpOf
<1>4. OpOf(rt.ir, op.id) = OpOf(ir, op.id)
  BY <1>1 DEF OpOf
<1>5. PICK i \in DOMAIN ir.ops : op = ir.ops[i]
  BY DEF ToSet
<1>6. i \in DOMAIN Base.ops /\ OpMadeOf(ir.ops[i], Base.ops[i])
  BY <1>1, <1>5 DEF MadeOf
<1> QED
  BY <1>3, <1>4, <1>5, <1>6

LEMMA ListedToolIs ==
  ASSUME ControlInv, StageInv, IsDeployed, NEW id \in rt.tools
  PROVE  /\ OpOf(rt.ir, id) \in ToSet(ir.ops) /\ OpOf(rt.ir, id).id = id
         /\ OpOf(rt.ir, id).enabled /\ OpOf(rt.ir, id).level # "unknown"
<1>1. rt.tools = EnabledIds(rt.ir) /\ rt.ir.ops = ir.ops
  BY ServedIs
<1>2. PICK op \in ToSet(ir.ops) : op.enabled /\ op.id = id
  BY <1>1 DEF EnabledIds, EnabledOps
<1>3. OpOf(rt.ir, id) = op /\ \E i \in DOMAIN Base.ops : OpMadeOf(op, Base.ops[i])
  BY <1>2, ToolIs
<1>4. op.level # "unknown"
  BY <1>2, <1>3 DEF OpMadeOf
<1> QED
  BY <1>2, <1>3, <1>4

(* For every source and every answer of the LLM to enhance_stage: what the  *)
(* prompts and groups of a served service refer to is listed by its         *)
(* runtime, and no tool of unknown risk is.                                 *)
THEOREM ReferencesAreListed == Spec => []ReferencesListed
<1>1. ControlInv /\ StageInv => ReferencesListed
  <2> SUFFICES ASSUME ControlInv, StageInv, stage = "serving" PROVE ReferencesListed
    BY DEF ReferencesListed
  <2>1. IsDeployed
    BY DEF IsDeployed
  <2>2. ReferencesEnabled(ir)
    BY DEF StageInv, References, Enhanced
  <2>3. /\ rt.ir.prompts = ir.prompts /\ rt.ir.groups = ir.groups
        /\ rt.tools = EnabledIds(rt.ir) /\ rt.ir.ops = ir.ops
    BY <2>1, ServedIs
  <2>4. rt.tools = EnabledIds(ir)
    BY <2>3 DEF EnabledIds, EnabledOps
  <2>5. \A id \in rt.tools : OpOf(rt.ir, id).level # "unknown"
    BY <2>1, ListedToolIs
  <2> QED
    BY <2>2, <2>3, <2>4, <2>5 DEF ReferencesListed, ReferencesEnabled
<1> QED
  BY <1>1, StageAlways, PTL

(* RESTExtractor, for every website and whatever requests are lost: each    *)
(* method that discovery saw a path answer to is a tool's whose template    *)
(* covers the path.                                                         *)
THEOREM MethodsStayReachable == Spec => []MethodsReachable
<1>1. ControlInv /\ StageInv => MethodsReachable
  <2> SUFFICES ASSUME ControlInv, StageInv, protocol = "rest", ir.ops # <<>>,
                      NEW p \in DOMAIN observed, NEW m \in observed[p].methods
               PROVE  \E op \in ToSet(ir.ops) : op.method = m /\ Covers(op.at, p)
    BY DEF MethodsReachable
  <2>1. MadeOf(ir, Base) /\ Base = RestExtract(observed)
    BY DEF StageInv, ServiceKept, NoService, Service, Base, BaseOf
  <2>2. PICK q \in DOMAIN Discovered(observed) :
          m \in Discovered(observed)[q].methods /\ Covers(q, p)
    BY DiscoveredKeeps DEF StageInv
  <2>3. PICK i \in DOMAIN Base.ops : Base.ops[i].method = m /\ Base.ops[i].at = q
    BY <2>1, <2>2, RestExtractIs DEF StageInv
  <2>4. i \in DOMAIN ir.ops /\ OpMadeOf(ir.ops[i], Base.ops[i])
    BY <2>1, <2>3 DEF MadeOf
  <2>5. ir.ops[i].method = m /\ ir.ops[i].at = q
    BY <2>3, <2>4 DEF OpMadeOf, SameCore
  <2> QED
    BY <2>2, <2>4, <2>5 DEF ToSet
<1> QED
  BY <1>1, StageAlways, PTL
-----------------------------------------------------------------------------
(* Setting one field leaves the others.                                     *)
LEMMA OpenField ==
  ASSUME NEW op, IsOp(op), NEW v, NEW new, new = [op EXCEPT !.open = v]
  PROVE  /\ IsOp(new) /\ new.id = op.id /\ new.method = op.method
         /\ new.contract = op.contract /\ new.level = op.level /\ new.writes = op.writes
         /\ new.destructive = op.destructive /\ new.body = op.body /\ new.open = v
BY DEF IsOp

LEMMA BodyField ==
  ASSUME NEW op, IsOp(op), NEW v, NEW new, new = [op EXCEPT !.body = v]
  PROVE  /\ IsOp(new) /\ new.id = op.id /\ new.method = op.method
         /\ new.contract = op.contract /\ new.level = op.level /\ new.writes = op.writes
         /\ new.destructive = op.destructive /\ new.open = op.open /\ new.body = v
BY DEF IsOp

LEMMA WritesField ==
  ASSUME NEW op, IsOp(op), NEW v, NEW new, new = [op EXCEPT !.writes = v]
  PROVE  /\ IsOp(new) /\ new.id = op.id /\ new.method = op.method
         /\ new.contract = op.contract /\ new.level = op.level /\ new.writes = v
         /\ new.destructive = op.destructive /\ new.open = op.open /\ new.body = op.body
BY DEF IsOp

LEMMA DestructiveField ==
  ASSUME NEW op, IsOp(op), NEW v, NEW new, new = [op EXCEPT !.destructive = v]
  PROVE  /\ IsOp(new) /\ new.id = op.id /\ new.method = op.method
         /\ new.contract = op.contract /\ new.level = op.level /\ new.writes = op.writes
         /\ new.destructive = v /\ new.open = op.open /\ new.body = op.body
BY DEF IsOp

(* An operation over HTTP whose risk its method tells.                      *)
ByMethod(op) ==
  op.level = MethodRisk(op.method) /\ op.writes = (op.level \in {"cautious", "dangerous"})

LEMMA OpenAPIOperationIs ==
  ASSUME NEW item
  PROVE  /\ ByMethod(OpenAPIOperation(item)) /\ OpenAPIOperation(item).method = item.verb
         /\ OpenAPIOperation(item).id = <<"openapi", item.name>>
<1> DEFINE v == item.kind = "path"
           w == OpenAPIBody(item)
<1>1. PICK plain : plain = Operation(<<"openapi", item.name>>, item.verb, "http", MethodRisk(item.verb))
  OBVIOUS
<1>2. PICK opened : opened = [plain EXCEPT !.open = v]
  OBVIOUS
<1>3. PICK op : op = [opened EXCEPT !.body = w]
  OBVIOUS
<1>4. OpenAPIOperation(item) = op
  <2>1. OpenAPIOperation(item) = [plain EXCEPT !.open = v, !.body = w]
    BY <1>1 DEF OpenAPIOperation
  <2> HIDE DEF v, w
  <2>2. [plain EXCEPT !.open = v, !.body = w] = [[plain EXCEPT !.open = v] EXCEPT !.body = w]
    OBVIOUS
  <2> QED
    BY <1>2, <1>3, <2>1, <2>2, Zenon
<1> HIDE DEF v, w
<1>5. /\ IsOp(plain) /\ plain.id = <<"openapi", item.name>> /\ plain.method = item.verb
      /\ plain.level = MethodRisk(item.verb)
      /\ plain.writes = (MethodRisk(item.verb) \in {"cautious", "dangerous"})
  BY <1>1 DEF Operation, IsOp
<1>6. /\ IsOp(opened) /\ opened.id = plain.id /\ opened.method = plain.method
      /\ opened.level = plain.level /\ opened.writes = plain.writes
  BY <1>2, <1>5, OpenField
<1>7. /\ op.id = opened.id /\ op.method = opened.method
      /\ op.level = opened.level /\ op.writes = opened.writes
  BY <1>3, <1>6, BodyField
<1> QED
  BY <1>4, <1>5, <1>6, <1>7, Zenon DEF ByMethod

(* The operations of OData and SCIM on one resource.                        *)
LEMMA EntityOperationIs ==
  ASSUME NEW verb, NEW name, NEW method, NEW op,
         op = EntityOperation(verb, name, method) \/ op = ScimOperation(verb, name, method)
  PROVE  ByMethod(op) /\ op.method = method /\ op.id = <<verb, name>> /\ op.contract = "http"
<1> DEFINE v == verb \notin {"list", "create"}
<1>1. PICK plain : plain = Operation(<<verb, name>>, method, "http", MethodRisk(method))
  OBVIOUS
<1>2. op = [plain EXCEPT !.open = v]
  BY <1>1 DEF EntityOperation, ScimOperation
<1> HIDE DEF v
<1>3. /\ IsOp(plain) /\ plain.id = <<verb, name>> /\ plain.method = method
      /\ plain.level = MethodRisk(method) /\ plain.contract = "http"
      /\ plain.writes = (MethodRisk(method) \in {"cautious", "dangerous"})
  BY <1>1 DEF Operation, IsOp
<1>4. /\ op.id = plain.id /\ op.method = plain.method
      /\ op.level = plain.level /\ op.writes = plain.writes /\ op.contract = plain.contract
  BY <1>2, <1>3, OpenField
<1> QED
  BY <1>3, <1>4, Zenon DEF ByMethod

LEMMA EntityOpsAre ==
  ASSUME NEW name, NEW op \in EntityOps(name) \cup ScimOps(name)
  PROVE  /\ ByMethod(op) /\ op.method # "none" /\ op.contract = "http"
         /\ \E verb : op.id = <<verb, name>>
<1>1. PICK verb, method : /\ method # "none"
                          /\ \/ op = EntityOperation(verb, name, method)
                             \/ op = ScimOperation(verb, name, method)
  <2>1. \/ op = EntityOperation("list", name, "GET") \/ op = EntityOperation("get_by_key", name, "GET")
        \/ op = EntityOperation("create", name, "POST") \/ op = EntityOperation("update", name, "PATCH")
        \/ op = EntityOperation("delete", name, "DELETE")
        \/ op = ScimOperation("list", name, "GET") \/ op = ScimOperation("get", name, "GET")
        \/ op = ScimOperation("create", name, "POST") \/ op = ScimOperation("update", name, "PUT")
        \/ op = ScimOperation("patch", name, "PATCH") \/ op = ScimOperation("delete", name, "DELETE")
    BY Zenon DEF EntityOps, ScimOps
  <2>2. /\ "GET" # "none" /\ "POST" # "none" /\ "PUT" # "none" /\ "PATCH" # "none"
        /\ "DELETE" # "none"
    OBVIOUS
  <2> QED
    BY <2>1, <2>2, Zenon
<1> QED
  <2>1. ByMethod(op) /\ op.method = method /\ op.id = <<verb, name>> /\ op.contract = "http"
    <3>1. CASE op = EntityOperation(verb, name, method)
      BY <3>1, EntityOperationIs
    <3>2. CASE op = ScimOperation(verb, name, method)
      <4>1. op = EntityOperation(verb, name, method)
        BY <3>2 DEF EntityOperation, ScimOperation
      <4> QED
        BY <3>1, <4>1
    <3> QED
      BY <1>1, <3>1, <3>2
  <2> QED
    BY <1>1, <2>1, Zenon

LEMMA ScimGlobalIs ==
  ASSUME NEW item, NEW op, op = ScimGlobalOperation(item)
  PROVE  op.method = "POST" /\ op.writes = TRUE /\ \E name : op.id = <<name>>
<1>1. CASE item.kind = "bulk"
  <2>1. PICK plain : plain = Operation(<<"bulk_operation">>, "POST", "http", "dangerous")
    OBVIOUS
  <2>2. op = [plain EXCEPT !.destructive = FALSE]
    BY <1>1, <2>1 DEF ScimGlobalOperation
  <2>3. IsOp(plain) /\ plain.method = "POST" /\ plain.writes = TRUE /\ plain.id = <<"bulk_operation">>
    BY <2>1 DEF Operation, IsOp
  <2> QED
    BY <2>2, <2>3, DestructiveField
<1>2. CASE item.kind # "bulk"
  <2>1. PICK plain : plain = Operation(<<"change_password">>, "POST", "http", "cautious")
    OBVIOUS
  <2>2. op = plain
    BY <1>2, <2>1 DEF ScimGlobalOperation
  <2>3. plain.method = "POST" /\ plain.writes = TRUE /\ plain.id = <<"change_password">>
    BY <2>1 DEF Operation, IsOp
  <2> QED
    BY <2>2, <2>3, Zenon
<1> QED
  BY <1>1, <1>2

LEMMA CommandOperationIs ==
  ASSUME NEW item, NEW op, op = CommandOperation(item)
  PROVE  /\ op.id = <<item.name>> /\ op.method = "none" /\ op.contract = "cli"
         /\ op.level = CommandRisk(item)
         /\ item.kind = "named" => op.writes = (op.level \in {"cautious", "dangerous"})
         /\ item.kind # "named" => op.writes = (item.kind = "writes")
<1> DEFINE v == item.kind = "writes"
<1>1. PICK plain : plain = Operation(<<item.name>>, "none", "cli", CommandRisk(item))
  OBVIOUS
<1>2. /\ IsOp(plain) /\ plain.id = <<item.name>> /\ plain.method = "none"
      /\ plain.contract = "cli" /\ plain.level = CommandRisk(item)
      /\ plain.writes = (CommandRisk(item) \in {"cautious", "dangerous"})
  BY <1>1 DEF Operation, IsOp
<1>3. CASE item.kind = "named"
  <2>1. op = plain
    BY <1>1, <1>3 DEF CommandOperation
  <2> QED
    BY <1>2, <1>3, <2>1, Zenon
<1>4. CASE item.kind # "named"
  <2>1. op = [plain EXCEPT !.writes = v, !.destructive = FALSE]
    BY <1>1, <1>4 DEF CommandOperation
  <2> HIDE DEF v
  <2>2. PICK once : once = [plain EXCEPT !.writes = v]
    OBVIOUS
  <2>3. op = [once EXCEPT !.destructive = FALSE]
    BY <2>1, <2>2
  <2>4. /\ IsOp(once) /\ once.id = plain.id /\ once.method = plain.method
        /\ once.contract = plain.contract /\ once.level = plain.level /\ once.writes = v
    BY <1>2, <2>2, WritesField
  <2>5. /\ op.id = once.id /\ op.method = once.method
        /\ op.contract = once.contract /\ op.level = once.level /\ op.writes = once.writes
    BY <2>3, <2>4, DestructiveField
  <2> QED
    BY <1>2, <1>4, <2>4, <2>5, Zenon DEF v
<1> QED
  BY <1>3, <1>4
(* The protocols whose services can be deployed, and those with one tool    *)
(* per item at most, named after it.                                        *)
ByItem == {"graphql", "grpc", "soap", "jsonrpc", "cli"}
ToolProtocols == ByItem \cup {"openapi", "odata", "scim", "sql"}

ReadMethods == {"GET", "HEAD", "OPTIONS"}

(* ReadsBySource, for an operation and the item it was made of.             *)
ReadsAs(p, item, op) ==
  CASE p \in {"openapi", "odata", "scim", "rest"} -> op.method \in ReadMethods
    [] p = "sql" -> op.id[1] = "query"
    [] p = "graphql" -> item.kind = "query"
    [] p = "cli" /\ item.kind # "named" -> item.kind # "writes"
    [] OTHER -> item.verb = "get"

(* An operation can be sent, and one that is taken for harmless is.         *)
Faithful(p, item, op) ==
  /\ op.id # NoOp
  /\ op.contract \in {"sql", "grpc_unary", "cli"} \/ op.method # "none"
  /\ op.level # "unknown" /\ (~op.writes \/ op.method \in ReadMethods) =>
       ReadsAs(p, item, op)
  /\ p = "odata" => op.contract = "http"

LEMMA ByMethodReads ==
  ASSUME NEW op, ByMethod(op), op.level # "unknown",
         ~op.writes \/ op.method \in ReadMethods
  PROVE  op.method \in ReadMethods
BY DEF ByMethod, MethodRisk, ReadMethods

LEMMA TupleIds ==
  ASSUME NEW a, NEW b
  PROVE  <<a>> # NoOp /\ <<a, b>> # NoOp
BY DEF NoOp

LEMMA MadeFaithfully ==
  ASSUME NEW p \in ToolProtocols, NEW s, NEW item, item.verb # "none", NEW op \in OpsOf(p, s, item)
  PROVE  Faithful(p, item, op)
<1>1. CASE p = "openapi"
  <2>1. op = OpenAPIOperation(item)
    BY <1>1 DEF OpsOf
  <2>2. ByMethod(op) /\ op.method = item.verb /\ op.id = <<"openapi", item.name>>
    BY <2>1, OpenAPIOperationIs, Zenon
  <2> QED
    BY <1>1, <2>2, ByMethodReads, TupleIds DEF Faithful, ReadsAs
<1>2. CASE p = "odata"
  <2>1. CASE op = ImportOperation(item)
    <3>1. PICK method : /\ method \in {"GET", "POST"}
                        /\ op = Operation(<<item.kind, item.name>>, method, "http", MethodRisk(method))
      BY <2>1 DEF ImportOperation
    <3>2. /\ ByMethod(op) /\ op.method = method /\ op.id = <<item.kind, item.name>>
          /\ op.contract = "http"
      BY <3>1 DEF Operation, IsOp, ByMethod
    <3> QED
      BY <1>2, <3>1, <3>2, ByMethodReads, TupleIds DEF Faithful, ReadsAs
  <2>2. CASE op \in EntityOps(item.name)
    <3>1. /\ ByMethod(op) /\ op.method # "none" /\ op.contract = "http"
          /\ \E verb : op.id = <<verb, item.name>>
      BY <2>2, EntityOpsAre, Zenon
    <3>2. op.id # NoOp
      BY <3>1, TupleIds
    <3> QED
      BY <1>2, <3>1, <3>2, ByMethodReads DEF Faithful, ReadsAs
  <2> QED
    BY <1>2, <2>1, <2>2 DEF OpsOf
<1>3. CASE p = "scim"
  <2>1. CASE op = ScimGlobalOperation(item)
    <3>1. op.method = "POST" /\ op.writes = TRUE /\ \E name : op.id = <<name>>
      BY <2>1, ScimGlobalIs, Zenon
    <3>2. op.id # NoOp
      BY <3>1, TupleIds
    <3> QED
      BY <1>3, <3>1, <3>2 DEF Faithful, ReadMethods
  <2>2. CASE op \in ScimOps(item.name)
    <3>1. /\ ByMethod(op) /\ op.method # "none" /\ op.contract = "http"
          /\ \E verb : op.id = <<verb, item.name>>
      BY <2>2, EntityOpsAre, Zenon
    <3>2. op.id # NoOp
      BY <3>1, TupleIds
    <3> QED
      BY <1>3, <3>1, <3>2, ByMethodReads DEF Faithful, ReadsAs
  <2> QED
    BY <1>3, <2>1, <2>2 DEF OpsOf
<1>4. CASE p = "sql"
  <2>1. CASE op = QueryOperation(item)
    <3>1. op.id = <<"query", item.name>> /\ op.contract = "sql"
      BY <2>1 DEF QueryOperation, Operation
    <3> QED
      BY <1>4, <3>1, TupleIds DEF Faithful, ReadsAs
  <2>2. CASE op \in {InsertOperation(item), UpdateOperation(item), DeleteOperation(item)}
    <3>1. PICK id, level : /\ op = Operation(<<id, item.name>>, "POST", "sql", level)
                           /\ level \in {"cautious", "dangerous"}
      BY <2>2 DEF InsertOperation, UpdateOperation, DeleteOperation
    <3>2. op.id = <<id, item.name>> /\ op.contract = "sql" /\ op.writes = TRUE /\ op.method = "POST"
      BY <3>1 DEF Operation, IsOp
    <3> QED
      BY <1>4, <3>2, TupleIds DEF Faithful, ReadMethods
  <2> QED
    BY <1>4, <2>1, <2>2 DEF OpsOf
<1>5. CASE p = "graphql"
  <2>1. op = GraphQLOperation(item)
    BY <1>5 DEF OpsOf
  <2>2. /\ op.id = <<item.name>> /\ op.method = "POST"
        /\ ~op.writes => item.kind = "query"
    BY <2>1 DEF GraphQLOperation, Operation
  <2> QED
    BY <1>5, <2>2, TupleIds DEF Faithful, ReadsAs, ReadMethods
<1>6. CASE p \in {"grpc", "soap", "jsonrpc"}
  <2>1. op \in {GrpcOperation(item), SoapOperation(item), JsonRpcOperation(item)}
    BY <1>6 DEF OpsOf
  <2>2. PICK contract : op = Operation(<<item.name>>, "POST", contract, NameRisk(item.verb))
    BY <2>1 DEF GrpcOperation, SoapOperation, JsonRpcOperation, RpcRisk, SoapRisk, JsonRpcRisk
  <2>3. /\ op.id = <<item.name>> /\ op.method = "POST"
        /\ op.writes = (NameRisk(item.verb) \in {"cautious", "dangerous"})
    BY <2>2 DEF Operation, IsOp
  <2>4. ~op.writes => item.verb = "get"
    BY <2>3 DEF NameRisk
  <2> QED
    BY <1>6, <2>3, <2>4, TupleIds DEF Faithful, ReadsAs, ReadMethods
<1>7. CASE p = "cli"
  <2>1. op = CommandOperation(item)
    BY <1>7 DEF OpsOf
  <2>2. /\ op.id = <<item.name>> /\ op.method = "none" /\ op.contract = "cli"
        /\ op.level = CommandRisk(item)
        /\ item.kind = "named" => op.writes = (op.level \in {"cautious", "dangerous"})
        /\ item.kind # "named" => op.writes = (item.kind = "writes")
    BY <2>1, CommandOperationIs, Zenon
  <2>3. ~op.writes => ReadsAs(p, item, op)
    <3>1. CASE item.kind = "named"
      BY <1>7, <2>2, <3>1 DEF ReadsAs, CommandRisk, NameRisk
    <3>2. CASE item.kind # "named"
      BY <1>7, <2>2, <3>2 DEF ReadsAs
    <3> QED
      BY <3>1, <3>2
  <2> QED
    BY <1>7, <2>2, <2>3, TupleIds DEF Faithful, ReadMethods
<1> QED
  BY <1>1, <1>2, <1>3, <1>4, <1>5, <1>6, <1>7 DEF ToolProtocols, ByItem
(* A tool that is served was discovered or made of an item of the source.   *)
ServedByDiscovery(op) ==
  /\ protocol = "rest" /\ Base.events = {} /\ op.method \in Methods
  /\ op.level # "unknown" /\ (~op.writes \/ op.method \in ReadMethods) =>
       op.method \in ReadMethods

ServedFor(op, item) ==
  /\ protocol \in ToolProtocols /\ Base = Extracted(protocol, job.source)
  /\ item \in ToSet(job.source.items) /\ Faithful(protocol, item, op)
  /\ \E base \in OpsOf(protocol, job.source, item) : op.id = base.id

LEMMA SourceIs ==
  ASSUME ControlInv
  PROVE  /\ job.source.items \in Seq([name : STRING, verb : STRING, kind : STRING])
         /\ \A item \in ToSet(job.source.items) : item.verb # "none"
BY JobsAssumption DEF ControlInv, Requested

LEMMA PlannedIsRefused ==
  ASSUME ControlInv, StageInv, IsDeployed, NEW item \in ToSet(job.source.items)
  PROVE  protocol # "asyncapi"
<1> SUFFICES ASSUME protocol = "asyncapi" PROVE FALSE
  OBVIOUS
<1>1. MadeOf(ir, Base) /\ EventSupportPasses(ir)
  BY ServedIs
<1>2. Base.events = {AsyncAPIEvent(i) : i \in ToSet(job.source.items)}
  BY DEF Base, BaseOf, Extracted, AsyncAPIExtract, Service
<1>3. AsyncAPIEvent(item) \in ir.events
  BY <1>1, <1>2 DEF MadeOf
<1>4. AsyncAPIEvent(item).support = "planned"
  BY DEF AsyncAPIEvent, Event
<1> QED
  BY <1>1, <1>3, <1>4 DEF EventSupportPasses, DescriptorPasses

LEMMA ServedOp ==
  ASSUME ControlInv, StageInv, IsDeployed, NEW op \in ToSet(ir.ops)
  PROVE  ServedByDiscovery(op) \/ \E item : ServedFor(op, item)
<1>1. PICK i \in DOMAIN Base.ops : op = ir.ops[i] /\ OpMadeOf(op, Base.ops[i])
  BY ToolIs
<1>2. PICK base : base = Base.ops[i]
  OBVIOUS
<1>3. SameCore(op, base) /\ base \in ToSet(Base.ops)
  BY <1>1, <1>2 DEF OpMadeOf, ToSet
<1>4. CASE protocol = "rest"
  <2>1. Base = RestExtract(observed) /\ Observed(observed)
    BY <1>4 DEF Base, BaseOf, StageInv
  <2>2. Base.events = {} /\ RestOp(base)
    BY <1>2, <2>1, RestExtractIs
  <2>3. /\ op.method \in Methods /\ op.level = RestRisk(op.method)
        /\ op.writes = (op.level \in {"cautious", "dangerous"})
    BY <1>3, <2>2, Zenon DEF RestOp, SameCore
  <2>4. op.level # "unknown" /\ (~op.writes \/ op.method \in ReadMethods) => op.method \in ReadMethods
    BY <2>3 DEF RestRisk, ReadMethods
  <2> QED
    BY <1>4, <2>2, <2>3, <2>4 DEF ServedByDiscovery
<1>5. CASE protocol # "rest"
  <2> DEFINE s == job.source
  <2>1. Base = Extracted(protocol, s) /\ ~ExtractRaises(protocol, s)
    BY <1>5, ServedIs DEF Base, BaseOf
  <2>2. base \in AllOps(protocol, s)
    <3>1. Extracted(protocol, s).ops \in Seq(AllOps(protocol, s))
      BY SourceIs, ExtractedOps
    <3> QED
      BY <1>3, <2>1, <3>1, ElementOfSeq, LenProperties DEF ToSet
  <2>3. PICK item \in ToSet(s.items) : base \in OpsOf(protocol, s, item)
    BY <2>2 DEF AllOps
  <2>4. protocol \in ToolProtocols
    <3>1. protocol # "asyncapi"
      BY <2>3, PlannedIsRefused
    <3>2. Accepts(protocol, s)
      BY <2>1 DEF ExtractRaises
    <3> QED
      BY <3>1, <3>2 DEF Accepts, ToolProtocols, ByItem
  <2>5. Faithful(protocol, item, base)
    BY <2>3, <2>4, SourceIs, MadeFaithfully
  <2>6. Faithful(protocol, item, op)
    BY <1>3, <2>5 DEF Faithful, SameCore, ReadsAs
  <2>7. op.id = base.id
    BY <1>3 DEF SameCore
  <2>8. ServedFor(op, item)
    BY <2>1, <2>3, <2>4, <2>6, <2>7, Zenon DEF ServedFor
  <2> QED
    BY <2>8
<1> QED
  BY <1>4, <1>5

(* The descriptors: all but those of native streams are unsupported and     *)
(* name no operation, or are callbacks.                                     *)
NativeDescriptor(e) ==
  \E name, mode : e = Event(<<name>>, "grpc_stream", "supported", <<name>>, mode)

LEMMA EventsAre ==
  ASSUME NEW p \in ToolProtocols, NEW s, NEW e \in Extracted(p, s).events, e.op # NoOp
  PROVE  e.transport = "callback" \/ NativeDescriptor(e)
<1>1. CASE p = "openapi"
  <2>1. e \in OpenAPIEvents(ToSet(s.items))
    BY <1>1 DEF Extracted, OpenAPIExtract, Service
  <2>2. CASE \E i : e = Event(<<i.name, "callback">>, "callback", "unsupported",
                              <<"openapi", i.name>>, "none")
    BY <2>2 DEF Event
  <2>3. CASE \E i : e = Event(<<i.name>>, "webhook", "unsupported", NoOp, "none")
    BY <2>3 DEF Event
  <2> QED
    BY <2>1, <2>2, <2>3 DEF OpenAPIEvents
<1>2. CASE p = "graphql"
  <2>1. \E i : e = GraphQLSubscription(i)
    BY <1>2 DEF Extracted, GraphQLExtract, Service
  <2> QED
    BY <2>1 DEF GraphQLSubscription, Event
<1>3. CASE p = "grpc"
  <2>1. PICK i : e = GrpcEvent(s, i)
    BY <1>3 DEF Extracted, GrpcExtract, Service
  <2>2. NativeStream(s, i)
    BY <2>1 DEF GrpcEvent, Event
  <2>3. e = Event(<<i.name>>, "grpc_stream", "supported", <<i.name>>, i.kind)
    BY <2>1, <2>2 DEF GrpcEvent
  <2> QED
    BY <2>3 DEF NativeDescriptor
<1>4. CASE p \in {"soap", "odata", "scim", "jsonrpc", "sql", "cli"}
  <2>1. Extracted(p, s).events = {}
    BY <1>4 DEF Extracted, SoapExtract, ODataExtract, ScimExtract, JsonRpcExtract, SqlExtract,
                CliExtract, Service
  <2> QED
    BY <2>1
<1> QED
  BY <1>1, <1>2, <1>3, <1>4 DEF ToolProtocols, ByItem

(* A descriptor that passed the validator and is native serves one stream.  *)
LEMMA NativePasses ==
  ASSUME NEW service, NEW e, NativeDescriptor(e), DescriptorPasses(service, e)
  PROVE  /\ e = Event(e.op, "grpc_stream", "supported", e.op, "server")
         /\ NeedsGrpcStream(service)
<1>1. PICK name, mode : e = Event(<<name>>, "grpc_stream", "supported", <<name>>, mode)
  BY DEF NativeDescriptor
<1>2. e.transport = "grpc_stream" /\ e.support = "supported" /\ e.op = <<name>> /\ e.mode = mode
  BY <1>1 DEF Event
<1>3. mode = "server" /\ NeedsGrpcStream(service)
  BY <1>2 DEF DescriptorPasses, StreamTransports
<1> QED
  BY <1>1, <1>2, <1>3
LEMMA ServedEvents ==
  ASSUME ControlInv, StageInv, IsDeployed, NEW op \in ToSet(ir.ops),
         NEW e \in rt.ir.events, e.op = op.id, ~HasCallback(op)
  PROVE  /\ e = Event(op.id, "grpc_stream", "supported", op.id, "server")
         /\ NeedsGrpcStream(rt.ir)
<1>1. /\ rt.ir.events = Base.events /\ ir.events = Base.events
      /\ \A d \in ir.events : DescriptorPasses(ir, d)
  BY ServedIs DEF MadeOf, EventSupportPasses
<1>2. PICK item : ServedFor(op, item)
  BY <1>1, ServedOp DEF ServedByDiscovery
<1>3. op.id # NoOp
  BY <1>2 DEF ServedFor, Faithful
<1>4. NativeDescriptor(e)
  <2>1. e.transport = "callback" \/ NativeDescriptor(e)
    BY <1>1, <1>2, <1>3, EventsAre DEF ServedFor
  <2> QED
    BY <1>1, <2>1 DEF HasCallback
<1>5. e = Event(e.op, "grpc_stream", "supported", e.op, "server") /\ NeedsGrpcStream(ir)
  BY <1>1, <1>4, NativePasses
<1>6. NeedsGrpcStream(rt.ir)
  BY <1>1, <1>5 DEF NeedsGrpcStream
<1> QED
  BY <1>5, <1>6

(* The executor that a served operation needs is there.                     *)
LEMMA StreamReaches ==
  ASSUME ControlInv, StageInv, IsDeployed, NEW op \in ToSet(ir.ops),
         op.contract \notin {"sql", "grpc_unary", "cli"},
         ~HasCallback(op), DescriptorsOf(rt.ir, op.id) # {}
  PROVE  Reaches(rt, op)
<1> DEFINE own == DescriptorsOf(rt.ir, op.id)
           e == Event(op.id, "grpc_stream", "supported", op.id, "server")
<1>0. /\ e.transport = "grpc_stream" /\ e.support = "supported" /\ e.mode = "server"
      /\ e.op = op.id
  BY DEF Event
<1> HIDE DEF e
<1>1. own = {e} /\ NeedsGrpcStream(rt.ir) /\ e \in rt.ir.events
  BY ServedEvents DEF DescriptorsOf, e
<1>2. Supported(rt.ir, op.id) = {e}
  BY <1>0, <1>1 DEF Supported
<1>3. StreamAdapter(rt.ir, op.id) = "grpc_stream"
  <2>1. Cardinality({e}) = 1
    BY FS_Singleton
  <2>2. \E d \in {e} : d.transport = "grpc_stream"
    BY <1>0
  <2>3. ~ \E d \in {e} : d.transport \in StreamTransports
    BY <1>0 DEF StreamTransports
  <2> QED
    BY <1>2, <2>1, <2>2, <2>3, Zenon DEF StreamAdapter
<1>4. Adapter(rt.ir, op) = "grpc_stream"
  BY <1>0, <1>1, <1>3 DEF Adapter, BrokerTransports, WebhookTransports
<1>5. rt.executors = Executors(rt.ir, env) /\ env = ManifestEnv(rt.ir)
  BY ServedIs
<1>6. "ENABLE_NATIVE_GRPC_STREAM" \in env
  BY <1>1, <1>5 DEF ManifestEnv
<1>7. GrpcStreamEnabled(rt.ir, env)
  BY <1>0, <1>1, <1>6 DEF GrpcStreamEnabled
<1> QED
  BY <1>4, <1>5, <1>7 DEF Reaches, Executors

LEMMA NativeReaches ==
  ASSUME ControlInv, StageInv, IsDeployed, NEW op \in ToSet(ir.ops), op.enabled,
         op.contract \in {"sql", "grpc_unary", "cli"}
  PROVE  Reaches(rt, op)
<1>1. Adapter(rt.ir, op) = op.contract
  BY DEF Adapter
<1>2. /\ rt.executors = Executors(rt.ir, env) /\ env = ManifestEnv(rt.ir)
      /\ rt.ir.ops = ir.ops
  BY ServedIs
<1>3. op \in EnabledOps(rt.ir)
  BY <1>2 DEF EnabledOps
<1>4. CASE op.contract = "sql"
  <2>1. SqlEnabled(rt.ir)
    BY <1>3, <1>4 DEF SqlEnabled
  <2> QED
    BY <1>1, <1>2, <1>4, <2>1 DEF Reaches, Executors
<1>5. CASE op.contract = "grpc_unary"
  <2>1. NeedsGrpcUnary(rt.ir)
    BY <1>3, <1>5 DEF NeedsGrpcUnary
  <2>2. GrpcUnaryEnabled(rt.ir, env)
    BY <1>2, <2>1 DEF GrpcUnaryEnabled, ManifestEnv
  <2> QED
    BY <1>1, <1>2, <1>5, <2>2 DEF Reaches, Executors
<1>6. CASE op.contract = "cli"
  BY <1>1, <1>6 DEF Reaches
<1> QED
  BY <1>4, <1>5, <1>6

LEMMA HttpReaches ==
  ASSUME ControlInv, StageInv, IsDeployed, NEW op \in ToSet(ir.ops),
         op.contract \notin {"sql", "grpc_unary", "cli"},
         DescriptorsOf(rt.ir, op.id) = {}
  PROVE  Reaches(rt, op)
<1>1. Adapter(rt.ir, op) = "http"
  BY DEF Adapter
<1>2. op.method # "none"
  BY ServedOp DEF ServedByDiscovery, ServedFor, Faithful, Methods
<1> QED
  BY <1>1, <1>2 DEF Reaches

(* For every source: validator, manifest flags and runtime agree, so that   *)
(* a runtime that passed its validation has what each tool it lists needs   *)
(* (but for OpenAPI operations with callbacks, which the proxy refuses).    *)
THEOREM ToolsAreCallable == Spec => []ListedToolsCallable
<1>1. ControlInv /\ StageInv => ListedToolsCallable
  <2> SUFFICES ASSUME ControlInv, StageInv, stage = "serving", NEW id \in rt.tools,
                      ~HasCallback(OpOf(rt.ir, id))
               PROVE  Reaches(rt, OpOf(rt.ir, id))
    BY DEF ListedToolsCallable
  <2>1. IsDeployed
    BY DEF IsDeployed
  <2>2. PICK op : op = OpOf(rt.ir, id)
    OBVIOUS
  <2>3. op \in ToSet(ir.ops) /\ op.enabled
    BY <2>1, <2>2, ListedToolIs
  <2> QED
    BY <2>1, <2>2, <2>3, NativeReaches, HttpReaches, StreamReaches
<1> QED
  BY <1>1, StageAlways, PTL
-----------------------------------------------------------------------------
(* What the smoke test and the audit call.                                  *)
LEMMA ToolOfItem ==
  ASSUME protocol \in ByItem, NEW item
  PROVE  /\ MakesTool(item) => \E op : /\ ItemOps(protocol, job.source, item) = <<op>>
                                       /\ op.id = <<item.name>>
         /\ \A op \in OpsOf(protocol, job.source, item) : MakesTool(item) /\ op.id = <<item.name>>
<1>1. CASE protocol = "graphql"
  <2>1. GraphQLOperation(item).id = <<item.name>>
    BY DEF GraphQLOperation, Operation
  <2>2. MakesTool(item) <=> item.kind # "subscription"
    BY <1>1 DEF MakesTool
  <2>3. item.kind # "subscription" => ItemOps(protocol, job.source, item) = <<GraphQLOperation(item)>>
    BY <1>1 DEF ItemOps
  <2>4. OpsOf(protocol, job.source, item)
          = {op \in {GraphQLOperation(item)} : item.kind # "subscription"}
    BY <1>1 DEF OpsOf
  <2> QED
    BY <2>1, <2>2, <2>3, <2>4, Zenon
<1>2. CASE protocol = "grpc"
  <2> DEFINE called == item.kind = "unary" \/ NativeStream(job.source, item)
  <2>1. GrpcOperation(item).id = <<item.name>>
    BY DEF GrpcOperation, Operation
  <2>2. MakesTool(item) <=> called
    BY <1>2 DEF MakesTool
  <2>3. called => ItemOps(protocol, job.source, item) = <<GrpcOperation(item)>>
    BY <1>2 DEF ItemOps
  <2>4. OpsOf(protocol, job.source, item) = {op \in {GrpcOperation(item)} : called}
    BY <1>2 DEF OpsOf
  <2> HIDE DEF called
  <2> QED
    BY <2>1, <2>2, <2>3, <2>4, Zenon
<1>3. CASE protocol \in {"soap", "jsonrpc", "cli"}
  <2>1. PICK made : /\ ItemOps(protocol, job.source, item) = <<made>>
                    /\ OpsOf(protocol, job.source, item) = {made}
                    /\ made \in {SoapOperation(item), JsonRpcOperation(item), CommandOperation(item)}
    <3>1. CASE protocol = "soap"
      BY <3>1 DEF ItemOps, OpsOf
    <3>2. CASE protocol = "jsonrpc"
      BY <3>2 DEF ItemOps, OpsOf
    <3>3. CASE protocol = "cli"
      BY <3>3 DEF ItemOps, OpsOf
    <3> QED
      BY <1>3, <3>1, <3>2, <3>3
  <2>2. SoapOperation(item).id = <<item.name>> /\ JsonRpcOperation(item).id = <<item.name>>
    BY DEF SoapOperation, JsonRpcOperation, Operation
  <2>3. CommandOperation(item).id = <<item.name>>
    BY CommandOperationIs
  <2>4. MakesTool(item)
    BY <1>3 DEF MakesTool
  <2> QED
    BY <2>1, <2>2, <2>3, <2>4, Zenon
<1> QED
  BY <1>1, <1>2, <1>3 DEF ByItem

(* Two items of one name that both make a tool are refused as a service.    *)
LEMMA OneItem ==
  ASSUME ControlInv, StageInv, IsDeployed, protocol \in ByItem,
         NEW one \in ToSet(job.source.items), NEW other \in ToSet(job.source.items),
         MakesTool(one), MakesTool(other), one.name = other.name
  PROVE  one = other
<1> SUFFICES ASSUME one # other PROVE FALSE
  OBVIOUS
<1> DEFINE s == job.source
           F == [i \in DOMAIN s.items |-> ItemOps(protocol, s, s.items[i])]
           service == Extracted(protocol, s)
<1>1. PICK a \in DOMAIN s.items : s.items[a] = one
  BY DEF ToSet
<1>2. PICK b \in DOMAIN s.items : s.items[b] = other
  BY DEF ToSet
<1>3. PICK x : ItemOps(protocol, s, one) = <<x>> /\ x.id = <<one.name>>
  BY ToolOfItem
<1>4. PICK y : ItemOps(protocol, s, other) = <<y>> /\ y.id = <<other.name>>
  BY ToolOfItem
<1>5. /\ F \in Seq(Seq(AllOps(protocol, s))) /\ service.ops = FlattenSeq(F)
  <2>1. s.items \in Seq([name : STRING, verb : STRING, kind : STRING])
    BY SourceIs
  <2>2. service.ops = FlattenSeq(F)
    BY ExtractedIs
  <2>3. F \in Seq(Seq(AllOps(protocol, s)))
    BY <2>1, ItemSequences
  <2> QED
    BY <2>2, <2>3
<1>6. a \in DOMAIN F /\ b \in DOMAIN F /\ F[a] = <<x>> /\ F[b] = <<y>>
  BY <1>1, <1>2, <1>3, <1>4
<1>7. x \in ToSet(F[a]) /\ y \in ToSet(F[b])
  <2>1. \A z : z \in ToSet(<<z>>)
    BY DEF ToSet
  <2> QED
    BY <1>6, <2>1, Zenon
<1>8. a # b
  BY <1>1, <1>2
<1>9. UniqueOpIds(service)
  <2>1. protocol # "rest"
    BY DEF ByItem
  <2> QED
    BY <2>1, ServedIs DEF ExtractRaises, Valid
<1> HIDE DEF F, service
<1>10. Apart(service.ops, x, y)
  BY <1>5, <1>6, <1>7, <1>8, FlattenSeqApart
<1> QED
  BY <1>3, <1>4, <1>9, <1>10 DEF Apart, UniqueOpIds

(* What reads by its item reads by the source.                              *)
LEMMA ServedReads ==
  ASSUME ControlInv, StageInv, IsDeployed, NEW op \in ToSet(ir.ops),
         op.level # "unknown", ~op.writes \/ op.method \in ReadMethods
  PROVE  ReadsBySource(op)
<1>1. CASE ServedByDiscovery(op)
  BY <1>1 DEF ServedByDiscovery, ReadsBySource, ReadMethods
<1>2. ASSUME NEW item, ServedFor(op, item) PROVE ReadsBySource(op)
  <2>1. ReadsAs(protocol, item, op) /\ protocol \in ToolProtocols
    BY <1>2 DEF ServedFor, Faithful
  <2>2. CASE protocol \in ByItem
    <3>1. MakesTool(item) /\ op.id = <<item.name>> /\ item \in ToSet(job.source.items)
      BY <1>2, <2>2, ToolOfItem DEF ServedFor
    <3>2. Last(op.id) = item.name
      BY <3>1 DEF Last
    <3>3. /\ ItemOf(op.id) \in ToSet(job.source.items) /\ ItemOf(op.id).name = item.name
          /\ MakesTool(ItemOf(op.id))
      BY <3>1, <3>2, Zenon DEF ItemOf
    <3>4. ItemOf(op.id) = item
      BY <2>2, <3>1, <3>3, OneItem
    <3> QED
      BY <2>1, <2>2, <3>4 DEF ReadsAs, ReadsBySource, ByItem
  <2>3. CASE protocol \notin ByItem
    BY <2>1, <2>3 DEF ReadsAs, ReadsBySource, ReadMethods, ToolProtocols, ByItem
  <2> QED
    BY <2>2, <2>3
<1> QED
  BY <1>1, <1>2, ServedOp

(* For every source: neither the smoke test nor the audit calls a tool that *)
(* by the source's own word writes, unless the user chose it; and a call    *)
(* that the audit reports as skipped was one with a number for its path.    *)
THEOREM ValidationIsHarmless == Spec => []SmokeHarmless
<1>1. ControlInv /\ StageInv => SmokeHarmless
  <2> SUFFICES ASSUME ControlInv, StageInv PROVE SmokeHarmless
    OBVIOUS
  <2>1. ASSUME smoke # NoOp, smoke # job.preferred PROVE ReadsBySource(OpOf(ir, smoke))
    <3>1. IsDeployed
      BY <2>1 DEF StageInv, Running
    <3>2. PICK op \in SmokeChoices(rt, job.preferred, job.sampled) : smoke = op.id
      BY <2>1 DEF StageInv, Tried
    <3>3. op \in EnabledOps(rt.ir) /\ SafeCandidate(op, job.sampled)
      BY <2>1, <3>2 DEF SmokeChoices
    <3>4. op \in ToSet(ir.ops) /\ op.enabled
      BY <3>1, <3>3, ServedIs DEF EnabledOps
    <3>5. OpOf(ir, smoke) = op /\ op.level # "unknown"
      BY <3>1, <3>2, <3>4, ToolIs DEF OpMadeOf
    <3>6. ~op.writes
      BY <3>3 DEF SafeCandidate
    <3> QED
      BY <3>1, <3>4, <3>5, <3>6, ServedReads
  <2>2. ASSUME NEW id \in DOMAIN audit, audit[id].called
        PROVE  /\ ReadsBySource(OpOf(rt.ir, id))
               /\ audit[id].outcome = "skipped" => id \in job.numeric /\ OpOf(rt.ir, id).open
    <3>1. audit # <<>>
      OBVIOUS
    <3>2. IsDeployed
      BY <3>1 DEF StageInv, Running
    <3>3. PICK connected \in BOOLEAN : audit = Audit(rt, job.sampled, job.numeric, connected)
      BY <3>1 DEF StageInv, Tried
    <3>4. rt.tools = EnabledIds(rt.ir)
      BY <3>2, ServedIs
    <3>5. /\ id \in rt.tools
          /\ audit[id] = AuditOutcome(rt, OpOf(rt.ir, id), job.sampled, job.numeric, connected)
      BY <3>3, <3>4 DEF Audit
    <3>6. PICK op : op = OpOf(rt.ir, id)
      OBVIOUS
    <3>7. op \in ToSet(ir.ops) /\ op.id = id /\ op.enabled /\ op.level # "unknown"
      BY <3>2, <3>5, <3>6, ListedToolIs
    <3>8. /\ Audited(op, job.sampled, job.numeric)
          /\ audit[id].outcome = "skipped" => UsesPlaceholder(op, job.sampled)
      BY <2>2, <3>5, <3>6, <3>7 DEF AuditOutcome
    <3>9. op.intent = "discovery" => op.method \in ReadMethods
      BY <3>2, <3>7, ToolIs DEF OpMadeOf, ReadMethods
    <3>10. ~op.writes \/ op.method \in ReadMethods
      BY <3>8, <3>9 DEF Audited, ReadMethods
    <3>11. audit[id].outcome = "skipped" => id \in job.numeric /\ op.open
      BY <3>7, <3>8 DEF Audited, UsesPlaceholder
    <3> QED
      BY <3>2, <3>6, <3>7, <3>10, <3>11, ServedReads
  <2> QED
    BY <2>1, <2>2 DEF SmokeHarmless
<1> QED
  BY <1>1, StageAlways, PTL
-----------------------------------------------------------------------------
(* Where the arguments of a call go.                                        *)

(* A flattened sequence keeps the place of an element that only sequences   *)
(* of one element come before.                                              *)
LEMMA FlattenSeqPlaces ==
  ASSUME NEW S, NEW seqs \in Seq(Seq(S)), NEW k \in DOMAIN seqs,
         \A j \in 1 .. k : Len(seqs[j]) = 1
  PROVE  k \in DOMAIN FlattenSeq(seqs) /\ FlattenSeq(seqs)[k] = seqs[k][1]
<1> DEFINE N == Len(seqs)
           F == Flat(seqs)
           Long == {n \in 1 .. k : Len(F[n]) # n}
           Moved == {n \in k .. N : ~(k <= Len(F[n]) /\ F[n][k] = seqs[k][1])}
<1>1. N \in Nat /\ DOMAIN seqs = 1 .. N /\ \A i \in 1 .. N : seqs[i] \in Seq(S)
  BY LenProperties, ElementOfSeq
<1>2. k \in 1 .. N /\ k \in Nat /\ k >= 1 /\ k <= N
  BY <1>1
<1>3. \A n \in 1 .. N : F[n] \in Seq(S) /\ F[n] = FlatStep(seqs, F, n)
  BY FlatProperties
<1> HIDE DEF F, N
<1>4. F[1] = seqs[1]
  <2>1. 1 \in 1 .. N
    BY <1>1, <1>2
  <2> QED
    BY <1>3, <2>1, Zenon DEF FlatStep
<1>5. ASSUME NEW n \in 2 .. N
      PROVE  /\ F[n - 1] \in Seq(S) /\ seqs[n] \in Seq(S) /\ F[n] \in Seq(S)
             /\ F[n] = F[n - 1] \o seqs[n] /\ Len(F[n - 1]) \in Nat /\ Len(seqs[n]) \in Nat
             /\ Len(F[n]) = Len(F[n - 1]) + Len(seqs[n])
             /\ \A i \in 1 .. Len(F[n - 1]) + Len(seqs[n]) :
                  F[n][i] = IF i <= Len(F[n - 1]) THEN F[n - 1][i]
                            ELSE seqs[n][i - Len(F[n - 1])]
  <2>1. n \in 1 .. N /\ n - 1 \in 1 .. N /\ n # 1
    BY <1>1
  <2>2. F[n - 1] \in Seq(S) /\ seqs[n] \in Seq(S) /\ F[n] \in Seq(S)
    BY <1>1, <1>3, <2>1, Zenon
  <2>3. F[n] = F[n - 1] \o seqs[n]
    BY <1>3, <2>1, Zenon DEF FlatStep
  <2>4. PICK a, b : a = F[n - 1] /\ b = seqs[n]
    OBVIOUS
  <2>5. a \in Seq(S) /\ b \in Seq(S) /\ F[n] = a \o b
    BY <2>2, <2>3, <2>4, Zenon
  <2>6. /\ Len(a) \in Nat /\ Len(b) \in Nat /\ Len(a \o b) = Len(a) + Len(b)
        /\ \A i \in 1 .. Len(a) + Len(b) :
             (a \o b)[i] = IF i <= Len(a) THEN a[i] ELSE b[i - Len(a)]
    BY <2>5, ConcatProperties, LenProperties
  <2>7. /\ Len(F[n]) = Len(a) + Len(b) /\ Len(F[n - 1]) = Len(a) /\ Len(seqs[n]) = Len(b)
        /\ \A i \in 1 .. Len(a) + Len(b) :
             F[n][i] = IF i <= Len(a) THEN F[n - 1][i] ELSE seqs[n][i - Len(a)]
    BY <2>4, <2>5, <2>6, ZenonT(40)
  <2>8. Len(F[n - 1]) \in Nat /\ Len(seqs[n]) \in Nat
    BY <2>6, <2>7, Zenon
  <2>9. Len(F[n]) = Len(F[n - 1]) + Len(seqs[n])
    BY <2>7, Zenon
  <2>10. \A i \in 1 .. Len(F[n - 1]) + Len(seqs[n]) :
           F[n][i] = IF i <= Len(F[n - 1]) THEN F[n - 1][i]
                     ELSE seqs[n][i - Len(F[n - 1])]
    BY <2>7, ZenonT(40)
  <2> QED
    BY <2>2, <2>3, <2>8, <2>9, <2>10, Zenon
<1>6. ASSUME Long # {} PROVE FALSE
  <2>1. Long \in SUBSET Nat
    BY <1>2
  <2>2. PICK n \in Long : \A m \in Long : n <= m
    <3> HIDE DEF Long
    <3> QED
      BY <1>6, <2>1, LeastNumber
  <2>3. n \in 1 .. k /\ Len(F[n]) # n
    OBVIOUS
  <2>4. n # 1
    BY <1>2, <1>4, <2>3
  <2>5. n \in 2 .. N /\ n - 1 \in 1 .. k
    BY <1>1, <1>2, <2>3, <2>4
  <2>6. n - 1 \notin Long
    <3> HIDE DEF Long
    <3> QED
      BY <2>2, <2>3, <1>2
  <2>7. Len(F[n - 1]) = n - 1
    BY <2>5, <2>6
  <2>8. Len(F[n]) = Len(F[n - 1]) + Len(seqs[n])
    BY <1>5, <2>5
  <2>9. Len(seqs[n]) = 1
    BY <2>3
  <2>10. Len(F[n]) = (n - 1) + 1
    BY <2>7, <2>8, <2>9, Zenon
  <2> HIDE DEF Long
  <2> QED
    BY <2>3, <2>10, <1>2
<1>7. \A n \in 1 .. k : Len(F[n]) = n
  BY <1>6
<1>8. ASSUME Moved # {} PROVE FALSE
  <2>1. Moved \in SUBSET Nat
    BY <1>1, <1>2
  <2>2. PICK n \in Moved : \A m \in Moved : n <= m
    <3> HIDE DEF Moved
    <3> QED
      BY <1>8, <2>1, LeastNumber
  <2>3. n \in k .. N /\ ~(k <= Len(F[n]) /\ F[n][k] = seqs[k][1])
    OBVIOUS
  <2>4. CASE n = k
    <3>1. Len(F[n]) = k /\ k <= k
      BY <1>2, <1>7, <2>4
    <3>2. CASE k = 1
      BY <1>4, <2>3, <2>4, <3>1, <3>2
    <3>3. CASE k # 1
      <4>1. /\ k \in 2 .. N /\ k - 1 \in 1 .. k /\ k - (k - 1) = 1 /\ ~(k <= k - 1)
            /\ k \in 1 .. (k - 1) + 1 /\ k \in 1 .. k
        <5> HIDE DEF Moved, Long
        <5>1. PICK m : m = N
          OBVIOUS
        <5>2. m \in Nat /\ k \in Nat /\ k >= 1 /\ k <= m /\ k # 1
          BY <1>1, <1>2, <3>3, <5>1, Zenon
        <5>3. k \in 2 .. m /\ k - 1 \in 1 .. k /\ k \in 1 .. k
          BY <5>2
        <5>4. k - (k - 1) = 1 /\ ~(k <= k - 1) /\ k \in 1 .. (k - 1) + 1
          BY <5>2
        <5> QED
          BY <5>1, <5>3, <5>4, Zenon
      <4>2. Len(F[k - 1]) = k - 1 /\ Len(seqs[k]) = 1
        BY <1>7, <4>1, Zenon
      <4>3. \A i \in 1 .. Len(F[k - 1]) + Len(seqs[k]) :
              F[k][i] = IF i <= Len(F[k - 1]) THEN F[k - 1][i]
                        ELSE seqs[k][i - Len(F[k - 1])]
        BY <1>5, <4>1
      <4>4. \A i \in 1 .. (k - 1) + 1 :
              F[k][i] = IF i <= k - 1 THEN F[k - 1][i] ELSE seqs[k][i - (k - 1)]
        BY <4>2, <4>3, Zenon
      <4>5. F[k][k] = IF k <= k - 1 THEN F[k - 1][k] ELSE seqs[k][k - (k - 1)]
        BY <4>1, <4>4, Zenon
      <4>6. F[k][k] = seqs[k][1]
        BY <4>1, <4>5, Zenon
      <4> QED
        BY <2>3, <2>4, <3>1, <4>6, Zenon
    <3> QED
      BY <3>2, <3>3
  <2>5. CASE n # k
    <3>1. n \in 2 .. N /\ n - 1 \in k .. N
      BY <1>1, <1>2, <2>3, <2>5
    <3>2. n - 1 \notin Moved
      <4> HIDE DEF Moved
      <4> QED
        BY <2>2, <2>3, <1>1, <1>2
    <3>3. k <= Len(F[n - 1]) /\ F[n - 1][k] = seqs[k][1]
      BY <3>1, <3>2
    <3>4. PICK a, b : a = Len(F[n - 1]) /\ b = Len(seqs[n])
      OBVIOUS
    <3>5. /\ a \in Nat /\ b \in Nat /\ Len(F[n]) = a + b
          /\ \A i \in 1 .. a + b :
               F[n][i] = IF i <= a THEN F[n - 1][i] ELSE seqs[n][i - a]
      BY <1>5, <3>1, <3>4
    <3>6. k <= a /\ k \in 1 .. a + b /\ k <= a + b
      <4>1. k <= a /\ k \in Nat /\ k >= 1 /\ a \in Nat /\ b \in Nat
        BY <1>2, <3>3, <3>4, <3>5, Zenon
      <4> HIDE DEF Moved, Long
      <4> QED
        BY <4>1
    <3>7. F[n][k] = F[n - 1][k]
      BY <3>5, <3>6, Zenon
    <3> QED
      BY <2>3, <3>3, <3>5, <3>6, <3>7, Zenon
  <2> QED
    BY <2>4, <2>5
<1>9. k <= Len(F[N]) /\ F[N][k] = seqs[k][1]
  <2>1. N \in k .. N
    BY <1>1, <1>2
  <2> QED
    BY <1>8, <2>1
<1>10. FlattenSeq(seqs) = F[N]
  <2>1. Len(seqs) # 0
    BY <1>1, <1>2 DEF N
  <2> QED
    BY <2>1, FlattenSeqIs, Zenon DEF F, N
<1>11. F[N] \in Seq(S)
  BY <1>1, <1>2, <1>3
<1>12. DOMAIN F[N] = 1 .. Len(F[N]) /\ Len(F[N]) \in Nat
  BY <1>11, LenProperties
<1>13. k \in 1 .. Len(F[N])
  BY <1>2, <1>9, <1>12
<1> QED
  BY <1>9, <1>10, <1>12, <1>13, Zenon

(* Every argument that is not in the path is in the query or in the body,   *)
(* and the body is what is signed.                                          *)
Distributed(payload, args, remaining) ==
  /\ payload.query \cup payload.body = remaining
  /\ payload.query \cap payload.body = {}
  /\ payload.signed = payload.body
  /\ payload.encoding = "none" => \A n \in payload.body : args[n] = "empty"

LEMMA PayloadDistributes ==
  ASSUME NEW query, NEW body, NEW encoding, NEW args, NEW remaining, NEW payload,
         payload = Payload(query, body, encoding),
         query \cup body = remaining, query \cap body = {},
         encoding = "none" => \A n \in body : args[n] = "empty"
  PROVE  payload.ok = TRUE /\ Distributed(payload, args, remaining)
<1>1. /\ payload.ok = TRUE /\ payload.query = query /\ payload.body = body
      /\ payload.encoding = encoding /\ payload.signed = body /\ payload.order = <<>>
  BY DEF Payload
<1>2. DOMAIN payload.order = {}
  BY <1>1
<1> QED
  BY <1>1, <1>2, Zenon DEF Distributed

LEMMA SignatureIs ==
  ASSUME NEW p, NEW op, NEW sig \in Signatures(p, op)
  PROVE  /\ sig.path \subseteq {"id"}
         /\ op.body # "json" => sig.body = "payload"
         /\ sig.names \in Seq(STRING) /\ "id" \notin ToSet(sig.names)
         /\ sig.positional => op.contract = "jsonrpc"
<1>1. PICK names \in NameLists(op), positional \in Styles(op) :
        sig = SignatureOf(p, op, names, positional)
  BY DEF Signatures
<1>2. op.body # "json" => HasPayload(p, op)
  BY DEF HasPayload
<1>3. names \in Seq(STRING \ {"id"})
  <2>1. <<>> \in Seq(STRING \ {"id"})
    OBVIOUS
  <2>2. NameLists(op) \subseteq Seq(STRING \ {"id"})
    BY <2>1, ParamListsAssumption DEF NameLists
  <2> QED
    BY <2>2
<1>4. names \in Seq(STRING) /\ "id" \notin ToSet(names)
  <2>1. STRING \ {"id"} \subseteq STRING
    OBVIOUS
  <2>2. names \in Seq(STRING)
    BY <1>3, <2>1, SeqMonotone
  <2>3. \A i \in DOMAIN names : names[i] \in STRING \ {"id"}
    <3>1. PICK S : S = STRING \ {"id"}
      OBVIOUS
    <3>2. \A i \in DOMAIN names : names[i] \in S
      BY <1>3, <3>1, ElementOfSeq, LenProperties
    <3> QED
      BY <3>1, <3>2
  <2> QED
    BY <2>2, <2>3 DEF ToSet
<1>5. positional => op.contract = "jsonrpc"
  BY DEF Styles
<1>6. /\ sig.path = (IF op.open THEN {"id"} ELSE {})
      /\ sig.body = (IF HasPayload(p, op) THEN "payload" ELSE "none")
      /\ sig.names = names /\ sig.positional = positional
  BY <1>1 DEF SignatureOf
<1> QED
  BY <1>2, <1>4, <1>5, <1>6

(* A payload whose body is empty if it is not encoded.                      *)
SplitOf(payload, remaining) ==
  \E query, body, encoding : /\ payload = Payload(query, body, encoding)
                             /\ query \cup body = remaining /\ query \cap body = {}
                             /\ encoding = "none" => body = {}

LEMMA SplitDistributes ==
  ASSUME NEW method, NEW sig, NEW args, NEW remaining, NEW payload,
         payload = SplitQueryAndBody(method, sig, args, remaining)
  PROVE  /\ payload.ok = TRUE /\ Distributed(payload, args, remaining)
         /\ SplitOf(payload, remaining)
<1>1. CASE remaining = {} \/ method \notin WriteMethods
  <2>1. payload = Payload(remaining, {}, "none")
    BY <1>1 DEF SplitQueryAndBody
  <2> QED
    <3>1. remaining \cup {} = remaining /\ remaining \cap {} = {} /\ \A n \in {} : args[n] = "empty"
      OBVIOUS
    <3>2. payload.ok = TRUE /\ Distributed(payload, args, remaining)
      BY <2>1, <3>1, PayloadDistributes, Zenon
    <3> QED
      BY <2>1, <3>1, <3>2, Zenon DEF SplitOf
<1>2. CASE ~(remaining = {} \/ method \notin WriteMethods)
  <2>1. CASE sig.body \in remaining
    <3>1. payload = Payload(remaining \ {sig.body}, {sig.body}, "json")
      BY <1>2, <2>1 DEF SplitQueryAndBody
    <3> QED
      <4>1. /\ (remaining \ {sig.body}) \cup {sig.body} = remaining
            /\ (remaining \ {sig.body}) \cap {sig.body} = {} /\ "json" # "none"
        BY <2>1
      <4>2. payload.ok = TRUE /\ Distributed(payload, args, remaining)
        BY <3>1, <4>1, PayloadDistributes, Zenon
      <4> QED
        BY <3>1, <4>1, <4>2 DEF SplitOf
  <2>2. CASE sig.body \notin remaining
    <3>1. payload = Payload({}, remaining, "json")
      BY <1>2, <2>2 DEF SplitQueryAndBody
    <3> QED
      <4>1. {} \cup remaining = remaining /\ {} \cap remaining = {} /\ "json" # "none"
        OBVIOUS
      <4>2. payload.ok = TRUE /\ Distributed(payload, args, remaining)
        BY <3>1, <4>1, PayloadDistributes, Zenon
      <4> QED
        BY <3>1, <4>1, <4>2 DEF SplitOf
  <2> QED
    BY <2>1, <2>2
<1> QED
  BY <1>1, <1>2

LEMMA ODataDistributes ==
  ASSUME NEW method, NEW sig, NEW args, NEW remaining, NEW payload,
         payload = PrepareOData(method, sig, args, remaining)
  PROVE  payload.ok = TRUE /\ Distributed(payload, args, remaining)
<1> DEFINE plain == remaining \ sig.dollar
           system == remaining \cap sig.dollar
<1>1. PICK rest : rest = SplitQueryAndBody(method, sig, args, plain)
  OBVIOUS
<1>2. PICK query, body, encoding : /\ rest = Payload(query, body, encoding)
                                   /\ query \cup body = plain /\ query \cap body = {}
                                   /\ encoding = "none" => body = {}
  <2> HIDE DEF plain
  <2> QED
    <3>1. SplitOf(rest, plain)
      BY <1>1, SplitDistributes, Zenon
    <3> QED
      BY <3>1, Zenon DEF SplitOf
<1>3. payload = [rest EXCEPT !.query = @ \cup system]
  BY <1>1 DEF PrepareOData
<1>4. payload = Payload(query \cup system, body, encoding)
  <2> HIDE DEF system
  <2> QED
    BY <1>2, <1>3 DEF Payload
<1>5. (query \cup system) \cup body = remaining /\ (query \cup system) \cap body = {}
  BY <1>2
<1>6. encoding = "none" => \A n \in body : args[n] = "empty"
  BY <1>2
<1> HIDE DEF plain, system
<1> QED
  BY <1>6, <1>4, <1>5, PayloadDistributes, ZenonT(40)

LEMMA BodyDistributes ==
  ASSUME NEW mode \in {"multipart", "raw"}, NEW sig, NEW args, NEW remaining, NEW payload,
         sig.body = "payload", payload = PrepareBody(mode, sig, args, remaining)
  PROVE  /\ payload.ok => Distributed(payload, args, remaining)
         /\ "payload" \in remaining /\ args["payload"] = "empty" /\ mode = "multipart" =>
              payload.ok = TRUE
<1>1. PICK kind : kind = args["payload"]
  OBVIOUS
<1>2. PICK chosen : chosen = {"payload"} \cap remaining
  OBVIOUS
<1>3. BodyArguments(sig, remaining) = chosen
  BY <1>2 DEF BodyArguments
<1> DEFINE builds == IF mode = "multipart" THEN MultipartBuilds(kind) ELSE RawBuilds(kind)
<1>4. CASE "payload" \in remaining /\ builds
  <2>1. chosen = {"payload"} /\ (CHOOSE n \in chosen : TRUE) = "payload"
    BY <1>2, <1>4
  <2>2. payload = Payload(remaining \ chosen, chosen, Encoding(mode, kind))
    BY <1>1, <1>3, <1>4, <2>1 DEF PrepareBody
  <2>3. Encoding(mode, kind) = "none" => \A n \in chosen : args[n] = "empty"
    BY <1>1, <2>1 DEF Encoding
  <2>4. (remaining \ chosen) \cup chosen = remaining /\ (remaining \ chosen) \cap chosen = {}
    BY <1>4, <2>1
  <2>5. PICK query, encoding : query = remaining \ chosen /\ encoding = Encoding(mode, kind)
    OBVIOUS
  <2>6. /\ payload = Payload(query, chosen, encoding)
        /\ query \cup chosen = remaining /\ query \cap chosen = {}
        /\ encoding = "none" => \A n \in chosen : args[n] = "empty"
    BY <2>2, <2>3, <2>4, <2>5, Zenon
  <2>7. payload.ok = TRUE /\ Distributed(payload, args, remaining)
    <3>1. Distributed(payload, args, remaining)
      <4>1. /\ payload.ok = TRUE /\ payload.query = query /\ payload.body = chosen
            /\ payload.encoding = encoding /\ payload.signed = chosen /\ payload.order = <<>>
        BY <2>6 DEF Payload
      <4>2. DOMAIN payload.order = {}
        BY <4>1
      <4> QED
        BY <2>6, <4>1, <4>2, Zenon DEF Distributed
    <3>2. payload.ok = TRUE
      BY <2>6 DEF Payload
    <3> QED
      BY <3>1, <3>2
  <2> QED
    BY <2>7
<1>5. CASE ~("payload" \in remaining /\ builds)
  <2>1. payload = ToolError
    <3>1. CASE "payload" \notin remaining
      BY <1>2, <1>3, <3>1 DEF PrepareBody
    <3>2. CASE "payload" \in remaining /\ ~builds
      <4>1. chosen = {"payload"}
        BY <1>2, <3>2
      <4> QED
        BY <1>1, <1>3, <3>2, <4>1 DEF PrepareBody
    <3> QED
      BY <1>5, <3>1, <3>2
  <2>2. payload.ok = FALSE
    BY <2>1 DEF ToolError
  <2>3. ~("payload" \in remaining /\ args["payload"] = "empty" /\ mode = "multipart")
    BY <1>1, <1>5 DEF MultipartBuilds
  <2> QED
    BY <2>2, <2>3
<1> QED
  BY <1>4, <1>5
(* What may be said of every prepared request: SOAP and JSON-RPC can lose   *)
(* what Vanishes describes.                                                 *)
Keeps(payload, op, sig, args, remaining) ==
  /\ payload.query \subseteq remaining /\ payload.body \subseteq remaining
  /\ payload.query \cap payload.body = {}
  /\ \A n \in remaining :
       n \in payload.query \/ n \in payload.body \/ Vanishes(op, sig, args, n)
  /\ payload.signed = payload.body
  /\ payload.encoding = "none" => \A n \in payload.body : args[n] = "empty"

LEMMA DistributedKeeps ==
  ASSUME NEW payload, NEW op, NEW sig, NEW args, NEW remaining,
         Distributed(payload, args, remaining)
  PROVE  Keeps(payload, op, sig, args, remaining)
<1>1. /\ payload.query \cup payload.body = remaining
      /\ payload.query \cap payload.body = {}
      /\ payload.signed = payload.body
      /\ payload.encoding = "none" => \A n \in payload.body : args[n] = "empty"
  BY Zenon DEF Distributed
<1>2. /\ payload.query \subseteq remaining /\ payload.body \subseteq remaining
      /\ \A n \in remaining : n \in payload.query \/ n \in payload.body
  BY <1>1
<1> QED
  BY <1>1, <1>2, Zenon DEF Keeps

LEMMA SoapKeeps ==
  ASSUME NEW op, NEW sig, NEW args, NEW remaining, NEW payload,
         payload = PrepareSoap(args, remaining)
  PROVE  payload.ok = TRUE /\ Keeps(payload, op, sig, args, remaining)
<1>1. PICK body : body = {n \in remaining : args[n] # "empty_list"}
  OBVIOUS
<1>2. payload = Payload({}, body, "xml")
  BY <1>1 DEF PrepareSoap
<1>3. /\ payload.ok = TRUE /\ payload.query = {} /\ payload.body = body
      /\ payload.encoding = "xml" /\ payload.signed = body
  BY <1>2 DEF Payload
<1>4. "xml" # "none" /\ body \subseteq remaining
  BY <1>1
<1>5. \A n \in remaining : n \in body \/ Vanishes(op, sig, args, n)
  BY <1>1, Zenon DEF Vanishes
<1> QED
  BY <1>3, <1>4, <1>5 DEF Keeps

LEMMA OneOrTwo ==
  ASSUME NEW S, NEW n \in S
  PROVE  /\ <<>> \in Seq(S) /\ <<n>> \in Seq(S) /\ <<n, n>> \in Seq(S)
         /\ ToSet(<<>>) = {} /\ ToSet(<<n>>) = {n} /\ ToSet(<<n, n>>) = {n}
         /\ Len(<<n>>) = 1 /\ <<n>>[1] = n
<1>1. <<>> \in Seq(S) /\ <<n>> \in Seq(S) /\ <<n, n>> \in Seq(S)
  OBVIOUS
<1>2. ToSet(<<>>) = {}
  BY DEF ToSet
<1>3. ToSet(<<n>>) = {n}
  BY DEF ToSet
<1>4. ToSet(<<n, n>>) = {n}
  BY DEF ToSet
<1>5. Len(<<n>>) = 1 /\ <<n>>[1] = n
  OBVIOUS
<1> QED
  BY <1>1, <1>2, <1>3, <1>4, <1>5

(* By position: what is given, and where.                                   *)
Listed(names, args, remaining) ==
  FlattenSeq([i \in DOMAIN names |-> IF names[i] \in remaining
                                     THEN Positions(names[i], args[names[i]]) ELSE <<>>])

InPlace(names, args, remaining, listed) ==
  \A k \in DOMAIN names :
    (\A j \in 1 .. k : /\ names[j] \in remaining
                       /\ (names[j] = "payload" =>
                             args[names[j]] \notin {"list", "empty_list"})) =>
      k \in DOMAIN listed /\ listed[k] = names[k]

LEMMA ListedIs ==
  ASSUME NEW names \in Seq(STRING), NEW args, NEW remaining, NEW listed,
         listed = Listed(names, args, remaining)
  PROVE  /\ ToSet(listed) \subseteq remaining
         /\ \A n \in remaining :
              n \in ToSet(names) => n \in ToSet(listed) \/ args[n] = "empty_list"
         /\ InPlace(names, args, remaining, listed)
<1> DEFINE One(n) == IF n \in remaining THEN Positions(n, args[n]) ELSE <<>>
<1>1. PICK seqs : seqs = [i \in DOMAIN names |-> One(names[i])]
  OBVIOUS
<1>2. listed = FlattenSeq(seqs)
  BY <1>1 DEF Listed
<1>3. ASSUME NEW n \in STRING
      PROVE  /\ One(n) \in Seq(STRING) /\ ToSet(One(n)) \subseteq {n} \cap remaining
             /\ n \in remaining /\ args[n] # "empty_list" => n \in ToSet(One(n))
             /\ n \in remaining /\ (n = "payload" => args[n] \notin {"list", "empty_list"}) =>
                  One(n) = <<n>>
  <2>1. /\ <<>> \in Seq(STRING) /\ <<n>> \in Seq(STRING) /\ <<n, n>> \in Seq(STRING)
        /\ ToSet(<<>>) = {} /\ ToSet(<<n>>) = {n} /\ ToSet(<<n, n>>) = {n}
    BY OneOrTwo, Zenon
  <2>2. One(n) = <<>> \/ One(n) = <<n>> \/ One(n) = <<n, n>>
    BY Zenon DEF Positions
  <2>3. n \notin remaining => One(n) = <<>>
    OBVIOUS
  <2>4. n \in remaining /\ args[n] # "empty_list" => One(n) = <<n>> \/ One(n) = <<n, n>>
    BY Zenon DEF Positions
  <2>5. n \in remaining /\ (n = "payload" => args[n] \notin {"list", "empty_list"}) =>
          One(n) = <<n>>
    BY DEF Positions
  <2> HIDE DEF One
  <2>6. One(n) \in Seq(STRING)
    BY <2>1, <2>2, Zenon
  <2>7. ToSet(One(n)) \subseteq {n} \cap remaining
    BY <2>1, <2>2, <2>3
  <2>8. n \in remaining /\ args[n] # "empty_list" => n \in ToSet(One(n))
    BY <2>1, <2>4
  <2> QED
    BY <2>5, <2>6, <2>7, <2>8
<1>4. DOMAIN names = 1 .. Len(names) /\ Len(names) \in Nat /\ \A i \in DOMAIN names : names[i] \in STRING
  BY LenProperties, ElementOfSeq
<1> HIDE DEF One
<1>5. seqs \in Seq(Seq(STRING)) /\ DOMAIN seqs = DOMAIN names
  <2>1. DOMAIN seqs = 1 .. Len(names)
    BY <1>1, <1>4
  <2>2. seqs \in [1 .. Len(names) -> Seq(STRING)]
    BY <1>1, <1>3, <1>4, <2>1
  <2>3. PICK m : m = Len(names)
    OBVIOUS
  <2>4. m \in Nat /\ seqs \in [1 .. m -> Seq(STRING)]
    BY <1>4, <2>2, <2>3, Zenon
  <2>5. seqs \in Seq(Seq(STRING))
    <3>1. PICK T : T = Seq(STRING)
      OBVIOUS
    <3>2. seqs \in [1 .. m -> T]
      BY <2>4, <3>1, Zenon
    <3>3. seqs \in Seq(T)
      BY <2>4, <3>2, SeqDef
    <3> QED
      BY <3>1, <3>3, Zenon
  <2> QED
    BY <1>4, <2>1, <2>5, Zenon
<1>6. \A x : x \in ToSet(listed) <=> \E i \in DOMAIN seqs : x \in ToSet(seqs[i])
  BY <1>2, <1>5, FlattenSeqProperties
<1>7. \A i \in DOMAIN names : seqs[i] = One(names[i])
  BY <1>1
<1>8. ToSet(listed) \subseteq remaining
  <2> SUFFICES ASSUME NEW x \in ToSet(listed) PROVE x \in remaining
    OBVIOUS
  <2>1. PICK i \in DOMAIN names : x \in ToSet(One(names[i]))
    BY <1>5, <1>6, <1>7, Zenon
  <2>2. ToSet(One(names[i])) \subseteq {names[i]} \cap remaining
    BY <1>3, <1>4, Zenon
  <2> HIDE DEF ToSet
  <2> QED
    BY <2>1, <2>2
<1>9. ASSUME NEW n \in remaining, n \in ToSet(names), args[n] # "empty_list"
      PROVE  n \in ToSet(listed)
  <2>1. PICK i \in DOMAIN names : names[i] = n
    BY <1>9 DEF ToSet
  <2>2. n \in STRING /\ seqs[i] = One(n)
    BY <1>4, <1>7, <2>1
  <2>3. n \in ToSet(seqs[i])
    BY <1>3, <1>9, <2>2
  <2> QED
    BY <1>5, <1>6, <2>3
<1>10. ASSUME NEW k \in DOMAIN names,
              \A j \in 1 .. k : /\ names[j] \in remaining
                                /\ (names[j] = "payload" =>
                                      args[names[j]] \notin {"list", "empty_list"})
       PROVE  k \in DOMAIN listed /\ listed[k] = names[k]
  <2>1. k \in 1 .. k /\ \A j \in 1 .. k : j \in DOMAIN names
    <3>1. PICK m : m = Len(names)
      OBVIOUS
    <3>2. m \in Nat /\ k \in 1 .. m
      BY <1>4, <3>1, Zenon
    <3>3. k \in 1 .. k /\ \A j \in 1 .. k : j \in 1 .. m
      BY <3>2
    <3> QED
      BY <1>4, <3>1, <3>3, Zenon
  <2>2. ASSUME NEW j \in 1 .. k PROVE seqs[j] = <<names[j]>>
    <3>1. j \in DOMAIN names /\ names[j] \in STRING /\ seqs[j] = One(names[j])
      BY <1>4, <1>7, <2>1
    <3>2. names[j] \in remaining
          /\ (names[j] = "payload" => args[names[j]] \notin {"list", "empty_list"})
      BY <1>10
    <3> QED
      BY <1>3, <3>1, <3>2, Zenon
  <2>3. \A j \in 1 .. k : Len(seqs[j]) = 1
    BY <1>4, <2>1, <2>2, OneOrTwo, Zenon
  <2>4. k \in DOMAIN FlattenSeq(seqs) /\ FlattenSeq(seqs)[k] = seqs[k][1]
    BY <1>5, <2>3, FlattenSeqPlaces
  <2>5. seqs[k][1] = names[k]
    BY <1>4, <2>1, <2>2, OneOrTwo, Zenon
  <2> QED
    BY <1>2, <2>4, <2>5, Zenon
<1> QED
  BY <1>8, <1>9, <1>10 DEF InPlace

LEMMA JsonRpcKeeps ==
  ASSUME NEW op, NEW sig, NEW args, NEW remaining, NEW payload,
         sig.names \in Seq(STRING), op.contract = "jsonrpc",
         remaining \subseteq ToSet(sig.names), remaining \subseteq DOMAIN args,
         payload = PrepareJsonRpc(sig, args, remaining)
  PROVE  /\ payload.ok = TRUE /\ Keeps(payload, op, sig, args, remaining)
         /\ sig.positional => InPlace(sig.names, args, remaining, payload.order)
<1>1. PICK listed : listed = Listed(sig.names, args, remaining)
  OBVIOUS
<1>2. PICK others : others = (ToSet(sig.names) \cap remaining) \ {"payload"}
  OBVIOUS
<1>3. PICK named : named = Merged(others, args, remaining)
  OBVIOUS
<1>4. payload = IF sig.positional
                THEN [Payload({}, ToSet(listed), "json") EXCEPT !.order = listed]
                ELSE Payload({}, IF named = {} THEN remaining ELSE named, "json")
  BY <1>1, <1>2, <1>3, Zenon DEF PrepareJsonRpc, Each, Listed
<1>5. CASE sig.positional
  <2>1. payload = [Payload({}, ToSet(listed), "json") EXCEPT !.order = listed]
    BY <1>4, <1>5
  <2>2. /\ payload.ok = TRUE /\ payload.query = {} /\ payload.body = ToSet(listed)
        /\ payload.encoding = "json" /\ payload.signed = ToSet(listed)
        /\ payload.order = listed
    <3> HIDE DEF ToSet
    <3> QED
      BY <2>1 DEF Payload
  <2>3. PICK names : names = sig.names
    OBVIOUS
  <2>4. /\ ToSet(listed) \subseteq remaining
        /\ \A n \in remaining :
             n \in ToSet(names) => n \in ToSet(listed) \/ args[n] = "empty_list"
        /\ InPlace(names, args, remaining, listed)
    <3>1. names \in Seq(STRING)
      BY <2>3
    <3>2. listed = Listed(names, args, remaining)
      BY <1>1, <2>3, Zenon
    <3> QED
      BY <3>1, <3>2, ListedIs
  <2>5. \A n \in remaining : n \in ToSet(listed) \/ Vanishes(op, sig, args, n)
    <3>1. \A n \in remaining : n \in ToSet(listed) \/ args[n] = "empty_list"
      BY <2>3, <2>4
    <3> QED
      BY <3>1, Zenon DEF Vanishes
  <2>6. "json" # "none" /\ {} \subseteq remaining /\ {} \cap ToSet(listed) = {}
    OBVIOUS
  <2>7. Keeps(payload, op, sig, args, remaining)
    BY <2>2, <2>4, <2>5, <2>6, Zenon DEF Keeps
  <2> QED
    BY <2>2, <2>3, <2>4, <2>7, Zenon
<1>6. CASE ~sig.positional
  <2>1. PICK body : body = IF named = {} THEN remaining ELSE named
    OBVIOUS
  <2>2. payload = Payload({}, body, "json")
    BY <1>4, <1>6, <2>1
  <2>3. /\ payload.ok = TRUE /\ payload.query = {} /\ payload.body = body
        /\ payload.encoding = "json" /\ payload.signed = body
    BY <2>2 DEF Payload
  <2>4. others = remaining \ {"payload"}
    BY <1>2
  <2>5. body \subseteq remaining
    BY <1>3, <2>1, <2>4 DEF Merged
  <2>6. ASSUME NEW n \in remaining, n \notin body PROVE Vanishes(op, sig, args, n)
    <3>1. named # {} /\ n \notin named /\ named = Merged(others, args, remaining)
      BY <1>3, <2>1, <2>6
    <3>2. "payload" \in remaining
      BY <2>4, <2>6, <3>1 DEF Merged
    <3>3. args["payload"] = IF n = "payload" THEN "empty" ELSE "clash"
      BY <2>4, <2>6, <3>1, <3>2 DEF Merged
    <3>4. "payload" \in DOMAIN args
      BY <3>2
    <3> QED
      BY <1>6, <3>3, <3>4, Zenon DEF Vanishes
  <2>7. "json" # "none" /\ {} \subseteq remaining /\ {} \cap body = {}
    OBVIOUS
  <2>8. Keeps(payload, op, sig, args, remaining)
    BY <2>3, <2>5, <2>6, <2>7, Zenon DEF Keeps
  <2> QED
    BY <1>6, <2>3, <2>8
<1> QED
  BY <1>5, <1>6

(* Whatever the protocol, a prepared request keeps its arguments.           *)
LEMMA PreparedKeeps ==
  ASSUME NEW p, NEW op, NEW sig \in Signatures(p, op), NEW args, NEW payload,
         DOMAIN args \subseteq Declared(p, op, sig), p = "odata" => op.contract = "http",
         payload = Prepare(p, op, sig, args), payload.ok
  PROVE  /\ Keeps(payload, op, sig, args, DOMAIN args \ sig.path)
         /\ sig.positional =>
              \A k \in DOMAIN sig.names :
                (\A j \in 1 .. k : HasPosition(sig.names[j], args)) =>
                  k \in DOMAIN payload.order /\ payload.order[k] = sig.names[k]
<1>1. PICK remaining : remaining = DOMAIN args \ sig.path
  OBVIOUS
<1>2. /\ sig.path \subseteq {"id"}
      /\ op.body # "json" => sig.body = "payload"
      /\ sig.names \in Seq(STRING) /\ "id" \notin ToSet(sig.names)
      /\ sig.positional => op.contract = "jsonrpc"
  BY SignatureIs
<1>3. op.contract \in {"graphql", "jsonrpc"} =>
        remaining \subseteq ToSet(sig.names) /\ remaining \subseteq DOMAIN args
  <2> HIDE DEF ToSet
  <2> QED
    BY <1>1 DEF Declared
<1>4. ASSUME NEW query, NEW body, NEW encoding, payload = Payload(query, body, encoding),
             query \cup body = remaining, query \cap body = {},
             encoding = "none" => \A n \in body : args[n] = "empty"
      PROVE  Keeps(payload, op, sig, args, DOMAIN args \ sig.path)
  <2>1. /\ payload.query = query /\ payload.body = body
        /\ payload.encoding = encoding /\ payload.signed = body
    BY <1>4 DEF Payload
  <2>2. Distributed(payload, args, remaining)
    BY <1>4, <2>1, Zenon DEF Distributed
  <2> QED
    BY <1>1, <2>2, DistributedKeeps, Zenon
<1>5. CASE op.contract = "soap"
  <2>1. payload = PrepareSoap(args, remaining)
    BY <1>1, <1>5 DEF Prepare
  <2> QED
    BY <1>1, <1>2, <1>5, <2>1, SoapKeeps, Zenon
<1>6. CASE op.contract = "graphql"
  <2>1. payload = PrepareGraphQL(sig, remaining)
    BY <1>1, <1>6 DEF Prepare
  <2>2. ToSet(sig.names) \cap remaining = remaining
    BY <1>3, <1>6
  <2>3. payload = Payload({}, remaining, "json")
    BY <2>1, <2>2, Zenon DEF PrepareGraphQL
  <2>4. {} \cup remaining = remaining /\ {} \cap remaining = {} /\ "json" # "none"
    OBVIOUS
  <2>5. ~sig.positional
    BY <1>2, <1>6
  <2> QED
    BY <1>4, <2>3, <2>4, <2>5, Zenon
<1>7. CASE op.contract = "jsonrpc"
  <2>1. payload = PrepareJsonRpc(sig, args, remaining)
    BY <1>1, <1>7 DEF Prepare
  <2>2. /\ Keeps(payload, op, sig, args, remaining)
        /\ sig.positional => InPlace(sig.names, args, remaining, payload.order)
    BY <1>2, <1>3, <1>7, <2>1, JsonRpcKeeps, Zenon
  <2>3. ASSUME NEW k \in DOMAIN sig.names, NEW j \in 1 .. k, HasPosition(sig.names[j], args)
        PROVE  /\ sig.names[j] \in remaining
               /\ (sig.names[j] = "payload" =>
                     args[sig.names[j]] \notin {"list", "empty_list"})
    <3>1. DOMAIN sig.names = 1 .. Len(sig.names) /\ Len(sig.names) \in Nat
      BY <1>2, LenProperties
    <3>2. j \in DOMAIN sig.names
      BY <3>1
    <3>3. sig.names[j] \in ToSet(sig.names)
      BY <3>2 DEF ToSet
    <3>4. sig.names[j] \notin sig.path
      BY <1>2, <3>3
    <3> QED
      BY <1>1, <2>3, <3>4 DEF HasPosition
  <2> QED
    BY <1>1, <2>2, <2>3, Zenon DEF InPlace
<1>8. CASE op.contract \notin {"soap", "graphql", "jsonrpc"}
  <2>0. ~sig.positional
    BY <1>2, <1>8
  <2>1. CASE p = "odata"
    <3>1. payload = PrepareOData(op.method, sig, args, remaining)
      BY <1>1, <1>8, <2>1 DEF Prepare
    <3>2. Distributed(payload, args, remaining)
      BY <3>1, ODataDistributes, Zenon
    <3> QED
      BY <1>1, <2>0, <3>2, DistributedKeeps, Zenon
  <2>2. CASE p # "odata" /\ remaining = {}
    <3>1. payload = Payload({}, remaining, "none") /\ \A n \in remaining : args[n] = "empty"
      BY <1>1, <1>8, <2>2 DEF Prepare
    <3>2. {} \cup remaining = remaining /\ {} \cap remaining = {}
      OBVIOUS
    <3> QED
      BY <1>4, <2>0, <3>1, <3>2, Zenon
  <2>3. CASE p # "odata" /\ remaining # {} /\ op.body \in {"multipart", "raw"}
    <3>1. payload = PrepareBody(op.body, sig, args, remaining) /\ sig.body = "payload"
      BY <1>1, <1>2, <1>8, <2>3 DEF Prepare
    <3>2. Distributed(payload, args, remaining)
      BY <2>3, <3>1, BodyDistributes, Zenon
    <3> QED
      BY <1>1, <2>0, <3>2, DistributedKeeps, Zenon
  <2>4. CASE p # "odata" /\ remaining # {} /\ op.body \notin {"multipart", "raw"}
    <3>1. payload = SplitQueryAndBody(op.method, sig, args, remaining)
      BY <1>1, <1>8, <2>4 DEF Prepare
    <3>2. Distributed(payload, args, remaining)
      BY <3>1, SplitDistributes, Zenon
    <3> QED
      BY <1>1, <2>0, <3>2, DistributedKeeps, Zenon
  <2> QED
    BY <2>1, <2>2, <2>3, <2>4
<1> QED
  BY <1>5, <1>6, <1>7, <1>8

(* The sample of an operation without a raw body can be prepared.           *)
LEMMA SamplePrepares ==
  ASSUME NEW p, NEW op, NEW sig \in Signatures(p, op), NEW args, NEW payload,
         args = SampleArguments(op, sig), op.body # "raw",
         payload = Prepare(p, op, sig, args)
  PROVE  payload.ok = TRUE /\ sig.path \subseteq DOMAIN args
<1>1. PICK remaining : remaining = DOMAIN args \ sig.path
  OBVIOUS
<1>2. op.body # "json" => sig.body = "payload"
  BY SignatureIs
<1>3. sig.path \subseteq DOMAIN args
  BY DEF SampleArguments
<1>4. payload.ok = TRUE
  <2>1. CASE op.contract = "soap"
    BY <2>1 DEF Prepare, PrepareSoap, Payload
  <2>2. CASE op.contract = "graphql"
    BY <2>2 DEF Prepare, PrepareGraphQL, Payload
  <2>3. CASE op.contract = "jsonrpc"
    <3>1. payload = PrepareJsonRpc(sig, args, remaining)
      BY <1>1, <2>3 DEF Prepare
    <3>2. ASSUME NEW listed, NEW body
          PROVE  /\ [Payload({}, body, "json") EXCEPT !.order = listed].ok = TRUE
                 /\ Payload({}, body, "json").ok = TRUE
      BY DEF Payload
    <3> QED
      BY <3>1, <3>2, Zenon DEF PrepareJsonRpc
  <2>4. CASE op.contract \notin {"soap", "graphql", "jsonrpc"}
    <3>1. CASE p = "odata"
      <4>1. payload = PrepareOData(op.method, sig, args, remaining)
        BY <1>1, <2>4, <3>1 DEF Prepare
      <4> QED
        BY <4>1, ODataDistributes, Zenon
    <3>2. CASE p # "odata" /\ remaining = {}
      <4>1. payload = Payload({}, {}, "none")
        BY <1>1, <2>4, <3>2 DEF Prepare
      <4> QED
        BY <4>1 DEF Payload
    <3>3. CASE p # "odata" /\ remaining # {} /\ op.body = "multipart"
      <4>1. payload = PrepareBody("multipart", sig, args, remaining) /\ sig.body = "payload"
        BY <1>1, <1>2, <2>4, <3>3 DEF Prepare
      <4>2. "payload" \in remaining /\ args["payload"] = "empty"
        BY <1>1, <1>2, <3>3, <4>1 DEF SampleArguments
      <4> QED
        BY <4>1, <4>2, BodyDistributes, Zenon
    <3>4. CASE p # "odata" /\ remaining # {} /\ op.body # "multipart"
      <4>1. payload = SplitQueryAndBody(op.method, sig, args, remaining)
        BY <1>1, <2>4, <3>4 DEF Prepare
      <4> QED
        BY <4>1, SplitDistributes, Zenon
    <3> QED
      BY <3>1, <3>2, <3>3, <3>4
  <2> QED
    BY <2>1, <2>2, <2>3, <2>4
<1> QED
  BY <1>3, <1>4

(* In a request that is sent every argument has at most one place.          *)
LEMMA OnePlace ==
  ASSUME NEW request, NEW n, NEW place \in {"path", "query", "body"},
         n \in request[place],
         \A other \in {"path", "query", "body"} : other # place => n \notin request[other]
  PROVE  Cardinality(Places(request, n)) = 1
<1>1. Places(request, n) = {place}
  BY DEF Places
<1> QED
  BY <1>1, FS_Singleton

(* ArgumentsSentOnce, for one request.                                      *)
SentOnce(request, op, sig, args) ==
  /\ \A n \in DOMAIN args :
       \/ n \in request.secrets \/ Cardinality(Places(request, n)) = 1
       \/ Places(request, n) = {} /\ Vanishes(op, sig, args, n)
  /\ request.query \cup request.secrets \subseteq request.signed.query
  /\ \A n \in request.signed.query \ (request.query \cup request.secrets) :
       args[n] = "empty_list"
  /\ request.signed.body = request.body
  /\ request.encoding = "none" => \A n \in request.body : args[n] = "empty"
  /\ sig.positional =>
       \A k \in DOMAIN sig.names :
         (\A j \in 1 .. k : HasPosition(sig.names[j], args)) =>
           k \in DOMAIN request.order /\ request.order[k] = sig.names[k]

LEMMA RequestKeeps ==
  ASSUME NEW p, NEW op, NEW sig \in Signatures(p, op), NEW args, NEW auth, NEW request,
         DOMAIN args \subseteq Declared(p, op, sig), p = "odata" => op.contract = "http",
         request = Request(p, op, sig, args, auth), request.sent
  PROVE  SentOnce(request, op, sig, args)
<1>1. PICK payload : payload = Prepare(p, op, sig, args)
  OBVIOUS
<1>2. PICK key : key = AuthQuery(auth)
  OBVIOUS
<1>3. /\ request.sent = (/\ op.method # "none" /\ UrlResolves(sig, args)
                         /\ payload.ok /\ AuthBuilds(auth))
      /\ request.path = sig.path
      /\ request.query = {n \in payload.query : args[n] # "empty_list"} \ key
      /\ request.secrets = key /\ request.body = payload.body
      /\ request.encoding = payload.encoding /\ request.order = payload.order
      /\ request.signed = BuildAuth(payload, auth)
      /\ request["path"] = request.path /\ request["query"] = request.query
      /\ request["body"] = request.body
  BY <1>1, <1>2 DEF Request
<1>4. payload.ok /\ sig.path \subseteq DOMAIN args
  BY <1>3 DEF UrlResolves
<1>5. /\ Keeps(payload, op, sig, args, DOMAIN args \ sig.path)
      /\ sig.positional =>
           \A k \in DOMAIN sig.names :
             (\A j \in 1 .. k : HasPosition(sig.names[j], args)) =>
               k \in DOMAIN payload.order /\ payload.order[k] = sig.names[k]
  BY <1>1, <1>4, PreparedKeeps
<1>6. /\ payload.query \subseteq DOMAIN args \ sig.path
      /\ payload.body \subseteq DOMAIN args \ sig.path
      /\ \A n \in DOMAIN args \ sig.path :
           n \in payload.query \/ n \in payload.body \/ Vanishes(op, sig, args, n)
      /\ payload.query \cap payload.body = {} /\ payload.signed = payload.body
      /\ payload.encoding = "none" => \A n \in payload.body : args[n] = "empty"
  BY <1>5, Zenon DEF Keeps
<1>7. ASSUME NEW n \in DOMAIN args, n \notin request.secrets
      PROVE  \/ Cardinality(Places(request, n)) = 1
             \/ Places(request, n) = {} /\ Vanishes(op, sig, args, n)
  <2>1. CASE n \in sig.path
    <3>1. n \in request["path"] /\ n \notin request["query"] /\ n \notin request["body"]
      BY <1>3, <1>6, <2>1
    <3> QED
      BY <3>1, OnePlace
  <2>2. CASE n \in payload.query /\ args[n] # "empty_list"
    <3>1. n \in request["query"] /\ n \notin request["path"] /\ n \notin request["body"]
      BY <1>3, <1>6, <1>7, <2>2
    <3> QED
      BY <3>1, OnePlace
  <2>3. CASE n \in payload.body
    <3>1. n \in request["body"] /\ n \notin request["path"] /\ n \notin request["query"]
      BY <1>3, <1>6, <2>3
    <3> QED
      BY <3>1, OnePlace
  <2>4. CASE n \in payload.query /\ args[n] = "empty_list"
    <3>1. n \notin request["query"] /\ n \notin request["path"] /\ n \notin request["body"]
      BY <1>3, <1>6, <2>4
    <3>2. Places(request, n) = {}
      BY <3>1 DEF Places
    <3>3. Vanishes(op, sig, args, n)
      BY <2>4, Zenon DEF Vanishes
    <3> QED
      BY <3>2, <3>3
  <2>5. CASE n \notin sig.path /\ n \notin payload.query /\ n \notin payload.body
    <3>1. n \notin request["query"] /\ n \notin request["path"] /\ n \notin request["body"]
      BY <1>3, <2>5
    <3>2. Places(request, n) = {}
      BY <3>1 DEF Places
    <3>3. Vanishes(op, sig, args, n)
      BY <1>6, <2>5
    <3> QED
      BY <3>2, <3>3
  <2> QED
    BY <2>1, <2>2, <2>3, <2>4, <2>5
<1>8. /\ request.query \cup request.secrets \subseteq request.signed.query
      /\ \A n \in request.signed.query \ (request.query \cup request.secrets) :
           args[n] = "empty_list"
      /\ request.signed.body = request.body
  <2>1. request.signed.query = payload.query \cup key /\ request.signed.body = payload.signed
    BY <1>2, <1>3 DEF BuildAuth, Signature
  <2> QED
    BY <1>3, <1>6, <2>1
<1>9. /\ request.encoding = payload.encoding /\ request.order = payload.order
      /\ request.body = payload.body
  BY <1>3
<1> QED
  BY <1>5, <1>6, <1>7, <1>8, <1>9, Zenon DEF SentOnce

LEMMA SampleIsSent ==
  ASSUME NEW p, NEW op, NEW sig \in Signatures(p, op), op.body # "raw", op.method # "none"
  PROVE  Request(p, op, sig, SampleArguments(op, sig), "header").sent
<1>1. PICK args : args = SampleArguments(op, sig)
  OBVIOUS
<1>2. PICK payload : payload = Prepare(p, op, sig, args)
  OBVIOUS
<1>3. payload.ok = TRUE /\ sig.path \subseteq DOMAIN args
  BY <1>1, <1>2, SamplePrepares
<1>4. Request(p, op, sig, args, "header").sent
        = (/\ op.method # "none" /\ UrlResolves(sig, args)
           /\ payload.ok /\ AuthBuilds("header"))
  BY <1>2 DEF Request
<1> QED
  BY <1>1, <1>3, <1>4 DEF UrlResolves, AuthBuilds

(* For every source, every parameter list and every call of a served tool:  *)
(* each argument that does not vanish reaches the upstream exactly once,    *)
(* what is signed is what is sent, arguments by position have their own if  *)
(* all before them have one, and a sample without a raw body can be sent.   *)
THEOREM ArgumentsAreSentOnce == Spec => []ArgumentsSentOnce
<1>1. ControlInv /\ StageInv => ArgumentsSentOnce
  <2> SUFFICES ASSUME ControlInv, StageInv, stage = "serving" PROVE ArgumentsSentOnce
    BY DEF ArgumentsSentOnce
  <2>1. IsDeployed
    BY DEF IsDeployed
  <2>2. ASSUME NEW op \in HttpTools
        PROVE  op.method # "none" /\ (protocol = "odata" => op.contract = "http")
    <3>1. op \in ToSet(ir.ops) /\ Adapter(rt.ir, op) = "http"
      BY <2>1, ServedIs DEF HttpTools
    <3>2. op.contract \notin {"sql", "grpc_unary", "cli"}
      BY <3>1 DEF Adapter
    <3> QED
      BY <2>1, <3>1, <3>2, ServedOp DEF ServedByDiscovery, ServedFor, Faithful, Methods
  <2>3. ASSUME NEW op \in HttpTools, NEW sig \in Signatures(protocol, op),
               NEW args \in Calls(protocol, op, sig)
        PROVE  DOMAIN args \subseteq Declared(protocol, op, sig)
    <3>1. PICK given, varied, kind :
            /\ given \subseteq Declared(protocol, op, sig)
            /\ args = [n \in given |-> IF n = varied THEN kind ELSE "scalar"]
      BY DEF Calls
    <3> QED
      BY <3>1
  <2>4. ASSUME NEW op \in HttpTools, NEW sig \in Signatures(protocol, op),
               NEW args \in Calls(protocol, op, sig), NEW auth,
               Request(protocol, op, sig, args, auth).sent
        PROVE  SentOnce(Request(protocol, op, sig, args, auth), op, sig, args)
    BY <2>2, <2>3, <2>4, RequestKeeps
  <2>5. ASSUME NEW op \in HttpTools, NEW sig \in Signatures(protocol, op), op.body # "raw"
        PROVE  Request(protocol, op, sig, SampleArguments(op, sig), "header").sent
    BY <2>2, <2>5, SampleIsSent
  <2> QED
    BY <2>4, <2>5 DEF ArgumentsSentOnce, SentOnce
<1> QED
  BY <1>1, StageAlways, PTL
=============================================================================
