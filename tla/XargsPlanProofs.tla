-------------------------- MODULE XargsPlanProofs --------------------------
(***************************************************************************)
(* What plan() of cmds/xargs makes of its items, for every input, every    *)
(* choice of options and every limit: the items in order, none lost and    *)
(* none given twice, in batches within -n, -L and -s of which none could   *)
(* have taken the next item.  The argument is an induction over the place  *)
(* in the items where a batch begins, from the last item back.  The        *)
(* batches of Xargs are such a packing at every step.                      *)
(***************************************************************************)
EXTENDS Xargs, SequenceTheorems, FiniteSetTheorems, TLAPS

(* A set of natural numbers that is not empty has a least element.         *)
LEMMA LeastNumber ==
  ASSUME NEW T \in SUBSET Nat, T # {}
  PROVE  \E x \in T : \A y \in T : x <= y
<1>1. PICK x \in T : \A y \in T : <<y, x>> \notin OpToRel(<, Nat)
  BY NatLessThanWellFounded, WFMin, Zenon
<1>2. \A y \in T : ~(y < x)
  BY <1>1, Zenon DEF OpToRel
<1>3. QED
  BY <1>2

(* FiniteSetsExt's Max is the greatest element of a finite set.            *)
LEMMA MaxOf ==
  ASSUME NEW S \in SUBSET Int, IsFiniteSet(S), S # {}
  PROVE  Max(S) \in S /\ \A x \in S : x <= Max(S)
<1> DEFINE above(x) == {y \in S : y > x}
           N == {Cardinality(above(x)) : x \in S}
<1>1. \A x \in S : IsFiniteSet(above(x)) /\ Cardinality(above(x)) \in Nat
  BY FS_Subset, FS_CardinalityType, Zenon
<1>2. N \in SUBSET Nat /\ N # {}
  BY <1>1, Zenon
<1>3. PICK n \in N : \A y \in N : n <= y
  BY <1>2, LeastNumber, Zenon
<1>4. PICK x \in S : n = Cardinality(above(x))
  BY <1>3, Zenon
<1>5. ASSUME NEW y \in S, y > x PROVE FALSE
  <2>1. above(y) \in SUBSET above(x) /\ y \in above(x) /\ y \notin above(y)
    <3>1. \A z \in S : z \in Int
      BY Zenon
    <3>2. \A z \in S : z > y => z > x
      BY <1>5, <3>1
    <3>3. ~(y > y)
      BY <3>1
    <3>4. QED
      BY <1>5, <3>2, <3>3, Zenon
  <2>2. /\ Cardinality(above(y)) <= Cardinality(above(x))
        /\ Cardinality(above(x)) = Cardinality(above(y)) => above(x) = above(y)
    <3> HIDE DEF above
    <3>1. QED
      BY <1>1, <2>1, FS_Subset, Zenon
  <2>3. Cardinality(above(x)) <= Cardinality(above(y))
    BY <1>3, <1>4, Zenon
  <2>4. Cardinality(above(x)) = Cardinality(above(y))
    BY <1>1, <1>5, <2>2, <2>3, SMTT(30)
  <2>5. QED
    BY <2>1, <2>2, <2>4, Zenon
<1>6. \A y \in S : x >= y
  BY <1>5
<1>7. QED
  BY <1>6, Zenon DEF Max


(* Induction over the natural numbers, as a set: a set with 0 and with the *)
(* successor of each of its members has all of them.                       *)
LEMMA SetInduction ==
  ASSUME NEW S \in SUBSET Nat, 0 \in S, \A n \in S : n + 1 \in S
  PROVE  S = Nat
<1> SUFFICES ASSUME S # Nat PROVE FALSE
  BY Zenon
<1>1. PICK x \in Nat \ S : \A y \in Nat \ S : x <= y
  BY LeastNumber, Zenon
<1>2. x - 1 \in Nat /\ x - 1 \notin Nat \ S
  BY <1>1
<1>3. QED
  BY <1>2

(* FiniteSetsExt's Min is the least element.                               *)
LEMMA MinOf ==
  ASSUME NEW S \in SUBSET Nat, S # {}
  PROVE  Min(S) \in S /\ \A y \in S : Min(S) <= y
BY LeastNumber, Zenon DEF Min

-----------------------------------------------------------------------------
(* Joined *)

(* Joined is the last of the running concatenations. *)
Runs(f, seqs, n) ==
  f = [i \in 1 .. n |-> IF i = 1 THEN seqs[i] ELSE f[i - 1] \o seqs[i]]

(* There are running concatenations of any n sequences.                    *)
LEMMA RunsExist ==
  ASSUME NEW seqs, NEW n \in Nat
  PROVE  \E f : Runs(f, seqs, n)
<1> DEFINE G == {k \in Nat : \E f : Runs(f, seqs, k)}
<1>1. 0 \in G
  <2>1. Runs(<<>>, seqs, 0)
    BY DEF Runs
  <2>2. QED
    BY <2>1, Zenon
<1>2. ASSUME NEW k \in G PROVE k + 1 \in G
  <2>1. PICK f : Runs(f, seqs, k)
    BY <1>2, Zenon
  <2> DEFINE g == [i \in 1 .. k + 1 |->
                     IF i <= k THEN f[i] ELSE IF i = 1 THEN seqs[i] ELSE f[i - 1] \o seqs[i]]
  <2>2. \A i \in 1 .. k + 1 : g[i] = IF i = 1 THEN seqs[i] ELSE g[i - 1] \o seqs[i]
    <3> TAKE i \in 1 .. k + 1
    <3>1. i # 1 => i - 1 \in 1 .. k + 1 /\ i - 1 <= k
      OBVIOUS
    <3>2. i # 1 => g[i - 1] = f[i - 1]
      BY <3>1
    <3>3. CASE i <= k
      <4>1. g[i] = f[i] /\ i \in 1 .. k
        BY <3>3
      <4>2. f[i] = IF i = 1 THEN seqs[i] ELSE f[i - 1] \o seqs[i]
        BY <2>1, <4>1, Zenon DEF Runs
      <4>3. QED
        BY <3>2, <4>1, <4>2
    <3>4. CASE ~(i <= k)
      BY <3>2, <3>4
    <3>5. QED
      BY <3>3, <3>4, Zenon
  <2>3. Runs(g, seqs, k + 1)
    <3>1. g = [i \in 1 .. k + 1 |-> g[i]]
      BY Zenon
    <3> HIDE DEF g
    <3>2. QED
      BY <2>2, <3>1, Zenon DEF Runs
  <2>4. QED
    BY <2>3
<1>3. G = Nat
  <2>1. G \in SUBSET Nat
    BY Zenon
  <2> HIDE DEF G
  <2>2. QED
    BY <1>1, <1>2, <2>1, SetInduction, Zenon
<1>4. QED
  BY <1>3, Zenon

(* The running concatenations of sequences over S are sequences over S.    *)
LEMMA RunsTyped ==
  ASSUME NEW S, NEW seqs \in Seq(Seq(S)), NEW f, Runs(f, seqs, Len(seqs))
  PROVE  f \in [1 .. Len(seqs) -> Seq(S)]
<1> DEFINE G == {k \in Nat : k + 1 <= Len(seqs) => f[k + 1] \in Seq(S)}
<1>1. Len(seqs) \in Nat /\ \A i \in 1 .. Len(seqs) : seqs[i] \in Seq(S)
  OBVIOUS
<1>2. 0 \in G
  <2>1. 1 <= Len(seqs) => f[1] = seqs[1] /\ seqs[1] \in Seq(S)
    BY <1>1 DEF Runs
  <2>2. QED
    BY <2>1
<1>3. ASSUME NEW k \in G PROVE k + 1 \in G
  <2> SUFFICES ASSUME (k + 1) + 1 <= Len(seqs) PROVE f[(k + 1) + 1] \in Seq(S)
    OBVIOUS
  <2>1. k + 1 <= Len(seqs) /\ (k + 1) + 1 \in 1 .. Len(seqs) /\ (k + 1) + 1 # 1
    BY <1>1
  <2>2. f[k + 1] \in Seq(S) /\ seqs[(k + 1) + 1] \in Seq(S)
    BY <1>1, <2>1, Zenon
  <2>3. f[(k + 1) + 1] = f[k + 1] \o seqs[(k + 1) + 1]
    <3>1. ((k + 1) + 1) - 1 = k + 1
      OBVIOUS
    <3>2. QED
      BY <2>1, <3>1, Zenon DEF Runs
  <2>4. QED
    BY <2>2, <2>3, ConcatProperties, SMTT(30)
<1>4. G = Nat
  <2>1. G \in SUBSET Nat
    OBVIOUS
  <2> HIDE DEF G
  <2>2. QED
    BY <1>2, <1>3, <2>1, SetInduction, Zenon
<1>5. \A i \in 1 .. Len(seqs) : f[i] \in Seq(S)
  <2> TAKE i \in 1 .. Len(seqs)
  <2>1. i - 1 \in Nat /\ (i - 1) + 1 = i /\ i <= Len(seqs)
    BY <1>1
  <2>2. i - 1 \in G
    BY <1>4, <2>1, Zenon
  <2>3. QED
    BY <2>1, <2>2, SMTT(30)
<1>6. QED
  BY <1>5, Zenon DEF Runs

(* Joined is the last of the running concatenations.                   *)
LEMMA JoinedRuns ==
  ASSUME NEW S, NEW seqs \in Seq(Seq(S)), seqs # <<>>
  PROVE  \E f \in [1 .. Len(seqs) -> Seq(S)] :
           Runs(f, seqs, Len(seqs)) /\ Joined(seqs) = f[Len(seqs)]
<1> DEFINE N == Len(seqs)
           body(f) == [i \in 1 .. N |-> IF i = 1 THEN seqs[i] ELSE f[i - 1] \o seqs[i]]
           h == CHOOSE f : f = body(f)
<1>1. N \in Nat /\ N # 0
  OBVIOUS
<1>2. PICK f : Runs(f, seqs, N)
  BY <1>1, RunsExist, Zenon
<1>3. h = body(h)
  BY <1>2, Zenon DEF Runs
<1>4. Runs(h, seqs, N)
  BY <1>3, Zenon DEF Runs
<1>5. Joined(seqs) = h[N]
  BY <1>1, Zenon DEF Joined
<1>6. h \in [1 .. N -> Seq(S)]
  BY <1>4, RunsTyped, Zenon
<1>7. QED
  BY <1>4, <1>5, <1>6, Zenon

(* The running concatenations begin with the first piece ...               *)
LEMMA RunsFirst ==
  ASSUME NEW seqs, NEW n \in Nat, NEW f, Runs(f, seqs, n), 1 \in 1 .. n
  PROVE  f[1] = seqs[1]
BY Zenon DEF Runs

(* ... and each one adds a piece to the one before it.                     *)
LEMMA RunsNext ==
  ASSUME NEW seqs, NEW n \in Nat, NEW f, Runs(f, seqs, n),
         NEW i \in 1 .. n, i + 1 \in 1 .. n
  PROVE  f[i + 1] = f[i] \o seqs[i + 1]
<1>1. i + 1 \in 1 .. n /\ i + 1 # 1 /\ (i + 1) - 1 = i
  OBVIOUS
<1>2. QED
  BY <1>1, Zenon DEF Runs

(* Joined of sequences over S is a sequence over S.                    *)
LEMMA JoinedTyped ==
  ASSUME NEW S, NEW seqs \in Seq(Seq(S))
  PROVE  Joined(seqs) \in Seq(S)
<1>1. CASE seqs = <<>>
  BY <1>1, SMTT(30) DEF Joined
<1>2. CASE seqs # <<>>
  <2>1. Len(seqs) \in 1 .. Len(seqs)
    BY <1>2, SMTT(30)
  <2>2. PICK f \in [1 .. Len(seqs) -> Seq(S)] : Joined(seqs) = f[Len(seqs)]
    BY <1>2, JoinedRuns
  <2>3. QED
    BY <2>1, <2>2, Zenon
<1>3. QED
  BY <1>1, <1>2, Zenon

(* u is x followed by the first n pieces of t.                             *)
Shifted(u, x, t, n) ==
  u[1] = x /\ \A i \in 1 .. n : u[i + 1] = t[i]

(* The first n pieces of t are sequences over S.                           *)
Pieces(t, n, S) == \A i \in 1 .. n : t[i] \in Seq(S)

(* A piece put in front of all others comes first in what they run to.     *)
LEMMA RunsShift ==
  ASSUME NEW S, NEW x \in Seq(S), NEW n \in Nat, NEW t, NEW u, Shifted(u, x, t, n),
         NEW f, Runs(f, t, n), Pieces(t, n, S), Pieces(f, n, S),
         NEW g, Runs(g, u, n + 1), n \in 1 .. n
  PROVE  g[n + 1] = x \o f[n]
<1> DEFINE P(k) == k \in 1 .. n => g[k + 1] = x \o f[k]
           G == {k \in Nat : P(k)}
<1>1. n + 1 \in Nat
  OBVIOUS
<1>2. g[1] = x
  <2>1. 1 \in 1 .. n + 1
    OBVIOUS
  <2>2. g[1] = u[1]
    BY <1>1, <2>1, RunsFirst, SMTT(30)
  <2>3. QED
    BY <2>2, Zenon DEF Shifted
<1>3. ASSUME NEW i \in 1 .. n PROVE g[i + 1] = g[i] \o t[i]
  <2>1. i + 1 \in 1 .. n + 1 /\ i \in 1 .. n + 1
    OBVIOUS
  <2>2. g[i + 1] = g[i] \o u[i + 1]
    BY <1>1, <2>1, RunsNext, Zenon
  <2>3. u[i + 1] = t[i]
    BY DEF Shifted
  <2>4. QED
    BY <2>2, <2>3, Zenon
<1>4. ASSUME 1 \in 1 .. n PROVE f[1] = t[1]
  BY <1>4, RunsFirst
<1>9. P(0)
  OBVIOUS
<1>5. ASSUME NEW k \in Nat, P(k) PROVE P(k + 1)
  <2> SUFFICES ASSUME k + 1 \in 1 .. n PROVE g[(k + 1) + 1] = x \o f[k + 1]
    BY Zenon
  <2>1. g[(k + 1) + 1] = g[k + 1] \o t[k + 1]
    BY <1>3, Zenon
  <2>2. CASE k = 0
    <3>1. 1 \in 1 .. n
      BY <2>2
    <3>2. f[1] = t[1]
      BY <1>4, <3>1, Zenon
    <3>3. g[1 + 1] = x \o f[1]
      <4>1. g[1 + 1] = g[1] \o t[1]
        BY <1>3, <3>1, Zenon
      <4>2. QED
        BY <1>2, <3>2, <4>1, Zenon
    <3>4. QED
      BY <2>2, <3>3, SMTT(30)
  <2>3. CASE k # 0
    <3>1. k \in 1 .. n
      BY <2>3
    <3>2. g[k + 1] = x \o f[k]
      BY <1>5, <3>1, Zenon
    <3>3. f[k + 1] = f[k] \o t[k + 1]
      BY <3>1, RunsNext, Zenon
    <3>4. f[k] \in Seq(S) /\ t[k + 1] \in Seq(S)
      BY <3>1 DEF Pieces
    <3>5. (x \o f[k]) \o t[k + 1] = x \o (f[k] \o t[k + 1])
      <4>1. \A a, b \in Seq(S) : (x \o a) \o b = x \o (a \o b)
        BY ConcatAssociative, SMTT(30)
      <4>2. QED
        BY <3>4, <4>1, Zenon
    <3>6. QED
      BY <2>1, <3>2, <3>3, <3>5, Zenon
  <2>4. QED
    BY <2>2, <2>3, Zenon
<1>6. G = Nat
  <2>1. G \in SUBSET Nat
    OBVIOUS
  <2>2. 0 \in G /\ \A k \in G : k + 1 \in G
    <3> HIDE DEF P
    <3>1. QED
      BY <1>9, <1>5
  <2> HIDE DEF G
  <2>3. QED
    BY <2>1, <2>2, SetInduction, Zenon
<1>7. \A k \in Nat : P(k)
  <2> HIDE DEF P
  <2>1. QED
    BY <1>6
<1>8. QED
  BY <1>7, Zenon

(* Joined of a piece and more pieces.                                  *)
LEMMA JoinedCons ==
  ASSUME NEW S, NEW x \in Seq(S), NEW t \in Seq(Seq(S))
  PROVE  Joined(<<x>> \o t) = x \o Joined(t)
<1>1. PICK u \in Seq(Seq(S)) : u = <<x>> \o t
  <2>1. <<x>> \in Seq(Seq(S))
    OBVIOUS
  <2>2. QED
    BY <2>1, ConcatProperties, Zenon
<1>2. /\ Len(u) = Len(t) + 1 /\ u # <<>> /\ Len(t) \in Nat
      /\ Shifted(u, x, t, Len(t))
  BY <1>1 DEF Shifted
<1> SUFFICES Joined(u) = x \o Joined(t)
  BY <1>1, Zenon
<1>3. PICK g : Runs(g, u, Len(t) + 1) /\ Joined(u) = g[Len(t) + 1]
  BY <1>2, JoinedRuns, Zenon
<1>4. CASE t = <<>>
  <2>1. Len(t) + 1 = 1 /\ 1 \in 1 .. 1 /\ 1 \in Nat
    BY <1>4, SMTT(30)
  <2>2. g[1] = u[1]
    BY <1>3, <2>1, RunsFirst, Zenon
  <2>3. u[1] = x
    BY <1>2, Zenon DEF Shifted
  <2>4. Joined(t) = <<>>
    BY <1>4, Zenon DEF Joined
  <2>5. QED
    BY <1>3, <2>1, <2>2, <2>3, <2>4, ConcatEmptySeq, Zenon
<1>5. CASE t # <<>>
  <2>1. PICK f : Runs(f, t, Len(t)) /\ Joined(t) = f[Len(t)]
    BY <1>5, JoinedRuns, Zenon
  <2>2. Pieces(t, Len(t), S) /\ Pieces(f, Len(t), S)
    <3>1. f \in [1 .. Len(t) -> Seq(S)]
      BY <2>1, RunsTyped, SMTT(30)
    <3>2. t \in [1 .. Len(t) -> Seq(S)]
      BY LenProperties
    <3>3. QED
      BY <3>1, <3>2, Zenon DEF Pieces
  <2>3. Len(t) \in 1 .. Len(t)
    BY <1>2, <1>5, SMTT(30)
  <2>4. g[Len(t) + 1] = x \o f[Len(t)]
    BY <1>2, <1>3, <2>1, <2>2, <2>3, RunsShift, SMTT(30)
  <2>5. QED
    BY <1>3, <2>1, <2>4, Zenon
<1>6. QED
  BY <1>4, <1>5, Zenon

(* The running concatenations of one-element pieces are the prefixes.      *)
LEMMA RunsSingles ==
  ASSUME NEW S, NEW s \in Seq(S), NEW u, \A i \in 1 .. Len(s) : u[i] = <<s[i]>>,
         NEW f, Runs(f, u, Len(s))
  PROVE  \A i \in 1 .. Len(s) : f[i] = SubSeq(s, 1, i)
<1> DEFINE P(k) == k \in 1 .. Len(s) => f[k] = SubSeq(s, 1, k)
           G == {k \in Nat : P(k)}
<1>1. Len(s) \in Nat
  OBVIOUS
<1>2. P(0)
  BY <1>1
<1>3. ASSUME NEW k \in Nat, P(k) PROVE P(k + 1)
  <2> SUFFICES ASSUME k + 1 \in 1 .. Len(s) PROVE f[k + 1] = SubSeq(s, 1, k + 1)
    BY Zenon
  <2>1. u[k + 1] = <<s[k + 1]>>
    BY Zenon
  <2>2. SubSeq(s, 1, k + 1) = SubSeq(s, 1, k) \o <<s[k + 1]>>
    <3>1. 1 \in 1 .. Len(s) /\ k + 1 \in 1 .. Len(s) /\ (k + 1) - 1 = k
      BY <1>1, SMTT(30)
    <3>2. QED
      BY <3>1, SubSeqRecursiveSecond, Zenon
  <2>3. CASE k = 0
    <3>1. f[k + 1] = <<s[k + 1]>>
      <4>1. k + 1 = 1 /\ 1 \in 1 .. Len(s)
        BY <2>3
      <4>2. f[1] = u[1]
        BY <1>1, <4>1, RunsFirst, Zenon
      <4>3. QED
        BY <2>1, <4>1, <4>2, Zenon
    <3>2. SubSeq(s, 1, k) = <<>>
      BY <2>3
    <3>3. <<>> \o <<s[k + 1]>> = <<s[k + 1]>>
      OBVIOUS
    <3>4. QED
      BY <2>2, <3>1, <3>2, <3>3, Zenon
  <2>4. CASE k # 0
    <3>1. k \in 1 .. Len(s)
      BY <1>1, <2>4, SMTT(30)
    <3>2. f[k] = SubSeq(s, 1, k)
      BY <1>3, <3>1, Zenon
    <3>3. f[k + 1] = f[k] \o u[k + 1]
      BY <1>1, <3>1, RunsNext, Zenon
    <3>4. QED
      BY <2>1, <2>2, <3>2, <3>3, Zenon
  <2>5. QED
    BY <2>3, <2>4, Zenon
<1>4. G = Nat
  <2>1. G \in SUBSET Nat
    BY Zenon
  <2>2. 0 \in G /\ \A k \in G : k + 1 \in G
    <3> HIDE DEF P
    <3>1. QED
      BY <1>2, <1>3, SMTT(30)
  <2> HIDE DEF G
  <2>3. QED
    BY <2>1, <2>2, SetInduction, Zenon
<1>5. \A k \in Nat : P(k)
  <2> HIDE DEF P
  <2>1. QED
    BY <1>4, Zenon
<1>6. QED
  BY <1>1, <1>5, SMTT(30)

(* Cutting a sequence into single elements loses and moves nothing.        *)
LEMMA JoinedSingles ==
  ASSUME NEW S, NEW s \in Seq(S)
  PROVE  Joined([k \in DOMAIN s |-> <<s[k]>>]) = s
<1>1. PICK u \in Seq(Seq(S)) : u = [k \in DOMAIN s |-> <<s[k]>>]
  <2>1. Len(s) \in Nat /\ DOMAIN s = 1 .. Len(s) /\ \A i \in 1 .. Len(s) : <<s[i]>> \in Seq(S)
    OBVIOUS
  <2>2. [k \in DOMAIN s |-> <<s[k]>>] \in [1 .. Len(s) -> Seq(S)]
    BY <2>1, Zenon
  <2>3. Seq(Seq(S)) = UNION {[1 .. n -> Seq(S)] : n \in Nat}
    BY SeqDef, Zenon
  <2>4. QED
    BY <2>1, <2>2, <2>3, Zenon
<1>2. Len(u) = Len(s) /\ Len(s) \in Nat /\ \A i \in 1 .. Len(s) : u[i] = <<s[i]>>
  BY <1>1
<1> SUFFICES Joined(u) = s
  BY <1>1, Zenon
<1>3. CASE s = <<>>
  <2>1. u = <<>>
    BY <1>2, <1>3, SMTT(30)
  <2>2. QED
    BY <1>3, <2>1, Zenon DEF Joined
<1>4. CASE s # <<>>
  <2>1. u # <<>> /\ Len(s) \in 1 .. Len(s)
    BY <1>2, <1>4, SMTT(30)
  <2>2. PICK f \in [1 .. Len(s) -> Seq(S)] :
          Runs(f, u, Len(s)) /\ Joined(u) = f[Len(s)]
    BY <1>2, <2>1, JoinedRuns, Zenon
  <2>3. \A i \in 1 .. Len(s) : f[i] = SubSeq(s, 1, i)
    BY <1>2, <2>2, RunsSingles, Zenon
  <2>4. QED
    BY <2>1, <2>2, <2>3, SubSeqFull, Zenon
<1>5. QED
  BY <1>3, <1>4, Zenon

-----------------------------------------------------------------------------
(* The lines of a batch *)

(* The line numbers of a batch are numbers that never go down.             *)
LineOrdered(b) ==
  /\ \A i \in DOMAIN b : b[i].line \in Nat
  /\ \A i, j \in DOMAIN b : i <= j => b[i].line <= b[j].line

(* plan() counts a line when an item's line differs from the one before;   *)
(* where line numbers never go down this counts the different lines.       *)
LEMMA LineCount ==
  ASSUME NEW S, NEW b \in Seq(S), LineOrdered(b)
  PROVE  Cardinality({it.line : it \in Range(b)}) = LinesOf(b)
<1> DEFINE n == Len(b)
           K == {k \in 1 .. n : k = 1 \/ b[k].line # b[k - 1].line}
           L == {b[i].line : i \in 1 .. n}
           f == [k \in K |-> b[k].line]
<1>1. n \in Nat /\ DOMAIN b = 1 .. n
  OBVIOUS
<1>2. {it.line : it \in Range(b)} = L /\ LinesOf(b) = Cardinality(K)
  BY <1>1, Zenon DEF Range, LinesOf
<1>3. IsFiniteSet(K)
  <2>1. IsFiniteSet(1 .. n)
    BY <1>1, FS_Interval, SMTT(30)
  <2>2. K \in SUBSET (1 .. n)
    BY Zenon
  <2> HIDE DEF K
  <2>3. QED
    BY <2>1, <2>2, FS_Subset, Zenon
<1>4. \A i \in 1 .. n : b[i].line \in Nat
  BY <1>1, Zenon DEF LineOrdered
<1>5. \A i, j \in 1 .. n : i <= j => b[i].line <= b[j].line
  BY <1>1, Zenon DEF LineOrdered
<1> HIDE DEF n
<1>6. ASSUME NEW i \in 1 .. n PROVE \E k \in K : b[k].line = b[i].line
  <2> DEFINE T == {k \in 1 .. n : b[k].line = b[i].line}
  <2>1. T \in SUBSET Nat /\ T # {}
    BY <1>1
  <2>2. PICK k \in T : \A y \in T : k <= y
    BY <2>1, LeastNumber, Zenon
  <2>3. k \in 1 .. n /\ b[k].line = b[i].line
    BY <2>2, Zenon
  <2>4. k # 1 => k - 1 \in 1 .. n /\ k - 1 \notin T
    BY <1>1, <2>2, <2>3, SMTT(30)
  <2>5. k # 1 => b[k - 1].line # b[k].line
    BY <2>3, <2>4, Zenon
  <2>6. k \in K
    BY <2>3, <2>5, Zenon
  <2>7. QED
    BY <2>3, <2>6, Zenon
<1>7. ASSUME NEW k \in K, NEW l \in K, k < l PROVE b[k].line # b[l].line
  <2>1. l - 1 \in 1 .. n /\ k <= l - 1 /\ l # 1 /\ l - 1 <= l
    BY <1>1, <1>7
  <2>2. b[l].line # b[l - 1].line
    BY <2>1, Zenon
  <2>3. b[k].line <= b[l - 1].line /\ b[l - 1].line <= b[l].line
    BY <1>5, <2>1, Zenon
  <2>4. b[k].line \in Nat /\ b[l].line \in Nat /\ b[l - 1].line \in Nat
    BY <1>4, <2>1, Zenon
  <2>5. QED
    BY <2>2, <2>3, <2>4, SMTT(30)
<1>8. f \in Surjection(K, L)
  <2>1. f \in [K -> L]
    BY Zenon
  <2>2. ASSUME NEW y \in L PROVE \E k \in K : f[k] = y
    <3>1. PICK i \in 1 .. n : y = b[i].line
      BY Zenon
    <3>2. PICK k \in K : b[k].line = b[i].line
      BY <1>6, Zenon
    <3>3. f[k] = b[k].line
      BY Zenon
    <3> HIDE DEF f, K
    <3>4. QED
      BY <3>1, <3>2, <3>3, Zenon
  <2> HIDE DEF f, K, L
  <2>3. QED
    BY <2>1, <2>2, Zenon DEF Surjection
<1>9. f \in Injection(K, L)
  <2>1. \A k, l \in K : k # l => f[k] # f[l]
    <3>1. \A k, l \in K : k # l => k < l \/ l < k
      BY <1>1, SMTT(30)
    <3>2. QED
      BY <1>7, <3>1, Zenon
  <2>2. f \in [K -> L]
    OBVIOUS
  <2> HIDE DEF f, K, L
  <2>3. QED
    BY <2>1, <2>2, Zenon DEF Injection, IsInjective
<1>10. Cardinality(L) = Cardinality(K)
  <2> HIDE DEF f, K, L
  <2>1. QED
    BY <1>3, <1>8, <1>9, FS_Surjection, Zenon
<1>11. QED
  BY <1>2, <1>10, Zenon

(* How that count changes when a batch takes one more item.                *)
LEMMA LinesStep ==
  ASSUME NEW S, NEW items \in Seq(S), NEW s \in 1 .. Len(items), NEW e \in s .. Len(items)
  PROVE  LinesOf(SubSeq(items, s, e)) =
           LinesOf(SubSeq(items, s, e - 1)) +
             (IF e = s \/ items[e].line # items[e - 1].line THEN 1 ELSE 0)
<1> DEFINE b == SubSeq(items, s, e)
           a == SubSeq(items, s, e - 1)
           firsts(c) == {k \in DOMAIN c : k = 1 \/ c[k].line # c[k - 1].line}
           m == e - s + 1
<1>1. m \in Nat \ {0} /\ m - 1 \in Nat
  OBVIOUS
<1>2. DOMAIN b = 1 .. m /\ \A k \in 1 .. m : b[k] = items[s + k - 1]
  OBVIOUS
<1>3. DOMAIN a = 1 .. m - 1 /\ \A k \in 1 .. m - 1 : a[k] = items[s + k - 1]
  BY SMTT(30)
<1>4. \A k \in 1 .. m - 1 : k \in firsts(a) <=> k \in firsts(b)
  BY <1>1, <1>2, <1>3, SMTT(30)
<1>5. m \in firsts(b) <=> (e = s \/ items[e].line # items[e - 1].line)
  <2>1. m \in 1 .. m /\ b[m] = items[e]
    BY <1>1, <1>2, SMTT(30)
  <2>2. m = 1 <=> e = s
    OBVIOUS
  <2>3. m # 1 => b[m - 1] = items[e - 1]
    <3> SUFFICES ASSUME m # 1 PROVE b[m - 1] = items[e - 1]
      BY Zenon
    <3>1. m - 1 \in 1 .. m /\ s + (m - 1) - 1 = e - 1
      BY <1>1
    <3>2. QED
      BY <1>2, <3>1, Zenon
  <2>4. QED
    BY <1>2, <2>1, <2>2, <2>3, Zenon
<1>6. firsts(a) \subseteq 1 .. m - 1 /\ firsts(b) \subseteq 1 .. m
  BY <1>2, <1>3, Zenon
<1>7. IsFiniteSet(firsts(a)) /\ m \notin firsts(a)
  <2>1. IsFiniteSet(1 .. m - 1)
    BY <1>1, FS_Interval, SMTT(30)
  <2>2. m \notin 1 .. m - 1
    BY <1>1
  <2>3. firsts(a) \in SUBSET (1 .. m - 1)
    BY <1>6, Zenon
  <2> HIDE DEF firsts, m
  <2>4. QED
    BY <2>1, <2>2, <2>3, FS_Subset, Zenon
<1>8. Cardinality(firsts(a)) \in Nat
  BY <1>7, FS_CardinalityType, Zenon
<1>9. \A k \in 1 .. m : k \in 1 .. m - 1 \/ k = m
  BY <1>1
<1>10. LinesOf(b) = Cardinality(firsts(b)) /\ LinesOf(a) = Cardinality(firsts(a))
  BY Zenon DEF LinesOf
<1> HIDE DEF a, b, m, firsts
<1>11. CASE m \in firsts(b)
  <2>1. firsts(b) = firsts(a) \cup {m}
    BY <1>4, <1>6, <1>9, <1>11, Zenon
  <2>2. Cardinality(firsts(b)) = Cardinality(firsts(a)) + 1
    BY <1>7, <2>1, FS_AddElement, Zenon
  <2>3. QED
    BY <1>5, <1>10, <1>11, <2>2, Zenon DEF a, b
<1>12. CASE m \notin firsts(b)
  <2>1. firsts(b) = firsts(a)
    BY <1>1, <1>4, <1>6, <1>9, <1>12, Zenon
  <2>2. LinesOf(b) = LinesOf(a) + 0
    BY <1>8, <1>10, <2>1, SMTT(30)
  <2>3. QED
    BY <1>5, <1>12, <2>2, Zenon DEF a, b
<1>13. QED
  BY <1>11, <1>12, Zenon

-----------------------------------------------------------------------------
(* Where a batch ends *)

(* plan() never finds the batch full before its first item.                *)
LEMMA NotFullAtFirst ==
  ASSUME NEW S, NEW items \in Seq(S), NEW opt, NEW s \in 1 .. Len(items)
  PROVE  ~Full(items, opt, s, s)
<1>1. SubSeq(items, s, s - 1) = <<>>
  BY SubSeqEmpty
<1>2. LinesOf(<<>>) = 0
  <2>1. {k \in DOMAIN <<>> : k = 1 \/ <<>>[k].line # <<>>[k - 1].line} = {}
    OBVIOUS
  <2>2. QED
    BY <2>1, FS_EmptySet, Zenon DEF LinesOf
<1>3. s - s = 0 /\ ~(0 > 0)
  OBVIOUS
<1>4. ~(opt.maxLines > 0 /\ 0 = opt.maxLines) /\ ~(opt.maxArgs > 0 /\ 0 = opt.maxArgs)
  BY <1>3, Zenon
<1>5. QED
  BY <1>1, <1>2, <1>3, <1>4, Zenon DEF Full

(* BatchEnd is the first item that the batch does not take, or one past    *)
(* the last item.                                                          *)
LEMMA BatchEndIs ==
  ASSUME NEW S, NEW items \in Seq(S), NEW opt, NEW s \in 1 .. Len(items)
  PROVE  LET e == BatchEnd(items, opt, s)
         IN  /\ e \in s .. Len(items) + 1
             /\ e <= Len(items) => Full(items, opt, s, e) \/ Overflows(items, opt, s, e)
             /\ \A m \in s .. e - 1 : ~Full(items, opt, s, m) /\ ~Overflows(items, opt, s, m)
<1> DEFINE n == Len(items)
           E == {e \in s .. n : Full(items, opt, s, e) \/ Overflows(items, opt, s, e)}
<1>1. n \in Nat
  OBVIOUS
<1>2. E \cup {n + 1} \in SUBSET Nat /\ E \cup {n + 1} # {}
  BY <1>1
<1> DEFINE e == Min(E \cup {n + 1})
<1>3. e = BatchEnd(items, opt, s)
  BY Zenon DEF BatchEnd
<1>4. e \in E \cup {n + 1} /\ \A y \in E \cup {n + 1} : e <= y
  <2> HIDE DEF E, n
  <2>1. QED
    BY <1>2, MinOf, Zenon
<1> HIDE DEF e
<1>5. e \in s .. n + 1 /\ (e <= n => e \in E)
  BY <1>1, <1>4, SMTT(30)
<1>6. ASSUME NEW m \in s .. e - 1 PROVE m \notin E /\ m \in s .. n
  BY <1>1, <1>4, <1>5, SMTT(30)
<1>7. QED
  BY <1>3, <1>5, <1>6, Zenon

(* A batch that can be built takes an item, so plan()'s loop advances.     *)
LEMMA BatchAdvances ==
  ASSUME NEW S, NEW items \in Seq(S), NEW opt, NEW s \in 1 .. Len(items),
         ~Unbuildable(items, opt, s)
  PROVE  BatchEnd(items, opt, s) \in s + 1 .. Len(items) + 1
<1>1. BatchEnd(items, opt, s) \in s .. Len(items) + 1
  BY BatchEndIs, Zenon
<1>2. BatchEnd(items, opt, s) # s
  BY NotFullAtFirst DEF Unbuildable
<1>3. QED
  BY <1>1, <1>2

-----------------------------------------------------------------------------
(* plan(), unfolded *)

(* What plan() makes of the items from start on, given by f what it makes  *)
(* of the items from any later place on.                                   *)
PackStep(items, opt, f, start) ==
  IF start > Len(items) THEN Planned(<<>>)
  ELSE IF Unbuildable(items, opt, start) THEN Failed
  ELSE LET end == BatchEnd(items, opt, start)
       IN  IF f[end].error THEN Failed
           ELSE Planned(<<SubSeq(items, start, end - 1)>> \o f[end].batches)

(* f is what plan() makes of the items from each place d or later.         *)
PackFrom(f, items, opt, d) ==
  f = [start \in d .. Len(items) + 1 |-> PackStep(items, opt, f, start)]

(* There is such an f: each place depends only on later ones.              *)
LEMMA PackFromExists ==
  ASSUME NEW S, NEW items \in Seq(S), NEW opt, NEW j \in Nat, j <= Len(items)
  PROVE  \E f : PackFrom(f, items, opt, Len(items) + 1 - j)
<1> DEFINE n == Len(items)
           P(k) == k <= n => \E f : PackFrom(f, items, opt, n + 1 - k)
           G == {k \in Nat : P(k)}
<1>1. n \in Nat
  OBVIOUS
<1>2. P(0)
  <2> DEFINE f == [start \in n + 1 .. n + 1 |-> Planned(<<>>)]
  <2>1. \A start \in n + 1 .. n + 1 : PackStep(items, opt, f, start) = Planned(<<>>)
    BY <1>1 DEF PackStep
  <2>2. n + 1 - 0 = n + 1
    BY <1>1
  <2>3. PackFrom(f, items, opt, n + 1 - 0)
    BY <2>1, <2>2, Zenon DEF PackFrom
  <2>4. QED
    BY <2>3, Zenon
<1>3. ASSUME NEW k \in Nat, P(k) PROVE P(k + 1)
  <2> SUFFICES ASSUME k + 1 <= n PROVE \E f : PackFrom(f, items, opt, n + 1 - (k + 1))
    BY Zenon
  <2> DEFINE d == n + 1 - k
  <2>1. d \in 2 .. n + 1 /\ n + 1 - (k + 1) = d - 1
    BY <1>1, SMTT(30)
  <2>2. PICK f : PackFrom(f, items, opt, d)
    BY <1>1, <1>3, SMTT(30)
  <2> HIDE DEF d
  <2> DEFINE g == [start \in d - 1 .. n + 1 |->
                     IF start >= d THEN f[start] ELSE PackStep(items, opt, f, start)]
  <2>3. \A start \in d .. n + 1 : f[start] = PackStep(items, opt, f, start)
    BY <2>2, Zenon DEF PackFrom
  <2>4. \A start \in d - 1 .. n + 1 : g[start] = PackStep(items, opt, f, start)
    BY <1>1, <2>1, <2>3, SMTT(30)
  <2>5. \A start \in d .. n + 1 : g[start] = f[start]
    BY <1>1, <2>1, SMTT(30)
  <2>6. g = [start \in d - 1 .. n + 1 |-> g[start]]
    BY Zenon
  <2> HIDE DEF g
  <2>7. ASSUME NEW start \in d - 1 .. n + 1
        PROVE  PackStep(items, opt, g, start) = PackStep(items, opt, f, start)
    <3>1. CASE start > n
      BY <3>1, Zenon DEF PackStep
    <3>2. CASE Unbuildable(items, opt, start)
      BY <3>2, Zenon DEF PackStep
    <3>3. CASE ~(start > n) /\ ~Unbuildable(items, opt, start)
      <4>1. start \in 1 .. n
        BY <1>1, <2>1, <3>3, SMTT(30)
      <4>2. BatchEnd(items, opt, start) \in start + 1 .. n + 1
        BY <3>3, <4>1, BatchAdvances, Zenon
      <4>3. BatchEnd(items, opt, start) \in d .. n + 1
        BY <1>1, <2>1, <4>1, <4>2, SMTT(30)
      <4>4. g[BatchEnd(items, opt, start)] = f[BatchEnd(items, opt, start)]
        BY <2>5, <4>3, Zenon
      <4>5. QED
        BY <4>4, Zenon DEF PackStep
    <3>4. QED
      BY <3>1, <3>2, <3>3, Zenon
  <2>8. \A start \in d - 1 .. n + 1 : g[start] = PackStep(items, opt, g, start)
    BY <2>4, <2>7, Zenon
  <2>9. PackFrom(g, items, opt, d - 1)
    BY <2>6, <2>8, Zenon DEF PackFrom
  <2>10. QED
    BY <2>1, <2>9, Zenon
<1>4. G = Nat
  <2>1. G \in SUBSET Nat
    OBVIOUS
  <2>2. 0 \in G /\ \A k \in G : k + 1 \in G
    <3> HIDE DEF P
    <3>1. QED
      BY <1>2, <1>3, SMTT(30)
  <2> HIDE DEF G
  <2>3. QED
    BY <2>1, <2>2, SetInduction, Zenon
<1>5. P(j)
  <2> HIDE DEF P
  <2>1. QED
    BY <1>4, Zenon
<1>6. QED
  BY <1>5, Zenon

(* PackPlan is what such an f has for the first item.                      *)
LEMMA PackUnfolds ==
  ASSUME NEW S, NEW items \in Seq(S), NEW opt
  PROVE  \E f : PackFrom(f, items, opt, 1) /\ PackPlan(items, opt) = f[1]
<1> DEFINE body(f) == [start \in 1 .. Len(items) + 1 |->
                        IF start > Len(items) THEN Planned(<<>>)
                        ELSE IF Unbuildable(items, opt, start) THEN Failed
                        ELSE LET end == BatchEnd(items, opt, start)
                             IN  IF f[end].error THEN Failed
                                 ELSE Planned(<<SubSeq(items, start, end - 1)>> \o f[end].batches)]
           h == CHOOSE f : f = body(f)
<1>1. PICK f : PackFrom(f, items, opt, 1)
  <2>1. Len(items) \in Nat /\ Len(items) <= Len(items) /\ Len(items) + 1 - Len(items) = 1
    OBVIOUS
  <2>2. \E f : PackFrom(f, items, opt, Len(items) + 1 - Len(items))
    BY <2>1, PackFromExists, Zenon
  <2>3. QED
    BY <2>1, <2>2, Zenon
<1>2. \A g : PackFrom(g, items, opt, 1) <=> g = body(g)
  BY Zenon DEF PackFrom, PackStep
<1>3. PackPlan(items, opt) = h[1]
  BY Zenon DEF PackPlan
<1>4. h = body(h)
  <2> HIDE DEF body
  <2>1. f = body(f)
    BY <1>1, <1>2, Zenon
  <2>2. QED
    BY <2>1, Zenon
<1>5. PackFrom(h, items, opt, 1)
  <2> HIDE DEF body
  <2>1. QED
    BY <1>2, <1>4, Zenon
<1>6. QED
  BY <1>3, <1>5, Zenon

-----------------------------------------------------------------------------
(* A batch is within the limits and cannot take the next item *)

(* The line count of a batch is a number.                                  *)
LEMMA LinesOfNat ==
  ASSUME NEW S, NEW b \in Seq(S)
  PROVE  LinesOf(b) \in Nat
<1> DEFINE K == {k \in DOMAIN b : k = 1 \/ b[k].line # b[k - 1].line}
<1>1. IsFiniteSet(1 .. Len(b)) /\ K \in SUBSET (1 .. Len(b))
  <2>1. Len(b) \in Nat /\ K \in SUBSET (1 .. Len(b))
    OBVIOUS
  <2>2. IsFiniteSet(1 .. Len(b))
    BY <2>1, FS_Interval
  <2>3. QED
    BY <2>1, <2>2, Zenon
<1>2. LinesOf(b) = Cardinality(K)
  BY Zenon DEF LinesOf
<1> HIDE DEF K
<1>3. QED
  BY <1>1, <1>2, FS_Subset, FS_CardinalityType, Zenon

(* What SubSeq returns.                                                    *)
LEMMA SubSeqFacts ==
  ASSUME NEW S, NEW items \in Seq(S), NEW s \in 1 .. Len(items) + 1, NEW e \in s - 1 .. Len(items)
  PROVE  /\ SubSeq(items, s, e) \in Seq(S)
         /\ Len(SubSeq(items, s, e)) = e - s + 1
         /\ \A i \in 1 .. e - s + 1 : SubSeq(items, s, e)[i] = items[s + i - 1]
<1>1. \A i \in s .. e : items[i] \in S
  OBVIOUS
<1>2. QED
  BY <1>1, SubSeqProperties, SMTT(30)

(* A batch cut from items whose lines never go down is of that kind.       *)
LEMMA SubSeqOrdered ==
  ASSUME NEW S, NEW items \in Seq(S), LineOrdered(items),
         NEW s \in 1 .. Len(items), NEW e \in s .. Len(items)
  PROVE  LineOrdered(SubSeq(items, s, e))
<1> DEFINE b == SubSeq(items, s, e)
<1>1. DOMAIN b = 1 .. e - s + 1 /\ \A i \in 1 .. e - s + 1 : b[i] = items[s + i - 1]
  OBVIOUS
<1>2. /\ \A i \in 1 .. Len(items) : items[i].line \in Nat
      /\ \A i, j \in 1 .. Len(items) : i <= j => items[i].line <= items[j].line
  BY SMTT(30) DEF LineOrdered
<1>3. \A i \in 1 .. e - s + 1 : s + i - 1 \in 1 .. Len(items)
  OBVIOUS
<1> HIDE DEF b
<1>4. \A i \in DOMAIN b : b[i].line \in Nat
  BY <1>1, <1>2, <1>3, Zenon
<1>5. ASSUME NEW i \in DOMAIN b, NEW j \in DOMAIN b, i <= j
      PROVE  b[i].line <= b[j].line
  <2>1. s + i - 1 \in 1 .. Len(items) /\ s + j - 1 \in 1 .. Len(items) /\ s + i - 1 <= s + j - 1
    BY <1>1, <1>3, <1>5, SMTT(30)
  <2>2. b[i] = items[s + i - 1] /\ b[j] = items[s + j - 1]
    BY <1>1, Zenon
  <2>3. QED
    BY <1>2, <2>1, <2>2, Zenon
<1>6. QED
  BY <1>4, <1>5, Zenon DEF b, LineOrdered

(* When a batch that has an item is full.                                  *)
LEMMA FullMeans ==
  ASSUME NEW S, NEW items \in Seq(S), NEW opt, NEW s \in 1 .. Len(items), NEW e \in s + 1 .. Len(items)
  PROVE  Full(items, opt, s, e) <=>
           \/ /\ opt.maxLines > 0 /\ LinesOf(SubSeq(items, s, e - 1)) = opt.maxLines
              /\ items[e].line # items[e - 1].line
           \/ opt.maxArgs > 0 /\ e - s = opt.maxArgs
<1> DEFINE b == SubSeq(items, s, e - 1)
<1>1. Len(b) = e - s /\ b[e - s] = items[e - 1]
  <2>1. /\ s \in 1 .. Len(items) + 1 /\ e - 1 \in s - 1 .. Len(items) /\ (e - 1) - s + 1 = e - s
        /\ e - s \in 1 .. e - s /\ s + (e - s) - 1 = e - 1
    OBVIOUS
  <2>2. QED
    BY <2>1, SubSeqFacts, SMTT(30)
<1>2. b[Len(b)] = items[e - 1]
  BY <1>1, Zenon
<1> HIDE DEF b
<1>3. Full(items, opt, s, e) <=>
           \/ /\ opt.maxLines > 0 /\ LinesOf(b) = opt.maxLines
              /\ items[e].line # b[Len(b)].line
           \/ opt.maxArgs > 0 /\ e - s = opt.maxArgs
  BY Zenon DEF Full, b
<1>4. QED
  BY <1>2, <1>3, Zenon DEF b

(* A batch that plan() never found full is within -L.                      *)
LEMMA LinesBounded ==
  ASSUME NEW S, NEW items \in Seq(S), NEW opt, opt.maxLines \in Int, opt.maxLines > 0,
         NEW s \in 1 .. Len(items), NEW m \in s .. Len(items),
         \A e \in s .. m : ~Full(items, opt, s, e)
  PROVE  LinesOf(SubSeq(items, s, m)) <= opt.maxLines
<1> DEFINE P(d) == s + d <= m => LinesOf(SubSeq(items, s, s + d)) <= opt.maxLines
           G == {d \in Nat : P(d)}
<1>1. P(0)
  <2>1. s + 0 = s /\ s \in s .. Len(items)
    OBVIOUS
  <2>2. LinesOf(SubSeq(items, s, s)) = LinesOf(SubSeq(items, s, s - 1)) + 1
    BY <2>1, LinesStep, Zenon
  <2>3. SubSeq(items, s, s - 1) = <<>>
    BY SubSeqEmpty
  <2>4. LinesOf(<<>>) = 0
    <3>1. {k \in DOMAIN <<>> : k = 1 \/ <<>>[k].line # <<>>[k - 1].line} = {}
      OBVIOUS
    <3>2. QED
      BY <3>1, FS_EmptySet, Zenon DEF LinesOf
  <2>5. LinesOf(SubSeq(items, s, s - 1)) = 0
    BY <2>3, <2>4, Zenon
  <2>6. LinesOf(SubSeq(items, s, s)) = 1
    BY <2>2, <2>5, SMTT(30)
  <2>7. QED
    BY <2>1, <2>6, SMTT(30)
<1>2. ASSUME NEW d \in Nat, P(d) PROVE P(d + 1)
  <2> SUFFICES ASSUME s + (d + 1) <= m
               PROVE  LinesOf(SubSeq(items, s, s + (d + 1))) <= opt.maxLines
    BY Zenon
  <2> DEFINE e == s + (d + 1)
  <2>1. e \in s + 1 .. Len(items) /\ e \in s .. m /\ e \in s .. Len(items) /\ e - 1 = s + d /\ e # s
    OBVIOUS
  <2>2. LinesOf(SubSeq(items, s, e - 1)) <= opt.maxLines
    BY <1>2, <2>1, SMTT(30)
  <2> HIDE DEF e
  <2>3. LinesOf(SubSeq(items, s, e - 1)) \in Nat
    <3>1. s \in 1 .. Len(items) + 1 /\ e - 1 \in s - 1 .. Len(items)
      BY <2>1, SMTT(30)
    <3>2. SubSeq(items, s, e - 1) \in Seq(S)
      BY <3>1, SubSeqFacts, Zenon
    <3>3. QED
      BY <3>2, LinesOfNat, Zenon
  <2>4. LinesOf(SubSeq(items, s, e)) =
           LinesOf(SubSeq(items, s, e - 1)) +
             (IF e = s \/ items[e].line # items[e - 1].line THEN 1 ELSE 0)
    BY <2>1, LinesStep, Zenon
  <2>5. items[e].line # items[e - 1].line => LinesOf(SubSeq(items, s, e - 1)) # opt.maxLines
    BY <2>1, FullMeans, Zenon
  <2>6. LinesOf(SubSeq(items, s, e)) <= opt.maxLines
    BY <2>1, <2>2, <2>3, <2>4, <2>5, SMTT(30)
  <2>7. QED
    BY <2>6, Zenon DEF e
<1>3. G = Nat
  <2>1. G \in SUBSET Nat
    BY Zenon
  <2>2. 0 \in G /\ \A d \in G : d + 1 \in G
    <3> HIDE DEF P
    <3>1. QED
      BY <1>1, <1>2, SMTT(30)
  <2> HIDE DEF G
  <2>3. QED
    BY <2>1, <2>2, SetInduction, Zenon
<1>4. P(m - s)
  <2>1. m - s \in Nat
    OBVIOUS
  <2> HIDE DEF P
  <2>2. QED
    BY <1>3, <2>1, Zenon
<1>5. s + (m - s) = m
  OBVIOUS
<1>6. QED
  BY <1>4, <1>5, SMTT(30)

(* A batch that took only items it was not full for and that did not       *)
(* overflow it is within -n, -L and -s.                                    *)
LEMMA BatchWithin ==
  ASSUME NEW S, NEW items \in Seq(S), LineOrdered(items),
         NEW opt, opt.maxLines \in Int, opt.maxArgs \in Int,
         NEW s \in 1 .. Len(items), NEW m \in s .. Len(items),
         \A e \in s .. m : ~Full(items, opt, s, e) /\ ~Overflows(items, opt, s, e)
  PROVE  WithinLimits(SubSeq(items, s, m), opt)
<1>1. /\ SubSeq(items, s, m) \in Seq(S) /\ Len(SubSeq(items, s, m)) = m - s + 1
      /\ LineOrdered(SubSeq(items, s, m))
  <2>1. s \in 1 .. Len(items) + 1 /\ m \in s - 1 .. Len(items)
    OBVIOUS
  <2>2. QED
    BY <2>1, SubSeqFacts, SubSeqOrdered, Zenon
<1>2. ASSUME opt.maxArgs > 0 PROVE m - s + 1 <= opt.maxArgs
  <2> SUFFICES ASSUME ~(m - s + 1 <= opt.maxArgs) PROVE FALSE
    BY Zenon
  <2>1. s + opt.maxArgs \in s + 1 .. Len(items) /\ s + opt.maxArgs \in s .. m /\ (s + opt.maxArgs) - s = opt.maxArgs
    BY <1>2, SMTT(30)
  <2>2. Full(items, opt, s, s + opt.maxArgs)
    BY <1>2, <2>1, FullMeans, Zenon
  <2>3. QED
    BY <2>1, <2>2, Zenon
<1>3. ASSUME opt.maxLines > 0 PROVE LinesOf(SubSeq(items, s, m)) <= opt.maxLines
  BY <1>3, LinesBounded, Zenon
<1>4. ~TooLarge(SizeOf(SubSeq(items, s, m)), opt)
  BY DEF Overflows
<1>5. Cardinality({it.line : it \in Range(SubSeq(items, s, m))}) = LinesOf(SubSeq(items, s, m))
  BY <1>1, LineCount, Zenon
<1>6. QED
  BY <1>1, <1>2, <1>3, <1>4, <1>5, Zenon DEF WithinLimits

(* A batch with the item that it was full for, or that overflowed it, is   *)
(* not within the limits.                                                  *)
LEMMA BatchMaximal ==
  ASSUME NEW S, NEW items \in Seq(S), LineOrdered(items),
         NEW opt, opt.maxLines \in Int, opt.maxArgs \in Int, ~opt.replaceSet,
         NEW s \in 1 .. Len(items), NEW e \in s + 1 .. Len(items),
         Full(items, opt, s, e) \/ Overflows(items, opt, s, e)
  PROVE  ~WithinLimits(SubSeq(items, s, e), opt)
<1>0. e \in s .. Len(items) /\ e # s
  OBVIOUS
<1>1. /\ SubSeq(items, s, e) \in Seq(S) /\ Len(SubSeq(items, s, e)) = e - s + 1
      /\ LineOrdered(SubSeq(items, s, e))
  <2>1. s \in 1 .. Len(items) + 1 /\ e \in s - 1 .. Len(items)
    OBVIOUS
  <2>2. QED
    BY <1>0, <2>1, SubSeqFacts, SubSeqOrdered, Zenon
<1>2. Cardinality({it.line : it \in Range(SubSeq(items, s, e))}) = LinesOf(SubSeq(items, s, e))
  BY <1>1, LineCount, Zenon
<1>3. CASE Overflows(items, opt, s, e)
  BY <1>3, Zenon DEF Overflows, WithinLimits
<1>4. CASE opt.maxArgs > 0 /\ e - s = opt.maxArgs
  <2>1. ~(Len(SubSeq(items, s, e)) <= opt.maxArgs)
    BY <1>1, <1>4, SMTT(30)
  <2>2. QED
    BY <1>4, <2>1, Zenon DEF WithinLimits
<1>5. CASE /\ opt.maxLines > 0 /\ LinesOf(SubSeq(items, s, e - 1)) = opt.maxLines
           /\ items[e].line # items[e - 1].line
  <2>1. LinesOf(SubSeq(items, s, e)) = opt.maxLines + 1
    BY <1>0, <1>5, LinesStep, SMTT(30)
  <2>2. ~(LinesOf(SubSeq(items, s, e)) <= opt.maxLines)
    BY <2>1
  <2>3. QED
    BY <1>2, <1>5, <2>2, Zenon DEF WithinLimits
<1>6. QED
  BY <1>3, <1>4, <1>5, FullMeans, ZenonT(30)

-----------------------------------------------------------------------------
(* The packing loop *)

(* bs is a packing of the items from s on, and begins with item s.         *)
Packed(bs, items, opt, s) ==
  /\ Joined(bs) = SubSeq(items, s, Len(items))
  /\ \A k \in DOMAIN bs : WithinLimits(bs[k], opt)
  /\ \A k \in DOMAIN bs : k > 1 => ~WithinLimits(Append(bs[k - 1], bs[k][1]), opt)
  /\ s <= Len(items) => bs # <<>> /\ bs[1][1] = items[s]
  /\ s > Len(items) => bs = <<>>

(* No batches pack no items.                                               *)
LEMMA PackedNone ==
  ASSUME NEW S, NEW items \in Seq(S), NEW opt
  PROVE  Packed(<<>>, items, opt, Len(items) + 1)
<1>1. Joined(<<>>) = <<>>
  BY Zenon DEF Joined
<1>2. SubSeq(items, Len(items) + 1, Len(items)) = <<>>
  BY SubSeqEmpty
<1>3. ~(Len(items) + 1 <= Len(items))
  OBVIOUS
<1>4. \A k \in DOMAIN <<>> : FALSE
  OBVIOUS
<1>5. QED
  BY <1>1, <1>2, <1>3, <1>4, Zenon DEF Packed

(* The batch plan() builds at s, and a packing of what follows it, are a   *)
(* packing of the items from s on.                                         *)
LEMMA PackedCons ==
  ASSUME NEW S, NEW items \in Seq(S), LineOrdered(items),
         NEW opt, opt.maxLines \in Int, opt.maxArgs \in Int, ~opt.replaceSet,
         NEW s \in 1 .. Len(items), ~Unbuildable(items, opt, s),
         NEW e, e = BatchEnd(items, opt, s),
         NEW rest \in Seq(Seq(S)), Packed(rest, items, opt, e)
  PROVE  Packed(<<SubSeq(items, s, e - 1)>> \o rest, items, opt, s)
<1>1. e \in s + 1 .. Len(items) + 1
  BY BatchAdvances, Zenon
<1>2. /\ e <= Len(items) => Full(items, opt, s, e) \/ Overflows(items, opt, s, e)
      /\ \A m \in s .. e - 1 : ~Full(items, opt, s, m) /\ ~Overflows(items, opt, s, m)
  BY BatchEndIs, Zenon
<1>3. PICK b : b = SubSeq(items, s, e - 1)
  BY Zenon
<1>4. b \in Seq(S) /\ Len(b) = e - s /\ b[1] = items[s] /\ b # <<>>
  <2>1. s \in 1 .. Len(items) + 1 /\ e - 1 \in s - 1 .. Len(items) /\ (e - 1) - s + 1 = e - s
        /\ 1 \in 1 .. e - s /\ s + 1 - 1 = s
    <3>1. Len(items) \in Nat /\ s \in Nat /\ 1 <= s /\ s <= Len(items)
      OBVIOUS
    <3>2. e \in Nat /\ s + 1 <= e /\ e <= Len(items) + 1
      BY <1>1, <3>1, SMTT(30)
    <3>3. QED
      BY <3>1, <3>2, SMTT(30)
  <2>2. /\ b \in Seq(S) /\ Len(b) = (e - 1) - s + 1
        /\ \A i \in 1 .. (e - 1) - s + 1 : b[i] = items[s + i - 1]
    BY <1>3, <2>1, SubSeqFacts, ZenonT(30)
  <2>3. b \in Seq(S) /\ Len(b) = e - s /\ b[1] = items[s]
    BY <2>1, <2>2, Zenon
  <2>4. QED
    BY <2>1, <2>3, SMTT(30)
<1>5. PICK bs : bs = <<b>> \o rest
  BY Zenon
<1>6. /\ DOMAIN bs = 1 .. Len(rest) + 1 /\ bs[1] = b /\ Len(rest) \in Nat
      /\ \A k \in 2 .. Len(rest) + 1 : bs[k] = rest[k - 1]
      /\ bs # <<>>
  BY <1>4, <1>5
<1>7. Joined(bs) = SubSeq(items, s, Len(items))
  <2>1. Joined(<<b>> \o rest) = b \o Joined(rest)
    BY <1>4, JoinedCons, Zenon
  <2>2. Joined(rest) = SubSeq(items, e, Len(items))
    BY Zenon DEF Packed
  <2>3. SubSeq(items, s, e - 1) \o SubSeq(items, e, Len(items)) = SubSeq(items, s, Len(items))
    <3>1. /\ s \in 1 .. Len(items) + 1 /\ e - 1 \in s - 1 .. Len(items)
          /\ Len(items) \in e - 1 .. Len(items) /\ (e - 1) + 1 = e
      BY <1>1, SMTT(30)
    <3>2. SubSeq(items, s, e - 1) \o SubSeq(items, (e - 1) + 1, Len(items)) = SubSeq(items, s, Len(items))
      BY <3>1, ConcatAdjacentSubSeq, Zenon
    <3>3. QED
      BY <3>1, <3>2, Zenon
  <2>4. QED
    BY <1>3, <1>5, <2>1, <2>2, <2>3, Zenon
<1>8. WithinLimits(b, opt)
  <2>1. e - 1 \in s .. Len(items)
    BY <1>1
  <2>2. QED
    BY <1>2, <1>3, <2>1, BatchWithin, Zenon
<1>9. ASSUME NEW k \in DOMAIN bs PROVE WithinLimits(bs[k], opt)
  <2>1. CASE k = 1
    BY <1>6, <1>8, <2>1, Zenon
  <2>2. CASE k # 1
    <3>1. k \in 2 .. Len(rest) + 1 /\ k - 1 \in DOMAIN rest
      BY <1>6, <2>2, SMTT(30)
    <3>2. WithinLimits(rest[k - 1], opt)
      BY <3>1, Zenon DEF Packed
    <3>3. QED
      BY <1>6, <3>1, <3>2, Zenon
  <2>3. QED
    BY <2>1, <2>2, Zenon
<1>10. ASSUME NEW k \in DOMAIN bs, k > 1
       PROVE  ~WithinLimits(Append(bs[k - 1], bs[k][1]), opt)
  <2>1. k \in 2 .. Len(rest) + 1 /\ k - 1 \in DOMAIN rest /\ bs[k] = rest[k - 1]
    BY <1>6, <1>10, SMTT(30)
  <2>2. CASE k = 2
    <3>1. e <= Len(items)
      <4>1. rest # <<>>
        BY <2>1, SMTT(30)
      <4>2. e \in Int /\ Len(items) \in Int
        BY <1>1, SMTT(30)
      <4>3. QED
        BY <4>1, <4>2, SMTT(30) DEF Packed
    <3>2. bs[k][1] = items[e] /\ bs[k - 1] = b
      BY <1>6, <2>1, <2>2, <3>1, SMTT(30) DEF Packed
    <3>3. Append(b, items[e]) = SubSeq(items, s, e)
      <4>1. s \in 1 .. Len(items) /\ e \in s .. Len(items)
        BY <1>1, <3>1, SMTT(30)
      <4>2. SubSeq(items, s, e) = SubSeq(items, s, e - 1) \o <<items[e]>>
        BY <4>1, SubSeqRecursiveSecond, Zenon
      <4>3. Append(b, items[e]) = b \o <<items[e]>>
        BY <1>4, <4>1, SMTT(30)
      <4>4. QED
        BY <1>3, <4>2, <4>3, Zenon
    <3>4. e \in s + 1 .. Len(items)
      BY <1>1, <3>1
    <3>5. ~WithinLimits(SubSeq(items, s, e), opt)
      BY <1>2, <3>1, <3>4, BatchMaximal, Zenon
    <3>6. Append(bs[k - 1], bs[k][1]) = Append(b, items[e])
      BY <3>2, Zenon
    <3>7. QED
      BY <3>3, <3>5, <3>6, Zenon
  <2>3. CASE k # 2
    <3>1. k - 1 \in 2 .. Len(rest) + 1 /\ k - 1 > 1 /\ bs[k - 1] = rest[(k - 1) - 1]
      <4>1. Len(rest) \in Nat
        BY SMTT(30)
      <4>2. k - 1 \in 2 .. Len(rest) + 1 /\ k - 1 > 1
        BY <2>1, <2>3, <4>1, SMTT(30)
      <4>3. QED
        BY <1>6, <4>2, Zenon
    <3>2. ~WithinLimits(Append(rest[(k - 1) - 1], rest[k - 1][1]), opt)
      BY <2>1, <3>1, Zenon DEF Packed
    <3>3. QED
      BY <2>1, <3>1, <3>2, Zenon
  <2>4. QED
    BY <2>2, <2>3, Zenon
<1>11. bs[1][1] = items[s] /\ ~(s > Len(items))
  BY <1>4, <1>6, SMTT(30)
<1>12. Packed(bs, items, opt, s)
  BY <1>6, <1>7, <1>9, <1>10, <1>11, SMTT(30) DEF Packed
<1>13. QED
  BY <1>3, <1>5, <1>12, Zenon

(* What plan() returns, for the items from any place on.                   *)
LEMMA PackTyped ==
  ASSUME NEW S, NEW items \in Seq(S), NEW opt, NEW f, PackFrom(f, items, opt, 1)
  PROVE  \A s \in 1 .. Len(items) + 1 : f[s] \in [error : BOOLEAN, batches : Seq(Seq(S))]
<1> DEFINE n == Len(items)
           R == [error : BOOLEAN, batches : Seq(Seq(S))]
           P(j) == \A s \in 1 .. n + 1 : s >= n + 1 - j => f[s] \in R
           G == {j \in Nat : P(j)}
<1>1. n \in Nat
  OBVIOUS
<1>2. \A s \in 1 .. n + 1 : f[s] = PackStep(items, opt, f, s)
  BY Zenon DEF PackFrom
<1>3. Planned(<<>>) \in R /\ Failed \in R
  BY DEF Planned, Failed
<1>4. P(0)
  <2>1. f[n + 1] = Planned(<<>>)
    <3>1. n + 1 \in 1 .. n + 1 /\ n + 1 > Len(items)
      BY <1>1, SMTT(30)
    <3>2. f[n + 1] = PackStep(items, opt, f, n + 1)
      BY <1>2, <3>1, Zenon
    <3>3. QED
      BY <3>1, <3>2, Zenon DEF PackStep
  <2>2. \A s \in 1 .. n + 1 : s >= n + 1 - 0 => s = n + 1
    BY <1>1
  <2> HIDE DEF R
  <2>3. QED
    BY <1>3, <2>1, <2>2, Zenon
<1>5. ASSUME NEW j \in Nat, P(j) PROVE P(j + 1)
  <2> SUFFICES ASSUME NEW s \in 1 .. n + 1, s >= n + 1 - (j + 1) PROVE f[s] \in R
    BY Zenon
  <2>1. CASE s > n \/ Unbuildable(items, opt, s)
    <3>1. f[s] = Planned(<<>>) \/ f[s] = Failed
      BY <1>2, <2>1, Zenon DEF PackStep
    <3>2. QED
      BY <1>3, <3>1, Zenon
  <2>2. CASE ~(s > n) /\ ~Unbuildable(items, opt, s)
    <3>1. s \in 1 .. n
      BY <1>1, <2>2, SMTT(30)
    <3>2. PICK e : e = BatchEnd(items, opt, s)
      BY Zenon
    <3>3. e \in s + 1 .. n + 1
      BY <2>2, <3>1, <3>2, BatchAdvances, Zenon
    <3>4. f[e] \in R
      <4>1. e \in 1 .. n + 1 /\ e >= n + 1 - j
        BY <1>1, <3>1, <3>3, SMTT(30)
      <4>2. QED
        BY <1>5, <4>1, Zenon
    <3>5. CASE f[e].error
      <4>1. f[s] = Failed
        BY <1>2, <2>2, <3>2, <3>5, ZenonT(30) DEF PackStep
      <4>2. QED
        BY <1>3, <4>1, Zenon
    <3>6. CASE ~f[e].error
      <4>1. f[s] = Planned(<<SubSeq(items, s, e - 1)>> \o f[e].batches)
        BY <1>2, <2>2, <3>2, <3>6, Zenon DEF PackStep
      <4>2. SubSeq(items, s, e - 1) \in Seq(S)
        <5>1. s \in 1 .. Len(items) + 1 /\ e - 1 \in s - 1 .. Len(items)
          BY <1>1, <3>1, <3>3, SMTT(30)
        <5>2. QED
          BY <5>1, SubSeqFacts, Zenon
      <4>3. <<SubSeq(items, s, e - 1)>> \in Seq(Seq(S)) /\ f[e].batches \in Seq(Seq(S))
        BY <3>4, <4>2, SMTT(30)
      <4>4. <<SubSeq(items, s, e - 1)>> \o f[e].batches \in Seq(Seq(S))
        BY <4>3, ConcatProperties, Zenon
      <4>5. QED
        BY <4>1, <4>4, SMTT(30) DEF Planned
    <3>7. QED
      BY <3>5, <3>6, Zenon
  <2>3. QED
    BY <2>1, <2>2, Zenon
<1>6. G = Nat
  <2>1. G \in SUBSET Nat
    BY Zenon
  <2>2. 0 \in G /\ \A j \in G : j + 1 \in G
    <3> HIDE DEF P
    <3>1. QED
      BY <1>4, <1>5, SMTT(30)
  <2> HIDE DEF G
  <2>3. QED
    BY <2>1, <2>2, SetInduction, Zenon
<1>7. P(n)
  <2> HIDE DEF P
  <2>1. QED
    BY <1>1, <1>6, Zenon
<1>8. QED
  BY <1>1, <1>7, SMTT(30)

(* plan() packs the items from any place on, or fails.                     *)
LEMMA PackRight ==
  ASSUME NEW S, NEW items \in Seq(S), LineOrdered(items),
         NEW opt, opt.maxLines \in Int, opt.maxArgs \in Int, ~opt.replaceSet,
         NEW f, PackFrom(f, items, opt, 1)
  PROVE  \A s \in 1 .. Len(items) + 1 : ~f[s].error => Packed(f[s].batches, items, opt, s)
<1> DEFINE n == Len(items)
           P(j) == \A s \in 1 .. n + 1 :
                     s >= n + 1 - j => (~f[s].error => Packed(f[s].batches, items, opt, s))
           G == {j \in Nat : P(j)}
<1>1. n \in Nat
  OBVIOUS
<1>2. \A s \in 1 .. n + 1 : f[s] = PackStep(items, opt, f, s)
  BY Zenon DEF PackFrom
<1>3. \A s \in 1 .. n + 1 : f[s].batches \in Seq(Seq(S))
  BY PackTyped
<1>4. P(0)
  <2>1. f[n + 1] = Planned(<<>>)
    <3>1. n + 1 \in 1 .. n + 1 /\ n + 1 > Len(items)
      BY <1>1
    <3>2. f[n + 1] = PackStep(items, opt, f, n + 1)
      BY <1>2, <3>1, Zenon
    <3>3. QED
      BY <3>1, <3>2, Zenon DEF PackStep
  <2>2. \A s \in 1 .. n + 1 : s >= n + 1 - 0 => s = n + 1
    BY <1>1, SMTT(30)
  <2>3. f[n + 1].batches = <<>>
    BY <2>1, SMTT(30) DEF Planned
  <2>4. Packed(f[n + 1].batches, items, opt, n + 1)
    BY <2>3, PackedNone, Zenon
  <2>5. QED
    BY <2>2, <2>4, Zenon
<1>5. ASSUME NEW j \in Nat, P(j) PROVE P(j + 1)
  <2> SUFFICES ASSUME NEW s \in 1 .. n + 1, s >= n + 1 - (j + 1), ~f[s].error
               PROVE  Packed(f[s].batches, items, opt, s)
    BY Zenon
  <2>1. CASE s > n
    <3>1. s = n + 1 /\ s >= n + 1 - j
      BY <1>1, <2>1, SMTT(30)
    <3>2. QED
      BY <1>5, <3>1, Zenon
  <2>2. CASE ~(s > n)
    <3>1. s \in 1 .. n
      BY <1>1, <2>2, SMTT(30)
    <3>2. PICK e : e = BatchEnd(items, opt, s)
      BY Zenon
    <3>3. Failed.error
      BY Zenon DEF Failed
    <3>4. ~Unbuildable(items, opt, s)
      BY <1>2, <2>2, <3>3, Zenon DEF PackStep
    <3>5. ~f[e].error
      BY <1>2, <2>2, <3>2, <3>3, ZenonT(30) DEF PackStep
    <3>6. f[s].batches = <<SubSeq(items, s, e - 1)>> \o f[e].batches
      <4>1. f[s] = Planned(<<SubSeq(items, s, e - 1)>> \o f[e].batches)
        BY <1>2, <2>2, <3>2, <3>4, <3>5, Zenon DEF PackStep
      <4>2. QED
        BY <4>1, SMTT(30) DEF Planned
    <3>7. e \in s + 1 .. n + 1
      BY <3>1, <3>2, <3>4, BatchAdvances, Zenon
    <3>8. e \in 1 .. n + 1 /\ e >= n + 1 - j
      BY <1>1, <3>1, <3>7, SMTT(30)
    <3>9. Packed(f[e].batches, items, opt, e) /\ f[e].batches \in Seq(Seq(S))
      BY <1>3, <1>5, <3>5, <3>8, Zenon
    <3>10. Packed(<<SubSeq(items, s, e - 1)>> \o f[e].batches, items, opt, s)
      BY <3>1, <3>2, <3>4, <3>9, PackedCons, Zenon
    <3>11. QED
      BY <3>6, <3>10, Zenon
  <2>3. QED
    BY <2>1, <2>2, Zenon
<1>6. G = Nat
  <2>1. G \in SUBSET Nat
    OBVIOUS
  <2>2. 0 \in G /\ \A j \in G : j + 1 \in G
    <3> HIDE DEF P
    <3>1. QED
      BY <1>4, <1>5, SMTT(30)
  <2> HIDE DEF G
  <2>3. QED
    BY <2>1, <2>2, SetInduction, Zenon
<1>7. P(n)
  <2> HIDE DEF P
  <2>1. QED
    BY <1>1, <1>6, Zenon
<1>8. QED
  BY <1>1, <1>7, SMTT(30)

(* The packing loop of plan(): a plan without an error is a packing of the *)
(* items.                                                                  *)
LEMMA PackPlanRight ==
  ASSUME NEW S, NEW items \in Seq(S), LineOrdered(items),
         NEW opt, opt.maxLines \in Int, opt.maxArgs \in Int, ~opt.replaceSet,
         ~PackPlan(items, opt).error
  PROVE  IsPacking(PackPlan(items, opt).batches, items, opt)
<1>1. PICK f : PackFrom(f, items, opt, 1) /\ PackPlan(items, opt) = f[1]
  BY PackUnfolds, Zenon
<1>2. 1 \in 1 .. Len(items) + 1
  OBVIOUS
<1>3. Packed(f[1].batches, items, opt, 1)
  BY <1>1, <1>2, PackRight, Zenon
<1>4. SubSeq(items, 1, Len(items)) = items
  BY SubSeqFull, Zenon
<1>5. QED
  BY <1>1, <1>3, <1>4, Zenon DEF Packed, IsPacking

(* What the packing loop returns.                                          *)
LEMMA PackPlanTyped ==
  ASSUME NEW S, NEW items \in Seq(S), NEW opt
  PROVE  PackPlan(items, opt) \in [error : BOOLEAN, batches : Seq(Seq(S))]
<1>1. PICK f : PackFrom(f, items, opt, 1) /\ PackPlan(items, opt) = f[1]
  BY PackUnfolds, Zenon
<1>2. 1 \in 1 .. Len(items) + 1
  OBVIOUS
<1>3. QED
  BY <1>1, <1>2, PackTyped, SMTT(30)

-----------------------------------------------------------------------------
(* Options *)

(* The options in effect.                                                  *)
Effects == [null : BOOLEAN, noRunEmpty : BOOLEAN, interactive : BOOLEAN, maxArgs : Int,
            maxLines : Int, maxChars : Int, maxProcs : Int, exactSize : BOOLEAN,
            strictSize : BOOLEAN, replaceSet : BOOLEAN, eof : BOOLEAN, unknown : BOOLEAN]

(* LastOf is the number of an option, or 0.                                *)
LEMMA LastOfTyped ==
  ASSUME NEW os \in Seq(XOption), NEW flags
  PROVE  LastOf(os, flags) \in 0 .. Len(os)
<1>1. IsFiniteSet(1 .. Len(os)) /\ IsFiniteSet({0})
  <2>1. Len(os) \in Int
    OBVIOUS
  <2>2. IsFiniteSet(1 .. Len(os))
    BY <2>1, FS_Interval, SMTT(30)
  <2>3. QED
    BY <2>2, FS_Singleton, Zenon
<1> DEFINE S == {k \in DOMAIN os : os[k].flag \in flags}
<1>2. IsFiniteSet(S)
  <2>1. S \in SUBSET (1 .. Len(os))
    OBVIOUS
  <2>2. QED
    BY <1>1, <2>1, FS_Subset, Zenon
<1>3. IsFiniteSet({0} \cup S)
  BY <1>1, <1>2, FS_Union, Zenon
<1>4. {0} \cup S \in SUBSET Int /\ {0} \cup S # {} /\ {0} \cup S \subseteq 0 .. Len(os)
  OBVIOUS
<1>5. Max({0} \cup S) \in {0} \cup S
  BY <1>3, <1>4, MaxOf, ZenonT(30)
<1>6. QED
  BY <1>4, <1>5, Zenon DEF LastOf

(* The option loop of run() leaves every option with a value of its type.  *)
LEMMA ParseTyped ==
  ASSUME NEW os \in Seq(XOption), NEW p \in BOOLEAN
  PROVE  Parse(os, p) \in Effects
<1>1. \A f : LastOf(os, f) \in 0 .. Len(os)
  BY LastOfTyped, Zenon
<1>2. \A k \in 1 .. Len(os) : os[k] \in XOption
  OBVIOUS
<1>3. \A f : LastOf(os, f) > 0 => LastOf(os, f) \in 1 .. Len(os)
  BY <1>1
<1>4. \A f : LastOf(os, f) > 0 => os[LastOf(os, f)] \in XOption
  BY <1>2, <1>3, Zenon
<1>5. \A f : LastOf(os, f) > 0 => os[LastOf(os, f)].n \in Int
  BY <1>4, Zenon DEF XOption
<1>6. \A f, d : d \in Int =>
               (IF LastOf(os, f) > 0 THEN os[LastOf(os, f)].n ELSE d) \in Int
  BY <1>5, Zenon
<1> HIDE DEF LastOf
<1> DEFINE has(flag) == LastOf(os, {flag}) > 0
          arg(flag, default) == IF has(flag) THEN os[LastOf(os, {flag})].n ELSE default
          grouping == LastOf(os, {"-n", "-L", "-I"})
          by(flag) == grouping > 0 /\ os[grouping].flag = flag
<1>7. \A f : has(f) \in BOOLEAN /\ by(f) \in BOOLEAN
  OBVIOUS
<1>8. \A f, d : d \in Int => arg(f, d) \in Int
  BY <1>6, Zenon
<1> HIDE DEF has, arg, by
<1>9. Parse(os, p) =
        [null |-> has("-0"), noRunEmpty |-> has("-r"), interactive |-> has("-p"),
         eof |-> has("-E"), exactSize |-> has("-x") \/ has("-I"),
         maxProcs |-> arg("-P", Defaults.maxProcs),
         maxChars |-> arg("-s", Defaults.maxChars), strictSize |-> p /\ has("-s"),
         maxArgs |-> IF by("-n") THEN arg("-n", -1) ELSE Defaults.maxArgs,
         maxLines |-> IF by("-L") THEN arg("-L", 0) ELSE IF by("-I") THEN 1 ELSE 0,
         replaceSet |-> by("-I"),
         unknown |-> \E opt \in Range(os) : opt.flag \notin Flags]
  BY Zenon DEF Parse, has, arg, by
<1>10. /\ arg("-P", Defaults.maxProcs) \in Int /\ arg("-s", Defaults.maxChars) \in Int
       /\ (IF by("-n") THEN arg("-n", -1) ELSE Defaults.maxArgs) \in Int
       /\ (IF by("-L") THEN arg("-L", 0) ELSE IF by("-I") THEN 1 ELSE 0) \in Int
  BY <1>8 DEF Defaults
<1>11. QED
  BY <1>7, <1>9, <1>10, SMTT(30) DEF Effects

(* ... and so does the limit of -s, which leaves -P and -p alone.          *)
LEMMA LimitedTyped ==
  ASSUME NEW e \in Effects
  PROVE  /\ Limited(e) \in Effects
         /\ Limited(e).maxProcs = e.maxProcs /\ Limited(e).interactive = e.interactive
<1>1. Min({Supported, LineMax}) \in Int /\ Supported \in Int
  BY PlanAssumption DEF Min
<1>2. QED
  BY <1>1, Zenon DEF Limited, Effects

-----------------------------------------------------------------------------
(* Items *)

(* An item; under -I it also says whether its line ends in a blank.        *)
Item == [value : Seq(Words), line : Nat] \cup [value : Seq(Words), line : Nat, blank : BOOLEAN]

(* No item of b is of a line after line m.                                 *)
BoundedBy(b, m) == \A i \in DOMAIN b : b[i].line <= m

(* Items all of one line, after items of earlier lines or of that one.     *)
LEMMA ConcatOrdered ==
  ASSUME NEW S, NEW a \in Seq(S), NEW b \in Seq(S), NEW m \in Nat, NEW r \in Nat, m <= r,
         LineOrdered(a), BoundedBy(a, m), \A k \in 1 .. Len(b) : b[k].line = r
  PROVE  LineOrdered(a \o b) /\ BoundedBy(a \o b, r)
<1>1. PICK c : c = a \o b
  BY Zenon
<1>2. /\ Len(a) \in Nat /\ Len(b) \in Nat /\ DOMAIN c = 1 .. Len(a) + Len(b)
      /\ \A i \in 1 .. Len(a) + Len(b) : c[i] = IF i <= Len(a) THEN a[i] ELSE b[i - Len(a)]
  BY <1>1, SMTT(30)
<1>3. \A i \in 1 .. Len(a) : a[i].line \in Nat /\ a[i].line <= m
  BY SMTT(30) DEF LineOrdered, BoundedBy
<1>4. \A i, j \in 1 .. Len(a) : i <= j => a[i].line <= a[j].line
  BY SMTT(30) DEF LineOrdered
<1>5. \A i \in 1 .. Len(a) + Len(b) : i <= Len(a) => c[i] = a[i] /\ i \in 1 .. Len(a)
  BY <1>2
<1>6. \A i \in 1 .. Len(a) + Len(b) : ~(i <= Len(a)) => c[i].line = r
  <2> TAKE i \in 1 .. Len(a) + Len(b)
  <2>1. ~(i <= Len(a)) => i - Len(a) \in 1 .. Len(b)
    BY <1>2
  <2>2. QED
    BY <1>2, <2>1, Zenon
<1>7. \A i \in DOMAIN c : c[i].line \in Nat /\ c[i].line <= r
  <2> SUFFICES ASSUME NEW i \in DOMAIN c PROVE c[i].line \in Nat /\ c[i].line <= r
    BY Zenon
  <2>1. CASE i <= Len(a)
    BY <1>2, <1>3, <1>5, <2>1, SMTT(30)
  <2>2. CASE ~(i <= Len(a))
    BY <1>2, <1>6, <2>2, SMTT(30)
  <2>3. QED
    BY <2>1, <2>2, Zenon
<1>8. ASSUME NEW i \in DOMAIN c, NEW j \in DOMAIN c, i <= j PROVE c[i].line <= c[j].line
  <2>1. CASE j <= Len(a)
    <3>1. i <= Len(a)
      BY <1>2, <1>8, <2>1, SMTT(30)
    <3>2. QED
      BY <1>2, <1>4, <1>5, <1>8, <2>1, <3>1, Zenon
  <2>2. CASE ~(j <= Len(a))
    BY <1>2, <1>6, <1>7, <2>2, Zenon
  <2>3. QED
    BY <2>1, <2>2, Zenon
<1>9. LineOrdered(c) /\ BoundedBy(c, r)
  BY <1>7, <1>8, Zenon DEF LineOrdered, BoundedBy
<1>10. QED
  BY <1>1, <1>9, Zenon

(* The items of lines whose numbers never go down.                         *)
LEMMA JoinedOrdered ==
  ASSUME NEW S, NEW seqs \in Seq(Seq(S)), NEW num, \A i \in 1 .. Len(seqs) : num[i] \in Nat,
         \A i, j \in 1 .. Len(seqs) : i <= j => num[i] <= num[j],
         \A i \in 1 .. Len(seqs) : \A k \in 1 .. Len(seqs[i]) : seqs[i][k].line = num[i]
  PROVE  LineOrdered(Joined(seqs))
<1>1. CASE seqs = <<>>
  <2>1. Joined(seqs) = <<>>
    BY <1>1, Zenon DEF Joined
  <2>2. LineOrdered(<<>>)
    BY DEF LineOrdered
  <2>3. QED
    BY <2>1, <2>2, Zenon
<1>2. CASE seqs # <<>>
  <2> DEFINE n == Len(seqs)
  <2>1. n \in Nat /\ n \in 1 .. n /\ \A i \in 1 .. n : seqs[i] \in Seq(S)
    BY <1>2, SMTT(30)
  <2>2. PICK f : Runs(f, seqs, n) /\ Joined(seqs) = f[n]
    BY <1>2, JoinedRuns, Zenon
  <2>3. \A i \in 1 .. n : f[i] \in Seq(S)
    <3>1. f \in [1 .. n -> Seq(S)]
      BY <2>2, RunsTyped, SMTT(30)
    <3>2. QED
      BY <3>1, Zenon
  <2> HIDE DEF n
  <2> DEFINE P(k) == k \in 1 .. n => LineOrdered(f[k]) /\ BoundedBy(f[k], num[k])
             G == {k \in Nat : P(k)}
  <2>4. P(0)
    BY <2>1
  <2>5. ASSUME NEW k \in Nat, P(k) PROVE P(k + 1)
    <3> SUFFICES ASSUME k + 1 \in 1 .. n
                 PROVE  LineOrdered(f[k + 1]) /\ BoundedBy(f[k + 1], num[k + 1])
      BY Zenon
    <3>1. /\ num[k + 1] \in Nat /\ seqs[k + 1] \in Seq(S)
          /\ \A l \in 1 .. Len(seqs[k + 1]) : seqs[k + 1][l].line = num[k + 1]
      BY <2>1, Zenon DEF n
    <3>2. CASE k = 0
      <4>1. k + 1 = 1 /\ 1 \in 1 .. n
        BY <3>2
      <4>2. f[1] = seqs[1]
        BY <2>1, <2>2, <4>1, RunsFirst, ZenonT(30)
      <4>3. LineOrdered(seqs[k + 1]) /\ BoundedBy(seqs[k + 1], num[k + 1])
        <5>1. DOMAIN seqs[k + 1] = 1 .. Len(seqs[k + 1])
          BY <3>1, SMTT(30)
        <5>2. num[k + 1] <= num[k + 1]
          BY <3>1, SMTT(30)
        <5>3. QED
          BY <3>1, <5>1, <5>2, Zenon DEF LineOrdered, BoundedBy
      <4>4. QED
        BY <4>1, <4>2, <4>3, Zenon
    <3>3. CASE k # 0
      <4>1. k \in 1 .. n
        BY <2>1, <3>3, SMTT(30)
      <4>2. f[k + 1] = f[k] \o seqs[k + 1]
        BY <2>1, <2>2, <4>1, RunsNext, Zenon
      <4>3. f[k] \in Seq(S) /\ num[k] \in Nat /\ num[k] <= num[k + 1]
        BY <2>3, <4>1, SMTT(30) DEF n
      <4>4. LineOrdered(f[k]) /\ BoundedBy(f[k], num[k])
        BY <2>5, <4>1, Zenon
      <4>5. LineOrdered(f[k] \o seqs[k + 1]) /\ BoundedBy(f[k] \o seqs[k + 1], num[k + 1])
        BY <3>1, <4>3, <4>4, ConcatOrdered, Zenon
      <4>6. QED
        BY <4>2, <4>5, Zenon
    <3>4. QED
      BY <3>2, <3>3, Zenon
  <2>6. G = Nat
    <3>1. G \in SUBSET Nat
      BY Zenon
    <3>2. 0 \in G /\ \A k \in G : k + 1 \in G
      <4> HIDE DEF P
      <4>1. QED
        BY <2>4, <2>5, SMTT(30)
    <3> HIDE DEF G
    <3>3. QED
      BY <3>1, <3>2, SetInduction, Zenon
  <2>7. P(n)
    <3> HIDE DEF P
    <3>1. QED
      BY <2>1, <2>6, Zenon
  <2>8. QED
    BY <2>1, <2>2, <2>7, Zenon
<1>3. QED
  BY <1>1, <1>2, Zenon

(* computeLogicalLines numbers the lines upwards.                          *)
LEMMA LogicalMonotone ==
  ASSUME NEW lines \in Seq(InputLine)
  PROVE  /\ \A i \in 1 .. Len(lines) : LogicalLines(lines)[i] \in Nat
         /\ \A i, j \in 1 .. Len(lines) : i <= j => LogicalLines(lines)[i] <= LogicalLines(lines)[j]
<1> DEFINE firsts(i) == {k \in 1 .. i : IF lines[k].words = <<>> THEN k = 1 ELSE ~Continues(lines, k)}
<1>1. \A i \in 1 .. Len(lines) : LogicalLines(lines)[i] = Cardinality(firsts(i))
  BY SMTT(30) DEF LogicalLines
<1>2. \A i \in 1 .. Len(lines) : i \in Int /\ firsts(i) \in SUBSET (1 .. i)
  OBVIOUS
<1>3. \A i, j \in 1 .. Len(lines) : i <= j => firsts(i) \in SUBSET firsts(j)
  <2> SUFFICES ASSUME NEW i \in 1 .. Len(lines), NEW j \in 1 .. Len(lines), i <= j
               PROVE  firsts(i) \in SUBSET firsts(j)
    BY Zenon
  <2>1. \A k \in 1 .. i : k \in 1 .. j
    OBVIOUS
  <2>2. QED
    BY <2>1, Zenon
<1> HIDE DEF firsts
<1>4. \A i \in 1 .. Len(lines) : IsFiniteSet(firsts(i)) /\ Cardinality(firsts(i)) \in Nat
  <2> TAKE i \in 1 .. Len(lines)
  <2>1. IsFiniteSet(1 .. i)
    BY <1>2, FS_Interval, SMTT(30)
  <2>2. IsFiniteSet(firsts(i))
    BY <1>2, <2>1, FS_Subset, Zenon
  <2>3. QED
    BY <2>2, FS_CardinalityType, Zenon
<1>5. \A i, j \in 1 .. Len(lines) : i <= j => Cardinality(firsts(i)) <= Cardinality(firsts(j))
  BY <1>3, <1>4, FS_Subset, Zenon
<1>6. QED
  BY <1>1, <1>4, <1>5, Zenon

(* What readItems returns: items whose line numbers never go down.         *)
ItemList(items) == items \in Seq(Item) /\ LineOrdered(items)

(* The words of the lines, with physical or logical line numbers.          *)
LEMMA BlankItemsRight ==
  ASSUME NEW lines \in Seq(InputLine), NEW opt
  PROVE  ItemList(BlankItems(lines, opt))
<1> DEFINE number(i) == IF opt.maxLines > 0 THEN LogicalLines(lines)[i] ELSE i
           itemsOf(i) == [k \in DOMAIN lines[i].words |->
                            [value |-> <<lines[i].words[k]>>, line |-> number(i)]]
           n == Len(lines)
<1>1. PICK seqs : seqs = [i \in DOMAIN lines |-> itemsOf(i)]
  BY Zenon
<1>2. PICK num : num = [i \in 1 .. n |-> number(i)]
  BY Zenon
<1>3. n \in Nat /\ DOMAIN lines = 1 .. n
  OBVIOUS
<1>4. \A i \in 1 .. n : lines[i].words \in Seq(Words)
  <2>1. \A i \in 1 .. n : lines[i] \in InputLine
    OBVIOUS
  <2>2. QED
    BY <2>1, Zenon DEF InputLine
<1>5. \A i \in 1 .. n : number(i) \in Nat
  BY LogicalMonotone, SMTT(30)
<1>6. \A i, j \in 1 .. n : i <= j => number(i) <= number(j)
  BY LogicalMonotone, Zenon
<1>7. BlankItems(lines, opt) = Joined(seqs)
  BY <1>1, Zenon DEF BlankItems
<1> HIDE DEF number, n
<1>8. ASSUME NEW i \in 1 .. n
      PROVE  /\ itemsOf(i) \in Seq(Item)
             /\ \A k \in 1 .. Len(itemsOf(i)) : itemsOf(i)[k].line = number(i)
  <2>1. PICK w \in Seq(Words) : w = lines[i].words
    BY <1>4, Zenon
  <2>2. Len(w) \in Nat /\ DOMAIN w = 1 .. Len(w) /\ \A k \in 1 .. Len(w) : <<w[k]>> \in Seq(Words)
    OBVIOUS
  <2>3. PICK c : c = number(i) /\ c \in Nat
    BY <1>5, Zenon
  <2>4. \A k \in 1 .. Len(w) : [value |-> <<w[k]>>, line |-> c] \in Item
    BY <2>2, <2>3, Zenon DEF Item
  <2>5. itemsOf(i) = [k \in 1 .. Len(w) |-> [value |-> <<w[k]>>, line |-> c]]
    BY <2>1, <2>2, <2>3, Zenon
  <2> HIDE DEF itemsOf
  <2>6. itemsOf(i) \in [1 .. Len(w) -> Item]
    BY <2>4, <2>5, Zenon
  <2>7. itemsOf(i) \in Seq(Item) /\ Len(itemsOf(i)) = Len(w)
    BY <2>2, <2>6, SMTT(30)
  <2>8. \A k \in 1 .. Len(w) : itemsOf(i)[k].line = c
    BY <2>5, SMTT(30)
  <2>9. QED
    BY <2>3, <2>7, <2>8, Zenon
<1> HIDE DEF itemsOf
<1>9. seqs \in Seq(Seq(Item)) /\ Len(seqs) = n
  <2>1. seqs \in [1 .. n -> Seq(Item)]
    BY <1>1, <1>3, <1>8, Zenon
  <2>2. QED
    BY <1>3, <2>1, SMTT(30)
<1>10. Joined(seqs) \in Seq(Item)
  BY <1>9, JoinedTyped, Zenon
<1>11. LineOrdered(Joined(seqs))
  <2>1. \A i \in 1 .. Len(seqs) : num[i] \in Nat
    BY <1>2, <1>5, <1>9, Zenon
  <2>2. \A i, j \in 1 .. Len(seqs) : i <= j => num[i] <= num[j]
    BY <1>2, <1>6, <1>9, Zenon
  <2>3. \A i \in 1 .. Len(seqs) : \A k \in 1 .. Len(seqs[i]) : seqs[i][k].line = num[i]
    <3> TAKE i \in 1 .. Len(seqs)
    <3>1. i \in 1 .. n /\ seqs[i] = itemsOf(i) /\ num[i] = number(i)
      BY <1>1, <1>2, <1>3, <1>9, Zenon
    <3>2. QED
      BY <1>8, <3>1, Zenon
  <2>4. QED
    BY <1>9, <2>1, <2>2, <2>3, JoinedOrdered, Zenon
<1>12. QED
  BY <1>7, <1>10, <1>11, Zenon DEF ItemList

(* The words between NULs, each a line of its own.                         *)
LEMMA NullItemsRight ==
  ASSUME NEW lines \in Seq(InputLine)
  PROVE  ItemList(NullItems(lines))
<1>1. PICK seqs : seqs = [i \in DOMAIN lines |-> lines[i].words]
  BY Zenon
<1>2. seqs \in Seq(Seq(Words))
  <2>1. Len(lines) \in Nat /\ DOMAIN lines = 1 .. Len(lines)
    OBVIOUS
  <2>2. \A i \in 1 .. Len(lines) : lines[i].words \in Seq(Words)
    <3>1. \A i \in 1 .. Len(lines) : lines[i] \in InputLine
      OBVIOUS
    <3>2. QED
      BY <3>1, Zenon DEF InputLine
  <2>3. seqs \in [1 .. Len(lines) -> Seq(Words)]
    BY <1>1, <2>1, <2>2, Zenon
  <2>4. QED
    BY <2>1, <2>3, SMTT(30)
<1>3. PICK w \in Seq(Words) : w = Joined(seqs)
  BY <1>2, JoinedTyped, Zenon
<1>4. NullItems(lines) = [k \in DOMAIN w |-> [value |-> <<w[k]>>, line |-> k]]
  BY <1>1, <1>3, Zenon DEF NullItems
<1>5. Len(w) \in Nat /\ DOMAIN w = 1 .. Len(w) /\ \A k \in 1 .. Len(w) : <<w[k]>> \in Seq(Words)
  BY SMTT(30)
<1>6. \A k \in 1 .. Len(w) : k \in Nat /\ [value |-> <<w[k]>>, line |-> k] \in Item
  BY <1>5, SMTT(30) DEF Item
<1>7. PICK items : items = NullItems(lines)
  BY Zenon
<1>8. items \in [1 .. Len(w) -> Item] /\ \A k \in 1 .. Len(w) : items[k].line = k
  BY <1>4, <1>5, <1>6, <1>7, SMTT(30)
<1>9. items \in Seq(Item) /\ DOMAIN items = 1 .. Len(w)
  BY <1>5, <1>8, SMTT(30)
<1>10. LineOrdered(items)
  BY <1>6, <1>8, <1>9, Zenon DEF LineOrdered
<1>11. QED
  BY <1>7, <1>9, <1>10, Zenon DEF ItemList

(* The lines -I reads.                                                     *)
LEMMA LineItemsRight ==
  ASSUME NEW lines \in Seq(InputLine)
  PROVE  ItemList(LineItems(lines))
<1>1. Len(lines) \in Nat /\ DOMAIN lines = 1 .. Len(lines)
  OBVIOUS
<1>2. \A i \in 1 .. Len(lines) : i \in Nat /\ lines[i].words \in Seq(Words) /\ lines[i].blank \in BOOLEAN
  <2>1. \A i \in 1 .. Len(lines) : i \in Nat /\ lines[i] \in InputLine
    BY SMTT(30)
  <2>2. QED
    BY <2>1, Zenon DEF InputLine
<1>3. \A i \in 1 .. Len(lines) :
        [value |-> lines[i].words, line |-> i, blank |-> lines[i].blank] \in Item
  BY <1>2, Zenon DEF Item
<1>4. PICK items : items = LineItems(lines)
  BY Zenon
<1>5. items \in [1 .. Len(lines) -> Item] /\ \A k \in 1 .. Len(lines) : items[k].line = k
  BY <1>1, <1>3, <1>4, Zenon DEF LineItems
<1>6. items \in Seq(Item) /\ DOMAIN items = 1 .. Len(lines)
  BY <1>1, <1>5, SMTT(30)
<1>7. LineOrdered(items)
  BY <1>2, <1>5, <1>6, Zenon DEF LineOrdered
<1>8. QED
  BY <1>4, <1>6, <1>7, Zenon DEF ItemList

(* What is left of such a list before the EOF string.                      *)
LEMMA BeforeEofRight ==
  ASSUME NEW items, ItemList(items), NEW opt
  PROVE  ItemList(BeforeEof(items, opt))
<1> DEFINE ends == {k \in DOMAIN items : IsEof(items[k], opt)}
<1>1. items \in Seq(Item) /\ LineOrdered(items)
  BY Zenon DEF ItemList
<1>2. CASE ends = {}
  BY <1>2, Zenon DEF BeforeEof
<1>3. CASE ends # {}
  <2>1. ends \in SUBSET Nat /\ ends \in SUBSET (1 .. Len(items))
    BY <1>1, SMTT(30)
  <2>2. BeforeEof(items, opt) = SubSeq(items, 1, Min(ends) - 1)
    BY <1>3, Zenon DEF BeforeEof
  <2> HIDE DEF ends
  <2>3. PICK m : m = Min(ends) /\ m \in 1 .. Len(items)
    BY <1>3, <2>1, MinOf, Zenon
  <2>4. Len(items) \in Nat
    BY <1>1, SMTT(30)
  <2>5. SubSeq(items, 1, m - 1) \in Seq(Item)
    <3>1. 1 \in 1 .. Len(items) + 1 /\ m - 1 \in 1 - 1 .. Len(items)
      BY <2>3, <2>4, SMTT(30)
    <3>2. QED
      BY <1>1, <3>1, SubSeqFacts, Zenon
  <2>6. LineOrdered(SubSeq(items, 1, m - 1))
    <3>1. CASE m = 1
      <4>1. SubSeq(items, 1, m - 1) = <<>>
        BY <3>1, SubSeqEmpty, SMTT(30)
      <4>2. LineOrdered(<<>>)
        BY DEF LineOrdered
      <4>3. QED
        BY <4>1, <4>2, Zenon
    <3>2. CASE m # 1
      <4>1. 1 \in 1 .. Len(items) /\ m - 1 \in 1 .. Len(items)
        BY <2>3, <2>4, <3>2, SMTT(30)
      <4>2. QED
        BY <1>1, <4>1, SubSeqOrdered, Zenon
    <3>3. QED
      BY <3>1, <3>2, Zenon
  <2>7. QED
    BY <2>2, <2>3, <2>5, <2>6, Zenon DEF ItemList
<1>4. QED
  BY <1>2, <1>3, Zenon

(* readItems returns items whose line numbers never go down, for every     *)
(* input and every choice of options.                                      *)
LEMMA ReadItemsRight ==
  ASSUME NEW lines \in Seq(InputLine), NEW opt
  PROVE  ItemList(ReadItems(lines, opt))
BY BlankItemsRight, NullItemsRight, LineItemsRight, BeforeEofRight, Zenon DEF ReadItems

-----------------------------------------------------------------------------
(* The plan *)

(* -I: one batch for each line is a packing.                               *)
LEMMA ReplacePlanRight ==
  ASSUME NEW items \in Seq(Item), NEW opt \in Effects, opt.replaceSet
  PROVE  /\ ReplacePlan(items, opt).batches \in Seq(Seq(Item))
         /\ ~ReplacePlan(items, opt).error =>
              IsPacking(ReplacePlan(items, opt).batches, items, opt)
<1>1. PICK bs : bs = [k \in DOMAIN items |-> <<items[k]>>]
  BY Zenon
<1>2. ReplacePlan(items, opt) = Failed \/ ReplacePlan(items, opt) = Planned(bs)
  BY <1>1, Zenon DEF ReplacePlan
<1>3. /\ Len(items) \in Nat /\ DOMAIN items = 1 .. Len(items)
      /\ \A k \in 1 .. Len(items) : <<items[k]>> \in Seq(Item)
  OBVIOUS
<1>4. bs \in [1 .. Len(items) -> Seq(Item)]
  BY <1>1, <1>3, Zenon
<1>5. bs \in Seq(Seq(Item))
  BY <1>3, <1>4, SMTT(30)
<1>6. Failed.error /\ Failed.batches \in Seq(Seq(Item)) /\ Planned(bs).batches = bs
  BY DEF Failed, Planned
<1>7. Joined(bs) = items
  BY <1>1, JoinedSingles, Zenon
<1>8. ASSUME NEW k \in DOMAIN bs PROVE WithinLimits(bs[k], opt)
  <2>1. PICK it : bs[k] = <<it>>
    BY <1>1, Zenon
  <2>2. Range(<<it>>) = {it} /\ Len(<<it>>) = 1
    BY DEF Range
  <2>3. {x.line : x \in {it}} = {it.line}
    BY Zenon
  <2>4. Cardinality({it.line}) = 1
    BY FS_Singleton, Zenon
  <2>5. opt.maxArgs \in Int /\ opt.maxLines \in Int
    BY Zenon DEF Effects
  <2>6. (opt.maxArgs > 0 => 1 <= opt.maxArgs) /\ (opt.maxLines > 0 => 1 <= opt.maxLines)
    BY <2>5, SMTT(30)
  <2>7. QED
    BY <2>1, <2>2, <2>3, <2>4, <2>6, ZenonT(30) DEF WithinLimits
<1>9. IsPacking(bs, items, opt)
  BY <1>7, <1>8, Zenon DEF IsPacking
<1>10. QED
  BY <1>2, <1>5, <1>6, <1>9, Zenon

(* plan(): for every list of items and every choice of options, a plan     *)
(* without an error that runs anything is a packing of the items, and no   *)
(* items at all are one invocation without any.                            *)
THEOREM PlanRight ==
  ASSUME NEW items, ItemList(items), NEW opt \in Effects
  PROVE  /\ Plan(items, opt).batches \in Seq(Seq(Item))
         /\ ~Plan(items, opt).error /\ Plan(items, opt).batches # <<>> =>
              IF items = <<>> THEN Plan(items, opt).batches = <<<<>>>>
              ELSE IsPacking(Plan(items, opt).batches, items, opt)
<1>1. items \in Seq(Item) /\ LineOrdered(items)
  BY Zenon DEF ItemList
<1>2. /\ Failed.error /\ Failed.batches = <<>>
      /\ \A b : Planned(b).batches = b
      /\ <<>> \in Seq(Seq(Item)) /\ <<<<>>>> \in Seq(Seq(Item))
  BY DEF Failed, Planned
<1>3. opt.maxArgs \in Int /\ opt.maxLines \in Int
  BY Zenon DEF Effects
<1>4. CASE opt.replaceSet
  <2>1. Plan(items, opt) = ReplacePlan(items, opt)
    BY <1>4, Zenon DEF Plan
  <2>2. items = <<>> => ReplacePlan(items, opt).batches = <<>>
    BY <1>2, SMTT(30) DEF ReplacePlan
  <2>3. QED
    BY <1>1, <1>4, <2>1, <2>2, ReplacePlanRight, Zenon
<1>5. CASE ~opt.replaceSet /\ (items = <<>> \/ TooLarge(BaseSize, opt))
  <2>1. Plan(items, opt) \in {Planned(<<>>), Failed, Planned(<<<<>>>>)}
    BY <1>5, Zenon DEF Plan
  <2>2. Plan(items, opt) = Planned(<<<<>>>>) => items = <<>>
    BY <1>2, <1>5, Zenon DEF Plan, Planned, Failed
  <2>3. QED
    BY <1>2, <2>1, <2>2, Zenon
<1>6. CASE ~opt.replaceSet /\ items # <<>> /\ ~TooLarge(BaseSize, opt)
  <2>1. Plan(items, opt) = PackPlan(items, opt)
    BY <1>6, Zenon DEF Plan
  <2>2. PackPlan(items, opt) \in [error : BOOLEAN, batches : Seq(Seq(Item))]
    BY <1>1, PackPlanTyped, Zenon
  <2>3. ~PackPlan(items, opt).error => IsPacking(PackPlan(items, opt).batches, items, opt)
    BY <1>1, <1>3, <1>6, PackPlanRight, Zenon
  <2>4. QED
    BY <1>6, <2>1, <2>2, <2>3, Zenon
<1>7. QED
  BY <1>4, <1>5, <1>6, Zenon

(* What XargsAssumption says of the options and of the batches of a case   *)
(* is no restriction: it holds of every input and of every options that    *)
(* can be used, so -P is a number and every batch of the plan has one.     *)
THEOREM CaseTyped ==
  ASSUME NEW lines \in Seq(InputLine), NEW os \in Seq(XOption), NEW p \in BOOLEAN,
         Usable(os, Parse(os, p))
  PROVE  LET parsed == Parse(os, p)
             planned == PlanFor(lines, parsed).batches
         IN  /\ Limited(parsed).interactive \in BOOLEAN
             /\ Limited(parsed).maxProcs \in Nat
             /\ planned \in Seq(Range(planned))
<1> DEFINE parsed == Parse(os, p)
           planned == PlanFor(lines, parsed).batches
<1>1. parsed \in Effects /\ Limited(parsed) \in Effects
  BY ParseTyped, LimitedTyped, Zenon
<1>2. Limited(parsed).maxProcs = parsed.maxProcs /\ parsed.maxProcs >= 0
  BY <1>1, LimitedTyped, Zenon DEF Usable
<1>3. Limited(parsed).interactive \in BOOLEAN /\ Limited(parsed).maxProcs \in Nat
  <2> HIDE DEF parsed
  <2>1. QED
    BY <1>1, <1>2, SMTT(30) DEF Effects
<1>4. planned \in Seq(Seq(Item))
  <2>1. ItemList(ReadItems(lines, Limited(parsed)))
    BY ReadItemsRight, Zenon
  <2>2. QED
    BY <1>1, <2>1, PlanRight, Zenon DEF PlanFor
<1>5. planned \in Seq(Range(planned))
  <2> HIDE DEF planned
  <2>1. QED
    BY <1>4, SMTT(30) DEF Range
<1>6. QED
  BY <1>3, <1>5, Zenon

-----------------------------------------------------------------------------
(* The plan that is run *)

(* What is run is what plan() made of the input of some case.              *)
PlanInv ==
  /\ \E c \in Cases : input = c.input /\ opts = c.opts /\ posix = c.posix
  /\ xpc \notin {"run", "exit"} =>
       LET parsed == Parse(opts, posix)
       IN  /\ o = Limited(parsed)
           /\ batches = PlanFor(input, parsed).batches /\ batches # <<>>
           /\ ~PlanFor(input, parsed).error

(* Before the plan nothing is planned.                                     *)
LEMMA PlanInit == Init => PlanInv
BY Zenon DEF Init, PlanInv

(* Nothing but run() plans, and the input never changes.                   *)
LEMMA PlanStep == PlanInv /\ [Next]_vars => PlanInv'
<1> SUFFICES ASSUME PlanInv, [Next]_vars PROVE PlanInv'
  BY Zenon
<1>1. CASE XPlan
  <2>1. /\ UNCHANGED <<input, opts, posix>>
        /\ o' = Limited(Parse(opts, posix))
        /\ batches' = PlanFor(input, Parse(opts, posix)).batches
        /\ ~PlanFor(input, Parse(opts, posix)).error
        /\ xpc' = "exit" \/ batches' # <<>>
    BY <1>1, Zenon DEF XPlan, Exit
  <2>2. QED
    BY <2>1, Zenon DEF PlanInv
<1>2. CASE XRefuse
  BY <1>2, Zenon DEF XRefuse, Exit, PlanInv, given
<1>3. ASSUME UNCHANGED <<input, opts, posix, o, batches>>,
             xpc \in {"run", "exit"} => UNCHANGED xpc
      PROVE  PlanInv'
  BY <1>3, Zenon DEF PlanInv
<1>4. CASE UNCHANGED vars
  BY <1>4, <1>3, Zenon DEF vars, xvars
<1>5. ASSUME NEW j \in Jobs, Worker(j) PROVE PlanInv'
  <2>1. UNCHANGED <<given, batches, xpc>>
    BY <1>5, Zenon DEF Worker, WDecline, WCannotRun, WStart, WWait, WNote, WCheck, WLock,
         WOut, WErr, WNoteWriteError
  <2>2. QED
    BY <1>3, <2>1, Zenon DEF given
<1>6. ASSUME NEW j \in Jobs, Child(j) PROVE PlanInv'
  BY <1>6, <1>3, Zenon DEF Child, xvars
<1>7. CASE SeqNext \/ SeqRan \/ DispatchTop \/ Dispatch \/ DispatchWait
  <2>1. UNCHANGED <<given, batches>> /\ xpc \notin {"run", "exit"}
    BY <1>7, Zenon DEF SeqNext, SeqRan, DispatchTop, Dispatch, DispatchWait
  <2>2. QED
    BY <1>3, <2>1, Zenon DEF given
<1>8. QED
  BY <1>1, <1>2, <1>4, <1>5, <1>6, <1>7, Zenon DEF Next, Loop

(* plan: what the first batch is taken from is a packing of the items,     *)
(* for every input and every choice of options.                            *)
THEOREM PlanIsPackingHolds == Spec => []PlanIsPacking
<1>1. PlanInv => PlanIsPacking
  <2> SUFFICES ASSUME PlanInv, xpc \in {"seq", "top"}
               PROVE  IF ReadItems(input, o) = <<>> THEN batches = <<<<>>>>
                      ELSE IsPacking(batches, ReadItems(input, o), o)
    BY Zenon DEF PlanIsPacking
  <2> DEFINE parsed == Parse(opts, posix)
             items == ReadItems(input, o)
  <2>1. input \in Seq(InputLine) /\ opts \in Seq(XOption) /\ posix \in BOOLEAN
    BY XargsAssumption, Zenon DEF PlanInv
  <2>2. parsed \in Effects
    BY <2>1, ParseTyped, Zenon
  <2>3. /\ o = Limited(parsed) /\ batches = PlanFor(input, parsed).batches
        /\ batches # <<>> /\ ~PlanFor(input, parsed).error
    BY Zenon DEF PlanInv
  <2> HIDE DEF parsed
  <2>4. o \in Effects /\ ItemList(items)
    BY <2>1, <2>2, <2>3, LimitedTyped, ReadItemsRight, Zenon
  <2>5. PlanFor(input, parsed) = Plan(items, o)
    BY <2>3, Zenon DEF PlanFor
  <2> HIDE DEF items
  <2>6. IF items = <<>> THEN batches = <<<<>>>> ELSE IsPacking(batches, items, o)
    BY <2>3, <2>4, <2>5, PlanRight, Zenon
  <2>7. QED
    BY <2>6, Zenon DEF items
<1>2. QED
  BY <1>1, PlanInit, PlanStep, PTL DEF Spec
=============================================================================
