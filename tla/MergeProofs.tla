----------------------------- MODULE MergeProofs -----------------------------
(***************************************************************************)
(* Theorems about Merge: whatever is merged into what, undone in whatever  *)
(* order and written meanwhile, the tables keep their types, an annotation *)
(* is on its book, nothing the reader left is lost, the newest merge of a  *)
(* book can be undone, and when all are undone and nothing was written     *)
(* since, the books are what they were.                                    *)
(***************************************************************************)
EXTENDS Merge, NumberFacts, FiniteSetTheorems, SequenceTheorems, TLAPS

-----------------------------------------------------------------------------
(* Sums over finite sets.                                                  *)

(* One step of the sum: g is right about S when it is right about S but    *)
(* for one member.                                                         *)
AddUp(counts, g, S) ==
    IF S = {} THEN 0
    ELSE LET x == CHOOSE y \in S : TRUE IN counts[x] + g[S \ {x}]

(* A set but for one of its members is smaller by one.                     *)
LEMMA OneLess ==
    ASSUME NEW S, IsFiniteSet(S), NEW x \in S
    PROVE  /\ IsFiniteSet(S \ {x}) /\ Cardinality(S \ {x}) \in Nat
           /\ Cardinality(S) \in Nat \ {0}
           /\ Cardinality(S \ {x}) = Cardinality(S) - 1
  <1>1. IsFiniteSet(S \ {x}) /\ Cardinality(S \ {x}) = Cardinality(S) - 1
    BY FS_RemoveElement
  <1>2. Cardinality(S) \in Nat /\ Cardinality(S \ {x}) \in Nat
    BY <1>1, FS_CardinalityType
  <1> QED BY <1>1, <1>2

(* The sum of total is well defined: some function adds up every subset of *)
(* a finite set.                                                           *)
LEMMA SumExists ==
    ASSUME NEW D, IsFiniteSet(D), NEW f, \A x \in D : f[x] \in Nat
    PROVE  \E g \in [SUBSET D -> Nat] : \A S \in SUBSET D : g[S] = AddUp(f, g, S)
  <1> DEFINE Small(n) == {S \in SUBSET D : Cardinality(S) <= n}
             Good(n) == \E g \in [SUBSET D -> Nat] :
                            \A S \in Small(n) : g[S] = AddUp(f, g, S)
             Bad == {n \in Nat : ~Good(n)}
  <1>1. \A S \in SUBSET D : IsFiniteSet(S) /\ Cardinality(S) \in Nat
    BY FS_Subset, FS_CardinalityType
  <1>2. Good(0)
    <2> DEFINE g == [S \in SUBSET D |-> 0]
    <2>1. g \in [SUBSET D -> Nat]
      OBVIOUS
    <2>2. \A S \in Small(0) : S = {}
      BY <1>1, FS_EmptySet
    <2>3. \A S \in Small(0) : g[S] = AddUp(f, g, S)
      BY <2>2 DEF AddUp
    <2> QED BY <2>1, <2>3
  <1>3. ASSUME NEW n \in Nat, Good(n)
        PROVE  Good(n + 1)
    <2>1. PICK g \in [SUBSET D -> Nat] : \A S \in Small(n) : g[S] = AddUp(f, g, S)
      BY <1>3
    <2> DEFINE h == [S \in SUBSET D |-> AddUp(f, g, S)]
               pick(S) == CHOOSE y \in S : TRUE
    <2>2. \A S \in SUBSET D : S # {} =>
              /\ pick(S) \in S /\ S \ {pick(S)} \in SUBSET D
              /\ f[pick(S)] \in Nat /\ g[S \ {pick(S)}] \in Nat
              /\ AddUp(f, g, S) = f[pick(S)] + g[S \ {pick(S)}]
              /\ AddUp(f, h, S) = f[pick(S)] + h[S \ {pick(S)}]
      BY DEF AddUp
    <2>3. AddUp(f, g, {}) = 0 /\ AddUp(f, h, {}) = 0
      BY DEF AddUp
    <2>4. \A S \in SUBSET D : AddUp(f, g, S) \in Nat
      <3> TAKE S \in SUBSET D
      <3>1. CASE S = {}
        BY <2>3, <3>1
      <3>2. CASE S # {}
        <4> HIDE DEF pick
        <4>1. /\ AddUp(f, g, S) = f[pick(S)] + g[S \ {pick(S)}]
              /\ f[pick(S)] \in Nat /\ g[S \ {pick(S)}] \in Nat
          BY <2>2, <3>2
        <4> QED BY <4>1
      <3> QED BY <3>1, <3>2
    <2>5. h \in [SUBSET D -> Nat]
      BY <2>4
    <2>6. \A S \in Small(n) : h[S] = g[S]
      BY <2>1
    <2>7. ASSUME NEW S \in Small(n + 1), S # {}
          PROVE  h[S] = AddUp(f, h, S)
      <3>1. S \ {pick(S)} \in Small(n)
        <4> HIDE DEF pick
        <4>1. pick(S) \in S /\ S \in SUBSET D /\ IsFiniteSet(S)
          BY <1>1, <2>2, <2>7
        <4>2. Cardinality(S \ {pick(S)}) = Cardinality(S) - 1
          BY <4>1, OneLess
        <4>3. Cardinality(S) \in Nat /\ Cardinality(S) <= n + 1
          BY <1>1
        <4> QED BY <4>1, <4>2, <4>3
      <3>2. h[S \ {pick(S)}] = g[S \ {pick(S)}]
        BY <2>6, <3>1
      <3>3. h[S] = AddUp(f, g, S)
        OBVIOUS
      <3> HIDE DEF h, pick
      <3> QED BY <2>2, <2>7, <3>2, <3>3
    <2>8. \A S \in Small(n + 1) : h[S] = AddUp(f, h, S)
      <3> HIDE DEF pick
      <3>1. h[{}] = 0
        BY <2>3
      <3> HIDE DEF h
      <3> QED BY <2>3, <2>7, <3>1
    <2> QED BY <2>5, <2>8
  <1>4. Bad = {}
    <2> SUFFICES ASSUME Bad # {} PROVE FALSE
      OBVIOUS
    <2> HIDE DEF Good
    <2>1. PICK n \in Bad : \A m \in Bad : n <= m
      BY LeastNatural
    <2>2. n # 0
      BY <1>2, <2>1
    <2>3. n - 1 \in Nat /\ n - 1 \notin Bad
      BY <2>1, <2>2
    <2>4. Good((n - 1) + 1)
      BY <1>3, <2>3
    <2>5. (n - 1) + 1 = n
      BY <2>1
    <2> QED BY <2>1, <2>4, <2>5
  <1>5. Cardinality(D) \in Nat
    BY <1>1
  <1>6. Good(Cardinality(D))
    <2> HIDE DEF Good
    <2> QED BY <1>4, <1>5
  <1>7. \A S \in SUBSET D : S \in Small(Cardinality(D))
    BY FS_Subset
  <1> QED BY <1>6, <1>7

(* Two functions that add up what is the same on a set agree on it.        *)
LEMMA SumIsUnique ==
    ASSUME NEW D, IsFiniteSet(D), NEW f, NEW e, \A x \in D : f[x] = e[x],
           NEW g, NEW h,
           \A S \in SUBSET D : g[S] = AddUp(f, g, S) /\ h[S] = AddUp(e, h, S)
    PROVE  \A S \in SUBSET D : g[S] = h[S]
  <1> DEFINE Bad == {n \in Nat : \E S \in SUBSET D :
                         Cardinality(S) = n /\ g[S] # h[S]}
  <1>1. \A S \in SUBSET D : IsFiniteSet(S) /\ Cardinality(S) \in Nat
    BY FS_Subset, FS_CardinalityType
  <1>2. Bad = {}
    <2> SUFFICES ASSUME Bad # {} PROVE FALSE
      OBVIOUS
    <2>1. PICK n \in Bad : \A m \in Bad : n <= m
      BY LeastNatural
    <2>2. PICK S \in SUBSET D : Cardinality(S) = n /\ g[S] # h[S]
      BY <2>1
    <2>3. g[S] = AddUp(f, g, S) /\ h[S] = AddUp(e, h, S)
      OBVIOUS
    <2>4. S # {}
      BY <2>2, <2>3 DEF AddUp
    <2>5. PICK x \in S : /\ g[S] = f[x] + g[S \ {x}]
                         /\ h[S] = e[x] + h[S \ {x}]
      <3> DEFINE x == CHOOSE y \in S : TRUE
      <3>1. x \in S
        BY <2>4
      <3>2. g[S] = f[x] + g[S \ {x}] /\ h[S] = e[x] + h[S \ {x}]
        BY <2>3, <2>4 DEF AddUp
      <3> QED BY <3>1, <3>2
    <2>6. S \ {x} \in SUBSET D /\ f[x] = e[x]
      OBVIOUS
    <2>7. Cardinality(S \ {x}) = n - 1 /\ Cardinality(S \ {x}) \in Nat
      BY <1>1, <2>2, OneLess
    <2>8. n \in Nat /\ n - 1 \in Nat /\ n - 1 \notin Bad
      BY <2>1, <2>7
    <2>9. g[S \ {x}] = h[S \ {x}]
      BY <2>6, <2>7, <2>8
    <2> QED BY <2>2, <2>5, <2>6, <2>9
  <1> QED BY <1>1, <1>2

(* The function of total does what its definition says.                    *)
LEMMA SumIsThere ==
    ASSUME NEW D, IsFiniteSet(D), NEW f, \A x \in D : f[x] \in Nat
    PROVE  \E g \in [SUBSET D -> Nat] :
              /\ \A S \in SUBSET D : g[S] = AddUp(f, g, S)
              /\ total(f, D) = g[D]
  <1> DEFINE Sums(g) == [S \in SUBSET D |-> AddUp(f, g, S)]
             sum == CHOOSE g : g = Sums(g)
  <1>1. PICK g \in [SUBSET D -> Nat] : \A S \in SUBSET D : g[S] = AddUp(f, g, S)
    BY SumExists
  <1>2. g = Sums(g)
    BY <1>1
  <1>3. sum = Sums(sum)
    BY <1>2
  <1>4. total(f, D) = sum[D]
    BY DEF total, AddUp
  <1> HIDE DEF sum
  <1>5. \A S \in SUBSET D : sum[S] = AddUp(f, sum, S)
    BY <1>3
  <1>6. \A S \in SUBSET D : sum[S] = g[S]
    BY <1>1, <1>5, SumIsUnique
  <1> QED BY <1>1, <1>4, <1>6

(* The totals of what is the same on a set are the same.                   *)
LEMMA TotalSame ==
    ASSUME NEW D, IsFiniteSet(D), NEW f, NEW e,
           \A x \in D : f[x] \in Nat /\ f[x] = e[x]
    PROVE  total(f, D) = total(e, D)
  <1>1. PICK g \in [SUBSET D -> Nat] :
            (\A S \in SUBSET D : g[S] = AddUp(f, g, S)) /\ total(f, D) = g[D]
    BY SumIsThere
  <1>2. PICK h \in [SUBSET D -> Nat] :
            (\A S \in SUBSET D : h[S] = AddUp(e, h, S)) /\ total(e, D) = h[D]
    BY SumIsThere
  <1>3. \A S \in SUBSET D : g[S] = h[S]
    BY <1>1, <1>2, SumIsUnique
  <1> QED BY <1>1, <1>2, <1>3

(* What total comes to: nothing over the empty set, and over any other the *)
(* count of any member and the total of the rest, whichever member it is.  *)
LEMMA TotalOf ==
    ASSUME NEW D, IsFiniteSet(D), NEW f, \A x \in D : f[x] \in Nat
    PROVE  /\ total(f, D) \in Nat
           /\ D = {} => total(f, D) = 0
           /\ \A x \in D : total(f, D) = f[x] + total(f, D \ {x})
  <1>1. PICK g \in [SUBSET D -> Nat] :
            (\A S \in SUBSET D : g[S] = AddUp(f, g, S)) /\ total(f, D) = g[D]
    BY SumIsThere
  <1>2. ASSUME NEW S \in SUBSET D
        PROVE  total(f, S) = g[S]
    <2>1. IsFiniteSet(S) /\ \A x \in S : f[x] \in Nat
      BY FS_Subset
    <2>2. PICK h \in [SUBSET S -> Nat] :
              (\A R \in SUBSET S : h[R] = AddUp(f, h, R)) /\ total(f, S) = h[S]
      BY <2>1, SumIsThere
    <2>3. \A R \in SUBSET S : g[R] = AddUp(f, g, R) /\ h[R] = AddUp(f, h, R)
      BY <1>1, <2>2
    <2>4. \A R \in SUBSET S : g[R] = h[R]
      BY <2>1, <2>3, SumIsUnique
    <2> QED BY <2>2, <2>4
  <1> DEFINE Bad == {n \in Nat : \E S \in SUBSET D : /\ Cardinality(S) = n
                         /\ \E x \in S : g[S] # f[x] + g[S \ {x}]}
  <1>3. \A S \in SUBSET D : IsFiniteSet(S) /\ Cardinality(S) \in Nat
    BY FS_Subset, FS_CardinalityType
  <1>4. Bad = {}
    <2> SUFFICES ASSUME Bad # {} PROVE FALSE
      OBVIOUS
    <2>1. PICK n \in Bad : \A m \in Bad : n <= m
      BY LeastNatural
    <2>2. PICK S \in SUBSET D :
              Cardinality(S) = n /\ \E x \in S : g[S] # f[x] + g[S \ {x}]
      BY <2>1
    <2>10. PICK x \in S : g[S] # f[x] + g[S \ {x}]
      BY <2>2
    <2>3. PICK y \in S : g[S] = f[y] + g[S \ {y}]
      BY <1>1 DEF AddUp
    <2>4. y # x /\ x \in S \ {y} /\ y \in S \ {x}
      BY <2>3, <2>10
    <2>5. Cardinality(S \ {x}) = n - 1 /\ Cardinality(S \ {y}) = n - 1
      BY <1>3, <2>2, OneLess
    <2>6. n - 1 \in Nat /\ n - 1 \notin Bad
      <3>1. n \in Nat /\ n - 1 \in Nat
        BY <1>3, <2>1, <2>5
      <3> QED BY <2>1, <3>1
    <2>7. /\ g[S \ {x}] = f[y] + g[(S \ {x}) \ {y}]
          /\ g[S \ {y}] = f[x] + g[(S \ {y}) \ {x}]
      BY <2>4, <2>5, <2>6
    <2>8. (S \ {x}) \ {y} = (S \ {y}) \ {x}
      OBVIOUS
    <2>9. /\ f[x] \in Nat /\ f[y] \in Nat
          /\ g[(S \ {y}) \ {x}] \in Nat
      OBVIOUS
    <2>11. g[S] = f[x] + g[S \ {x}]
      <3> DEFINE r == g[(S \ {y}) \ {x}]
                 a == f[x]
                 b == f[y]
                 gy == g[S \ {y}]
                 gx == g[S \ {x}]
      <3>1. gx = b + r /\ gy = a + r
        BY <2>7, <2>8
      <3>2. g[S] = b + gy /\ {a, b, r} \subseteq Nat
        BY <2>3, <2>9
      <3> HIDE DEF r, a, b, gx, gy
      <3>3. g[S] = a + gx
        BY <3>1, <3>2
      <3> QED BY <3>3 DEF a, gx
    <2> QED BY <2>10, <2>11
  <1>5. \A x \in D : g[D] = f[x] + g[D \ {x}]
    BY <1>3, <1>4
  <1>6. D = {} => g[D] = 0
    BY <1>1 DEF AddUp
  <1> QED BY <1>1, <1>2, <1>5, <1>6

(* One count that changes changes the total by as much.                    *)
LEMMA TotalChange ==
    ASSUME NEW D, IsFiniteSet(D), NEW f, NEW e, NEW x \in D, e[x] \in Nat,
           \A y \in D : f[y] \in Nat, \A y \in D \ {x} : e[y] = f[y]
    PROVE  total(e, D) = total(f, D) - f[x] + e[x]
  <1>1. IsFiniteSet(D \ {x})
    BY FS_Subset
  <1>2. total(e, D \ {x}) = total(f, D \ {x}) /\ total(f, D \ {x}) \in Nat
    BY <1>1, TotalSame, TotalOf
  <1>3. total(e, D) = e[x] + total(e, D \ {x})
    BY TotalOf
  <1>4. total(f, D) = f[x] + total(f, D \ {x})
    BY TotalOf
  <1>5. f[x] \in Nat
    OBVIOUS
  <1> QED BY <1>2, <1>3, <1>4, <1>5

(* Nothing adds up to nothing, and a total is no less than each count.     *)
LEMMA TotalBounds ==
    ASSUME NEW D, IsFiniteSet(D), NEW f, \A x \in D : f[x] \in Nat
    PROVE  /\ \A x \in D : f[x] <= total(f, D)
           /\ (\A x \in D : f[x] = 0) => total(f, D) = 0
  <1>1. ASSUME NEW x \in D PROVE f[x] <= total(f, D)
    <2>1. IsFiniteSet(D \ {x})
      BY FS_Subset
    <2>2. total(f, D \ {x}) \in Nat
      BY <2>1, TotalOf
    <2>3. total(f, D) = f[x] + total(f, D \ {x}) /\ f[x] \in Nat
      BY TotalOf
    <2> QED BY <2>2, <2>3
  <1>2. ASSUME \A x \in D : f[x] = 0 PROVE total(f, D) = 0
    <2>1. PICK g \in [SUBSET D -> Nat] :
              (\A S \in SUBSET D : g[S] = AddUp(f, g, S)) /\ total(f, D) = g[D]
      BY SumIsThere
    <2> DEFINE zero == [S \in SUBSET D |-> 0]
    <2>2. \A S \in SUBSET D : zero[S] = AddUp(f, zero, S)
      <3> TAKE S \in SUBSET D
      <3>1. CASE S = {}
        BY <3>1 DEF AddUp
      <3>2. CASE S # {}
        <4> DEFINE x == CHOOSE y \in S : TRUE
        <4>1. x \in S /\ AddUp(f, zero, S) = f[x] + zero[S \ {x}]
          BY <3>2 DEF AddUp
        <4>2. f[x] = 0 /\ zero[S \ {x}] = 0
          BY <1>2, <4>1
        <4> QED BY <4>1, <4>2
      <3> QED BY <3>1, <3>2
    <2>3. zero[D] = g[D]
      <3> HIDE DEF zero
      <3> QED BY <2>1, <2>2, SumIsUnique
    <2> QED BY <2>1, <2>3
  <1> QED BY <1>1, <1>2

-----------------------------------------------------------------------------
(* Names without some of them.                                             *)

(* One step of without: the names up to the i-th from those before it.     *)
Filter(names, drop, g, i) ==
    IF i = 0 THEN <<>>
    ELSE IF names[i] \in drop THEN g[i - 1]
    ELSE Append(g[i - 1], names[i])

(* A name put at the end is among the names.                               *)
LEMMA RangeAppend ==
    ASSUME NEW S, NEW a \in Seq(S), NEW x \in S
    PROVE  Range(Append(a, x)) = Range(a) \cup {x}
  <1>1. /\ Len(a) \in Nat /\ DOMAIN a = 1 .. Len(a)
        /\ DOMAIN Append(a, x) = (1 .. Len(a)) \cup {Len(a) + 1}
        /\ \A j \in 1 .. Len(a) : Append(a, x)[j] = a[j]
        /\ Append(a, x)[Len(a) + 1] = x
    OBVIOUS
  <1> QED BY <1>1 DEF Range

(* The function of without is well defined: some function filters every    *)
(* beginning of the names.                                                 *)
LEMMA FilterExists ==
    ASSUME NEW L \in Nat, NEW names, NEW drop
    PROVE  \E g : g = [i \in 0 .. L |-> Filter(names, drop, g, i)]
  <1> DEFINE Good(n) == \E g : \A i \in 0 .. n : g[i] = Filter(names, drop, g, i)
             Bad == {n \in Nat : ~Good(n)}
  <1>1. Good(0)
    <2> DEFINE g == [i \in Nat |-> <<>>]
    <2>1. \A i \in 0 .. 0 : g[i] = Filter(names, drop, g, i)
      BY DEF Filter
    <2> QED BY <2>1
  <1>2. ASSUME NEW n \in Nat, Good(n)
        PROVE  Good(n + 1)
    <2>1. PICK g : \A i \in 0 .. n : g[i] = Filter(names, drop, g, i)
      BY <1>2
    <2> DEFINE h == [i \in 0 .. n + 1 |-> Filter(names, drop, g, i)]
    <2>2. \A i \in 0 .. n : h[i] = g[i]
      BY <2>1
    <2>3. ASSUME NEW i \in 0 .. n + 1
          PROVE  h[i] = Filter(names, drop, h, i)
      <3>1. h[i] = Filter(names, drop, g, i)
        OBVIOUS
      <3>2. i # 0 => i - 1 \in 0 .. n
        OBVIOUS
      <3>3. i # 0 => h[i - 1] = g[i - 1]
        <4> HIDE DEF h
        <4> QED BY <2>2, <3>2
      <3> HIDE DEF h
      <3> QED BY <3>1, <3>3 DEF Filter
    <2> HIDE DEF h
    <2> QED BY <2>3
  <1>3. Bad = {}
    <2> SUFFICES ASSUME Bad # {} PROVE FALSE
      OBVIOUS
    <2> HIDE DEF Good
    <2>1. PICK n \in Bad : \A m \in Bad : n <= m
      BY LeastNatural
    <2>2. n # 0
      BY <1>1, <2>1
    <2>3. n - 1 \in Nat /\ n - 1 \notin Bad
      BY <2>1, <2>2
    <2>4. Good((n - 1) + 1)
      BY <1>2, <2>3
    <2>5. (n - 1) + 1 = n
      BY <2>1
    <2> QED BY <2>1, <2>4, <2>5
  <1>4. Good(L)
    <2> HIDE DEF Good
    <2> QED BY <1>3
  <1>5. PICK g : \A i \in 0 .. L : g[i] = Filter(names, drop, g, i)
    BY <1>4
  <1> DEFINE h == [i \in 0 .. L |-> g[i]]
  <1>6. ASSUME NEW i \in 0 .. L
        PROVE  h[i] = Filter(names, drop, h, i)
    <2>1. h[i] = Filter(names, drop, g, i)
      BY <1>5
    <2>2. i # 0 => h[i - 1] = g[i - 1]
      OBVIOUS
    <2> HIDE DEF h
    <2> QED BY <2>1, <2>2 DEF Filter
  <1>7. h = [i \in 0 .. L |-> Filter(names, drop, h, i)]
    <2>1. h = [i \in 0 .. L |-> h[i]]
      OBVIOUS
    <2> HIDE DEF h
    <2> QED BY <1>6, <2>1
  <1> QED BY <1>7

(* The function of without does what its definition says.                  *)
LEMMA FilterIsThere ==
    ASSUME NEW S, NEW names \in Seq(S), NEW drop
    PROVE  \E g : /\ \A i \in 0 .. Len(names) : g[i] = Filter(names, drop, g, i)
                  /\ without(names, drop) = g[Len(names)]
  <1> DEFINE L == Len(names)
             Filters(g) == [i \in 0 .. L |-> Filter(names, drop, g, i)]
             rest == CHOOSE g : g = Filters(g)
  <1>1. L \in Nat
    BY LenProperties
  <1>2. \E g : g = Filters(g)
    BY <1>1, FilterExists
  <1>3. rest = Filters(rest)
    BY <1>2
  <1>4. without(names, drop) = rest[L]
    BY DEF without, Filter
  <1> HIDE DEF rest
  <1>5. \A i \in 0 .. L : rest[i] = Filter(names, drop, rest, i)
    BY <1>3
  <1> QED BY <1>4, <1>5

(* What without keeps: the names that are not dropped, each once if it was *)
(* there once.                                                             *)
LEMMA Without ==
    ASSUME NEW S, NEW names \in Seq(S), NEW drop
    PROVE  /\ without(names, drop) \in Seq(S)
           /\ Range(without(names, drop)) = Range(names) \ drop
           /\ IsInjective(names) => IsInjective(without(names, drop))
  <1> DEFINE L == Len(names)
  <1>1. L \in Nat /\ DOMAIN names = 1 .. L /\ \A i \in 1 .. L : names[i] \in S
    BY LenProperties, ElementOfSeq
  <1>2. PICK rest : /\ \A i \in 0 .. L : rest[i] = Filter(names, drop, rest, i)
                    /\ without(names, drop) = rest[L]
    BY FilterIsThere
  <1> DEFINE First(i) == {names[j] : j \in 1 .. i}
             Right(i) == /\ rest[i] \in Seq(S)
                         /\ Range(rest[i]) = First(i) \ drop
                         /\ IsInjective(names) => IsInjective(rest[i])
             Bad == {i \in 0 .. L : ~Right(i)}
  <1>4. without(names, drop) = rest[L]
    BY <1>2
  <1>5. \A i \in 0 .. L : rest[i] = Filter(names, drop, rest, i)
    BY <1>2
  <1>6. Right(0)
    <2>1. rest[0] = <<>>
      BY <1>1, <1>5 DEF Filter
    <2> QED BY <2>1 DEF Range, IsInjective
  <1>7. ASSUME NEW i \in 1 .. L, Right(i - 1)
        PROVE  Right(i)
    <2> HIDE DEF L
    <2>1. i \in Nat /\ i - 1 \in Nat /\ i \in DOMAIN names /\ i # 0 /\ i \in 0 .. L
      BY <1>1
    <2>2. First(i) = First(i - 1) \cup {names[i]}
      <3>1. 1 .. i = (1 .. i - 1) \cup {i}
        BY <2>1
      <3> QED BY <3>1
    <2>3. CASE names[i] \in drop
      <3>1. rest[i] = rest[i - 1]
        BY <1>5, <2>1, <2>3 DEF Filter
      <3> QED BY <1>7, <2>2, <2>3, <3>1
    <2>4. CASE names[i] \notin drop
      <3> DEFINE r == rest[i - 1]
      <3>1. rest[i] = Append(r, names[i])
        BY <1>5, <2>1, <2>4 DEF Filter
      <3>2. r \in Seq(S) /\ names[i] \in S
        BY <1>1, <1>7
      <3>3. /\ Append(r, names[i]) \in Seq(S)
            /\ Len(r) \in Nat /\ DOMAIN r = 1 .. Len(r)
            /\ DOMAIN Append(r, names[i]) = (1 .. Len(r)) \cup {Len(r) + 1}
            /\ \A j \in 1 .. Len(r) : Append(r, names[i])[j] = r[j]
            /\ Append(r, names[i])[Len(r) + 1] = names[i]
        BY <3>2
      <3>4. Range(rest[i]) = Range(r) \cup {names[i]}
        <4> HIDE DEF r
        <4> QED BY <3>1, <3>3 DEF Range
      <3>5. ASSUME IsInjective(names) PROVE IsInjective(rest[i])
        <4>1. IsInjective(r) /\ Range(r) = First(i - 1) \ drop
          BY <1>7, <3>5
        <4>2. names[i] \notin First(i - 1)
          BY <1>1, <2>1, <3>5 DEF IsInjective
        <4>3. names[i] \notin Range(r)
          BY <4>1, <4>2
        <4> HIDE DEF r, First
        <4> QED BY <3>1, <3>3, <4>1, <4>3 DEF IsInjective, Range
      <3>6. Range(rest[i]) = First(i) \ drop
        BY <1>7, <2>2, <2>4, <3>4
      <3> QED BY <3>1, <3>3, <3>5, <3>6
    <2> QED BY <2>3, <2>4
  <1>8. Bad = {}
    <2> SUFFICES ASSUME Bad # {} PROVE FALSE
      OBVIOUS
    <2> HIDE DEF Right, L
    <2>0. Bad \in SUBSET Nat
      BY <1>1
    <2>1. PICK n \in Bad : \A m \in Bad : n <= m
      <3> HIDE DEF Bad
      <3> QED BY <2>0, LeastNatural
    <2>2. n # 0
      BY <1>6, <2>1
    <2>3. n - 1 \in 0 .. L /\ n - 1 \notin Bad /\ n \in 1 .. L
      BY <1>1, <2>1, <2>2
    <2>4. Right(n)
      BY <1>7, <2>3
    <2> QED BY <2>1, <2>4
  <1>9. Right(L)
    <2> HIDE DEF Right
    <2> QED BY <1>1, <1>8
  <1>10. First(L) = Range(names)
    BY <1>1 DEF Range
  <1> QED BY <1>4, <1>9, <1>10

(* Function g goes through the first n names.                              *)
Filters(g, names, drop, n) == \A i \in 0 .. n : g[i] = Filter(names, drop, g, i)

(* One sequence begins like the other.                                     *)
StartsAlike(a, b, n) == \A i \in 1 .. n : a[i] = b[i]

(* Beginnings that are the same are filtered the same.                     *)
LEMMA FilterSame ==
    ASSUME NEW n \in Nat, NEW a, NEW b, NEW drop, NEW g, NEW h,
           StartsAlike(a, b, n),
           Filters(g, a, drop, n), Filters(h, b, drop, n)
    PROVE  g[n] = h[n]
  <1> DEFINE Bad == {i \in 0 .. n : g[i] # h[i]}
  <1>1. Bad = {}
    <2> SUFFICES ASSUME Bad # {} PROVE FALSE
      OBVIOUS
    <2>1. Bad \in SUBSET Nat
      OBVIOUS
    <2>2. PICK i \in Bad : \A j \in Bad : i <= j
      <3> HIDE DEF Bad
      <3> QED BY <2>1, LeastNatural
    <2>a. g[i] = Filter(a, drop, g, i) /\ h[i] = Filter(b, drop, h, i)
      BY <2>2 DEF Filters
    <2>3. i # 0
      BY <2>2, <2>a DEF Filter
    <2>4. i \in 1 .. n /\ i - 1 \in 0 .. n /\ i \in 0 .. n
      BY <2>2, <2>3
    <2>5. g[i - 1] = h[i - 1]
      BY <2>2, <2>4
    <2>b. a[i] = b[i]
      BY <2>4 DEF StartsAlike
    <2>6. g[i] = h[i]
      BY <2>3, <2>5, <2>a, <2>b DEF Filter
    <2> QED BY <2>2, <2>6
  <1> QED BY <1>1

(* How without goes through the names, one by one.                         *)
LEMMA WithoutStep ==
    ASSUME NEW S, NEW a \in Seq(S), NEW x \in S, NEW drop
    PROVE  /\ without(<<>>, drop) = <<>>
           /\ without(Append(a, x), drop) =
                 IF x \in drop THEN without(a, drop)
                 ELSE Append(without(a, drop), x)
  <1>1. without(<<>>, drop) = <<>>
    <2>1. <<>> \in Seq(S) /\ Len(<<>>) = 0
      BY EmptySeq
    <2>2. PICK g : /\ \A i \in 0 .. Len(<<>>) : g[i] = Filter(<<>>, drop, g, i)
                   /\ without(<<>>, drop) = g[Len(<<>>)]
      BY <2>1, FilterIsThere
    <2>3. g[0] = Filter(<<>>, drop, g, 0)
      BY <2>1, <2>2
    <2> QED BY <2>1, <2>2, <2>3 DEF Filter
  <1>n. PICK n : n = Len(a)
    OBVIOUS
  <1>b. PICK b : b = Append(a, x)
    OBVIOUS
  <1>2. /\ b \in Seq(S) /\ Len(b) = n + 1 /\ n \in Nat
        /\ \A i \in 1 .. n : b[i] = a[i]
        /\ b[n + 1] = x
    BY <1>n, <1>b, AppendProperties, LenProperties
  <1>3. PICK g : /\ \A i \in 0 .. n : g[i] = Filter(a, drop, g, i)
                 /\ without(a, drop) = g[n]
    BY <1>n, FilterIsThere
  <1>4. PICK h : /\ \A i \in 0 .. n + 1 : h[i] = Filter(b, drop, h, i)
                 /\ without(b, drop) = h[n + 1]
    BY <1>2, FilterIsThere
  <1>5. h[n] = g[n]
    <2>1. Filters(h, b, drop, n)
      BY <1>2, <1>4 DEF Filters
    <2>2. Filters(g, a, drop, n)
      BY <1>3 DEF Filters
    <2>3. StartsAlike(b, a, n)
      BY <1>2 DEF StartsAlike
    <2> QED BY <1>2, <2>1, <2>2, <2>3, FilterSame
  <1>6. h[n + 1] = IF b[n + 1] \in drop THEN h[n] ELSE Append(h[n], b[n + 1])
    <2>1. n + 1 \in 0 .. n + 1 /\ n + 1 # 0 /\ (n + 1) - 1 = n
      BY <1>2
    <2>2. h[n + 1] = Filter(b, drop, h, n + 1)
      BY <1>4, <2>1
    <2> QED BY <2>1, <2>2 DEF Filter
  <1> QED BY <1>b, <1>1, <1>2, <1>3, <1>4, <1>5, <1>6

(* A set of sequences that has the empty one and goes on from each of them *)
(* by one element has them all.                                            *)
LEMMA AllSequences ==
    ASSUME NEW S, NEW T, <<>> \in T,
           \A a \in Seq(S) : \A x \in S : a \in T => Append(a, x) \in T
    PROVE  \A a \in Seq(S) : a \in T
  <1> DEFINE Bad == {n \in Nat : \E a \in Seq(S) : Len(a) = n /\ a \notin T}
  <1>1. Bad = {}
    <2> SUFFICES ASSUME Bad # {} PROVE FALSE
      OBVIOUS
    <2>1. PICK n \in Bad : \A m \in Bad : n <= m
      BY LeastNatural
    <2>2. PICK a \in Seq(S) : Len(a) = n /\ a \notin T
      BY <2>1
    <2>3. PICK b \in Seq(S), x \in S : a = Append(b, x)
      <3>1. a # <<>>
        BY <2>2
      <3> QED BY <3>1, SequenceEmptyOrAppend
    <2>4. Len(a) = Len(b) + 1 /\ Len(b) \in Nat
      BY <2>3, AppendProperties, LenProperties
    <2>5. b \notin T
      BY <2>2, <2>3
    <2>6. Len(b) \in Bad
      BY <2>4, <2>5
    <2> QED BY <2>1, <2>2, <2>4, <2>6
  <1> QED BY <1>1, LenProperties

(* Only what is among the names can be dropped from them.                  *)
LEMMA WithoutOnly ==
    ASSUME NEW S, NEW X, NEW Y
    PROVE  \A a \in Seq(S) :
              (\A z \in Range(a) : z \in X <=> z \in Y) => without(a, X) = without(a, Y)
  <1> DEFINE T == {a \in Seq(S) :
        (\A z \in Range(a) : z \in X <=> z \in Y) => without(a, X) = without(a, Y)}
  <1>1. <<>> \in T
    BY EmptySeq, WithoutStep
  <1>2. ASSUME NEW a \in Seq(S), NEW x \in S, a \in T
        PROVE  Append(a, x) \in T
    <2> SUFFICES ASSUME \A z \in Range(Append(a, x)) : z \in X <=> z \in Y
                 PROVE  without(Append(a, x), X) = without(Append(a, x), Y)
      BY AppendProperties
    <2>1. Range(Append(a, x)) = Range(a) \cup {x}
      BY RangeAppend
    <2>2. without(a, X) = without(a, Y) /\ (x \in X <=> x \in Y)
      BY <1>2, <2>1
    <2> QED BY <2>2, WithoutStep
  <1> HIDE DEF T
  <1>3. \A a \in Seq(S) : a \in T
    BY <1>1, <1>2, AllSequences
  <1> QED BY <1>3 DEF T

(* Nothing is dropped when there is nothing to drop.                       *)
LEMMA WithoutNone ==
    ASSUME NEW S
    PROVE  \A a \in Seq(S) : without(a, {}) = a
  <1> DEFINE T == {a \in Seq(S) : without(a, {}) = a}
  <1>1. <<>> \in T
    BY EmptySeq, WithoutStep
  <1>2. ASSUME NEW a \in Seq(S), NEW x \in S, a \in T
        PROVE  Append(a, x) \in T
    <2>1. without(a, {}) = a
      BY <1>2
    <2> QED BY <2>1, WithoutStep, AppendProperties
  <1> HIDE DEF T
  <1>3. \A a \in Seq(S) : a \in T
    BY <1>1, <1>2, AllSequences
  <1> QED BY <1>3 DEF T

(* Dropping some and then others drops them all.                           *)
LEMMA WithoutTwice ==
    ASSUME NEW S, NEW X, NEW Y
    PROVE  \A a \in Seq(S) : without(without(a, X), Y) = without(a, X \cup Y)
  <1> DEFINE T == {a \in Seq(S) : without(without(a, X), Y) = without(a, X \cup Y)}
  <1>1. <<>> \in T
    BY EmptySeq, WithoutStep
  <1>2. ASSUME NEW a \in Seq(S), NEW x \in S, a \in T
        PROVE  Append(a, x) \in T
    <2>1. without(without(a, X), Y) = without(a, X \cup Y)
      BY <1>2
    <2>2. PICK b \in Seq(S) : b = without(a, X)
      BY Without
    <2>3. without(Append(a, x), X \cup Y) =
              IF x \in X \cup Y THEN without(a, X \cup Y)
              ELSE Append(without(a, X \cup Y), x)
      BY WithoutStep
    <2>4. without(Append(a, x), X) = IF x \in X THEN b ELSE Append(b, x)
      BY <2>2, WithoutStep
    <2>5. without(Append(b, x), Y) =
              IF x \in Y THEN without(b, Y) ELSE Append(without(b, Y), x)
      BY WithoutStep
    <2>6. without(without(Append(a, x), X), Y) = without(Append(a, x), X \cup Y)
      BY <2>1, <2>2, <2>3, <2>4, <2>5
    <2> QED BY <2>6, AppendProperties
  <1> HIDE DEF T
  <1>3. \A a \in Seq(S) : a \in T
    BY <1>1, <1>2, AllSequences
  <1> QED BY <1>3 DEF T

(* Dropping from two sequences, one after the other, is dropping from each. *)
LEMMA WithoutBoth ==
    ASSUME NEW S, NEW X, NEW a \in Seq(S)
    PROVE  \A b \in Seq(S) : without(a \o b, X) = without(a, X) \o without(b, X)
  <1> DEFINE T == {b \in Seq(S) : without(a \o b, X) = without(a, X) \o without(b, X)}
  <1>a. PICK w \in Seq(S) : w = without(a, X)
    BY Without
  <1>1. <<>> \in T
    <2>1. <<>> \in Seq(S) /\ without(<<>>, X) = <<>>
      BY EmptySeq, WithoutStep
    <2>2. a \o <<>> = a /\ w \o <<>> = w
      BY ConcatEmptySeq
    <2> QED BY <1>a, <2>1, <2>2
  <1>2. ASSUME NEW b \in Seq(S), NEW x \in S, b \in T
        PROVE  Append(b, x) \in T
    <2>1. without(a \o b, X) = w \o without(b, X)
      BY <1>2, <1>a
    <2>2. PICK v \in Seq(S) : v = without(b, X)
      BY Without
    <2>3. PICK ab \in Seq(S) : ab = a \o b
      BY ConcatProperties
    <2>a. a \o Append(b, x) = Append(ab, x)
      BY <2>3
    <2>4. w \o Append(v, x) = Append(w \o v, x)
      OBVIOUS
    <2>5. without(Append(ab, x), X) =
              IF x \in X THEN without(ab, X) ELSE Append(without(ab, X), x)
      BY WithoutStep
    <2>6. without(Append(b, x), X) = IF x \in X THEN v ELSE Append(v, x)
      BY <2>2, WithoutStep
    <2>7. without(a \o Append(b, x), X) = w \o without(Append(b, x), X)
      BY <2>1, <2>2, <2>3, <2>a, <2>4, <2>5, <2>6
    <2> QED BY <1>a, <2>7, AppendProperties
  <1> HIDE DEF T
  <1>3. \A b \in Seq(S) : b \in T
    BY <1>1, <1>2, AllSequences
  <1> QED BY <1>3 DEF T

(* Nothing is left when all are dropped.                                   *)
LEMMA WithoutAll ==
    ASSUME NEW S, NEW X
    PROVE  \A a \in Seq(S) : Range(a) \subseteq X => without(a, X) = <<>>
  <1> DEFINE T == {a \in Seq(S) : Range(a) \subseteq X => without(a, X) = <<>>}
  <1>1. <<>> \in T
    BY EmptySeq, WithoutStep
  <1>2. ASSUME NEW a \in Seq(S), NEW x \in S, a \in T
        PROVE  Append(a, x) \in T
    <2>1. Range(Append(a, x)) = Range(a) \cup {x}
      BY RangeAppend
    <2>2. Range(a) \subseteq X => without(a, X) = <<>>
      BY <1>2
    <2> QED BY <2>1, <2>2, WithoutStep, AppendProperties
  <1> HIDE DEF T
  <1>3. \A a \in Seq(S) : a \in T
    BY <1>1, <1>2, AllSequences
  <1> QED BY <1>3 DEF T

-----------------------------------------------------------------------------
(* The inductive invariant.                                                *)

(* The histories have their types.                                         *)
Histories ==
    /\ home \in [Write -> Maybe(Books)]
    /\ noted \in [Folded -> SUBSET Remark]
    /\ gained \in Nat

(* A position gets a new row by a write or by an undo, and what was merged *)
(* is undone once: there is room for the rows to come.                     *)
Room == IsFiniteSet(log) /\ next_row + Cardinality(log) <= 1 + writes + merges

(* A row of the log is of its time, its sort keys are those of its books,  *)
(* the rows it deleted come back to them, and the review settled on says   *)
(* nothing that neither side said.                                         *)
Logged(l) ==
    /\ l.id <= merges /\ l.writes <= writes
    /\ l.source_sort \in Author \cup {l.source}
    /\ l.target_sort \in Author \cup {l.target}
    /\ \A d \in l.deleted : d.book \in {l.source, l.target}
    /\ \A c \in Folded :
          Said(l.merged_said[c]) \subseteq
              Said(l.source_said[c]) \cup Said(l.target_said[c])

(* A book that is gone was absorbed once.                                  *)
Entries ==
    /\ \A l \in log : Logged(l)
    /\ \A l, m \in log : l.source = m.source => l = m

(* An annotation that a merge moved is on the target, was not made there,  *)
(* and was moved by that merge alone; a merge holds all that was made on   *)
(* the source.                                                             *)
Events ==
    /\ \A e \in Write : event[e] # None =>
          home[e] \in Books /\ (home[e] \in live => event[e] = home[e])
    /\ \A l \in log : \A e \in Write :
          /\ e \in l.events => event[e] = l.target /\ home[e] # l.target
          /\ event[e] # None /\ home[e] = l.source => e \in l.events
    /\ \A l, m \in log : \A e \in Write :
          e \in l.events /\ e \in m.events => l = m
    /\ \A e \in Write : e > writes => event[e] = None

(* m is a later merge into the same book that moved an opinion of table c. *)
Claims(m, l, c) ==
    m.target = l.target /\ m.id > l.id /\ m.source_said[c] # None

(* As long as the reader writes nothing, the opinion a merge settled on is *)
(* the one on the target, or the one that the next merge found there.      *)
Settled ==
    \A l \in log : \A c \in Curated :
        l.writes = writes /\ l.source_said[c] # None =>
            /\ (\A m \in log : ~Claims(m, l, c)) =>
                   opinion[c][l.target] = l.merged_said[c]
            /\ \A m \in log :
                   /\ Claims(m, l, c)
                   /\ \A n \in log : Claims(n, l, c) => m.id <= n.id
                   => m.target_said[c] = l.merged_said[c]

(* What the reader said and did not replace is in a review, or saved.      *)
Noted ==
    \A t \in Folded : \A r \in noted[t] :
        r \in reviewed(t) \/ (r[1] # "notes" /\ r \in saved(log, t))

(* The ground that the merge of each book into t has folded, by the rows   *)
(* of the log.                                                             *)
FoldedInto(rows, t) ==
    [b \in Books |->
        IF \E l \in rows : l.source = b /\ l.target = t
        THEN (CHOOSE l \in rows : l.source = b).folded_ground ELSE 0]

owed(t) == FoldedInto(log, t)

(* The ground is all there, a book has no less than the merges have folded *)
(* into it, and a bucket that was moved was not there before.              *)
Covered ==
    /\ total(ground, Books) = gained /\ gained <= writes
    /\ \A t \in live : total(owed(t), Books) <= ground[t]
    /\ \A l, k \in log :
          l.moved_ground > 0 /\ k.target = l.target /\ k.id <= l.id =>
              k.folded_ground = 0

IInv ==
    /\ TypeOK /\ Histories /\ Room /\ Entries
    /\ Events /\ Settled /\ Noted /\ Covered

-----------------------------------------------------------------------------
(* What the constants are.                                                 *)
LEMMA Bounds ==
    /\ MaxWrites \in Nat /\ MaxMerges \in Nat
    /\ IsFiniteSet(Books)
    /\ Folded \subseteq Curated
    /\ None \notin Books /\ None \notin Nat
    /\ None \notin Says /\ None \notin Guard /\ None \notin Position
    /\ Catalogues \subseteq [Books -> Names]
  BY MergeConstants, CataloguesAssumption, NoneAssumption DEF Curated

(* A sort key is an author's, or the stored one.                           *)
LEMMA SortOf ==
    ASSUME NEW names \in Names, NEW stored
    PROVE  sort_of(names, stored) \in Author \cup {stored}
  <1>1. names \in Seq(Author)
    BY DEF Names
  <1>2. names # <<>> => Head(names) \in Author
    BY <1>1
  <1> QED BY <1>2 DEF sort_of

(* The books start with what the scan found and nothing of the reader.     *)
LEMMA InitSound == Init => IInv
  <1> SUFFICES ASSUME Init PROVE IInv
    OBVIOUS
  <1> USE DEF Init
  <1>1. TypeOK
    <2>1. authors \in [Books -> Names]
      BY Bounds
    <2>2. \A b \in Books : sort[b] \in Author \cup {b}
      BY <2>1, SortOf
    <2>3. next_row \in 1 .. MaxWrites + MaxMerges + 1
      BY Bounds
    <2>4. merges \in 0 .. MaxMerges /\ writes \in 0 .. MaxWrites
      BY Bounds
    <2>5. ground \in [Books -> 0 .. MaxWrites]
      BY Bounds
    <2> QED BY <2>1, <2>2, <2>3, <2>4, <2>5 DEF TypeOK, Maybe
  <1>2. Histories
    BY DEF Histories, Maybe
  <1>3. Room
    BY FS_EmptySet DEF Room
  <1>4. Entries /\ Events /\ Settled /\ Noted
    BY DEF Entries, Events, Settled, Noted
  <1>5. Covered
    <2>1. total(ground, Books) = 0
      BY Bounds, TotalBounds
    <2>2. \A t \in live : total(owed(t), Books) = 0
      <3> TAKE t \in live
      <3>1. \A b \in Books : owed(t)[b] = 0
        BY DEF owed, FoldedInto
      <3> QED BY <3>1, Bounds, TotalBounds
    <2> QED BY <2>1, <2>2 DEF Covered
  <1> QED BY <1>1, <1>2, <1>3, <1>4, <1>5 DEF IInv

-----------------------------------------------------------------------------
(* What the log owes.                                                      *)

(* Rows of a log: no two of one source.                                    *)
Rows(rows) ==
    /\ \A l \in rows : l.source \in Books /\ l.folded_ground \in Nat
    /\ \A l, m \in rows : l.source = m.source => l = m

(* What is owed to a source is what its own merge folded, or nothing.      *)
LEMMA FoldedOf ==
    ASSUME NEW rows, Rows(rows), NEW t
    PROVE  /\ \A b \in Books : FoldedInto(rows, t)[b] \in Nat
           /\ \A l \in rows : l.target = t =>
                  FoldedInto(rows, t)[l.source] = l.folded_ground
           /\ \A b \in Books : (\A l \in rows : ~(l.source = b /\ l.target = t))
                  => FoldedInto(rows, t)[b] = 0
  <1>1. ASSUME NEW l \in rows, l.target = t
        PROVE  FoldedInto(rows, t)[l.source] = l.folded_ground
    <2>1. (CHOOSE m \in rows : m.source = l.source) = l
      BY DEF Rows
    <2> QED BY <1>1, <2>1 DEF FoldedInto, Rows
  <1>2. ASSUME NEW b \in Books, \A l \in rows : ~(l.source = b /\ l.target = t)
        PROVE  FoldedInto(rows, t)[b] = 0
    BY <1>2 DEF FoldedInto
  <1>3. ASSUME NEW b \in Books
        PROVE  FoldedInto(rows, t)[b] \in Nat
    <2>1. CASE \E l \in rows : l.source = b /\ l.target = t
      BY <1>1, <2>1 DEF Rows
    <2>2. CASE ~ \E l \in rows : l.source = b /\ l.target = t
      BY <1>2, <2>2
    <2> QED BY <2>1, <2>2
  <1> QED BY <1>1, <1>2, <1>3

(* The log of the invariant is one of those.                               *)
LEMMA LogRows == IInv => Rows(log)
  BY Bounds DEF IInv, TypeOK, Snapshot, Entries, Rows

-----------------------------------------------------------------------------
(* The reader writes.                                                      *)

(* What every write leaves as it was.                                      *)
LEMMA WriteFrame ==
    ASSUME IInv, written
    PROVE  /\ now \in Write /\ now \in Nat /\ now \in 1 .. MaxWrites
           /\ writes' = now /\ writes' \in 0 .. MaxWrites /\ writes < writes'
           /\ live' = live /\ holder' = holder /\ guard' = guard
           /\ authors' = authors /\ sort' = sort /\ log' = log
           /\ merges' = merges
  BY DEF IInv, TypeOK, written, now, Write

(* A write leaves the log as it is, and every merge is then before it.     *)
LEMMA WriteLog ==
    ASSUME IInv, written
    PROVE  /\ Entries' /\ Settled'
           /\ \A t \in live : owed(t)' = owed(t)
           /\ Cardinality(log)' = Cardinality(log)
  <1>1. writes \in Nat /\ writes' \in Nat /\ writes < writes'
    BY WriteFrame DEF IInv, TypeOK
  <1>2. log' = log /\ merges' = merges
    BY WriteFrame
  <1>3. \A l \in log : l.writes \in Nat /\ l.writes <= writes
    BY DEF IInv, TypeOK, Snapshot, Entries, Logged
  <1>4. Entries'
    BY <1>1, <1>2, <1>3 DEF IInv, Entries, Logged
  <1>5. Settled'
    BY <1>1, <1>2, <1>3 DEF Settled
  <1> QED BY <1>2, <1>4, <1>5 DEF owed

(* Annotations that a write does not touch stay as they are.               *)
LEMMA WriteKeepsEvents ==
    ASSUME IInv, written, event' = event, home' = home
    PROVE  Events'
  <1>1. live' = live /\ log' = log /\ writes' \in Nat /\ writes < writes'
    BY WriteFrame
  <1>2. writes \in Nat /\ \A e \in Write : e \in Nat
    BY DEF IInv, TypeOK, Write
  <1>3. \A e \in Write : e > writes' => e > writes
    BY <1>1, <1>2
  <1> QED BY <1>1, <1>3 DEF IInv, Events

(* And so does the ground, with what the merges have folded of it.         *)
LEMMA WriteKeepsGround ==
    ASSUME IInv, written, ground' = ground, gained' = gained
    PROVE  Covered'
  <1>1. live' = live /\ log' = log /\ writes' \in Nat /\ writes < writes'
    BY WriteFrame
  <1>2. \A t \in live : owed(t)' = owed(t)
    BY WriteLog
  <1>3. gained \in Nat /\ writes \in Nat
    BY DEF IInv, TypeOK, Histories
  <1>4. gained' <= writes'
    BY <1>1, <1>3 DEF IInv, Covered
  <1>5. \A t \in live' : total(owed(t)', Books) <= ground'[t]
    BY <1>1, <1>2 DEF IInv, Covered
  <1>6. total(ground', Books) = gained'
    BY DEF IInv, Covered
  <1> QED BY <1>1, <1>4, <1>5, <1>6 DEF IInv, Covered

(* What was said stays where it is as long as nothing is said or merged.   *)
LEMMA NotedStays ==
    ASSUME Noted, opinion' = opinion, log' = log, noted' = noted
    PROVE  Noted'
  <1>1. \A t \in Folded : reviewed(t)' = reviewed(t)
    BY DEF reviewed
  <1>2. \A t \in Folded : saved(log, t)' = saved(log, t)
    BY DEF saved
  <1> QED BY <1>1, <1>2 DEF Noted

(* A position written down: its row is new, or the one that was there.     *)
LEMMA ProgressKeeps ==
    ASSUME IInv, NEW b \in live, upsert_progress(b)
    PROVE  IInv'
  <1> DEFINE fresh == progress[b] = None
             id == IF fresh THEN next_row ELSE progress[b].id
  <1> USE DEF IInv
  <1>1. /\ written
        /\ progress' = [progress EXCEPT ![b] = [id |-> id, at |-> now]]
        /\ next_row' = IF fresh THEN next_row + 1 ELSE next_row
        /\ opinion' = opinion /\ ground' = ground /\ event' = event
        /\ home' = home /\ noted' = noted /\ gained' = gained
    BY DEF upsert_progress
  <1>2. b \in Books /\ live \subseteq Books
    BY DEF TypeOK
  <1>3. /\ merges \in Nat /\ merges <= MaxMerges /\ writes \in Nat
        /\ next_row \in Nat /\ next_row >= 1
    BY Bounds DEF TypeOK
  <1>4. Cardinality(log) \in Nat
    BY FS_CardinalityType DEF Room
  <1>5. now \in Nat /\ now <= MaxWrites /\ now = writes + 1 /\ writes' = writes + 1
        /\ merges' = merges
    BY WriteFrame, <1>1, <1>3 DEF now, Write
  <1>6. next_row <= MaxWrites + MaxMerges
    BY <1>3, <1>4, <1>5, Bounds DEF Room
  <1>7. id \in 1 .. MaxWrites + MaxMerges
    <2>1. progress[b] \in Position \cup {None}
      BY <1>2 DEF TypeOK, Maybe
    <2> QED BY <2>1, <1>3, <1>6, Bounds DEF Position
  <1>8. [id |-> id, at |-> now] \in Position
    BY <1>1, <1>7, WriteFrame DEF Position
  <1>9. progress' \in [Books -> Maybe(Position)]
    BY <1>1, <1>8 DEF TypeOK, Maybe
  <1>10. next_row' \in 1 .. MaxWrites + MaxMerges + 1
    BY <1>1, <1>3, <1>6, Bounds
  <1>11. \A x \in Books \ live : progress'[x] = None
    BY <1>1, <1>2 DEF TypeOK
  <1>12. TypeOK'
    BY <1>1, <1>9, <1>10, <1>11, WriteFrame DEF TypeOK, Maybe
  <1>13. Room'
    <2>1. Cardinality(log)' = Cardinality(log) /\ log' = log
      BY <1>1, WriteLog, WriteFrame
    <2>2. next_row' <= next_row + 1
      BY <1>1, <1>3
    <2> QED BY <1>1, <1>3, <1>4, <1>5, <2>1, <2>2 DEF Room
  <1>14. Histories' /\ Noted'
    BY <1>1, NotedStays, WriteFrame DEF Histories
  <1> QED BY <1>1, <1>12, <1>13, <1>14, WriteLog, WriteKeepsEvents, WriteKeepsGround

(* Room when no position gets a new row.                                   *)
LEMMA WriteKeepsRoom ==
    ASSUME IInv, written, next_row' = next_row
    PROVE  Room'
  <1>1. Cardinality(log)' = Cardinality(log) /\ log' = log /\ merges' = merges
    BY WriteLog, WriteFrame
  <1>2. writes' \in Nat /\ writes < writes'
    BY WriteFrame
  <1>3. /\ next_row \in Nat /\ Cardinality(log) \in Nat
        /\ writes \in Nat /\ merges \in Nat
    BY FS_CardinalityType DEF IInv, TypeOK, Room
  <1> QED BY <1>1, <1>2, <1>3 DEF IInv, Room

(* An opinion written down replaces one field of what the book had, and    *)
(* nothing else.                                                           *)
LEMMA OpinionKeeps ==
    ASSUME IInv, NEW b \in live, NEW t \in Curated, NEW field \in fields(t),
           set_opinion(t, field, b)
    PROVE  IInv'
  <1> DEFINE old == opinion[t][b]
             replaced == {r \in Said(old) : r[1] = field}
             dated == field # "notes" \/ old = None
             new == <<field, now>>
             row == [says |-> (Said(old) \ replaced) \cup {new},
                     at |-> IF dated THEN now ELSE old.at]
  <1> USE DEF IInv
  <1>1. /\ written
        /\ opinion' = [opinion EXCEPT ![t][b] = row]
        /\ noted' = IF t \notin Folded THEN noted
                    ELSE [noted EXCEPT ![t] = (@ \ replaced) \cup {new}]
        /\ progress' = progress /\ ground' = ground /\ event' = event
        /\ next_row' = next_row /\ home' = home /\ gained' = gained
    BY DEF set_opinion
  <1>2. b \in Books /\ live \subseteq Books
    BY DEF TypeOK
  <1>3. now \in Write /\ live' = live /\ log' = log
    BY <1>1, WriteFrame
  <1>4. opinion \in [Curated -> [Books -> Maybe(Says)]]
    BY DEF TypeOK
  <1>5. old \in Maybe(Says) /\ new \in Remark
    BY <1>2, <1>3, <1>4 DEF fields, Remark, Curated
  <1>6. Said(old) \subseteq Remark
    BY <1>5 DEF Said, Maybe, Says
  <1>7. row \in Says
    <2>1. dated \/ old \in Says
      BY <1>5 DEF Maybe
    <2>2. (IF dated THEN now ELSE old.at) \in Write
      BY <1>3, <2>1 DEF Says
    <2> QED BY <1>5, <1>6, <2>2 DEF Says
  <1>8. Said(row) = (Said(old) \ replaced) \cup {new}
    <2>1. row # None
      BY <1>7, Bounds
    <2> QED BY <2>1 DEF Said
  <1>9. new[1] = field /\ \A r \in replaced : r[1] = field
    OBVIOUS
  <1> HIDE DEF row, new, dated
  <1>10. opinion' \in [Curated -> [Books -> Maybe(Says)]]
    BY <1>1, <1>2, <1>4, <1>7 DEF Maybe
  <1>11. \A c \in Curated, x \in Books :
            opinion'[c][x] = IF c = t /\ x = b THEN row ELSE opinion[c][x]
    BY <1>1, <1>2, <1>4
  <1>12. TypeOK'
    BY <1>1, <1>2, <1>10, <1>11, WriteFrame DEF TypeOK, Maybe
  <1>13. Histories'
    BY <1>1, <1>5 DEF Histories
  <1>14. Noted'
    <2> SUFFICES ASSUME NEW c \in Folded, NEW r \in noted'[c],
                        ~(r[1] # "notes" /\ r \in saved(log, c))
                 PROVE  \E x \in Books : r \in Said(opinion'[c][x])
      BY <1>3 DEF Noted, reviewed, saved
    <2>1. c \in Curated
      BY Bounds
    <2>2. CASE c = t /\ r = new
      <3>1. r \in Said(opinion'[c][b])
        BY <1>2, <1>8, <1>11, <2>1, <2>2
      <3> QED BY <1>2, <3>1
    <2>3. CASE ~(c = t /\ r = new)
      <3>1. r \in noted[c] /\ (c = t => r \notin replaced)
        BY <1>1, <2>3 DEF Histories
      <3>2. r \in reviewed(c)
        BY <3>1 DEF Noted
      <3>3. PICK x \in Books : r \in Said(opinion[c][x])
        BY <3>2 DEF reviewed
      <3>4. CASE c = t /\ x = b
        <4>1. r \in Said(old) \ replaced
          BY <3>1, <3>3, <3>4
        <4>2. opinion'[c][x] = row
          BY <1>11, <2>1, <3>4
        <4> QED BY <1>8, <4>1, <4>2
      <3>5. CASE ~(c = t /\ x = b)
        <4>1. opinion'[c][x] = opinion[c][x]
          BY <1>11, <2>1, <3>5
        <4> QED BY <3>3, <4>1
      <3> QED BY <3>4, <3>5
    <2> QED BY <2>2, <2>3
  <1> QED BY <1>1, <1>12, <1>13, <1>14, WriteLog, WriteKeepsEvents,
             WriteKeepsGround, WriteKeepsRoom

(* Ground covered is added to the bucket of the book and to all of it.     *)
LEMMA GroundKeeps ==
    ASSUME IInv, NEW b \in live, add_ground(b)
    PROVE  IInv'
  <1> USE DEF IInv
  <1>1. /\ written
        /\ ground' = [ground EXCEPT ![b] = @ + 1]
        /\ gained' = gained + 1
        /\ progress' = progress /\ opinion' = opinion /\ event' = event
        /\ next_row' = next_row /\ home' = home /\ noted' = noted
    BY DEF add_ground
  <1>2. b \in Books /\ live \subseteq Books /\ live' = live
    BY <1>1, WriteFrame DEF TypeOK
  <1>3. ground \in [Books -> Nat]
    BY Bounds DEF TypeOK
  <1>4. gained \in Nat /\ writes \in Nat /\ writes' = writes + 1 /\ writes' <= MaxWrites
    BY <1>1, WriteFrame DEF TypeOK, Histories, now
  <1>5. /\ ground' \in [Books -> Nat] /\ ground'[b] = ground[b] + 1
        /\ \A x \in Books \ {b} : ground'[x] = ground[x]
    BY <1>1, <1>2, <1>3
  <1>6. total(ground', Books) = gained'
    <2>1. total(ground', Books) = total(ground, Books) - ground[b] + ground'[b]
      <3>1. \A x \in Books : ground[x] \in Nat
        BY <1>3
      <3>2. ground'[b] \in Nat /\ b \in Books /\ IsFiniteSet(Books)
        BY <1>2, <1>5, Bounds
      <3>3. \A x \in Books \ {b} : ground'[x] = ground[x]
        BY <1>5
      <3> QED BY <3>1, <3>2, <3>3, TotalChange
    <2>2. total(ground, Books) = gained /\ ground[b] \in Nat
      BY <1>2, <1>3 DEF Covered
    <2> QED BY <1>1, <1>4, <1>5, <2>1, <2>2
  <1>7. gained' <= writes'
    BY <1>1, <1>4 DEF Covered
  <1>8. ground' \in [Books -> 0 .. MaxWrites]
    <2>1. \A x \in Books : ground'[x] <= total(ground', Books)
      BY <1>5, Bounds, TotalBounds
    <2>2. gained' \in Nat /\ writes' \in Nat
      BY <1>1, <1>4
    <2> QED BY <1>4, <1>5, <1>6, <1>7, <2>1, <2>2, Bounds
  <1>9. TypeOK'
    BY <1>1, <1>2, <1>5, <1>8, WriteFrame, SMTT(40) DEF TypeOK, Maybe
  <1>10. Histories' /\ Noted'
    BY <1>1, <1>2, <1>4, NotedStays, WriteFrame DEF Histories
  <1>11. Covered'
    <2>1. ASSUME NEW t \in live'
          PROVE  total(owed(t)', Books) <= ground'[t]
      <3>1. owed(t)' = owed(t) /\ total(owed(t), Books) <= ground[t]
        BY <1>1, <1>2, WriteLog DEF Covered
      <3>2. \A x \in Books : owed(t)[x] \in Nat
        BY LogRows, FoldedOf DEF owed
      <3>3. total(owed(t), Books) \in Nat
        BY <3>2, Bounds, TotalOf
      <3>4. t \in Books /\ ground[t] \in Nat /\ ground'[t] \in Nat /\ ground[t] <= ground'[t]
        BY <1>2, <1>3, <1>5
      <3> QED BY <3>1, <3>3, <3>4
    <2>2. log' = log
      BY <1>1, WriteFrame
    <2> QED BY <1>6, <1>7, <2>1, <2>2 DEF Covered
  <1> QED BY <1>1, <1>9, <1>10, <1>11, WriteLog, WriteKeepsEvents, WriteKeepsRoom

(* An annotation is made on the book it is on.                             *)
LEMMA AnnotationKeeps ==
    ASSUME IInv, NEW b \in live, create_annotation(b)
    PROVE  IInv'
  <1> USE DEF IInv
  <1>1. /\ written
        /\ event' = [event EXCEPT ![now] = b] /\ home' = [home EXCEPT ![now] = b]
        /\ progress' = progress /\ opinion' = opinion /\ ground' = ground
        /\ next_row' = next_row /\ noted' = noted /\ gained' = gained
    BY DEF create_annotation
  <1>2. /\ b \in Books /\ live \subseteq Books /\ live' = live /\ log' = log
        /\ now \in Write /\ writes' = now /\ now = writes + 1 /\ writes \in Nat
    BY <1>1, WriteFrame DEF TypeOK, now
  <1>3. /\ event \in [Write -> Maybe(live)] /\ home \in [Write -> Maybe(Books)]
        /\ event[now] = None
    BY <1>2 DEF TypeOK, Histories, Events
  <1>4. /\ event' \in [Write -> Maybe(live)] /\ home' \in [Write -> Maybe(Books)]
        /\ event'[now] = b /\ home'[now] = b
        /\ \A e \in Write \ {now} : event'[e] = event[e] /\ home'[e] = home[e]
    BY <1>1, <1>2, <1>3 DEF Maybe
  <1>5. TypeOK'
    BY <1>1, <1>2, <1>4, WriteFrame, SMTT(40) DEF TypeOK
  <1>6. Histories' /\ Noted'
    BY <1>1, <1>2, <1>4, NotedStays, WriteFrame DEF Histories
  <1>7. Events'
    <2>1. \A l \in log : l.source \notin live /\ l.target \in live /\ now \notin l.events
      <3> TAKE l \in log
      <3>1. l.target \in live /\ l.source \notin live
        BY DEF TypeOK
      <3>2. now \in l.events => event[now] = l.target
        BY <1>2 DEF Events
      <3> QED BY <1>2, <1>3, <3>1, <3>2, Bounds
    <2>2. b # None
      BY <1>2, Bounds
    <2>3. \A e \in Write : event'[e] # None =>
              home'[e] \in Books /\ (home'[e] \in live => event'[e] = home'[e])
      BY <1>2, <1>4 DEF Events
    <2>4. \A l \in log : \A e \in Write :
              /\ e \in l.events => event'[e] = l.target /\ home'[e] # l.target
              /\ event'[e] # None /\ home'[e] = l.source => e \in l.events
      BY <1>2, <1>4, <2>1 DEF Events
    <2>5. \A e \in Write : e > now => event'[e] = None
      <3>1. \A e \in Write : e \in Nat
        BY DEF Write
      <3>2. \A e \in Write : e > now => e # now /\ e > writes
        BY <1>2, <3>1
      <3> QED BY <1>4, <3>2 DEF Events
    <2> QED BY <1>2, <2>3, <2>4, <2>5 DEF Events
  <1> QED BY <1>1, <1>5, <1>6, <1>7, WriteLog, WriteKeepsGround, WriteKeepsRoom

-----------------------------------------------------------------------------
(* A book is merged into another.                                          *)

(* What the merge writes into the log.                                     *)
LEMMA NewEntry ==
    ASSUME NEW s, NEW t, NEW l, l = build_snapshot(s, t)
    PROVE  /\ l.id = merges + 1 /\ l.source = s /\ l.target = t
           /\ l.source_sort = sort[s] /\ l.target_sort = sort[t]
           /\ l.deleted = deleted_rows(s, t)
           /\ \A c \in Curated :
                 /\ l.source_said[c] = opinion[c][s]
                 /\ l.target_said[c] = opinion[c][t]
                 /\ l.merged_said[c] = settle(c, opinion[c][s], opinion[c][t])
           /\ l.moved_ground = IF ground[t] = 0 THEN ground[s] ELSE 0
           /\ l.folded_ground = IF ground[t] = 0 THEN 0 ELSE ground[s]
           /\ l.events = {e \in Write : event[e] = s}
           /\ l.writes = writes
  BY DEF build_snapshot

(* What the merge leaves as it was and what it counts.                     *)
LEMMA MergeFrame ==
    ASSUME IInv, NEW s \in Books, NEW t \in Books, merge_books(s, t)
    PROVE  /\ s \in live /\ t \in live /\ s # t /\ live \subseteq Books
           /\ merges \in Nat /\ merges + 1 <= MaxMerges /\ merges' = merges + 1
           /\ live' = live \ {s}
           /\ log' = {l \in log : l.target # s} \cup {build_snapshot(s, t)}
           /\ next_row' = next_row /\ writes' = writes
           /\ home' = home /\ gained' = gained
           /\ noted' = [c \in Folded |-> noted[c] \ released(s, c)]
  <1>1. merges \in Nat /\ merges < MaxMerges /\ live \subseteq Books
    BY Bounds DEF IInv, TypeOK, merge_books
  <1> QED BY <1>1, Bounds DEF merge_books, cascaded

(* The review settled on is dated by one of the two, and has the notes of  *)
(* both among what they say.                                               *)
LEMMA SettledReview ==
    ASSUME NEW x \in Says, NEW y \in Says
    PROVE  /\ settled_at(x, y) \in Write
           /\ settled_says(x, y) \subseteq x.says \cup y.says
           /\ \A r \in x.says \cup y.says :
                 r[1] = "notes" => r \in settled_says(x, y)
  <1> DEFINE seen == {row \in {x, y} : is_public(row)}
             rows == IF seen = {} THEN {x, y} ELSE seen
  <1>1. x.at \in Write /\ y.at \in Write /\ x.at \in Int /\ y.at \in Int
    BY DEF Says, Write
  <1>2. settled_at(x, y) = Max({row.at : row \in rows})
    BY DEF settled_at
  <1>3. rows = {x} \/ rows = {y} \/ rows = {x, y}
    OBVIOUS
  <1> HIDE DEF rows
  <1>4. Max({row.at : row \in rows}) \in Write
    <2>1. CASE rows = {x}
      <3>1. {row.at : row \in rows} = {x.at, x.at}
        BY <2>1
      <3> QED BY <1>1, <3>1, MaxOfTwo
    <2>2. CASE rows = {y}
      <3>1. {row.at : row \in rows} = {y.at, y.at}
        BY <2>2
      <3> QED BY <1>1, <3>1, MaxOfTwo
    <2>3. CASE rows = {x, y}
      <3>1. {row.at : row \in rows} = {x.at, y.at}
        BY <2>3
      <3>2. Max({x.at, y.at}) \in {x.at, y.at}
        BY <1>1, MaxOfTwo
      <3> QED BY <1>1, <3>1, <3>2
    <2> QED BY <1>3, <2>1, <2>2, <2>3
  <1>5. /\ settled_says(x, y) \subseteq x.says \cup y.says
        /\ \A r \in x.says \cup y.says :
              r[1] = "notes" => r \in settled_says(x, y)
    BY DEF settled_says
  <1> QED BY <1>2, <1>4, <1>5

(* The opinion that a merge settles on is a row, unless neither side has   *)
(* one; of reviews it keeps the notes of both and adds nothing, and one    *)
(* side alone settles it.                                                  *)
LEMMA SettleIsRow ==
    ASSUME NEW c \in Curated, NEW x \in Maybe(Says), NEW y \in Maybe(Says)
    PROVE  /\ settle(c, x, y) \in Maybe(Says)
           /\ (settle(c, x, y) = None) <=> (x = None /\ y = None)
           /\ Said(settle(c, x, y)) \subseteq Said(x) \cup Said(y)
           /\ c \in Folded => \A r \in Said(x) \cup Said(y) :
                 r[1] = "notes" => r \in Said(settle(c, x, y))
           /\ x = None => settle(c, x, y) = y
  <1>1. CASE x = None
    BY <1>1 DEF settle, Said
  <1>2. CASE x # None /\ y = None
    BY <1>2 DEF settle, Said
  <1>3. CASE x # None /\ y # None /\ c \in Folded
    <2> DEFINE row == [says |-> settled_says(x, y), at |-> settled_at(x, y)]
    <2>1. x \in Says /\ y \in Says
      BY <1>3 DEF Maybe
    <2>2. x.says \subseteq Remark /\ y.says \subseteq Remark
      BY <2>1 DEF Says
    <2>3. row \in Says /\ row.says = settled_says(x, y)
      BY <2>1, <2>2, SettledReview DEF Says
    <2>4. settle(c, x, y) = row
      BY <1>3 DEF settle
    <2> HIDE DEF row
    <2>5. row # None /\ Said(row) = settled_says(x, y)
      BY <2>3, Bounds DEF Said
    <2>6. Said(x) = x.says /\ Said(y) = y.says
      BY <1>3 DEF Said
    <2> QED BY <1>3, <2>1, <2>3, <2>4, <2>5, <2>6, SettledReview DEF Maybe
  <1>4. CASE x # None /\ y # None /\ c \notin Folded
    <2>1. settle(c, x, y) \in {x, y}
      BY <1>4 DEF settle, kept
    <2> QED BY <1>4, <2>1 DEF Said
  <1> QED BY <1>1, <1>2, <1>3, <1>4

(* The opinions after a merge: the target's is settled, the source's gone. *)
LEMMA MergeOpinions ==
    ASSUME IInv, NEW s \in Books, NEW t \in Books, merge_books(s, t)
    PROVE  /\ opinion' \in [Curated -> [Books -> Maybe(Says)]]
           /\ \A c \in Curated, x \in Books : opinion'[c][x] =
                 IF x = s THEN None
                 ELSE IF x = t THEN settle(c, opinion[c][s], opinion[c][t])
                 ELSE opinion[c][x]
  <1>1. opinion \in [Curated -> [Books -> Maybe(Says)]]
    BY DEF IInv, TypeOK
  <1>2. opinion' = [c \in Curated |->
            [opinion[c] EXCEPT ![t] = settle(c, opinion[c][s], opinion[c][t]),
                               ![s] = None]]
    BY DEF merge_books
  <1>3. \A c \in Curated : settle(c, opinion[c][s], opinion[c][t]) \in Maybe(Says)
    BY <1>1, SettleIsRow
  <1>4. s # t
    BY MergeFrame
  <1> QED BY <1>1, <1>2, <1>3, <1>4 DEF Maybe

(* The position a merge keeps is one of the two.                           *)
LEMMA MergePositions ==
    ASSUME IInv, NEW s \in Books, NEW t \in Books, merge_books(s, t)
    PROVE  /\ progress' \in [Books -> Maybe(Position)]
           /\ progress'[s] = None
           /\ \A x \in Books \ {s, t} : progress'[x] = progress[x]
  <1>1. progress \in [Books -> Maybe(Position)]
    BY DEF IInv, TypeOK
  <1>2. progress' = [progress EXCEPT ![t] = kept(progress[s], progress[t]),
                                     ![s] = None]
    BY DEF merge_books
  <1>3. kept(progress[s], progress[t]) \in {progress[s], progress[t]}
    BY DEF kept
  <1> QED BY <1>1, <1>2, <1>3 DEF Maybe

(* The ground of the source is added to the target's.                      *)
LEMMA MergeGround ==
    ASSUME IInv, NEW s \in Books, NEW t \in Books, merge_books(s, t)
    PROVE  /\ ground \in [Books -> Nat] /\ ground' \in [Books -> Nat]
           /\ ground'[s] = 0 /\ ground'[t] = ground[t] + ground[s]
           /\ \A x \in Books \ {s, t} : ground'[x] = ground[x]
           /\ total(ground', Books) = gained
           /\ ground' \in [Books -> 0 .. MaxWrites]
  <1>1. ground \in [Books -> Nat] /\ s # t /\ writes <= MaxWrites /\ writes \in Nat
    BY Bounds, MergeFrame DEF IInv, TypeOK
  <1>2. ground' = [ground EXCEPT ![t] = @ + ground[s], ![s] = 0]
    BY DEF merge_books
  <1>3. /\ ground' \in [Books -> Nat]
        /\ ground'[s] = 0 /\ ground'[t] = ground[t] + ground[s]
        /\ \A x \in Books \ {s, t} : ground'[x] = ground[x]
    BY <1>1, <1>2
  <1>4. total(ground', Books) = gained
    <2> DEFINE half == [ground EXCEPT ![s] = 0]
    <2>1. /\ half[s] = 0 /\ half[t] = ground[t]
          /\ \A x \in Books : half[x] \in Nat
          /\ \A x \in Books \ {s} : half[x] = ground[x]
      BY <1>1
    <2>2. \A x \in Books \ {t} : ground'[x] = half[x]
      BY <1>3, <2>1
    <2>3. IsFiniteSet(Books) /\ \A x \in Books : ground[x] \in Nat /\ ground'[x] \in Nat
      BY <1>1, <1>3, Bounds
    <2> HIDE DEF half
    <2>4. total(half, Books) = total(ground, Books) - ground[s] + half[s]
      <3>1. half[s] \in Nat /\ s \in Books
        BY <2>1
      <3>2. \A x \in Books \ {s} : half[x] = ground[x]
        BY <2>1
      <3>3. IsFiniteSet(Books) /\ \A x \in Books : ground[x] \in Nat
        BY <2>3
      <3> QED BY <3>1, <3>2, <3>3, TotalChange
    <2>5. total(ground', Books) = total(half, Books) - half[t] + ground'[t]
      BY <2>1, <2>2, <2>3, TotalChange
    <2>6. total(ground, Books) = gained /\ gained \in Nat
      BY DEF IInv, Covered, Histories
    <2> QED BY <1>3, <2>1, <2>3, <2>4, <2>5, <2>6
  <1>5. \A x \in Books : ground'[x] <= MaxWrites
    <2>1. \A x \in Books : ground'[x] <= total(ground', Books)
      BY <1>3, Bounds, TotalBounds
    <2>2. gained <= writes /\ gained \in Nat
      BY DEF IInv, Covered, Histories
    <2> QED BY <1>1, <1>3, <1>4, <2>1, <2>2, Bounds
  <1>6. ground' \in [Books -> 0 .. MaxWrites]
    BY <1>3, <1>5, Bounds
  <1> QED BY <1>1, <1>3, <1>4, <1>6

(* Names without some of them are names, and so are names followed by      *)
(* others that are not among them.                                         *)
LEMMA NamesStay ==
    ASSUME NEW a \in Names, NEW b \in Names, NEW drop
    PROVE  /\ <<>> \in Names
           /\ without(b, drop) \in Names
           /\ a \o without(b, Range(a)) \in Names
  <1>1. <<>> \in Names
    BY DEF Names, IsInjective
  <1>2. a \in Seq(Author) /\ IsInjective(a) /\ b \in Seq(Author) /\ IsInjective(b)
    BY DEF Names
  <1>3. without(b, drop) \in Names
    BY <1>2, Without DEF Names
  <1> DEFINE w == without(b, Range(a))
  <1>4. w \in Seq(Author) /\ IsInjective(w) /\ Range(w) = Range(b) \ Range(a)
    BY <1>2, Without
  <1> HIDE DEF w
  <1>5. /\ a \o w \in Seq(Author)
        /\ Len(a) \in Nat /\ Len(w) \in Nat /\ Len(a \o w) = Len(a) + Len(w)
        /\ DOMAIN a = 1 .. Len(a) /\ DOMAIN w = 1 .. Len(w)
        /\ DOMAIN (a \o w) = 1 .. Len(a) + Len(w)
        /\ \A i \in 1 .. Len(a) + Len(w) :
              (a \o w)[i] = IF i <= Len(a) THEN a[i] ELSE w[i - Len(a)]
    BY <1>2, <1>4, LenProperties, ConcatProperties
  <1> DEFINE j == a \o w
  <1>6. ASSUME NEW x \in DOMAIN j, NEW y \in DOMAIN j, j[x] = j[y], x <= y
        PROVE  x = y
    <2>1. x \in Nat /\ y \in Nat /\ x >= 1 /\ y >= 1 /\ y <= Len(a) + Len(w)
      BY <1>5
    <2>2. CASE y <= Len(a)
      <3>1. x \in DOMAIN a /\ y \in DOMAIN a /\ a[x] = a[y]
        BY <1>5, <1>6, <2>1, <2>2
      <3> QED BY <1>2, <3>1 DEF IsInjective
    <2>3. CASE x > Len(a)
      <3>1. /\ x - Len(a) \in DOMAIN w /\ y - Len(a) \in DOMAIN w
            /\ w[x - Len(a)] = w[y - Len(a)]
        BY <1>5, <1>6, <2>1, <2>3
      <3>2. x - Len(a) = y - Len(a)
        BY <1>4, <3>1 DEF IsInjective
      <3> QED BY <1>5, <2>1, <3>2
    <2>4. CASE x <= Len(a) /\ y > Len(a)
      <3>1. x \in DOMAIN a /\ y - Len(a) \in DOMAIN w /\ a[x] = w[y - Len(a)]
        BY <1>5, <1>6, <2>1, <2>4
      <3>2. a[x] \in Range(a) /\ w[y - Len(a)] \in Range(w)
        BY <3>1 DEF Range
      <3> QED BY <1>4, <3>1, <3>2
    <2> QED BY <1>5, <2>1, <2>2, <2>3, <2>4
  <1>7. DOMAIN j \subseteq Nat
    BY <1>5
  <1> HIDE DEF j
  <1>8. \A x, y \in DOMAIN j : x \in Nat /\ y \in Nat /\ (x <= y \/ y <= x)
    BY <1>7
  <1>9. IsInjective(j)
    BY <1>6, <1>8 DEF IsInjective
  <1> QED BY <1>1, <1>3, <1>5, <1>9 DEF j, w, Names

(* The target has its authors and those added, the source has none, and    *)
(* each sort key is an author's or the book's own.                         *)
LEMMA MergeNames ==
    ASSUME IInv, NEW s \in Books, NEW t \in Books, merge_books(s, t)
    PROVE  /\ authors' \in [Books -> Names] /\ authors'[s] = <<>>
           /\ \A x \in Books \ {s, t} : authors'[x] = authors[x]
           /\ added_links(s, t) \in Names
           /\ DOMAIN sort' = Books /\ \A b \in Books : sort'[b] \in Author \cup {b}
  <1>1. /\ authors \in [Books -> Names] /\ s # t
        /\ DOMAIN sort = Books /\ \A b \in Books : sort[b] \in Author \cup {b}
    BY MergeFrame DEF IInv, TypeOK
  <1>2. /\ authors' = [authors EXCEPT ![t] = @ \o added_links(s, t), ![s] = <<>>]
        /\ sort' = [sort EXCEPT ![t] = IF authors[t] = <<>>
                                       THEN sort_of(authors'[t], @) ELSE @]
    BY DEF merge_books
  <1>3. /\ added_links(s, t) \in Names /\ <<>> \in Names
        /\ authors[t] \o added_links(s, t) \in Names
    BY <1>1, NamesStay DEF added_links
  <1>4. authors' \in [Books -> Names]
    BY <1>1, <1>2, <1>3
  <1>5. \A x \in Books \ {s, t} : authors'[x] = authors[x]
    BY <1>1, <1>2
  <1>6. sort_of(authors'[t], sort[t]) \in Author \cup {t}
    <2>1. sort_of(authors'[t], sort[t]) \in Author \cup {sort[t]}
      BY <1>4, SortOf
    <2> QED BY <1>1, <2>1
  <1>7. DOMAIN sort' = Books /\ \A b \in Books : sort'[b] \in Author \cup {b}
    <2> DEFINE new == IF authors[t] = <<>> THEN sort_of(authors'[t], sort[t])
                      ELSE sort[t]
    <2>1. new \in Author \cup {t}
      BY <1>1, <1>6
    <2>2. sort' = [sort EXCEPT ![t] = new]
      BY <1>2
    <2> HIDE DEF new
    <2> QED BY <1>1, <2>1, <2>2
  <1> QED BY <1>1, <1>2, <1>3, <1>4, <1>5, <1>7

(* The row of the log is a row of the log.                                 *)
LEMMA NewEntryTyped ==
    ASSUME IInv, NEW s \in Books, NEW t \in Books, merge_books(s, t)
    PROVE  build_snapshot(s, t) \in Snapshot
  <1>1. /\ authors[s] \in Names /\ added_links(s, t) \in Names
    BY MergeNames DEF IInv, TypeOK
  <1>2. /\ merges + 1 \in 1 .. MaxMerges
        /\ sort[s] \in Author \cup Books /\ sort[t] \in Author \cup Books
        /\ ground[s] \in 0 .. MaxWrites /\ ground[t] \in 0 .. MaxWrites
        /\ 0 \in 0 .. MaxWrites
        /\ writes \in 0 .. MaxWrites
    BY MergeFrame, Bounds DEF IInv, TypeOK
  <1>3. progress[s] \in Maybe(Position) /\ progress[t] \in Maybe(Position)
    BY DEF IInv, TypeOK
  <1>4. deleted_rows(s, t) \subseteq [row : Position, book : Books]
    BY <1>3 DEF deleted_rows, Maybe
  <1>5. /\ held_files(s) \subseteq Books /\ guards_of(s) \subseteq Books
        /\ {e \in Write : event[e] = s} \subseteq Write
    BY DEF held_files, guards_of
  <1>6. \A c \in Curated : /\ opinion[c][s] \in Maybe(Says)
                           /\ opinion[c][t] \in Maybe(Says)
                           /\ settle(c, opinion[c][s], opinion[c][t]) \in Maybe(Says)
    BY SettleIsRow DEF IInv, TypeOK
  <1>7. /\ [c \in Curated |-> opinion[c][s]] \in Opinions
        /\ [c \in Curated |-> opinion[c][t]] \in Opinions
        /\ [c \in Curated |-> settle(c, opinion[c][s], opinion[c][t])] \in Opinions
    BY <1>6 DEF Opinions
  <1>8. (IF kept(progress[s], progress[t]) = progress[s]
         THEN progress[s] ELSE None) \in Maybe(Position)
    BY <1>3 DEF Maybe
  <1> QED BY <1>1, <1>2, <1>4, <1>5, <1>7, <1>8 DEF build_snapshot, Snapshot

(* A merge keeps the types.                                                *)
LEMMA MergeTypes ==
    ASSUME IInv, NEW s \in Books, NEW t \in Books, merge_books(s, t)
    PROVE  TypeOK'
  <1> DEFINE new == build_snapshot(s, t)
  <1>1. /\ s \in live /\ t \in live /\ s # t /\ live \subseteq Books
        /\ merges \in Nat /\ merges + 1 <= MaxMerges /\ merges' = merges + 1
        /\ live' = live \ {s}
        /\ log' = {l \in log : l.target # s} \cup {new}
        /\ next_row' = next_row /\ writes' = writes
    BY MergeFrame
  <1>2. new \in Snapshot /\ new.id = merges + 1 /\ new.source = s /\ new.target = t
    BY NewEntryTyped, NewEntry
  <1> HIDE DEF new
  <1>3. holder' \in [Books -> live']
    <2>1. holder' = [f \in Books |-> IF holder[f] = s THEN t ELSE holder[f]]
      BY DEF merge_books
    <2> QED BY <1>1, <2>1 DEF IInv, TypeOK
  <1>4. guard' \in [Books -> Maybe(Guard)]
    <2>1. \A g \in Books : guard[g] \in Maybe(Guard)
      BY DEF IInv, TypeOK
    <2>2. \A g \in guards_of(s) : [guard[g] EXCEPT !.book = t] \in Guard
      BY <2>1 DEF guards_of, Maybe, Guard
    <2>3. [book |-> t, has_key |-> TRUE] \in Guard
      BY DEF Guard
    <2>4. guard' = [g \in Books |->
              IF g = s /\ native_files(s) # {} THEN [book |-> t, has_key |-> TRUE]
              ELSE IF g \in guards_of(s) THEN [guard[g] EXCEPT !.book = t]
              ELSE guard[g]]
      BY DEF merge_books, rewire_merged_uuid_refs
    <2> QED BY <2>1, <2>2, <2>3, <2>4 DEF Maybe
  <1>5. event' \in [Write -> Maybe(live')]
    <2>1. event' = [e \in Write |-> IF event[e] = s THEN t ELSE event[e]]
      BY DEF merge_books
    <2> QED BY <1>1, <2>1 DEF IInv, TypeOK, Maybe
  <1>6. \A b \in Books \ live' :
            /\ progress'[b] = None /\ ground'[b] = 0 /\ authors'[b] = <<>>
            /\ \A c \in Curated : opinion'[c][b] = None
    <2> TAKE b \in Books \ live'
    <2>1. CASE b = s
      BY <2>1, MergePositions, MergeGround, MergeNames, MergeOpinions
    <2>2. CASE b # s
      <3>1. b \in Books \ live /\ b \in Books \ {s, t}
        BY <1>1, <2>2
      <3>2. /\ progress[b] = None /\ ground[b] = 0 /\ authors[b] = <<>>
            /\ \A c \in Curated : opinion[c][b] = None
        BY <3>1 DEF IInv, TypeOK
      <3>3. progress'[b] = None /\ ground'[b] = 0 /\ authors'[b] = <<>>
        BY <3>1, <3>2, MergePositions, MergeGround, MergeNames
      <3>4. \A c \in Curated : opinion'[c][b] = opinion[c][b]
        BY <3>1, MergeOpinions
      <3> QED BY <3>2, <3>3, <3>4
    <2> QED BY <2>1, <2>2
  <1>7. log' \subseteq Snapshot
    BY <1>1, <1>2 DEF IInv, TypeOK
  <1>8. \A l \in log' : l.target \in live' /\ l.source \notin live'
    BY <1>1, <1>2 DEF IInv, TypeOK
  <1>9. \A l, m \in log' : l.id = m.id => l = m
    <2>1. \A l \in log : l.id \in Nat /\ l.id <= merges
      BY Bounds DEF IInv, TypeOK, Snapshot, Entries, Logged
    <2>2. \A l \in log : l.id # merges + 1
      BY <1>1, <2>1
    <2> QED BY <1>1, <1>2, <2>2 DEF IInv, TypeOK
  <1>10. merges' \in 0 .. MaxMerges
    BY <1>1, Bounds
  <1>11. /\ progress' \in [Books -> Maybe(Position)]
         /\ opinion' \in [Curated -> [Books -> Maybe(Says)]]
         /\ ground' \in [Books -> 0 .. MaxWrites]
         /\ authors' \in [Books -> Names]
         /\ DOMAIN sort' = Books /\ \A b \in Books : sort'[b] \in Author \cup {b}
    BY MergePositions, MergeGround, MergeNames, MergeOpinions
  <1>12. /\ live' \subseteq Books
         /\ next_row' \in 1 .. MaxWrites + MaxMerges + 1 /\ writes' \in 0 .. MaxWrites
    BY <1>1 DEF IInv, TypeOK
  <1> QED BY <1>3, <1>4, <1>5, <1>6, <1>7, <1>8, <1>9, <1>10, <1>11, <1>12
          DEF TypeOK, Maybe

(* A merge adds one row to the log.                                        *)
LEMMA MergeRoom ==
    ASSUME IInv, NEW s \in Books, NEW t \in Books, merge_books(s, t)
    PROVE  Room'
  <1> DEFINE old == {l \in log : l.target # s}
             new == build_snapshot(s, t)
  <1>1. /\ log' = old \cup {new} /\ merges' = merges + 1 /\ merges \in Nat
        /\ writes' = writes /\ next_row' = next_row
    BY MergeFrame
  <1>2. IsFiniteSet(log) /\ old \subseteq log
    BY DEF IInv, Room
  <1>3. IsFiniteSet(old) /\ Cardinality(old) <= Cardinality(log)
    BY <1>2, FS_Subset
  <1>4. /\ IsFiniteSet(old \cup {new})
        /\ \/ Cardinality(old \cup {new}) = Cardinality(old)
           \/ Cardinality(old \cup {new}) = Cardinality(old) + 1
    BY <1>3, FS_AddElement
  <1> HIDE DEF old, new
  <1>5. /\ Cardinality(old) \in Nat /\ Cardinality(log) \in Nat
        /\ next_row \in Nat /\ writes \in Nat
    BY <1>2, <1>3, FS_CardinalityType DEF IInv, TypeOK
  <1>6. next_row + Cardinality(log) <= 1 + writes + merges
    BY DEF IInv, Room
  <1>7. Cardinality(log') <= Cardinality(log) + 1 /\ Cardinality(log') \in Nat
    BY <1>1, <1>3, <1>4, <1>5
  <1>8. IsFiniteSet(log')
    BY <1>1, <1>4
  <1> QED BY <1>1, <1>5, <1>6, <1>7, <1>8 DEF Room

(* The row of the log is of its time, and the source was there until now.  *)
LEMMA MergeEntries ==
    ASSUME IInv, NEW s \in Books, NEW t \in Books, merge_books(s, t)
    PROVE  Entries' /\ Histories'
  <1>0. PICK new : new = build_snapshot(s, t)
    OBVIOUS
  <1>1. /\ s \in live /\ merges \in Nat /\ merges' = merges + 1
        /\ log' = {l \in log : l.target # s} \cup {new} /\ writes' = writes
        /\ home' = home /\ gained' = gained
        /\ noted' = [c \in Folded |-> noted[c] \ released(s, c)]
    BY <1>0, MergeFrame
  <1>2. /\ new.id = merges + 1 /\ new.source = s /\ new.target = t
        /\ new.source_sort = sort[s] /\ new.target_sort = sort[t]
        /\ new.deleted = deleted_rows(s, t) /\ new.writes = writes
        /\ \A c \in Curated :
              /\ new.source_said[c] = opinion[c][s]
              /\ new.target_said[c] = opinion[c][t]
              /\ new.merged_said[c] = settle(c, opinion[c][s], opinion[c][t])
    BY <1>0, NewEntry
  <1>3. ASSUME NEW l \in log PROVE Logged(l)'
    <2>1. Logged(l) /\ l.id \in Nat
      BY DEF IInv, Entries, TypeOK, Snapshot
    <2>2. l.id <= merges'
      BY <1>1, <2>1 DEF Logged
    <2> QED BY <1>1, <2>1, <2>2 DEF Logged
  <1>4. Logged(new)'
    <2>1. new.id <= merges' /\ new.writes <= writes'
      BY <1>1, <1>2 DEF IInv, TypeOK
    <2>2. /\ new.source_sort \in Author \cup {new.source}
          /\ new.target_sort \in Author \cup {new.target}
      BY <1>2 DEF IInv, TypeOK
    <2>3. \A d \in new.deleted : d.book \in {new.source, new.target}
      BY <1>2 DEF deleted_rows
    <2>4. ASSUME NEW c \in Folded
          PROVE  Said(new.merged_said[c]) \subseteq
                     Said(new.source_said[c]) \cup Said(new.target_said[c])
      <3>1. c \in Curated
        BY Bounds
      <3>2. opinion[c][s] \in Maybe(Says) /\ opinion[c][t] \in Maybe(Says)
        BY <3>1 DEF IInv, TypeOK
      <3> QED BY <1>2, <3>1, <3>2, SettleIsRow
    <2> QED BY <2>1, <2>2, <2>3, <2>4 DEF Logged
  <1>5. \A l \in log : l.source # s
    BY <1>1 DEF IInv, TypeOK
  <1>6. \A l, m \in log' : l.source = m.source => l = m
    BY <1>1, <1>2, <1>5 DEF IInv, Entries
  <1>7. \A l \in log' : Logged(l)'
    BY <1>1, <1>3, <1>4
  <1>8. Histories'
    BY <1>1 DEF IInv, Histories
  <1> QED BY <1>6, <1>7, <1>8 DEF Entries

(* The annotations of the source go to the target.                         *)
LEMMA MergeEvents ==
    ASSUME IInv, NEW s \in Books, NEW t \in Books, merge_books(s, t)
    PROVE  Events'
  <1>0. PICK new : new = build_snapshot(s, t)
    OBVIOUS
  <1>1. /\ s \in live /\ t \in live /\ s # t /\ live \subseteq Books
        /\ live' = live \ {s} /\ log' = {l \in log : l.target # s} \cup {new}
        /\ writes' = writes /\ home' = home
    BY <1>0, MergeFrame
  <1>2. /\ new.source = s /\ new.target = t
        /\ new.events = {e \in Write : event[e] = s}
    BY <1>0, NewEntry
  <1>3. \A e \in Write : event'[e] = IF event[e] = s THEN t ELSE event[e]
    BY DEF merge_books
  <1>4. s # None /\ t # None
    BY Bounds
  <1>5. \A l \in log : l.source \notin live /\ l.target \in live
    BY DEF IInv, TypeOK
  <1>6. ASSUME NEW e \in Write, event'[e] # None
        PROVE  home'[e] \in Books /\ (home'[e] \in live' => event'[e] = home'[e])
    <2>1. home[e] \in Books /\ (home[e] \in live => event[e] = home[e])
      BY <1>3, <1>4, <1>6 DEF IInv, Events
    <2> QED BY <1>1, <1>3, <2>1
  <1>7. ASSUME NEW l \in log', NEW e \in Write
        PROVE  /\ e \in l.events => event'[e] = l.target /\ home'[e] # l.target
               /\ event'[e] # None /\ home'[e] = l.source => e \in l.events
    <2>1. CASE l \in log /\ l.target # s
      <3>1. /\ e \in l.events => event[e] = l.target /\ home[e] # l.target
            /\ event[e] # None /\ home[e] = l.source => e \in l.events
        BY <2>1 DEF IInv, Events
      <3> QED BY <1>1, <1>3, <1>4, <2>1, <3>1
    <2>2. CASE l = new
      <3>1. event[e] # None => (home[e] \in live => event[e] = home[e])
        BY DEF IInv, Events
      <3> QED BY <1>1, <1>2, <1>3, <1>4, <2>2, <3>1
    <2> QED BY <1>1, <2>1, <2>2
  <1>8. ASSUME NEW l \in log', NEW m \in log', NEW e \in Write,
               e \in l.events, e \in m.events
        PROVE  l = m
    <2>1. \A k \in log : k.target # s /\ e \in k.events => event[e] # s
      BY DEF IInv, Events
    <2>2. CASE l \in log /\ m \in log
      BY <1>8, <2>2 DEF IInv, Events
    <2> QED BY <1>1, <1>2, <1>8, <2>1, <2>2
  <1>9. \A e \in Write : e > writes' => event'[e] = None
    BY <1>1, <1>3, <1>4 DEF IInv, Events
  <1> QED BY <1>6, <1>7, <1>8, <1>9 DEF Events

(* The opinion the merge settles on is the one the merges before it had    *)
(* settled on, or the merge is the next that claims it.                    *)
LEMMA MergeSettled ==
    ASSUME IInv, NEW s \in Books, NEW t \in Books, merge_books(s, t)
    PROVE  Settled'
  <1>0. PICK new : new = build_snapshot(s, t)
    OBVIOUS
  <1>1. /\ s \in live /\ t \in live /\ s # t /\ merges \in Nat
        /\ log' = {l \in log : l.target # s} \cup {new} /\ writes' = writes
    BY <1>0, MergeFrame
  <1>2. /\ new.id = merges + 1 /\ new.source = s /\ new.target = t
        /\ \A c \in Curated :
              /\ new.source_said[c] = opinion[c][s]
              /\ new.target_said[c] = opinion[c][t]
              /\ new.merged_said[c] = settle(c, opinion[c][s], opinion[c][t])
    BY <1>0, NewEntry
  <1>3. \A l \in log : /\ l.target \in live /\ l.target \in Books
                       /\ l.id \in Nat /\ l.id <= merges
    BY DEF IInv, TypeOK, Snapshot, Entries, Logged
  <1>4. ASSUME NEW l \in log', NEW c \in Curated, l.writes = writes,
               l.source_said[c] # None, \A m \in log' : ~Claims(m, l, c)
        PROVE  opinion'[c][l.target] = l.merged_said[c]
    <2>1. CASE l = new
      BY <1>1, <1>2, <2>1, MergeOpinions
    <2>2. CASE l \in log /\ l.target # s
      <3>1. \A m \in log : ~Claims(m, l, c)
        BY <1>1, <1>4, <2>2 DEF Claims
      <3>2. opinion[c][l.target] = l.merged_said[c]
        BY <1>4, <2>2, <3>1 DEF IInv, Settled
      <3>3. CASE l.target # t
        BY <1>3, <2>2, <3>2, <3>3, MergeOpinions
      <3>4. CASE l.target = t
        <4>1. ~Claims(new, l, c)
          BY <1>1, <1>4
        <4>2. new.id > l.id
          BY <1>1, <1>2, <1>3, <2>2
        <4>3. opinion[c][s] = None
          BY <1>2, <3>4, <4>1, <4>2 DEF Claims
        <4>4. opinion[c][s] \in Maybe(Says) /\ opinion[c][t] \in Maybe(Says)
          BY DEF IInv, TypeOK
        <4>5. settle(c, opinion[c][s], opinion[c][t]) = opinion[c][t]
          BY <4>3, <4>4, SettleIsRow
        <4> QED BY <1>1, <3>2, <3>4, <4>5, MergeOpinions
      <3> QED BY <3>3, <3>4
    <2> QED BY <1>1, <2>1, <2>2
  <1>5. ASSUME NEW l \in log', NEW c \in Curated, l.writes = writes,
               l.source_said[c] # None, NEW m \in log', Claims(m, l, c),
               \A n \in log' : Claims(n, l, c) => m.id <= n.id
        PROVE  m.target_said[c] = l.merged_said[c]
    <2>1. l # new
      <3>1. \A n \in log' : ~(n.id > new.id)
        BY <1>1, <1>2, <1>3
      <3> QED BY <1>5, <3>1 DEF Claims
    <2>2. l \in log /\ l.target # s
      BY <1>1, <2>1
    <2>3. \A n \in log : Claims(n, l, c) => n \in log' /\ n # new
      <3>1. \A n \in log : n.id # new.id
        BY <1>1, <1>2, <1>3
      <3> QED BY <1>1, <2>2, <3>1 DEF Claims
    <2>4. CASE m = new
      <3>1. \A n \in log : ~Claims(n, l, c)
        <4> SUFFICES ASSUME NEW n \in log, Claims(n, l, c) PROVE FALSE
          OBVIOUS
        <4>1. m.id <= n.id
          BY <1>5, <2>3
        <4> QED BY <1>1, <1>2, <1>3, <2>4, <4>1
      <3>2. opinion[c][l.target] = l.merged_said[c]
        BY <1>5, <2>2, <3>1 DEF IInv, Settled
      <3>3. l.target = t
        BY <1>2, <1>5, <2>4 DEF Claims
      <3> QED BY <1>2, <2>4, <3>2, <3>3
    <2>5. CASE m # new
      <3>1. m \in log /\ \A n \in log : Claims(n, l, c) => m.id <= n.id
        BY <1>1, <1>5, <2>3, <2>5
      <3> QED BY <1>5, <2>2, <3>1 DEF IInv, Settled
    <2> QED BY <2>4, <2>5
  <1>6. \A m, l : \A c \in Curated : Claims(m, l, c)' <=> Claims(m, l, c)
    BY DEF Claims
  <1> QED BY <1>1, <1>4, <1>5, <1>6 DEF Settled

(* What a merge drops of two reviews its entry has saved, and the notes it *)
(* keeps; what the log saved before goes with it only when released.       *)
LEMMA MergeNoted ==
    ASSUME IInv, NEW s \in Books, NEW t \in Books, merge_books(s, t)
    PROVE  Noted'
  <1>0. PICK new : new = build_snapshot(s, t)
    OBVIOUS
  <1>1. /\ s # t /\ log' = {l \in log : l.target # s} \cup {new}
        /\ noted' = [c \in Folded |-> noted[c] \ released(s, c)]
    BY <1>0, MergeFrame
  <1> SUFFICES ASSUME NEW c \in Folded, NEW r \in noted[c],
                      r \notin released(s, c)
               PROVE  \/ \E x \in Books : r \in Said(opinion'[c][x])
                      \/ /\ r[1] # "notes"
                         /\ \E l \in log' : /\ l.source_said[c] # None
                                            /\ r \in Said(l.source_said[c]) \cup
                                                     Said(l.target_said[c])
    BY <1>1 DEF Noted, reviewed, saved
  <1>2. c \in Curated
    BY Bounds
  <1>3. CASE r \in reviewed(c)
    <2>1. PICK b \in Books : r \in Said(opinion[c][b])
      BY <1>3 DEF reviewed
    <2>2. CASE b \notin {s, t}
      <3>1. opinion'[c][b] = opinion[c][b]
        BY <1>1, <1>2, <2>2, MergeOpinions
      <3> QED BY <2>1, <3>1
    <2>3. CASE b \in {s, t}
      <3>1. opinion[c][s] \in Maybe(Says) /\ opinion[c][t] \in Maybe(Says)
        BY <1>2 DEF IInv, TypeOK
      <3>2. r \in Said(opinion[c][s]) \cup Said(opinion[c][t])
        BY <2>1, <2>3
      <3>3. CASE r[1] = "notes"
        <4>1. r \in Said(settle(c, opinion[c][s], opinion[c][t]))
          BY <1>2, <3>1, <3>2, <3>3, SettleIsRow
        <4>2. opinion'[c][t] = settle(c, opinion[c][s], opinion[c][t])
          BY <1>1, <1>2, MergeOpinions
        <4> QED BY <4>1, <4>2
      <3>4. CASE opinion[c][s] = None
        <4>1. opinion'[c][t] = opinion[c][t]
          BY <1>1, <1>2, <3>1, <3>4, MergeOpinions, SettleIsRow
        <4>2. r \in Said(opinion[c][t])
          BY <3>2, <3>4 DEF Said
        <4> QED BY <4>1, <4>2
      <3>5. CASE r[1] # "notes" /\ opinion[c][s] # None
        <4>1. /\ new.source_said[c] = opinion[c][s]
              /\ new.target_said[c] = opinion[c][t]
          BY <1>0, <1>2, NewEntry
        <4> QED BY <1>1, <3>2, <3>5, <4>1
      <3> QED BY <3>3, <3>4, <3>5
    <2> QED BY <2>2, <2>3
  <1>4. CASE r \notin reviewed(c)
    <2>1. r[1] # "notes" /\ r \in saved(log, c)
      BY <1>4 DEF IInv, Noted
    <2>2. PICK l \in log : /\ l.source_said[c] # None
                           /\ r \in Said(l.source_said[c]) \cup
                                    Said(l.target_said[c])
      BY <2>1 DEF saved
    <2>3. l.target # s
      <3> SUFFICES ASSUME l.target = s PROVE FALSE
        OBVIOUS
      <3>1. l \in log \ cascaded(s)
        BY DEF cascaded
      <3>2. r \in saved(log \ cascaded(s), c)
        BY <2>2, <3>1 DEF saved
      <3> QED BY <1>4, <2>1, <3>2 DEF released
    <2> QED BY <1>1, <2>1, <2>2, <2>3
  <1> QED BY <1>3, <1>4

(* What the merge folds is owed by the target from now on, and is there.   *)
LEMMA MergeCovered ==
    ASSUME IInv, NEW s \in Books, NEW t \in Books, merge_books(s, t)
    PROVE  Covered'
  <1>0. PICK new : new = build_snapshot(s, t)
    OBVIOUS
  <1>1. /\ s \in live /\ t \in live /\ s # t /\ live \subseteq Books
        /\ live' = live \ {s} /\ log' = {l \in log : l.target # s} \cup {new}
        /\ writes' = writes /\ gained' = gained /\ merges \in Nat
    BY <1>0, MergeFrame
  <1>2. /\ new.id = merges + 1 /\ new.source = s /\ new.target = t
        /\ new.moved_ground = IF ground[t] = 0 THEN ground[s] ELSE 0
        /\ new.folded_ground = IF ground[t] = 0 THEN 0 ELSE ground[s]
    BY <1>0, NewEntry
  <1>3. /\ ground \in [Books -> Nat] /\ ground' \in [Books -> Nat]
        /\ ground'[s] = 0 /\ ground'[t] = ground[t] + ground[s]
        /\ \A x \in Books \ {s, t} : ground'[x] = ground[x]
        /\ total(ground', Books) = gained
    BY MergeGround
  <1>4. /\ \A l \in log : l.source \in Books /\ l.source # s /\ l.id \in Nat
               /\ l.id <= merges /\ l.folded_ground \in Nat
        /\ Rows(log)
    <2>1. Rows(log)
      BY LogRows
    <2>2. \A l \in log : l.source # s /\ l.id \in Nat
      <3>1. \A l \in Snapshot : l.id \in Nat
        BY Bounds DEF Snapshot
      <3>2. \A l \in log : l \in Snapshot /\ l.source \notin live
        BY DEF IInv, TypeOK
      <3> QED BY <1>1, <3>1, <3>2
    <2>3. \A l \in log : l.id <= merges
      BY DEF IInv, Entries, Logged
    <2> QED BY <2>1, <2>2, <2>3 DEF Rows
  <1>5. Rows(log')
    BY <1>1, <1>2, <1>3, <1>4 DEF Rows
  <1>6. IsFiniteSet(Books)
    BY Bounds
  <1>7. ASSUME NEW u \in live'
        PROVE  total(owed(u)', Books) <= ground'[u]
    <2> DEFINE f == FoldedInto(log, u)
               e == FoldedInto(log', u)
    <2>1. owed(u)' = e /\ owed(u) = f
      BY DEF owed
    <2>2. (\A b \in Books : f[b] \in Nat) /\ (\A b \in Books : e[b] \in Nat)
      BY <1>4, <1>5, FoldedOf
    <2>3. ASSUME NEW b \in Books, b # s \/ u # t
          PROVE  e[b] = f[b]
      <3>1. CASE \E l \in log : l.source = b /\ l.target = u
        <4>1. PICK l \in log : l.source = b /\ l.target = u
          BY <3>1
        <4>2. l \in log'
          BY <1>1, <4>1
        <4>3. f[b] = l.folded_ground
          BY <1>4, <4>1, FoldedOf
        <4>4. e[b] = l.folded_ground
          BY <1>5, <4>1, <4>2, FoldedOf
        <4> QED BY <4>3, <4>4
      <3>2. CASE \A l \in log : ~(l.source = b /\ l.target = u)
        <4>1. \A l \in log' : ~(l.source = b /\ l.target = u)
          BY <1>1, <1>2, <2>3, <3>2
        <4>2. f[b] = 0 /\ e[b] = 0
          BY <1>4, <1>5, <3>2, <4>1, FoldedOf
        <4> QED BY <4>2
      <3> QED BY <3>1, <3>2
    <2>4. u \in live /\ u \in Books /\ u # s
      BY <1>1
    <2>5. total(f, Books) <= ground[u]
      BY <2>1, <2>4 DEF IInv, Covered
    <2>6. CASE u # t
      <3>1. total(e, Books) = total(f, Books)
        <4>1. \A b \in Books : e[b] \in Nat /\ e[b] = f[b]
          BY <2>2, <2>3, <2>6
        <4> HIDE DEF e, f
        <4> QED BY <1>6, <4>1, TotalSame
      <3>2. ground'[u] = ground[u]
        BY <1>3, <2>4, <2>6
      <3> QED BY <2>1, <2>5, <3>1, <3>2
    <2>7. CASE u = t
      <3>1. e[s] = new.folded_ground
        BY <1>1, <1>2, <1>5, <2>7, FoldedOf
      <3>2. f[s] = 0
        BY <1>4, FoldedOf
      <3>3. total(e, Books) = total(f, Books) - f[s] + e[s]
        <4>1. \A b \in Books \ {s} : e[b] = f[b]
          BY <2>3
        <4>2. e[s] \in Nat /\ \A b \in Books : f[b] \in Nat
          BY <2>2
        <4> HIDE DEF e, f
        <4> QED BY <1>6, <4>1, <4>2, TotalChange
      <3>4. total(f, Books) \in Nat
        <4> HIDE DEF f
        <4> QED BY <1>6, <2>2, TotalOf
      <3> HIDE DEF e, f
      <3>5. /\ ground[s] \in Nat /\ ground[t] \in Nat
            /\ ground'[t] = ground[t] + ground[s]
        BY <1>3
      <3>6. new.folded_ground <= ground[s] /\ new.folded_ground \in Nat
        BY <1>2, <3>5
      <3>7. total(e, Books) <= ground'[t]
        BY <2>5, <2>7, <3>1, <3>2, <3>3, <3>4, <3>5, <3>6
      <3> QED BY <2>1, <2>7, <3>7
    <2> QED BY <2>6, <2>7
  <1>8. ASSUME NEW l \in log', NEW k \in log',
               l.moved_ground > 0, k.target = l.target, k.id <= l.id
        PROVE  k.folded_ground = 0
    <2>1. CASE l # new
      <3>1. l \in log /\ k \in log
        BY <1>1, <1>2, <1>4, <1>8, <2>1
      <3> QED BY <1>8, <3>1 DEF IInv, Covered
    <2>2. CASE l = new
      <3>1. ground[t] = 0
        BY <1>2, <1>8, <2>2
      <3>2. CASE k = new
        BY <1>2, <3>1, <3>2
      <3>3. CASE k # new
        <4>1. k \in log /\ k.target = t /\ k.source \in Books /\ k.folded_ground \in Nat
          BY <1>1, <1>2, <1>4, <1>8, <2>2, <3>3
        <4> DEFINE f == FoldedInto(log, t)
        <4>2. f[k.source] = k.folded_ground /\ \A b \in Books : f[b] \in Nat
          BY <1>4, <4>1, FoldedOf
        <4>3. total(f, Books) <= ground[t]
          BY <1>1 DEF IInv, Covered, owed
        <4> HIDE DEF f
        <4>4. f[k.source] <= total(f, Books) /\ total(f, Books) \in Nat
          BY <1>6, <4>1, <4>2, TotalBounds, TotalOf
        <4> QED BY <3>1, <4>1, <4>2, <4>3, <4>4
      <3> QED BY <3>2, <3>3
    <2> QED BY <2>1, <2>2
  <1>9. gained <= writes
    BY DEF IInv, Covered
  <1> QED BY <1>1, <1>3, <1>7, <1>8, <1>9 DEF Covered

(* A merge keeps the invariant.                                            *)
LEMMA MergeKeeps ==
    ASSUME IInv, NEW s \in Books, NEW t \in Books, merge_books(s, t)
    PROVE  IInv'
  BY MergeTypes, MergeRoom, MergeEntries, MergeEvents, MergeSettled,
     MergeNoted, MergeCovered DEF IInv

-----------------------------------------------------------------------------
(* A merge is undone.                                                      *)

(* What becomes of another row of the log when l is undone.                *)
heir(m, l) ==
    IF m \in later(l) /\ \A n \in later(l) : m.id <= n.id
    THEN [m EXCEPT !.target_sort = l.target_sort] ELSE m

(* Rows of the log that differ in the sort key of the target at most.      *)
Alike(x, m) ==
    /\ x.id = m.id /\ x.source = m.source /\ x.target = m.target
    /\ x.source_sort = m.source_sort /\ x.deleted = m.deleted
    /\ x.source_said = m.source_said /\ x.target_said = m.target_said
    /\ x.merged_said = m.merged_said
    /\ x.moved_ground = m.moved_ground /\ x.folded_ground = m.folded_ground
    /\ x.events = m.events /\ x.writes = m.writes

(* What the undo leaves as it was, and the merge it undoes.                *)
LEMMA UndoFrame ==
    ASSUME IInv, NEW l \in log, undo_merge(l)
    PROVE  /\ l \in Snapshot /\ l.source \in Books /\ l.target \in Books
           /\ l.source \notin live /\ l.target \in live /\ l.source # l.target
           /\ live \subseteq Books /\ live' = live \cup {l.source}
           /\ merges' = merges /\ writes' = writes
           /\ home' = home /\ noted' = noted /\ gained' = gained
           /\ ~UndoConflict(l)
           /\ log' = {heir(m, l) : m \in log \ {l}}
  <1>1. l \in Snapshot /\ l.source \notin live /\ l.target \in live /\ live \subseteq Books
    BY DEF IInv, TypeOK
  <1>2. l.source \in Books /\ l.target \in Books /\ l.source # l.target
    BY <1>1 DEF Snapshot
  <1>3. /\ live' = live \cup {l.source} /\ ~UndoConflict(l)
        /\ merges' = merges /\ writes' = writes
        /\ home' = home /\ noted' = noted /\ gained' = gained
    BY DEF undo_merge, history
  <1>4. log' = {heir(m, l) : m \in log \ {l}}
    BY DEF undo_merge, hand_on_author_sort, heir
  <1> QED BY <1>1, <1>2, <1>3, <1>4

(* The other rows stay what they are, but for a sort key handed on.        *)
LEMMA Heirs ==
    ASSUME IInv, NEW l \in log, NEW m \in log
    PROVE  /\ heir(m, l) \in Snapshot /\ Alike(heir(m, l), m)
           /\ \/ heir(m, l).target_sort = m.target_sort
              \/ m.target = l.target /\ heir(m, l).target_sort = l.target_sort
  <1>1. l \in Snapshot /\ m \in Snapshot
    BY DEF IInv, TypeOK
  <1> DEFINE x == [m EXCEPT !.target_sort = l.target_sort]
  <1>2. l.target_sort \in Author \cup Books
    BY <1>1 DEF Snapshot
  <1>3. x \in Snapshot /\ x.target_sort = l.target_sort /\ Alike(x, m)
    BY <1>1, <1>2 DEF Snapshot, Alike
  <1>4. CASE m \in later(l) /\ \A n \in later(l) : m.id <= n.id
    <2>1. heir(m, l) = x
      BY <1>4 DEF heir
    <2>2. m.target = l.target
      BY <1>4 DEF later
    <2> HIDE DEF x
    <2> QED BY <1>3, <2>1, <2>2
  <1>5. CASE ~(m \in later(l) /\ \A n \in later(l) : m.id <= n.id)
    <2>1. heir(m, l) = m
      BY <1>5 DEF heir
    <2> QED BY <1>1, <2>1 DEF Alike
  <1> QED BY <1>4, <1>5

(* There is one row less.                                                  *)
LEMMA UndoShrinks ==
    ASSUME IInv, NEW l \in log, undo_merge(l)
    PROVE  /\ IsFiniteSet(log') /\ Cardinality(log') \in Nat
           /\ Cardinality(log) \in Nat
           /\ Cardinality(log') + 1 <= Cardinality(log)
  <1> DEFINE rest == log \ {l}
             f == [m \in rest |-> heir(m, l)]
  <1>1. IsFiniteSet(log)
    BY DEF IInv, Room
  <1>2. /\ IsFiniteSet(rest) /\ Cardinality(rest) \in Nat
        /\ Cardinality(log) \in Nat /\ Cardinality(rest) = Cardinality(log) - 1
    BY <1>1, OneLess
  <1>3. log' = {heir(m, l) : m \in rest}
    BY UndoFrame
  <1>4. f \in Surjection(rest, log')
    BY <1>3 DEF Surjection
  <1>5. IsFiniteSet(log') /\ Cardinality(log') <= Cardinality(rest)
    BY <1>2, <1>4, FS_Surjection
  <1> HIDE DEF rest
  <1>6. Cardinality(log') \in Nat
    BY <1>5, FS_CardinalityType
  <1> QED BY <1>2, <1>5, <1>6

(* The opinions after an undo: each side has its own where the source had  *)
(* one, and then the target's was the one the merge settled on and no      *)
(* later merge claims it.                                                  *)
LEMMA UndoOpinions ==
    ASSUME IInv, NEW l \in log, undo_merge(l)
    PROVE  /\ opinion' \in [Curated -> [Books -> Maybe(Says)]]
           /\ \A c \in Curated, x \in Books : opinion'[c][x] =
                 IF l.source_said[c] = None THEN opinion[c][x]
                 ELSE IF x = l.target THEN l.target_said[c]
                 ELSE IF x = l.source THEN l.source_said[c]
                 ELSE opinion[c][x]
           /\ \A c \in Curated : l.source_said[c] # None =>
                 /\ opinion[c][l.target] = l.merged_said[c]
                 /\ \A m \in log : ~Claims(m, l, c)
  <1>1. opinion \in [Curated -> [Books -> Maybe(Says)]]
    BY DEF IInv, TypeOK
  <1>2. l.source \in Books /\ l.target \in Books /\ l.source # l.target /\ l \in Snapshot
    BY UndoFrame
  <1>3. \A c \in Curated : /\ l.source_said[c] \in Maybe(Says)
                           /\ l.target_said[c] \in Maybe(Says)
    BY <1>2 DEF Snapshot, Opinions
  <1>4. opinion' = [c \in Curated |->
            IF l.source_said[c] = None THEN opinion[c]
            ELSE [opinion[c] EXCEPT ![l.source] = l.source_said[c],
                                    ![l.target] = l.target_said[c]]]
    BY DEF undo_merge, restore_curation
  <1>5. ~UndoConflict(l)
    BY UndoFrame
  <1>6. \A c \in Curated : l.source_said[c] # None =>
            /\ opinion[c][l.target] = l.merged_said[c]
            /\ \A m \in log : ~Claims(m, l, c)
    BY <1>5 DEF UndoConflict, later, Claims
  <1> QED BY <1>1, <1>2, <1>3, <1>4, <1>6

(* The row the merge moved goes home and deleted rows come back, each to   *)
(* one of the two books.                                                   *)
LEMMA UndoPositions ==
    ASSUME IInv, NEW l \in log, undo_merge(l)
    PROVE  /\ progress' \in [Books -> Maybe(Position)]
           /\ \A b \in Books \ {l.source, l.target} : progress'[b] = progress[b]
           /\ next_row' \in {next_row, next_row + 1}
           /\ next_row' \in 1 .. MaxWrites + MaxMerges + 1
           /\ Room'
  <1>1. progress \in [Books -> Maybe(Position)]
    BY DEF IInv, TypeOK
  <1>2. /\ l \in Snapshot /\ l.source \in Books /\ l.target \in Books
        /\ l.moved \in Maybe(Position)
        /\ l.deleted \subseteq [row : Position, book : Books]
        /\ \A d \in l.deleted : d.book \in {l.source, l.target}
    BY UndoFrame DEF Snapshot, IInv, Entries, Logged
  <1>3. /\ next_row \in Nat /\ next_row >= 1
        /\ writes \in Nat /\ writes <= MaxWrites
        /\ merges \in Nat /\ merges <= MaxMerges
    BY Bounds DEF IInv, TypeOK
  <1>4. /\ IsFiniteSet(log') /\ Cardinality(log') \in Nat /\ Cardinality(log) \in Nat
        /\ Cardinality(log') + 1 <= Cardinality(log)
        /\ next_row + Cardinality(log) <= 1 + writes + merges
        /\ writes' = writes /\ merges' = merges
    BY UndoShrinks, UndoFrame DEF IInv, Room
  <1>5. next_row <= MaxWrites + MaxMerges
    BY <1>3, <1>4, Bounds
  <1>6. /\ progress' = reinserted(moved_back(l), l.deleted)
        /\ next_row' = IF l.moved # None /\ changed_since(l)
                       THEN next_row + 1 ELSE next_row
    BY DEF undo_merge, restore_relocation
  <1> DEFINE rows == moved_back(l)
  <1>7. /\ rows \in [Books -> Maybe(Position)]
        /\ \A b \in Books \ {l.source, l.target} : rows[b] = progress[b]
    <2>1. CASE l.moved = None
      BY <1>1, <2>1 DEF moved_back
    <2>2. CASE l.moved # None /\ changed_since(l)
      <3> DEFINE row == [id |-> next_row, at |-> l.moved.at]
      <3>1. l.moved \in Position
        BY <1>2, <2>2 DEF Maybe
      <3>2. row \in Position
        BY <1>3, <1>5, <3>1, Bounds DEF Position
      <3>3. rows = [progress EXCEPT ![l.source] = row]
        BY <2>2 DEF moved_back
      <3> HIDE DEF rows, row
      <3> QED BY <1>1, <1>2, <3>2, <3>3 DEF Maybe
    <2>3. CASE l.moved # None /\ ~changed_since(l) /\ progress[l.target] = l.moved
      <3>1. rows = [progress EXCEPT ![l.source] = l.moved, ![l.target] = None]
        BY <2>3 DEF moved_back
      <3> HIDE DEF rows
      <3> QED BY <1>1, <1>2, <3>1 DEF Maybe
    <2>4. CASE l.moved # None /\ ~changed_since(l) /\ progress[l.target] # l.moved
      BY <1>1, <2>4 DEF moved_back
    <2> QED BY <2>1, <2>2, <2>3, <2>4
  <1> HIDE DEF rows
  <1>8. ASSUME NEW b \in Books
        PROVE  /\ progress'[b] \in Maybe(Position)
               /\ b \notin {l.source, l.target} => progress'[b] = rows[b]
    <2>1. progress'[b] = IF rows[b] = None /\ \E d \in l.deleted : d.book = b
                         THEN (CHOOSE d \in l.deleted : d.book = b).row ELSE rows[b]
      BY <1>6 DEF reinserted, rows
    <2>2. CASE \E d \in l.deleted : d.book = b
      <3> DEFINE d == CHOOSE x \in l.deleted : x.book = b
      <3>1. d \in l.deleted /\ d.book = b
        BY <2>2
      <3> HIDE DEF d
      <3>2. d.row \in Position /\ b \in {l.source, l.target}
        BY <1>2, <3>1
      <3>3. progress'[b] \in {d.row, rows[b]}
        BY <2>1 DEF d
      <3> QED BY <1>7, <3>2, <3>3 DEF Maybe
    <2>3. CASE ~ \E d \in l.deleted : d.book = b
      BY <1>7, <2>1, <2>3
    <2> QED BY <2>2, <2>3
  <1>9. progress' \in [Books -> Maybe(Position)]
    <2>1. progress' = [b \in Books |-> progress'[b]]
      BY <1>6 DEF reinserted
    <2> QED BY <1>8, <2>1
  <1>10. next_row' \in {next_row, next_row + 1}
    BY <1>6
  <1>11. next_row' \in 1 .. MaxWrites + MaxMerges + 1
    BY <1>3, <1>5, <1>10, Bounds
  <1>12. Room'
    <2>1. next_row' \in Nat /\ next_row' <= next_row + 1
      BY <1>3, <1>10
    <2>2. next_row' + Cardinality(log') <= 1 + writes' + merges'
      BY <1>3, <1>4, <2>1
    <2> QED BY <1>4, <2>2 DEF Room
  <1> QED BY <1>7, <1>8, <1>9, <1>10, <1>11, <1>12

(* Both books have authors of the catalogue, and sort keys of their own.   *)
LEMMA UndoNames ==
    ASSUME IInv, NEW l \in log, undo_merge(l)
    PROVE  /\ authors' \in [Books -> Names]
           /\ \A x \in Books \ {l.source, l.target} : authors'[x] = authors[x]
           /\ DOMAIN sort' = Books /\ \A b \in Books : sort'[b] \in Author \cup {b}
  <1>1. /\ authors \in [Books -> Names]
        /\ DOMAIN sort = Books /\ \A b \in Books : sort[b] \in Author \cup {b}
    BY DEF IInv, TypeOK
  <1>2. /\ l.source \in Books /\ l.target \in Books /\ l.source # l.target
        /\ l.authors \in Names
        /\ l.source_sort \in Author \cup {l.source}
        /\ l.target_sort \in Author \cup {l.target}
    BY UndoFrame DEF Snapshot, IInv, Entries, Logged
  <1> DEFINE own == without(authors[l.target], Range(l.added))
  <1>3. authors' = [authors EXCEPT ![l.source] = l.authors, ![l.target] = own]
    BY <1>1, <1>2 DEF undo_merge, restore_links
  <1>4. own \in Names
    BY <1>1, <1>2, NamesStay
  <1> HIDE DEF own
  <1>5. /\ authors' \in [Books -> Names]
        /\ \A x \in Books \ {l.source, l.target} : authors'[x] = authors[x]
    BY <1>1, <1>2, <1>3, <1>4
  <1> DEFINE key == sort_of(authors'[l.target], l.target_sort)
  <1>6. sort' = [sort EXCEPT ![l.source] = l.source_sort, ![l.target] = key]
    BY DEF undo_merge, restore_links
  <1>7. key \in Author \cup {l.target}
    <2>1. key \in Author \cup {l.target_sort}
      BY <1>2, <1>5, SortOf
    <2> QED BY <1>2, <2>1
  <1> HIDE DEF key
  <1>8. DOMAIN sort' = Books /\ \A b \in Books : sort'[b] \in Author \cup {b}
    BY <1>1, <1>2, <1>6, <1>7
  <1> QED BY <1>5, <1>8

(* What the log says a merge folded is on the target.                      *)
LEMMA FoldedIsThere ==
    ASSUME IInv, NEW l \in log
    PROVE  l.folded_ground \in Nat /\ l.folded_ground <= ground[l.target]
  <1>1. /\ l.source \in Books /\ l.target \in live /\ l.folded_ground \in Nat
        /\ live \subseteq Books /\ ground[l.target] \in Nat
    BY Bounds DEF IInv, TypeOK, Snapshot
  <1> DEFINE f == FoldedInto(log, l.target)
  <1>2. (\A b \in Books : f[b] \in Nat) /\ f[l.source] = l.folded_ground
    BY LogRows, FoldedOf
  <1>3. total(f, Books) <= ground[l.target]
    BY <1>1 DEF IInv, Covered, owed
  <1> HIDE DEF f
  <1>4. f[l.source] <= total(f, Books) /\ total(f, Books) \in Nat
    BY <1>1, <1>2, Bounds, TotalBounds, TotalOf
  <1> QED BY <1>1, <1>2, <1>3, <1>4

(* An undo gives the source the ground it moved, or as much as it folded,  *)
(* and takes as much from the target.                                      *)
LEMMA UndoGround ==
    ASSUME IInv, NEW l \in log, undo_merge(l)
    PROVE  /\ ground \in [Books -> Nat] /\ ground' \in [Books -> Nat]
           /\ \A x \in Books \ {l.source, l.target} : ground'[x] = ground[x]
           /\ l.moved_ground > 0 => ground'[l.target] = 0
           /\ ~(l.moved_ground > 0) =>
                  ground'[l.target] = ground[l.target] - l.folded_ground
           /\ total(ground', Books) = gained
           /\ ground' \in [Books -> 0 .. MaxWrites]
  <1> DEFINE s == l.source
             t == l.target
             n == IF l.moved_ground > 0 THEN ground[t] ELSE l.folded_ground
  <1>1. /\ s \in Books /\ t \in Books /\ s # t /\ s \notin live
    BY UndoFrame
  <1>2. ground \in [Books -> Nat] /\ ground[s] = 0
    BY <1>1, Bounds DEF IInv, TypeOK
  <1>3. n \in Nat /\ n <= ground[t] /\ ground[t] \in Nat
    BY <1>1, <1>2, FoldedIsThere
  <1>4. ground' = [ground EXCEPT ![s] = n, ![t] = ground[t] - n]
    <2>1. ground' = IF l.moved_ground > 0
                    THEN [ground EXCEPT ![s] = ground[t], ![t] = 0]
                    ELSE [ground EXCEPT ![s] = l.folded_ground, ![t] = unfolded(l)]
      BY DEF undo_merge, restore_relocation
    <2>2. CASE l.moved_ground > 0
      <3>1. ground[t] - n = 0
        BY <1>3, <2>2
      <3> QED BY <2>1, <2>2, <3>1
    <2>3. CASE ~(l.moved_ground > 0)
      <3>1. n = l.folded_ground
        BY <2>3
      <3>2. ground[t] - n \in Int /\ 0 <= ground[t] - n
        BY <1>3
      <3>3. Max({0, ground[t] - n}) = ground[t] - n
        BY <3>2, MaxOfTwo
      <3>4. unfolded(l) = ground[t] - n
        BY <3>1, <3>3 DEF unfolded
      <3> QED BY <2>1, <2>3, <3>1, <3>4
    <2> QED BY <2>2, <2>3
  <1>5. l.moved_ground > 0 => ground[t] - n = 0
    BY <1>3
  <1>6. ~(l.moved_ground > 0) => n = l.folded_ground
    OBVIOUS
  <1> HIDE DEF s, t, n
  <1>7. /\ ground' \in [Books -> Nat]
        /\ ground'[s] = n /\ ground'[t] = ground[t] - n
        /\ \A x \in Books \ {s, t} : ground'[x] = ground[x]
    BY <1>1, <1>2, <1>3, <1>4
  <1>8. total(ground', Books) = gained
    <2> DEFINE half == [ground EXCEPT ![s] = n]
    <2>1. /\ half[s] = n /\ half[t] = ground[t]
          /\ \A x \in Books : half[x] \in Nat
          /\ \A x \in Books \ {s} : half[x] = ground[x]
      BY <1>1, <1>2, <1>3
    <2>2. \A x \in Books \ {t} : ground'[x] = half[x]
      BY <1>7, <2>1
    <2>3. IsFiniteSet(Books) /\ \A x \in Books : ground[x] \in Nat /\ ground'[x] \in Nat
      BY <1>2, <1>7, Bounds
    <2> HIDE DEF half
    <2>4. total(half, Books) = total(ground, Books) - ground[s] + half[s]
      <3>1. half[s] \in Nat /\ \A x \in Books \ {s} : half[x] = ground[x]
        BY <1>3, <2>1
      <3>2. \A x \in Books : ground[x] \in Nat
        BY <2>3
      <3> QED BY <1>1, <2>3, <3>1, <3>2, TotalChange
    <2>5. total(ground', Books) = total(half, Books) - half[t] + ground'[t]
      <3>1. ground'[t] \in Nat /\ \A x \in Books \ {t} : ground'[x] = half[x]
        BY <1>1, <2>2, <2>3
      <3>2. \A x \in Books : half[x] \in Nat
        BY <2>1
      <3> QED BY <1>1, <2>3, <3>1, <3>2, TotalChange
    <2>6. total(ground, Books) = gained /\ gained \in Nat
      BY DEF IInv, Covered, Histories
    <2> QED BY <1>2, <1>3, <1>7, <2>1, <2>4, <2>5, <2>6
  <1>9. \A x \in Books : ground'[x] <= MaxWrites
    <2>1. \A x \in Books : ground'[x] <= total(ground', Books)
      BY <1>7, Bounds, TotalBounds
    <2>2. gained <= writes /\ gained \in Nat /\ writes \in Nat /\ writes <= MaxWrites
      BY Bounds DEF IInv, TypeOK, Covered, Histories
    <2> QED BY <1>7, <1>8, <2>1, <2>2, Bounds
  <1>10. ground' \in [Books -> 0 .. MaxWrites]
    BY <1>7, <1>9, Bounds
  <1> QED BY <1>2, <1>5, <1>6, <1>7, <1>8, <1>10 DEF s, t

(* What the other merges folded is still there after the undo.             *)
LEMMA UndoCovered ==
    ASSUME IInv, NEW l \in log, undo_merge(l)
    PROVE  Covered'
  <1>1. /\ l.source \in Books /\ l.target \in Books /\ l.source # l.target
        /\ l.target \in live /\ live \subseteq Books
        /\ l.source \notin live /\ live' = live \cup {l.source}
        /\ log' = {heir(m, l) : m \in log \ {l}}
        /\ writes' = writes /\ gained' = gained /\ ~UndoConflict(l)
    BY UndoFrame
  <1>2. Rows(log) /\ IsFiniteSet(Books)
    BY LogRows, Bounds
  <1>3. \A m \in log : Alike(heir(m, l), m)
    BY Heirs
  <1>4. Rows(log')
    <2>1. \A x \in log' : x.source \in Books /\ x.folded_ground \in Nat
      BY <1>1, <1>2, <1>3 DEF Rows, Alike
    <2>2. ASSUME NEW x \in log', NEW y \in log', x.source = y.source
          PROVE  x = y
      <3>1. PICK m \in log : x = heir(m, l)
        BY <1>1
      <3>2. PICK n \in log : y = heir(n, l)
        BY <1>1
      <3>3. m = n
        BY <1>2, <1>3, <2>2, <3>1, <3>2 DEF Rows, Alike
      <3> QED BY <3>1, <3>2, <3>3
    <2> QED BY <2>1, <2>2 DEF Rows
  <1>5. /\ ground \in [Books -> Nat] /\ ground' \in [Books -> Nat]
        /\ \A x \in Books \ {l.source, l.target} : ground'[x] = ground[x]
        /\ l.moved_ground > 0 => ground'[l.target] = 0
        /\ ~(l.moved_ground > 0) =>
               ground'[l.target] = ground[l.target] - l.folded_ground
        /\ total(ground', Books) = gained
    BY UndoGround
  <1>6. \A k \in log : k.target \in live /\ k.id \in Nat /\ k.folded_ground \in Nat
    <2>1. \A k \in log : k \in Snapshot /\ k.target \in live
      BY DEF IInv, TypeOK
    <2>2. \A k \in Snapshot : k.id \in Nat
      BY Bounds DEF Snapshot
    <2> QED BY <1>2, <2>1, <2>2 DEF Rows
  <1>7. ASSUME NEW u \in live'
        PROVE  total(owed(u)', Books) <= ground'[u]
    <2> DEFINE f == FoldedInto(log, u)
               e == FoldedInto(log', u)
    <2>1. owed(u)' = e /\ owed(u) = f
      BY DEF owed
    <2>2. (\A b \in Books : f[b] \in Nat) /\ (\A b \in Books : e[b] \in Nat)
      BY <1>2, <1>4, FoldedOf
    <2>3. ASSUME NEW b \in Books, b # l.source \/ u # l.target
          PROVE  e[b] = f[b]
      <3>1. CASE \E m \in log : m.source = b /\ m.target = u
        <4>1. PICK m \in log : m.source = b /\ m.target = u
          BY <3>1
        <4>2. PICK x : x = heir(m, l)
          OBVIOUS
        <4>3. x \in log' /\ Alike(x, m)
          BY <1>1, <1>3, <2>3, <4>1, <4>2
        <4>4. f[b] = m.folded_ground
          BY <1>2, <4>1, FoldedOf
        <4>5. x.source = b /\ x.target = u /\ x.folded_ground = m.folded_ground
          BY <4>1, <4>3 DEF Alike
        <4>6. e[b] = x.folded_ground
          BY <1>4, <4>3, <4>5, FoldedOf
        <4> QED BY <4>4, <4>5, <4>6
      <3>2. CASE \A m \in log : ~(m.source = b /\ m.target = u)
        <4>1. \A x \in log' : ~(x.source = b /\ x.target = u)
          BY <1>1, <1>3, <3>2 DEF Alike
        <4>2. f[b] = 0 /\ e[b] = 0
          BY <1>2, <1>4, <3>2, <4>1, FoldedOf
        <4> QED BY <4>2
      <3> QED BY <3>1, <3>2
    <2>4. CASE u = l.source
      <3>1. \A b \in Books : e[b] = 0
        <4> TAKE b \in Books
        <4>1. \A m \in log : ~(m.source = b /\ m.target = u)
          BY <1>1, <1>6, <2>4
        <4>2. f[b] = 0
          BY <1>2, <4>1, FoldedOf
        <4> QED BY <1>1, <2>3, <2>4, <4>2
      <3> HIDE DEF e
      <3>2. total(e, Books) = 0
        BY <1>2, <2>2, <3>1, TotalBounds
      <3> QED BY <1>1, <1>5, <2>1, <2>4, <3>2
    <2>5. CASE u # l.source /\ u # l.target
      <3>1. u \in live /\ u \in Books /\ ground'[u] = ground[u]
        BY <1>1, <1>5, <2>5
      <3>2. total(f, Books) <= ground[u]
        BY <2>1, <3>1 DEF IInv, Covered
      <3>3. total(e, Books) = total(f, Books)
        <4>1. \A b \in Books : e[b] \in Nat /\ e[b] = f[b]
          BY <2>2, <2>3, <2>5
        <4> HIDE DEF e, f
        <4> QED BY <1>2, <4>1, TotalSame
      <3> QED BY <2>1, <3>1, <3>2, <3>3
    <2>6. CASE u = l.target
      <3>1. total(f, Books) <= ground[u]
        BY <1>1, <2>1, <2>6 DEF IInv, Covered
      <3>2. f[l.source] = l.folded_ground
        BY <1>2, <2>6, FoldedOf
      <3>3. e[l.source] = 0
        <4>1. \A x \in log' : x.source # l.source
          BY <1>1, <1>2, <1>3 DEF Rows, Alike
        <4> QED BY <1>1, <1>4, <4>1, FoldedOf
      <3>4. CASE l.moved_ground > 0
        <4>1. \A k \in log : k.target = l.target => k.folded_ground = 0
          <5> TAKE k \in log
          <5> HAVE k.target = l.target
          <5>1. CASE k.id <= l.id
            BY <3>4, <5>1 DEF IInv, Covered
          <5>2. CASE k.id > l.id
            <6>1. k \in later(l)
              BY <5>2 DEF later
            <6>2. ~(k.folded_ground > 0)
              BY <1>1, <3>4, <6>1 DEF UndoConflict
            <6> QED BY <1>6, <6>2
          <5> QED BY <1>6, <5>1, <5>2
        <4>2. \A b \in Books : e[b] = 0
          <5> TAKE b \in Books
          <5>1. CASE b = l.source
            BY <3>3, <5>1
          <5>2. CASE b # l.source /\ \E m \in log : m.source = b /\ m.target = u
            <6>1. PICK m \in log : m.source = b /\ m.target = u
              BY <5>2
            <6>2. f[b] = m.folded_ground
              BY <1>2, <6>1, FoldedOf
            <6>3. m.folded_ground = 0
              BY <2>6, <4>1, <6>1
            <6> QED BY <2>3, <5>2, <6>2, <6>3
          <5>3. CASE b # l.source /\ \A m \in log : ~(m.source = b /\ m.target = u)
            <6>1. f[b] = 0
              BY <1>2, <5>3, FoldedOf
            <6> QED BY <2>3, <5>3, <6>1
          <5> QED BY <5>1, <5>2, <5>3
        <4> HIDE DEF e
        <4>3. total(e, Books) = 0
          BY <1>2, <2>2, <4>2, TotalBounds
        <4> QED BY <1>5, <2>1, <2>6, <3>4, <4>3
      <3>5. CASE ~(l.moved_ground > 0)
        <4>1. total(e, Books) = total(f, Books) - f[l.source] + e[l.source]
          <5>1. \A b \in Books \ {l.source} : e[b] = f[b]
            BY <2>3
          <5>2. e[l.source] \in Nat /\ \A b \in Books : f[b] \in Nat
            BY <1>1, <2>2
          <5> HIDE DEF e, f
          <5> QED BY <1>1, <1>2, <5>1, <5>2, TotalChange
        <4>2. total(f, Books) \in Nat
          <5> HIDE DEF f
          <5> QED BY <1>2, <2>2, TotalOf
        <4> HIDE DEF e, f
        <4>3. ground[u] \in Nat /\ l.folded_ground \in Nat
          BY <1>1, <1>5, <1>6, <2>6
        <4>4. ground'[u] = ground[u] - l.folded_ground
          BY <1>5, <2>6, <3>5
        <4>5. total(e, Books) <= ground'[u]
          BY <3>1, <3>2, <3>3, <4>1, <4>2, <4>3, <4>4
        <4> QED BY <2>1, <4>5
      <3> QED BY <3>4, <3>5
    <2> QED BY <2>4, <2>5, <2>6
  <1>8. ASSUME NEW x \in log', NEW y \in log',
               x.moved_ground > 0, y.target = x.target, y.id <= x.id
        PROVE  y.folded_ground = 0
    <2>1. PICK m \in log : x = heir(m, l)
      BY <1>1
    <2>2. PICK k \in log : y = heir(k, l)
      BY <1>1
    <2>3. /\ m.moved_ground > 0 /\ k.target = m.target /\ k.id <= m.id
          /\ y.folded_ground = k.folded_ground
      BY <1>3, <1>8, <2>1, <2>2 DEF Alike
    <2> QED BY <2>3 DEF IInv, Covered
  <1>9. gained <= writes
    BY DEF IInv, Covered
  <1> QED BY <1>1, <1>5, <1>7, <1>8, <1>9 DEF Covered

(* An undo keeps the types.                                                *)
LEMMA UndoTypes ==
    ASSUME IInv, NEW l \in log, undo_merge(l)
    PROVE  TypeOK'
  <1>1. /\ l \in Snapshot /\ l.source \in Books /\ l.target \in Books
        /\ l.source # l.target /\ l.source \notin live /\ l.target \in live
        /\ live \subseteq Books /\ live' = live \cup {l.source}
        /\ merges' = merges /\ writes' = writes
        /\ log' = {heir(m, l) : m \in log \ {l}}
    BY UndoFrame
  <1>2. holder' \in [Books -> live']
    <2>1. holder' = [f \in Books |->
              IF f \in l.files /\ holder[f] = l.target THEN l.source ELSE holder[f]]
      BY DEF undo_merge, move_files_back
    <2> QED BY <1>1, <2>1 DEF IInv, TypeOK
  <1>3. guard' \in [Books -> Maybe(Guard)]
    <2>1. guard' = [g \in Books |->
              IF g = l.source THEN None
              ELSE IF g \in l.guards THEN [book |-> l.source, has_key |-> FALSE]
              ELSE guard[g]]
      BY DEF undo_merge, restore_attach_ledger
    <2>2. [book |-> l.source, has_key |-> FALSE] \in Guard
      BY <1>1 DEF Guard
    <2>3. \A g \in Books : guard[g] \in Maybe(Guard)
      BY DEF IInv, TypeOK
    <2> QED BY <2>1, <2>2, <2>3 DEF Maybe
  <1>4. event' \in [Write -> Maybe(live')]
    <2>1. event' = [e \in Write |-> IF e \in returned(l) THEN l.source ELSE event[e]]
      BY DEF undo_merge, restore_relocation
    <2> QED BY <1>1, <2>1 DEF IInv, TypeOK, Maybe
  <1>5. ASSUME NEW b \in Books \ live'
        PROVE  /\ progress'[b] = None /\ ground'[b] = 0 /\ authors'[b] = <<>>
               /\ \A c \in Curated : opinion'[c][b] = None
    <2>1. b \in Books \ live /\ b \in Books \ {l.source, l.target}
      BY <1>1
    <2>2. /\ progress[b] = None /\ ground[b] = 0 /\ authors[b] = <<>>
          /\ \A c \in Curated : opinion[c][b] = None
      BY <2>1 DEF IInv, TypeOK
    <2>3. progress'[b] = None /\ ground'[b] = 0 /\ authors'[b] = <<>>
      BY <2>1, <2>2, UndoPositions, UndoGround, UndoNames
    <2>4. \A c \in Curated : opinion'[c][b] = opinion[c][b]
      BY <2>1, UndoOpinions
    <2> QED BY <2>2, <2>3, <2>4
  <1>6. /\ log' \subseteq Snapshot
        /\ \A x \in log' : x.target \in live' /\ x.source \notin live'
        /\ \A x, y \in log' : x.id = y.id => x = y
    <2>1. \A m \in log : heir(m, l) \in Snapshot /\ Alike(heir(m, l), m)
      BY Heirs
    <2>2. \A m \in log \ {l} : /\ m.target \in live /\ m.source \notin live
                               /\ m.source # l.source
      BY DEF IInv, TypeOK, Entries
    <2>3. log' \subseteq Snapshot
      BY <1>1, <2>1
    <2>4. \A x \in log' : x.target \in live' /\ x.source \notin live'
      BY <1>1, <2>1, <2>2 DEF Alike
    <2>5. ASSUME NEW x \in log', NEW y \in log', x.id = y.id
          PROVE  x = y
      <3>1. PICK m \in log : x = heir(m, l)
        BY <1>1
      <3>2. PICK n \in log : y = heir(n, l)
        BY <1>1
      <3>3. m.id = n.id
        BY <2>1, <2>5, <3>1, <3>2 DEF Alike
      <3>4. m = n
        BY <3>3 DEF IInv, TypeOK
      <3> QED BY <3>1, <3>2, <3>4
    <2> QED BY <2>3, <2>4, <2>5
  <1>7. /\ progress' \in [Books -> Maybe(Position)]
        /\ opinion' \in [Curated -> [Books -> Maybe(Says)]]
        /\ ground' \in [Books -> 0 .. MaxWrites]
        /\ authors' \in [Books -> Names]
        /\ DOMAIN sort' = Books /\ \A b \in Books : sort'[b] \in Author \cup {b}
        /\ next_row' \in 1 .. MaxWrites + MaxMerges + 1
    BY UndoPositions, UndoGround, UndoNames, UndoOpinions
  <1>8. live' \subseteq Books /\ merges' \in 0 .. MaxMerges /\ writes' \in 0 .. MaxWrites
    BY <1>1 DEF IInv, TypeOK
  <1> QED BY <1>2, <1>3, <1>4, <1>5, <1>6, <1>7, <1>8 DEF TypeOK, Maybe

(* What is left in the log is as good as it was.                           *)
LEMMA UndoEntries ==
    ASSUME IInv, NEW l \in log, undo_merge(l)
    PROVE  Entries' /\ Histories'
  <1>1. /\ merges' = merges /\ writes' = writes
        /\ home' = home /\ noted' = noted /\ gained' = gained
        /\ log' = {heir(m, l) : m \in log \ {l}}
    BY UndoFrame
  <1>2. ASSUME NEW x \in log' PROVE Logged(x)'
    <2>1. PICK m \in log : x = heir(m, l)
      BY <1>1
    <2>2. /\ Alike(x, m)
          /\ x.target_sort = m.target_sort \/
             (m.target = l.target /\ x.target_sort = l.target_sort)
      BY <2>1, Heirs
    <2>3. Logged(m) /\ Logged(l)
      BY DEF IInv, Entries
    <2>4. x.target_sort \in Author \cup {x.target}
      BY <2>2, <2>3 DEF Alike, Logged
    <2> QED BY <1>1, <2>2, <2>3, <2>4 DEF Alike, Logged
  <1>3. ASSUME NEW x \in log', NEW y \in log', x.source = y.source
        PROVE  x = y
    <2>1. PICK m \in log : x = heir(m, l)
      BY <1>1
    <2>2. PICK n \in log : y = heir(n, l)
      BY <1>1
    <2>3. m.source = n.source
      BY <1>3, <2>1, <2>2, Heirs DEF Alike
    <2>4. m = n
      BY <2>3 DEF IInv, Entries
    <2> QED BY <2>1, <2>2, <2>4
  <1> QED BY <1>1, <1>2, <1>3 DEF Entries, IInv, Histories

(* The annotations the merge moved go home.                                *)
LEMMA UndoEvents ==
    ASSUME IInv, NEW l \in log, undo_merge(l)
    PROVE  Events'
  <1>1. /\ l.source \in Books /\ l.target \in Books /\ l.source # l.target
        /\ l.target \in live /\ live \subseteq Books
        /\ l.source \notin live /\ live' = live \cup {l.source}
        /\ log' = {heir(m, l) : m \in log \ {l}}
        /\ writes' = writes /\ home' = home
    BY UndoFrame
  <1>2. /\ l.source # None /\ l.target # None
    BY <1>1, Bounds
  <1>3. \A e \in Write : /\ e \in l.events => event[e] = l.target /\ home[e] # l.target
                         /\ event[e] # None /\ home[e] = l.source => e \in l.events
    BY DEF IInv, Events
  <1>4. \A e \in Write : event'[e] = IF e \in l.events THEN l.source ELSE event[e]
    <2>1. \A e \in Write : event'[e] = IF e \in returned(l) THEN l.source ELSE event[e]
      BY DEF undo_merge, restore_relocation
    <2>2. \A e \in Write : e \in returned(l) <=> e \in l.events
      BY <1>3 DEF returned
    <2> QED BY <2>1, <2>2
  <1>5. ASSUME NEW e \in Write, event'[e] # None
        PROVE  home'[e] \in Books /\ (home'[e] \in live' => event'[e] = home'[e])
    <2>1. event[e] # None
      BY <1>2, <1>3, <1>4, <1>5
    <2>2. home[e] \in Books /\ (home[e] \in live => event[e] = home[e])
      BY <2>1 DEF IInv, Events
    <2> QED BY <1>1, <1>3, <1>4, <2>1, <2>2
  <1>6. ASSUME NEW x \in log', NEW e \in Write
        PROVE  /\ e \in x.events => event'[e] = x.target /\ home'[e] # x.target
               /\ event'[e] # None /\ home'[e] = x.source => e \in x.events
    <2>1. PICK m \in log \ {l} : x = heir(m, l)
      BY <1>1
    <2>2. x.events = m.events /\ x.target = m.target /\ x.source = m.source
      BY <2>1, Heirs DEF Alike
    <2>3. /\ e \in m.events => event[e] = m.target /\ home[e] # m.target
          /\ event[e] # None /\ home[e] = m.source => e \in m.events
          /\ e \in m.events => e \notin l.events
      BY <2>1 DEF IInv, Events
    <2> QED BY <1>1, <1>2, <1>3, <1>4, <2>2, <2>3
  <1>7. ASSUME NEW x \in log', NEW y \in log', NEW e \in Write,
               e \in x.events, e \in y.events
        PROVE  x = y
    <2>1. PICK m \in log : x = heir(m, l)
      BY <1>1
    <2>2. PICK n \in log : y = heir(n, l)
      BY <1>1
    <2>3. e \in m.events /\ e \in n.events
      BY <1>7, <2>1, <2>2, Heirs DEF Alike
    <2>4. m = n
      BY <2>3 DEF IInv, Events
    <2> QED BY <2>1, <2>2, <2>4
  <1>8. \A e \in Write : e > writes' => event'[e] = None
    BY <1>1, <1>2, <1>3, <1>4 DEF IInv, Events
  <1> QED BY <1>5, <1>6, <1>7, <1>8 DEF Events

(* The opinion the undo puts back is the one the merge before had settled  *)
(* on.                                                                     *)
LEMMA UndoSettled ==
    ASSUME IInv, NEW l \in log, undo_merge(l)
    PROVE  Settled'
  <1>1. /\ l.source \in Books /\ l.target \in Books /\ l.source # l.target
        /\ l.source \notin live /\ writes' = writes /\ l.target \in live
        /\ log' = {heir(m, l) : m \in log \ {l}}
    BY UndoFrame
  <1>2. \A m \in log : m.target \in live /\ m.target \in Books /\ m.id \in Nat
    <2>1. \A m \in log : m \in Snapshot /\ m.target \in live
      BY DEF IInv, TypeOK
    <2>2. \A m \in Snapshot : m.target \in Books /\ m.id \in Nat
      BY Bounds DEF Snapshot
    <2> QED BY <2>1, <2>2
  <1>3. \A m, k \in log : m.id = k.id => m = k
    BY DEF IInv, TypeOK
  <1>4. ASSUME NEW x \in log', NEW c \in Curated, x.writes = writes,
               x.source_said[c] # None
        PROVE  /\ (\A y \in log' : ~Claims(y, x, c)) =>
                      opinion'[c][x.target] = x.merged_said[c]
               /\ \A y \in log' :
                      /\ Claims(y, x, c)
                      /\ \A z \in log' : Claims(z, x, c) => y.id <= z.id
                      => y.target_said[c] = x.merged_said[c]
    <2>1. PICK k \in log \ {l} : x = heir(k, l)
      BY <1>1
    <2>2. Alike(x, k)
      BY <2>1, Heirs
    <2>3. k.writes = writes /\ k.source_said[c] # None
      BY <1>4, <2>2 DEF Alike
    <2>4. /\ (\A m \in log : ~Claims(m, k, c)) =>
                 opinion[c][k.target] = k.merged_said[c]
          /\ \A m \in log :
                 /\ Claims(m, k, c)
                 /\ \A n \in log : Claims(n, k, c) => m.id <= n.id
                 => m.target_said[c] = k.merged_said[c]
      BY <2>3 DEF IInv, Settled
    <2>5. \A m \in log \ {l} : /\ heir(m, l) \in log' /\ Alike(heir(m, l), m)
                               /\ Claims(heir(m, l), x, c) <=> Claims(m, k, c)
      BY <1>1, <2>2, Heirs DEF Alike, Claims
    <2>6. Claims(l, k, c) =>
              /\ l.source_said[c] # None /\ k.target = l.target
              /\ \A m \in log \ {l} : ~Claims(m, k, c) \/ m.id < l.id
      <3>1. Claims(l, k, c) => l.source_said[c] # None /\ k.target = l.target
        BY DEF Claims
      <3>2. l.source_said[c] # None => \A m \in log : ~Claims(m, l, c)
        BY UndoOpinions
      <3>3. \A m \in log \ {l} : Claims(m, k, c) /\ Claims(l, k, c)
                /\ ~Claims(m, l, c) => m.id < l.id
        BY <1>2, <1>3 DEF Claims
      <3> QED BY <3>1, <3>2, <3>3
    <2>7. ASSUME \A y \in log' : ~Claims(y, x, c)
          PROVE  opinion'[c][x.target] = x.merged_said[c]
      <3>1. \A m \in log \ {l} : ~Claims(m, k, c)
        BY <2>5, <2>7
      <3>2. CASE Claims(l, k, c)
        <4>1. l.target_said[c] = k.merged_said[c]
          <5>1. \A n \in log : Claims(n, k, c) => l.id <= n.id
            BY <1>2, <3>1
          <5> QED BY <2>4, <3>2, <5>1
        <4>2. opinion'[c][l.target] = l.target_said[c]
          BY <1>1, <2>6, <3>2, UndoOpinions
        <4> QED BY <2>2, <2>6, <3>2, <4>1, <4>2 DEF Alike
      <3>3. CASE ~Claims(l, k, c)
        <4>1. opinion[c][k.target] = k.merged_said[c]
          BY <2>4, <3>1, <3>3
        <4>2. opinion'[c][k.target] = opinion[c][k.target]
          <5>1. k.target # l.source /\ k.target \in Books
            BY <1>1, <1>2, <2>1
          <5>2. l.source_said[c] # None => k.target # l.target
            <6> SUFFICES ASSUME l.source_said[c] # None, k.target = l.target
                         PROVE  FALSE
              OBVIOUS
            <6>1. ~Claims(k, l, c)
              BY <2>1, UndoOpinions
            <6>2. ~(k.id > l.id) /\ ~(l.id > k.id)
              BY <2>3, <3>3, <6>1 DEF Claims
            <6> QED BY <1>2, <1>3, <2>1, <6>2
          <5> QED BY <5>1, <5>2, UndoOpinions
        <4> QED BY <2>2, <4>1, <4>2 DEF Alike
      <3> QED BY <3>2, <3>3
    <2>8. ASSUME NEW y \in log', Claims(y, x, c),
                 \A z \in log' : Claims(z, x, c) => y.id <= z.id
          PROVE  y.target_said[c] = x.merged_said[c]
      <3>1. PICK m \in log \ {l} : y = heir(m, l)
        BY <1>1
      <3>2. Claims(m, k, c) /\ Alike(y, m)
        BY <2>5, <2>8, <3>1
      <3>3. \A n \in log \ {l} : Claims(n, k, c) => m.id <= n.id
        BY <2>5, <2>8, <3>2 DEF Alike
      <3>4. Claims(l, k, c) => m.id <= l.id
        BY <1>2, <2>6, <3>2
      <3>5. m.target_said[c] = k.merged_said[c]
        BY <2>4, <3>2, <3>3, <3>4
      <3> QED BY <2>2, <3>2, <3>5 DEF Alike
    <2> QED BY <2>7, <2>8
  <1>5. \A m, k : \A c \in Curated : Claims(m, k, c)' <=> Claims(m, k, c)
    BY DEF Claims
  <1> QED BY <1>1, <1>4, <1>5 DEF Settled

(* What the settled review said one of the two books says again, as they   *)
(* do what the entry saved.                                                *)
LEMMA UndoNoted ==
    ASSUME IInv, NEW l \in log, undo_merge(l)
    PROVE  Noted'
  <1>1. /\ l.source \in Books /\ l.target \in Books /\ l.source # l.target
        /\ live \subseteq Books /\ l.source \notin live
        /\ noted' = noted
    BY UndoFrame
  <1> SUFFICES ASSUME NEW c \in Folded, NEW r \in noted[c]
               PROVE  \/ \E x \in Books : r \in Said(opinion'[c][x])
                      \/ /\ r[1] # "notes"
                         /\ \E m \in log' : /\ m.source_said[c] # None
                                            /\ r \in Said(m.source_said[c]) \cup
                                                     Said(m.target_said[c])
    BY <1>1 DEF Noted, reviewed, saved
  <1>2. c \in Curated
    BY Bounds
  <1>3. ASSUME r \in Said(l.source_said[c]) \cup Said(l.target_said[c]),
               l.source_said[c] # None
        PROVE  \E x \in Books : r \in Said(opinion'[c][x])
    <2>1. /\ opinion'[c][l.source] = l.source_said[c]
          /\ opinion'[c][l.target] = l.target_said[c]
      BY <1>1, <1>2, <1>3, UndoOpinions
    <2> QED BY <1>1, <1>3, <2>1
  <1>4. CASE r \in reviewed(c)
    <2>1. PICK b \in Books : r \in Said(opinion[c][b])
      BY <1>4 DEF reviewed
    <2>2. b # l.source
      BY <1>1, <1>2, <2>1 DEF IInv, TypeOK, Said
    <2>3. CASE b # l.target \/ l.source_said[c] = None
      <3>1. opinion'[c][b] = opinion[c][b]
        BY <1>2, <2>2, <2>3, UndoOpinions
      <3> QED BY <2>1, <3>1
    <2>4. CASE b = l.target /\ l.source_said[c] # None
      <3>1. opinion[c][b] = l.merged_said[c]
        BY <1>2, <2>4, UndoOpinions
      <3>2. Said(l.merged_said[c]) \subseteq
                Said(l.source_said[c]) \cup Said(l.target_said[c])
        BY DEF IInv, Entries, Logged
      <3> QED BY <1>3, <2>1, <2>4, <3>1, <3>2
    <2> QED BY <2>3, <2>4
  <1>5. CASE r \notin reviewed(c)
    <2>1. r[1] # "notes" /\ r \in saved(log, c)
      BY <1>5 DEF IInv, Noted
    <2>2. PICK m \in log : /\ m.source_said[c] # None
                           /\ r \in Said(m.source_said[c]) \cup
                                    Said(m.target_said[c])
      BY <2>1 DEF saved
    <2>3. CASE m # l
      <3>1. heir(m, l) \in log'
        BY <2>3, UndoFrame
      <3>2. /\ heir(m, l).source_said = m.source_said
            /\ heir(m, l).target_said = m.target_said
        BY Heirs DEF Alike
      <3> QED BY <2>1, <2>2, <3>1, <3>2
    <2>4. CASE m = l
      BY <1>3, <2>2, <2>4
    <2> QED BY <2>3, <2>4
  <1> QED BY <1>4, <1>5

(* An undo keeps the invariant.                                            *)
LEMMA UndoKeeps ==
    ASSUME IInv, NEW l \in log, undo_merge(l)
    PROVE  IInv'
  BY UndoTypes, UndoPositions, UndoEntries, UndoEvents, UndoSettled,
     UndoNoted, UndoCovered DEF IInv

-----------------------------------------------------------------------------
(* The theorems.                                                           *)

(* Every step keeps the invariant.                                         *)
LEMMA StepSound == IInv /\ [Next]_vars => IInv'
  <1> SUFFICES ASSUME IInv, [Next]_vars PROVE IInv'
    OBVIOUS
  <1>1. CASE \E b \in live :
                \/ upsert_progress(b) \/ add_ground(b) \/ create_annotation(b)
                \/ \E t \in Curated : \E field \in fields(t) :
                      set_opinion(t, field, b)
    BY <1>1, ProgressKeeps, GroundKeeps, AnnotationKeeps, OpinionKeeps
  <1>2. CASE \E s, t \in Books : merge_books(s, t)
    BY <1>2, MergeKeeps
  <1>3. CASE \E l \in log : undo_merge(l)
    BY <1>3, UndoKeeps
  <1>4. CASE UNCHANGED vars
    <2>1. /\ live' = live /\ holder' = holder /\ guard' = guard
          /\ authors' = authors /\ sort' = sort /\ progress' = progress
          /\ opinion' = opinion /\ ground' = ground /\ event' = event
          /\ log' = log /\ next_row' = next_row /\ merges' = merges
          /\ writes' = writes /\ home' = home /\ noted' = noted /\ gained' = gained
      BY <1>4 DEF vars, tables, history
    <2>2. TypeOK' /\ Histories' /\ Room'
      BY <2>1 DEF IInv, TypeOK, Histories, Room
    <2>3. Entries' /\ Events' /\ Noted'
      BY <2>1, NotedStays DEF IInv, Entries, Logged, Events
    <2>4. Settled'
      BY <2>1 DEF IInv, Settled, Claims
    <2>5. Covered'
      BY <2>1 DEF IInv, Covered, owed
    <2> QED BY <2>2, <2>3, <2>4, <2>5 DEF IInv
  <1> QED BY <1>1, <1>2, <1>3, <1>4 DEF Next

(* The inductive invariant holds in every state of every history of        *)
(* writes, merges and undos.                                               *)
THEOREM Invariance == Spec => []IInv
  BY InitSound, StepSound, PTL DEF Spec

(* The tables, the log and the counters keep their types, a book that is   *)
(* gone has nothing left, and every open merge has its target.             *)
THEOREM TypeCorrectness == Spec => []TypeOK
  <1>1. IInv => TypeOK
    BY DEF IInv
  <1> QED BY <1>1, Invariance, PTL

(* No merge and no undo, in any order, leaves an annotation on a book that *)
(* is gone, or away from the book it was made on when that one is there.   *)
THEOREM NoneStranded == Spec => []EventOnItsBook
  <1>1. IInv => EventOnItsBook
    <2> SUFFICES ASSUME IInv, NEW e \in Write, event[e] # None
                 PROVE  event[e] \in live /\ (home[e] \in live => event[e] = home[e])
      BY DEF EventOnItsBook
    <2>1. event[e] \in live
      BY DEF IInv, TypeOK, Maybe
    <2> QED BY <2>1 DEF IInv, Events
  <1> QED BY <1>1, Invariance, PTL

(* All the ground the reader covered is on some book, once; every note not *)
(* replaced is in a review, and stars and texts not replaced are in one or *)
(* in the copy that an open merge puts back, until that copy is let go.    *)
THEOREM AllKept == Spec => []NothingLost
  <1>1. IInv => NothingLost
    <2> SUFFICES ASSUME IInv PROVE NothingLost
      OBVIOUS
    <2>1. total(ground, Books) = gained
      BY DEF IInv, Covered
    <2> QED BY <2>1 DEF NothingLost, IInv, Noted
  <1> QED BY <1>1, Invariance, PTL

(* The newest merge into a book is never refused its undo while the reader *)
(* has written nothing since: what it settled on is still on the target.   *)
THEOREM NewestUndoable == Spec => []LastMergeUndoable
  <1>1. IInv => LastMergeUndoable
    <2> SUFFICES ASSUME IInv, NEW l \in log,
                        \A m \in log : m.target = l.target => m.id <= l.id,
                        l.writes = writes
                 PROVE  ~UndoConflict(l)
      BY DEF LastMergeUndoable
    <2>1. \A m \in log : m.id \in Nat
      <3>1. \A m \in Snapshot : m.id \in Nat
        BY Bounds DEF Snapshot
      <3> QED BY <3>1 DEF IInv, TypeOK
    <2>2. later(l) = {}
      BY <2>1 DEF later
    <2>3. \A c \in Curated : l.source_said[c] # None =>
              opinion[c][l.target] = l.merged_said[c]
      <3>1. \A c \in Curated : \A m \in log : ~Claims(m, l, c)
        BY <2>2 DEF Claims, later
      <3> QED BY <3>1 DEF IInv, Settled
    <2> QED BY <2>2, <2>3 DEF UndoConflict
  <1> QED BY <1>1, Invariance, PTL

-----------------------------------------------------------------------------
(* What the log says of the books as they were when the first of the open  *)
(* merges began.                                                           *)

(* The first author has the sort key.                                      *)
KeyOf(names, key) == names # <<>> => key = Head(names)

Keyed ==
    /\ sort \in [Books -> Author \cup Books]
    /\ \A b \in live : KeyOf(authors[b], sort[b])
    /\ \A l \in log : KeyOf(l.authors, l.source_sort)

Contents ==
    [live : SUBSET Books, holder : [Books -> Books], authors : [Books -> Names],
     sort : [Books -> Author \cup Books],
     progress : [Books -> Maybe(Position)],
     opinion : [Curated -> [Books -> Maybe(Says)]],
     ground : [Books -> Nat], event : [Write -> Maybe(Books)]]

(* A row of the log, but for the sort key that an undo may hand on to it.  *)
bare(l) == [l EXCEPT !.target_sort = None]
Facts == {bare(l) : l \in log}

(* Every row of positions has an id of its own, the deleted ones included, *)
(* and a merge deletes no more than one.                                   *)
Ids(rows, next) ==
    /\ \A b \in Books : rows[b] # None => rows[b].id < next
    /\ \A b, x \in Books :
          rows[b] # None /\ rows[x] # None /\ rows[b].id = rows[x].id => b = x

Apart(rows, next, deleted) == \A d \in deleted :
    /\ d.row.id < next
    /\ \A b \in Books : rows[b] # None => rows[b].id # d.row.id

RowIds ==
    /\ Ids(progress, next_row)
    /\ \A l \in Facts : Apart(progress, next_row, l.deleted)
    /\ \A l, m \in Facts : \A d \in l.deleted, e \in m.deleted :
          d.row.id = e.row.id => l = m
    /\ \A l \in Facts : \A d, e \in l.deleted : d = e

(* The books that are there or have no merge to come back by.              *)
Standing(rows) == {b \in Books : \A l \in rows : l.source # b}

(* Nobody merged a book that others had been merged into: a source was     *)
(* there then, and so was its target.                                      *)
LiveSince(was, rows) ==
    /\ live = {b \in Standing(rows) : b \in was.live}
    /\ \A l \in rows : l.source \in was.live

(* A file and an annotation are where they were, or on the target of the   *)
(* merge that absorbed that book.                                          *)
FilesSince(was, rows) == \A f \in Books :
    /\ was.holder[f] \in Standing(rows) => holder[f] = was.holder[f]
    /\ \A l \in rows :
          /\ f \in l.files <=> was.holder[f] = l.source
          /\ f \in l.files => holder[f] = l.target

EventsSince(was, rows) == \A e \in Write :
    /\ was.event[e] = None \/ was.event[e] \in Standing(rows) =>
           event[e] = was.event[e]
    /\ \A l \in rows :
          /\ e \in l.events <=> was.event[e] = l.source
          /\ e \in l.events => event[e] = l.target

(* Without the authors that the open merges added a book has those it had. *)
AddedTo(rows, b) == UNION {Range(l.added) : l \in {m \in rows : m.target = b}}

AuthorsSince(was, rows) ==
    /\ \A b \in Standing(rows) :
          without(authors[b], AddedTo(rows, b)) = was.authors[b]
    /\ \A l \in rows : l.authors = was.authors[l.source]

(* The first merge into a book knows the sort key it had.                  *)
SortSince(was, rows) ==
    /\ \A b \in Standing(rows) :
          (\A l \in rows : l.target # b) => sort[b] = was.sort[b]
    /\ \A l \in rows : l.source_sort = was.sort[l.source]
    /\ \A l \in rows :
          (\A m \in rows : m.target = l.target => l.id <= m.id) =>
              l.target_sort = was.sort[l.target]
    /\ \A b \in was.live : KeyOf(was.authors[b], was.sort[b])

(* Merges that did something to a book, one after the other: each found    *)
(* what the one before had left, and the last left what there is now.      *)
Chain(links, first, last) ==
    /\ links = {} => last = first
    /\ \A m \in links :
          /\ (\A n \in links : n.id <= m.id) => last = m.to
          /\ (\A n \in links : m.id <= n.id) => m.from = first
          /\ \A n \in links :
                /\ m.id < n.id
                /\ \A k \in links : k.id <= m.id \/ n.id <= k.id
                => n.from = m.to

(* A row, as a set: there may be none.                                     *)
There(row) == {row} \ {None}

(* The rows that a merge deleted on a book, and the merges that moved a    *)
(* position to it: each deleted what the one before had moved.             *)
Deleted(m, b) == {d.row : d \in {x \in m.deleted : x.book = b}}
Moves(rows, b) ==
    {[id |-> m.id, from |-> Deleted(m, b), to |-> {m.moved}] :
        m \in {l \in rows : l.target = b /\ l.moved # None}}

ProgressSince(was, rows) ==
    /\ \A b \in Standing(rows) :
          Chain(Moves(rows, b), There(was.progress[b]), There(progress[b]))
    /\ \A l \in rows :
          IF l.moved = None
          THEN /\ Deleted(l, l.source) = There(was.progress[l.source])
               /\ Deleted(l, l.target) = {}
          ELSE l.moved = was.progress[l.source] /\ Deleted(l, l.source) = {}

(* The same of the opinions that the merges settled.                       *)
Settles(rows, b, c) ==
    {[id |-> m.id, from |-> m.target_said[c], to |-> m.merged_said[c]] :
        m \in {l \in rows : l.target = b /\ l.source_said[c] # None}}

OpinionSince(was, rows) == \A c \in Curated :
    /\ \A b \in Standing(rows) :
          Chain(Settles(rows, b, c), was.opinion[c][b], opinion[c][b])
    /\ \A l \in rows : l.source_said[c] = was.opinion[c][l.source]

(* A book has its own ground and that of the books merged into it, and a   *)
(* bucket was moved only to a book that had none.                          *)
TakenFrom(rows, counts, t) ==
    [b \in Books |-> IF \E l \in rows : l.source = b /\ l.target = t
                     THEN counts[b] ELSE 0]

GroundSince(was, rows) ==
    /\ \A b \in Standing(rows) :
          ground[b] = was.ground[b] + total(TakenFrom(rows, was.ground, b), Books)
    /\ \A l \in rows :
          /\ l.moved_ground + l.folded_ground = was.ground[l.source]
          /\ l.moved_ground > 0 => was.ground[l.target] = 0
          /\ \A m \in rows :
                m.target = l.target /\ m.moved_ground > 0 /\ l.moved_ground > 0
                => m = l

(* All that an undo goes by but the sort keys, which it hands on.          *)
Since(was, rows) ==
    /\ LiveSince(was, rows) /\ FilesSince(was, rows) /\ EventsSince(was, rows)
    /\ AuthorsSince(was, rows) /\ ProgressSince(was, rows)
    /\ OpinionSince(was, rows) /\ GroundSince(was, rows)

(* The books as they were before the first of the open merges.             *)
Open ==
    before # None /\ ~mixed =>
        before \in Contents /\ Since(before, Facts) /\ SortSince(before, log)

(* The invariant behind the round trip.                                    *)
Undoable == IInv /\ Keyed /\ RowIds /\ Open

(* What the rows of a log are.                                             *)
FactRow(x) ==
    /\ x.id \in Nat /\ x.source \in Books /\ x.target \in Books
    /\ x.authors \in Names /\ x.added \in Names
    /\ x.moved_ground \in Nat /\ x.folded_ground \in Nat
    /\ \A d \in x.deleted : d.book \in {x.source, x.target} /\ d.row \in Position

Sound(rows) ==
    /\ \A x \in rows : FactRow(x)
    /\ \A x \in rows : x.target \in live /\ x.source \notin live /\ x.id <= merges
    /\ \A x, y \in rows : x.id = y.id => x = y
    /\ \A x, y \in rows : x.source = y.source => x = y

(* A row is what it was, but for the sort key.                             *)
LEMMA BareOf ==
    ASSUME NEW l \in Snapshot, NEW x, x = bare(l)
    PROVE  /\ x.id = l.id /\ x.source = l.source /\ x.target = l.target
           /\ x.files = l.files /\ x.guards = l.guards
           /\ x.authors = l.authors /\ x.added = l.added
           /\ x.source_sort = l.source_sort
           /\ x.moved = l.moved /\ x.deleted = l.deleted
           /\ x.source_said = l.source_said /\ x.target_said = l.target_said
           /\ x.merged_said = l.merged_said
           /\ x.moved_ground = l.moved_ground
           /\ x.folded_ground = l.folded_ground /\ x.events = l.events
  BY DEF bare, Snapshot

(* Whatever sort key it was handed.                                        *)
LEMMA BareHeir ==
    ASSUME NEW m \in Snapshot, NEW l
    PROVE  bare(heir(m, l)) = bare(m)
  BY DEF bare, heir, Snapshot

(* The log has such rows.                                                  *)
LEMMA FactsSound ==
    ASSUME IInv
    PROVE  Sound(Facts)
  <1>1. \A l \in log : /\ l \in Snapshot /\ Logged(l)
                       /\ l.target \in live /\ l.source \notin live
    BY DEF IInv, TypeOK, Entries
  <1>2. \A l \in Snapshot :
            /\ l.id \in Nat /\ l.source \in Books /\ l.target \in Books
            /\ l.authors \in Names /\ l.added \in Names
            /\ l.moved_ground \in Nat /\ l.folded_ground \in Nat
            /\ l.deleted \in SUBSET [row : Position, book : Books]
    BY Bounds DEF Snapshot
  <1>3. \A l, m \in log : l.id = m.id \/ l.source = m.source => l = m
    BY DEF IInv, TypeOK, Entries
  <1>4. ASSUME NEW x \in Facts
        PROVE  /\ FactRow(x)
               /\ x.target \in live /\ x.source \notin live /\ x.id <= merges
    <2>1. PICK l \in log : x = bare(l)
      BY DEF Facts
    <2>2. l \in Snapshot /\ Logged(l)
      BY <1>1
    <2>3. /\ x.id = l.id /\ x.source = l.source /\ x.target = l.target
          /\ x.authors = l.authors /\ x.added = l.added
          /\ x.moved_ground = l.moved_ground
          /\ x.folded_ground = l.folded_ground /\ x.deleted = l.deleted
      BY <2>1, <2>2, BareOf
    <2>4. \A d \in l.deleted : d.row \in Position
      BY <1>2, <2>2
    <2>5. \A d \in x.deleted : d.book \in {x.source, x.target} /\ d.row \in Position
      BY <2>2, <2>3, <2>4 DEF Logged
    <2>6. x.id <= merges
      BY <2>2, <2>3 DEF Logged
    <2> QED BY <1>1, <1>2, <2>2, <2>3, <2>5, <2>6 DEF FactRow
  <1>5. ASSUME NEW x \in Facts, NEW y \in Facts, x.id = y.id \/ x.source = y.source
        PROVE  x = y
    <2>1. PICK l \in log : x = bare(l)
      BY DEF Facts
    <2>2. PICK m \in log : y = bare(m)
      BY DEF Facts
    <2>3. x.id = l.id /\ x.source = l.source /\ y.id = m.id /\ y.source = m.source
      BY <1>1, <2>1, <2>2, BareOf
    <2> QED BY <1>3, <1>5, <2>1, <2>2, <2>3
  <1> QED BY <1>4, <1>5 DEF Sound

(* What a merge has written down.                                          *)
LEMMA MergeFact ==
    ASSUME IInv, NEW s \in Books, NEW t \in Books, merge_books(s, t),
           NEW x, x = bare(build_snapshot(s, t))
    PROVE  /\ x.id = merges + 1 /\ x.source = s /\ x.target = t
           /\ x.files = held_files(s)
           /\ x.authors = authors[s] /\ x.added = added_links(s, t)
           /\ x.source_sort = sort[s]
           /\ x.moved = IF kept(progress[s], progress[t]) = progress[s]
                        THEN progress[s] ELSE None
           /\ x.deleted = deleted_rows(s, t)
           /\ \A c \in Curated :
                 /\ x.source_said[c] = opinion[c][s]
                 /\ x.target_said[c] = opinion[c][t]
                 /\ x.merged_said[c] = settle(c, opinion[c][s], opinion[c][t])
           /\ x.moved_ground = IF ground[t] = 0 THEN ground[s] ELSE 0
           /\ x.folded_ground = IF ground[t] = 0 THEN 0 ELSE ground[s]
           /\ x.events = {e \in Write : event[e] = s}
  <1>1. PICK l : l = build_snapshot(s, t)
    OBVIOUS
  <1>2. l \in Snapshot
    BY <1>1, NewEntryTyped
  <1>3. /\ l.files = held_files(s) /\ l.authors = authors[s]
        /\ l.added = added_links(s, t)
        /\ l.moved = IF kept(progress[s], progress[t]) = progress[s]
                     THEN progress[s] ELSE None
    BY <1>1 DEF build_snapshot
  <1> HIDE DEF kept, deleted_rows, settle
  <1> QED BY <1>1, <1>2, <1>3, NewEntry, BareOf

(* The rows after a merge and after an undo.                               *)
LEMMA MergeFacts ==
    ASSUME IInv, NEW s \in Books, NEW t \in Books, merge_books(s, t)
    PROVE  Facts' = {x \in Facts : x.target # s} \cup {bare(build_snapshot(s, t))}
  <1>1. log' = {l \in log : l.target # s} \cup {build_snapshot(s, t)}
    BY MergeFrame
  <1>2. \A l \in log : bare(l).target = l.target
    BY BareOf DEF IInv, TypeOK
  <1> QED BY <1>1, <1>2 DEF Facts

(* The row of the undone merge is gone, and the others say what they said. *)
LEMMA UndoFacts ==
    ASSUME IInv, NEW l \in log, undo_merge(l)
    PROVE  Facts' = Facts \ {bare(l)}
  <1>1. log' = {heir(m, l) : m \in log \ {l}}
    BY UndoFrame
  <1>2. \A m \in log : m \in Snapshot /\ bare(heir(m, l)) = bare(m)
    BY BareHeir DEF IInv, TypeOK
  <1>3. \A m \in log : bare(m) = bare(l) => m = l
    <2>1. \A m \in log : bare(m).id = m.id
      BY <1>2, BareOf
    <2>2. \A m \in log : m.id = l.id => m = l
      BY DEF IInv, TypeOK
    <2> QED BY <2>1, <2>2
  <1>4. Facts' = {bare(m) : m \in log \ {l}}
    BY <1>1, <1>2 DEF Facts
  <1> QED BY <1>3, <1>4 DEF Facts

(* The links and the keys after a merge.                                   *)
LEMMA MergeLinks ==
    ASSUME IInv, NEW s \in Books, NEW t \in Books, merge_books(s, t)
    PROVE  /\ authors'[t] = authors[t] \o added_links(s, t)
           /\ \A x \in Books \ {s, t} : authors'[x] = authors[x]
           /\ sort'[t] = IF authors[t] = <<>>
                         THEN sort_of(authors'[t], sort[t]) ELSE sort[t]
           /\ \A x \in Books \ {t} : sort'[x] = sort[x]
  <1>1. authors \in [Books -> Names] /\ DOMAIN sort = Books
    BY DEF IInv, TypeOK
  <1>2. s # t
    BY MergeFrame
  <1>3. authors' = [authors EXCEPT ![t] = @ \o added_links(s, t), ![s] = <<>>]
    BY DEF merge_books
  <1>4. sort' = [sort EXCEPT ![t] = IF authors[t] = <<>>
                                    THEN sort_of(authors'[t], @) ELSE @]
    BY DEF merge_books
  <1>5. authors'[t] = authors[t] \o added_links(s, t)
    BY <1>1, <1>2, <1>3
  <1>6. \A x \in Books \ {s, t} : authors'[x] = authors[x]
    BY <1>1, <1>3
  <1>7. /\ sort'[t] = IF authors[t] = <<>>
                      THEN sort_of(authors'[t], sort[t]) ELSE sort[t]
        /\ \A x \in Books \ {t} : sort'[x] = sort[x]
    BY <1>1, <1>4
  <1> QED BY <1>5, <1>6, <1>7

(* And after an undo.                                                      *)
LEMMA UndoLinks ==
    ASSUME IInv, NEW l \in log, undo_merge(l)
    PROVE  /\ authors'[l.source] = l.authors
           /\ authors'[l.target] = without(authors[l.target], Range(l.added))
           /\ \A x \in Books \ {l.source, l.target} : authors'[x] = authors[x]
           /\ sort'[l.source] = l.source_sort
           /\ sort'[l.target] = sort_of(authors'[l.target], l.target_sort)
           /\ \A x \in Books \ {l.source, l.target} : sort'[x] = sort[x]
  <1>1. authors \in [Books -> Names] /\ DOMAIN sort = Books
    BY DEF IInv, TypeOK
  <1>2. l.source \in Books /\ l.target \in Books /\ l.source # l.target
    BY UndoFrame
  <1>3. authors' = [authors EXCEPT ![l.source] = l.authors,
                                   ![l.target] = without(@, Range(l.added))]
    BY DEF undo_merge, restore_links
  <1>4. sort' = [sort EXCEPT
                    ![l.source] = l.source_sort,
                    ![l.target] = sort_of(authors'[l.target], l.target_sort)]
    BY DEF undo_merge, restore_links
  <1>5. /\ authors'[l.source] = l.authors
        /\ authors'[l.target] = without(authors[l.target], Range(l.added))
    BY <1>1, <1>2, <1>3
  <1>6. \A x \in Books \ {l.source, l.target} : authors'[x] = authors[x]
    BY <1>1, <1>3
  <1>7. /\ sort'[l.source] = l.source_sort
        /\ sort'[l.target] = sort_of(authors'[l.target], l.target_sort)
        /\ \A x \in Books \ {l.source, l.target} : sort'[x] = sort[x]
    BY <1>1, <1>2, <1>4
  <1> QED BY <1>5, <1>6, <1>7

(* A merge and an undo give every book its first author's key.             *)
LEMMA MergeKeyed ==
    ASSUME IInv, Keyed, NEW s \in Books, NEW t \in Books, merge_books(s, t)
    PROVE  Keyed'
  <1>1. /\ s \in live /\ t \in live /\ s # t /\ live \subseteq Books
        /\ live' = live \ {s}
        /\ log' = {l \in log : l.target # s} \cup {build_snapshot(s, t)}
    BY MergeFrame
  <1>2. ASSUME NEW b \in live' PROVE KeyOf(authors'[b], sort'[b])
    <2>1. KeyOf(authors[b], sort[b])
      BY <1>1 DEF Keyed
    <2>2. CASE b # t
      BY <1>1, <2>1, <2>2, MergeLinks
    <2>3. CASE b = t
      <3>1. CASE authors[t] = <<>>
        BY <2>3, <3>1, MergeLinks DEF KeyOf, sort_of
      <3>2. CASE authors[t] # <<>>
        <4>1. authors[t] \in Seq(Author) /\ added_links(s, t) \in Seq(Author)
          BY <1>1, MergeNames DEF IInv, TypeOK, Names
        <4>2. Head(authors[t] \o added_links(s, t)) = Head(authors[t])
          BY <3>2, <4>1
        <4> QED BY <2>1, <2>3, <3>2, <4>2, MergeLinks DEF KeyOf
      <3> QED BY <3>1, <3>2
    <2> QED BY <2>2, <2>3
  <1>3. ASSUME NEW l \in log' PROVE KeyOf(l.authors, l.source_sort)
    <2>1. CASE l \in log
      BY <2>1 DEF Keyed
    <2>2. CASE l = build_snapshot(s, t)
      <3>1. l.authors = authors[s] /\ l.source_sort = sort[s]
        BY <2>2 DEF build_snapshot
      <3> QED BY <1>1, <3>1 DEF Keyed
    <2> QED BY <1>1, <2>1, <2>2
  <1>4. sort' \in [Books -> Author \cup Books]
    <2>1. sort \in [Books -> Author \cup Books]
      BY DEF Keyed
    <2>2. \A b \in Books : sort'[b] \in Author \cup Books
      BY MergeNames
    <2>3. sort' = [sort EXCEPT ![t] = sort'[t]]
      BY <2>1 DEF merge_books
    <2> QED BY <2>1, <2>2, <2>3
  <1> QED BY <1>2, <1>3, <1>4 DEF Keyed

(* Each of the two books has the key of its own first author again.        *)
LEMMA UndoKeyed ==
    ASSUME IInv, Keyed, NEW l \in log, undo_merge(l)
    PROVE  Keyed'
  <1>1. /\ l.source \in Books /\ l.target \in Books /\ l.source # l.target
        /\ live \subseteq Books /\ live' = live \cup {l.source}
        /\ log' = {heir(m, l) : m \in log \ {l}}
    BY UndoFrame
  <1>2. ASSUME NEW b \in live' PROVE KeyOf(authors'[b], sort'[b])
    <2>1. CASE b = l.source
      BY <1>1, <2>1, UndoLinks DEF Keyed
    <2>2. CASE b = l.target
      BY <1>1, <2>2, UndoLinks DEF KeyOf, sort_of
    <2>3. CASE b # l.source /\ b # l.target
      BY <1>1, <2>3, UndoLinks DEF Keyed
    <2> QED BY <2>1, <2>2, <2>3
  <1>3. ASSUME NEW x \in log' PROVE KeyOf(x.authors, x.source_sort)
    <2>1. PICK m \in log : x = heir(m, l)
      BY <1>1
    <2>2. m \in Snapshot
      BY DEF IInv, TypeOK
    <2>3. x.authors = m.authors /\ x.source_sort = m.source_sort
      BY <2>1, <2>2 DEF heir, Snapshot
    <2> QED BY <2>3 DEF Keyed
  <1>4. sort' \in [Books -> Author \cup Books]
    <2>1. sort \in [Books -> Author \cup Books]
      BY DEF Keyed
    <2>2. \A b \in Books : sort'[b] \in Author \cup Books
      BY UndoNames
    <2>3. PICK key : key = sort_of(authors'[l.target], l.target_sort)
      OBVIOUS
    <2>4. sort' = [sort EXCEPT ![l.source] = l.source_sort, ![l.target] = key]
      BY <2>3 DEF undo_merge, restore_links
    <2>5. sort' = [b \in Books |-> sort'[b]]
      BY <2>1, <2>4
    <2> QED BY <2>2, <2>5
  <1> QED BY <1>2, <1>3, <1>4 DEF Keyed

(* The position that a merge did not keep is deleted, on the book it was   *)
(* on: the target's when the source's was moved, and else the source's.    *)
LEMMA MergeRows ==
    ASSUME IInv, RowIds, NEW s \in Books, NEW t \in Books, merge_books(s, t),
           NEW x, x = bare(build_snapshot(s, t))
    PROVE  /\ x.moved # None =>
                 /\ x.moved = progress[s] /\ progress'[t] = progress[s]
                 /\ Deleted(x, t) = There(progress[t]) /\ Deleted(x, s) = {}
           /\ x.moved = None =>
                 /\ progress'[t] = progress[t]
                 /\ Deleted(x, s) = There(progress[s]) /\ Deleted(x, t) = {}
           /\ \A d \in x.deleted : d.book \in {s, t} /\ d.row # None
           /\ \A d, e \in x.deleted : d = e
  <1>a. PICK p : p = progress[s]
    OBVIOUS
  <1>b. PICK q : q = progress[t]
    OBVIOUS
  <1>3. s # t /\ progress \in [Books -> Maybe(Position)]
    BY MergeFrame DEF IInv, TypeOK
  <1>4. p # None /\ q # None => p # q
    BY <1>a, <1>b, <1>3 DEF RowIds, Ids
  <1>5. progress'[t] = kept(p, q)
    BY <1>a, <1>b, <1>3 DEF merge_books
  <1>6. x.moved = IF kept(p, q) = p THEN p ELSE None
    BY <1>a, <1>b, MergeFact
  <1>7. x.deleted = IF p = None \/ q = None THEN {}
                    ELSE IF target_wins(p, q) THEN {[row |-> p, book |-> s]}
                    ELSE {[row |-> q, book |-> t]}
    <2>1. x.deleted = deleted_rows(s, t)
      BY MergeFact
    <2> QED BY <1>a, <1>b, <2>1 DEF deleted_rows
  <1>8. kept(p, q) = IF p = None \/ (q # None /\ target_wins(p, q)) THEN q ELSE p
    BY DEF kept
  <1>9. CASE p = None
    BY <1>a, <1>b, <1>5, <1>6, <1>7, <1>8, <1>9 DEF Deleted, There
  <1>10. CASE p # None /\ q = None
    BY <1>a, <1>b, <1>5, <1>6, <1>7, <1>8, <1>10 DEF Deleted, There
  <1>11. CASE p # None /\ q # None /\ target_wins(p, q)
    <2>1. x.deleted = {[row |-> p, book |-> s]} /\ kept(p, q) = q /\ x.moved = None
      BY <1>4, <1>6, <1>7, <1>8, <1>11
    <2>2. /\ {y \in x.deleted : y.book = s} = {[row |-> p, book |-> s]}
          /\ {y \in x.deleted : y.book = t} = {}
      BY <1>3, <2>1
    <2>3. Deleted(x, s) = There(p) /\ Deleted(x, t) = {}
      <3>1. {d.row : d \in {[row |-> p, book |-> s]}} = {p}
        OBVIOUS
      <3>2. {p} \ {None} = {p} /\ {None} \ {None} = {}
        BY <1>11
      <3>3. Deleted(x, s) = There(p)
        BY <2>2, <3>1, <3>2 DEF Deleted, There
      <3> QED BY <2>2, <3>2, <3>3 DEF Deleted, There
    <2> QED BY <1>a, <1>b, <1>5, <1>11, <2>1, <2>3
  <1>12. CASE p # None /\ q # None /\ ~target_wins(p, q)
    <2>1. x.deleted = {[row |-> q, book |-> t]} /\ kept(p, q) = p /\ x.moved = p
      BY <1>4, <1>6, <1>7, <1>8, <1>12
    <2>2. /\ {y \in x.deleted : y.book = t} = {[row |-> q, book |-> t]}
          /\ {y \in x.deleted : y.book = s} = {}
      BY <1>3, <2>1
    <2>3. Deleted(x, t) = There(q) /\ Deleted(x, s) = {}
      <3>1. {d.row : d \in {[row |-> q, book |-> t]}} = {q}
        OBVIOUS
      <3>2. {q} \ {None} = {q} /\ {None} \ {None} = {}
        BY <1>12
      <3>3. Deleted(x, t) = There(q)
        BY <2>2, <3>1, <3>2 DEF Deleted, There
      <3> QED BY <2>2, <3>2, <3>3 DEF Deleted, There
    <2> QED BY <1>a, <1>b, <1>5, <1>12, <2>1, <2>3
  <1> QED BY <1>9, <1>10, <1>11, <1>12

(* A merge keeps the ids apart.                                            *)
LEMMA MergeRowIds ==
    ASSUME IInv, RowIds, NEW s \in Books, NEW t \in Books, merge_books(s, t)
    PROVE  RowIds'
  <1>1. PICK x : x = bare(build_snapshot(s, t))
    OBVIOUS
  <1>2. /\ s # t /\ next_row' = next_row
        /\ Facts' = {l \in Facts : l.target # s} \cup {x}
    BY <1>1, MergeFrame, MergeFacts
  <1>3. /\ x.moved # None =>
              /\ x.moved = progress[s] /\ progress'[t] = progress[s]
              /\ Deleted(x, t) = There(progress[t]) /\ Deleted(x, s) = {}
        /\ x.moved = None =>
              /\ progress'[t] = progress[t]
              /\ Deleted(x, s) = There(progress[s]) /\ Deleted(x, t) = {}
        /\ \A d \in x.deleted : d.book \in {s, t} /\ d.row # None
        /\ \A d, e \in x.deleted : d = e
    BY <1>1, MergeRows
  <1>4. progress'[s] = None /\ \A b \in Books \ {s, t} : progress'[b] = progress[b]
    BY MergePositions
  <1>5. PICK a \in {s, t} : progress'[t] = progress[a]
                            /\ \A d \in x.deleted : d.row # None /\ d.row \in
                                  {progress[b] : b \in {s, t} \ {a}}
    <2>1. CASE x.moved # None
      <3>1. \A d \in x.deleted : d.book = t /\ d.row = progress[t]
        BY <1>2, <1>3, <2>1 DEF Deleted, There
      <3> QED BY <1>2, <1>3, <2>1, <3>1
    <2>2. CASE x.moved = None
      <3>1. \A d \in x.deleted : d.book = s /\ d.row = progress[s]
        BY <1>2, <1>3, <2>2 DEF Deleted, There
      <3> QED BY <1>2, <1>3, <2>2, <3>1
    <2> QED BY <2>1, <2>2
  <1> DEFINE was(b) == IF b = t THEN a ELSE b
  <1>6. \A b \in Books : progress'[b] # None =>
            /\ was(b) \in Books /\ progress'[b] = progress[was(b)]
            /\ b # s
    BY <1>4, <1>5
  <1>7. \A b, y \in Books : b # s /\ y # s /\ was(b) = was(y) => b = y
    BY <1>5
  <1> HIDE DEF was
  <1>8. Ids(progress', next_row')
    BY <1>2, <1>6, <1>7 DEF RowIds, Ids
  <1>9. Apart(progress', next_row', x.deleted)
    <2>1. ASSUME NEW d \in x.deleted
          PROVE  /\ d.row.id < next_row
                 /\ \A b \in Books : progress'[b] # None => progress'[b].id # d.row.id
      <3>1. PICK y \in {s, t} \ {a} : d.row = progress[y] /\ d.row # None
        BY <1>5
      <3>2. \A b \in Books : b # s => was(b) # y
        BY <1>5, <3>1 DEF was
      <3> QED BY <1>6, <3>1, <3>2 DEF RowIds, Ids
    <2> QED BY <1>2, <2>1 DEF Apart
  <1>10. ASSUME NEW l \in Facts
         PROVE  /\ Apart(progress', next_row', l.deleted)
                /\ \A d \in l.deleted, e \in x.deleted : d.row.id # e.row.id
    <2>1. Apart(progress, next_row, l.deleted)
      BY DEF RowIds
    <2>2. Apart(progress', next_row', l.deleted)
      BY <1>2, <1>6, <2>1 DEF Apart
    <2>3. \A e \in x.deleted : \E y \in Books : e.row = progress[y] /\ e.row # None
      BY <1>5
    <2> QED BY <2>1, <2>2, <2>3 DEF Apart
  <1>11. \A l, m \in Facts' : \A d \in l.deleted, e \in m.deleted :
            d.row.id = e.row.id => l = m
    BY <1>2, <1>10 DEF RowIds
  <1>12. \A l \in Facts' : \A d, e \in l.deleted : d = e
    BY <1>2, <1>3 DEF RowIds
  <1> QED BY <1>2, <1>8, <1>9, <1>10, <1>11, <1>12 DEF RowIds

(* A row comes back where there is room, and no id is given twice.         *)
LEMMA Reinserted ==
    ASSUME NEW rows, NEW deleted
    PROVE  \A b \in Books :
              /\ \/ reinserted(rows, deleted)[b] = rows[b]
                 \/ \E d \in deleted : d.book = b
                                       /\ reinserted(rows, deleted)[b] = d.row
              /\ rows[b] # None => reinserted(rows, deleted)[b] = rows[b]
              /\ (\A d \in deleted : d.book # b) =>
                     reinserted(rows, deleted)[b] = rows[b]
              /\ \A d \in deleted :
                    rows[b] = None /\ d.book = b /\ (\A e \in deleted : e = d)
                    => reinserted(rows, deleted)[b] = d.row
  <1> TAKE b \in Books
  <1>1. reinserted(rows, deleted)[b] =
            IF rows[b] = None /\ \E d \in deleted : d.book = b
            THEN (CHOOSE d \in deleted : d.book = b).row ELSE rows[b]
    BY DEF reinserted
  <1>2. CASE \E d \in deleted : d.book = b
    <2> DEFINE d == CHOOSE x \in deleted : x.book = b
    <2>1. d \in deleted /\ d.book = b
      BY <1>2
    <2>2. reinserted(rows, deleted)[b] = IF rows[b] = None THEN d.row ELSE rows[b]
      BY <1>1, <1>2
    <2> HIDE DEF d
    <2> QED BY <2>1, <2>2
  <1>3. CASE \A d \in deleted : d.book # b
    <2>1. reinserted(rows, deleted)[b] = rows[b]
      BY <1>1, <1>3
    <2> QED BY <1>3, <2>1
  <1> QED BY <1>2, <1>3

(* What comes back has an id no row has.                                   *)
LEMMA ReinsertedIds ==
    ASSUME NEW rows, NEW next, NEW deleted, Ids(rows, next),
           Apart(rows, next, deleted),
           \A d, e \in deleted : d.row.id = e.row.id => d = e
    PROVE  Ids(reinserted(rows, deleted), next)
  <1> DEFINE back == reinserted(rows, deleted)
  <1>1. \A b \in Books :
            back[b] = rows[b] \/ \E d \in deleted : d.book = b /\ back[b] = d.row
    BY Reinserted
  <1> HIDE DEF back
  <1>2. \A b \in Books : back[b] # None => back[b].id < next
    BY <1>1 DEF Ids, Apart
  <1>3. ASSUME NEW b \in Books, NEW x \in Books, back[b] # None, back[x] # None,
               back[b].id = back[x].id
        PROVE  b = x
    <2>1. CASE back[b] = rows[b] /\ back[x] = rows[x]
      BY <1>3, <2>1 DEF Ids
    <2>2. CASE back[b] # rows[b] \/ back[x] # rows[x]
      BY <1>1, <1>3, <2>2 DEF Apart
    <2> QED BY <2>1, <2>2
  <1>4. Ids(back, next)
    BY <1>2, <1>3 DEF Ids
  <1> QED BY <1>4 DEF back

(* The positions when the undo has moved its row back.                     *)
LEMMA MovedRows ==
    ASSUME IInv, NEW l \in log, undo_merge(l), NEW rows, rows = moved_back(l)
    PROVE  /\ l.moved # None /\ changed_since(l) => \A b \in Books :
                  rows[b] = IF b = l.source THEN [id |-> next_row, at |-> l.moved.at]
                            ELSE progress[b]
           /\ l.moved # None /\ ~changed_since(l) /\ progress[l.target] = l.moved =>
                  \A b \in Books : rows[b] = IF b = l.source THEN l.moved
                                             ELSE IF b = l.target THEN None
                                             ELSE progress[b]
           /\ l.moved = None
              \/ (~changed_since(l) /\ progress[l.target] # l.moved) =>
                  \A b \in Books : rows[b] = progress[b]
  <1>1. progress \in [Books -> Maybe(Position)]
    BY DEF IInv, TypeOK
  <1>2. l.source \in Books /\ l.target \in Books /\ l.source # l.target
    BY UndoFrame
  <1>3. ASSUME l.moved # None, changed_since(l)
        PROVE  rows = [progress EXCEPT ![l.source] =
                          [id |-> next_row, at |-> l.moved.at]]
    BY <1>3 DEF moved_back
  <1>4. ASSUME l.moved # None, ~changed_since(l), progress[l.target] = l.moved
        PROVE  rows = [progress EXCEPT ![l.source] = l.moved, ![l.target] = None]
    BY <1>4 DEF moved_back
  <1>5. ASSUME l.moved = None \/ (~changed_since(l) /\ progress[l.target] # l.moved)
        PROVE  rows = progress
    BY <1>5 DEF moved_back
  <1> QED BY <1>1, <1>2, <1>3, <1>4, <1>5

(* An undo keeps the ids apart.                                            *)
LEMMA UndoRowIds ==
    ASSUME IInv, RowIds, NEW l \in log, undo_merge(l)
    PROVE  RowIds'
  <1>1. PICK x : x = bare(l)
    OBVIOUS
  <1>2. l \in Snapshot /\ x \in Facts /\ Facts' = Facts \ {x}
    BY <1>1, UndoFrame, UndoFacts DEF Facts
  <1>3. x.deleted = l.deleted
    BY <1>1, <1>2, BareOf
  <1>4. PICK rows : rows = moved_back(l)
    OBVIOUS
  <1>5. /\ progress' = reinserted(rows, l.deleted)
        /\ next_row' = IF l.moved # None /\ changed_since(l)
                       THEN next_row + 1 ELSE next_row
    BY <1>4 DEF undo_merge, restore_relocation
  <1>6. /\ l.source \in Books /\ l.target \in Books /\ l.source # l.target
        /\ l.source \notin live
    BY UndoFrame
  <1>7. progress[l.source] = None /\ next_row \in Nat
    BY <1>6, Bounds DEF IInv, TypeOK
  <1>8. \A b \in Books : progress[b] # None => progress[b].id \in Nat
    BY Bounds DEF IInv, TypeOK, Maybe, Position
  <1>9. PICK n : n = next_row'
    OBVIOUS
  <1>10. n \in Nat /\ next_row <= n
    BY <1>5, <1>7, <1>9
  <1>11. /\ Ids(rows, n)
         /\ \A b \in Books : rows[b] # None =>
               \/ rows[b].id = next_row /\ next_row < n
               \/ \E a \in Books : progress[a] # None /\ rows[b] = progress[a]
    <2>1. CASE l.moved # None /\ changed_since(l)
      <3>1. \A b \in Books : rows[b] =
                IF b = l.source THEN [id |-> next_row, at |-> l.moved.at]
                ELSE progress[b]
        BY <1>4, <2>1, MovedRows
      <3>2. n = next_row + 1
        BY <1>5, <1>9, <2>1
      <3>3. \A b \in Books : rows[b] # None =>
                IF b = l.source THEN rows[b].id = next_row
                ELSE progress[b] # None /\ rows[b] = progress[b]
        BY <3>1
      <3>4. \A b \in Books : progress[b] # None => progress[b].id < next_row
        BY DEF RowIds, Ids
      <3>5. \A b \in Books : rows[b] # None => rows[b].id < n
        BY <1>7, <1>8, <3>2, <3>3, <3>4
      <3>6. \A b, y \in Books : rows[b] # None /\ rows[y] # None
                                /\ rows[b].id = rows[y].id => b = y
        BY <1>7, <1>8, <3>3, <3>4 DEF RowIds, Ids
      <3> QED BY <1>7, <3>2, <3>3, <3>5, <3>6 DEF Ids
    <2>2. CASE ~(l.moved # None /\ changed_since(l))
      <3>1. n = next_row
        BY <1>5, <1>9, <2>2
      <3>2. CASE l.moved # None /\ progress[l.target] = l.moved
        <4>1. \A b \in Books : rows[b] = IF b = l.source THEN progress[l.target]
                                         ELSE IF b = l.target THEN None
                                         ELSE progress[b]
          BY <1>4, <2>2, <3>2, MovedRows, ZenonT(60)
        <4> DEFINE from(b) == IF b = l.source THEN l.target ELSE b
        <4>2. \A b \in Books : rows[b] # None =>
                  /\ b # l.target /\ from(b) \in Books
                  /\ progress[from(b)] # None /\ rows[b] = progress[from(b)]
          BY <1>6, <4>1
        <4>3. \A b, y \in Books :
                  b # l.target /\ y # l.target /\ from(b) = from(y) => b = y
          BY <1>6
        <4> HIDE DEF from
        <4> QED BY <3>1, <4>2, <4>3 DEF RowIds, Ids
      <3>3. CASE ~(l.moved # None /\ progress[l.target] = l.moved)
        <4>1. \A b \in Books : rows[b] = progress[b]
          BY <1>4, <2>2, <3>3, MovedRows, ZenonT(60)
        <4> QED BY <3>1, <4>1 DEF RowIds, Ids
      <3> QED BY <3>2, <3>3
    <2> QED BY <2>1, <2>2
  <1>12. ASSUME NEW m \in Facts
         PROVE  Apart(rows, n, m.deleted)
    <2>1. /\ Apart(progress, next_row, m.deleted)
          /\ \A d \in m.deleted : d.row.id \in Nat
      <3>1. \A d \in m.deleted : d.row \in Position
        BY FactsSound DEF Sound, FactRow
      <3> QED BY <3>1, Bounds DEF RowIds, Position
    <2>2. ASSUME NEW d \in m.deleted
          PROVE  /\ d.row.id < n
                 /\ \A b \in Books : rows[b] # None => rows[b].id # d.row.id
      <3>1. /\ d.row.id < next_row /\ d.row.id \in Nat
            /\ \A b \in Books : progress[b] # None => progress[b].id # d.row.id
        BY <2>1 DEF Apart
      <3> QED BY <1>7, <1>10, <1>11, <3>1
    <2> QED BY <2>2 DEF Apart
  <1>13. Ids(progress', n)
    <2>1. Apart(rows, n, l.deleted)
      BY <1>2, <1>3, <1>12
    <2>2. \A d, e \in l.deleted : d.row.id = e.row.id => d = e
      BY <1>2, <1>3 DEF RowIds
    <2> QED BY <1>5, <1>11, <2>1, <2>2, ReinsertedIds
  <1>14. ASSUME NEW m \in Facts \ {x}
         PROVE  Apart(progress', n, m.deleted)
    <2>1. Apart(rows, n, m.deleted)
      BY <1>12
    <2>2. \A b \in Books : \/ progress'[b] = rows[b]
                           \/ \E d \in x.deleted : progress'[b] = d.row
      BY <1>3, <1>5, Reinserted
    <2>3. \A d \in x.deleted, e \in m.deleted : d.row.id # e.row.id
      BY <1>2 DEF RowIds
    <2> QED BY <2>1, <2>2, <2>3 DEF Apart
  <1>15. \A m, k \in Facts' : \A d \in m.deleted, e \in k.deleted :
             d.row.id = e.row.id => m = k
    BY <1>2 DEF RowIds
  <1>16. \A m \in Facts' : \A d, e \in m.deleted : d = e
    BY <1>2 DEF RowIds
  <1> QED BY <1>2, <1>9, <1>13, <1>14, <1>15, <1>16 DEF RowIds

-----------------------------------------------------------------------------
(* One more at the end of a chain.                                         *)
LEMMA ChainGrows ==
    ASSUME NEW links, NEW first, NEW last, NEW x, Chain(links, first, last),
           x.id \in Nat, \A m \in links : m.id \in Nat /\ m.id < x.id,
           x.from = last
    PROVE  Chain(links \cup {x}, first, x.to)
  <1> DEFINE more == links \cup {x}
  <1>1. ASSUME NEW m \in more
        PROVE  /\ (\A n \in more : n.id <= m.id) => x.to = m.to
               /\ (\A n \in more : m.id <= n.id) => m.from = first
    <2>1. CASE m = x
      <3>1. (\A n \in more : x.id <= n.id) => links = {}
        OBVIOUS
      <3> QED BY <2>1, <3>1 DEF Chain
    <2>2. CASE m \in links
      <3>1. ~ (x.id <= m.id)
        BY <2>2
      <3> QED BY <2>2, <3>1 DEF Chain
    <2> QED BY <2>1, <2>2
  <1>2. ASSUME NEW m \in more, NEW n \in more, m.id < n.id,
               \A k \in more : k.id <= m.id \/ n.id <= k.id
        PROVE  n.from = m.to
    <2>1. m \in links
      BY <1>2
    <2>2. CASE n \in links
      BY <1>2, <2>1, <2>2 DEF Chain
    <2>3. CASE n = x
      <3>1. \A k \in links : k.id <= m.id
        BY <1>2, <2>3
      <3>2. last = m.to
        BY <2>1, <3>1 DEF Chain
      <3> QED BY <2>3, <3>2
    <2> QED BY <2>2, <2>3
  <1> QED BY <1>1, <1>2 DEF Chain

(* The last one taken away.                                                *)
LEMMA ChainShrinks ==
    ASSUME NEW links, NEW first, NEW last, NEW x \in links,
           Chain(links, first, last), x.id \in Nat,
           \A m \in links \ {x} : m.id \in Nat /\ m.id < x.id
    PROVE  last = x.to /\ Chain(links \ {x}, first, x.from)
  <1> DEFINE less == links \ {x}
  <1>1. last = x.to
    <2>1. \A n \in links : n.id <= x.id
      OBVIOUS
    <2> QED BY <2>1 DEF Chain
  <1>2. less = {} => x.from = first
    <2>1. less = {} => \A n \in links : x.id <= n.id
      OBVIOUS
    <2> QED BY <2>1 DEF Chain
  <1>3. ASSUME NEW m \in less, \A n \in less : n.id <= m.id
        PROVE  x.from = m.to
    <2>1. m.id < x.id /\ \A k \in links : k.id <= m.id \/ x.id <= k.id
      BY <1>3
    <2> QED BY <2>1 DEF Chain
  <1>4. ASSUME NEW m \in less, \A n \in less : m.id <= n.id
        PROVE  m.from = first
    <2>1. \A n \in links : m.id <= n.id
      BY <1>4
    <2> QED BY <2>1 DEF Chain
  <1>5. ASSUME NEW m \in less, NEW n \in less, m.id < n.id,
               \A k \in less : k.id <= m.id \/ n.id <= k.id
        PROVE  n.from = m.to
    <2>1. \A k \in links : k.id <= m.id \/ n.id <= k.id
      BY <1>5
    <2> QED BY <1>5, <2>1 DEF Chain
  <1> QED BY <1>1, <1>2, <1>3, <1>4, <1>5 DEF Chain

(* One that is not the last has a next.                                    *)
LEMMA ChainGoesOn ==
    ASSUME NEW links, NEW first, NEW last, Chain(links, first, last),
           \A m \in links : m.id \in Nat,
           NEW m \in links, NEW k \in links, m.id < k.id
    PROVE  \E n \in links : m.id < n.id /\ n.from = m.to
  <1> DEFINE ids == {n.id : n \in {l \in links : m.id < l.id}}
  <1>1. ids \in SUBSET Nat /\ ids # {}
    OBVIOUS
  <1>2. PICK i \in ids : \A j \in ids : i <= j
    <2> HIDE DEF ids
    <2> QED BY <1>1, LeastNatural
  <1>3. PICK n \in links : m.id < n.id /\ n.id = i
    BY <1>2
  <1>4. \A l \in links : l.id <= m.id \/ n.id <= l.id
    BY <1>2, <1>3
  <1> QED BY <1>3, <1>4 DEF Chain

-----------------------------------------------------------------------------
(* A merge adds to what the log says.                                      *)

(* A merge of s into t, the rows that stay and the new one.                *)
Merging(s, t, was, rows, x) ==
    /\ IInv /\ RowIds /\ s \in Books /\ t \in Books /\ merge_books(s, t)
    /\ was \in Contents /\ rows \subseteq Facts
    /\ \A l \in rows : l.target # s
    /\ x = bare(build_snapshot(s, t))
    /\ LiveSince(was, rows)

(* What the steps below go by.                                             *)
LEMMA MergeStanding ==
    ASSUME NEW s, NEW t, NEW was, NEW rows, NEW x, Merging(s, t, was, rows, x)
    PROVE  /\ s \in live /\ t \in live /\ s # t
           /\ x.source = s /\ x.target = t
           /\ s \in Standing(rows) /\ t \in Standing(rows)
           /\ \A b : b \in Standing(rows \cup {x}) <=> b \in Standing(rows) /\ b # s
           /\ Sound(rows)
           /\ x.id \in Nat /\ \A l \in rows : l.id < x.id
  <1> USE DEF Merging
  <1>1. s \in live /\ t \in live /\ s # t /\ merges \in Nat /\ live' = live \ {s}
    BY MergeFrame
  <1>2. x.source = s /\ x.target = t /\ x.id = merges + 1
    BY MergeFact
  <1>3. Sound(rows)
    BY FactsSound DEF Sound
  <1>4. s \in Standing(rows) /\ t \in Standing(rows)
    BY <1>1 DEF LiveSince
  <1>5. \A b : b \in Standing(rows \cup {x}) <=> b \in Standing(rows) /\ b # s
    BY <1>2 DEF Standing
  <1>6. x.id \in Nat /\ \A l \in rows : l.id < x.id
    BY <1>1, <1>2, <1>3 DEF Sound, FactRow
  <1> QED BY <1>1, <1>2, <1>3, <1>4, <1>5, <1>6

(* The source had a row until now, and the others have theirs still.       *)
LEMMA MergeLive ==
    ASSUME NEW s, NEW t, NEW was, NEW rows, NEW x, Merging(s, t, was, rows, x)
    PROVE  LiveSince(was, rows \cup {x})'
  <1>1. /\ s \in live /\ x.source = s
        /\ \A b : b \in Standing(rows \cup {x}) <=> b \in Standing(rows) /\ b # s
    BY MergeStanding, ZenonT(60)
  <1>2. live' = live \ {s}
    BY MergeFrame DEF Merging
  <1>3. live = {b \in Standing(rows) : b \in was.live}
        /\ \A l \in rows : l.source \in was.live
    BY DEF Merging, LiveSince
  <1> QED BY <1>1, <1>2, <1>3 DEF LiveSince

(* The files of the source are on the target, and the row says so.         *)
LEMMA MergeFiles ==
    ASSUME NEW s, NEW t, NEW was, NEW rows, NEW x, Merging(s, t, was, rows, x),
           FilesSince(was, rows)
    PROVE  FilesSince(was, rows \cup {x})'
  <1>0. \A l \in rows : l.target # s
    BY DEF Merging
  <1>1. /\ x.source = s /\ x.target = t
        /\ s \in Standing(rows)
        /\ \A b : b \in Standing(rows \cup {x}) <=> b \in Standing(rows) /\ b # s
    BY MergeStanding, ZenonT(60)
  <1>2. \A f \in Books : holder'[f] = IF holder[f] = s THEN t ELSE holder[f]
    BY DEF Merging, merge_books
  <1>3. x.files = {f \in Books : holder[f] = s}
    BY MergeFact DEF Merging, held_files
  <1>4. \A f \in Books : was.holder[f] \in Books
    BY DEF Merging, Contents
  <1>5. \A f \in Books : holder[f] = s <=> was.holder[f] = s
    <2> TAKE f \in Books
    <2>1. CASE was.holder[f] \in Standing(rows)
      BY <2>1 DEF FilesSince
    <2>2. CASE was.holder[f] \notin Standing(rows)
      <3>1. PICK l \in rows : l.source = was.holder[f]
        BY <1>4, <2>2 DEF Standing
      <3>2. holder[f] = l.target /\ l.target # s
        BY <1>0, <3>1 DEF FilesSince
      <3> QED BY <1>1, <2>2, <3>2
    <2> QED BY <2>1, <2>2
  <1>6. ASSUME NEW f \in Books
        PROVE  /\ was.holder[f] \in Standing(rows \cup {x}) =>
                     holder'[f] = was.holder[f]
               /\ \A l \in rows \cup {x} :
                     /\ f \in l.files <=> was.holder[f] = l.source
                     /\ f \in l.files => holder'[f] = l.target
    <2>1. was.holder[f] \in Standing(rows \cup {x}) => holder'[f] = was.holder[f]
      BY <1>1, <1>2 DEF FilesSince
    <2>2. ASSUME NEW l \in rows
          PROVE  /\ f \in l.files <=> was.holder[f] = l.source
                 /\ f \in l.files => holder'[f] = l.target
      BY <1>0, <1>2 DEF FilesSince
    <2>3. /\ f \in x.files <=> was.holder[f] = x.source
          /\ f \in x.files => holder'[f] = x.target
      BY <1>1, <1>2, <1>3, <1>5
    <2> QED BY <2>1, <2>2, <2>3
  <1> QED BY <1>6 DEF FilesSince

(* And so are its annotations.                                             *)
LEMMA MergeAnnotations ==
    ASSUME NEW s, NEW t, NEW was, NEW rows, NEW x, Merging(s, t, was, rows, x),
           EventsSince(was, rows)
    PROVE  EventsSince(was, rows \cup {x})'
  <1>0. \A l \in rows : l.target # s
    BY DEF Merging
  <1>1. /\ x.source = s /\ x.target = t
        /\ s \in Standing(rows)
        /\ \A b : b \in Standing(rows \cup {x}) <=> b \in Standing(rows) /\ b # s
    BY MergeStanding, ZenonT(60)
  <1>2. \A e \in Write : event'[e] = IF event[e] = s THEN t ELSE event[e]
    BY DEF Merging, merge_books
  <1>3. x.events = {e \in Write : event[e] = s}
    BY MergeFact DEF Merging
  <1>4. (\A e \in Write : was.event[e] \in Books \cup {None}) /\ s # None
    BY Bounds DEF Merging, Contents, Maybe
  <1>5. \A e \in Write : event[e] = s <=> was.event[e] = s
    <2> TAKE e \in Write
    <2>1. CASE was.event[e] = None \/ was.event[e] \in Standing(rows)
      BY <2>1 DEF EventsSince
    <2>2. CASE ~(was.event[e] = None \/ was.event[e] \in Standing(rows))
      <3>1. PICK l \in rows : l.source = was.event[e]
        BY <1>4, <2>2 DEF Standing
      <3>2. event[e] = l.target /\ l.target # s
        BY <1>0, <3>1 DEF EventsSince
      <3> QED BY <1>1, <2>2, <3>2
    <2> QED BY <2>1, <2>2
  <1>6. ASSUME NEW e \in Write
        PROVE  /\ was.event[e] = None \/ was.event[e] \in Standing(rows \cup {x}) =>
                     event'[e] = was.event[e]
               /\ \A l \in rows \cup {x} :
                     /\ e \in l.events <=> was.event[e] = l.source
                     /\ e \in l.events => event'[e] = l.target
    <2>1. was.event[e] = None \/ was.event[e] \in Standing(rows \cup {x}) =>
              event'[e] = was.event[e]
      BY <1>1, <1>2, <1>4 DEF EventsSince
    <2>2. ASSUME NEW l \in rows
          PROVE  /\ e \in l.events <=> was.event[e] = l.source
                 /\ e \in l.events => event'[e] = l.target
      BY <1>0, <1>2 DEF EventsSince
    <2>3. /\ e \in x.events <=> was.event[e] = x.source
          /\ e \in x.events => event'[e] = x.target
      BY <1>1, <1>2, <1>3, <1>5
    <2> QED BY <2>1, <2>2, <2>3
  <1> QED BY <1>6 DEF EventsSince

(* The target has the authors of both, and the row has the source's.       *)
LEMMA MergeAuthors ==
    ASSUME NEW s, NEW t, NEW was, NEW rows, NEW x, Merging(s, t, was, rows, x),
           AuthorsSince(was, rows)
    PROVE  AuthorsSince(was, rows \cup {x})'
  <1>0. \A l \in rows : l.target # s
    BY DEF Merging
  <1>1. /\ x.source = s /\ x.target = t /\ s # t
        /\ s \in Standing(rows) /\ t \in Standing(rows)
        /\ \A b : b \in Standing(rows \cup {x}) <=> b \in Standing(rows) /\ b # s
    BY MergeStanding, ZenonT(60)
  <1>2. /\ \A b \in Books : authors[b] \in Names /\ authors[b] \in Seq(Author)
        /\ s \in Books /\ t \in Books
    BY DEF Merging, IInv, TypeOK, Names
  <1>3. PICK a : a = authors[t]
    OBVIOUS
  <1>4. PICK g : g = added_links(s, t)
    OBVIOUS
  <1>5. /\ authors'[t] = a \o g
        /\ \A y \in Books \ {s, t} : authors'[y] = authors[y]
    BY <1>3, <1>4, MergeLinks DEF Merging
  <1>6. x.added = g /\ x.authors = authors[s]
    BY <1>4, MergeFact DEF Merging
  <1>7. /\ a \in Seq(Author) /\ g \in Seq(Author)
        /\ Range(g) = Range(authors[s]) \ Range(a)
    BY <1>2, <1>3, <1>4, Without DEF added_links
  <1>8. PICK A : A = AddedTo(rows, t)
    OBVIOUS
  <1>9. AddedTo(rows \cup {x}, t) = A \cup Range(g)
    BY <1>1, <1>6, <1>8 DEF AddedTo
  <1>10. without(a, A \cup Range(g)) = without(a, A)
    <2>1. \A z \in Range(a) : z \in A \cup Range(g) <=> z \in A
      BY <1>7
    <2> QED BY <1>7, <2>1, WithoutOnly
  <1>11. without(g, A \cup Range(g)) = <<>>
    BY <1>7, WithoutAll
  <1>12. without(a \o g, A \cup Range(g)) = without(a, A)
    <2>1. without(a \o g, A \cup Range(g)) =
              without(a, A \cup Range(g)) \o without(g, A \cup Range(g))
      BY <1>7, WithoutBoth
    <2>2. without(a, A) \in Seq(Author)
      BY <1>7, Without
    <2> QED BY <1>10, <1>11, <2>1, <2>2, ConcatEmptySeq
  <1>13. ASSUME NEW b \in Standing(rows \cup {x})
         PROVE  without(authors'[b], AddedTo(rows \cup {x}, b)) = was.authors[b]
    <2>1. b \in Standing(rows) /\ b # s /\ b \in Books
      BY <1>1 DEF Standing
    <2>2. CASE b = t
      BY <1>1, <1>3, <1>5, <1>8, <1>9, <1>12, <2>2 DEF AuthorsSince
    <2>3. CASE b # t
      <3>1. AddedTo(rows \cup {x}, b) = AddedTo(rows, b)
        BY <1>1, <2>3 DEF AddedTo
      <3> QED BY <1>5, <2>1, <2>3, <3>1 DEF AuthorsSince
    <2> QED BY <2>2, <2>3
  <1>14. x.authors = was.authors[x.source]
    <2>1. AddedTo(rows, s) = {}
      BY <1>0 DEF AddedTo
    <2>2. without(authors[s], AddedTo(rows, s)) = was.authors[s]
      BY <1>1 DEF AuthorsSince
    <2>3. without(authors[s], {}) = authors[s]
      BY <1>2, WithoutNone
    <2> QED BY <1>1, <1>6, <2>1, <2>2, <2>3
  <1>15. \A l \in rows \cup {x} : l.authors = was.authors[l.source]
    BY <1>14 DEF AuthorsSince
  <1> QED BY <1>13, <1>15 DEF AuthorsSince

(* The moved position found on the target what the row says was deleted.   *)
LEMMA MergeProgress ==
    ASSUME NEW s, NEW t, NEW was, NEW rows, NEW x, Merging(s, t, was, rows, x),
           ProgressSince(was, rows)
    PROVE  ProgressSince(was, rows \cup {x})'
  <1>0. \A l \in rows : l.target # s
    BY DEF Merging
  <1>1. /\ x.source = s /\ x.target = t /\ s # t
        /\ s \in Standing(rows) /\ t \in Standing(rows)
        /\ \A b : b \in Standing(rows \cup {x}) <=> b \in Standing(rows) /\ b # s
        /\ x.id \in Nat /\ \A l \in rows : l.id < x.id
        /\ Sound(rows)
    BY MergeStanding, ZenonT(60)
  <1>2. /\ x.moved # None =>
              /\ x.moved = progress[s] /\ progress'[t] = progress[s]
              /\ Deleted(x, t) = There(progress[t]) /\ Deleted(x, s) = {}
        /\ x.moved = None =>
              /\ progress'[t] = progress[t]
              /\ Deleted(x, s) = There(progress[s]) /\ Deleted(x, t) = {}
    BY MergeRows DEF Merging
  <1>3. \A y \in Books \ {s, t} : progress'[y] = progress[y]
    BY MergePositions DEF Merging
  <1>4. progress[s] = was.progress[s]
    <2>1. Moves(rows, s) = {}
      BY <1>0 DEF Moves
    <2>2. There(progress[s]) = There(was.progress[s])
      BY <1>1, <2>1 DEF ProgressSince, Chain
    <2> QED BY <2>2 DEF There
  <1>5. ASSUME NEW b \in Standing(rows \cup {x})
        PROVE  Chain(Moves(rows \cup {x}, b),
                     There(was.progress[b]), There(progress'[b]))
    <2>1. /\ b \in Standing(rows) /\ b # s /\ b \in Books
          /\ Chain(Moves(rows, b), There(was.progress[b]), There(progress[b]))
      BY <1>1 DEF Standing, ProgressSince
    <2>2. CASE b # t
      <3>1. Moves(rows \cup {x}, b) = Moves(rows, b)
        BY <1>1, <2>2 DEF Moves
      <3> QED BY <1>3, <2>1, <2>2, <3>1
    <2>3. CASE b = t /\ x.moved = None
      <3>1. Moves(rows \cup {x}, b) = Moves(rows, b)
        BY <2>3 DEF Moves
      <3> QED BY <1>2, <2>1, <2>3, <3>1
    <2>4. CASE b = t /\ x.moved # None
      <3>1. PICK link : link = [id |-> x.id, from |-> Deleted(x, b), to |-> {x.moved}]
        OBVIOUS
      <3>2. Moves(rows \cup {x}, b) = Moves(rows, b) \cup {link}
        BY <1>1, <2>4, <3>1 DEF Moves
      <3>3. \A m \in Moves(rows, b) : m.id \in Nat /\ m.id < link.id
        BY <1>1, <3>1 DEF Moves, Sound, FactRow
      <3>4. /\ link.id \in Nat /\ link.from = There(progress[b])
            /\ link.to = There(progress'[b])
        BY <1>1, <1>2, <2>4, <3>1 DEF There
      <3>5. Chain(Moves(rows, b) \cup {link}, There(was.progress[b]), link.to)
        BY <2>1, <3>3, <3>4, ChainGrows
      <3> QED BY <3>2, <3>4, <3>5
    <2> QED BY <2>2, <2>3, <2>4
  <1>6. ASSUME NEW l \in rows \cup {x}
        PROVE  IF l.moved = None
               THEN /\ Deleted(l, l.source) = There(was.progress[l.source])
                    /\ Deleted(l, l.target) = {}
               ELSE l.moved = was.progress[l.source] /\ Deleted(l, l.source) = {}
    BY <1>1, <1>2, <1>4 DEF ProgressSince
  <1> QED BY <1>5, <1>6 DEF ProgressSince

(* An opinion of the source was settled with the one the target had.       *)
LEMMA MergeOpinion ==
    ASSUME NEW s, NEW t, NEW was, NEW rows, NEW x, Merging(s, t, was, rows, x),
           OpinionSince(was, rows)
    PROVE  OpinionSince(was, rows \cup {x})'
  <1>0. \A l \in rows : l.target # s
    BY DEF Merging
  <1>1. /\ x.source = s /\ x.target = t /\ s # t
        /\ s \in Standing(rows) /\ t \in Standing(rows)
        /\ \A b : b \in Standing(rows \cup {x}) <=> b \in Standing(rows) /\ b # s
        /\ x.id \in Nat /\ \A l \in rows : l.id < x.id
        /\ Sound(rows)
    BY MergeStanding, ZenonT(60)
  <1>2. \A c \in Curated, y \in Books : opinion'[c][y] =
            IF y = s THEN None
            ELSE IF y = t THEN settle(c, opinion[c][s], opinion[c][t])
            ELSE opinion[c][y]
    BY MergeOpinions DEF Merging
  <1>3. \A c \in Curated :
            /\ x.source_said[c] = opinion[c][s]
            /\ x.target_said[c] = opinion[c][t]
            /\ x.merged_said[c] = settle(c, opinion[c][s], opinion[c][t])
    BY MergeFact DEF Merging
  <1>4. s \in Books /\ t \in Books
    BY DEF Merging
  <1>5. ASSUME NEW c \in Curated
        PROVE  /\ \A b \in Standing(rows \cup {x}) :
                     Chain(Settles(rows \cup {x}, b, c),
                           was.opinion[c][b], opinion'[c][b])
               /\ \A l \in rows \cup {x} : l.source_said[c] = was.opinion[c][l.source]
    <2>1. opinion[c][s] = was.opinion[c][s]
      <3>1. Settles(rows, s, c) = {}
        BY <1>0 DEF Settles
      <3> QED BY <1>1, <3>1 DEF OpinionSince, Chain
    <2>2. \A l \in rows \cup {x} : l.source_said[c] = was.opinion[c][l.source]
      BY <1>1, <1>3, <2>1 DEF OpinionSince
    <2>3. ASSUME NEW b \in Standing(rows \cup {x})
          PROVE  Chain(Settles(rows \cup {x}, b, c), was.opinion[c][b], opinion'[c][b])
      <3>1. /\ b \in Standing(rows) /\ b # s /\ b \in Books
            /\ Chain(Settles(rows, b, c), was.opinion[c][b], opinion[c][b])
        BY <1>1 DEF Standing, OpinionSince
      <3>2. CASE b # t
        <4>1. Settles(rows \cup {x}, b, c) = Settles(rows, b, c)
          BY <1>1, <3>2 DEF Settles
        <4> QED BY <1>2, <3>1, <3>2, <4>1
      <3>3. CASE b = t /\ x.source_said[c] = None
        <4>1. Settles(rows \cup {x}, b, c) = Settles(rows, b, c)
          BY <3>3 DEF Settles
        <4>2. opinion'[c][b] = opinion[c][b]
          <5>1. opinion'[c][b] = settle(c, None, opinion[c][t])
            BY <1>1, <1>2, <1>3, <1>4, <3>3
          <5> QED BY <3>3, <5>1 DEF settle
        <4> QED BY <3>1, <4>1, <4>2
      <3>4. CASE b = t /\ x.source_said[c] # None
        <4>1. PICK link : link = [id |-> x.id, from |-> x.target_said[c],
                                  to |-> x.merged_said[c]]
          OBVIOUS
        <4>2. Settles(rows \cup {x}, b, c) = Settles(rows, b, c) \cup {link}
          BY <1>1, <3>4, <4>1 DEF Settles
        <4>3. \A m \in Settles(rows, b, c) : m.id \in Nat /\ m.id < link.id
          BY <1>1, <4>1 DEF Settles, Sound, FactRow
        <4>4. /\ link.id \in Nat /\ link.from = opinion[c][b]
              /\ link.to = opinion'[c][b]
          BY <1>1, <1>2, <1>3, <1>4, <3>4, <4>1
        <4>5. Chain(Settles(rows, b, c) \cup {link}, was.opinion[c][b], link.to)
          BY <3>1, <4>3, <4>4, ChainGrows
        <4> QED BY <4>2, <4>4, <4>5
      <3> QED BY <3>2, <3>3, <3>4
    <2> QED BY <2>2, <2>3
  <1> QED BY <1>5 DEF OpinionSince

(* The target's key is in the row of the first merge into it.              *)
LEMMA MergeSort ==
    ASSUME IInv, NEW s \in Books, NEW t \in Books, merge_books(s, t),
           NEW was, NEW rows, rows \subseteq log, \A l \in rows : l.target # s,
           NEW x, x = build_snapshot(s, t), SortSince(was, rows)
    PROVE  SortSince(was, rows \cup {x})'
  <1>1. /\ x.source = s /\ x.target = t /\ x.id = merges + 1
        /\ x.source_sort = sort[s] /\ x.target_sort = sort[t]
    BY NewEntry
  <1>2. s \in live /\ t \in live /\ merges \in Nat
    BY MergeFrame
  <1>3. \A l \in rows : l.source \notin live /\ l.id \in Nat /\ l.id < x.id
    <2>1. \A l \in log : l \in Snapshot /\ l.source \notin live /\ l.id <= merges
      BY DEF IInv, TypeOK, Entries, Logged
    <2>2. \A l \in Snapshot : l.id \in Nat
      BY Bounds DEF Snapshot
    <2> QED BY <1>1, <1>2, <2>1, <2>2
  <1>4. s \in Standing(rows) /\ t \in Standing(rows)
    BY <1>2, <1>3 DEF Standing
  <1>5. \A b \in Books \ {t} : sort'[b] = sort[b]
    BY MergeLinks
  <1>6. ASSUME NEW b \in Standing(rows \cup {x}), \A l \in rows \cup {x} : l.target # b
        PROVE  sort'[b] = was.sort[b]
    <2>1. b \in Standing(rows) /\ b \in Books \ {t}
      BY <1>1, <1>6 DEF Standing
    <2> QED BY <1>5, <1>6, <2>1 DEF SortSince
  <1>7. \A l \in rows \cup {x} : l.source_sort = was.sort[l.source]
    BY <1>1, <1>4 DEF SortSince
  <1>8. ASSUME NEW l \in rows \cup {x},
               \A m \in rows \cup {x} : m.target = l.target => l.id <= m.id
        PROVE  l.target_sort = was.sort[l.target]
    <2>1. CASE l \in rows
      BY <1>8, <2>1 DEF SortSince
    <2>2. CASE l = x
      <3>1. \A m \in rows : m.target # t
        BY <1>1, <1>2, <1>3, <1>8, <2>2
      <3> QED BY <1>1, <1>4, <2>2, <3>1 DEF SortSince
    <2> QED BY <2>1, <2>2
  <1> QED BY <1>6, <1>7, <1>8 DEF SortSince

(* What was taken from the books is a number for each.                     *)
LEMMA Taken ==
    ASSUME NEW counts \in [Books -> Nat], NEW rows, NEW b
    PROVE  /\ \A y \in Books : TakenFrom(rows, counts, b)[y] \in Nat
           /\ total(TakenFrom(rows, counts, b), Books) \in Nat
           /\ (\A l \in rows : l.target # b) =>
                  total(TakenFrom(rows, counts, b), Books) = 0
           /\ \A l \in rows : l.target = b /\ l.source \in Books =>
                  counts[l.source] <= total(TakenFrom(rows, counts, b), Books)
  <1>1. PICK f : f = TakenFrom(rows, counts, b)
    OBVIOUS
  <1>2. \A y \in Books : f[y] \in Nat
    BY <1>1 DEF TakenFrom
  <1>3. total(f, Books) \in Nat /\ \A y \in Books : f[y] <= total(f, Books)
    BY <1>2, Bounds, TotalOf, TotalBounds
  <1>4. (\A l \in rows : l.target # b) => total(f, Books) = 0
    <2> HAVE \A l \in rows : l.target # b
    <2>1. \A y \in Books : f[y] = 0
      BY <1>1 DEF TakenFrom
    <2> QED BY <1>2, <2>1, Bounds, TotalBounds
  <1>5. \A l \in rows : l.target = b /\ l.source \in Books =>
            f[l.source] = counts[l.source]
    BY <1>1 DEF TakenFrom
  <1> QED BY <1>1, <1>2, <1>3, <1>4, <1>5

(* The ground of the source is in the target's bucket.                     *)
LEMMA MergeTaken ==
    ASSUME NEW s, NEW t, NEW was, NEW rows, NEW x, Merging(s, t, was, rows, x),
           GroundSince(was, rows)
    PROVE  GroundSince(was, rows \cup {x})'
  <1>0. \A l \in rows : l.target # s
    BY DEF Merging
  <1>1. /\ x.source = s /\ x.target = t /\ s # t
        /\ s \in Standing(rows) /\ t \in Standing(rows)
        /\ \A b : b \in Standing(rows \cup {x}) <=> b \in Standing(rows) /\ b # s
        /\ Sound(rows)
    BY MergeStanding, ZenonT(60)
  <1>2. s \in Books /\ t \in Books /\ was.ground \in [Books -> Nat]
    BY DEF Merging, Contents
  <1>3. PICK wg \in [Books -> Nat] : wg = was.ground
    BY <1>2
  <1>4. /\ ground \in [Books -> Nat] /\ ground'[t] = ground[t] + ground[s]
        /\ \A y \in Books \ {s, t} : ground'[y] = ground[y]
    BY MergeGround DEF Merging
  <1>5. /\ x.moved_ground = IF ground[t] = 0 THEN ground[s] ELSE 0
        /\ x.folded_ground = IF ground[t] = 0 THEN 0 ELSE ground[s]
    BY MergeFact DEF Merging
  <1>6. \A b \in Standing(rows) :
            ground[b] = wg[b] + total(TakenFrom(rows, wg, b), Books)
    BY <1>3 DEF GroundSince
  <1>7. ground[s] = wg[s]
    <2>1. total(TakenFrom(rows, wg, s), Books) = 0
      BY <1>0, Taken
    <2> QED BY <1>1, <1>2, <1>6, <2>1
  <1>8. ASSUME NEW b \in Standing(rows \cup {x})
        PROVE  ground'[b] = wg[b] + total(TakenFrom(rows \cup {x}, wg, b), Books)
    <2>1. b \in Standing(rows) /\ b # s /\ b \in Books
      BY <1>1 DEF Standing
    <2>2. CASE b # t
      <3>1. TakenFrom(rows \cup {x}, wg, b) = TakenFrom(rows, wg, b)
        BY <1>1, <2>2 DEF TakenFrom
      <3> QED BY <1>4, <1>6, <2>1, <2>2, <3>1
    <2>3. CASE b = t
      <3>1. PICK f : f = TakenFrom(rows, wg, t)
        OBVIOUS
      <3>2. PICK e : e = TakenFrom(rows \cup {x}, wg, t)
        OBVIOUS
      <3>3. \A l \in rows : l.source # s
        BY <1>1 DEF Standing
      <3>4. f[s] = 0 /\ e[s] = wg[s] /\ \A y \in Books \ {s} : e[y] = f[y]
        BY <1>1, <1>2, <3>1, <3>2, <3>3 DEF TakenFrom
      <3>5. /\ e[s] \in Nat /\ \A y \in Books : f[y] \in Nat
            /\ total(f, Books) \in Nat
        BY <1>2, <3>1, <3>4, Taken
      <3>6. total(e, Books) = total(f, Books) - f[s] + e[s]
        <4>1. \A y \in Books \ {s} : e[y] = f[y]
          BY <3>4
        <4>2. e[s] \in Nat /\ \A y \in Books : f[y] \in Nat
          BY <3>5
        <4>3. IsFiniteSet(Books) /\ s \in Books
          BY <1>2, Bounds
        <4> QED BY <4>1, <4>2, <4>3, TotalChange
      <3>7. ground[t] = wg[t] + total(f, Books)
        BY <1>1, <1>6, <3>1
      <3> QED BY <1>2, <1>4, <1>7, <2>3, <3>2, <3>4, <3>5, <3>6, <3>7
    <2> QED BY <2>2, <2>3
  <1>9. /\ x.moved_ground + x.folded_ground = wg[s]
        /\ x.moved_ground > 0 => ground[t] = 0
        /\ x.moved_ground \in Nat
    BY <1>2, <1>4, <1>5, <1>7
  <1>10. total(TakenFrom(rows, wg, t), Books) \in Nat
    BY Taken
  <1>11. x.moved_ground > 0 =>
             wg[t] = 0 /\ total(TakenFrom(rows, wg, t), Books) = 0
    BY <1>1, <1>2, <1>6, <1>9, <1>10
  <1>12. \A l \in rows :
             /\ l.moved_ground + l.folded_ground = wg[l.source]
             /\ l.moved_ground > 0 => wg[l.target] = 0
    BY <1>3 DEF GroundSince
  <1>13. ASSUME NEW l \in rows, l.target = t, l.moved_ground > 0
         PROVE  ~(x.moved_ground > 0)
    <2>1. /\ l.moved_ground \in Nat /\ l.folded_ground \in Nat /\ l.source \in Books
      BY <1>1 DEF Sound, FactRow
    <2>2. wg[l.source] <= total(TakenFrom(rows, wg, t), Books) /\ wg[l.source] \in Nat
      BY <1>13, <2>1, Taken
    <2> QED BY <1>10, <1>11, <1>12, <1>13, <2>1, <2>2
  <1>14. ASSUME NEW l \in rows \cup {x}, NEW m \in rows \cup {x},
                m.target = l.target, m.moved_ground > 0, l.moved_ground > 0
         PROVE  m = l
    BY <1>1, <1>13, <1>14 DEF GroundSince
  <1>15. \A l \in rows \cup {x} :
             /\ l.moved_ground + l.folded_ground = wg[l.source]
             /\ l.moved_ground > 0 => wg[l.target] = 0
    BY <1>1, <1>9, <1>11, <1>12
  <1> QED BY <1>3, <1>8, <1>14, <1>15 DEF GroundSince

(* The books as they are, with no merge open.                              *)
LEMMA SinceNow ==
    ASSUME IInv, Keyed, NEW was, was = contents
    PROVE  was \in Contents /\ Since(was, {}) /\ SortSince(was, {})
  <1>1. /\ was.live = live /\ was.holder = holder /\ was.authors = authors
        /\ was.sort = sort /\ was.progress = progress /\ was.opinion = opinion
        /\ was.ground = ground /\ was.event = event
    BY DEF contents
  <1>2. /\ live \subseteq Books /\ holder \in [Books -> Books]
        /\ authors \in [Books -> Names]
        /\ sort \in [Books -> Author \cup Books]
        /\ progress \in [Books -> Maybe(Position)]
        /\ opinion \in [Curated -> [Books -> Maybe(Says)]]
        /\ ground \in [Books -> Nat] /\ event \in [Write -> Maybe(Books)]
    <2>1. live \subseteq Books /\ holder \in [Books -> live] /\ event \in [Write -> Maybe(live)]
      BY DEF IInv, TypeOK
    <2>2. holder \in [Books -> Books]
      BY <2>1
    <2>3. event \in [Write -> Maybe(Books)]
      BY <2>1 DEF Maybe
    <2>4. ground \in [Books -> Nat]
      BY Bounds DEF IInv, TypeOK
    <2> QED BY <2>1, <2>2, <2>3, <2>4 DEF IInv, TypeOK, Keyed
  <1>3. was \in Contents
    BY <1>2 DEF contents, Contents
  <1>4. \A b : b \in Standing({}) <=> b \in Books
    BY DEF Standing
  <1>5. LiveSince(was, {}) /\ FilesSince(was, {}) /\ EventsSince(was, {})
    BY <1>1, <1>2, <1>4 DEF LiveSince, FilesSince, EventsSince
  <1>6. AuthorsSince(was, {})
    <2>1. \A b \in Books : AddedTo({}, b) = {}
      BY DEF AddedTo
    <2>2. \A b \in Books : authors[b] \in Seq(Author)
      BY <1>2 DEF Names
    <2>3. \A b \in Books : without(authors[b], {}) = authors[b]
      BY <2>2, WithoutNone
    <2> QED BY <1>1, <1>4, <2>1, <2>3 DEF AuthorsSince
  <1>7. ProgressSince(was, {})
    <2>1. \A b : Moves({}, b) = {}
      BY DEF Moves
    <2> QED BY <1>1, <2>1 DEF ProgressSince, Chain
  <1>8. OpinionSince(was, {})
    <2>1. \A b, c : Settles({}, b, c) = {}
      BY DEF Settles
    <2> QED BY <1>1, <2>1 DEF OpinionSince, Chain
  <1>9. GroundSince(was, {})
    <2>1. \A b : total(TakenFrom({}, ground, b), Books) = 0
      BY <1>2, Taken
    <2> QED BY <1>1, <1>2, <1>4, <2>1 DEF GroundSince
  <1>10. SortSince(was, {})
    BY <1>1 DEF SortSince, Keyed
  <1> QED BY <1>3, <1>5, <1>6, <1>7, <1>8, <1>9, <1>10 DEF Since

-----------------------------------------------------------------------------
(* An undo takes a row away.                                               *)

(* An undo of l, all the rows, and the one of l.                           *)
Undoing(l, was, rows, x) ==
    /\ IInv /\ RowIds /\ l \in log /\ undo_merge(l)
    /\ was \in Contents /\ rows = Facts /\ x = bare(l)
    /\ LiveSince(was, rows)

(* The row of l among the others, and the two books: the target stands,    *)
(* the source will.                                                        *)
AmongRows(l, rows, x) ==
    /\ x \in rows /\ Sound(rows)
    /\ x.source = l.source /\ x.target = l.target /\ x.id = l.id
    /\ l.source \in Books /\ l.target \in Books /\ l.source # l.target
    /\ l.target \in Standing(rows) /\ l.source \notin Standing(rows)
    /\ \A b : b \in Standing(rows \ {x}) <=> b \in Standing(rows) \/ b = l.source
    /\ \A m \in rows : m.target # l.source
    /\ \A m \in rows \ {x} : m.source # l.source

(* What the steps below go by.                                             *)
LEMMA UndoStanding ==
    ASSUME NEW l, NEW was, NEW rows, NEW x, Undoing(l, was, rows, x)
    PROVE  AmongRows(l, rows, x)
  <1> USE DEF Undoing
  <1>1. /\ l \in Snapshot /\ l.source \in Books /\ l.target \in Books
        /\ l.source \notin live /\ l.target \in live /\ l.source # l.target
    BY UndoFrame
  <1>2. x \in rows /\ Sound(rows)
    BY FactsSound DEF Facts
  <1>3. x.source = l.source /\ x.target = l.target /\ x.id = l.id
    BY <1>1, BareOf
  <1>4. \A m \in rows : m.target # l.source
    BY <1>1, <1>2 DEF Sound
  <1>5. \A m \in rows \ {x} : m.source # l.source
    BY <1>2, <1>3 DEF Sound
  <1>6. l.target \in Standing(rows) /\ l.source \notin Standing(rows)
    BY <1>1, <1>2, <1>3 DEF LiveSince, Standing
  <1>7. \A b : b \in Standing(rows \ {x}) <=> b \in Standing(rows) \/ b = l.source
    BY <1>1, <1>2, <1>3, <1>5 DEF Standing
  <1> QED BY <1>1, <1>2, <1>3, <1>4, <1>5, <1>6, <1>7 DEF AmongRows

(* Nothing later stands in the way.                                        *)
LEMMA UndoClear ==
    ASSUME NEW l, NEW was, NEW rows, NEW x, Undoing(l, was, rows, x),
           NEW m \in rows, m.target = l.target, m.id > l.id
    PROVE  /\ l.moved # None => \A d \in m.deleted : d.row.id # l.moved.id
           /\ l.moved_ground > 0 => ~(m.folded_ground > 0)
           /\ \A c \in Curated : l.source_said[c] # None => m.source_said[c] = None
  <1> USE DEF Undoing
  <1>1. PICK k \in log : m = bare(k)
    BY DEF Facts
  <1>2. k \in Snapshot
    BY DEF IInv, TypeOK
  <1>3. /\ m.target = k.target /\ m.id = k.id /\ m.deleted = k.deleted
        /\ m.folded_ground = k.folded_ground /\ m.source_said = k.source_said
    BY <1>1, <1>2, BareOf
  <1>4. k \in later(l)
    BY <1>3 DEF later
  <1>5. ~UndoConflict(l)
    BY UndoFrame
  <1> QED BY <1>3, <1>4, <1>5 DEF UndoConflict

(* The source has a row again.                                             *)
LEMMA UndoLive ==
    ASSUME NEW l, NEW was, NEW rows, NEW x, Undoing(l, was, rows, x)
    PROVE  LiveSince(was, rows \ {x})'
  <1>a. AmongRows(l, rows, x)
    BY UndoStanding
  <1>1. /\ x \in rows /\ Sound(rows)
        /\ x.source = l.source /\ x.target = l.target /\ x.id = l.id
        /\ l.source \in Books /\ l.target \in Books /\ l.source # l.target
        /\ l.target \in Standing(rows) /\ l.source \notin Standing(rows)
        /\ \A b : b \in Standing(rows \ {x}) <=> b \in Standing(rows) \/ b = l.source
        /\ \A m \in rows : m.target # l.source
        /\ \A m \in rows \ {x} : m.source # l.source
    BY <1>a DEF AmongRows
  <1>2. live' = live \cup {l.source}
    BY UndoFrame DEF Undoing
  <1>3. live = {b \in Standing(rows) : b \in was.live}
        /\ \A k \in rows : k.source \in was.live
    BY DEF Undoing, LiveSince
  <1> QED BY <1>1, <1>2, <1>3 DEF LiveSince

(* Its files are its own again, and those of later merges stay.            *)
LEMMA UndoFiles ==
    ASSUME NEW l, NEW was, NEW rows, NEW x, Undoing(l, was, rows, x),
           FilesSince(was, rows)
    PROVE  FilesSince(was, rows \ {x})'
  <1>a. AmongRows(l, rows, x)
    BY UndoStanding
  <1>1. /\ x \in rows /\ Sound(rows)
        /\ x.source = l.source /\ x.target = l.target /\ x.id = l.id
        /\ l.source \in Books /\ l.target \in Books /\ l.source # l.target
        /\ l.target \in Standing(rows) /\ l.source \notin Standing(rows)
        /\ \A b : b \in Standing(rows \ {x}) <=> b \in Standing(rows) \/ b = l.source
        /\ \A m \in rows : m.target # l.source
        /\ \A m \in rows \ {x} : m.source # l.source
    BY <1>a DEF AmongRows
  <1>2. x.files = l.files
    BY UndoFrame, BareOf DEF Undoing
  <1>3. \A f \in Books : holder'[f] = IF f \in l.files /\ holder[f] = l.target
                                      THEN l.source ELSE holder[f]
    BY DEF Undoing, undo_merge, move_files_back
  <1>4. ASSUME NEW f \in Books
        PROVE  /\ was.holder[f] \in Standing(rows \ {x}) => holder'[f] = was.holder[f]
               /\ \A m \in rows \ {x} :
                     /\ f \in m.files <=> was.holder[f] = m.source
                     /\ f \in m.files => holder'[f] = m.target
    <2>1. /\ f \in l.files <=> was.holder[f] = l.source
          /\ f \in l.files => holder[f] = l.target
      BY <1>1, <1>2 DEF FilesSince
    <2>2. was.holder[f] \in Standing(rows \ {x}) => holder'[f] = was.holder[f]
      BY <1>1, <1>3, <2>1 DEF FilesSince
    <2>3. ASSUME NEW m \in rows \ {x}
          PROVE  /\ f \in m.files <=> was.holder[f] = m.source
                 /\ f \in m.files => holder'[f] = m.target
      <3>1. /\ f \in m.files <=> was.holder[f] = m.source
            /\ f \in m.files => holder[f] = m.target
        BY DEF FilesSince
      <3>2. f \in m.files => f \notin l.files
        BY <1>1, <2>1, <3>1
      <3> QED BY <1>3, <3>1, <3>2
    <2> QED BY <2>2, <2>3
  <1> QED BY <1>4 DEF FilesSince

(* And so are its annotations.                                             *)
LEMMA UndoAnnotations ==
    ASSUME NEW l, NEW was, NEW rows, NEW x, Undoing(l, was, rows, x),
           EventsSince(was, rows)
    PROVE  EventsSince(was, rows \ {x})'
  <1>a. AmongRows(l, rows, x)
    BY UndoStanding
  <1>1. /\ x \in rows /\ Sound(rows)
        /\ x.source = l.source /\ x.target = l.target /\ x.id = l.id
        /\ l.source \in Books /\ l.target \in Books /\ l.source # l.target
        /\ l.target \in Standing(rows) /\ l.source \notin Standing(rows)
        /\ \A b : b \in Standing(rows \ {x}) <=> b \in Standing(rows) \/ b = l.source
        /\ \A m \in rows : m.target # l.source
        /\ \A m \in rows \ {x} : m.source # l.source
    BY <1>a DEF AmongRows
  <1>2. x.events = l.events
    BY UndoFrame, BareOf DEF Undoing
  <1>3. \A e \in Write : event'[e] = IF e \in l.events /\ event[e] = l.target
                                     THEN l.source ELSE event[e]
    BY DEF Undoing, undo_merge, restore_relocation, returned
  <1>4. ASSUME NEW e \in Write
        PROVE  /\ was.event[e] = None \/ was.event[e] \in Standing(rows \ {x}) =>
                      event'[e] = was.event[e]
               /\ \A m \in rows \ {x} :
                     /\ e \in m.events <=> was.event[e] = m.source
                     /\ e \in m.events => event'[e] = m.target
    <2>1. /\ e \in l.events <=> was.event[e] = l.source
          /\ e \in l.events => event[e] = l.target
      BY <1>1, <1>2 DEF EventsSince
    <2>2. was.event[e] = None \/ was.event[e] \in Standing(rows \ {x}) =>
              event'[e] = was.event[e]
      BY <1>1, <1>3, <2>1, Bounds DEF EventsSince
    <2>3. ASSUME NEW m \in rows \ {x}
          PROVE  /\ e \in m.events <=> was.event[e] = m.source
                 /\ e \in m.events => event'[e] = m.target
      <3>1. /\ e \in m.events <=> was.event[e] = m.source
            /\ e \in m.events => event[e] = m.target
        BY DEF EventsSince
      <3>2. e \in m.events => e \notin l.events
        BY <1>1, <2>1, <3>1
      <3> QED BY <1>3, <3>1, <3>2
    <2> QED BY <2>2, <2>3
  <1> QED BY <1>4 DEF EventsSince

(* Its authors are those it had, and the target keeps all but the added.   *)
LEMMA UndoAuthors ==
    ASSUME NEW l, NEW was, NEW rows, NEW x, Undoing(l, was, rows, x),
           AuthorsSince(was, rows)
    PROVE  AuthorsSince(was, rows \ {x})'
  <1>a. AmongRows(l, rows, x)
    BY UndoStanding
  <1>1. /\ x \in rows /\ Sound(rows)
        /\ x.source = l.source /\ x.target = l.target /\ x.id = l.id
        /\ l.source \in Books /\ l.target \in Books /\ l.source # l.target
        /\ l.target \in Standing(rows) /\ l.source \notin Standing(rows)
        /\ \A b : b \in Standing(rows \ {x}) <=> b \in Standing(rows) \/ b = l.source
        /\ \A m \in rows : m.target # l.source
        /\ \A m \in rows \ {x} : m.source # l.source
    BY <1>a DEF AmongRows
  <1>2. x.authors = l.authors /\ x.added = l.added
    BY UndoFrame, BareOf DEF Undoing
  <1>3. /\ authors'[l.source] = l.authors
        /\ authors'[l.target] = without(authors[l.target], Range(l.added))
        /\ \A y \in Books \ {l.source, l.target} : authors'[y] = authors[y]
    BY UndoLinks DEF Undoing
  <1>4. \A b \in Books : authors[b] \in Seq(Author)
    BY DEF Undoing, IInv, TypeOK, Names
  <1>5. ASSUME NEW b \in Standing(rows \ {x})
        PROVE  without(authors'[b], AddedTo(rows \ {x}, b)) = was.authors[b]
    <2>1. CASE b = l.source
      <3>1. AddedTo(rows \ {x}, b) = {}
        BY <1>1, <2>1 DEF AddedTo
      <3>2. l.authors \in Seq(Author)
        BY <1>1, <1>2 DEF Sound, FactRow, Names
      <3>3. without(l.authors, {}) = l.authors
        BY <3>2, WithoutNone
      <3> QED BY <1>1, <1>2, <1>3, <2>1, <3>1, <3>3 DEF AuthorsSince
    <2>2. CASE b = l.target
      <3>1. PICK A : A = AddedTo(rows \ {x}, l.target)
        OBVIOUS
      <3>2. AddedTo(rows, l.target) = Range(l.added) \cup A
        BY <1>1, <1>2, <3>1 DEF AddedTo
      <3>3. without(authors[l.target], Range(l.added) \cup A) = was.authors[l.target]
        BY <1>1, <3>2 DEF AuthorsSince
      <3>4. without(without(authors[l.target], Range(l.added)), A) =
                without(authors[l.target], Range(l.added) \cup A)
        BY <1>1, <1>4, WithoutTwice
      <3> QED BY <1>3, <2>2, <3>1, <3>3, <3>4
    <2>3. CASE b # l.source /\ b # l.target
      <3>1. b \in Standing(rows) /\ b \in Books
        BY <1>1, <2>3 DEF Standing
      <3>2. AddedTo(rows \ {x}, b) = AddedTo(rows, b)
        BY <1>1, <2>3 DEF AddedTo
      <3> QED BY <1>3, <2>3, <3>1, <3>2 DEF AuthorsSince
    <2> QED BY <2>1, <2>2, <2>3
  <1>6. \A m \in rows \ {x} : m.authors = was.authors[m.source]
    BY DEF AuthorsSince
  <1> QED BY <1>5, <1>6 DEF AuthorsSince

(* The position it brought is its own again, and what it replaced is back. *)
LEMMA UndoProgress ==
    ASSUME NEW l, NEW was, NEW rows, NEW x, Undoing(l, was, rows, x),
           ProgressSince(was, rows)
    PROVE  ProgressSince(was, rows \ {x})'
  <1>a. AmongRows(l, rows, x)
    BY UndoStanding
  <1>1. /\ x \in rows /\ Sound(rows)
        /\ x.source = l.source /\ x.target = l.target /\ x.id = l.id
        /\ l.source \in Books /\ l.target \in Books /\ l.source # l.target
        /\ l.target \in Standing(rows) /\ l.source \notin Standing(rows)
        /\ \A b : b \in Standing(rows \ {x}) <=> b \in Standing(rows) \/ b = l.source
        /\ \A m \in rows : m.target # l.source
        /\ \A m \in rows \ {x} : m.source # l.source
    BY <1>a DEF AmongRows
  <1>2. x.moved = l.moved /\ x.deleted = l.deleted
    BY UndoFrame, BareOf DEF Undoing
  <1>3. \A b \in Books \ {l.source, l.target} : progress'[b] = progress[b]
    BY UndoPositions DEF Undoing
  <1>4. PICK back : back = moved_back(l)
    OBVIOUS
  <1>5. progress' = reinserted(back, x.deleted)
    BY <1>2, <1>4 DEF Undoing, undo_merge, restore_relocation
  <1>6. \A d \in x.deleted : d.row # None
    BY <1>1, Bounds DEF Sound, FactRow
  <1>7. progress[l.source] = None
    BY UndoFrame DEF Undoing, IInv, TypeOK
  <1>8. ASSUME NEW b \in Books, back[b] = None
        PROVE  There(progress'[b]) = Deleted(x, b)
    <2>1. CASE \A d \in x.deleted : d.book # b
      <3>1. progress'[b] = None
        BY <1>5, <1>8, <2>1, Reinserted
      <3> QED BY <2>1, <3>1 DEF There, Deleted
    <2>2. CASE \E d \in x.deleted : d.book = b
      <3>1. PICK d \in x.deleted : d.book = b
        BY <2>2
      <3>2. \A e \in x.deleted : e = d
        BY <1>1 DEF Undoing, RowIds
      <3>3. Deleted(x, b) = {d.row}
        BY <3>1, <3>2 DEF Deleted
      <3>4. progress'[b] = d.row
        BY <1>5, <1>8, <3>1, <3>2, Reinserted
      <3> QED BY <1>6, <3>3, <3>4 DEF There
    <2> QED BY <2>1, <2>2
  <1>9. ASSUME NEW b \in Books, back[b] # None \/ Deleted(x, b) = {}
        PROVE  progress'[b] = back[b]
    <2>1. Deleted(x, b) = {} => \A d \in x.deleted : d.book # b
      BY DEF Deleted
    <2> QED BY <1>5, <1>9, <2>1, Reinserted
  <1>10. ASSUME NEW b \in Books, b # l.source, b # l.target
         PROVE  b \in Standing(rows \ {x}) =>
                   Chain(Moves(rows \ {x}, b), There(was.progress[b]), There(progress'[b]))
    <2>1. Moves(rows \ {x}, b) = Moves(rows, b)
      BY <1>1, <1>10 DEF Moves
    <2> QED BY <1>1, <1>3, <1>10, <2>1 DEF ProgressSince
  <1>11. There(progress'[l.source]) = There(was.progress[l.source]) =>
             Chain(Moves(rows \ {x}, l.source),
                   There(was.progress[l.source]), There(progress'[l.source]))
    <2>1. Moves(rows \ {x}, l.source) = {}
      BY <1>1 DEF Moves
    <2> QED BY <2>1 DEF Chain
  <1>12. Chain(Moves(rows, l.target),
               There(was.progress[l.target]), There(progress[l.target]))
    BY <1>1 DEF ProgressSince
  <1>13. CASE l.moved = None
    <2>1. \A b \in Books : back[b] = progress[b]
      BY <1>4, <1>13, MovedRows, ZenonT(60) DEF Undoing
    <2>2. /\ Deleted(x, l.source) = There(was.progress[l.source])
          /\ Deleted(x, l.target) = {}
      BY <1>1, <1>2, <1>13 DEF ProgressSince
    <2>3. There(progress'[l.source]) = There(was.progress[l.source])
      BY <1>1, <1>7, <1>8, <2>1, <2>2
    <2>4. progress'[l.target] = progress[l.target]
      BY <1>1, <1>9, <2>1, <2>2
    <2>5. Moves(rows \ {x}, l.target) = Moves(rows, l.target)
      BY <1>2, <1>13 DEF Moves
    <2>6. Chain(Moves(rows \ {x}, l.target),
                There(was.progress[l.target]), There(progress'[l.target]))
      BY <1>12, <2>4, <2>5
    <2>7. ASSUME NEW b \in Standing(rows \ {x})
          PROVE  Chain(Moves(rows \ {x}, b),
                       There(was.progress[b]), There(progress'[b]))
      BY <1>10, <1>11, <2>3, <2>6 DEF Standing
    <2> QED BY <2>7 DEF ProgressSince
  <1>14. CASE l.moved # None
    <2> DEFINE link == [id |-> x.id, from |-> Deleted(x, l.target), to |-> {x.moved}]
               links == Moves(rows, l.target)
    <2>1. link \in links /\ \A m \in links : m.id \in Nat
      <3>1. link \in links
        BY <1>1, <1>2, <1>14 DEF Moves
      <3>2. \A m \in rows : m.id \in Nat
        BY <1>1 DEF Sound, FactRow
      <3>3. \A m \in links : m.id \in Nat
        BY <3>2 DEF Moves
      <3> QED BY <3>1, <3>3
    <2>2. \A m \in links : ~ (x.id < m.id)
      <3> SUFFICES ASSUME NEW k \in links, x.id < k.id PROVE FALSE
        OBVIOUS
      <3>1. link.id = x.id /\ link.to = {x.moved}
        OBVIOUS
      <3> HIDE DEF link, links
      <3>2. PICK n \in links : x.id < n.id /\ n.from = {x.moved}
        <4>1. \E n \in links : link.id < n.id /\ n.from = link.to
          BY <1>12, <2>1, <3>1, ChainGoesOn DEF links
        <4> QED BY <3>1, <4>1
      <3>3. PICK q \in rows : /\ q.target = l.target /\ q.id = n.id
                              /\ Deleted(q, l.target) = n.from
        BY <3>2 DEF links, Moves
      <3>4. PICK d \in q.deleted : d.row = x.moved
        BY <3>2, <3>3 DEF Deleted
      <3>5. q.id > l.id
        BY <1>1, <3>2, <3>3
      <3>6. \A e \in q.deleted : e.row.id # l.moved.id
        BY <1>14, <3>3, <3>5, UndoClear
      <3> QED BY <1>2, <3>4, <3>6
    <2>3. \A m \in rows : m.id = x.id => m = x
      BY <1>1 DEF Sound
    <2>4. Moves(rows \ {x}, l.target) = links \ {link}
      BY <1>1, <2>3 DEF Moves
    <2>5. \A m \in links \ {link} : m.id \in Nat /\ m.id < link.id
      <3>1. \A m \in links : m.id = x.id => m = link
        BY <2>3 DEF Moves
      <3>2. link.id = x.id /\ x.id \in Nat
        BY <2>1
      <3> HIDE DEF link, links
      <3> QED BY <2>1, <2>2, <3>1, <3>2
    <2>6. /\ link.id \in Nat /\ link.to = {x.moved}
          /\ link.from = Deleted(x, l.target)
      BY <2>1
    <2> HIDE DEF link, links
    <2>7. /\ There(progress[l.target]) = link.to
          /\ Chain(links \ {link}, There(was.progress[l.target]), link.from)
      BY <1>12, <2>1, <2>5, <2>6, ChainShrinks DEF links
    <2>8. progress[l.target] = l.moved
      BY <1>2, <2>6, <2>7 DEF There
    <2>9. \A b \in Books : back[b] = IF b = l.source THEN l.moved
                                     ELSE IF b = l.target THEN None
                                     ELSE progress[b]
      <3>1. ~changed_since(l)
        BY <2>8 DEF changed_since
      <3> QED BY <1>4, <1>14, <2>8, <3>1, MovedRows, ZenonT(60) DEF Undoing
    <2>10. There(progress'[l.target]) = link.from
      BY <1>1, <1>8, <2>6, <2>9
    <2>11. progress'[l.source] = was.progress[l.source]
      <3>1. progress'[l.source] = l.moved
        BY <1>1, <1>9, <1>14, <2>9
      <3> QED BY <1>1, <1>2, <1>14, <3>1 DEF ProgressSince
    <2>12. Chain(Moves(rows \ {x}, l.target),
                 There(was.progress[l.target]), There(progress'[l.target]))
      BY <2>4, <2>7, <2>10
    <2>13. ASSUME NEW b \in Standing(rows \ {x})
           PROVE  Chain(Moves(rows \ {x}, b),
                        There(was.progress[b]), There(progress'[b]))
      BY <1>10, <1>11, <2>11, <2>12 DEF Standing
    <2> QED BY <2>13 DEF ProgressSince
  <1> QED BY <1>13, <1>14

(* Each book says again what it said.                                      *)
LEMMA UndoOpinion ==
    ASSUME NEW l, NEW was, NEW rows, NEW x, Undoing(l, was, rows, x),
           OpinionSince(was, rows)
    PROVE  OpinionSince(was, rows \ {x})'
  <1>a. AmongRows(l, rows, x)
    BY UndoStanding
  <1>1. /\ x \in rows /\ Sound(rows)
        /\ x.source = l.source /\ x.target = l.target /\ x.id = l.id
        /\ l.source \in Books /\ l.target \in Books /\ l.source # l.target
        /\ l.target \in Standing(rows) /\ l.source \notin Standing(rows)
        /\ \A b : b \in Standing(rows \ {x}) <=> b \in Standing(rows) \/ b = l.source
        /\ \A m \in rows : m.target # l.source
        /\ \A m \in rows \ {x} : m.source # l.source
    BY <1>a DEF AmongRows
  <1>2. /\ x.source_said = l.source_said /\ x.target_said = l.target_said
        /\ x.merged_said = l.merged_said
    BY UndoFrame, BareOf DEF Undoing
  <1>3. \A c \in Curated, b \in Books : opinion'[c][b] =
            IF x.source_said[c] = None THEN opinion[c][b]
            ELSE IF b = l.target THEN x.target_said[c]
            ELSE IF b = l.source THEN x.source_said[c]
            ELSE opinion[c][b]
    BY <1>2, UndoOpinions DEF Undoing
  <1>4. \A c \in Curated : opinion[c][l.source] = None
    BY UndoFrame DEF Undoing, IInv, TypeOK
  <1>5. ASSUME NEW c \in Curated, NEW b \in Standing(rows \ {x})
        PROVE  Chain(Settles(rows \ {x}, b, c), was.opinion[c][b], opinion'[c][b])
    <2>0. b \in Books
      BY DEF Standing
    <2>1. CASE b = l.source
      <3>1. Settles(rows \ {x}, b, c) = {}
        BY <1>1, <2>1 DEF Settles
      <3>2. x.source_said[c] = was.opinion[c][b]
        BY <1>1, <2>1 DEF OpinionSince
      <3>3. opinion'[c][b] = was.opinion[c][b]
        BY <1>1, <1>3, <1>4, <2>1, <3>2
      <3> QED BY <3>1, <3>3 DEF Chain
    <2>2. CASE b # l.source /\ (b # l.target \/ x.source_said[c] = None)
      <3>1. Settles(rows \ {x}, b, c) = Settles(rows, b, c)
        BY <1>1, <2>2 DEF Settles
      <3>2. opinion'[c][b] = opinion[c][b] /\ b \in Standing(rows)
        BY <1>1, <1>3, <2>0, <2>2
      <3> QED BY <3>1, <3>2 DEF OpinionSince
    <2>3. CASE b = l.target /\ x.source_said[c] # None
      <3> DEFINE link == [id |-> x.id, from |-> x.target_said[c],
                          to |-> x.merged_said[c]]
                 links == Settles(rows, b, c)
      <3>1. link \in links
        BY <1>1, <2>3 DEF Settles
      <3>2. \A m \in rows : m.id \in Nat /\ (m.id = x.id => m = x)
        BY <1>1 DEF Sound, FactRow
      <3>3. \A m \in rows : m.target = b /\ m.source_said[c] # None => ~(m.id > l.id)
        BY <1>2, <2>3, UndoClear
      <3>4. Settles(rows \ {x}, b, c) = links \ {link}
        BY <1>1, <3>2 DEF Settles
      <3>5. \A m \in links \ {link} : m.id \in Nat /\ m.id < link.id
        <4>1. \A m \in links : m.id \in Nat /\ ~(m.id > l.id)
          BY <3>2, <3>3 DEF Settles
        <4>2. \A m \in links : m.id = x.id => m = link
          BY <3>2 DEF Settles
        <4>3. link.id = x.id /\ x.id \in Nat
          BY <1>1, <3>2
        <4> HIDE DEF link, links
        <4> QED BY <1>1, <4>1, <4>2, <4>3
      <3>6. link.id \in Nat /\ link.from = x.target_said[c]
        BY <1>1, <3>2
      <3>7. Chain(links, was.opinion[c][b], opinion[c][b])
        BY <1>1, <2>3 DEF OpinionSince
      <3> HIDE DEF link, links
      <3>8. Chain(links \ {link}, was.opinion[c][b], link.from)
        BY <3>1, <3>5, <3>6, <3>7, ChainShrinks
      <3>9. opinion'[c][b] = link.from
        BY <1>3, <2>0, <2>3, <3>6
      <3> QED BY <3>4, <3>8, <3>9
    <2> QED BY <2>1, <2>2, <2>3
  <1>6. \A c \in Curated : \A m \in rows \ {x} :
            m.source_said[c] = was.opinion[c][m.source]
    BY DEF OpinionSince
  <1> QED BY <1>5, <1>6 DEF OpinionSince

(* The ground it brought leaves the target's bucket.                       *)
LEMMA UndoTaken ==
    ASSUME NEW l, NEW was, NEW rows, NEW x, Undoing(l, was, rows, x),
           GroundSince(was, rows)
    PROVE  GroundSince(was, rows \ {x})'
  <1>a. AmongRows(l, rows, x)
    BY UndoStanding
  <1>1. /\ x \in rows /\ Sound(rows)
        /\ x.source = l.source /\ x.target = l.target /\ x.id = l.id
        /\ l.source \in Books /\ l.target \in Books /\ l.source # l.target
        /\ l.target \in Standing(rows) /\ l.source \notin Standing(rows)
        /\ \A b : b \in Standing(rows \ {x}) <=> b \in Standing(rows) \/ b = l.source
        /\ \A m \in rows : m.target # l.source
        /\ \A m \in rows \ {x} : m.source # l.source
    BY <1>a DEF AmongRows
  <1>2. x.moved_ground = l.moved_ground /\ x.folded_ground = l.folded_ground
    BY UndoFrame, BareOf DEF Undoing
  <1>3. PICK wg \in [Books -> Nat] : wg = was.ground
    BY DEF Undoing, Contents
  <1>4. /\ ground \in [Books -> Nat]
        /\ \A b \in Books \ {l.source, l.target} : ground'[b] = ground[b]
        /\ l.moved_ground > 0 => ground'[l.target] = 0
        /\ ~(l.moved_ground > 0) =>
               ground'[l.target] = ground[l.target] - l.folded_ground
    BY UndoGround DEF Undoing
  <1>5. ground'[l.source] = IF l.moved_ground > 0 THEN ground[l.target]
                            ELSE l.folded_ground
    <2>1. CASE l.moved_ground > 0
      <3>1. ground' = [ground EXCEPT ![l.source] = ground[l.target], ![l.target] = 0]
        BY <2>1 DEF Undoing, undo_merge, restore_relocation
      <3> QED BY <1>1, <1>4, <2>1, <3>1
    <2>2. CASE ~(l.moved_ground > 0)
      <3>1. ground' = [ground EXCEPT ![l.source] = l.folded_ground,
                                     ![l.target] = unfolded(l)]
        BY <2>2 DEF Undoing, undo_merge, restore_relocation
      <3> QED BY <1>1, <1>4, <2>2, <3>1
    <2> QED BY <2>1, <2>2
  <1>6. /\ \A b \in Standing(rows) :
               ground[b] = wg[b] + total(TakenFrom(rows, wg, b), Books)
        /\ \A m \in rows :
              /\ m.moved_ground + m.folded_ground = wg[m.source]
              /\ m.moved_ground > 0 => wg[m.target] = 0
              /\ \A k \in rows :
                    k.target = m.target /\ k.moved_ground > 0 /\ m.moved_ground > 0
                    => k = m
    BY <1>3 DEF GroundSince
  <1>7. PICK f : f = TakenFrom(rows, wg, l.target)
    OBVIOUS
  <1>8. PICK e : e = TakenFrom(rows \ {x}, wg, l.target)
    OBVIOUS
  <1>9. /\ f[l.source] = wg[l.source] /\ e[l.source] = 0
        /\ \A b \in Books \ {l.source} : e[b] = f[b]
    BY <1>1, <1>7, <1>8 DEF TakenFrom
  <1>10. /\ \A b \in Books : f[b] \in Nat
         /\ \A b \in Books : e[b] \in Nat
         /\ total(f, Books) \in Nat /\ total(e, Books) \in Nat
    BY <1>7, <1>8, Taken
  <1>11. total(e, Books) = total(f, Books) - wg[l.source]
    <2>1. \A b \in Books \ {l.source} : e[b] = f[b]
      BY <1>9
    <2>2. e[l.source] \in Nat /\ \A b \in Books : f[b] \in Nat
      BY <1>1, <1>10
    <2>3. IsFiniteSet(Books) /\ l.source \in Books
      BY <1>1, Bounds
    <2>4. total(e, Books) = total(f, Books) - f[l.source] + e[l.source]
      BY <2>1, <2>2, <2>3, TotalChange
    <2> QED BY <1>1, <1>9, <1>10, <2>4
  <1>12. /\ ground[l.target] = wg[l.target] + total(f, Books)
         /\ l.moved_ground + l.folded_ground = wg[l.source]
         /\ l.moved_ground > 0 => wg[l.target] = 0
         /\ l.moved_ground \in Nat /\ l.folded_ground \in Nat
    BY <1>1, <1>2, <1>6, <1>7 DEF Sound, FactRow
  <1>13. l.moved_ground > 0 => total(e, Books) = 0
    <2> HAVE l.moved_ground > 0
    <2>1. ASSUME NEW m \in rows \ {x}, m.target = l.target
          PROVE  wg[m.source] = 0
      <3>1. m.moved_ground \in Nat /\ m.folded_ground \in Nat /\ m.id \in Nat /\ x.id \in Nat
        BY <1>1 DEF Sound, FactRow
      <3>2. ~(m.moved_ground > 0)
        BY <1>1, <1>2, <1>6, <2>1
      <3>3. m.folded_ground = 0
        <4>1. CASE m.id > l.id
          BY <2>1, <3>1, <4>1, UndoClear
        <4>2. CASE m.id <= l.id
          <5>1. PICK k \in log : m = bare(k)
            BY DEF Undoing, Facts
          <5>2. k \in Snapshot
            BY DEF Undoing, IInv, TypeOK
          <5>3. m.target = k.target /\ m.id = k.id /\ m.folded_ground = k.folded_ground
            BY <5>1, <5>2, BareOf
          <5> QED BY <2>1, <4>2, <5>3 DEF Undoing, IInv, Covered
        <4> QED BY <1>1, <3>1, <4>1, <4>2
      <3> QED BY <1>6, <3>1, <3>2, <3>3
    <2>2. \A b \in Books : e[b] = 0
      BY <1>8, <2>1 DEF TakenFrom
    <2> QED BY <1>10, <2>2, Bounds, TotalBounds
  <1>14. ASSUME NEW b \in Standing(rows \ {x})
         PROVE  ground'[b] = wg[b] + total(TakenFrom(rows \ {x}, wg, b), Books)
    <2>1. CASE b = l.target
      <3>1. total(TakenFrom(rows \ {x}, wg, b), Books) = total(e, Books)
        BY <1>8, <2>1
      <3>2. ground'[b] = wg[b] + total(e, Books)
        BY <1>1, <1>4, <1>10, <1>11, <1>12, <1>13, <2>1
      <3> QED BY <3>1, <3>2
    <2>2. CASE b = l.source
      <3>1. total(TakenFrom(rows \ {x}, wg, b), Books) = 0
        BY <1>1, <2>2, Taken
      <3>2. ground'[b] = wg[b]
        <4>1. CASE l.moved_ground > 0
          <5>1. total(f, Books) = wg[l.source]
            BY <1>1, <1>10, <1>11, <1>13, <4>1
          <5> QED BY <1>1, <1>5, <1>12, <2>2, <4>1, <5>1
        <4>2. CASE ~(l.moved_ground > 0)
          BY <1>5, <1>12, <2>2, <4>2
        <4> QED BY <4>1, <4>2
      <3> QED BY <1>1, <2>2, <3>1, <3>2
    <2>3. CASE b # l.target /\ b # l.source
      <3>1. b \in Standing(rows) /\ b \in Books
        BY <1>1, <2>3 DEF Standing
      <3>2. TakenFrom(rows \ {x}, wg, b) = TakenFrom(rows, wg, b)
        BY <1>1, <2>3 DEF TakenFrom
      <3> QED BY <1>4, <1>6, <2>3, <3>1, <3>2
    <2> QED BY <2>1, <2>2, <2>3
  <1> QED BY <1>3, <1>6, <1>14 DEF GroundSince

(* The first merge that is left into a book gets the key from before l, or *)
(* has it already.                                                         *)
LEMMA UndoSort ==
    ASSUME NEW l, NEW was, NEW rows, NEW x, Undoing(l, was, rows, x),
           AuthorsSince(was, rows), SortSince(was, log)
    PROVE  SortSince(was, log)'
  <1> DEFINE s == l.source
             t == l.target
  <1>1. /\ l \in log /\ s \in Books /\ t \in Books /\ s # t
        /\ s \notin live /\ t \in live
        /\ log' = {heir(m, l) : m \in log \ {l}}
    BY UndoFrame DEF Undoing
  <1>2. \A m \in log : /\ m \in Snapshot /\ m.id \in Nat
                       /\ m.target \in live /\ m.source \notin live
    <2>1. \A m \in log : /\ m \in Snapshot
                         /\ m.target \in live /\ m.source \notin live
      BY DEF Undoing, IInv, TypeOK
    <2>2. \A m \in Snapshot : m.id \in Nat
      BY Bounds DEF Snapshot
    <2> QED BY <2>1, <2>2
  <1>3. \A m, n \in log : m.id = n.id \/ m.source = n.source => m = n
    BY DEF Undoing, IInv, TypeOK, Entries
  <1>4. \A m \in log : Alike(heir(m, l), m)
    BY <1>1, Heirs DEF Undoing
  <1>5. \A m \in log : heir(m, l).id = m.id /\ heir(m, l).source = m.source
                       /\ heir(m, l).target = m.target
                       /\ heir(m, l).source_sort = m.source_sort
    BY <1>4 DEF Alike
  <1>6. /\ sort'[s] = l.source_sort
        /\ sort'[t] = sort_of(authors'[t], l.target_sort)
        /\ \A b \in Books \ {s, t} : sort'[b] = sort[b]
    BY UndoLinks DEF Undoing
  <1>7. (\A m \in log : m.target = t => l.id <= m.id) => l.target_sort = was.sort[t]
    BY <1>1 DEF SortSince
  <1>8. ASSUME \A m \in log \ {l} : m.target # t
        PROVE  sort'[t] = was.sort[t]
    <2>1. l.target_sort = was.sort[t]
      <3>1. \A m \in log : m.target = t => l.id <= m.id
        BY <1>2, <1>8
      <3> QED BY <1>7, <3>1
    <2>2. authors'[t] = was.authors[t]
      <3>1. AuthorsSince(was, rows \ {x})'
        BY UndoAuthors
      <3>2. AmongRows(l, rows, x)
        BY UndoStanding
      <3>3. t \in Standing(rows \ {x})
        BY <3>2 DEF AmongRows
      <3>4. \A m \in rows \ {x} : m.target # t
        <4> TAKE m \in rows \ {x}
        <4>1. PICK k \in log : m = bare(k)
          BY DEF Undoing, Facts
        <4>2. m.target = k.target
          BY <1>2, <4>1, BareOf
        <4>3. k # l
          BY <4>1 DEF Undoing
        <4> QED BY <1>8, <4>2, <4>3
      <3>5. AddedTo(rows \ {x}, t) = {}
        BY <3>4 DEF AddedTo
      <3>6. without(authors'[t], {}) = was.authors[t]
        BY <3>1, <3>3, <3>5 DEF AuthorsSince
      <3>7. authors'[t] \in Seq(Author)
        <4>1. authors' \in [Books -> Names]
          BY UndoNames DEF Undoing
        <4> QED BY <1>1, <4>1 DEF Names
      <3> QED BY <3>6, <3>7, WithoutNone
    <2>3. t \in was.live
      BY <1>1 DEF Undoing, LiveSince
    <2>4. KeyOf(was.authors[t], was.sort[t])
      BY <2>3 DEF SortSince
    <2> QED BY <1>6, <2>1, <2>2, <2>4 DEF KeyOf, sort_of
  <1>9. ASSUME NEW b \in Books, \A k \in log' : k.source # b,
               \A k \in log' : k.target # b
        PROVE  sort'[b] = was.sort[b]
    <2>1. \A m \in log \ {l} : m.source # b /\ m.target # b
      BY <1>1, <1>5, <1>9
    <2>2. CASE b = s
      BY <1>1, <1>6, <2>2 DEF SortSince
    <2>3. CASE b = t
      BY <1>8, <2>1, <2>3
    <2>4. CASE b # s /\ b # t
      <3>1. b \in Standing(log) /\ \A m \in log : m.target # b
        BY <2>1, <2>4 DEF Standing
      <3> QED BY <1>6, <2>4, <3>1 DEF SortSince
    <2> QED BY <2>2, <2>3, <2>4
  <1>10. \A k \in log' : k.source_sort = was.sort[k.source]
    BY <1>1, <1>5 DEF SortSince
  <1>11. ASSUME NEW m \in log \ {l},
                \A k \in log' : k.target = m.target => m.id <= k.id
         PROVE  heir(m, l).target_sort = was.sort[m.target]
    <2>1. \A n \in log \ {l} : n.target = m.target => m.id <= n.id
      BY <1>1, <1>5, <1>11
    <2>2. CASE m.target = t /\ m.id > l.id
      <3>1. m \in later(l) /\ \A n \in later(l) : m.id <= n.id
        BY <1>2, <2>1, <2>2 DEF later
      <3>2. heir(m, l) = [m EXCEPT !.target_sort = l.target_sort]
        BY <3>1 DEF heir
      <3>3. heir(m, l).target_sort = l.target_sort
        BY <1>2, <3>2 DEF Snapshot
      <3>4. ASSUME NEW n \in log, n.target = t
            PROVE  l.id <= n.id
        <4>1. n.id \in Nat /\ m.id \in Nat /\ l.id \in Nat
          BY <1>1, <1>2
        <4>2. n # l => m.id <= n.id
          BY <2>1, <2>2, <3>4
        <4> QED BY <2>2, <4>1, <4>2
      <3> QED BY <1>7, <2>2, <3>3, <3>4
    <2>3. CASE ~(m.target = t /\ m.id > l.id)
      <3>1. heir(m, l) = m
        BY <2>3 DEF heir, later
      <3>2. ASSUME NEW n \in log, n.target = m.target
            PROVE  m.id <= n.id
        <4>1. CASE n = l
          <5>1. m.target = t
            BY <3>2, <4>1
          <5>2. m.id \in Nat /\ l.id \in Nat
            BY <1>1, <1>2
          <5> QED BY <2>3, <4>1, <5>1, <5>2
        <4>2. CASE n # l
          BY <2>1, <3>2, <4>2
        <4> QED BY <4>1, <4>2
      <3> QED BY <3>1, <3>2 DEF SortSince
    <2> QED BY <2>2, <2>3
  <1>12. ASSUME NEW k \in log', \A n \in log' : n.target = k.target => k.id <= n.id
         PROVE  k.target_sort = was.sort[k.target]
    <2>1. PICK m \in log \ {l} : k = heir(m, l)
      BY <1>1
    <2>2. k.target = m.target /\ k.id = m.id
      BY <1>5, <2>1
    <2> QED BY <1>11, <1>12, <2>1, <2>2
  <1>13. \A b \in was.live : KeyOf(was.authors[b], was.sort[b])
    BY DEF SortSince
  <1> QED BY <1>9, <1>10, <1>12, <1>13 DEF SortSince, Standing

(* A merge into nothing that is open starts anew from the books as they    *)
(* are, and else it adds to what the log says.                             *)
LEMMA MergeSince ==
    ASSUME IInv, Keyed, RowIds, Open, NEW s \in Books, NEW t \in Books,
           merge_books(s, t)
    PROVE  Open'
  <1> SUFFICES ASSUME (before # None /\ ~mixed)'
               PROVE  (before \in Contents /\ Since(before, Facts)
                       /\ SortSince(before, log))'
    BY DEF Open
  <1>1. PICK was : was = before'
    OBVIOUS
  <1>2. PICK rows : rows = {m \in Facts : m.target # s}
    OBVIOUS
  <1>3. PICK kept_log : kept_log = {m \in log : m.target # s}
    OBVIOUS
  <1>4. PICK x : x = bare(build_snapshot(s, t))
    OBVIOUS
  <1>5. PICK k : k = build_snapshot(s, t)
    OBVIOUS
  <1>6. \A m \in log : m \in Snapshot /\ bare(m).target = m.target
    BY BareOf DEF IInv, TypeOK
  <1>7. was \in Contents /\ Since(was, rows) /\ SortSince(was, kept_log)
    <2>1. CASE cascaded(s) = {}
      <3>1. was = contents
        BY <1>1, <2>1 DEF merge_books
      <3>2. was \in Contents /\ Since(was, {}) /\ SortSince(was, {})
        BY <3>1, SinceNow
      <3>3. kept_log = {} /\ rows = {}
        BY <1>2, <1>3, <1>6, <2>1 DEF cascaded, Facts
      <3> QED BY <3>2, <3>3
    <2>2. CASE cascaded(s) # {}
      <3>1. before' = before /\ mixed' = (mixed \/ cascaded(s) # log)
        BY <2>2 DEF merge_books
      <3>2. ~mixed /\ cascaded(s) = log /\ was = before /\ before # None
        BY <1>1, <3>1
      <3>3. was \in Contents /\ Since(was, Facts) /\ SortSince(was, log)
        BY <3>2 DEF Open
      <3>4. kept_log = log /\ rows = Facts
        BY <1>2, <1>3, <1>6, <3>2 DEF cascaded, Facts
      <3> QED BY <3>3, <3>4
    <2> QED BY <2>1, <2>2
  <1>8. Merging(s, t, was, rows, x)
    BY <1>2, <1>4, <1>7 DEF Merging, Since
  <1>9. Since(was, rows \cup {x})'
    <2>1. LiveSince(was, rows \cup {x})'
      BY <1>8, MergeLive
    <2>2. FilesSince(was, rows \cup {x})'
      BY <1>7, <1>8, MergeFiles DEF Since
    <2>3. EventsSince(was, rows \cup {x})'
      BY <1>7, <1>8, MergeAnnotations DEF Since
    <2>4. AuthorsSince(was, rows \cup {x})'
      BY <1>7, <1>8, MergeAuthors DEF Since
    <2>5. ProgressSince(was, rows \cup {x})'
      BY <1>7, <1>8, MergeProgress DEF Since
    <2>6. OpinionSince(was, rows \cup {x})'
      BY <1>7, <1>8, MergeOpinion DEF Since
    <2>7. GroundSince(was, rows \cup {x})'
      BY <1>7, <1>8, MergeTaken DEF Since
    <2> QED BY <2>1, <2>2, <2>3, <2>4, <2>5, <2>6, <2>7 DEF Since
  <1>10. SortSince(was, kept_log \cup {k})'
    <2>1. kept_log \subseteq log /\ \A m \in kept_log : m.target # s
      BY <1>3
    <2>2. SortSince(was, kept_log)
      BY <1>7
    <2> QED BY <1>5, <2>1, <2>2, MergeSort
  <1>11. Facts' = rows \cup {x}
    BY <1>2, <1>4, MergeFacts
  <1>12. log' = kept_log \cup {k}
    BY <1>3, <1>5, MergeFrame
  <1>13. was \in Contents'
    BY <1>7 DEF Contents
  <1>14. Since(before, Facts)'
    BY <1>1, <1>9, <1>11
  <1>15. SortSince(before, log)'
    BY <1>1, <1>10, <1>12
  <1> QED BY <1>1, <1>13, <1>14, <1>15

(* An undo takes its row away.                                             *)
LEMMA UndoSince ==
    ASSUME IInv, RowIds, Open, NEW l \in log, undo_merge(l)
    PROVE  Open'
  <1>1. before' = before /\ mixed' = mixed
    BY DEF undo_merge, history
  <1> SUFFICES ASSUME before # None, ~mixed
               PROVE  (before \in Contents /\ Since(before, Facts)
                       /\ SortSince(before, log))'
    BY <1>1 DEF Open
  <1>2. PICK was : was = before
    OBVIOUS
  <1>3. PICK rows : rows = Facts
    OBVIOUS
  <1>4. PICK x : x = bare(l)
    OBVIOUS
  <1>5. was \in Contents /\ Since(was, rows) /\ SortSince(was, log)
    BY <1>2, <1>3 DEF Open
  <1>6. Undoing(l, was, rows, x)
    BY <1>3, <1>4, <1>5 DEF Undoing, Since
  <1>7. Since(was, rows \ {x})'
    <2>1. LiveSince(was, rows \ {x})'
      BY <1>6, UndoLive
    <2>2. FilesSince(was, rows \ {x})'
      BY <1>5, <1>6, UndoFiles DEF Since
    <2>3. EventsSince(was, rows \ {x})'
      BY <1>5, <1>6, UndoAnnotations DEF Since
    <2>4. AuthorsSince(was, rows \ {x})'
      BY <1>5, <1>6, UndoAuthors DEF Since
    <2>5. ProgressSince(was, rows \ {x})'
      BY <1>5, <1>6, UndoProgress DEF Since
    <2>6. OpinionSince(was, rows \ {x})'
      BY <1>5, <1>6, UndoOpinion DEF Since
    <2>7. GroundSince(was, rows \ {x})'
      BY <1>5, <1>6, UndoTaken DEF Since
    <2> QED BY <2>1, <2>2, <2>3, <2>4, <2>5, <2>6, <2>7 DEF Since
  <1>8. SortSince(was, log)'
    BY <1>5, <1>6, UndoSort DEF Since
  <1>9. Facts' = rows \ {x}
    BY <1>3, <1>4, UndoFacts
  <1>10. was \in Contents'
    BY <1>5 DEF Contents
  <1>11. was = before'
    BY <1>1, <1>2
  <1>12. Since(before, Facts)'
    BY <1>7, <1>9, <1>11
  <1>13. SortSince(before, log)'
    BY <1>8, <1>11
  <1> QED BY <1>10, <1>11, <1>12, <1>13

(* At first nothing is merged and every book has its first author's key.   *)
LEMMA InitUndoable == Init => IInv /\ Keyed /\ RowIds /\ Open
  <1> SUFFICES ASSUME Init PROVE Keyed /\ RowIds /\ Open
    BY InitSound
  <1>1. authors \in [Books -> Names]
    BY Bounds DEF Init
  <1>2. \A b \in Books : authors[b] \in Seq(Author)
    BY <1>1 DEF Names
  <1>3. \A b \in Books : /\ sort[b] = sort_of(authors[b], b)
                         /\ sort[b] \in Author \cup {b}
    BY <1>1, SortOf DEF Init
  <1>4. sort \in [Books -> Author \cup Books]
    BY <1>3 DEF Init
  <1>5. Keyed
    BY <1>3, <1>4 DEF Init, Keyed, KeyOf, sort_of
  <1>6. RowIds
    BY DEF Init, RowIds, Ids, Apart, Facts
  <1>7. Open
    BY DEF Init, Open
  <1> QED BY <1>5, <1>6, <1>7

(* What the reader writes ends the record when a merge is open, and there  *)
(* is none to end when none is.                                            *)
LEMMA WriteSince ==
    ASSUME IInv, Keyed, RowIds, written,
           \/ progress' = progress /\ next_row' = next_row
           \/ \E b \in live : upsert_progress(b)
    PROVE  Keyed' /\ RowIds' /\ Open'
  <1>1. /\ live' = live /\ authors' = authors /\ sort' = sort /\ log' = log
        /\ mixed' = (log # {}) /\ before' = IF log = {} THEN None ELSE before
    BY DEF written
  <1>2. Keyed'
    BY <1>1 DEF Keyed
  <1>3. Open'
    BY <1>1 DEF Open
  <1>4. Facts' = Facts
    BY <1>1 DEF Facts
  <1>5. CASE progress' = progress /\ next_row' = next_row
    <2>1. RowIds'
      BY <1>4, <1>5 DEF RowIds, Ids, Apart
    <2> QED BY <1>2, <1>3, <2>1
  <1>6. ASSUME NEW b \in live, upsert_progress(b)
        PROVE  RowIds'
    <2> DEFINE fresh == progress[b] = None
               id == IF fresh THEN next_row ELSE progress[b].id
    <2>1. /\ progress' = [progress EXCEPT ![b] = [id |-> id, at |-> now]]
          /\ next_row' = IF fresh THEN next_row + 1 ELSE next_row
      BY <1>6 DEF upsert_progress
    <2>2. /\ b \in Books /\ DOMAIN progress = Books /\ next_row \in Nat
          /\ \A y \in Books : progress[y] # None => progress[y].id \in Nat
      <3>1. /\ b \in Books /\ progress \in [Books -> Maybe(Position)]
            /\ next_row \in Nat
        BY DEF IInv, TypeOK
      <3>2. \A p \in Position : p.id \in Nat
        BY Bounds DEF Position
      <3> QED BY <3>1, <3>2 DEF Maybe
    <2>3. /\ progress'[b] = [id |-> id, at |-> now]
          /\ \A y \in Books \ {b} : progress'[y] = progress[y]
      BY <2>1, <2>2
    <2>4. progress'[b].id = id
      BY <2>3
    <2>5. /\ \A y \in Books : progress[y] # None => progress[y].id < next_row
          /\ \A y, z \in Books :
                progress[y] # None /\ progress[z] # None
                /\ progress[y].id = progress[z].id => y = z
      BY DEF RowIds, Ids
    <2>6. next_row' \in Nat /\ next_row <= next_row' /\ id \in Nat /\ id < next_row'
      BY <2>1, <2>2, <2>5
    <2>7. \A y \in Books \ {b} : progress[y] # None => progress[y].id # id
      BY <2>2, <2>5
    <2>8. Ids(progress, next_row)'
      <3>1. ASSUME NEW y \in Books, progress'[y] # None
            PROVE  progress'[y].id < next_row'
        <4>1. CASE y = b
          BY <2>4, <2>6, <4>1
        <4>2. CASE y # b
          <5>1. progress[y] # None /\ progress'[y] = progress[y]
            BY <2>3, <3>1, <4>2
          <5>2. progress[y].id \in Nat /\ progress[y].id < next_row
            BY <2>2, <2>5, <5>1
          <5> QED BY <2>2, <2>6, <5>1, <5>2
        <4> QED BY <4>1, <4>2
      <3>2. ASSUME NEW y \in Books, NEW z \in Books,
                   progress'[y] # None, progress'[z] # None,
                   progress'[y].id = progress'[z].id
            PROVE  y = z
        BY <2>3, <2>4, <2>5, <2>7, <3>2
      <3> QED BY <3>1, <3>2 DEF Ids
    <2>9. ASSUME NEW l \in Facts
          PROVE  Apart(progress, next_row, l.deleted)'
      <3>1. /\ \A d \in l.deleted : d.row \in Position
        BY FactsSound DEF Sound, FactRow
      <3>2. \A p \in Position : p.id \in Nat
        BY Bounds DEF Position
      <3>3. Apart(progress, next_row, l.deleted)
        BY DEF RowIds
      <3>4. ASSUME NEW d \in l.deleted
            PROVE  /\ d.row.id < next_row'
                   /\ \A y \in Books : progress'[y] # None => progress'[y].id # d.row.id
        <4>1. /\ d.row.id \in Nat /\ d.row.id < next_row
              /\ \A y \in Books : progress[y] # None => progress[y].id # d.row.id
          BY <3>1, <3>2, <3>3 DEF Apart
        <4>2. d.row.id < next_row'
          BY <2>2, <2>6, <4>1
        <4>3. id # d.row.id
          BY <2>2, <4>1
        <4> QED BY <2>3, <2>4, <4>1, <4>2, <4>3
      <3> QED BY <3>4 DEF Apart
    <2> QED BY <1>4, <2>8, <2>9 DEF RowIds
  <1> QED BY <1>2, <1>3, <1>5, <1>6

(* Every step keeps the invariant behind the round trip.                   *)
LEMMA StepReturns == Undoable /\ [Next]_vars => Undoable'
  <1> SUFFICES ASSUME Undoable, [Next]_vars PROVE Undoable'
    OBVIOUS
  <1>1. IInv /\ Keyed /\ RowIds /\ Open
    BY DEF Undoable
  <1>2. IInv'
    BY <1>1, StepSound
  <1>3. Keyed' /\ RowIds' /\ Open'
    <2>1. ASSUME NEW b \in live, upsert_progress(b)
          PROVE  Keyed' /\ RowIds' /\ Open'
      BY <1>1, <2>1, WriteSince DEF upsert_progress
    <2>2. ASSUME NEW b \in live, add_ground(b) \/ create_annotation(b)
          PROVE  Keyed' /\ RowIds' /\ Open'
      BY <1>1, <2>2, WriteSince DEF add_ground, create_annotation
    <2>3. ASSUME NEW b \in live, NEW t \in Curated, NEW field \in fields(t),
                 set_opinion(t, field, b)
          PROVE  Keyed' /\ RowIds' /\ Open'
      BY <1>1, <2>3, WriteSince DEF set_opinion
    <2>4. ASSUME NEW s \in Books, NEW t \in Books, merge_books(s, t)
          PROVE  Keyed' /\ RowIds' /\ Open'
      BY <1>1, <2>4, MergeKeyed, MergeRowIds, MergeSince
    <2>5. ASSUME NEW l \in log, undo_merge(l)
          PROVE  Keyed' /\ RowIds' /\ Open'
      BY <1>1, <2>5, UndoKeyed, UndoRowIds, UndoSince
    <2>6. CASE UNCHANGED vars
      <3>1. /\ live' = live /\ holder' = holder /\ authors' = authors
            /\ sort' = sort /\ progress' = progress /\ opinion' = opinion
            /\ ground' = ground /\ event' = event /\ log' = log
            /\ next_row' = next_row /\ before' = before /\ mixed' = mixed
        BY <2>6 DEF vars, tables, history
      <3>2. Facts' = Facts
        BY <3>1 DEF Facts
      <3>3. Keyed' /\ RowIds'
        BY <1>1, <3>1, <3>2 DEF Keyed, RowIds, Ids, Apart
      <3>4. Since(before, Facts)' = Since(before, Facts)
        BY <3>1, <3>2 DEF Since, LiveSince, FilesSince, EventsSince,
           AuthorsSince, ProgressSince, OpinionSince, GroundSince
      <3>5. SortSince(before, log)' = SortSince(before, log)
        BY <3>1 DEF SortSince
      <3>6. Open'
        BY <1>1, <3>1, <3>4, <3>5 DEF Open, Contents
      <3> QED BY <3>3, <3>6
    <2> QED BY <2>1, <2>2, <2>3, <2>4, <2>5, <2>6 DEF Next
  <1> QED BY <1>2, <1>3 DEF Undoable

(* In every history the log says how the books were.                       *)
THEOREM Returns == Spec => []Undoable
  <1>1. Init => Undoable
    BY InitUndoable DEF Undoable
  <1> QED BY <1>1, StepReturns, PTL DEF Spec

(* When every merge is undone, in whatever order, and the reader wrote     *)
(* nothing since the first of them, the books are what they were.          *)
THEOREM ComesBack == Spec => []RoundTrip
  <1>1. Undoable => RoundTrip
    <2> SUFFICES ASSUME Undoable, log = {}, before # None, ~mixed
                 PROVE  contents = before
      BY DEF RoundTrip
    <2>1. Facts = {}
      BY DEF Facts
    <2>2. before \in Contents /\ Since(before, {}) /\ SortSince(before, {})
      BY <2>1 DEF Undoable, Open
    <2>3. Standing({}) = Books
      BY DEF Standing
    <2>4. TypeOK /\ Keyed
      BY DEF Undoable, IInv
    <2>5. live = before.live
      BY <2>2, <2>3 DEF Since, LiveSince, Contents
    <2>6. holder = before.holder
      <3>1. before.holder \in [Books -> Books] /\ holder \in [Books -> live]
        BY <2>2, <2>4 DEF Contents, TypeOK
      <3>2. \A f \in Books : holder[f] = before.holder[f]
        BY <2>2, <2>3, <3>1 DEF Since, FilesSince
      <3> QED BY <3>1, <3>2
    <2>7. event = before.event
      <3>1. before.event \in [Write -> Maybe(Books)] /\ event \in [Write -> Maybe(live)]
        BY <2>2, <2>4 DEF Contents, TypeOK
      <3>2. \A e \in Write : event[e] = before.event[e]
        BY <2>2, <2>3, <3>1 DEF Since, EventsSince, Maybe
      <3> QED BY <3>1, <3>2
    <2>8. authors = before.authors
      <3>1. before.authors \in [Books -> Names] /\ authors \in [Books -> Names]
        BY <2>2, <2>4 DEF Contents, TypeOK
      <3>2. \A b \in Books : AddedTo({}, b) = {}
        BY DEF AddedTo
      <3>3. \A b \in Books : without(authors[b], {}) = before.authors[b]
        BY <2>2, <2>3, <3>2 DEF Since, AuthorsSince
      <3>4. \A b \in Books : authors[b] \in Seq(Author)
        BY <3>1 DEF Names
      <3>5. \A b \in Books : authors[b] = before.authors[b]
        BY <3>3, <3>4, WithoutNone
      <3> QED BY <3>1, <3>5
    <2>9. sort = before.sort
      <3>1. before.sort \in [Books -> Author \cup Books] /\ sort \in [Books -> Author \cup Books]
        BY <2>2, <2>4 DEF Contents, Keyed
      <3>2. \A b \in Books : sort[b] = before.sort[b]
        BY <2>2, <2>3 DEF SortSince
      <3> QED BY <3>1, <3>2
    <2>10. progress = before.progress
      <3>1. /\ before.progress \in [Books -> Maybe(Position)]
            /\ progress \in [Books -> Maybe(Position)]
        BY <2>2, <2>4 DEF Contents, TypeOK
      <3>2. \A b \in Books : Moves({}, b) = {}
        BY DEF Moves
      <3>3. \A b \in Books : There(progress[b]) = There(before.progress[b])
        BY <2>2, <2>3, <3>2 DEF Since, ProgressSince, Chain
      <3>4. \A b \in Books : progress[b] = before.progress[b]
        BY <3>3 DEF There
      <3> QED BY <3>1, <3>4
    <2>11. opinion = before.opinion
      <3>1. /\ before.opinion \in [Curated -> [Books -> Maybe(Says)]]
            /\ opinion \in [Curated -> [Books -> Maybe(Says)]]
        BY <2>2, <2>4 DEF Contents, TypeOK
      <3>2. \A b \in Books, c \in Curated : Settles({}, b, c) = {}
        BY DEF Settles
      <3>3. \A c \in Curated : \A b \in Books : opinion[c][b] = before.opinion[c][b]
        BY <2>2, <2>3, <3>2 DEF Since, OpinionSince, Chain
      <3>4. \A c \in Curated : opinion[c] = before.opinion[c]
        BY <3>1, <3>3
      <3> QED BY <3>1, <3>4
    <2>12. ground = before.ground
      <3>1. before.ground \in [Books -> Nat] /\ ground \in [Books -> 0 .. MaxWrites]
        BY <2>2, <2>4 DEF Contents, TypeOK
      <3>2. \A b \in Books : total(TakenFrom({}, before.ground, b), Books) = 0
        BY <3>1, Taken
      <3>3. \A b \in Books :
                ground[b] = before.ground[b] + total(TakenFrom({}, before.ground, b), Books)
        BY <2>2, <2>3 DEF Since, GroundSince
      <3>4. \A b \in Books : ground[b] = before.ground[b]
        BY <3>1, <3>2, <3>3
      <3> QED BY <3>1, <3>4
    <2> QED BY <2>2, <2>5, <2>6, <2>7, <2>8, <2>9, <2>10, <2>11, <2>12
            DEF contents, Contents
  <1> QED BY <1>1, Returns, PTL
==============================================================================
