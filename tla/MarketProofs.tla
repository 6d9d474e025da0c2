---------------------------- MODULE MarketProofs ----------------------------
(***************************************************************************)
(* Theorems about the market, for any players, prices, fees and numbers of *)
(* offers and checks.  Gold and goods are sums over players and offers, so *)
(* the proof begins with what a sum is: SumFunctionOnSet is a recursive    *)
(* function over the subsets of a set, and its laws follow by induction    *)
(* over them, stated for sets instead of predicates.                       *)
(***************************************************************************)
EXTENDS Market, FiniteSetTheorems, SequenceTheorems, TLAPS

Pick(s) == CHOOSE x \in s : TRUE

LEMMA Least ==
    ASSUME NEW T \in SUBSET Nat, T # {}
    PROVE  \E x \in T : \A y \in T : x <= y
  <1>1. PICK x \in T : \A y \in T : ~(<<y, x>> \in OpToRel(<, Nat))
    BY NatLessThanWellFounded, WFMin
  <1>2. x \in Nat /\ \A y \in T : y \in Nat
    OBVIOUS
  <1>3. \A y \in T : ~(y < x)
    BY <1>1, <1>2, Zenon DEF OpToRel
  <1> QED BY <1>2, <1>3

LEMMA SubsetInduction ==
    ASSUME NEW S, IsFiniteSet(S), NEW G,
           \A s \in SUBSET S : (\A t \in SUBSET s : t # s => t \in G) => s \in G
    PROVE  SUBSET S \subseteq G
  <1> DEFINE Bad == (SUBSET S) \ G
             C == {Cardinality(s) : s \in Bad}
  <1> SUFFICES ASSUME Bad # {} PROVE FALSE
    OBVIOUS
  <1>1. \A s \in SUBSET S : IsFiniteSet(s) /\ Cardinality(s) \in Nat
    BY FS_Subset, FS_CardinalityType
  <1>2. C \in SUBSET Nat /\ C # {}
    BY <1>1
  <1>3. PICK n \in C : \A m \in C : n <= m
    BY <1>2, Least
  <1>4. PICK s \in Bad : n = Cardinality(s)
    OBVIOUS
  <1>5. ASSUME NEW t \in SUBSET s, t # s PROVE t \in G
    <2>1. Cardinality(t) < Cardinality(s)
      BY <1>1, <1>4, <1>5, FS_Subset
    <2>2. t \in Bad => Cardinality(s) <= Cardinality(t)
      BY <1>3, <1>4
    <2>3. t \in SUBSET S
      BY <1>4
    <2> QED BY <1>1, <2>1, <2>2, <2>3
  <1> QED BY <1>4, <1>5

LEMMA Minus ==
    ASSUME NEW s, IsFiniteSet(s), NEW e \in s
    PROVE  /\ IsFiniteSet(s \ {e}) /\ s \ {e} \in SUBSET s /\ s \ {e} # s
           /\ Cardinality(s \ {e}) = Cardinality(s) - 1
  BY FS_RemoveElement

LEMMA PickGives ==
    ASSUME NEW s, s # {} PROVE Pick(s) \in s
  BY DEF Pick

\* f is computed from the value at the empty set by g.
Computes(f, S, base, g) ==
    \A s \in SUBSET S : f[s] = IF s = {} THEN base ELSE g[<<Pick(s), f[s \ {Pick(s)}]>>]

\* A recursion over the subsets of a finite set defines a function.
LEMMA Recursion ==
    ASSUME NEW S, IsFiniteSet(S), NEW W, NEW base \in W, NEW g \in [S \X W -> W]
    PROVE  \E f \in [SUBSET S -> W] : Computes(f, S, base, g)
  <1> DEFINE Upto(n) == {s \in SUBSET S : Cardinality(s) <= n}
             Val(f, s) == IF s = {} THEN base ELSE g[<<Pick(s), f[s \ {Pick(s)}]>>]
             Good(n, f) == f \in [Upto(n) -> W] /\ \A s \in Upto(n) : f[s] = Val(f, s)
             Left == {n \in Nat : ~ \E f : Good(n, f)}
  <1>1. \A s \in SUBSET S : IsFiniteSet(s) /\ Cardinality(s) \in Nat
    BY FS_Subset, FS_CardinalityType
  <1>2. \E f : Good(0, f)
    <2> DEFINE f == [s \in Upto(0) |-> base]
    <2>1. \A s \in Upto(0) : s = {}
      BY <1>1, FS_EmptySet
    <2>2. Good(0, f)
      BY <2>1
    <2> QED BY <2>2
  <1>3. ASSUME NEW n \in Nat, NEW f, Good(n, f) PROVE \E h : Good(n + 1, h)
    <2> DEFINE h == [s \in Upto(n + 1) |-> Val(f, s)]
    <2>1. \A s \in Upto(n) : s \in Upto(n + 1) /\ h[s] = f[s]
      BY <1>1, <1>3
    <2>2. ASSUME NEW s \in Upto(n + 1), s # {} PROVE Pick(s) \in S /\ s \ {Pick(s)} \in Upto(n)
      BY <2>2, <1>1, Minus, PickGives
    <2>3. \A s \in Upto(n + 1) : h[s] = Val(h, s)
      BY <2>1, <2>2
    <2>4. \A s \in Upto(n + 1) : Val(f, s) \in W
      BY <1>3, <2>2
    <2>5. h \in [Upto(n + 1) -> W]
      BY <2>4
    <2> HIDE DEF h
    <2> QED BY <2>3, <2>5
  <1> HIDE DEF Good
  <1>4. Left = {}
    <2> SUFFICES ASSUME Left # {} PROVE FALSE
      OBVIOUS
    <2>1. PICK n \in Left : \A m \in Left : n <= m
      BY Least
    <2>2. n # 0 /\ n \in Nat
      BY <1>2
    <2>3. n - 1 \in Nat /\ n - 1 \notin Left
      BY <2>1, <2>2
    <2>4. PICK f : Good(n - 1, f)
      BY <2>3
    <2>5. \E h : Good((n - 1) + 1, h)
      BY <2>3, <2>4, <1>3
    <2>6. (n - 1) + 1 = n
      BY <2>2
    <2> QED BY <2>1, <2>5, <2>6
  <1>5. PICK f : Good(Cardinality(S), f)
    BY <1>1, <1>4
  <1>6. Upto(Cardinality(S)) = SUBSET S
    BY FS_Subset
  <1> QED BY <1>5, <1>6 DEF Good, Computes

-----------------------------------------------------------------------------
(* Sums.                                                                   *)

Numbers(f, S) == IsFiniteSet(S) /\ \A x \in S : f[x] \in Int

\* The recursive function that a sum over S is read from.
Sums(f, S) == CHOOSE it : it = [s \in SUBSET S |->
                  IF s = {} THEN 0 ELSE f[Pick(s)] + it[s \ {Pick(s)}]]

LEMMA SumIs ==
    ASSUME NEW f, NEW S
    PROVE  SumFunctionOnSet(f, S) = Sums(f, S)[S]
  BY DEF SumFunctionOnSet, FoldFunctionOnSet, MapThenFoldSet, Sums, Pick

LEMMA SumsGives ==
    ASSUME NEW S, NEW f, Numbers(f, S)
    PROVE  /\ Sums(f, S) \in [SUBSET S -> Int]
           /\ \A s \in SUBSET S :
                 Sums(f, S)[s] = IF s = {} THEN 0 ELSE f[Pick(s)] + Sums(f, S)[s \ {Pick(s)}]
  <1> DEFINE g == [a \in S \X Int |-> f[a[1]] + a[2]]
             Rec(it) == it = [s \in SUBSET S |->
                            IF s = {} THEN 0 ELSE f[Pick(s)] + it[s \ {Pick(s)}]]
  <1>1. g \in [S \X Int -> Int]
    BY DEF Numbers
  <1>2. \A x \in S, n \in Int : g[<<x, n>>] = f[x] + n
    OBVIOUS
  <1> HIDE DEF g
  <1>3. PICK h \in [SUBSET S -> Int] : Computes(h, S, 0, g)
    <2>1. IsFiniteSet(S) /\ 0 \in Int
      BY DEF Numbers
    <2> QED BY <1>1, <2>1, Recursion, Zenon
  <1>4. \A s \in SUBSET S : s # {} => Pick(s) \in S /\ s \ {Pick(s)} \in SUBSET S
    BY PickGives
  <1>5. Rec(h)
    <2>1. \A s \in SUBSET S :
              h[s] = IF s = {} THEN 0 ELSE f[Pick(s)] + h[s \ {Pick(s)}]
      BY <1>2, <1>3, <1>4 DEF Computes
    <2> QED BY <2>1
  <1>6. Rec(Sums(f, S))
    BY <1>5 DEF Sums
  <1> DEFINE it == Sums(f, S)
  <1>7. \A s \in SUBSET S : it[s] = IF s = {} THEN 0 ELSE f[Pick(s)] + it[s \ {Pick(s)}]
    BY <1>6
  <1>8. it = [s \in SUBSET S |-> it[s]]
    BY <1>6
  <1> HIDE DEF it
  <1>9. SUBSET S \subseteq {s \in SUBSET S : it[s] \in Int}
    <2> DEFINE G == {s \in SUBSET S : it[s] \in Int}
    <2>1. ASSUME NEW s \in SUBSET S, \A t \in SUBSET s : t # s => t \in G PROVE s \in G
      <3>1. CASE s = {}
        <4>1. it[s] = 0
          BY <3>1, <1>7
        <4> QED BY <4>1
      <3>2. CASE s # {}
        <4>1. Pick(s) \in s
          BY <3>2, PickGives
        <4>2. s \ {Pick(s)} \in G
          BY <4>1, <2>1
        <4>3. f[Pick(s)] \in Int
          BY <4>1 DEF Numbers
        <4>4. it[s] = f[Pick(s)] + it[s \ {Pick(s)}]
          BY <3>2, <1>7
        <4>5. it[s \ {Pick(s)}] \in Int
          BY <4>2
        <4> QED BY <4>3, <4>4, <4>5
      <3> QED BY <3>1, <3>2
    <2> HIDE DEF G
    <2>2. SUBSET S \subseteq G
      BY <2>1, SubsetInduction DEF Numbers
    <2> QED BY <2>2 DEF G
  <1> QED BY <1>7, <1>8, <1>9 DEF it

\* A sum is one of its numbers and the sum of the rest.
LEMMA SumUnfold ==
    ASSUME NEW S, NEW f, Numbers(f, S)
    PROVE  /\ SumFunctionOnSet(f, S) \in Int
           /\ S = {} => SumFunctionOnSet(f, S) = 0
           /\ S # {} => SumFunctionOnSet(f, S) = f[Pick(S)] + SumFunctionOnSet(f, S \ {Pick(S)})
  <1>1. SumFunctionOnSet(f, S) \in Int /\ (S = {} => SumFunctionOnSet(f, S) = 0)
    BY SumIs, SumsGives
  <1>2. ASSUME S # {}
        PROVE  SumFunctionOnSet(f, S) = f[Pick(S)] + SumFunctionOnSet(f, S \ {Pick(S)})
    <2> DEFINE T == S \ {Pick(S)}
               a == Sums(f, S)
               b == Sums(f, T)
               G == {t \in SUBSET T : a[t] = b[t]}
    <2>1. Numbers(f, T) /\ T \in SUBSET S
      BY <1>2, PickGives, Minus DEF Numbers
    <2>2. \A s \in SUBSET S : a[s] = IF s = {} THEN 0 ELSE f[Pick(s)] + a[s \ {Pick(s)}]
      BY SumsGives
    <2>3. \A s \in SUBSET T : b[s] = IF s = {} THEN 0 ELSE f[Pick(s)] + b[s \ {Pick(s)}]
      BY <2>1, SumsGives
    <2> HIDE DEF a, b, T
    <2>4. ASSUME NEW s \in SUBSET T, \A t \in SUBSET s : t # s => t \in G PROVE s \in G
      <3>1. s # {} => s \ {Pick(s)} \in G
        BY <2>4, PickGives
      <3> QED BY <3>1, <2>1, <2>2, <2>3
    <2> HIDE DEF G
    <2>5. SUBSET T \subseteq G
      BY <2>1, <2>4, SubsetInduction DEF Numbers
    <2>6. a[T] = b[T]
      BY <2>5 DEF G
    <2> QED BY <1>2, <2>2, <2>6, SumIs DEF a, b, T
  <1> QED BY <1>1, <1>2

\* It does not matter which.
LEMMA SumRemove ==
    ASSUME NEW S, NEW f, Numbers(f, S), NEW e \in S
    PROVE  SumFunctionOnSet(f, S) = f[e] + SumFunctionOnSet(f, S \ {e})
  <1> DEFINE Sum(s) == SumFunctionOnSet(f, s)
             G == {s \in SUBSET S : \A x \in s : Sum(s) = f[x] + Sum(s \ {x})}
  <1>1. \A s \in SUBSET S : Numbers(f, s)
    BY FS_Subset DEF Numbers
  <1>2. \A s \in SUBSET S : Sum(s) \in Int /\ (s # {} => Sum(s) = f[Pick(s)] + Sum(s \ {Pick(s)}))
    BY <1>1, SumUnfold
  <1> HIDE DEF Sum
  <1>3. ASSUME NEW s \in SUBSET S, \A t \in SUBSET s : t # s => t \in G, NEW x \in s
        PROVE  Sum(s) = f[x] + Sum(s \ {x})
    <2> DEFINE c == Pick(s)
    <2>1. c \in s /\ Sum(s) = f[c] + Sum(s \ {c})
      <3>1. s # {}
        BY <1>3
      <3> QED BY <3>1, <1>2, PickGives
    <2> HIDE DEF c
    <2>2. CASE x = c
      BY <2>1, <2>2
    <2>3. CASE x # c
      <3>1. s \ {c} \in G /\ s \ {x} \in G
        BY <1>3, <2>1
      <3>2. Sum(s \ {c}) = f[x] + Sum((s \ {c}) \ {x})
        BY <3>1, <2>3
      <3>3. Sum(s \ {x}) = f[c] + Sum((s \ {x}) \ {c})
        BY <3>1, <2>1, <2>3
      <3>4. (s \ {c}) \ {x} = (s \ {x}) \ {c}
        OBVIOUS
      <3> DEFINE rest == Sum((s \ {c}) \ {x})
      <3>5. f[x] \in Int /\ f[c] \in Int /\ rest \in Int
        BY <1>2, <1>3, <2>1 DEF Numbers
      <3>6. Sum(s) = f[c] + (f[x] + rest) /\ Sum(s \ {x}) = f[c] + rest
        BY <2>1, <3>2, <3>3, <3>4
      <3> HIDE DEF rest
      <3> QED BY <3>5, <3>6
    <2> QED BY <2>2, <2>3
  <1>4. \A s \in SUBSET S : (\A t \in SUBSET s : t # s => t \in G) => s \in G
    BY <1>3
  <1> HIDE DEF G
  <1>5. S \in G
    BY <1>4, SubsetInduction DEF Numbers
  <1> QED BY <1>5 DEF G, Sum

\* The sum of two functions.
LEMMA SumPlus ==
    ASSUME NEW S, NEW f, NEW g, NEW h, Numbers(f, S), Numbers(g, S),
           \A x \in S : h[x] = f[x] + g[x]
    PROVE  SumFunctionOnSet(h, S) = SumFunctionOnSet(f, S) + SumFunctionOnSet(g, S)
  <1> DEFINE a(s) == SumFunctionOnSet(f, s)
             b(s) == SumFunctionOnSet(g, s)
             c(s) == SumFunctionOnSet(h, s)
             G == {s \in SUBSET S : c(s) = a(s) + b(s)}
  <1>1. \A s \in SUBSET S : Numbers(f, s) /\ Numbers(g, s) /\ Numbers(h, s)
    BY FS_Subset DEF Numbers
  <1>2. \A s \in SUBSET S :
            /\ a(s) \in Int /\ (s = {} => a(s) = 0)
            /\ s # {} => a(s) = f[Pick(s)] + a(s \ {Pick(s)})
    BY <1>1, SumUnfold
  <1>3. \A s \in SUBSET S :
            /\ b(s) \in Int /\ (s = {} => b(s) = 0)
            /\ s # {} => b(s) = g[Pick(s)] + b(s \ {Pick(s)})
    BY <1>1, SumUnfold
  <1>4. \A s \in SUBSET S :
            /\ c(s) \in Int /\ (s = {} => c(s) = 0)
            /\ s # {} => c(s) = h[Pick(s)] + c(s \ {Pick(s)})
    BY <1>1, SumUnfold
  <1> HIDE DEF a, b, c
  <1>5. ASSUME NEW s \in SUBSET S, \A t \in SUBSET s : t # s => t \in G
        PROVE  s \in G
    <2>1. CASE s = {}
      <3>1. c(s) = 0 /\ a(s) = 0 /\ b(s) = 0
        BY <2>1, <1>2, <1>3, <1>4
      <3> QED BY <3>1
    <2>2. CASE s # {}
      <3> DEFINE e == Pick(s)
                 r == s \ {e}
      <3>1. e \in s
        BY <2>2, PickGives
      <3>2. a(s) = f[e] + a(r) /\ b(s) = g[e] + b(r) /\ c(s) = h[e] + c(r)
        BY <2>2, <1>2, <1>3, <1>4
      <3>3. r \in G /\ r \in SUBSET S
        BY <3>1, <1>5
      <3> HIDE DEF e, r
      <3>4. c(r) = a(r) + b(r) /\ a(r) \in Int /\ b(r) \in Int
        BY <3>3, <1>2, <1>3
      <3>5. f[e] \in Int /\ g[e] \in Int /\ h[e] = f[e] + g[e]
        BY <3>1 DEF Numbers
      <3>6. c(s) = a(s) + b(s)
        BY <3>2, <3>4, <3>5
      <3> QED BY <3>6
    <2> QED BY <2>1, <2>2
  <1> HIDE DEF G
  <1>6. S \in G
    BY <1>5, SubsetInduction DEF Numbers
  <1> QED BY <1>6 DEF G, a, b, c

\* What adds nothing may be left out.
LEMMA SumPad ==
    ASSUME NEW S, NEW D \in SUBSET S, NEW f, NEW h, Numbers(h, S),
           \A x \in S : h[x] = IF x \in D THEN f[x] ELSE 0
    PROVE  SumFunctionOnSet(f, D) = SumFunctionOnSet(h, S)
  <1> DEFINE a(s) == SumFunctionOnSet(f, s \cap D)
             c(s) == SumFunctionOnSet(h, s)
             G == {s \in SUBSET S : a(s) = c(s)}
  <1>1. \A s \in SUBSET S : Numbers(h, s)
    BY FS_Subset DEF Numbers
  <1>2. \A s \in SUBSET S : Numbers(f, s \cap D)
    <2> SUFFICES ASSUME NEW s \in SUBSET S PROVE Numbers(f, s \cap D)
      OBVIOUS
    <2>1. s \cap D \in SUBSET S
      OBVIOUS
    <2> QED BY <2>1, FS_Subset DEF Numbers
  <1>3. \A s \in SUBSET S :
            /\ c(s) \in Int /\ (s = {} => c(s) = 0)
            /\ s # {} => c(s) = h[Pick(s)] + c(s \ {Pick(s)})
    BY <1>1, SumUnfold
  <1>4. ASSUME NEW s \in SUBSET S, NEW x \in s
        PROVE  /\ x \in D => a(s) = f[x] + a(s \ {x})
               /\ x \notin D => a(s) = a(s \ {x})
    <2>1. ASSUME x \in D PROVE a(s) = f[x] + a(s \ {x})
      <3>1. x \in s \cap D /\ (s \cap D) \ {x} = (s \ {x}) \cap D
        BY <2>1
      <3>2. SumFunctionOnSet(f, s \cap D) = f[x] + SumFunctionOnSet(f, (s \cap D) \ {x})
        BY <3>1, <1>2, SumRemove
      <3> QED BY <3>1, <3>2
    <2>2. ASSUME x \notin D PROVE a(s) = a(s \ {x})
      <3>1. s \cap D = (s \ {x}) \cap D
        BY <2>2
      <3> QED BY <3>1
    <2> QED BY <2>1, <2>2
  <1>5. a({}) = 0
    <2>1. {} \cap D = {} /\ {} \in SUBSET S
      OBVIOUS
    <2> QED BY <2>1, <1>2, SumUnfold
  <1> HIDE DEF a, c
  <1>6. ASSUME NEW s \in SUBSET S, \A t \in SUBSET s : t # s => t \in G
        PROVE  s \in G
    <2>1. CASE s = {}
      BY <2>1, <1>3, <1>5
    <2>2. CASE s # {}
      <3> DEFINE e == Pick(s)
                 r == s \ {e}
      <3>1. e \in s /\ e \in S
        BY <2>2, PickGives
      <3>2. c(s) = h[e] + c(r)
        BY <2>2, <1>3
      <3>3. r \in G
        BY <3>1, <1>6
      <3>4. IF e \in D THEN a(s) = f[e] + a(r) ELSE a(s) = a(r)
        BY <3>1, <1>4
      <3> HIDE DEF e, r
      <3>5. a(r) = c(r) /\ c(r) \in Int
        BY <3>3, <1>3
      <3>6. h[e] = IF e \in D THEN f[e] ELSE 0
        BY <3>1
      <3>7. a(s) = c(s)
        BY <3>2, <3>4, <3>5, <3>6
      <3> QED BY <3>7
    <2> QED BY <2>1, <2>2
  <1> HIDE DEF G
  <1>7. S \in G
    BY <1>6, SubsetInduction DEF Numbers
  <1>8. S \cap D = D
    OBVIOUS
  <1> QED BY <1>7, <1>8 DEF G, a, c

\* Sums go by the values.
LEMMA SumEqual ==
    ASSUME NEW S, NEW f, NEW h, Numbers(h, S), \A x \in S : h[x] = f[x]
    PROVE  SumFunctionOnSet(f, S) = SumFunctionOnSet(h, S)
  BY SumPad

\* One number changes.
LEMMA SumChange ==
    ASSUME NEW S, NEW f, NEW h, Numbers(f, S), Numbers(h, S), NEW e \in S,
           \A x \in S : x # e => h[x] = f[x]
    PROVE  SumFunctionOnSet(h, S) = SumFunctionOnSet(f, S) + (h[e] - f[e])
  <1> DEFINE r == S \ {e}
  <1>1. Numbers(f, r) /\ Numbers(h, r)
    BY Minus DEF Numbers
  <1>2. SumFunctionOnSet(f, r) = SumFunctionOnSet(h, r)
    BY <1>1, SumEqual
  <1>3. /\ SumFunctionOnSet(f, S) = f[e] + SumFunctionOnSet(f, r)
        /\ SumFunctionOnSet(h, S) = h[e] + SumFunctionOnSet(h, r)
    BY SumRemove
  <1>4. SumFunctionOnSet(h, r) \in Int /\ f[e] \in Int /\ h[e] \in Int
    BY <1>1, SumUnfold DEF Numbers
  <1> HIDE DEF r
  <1> QED BY <1>2, <1>3, <1>4

-----------------------------------------------------------------------------
(* What there is in a world of players, and what is set aside for offers.  *)

Worlds    == [mem : UNION {[D -> Purses] : D \in SUBSET Players}, saved : [Players -> Purses]]
OfferSets == UNION {[D -> Offers] : D \in SUBSET Ids}

MoneyOf(w) == [p \in Players |-> Money(Purse(w, p))]
GoodsOf(w) == [p \in Players |-> Purse(w, p).goods]
Bid(os)    == [i \in Ids |-> IF i \in DOMAIN os /\ ~os[i].sale THEN os[i].price * os[i].amount ELSE 0]
Asked(os)  == [i \in Ids |-> IF i \in DOMAIN os /\ os[i].sale THEN os[i].amount ELSE 0]

GoldIn(w)    == SumFunctionOnSet(MoneyOf(w), Players)
GoodsIn(w)   == SumFunctionOnSet(GoodsOf(w), Players)
GoldFor(os)  == SumFunctionOnSet(Bid(os), Ids)
GoodsFor(os) == SumFunctionOnSet(Asked(os), Ids)

Conserves(w, os, account) ==
    /\ GoldIn(w) + GoldFor(os) = SumFunction([p \in Players |-> Money(Wealth[p])]) + account.gold
    /\ GoodsIn(w) + GoodsFor(os) = SumFunction([p \in Players |-> Wealth[p].goods]) + account.goods

\* A result speaks of offers that were made, in the terms of those that are still there.
Speaks(result, os, next) ==
    \A i \in DOMAIN result :
        /\ i < next
        /\ i \in DOMAIN os => os[i].sale = result[i].sale /\ os[i].price = result[i].price

IInv ==
    /\ TypeOK
    /\ World \in Worlds /\ offers \in OfferSets /\ results \in Seq(OfferSets)
    /\ \A k \in DOMAIN results : Speaks(results[k], offers, nextId)
    /\ Conserves(World, offers, ledger)

LEMMA Bounds ==
    /\ IsFiniteSet(Players) /\ IsFiniteSet(Ids)
    /\ Amounts \subseteq Nat \ {0} /\ Prices \subseteq Nat \ {0} /\ Fee \in Nat \ {0}
    /\ Wealth \in [Players -> Purses] /\ MaxOffers \in Nat /\ MaxChecks \in Nat
  <1>1. 1 \in Int /\ MaxOffers \in Int
    BY MarketAssumption
  <1> QED BY <1>1, MarketAssumption, FS_Interval DEF Ids

LEMMA WorldGives ==
    ASSUME NEW w \in Worlds
    PROVE  /\ w.mem = [p \in DOMAIN w.mem |-> w.mem[p]] /\ DOMAIN w.mem \subseteq Players
           /\ \A p \in DOMAIN w.mem : w.mem[p] \in Purses
           /\ w.saved \in [Players -> Purses]
           /\ \A p \in Players : Purse(w, p) \in Purses
           /\ w = [mem |-> w.mem, saved |-> w.saved]
  <1>1. w.mem \in UNION {[D -> Purses] : D \in SUBSET Players} /\ w.saved \in [Players -> Purses]
        /\ w = [mem |-> w.mem, saved |-> w.saved]
    BY DEF Worlds
  <1>2. PICK D \in SUBSET Players : w.mem \in [D -> Purses]
    BY <1>1
  <1> QED BY <1>1, <1>2 DEF Purse, Online

LEMMA WorldIs ==
    ASSUME NEW m, NEW s \in [Players -> Purses], m = [p \in DOMAIN m |-> m[p]],
           DOMAIN m \subseteq Players, \A p \in DOMAIN m : m[p] \in Purses
    PROVE  [mem |-> m, saved |-> s] \in Worlds
  <1>1. m \in [DOMAIN m -> Purses] /\ DOMAIN m \in SUBSET Players
    OBVIOUS
  <1>2. m \in UNION {[D -> Purses] : D \in SUBSET Players}
    BY <1>1
  <1> QED BY <1>2 DEF Worlds

LEMMA OfferSetGives ==
    ASSUME NEW os
    PROVE  os \in OfferSets <=> /\ os = [i \in DOMAIN os |-> os[i]] /\ DOMAIN os \subseteq Ids
                                /\ \A i \in DOMAIN os : os[i] \in Offers
  <1>1. ASSUME os \in OfferSets
        PROVE  /\ os = [i \in DOMAIN os |-> os[i]] /\ DOMAIN os \subseteq Ids
               /\ \A i \in DOMAIN os : os[i] \in Offers
    <2>1. PICK D \in SUBSET Ids : os \in [D -> Offers]
      BY <1>1 DEF OfferSets
    <2> QED BY <2>1
  <1>2. ASSUME os = [i \in DOMAIN os |-> os[i]], DOMAIN os \subseteq Ids,
               \A i \in DOMAIN os : os[i] \in Offers
        PROVE  os \in OfferSets
    <2>1. os \in [DOMAIN os -> Offers] /\ DOMAIN os \in SUBSET Ids
      BY <1>2
    <2> QED BY <2>1 DEF OfferSets
  <1> QED BY <1>1, <1>2

LEMMA PurseGives ==
    ASSUME NEW q
    PROVE  q \in Purses => /\ q = [bank |-> q.bank, cash |-> q.cash, goods |-> q.goods]
                           /\ q.bank \in Nat /\ q.cash \in Nat /\ q.goods \in Nat
                           /\ Money(q) \in Nat /\ Money(q) = q.bank + q.cash
  BY DEF Purses, Money

LEMMA OfferGives ==
    ASSUME NEW o \in Offers
    PROVE  /\ o.owner \in Players /\ o.sale \in BOOLEAN /\ o.amount \in Nat \ {0}
           /\ o.price \in Prices /\ o.price \in Nat \ {0} /\ o.expired \in BOOLEAN
           /\ o = [owner |-> o.owner, sale |-> o.sale, amount |-> o.amount, price |-> o.price,
                   expired |-> o.expired]
  BY Bounds DEF Offers

LEMMA Times ==
    /\ \A a, b \in Nat : a * b \in Nat
    /\ \A a, b, c \in Int : a * (b - c) = a * b - a * c
    /\ \A a, b \in Int : a * b = b * a
  OBVIOUS

\* What is summed are numbers.
LEMMA HoldingNumbers ==
    ASSUME NEW w \in Worlds
    PROVE  /\ Numbers(MoneyOf(w), Players) /\ Numbers(GoodsOf(w), Players)
           /\ GoldIn(w) \in Int /\ GoodsIn(w) \in Int
           /\ \A p \in Players : /\ MoneyOf(w)[p] = Money(Purse(w, p))
                                 /\ GoodsOf(w)[p] = Purse(w, p).goods
                                 /\ Purse(w, p) \in Purses
  <1>1. \A p \in Players : Purse(w, p) \in Purses
    BY WorldGives
  <1>2. \A p \in Players : Money(Purse(w, p)) \in Int /\ Purse(w, p).goods \in Int
    BY <1>1, PurseGives
  <1>3. \A p \in Players : /\ MoneyOf(w)[p] = Money(Purse(w, p))
                           /\ GoodsOf(w)[p] = Purse(w, p).goods
    BY DEF MoneyOf, GoodsOf
  <1>4. Numbers(MoneyOf(w), Players) /\ Numbers(GoodsOf(w), Players)
    BY <1>2, <1>3, Bounds DEF Numbers
  <1> QED BY <1>1, <1>3, <1>4, SumUnfold DEF GoldIn, GoodsIn

LEMMA OfferNumbers ==
    ASSUME NEW os \in OfferSets
    PROVE  /\ Numbers(Bid(os), Ids) /\ Numbers(Asked(os), Ids)
           /\ GoldFor(os) \in Int /\ GoodsFor(os) \in Int
           /\ \A i \in Ids :
                 /\ Bid(os)[i] = IF i \in DOMAIN os /\ ~os[i].sale THEN os[i].price * os[i].amount ELSE 0
                 /\ Asked(os)[i] = IF i \in DOMAIN os /\ os[i].sale THEN os[i].amount ELSE 0
  <1>1. \A i \in Ids :
            /\ Bid(os)[i] = IF i \in DOMAIN os /\ ~os[i].sale THEN os[i].price * os[i].amount ELSE 0
            /\ Asked(os)[i] = IF i \in DOMAIN os /\ os[i].sale THEN os[i].amount ELSE 0
    BY DEF Bid, Asked
  <1>2. \A i \in DOMAIN os : os[i].price * os[i].amount \in Int /\ os[i].amount \in Int
    BY OfferSetGives, OfferGives, Times
  <1>3. Numbers(Bid(os), Ids) /\ Numbers(Asked(os), Ids)
    BY <1>1, <1>2, Bounds DEF Numbers
  <1> QED BY <1>1, <1>3, SumUnfold DEF GoldFor, GoodsFor

\* The property, in these terms.
LEMMA ConservedIs ==
    ASSUME World \in Worlds, offers \in OfferSets
    PROVE  Conserved <=> Conserves(World, offers, ledger)
  <1> DEFINE B == {i \in DOMAIN offers : ~offers[i].sale}
             A == {i \in DOMAIN offers : offers[i].sale}
             bid == [i \in B |-> offers[i].price * offers[i].amount]
             asked == [i \in A |-> offers[i].amount]
             money == [p \in Players |-> Money(Holding(p))]
             goods == [p \in Players |-> Holding(p).goods]
  <1>1. A \in SUBSET Ids /\ B \in SUBSET Ids
    BY OfferSetGives
  <1>2. SumFunction(bid) = GoldFor(offers)
    <2>1. \A i \in Ids : Bid(offers)[i] = IF i \in B THEN bid[i] ELSE 0
      BY OfferNumbers
    <2>2. SumFunction(bid) = SumFunctionOnSet(bid, B)
      BY DEF SumFunction
    <2> HIDE DEF bid, B
    <2> QED BY <1>1, <2>1, <2>2, OfferNumbers, SumPad DEF GoldFor
  <1>3. SumFunction(asked) = GoodsFor(offers)
    <2>1. \A i \in Ids : Asked(offers)[i] = IF i \in A THEN asked[i] ELSE 0
      BY OfferNumbers
    <2>2. SumFunction(asked) = SumFunctionOnSet(asked, A)
      BY DEF SumFunction
    <2> HIDE DEF asked, A
    <2> QED BY <1>1, <2>1, <2>2, OfferNumbers, SumPad DEF GoodsFor
  <1>4. SumFunction(money) = GoldIn(World)
    BY DEF SumFunction, GoldIn, MoneyOf, Holding
  <1>5. SumFunction(goods) = GoodsIn(World)
    BY DEF SumFunction, GoodsIn, GoodsOf, Holding
  <1>6. Gold = SumFunction(money) + SumFunction(bid)
    BY DEF Gold
  <1>7. Goods = SumFunction(goods) + SumFunction(asked)
    BY DEF Goods
  <1> HIDE DEF money, goods, bid, asked
  <1> QED BY <1>2, <1>3, <1>4, <1>5, <1>6, <1>7 DEF Conserved, Conserves

-----------------------------------------------------------------------------
(* What the calls do to a world.                                           *)

\* The purse of p becomes q, and nothing else changes.
Repurses(w, z, p, q) ==
    /\ z \in Worlds /\ DOMAIN z.mem = DOMAIN w.mem
    /\ \A x \in Players : Purse(z, x) = IF x = p THEN q ELSE Purse(w, x)

LEMMA RepursesSums ==
    ASSUME NEW w \in Worlds, NEW z, NEW p \in Players, NEW q \in Purses, Repurses(w, z, p, q)
    PROVE  /\ GoldIn(z) = GoldIn(w) + (Money(q) - Money(Purse(w, p)))
           /\ GoodsIn(z) = GoodsIn(w) + (q.goods - Purse(w, p).goods)
  <1>1. z \in Worlds /\ Purse(z, p) = q /\ \A x \in Players : x # p => Purse(z, x) = Purse(w, x)
    BY DEF Repurses
  <1>2. /\ Numbers(MoneyOf(w), Players) /\ Numbers(GoodsOf(w), Players)
        /\ \A x \in Players : MoneyOf(w)[x] = Money(Purse(w, x)) /\ GoodsOf(w)[x] = Purse(w, x).goods
    BY HoldingNumbers
  <1>3. /\ Numbers(MoneyOf(z), Players) /\ Numbers(GoodsOf(z), Players)
        /\ \A x \in Players : MoneyOf(z)[x] = Money(Purse(z, x)) /\ GoodsOf(z)[x] = Purse(z, x).goods
    BY <1>1, HoldingNumbers
  <1>4. GoldIn(z) = GoldIn(w) + (MoneyOf(z)[p] - MoneyOf(w)[p])
    BY <1>1, <1>2, <1>3, SumChange DEF GoldIn
  <1>5. GoodsIn(z) = GoodsIn(w) + (GoodsOf(z)[p] - GoodsOf(w)[p])
    BY <1>1, <1>2, <1>3, SumChange DEF GoodsIn
  <1> QED BY <1>1, <1>2, <1>3, <1>4, <1>5

\* An assignment to the object of p, or to its row.
LEMMA MemGives ==
    ASSUME NEW w \in Worlds, NEW p \in DOMAIN w.mem, NEW q \in Purses
    PROVE  /\ Repurses(w, [w EXCEPT !.mem[p] = q], p, q)
           /\ [w EXCEPT !.mem[p] = q].mem[p] = q
           /\ p \in Players /\ Purse(w, p) = w.mem[p]
  <1> DEFINE m == [w.mem EXCEPT ![p] = q]
             z == [w EXCEPT !.mem = m]
  <1>1. /\ w.mem = [x \in DOMAIN w.mem |-> w.mem[x]] /\ DOMAIN w.mem \subseteq Players
        /\ \A x \in DOMAIN w.mem : w.mem[x] \in Purses
        /\ w.saved \in [Players -> Purses] /\ w = [mem |-> w.mem, saved |-> w.saved]
    BY WorldGives
  <1>2. [w EXCEPT !.mem[p] = q] = z
    OBVIOUS
  <1>3. /\ m = [x \in DOMAIN m |-> m[x]] /\ DOMAIN m = DOMAIN w.mem
        /\ \A x \in DOMAIN m : m[x] = IF x = p THEN q ELSE w.mem[x]
    BY <1>1
  <1> HIDE DEF m
  <1>4. z = [mem |-> m, saved |-> w.saved]
    BY <1>1
  <1> HIDE DEF z
  <1>5. z.mem = m /\ z.saved = w.saved
    BY <1>4
  <1>6. z \in Worlds
    BY <1>1, <1>3, <1>4, WorldIs
  <1>7. \A x \in Players : Purse(z, x) = IF x = p THEN q ELSE Purse(w, x)
    BY <1>1, <1>3, <1>5 DEF Purse, Online
  <1> QED BY <1>1, <1>2, <1>3, <1>5, <1>6, <1>7 DEF Repurses, Purse, Online

LEMMA RowGives ==
    ASSUME NEW w \in Worlds, NEW p \in Players, p \notin DOMAIN w.mem, NEW q \in Purses
    PROVE  /\ Repurses(w, [w EXCEPT !.saved[p] = q], p, q)
           /\ Purse(w, p) = w.saved[p]
  <1> DEFINE s == [w.saved EXCEPT ![p] = q]
             z == [w EXCEPT !.saved = s]
  <1>1. /\ w.mem = [x \in DOMAIN w.mem |-> w.mem[x]] /\ DOMAIN w.mem \subseteq Players
        /\ \A x \in DOMAIN w.mem : w.mem[x] \in Purses
        /\ w.saved \in [Players -> Purses] /\ w = [mem |-> w.mem, saved |-> w.saved]
    BY WorldGives
  <1>2. [w EXCEPT !.saved[p] = q] = z
    OBVIOUS
  <1>3. s \in [Players -> Purses] /\ \A x \in Players : s[x] = IF x = p THEN q ELSE w.saved[x]
    BY <1>1
  <1> HIDE DEF s
  <1>4. z = [mem |-> w.mem, saved |-> s]
    BY <1>1
  <1> HIDE DEF z
  <1>5. z.mem = w.mem /\ z.saved = s
    BY <1>4
  <1>6. z \in Worlds
    BY <1>1, <1>3, <1>4, WorldIs
  <1>7. \A x \in Players : Purse(z, x) = IF x = p THEN q ELSE Purse(w, x)
    BY <1>3, <1>5 DEF Purse, Online
  <1> QED BY <1>2, <1>5, <1>6, <1>7 DEF Repurses, Purse, Online

\* More of one thing in a purse, or less.
LEMMA PurseChange ==
    ASSUME NEW q \in Purses, NEW what \in {"bank", "goods"}, NEW n \in Int, q[what] + n >= 0,
           NEW r, r = [q EXCEPT ![what] = q[what] + n]
    PROVE  /\ r \in Purses
           /\ Money(r) = Money(q) + (IF what = "bank" THEN n ELSE 0)
           /\ r.goods = q.goods + (IF what = "goods" THEN n ELSE 0)
           /\ r.bank = q.bank + (IF what = "bank" THEN n ELSE 0)
  <1>1. CASE what = "bank"
    BY <1>1 DEF Purses, Money
  <1>2. CASE what = "goods"
    BY <1>2 DEF Purses, Money
  <1> QED BY <1>1, <1>2

LEMMA GiveGives ==
    ASSUME NEW w \in Worlds, NEW p \in Players, NEW what \in {"bank", "goods"}, NEW n \in Nat
    PROVE  LET z == Give(w, p, what, n) IN
           /\ z \in Worlds
           /\ GoldIn(z) = GoldIn(w) + (IF what = "bank" THEN n ELSE 0)
           /\ GoodsIn(z) = GoodsIn(w) + (IF what = "goods" THEN n ELSE 0)
  <1> DEFINE q == Purse(w, p)
             r == [q EXCEPT ![what] = q[what] + n]
             z == Give(w, p, what, n)
  <1>1. q \in Purses /\ q[what] + n >= 0
    <2>1. q \in Purses
      BY WorldGives
    <2> QED BY <2>1, PurseGives
  <1>2. /\ r \in Purses
        /\ Money(r) = Money(q) + (IF what = "bank" THEN n ELSE 0)
        /\ r.goods = q.goods + (IF what = "goods" THEN n ELSE 0)
    <2>1. r = [q EXCEPT ![what] = q[what] + n] /\ n \in Int
      OBVIOUS
    <2> HIDE DEF r, q
    <2> QED BY <1>1, <2>1, PurseChange
  <1>3. Repurses(w, z, p, r)
    <2>1. CASE p \in DOMAIN w.mem
      <3>1. z = [w EXCEPT !.mem[p] = r]
        BY <2>1 DEF Give, Online, Purse
      <3> HIDE DEF r
      <3> QED BY <1>2, <2>1, <3>1, MemGives
    <2>2. CASE p \notin DOMAIN w.mem
      <3>1. z = [w EXCEPT !.saved[p] = r]
        BY <2>2 DEF Give, Online, Purse
      <3> HIDE DEF r
      <3> QED BY <1>2, <2>2, <3>1, RowGives
    <2> QED BY <2>1, <2>2
  <1> HIDE DEF z, r
  <1>4. /\ GoldIn(z) = GoldIn(w) + (Money(r) - Money(q))
        /\ GoodsIn(z) = GoodsIn(w) + (r.goods - q.goods) /\ z \in Worlds
    BY <1>2, <1>3, RepursesSums DEF Repurses
  <1>5. Money(q) \in Int /\ q.goods \in Int /\ GoldIn(w) \in Int /\ GoodsIn(w) \in Int
    BY <1>1, PurseGives, HoldingNumbers
  <1> QED BY <1>2, <1>4, <1>5 DEF z

LEMMA TakeGives ==
    ASSUME NEW w \in Worlds, NEW p \in DOMAIN w.mem, NEW what \in {"bank", "goods"}, NEW n \in Nat,
           w.mem[p][what] >= n
    PROVE  LET z == Take(w, p, what, n) IN
           /\ z \in Worlds
           /\ GoldIn(z) = GoldIn(w) - (IF what = "bank" THEN n ELSE 0)
           /\ GoodsIn(z) = GoodsIn(w) - (IF what = "goods" THEN n ELSE 0)
  <1> DEFINE q == w.mem[p]
             k == 0 - n
             r == [q EXCEPT ![what] = q[what] + k]
             z == Take(w, p, what, n)
  <1>1. q \in Purses /\ p \in Players /\ Purse(w, p) = q
    BY WorldGives DEF Purse, Online
  <1>2. q[what] \in Nat
    BY <1>1, PurseGives
  <1>3. q[what] + k >= 0 /\ q[what] - n = q[what] + k /\ k \in Int
    BY <1>2
  <1>4. /\ r \in Purses
        /\ Money(r) = Money(q) + (IF what = "bank" THEN k ELSE 0)
        /\ r.goods = q.goods + (IF what = "goods" THEN k ELSE 0)
    <2>1. r = [q EXCEPT ![what] = q[what] + k]
      OBVIOUS
    <2>2. q \in Purses /\ k \in Int /\ q[what] + k >= 0
      BY <1>1, <1>3
    <2> HIDE DEF r, q, k, z
    <2> QED BY <2>1, <2>2, PurseChange
  <1>5. z = [w EXCEPT !.mem[p] = r]
    BY <1>3 DEF Take
  <1> HIDE DEF z, r, q, k
  <1>6. Repurses(w, z, p, r)
    BY <1>4, <1>5, MemGives
  <1>7. /\ GoldIn(z) = GoldIn(w) + (Money(r) - Money(q))
        /\ GoodsIn(z) = GoodsIn(w) + (r.goods - q.goods) /\ z \in Worlds
    BY <1>1, <1>4, <1>6, RepursesSums DEF Repurses
  <1>8. Money(q) \in Int /\ q.goods \in Int /\ GoldIn(w) \in Int /\ GoodsIn(w) \in Int
    BY <1>1, PurseGives, HoldingNumbers
  <1> QED BY <1>4, <1>7, <1>8 DEF z, k

\* removeMoney takes what it was asked to, but for the rest that it takes twice.
LEMMA RemoveMoneyGives ==
    ASSUME NEW w \in Worlds, NEW p \in DOMAIN w.mem, NEW sum \in Nat, NEW rest \in 1 .. sum,
           w.mem[p].bank + w.mem[p].cash >= sum
    PROVE  LET z == RemoveMoney(w, p, sum, rest)
               twice == IF w.mem[p].cash >= sum /\ w.mem[p].bank >= rest THEN rest ELSE 0
           IN  /\ z \in Worlds /\ p \in DOMAIN z.mem /\ z.mem[p].goods = w.mem[p].goods
               /\ GoldIn(z) = GoldIn(w) - sum - twice
               /\ GoodsIn(z) = GoodsIn(w)
  <1> DEFINE q == w.mem[p]
             r == Paid(q, sum, rest)
             z == RemoveMoney(w, p, sum, rest)
             twice == IF q.cash >= sum /\ q.bank >= rest THEN rest ELSE 0
  <1>1. q \in Purses /\ p \in Players /\ Purse(w, p) = q
    BY WorldGives DEF Purse, Online
  <1>2. r \in Purses /\ Money(r) = Money(q) - sum - twice /\ r.goods = q.goods
    <2>1. q.bank \in Nat /\ q.cash \in Nat /\ q.goods \in Nat /\ q.bank + q.cash >= sum
          /\ q = [bank |-> q.bank, cash |-> q.cash, goods |-> q.goods]
      BY <1>1, PurseGives
    <2> HIDE DEF q
    <2>2. CASE q.cash < sum
      <3>1. r = [bank |-> q.bank - (sum - q.cash), cash |-> 0, goods |-> q.goods]
        BY <2>1, <2>2 DEF Paid
      <3> HIDE DEF r
      <3> QED BY <2>1, <2>2, <3>1 DEF Purses, Money
    <2>3. CASE ~(q.cash < sum)
      <3> DEFINE left == IF q.bank >= rest THEN q.bank - rest ELSE q.bank
      <3>1. r = [bank |-> left, cash |-> q.cash - sum, goods |-> q.goods]
        BY <2>1, <2>3 DEF Paid
      <3>2. left \in Nat /\ left = q.bank - twice /\ q.cash - sum \in Nat
        BY <2>1, <2>3
      <3>3. twice \in Nat
        OBVIOUS
      <3> HIDE DEF r, left, twice
      <3>4. r.bank = left /\ r.cash = q.cash - sum /\ r.goods = q.goods
        BY <3>1
      <3>5. Money(r) = Money(q) - sum - twice
        BY <2>1, <3>2, <3>3, <3>4 DEF Money
      <3>6. r \in Purses
        BY <2>1, <3>1, <3>2 DEF Purses
      <3> QED BY <3>4, <3>5, <3>6
    <2> QED BY <2>2, <2>3
  <1>3. z = [w EXCEPT !.mem[p] = r]
    BY DEF RemoveMoney
  <1>4. twice \in Nat
    OBVIOUS
  <1> HIDE DEF z, r, q, twice
  <1>5. Repurses(w, z, p, r) /\ z.mem[p] = r
    BY <1>2, <1>3, MemGives
  <1>6. /\ GoldIn(z) = GoldIn(w) + (Money(r) - Money(q))
        /\ GoodsIn(z) = GoodsIn(w) + (r.goods - q.goods)
        /\ z \in Worlds /\ DOMAIN z.mem = DOMAIN w.mem
    BY <1>1, <1>2, <1>5, RepursesSums DEF Repurses
  <1>7. Money(q) \in Int /\ q.goods \in Int /\ GoldIn(w) \in Int /\ GoodsIn(w) \in Int
    BY <1>1, PurseGives, HoldingNumbers
  <1> QED BY <1>2, <1>4, <1>5, <1>6, <1>7 DEF z, q, twice

LEMMA RefundGives ==
    ASSUME NEW w \in Worlds, NEW o \in Offers, NEW n \in Nat
    PROVE  LET z == Refund(w, o, n) IN
           /\ z \in Worlds
           /\ GoldIn(z) = GoldIn(w) + (IF o.sale THEN 0 ELSE o.price * n)
           /\ GoodsIn(z) = GoodsIn(w) + (IF o.sale THEN n ELSE 0)
  <1>1. o.owner \in Players /\ o.price * n \in Nat /\ GoldIn(w) \in Int /\ GoodsIn(w) \in Int
    BY OfferGives, Times, HoldingNumbers
  <1>2. CASE o.sale
    BY <1>1, <1>2, GiveGives DEF Refund
  <1>3. CASE ~o.sale
    BY <1>1, <1>3, GiveGives DEF Refund
  <1> QED BY <1>2, <1>3

-----------------------------------------------------------------------------
(* What the calls do to the offers.                                        *)

\* What a row sets aside.
GoldOfRow(o)  == IF o.sale THEN 0 ELSE o.price * o.amount
GoodsOfRow(o) == IF o.sale THEN o.amount ELSE 0

LEMMA OfferChange ==
    ASSUME NEW os \in OfferSets, NEW oz \in OfferSets, NEW i \in Ids,
           \A j \in Ids : j # i => /\ j \in DOMAIN oz <=> j \in DOMAIN os
                                   /\ j \in DOMAIN os => oz[j] = os[j]
    PROVE  /\ GoldFor(oz) = GoldFor(os) + (Bid(oz)[i] - Bid(os)[i])
           /\ GoodsFor(oz) = GoodsFor(os) + (Asked(oz)[i] - Asked(os)[i])
  <1>1. /\ Numbers(Bid(os), Ids) /\ Numbers(Asked(os), Ids)
        /\ Numbers(Bid(oz), Ids) /\ Numbers(Asked(oz), Ids)
    BY OfferNumbers
  <1>2. \A j \in Ids : j # i => Bid(oz)[j] = Bid(os)[j] /\ Asked(oz)[j] = Asked(os)[j]
    BY OfferNumbers
  <1>3. GoldFor(oz) = GoldFor(os) + (Bid(oz)[i] - Bid(os)[i])
    BY <1>1, <1>2, SumChange DEF GoldFor
  <1>4. GoodsFor(oz) = GoodsFor(os) + (Asked(oz)[i] - Asked(os)[i])
    BY <1>1, <1>2, SumChange DEF GoodsFor
  <1> QED BY <1>3, <1>4

LEMMA WithGives ==
    ASSUME NEW os \in OfferSets, NEW i \in Ids \ DOMAIN os, NEW row \in Offers
    PROVE  LET oz == With(os, i, row) IN
           /\ oz \in OfferSets /\ DOMAIN oz = DOMAIN os \cup {i}
           /\ \A j \in DOMAIN os : oz[j] = os[j]
           /\ GoldFor(oz) = GoldFor(os) + GoldOfRow(row)
           /\ GoodsFor(oz) = GoodsFor(os) + GoodsOfRow(row)
  <1> DEFINE oz == With(os, i, row)
  <1>1. /\ oz = [x \in DOMAIN os \cup {i} |-> oz[x]] /\ oz[i] = row
        /\ DOMAIN oz = DOMAIN os \cup {i} /\ \A j \in DOMAIN os : oz[j] = os[j]
    BY DEF With
  <1> HIDE DEF oz
  <1>2. oz \in OfferSets
    BY <1>1, OfferSetGives
  <1>3. /\ GoldFor(oz) = GoldFor(os) + (Bid(oz)[i] - Bid(os)[i])
        /\ GoodsFor(oz) = GoodsFor(os) + (Asked(oz)[i] - Asked(os)[i])
    BY <1>1, <1>2, OfferChange
  <1>4. /\ Bid(oz)[i] = GoldOfRow(row) /\ Asked(oz)[i] = GoodsOfRow(row)
        /\ Bid(os)[i] = 0 /\ Asked(os)[i] = 0
    BY <1>1, <1>2, OfferNumbers, OfferGives DEF GoldOfRow, GoodsOfRow
  <1>5. GoldOfRow(row) \in Int /\ GoodsOfRow(row) \in Int
    BY OfferGives, Times DEF GoldOfRow, GoodsOfRow
  <1> QED BY <1>1, <1>2, <1>3, <1>4, <1>5 DEF oz

LEMMA WithoutGives ==
    ASSUME NEW os \in OfferSets, NEW X
    PROVE  LET oz == Without(os, X) IN
           /\ oz \in OfferSets /\ DOMAIN oz = DOMAIN os \ X
           /\ \A j \in DOMAIN oz : oz[j] = os[j]
  <1> DEFINE oz == Without(os, X)
  <1>1. oz = [x \in DOMAIN os \ X |-> os[x]]
    BY DEF Without, Restrict
  <1>2. /\ oz = [x \in DOMAIN oz |-> oz[x]] /\ DOMAIN oz = DOMAIN os \ X
        /\ \A j \in DOMAIN oz : oz[j] = os[j]
    BY <1>1
  <1> HIDE DEF oz
  <1> QED BY <1>2, OfferSetGives DEF oz

LEMMA WithoutOne ==
    ASSUME NEW os \in OfferSets, NEW i \in DOMAIN os
    PROVE  LET oz == Without(os, {i}) IN
           /\ GoldFor(oz) = GoldFor(os) - GoldOfRow(os[i])
           /\ GoodsFor(oz) = GoodsFor(os) - GoodsOfRow(os[i])
  <1> DEFINE oz == Without(os, {i})
  <1>1. /\ oz \in OfferSets /\ DOMAIN oz = DOMAIN os \ {i}
        /\ \A j \in DOMAIN oz : oz[j] = os[j]
    BY WithoutGives
  <1>2. i \in Ids /\ os[i] \in Offers
    BY OfferSetGives
  <1> HIDE DEF oz
  <1>3. /\ GoldFor(oz) = GoldFor(os) + (Bid(oz)[i] - Bid(os)[i])
        /\ GoodsFor(oz) = GoodsFor(os) + (Asked(oz)[i] - Asked(os)[i])
    BY <1>1, <1>2, OfferChange
  <1>4. /\ Bid(os)[i] = GoldOfRow(os[i]) /\ Asked(os)[i] = GoodsOfRow(os[i])
        /\ Bid(oz)[i] = 0 /\ Asked(oz)[i] = 0
    BY <1>1, <1>2, OfferNumbers, OfferGives DEF GoldOfRow, GoodsOfRow
  <1>5. GoldOfRow(os[i]) \in Int /\ GoodsOfRow(os[i]) \in Int /\ GoldFor(os) \in Int /\ GoodsFor(os) \in Int
    BY <1>2, OfferGives, OfferNumbers, Times DEF GoldOfRow, GoodsOfRow
  <1> QED BY <1>3, <1>4, <1>5 DEF oz

\* What is sold of an offer is not set aside any more.
LEMMA AcceptedGives ==
    ASSUME offers \in OfferSets, NEW i \in DOMAIN offers, NEW n \in Nat \ {0}, n <= offers[i].amount
    PROVE  LET oz == Accepted(i, n)
               o  == offers[i]
           IN  /\ oz \in OfferSets /\ DOMAIN oz \subseteq DOMAIN offers
               /\ \A j \in DOMAIN oz : oz[j].sale = offers[j].sale /\ oz[j].price = offers[j].price
               /\ GoldFor(oz) = GoldFor(offers) - (IF o.sale THEN 0 ELSE o.price * n)
               /\ GoodsFor(oz) = GoodsFor(offers) - (IF o.sale THEN n ELSE 0)
  <1> DEFINE o == offers[i]
             oz == Accepted(i, n)
  <1>1. i \in Ids /\ o \in Offers
    BY OfferSetGives
  <1>2. CASE o.amount = n
    <2>1. oz = Without(offers, {i})
      BY <1>2 DEF Accepted
    <2>2. GoldOfRow(o) = (IF o.sale THEN 0 ELSE o.price * n) /\ GoodsOfRow(o) = (IF o.sale THEN n ELSE 0)
      BY <1>2 DEF GoldOfRow, GoodsOfRow
    <2> DEFINE wz == Without(offers, {i})
    <2>3. wz \in OfferSets /\ DOMAIN wz = DOMAIN offers \ {i} /\ \A j \in DOMAIN wz : wz[j] = offers[j]
      BY WithoutGives
    <2> HIDE DEF oz
    <2>4. GoldFor(oz) = GoldFor(offers) - GoldOfRow(o) /\ GoodsFor(oz) = GoodsFor(offers) - GoodsOfRow(o)
      BY <2>1, WithoutOne
    <2> QED BY <2>1, <2>2, <2>3, <2>4 DEF oz
  <1>3. CASE o.amount # n
    <2> DEFINE r == [o EXCEPT !.amount = o.amount - n]
    <2>1. /\ o.owner \in Players /\ o.sale \in BOOLEAN /\ o.amount \in Nat \ {0} /\ o.price \in Prices
          /\ o.price \in Nat \ {0} /\ o.expired \in BOOLEAN
          /\ o = [owner |-> o.owner, sale |-> o.sale, amount |-> o.amount, price |-> o.price,
                  expired |-> o.expired]
      BY <1>1, OfferGives
    <2>2. oz = [offers EXCEPT ![i] = r]
      BY <1>3 DEF Accepted
    <2>3. offers = [j \in DOMAIN offers |-> offers[j]]
      BY OfferSetGives
    <2>4. /\ oz = [j \in DOMAIN oz |-> oz[j]] /\ DOMAIN oz = DOMAIN offers
          /\ \A j \in DOMAIN oz : oz[j] = IF j = i THEN r ELSE offers[j]
      BY <2>2, <2>3
    <2> HIDE DEF oz, o
    <2>5. /\ r = [owner |-> o.owner, sale |-> o.sale, amount |-> o.amount - n, price |-> o.price,
                  expired |-> o.expired]
          /\ o.amount - n \in Nat \ {0}
      BY <1>3, <2>1 DEF o
    <2> HIDE DEF r
    <2>6. r \in Offers /\ r.sale = o.sale /\ r.price = o.price /\ r.amount = o.amount - n
      BY <2>1, <2>5 DEF Offers
    <2>7. oz \in OfferSets
      BY <2>4, <2>6, OfferSetGives
    <2>8. /\ GoldFor(oz) = GoldFor(offers) + (Bid(oz)[i] - Bid(offers)[i])
          /\ GoodsFor(oz) = GoodsFor(offers) + (Asked(oz)[i] - Asked(offers)[i])
      BY <1>1, <2>4, <2>7, OfferChange
    <2>9. /\ Bid(oz)[i] = (IF o.sale THEN 0 ELSE o.price * (o.amount - n))
          /\ Bid(offers)[i] = (IF o.sale THEN 0 ELSE o.price * o.amount)
          /\ Asked(oz)[i] = (IF o.sale THEN o.amount - n ELSE 0)
          /\ Asked(offers)[i] = (IF o.sale THEN o.amount ELSE 0)
      BY <1>1, <2>1, <2>4, <2>6, <2>7, OfferNumbers DEF o
    <2>10. /\ o.price * (o.amount - n) = o.price * o.amount - o.price * n
           /\ o.price * o.amount \in Int /\ o.price * n \in Int
           /\ GoldFor(offers) \in Int /\ GoodsFor(offers) \in Int
      BY <2>1, Times, OfferNumbers
    <2>11. /\ GoldFor(oz) = GoldFor(offers) - (IF o.sale THEN 0 ELSE o.price * n)
           /\ GoodsFor(oz) = GoodsFor(offers) - (IF o.sale THEN n ELSE 0)
      BY <2>1, <2>8, <2>9, <2>10
    <2> QED BY <2>4, <2>6, <2>7, <2>11 DEF oz, o
  <1> QED BY <1>2, <1>3

-----------------------------------------------------------------------------
(* The invariant.                                                          *)

LEMMA IInvGives ==
    ASSUME IInv
    PROVE  /\ World \in Worlds /\ offers \in OfferSets /\ results \in Seq(OfferSets)
           /\ World.mem = mem /\ World.saved = saved
           /\ ledger \in [gold : Int, goods : Int]
           /\ ledger = [gold |-> ledger.gold, goods |-> ledger.goods]
           /\ nextId \in 1 .. MaxOffers + 1 /\ nextId \in Nat
           /\ DOMAIN mem \subseteq Players /\ \A i \in DOMAIN offers : i < nextId /\ i \in Ids
           /\ GoldIn(World) \in Int /\ GoldFor(offers) \in Int
           /\ GoodsIn(World) \in Int /\ GoodsFor(offers) \in Int
  <1>1. /\ World \in Worlds /\ offers \in OfferSets /\ results \in Seq(OfferSets)
        /\ ledger \in [gold : Int, goods : Int]
        /\ nextId \in 1 .. MaxOffers + 1
        /\ DOMAIN mem \subseteq Players /\ \A i \in DOMAIN offers : i < nextId
    BY DEF IInv, TypeOK
  <1>2. nextId \in Nat /\ \A i \in DOMAIN offers : i \in Ids
    BY <1>1, Bounds, OfferSetGives
  <1>3. World.mem = mem /\ World.saved = saved
    BY DEF World
  <1> QED BY <1>1, <1>2, <1>3, HoldingNumbers, OfferNumbers

LEMMA BecomeKeeps ==
    ASSUME IInv, NEW w \in Worlds, NEW os \in OfferSets, Become(w), offers' = os,
           ledger' \in [gold : Int, goods : Int], Conserves(w, os, ledger'),
           nextId' \in 1 .. MaxOffers + 1, \A i \in DOMAIN os : i < nextId',
           queries' \in 0 .. MaxChecks, results' \in Seq(OfferSets),
           \A k \in DOMAIN results' : Speaks(results'[k], os, nextId')
    PROVE  IInv'
  <1>1. World' = w
    <2>1. World' = [mem |-> w.mem, saved |-> w.saved]
      BY DEF World, Become
    <2> QED BY <2>1, WorldGives
  <1>2. /\ DOMAIN os \subseteq Ids /\ \A i \in DOMAIN os : os[i] \in Offers
        /\ DOMAIN mem' \subseteq Players /\ \A p \in DOMAIN mem' : mem'[p] \in Purses
        /\ saved' \in [Players -> Purses]
    BY OfferSetGives, WorldGives DEF Become
  <1>3. \A k \in DOMAIN results' : /\ DOMAIN results'[k] \subseteq Ids
                                   /\ \A i \in DOMAIN results'[k] : results'[k][i] \in Offers
    <2>1. \A k \in DOMAIN results' : results'[k] \in OfferSets
      OBVIOUS
    <2> QED BY <2>1, OfferSetGives
  <1>4. TypeOK'
    BY <1>2, <1>3 DEF TypeOK
  <1>5. Conserves(World', offers', ledger')
    BY <1>1
  <1> QED BY <1>1, <1>4, <1>5 DEF IInv

\* What the books balance is gained or lost outside the market.
LEMMA ConservesGives ==
    ASSUME IInv, NEW w \in Worlds, NEW os \in OfferSets, NEW gold \in Int, NEW goods \in Int,
           GoldIn(w) + GoldFor(os) = GoldIn(World) + GoldFor(offers) + gold,
           GoodsIn(w) + GoodsFor(os) = GoodsIn(World) + GoodsFor(offers) + goods,
           Book(gold, goods)
    PROVE  ledger' \in [gold : Int, goods : Int] /\ Conserves(w, os, ledger')
  <1> DEFINE a == SumFunction([p \in Players |-> Money(Wealth[p])])
             b == SumFunction([p \in Players |-> Wealth[p].goods])
  <1>1. /\ GoldIn(World) + GoldFor(offers) = a + ledger.gold
        /\ GoodsIn(World) + GoodsFor(offers) = b + ledger.goods
    BY DEF IInv, Conserves
  <1>2. a \in Int /\ b \in Int
    <2> DEFINE f == [p \in Players |-> Money(Wealth[p])]
               g == [p \in Players |-> Wealth[p].goods]
    <2>1. Numbers(f, Players) /\ Numbers(g, Players) /\ DOMAIN f = Players /\ DOMAIN g = Players
      BY Bounds, PurseGives DEF Numbers
    <2>2. SumFunction(f) = SumFunctionOnSet(f, DOMAIN f) /\ SumFunction(g) = SumFunctionOnSet(g, DOMAIN g)
      BY DEF SumFunction
    <2> HIDE DEF f, g
    <2>3. SumFunction(f) \in Int /\ SumFunction(g) \in Int
      BY <2>1, <2>2, SumUnfold
    <2> QED BY <2>3 DEF f, g
  <1>3. ledger.gold \in Int /\ ledger.goods \in Int
    BY IInvGives
  <1>4. ledger' \in [gold : Int, goods : Int] /\ ledger'.gold = ledger.gold + gold
        /\ ledger'.goods = ledger.goods + goods
    BY <1>3 DEF Book
  <1> HIDE DEF a, b
  <1>5. GoldIn(w) + GoldFor(os) = a + ledger'.gold /\ GoodsIn(w) + GoodsFor(os) = b + ledger'.goods
    BY <1>1, <1>2, <1>3, <1>4
  <1> QED BY <1>4, <1>5 DEF Conserves, a, b

\* An operation on players and offers, with its entry in the books.
LEMMA OperationKeeps ==
    ASSUME IInv, NEW w \in Worlds, NEW os \in OfferSets, NEW gold \in Int, NEW goods \in Int,
           Become(w), offers' = os, Book(gold, goods),
           GoldIn(w) + GoldFor(os) = GoldIn(World) + GoldFor(offers) + gold,
           GoodsIn(w) + GoodsFor(os) = GoodsIn(World) + GoodsFor(offers) + goods,
           nextId' = nextId \/ (nextId <= MaxOffers /\ nextId' = nextId + 1),
           \A i \in DOMAIN os : \/ /\ i \in DOMAIN offers
                                   /\ os[i].sale = offers[i].sale /\ os[i].price = offers[i].price
                                \/ i = nextId /\ nextId' = nextId + 1,
           UNCHANGED <<queries, results>>
    PROVE  IInv'
  <1>1. ledger' \in [gold : Int, goods : Int] /\ Conserves(w, os, ledger')
    BY ConservesGives
  <1>2. nextId' \in 1 .. MaxOffers + 1 /\ nextId <= nextId' /\ nextId \in Nat /\ nextId' \in Nat
    <2>1. nextId \in 1 .. MaxOffers + 1 /\ nextId \in Nat
      BY IInvGives
    <2>2. MaxOffers \in Nat
      BY Bounds
    <2> QED BY <2>1, <2>2
  <1>3. \A i \in DOMAIN os : i \in Nat /\ i < nextId'
    BY <1>2, IInvGives, OfferSetGives DEF Ids
  <1>4. /\ queries' \in 0 .. MaxChecks /\ results' \in Seq(OfferSets)
        /\ \A k \in DOMAIN results : Speaks(results[k], offers, nextId)
        /\ \A k \in DOMAIN results : results[k] \in OfferSets
    BY DEF IInv, TypeOK
  <1>5. ASSUME NEW k \in DOMAIN results' PROVE Speaks(results'[k], os, nextId')
    <2>1. results'[k] = results[k] /\ Speaks(results[k], offers, nextId) /\ results[k] \in OfferSets
      BY <1>4
    <2>2. \A i \in DOMAIN results[k] : i \in Nat
      BY <2>1, OfferSetGives DEF Ids
    <2> QED BY <1>2, <2>1, <2>2 DEF Speaks
  <1> QED BY <1>1, <1>2, <1>3, <1>4, <1>5, BecomeKeeps

LEMMA NoEntry ==
    ASSUME IInv, ledger' = ledger PROVE Book(0, 0)
  <1>1. ledger = [gold |-> ledger.gold, goods |-> ledger.goods]
        /\ ledger.gold \in Int /\ ledger.goods \in Int
    BY IInvGives
  <1> QED BY <1>1 DEF Book

LEMMA Nothing ==
    /\ DOMAIN <<>> = {} /\ <<>> = [x \in DOMAIN <<>> |-> <<>>[x]]
    /\ <<>> \in OfferSets
  <1>1. DOMAIN <<>> = {} /\ <<>> = [x \in DOMAIN <<>> |-> <<>>[x]]
    OBVIOUS
  <1> QED BY <1>1, OfferSetGives

LEMMA InitGives == Init => IInv
  <1> SUFFICES ASSUME Init PROVE IInv
    OBVIOUS
  <1>1. /\ offers = <<>> /\ nextId = 1 /\ mem = <<>> /\ saved = Wealth
        /\ queries = 0 /\ results = <<>> /\ ledger = [gold |-> 0, goods |-> 0]
    BY DEF Init
  <1>2. World \in Worlds
    BY <1>1, WorldIs, Bounds, Nothing DEF World
  <1>3. offers \in OfferSets
    BY <1>1, Nothing
  <1>4. GoldFor(offers) = 0 /\ GoodsFor(offers) = 0
    <2> DEFINE none == [i \in {} |-> 0]
    <2>1. \A i \in Ids : Bid(offers)[i] = 0 /\ Asked(offers)[i] = 0
      BY <1>1, <1>3, OfferNumbers
    <2>2. /\ SumFunctionOnSet(none, {}) = SumFunctionOnSet(Bid(offers), Ids)
          /\ SumFunctionOnSet(none, {}) = SumFunctionOnSet(Asked(offers), Ids)
      BY <1>3, <2>1, OfferNumbers, SumPad
    <2>3. Numbers(none, {})
      BY FS_EmptySet DEF Numbers
    <2>4. SumFunctionOnSet(none, {}) = 0
      BY <2>3, SumUnfold
    <2> QED BY <2>2, <2>4 DEF GoldFor, GoodsFor
  <1>5. /\ GoldIn(World) = SumFunction([p \in Players |-> Money(Wealth[p])])
        /\ GoodsIn(World) = SumFunction([p \in Players |-> Wealth[p].goods])
    <2>1. \A p \in Players : Purse(World, p) = Wealth[p]
      BY <1>1 DEF Purse, Online, World
    <2>2. MoneyOf(World) = [p \in Players |-> Money(Wealth[p])]
      BY <2>1 DEF MoneyOf
    <2>3. GoodsOf(World) = [p \in Players |-> Wealth[p].goods]
      BY <2>1 DEF GoodsOf
    <2> QED BY <2>2, <2>3 DEF GoldIn, GoodsIn, SumFunction, MoneyOf, GoodsOf
  <1>6. GoldIn(World) \in Int /\ GoodsIn(World) \in Int
    BY <1>2, HoldingNumbers
  <1>7. Conserves(World, offers, ledger)
    BY <1>1, <1>4, <1>5, <1>6 DEF Conserves
  <1>8. TypeOK
    BY <1>1, Bounds DEF TypeOK
  <1>9. results \in Seq(OfferSets) /\ DOMAIN results = {}
    BY <1>1
  <1> QED BY <1>2, <1>3, <1>7, <1>8, <1>9 DEF IInv

-----------------------------------------------------------------------------
(* Every action preserves it.                                              *)

LEMMA OfferIs ==
    ASSUME NEW p \in Players, NEW sale \in BOOLEAN, NEW n \in Amounts, NEW price \in Prices
    PROVE  /\ Offer(p, sale, n, price) \in Offers
           /\ GoldOfRow(Offer(p, sale, n, price)) = IF sale THEN 0 ELSE price * n
           /\ GoodsOfRow(Offer(p, sale, n, price)) = IF sale THEN n ELSE 0
  BY Bounds DEF Offer, Offers, GoldOfRow, GoodsOfRow

LEMMA CreateSellKeeps ==
    ASSUME IInv, NEW p \in Players, NEW n \in Amounts, NEW price \in Prices, CreateSell(p, n, price)
    PROVE  IInv'
  <1> DEFINE row == Offer(p, TRUE, n, price)
             os == With(offers, nextId, row)
  <1>1. PICK rest \in 1 .. Fee :
            /\ Become(Take(RemoveMoney(World, p, Fee, rest), p, "goods", n))
            /\ Book(-Fee - TakenTwice(p, Fee, rest), 0)
    BY DEF CreateSell
  <1>2. /\ p \in DOMAIN mem /\ mem[p].bank + mem[p].cash >= Fee /\ mem[p].goods >= n
        /\ nextId <= MaxOffers /\ offers' = os /\ nextId' = nextId + 1
        /\ UNCHANGED <<queries, results>>
    BY DEF CreateSell, Has, Insert
  <1>3. Fee \in Nat /\ n \in Nat
    BY Bounds
  <1> DEFINE y == RemoveMoney(World, p, Fee, rest)
             z == Take(y, p, "goods", n)
             twice == TakenTwice(p, Fee, rest)
  <1>4. /\ y \in Worlds /\ p \in DOMAIN y.mem /\ y.mem[p].goods = mem[p].goods
        /\ GoldIn(y) = GoldIn(World) - Fee - twice
        /\ GoodsIn(y) = GoodsIn(World)
    BY <1>2, <1>3, IInvGives, RemoveMoneyGives, SMTT(30) DEF TakenTwice, Has
  <1>5. twice \in Nat
    BY DEF TakenTwice
  <1> HIDE DEF y, twice
  <1>6. z \in Worlds /\ GoldIn(z) = GoldIn(y) /\ GoodsIn(z) = GoodsIn(y) - n
    <2>1. GoldIn(y) \in Int
      BY <1>4, HoldingNumbers
    <2> QED BY <1>2, <1>3, <1>4, <2>1, TakeGives
  <1>7. row \in Offers /\ GoldOfRow(row) = 0 /\ GoodsOfRow(row) = n
    BY OfferIs
  <1>8. nextId \in Ids \ DOMAIN offers
    BY <1>2, IInvGives DEF Ids
  <1> HIDE DEF row
  <1>9. /\ os \in OfferSets /\ DOMAIN os = DOMAIN offers \cup {nextId}
        /\ \A j \in DOMAIN offers : os[j] = offers[j]
        /\ GoldFor(os) = GoldFor(offers) + 0
        /\ GoodsFor(os) = GoodsFor(offers) + n
    BY <1>7, <1>8, IInvGives, WithGives
  <1>10. Become(z) /\ Book(-Fee - twice, 0) /\ -Fee - twice \in Int
    BY <1>1, <1>3, <1>5 DEF y, twice
  <1> HIDE DEF z, os
  <1>11. /\ GoldIn(z) + GoldFor(os) = GoldIn(World) + GoldFor(offers) + (-Fee - twice)
         /\ GoodsIn(z) + GoodsFor(os) = GoodsIn(World) + GoodsFor(offers) + 0
    BY <1>3, <1>4, <1>5, <1>6, <1>9, IInvGives, SMTT(30)
  <1> QED BY <1>2, <1>6, <1>9, <1>10, <1>11, OperationKeeps

LEMMA CreateBuyKeeps ==
    ASSUME IInv, NEW p \in Players, NEW n \in Amounts, NEW price \in Prices, CreateBuy(p, n, price)
    PROVE  IInv'
  <1> DEFINE row == Offer(p, FALSE, n, price)
             os == With(offers, nextId, row)
             m == price * n
             sum == m + Fee
  <1>1. PICK rest \in 1 .. sum :
            /\ Become(RemoveMoney(World, p, sum, rest))
            /\ Book(-Fee - TakenTwice(p, sum, rest), 0)
    BY DEF CreateBuy
  <1>2. /\ p \in DOMAIN mem /\ mem[p].bank + mem[p].cash >= sum
        /\ nextId <= MaxOffers /\ offers' = os /\ nextId' = nextId + 1
        /\ UNCHANGED <<queries, results>>
    BY DEF CreateBuy, Has, Insert
  <1>3. m \in Nat /\ Fee \in Nat /\ sum \in Nat
    BY Bounds, Times
  <1> DEFINE z == RemoveMoney(World, p, sum, rest)
             twice == TakenTwice(p, sum, rest)
  <1>4. /\ z \in Worlds
        /\ GoldIn(z) = GoldIn(World) - sum - twice
        /\ GoodsIn(z) = GoodsIn(World)
    <2> HIDE DEF sum, m
    <2> QED BY <1>2, <1>3, IInvGives, RemoveMoneyGives DEF TakenTwice, Has
  <1>5. twice \in Nat
    BY <1>3 DEF TakenTwice
  <1>6. row \in Offers /\ GoldOfRow(row) = m /\ GoodsOfRow(row) = 0
    BY OfferIs
  <1>7. nextId \in Ids \ DOMAIN offers
    BY <1>2, IInvGives DEF Ids
  <1>8. Become(z) /\ Book(-Fee - twice, 0) /\ -Fee - twice \in Int
    BY <1>1, <1>3, <1>5
  <1> HIDE DEF row, z, twice, m
  <1>9. /\ os \in OfferSets /\ DOMAIN os = DOMAIN offers \cup {nextId}
        /\ \A j \in DOMAIN offers : os[j] = offers[j]
        /\ GoldFor(os) = GoldFor(offers) + m
        /\ GoodsFor(os) = GoodsFor(offers) + 0
    BY <1>6, <1>7, IInvGives, WithGives
  <1> HIDE DEF os
  <1>10. /\ GoldIn(z) + GoldFor(os) = GoldIn(World) + GoldFor(offers) + (-Fee - twice)
         /\ GoodsIn(z) + GoodsFor(os) = GoodsIn(World) + GoodsFor(offers) + 0
    <2>1. GoldIn(z) = GoldIn(World) - (m + Fee) - twice /\ GoodsIn(z) = GoodsIn(World)
      BY <1>4
    <2> HIDE DEF sum
    <2>2. /\ GoldIn(World) \in Int /\ GoldFor(offers) \in Int
          /\ GoodsIn(World) \in Int /\ GoodsFor(offers) \in Int
      BY IInvGives
    <2>3. m \in Nat /\ Fee \in Nat /\ twice \in Nat
      BY <1>3, <1>5
    <2>4. GoldFor(os) = GoldFor(offers) + m /\ GoodsFor(os) = GoodsFor(offers) + 0
      BY <1>9
    <2>5. GoldIn(z) + GoldFor(os) = GoldIn(World) + GoldFor(offers) + (-Fee - twice)
      BY <2>1, <2>2, <2>3, <2>4
    <2> QED BY <2>1, <2>2, <2>4, <2>5
  <1> QED BY <1>2, <1>4, <1>8, <1>9, <1>10, OperationKeeps

LEMMA CancelKeeps ==
    ASSUME IInv, NEW i \in DOMAIN offers, Cancel(i)
    PROVE  IInv'
  <1> DEFINE o == offers[i]
             z == Refund(World, o, o.amount)
             os == Without(offers, {i})
  <1>1. /\ Become(z) /\ offers' = os /\ nextId' = nextId
        /\ UNCHANGED <<queries, results>> /\ ledger' = ledger
    BY DEF Cancel
  <1>2. o \in Offers /\ o.amount \in Nat /\ o.sale \in BOOLEAN
    BY IInvGives, OfferSetGives, OfferGives
  <1>3. /\ z \in Worlds
        /\ GoldIn(z) = GoldIn(World) + (IF o.sale THEN 0 ELSE o.price * o.amount)
        /\ GoodsIn(z) = GoodsIn(World) + (IF o.sale THEN o.amount ELSE 0)
    <2> HIDE DEF o
    <2> QED BY <1>2, IInvGives, RefundGives
  <1>4. os \in OfferSets /\ DOMAIN os = DOMAIN offers \ {i} /\ \A j \in DOMAIN os : os[j] = offers[j]
    BY IInvGives, WithoutGives
  <1>5. GoldFor(os) = GoldFor(offers) - GoldOfRow(o) /\ GoodsFor(os) = GoodsFor(offers) - GoodsOfRow(o)
    BY IInvGives, WithoutOne
  <1>6. Book(0, 0)
    BY <1>1, NoEntry
  <1>7. /\ GoldOfRow(o) \in Int /\ GoodsOfRow(o) \in Int
        /\ GoldIn(z) = GoldIn(World) + GoldOfRow(o) /\ GoodsIn(z) = GoodsIn(World) + GoodsOfRow(o)
    BY <1>2, <1>3, OfferGives, Times DEF GoldOfRow, GoodsOfRow
  <1> HIDE DEF z, os, o
  <1>8. /\ GoldIn(z) + GoldFor(os) = GoldIn(World) + GoldFor(offers) + 0
        /\ GoodsIn(z) + GoodsFor(os) = GoodsIn(World) + GoodsFor(offers) + 0
    BY <1>5, <1>7, IInvGives
  <1> QED BY <1>1, <1>3, <1>4, <1>6, <1>8, OperationKeeps

LEMMA AcceptBuyKeeps ==
    ASSUME IInv, NEW p \in Players, NEW n \in Amounts, NEW i \in DOMAIN offers, AcceptBuy(p, i, n)
    PROVE  IInv'
  <1> DEFINE o == offers[i]
             x == Take(World, p, "goods", n)
             m == o.price * n
             y == Give(x, p, "bank", m)
             z == Give(y, o.owner, "goods", n)
             os == Accepted(i, n)
  <1>1. /\ p \in DOMAIN mem /\ ~o.sale /\ n <= o.amount /\ mem[p].goods >= n
        /\ Become(z) /\ offers' = os /\ nextId' = nextId
        /\ UNCHANGED <<queries, results>> /\ ledger' = ledger
    BY DEF AcceptBuy, Has
  <1>2. o \in Offers /\ o.owner \in Players /\ n \in Nat \ {0} /\ n \in Nat /\ m \in Nat
    BY IInvGives, OfferSetGives, OfferGives, Times, Bounds
  <1>3. x \in Worlds /\ GoldIn(x) = GoldIn(World) - 0 /\ GoodsIn(x) = GoodsIn(World) - n
    BY <1>1, <1>2, IInvGives, TakeGives
  <1>4. /\ os \in OfferSets /\ DOMAIN os \subseteq DOMAIN offers
        /\ \A j \in DOMAIN os : os[j].sale = offers[j].sale /\ os[j].price = offers[j].price
        /\ GoldFor(os) = GoldFor(offers) - m
        /\ GoodsFor(os) = GoodsFor(offers) - 0
    BY <1>1, <1>2, IInvGives, AcceptedGives
  <1> HIDE DEF x, m
  <1>5. y \in Worlds /\ GoldIn(y) = GoldIn(x) + m /\ GoodsIn(y) = GoodsIn(x) + 0
    BY <1>2, <1>3, GiveGives
  <1> HIDE DEF y
  <1>6. z \in Worlds /\ GoldIn(z) = GoldIn(y) + 0 /\ GoodsIn(z) = GoodsIn(y) + n
    BY <1>2, <1>5, GiveGives
  <1>7. Book(0, 0)
    BY <1>1, NoEntry
  <1> HIDE DEF z, os, o
  <1>8. /\ GoldIn(z) + GoldFor(os) = GoldIn(World) + GoldFor(offers) + 0
        /\ GoodsIn(z) + GoodsFor(os) = GoodsIn(World) + GoodsFor(offers) + 0
    BY <1>2, <1>3, <1>4, <1>5, <1>6, IInvGives
  <1> QED BY <1>1, <1>4, <1>6, <1>7, <1>8, OperationKeeps

LEMMA AcceptSellKeeps ==
    ASSUME IInv, NEW p \in Players, NEW n \in Amounts, NEW i \in DOMAIN offers, AcceptSell(p, i, n)
    PROVE  IInv'
  <1> DEFINE o == offers[i]
             m == o.price * n
             x == Take(World, p, "bank", m)
             y == Give(x, p, "goods", n)
             z == Give(y, o.owner, "bank", m)
             os == Accepted(i, n)
  <1>1. /\ p \in DOMAIN mem /\ o.sale /\ n <= o.amount /\ mem[p].bank >= m
        /\ Become(z) /\ offers' = os /\ nextId' = nextId
        /\ UNCHANGED <<queries, results>> /\ ledger' = ledger
    BY DEF AcceptSell, Has
  <1>2. o \in Offers /\ o.owner \in Players /\ n \in Nat \ {0} /\ n \in Nat /\ m \in Nat
    BY IInvGives, OfferSetGives, OfferGives, Times, Bounds
  <1>3. /\ os \in OfferSets /\ DOMAIN os \subseteq DOMAIN offers
        /\ \A j \in DOMAIN os : os[j].sale = offers[j].sale /\ os[j].price = offers[j].price
        /\ GoldFor(os) = GoldFor(offers) - 0
        /\ GoodsFor(os) = GoodsFor(offers) - n
    BY <1>1, <1>2, IInvGives, AcceptedGives
  <1> HIDE DEF m
  <1>4. x \in Worlds /\ GoldIn(x) = GoldIn(World) - m /\ GoodsIn(x) = GoodsIn(World) - 0
    BY <1>1, <1>2, IInvGives, TakeGives
  <1> HIDE DEF x
  <1>5. y \in Worlds /\ GoldIn(y) = GoldIn(x) + 0 /\ GoodsIn(y) = GoodsIn(x) + n
    BY <1>2, <1>4, GiveGives
  <1> HIDE DEF y
  <1>6. z \in Worlds /\ GoldIn(z) = GoldIn(y) + m /\ GoodsIn(z) = GoodsIn(y) + 0
    BY <1>2, <1>5, GiveGives
  <1>7. Book(0, 0)
    BY <1>1, NoEntry
  <1> HIDE DEF z, os, o
  <1>8. /\ GoldIn(z) + GoldFor(os) = GoldIn(World) + GoldFor(offers) + 0
        /\ GoodsIn(z) + GoodsFor(os) = GoodsIn(World) + GoodsFor(offers) + 0
    BY <1>2, <1>3, <1>4, <1>5, <1>6, IInvGives
  <1> QED BY <1>1, <1>3, <1>6, <1>7, <1>8, OperationKeeps

LEMMA ExpireKeeps ==
    ASSUME IInv, NEW i \in DOMAIN offers, Expire(i)
    PROVE  IInv'
  <1> DEFINE o == offers[i]
             r == [o EXCEPT !.expired = TRUE]
             os == [offers EXCEPT ![i] = r]
  <1>1. /\ Become(World) /\ offers' = os /\ nextId' = nextId
        /\ UNCHANGED <<queries, results>> /\ ledger' = ledger
    BY DEF Expire, Become, World, world
  <1>2. o \in Offers /\ i \in Ids /\ offers = [j \in DOMAIN offers |-> offers[j]]
    BY IInvGives, OfferSetGives
  <1>3. /\ os = [j \in DOMAIN os |-> os[j]] /\ DOMAIN os = DOMAIN offers
        /\ \A j \in DOMAIN os : os[j] = IF j = i THEN r ELSE offers[j]
    BY <1>2
  <1>4. /\ r \in Offers /\ r.sale = o.sale /\ r.price = o.price /\ r.amount = o.amount
    BY <1>2 DEF Offers
  <1> HIDE DEF r, os
  <1>5. os \in OfferSets
    <2>1. \A j \in DOMAIN os : os[j] \in Offers
      BY <1>3, <1>4, IInvGives, OfferSetGives
    <2>2. DOMAIN os \subseteq Ids
      BY <1>3, IInvGives
    <2> QED BY <1>3, <2>1, <2>2, OfferSetGives
  <1>6. /\ GoldFor(os) = GoldFor(offers) + (Bid(os)[i] - Bid(offers)[i])
        /\ GoodsFor(os) = GoodsFor(offers) + (Asked(os)[i] - Asked(offers)[i])
    BY <1>2, <1>3, <1>5, IInvGives, OfferChange
  <1>7. /\ Bid(os)[i] = Bid(offers)[i] /\ Asked(os)[i] = Asked(offers)[i]
        /\ Bid(os)[i] \in Int /\ Asked(os)[i] \in Int
    BY <1>2, <1>3, <1>4, <1>5, IInvGives, OfferNumbers, SMTT(30) DEF Numbers
  <1>8. /\ GoldIn(World) + GoldFor(os) = GoldIn(World) + GoldFor(offers) + 0
        /\ GoodsIn(World) + GoodsFor(os) = GoodsIn(World) + GoodsFor(offers) + 0
    BY <1>6, <1>7, IInvGives
  <1>9. Book(0, 0)
    BY <1>1, NoEntry
  <1>10. \A j \in DOMAIN os : /\ j \in DOMAIN offers
                              /\ os[j].sale = offers[j].sale /\ os[j].price = offers[j].price
    BY <1>3, <1>4
  <1> QED BY <1>1, <1>5, <1>8, <1>9, <1>10, IInvGives, OperationKeeps

\* What concerns neither players nor offers.
LEMMA TaskKeeps ==
    ASSUME IInv, UNCHANGED <<offers, nextId, world, ledger>>,
           queries' \in 0 .. MaxChecks, results' \in Seq(OfferSets),
           \A k \in DOMAIN results' : Speaks(results'[k], offers, nextId)
    PROVE  IInv'
  <1>1. /\ Become(World) /\ offers' = offers /\ nextId' = nextId /\ ledger' = ledger
    BY DEF Become, World, world
  <1>2. Conserves(World, offers, ledger)
    BY DEF IInv
  <1>3. /\ ledger' \in [gold : Int, goods : Int] /\ nextId' \in 1 .. MaxOffers + 1
        /\ \A i \in DOMAIN offers : i < nextId'
    BY <1>1, IInvGives
  <1> QED BY <1>1, <1>2, <1>3, IInvGives, BecomeKeeps

LEMMA CheckExpiredOffersKeeps ==
    ASSUME IInv, CheckExpiredOffers PROVE IInv'
  <1>1. /\ queries + Len(results) < MaxChecks /\ queries' = queries + 1 /\ results' = results
        /\ UNCHANGED <<offers, nextId, world, ledger>>
    BY DEF CheckExpiredOffers
  <1>2. queries \in 0 .. MaxChecks /\ Len(results) \in Nat
    BY IInvGives DEF IInv, TypeOK
  <1>3. queries' \in 0 .. MaxChecks
    BY <1>1, <1>2, Bounds
  <1>4. \A k \in DOMAIN results' : Speaks(results'[k], offers, nextId)
    BY <1>1 DEF IInv
  <1> QED BY <1>1, <1>3, <1>4, IInvGives, TaskKeeps

\* The result of a query speaks of the offers it was made from.
LEMMA RunQueryKeeps ==
    ASSUME IInv, RunQuery PROVE IInv'
  <1> DEFINE r == Without(offers, {i \in DOMAIN offers : ~offers[i].expired})
  <1>1. /\ queries > 0 /\ queries' = queries - 1 /\ results' = Append(results, r)
        /\ UNCHANGED <<offers, nextId, world, ledger>>
    BY DEF RunQuery
  <1>2. /\ r \in OfferSets /\ DOMAIN r \subseteq DOMAIN offers
        /\ \A j \in DOMAIN r : r[j] = offers[j]
    BY IInvGives, WithoutGives
  <1> HIDE DEF r
  <1>3. Speaks(r, offers, nextId)
    BY <1>2, IInvGives DEF Speaks
  <1>4. /\ results' \in Seq(OfferSets)
        /\ \A k \in DOMAIN results' : results'[k] = r \/ (k \in DOMAIN results /\ results'[k] = results[k])
    BY <1>1, <1>2, IInvGives
  <1>5. \A k \in DOMAIN results' : Speaks(results'[k], offers, nextId)
    BY <1>3, <1>4 DEF IInv
  <1>6. queries' \in 0 .. MaxChecks
    <2>1. queries \in 0 .. MaxChecks /\ MaxChecks \in Nat
      BY Bounds DEF IInv, TypeOK
    <2> QED BY <1>1, <2>1
  <1> QED BY <1>1, <1>4, <1>5, <1>6, TaskKeeps

\* The loop of processExpiredOffers gives back what the result says of each row.
LEMMA RefundsGives ==
    ASSUME NEW result \in OfferSets, NEW X \in SUBSET DOMAIN result, NEW w0 \in Worlds
    PROVE  LET z == FoldSet(LAMBDA i, w : Refund(w, result[i], result[i].amount), w0, X) IN
           /\ z \in Worlds
           /\ GoldIn(z) = GoldIn(w0) + SumFunctionOnSet(Bid(result), X)
           /\ GoodsIn(z) = GoodsIn(w0) + SumFunctionOnSet(Asked(result), X)
  <1> DEFINE Step(i, w) == Refund(w, result[i], result[i].amount)
             z == FoldSet(LAMBDA i, w : Refund(w, result[i], result[i].amount), w0, X)
             Rec(it) == it = [s \in SUBSET X |->
                            IF s = {} THEN w0 ELSE Step(Pick(s), it[s \ {Pick(s)}])]
             run == CHOOSE it : Rec(it)
             g == [a \in X \X Worlds |-> Step(a[1], a[2])]
  <1>1. z = run[X]
    BY DEF FoldSet, MapThenFoldSet, Pick
  <1>2. /\ IsFiniteSet(X) /\ X \subseteq Ids
        /\ \A i \in X : result[i] \in Offers /\ result[i].amount \in Nat
    <2>1. DOMAIN result \subseteq Ids /\ \A i \in X : result[i] \in Offers
      BY OfferSetGives
    <2>2. X \in SUBSET Ids
      BY <2>1
    <2> QED BY <2>1, <2>2, Bounds, FS_Subset, OfferGives
  <1>3. \A i \in X, w \in Worlds :
            /\ Step(i, w) \in Worlds
            /\ GoldIn(Step(i, w)) = GoldIn(w) + Bid(result)[i]
            /\ GoodsIn(Step(i, w)) = GoodsIn(w) + Asked(result)[i]
    <2> SUFFICES ASSUME NEW i \in X, NEW w \in Worlds
                 PROVE  /\ Step(i, w) \in Worlds
                        /\ GoldIn(Step(i, w)) = GoldIn(w) + Bid(result)[i]
                        /\ GoodsIn(Step(i, w)) = GoodsIn(w) + Asked(result)[i]
      OBVIOUS
    <2> DEFINE o == result[i]
    <2>1. /\ Bid(result)[i] = (IF o.sale THEN 0 ELSE o.price * o.amount)
          /\ Asked(result)[i] = (IF o.sale THEN o.amount ELSE 0)
      BY <1>2, OfferNumbers
    <2>2. o \in Offers /\ o.amount \in Nat
      BY <1>2
    <2> HIDE DEF o
    <2>3. /\ Refund(w, o, o.amount) \in Worlds
          /\ GoldIn(Refund(w, o, o.amount)) = GoldIn(w) + (IF o.sale THEN 0 ELSE o.price * o.amount)
          /\ GoodsIn(Refund(w, o, o.amount)) = GoodsIn(w) + (IF o.sale THEN o.amount ELSE 0)
      BY <2>2, RefundGives
    <2> QED BY <2>1, <2>3 DEF o
  <1> HIDE DEF z, Step
  <1>4. g \in [X \X Worlds -> Worlds] /\ \A i \in X, w \in Worlds : g[<<i, w>>] = Step(i, w)
    BY <1>3
  <1> HIDE DEF g
  <1>5. PICK h \in [SUBSET X -> Worlds] : Computes(h, X, w0, g)
    BY <1>2, <1>4, Recursion, Zenon
  <1>6. \A s \in SUBSET X : s # {} => Pick(s) \in X /\ s \ {Pick(s)} \in SUBSET X
    BY PickGives
  <1>7. Rec(h)
    <2>1. \A s \in SUBSET X : h[s] = IF s = {} THEN w0 ELSE Step(Pick(s), h[s \ {Pick(s)}])
      BY <1>4, <1>5, <1>6 DEF Computes
    <2> QED BY <2>1
  <1>8. Rec(run)
    BY <1>7
  <1>9. \A s \in SUBSET X : run[s] = IF s = {} THEN w0 ELSE Step(Pick(s), run[s \ {Pick(s)}])
    BY <1>8
  <1> DEFINE a(s) == SumFunctionOnSet(Bid(result), s)
             b(s) == SumFunctionOnSet(Asked(result), s)
             G == {s \in SUBSET X : /\ run[s] \in Worlds
                                    /\ GoldIn(run[s]) = GoldIn(w0) + a(s)
                                    /\ GoodsIn(run[s]) = GoodsIn(w0) + b(s)}
  <1>10. \A s \in SUBSET X : Numbers(Bid(result), s) /\ Numbers(Asked(result), s)
    BY <1>2, OfferNumbers, FS_Subset DEF Numbers
  <1>11. \A s \in SUBSET X :
            /\ a(s) \in Int /\ (s = {} => a(s) = 0)
            /\ s # {} => a(s) = Bid(result)[Pick(s)] + a(s \ {Pick(s)})
    BY <1>10, SumUnfold
  <1>12. \A s \in SUBSET X :
            /\ b(s) \in Int /\ (s = {} => b(s) = 0)
            /\ s # {} => b(s) = Asked(result)[Pick(s)] + b(s \ {Pick(s)})
    BY <1>10, SumUnfold
  <1>13. \A i \in X : Bid(result)[i] \in Int /\ Asked(result)[i] \in Int
    BY <1>10 DEF Numbers
  <1>14. GoldIn(w0) \in Int /\ GoodsIn(w0) \in Int
    BY HoldingNumbers
  <1> HIDE DEF run, a, b
  <1>15. ASSUME NEW s \in SUBSET X, \A t \in SUBSET s : t # s => t \in G
         PROVE  s \in G
    <2>1. CASE s = {}
      <3>1. run[s] = w0 /\ a(s) = 0 /\ b(s) = 0
        BY <2>1, <1>9, <1>11, <1>12
      <3> QED BY <3>1, <1>14
    <2>2. CASE s # {}
      <3> DEFINE e == Pick(s)
                 r == s \ {e}
      <3>1. e \in s /\ e \in X
        BY <2>2, PickGives
      <3>2. r \in G
        BY <3>1, <1>15
      <3>3. run[s] = Step(e, run[r])
        BY <2>2, <1>9
      <3>4. a(s) = Bid(result)[e] + a(r) /\ b(s) = Asked(result)[e] + b(r)
        BY <2>2, <1>11, <1>12
      <3> HIDE DEF e, r
      <3>5. /\ run[r] \in Worlds
            /\ GoldIn(run[r]) = GoldIn(w0) + a(r) /\ GoodsIn(run[r]) = GoodsIn(w0) + b(r)
            /\ a(r) \in Int /\ b(r) \in Int
        BY <3>2, <1>11, <1>12
      <3>6. /\ run[s] \in Worlds
            /\ GoldIn(run[s]) = GoldIn(run[r]) + Bid(result)[e]
            /\ GoodsIn(run[s]) = GoodsIn(run[r]) + Asked(result)[e]
        BY <3>1, <3>3, <3>5, <1>3
      <3>7. Bid(result)[e] \in Int /\ Asked(result)[e] \in Int
        BY <3>1, <1>13
      <3>8. GoldIn(run[s]) = GoldIn(w0) + a(s) /\ GoodsIn(run[s]) = GoodsIn(w0) + b(s)
        BY <3>4, <3>5, <3>6, <3>7, <1>14
      <3> QED BY <3>6, <3>8
    <2> QED BY <2>1, <2>2
  <1> HIDE DEF G
  <1>16. X \in G
    BY <1>2, <1>15, SubsetInduction
  <1> QED BY <1>1, <1>16 DEF G, a, b, z

LEMMA HeadGives ==
    ASSUME NEW S, NEW s \in Seq(S), s # <<>>
    PROVE  /\ 1 \in DOMAIN s /\ Head(s) = s[1] /\ Head(s) \in S /\ Tail(s) \in Seq(S)
           /\ \A k \in DOMAIN Tail(s) : k + 1 \in DOMAIN s /\ Tail(s)[k] = s[k + 1]
  <1>1. Len(s) \in Nat /\ Len(s) # 0 /\ DOMAIN s = 1 .. Len(s)
    BY EmptySeq, LenProperties
  <1>2. /\ Tail(s) \in Seq(S) /\ Len(Tail(s)) = Len(s) - 1
        /\ \A k \in 1 .. Len(Tail(s)) : Tail(s)[k] = s[k + 1]
    BY HeadTailProperties
  <1>3. DOMAIN Tail(s) = 1 .. Len(s) - 1
    BY <1>2, LenProperties
  <1> QED BY <1>1, <1>2, <1>3

\* The rows that are still there go, with what they have left; what the result
\* says they had left comes back; the books have the difference.
LEMMA ProcessExpiredOffersKeeps ==
    ASSUME IInv, ProcessExpiredOffers PROVE IInv'
  <1> DEFINE result == Head(results)
             moved == Movable(result)
             Overtaken(sale) == {i \in moved \cap DOMAIN offers : result[i].sale = sale}
             Stale(i) == result[i].amount - offers[i].amount
             gold == [i \in Overtaken(FALSE) |-> Stale(i) * result[i].price]
             goods == [i \in Overtaken(TRUE) |-> Stale(i)]
             z == FoldSet(LAMBDA i, w : Refund(w, result[i], result[i].amount), World, moved)
             os == Without(offers, moved)
  <1>1. /\ results # <<>> /\ results' = Tail(results) /\ offers' = os /\ Become(z)
        /\ Book(SumFunction(gold), SumFunction(goods))
        /\ UNCHANGED <<nextId, queries>>
    BY DEF ProcessExpiredOffers
  <1>2. results \in Seq(OfferSets) /\ World \in Worlds /\ offers \in OfferSets
    BY IInvGives
  <1>3. /\ result \in OfferSets /\ 1 \in DOMAIN results /\ result = results[1]
        /\ results' \in Seq(OfferSets)
        /\ \A k \in DOMAIN results' : k + 1 \in DOMAIN results /\ results'[k] = results[k + 1]
    BY <1>1, <1>2, HeadGives
  <1>4. Speaks(result, offers, nextId)
    BY <1>3 DEF IInv
  <1>5. \A k \in DOMAIN results' : Speaks(results'[k], offers, nextId)
    BY <1>3 DEF IInv
  <1> HIDE DEF result
  <1>6. /\ moved \subseteq DOMAIN result /\ moved \subseteq DOMAIN offers /\ moved \subseteq Ids
        /\ \A i \in moved : /\ result[i] \in Offers /\ offers[i] \in Offers
                            /\ offers[i].sale = result[i].sale /\ offers[i].price = result[i].price
    BY <1>2, <1>3, <1>4, OfferSetGives DEF Movable, Speaks
  <1>7. /\ z \in Worlds
        /\ GoldIn(z) = GoldIn(World) + SumFunctionOnSet(Bid(result), moved)
        /\ GoodsIn(z) = GoodsIn(World) + SumFunctionOnSet(Asked(result), moved)
    BY <1>2, <1>3, <1>6, RefundsGives
  <1>8. os \in OfferSets /\ DOMAIN os = DOMAIN offers \ moved /\ \A j \in DOMAIN os : os[j] = offers[j]
    BY <1>2, WithoutGives
  <1> HIDE DEF z, os, moved
  <1> DEFINE A == Overtaken(FALSE)
             B == Overtaken(TRUE)
             backGold == [i \in Ids |-> IF i \in moved THEN Bid(result)[i] ELSE 0]
             backGoods == [i \in Ids |-> IF i \in moved THEN Asked(result)[i] ELSE 0]
             moreGold == [i \in Ids |-> IF i \in A THEN gold[i] ELSE 0]
             moreGoods == [i \in Ids |-> IF i \in B THEN goods[i] ELSE 0]
             allGold == [i \in Ids |-> backGold[i] + Bid(os)[i]]
             allGoods == [i \in Ids |-> backGoods[i] + Asked(os)[i]]
  <1>9. /\ Numbers(Bid(result), Ids) /\ Numbers(Asked(result), Ids)
        /\ Numbers(Bid(os), Ids) /\ Numbers(Asked(os), Ids)
        /\ Numbers(Bid(offers), Ids) /\ Numbers(Asked(offers), Ids)
    BY <1>2, <1>3, <1>8, OfferNumbers
  <1>10. Numbers(backGold, Ids) /\ Numbers(backGoods, Ids)
    BY <1>9 DEF Numbers
  <1>11. /\ SumFunctionOnSet(Bid(result), moved) = SumFunctionOnSet(backGold, Ids)
         /\ SumFunctionOnSet(Asked(result), moved) = SumFunctionOnSet(backGoods, Ids)
    <2> HIDE DEF backGold, backGoods
    <2>1. \A i \in Ids : /\ backGold[i] = IF i \in moved THEN Bid(result)[i] ELSE 0
                         /\ backGoods[i] = IF i \in moved THEN Asked(result)[i] ELSE 0
      BY DEF backGold, backGoods
    <2> QED BY <1>6, <1>10, <2>1, SumPad
  <1>12. A \in SUBSET Ids /\ B \in SUBSET Ids
    BY <1>6
  <1>13. /\ \A i \in A : gold[i] \in Int /\ gold[i] = Stale(i) * result[i].price
         /\ \A i \in B : goods[i] \in Int /\ goods[i] = Stale(i)
    <2>1. ASSUME NEW i \in moved PROVE Stale(i) \in Int /\ Stale(i) * result[i].price \in Int
      BY <1>6, OfferGives
    <2> QED BY <2>1
  <1>14. Numbers(moreGold, Ids) /\ Numbers(moreGoods, Ids)
    <2> HIDE DEF gold, goods, A, B
    <2>1. \A i \in Ids : moreGold[i] \in Int /\ moreGoods[i] \in Int
      BY <1>13
    <2> QED BY <2>1, Bounds DEF Numbers
  <1>15. SumFunction(gold) = SumFunctionOnSet(moreGold, Ids)
    <2>1. SumFunction(gold) = SumFunctionOnSet(gold, A)
      BY DEF SumFunction
    <2>2. \A i \in Ids : moreGold[i] = IF i \in A THEN gold[i] ELSE 0
      OBVIOUS
    <2> HIDE DEF gold, A, moreGold
    <2> QED BY <1>12, <1>14, <2>1, <2>2, SumPad
  <1>16. SumFunction(goods) = SumFunctionOnSet(moreGoods, Ids)
    <2>1. SumFunction(goods) = SumFunctionOnSet(goods, B)
      BY DEF SumFunction
    <2>2. \A i \in Ids : moreGoods[i] = IF i \in B THEN goods[i] ELSE 0
      OBVIOUS
    <2> HIDE DEF goods, B, moreGoods
    <2> QED BY <1>12, <1>14, <2>1, <2>2, SumPad
  <1>17. ASSUME NEW i \in Ids
         PROVE  /\ backGold[i] + Bid(os)[i] = Bid(offers)[i] + moreGold[i]
                /\ backGoods[i] + Asked(os)[i] = Asked(offers)[i] + moreGoods[i]
    <2>1. /\ Bid(os)[i] = IF i \in DOMAIN os /\ ~os[i].sale THEN os[i].price * os[i].amount ELSE 0
          /\ Asked(os)[i] = IF i \in DOMAIN os /\ os[i].sale THEN os[i].amount ELSE 0
      BY <1>8, OfferNumbers
    <2>2. /\ Bid(offers)[i] = IF i \in DOMAIN offers /\ ~offers[i].sale THEN offers[i].price * offers[i].amount ELSE 0
          /\ Asked(offers)[i] = IF i \in DOMAIN offers /\ offers[i].sale THEN offers[i].amount ELSE 0
      BY <1>2, OfferNumbers
    <2>3. /\ Bid(result)[i] = IF i \in DOMAIN result /\ ~result[i].sale THEN result[i].price * result[i].amount ELSE 0
          /\ Asked(result)[i] = IF i \in DOMAIN result /\ result[i].sale THEN result[i].amount ELSE 0
      BY <1>3, OfferNumbers
    <2>4. CASE i \notin moved
      <3>1. /\ backGold[i] = 0 /\ backGoods[i] = 0 /\ moreGold[i] = 0 /\ moreGoods[i] = 0
        BY <2>4
      <3>2. Bid(os)[i] = Bid(offers)[i] /\ Asked(os)[i] = Asked(offers)[i]
        BY <1>8, <2>1, <2>2, <2>4
      <3>3. Bid(offers)[i] \in Int /\ Asked(offers)[i] \in Int
        BY <1>9 DEF Numbers
      <3> QED BY <3>1, <3>2, <3>3
    <2>5. CASE i \in moved
      <3> DEFINE o == offers[i]
                 r == result[i]
      <3>1. /\ r.sale \in BOOLEAN /\ r.amount \in Nat /\ o.amount \in Nat /\ r.price \in Nat
            /\ o.sale = r.sale /\ o.price = r.price /\ i \in DOMAIN result /\ i \in DOMAIN offers
        BY <1>6, <2>5, OfferGives
      <3>2. Bid(os)[i] = 0 /\ Asked(os)[i] = 0
        BY <1>8, <2>1, <2>5
      <3>3. backGold[i] = Bid(result)[i] /\ backGoods[i] = Asked(result)[i]
        BY <2>5
      <3>4. /\ r.sale => moreGold[i] = 0 /\ moreGoods[i] = r.amount - o.amount
            /\ ~r.sale => moreGold[i] = (r.amount - o.amount) * r.price /\ moreGoods[i] = 0
        <4>1. r.sale => i \in B /\ i \notin A
          BY <2>5, <3>1
        <4>2. ~r.sale => i \in A /\ i \notin B
          BY <2>5, <3>1
        <4> HIDE DEF A, B
        <4>3. r.sale => moreGold[i] = 0 /\ moreGoods[i] = goods[i]
          BY <4>1
        <4>4. ~r.sale => moreGold[i] = gold[i] /\ moreGoods[i] = 0
          BY <4>2
        <4> QED BY <4>1, <4>2, <4>3, <4>4, <1>13
      <3> HIDE DEF o, r
      <3>5. /\ Bid(offers)[i] = IF r.sale THEN 0 ELSE r.price * o.amount
            /\ Asked(offers)[i] = IF r.sale THEN o.amount ELSE 0
            /\ Bid(result)[i] = IF r.sale THEN 0 ELSE r.price * r.amount
            /\ Asked(result)[i] = IF r.sale THEN r.amount ELSE 0
        BY <2>2, <2>3, <3>1 DEF o, r
      <3>6. /\ (r.amount - o.amount) * r.price = r.price * r.amount - r.price * o.amount
            /\ r.price * r.amount \in Int /\ r.price * o.amount \in Int
        BY <3>1
      <3> HIDE DEF backGold, backGoods, moreGold, moreGoods
      <3>7. CASE r.sale
        BY <3>1, <3>2, <3>3, <3>4, <3>5, <3>7
      <3>8. CASE ~r.sale
        BY <3>2, <3>3, <3>4, <3>5, <3>6, <3>8
      <3> QED BY <3>1, <3>7, <3>8
    <2> QED BY <2>4, <2>5
  <1> HIDE DEF backGold, backGoods, moreGold, moreGoods
  <1>18. /\ SumFunctionOnSet(allGold, Ids) = SumFunctionOnSet(backGold, Ids) + GoldFor(os)
         /\ SumFunctionOnSet(allGoods, Ids) = SumFunctionOnSet(backGoods, Ids) + GoodsFor(os)
    <2>1. \A i \in Ids : allGold[i] = backGold[i] + Bid(os)[i] /\ allGoods[i] = backGoods[i] + Asked(os)[i]
      OBVIOUS
    <2> HIDE DEF allGold, allGoods
    <2> QED BY <1>9, <1>10, <2>1, SumPlus DEF GoldFor, GoodsFor
  <1>19. /\ SumFunctionOnSet(allGold, Ids) = GoldFor(offers) + SumFunctionOnSet(moreGold, Ids)
         /\ SumFunctionOnSet(allGoods, Ids) = GoodsFor(offers) + SumFunctionOnSet(moreGoods, Ids)
    <2>1. \A i \in Ids : allGold[i] = Bid(offers)[i] + moreGold[i] /\ allGoods[i] = Asked(offers)[i] + moreGoods[i]
      BY <1>17
    <2> HIDE DEF allGold, allGoods
    <2> QED BY <1>9, <1>14, <2>1, SumPlus DEF GoldFor, GoodsFor
  <1>20. /\ SumFunctionOnSet(backGold, Ids) \in Int /\ SumFunctionOnSet(backGoods, Ids) \in Int
         /\ SumFunctionOnSet(moreGold, Ids) \in Int /\ SumFunctionOnSet(moreGoods, Ids) \in Int
         /\ GoldFor(os) \in Int /\ GoodsFor(os) \in Int
    BY <1>8, <1>10, <1>14, SumUnfold, OfferNumbers
  <1> HIDE DEF gold, goods, allGold, allGoods
  <1> DEFINE dGold == SumFunction(gold)
             dGoods == SumFunction(goods)
  <1>21. dGold \in Int /\ dGoods \in Int
    BY <1>15, <1>16, <1>20
  <1>22. /\ GoldIn(z) + GoldFor(os) = GoldIn(World) + GoldFor(offers) + dGold
         /\ GoodsIn(z) + GoodsFor(os) = GoodsIn(World) + GoodsFor(offers) + dGoods
    <2> DEFINE a == SumFunctionOnSet(backGold, Ids)
               b == SumFunctionOnSet(backGoods, Ids)
    <2>1. GoldIn(z) = GoldIn(World) + a /\ a + GoldFor(os) = GoldFor(offers) + dGold /\ a \in Int
      BY <1>7, <1>11, <1>15, <1>18, <1>19, <1>20
    <2>2. GoodsIn(z) = GoodsIn(World) + b /\ b + GoodsFor(os) = GoodsFor(offers) + dGoods /\ b \in Int
      BY <1>7, <1>11, <1>16, <1>18, <1>19, <1>20
    <2>3. /\ GoldIn(World) \in Int /\ GoldFor(offers) \in Int /\ GoldFor(os) \in Int
          /\ GoodsIn(World) \in Int /\ GoodsFor(offers) \in Int /\ GoodsFor(os) \in Int
      BY <1>20, IInvGives
    <2> HIDE DEF a, b, dGold, dGoods
    <2>4. GoldIn(z) + GoldFor(os) = GoldIn(World) + GoldFor(offers) + dGold
      BY <1>21, <2>1, <2>3
    <2>5. GoodsIn(z) + GoodsFor(os) = GoodsIn(World) + GoodsFor(offers) + dGoods
      BY <1>21, <2>2, <2>3
    <2> QED BY <2>4, <2>5
  <1>23. ledger' \in [gold : Int, goods : Int] /\ Conserves(z, os, ledger')
    <2>1. Book(dGold, dGoods)
      BY <1>1
    <2> HIDE DEF dGold, dGoods
    <2> QED BY <1>7, <1>8, <1>21, <1>22, <2>1, ConservesGives
  <1>24. \A k \in DOMAIN results' : Speaks(results'[k], os, nextId')
    BY <1>1, <1>5, <1>8 DEF Speaks
  <1>25. /\ nextId' \in 1 .. MaxOffers + 1 /\ \A i \in DOMAIN os : i < nextId'
         /\ queries' \in 0 .. MaxChecks
    BY <1>1, <1>8, IInvGives DEF IInv, TypeOK
  <1> QED BY <1>1, <1>3, <1>7, <1>8, <1>23, <1>24, <1>25, BecomeKeeps

\* A player may be read in or written back: what counts is what is held.
LEMMA SamePurses ==
    ASSUME NEW w \in Worlds, NEW z \in Worlds, \A p \in Players : Purse(z, p) = Purse(w, p)
    PROVE  GoldIn(z) = GoldIn(w) /\ GoodsIn(z) = GoodsIn(w)
  <1>1. MoneyOf(z) = MoneyOf(w) /\ GoodsOf(z) = GoodsOf(w)
    BY DEF MoneyOf, GoodsOf
  <1> QED BY <1>1 DEF GoldIn, GoodsIn

LEMMA MoveKeeps ==
    ASSUME IInv, NEW z \in Worlds, Become(z), \A p \in Players : Purse(z, p) = Purse(World, p),
           UNCHANGED <<offers, nextId, queries, results, ledger>>
    PROVE  IInv'
  <1>1. GoldIn(z) = GoldIn(World) /\ GoodsIn(z) = GoodsIn(World)
    BY IInvGives, SamePurses
  <1>2. Book(0, 0)
    BY NoEntry
  <1>3. /\ GoldIn(z) + GoldFor(offers) = GoldIn(World) + GoldFor(offers) + 0
        /\ GoodsIn(z) + GoodsFor(offers) = GoodsIn(World) + GoodsFor(offers) + 0
    BY <1>1, IInvGives
  <1> QED BY <1>2, <1>3, IInvGives, OperationKeeps

LEMMA MemFacts ==
    ASSUME IInv
    PROVE  /\ mem = [p \in DOMAIN mem |-> mem[p]] /\ DOMAIN mem \subseteq Players
           /\ \A p \in DOMAIN mem : mem[p] \in Purses
           /\ saved \in [Players -> Purses]
           /\ \A p \in Players : /\ Purse(World, p) = IF p \in DOMAIN mem THEN mem[p] ELSE saved[p]
                                 /\ Purse(World, p) \in Purses
  BY IInvGives, WorldGives DEF Purse, Online

LEMMA LoginKeeps ==
    ASSUME IInv, NEW p \in Players, Login(p) PROVE IInv'
  <1> DEFINE m == With(mem, p, saved[p])
             z == [mem |-> m, saved |-> saved]
  <1>1. /\ p \notin DOMAIN mem /\ Become(z)
        /\ UNCHANGED <<offers, nextId, queries, results, ledger>>
    BY DEF Login, Become
  <1>2. /\ m = [x \in DOMAIN m |-> m[x]] /\ DOMAIN m = DOMAIN mem \cup {p} /\ m[p] = saved[p]
        /\ \A x \in DOMAIN mem : m[x] = mem[x]
    BY <1>1 DEF With
  <1> HIDE DEF m
  <1>3. z \in Worlds
    BY <1>2, MemFacts, WorldIs
  <1>4. \A x \in Players : Purse(z, x) = Purse(World, x)
    BY <1>1, <1>2, MemFacts DEF Purse, Online
  <1> QED BY <1>1, <1>3, <1>4, MoveKeeps

LEMMA LogoutKeeps ==
    ASSUME IInv, NEW p \in Players, Logout(p) PROVE IInv'
  <1> DEFINE m == Without(mem, {p})
             s == [saved EXCEPT ![p] = mem[p]]
             z == [mem |-> m, saved |-> s]
  <1>1. /\ p \in DOMAIN mem /\ Become(z)
        /\ UNCHANGED <<offers, nextId, queries, results, ledger>>
    BY DEF Logout, Become
  <1>2. /\ m = [x \in DOMAIN m |-> m[x]] /\ DOMAIN m = DOMAIN mem \ {p}
        /\ \A x \in DOMAIN m : m[x] = mem[x]
    BY DEF Without, Restrict
  <1>3. s \in [Players -> Purses] /\ \A x \in Players : s[x] = IF x = p THEN mem[p] ELSE saved[x]
    BY <1>1, MemFacts
  <1> HIDE DEF m, s
  <1>4. z \in Worlds
    BY <1>2, <1>3, MemFacts, WorldIs
  <1>5. \A x \in Players : Purse(z, x) = Purse(World, x)
    BY <1>1, <1>2, <1>3, MemFacts DEF Purse, Online
  <1> QED BY <1>1, <1>4, <1>5, MoveKeeps

LEMMA SaveKeeps ==
    ASSUME IInv, Save PROVE IInv'
  <1> DEFINE s == [p \in Players |-> Holding(p)]
             z == [mem |-> mem, saved |-> s]
  <1>1. Become(z) /\ UNCHANGED <<offers, nextId, queries, results, ledger>>
    BY DEF Save, Become
  <1>2. s \in [Players -> Purses] /\ \A x \in Players : s[x] = Purse(World, x)
    BY MemFacts DEF Holding
  <1> HIDE DEF s
  <1>3. z \in Worlds
    BY <1>2, MemFacts, WorldIs
  <1>4. \A x \in Players : Purse(z, x) = Purse(World, x)
    BY <1>2, MemFacts DEF Purse, Online
  <1> QED BY <1>1, <1>3, <1>4, MoveKeeps

\* A crash takes every player back to the row.
LEMMA CrashKeeps ==
    ASSUME IInv, Crash PROVE IInv'
  <1> DEFINE D == DOMAIN mem
             z == [mem |-> <<>>, saved |-> saved]
             gold == [p \in D |-> Money(saved[p]) - Money(mem[p])]
             goods == [p \in D |-> saved[p].goods - mem[p].goods]
             moreGold == [p \in Players |-> IF p \in D THEN gold[p] ELSE 0]
             moreGoods == [p \in Players |-> IF p \in D THEN goods[p] ELSE 0]
  <1>1. /\ Become(z) /\ offers' = offers /\ nextId' = nextId /\ queries' = 0 /\ results' = <<>>
        /\ Book(SumFunction(gold), SumFunction(goods))
    BY DEF Crash, Become
  <1>2. z \in Worlds
    BY MemFacts, WorldIs, Nothing
  <1>3. \A p \in Players : Purse(z, p) = saved[p] /\ saved[p] \in Purses
    BY MemFacts, Nothing DEF Purse, Online
  <1>4. D \in SUBSET Players
    BY MemFacts
  <1>5. \A p \in D : gold[p] \in Int /\ goods[p] \in Int
    BY MemFacts, PurseGives
  <1>6. Numbers(moreGold, Players) /\ Numbers(moreGoods, Players)
    <2> HIDE DEF gold, goods, D
    <2>1. \A p \in Players : moreGold[p] \in Int /\ moreGoods[p] \in Int
      BY <1>5
    <2> QED BY <2>1, Bounds DEF Numbers
  <1>7. ASSUME NEW p \in Players
        PROVE  /\ MoneyOf(z)[p] = MoneyOf(World)[p] + moreGold[p]
               /\ GoodsOf(z)[p] = GoodsOf(World)[p] + moreGoods[p]
    <2>1. /\ MoneyOf(z)[p] = Money(saved[p]) /\ GoodsOf(z)[p] = saved[p].goods
      BY <1>2, <1>3, HoldingNumbers
    <2>2. /\ MoneyOf(World)[p] = Money(Purse(World, p)) /\ GoodsOf(World)[p] = Purse(World, p).goods
      BY IInvGives, HoldingNumbers
    <2>3. Money(saved[p]) \in Nat /\ saved[p].goods \in Nat
      BY <1>3, PurseGives
    <2>4. CASE p \in D
      <3>1. Purse(World, p) = mem[p] /\ Money(mem[p]) \in Nat /\ mem[p].goods \in Nat
        BY <2>4, MemFacts, PurseGives
      <3>2. moreGold[p] = Money(saved[p]) - Money(mem[p]) /\ moreGoods[p] = saved[p].goods - mem[p].goods
        BY <2>4
      <3> QED BY <2>1, <2>2, <2>3, <3>1, <3>2
    <2>5. CASE p \notin D
      <3>1. Purse(World, p) = saved[p] /\ moreGold[p] = 0 /\ moreGoods[p] = 0
        BY <2>5, MemFacts
      <3> QED BY <2>1, <2>2, <2>3, <3>1
    <2> QED BY <2>4, <2>5
  <1>8. SumFunction(gold) = SumFunctionOnSet(moreGold, Players)
    <2>1. SumFunction(gold) = SumFunctionOnSet(gold, D)
      BY DEF SumFunction
    <2>2. \A p \in Players : moreGold[p] = IF p \in D THEN gold[p] ELSE 0
      OBVIOUS
    <2> HIDE DEF gold, D, moreGold
    <2> QED BY <1>4, <1>6, <2>1, <2>2, SumPad
  <1>9. SumFunction(goods) = SumFunctionOnSet(moreGoods, Players)
    <2>1. SumFunction(goods) = SumFunctionOnSet(goods, D)
      BY DEF SumFunction
    <2>2. \A p \in Players : moreGoods[p] = IF p \in D THEN goods[p] ELSE 0
      OBVIOUS
    <2> HIDE DEF goods, D, moreGoods
    <2> QED BY <1>4, <1>6, <2>1, <2>2, SumPad
  <1> HIDE DEF z, gold, goods, moreGold, moreGoods
  <1>10. /\ GoldIn(z) = GoldIn(World) + SumFunctionOnSet(moreGold, Players)
         /\ GoodsIn(z) = GoodsIn(World) + SumFunctionOnSet(moreGoods, Players)
    BY <1>6, <1>7, IInvGives, HoldingNumbers, SumPlus DEF GoldIn, GoodsIn
  <1> DEFINE dGold == SumFunction(gold)
             dGoods == SumFunction(goods)
  <1>11. dGold \in Int /\ dGoods \in Int
    BY <1>6, <1>8, <1>9, SumUnfold
  <1>12. /\ GoldIn(z) = GoldIn(World) + dGold /\ GoodsIn(z) = GoodsIn(World) + dGoods
         /\ Book(dGold, dGoods)
    BY <1>1, <1>8, <1>9, <1>10
  <1> HIDE DEF dGold, dGoods
  <1>13. /\ GoldIn(z) + GoldFor(offers) = GoldIn(World) + GoldFor(offers) + dGold
         /\ GoodsIn(z) + GoodsFor(offers) = GoodsIn(World) + GoodsFor(offers) + dGoods
    BY <1>11, <1>12, IInvGives
  <1>14. ledger' \in [gold : Int, goods : Int] /\ Conserves(z, offers, ledger')
    BY <1>2, <1>11, <1>12, <1>13, IInvGives, ConservesGives
  <1>15. /\ results' \in Seq(OfferSets) /\ \A k \in DOMAIN results' : Speaks(results'[k], offers, nextId')
         /\ queries' \in 0 .. MaxChecks
    BY <1>1, Nothing, Bounds
  <1>16. nextId' \in 1 .. MaxOffers + 1 /\ \A i \in DOMAIN offers : i < nextId'
    BY <1>1, IInvGives
  <1> QED BY <1>1, <1>2, <1>14, <1>15, <1>16, IInvGives, BecomeKeeps

LEMMA NextKeeps ==
    ASSUME IInv, [Next]_vars PROVE IInv'
  <1>1. CASE Operation
    <2>1. PICK p \in Players, n \in Amounts :
              \/ \E price \in Prices : CreateSell(p, n, price) \/ CreateBuy(p, n, price)
              \/ \E i \in DOMAIN offers : AcceptBuy(p, i, n) \/ AcceptSell(p, i, n)
      BY <1>1 DEF Operation
    <2> QED BY <2>1, CreateSellKeeps, CreateBuyKeeps, AcceptBuyKeeps, AcceptSellKeeps
  <1>2. CASE \E i \in DOMAIN offers : Cancel(i) \/ Expire(i)
    BY <1>2, CancelKeeps, ExpireKeeps
  <1>3. CASE CheckExpiredOffers \/ RunQuery \/ ProcessExpiredOffers
    BY <1>3, CheckExpiredOffersKeeps, RunQueryKeeps, ProcessExpiredOffersKeeps
  <1>4. CASE \E p \in Players : Login(p) \/ Logout(p)
    BY <1>4, LoginKeeps, LogoutKeeps
  <1>5. CASE Save \/ Crash
    BY <1>5, SaveKeeps, CrashKeeps
  <1>6. CASE UNCHANGED vars
    <2>1. /\ World' = World /\ offers' = offers /\ ledger' = ledger /\ nextId' = nextId
          /\ queries' = queries /\ results' = results /\ mem' = mem /\ saved' = saved
      BY <1>6 DEF vars, World
    <2> QED BY <2>1 DEF IInv, TypeOK
  <1> QED BY <1>1, <1>2, <1>3, <1>4, <1>5, <1>6 DEF Next

-----------------------------------------------------------------------------
(* What follows.                                                           *)

(***************************************************************************)
(* Whatever players do, whoever is online, and however late the results of *)
(* queries come: the books balance, and a result that still waits speaks   *)
(* of offers in the terms they have, so that a row that is moved is the    *)
(* row that the result means.                                              *)
(***************************************************************************)
THEOREM MarketInvariant == Spec => []IInv
  <1>1. Init => IInv
    BY InitGives
  <1>2. IInv /\ [Next]_vars => IInv'
    BY NextKeeps
  <1> QED BY <1>1, <1>2, PTL DEF Spec

(***************************************************************************)
(* Types: no purse is ever overdrawn, and no offer is kept for which       *)
(* nothing is left.                                                        *)
(***************************************************************************)
THEOREM MarketTypeCorrect == Spec => []TypeOK
  <1>1. IInv => TypeOK
    BY DEF IInv
  <1> QED BY <1>1, MarketInvariant, PTL

(***************************************************************************)
(* Conserved: gold and goods are neither lost nor made but for what the    *)
(* ledger names, for any number of players, offers and checks under way.   *)
(***************************************************************************)
THEOREM MarketConserves == Spec => []Conserved
  <1>1. IInv => Conserved
    BY ConservedIs DEF IInv
  <1> QED BY <1>1, MarketInvariant, PTL
=============================================================================
