------------------------- MODULE WindowDeckProofs -------------------------
(***************************************************************************)
(* What holds of the decks for any pool, windows, sizes and votes.         *)
(*                                                                         *)
(* The lists of a deck are computed by recursion over a list.  What such a *)
(* recursion returns is proved by induction, for which every set of        *)
(* numbers with a member has a least one (Inductive); that there is a      *)
(* function as the recursion asks is a lemma (Recursion), too.             *)
(***************************************************************************)
EXTENDS WindowDeck, FiniteSetTheorems, WellFoundedInduction, TLAPS

-----------------------------------------------------------------------------
(* Induction and recursion                                                 *)

LEMMA Least ==
  ASSUME NEW T \in SUBSET Nat, T # {}
  PROVE  \E x \in T : \A y \in T : x <= y
<1>1. PICK x \in T : \A y \in T : ~ (<<y, x>> \in OpToRel(<, Nat))
  BY NatLessThanWellFounded, WFMin, Zenon
<1>2. \A y \in T : ~ (y < x)
  BY <1>1 DEF OpToRel
<1> QED
  BY <1>2

LEMMA Inductive ==
  ASSUME NEW T \in SUBSET Nat, 0 \in T, \A n \in T : n + 1 \in T
  PROVE  \A n \in Nat : n \in T
<1> SUFFICES ASSUME Nat \ T # {} PROVE FALSE
  OBVIOUS
<1>1. PICK x \in Nat \ T : \A y \in Nat \ T : x <= y
  BY Least
<1>2. x - 1 \in Nat /\ x - 1 \notin Nat \ T
  BY <1>1
<1> QED
  BY <1>2, <1>1

\* The same for the numbers up to a bound.
LEMMA InductiveTo ==
  ASSUME NEW N \in Nat, NEW T, 0 \in T, \A n \in 0 .. N - 1 : n \in T => n + 1 \in T
  PROVE  \A n \in 0 .. N : n \in T
<1> DEFINE S == {n \in Nat : n <= N => n \in T}
<1>1. 0 \in S /\ \A n \in S : n + 1 \in S
  OBVIOUS
<1>2. \A n \in Nat : n \in S
  <2> HIDE DEF S
  <2>1. S \in SUBSET Nat
    BY DEF S
  <2> QED
    BY <1>1, <2>1, Inductive
<1> QED
  BY <1>2

\* f is what starts with b and goes on by the steps G.
Recurses(f, T, b, N, G) ==
  /\ f \in [0 .. N -> T] /\ f[0] = b
  /\ \A i \in 1 .. N : f[i] = G[<<f[i - 1], i>>]

\* There is a function as a recursion asks for, if its steps stay in a set.
LEMMA Recursion ==
  ASSUME NEW T, NEW b \in T, NEW N \in Nat, NEW G \in [T \X (1 .. N) -> T]
  PROVE  \E f : Recurses(f, T, b, N, G)
<1> DEFINE Good(n) == \E f : Recurses(f, T, b, n, G)
           S == {n \in 0 .. N : Good(n)}
<1>1. Good(0)
  <2>1. [i \in 0 .. 0 |-> b] \in [0 .. 0 -> T]
    OBVIOUS
  <2>2. [i \in 0 .. 0 |-> b][0] = b
    OBVIOUS
  <2>3. \A i \in 1 .. 0 : FALSE
    OBVIOUS
  <2> QED
    BY <2>1, <2>2, <2>3 DEF Recurses
<1>2. ASSUME NEW n \in 0 .. N - 1, Good(n) PROVE Good(n + 1)
  <2>1. PICK f \in [0 .. n -> T] : f[0] = b /\ \A i \in 1 .. n : f[i] = G[<<f[i - 1], i>>]
    BY <1>2 DEF Recurses
  <2> DEFINE g == [i \in 0 .. n + 1 |-> IF i <= n THEN f[i] ELSE G[<<f[n], n + 1>>]]
  <2>2. f[n] \in T /\ n + 1 \in 1 .. N
    OBVIOUS
  <2>3. G[<<f[n], n + 1>>] \in T
    BY <2>2
  <2>4. g \in [0 .. n + 1 -> T]
    BY <2>3
  <2>5. /\ \A i \in 0 .. n : g[i] = f[i]
        /\ g[n + 1] = G[<<f[n], n + 1>>]
    BY <2>2
  <2>6. \A i \in 1 .. n + 1 : i - 1 \in 0 .. n /\ (i \in 1 .. n \/ i = n + 1)
    OBVIOUS
  <2> HIDE DEF g
  <2>7. g[0] = b
    BY <2>1, <2>5
  <2>8. ASSUME NEW i \in 1 .. n + 1 PROVE g[i] = G[<<g[i - 1], i>>]
    <3>1. g[i - 1] = f[i - 1]
      BY <2>5, <2>6
    <3>2. CASE i \in 1 .. n
      BY <2>1, <2>5, <3>1, <3>2
    <3>3. CASE i = n + 1
      BY <2>5, <3>1, <3>3
    <3> QED
      BY <2>6, <3>2, <3>3
  <2> QED
    BY <2>4, <2>7, <2>8 DEF Recurses
<1> HIDE DEF Good
<1>3. 0 \in S /\ \A n \in 0 .. N - 1 : n \in S => n + 1 \in S
  BY <1>1, <1>2
<1>4. N \in S
  <2> HIDE DEF S
  <2> QED
    BY <1>3, InductiveTo
<1> QED
  BY <1>4 DEF Good

-----------------------------------------------------------------------------
(* Lists                                                                   *)

LEMMA OnlyEquation ==
  ASSUME NEW S, NEW list \in Seq(S), NEW set
  PROVE  \E only :
           /\ only[0] = <<>>
           /\ \A n \in 1 .. Len(list) :
                only[n] = IF list[n] \in set THEN Append(only[n - 1], list[n]) ELSE only[n - 1]
           /\ Only(list, set) = only[Len(list)]
<1> DEFINE G == [p \in Seq(S) \X (1 .. Len(list)) |->
                  IF list[p[2]] \in set THEN Append(p[1], list[p[2]]) ELSE p[1]]
<1>0. Len(list) \in Nat /\ <<>> \in Seq(S)
  OBVIOUS
<1>1. /\ G \in [Seq(S) \X (1 .. Len(list)) -> Seq(S)]
      /\ \A p \in Seq(S), n \in 1 .. Len(list) :
           G[<<p, n>>] = IF list[n] \in set THEN Append(p, list[n]) ELSE p
  OBVIOUS
<1> HIDE DEF G
<1>2. PICK f : Recurses(f, Seq(S), <<>>, Len(list), G)
  BY <1>0, <1>1, Recursion, Zenon
<1>3. \A i \in 1 .. Len(list) :
        f[i] = IF list[i] \in set THEN Append(f[i - 1], list[i]) ELSE f[i - 1]
  <2>1. \A i \in 1 .. Len(list) : f[i - 1] \in Seq(S)
    <3>1. \A i \in 1 .. Len(list) : i - 1 \in 0 .. Len(list)
      BY <1>0
    <3>2. f \in [0 .. Len(list) -> Seq(S)]
      BY <1>2 DEF Recurses
    <3> QED
      BY <3>1, <3>2
  <2> QED
    BY <1>1, <1>2, <2>1 DEF Recurses
<1> DEFINE R(g) == [n \in 0 .. Len(list) |->
                     IF n = 0 THEN <<>>
                     ELSE IF list[n] \in set THEN Append(g[n - 1], list[n]) ELSE g[n - 1]]
           only == CHOOSE g : g = R(g)
<1>4. f = R(f)
  <2>1. \A n \in 0 .. Len(list) : n = 0 \/ n \in 1 .. Len(list)
    BY <1>0
  <2> QED
    BY <1>2, <1>3, <2>1 DEF Recurses
<1>5. only = R(only)
  BY <1>4
<1>6. Only(list, set) = only[Len(list)]
  BY DEF Only
<1> HIDE DEF only
<1>7. only[0] = <<>>
  BY <1>0, <1>5
<1>8. \A n \in 1 .. Len(list) :
        only[n] = IF list[n] \in set THEN Append(only[n - 1], list[n]) ELSE only[n - 1]
  <2>1. \A n \in 1 .. Len(list) : n \in 0 .. Len(list) /\ n # 0
    BY <1>0
  <2> QED
    BY <1>5, <2>1
<1> QED
  BY <1>6, <1>7, <1>8

\* some are the list's members at increasing places, and all that are in the set.
Sampled(some, list, set) ==
  \E at \in [1 .. Len(some) -> 1 .. Len(list)] :
    /\ \A i, j \in 1 .. Len(some) : i < j => at[i] < at[j]
    /\ \A i \in 1 .. Len(some) : some[i] = list[at[i]]
    /\ \A j \in 1 .. Len(list) :
         list[j] \in set <=> \E i \in 1 .. Len(some) : at[i] = j

\* Only keeps the order.
LEMMA OnlyPlaces ==
  ASSUME NEW S, NEW list \in Seq(S), NEW set
  PROVE  Only(list, set) \in Seq(S) /\ Sampled(Only(list, set), list, set)
<1>1. PICK only :
        /\ only[0] = <<>>
        /\ \A n \in 1 .. Len(list) :
             only[n] = IF list[n] \in set THEN Append(only[n - 1], list[n]) ELSE only[n - 1]
        /\ Only(list, set) = only[Len(list)]
  BY OnlyEquation
<1> DEFINE Good(n) ==
      /\ only[n] \in Seq(S)
      /\ \E at \in [1 .. Len(only[n]) -> 1 .. n] :
           /\ \A i, j \in 1 .. Len(only[n]) : i < j => at[i] < at[j]
           /\ \A i \in 1 .. Len(only[n]) : only[n][i] = list[at[i]]
           /\ \A j \in 1 .. n : list[j] \in set <=> \E i \in 1 .. Len(only[n]) : at[i] = j
<1>2. Good(0)
  <2>1. only[0] \in Seq(S) /\ Len(only[0]) = 0
    BY <1>1
  <2>2. <<>> \in [1 .. 0 -> 1 .. 0]
    OBVIOUS
  <2> QED
    BY <2>1, <2>2
<1>3. ASSUME NEW n \in 0 .. Len(list) - 1, Good(n) PROVE Good(n + 1)
  <2> DEFINE L == Len(only[n])
  <2>1. PICK at \in [1 .. L -> 1 .. n] :
           /\ \A i, j \in 1 .. L : i < j => at[i] < at[j]
           /\ \A i \in 1 .. L : only[n][i] = list[at[i]]
           /\ \A j \in 1 .. n : list[j] \in set <=> \E i \in 1 .. L : at[i] = j
    BY <1>3
  <2>2. n + 1 \in 1 .. Len(list) /\ list[n + 1] \in S /\ L \in Nat /\ only[n] \in Seq(S)
    BY <1>3
  <2>5. only[n + 1] = IF list[n + 1] \in set THEN Append(only[n], list[n + 1]) ELSE only[n]
    <3>1. n + 1 - 1 = n
      OBVIOUS
    <3> QED
      BY <1>1, <2>2, <3>1
  <2>3. CASE list[n + 1] \in set
    <3>1. only[n + 1] = Append(only[n], list[n + 1])
      BY <2>3, <2>5
    <3>2. /\ only[n + 1] \in Seq(S) /\ Len(only[n + 1]) = L + 1
          /\ \A i \in 1 .. L : only[n + 1][i] = only[n][i]
          /\ only[n + 1][L + 1] = list[n + 1]
      BY <2>2, <3>1
    <3> HIDE DEF L
    <3> DEFINE next == [i \in 1 .. L + 1 |-> IF i <= L THEN at[i] ELSE n + 1]
    <3>3. next \in [1 .. L + 1 -> 1 .. n + 1]
      BY <2>2
    <3>4. \A i, j \in 1 .. L + 1 : i < j => next[i] < next[j]
      <4> SUFFICES ASSUME NEW i \in 1 .. L + 1, NEW j \in 1 .. L + 1, i < j
                   PROVE  next[i] < next[j]
        OBVIOUS
      <4>1. i \in 1 .. L /\ next[i] = at[i] /\ at[i] \in 1 .. n
        BY <2>2
      <4>2. CASE j = L + 1
        BY <2>2, <4>1, <4>2
      <4>3. CASE j # L + 1
        BY <2>1, <2>2, <4>1, <4>3
      <4> QED
        BY <4>2, <4>3
    <3>5. \A i \in 1 .. L + 1 : only[n + 1][i] = list[next[i]]
      BY <2>1, <2>2, <3>2
    <3>6. \A j \in 1 .. n + 1 : list[j] \in set <=> \E i \in 1 .. L + 1 : next[i] = j
      <4> SUFFICES ASSUME NEW j \in 1 .. n + 1
                   PROVE  list[j] \in set <=> \E i \in 1 .. L + 1 : next[i] = j
        OBVIOUS
      <4>0. /\ next[L + 1] = n + 1 /\ L + 1 \in 1 .. L + 1
            /\ \A i \in 1 .. L : i \in 1 .. L + 1 /\ next[i] = at[i] /\ at[i] # n + 1
            /\ \A i \in 1 .. L + 1 : i = L + 1 \/ i \in 1 .. L
        BY <2>2
      <4> HIDE DEF next
      <4>1. CASE j = n + 1
        BY <2>3, <4>0, <4>1
      <4>2. CASE j # n + 1
        <5>1. j \in 1 .. n
          BY <2>2, <4>2
        <5> QED
          BY <2>1, <4>0, <4>2, <5>1
      <4> QED
        BY <4>1, <4>2
    <3> HIDE DEF next
    <3> USE DEF L
    <3> QED
      BY <3>2, <3>3, <3>4, <3>5, <3>6, SMTT(30)
  <2>4. CASE list[n + 1] \notin set
    <3>1. only[n + 1] = only[n]
      BY <2>4, <2>5
    <3>2. at \in [1 .. L -> 1 .. n + 1]
      BY <2>1, <2>2
    <3>3. \A i \in 1 .. L : at[i] # n + 1
      BY <2>2
    <3>4. \A j \in 1 .. n + 1 : list[j] \in set <=> \E i \in 1 .. L : at[i] = j
      BY <2>1, <2>2, <2>4, <3>3
    <3> QED
      BY <2>1, <2>2, <3>1, <3>2, <3>4
  <2> QED
    BY <2>3, <2>4
<1> HIDE DEF Good
<1>5. Len(list) \in Nat
  OBVIOUS
<1> DEFINE T == {n \in 0 .. Len(list) : Good(n)}
<1>4. 0 \in T /\ \A n \in 0 .. Len(list) - 1 : n \in T => n + 1 \in T
  BY <1>2, <1>3, <1>5
<1>6. Len(list) \in T
  <2> HIDE DEF T
  <2>1. \A n \in 0 .. Len(list) : n \in T
    BY <1>4, <1>5, InductiveTo
  <2> QED
    BY <1>5, <2>1
<1>7. /\ Only(list, set) = only[Len(list)]
      /\ Good(Len(list))
  BY <1>1, <1>6
<1> QED
  BY <1>7 DEF Good, Sampled

LEMMA OnlyRange ==
  ASSUME NEW S, NEW list \in Seq(S), NEW set
  PROVE  /\ Only(list, set) \in Seq(S)
         /\ Range(Only(list, set)) = Range(list) \cap set
         /\ \A i \in DOMAIN Only(list, set) : Only(list, set)[i] \in Range(list) \cap set
<1> DEFINE some == Only(list, set)
<1>0. some \in Seq(S) /\ Sampled(some, list, set)
  BY OnlyPlaces
<1> HIDE DEF some
<1>1. PICK at \in [1 .. Len(some) -> 1 .. Len(list)] :
        /\ \A i, j \in 1 .. Len(some) : i < j => at[i] < at[j]
        /\ \A i \in 1 .. Len(some) : some[i] = list[at[i]]
        /\ \A j \in 1 .. Len(list) :
             list[j] \in set <=> \E i \in 1 .. Len(some) : at[i] = j
  BY <1>0 DEF Sampled
<1>2. some \in Seq(S)
  BY <1>0
<1>3. DOMAIN some = 1 .. Len(some) /\ DOMAIN list = 1 .. Len(list)
  BY <1>2
<1>4. \A i \in 1 .. Len(some) : some[i] \in Range(list) \cap set
  BY <1>1, <1>3 DEF Range
<1>5. \A x \in Range(list) \cap set : x \in Range(some)
  BY <1>1, <1>3 DEF Range
<1>6. Range(some) = Range(list) \cap set
  BY <1>3, <1>4, <1>5 DEF Range
<1> QED
  BY <1>2, <1>3, <1>4, <1>6 DEF some

LEMMA OnlyInjective ==
  ASSUME NEW S, NEW list \in Seq(S), NEW set, IsInjective(list)
  PROVE  IsInjective(Only(list, set))
<1> DEFINE some == Only(list, set)
<1>0. some \in Seq(S) /\ Sampled(some, list, set)
  BY OnlyPlaces
<1> HIDE DEF some
<1>1. PICK at \in [1 .. Len(some) -> 1 .. Len(list)] :
        /\ \A i, j \in 1 .. Len(some) : i < j => at[i] < at[j]
        /\ \A i \in 1 .. Len(some) : some[i] = list[at[i]]
  BY <1>0 DEF Sampled
<1>2. some \in Seq(S)
  BY <1>0
<1>3. DOMAIN some = 1 .. Len(some) /\ DOMAIN list = 1 .. Len(list) /\ Len(some) \in Nat
  BY <1>2
<1>4. ASSUME NEW i \in 1 .. Len(some), NEW j \in 1 .. Len(some), some[i] = some[j]
      PROVE  i = j
  <2>1. at[i] = at[j]
    BY <1>1, <1>3, <1>4 DEF IsInjective
  <2>2. ~ (i < j) /\ ~ (j < i)
    BY <1>1, <2>1
  <2> QED
    BY <1>3, <2>2
<1> QED
  BY <1>3, <1>4 DEF some, IsInjective

\* No story is on two of the cards.
Distinct(cards) ==
  \A i, j \in DOMAIN cards : cards[i].story = cards[j].story => i = j

LEMMA OnlyDistinct ==
  ASSUME NEW S, NEW list \in Seq(S), NEW set, Distinct(list)
  PROVE  Distinct(Only(list, set))
<1> DEFINE some == Only(list, set)
<1>0. some \in Seq(S) /\ Sampled(some, list, set)
  BY OnlyPlaces
<1> HIDE DEF some
<1>1. PICK at \in [1 .. Len(some) -> 1 .. Len(list)] :
        /\ \A i, j \in 1 .. Len(some) : i < j => at[i] < at[j]
        /\ \A i \in 1 .. Len(some) : some[i] = list[at[i]]
  BY <1>0 DEF Sampled
<1>2. some \in Seq(S)
  BY <1>0
<1>3. DOMAIN some = 1 .. Len(some) /\ DOMAIN list = 1 .. Len(list) /\ Len(some) \in Nat
  BY <1>2
<1>4. ASSUME NEW i \in 1 .. Len(some), NEW j \in 1 .. Len(some), some[i].story = some[j].story
      PROVE  i = j
  <2>1. at[i] = at[j]
    BY <1>1, <1>3, <1>4 DEF Distinct
  <2>2. ~ (i < j) /\ ~ (j < i)
    BY <1>1, <2>1
  <2> QED
    BY <1>3, <2>2
<1> QED
  BY <1>3, <1>4 DEF some, Distinct

LEMMA MinOfTwo ==
  ASSUME NEW a \in Int, NEW b \in Int
  PROVE  Min({a, b}) = IF a <= b THEN a ELSE b
<1> DEFINE smaller == IF a <= b THEN a ELSE b
<1>1. smaller \in {a, b} /\ \A y \in {a, b} : smaller =< y
  OBVIOUS
<1>2. \A n \in {a, b} : (\A y \in {a, b} : n =< y) => n = smaller
  BY <1>1
<1> HIDE DEF smaller
<1>3. Min({a, b}) = smaller
  BY <1>1, <1>2 DEF Min
<1> QED
  BY <1>3 DEF smaller

LEMMA FirstIs ==
  ASSUME NEW S, NEW list \in Seq(S), NEW n \in Nat
  PROVE  /\ First(list, n) \in Seq(S)
         /\ Len(First(list, n)) = IF n <= Len(list) THEN n ELSE Len(list)
         /\ DOMAIN First(list, n) = 1 .. Len(First(list, n))
         /\ \A i \in DOMAIN First(list, n) : i \in DOMAIN list /\ First(list, n)[i] = list[i]
<1>1. Len(list) \in Nat
  OBVIOUS
<1>2. Min({n, Len(list)}) = IF n <= Len(list) THEN n ELSE Len(list)
  BY <1>1, MinOfTwo
<1> DEFINE m == IF n <= Len(list) THEN n ELSE Len(list)
<1>3. First(list, n) = SubSeq(list, 1, m)
  BY <1>2 DEF First
<1>6. m \in 0 .. Len(list)
  BY <1>1
<1> HIDE DEF m
<1>4. /\ SubSeq(list, 1, m) \in Seq(S) /\ Len(SubSeq(list, 1, m)) = m
      /\ \A i \in 1 .. m : SubSeq(list, 1, m)[i] = list[i]
  BY <1>6
<1>5. DOMAIN First(list, n) = 1 .. m /\ DOMAIN list = 1 .. Len(list)
  BY <1>3, <1>4
<1> QED
  BY <1>3, <1>4, <1>5, <1>6 DEF m

LEMMA FirstRange ==
  ASSUME NEW S, NEW list \in Seq(S), NEW n \in Nat
  PROVE  Range(First(list, n)) \subseteq Range(list)
BY FirstIs DEF Range

LEMMA FirstInjective ==
  ASSUME NEW S, NEW list \in Seq(S), NEW n \in Nat, IsInjective(list)
  PROVE  IsInjective(First(list, n))
BY FirstIs DEF IsInjective

LEMMA FirstDistinct ==
  ASSUME NEW S, NEW list \in Seq(S), NEW n \in Nat, Distinct(list)
  PROVE  Distinct(First(list, n))
BY FirstIs DEF Distinct

LEMMA PlaceIs ==
  ASSUME NEW S, NEW list \in Seq(S), NEW x \in Range(list)
  PROVE  Place(list, x) \in 1 .. Len(list) /\ list[Place(list, x)] = x
BY DEF Place, Range

\* Cards that repeat no story come to as many stories.
LEMMA DistinctCounts ==
  ASSUME NEW S, NEW cards \in Seq(S), Distinct(cards)
  PROVE  Cardinality(StoriesOf(cards)) = Len(cards)
<1> DEFINE F == [i \in 1 .. Len(cards) |-> cards[i].story]
<1>1. Len(cards) \in Nat /\ DOMAIN cards = 1 .. Len(cards)
  OBVIOUS
<1>2. F \in Bijection(1 .. Len(cards), StoriesOf(cards))
  <2>1. F \in [1 .. Len(cards) -> StoriesOf(cards)]
    BY <1>1 DEF StoriesOf, Range
  <2>2. \A i, j \in 1 .. Len(cards) : F[i] = F[j] => i = j
    BY <1>1 DEF Distinct
  <2>3. \A s \in StoriesOf(cards) : \E i \in 1 .. Len(cards) : F[i] = s
    BY <1>1 DEF StoriesOf, Range
  <2> HIDE DEF F
  <2> QED
    BY <2>1, <2>2, <2>3 DEF Bijection, Injection, Surjection, IsInjective
<1>3. IsFiniteSet(1 .. Len(cards)) /\ Cardinality(1 .. Len(cards)) = Len(cards)
  BY <1>1, FS_Interval, SMTT(30)
<1> HIDE DEF F
<1>4. ExistsBijection(1 .. Len(cards), StoriesOf(cards))
  BY <1>2 DEF ExistsBijection
<1> QED
  BY <1>3, <1>4, FS_Bijection


\* A function on the first numbers is a list.
LEMMA ListIs ==
  ASSUME NEW S, NEW n \in Nat, NEW f \in [1 .. n -> S]
  PROVE  f \in Seq(S) /\ Len(f) = n /\ DOMAIN f = 1 .. n
OBVIOUS

-----------------------------------------------------------------------------
(* Picking                                                                 *)

Badges == {"none", "unsure", "discover", "interest"}
CardSet == [story : Stories, of : Stories, badge : Badges, arm : Int]

\* Cards as they are picked, for stories of a set.
Picked(cards, from) ==
  /\ cards \in Seq(CardSet) /\ Distinct(cards)
  /\ \A i \in DOMAIN cards :
       cards[i].story \in from /\ cards[i].of = cards[i].story /\ cards[i].arm = 0

LEMMA CardIs ==
  ASSUME NEW s \in Stories, NEW b \in Badges
  PROVE  LET c == [Card(s) EXCEPT !.badge = b]
         IN  /\ Card(s) \in CardSet /\ Card(s).story = s /\ Card(s).of = s /\ Card(s).arm = 0
             /\ c \in CardSet /\ c.story = s /\ c.of = s /\ c.arm = 0 /\ c.badge = b
BY DEF Card, CardSet, Badges

LEMMA PickedWiden ==
  ASSUME NEW cards, NEW A, NEW B, Picked(cards, A), A \subseteq B
  PROVE  Picked(cards, B)
BY DEF Picked

LEMMA PickedStories ==
  ASSUME NEW cards, NEW A, Picked(cards, A)
  PROVE  StoriesOf(cards) \subseteq A
BY DEF Picked, StoriesOf, Range

LEMMA CardsPicked ==
  ASSUME NEW list \in Seq(Stories), IsInjective(list)
  PROVE  Picked(Cards(list), Range(list))
<1> DEFINE cards == Cards(list)
<1>1. Len(list) \in Nat /\ DOMAIN list = 1 .. Len(list) /\ \A i \in 1 .. Len(list) : list[i] \in Stories
  OBVIOUS
<1>2. cards = [i \in 1 .. Len(list) |-> Card(list[i])]
  BY <1>1 DEF Cards
<1>3. \A i \in 1 .. Len(list) : /\ Card(list[i]) \in CardSet /\ Card(list[i]).story = list[i]
                                /\ Card(list[i]).of = list[i] /\ Card(list[i]).arm = 0
  BY <1>1, CardIs DEF Badges
<1> HIDE DEF cards
<1>4. cards \in [1 .. Len(list) -> CardSet] /\ \A i \in 1 .. Len(list) : cards[i] = Card(list[i])
  BY <1>2, <1>3
<1>5. cards \in Seq(CardSet) /\ DOMAIN cards = 1 .. Len(list)
  BY <1>1, <1>4, ListIs
<1>6. Distinct(cards)
  BY <1>1, <1>3, <1>4, <1>5 DEF Distinct, IsInjective
<1> QED
  BY <1>1, <1>3, <1>4, <1>5, <1>6 DEF Picked, Range, cards

LEMMA BadgedPicked ==
  ASSUME NEW n \in Nat, NEW story \in [1 .. n -> Stories], NEW b \in Badges, NEW from,
         \A i \in 1 .. n : story[i] \in from, IsInjective(story)
  PROVE  Picked([i \in 1 .. n |-> [Card(story[i]) EXCEPT !.badge = b]], from)
<1> DEFINE cards == [i \in 1 .. n |-> [Card(story[i]) EXCEPT !.badge = b]]
           card(i) == [Card(story[i]) EXCEPT !.badge = b]
<1>1. \A i \in 1 .. n : /\ card(i) \in CardSet /\ card(i).story = story[i]
                        /\ card(i).of = story[i] /\ card(i).arm = 0
  BY CardIs
<1>2. \A i \in 1 .. n : cards[i] = card(i)
  OBVIOUS
<1> HIDE DEF card
<1>3. cards \in [1 .. n -> CardSet]
  BY <1>1 DEF card
<1> HIDE DEF cards
<1>4. cards \in Seq(CardSet) /\ DOMAIN cards = 1 .. n
  BY <1>3, ListIs
<1>5. Distinct(cards)
  BY <1>1, <1>2, <1>4 DEF Distinct, IsInjective
<1>6. Picked(cards, from)
  BY <1>1, <1>2, <1>4, <1>5 DEF Picked
<1> QED
  BY <1>6 DEF cards

LEMMA ConcatPicked ==
  ASSUME NEW a, NEW b, NEW A, NEW B, Picked(a, A), Picked(b, B), StoriesOf(a) \cap B = {}
  PROVE  Picked(a \o b, A \cup B)
<1>1. a \in Seq(CardSet) /\ b \in Seq(CardSet)
  BY DEF Picked
<1>2. /\ a \o b \in Seq(CardSet) /\ Len(a) \in Nat /\ Len(b) \in Nat
      /\ DOMAIN a = 1 .. Len(a) /\ DOMAIN b = 1 .. Len(b)
      /\ DOMAIN (a \o b) = 1 .. Len(a) + Len(b)
      /\ \A i \in 1 .. Len(a) + Len(b) : (a \o b)[i] = IF i <= Len(a) THEN a[i] ELSE b[i - Len(a)]
  BY <1>1
<1>3. \A i \in 1 .. Len(a) + Len(b) :
        \/ i <= Len(a) /\ i \in DOMAIN a
        \/ ~ (i <= Len(a)) /\ i - Len(a) \in DOMAIN b
  BY <1>2
<1>4. \A i \in DOMAIN a : a[i].story \in StoriesOf(a)
  BY DEF StoriesOf, Range
<1>5. \A i \in DOMAIN a, j \in DOMAIN b : a[i].story # b[j].story
  BY <1>4 DEF Picked
<1> DEFINE c == a \o b
<1> HIDE DEF c
<1>6. ASSUME NEW i \in DOMAIN c, NEW j \in DOMAIN c, c[i].story = c[j].story
      PROVE  i = j
  <2>1. i \in 1 .. Len(a) + Len(b) /\ j \in 1 .. Len(a) + Len(b)
    BY <1>2 DEF c
  <2>2. CASE i <= Len(a) /\ j <= Len(a)
    <3>1. i \in DOMAIN a /\ j \in DOMAIN a /\ c[i] = a[i] /\ c[j] = a[j]
      BY <1>2, <2>1, <2>2 DEF c
    <3> QED
      BY <1>6, <3>1 DEF Picked, Distinct
  <2>3. CASE ~ (i <= Len(a)) /\ ~ (j <= Len(a))
    <3>1. /\ i - Len(a) \in DOMAIN b /\ j - Len(a) \in DOMAIN b
          /\ c[i] = b[i - Len(a)] /\ c[j] = b[j - Len(a)]
      BY <1>2, <1>3, <2>1, <2>3 DEF c
    <3>2. i - Len(a) = j - Len(a)
      BY <1>6, <3>1 DEF Picked, Distinct
    <3> QED
      BY <1>2, <2>1, <3>2
  <2>4. CASE i <= Len(a) /\ ~ (j <= Len(a))
    BY <1>2, <1>3, <1>5, <1>6, <2>1, <2>4 DEF c
  <2>5. CASE ~ (i <= Len(a)) /\ j <= Len(a)
    BY <1>2, <1>3, <1>5, <1>6, <2>1, <2>5 DEF c
  <2> QED
    BY <2>2, <2>3, <2>4, <2>5
<1>7. \A i \in DOMAIN c : c[i].story \in A \cup B /\ c[i].of = c[i].story /\ c[i].arm = 0
  <2> SUFFICES ASSUME NEW i \in DOMAIN c
               PROVE  c[i].story \in A \cup B /\ c[i].of = c[i].story /\ c[i].arm = 0
    OBVIOUS
  <2>1. \/ i \in DOMAIN a /\ c[i] = a[i]
        \/ i - Len(a) \in DOMAIN b /\ c[i] = b[i - Len(a)]
    BY <1>2, <1>3 DEF c
  <2> QED
    BY <2>1 DEF Picked
<1>8. c \in Seq(CardSet)
  BY <1>2 DEF c
<1> QED
  BY <1>6, <1>7, <1>8 DEF Picked, Distinct, c

LEMMA PoolIs ==
  ASSUME NEW p \in Pools
  PROVE  /\ p.ranked \in Seq(Stories) /\ IsInjective(p.ranked)
         /\ p.entropy \in Seq(Stories) /\ IsInjective(p.entropy)
         /\ p.gravity \in Seq(Stories) /\ IsInjective(p.gravity)
         /\ p.arms \in Seq(Seq(Stories)) /\ p.age \in [Stories -> Int]
         /\ p.votes \in [Stories -> Actions] /\ p.hn \in SUBSET Stories /\ Range(p.gravity) = p.hn
         /\ p.canonical \in [Stories -> Stories \cup {NoStory}]
         /\ p.interest \in [Stories -> Nat]
         /\ \A s \in p.hn : p.canonical[s] \in p.hn \cup {NoStory}
BY DeckAssumption DEF Pool, Proper

\* What is left of an order is one.
LEMMA OnlyOrder ==
  ASSUME NEW list \in Seq(Stories), IsInjective(list), NEW set
  PROVE  /\ Only(list, set) \in Seq(Stories) /\ IsInjective(Only(list, set))
         /\ Range(Only(list, set)) \subseteq Range(list)
         /\ Range(Only(list, set)) \subseteq set
         /\ Range(Only(list, set)) \subseteq Stories
<1>1. Only(list, set) \in Seq(Stories) /\ Range(Only(list, set)) = Range(list) \cap set
  BY OnlyRange
<1>2. Range(list) \subseteq Stories
  BY DEF Range
<1>3. IsInjective(Only(list, set))
  BY OnlyInjective
<1> QED
  BY <1>1, <1>2, <1>3

LEMMA CandidatesIs ==
  ASSUME pool \in Pools, NEW w
  PROVE  /\ Candidates(w) \in Seq(Stories) /\ IsInjective(Candidates(w))
         /\ Range(Candidates(w)) \subseteq Range(pool.ranked)
         /\ \A s \in Range(Candidates(w)) : s \in Stories /\ InWindow(s, w, clock)
<1>1. pool.ranked \in Seq(Stories) /\ IsInjective(pool.ranked)
  BY PoolIs
<1> DEFINE set == {s \in Stories \ Voted(feedback) : InWindow(s, w, clock)}
<1>2. Candidates(w) = Only(pool.ranked, set) /\ \A s \in set : s \in Stories /\ InWindow(s, w, clock)
  BY DEF Candidates
<1> HIDE DEF set
<1> QED
  BY <1>1, <1>2, OnlyOrder

LEMMA RecommendedIs ==
  ASSUME pool \in Pools, NEW w
  PROVE  /\ Recommended(w) \in Seq(Stories) /\ IsInjective(Recommended(w))
         /\ Range(Recommended(w)) \subseteq Range(Candidates(w))
<1>1. Candidates(w) \in Seq(Stories) /\ IsInjective(Candidates(w))
  BY CandidatesIs
<1>2. PICK tops : Recommended(w) = Only(Candidates(w), tops)
  BY DEF Recommended
<1> QED
  BY <1>1, <1>2, OnlyOrder

LEMMA Sizes ==
  /\ ViewSize \in Nat /\ PerBadge \in Nat /\ ViewSize * Margin \in Nat /\ PerBadge * Margin \in Nat
  /\ ViewSize - 1 \in Nat /\ Horizon \in Nat /\ MaxTime \in Nat
BY DeckAssumption

LEMMA PopularIs ==
  ASSUME pool \in Pools, NEW w
  PROVE  /\ Popular(w) \in Seq(Stories) /\ IsInjective(Popular(w))
         /\ Range(Popular(w)) \subseteq Range(Candidates(w))
<1> DEFINE all == Only(pool.gravity, Range(Candidates(w)))
<1>1. pool.gravity \in Seq(Stories) /\ IsInjective(pool.gravity)
  BY PoolIs
<1>2. all \in Seq(Stories) /\ IsInjective(all) /\ Range(all) \subseteq Range(Candidates(w))
  BY <1>1, OnlyOrder
<1> HIDE DEF all
<1>3. Popular(w) = First(all, ViewSize * Margin)
  BY DEF Popular, all
<1> QED
  BY <1>2, <1>3, Sizes, FirstIs, FirstRange, FirstInjective

LEMMA PicksPicked ==
  ASSUME NEW list \in Seq(Stories), IsInjective(list), NEW taken, NEW badge \in Badges
  PROVE  Picked(Picks(list, taken, badge), Range(list) \ taken)
<1> DEFINE fresh == {s \in Stories \ taken : ~Matches(s)}
           some == Only(list, fresh)
           free == First(some, PerBadge * Margin)
<1>1. some \in Seq(Stories) /\ IsInjective(some) /\ Range(some) \subseteq Range(list) \cap fresh
  BY OnlyOrder
<1>2. fresh \cap taken = {}
  OBVIOUS
<1> HIDE DEF fresh, some
<1>3. free \in Seq(Stories) /\ IsInjective(free) /\ Range(free) \subseteq Range(some)
  BY <1>1, Sizes, FirstIs, FirstInjective, FirstRange, Zenon
<1>4. Picks(list, taken, badge) = [i \in DOMAIN free |-> [Card(free[i]) EXCEPT !.badge = badge]]
  BY DEF Picks, some, fresh
<1> HIDE DEF free
<1>5. Len(free) \in Nat /\ DOMAIN free = 1 .. Len(free) /\ free \in [1 .. Len(free) -> Stories]
  BY <1>3
<1>6. \A i \in 1 .. Len(free) : free[i] \in Range(list) \ taken
  BY <1>1, <1>2, <1>3, <1>5 DEF Range
<1> QED
  BY <1>3, <1>4, <1>5, <1>6, BadgedPicked, ZenonT(30)

\* In a strict total order of a finite set, every place is that of a member.
LEMMA RankSurjects ==
  ASSUME NEW S, IsFiniteSet(S), NEW R \in SUBSET (S \X S),
         \A s \in S : <<s, s>> \notin R,
         \A s, t, u \in S : <<s, t>> \in R /\ <<t, u>> \in R => <<s, u>> \in R,
         \A s, t \in S : s # t => <<s, t>> \in R \/ <<t, s>> \in R
  PROVE  /\ \A n \in 1 .. Cardinality(S) :
              \E s \in S : Cardinality({t \in S : <<t, s>> \in R}) + 1 = n
         /\ \A s \in S : Cardinality({t \in S : <<t, s>> \in R}) + 1 \in 1 .. Cardinality(S)
         /\ \A s, t \in S :
              Cardinality({u \in S : <<u, s>> \in R}) = Cardinality({u \in S : <<u, t>> \in R})
                => s = t
<1> DEFINE below(s) == {t \in S : <<t, s>> \in R}
           N == Cardinality(S)
           rank == [s \in S |-> Cardinality(below(s)) + 1]
<1>1. N \in Nat
  BY FS_CardinalityType
<1>2. ASSUME NEW s \in S
      PROVE  IsFiniteSet(below(s)) /\ Cardinality(below(s)) \in Nat /\ Cardinality(below(s)) < N
  <2>1. below(s) \in SUBSET S /\ s \notin below(s)
    OBVIOUS
  <2> HIDE DEF below
  <2>2. /\ IsFiniteSet(below(s)) /\ Cardinality(below(s)) <= N
        /\ N = Cardinality(below(s)) => S = below(s)
    BY <2>1, FS_Subset
  <2>3. Cardinality(below(s)) \in Nat
    BY <2>2, FS_CardinalityType
  <2> QED
    BY <1>1, <2>1, <2>2, <2>3
<1>3. ASSUME NEW s \in S, NEW t \in S, <<s, t>> \in R
      PROVE  Cardinality(below(s)) < Cardinality(below(t))
  <2>1. below(s) \in SUBSET below(t) /\ s \in below(t) /\ s \notin below(s)
    BY <1>3
  <2>2. /\ IsFiniteSet(below(t)) /\ Cardinality(below(s)) \in Nat /\ Cardinality(below(t)) \in Nat
    BY <1>2
  <2> HIDE DEF below
  <2>3. /\ Cardinality(below(s)) <= Cardinality(below(t))
        /\ Cardinality(below(t)) = Cardinality(below(s)) => below(t) = below(s)
    BY <2>1, <2>2, FS_Subset
  <2> QED
    BY <2>1, <2>2, <2>3
<1> HIDE DEF below
<1>4. rank \in [S -> 1 .. N]
  BY <1>1, <1>2
<1>5. ASSUME NEW s \in S, NEW t \in S, rank[s] = rank[t] PROVE s = t
  <2>1. Cardinality(below(s)) = Cardinality(below(t))
    BY <1>2, <1>5
  <2>2. <<s, t>> \notin R /\ <<t, s>> \notin R
    BY <1>2, <1>3, <2>1
  <2> QED
    BY <2>2
<1>6. \A s \in S : rank[s] = Cardinality(below(s)) + 1
  OBVIOUS
<1> HIDE DEF rank
<1>7. rank \in Injection(S, 1 .. N)
  BY <1>4, <1>5 DEF Injection, IsInjective
<1>8. IsFiniteSet(1 .. N) /\ Cardinality(1 .. N) = N
  BY <1>1, FS_Interval
<1> HIDE DEF N
<1>9. rank \in Surjection(S, 1 .. N)
  <2>1. Cardinality(S) = Cardinality(1 .. N)
    BY <1>8 DEF N
  <2> QED
    BY <1>7, <1>8, <2>1, FS_Injection
<1>10. \A n \in 1 .. N : \E s \in S : rank[s] = n
  BY <1>9 DEF Surjection
<1>11. \A s \in S : Cardinality(below(s)) + 1 \in 1 .. N
  BY <1>4, <1>6
<1>12. \A s, t \in S : Cardinality(below(s)) = Cardinality(below(t)) => s = t
  BY <1>5, <1>6
<1> QED
  BY <1>6, <1>10, <1>11, <1>12 DEF below, N

\* In an order, of the stories of one interest the earlier has fewer before it.
LEMMA FewerBefore ==
  ASSUME NEW S, IsFiniteSet(S), NEW place \in [S -> Int], NEW kind \in [S -> Nat],
         NEW s \in S, NEW t \in S, kind[s] = kind[t], place[s] < place[t]
  PROVE  Cardinality({u \in S : kind[u] = kind[s] /\ place[u] < place[s]})
           < Cardinality({u \in S : kind[u] = kind[t] /\ place[u] < place[t]})
<1> DEFINE A == {u \in S : kind[u] = kind[s] /\ place[u] < place[s]}
           B == {u \in S : kind[u] = kind[t] /\ place[u] < place[t]}
<1>1. A \in SUBSET B /\ B \in SUBSET S /\ s \in B /\ s \notin A
  OBVIOUS
<1> HIDE DEF A, B
<1>2. IsFiniteSet(A) /\ IsFiniteSet(B)
  BY <1>1, FS_Subset
<1>3. Cardinality(A) \in Nat /\ Cardinality(B) \in Nat
  BY <1>2, FS_CardinalityType
<1>4. Cardinality(A) <= Cardinality(B) /\ (Cardinality(B) = Cardinality(A) => B = A)
  BY <1>1, <1>2, FS_Subset
<1>5. Cardinality(A) < Cardinality(B)
  BY <1>1, <1>3, <1>4
<1> QED
  BY <1>5 DEF A, B

LEMMA InterestsPicked ==
  ASSUME pool \in Pools, NEW w, NEW taken
  PROVE  Picked(Interests(w, taken), Range(Candidates(w)) \ taken)
<1> DEFINE free == {s \in Range(Candidates(w)) \ taken : ~Matches(s)}
           shown == Range(First(Recommended(w), ViewSize))
           covered(s) == Cardinality({t \in shown : pool.interest[t] = pool.interest[s]})
           round(s) == Cardinality({t \in free : /\ pool.interest[t] = pool.interest[s]
                                                 /\ Place(pool.ranked, t) < Place(pool.ranked, s)})
           before(s, t) ==
             \/ round(s) < round(t)
             \/ round(s) = round(t) /\ covered(s) < covered(t)
             \/ round(s) = round(t) /\ covered(s) = covered(t) /\ pool.interest[s] < pool.interest[t]
           turn(s) == Cardinality({t \in free : before(t, s)}) + 1
           n == Min({PerBadge * Margin, Cardinality(free)})
<1>1. Interests(w, taken) =
        [i \in 1 .. n |-> [Card(CHOOSE s \in free : turn(s) = i) EXCEPT !.badge = "interest"]]
  BY DEF Interests
<1>2. /\ free \subseteq Range(Candidates(w)) \ taken /\ free \subseteq Stories
      /\ free \subseteq Range(pool.ranked)
  BY CandidatesIs
<1>3. IsFiniteSet(free)
  BY <1>2, DeckAssumption, FS_Subset
<1> HIDE DEF free
<1>4. \A s \in Stories : pool.interest[s] \in Nat
  BY PoolIs
<1>5. \A s \in free : round(s) \in Nat
  <2> SUFFICES ASSUME NEW s \in free PROVE round(s) \in Nat
    OBVIOUS
  <2> DEFINE earlier == {t \in free : /\ pool.interest[t] = pool.interest[s]
                                      /\ Place(pool.ranked, t) < Place(pool.ranked, s)}
  <2>1. earlier \in SUBSET free
    OBVIOUS
  <2> HIDE DEF earlier
  <2>2. Cardinality(earlier) \in Nat
    BY <1>3, <2>1, FS_Subset, FS_CardinalityType
  <2> QED
    BY <2>2 DEF earlier
<1>6. \A s \in free : covered(s) \in Nat
  <2> SUFFICES ASSUME NEW s \in free PROVE covered(s) \in Nat
    OBVIOUS
  <2>1. shown \subseteq Stories
    <3>1. Recommended(w) \in Seq(Stories)
      BY RecommendedIs
    <3>2. shown \subseteq Range(Recommended(w))
      BY <3>1, Sizes, FirstRange
    <3>3. Range(Recommended(w)) \subseteq Stories
      BY <3>1 DEF Range
    <3> QED
      BY <3>2, <3>3
  <2> DEFINE alike == {t \in shown : pool.interest[t] = pool.interest[s]}
  <2>2. alike \in SUBSET Stories
    BY <2>1
  <2> HIDE DEF alike
  <2>3. Cardinality(alike) \in Nat
    BY <2>2, DeckAssumption, FS_Subset, FS_CardinalityType
  <2> QED
    BY <2>3 DEF alike
<1>7. ASSUME NEW s \in free, NEW t \in free, s # t, pool.interest[s] = pool.interest[t]
      PROVE  round(s) # round(t)
  <2> DEFINE place == [u \in free |-> Place(pool.ranked, u)]
             kind == [u \in free |-> pool.interest[u]]
  <2>1. pool.ranked \in Seq(Stories)
    BY PoolIs
  <2>2. \A u \in free : Place(pool.ranked, u) \in Int /\ pool.ranked[Place(pool.ranked, u)] = u
    BY <1>2, <2>1, PlaceIs
  <2>3. place \in [free -> Int] /\ kind \in [free -> Nat] /\ kind[s] = kind[t]
    BY <1>2, <1>4, <1>7, <2>2
  <2>4. place[s] # place[t]
    BY <1>7, <2>2
  <2>5. \A x \in free :
          {u \in free : kind[u] = kind[x] /\ place[u] < place[x]} =
          {u \in free : /\ pool.interest[u] = pool.interest[x]
                        /\ Place(pool.ranked, u) < Place(pool.ranked, x)}
    OBVIOUS
  <2> HIDE DEF place, kind
  <2>8. /\ round(s) \in Nat /\ round(t) \in Nat
        /\ round(s) = Cardinality({u \in free : kind[u] = kind[s] /\ place[u] < place[s]})
        /\ round(t) = Cardinality({u \in free : kind[u] = kind[t] /\ place[u] < place[t]})
    BY <1>5, <2>5
  <2> HIDE DEF round
  <2>6. CASE place[s] < place[t]
    <3>1. round(s) < round(t)
      BY <1>3, <2>3, <2>6, <2>8, FewerBefore
    <3> QED
      BY <2>8, <3>1
  <2>7. CASE place[t] < place[s]
    <3>1. round(t) < round(s)
      BY <1>3, <2>3, <2>7, <2>8, FewerBefore
    <3> QED
      BY <2>8, <3>1
  <2> QED
    BY <2>3, <2>4, <2>6, <2>7
<1> HIDE DEF round, covered
<1> DEFINE R == {p \in free \X free : before(p[1], p[2])}
<1>8. \A s, t \in free : <<s, t>> \in R <=> before(s, t)
  OBVIOUS
<1>9. /\ R \in SUBSET (free \X free)
      /\ \A s \in free : <<s, s>> \notin R
      /\ \A s, t, u \in free : <<s, t>> \in R /\ <<t, u>> \in R => <<s, u>> \in R
      /\ \A s, t \in free : s # t => <<s, t>> \in R \/ <<t, s>> \in R
  <2>1. R \in SUBSET (free \X free)
    OBVIOUS
  <2> HIDE DEF R
  <2>2. \A s \in free : ~before(s, s)
    BY <1>2, <1>4, <1>5, <1>6
  <2>3. \A s, t, u \in free : before(s, t) /\ before(t, u) => before(s, u)
    <3> SUFFICES ASSUME NEW s \in free, NEW t \in free, NEW u \in free, before(s, t), before(t, u)
                 PROVE  before(s, u)
      OBVIOUS
    <3>1. /\ round(s) \in Nat /\ round(t) \in Nat /\ round(u) \in Nat
          /\ covered(s) \in Nat /\ covered(t) \in Nat /\ covered(u) \in Nat
          /\ pool.interest[s] \in Nat /\ pool.interest[t] \in Nat /\ pool.interest[u] \in Nat
      BY <1>2, <1>4, <1>5, <1>6
    <3> QED
      BY <3>1
  <2>4. \A s, t \in free : s # t => before(s, t) \/ before(t, s)
    <3> SUFFICES ASSUME NEW s \in free, NEW t \in free, s # t
                 PROVE  before(s, t) \/ before(t, s)
      OBVIOUS
    <3>1. /\ round(s) \in Nat /\ round(t) \in Nat
          /\ covered(s) \in Nat /\ covered(t) \in Nat
          /\ pool.interest[s] \in Nat /\ pool.interest[t] \in Nat
      BY <1>2, <1>4, <1>5, <1>6
    <3>2. pool.interest[s] = pool.interest[t] => round(s) # round(t)
      BY <1>7
    <3> QED
      BY <3>1, <3>2
  <2> HIDE DEF before
  <2> QED
    BY <1>8, <2>1, <2>2, <2>3, <2>4
<1>10. \A s \in free : turn(s) = Cardinality({t \in free : <<t, s>> \in R}) + 1
  <2> HIDE DEF before, R
  <2>1. \A s \in free : {t \in free : before(t, s)} = {t \in free : <<t, s>> \in R}
    BY <1>8
  <2> QED
    BY <2>1
<1> HIDE DEF before, R
<1>11. \A i \in 1 .. Cardinality(free) : \E s \in free : turn(s) = i
  <2>1. \A i \in 1 .. Cardinality(free) :
          \E s \in free : Cardinality({t \in free : <<t, s>> \in R}) + 1 = i
    BY <1>3, <1>9, RankSurjects
  <2> HIDE DEF turn
  <2> QED
    BY <1>10, <2>1
<1> HIDE DEF turn
<1>12. n \in Nat /\ n <= Cardinality(free)
  <2>1. Cardinality(free) \in Nat
    BY <1>3, FS_CardinalityType
  <2> QED
    BY <2>1, Sizes, MinOfTwo
<1> HIDE DEF n
<1> DEFINE story == [i \in 1 .. n |-> CHOOSE s \in free : turn(s) = i]
<1>13. \A i \in 1 .. n : story[i] \in free /\ turn(story[i]) = i
  <2>1. Cardinality(free) \in Nat
    BY <1>3, FS_CardinalityType
  <2>2. \A i \in 1 .. n : \E s \in free : turn(s) = i
    BY <1>11, <1>12, <2>1
  <2> QED
    BY <2>2
<1>14. Interests(w, taken) = [i \in 1 .. n |-> [Card(story[i]) EXCEPT !.badge = "interest"]]
  BY <1>1
<1> HIDE DEF story
<1>15. story \in [1 .. n -> Stories]
  BY <1>2, <1>13 DEF story
<1>16. IsInjective(story)
  BY <1>13, <1>15 DEF IsInjective
<1>17. \A i \in 1 .. n : story[i] \in Range(Candidates(w)) \ taken
  BY <1>2, <1>13
<1>18. "interest" \in Badges
  BY DEF Badges
<1> QED
  BY <1>12, <1>14, <1>15, <1>16, <1>17, <1>18, BadgedPicked

LEMMA ExplorePicked ==
  ASSUME pool \in Pools, NEW w
  PROVE  Picked(Explore(w), Range(Candidates(w)) \ Range(Recommended(w)))
<1> DEFINE candidates == Candidates(w)
           all == Range(candidates)
           first == Range(Recommended(w))
           unsureOf == Only(pool.entropy, all)
           unsure == Picks(unsureOf, first, "unsure")
           second == first \cup StoriesOf(unsure)
           farOf == Only(candidates, IF UpVoted THEN pool.far ELSE Stories)
           discover == Picks(farOf, second, "discover")
           third == second \cup StoriesOf(discover)
           rest == IF UpVoted THEN Interests(w, third) ELSE <<>>
<1>1. Explore(w) = unsure \o discover \o rest
  BY DEF Explore
<1>2. /\ unsureOf \in Seq(Stories) /\ IsInjective(unsureOf) /\ Range(unsureOf) \subseteq all
      /\ farOf \in Seq(Stories) /\ IsInjective(farOf) /\ Range(farOf) \subseteq all
  <2>1. /\ candidates \in Seq(Stories) /\ IsInjective(candidates)
        /\ pool.entropy \in Seq(Stories) /\ IsInjective(pool.entropy)
    BY PoolIs, CandidatesIs
  <2> HIDE DEF candidates
  <2> QED
    BY <2>1, OnlyOrder
<1> HIDE DEF unsureOf, farOf, candidates
<1>3. Picked(unsure, all \ first)
  <2>1. Picked(unsure, Range(unsureOf) \ first)
    BY <1>2, PicksPicked DEF Badges
  <2> QED
    BY <1>2, <2>1, PickedWiden
<1>4. Picked(discover, all \ second)
  <2>1. Picked(discover, Range(farOf) \ second)
    BY <1>2, PicksPicked DEF Badges
  <2> QED
    BY <1>2, <2>1, PickedWiden
<1>5. Picked(rest, all \ third)
  <2>1. CASE UpVoted
    <3>1. rest = Interests(w, third)
      BY <2>1
    <3> HIDE DEF rest, third
    <3> QED
      BY <3>1, InterestsPicked DEF candidates
  <2>2. CASE ~UpVoted
    <3>1. rest = <<>>
      BY <2>2
    <3>2. <<>> \in Seq(CardSet) /\ DOMAIN <<>> = {}
      OBVIOUS
    <3>3. Distinct(<<>>)
      BY <3>2 DEF Distinct
    <3> HIDE DEF rest, third
    <3> QED
      BY <3>1, <3>2, <3>3 DEF Picked
  <2> QED
    BY <2>1, <2>2
<1> HIDE DEF rest, unsure, discover
<1>6. Picked(unsure \o discover, (all \ first) \cup (all \ second))
  BY <1>3, <1>4, ConcatPicked
<1>7. StoriesOf(unsure \o discover) \cap (all \ third) = {}
  <2>1. unsure \in Seq(CardSet) /\ discover \in Seq(CardSet)
    BY <1>3, <1>4 DEF Picked
  <2>2. Range(unsure \o discover) \subseteq Range(unsure) \cup Range(discover)
    <3>1. /\ Len(unsure) \in Nat /\ Len(discover) \in Nat
          /\ DOMAIN unsure = 1 .. Len(unsure) /\ DOMAIN discover = 1 .. Len(discover)
          /\ DOMAIN (unsure \o discover) = 1 .. Len(unsure) + Len(discover)
          /\ \A i \in 1 .. Len(unsure) + Len(discover) :
               (unsure \o discover)[i] = IF i <= Len(unsure) THEN unsure[i] ELSE discover[i - Len(unsure)]
      BY <2>1
    <3>2. \A i \in 1 .. Len(unsure) + Len(discover) :
            \/ i <= Len(unsure) /\ i \in DOMAIN unsure
            \/ ~ (i <= Len(unsure)) /\ i - Len(unsure) \in DOMAIN discover
      BY <3>1
    <3> QED
      BY <3>1, <3>2 DEF Range
  <2> QED
    BY <2>2 DEF StoriesOf
<1>8. Picked(unsure \o discover \o rest, ((all \ first) \cup (all \ second)) \cup (all \ third))
  BY <1>5, <1>6, <1>7, ConcatPicked
<1>9. ((all \ first) \cup (all \ second)) \cup (all \ third) = all \ first
  OBVIOUS
<1> QED
  BY <1>1, <1>8, <1>9 DEF candidates

-----------------------------------------------------------------------------
(* The views of a window                                                   *)

ViewsSet == [Views -> Seq(CardSet)]

Shelf(views) == Range(views["recommended"]) \cup Range(views["explore"])

\* Neither a view nor Recommended and Explore together repeat a story.
StoryOnce(views) ==
  /\ \A v \in Views : Distinct(views[v])
  /\ \A c \in Range(views["recommended"]), d \in Range(views["explore"]) : c.story # d.story

\* What was picked for one story stands for one story; it was a candidate, and
\* what is in the archive stays there.
Placed(views, w) ==
  /\ \A c, d \in Shelf(views) : c.of = d.of => c.story = d.story
  /\ \A c \in Shelf(views) :
       /\ c.of \in Range(pool.ranked)
       /\ w = Archive => InWindow(c.story, w, clock)

Sound(views, w) == views \in ViewsSet /\ StoryOnce(views) /\ Placed(views, w)

LEMMA ViewsAre == Views = {"recommended", "popular", "explore"}
BY DEF Views, NoView

LEMMA ShelfIs ==
  ASSUME NEW views \in ViewsSet
  PROVE  /\ \A v \in Views : views[v] \in Seq(CardSet) /\ Range(views[v]) \subseteq CardSet
         /\ views["recommended"] \in Seq(CardSet) /\ views["explore"] \in Seq(CardSet)
         /\ views["popular"] \in Seq(CardSet)
         /\ Shelf(views) \subseteq CardSet
<1>1. \A v \in Views : views[v] \in Seq(CardSet)
  BY DEF ViewsSet
<1>2. \A v \in Views : Range(views[v]) \subseteq CardSet
  BY <1>1 DEF Range
<1> QED
  BY <1>1, <1>2, ViewsAre DEF Shelf

\* In Recommended and Explore a story has one card, and so has what it was
\* picked for.
LEMMA ShelfOnce ==
  ASSUME NEW views \in ViewsSet, StoryOnce(views)
  PROVE  \A c, d \in Shelf(views) : c.story = d.story => c = d
<1> SUFFICES ASSUME NEW c \in Shelf(views), NEW d \in Shelf(views), c.story = d.story
             PROVE  c = d
  OBVIOUS
<1>1. Distinct(views["recommended"]) /\ Distinct(views["explore"])
  BY ViewsAre DEF StoryOnce
<1>2. CASE c \in Range(views["recommended"]) /\ d \in Range(views["recommended"])
  BY <1>1, <1>2 DEF Range, Distinct
<1>3. CASE c \in Range(views["explore"]) /\ d \in Range(views["explore"])
  BY <1>1, <1>3 DEF Range, Distinct
<1> QED
  BY <1>2, <1>3 DEF Shelf, StoryOnce

\* Some of the cards of the same views.
LEMMA FewerSound ==
  ASSUME NEW views, NEW w, Sound(views, w), NEW fewer,
         fewer \in ViewsSet, StoryOnce(fewer),
         \A c \in Shelf(fewer) : \E d \in Shelf(views) : c.story = d.story /\ c.of = d.of
  PROVE  Sound(fewer, w)
<1>1. \A c, d \in Shelf(fewer) : c.of = d.of => c.story = d.story
  BY DEF Sound, Placed
<1>2. \A c \in Shelf(fewer) :
        c.of \in Range(pool.ranked) /\ (w = Archive => InWindow(c.story, w, clock))
  BY DEF Sound, Placed
<1> QED
  BY <1>1, <1>2 DEF Sound, Placed

LEMMA OnlyViews ==
  ASSUME NEW views \in ViewsSet, StoryOnce(views), NEW set \in [Views -> SUBSET CardSet],
         NEW fewer, fewer = [v \in Views |-> Only(views[v], set[v])]
  PROVE  /\ fewer \in ViewsSet /\ StoryOnce(fewer)
         /\ \A v \in Views : Range(fewer[v]) \subseteq Range(views[v])
<1>1. \A v \in Views : views[v] \in Seq(CardSet) /\ Distinct(views[v])
  BY ShelfIs DEF StoryOnce
<1>2. \A v \in Views : /\ fewer[v] \in Seq(CardSet) /\ Distinct(fewer[v])
                       /\ Range(fewer[v]) \subseteq Range(views[v])
  <2> SUFFICES ASSUME NEW v \in Views
               PROVE  /\ fewer[v] \in Seq(CardSet) /\ Distinct(fewer[v])
                      /\ Range(fewer[v]) \subseteq Range(views[v])
    OBVIOUS
  <2>1. fewer[v] = Only(views[v], set[v])
    OBVIOUS
  <2>2. Only(views[v], set[v]) \in Seq(CardSet) /\ Distinct(Only(views[v], set[v]))
    BY <1>1, OnlyRange, OnlyDistinct
  <2>3. Range(Only(views[v], set[v])) = Range(views[v]) \cap set[v]
    BY <1>1, OnlyRange
  <2> QED
    BY <2>1, <2>2, <2>3
<1>3. fewer \in ViewsSet
  BY <1>2 DEF ViewsSet
<1>4. StoryOnce(fewer)
  BY <1>2, ViewsAre DEF StoryOnce
<1> QED
  BY <1>2, <1>3, <1>4

-----------------------------------------------------------------------------
(* What each stage makes of the views                                      *)

\* As they are picked, cards have the stories they were picked for.
Fresh(views) ==
  \A v \in Views : \A c \in Range(views[v]) :
    c.story = c.of /\ c.of \in Range(pool.ranked) /\ c.arm = 0

AssembledViews(w) ==
  [recommended |-> Cards(Recommended(w)),
   popular     |-> Cards(Popular(w)),
   explore     |-> IF Voted(feedback) = {} THEN <<>> ELSE Explore(w)]

LEMMA AssembleSound ==
  ASSUME pool \in Pools, NEW w
  PROVE  Sound(AssembledViews(w), w) /\ Fresh(AssembledViews(w))
<1> DEFINE views == AssembledViews(w)
           all == Range(Candidates(w))
           first == Range(Recommended(w))
<1>1. Picked(views["recommended"], first) /\ first \subseteq all
  BY RecommendedIs, CardsPicked DEF AssembledViews
<1>2. Picked(views["popular"], all)
  <2>1. Picked(Cards(Popular(w)), Range(Popular(w))) /\ Range(Popular(w)) \subseteq all
    BY PopularIs, CardsPicked
  <2> QED
    BY <2>1, PickedWiden DEF AssembledViews
<1>3. Picked(views["explore"], all \ first)
  <2>1. CASE Voted(feedback) = {}
    <3>1. views["explore"] = <<>>
      BY <2>1 DEF AssembledViews
    <3>2. <<>> \in Seq(CardSet) /\ DOMAIN <<>> = {}
      OBVIOUS
    <3> HIDE DEF views, all, first
    <3> QED
      BY <3>1, <3>2 DEF Picked, Distinct
  <2>2. CASE Voted(feedback) # {}
    <3>1. views["explore"] = Explore(w)
      BY <2>2 DEF AssembledViews
    <3> QED
      BY <3>1, ExplorePicked
  <2> QED
    BY <2>1, <2>2
<1>4. views = [v \in Views |-> views[v]]
  BY ViewsAre DEF AssembledViews
<1>5. all \subseteq Range(pool.ranked) /\ \A s \in all : InWindow(s, w, clock)
  BY CandidatesIs
<1> HIDE DEF views, all, first
<1>6. \A v \in Views : Picked(views[v], all)
  <2>1. Picked(views["recommended"], all) /\ Picked(views["explore"], all)
    BY <1>1, <1>3, PickedWiden
  <2> QED
    BY <1>2, <2>1, ViewsAre
<1>7. \A v \in Views : \A c \in Range(views[v]) :
        c.story \in all /\ c.of = c.story /\ c.arm = 0
  BY <1>6 DEF Picked, Range
<1>8. views \in ViewsSet
  <2>1. \A v \in Views : views[v] \in Seq(CardSet)
    BY <1>6 DEF Picked
  <2> QED
    BY <1>4, <2>1 DEF ViewsSet
<1>9. StoryOnce(views)
  <2>1. \A v \in Views : Distinct(views[v])
    BY <1>6 DEF Picked
  <2>2. \A c \in Range(views["recommended"]) : c.story \in first
    BY <1>1 DEF Picked, Range
  <2>3. \A c \in Range(views["explore"]) : c.story \notin first
    BY <1>3 DEF Picked, Range
  <2> QED
    BY <2>1, <2>2, <2>3 DEF StoryOnce
<1>10. Fresh(views)
  BY <1>5, <1>7 DEF Fresh
<1>11. Placed(views, w)
  BY <1>5, <1>7, ViewsAre DEF Placed, Shelf
<1> QED
  BY <1>8, <1>9, <1>10, <1>11 DEF Sound, views

LEMMA DedupSound ==
  ASSUME NEW w \in Windows, Sound(deck[w], w), Fresh(deck[w])
  PROVE  /\ Deduplicated[w] \in ViewsSet
         /\ Sound(Deduplicated[w], w) /\ Fresh(Deduplicated[w])
<1> DEFINE set == [v \in Views |-> {c \in Range(deck[w][v]) : c.story \in Survivors}]
           fewer == Deduplicated[w]
<1>1. fewer = [v \in Views |-> Only(deck[w][v], set[v])]
  BY DEF Deduplicated, MapViews
<1>2. deck[w] \in ViewsSet /\ StoryOnce(deck[w])
  BY DEF Sound
<1>3. set \in [Views -> SUBSET CardSet]
  BY <1>2, ShelfIs
<1> HIDE DEF set, fewer
<1>4. /\ fewer \in ViewsSet /\ StoryOnce(fewer)
      /\ \A v \in Views : Range(fewer[v]) \subseteq Range(deck[w][v])
  BY <1>1, <1>2, <1>3, OnlyViews
<1>5. Shelf(fewer) \subseteq Shelf(deck[w])
  BY <1>4, ViewsAre DEF Shelf
<1>6. Sound(fewer, w)
  BY <1>4, <1>5, FewerSound
<1>7. Fresh(fewer)
  BY <1>4 DEF Fresh
<1> QED
  BY <1>4, <1>6, <1>7 DEF fewer

Reads ==
  [ranked : Seq(Stories), hn : SUBSET Stories,
   canonical : [Stories -> Stories \cup {NoStory}], voted : SUBSET Stories,
   alike : SUBSET Stories, showable : SUBSET Stories]

Passes == [cards : Seq(Stories \cup {NoStory}), emitted : SUBSET Stories]

\* What one story adds to a pass.
Passed(read, before, story) ==
  LET card == Outcome(read, story, before.emitted)
  IN  [cards   |-> Append(before.cards, card),
       emitted |-> before.emitted \cup {IF card = Dropped THEN story ELSE card}]

LEMMA OutcomeIs ==
  ASSUME NEW read \in Reads, NEW story \in Stories, NEW emitted \in SUBSET Stories
  PROVE  LET card == Outcome(read, story, emitted)
         IN  card \in (Stories \ emitted) \cup {Dropped}
<1> DEFINE target == read.canonical[story]
           itself == IF story \in emitted THEN Dropped ELSE story
           taken == read.voted \cup Range(read.ranked) \cup emitted
           card == Outcome(read, story, emitted)
<1>1. target \in Stories \cup {NoStory}
  BY DEF Reads
<1>2. itself \in (Stories \ emitted) \cup {Dropped}
  OBVIOUS
<1>3. CASE story \notin read.hn
  BY <1>2, <1>3 DEF Outcome
<1>4. CASE story \in read.hn /\ story \in read.alike
  <2>1. card = Dropped
    BY <1>4 DEF Outcome
  <2> QED
    BY <2>1
<1>5. CASE story \in read.hn /\ story \notin read.alike /\ target = NoStory
  <2>1. card = itself
    BY <1>5 DEF Outcome
  <2> QED
    BY <1>2, <2>1
<1>6. CASE story \in read.hn /\ story \notin read.alike /\ target # NoStory
  <2>1. card = IF target \in taken THEN Dropped
               ELSE IF target \in read.showable THEN target ELSE itself
    BY <1>6 DEF Outcome
  <2>2. target \in Stories /\ (target \notin taken => target \notin emitted)
    BY <1>1, <1>6
  <2> HIDE DEF card, target, itself, taken
  <2>3. card \in (Stories \ emitted) \cup {Dropped}
    BY <1>2, <2>1, <2>2
  <2> QED
    BY <2>3 DEF card
<1> QED
  BY <1>3, <1>4, <1>5, <1>6

LEMMA PassedIs ==
  ASSUME NEW read \in Reads, NEW before \in Passes, NEW story \in Stories
  PROVE  Passed(read, before, story) \in Passes
<1> DEFINE card == Outcome(read, story, before.emitted)
<1>1. before.emitted \in SUBSET Stories /\ before.cards \in Seq(Stories \cup {NoStory})
  BY DEF Passes
<1>2. card \in Stories \cup {Dropped}
  BY <1>1, OutcomeIs
<1>3. Passed(read, before, story) =
        [cards   |-> Append(before.cards, card),
         emitted |-> before.emitted \cup {IF card = Dropped THEN story ELSE card}]
  BY DEF Passed
<1> HIDE DEF card
<1>4. Append(before.cards, card) \in Seq(Stories \cup {NoStory})
  BY <1>1, <1>2 DEF Dropped
<1>5. before.emitted \cup {IF card = Dropped THEN story ELSE card} \in SUBSET Stories
  BY <1>1, <1>2
<1> QED
  BY <1>3, <1>4, <1>5 DEF Passes

LEMMA OutcomesEquation ==
  ASSUME NEW read \in Reads
  PROVE  \E done :
           /\ done[0] = [cards |-> <<>>, emitted |-> {}]
           /\ \A n \in 1 .. Len(read.ranked) :
                done[n] = Passed(read, done[n - 1], read.ranked[n])
           /\ Outcomes(read) = done[Len(read.ranked)].cards
<1> DEFINE N == Len(read.ranked)
           none == [cards |-> <<>>, emitted |-> {}]
           G == [p \in Passes \X (1 .. N) |-> Passed(read, p[1], read.ranked[p[2]])]
<1>0. N \in Nat /\ none \in Passes /\ \A n \in 1 .. N : read.ranked[n] \in Stories
  BY DEF Reads, Passes
<1>1. /\ G \in [Passes \X (1 .. N) -> Passes]
      /\ \A p \in Passes, n \in 1 .. N : G[<<p, n>>] = Passed(read, p, read.ranked[n])
  BY <1>0, PassedIs
<1> HIDE DEF G
<1>2. PICK f : Recurses(f, Passes, none, N, G)
  <2> HIDE DEF N, none
  <2> QED
    BY <1>0, <1>1, Recursion, Zenon
<1>3. \A i \in 1 .. N : f[i] = Passed(read, f[i - 1], read.ranked[i])
  <2>1. \A i \in 1 .. N : f[i - 1] \in Passes
    <3>1. \A i \in 1 .. N : i - 1 \in 0 .. N
      BY <1>0
    <3>2. f \in [0 .. N -> Passes]
      BY <1>2 DEF Recurses
    <3> QED
      BY <3>1, <3>2
  <2> HIDE DEF N
  <2> QED
    BY <1>1, <1>2, <2>1 DEF Recurses
<1> DEFINE step(p, story) ==
             LET card == Outcome(read, story, p.emitted)
             IN  [cards   |-> Append(p.cards, card),
                  emitted |-> p.emitted \cup {IF card = Dropped THEN story ELSE card}]
           R(g) == [n \in 0 .. N |-> IF n = 0 THEN none ELSE step(g[n - 1], read.ranked[n])]
           done == CHOOSE g : g = R(g)
<1>4. f = R(f)
  <2>1. \A n \in 0 .. N : n = 0 \/ n \in 1 .. N
    BY <1>0
  <2>2. f \in [0 .. N -> Passes] /\ f[0] = none
    BY <1>2 DEF Recurses
  <2>3. \A n \in 1 .. N : f[n] = step(f[n - 1], read.ranked[n])
    BY <1>3 DEF Passed
  <2> HIDE DEF N, none, step
  <2> QED
    BY <2>1, <2>2, <2>3
<1>5. done = R(done)
  <2> HIDE DEF N, none, step
  <2> QED
    BY <1>4
<1>6. Outcomes(read) = done[N].cards
  BY DEF Outcomes
<1> HIDE DEF done
<1>7. done[0] = none
  <2> HIDE DEF step, none
  <2> QED
    BY <1>0, <1>5
<1>8. \A n \in 1 .. N : done[n] = Passed(read, done[n - 1], read.ranked[n])
  <2>1. \A n \in 1 .. N : n \in 0 .. N /\ n # 0
    BY <1>0
  <2>2. \A n \in 1 .. N : done[n] = step(done[n - 1], read.ranked[n])
    <3> HIDE DEF step, N
    <3> QED
      BY <1>5, <2>1
  <2> QED
    BY <2>2 DEF Passed
<1> QED
  BY <1>6, <1>7, <1>8

\* A pass gives every story an outcome and no two the same but Dropped.
LEMMA OutcomesOnce ==
  ASSUME NEW read \in Reads
  PROVE  /\ Outcomes(read) \in Seq(Stories \cup {Dropped})
         /\ Len(Outcomes(read)) = Len(read.ranked)
         /\ \A i, j \in 1 .. Len(read.ranked) :
              Outcomes(read)[i] # Dropped /\ Outcomes(read)[i] = Outcomes(read)[j] => i = j
<1> DEFINE N == Len(read.ranked)
<1>0. N \in Nat /\ \A n \in 1 .. N : read.ranked[n] \in Stories
  BY DEF Reads
<1>1. PICK done :
        /\ done[0] = [cards |-> <<>>, emitted |-> {}]
        /\ \A n \in 1 .. N : done[n] = Passed(read, done[n - 1], read.ranked[n])
        /\ Outcomes(read) = done[N].cards
  BY OutcomesEquation
<1> DEFINE Good(n) ==
      /\ done[n] \in Passes /\ Len(done[n].cards) = n
      /\ \A i \in 1 .. n : done[n].cards[i] # Dropped => done[n].cards[i] \in done[n].emitted
      /\ \A i, j \in 1 .. n :
           done[n].cards[i] # Dropped /\ done[n].cards[i] = done[n].cards[j] => i = j
<1>2. Good(0)
  BY <1>1 DEF Passes
<1> HIDE DEF N
<1>3. ASSUME NEW n \in 0 .. N - 1, Good(n) PROVE Good(n + 1)
  <2> DEFINE story == read.ranked[n + 1]
             old == done[n].cards
             card == Outcome(read, story, done[n].emitted)
             new == done[n + 1]
  <2>1. n + 1 \in 1 .. N /\ n + 1 - 1 = n /\ n \in Nat
    BY <1>0
  <2>2. story \in Stories /\ new = Passed(read, done[n], story)
    BY <1>0, <1>1, <2>1
  <2>3. /\ done[n] \in Passes /\ old \in Seq(Stories \cup {NoStory})
        /\ done[n].emitted \in SUBSET Stories /\ Len(old) = n
    BY <1>3 DEF Passes
  <2>4. new \in Passes
    BY <2>2, <2>3, PassedIs
  <2>5. card \in (Stories \ done[n].emitted) \cup {Dropped}
    BY <2>2, <2>3, OutcomeIs
  <2>6. /\ new.cards = Append(old, card)
        /\ new.emitted = done[n].emitted \cup {IF card = Dropped THEN story ELSE card}
    BY <2>2 DEF Passed
  <2>7. /\ \A i \in 1 .. n : old[i] # Dropped => old[i] \in done[n].emitted
        /\ \A i, j \in 1 .. n : old[i] # Dropped /\ old[i] = old[j] => i = j
    BY <1>3
  <2> HIDE DEF story, card, new, old, Good
  <2>8. card \in Stories \cup {NoStory}
    BY <2>5 DEF Dropped
  <2>9. /\ Len(new.cards) = n + 1 /\ new.cards[n + 1] = card
        /\ \A i \in 1 .. n : new.cards[i] = old[i]
    BY <2>3, <2>6, <2>8
  <2>10. \A i \in 1 .. n + 1 : i \in 1 .. n \/ i = n + 1
    BY <2>1
  <2>11. \A i \in 1 .. n + 1 : new.cards[i] # Dropped => new.cards[i] \in new.emitted
    BY <2>6, <2>7, <2>9, <2>10
  <2>12. \A i \in 1 .. n : new.cards[i] # Dropped => new.cards[i] # card
    BY <2>5, <2>7, <2>9
  <2>13. \A i, j \in 1 .. n + 1 : new.cards[i] # Dropped /\ new.cards[i] = new.cards[j] => i = j
    BY <2>7, <2>9, <2>10, <2>12
  <2> QED
    BY <2>4, <2>9, <2>11, <2>13 DEF Good, new
<1> HIDE DEF Good
<1> DEFINE T == {n \in 0 .. N : Good(n)}
<1>4. 0 \in T /\ \A n \in 0 .. N - 1 : n \in T => n + 1 \in T
  BY <1>0, <1>2, <1>3
<1>5. N \in T
  <2> HIDE DEF T
  <2>1. \A n \in 0 .. N : n \in T
    BY <1>0, <1>4, InductiveTo
  <2> QED
    BY <1>0, <2>1
<1>6. Good(N)
  BY <1>5
<1> QED
  BY <1>1, <1>6 DEF Good, Passes, N, Dropped

LEMMA OutcomeOfIs ==
  ASSUME pool \in Pools
  PROVE  /\ OutcomeOf \in [Range(DeckStories) -> Stories \cup {Dropped}]
         /\ \A s, t \in Range(DeckStories) :
              OutcomeOf[s] # Dropped /\ OutcomeOf[s] = OutcomeOf[t] => s = t
<1> DEFINE list == DeckStories
           read == [ranked    |-> list,
                    hn        |-> pool.hn,
                    canonical |-> pool.canonical,
                    voted     |-> Context,
                    alike     |-> {s \in Stories : Matches(s)},
                    showable  |-> pool.showable]
           out == Outcomes(read)
<1>1. OutcomeOf = [s \in Range(list) |-> out[Place(list, s)]]
  BY DEF OutcomeOf
<1>2. list \in Seq(Stories) /\ IsInjective(list)
  BY PoolIs, OnlyOrder DEF DeckStories
<1>3. read \in Reads
  <2>1. /\ pool.hn \in SUBSET Stories /\ pool.canonical \in [Stories -> Stories \cup {NoStory}]
        /\ pool.showable \in SUBSET Stories
    BY DeckAssumption DEF Pool
  <2>2. Context \in SUBSET Stories
    BY DEF Context, Liked
  <2> HIDE DEF list
  <2> QED
    BY <1>2, <2>1, <2>2 DEF Reads
<1>4. read.ranked = list
  OBVIOUS
<1> HIDE DEF read
<1>5. /\ out \in Seq(Stories \cup {Dropped}) /\ Len(out) = Len(list)
      /\ \A i, j \in 1 .. Len(list) : out[i] # Dropped /\ out[i] = out[j] => i = j
  BY <1>3, <1>4, OutcomesOnce
<1> HIDE DEF out, list
<1>6. \A s \in Range(list) : Place(list, s) \in 1 .. Len(list) /\ list[Place(list, s)] = s
  BY <1>2, PlaceIs
<1>7. \A s \in Range(list) : OutcomeOf[s] = out[Place(list, s)] /\ OutcomeOf[s] \in Stories \cup {Dropped}
  BY <1>1, <1>5, <1>6
<1>8. \A s, t \in Range(list) :
        OutcomeOf[s] # Dropped /\ OutcomeOf[s] = OutcomeOf[t] => s = t
  BY <1>5, <1>6, <1>7
<1> QED
  BY <1>1, <1>7, <1>8 DEF list

\* The cards of a set with the outcomes of their stories.
Remap(cards, set, f) ==
  LET left == Only(cards, set)
  IN  [i \in DOMAIN left |-> [left[i] EXCEPT !.story = f[@]]]

\* No story is the outcome of two.
Apart(f, D) == \A s, t \in D : f[s] # Dropped /\ f[s] = f[t] => s = t

\* Every new card is one of the cards of the set, but for its story.
Followed(new, cards, set, f) ==
  /\ new \in Seq(CardSet) /\ Distinct(new)
  /\ \A c \in Range(new) : \E d \in Range(cards) :
       d \in set /\ c.story = f[d.story] /\ c.of = d.of /\ c.arm = d.arm

LEMMA Remapped ==
  ASSUME NEW cards \in Seq(CardSet), Distinct(cards), NEW set \in SUBSET CardSet,
         NEW D \in SUBSET Stories, NEW f \in [D -> Stories \cup {Dropped}], Apart(f, D),
         \A c \in Range(cards) : c.story \in D,
         \A c \in set : c \in Range(cards) => f[c.story] # Dropped
  PROVE  Followed(Remap(cards, set, f), cards, set, f)
<1> DEFINE left == Only(cards, set)
           new == Remap(cards, set, f)
<1>0. new = [i \in DOMAIN left |-> [left[i] EXCEPT !.story = f[@]]]
  BY DEF Remap
<1>1. left \in Seq(CardSet) /\ Distinct(left) /\ Range(left) = Range(cards) \cap set
  BY OnlyRange, OnlyDistinct
<1> HIDE DEF left, new
<1>2. /\ Len(left) \in Nat /\ DOMAIN left = 1 .. Len(left)
      /\ \A i \in 1 .. Len(left) : left[i] \in CardSet /\ left[i] \in Range(cards) /\ left[i] \in set
  <2>1. left \in Seq(CardSet)
    BY <1>1
  <2>2. /\ Len(left) \in Nat /\ DOMAIN left = 1 .. Len(left)
        /\ \A i \in 1 .. Len(left) : left[i] \in CardSet
    BY <2>1
  <2>3. \A i \in 1 .. Len(left) : left[i] \in Range(left)
    BY <2>2 DEF Range
  <2> QED
    BY <1>1, <2>2, <2>3
<1> DEFINE card(i) == [left[i] EXCEPT !.story = f[@]]
<1>3. ASSUME NEW i \in 1 .. Len(left)
      PROVE  /\ f[left[i].story] \in Stories /\ left[i].story \in D
             /\ card(i) \in CardSet /\ card(i).story = f[left[i].story]
             /\ card(i).of = left[i].of /\ card(i).arm = left[i].arm
  <2>1. left[i].story \in D /\ f[left[i].story] \in Stories
    BY <1>2
  <2>2. left[i] \in CardSet
    BY <1>2
  <2> QED
    BY <2>1, <2>2 DEF CardSet
<1>4. DOMAIN new = 1 .. Len(left) /\ \A i \in 1 .. Len(left) : new[i] = card(i)
  BY <1>0, <1>2
<1>5. new = [i \in 1 .. Len(left) |-> card(i)]
  BY <1>0, <1>2
<1> HIDE DEF card
<1>6. new \in [1 .. Len(left) -> CardSet]
  BY <1>3, <1>5
<1>7. new \in Seq(CardSet)
  BY <1>2, <1>6, ListIs
<1>8. Distinct(new)
  <2> SUFFICES ASSUME NEW i \in 1 .. Len(left), NEW j \in 1 .. Len(left), new[i].story = new[j].story
               PROVE  i = j
    BY <1>4 DEF Distinct
  <2>1. f[left[i].story] = f[left[j].story]
    BY <1>3, <1>4
  <2>3. left[i] \in set /\ left[i] \in Range(cards)
    BY <1>2
  <2>4. f[left[i].story] # Dropped
    BY <2>3
  <2>2. left[i].story = left[j].story
    BY <1>3, <2>1, <2>4 DEF Apart
  <2> QED
    BY <1>1, <1>2, <2>2 DEF Distinct
<1>9. \A c \in Range(new) : \E d \in Range(cards) :
        d \in set /\ c.story = f[d.story] /\ c.of = d.of /\ c.arm = d.arm
  <2> SUFFICES ASSUME NEW c \in Range(new)
               PROVE  \E d \in Range(cards) :
                        d \in set /\ c.story = f[d.story] /\ c.of = d.of /\ c.arm = d.arm
    OBVIOUS
  <2>1. PICK i \in 1 .. Len(left) : c = new[i]
    BY <1>4 DEF Range
  <2>2. left[i] \in set /\ left[i] \in Range(cards)
    BY <1>2
  <2>3. c.story = f[left[i].story] /\ c.of = left[i].of /\ c.arm = left[i].arm
    BY <1>3, <1>4, <2>1
  <2> QED
    BY <2>2, <2>3
<1> QED
  BY <1>7, <1>8, <1>9 DEF new, Followed

\* Sorting Popular moves its cards.
LEMMA ByGravityIs ==
  ASSUME NEW S, pool \in Pools, NEW cards \in Seq(S)
  PROVE  /\ ByGravity(cards) \in Seq(S)
         /\ Range(cards) \subseteq Range(ByGravity(cards))
         /\ Distinct(cards) => Distinct(ByGravity(cards))
<1> DEFINE new == ByGravity(cards)
           D == DOMAIN cards
           at(i) == IF cards[i].story \in pool.hn THEN Place(pool.gravity, cards[i].story) ELSE 0
           before(i, j) == at(i) < at(j) \/ (at(i) = at(j) /\ i < j)
           rank(j) == Cardinality({i \in D : before(i, j)}) + 1
           R == {p \in D \X D : before(p[1], p[2])}
<1>1. new = [n \in D |-> cards[CHOOSE j \in D : rank(j) = n]]
  BY DEF ByGravity
<1>2. D = 1 .. Len(cards) /\ Len(cards) \in Nat /\ \A i \in D : cards[i] \in S
  OBVIOUS
<1>3. \A i \in D : at(i) \in Nat
  <2>1. pool.gravity \in Seq(Stories) /\ Range(pool.gravity) = pool.hn
    BY PoolIs
  <2>2. \A s \in pool.hn : Place(pool.gravity, s) \in Nat
    BY <2>1, PlaceIs
  <2> QED
    BY <2>2
<1> HIDE DEF D, at
<1>4. IsFiniteSet(D) /\ Cardinality(D) = Len(cards)
  <2>1. /\ IsFiniteSet(1 .. Len(cards))
        /\ Cardinality(1 .. Len(cards)) = IF 1 > Len(cards) THEN 0 ELSE Len(cards) - 1 + 1
    BY <1>2, FS_Interval
  <2>2. (IF 1 > Len(cards) THEN 0 ELSE Len(cards) - 1 + 1) = Len(cards)
    BY <1>2
  <2> QED
    BY <1>2, <2>1, <2>2
<1>5. \A i \in D : i \in Nat
  BY <1>2
<1>6. /\ \A i \in D : ~before(i, i)
      /\ \A i, j, k \in D : before(i, j) /\ before(j, k) => before(i, k)
      /\ \A i, j \in D : i # j => before(i, j) \/ before(j, i)
  BY <1>3, <1>5
<1>7. \A i, j \in D : <<i, j>> \in R <=> before(i, j)
  OBVIOUS
<1>8. R \in SUBSET (D \X D)
  OBVIOUS
<1>9. \A j \in D : {i \in D : <<i, j>> \in R} = {i \in D : before(i, j)}
  BY <1>7
<1> HIDE DEF R, before
<1>10. /\ \A n \in 1 .. Cardinality(D) :
             \E j \in D : Cardinality({i \in D : <<i, j>> \in R}) + 1 = n
       /\ \A j \in D : Cardinality({i \in D : <<i, j>> \in R}) + 1 \in 1 .. Cardinality(D)
       /\ \A j, k \in D :
            Cardinality({i \in D : <<i, j>> \in R}) = Cardinality({i \in D : <<i, k>> \in R})
              => j = k
  <2>1. /\ \A i \in D : <<i, i>> \notin R
        /\ \A i, j, k \in D : <<i, j>> \in R /\ <<j, k>> \in R => <<i, k>> \in R
        /\ \A i, j \in D : i # j => <<i, j>> \in R \/ <<j, i>> \in R
    BY <1>6, <1>7
  <2> QED
    BY <1>4, <1>8, <2>1, RankSurjects
<1>11. /\ \A n \in D : \E j \in D : rank(j) = n
       /\ \A j \in D : rank(j) \in D
  <2>1. D = 1 .. Cardinality(D)
    BY <1>2, <1>4
  <2>2. \A j \in D : rank(j) = Cardinality({i \in D : <<i, j>> \in R}) + 1
    BY <1>9
  <2> HIDE DEF rank
  <2> QED
    BY <1>10, <2>1, <2>2
<1>12. \A j, k \in D : rank(j) = rank(k) => j = k
  <2> SUFFICES ASSUME NEW j \in D, NEW k \in D, rank(j) = rank(k) PROVE j = k
    OBVIOUS
  <2>1. \A m \in D : Cardinality({i \in D : before(i, m)}) \in Nat
    <3> SUFFICES ASSUME NEW m \in D PROVE Cardinality({i \in D : before(i, m)}) \in Nat
      OBVIOUS
    <3> DEFINE some == {i \in D : before(i, m)}
    <3>1. some \in SUBSET D
      OBVIOUS
    <3> HIDE DEF some
    <3>2. Cardinality(some) \in Nat
      BY <1>4, <3>1, FS_Subset, FS_CardinalityType
    <3> QED
      BY <3>2 DEF some
  <2>2. Cardinality({i \in D : before(i, j)}) = Cardinality({i \in D : before(i, k)})
    <3> DEFINE below(m) == Cardinality({i \in D : before(i, m)})
    <3>1. below(j) \in Nat /\ below(k) \in Nat /\ below(j) + 1 = below(k) + 1
      BY <2>1
    <3> HIDE DEF below
    <3>2. below(j) = below(k)
      BY <3>1
    <3> QED
      BY <3>2 DEF below
  <2> QED
    BY <1>9, <1>10, <2>2
<1> DEFINE from(n) == CHOOSE j \in D : rank(j) = n
<1>13. \A n \in D : from(n) \in D /\ rank(from(n)) = n
  BY <1>11
<1>14. \A n \in D : new[n] = cards[from(n)]
  BY <1>1
<1>15. \A j \in D : from(rank(j)) = j
  BY <1>11, <1>12, <1>13
<1> HIDE DEF rank, from, new
<1>16. new \in [D -> S]
  <2>1. DOMAIN new = D /\ new = [n \in D |-> new[n]]
    BY <1>1
  <2>2. \A n \in D : new[n] \in S
    BY <1>2, <1>13, <1>14
  <2> QED
    BY <2>1, <2>2
<1>17. new \in Seq(S) /\ DOMAIN new = D
  BY <1>2, <1>16, ListIs
<1>18. \A c \in Range(cards) : c \in Range(new)
  <2> SUFFICES ASSUME NEW j \in D PROVE cards[j] \in Range(new)
    BY DEF Range, D
  <2> QED
    BY <1>11, <1>14, <1>15, <1>17 DEF Range
<1>19. ASSUME Distinct(cards) PROVE Distinct(new)
  <2> SUFFICES ASSUME NEW m \in D, NEW n \in D, new[m].story = new[n].story PROVE m = n
    BY <1>17 DEF Distinct
  <2>1. from(m) = from(n)
    BY <1>13, <1>14, <1>19 DEF Distinct, D
  <2> QED
    BY <1>13, <2>1
<1> QED
  BY <1>17, <1>18, <1>19 DEF new

\* The arms of a draft, and 0 without one: the far card is not placed yet.
Unplaced(views) == \A c \in Shelf(views) : c.arm \in Nat

LEMMA CanonicalSound ==
  ASSUME pool \in Pools, \A x \in Windows : Sound(deck[x], x) /\ Fresh(deck[x]), NEW w \in Windows
  PROVE  Sound(Canonicalized[w], w) /\ Unplaced(Canonicalized[w])
<1> DEFINE f == OutcomeOf
           D == Range(DeckStories)
           kept(c) == /\ f[c.story] # Dropped
                      /\ f[c.story] = c.story \/ InWindow(f[c.story], w, clock)
           set == [v \in Views |-> {c \in Range(deck[w][v]) : kept(c)}]
           left(v) == Only(deck[w][v], set[v])
           new(v) == [i \in DOMAIN left(v) |-> [left(v)[i] EXCEPT !.story = f[@]]]
           views == Canonicalized[w]
<1>1. \A v \in Views : views[v] = IF v = "popular" THEN ByGravity(new(v)) ELSE new(v)
  BY DEF Canonicalized, MapViews
<1>2. DOMAIN views = Views /\ views = [v \in Views |-> views[v]]
  BY DEF Canonicalized, MapViews
<1>3. /\ f \in [D -> Stories \cup {Dropped}]
      /\ \A s, t \in D : f[s] # Dropped /\ f[s] = f[t] => s = t
  BY OutcomeOfIs
<1>4. deck[w] \in ViewsSet /\ StoryOnce(deck[w]) /\ Placed(deck[w], w) /\ Fresh(deck[w])
  BY DEF Sound
<1>5. D \in SUBSET Stories /\ \A v \in Views : \A c \in Range(deck[w][v]) : c.story \in D
  <2> DEFINE all == UNION {StoriesOf(deck[x][v]) : x \in Windows, v \in Views}
  <2>1. pool.ranked \in Seq(Stories) /\ IsInjective(pool.ranked)
    BY PoolIs
  <2>4. \A v \in Views : StoriesOf(deck[w][v]) \subseteq all
    OBVIOUS
  <2>2. \A v \in Views : \A c \in Range(deck[w][v]) : c.story \in all
    <3> HIDE DEF all
    <3> QED
      BY <2>4 DEF StoriesOf
  <2> HIDE DEF all
  <2>3. D = Range(pool.ranked) \cap all
    BY <2>1, OnlyRange DEF DeckStories, all
  <2>5. Range(pool.ranked) \subseteq Stories
    BY <2>1 DEF Range
  <2>6. \A v \in Views : \A c \in Range(deck[w][v]) : c.story \in Range(pool.ranked)
    BY <1>4 DEF Fresh
  <2> HIDE DEF D
  <2> QED
    BY <2>2, <2>3, <2>5, <2>6
<1>6. \A v \in Views : set[v] \in SUBSET CardSet /\ \A c \in set[v] : kept(c)
  BY <1>4, ShelfIs
<1> HIDE DEF f, D, set, views
<1>7. ASSUME NEW v \in Views
      PROVE  /\ new(v) \in Seq(CardSet) /\ Distinct(new(v))
             /\ \A c \in Range(new(v)) : \E d \in Range(deck[w][v]) :
                  d \in set[v] /\ c.story = f[d.story] /\ c.of = d.of /\ c.arm = d.arm
  <2>1. deck[w][v] \in Seq(CardSet) /\ Distinct(deck[w][v])
    BY <1>4, ShelfIs DEF StoryOnce
  <2>2. \A c \in set[v] : c \in Range(deck[w][v]) => f[c.story] # Dropped
    BY <1>6
  <2>3. \A c \in Range(deck[w][v]) : c.story \in D
    BY <1>5
  <2>4. new(v) = Remap(deck[w][v], set[v], f)
    BY DEF Remap
  <2>6. set[v] \in SUBSET CardSet
    BY <1>6
  <2>7. D \in SUBSET Stories
    BY <1>5
  <2> HIDE DEF kept, left, new
  <2> DEFINE cards == deck[w][v]
             some == set[v]
  <2>8. /\ cards \in Seq(CardSet) /\ Distinct(cards) /\ some \in SUBSET CardSet
        /\ \A c \in Range(cards) : c.story \in D
        /\ \A c \in some : c \in Range(cards) => f[c.story] # Dropped
    BY <2>1, <2>2, <2>3, <2>6
  <2> HIDE DEF cards, some
  <2>9. Apart(f, D)
    BY <1>3 DEF Apart
  <2>10. Followed(Remap(cards, some, f), cards, some, f)
    BY <1>3, <2>7, <2>8, <2>9, Remapped
  <2> QED
    BY <2>4, <2>10 DEF cards, some, Followed
<1> HIDE DEF new, left
<1>8. \A v \in Views : views[v] \in Seq(CardSet) /\ Distinct(views[v])
  BY <1>1, <1>7, ByGravityIs
<1>9. views \in ViewsSet
  BY <1>2, <1>8 DEF ViewsSet
<1>10. \A c \in Range(views["recommended"]) : \E d \in Range(deck[w]["recommended"]) :
         kept(d) /\ c.story = f[d.story] /\ c.of = d.of /\ c.arm = d.arm
  <2> HIDE DEF kept
  <2> QED
    BY <1>1, <1>6, <1>7, ViewsAre
<1>11. \A c \in Range(views["explore"]) : \E d \in Range(deck[w]["explore"]) :
         kept(d) /\ c.story = f[d.story] /\ c.of = d.of /\ c.arm = d.arm
  <2> HIDE DEF kept
  <2> QED
    BY <1>1, <1>6, <1>7, ViewsAre
<1>12. \A c \in Range(views["recommended"]), d \in Range(views["explore"]) : c.story # d.story
  <2> SUFFICES ASSUME NEW c \in Range(views["recommended"]), NEW d \in Range(views["explore"]),
                      c.story = d.story
               PROVE  FALSE
    OBVIOUS
  <2>1. PICK x \in Range(deck[w]["recommended"]) : kept(x) /\ c.story = f[x.story]
    BY <1>10
  <2>2. PICK y \in Range(deck[w]["explore"]) : kept(y) /\ d.story = f[y.story]
    BY <1>11
  <2>3. x.story \in D /\ y.story \in D
    BY <1>5, ViewsAre
  <2>4. x.story = y.story
    BY <1>3, <2>1, <2>2, <2>3
  <2> QED
    BY <1>4, <2>4 DEF StoryOnce
<1>13. StoryOnce(views)
  BY <1>8, <1>12 DEF StoryOnce
<1>14. \A c \in Shelf(views) : \E d \in Shelf(deck[w]) :
         kept(d) /\ c.story = f[d.story] /\ c.of = d.of /\ c.arm = d.arm
  <2> HIDE DEF kept
  <2> QED
    BY <1>10, <1>11 DEF Shelf
<1>15. \A d \in Shelf(deck[w]) : d.story = d.of /\ d.arm = 0
  BY <1>4, ViewsAre DEF Fresh, Shelf
<1>16. Placed(views, w)
  <2>1. \A c, d \in Shelf(views) : c.of = d.of => c.story = d.story
    <3> HIDE DEF kept
    <3> QED
      BY <1>14, <1>15
  <2>2. \A c \in Shelf(views) :
          c.of \in Range(pool.ranked) /\ (w = Archive => InWindow(c.story, w, clock))
    <3> SUFFICES ASSUME NEW c \in Shelf(views)
                 PROVE  c.of \in Range(pool.ranked) /\ (w = Archive => InWindow(c.story, w, clock))
      OBVIOUS
    <3>1. PICK d \in Shelf(deck[w]) : kept(d) /\ c.story = f[d.story] /\ c.of = d.of
      BY <1>14
    <3>2. d.of \in Range(pool.ranked) /\ (w = Archive => InWindow(d.story, w, clock))
      BY <1>4 DEF Placed
    <3> QED
      BY <3>1, <3>2
  <2> QED
    BY <2>1, <2>2 DEF Placed
<1>17. Unplaced(views)
  BY <1>14, <1>15 DEF Unplaced
<1> QED
  BY <1>9, <1>13, <1>16, <1>17 DEF Sound, views

-----------------------------------------------------------------------------
(* Drafting                                                                *)

PicksOf(orders) == Seq([story : Stories, arm : 1 .. Len(orders)])

\* The stories an arm may add.
FreeOf(orders, picks, arm) ==
  Only(orders[arm], Range(orders[arm]) \ {p.story : p \in Range(picks)})

\* A turn passes, or adds the arm's best free story.
LEMMA TurnIs ==
  ASSUME NEW orders \in Seq(Seq(Stories)), NEW picks \in PicksOf(orders),
         NEW arm \in 1 .. Len(orders), NEW limit
  PROVE  LET free == FreeOf(orders, picks, arm)
             best == [story |-> Head(free), arm |-> arm]
         IN  /\ free \in Seq(Stories)
             /\ \/ /\ Turn(orders, picks, arm, limit) = picks
                   /\ Len(picks) = limit \/ free = <<>>
                \/ /\ Len(picks) # limit /\ free # <<>>
                   /\ Turn(orders, picks, arm, limit) = Append(picks, best)
                   /\ best \in [story : Stories, arm : 1 .. Len(orders)]
                   /\ best.story \in Range(orders[arm]) /\ best.story \notin {p.story : p \in Range(picks)}
<1> DEFINE free == FreeOf(orders, picks, arm)
           taken == {p.story : p \in Range(picks)}
           best == [story |-> Head(free), arm |-> arm]
<1>1. orders[arm] \in Seq(Stories)
  OBVIOUS
<1>2. free \in Seq(Stories) /\ Range(free) = Range(orders[arm]) \ taken
  BY <1>1, OnlyRange DEF FreeOf
<1>3. Turn(orders, picks, arm, limit) =
        IF Len(picks) = limit \/ free = <<>> THEN picks ELSE Append(picks, best)
  BY DEF Turn, FreeOf
<1> HIDE DEF free, taken
<1>4. CASE free # <<>>
  <2>1. Head(free) \in Stories /\ Head(free) = free[1] /\ 1 \in DOMAIN free
    BY <1>2, <1>4
  <2>2. Head(free) \in Range(orders[arm]) \ taken
    BY <1>2, <2>1 DEF Range
  <2> QED
    BY <1>2, <1>3, <1>4, <2>1, <2>2 DEF free, taken
<1>5. CASE free = <<>>
  BY <1>2, <1>3, <1>5 DEF free
<1> QED
  BY <1>4, <1>5

LEMMA TurnPicks ==
  ASSUME NEW orders \in Seq(Seq(Stories)), NEW picks \in PicksOf(orders),
         NEW arm \in 1 .. Len(orders), NEW limit
  PROVE  Turn(orders, picks, arm, limit) \in PicksOf(orders)
<1> DEFINE best == [story |-> Head(FreeOf(orders, picks, arm)), arm |-> arm]
<1>1. \/ Turn(orders, picks, arm, limit) = picks
      \/ /\ Turn(orders, picks, arm, limit) = Append(picks, best)
         /\ best \in [story : Stories, arm : 1 .. Len(orders)]
  BY TurnIs
<1>2. picks \in Seq([story : Stories, arm : 1 .. Len(orders)])
  BY DEF PicksOf
<1> HIDE DEF best
<1> DEFINE S == [story : Stories, arm : 1 .. Len(orders)]
<1>3. best \in S => Append(picks, best) \in Seq(S)
  <2>1. picks \in Seq(S)
    BY <1>2
  <2> HIDE DEF S
  <2> QED
    BY <2>1
<1> QED
  BY <1>1, <1>2, <1>3 DEF PicksOf

\* What every turn of a round leads from and to, the round does.
LEMMA RoundIn ==
  ASSUME NEW orders \in Seq(Seq(Stories)), NEW order \in Seq(1 .. Len(orders)), NEW limit,
         NEW T \in [0 .. Len(order) -> SUBSET PicksOf(orders)], NEW picks \in T[0],
         \A m \in 0 .. Len(order) - 1 : \A p \in T[m] :
           Turn(orders, p, order[m + 1], limit) \in T[m + 1]
  PROVE  Round(orders, picks, order, limit) \in T[Len(order)]
<1> DEFINE N == Len(order)
           P == PicksOf(orders)
           turn(p, n) == Turn(orders, p, order[n], limit)
           G == [p \in P \X (1 .. N) |-> turn(p[1], p[2])]
<1>0. N \in Nat /\ picks \in P /\ \A n \in 1 .. N : order[n] \in 1 .. Len(orders)
  <2>1. N \in Nat /\ \A n \in 1 .. N : order[n] \in 1 .. Len(orders)
    <3> DEFINE arms == 1 .. Len(orders)
    <3>1. order \in Seq(arms)
      OBVIOUS
    <3> HIDE DEF arms
    <3>2. Len(order) \in Nat /\ \A n \in 1 .. Len(order) : order[n] \in arms
      BY <3>1
    <3> QED
      BY <3>2 DEF arms
  <2>2. 0 \in 0 .. N
    BY <2>1
  <2>3. picks \in P
    BY <2>2
  <2> QED
    BY <2>1, <2>3
<1>1. \A p \in P, n \in 1 .. N : turn(p, n) \in P
  BY <1>0, TurnPicks
<1> HIDE DEF turn, P
<1>2. /\ G \in [P \X (1 .. N) -> P]
      /\ \A p \in P, n \in 1 .. N : G[<<p, n>>] = turn(p, n)
  BY <1>1
<1> HIDE DEF G
<1>3. PICK f : Recurses(f, P, picks, N, G)
  <2> HIDE DEF N
  <2> QED
    BY <1>0, <1>2, Recursion, Zenon
<1>4. f \in [0 .. N -> P] /\ f[0] = picks /\ \A n \in 1 .. N : f[n] = turn(f[n - 1], n)
  <2>1. \A i \in 1 .. N : i - 1 \in 0 .. N
    BY <1>0
  <2>2. f \in [0 .. N -> P]
    BY <1>3 DEF Recurses
  <2> HIDE DEF N
  <2> QED
    BY <1>2, <1>3, <2>1, <2>2 DEF Recurses
<1> DEFINE R(g) == [n \in 0 .. N |-> IF n = 0 THEN picks ELSE turn(g[n - 1], n)]
           after == CHOOSE g : g = R(g)
<1>5. f = R(f)
  <2>1. \A n \in 0 .. N : n = 0 \/ n \in 1 .. N
    BY <1>0
  <2> HIDE DEF N
  <2> QED
    BY <1>4, <2>1
<1>6. after = R(after)
  <2> HIDE DEF N
  <2> QED
    BY <1>5
<1>7. Round(orders, picks, order, limit) = after[N]
  BY DEF Round, turn
<1> HIDE DEF after
<1>8. after[0] = picks
  BY <1>0, <1>6
<1>9. \A n \in 1 .. N : after[n] = turn(after[n - 1], n)
  <2>1. \A n \in 1 .. N : n \in 0 .. N /\ n # 0
    BY <1>0
  <2> HIDE DEF N
  <2> QED
    BY <1>6, <2>1
<1> DEFINE S == {n \in 0 .. N : after[n] \in T[n]}
<1>10. 0 \in S
  BY <1>0, <1>8
<1>11. ASSUME NEW n \in 0 .. N - 1, n \in S PROVE n + 1 \in S
  <2>1. n + 1 \in 1 .. N /\ n + 1 \in 0 .. N /\ n + 1 - 1 = n
    BY <1>0
  <2>2. after[n + 1] = turn(after[n], n + 1)
    BY <1>9, <2>1
  <2>3. after[n] \in T[n]
    BY <1>11
  <2>4. turn(after[n], n + 1) \in T[n + 1]
    BY <2>3 DEF turn
  <2> QED
    BY <2>1, <2>2, <2>4
<1>12. N \in S
  <2> HIDE DEF S, N
  <2>1. \A n \in 0 .. N : n \in S
    BY <1>0, <1>10, <1>11, InductiveTo
  <2> QED
    BY <1>0, <2>1
<1> QED
  BY <1>7, <1>12

\* And what every round does, the draft does.
LEMMA DrawIn ==
  ASSUME NEW orders \in Seq(Seq(Stories)), NEW turns \in Seq(Seq(1 .. Len(orders))), NEW limit,
         NEW T \in [0 .. Len(turns) -> SUBSET PicksOf(orders)], <<>> \in T[0],
         \A m \in 0 .. Len(turns) - 1 : \A p \in T[m] :
           Round(orders, p, turns[m + 1], limit) \in T[m + 1]
  PROVE  Draw(orders, turns, limit) \in T[Len(turns)]
<1> DEFINE N == Len(turns)
           P == PicksOf(orders)
           round(p, n) == Round(orders, p, turns[n], limit)
           G == [p \in P \X (1 .. N) |-> round(p[1], p[2])]
<1>0. N \in Nat /\ <<>> \in P /\ \A n \in 1 .. N : turns[n] \in Seq(1 .. Len(orders))
  BY DEF PicksOf
<1>1. \A p \in P, n \in 1 .. N : round(p, n) \in P
  <2> SUFFICES ASSUME NEW p \in P, NEW n \in 1 .. N PROVE round(p, n) \in P
    OBVIOUS
  <2> DEFINE order == turns[n]
             all == [m \in 0 .. Len(order) |-> P]
  <2>1. order \in Seq(1 .. Len(orders))
    BY <1>0
  <2> HIDE DEF order
  <2>8. \A m \in 1 .. Len(order) : order[m] \in 1 .. Len(orders)
    <3> DEFINE arms == 1 .. Len(orders)
    <3>1. order \in Seq(arms)
      BY <2>1
    <3> HIDE DEF arms
    <3>2. \A m \in 1 .. Len(order) : order[m] \in arms
      BY <3>1
    <3> QED
      BY <3>2 DEF arms
  <2>2. all \in [0 .. Len(order) -> SUBSET PicksOf(orders)] /\ Len(order) \in Nat
    BY <2>1
  <2>3. \A m \in 0 .. Len(order) : all[m] = P
    OBVIOUS
  <2> HIDE DEF all
  <2>5. \A m \in 0 .. Len(order) - 1 : \A q \in all[m] :
          Turn(orders, q, order[m + 1], limit) \in all[m + 1]
    <3> SUFFICES ASSUME NEW m \in 0 .. Len(order) - 1, NEW q \in all[m]
                 PROVE  Turn(orders, q, order[m + 1], limit) \in all[m + 1]
      OBVIOUS
    <3>1. m \in 0 .. Len(order) /\ m + 1 \in 0 .. Len(order) /\ m + 1 \in 1 .. Len(order)
      BY <2>2
    <3>2. q \in PicksOf(orders)
      BY <2>3, <3>1
    <3>3. order[m + 1] \in 1 .. Len(orders)
      BY <2>8, <3>1
    <3> QED
      BY <2>3, <3>1, <3>2, <3>3, TurnPicks
  <2>6. p \in all[0] /\ Len(order) \in 0 .. Len(order)
    BY <2>2, <2>3
  <2>7. Round(orders, p, order, limit) \in all[Len(order)]
    BY <2>1, <2>2, <2>5, <2>6, RoundIn
  <2> QED
    BY <2>3, <2>6, <2>7 DEF order
<1> HIDE DEF round, P
<1>2. /\ G \in [P \X (1 .. N) -> P]
      /\ \A p \in P, n \in 1 .. N : G[<<p, n>>] = round(p, n)
  BY <1>1
<1> HIDE DEF G
<1>3. PICK f : Recurses(f, P, <<>>, N, G)
  <2> HIDE DEF N
  <2> QED
    BY <1>0, <1>2, Recursion, Zenon
<1>4. f \in [0 .. N -> P] /\ f[0] = <<>> /\ \A n \in 1 .. N : f[n] = round(f[n - 1], n)
  <2>1. \A i \in 1 .. N : i - 1 \in 0 .. N
    BY <1>0
  <2>2. f \in [0 .. N -> P]
    BY <1>3 DEF Recurses
  <2> HIDE DEF N
  <2> QED
    BY <1>2, <1>3, <2>1, <2>2 DEF Recurses
<1> DEFINE R(g) == [n \in 0 .. N |-> IF n = 0 THEN <<>> ELSE round(g[n - 1], n)]
           after == CHOOSE g : g = R(g)
<1>5. f = R(f)
  <2>1. \A n \in 0 .. N : n = 0 \/ n \in 1 .. N
    BY <1>0
  <2> HIDE DEF N
  <2> QED
    BY <1>4, <2>1
<1>6. after = R(after)
  <2> HIDE DEF N
  <2> QED
    BY <1>5
<1>7. Draw(orders, turns, limit) = after[N]
  BY DEF Draw, round
<1> HIDE DEF after
<1>8. after[0] = <<>>
  BY <1>0, <1>6
<1>9. \A n \in 1 .. N : after[n] = round(after[n - 1], n)
  <2>1. \A n \in 1 .. N : n \in 0 .. N /\ n # 0
    BY <1>0
  <2> HIDE DEF N
  <2> QED
    BY <1>6, <2>1
<1> DEFINE S == {n \in 0 .. N : after[n] \in T[n]}
<1>10. 0 \in S
  BY <1>0, <1>8
<1>11. ASSUME NEW n \in 0 .. N - 1, n \in S PROVE n + 1 \in S
  <2>1. n + 1 \in 1 .. N /\ n + 1 \in 0 .. N /\ n + 1 - 1 = n
    BY <1>0
  <2>2. after[n + 1] = round(after[n], n + 1)
    BY <1>9, <2>1
  <2>3. after[n] \in T[n]
    BY <1>11
  <2>4. round(after[n], n + 1) \in T[n + 1]
    BY <2>3 DEF round
  <2> QED
    BY <2>1, <2>2, <2>4
<1>12. N \in S
  <2> HIDE DEF S, N
  <2>1. \A n \in 0 .. N : n \in S
    BY <1>0, <1>10, <1>11, InductiveTo
  <2> QED
    BY <1>0, <2>1
<1> QED
  BY <1>7, <1>12

LEMMA AppendDistinct ==
  ASSUME NEW S, NEW cards \in Seq(S), Distinct(cards), NEW x \in S,
         \A i \in DOMAIN cards : cards[i].story # x.story
  PROVE  Distinct(Append(cards, x))
<1> DEFINE more == Append(cards, x)
<1>1. /\ Len(cards) \in Nat /\ DOMAIN cards = 1 .. Len(cards)
      /\ DOMAIN more = 1 .. Len(cards) + 1 /\ more[Len(cards) + 1] = x
      /\ \A i \in 1 .. Len(cards) : more[i] = cards[i]
  OBVIOUS
<1> HIDE DEF more
<1>2. \A i \in 1 .. Len(cards) + 1 : i \in 1 .. Len(cards) \/ i = Len(cards) + 1
  BY <1>1
<1>3. \A i, j \in 1 .. Len(cards) + 1 : more[i].story = more[j].story => i = j
  BY <1>1, <1>2 DEF Distinct
<1> QED
  BY <1>1, <1>3 DEF Distinct, more

\* Each pick comes from the order of its arm.
Own(orders, picks) == \A i \in DOMAIN picks : picks[i].story \in Range(orders[picks[i].arm])

LEMMA DrawnOnce ==
  ASSUME NEW orders \in Seq(Seq(Stories)), NEW turns \in Seq(Seq(1 .. Len(orders))), NEW limit
  PROVE  LET picks == Draw(orders, turns, limit)
         IN  picks \in PicksOf(orders) /\ Distinct(picks) /\ Own(orders, picks)
<1> DEFINE Good == {p \in PicksOf(orders) : Distinct(p) /\ Own(orders, p)}
           all(N) == [m \in 0 .. N |-> Good]
<1>1. ASSUME NEW p \in Good, NEW a \in 1 .. Len(orders)
      PROVE  Turn(orders, p, a, limit) \in Good
  <2> DEFINE S == [story : Stories, arm : 1 .. Len(orders)]
             best == [story |-> Head(FreeOf(orders, p, a)), arm |-> a]
             taken == {q.story : q \in Range(p)}
             new == Turn(orders, p, a, limit)
  <2>1. p \in Seq(S) /\ Distinct(p) /\ Own(orders, p) /\ p \in PicksOf(orders)
    BY DEF PicksOf
  <2>2. \/ new = p
        \/ new = Append(p, best) /\ best \in S /\ best.story \in Range(orders[a])
           /\ best.story \notin taken
    BY <2>1, TurnIs
  <2>3. CASE new = p
    BY <2>3
  <2>4. CASE new # p
    <3>1. /\ new = Append(p, best) /\ best \in S
          /\ best.story \in Range(orders[best.arm]) /\ best.story \notin taken
      BY <2>2, <2>4
    <3> HIDE DEF best, S, new
    <3>2. /\ Len(p) \in Nat /\ DOMAIN p = 1 .. Len(p)
          /\ new \in Seq(S) /\ DOMAIN new = 1 .. Len(p) + 1 /\ new[Len(p) + 1] = best
          /\ \A i \in 1 .. Len(p) : new[i] = p[i]
      BY <2>1, <3>1
    <3>3. \A i \in DOMAIN p : p[i].story # best.story
      BY <3>1 DEF Range
    <3>4. Distinct(new)
      BY <2>1, <3>1, <3>3, AppendDistinct
    <3>5. Own(orders, new)
      <4>1. \A i \in 1 .. Len(p) + 1 : i \in 1 .. Len(p) \/ i = Len(p) + 1
        BY <3>2
      <4> QED
        BY <2>1, <3>1, <3>2, <4>1 DEF Own
    <3> QED
      BY <3>2, <3>4, <3>5 DEF PicksOf, S, new
  <2> QED
    BY <2>3, <2>4
<1>2. Good \subseteq PicksOf(orders)
  OBVIOUS
<1>3. <<>> \in Good
  BY DEF PicksOf, Distinct, Own
<1> HIDE DEF Good
<1>4. ASSUME NEW p \in Good, NEW order \in Seq(1 .. Len(orders))
      PROVE  Round(orders, p, order, limit) \in Good
  <2>1. Len(order) \in Nat /\ \A m \in 1 .. Len(order) : order[m] \in 1 .. Len(orders)
    <3> DEFINE arms == 1 .. Len(orders)
    <3>1. order \in Seq(arms)
      OBVIOUS
    <3> HIDE DEF arms
    <3>2. Len(order) \in Nat /\ \A n \in 1 .. Len(order) : order[n] \in arms
      BY <3>1
    <3> QED
      BY <3>2 DEF arms
  <2> DEFINE T == all(Len(order))
  <2>2. /\ T \in [0 .. Len(order) -> SUBSET PicksOf(orders)]
        /\ \A m \in 0 .. Len(order) : T[m] = Good
    BY <1>2
  <2>3. \A m \in 0 .. Len(order) - 1 :
          m \in 0 .. Len(order) /\ m + 1 \in 0 .. Len(order) /\ m + 1 \in 1 .. Len(order)
    BY <2>1
  <2>4. 0 \in 0 .. Len(order) /\ Len(order) \in 0 .. Len(order)
    BY <2>1
  <2> HIDE DEF T
  <2>5. \A m \in 0 .. Len(order) - 1 : \A q \in T[m] :
          Turn(orders, q, order[m + 1], limit) \in T[m + 1]
    BY <1>1, <2>1, <2>2, <2>3
  <2>6. Round(orders, p, order, limit) \in T[Len(order)]
    BY <2>2, <2>4, <2>5, RoundIn
  <2> QED
    BY <2>2, <2>4, <2>6
<1>5. Draw(orders, turns, limit) \in Good
  <2> DEFINE T == all(Len(turns))
             Some == Seq(1 .. Len(orders))
  <2>1. Len(turns) \in Nat /\ \A m \in 1 .. Len(turns) : turns[m] \in Some
    <3> HIDE DEF Some
    <3> QED
      BY DEF Some
  <2>2. /\ T \in [0 .. Len(turns) -> SUBSET PicksOf(orders)]
        /\ \A m \in 0 .. Len(turns) : T[m] = Good
    BY <1>2
  <2>3. \A m \in 0 .. Len(turns) - 1 :
          m \in 0 .. Len(turns) /\ m + 1 \in 0 .. Len(turns) /\ m + 1 \in 1 .. Len(turns)
    BY <2>1
  <2>4. 0 \in 0 .. Len(turns) /\ Len(turns) \in 0 .. Len(turns)
    BY <2>1
  <2> HIDE DEF T
  <2>5. \A m \in 0 .. Len(turns) - 1 : \A q \in T[m] :
          Round(orders, q, turns[m + 1], limit) \in T[m + 1]
    BY <1>4, <2>1, <2>2, <2>3
  <2>6. Draw(orders, turns, limit) \in T[Len(turns)]
    BY <1>3, <2>2, <2>4, <2>5, DrawIn
  <2> QED
    BY <2>2, <2>4, <2>6
<1> QED
  BY <1>5 DEF Good

LEMMA OrdersAre ==
  ASSUME pool \in Pools, NEW cards \in Seq(CardSet)
  PROVE  /\ Orders(cards) \in Seq(Seq(Stories)) /\ Len(Orders(cards)) = Len(pool.arms) + 1
         /\ \A a \in 1 .. Len(Orders(cards)) : Range(Orders(cards)[a]) \subseteq StoriesOf(cards)
<1> DEFINE ids == [i \in DOMAIN cards |-> cards[i].story]
           rest == [a \in DOMAIN pool.arms |-> Only(pool.arms[a], Range(ids))]
           orders == Orders(cards)
<1>1. Len(cards) \in Nat /\ DOMAIN cards = 1 .. Len(cards) /\ \A i \in 1 .. Len(cards) : cards[i].story \in Stories
  <2>1. Len(cards) \in Nat /\ DOMAIN cards = 1 .. Len(cards) /\ \A i \in 1 .. Len(cards) : cards[i] \in CardSet
    OBVIOUS
  <2> QED
    BY <2>1 DEF CardSet
<1>2. ids \in [1 .. Len(cards) -> Stories] /\ Range(ids) \subseteq StoriesOf(cards)
  BY <1>1 DEF Range, StoriesOf
<1>3. orders = <<ids>> \o rest
  BY DEF Orders
<1> HIDE DEF ids
<1>4. ids \in Seq(Stories)
  BY <1>1, <1>2, ListIs
<1>5. Len(pool.arms) \in Nat /\ DOMAIN pool.arms = 1 .. Len(pool.arms)
      /\ \A a \in 1 .. Len(pool.arms) : pool.arms[a] \in Seq(Stories)
  BY PoolIs
<1>6. \A a \in 1 .. Len(pool.arms) :
        /\ Only(pool.arms[a], Range(ids)) \in Seq(Stories)
        /\ Range(Only(pool.arms[a], Range(ids))) \subseteq Range(ids)
  <2> SUFFICES ASSUME NEW a \in 1 .. Len(pool.arms)
               PROVE  /\ Only(pool.arms[a], Range(ids)) \in Seq(Stories)
                      /\ Range(Only(pool.arms[a], Range(ids))) \subseteq Range(ids)
    OBVIOUS
  <2>1. pool.arms[a] \in Seq(Stories)
    BY <1>5
  <2>2. Range(Only(pool.arms[a], Range(ids))) = Range(pool.arms[a]) \cap Range(ids)
    BY <2>1, OnlyRange
  <2> QED
    BY <2>1, <2>2, OnlyRange
<1>7. /\ rest \in [1 .. Len(pool.arms) -> Seq(Stories)]
      /\ \A a \in 1 .. Len(pool.arms) : Range(rest[a]) \subseteq Range(ids)
  BY <1>5, <1>6
<1> HIDE DEF rest, orders
<1>8. rest \in Seq(Seq(Stories)) /\ Len(rest) = Len(pool.arms)
  BY <1>5, <1>7, ListIs
<1> DEFINE L == Seq(Stories)
<1>9. /\ orders \in Seq(L) /\ Len(orders) = Len(pool.arms) + 1
      /\ \A a \in 1 .. Len(pool.arms) + 1 : orders[a] = IF a = 1 THEN ids ELSE rest[a - 1]
  <2>1. ids \in L /\ rest \in Seq(L)
    BY <1>4, <1>8
  <2> HIDE DEF L
  <2> QED
    BY <1>3, <1>5, <1>8, <2>1
<1>10. \A a \in 1 .. Len(pool.arms) + 1 : a = 1 \/ a - 1 \in 1 .. Len(pool.arms)
  BY <1>5
<1>11. \A a \in 1 .. Len(pool.arms) + 1 : Range(orders[a]) \subseteq StoriesOf(cards)
  BY <1>2, <1>7, <1>9, <1>10
<1> QED
  BY <1>9, <1>11 DEF orders

LEMMA RoundsAre ==
  ASSUME pool \in Pools, NEW turns \in Rounds
  PROVE  turns \in Seq(Seq(1 .. Len(pool.arms) + 1))
<1> DEFINE arms == 1 .. Len(pool.arms) + 1
           D == 1 .. Cardinality(arms)
<1>1. IsFiniteSet(arms) /\ Cardinality(arms) \in Nat
  <2>1. Len(pool.arms) \in Nat
    BY PoolIs
  <2>2. IsFiniteSet(arms)
    BY <2>1, FS_Interval
  <2> QED
    BY <2>2, FS_CardinalityType
<1>2. \A f \in SetToSeqs(arms) : f \in [D -> arms]
  BY DEF SetToSeqs
<1> HIDE DEF arms
<1>3. \A f \in SetToSeqs(arms) : f \in Seq(arms)
  BY <1>1, <1>2, ListIs
<1>4. turns \in [1 .. ViewSize * Margin -> Seq(arms)]
  BY <1>3 DEF Rounds, arms
<1> QED
  BY <1>4, Sizes, ListIs DEF arms

LEMMA DraftSound ==
  ASSUME pool \in Pools, NEW w \in Windows, Sound(deck[w], w), Unplaced(deck[w]),
         NEW turns \in Rounds
  PROVE  Sound(Drafted(turns)[w], w) /\ Unplaced(Drafted(turns)[w])
<1> DEFINE cards == deck[w]["recommended"]
           orders == Orders(cards)
           picks == Draw(orders, turns, ViewSize * Margin)
           card(s) == CHOOSE c \in Range(cards) : c.story = s
           new == [i \in DOMAIN picks |-> [card(picks[i].story) EXCEPT !.arm = picks[i].arm]]
           views == Drafted(turns)[w]
<1>1. views = [v \in Views |-> IF v = "recommended" THEN new ELSE deck[w][v]]
  <2>1. views = [v \in Views |->
          IF v = "recommended"
            THEN [i \in DOMAIN Draw(Orders(deck[w][v]), turns, ViewSize * Margin) |->
                    [(CHOOSE c \in Range(deck[w][v]) :
                        c.story = Draw(Orders(deck[w][v]), turns, ViewSize * Margin)[i].story)
                     EXCEPT !.arm = Draw(Orders(deck[w][v]), turns, ViewSize * Margin)[i].arm]]
            ELSE deck[w][v]]
    BY DEF Drafted, MapViews
  <2> QED
    BY <2>1
<1>2. /\ deck[w] \in ViewsSet /\ StoryOnce(deck[w]) /\ cards \in Seq(CardSet)
      /\ Range(cards) \subseteq CardSet
  BY ShelfIs, ViewsAre DEF Sound
<1>3. /\ orders \in Seq(Seq(Stories)) /\ Len(orders) = Len(pool.arms) + 1
      /\ \A a \in 1 .. Len(orders) : Range(orders[a]) \subseteq StoriesOf(cards)
  BY <1>2, OrdersAre
<1>4. turns \in Seq(Seq(1 .. Len(orders)))
  BY <1>3, RoundsAre
<1> HIDE DEF orders
<1>5. picks \in PicksOf(orders) /\ Distinct(picks) /\ Own(orders, picks)
  BY <1>3, <1>4, DrawnOnce
<1> HIDE DEF picks
<1>6. /\ Len(picks) \in Nat /\ DOMAIN picks = 1 .. Len(picks)
      /\ \A i \in 1 .. Len(picks) : picks[i] \in [story : Stories, arm : 1 .. Len(orders)]
  <2> DEFINE S == [story : Stories, arm : 1 .. Len(orders)]
  <2>1. picks \in Seq(S)
    BY <1>5 DEF PicksOf
  <2> HIDE DEF S
  <2>2. /\ Len(picks) \in Nat /\ DOMAIN picks = 1 .. Len(picks)
        /\ \A i \in 1 .. Len(picks) : picks[i] \in S
    BY <2>1
  <2> QED
    BY <2>2 DEF S
<1>7. \A i \in 1 .. Len(picks) : picks[i].story \in StoriesOf(cards) /\ picks[i].arm \in Nat
  <2> SUFFICES ASSUME NEW i \in 1 .. Len(picks)
               PROVE  picks[i].story \in StoriesOf(cards) /\ picks[i].arm \in Nat
    OBVIOUS
  <2>1. picks[i].arm \in 1 .. Len(orders) /\ picks[i].story \in Range(orders[picks[i].arm])
    BY <1>5, <1>6 DEF Own
  <2>2. picks[i].arm \in Nat
    BY <2>1
  <2> QED
    BY <1>3, <2>1, <2>2
<1>8. \A i \in 1 .. Len(picks) :
        card(picks[i].story) \in Range(cards) /\ card(picks[i].story).story = picks[i].story
  BY <1>7 DEF StoriesOf
<1>9. ASSUME NEW i \in 1 .. Len(picks)
      PROVE  /\ new[i] \in CardSet /\ new[i].arm \in Nat /\ new[i].story = picks[i].story
             /\ \E d \in Range(cards) : new[i].story = d.story /\ new[i].of = d.of
  <2> DEFINE d == card(picks[i].story)
  <2>1. d \in Range(cards) /\ d.story = picks[i].story /\ d \in CardSet /\ picks[i].arm \in Nat
    BY <1>2, <1>7, <1>8
  <2>2. new[i] = [d EXCEPT !.arm = picks[i].arm]
    BY <1>6
  <2> HIDE DEF d, new
  <2>3. /\ new[i] \in CardSet /\ new[i].arm = picks[i].arm
        /\ new[i].story = d.story /\ new[i].of = d.of
    BY <2>1, <2>2 DEF CardSet
  <2> QED
    BY <2>1, <2>3
<1>10. new = [i \in 1 .. Len(picks) |-> new[i]]
  BY <1>6
<1> HIDE DEF new, card, views, cards
<1>11. new \in Seq(CardSet) /\ DOMAIN new = 1 .. Len(picks)
  <2>1. new \in [1 .. Len(picks) -> CardSet]
    BY <1>9, <1>10
  <2> QED
    BY <1>6, <2>1, ListIs
<1>12. Distinct(new)
  BY <1>5, <1>6, <1>9, <1>11 DEF Distinct
<1>13. \A c \in Range(new) :
         c.arm \in Nat /\ \E d \in Range(cards) : c.story = d.story /\ c.of = d.of
  BY <1>9, <1>11 DEF Range
<1>14. /\ views["recommended"] = new /\ views["popular"] = deck[w]["popular"]
       /\ views["explore"] = deck[w]["explore"] /\ views = [v \in Views |-> views[v]]
  BY <1>1, ViewsAre
<1>15. views \in ViewsSet
  BY <1>2, <1>11, <1>14, ShelfIs, ViewsAre DEF ViewsSet
<1>16. StoryOnce(views)
  BY <1>2, <1>12, <1>13, <1>14, ViewsAre DEF StoryOnce, cards
<1>17. \A c \in Shelf(views) : \E d \in Shelf(deck[w]) : c.story = d.story /\ c.of = d.of
  BY <1>13, <1>14 DEF Shelf, cards
<1>18. Unplaced(views)
  BY <1>13, <1>14 DEF Unplaced, Shelf
<1> QED
  BY <1>15, <1>16, <1>17, <1>18, FewerSound DEF views

-----------------------------------------------------------------------------
(* The far card                                                            *)

\* A name for what the provers take apart.
Joined(a, b) == a \o b

\* A list is gone through in its parts.
LEMMA OnlyConcat ==
  ASSUME NEW S, NEW a \in Seq(S), NEW b \in Seq(S), NEW set
  PROVE  Only(Joined(a, b), set) = Joined(Only(a, set), Only(b, set))
<1> DEFINE c == a \o b
<1>1. /\ Len(a) \in Nat /\ Len(b) \in Nat /\ c \in Seq(S) /\ Len(c) = Len(a) + Len(b)
      /\ \A i \in 1 .. Len(a) : c[i] = a[i]
      /\ \A i \in 1 .. Len(b) : c[Len(a) + i] = b[i] /\ b[i] \in S
  OBVIOUS
<1>2. PICK f :
        /\ f[0] = <<>> /\ Only(a, set) = f[Len(a)]
        /\ \A n \in 1 .. Len(a) : f[n] = IF a[n] \in set THEN Append(f[n - 1], a[n]) ELSE f[n - 1]
  BY OnlyEquation
<1>3. PICK g :
        /\ g[0] = <<>> /\ Only(b, set) = g[Len(b)]
        /\ \A n \in 1 .. Len(b) : g[n] = IF b[n] \in set THEN Append(g[n - 1], b[n]) ELSE g[n - 1]
  BY OnlyEquation
<1>11. c \in Seq(S)
  BY <1>1
<1> HIDE DEF c
<1>4. PICK h :
        /\ h[0] = <<>> /\ Only(c, set) = h[Len(c)]
        /\ \A n \in 1 .. Len(c) : h[n] = IF c[n] \in set THEN Append(h[n - 1], c[n]) ELSE h[n - 1]
  BY <1>11, OnlyEquation
<1>5. \A n \in 0 .. Len(a) : h[n] = f[n]
  <2> DEFINE T == {n \in 0 .. Len(a) : h[n] = f[n]}
  <2>1. 0 \in T
    BY <1>1, <1>2, <1>4
  <2>2. ASSUME NEW n \in 0 .. Len(a) - 1, n \in T PROVE n + 1 \in T
    <3>1. /\ n + 1 \in 1 .. Len(a) /\ n + 1 \in 0 .. Len(a) /\ n + 1 \in 1 .. Len(c)
          /\ n + 1 - 1 = n
      BY <1>1
    <3>2. c[n + 1] = a[n + 1] /\ h[n] = f[n]
      BY <1>1, <2>2, <3>1
    <3>3. h[n + 1] = IF c[n + 1] \in set THEN Append(h[n], c[n + 1]) ELSE h[n]
      BY <1>4, <3>1
    <3>4. f[n + 1] = IF a[n + 1] \in set THEN Append(f[n], a[n + 1]) ELSE f[n]
      BY <1>2, <3>1
    <3> QED
      BY <3>1, <3>2, <3>3, <3>4
  <2>3. \A n \in 0 .. Len(a) : n \in T
    <3> HIDE DEF T
    <3> QED
      BY <1>1, <2>1, <2>2, InductiveTo
  <2> QED
    BY <2>3
<1>6. Only(a, set) \in Seq(S)
  BY OnlyRange
<1> DEFINE front == Only(a, set)
           T == {n \in 0 .. Len(b) : g[n] \in Seq(S) /\ h[Len(a) + n] = front \o g[n]}
<1> HIDE DEF front
<1>7. 0 \in T
  <2>1. h[Len(a)] = front /\ Len(a) + 0 = Len(a)
    BY <1>1, <1>2, <1>5 DEF front
  <2>2. front \o <<>> = front
    BY <1>6 DEF front
  <2>3. g[0] \in Seq(S) /\ h[Len(a) + 0] = front \o g[0]
    <3>1. g[0] = <<>>
      BY <1>3
    <3> QED
      BY <2>1, <2>2, <3>1
  <2> QED
    BY <1>1, <2>3
<1>8. ASSUME NEW n \in 0 .. Len(b) - 1, n \in T PROVE n + 1 \in T
  <2>1. /\ n + 1 \in 1 .. Len(b) /\ n + 1 \in 0 .. Len(b) /\ Len(a) + (n + 1) \in 1 .. Len(c)
        /\ n + 1 - 1 = n /\ Len(a) + (n + 1) - 1 = Len(a) + n
    BY <1>1
  <2>2. c[Len(a) + (n + 1)] = b[n + 1] /\ b[n + 1] \in S
    BY <1>1, <2>1
  <2>3. g[n] \in Seq(S) /\ h[Len(a) + n] = front \o g[n]
    BY <1>8
  <2>4. g[n + 1] = IF b[n + 1] \in set THEN Append(g[n], b[n + 1]) ELSE g[n]
    BY <1>3, <2>1
  <2>5. h[Len(a) + (n + 1)] =
          IF b[n + 1] \in set THEN Append(h[Len(a) + n], b[n + 1]) ELSE h[Len(a) + n]
    BY <1>4, <2>1, <2>2
  <2>6. front \in Seq(S)
    BY <1>6 DEF front
  <2>7. Append(front \o g[n], b[n + 1]) = front \o Append(g[n], b[n + 1])
    <3> DEFINE e == b[n + 1]
               y == g[n]
    <3>1. e \in S /\ y \in Seq(S)
      BY <2>2, <2>3
    <3> HIDE DEF e, y
    <3>2. Append(front \o y, e) = front \o Append(y, e)
      <4> DEFINE p == Append(front \o y, e)
                 q == front \o Append(y, e)
      <4>1. /\ Len(front) \in Nat /\ Len(y) \in Nat /\ front \o y \in Seq(S) /\ Len(front \o y) = Len(front) + Len(y)
            /\ Append(y, e) \in Seq(S) /\ Len(Append(y, e)) = Len(y) + 1
        BY <2>6, <3>1
      <4>2. /\ p \in Seq(S) /\ DOMAIN p = 1 .. Len(front) + Len(y) + 1
            /\ q \in Seq(S) /\ DOMAIN q = 1 .. Len(front) + Len(y) + 1
        BY <2>6, <3>1, <4>1
      <4>3. ASSUME NEW i \in 1 .. Len(front) + Len(y) + 1 PROVE p[i] = q[i]
        <5>1. CASE i \in 1 .. Len(front)
          BY <2>6, <3>1, <4>1, <5>1
        <5>2. CASE i \in Len(front) + 1 .. Len(front) + Len(y)
          <6>1. p[i] = y[i - Len(front)]
            BY <2>6, <3>1, <4>1, <5>2
          <6>2. q[i] = Append(y, e)[i - Len(front)] /\ i - Len(front) \in 1 .. Len(y)
            BY <2>6, <3>1, <4>1, <5>2
          <6>3. \A j \in 1 .. Len(y) : Append(y, e)[j] = y[j]
            BY <2>6, <3>1
          <6> QED
            BY <6>1, <6>2, <6>3
        <5>3. CASE i = Len(front) + Len(y) + 1
          <6>1. p[i] = e
            BY <2>6, <3>1, <4>1, <5>3
          <6>2. q[i] = Append(y, e)[Len(y) + 1]
            BY <2>6, <3>1, <4>1, <5>3
          <6> QED
            BY <6>1, <6>2
        <5> QED
          BY <2>6, <3>1, <4>1, <5>1, <5>2, <5>3
      <4> HIDE DEF p, q
      <4>4. p = q
        BY <4>2, <4>3
      <4> QED
        BY <4>4 DEF p, q
    <3> QED
      BY <3>2 DEF e, y
  <2>8. g[n + 1] \in Seq(S)
    BY <2>2, <2>3, <2>4
  <2>9. h[Len(a) + (n + 1)] = front \o g[n + 1]
    BY <2>3, <2>4, <2>5, <2>7
  <2> QED
    BY <2>1, <2>8, <2>9
<1>9. \A n \in 0 .. Len(b) : n \in T
  <2> HIDE DEF T
  <2> QED
    BY <1>1, <1>7, <1>8, InductiveTo
<1>10. h[Len(a) + Len(b)] = front \o g[Len(b)]
  BY <1>1, <1>9
<1> QED
  BY <1>1, <1>3, <1>4, <1>10 DEF c, front, Joined

\* Nothing is left out, or all.
LEMMA OnlyAll ==
  ASSUME NEW S, NEW list \in Seq(S), NEW set, \A x \in Range(list) : x \in set
  PROVE  Only(list, set) = list
<1>0. Len(list) \in Nat /\ DOMAIN list = 1 .. Len(list) /\ \A i \in 1 .. Len(list) : list[i] \in S
  OBVIOUS
<1>1. PICK f :
        /\ f[0] = <<>> /\ Only(list, set) = f[Len(list)]
        /\ \A n \in 1 .. Len(list) :
             f[n] = IF list[n] \in set THEN Append(f[n - 1], list[n]) ELSE f[n - 1]
  BY OnlyEquation
<1> DEFINE Good(n) == f[n] \in Seq(S) /\ Len(f[n]) = n /\ \A i \in 1 .. n : f[n][i] = list[i]
           T == {n \in 0 .. Len(list) : Good(n)}
<1>2. Good(0)
  BY <1>1
<1>3. ASSUME NEW n \in 0 .. Len(list) - 1, Good(n) PROVE Good(n + 1)
  <2>1. n + 1 \in 1 .. Len(list) /\ n + 1 - 1 = n
    BY <1>0
  <2>2. list[n + 1] \in S /\ list[n + 1] \in set
    BY <1>0, <2>1 DEF Range
  <2>3. f[n + 1] = Append(f[n], list[n + 1])
    <3>1. f[n + 1] = IF list[n + 1] \in set THEN Append(f[n + 1 - 1], list[n + 1]) ELSE f[n + 1 - 1]
      BY <1>1, <2>1
    <3> QED
      BY <2>1, <2>2, <3>1
  <2>4. f[n + 1] \in Seq(S) /\ Len(f[n + 1]) = n + 1 /\ f[n + 1][n + 1] = list[n + 1]
    BY <1>3, <2>2, <2>3
  <2>5. \A i \in 1 .. n : f[n + 1][i] = list[i]
    BY <1>3, <2>2, <2>3
  <2>6. \A i \in 1 .. n + 1 : i \in 1 .. n \/ i = n + 1
    BY <1>0
  <2> QED
    BY <2>4, <2>5, <2>6
<1> HIDE DEF Good
<1>4. 0 \in T /\ \A n \in 0 .. Len(list) - 1 : n \in T => n + 1 \in T
  BY <1>0, <1>2, <1>3
<1>5. \A n \in 0 .. Len(list) : n \in T
  <2> HIDE DEF T
  <2> QED
    BY <1>0, <1>4, InductiveTo
<1>6. Good(Len(list))
  BY <1>0, <1>5
<1>7. f[Len(list)] = list
  BY <1>0, <1>6 DEF Good
<1> QED
  BY <1>1, <1>7

LEMMA OnlyNot ==
  ASSUME NEW S, NEW x \in S, NEW set, x \notin set
  PROVE  Only(<<x>>, set) = <<>>
<1> DEFINE list == <<x>>
<1>1. list \in Seq(S) /\ Len(list) = 1 /\ list[1] = x
  OBVIOUS
<1> HIDE DEF list
<1>2. PICK f :
        /\ f[0] = <<>> /\ Only(list, set) = f[Len(list)]
        /\ \A n \in 1 .. Len(list) :
             f[n] = IF list[n] \in set THEN Append(f[n - 1], list[n]) ELSE f[n - 1]
  BY <1>1, OnlyEquation
<1>3. f[1] = f[0]
  BY <1>1, <1>2
<1> QED
  BY <1>1, <1>2, <1>3 DEF list

\* Lists and the card between them.
LEMMA Between ==
  ASSUME NEW S, NEW a \in Seq(S), NEW x \in S, NEW b \in Seq(S)
  PROVE  LET list == a \o <<x>> \o b
         IN  /\ list \in Seq(S) /\ Range(list) = Range(a) \cup {x} \cup Range(b)
             /\ (/\ Distinct(a) /\ Distinct(b)
                 /\ \A c \in Range(a) \cup Range(b) : c.story # x.story
                 /\ \A c \in Range(a), d \in Range(b) : c.story # d.story)
                => Distinct(list)
<1> DEFINE list == a \o <<x>> \o b
           m == Len(a)
           n == Len(b)
<1>1. /\ m \in Nat /\ n \in Nat /\ DOMAIN a = 1 .. m /\ DOMAIN b = 1 .. n
      /\ list \in Seq(S) /\ Len(list) = m + 1 + n /\ DOMAIN list = 1 .. m + 1 + n
  OBVIOUS
<1>2. /\ \A i \in 1 .. m : list[i] = a[i]
      /\ list[m + 1] = x
      /\ \A i \in 1 .. n : list[m + 1 + i] = b[i]
  OBVIOUS
<1>3. \A i \in 1 .. m + 1 + n : i \in 1 .. m \/ i = m + 1 \/ i - (m + 1) \in 1 .. n
  BY <1>1
<1>4. \A i \in 1 .. n : m + 1 + i \in 1 .. m + 1 + n /\ m + 1 + i - (m + 1) = i
  BY <1>1
<1>5. \A i \in 1 .. m + 1 + n : i - (m + 1) \in 1 .. n => m + 1 + (i - (m + 1)) = i
  BY <1>1
<1>8. \A i \in 1 .. m + 1 + n : i - (m + 1) \in 1 .. n => list[i] = b[i - (m + 1)]
  BY <1>2, <1>5
<1> HIDE DEF list, m, n
<1>6. Range(list) = Range(a) \cup {x} \cup Range(b)
  <2>1. \A c \in Range(list) : c \in Range(a) \cup {x} \cup Range(b)
    <3> SUFFICES ASSUME NEW c \in Range(list) PROVE c \in Range(a) \cup {x} \cup Range(b)
      OBVIOUS
    <3>1. PICK i \in 1 .. m + 1 + n : c = list[i]
      BY <1>1 DEF Range
    <3>2. \/ i \in 1 .. m /\ c = a[i]
          \/ c = x
          \/ i - (m + 1) \in 1 .. n /\ c = b[i - (m + 1)]
      BY <1>2, <1>3, <1>8, <3>1
    <3> QED
      BY <1>1, <3>2 DEF Range
  <2>2. \A c \in Range(a) : c \in Range(list)
    <3>1. \A i \in 1 .. m : i \in 1 .. m + 1 + n
      BY <1>1
    <3> QED
      BY <1>1, <1>2, <3>1 DEF Range
  <2>3. x \in Range(list)
    <3>1. m + 1 \in 1 .. m + 1 + n
      BY <1>1
    <3> QED
      BY <1>1, <1>2, <3>1 DEF Range
  <2>4. \A c \in Range(b) : c \in Range(list)
    <3> SUFFICES ASSUME NEW c \in Range(b) PROVE c \in Range(list)
      OBVIOUS
    <3>1. PICK i \in 1 .. n : c = b[i]
      BY <1>1 DEF Range
    <3>2. m + 1 + i \in 1 .. m + 1 + n /\ list[m + 1 + i] = c
      BY <1>2, <1>4, <3>1
    <3> QED
      BY <1>1, <3>2 DEF Range
  <2> QED
    BY <2>1, <2>2, <2>3, <2>4
<1>7. ASSUME Distinct(a), Distinct(b),
             \A c \in Range(a) \cup Range(b) : c.story # x.story,
             \A c \in Range(a), d \in Range(b) : c.story # d.story
      PROVE  Distinct(list)
  <2> SUFFICES ASSUME NEW i \in 1 .. m + 1 + n, NEW j \in 1 .. m + 1 + n, list[i].story = list[j].story
               PROVE  i = j
    BY <1>1 DEF Distinct
  <2>0. i \in Int /\ j \in Int /\ m \in Int
    BY <1>1
  <2>1. \/ i \in 1 .. m /\ list[i] = a[i] /\ list[i] \in Range(a)
        \/ i = m + 1 /\ list[i] = x
        \/ /\ i - (m + 1) \in 1 .. n /\ list[i] = b[i - (m + 1)] /\ list[i] \in Range(b)
    BY <1>1, <1>2, <1>3, <1>8 DEF Range
  <2>2. \/ j \in 1 .. m /\ list[j] = a[j] /\ list[j] \in Range(a)
        \/ j = m + 1 /\ list[j] = x
        \/ /\ j - (m + 1) \in 1 .. n /\ list[j] = b[j - (m + 1)] /\ list[j] \in Range(b)
    BY <1>1, <1>2, <1>3, <1>8 DEF Range
  <2>3. CASE i \in 1 .. m /\ list[i] = a[i] /\ list[i] \in Range(a)
    BY <1>1, <1>7, <2>2, <2>3 DEF Distinct
  <2>4. CASE i = m + 1 /\ list[i] = x
    BY <1>7, <2>2, <2>4
  <2>5. CASE i - (m + 1) \in 1 .. n /\ list[i] = b[i - (m + 1)] /\ list[i] \in Range(b)
    <3>1. j - (m + 1) \in 1 .. n /\ list[j] = b[j - (m + 1)]
      BY <1>7, <2>2, <2>5
    <3>2. i - (m + 1) = j - (m + 1)
      BY <1>1, <1>7, <2>5, <3>1 DEF Distinct
    <3> QED
      BY <2>0, <3>2
  <2> QED
    BY <2>1, <2>3, <2>4, <2>5
<1> QED
  BY <1>1, <1>6, <1>7 DEF list

FarIn(cards) == {c \in Range(cards) : c.arm = FarArm}

\* The views but for the far card, and what could have been placed as it.
OthersIn(views) ==
  [views EXCEPT !.recommended =
     Only(views.recommended, {c \in Range(views.recommended) : c.arm # FarArm})]

EligibleIn(views) == FarIn(views["recommended"]) \cup FarCards(OthersIn(views))

\* There is one far card; if something that could be it is in the window at a
\* time, then so is it.
Settled(views, w, until) ==
  /\ \A c, d \in FarIn(views["recommended"]) : c = d
  /\ (\E c \in EligibleIn(views) : InWindow(c.story, w, until)) =>
       \E c \in FarIn(views["recommended"]) : InWindow(c.story, w, until)

Ahead(views) == First(views["recommended"], ViewSize - 1)

LEMMA FarCardsAre ==
  ASSUME NEW views
  PROVE  FarCards(views) =
           {c \in (Range(views["recommended"]) \ Range(Ahead(views)))
                    \cup {c \in Range(views["explore"]) :
                            c.badge = "discover" /\ c.story \notin StoriesOf(Ahead(views))} :
              hasUpvotes /\ c.of \in pool.far}
BY DEF FarCards, Ahead

\* No far card is before the place it would go to.
LEMMA FarCardsBehind ==
  ASSUME NEW views \in ViewsSet, StoryOnce(views), NEW far \in FarCards(views)
  PROVE  /\ far \in Shelf(views) /\ hasUpvotes
         /\ \A c \in Range(Ahead(views)) : c.story # far.story
<1>1. /\ far \in (Range(views["recommended"]) \ Range(Ahead(views)))
                    \cup {c \in Range(views["explore"]) :
                            c.badge = "discover" /\ c.story \notin StoriesOf(Ahead(views))}
      /\ hasUpvotes
  BY FarCardsAre
<1>2. far \in Shelf(views)
  BY <1>1 DEF Shelf
<1>3. Range(Ahead(views)) \subseteq Range(views["recommended"])
  BY ShelfIs, Sizes, FirstRange DEF Ahead
<1>4. CASE far \in Range(views["recommended"]) \ Range(Ahead(views))
  <2>1. \A c \in Range(views["recommended"]) : c.story = far.story => c = far
    BY <1>4, ShelfOnce DEF Shelf
  <2> QED
    BY <1>1, <1>2, <1>3, <1>4, <2>1
<1>5. CASE far \in Range(views["explore"]) /\ far.story \notin StoriesOf(Ahead(views))
  BY <1>1, <1>2, <1>5 DEF StoriesOf
<1> QED
  BY <1>1, <1>4, <1>5

\* Of some cards one is the best.
LEMMA BestIs ==
  ASSUME pool \in Pools, NEW views, NEW w, Sound(views, w),
         NEW cards \in SUBSET Shelf(views), cards # {}
  PROVE  Best(cards) \in cards
<1> DEFINE places == {Place(pool.ranked, c.of) : c \in cards}
<1>1. \A c \in cards : /\ Place(pool.ranked, c.of) \in Nat
                       /\ pool.ranked[Place(pool.ranked, c.of)] = c.of
  <2>1. pool.ranked \in Seq(Stories) /\ \A c \in cards : c.of \in Range(pool.ranked)
    BY PoolIs DEF Sound, Placed
  <2> QED
    BY <2>1, PlaceIs
<1>2. places \in SUBSET Nat /\ places # {}
  BY <1>1
<1> HIDE DEF places
<1>3. PICK least \in places : \A n \in places : least <= n
  BY <1>2, Least
<1>4. PICK best \in cards : Place(pool.ranked, best.of) = least
  BY DEF places
<1>5. ASSUME NEW d \in cards \ {best} PROVE Better(best, d)
  <2>1. best.of # d.of
    <3>1. best.of = d.of => best.story = d.story
      BY DEF Sound, Placed
    <3>2. best.story = d.story => best = d
      BY ShelfOnce DEF Sound
    <3> QED
      BY <3>1, <3>2
  <2>2. Place(pool.ranked, d.of) \in places /\ Place(pool.ranked, d.of) \in Nat
    BY <1>1 DEF places
  <2>3. Place(pool.ranked, best.of) # Place(pool.ranked, d.of)
    BY <1>1, <2>1
  <2>4. Place(pool.ranked, best.of) \in Nat /\ Place(pool.ranked, best.of) <= Place(pool.ranked, d.of)
    BY <1>1, <1>3, <1>4, <2>2
  <2> QED
    BY <2>2, <2>3, <2>4 DEF Better
<1>6. \E c \in cards : \A d \in cards \ {c} : Better(c, d)
  BY <1>5
<1> QED
  BY <1>6 DEF Best

\* The far card stays if any does.
LEMMA FarIs ==
  ASSUME pool \in Pools, NEW views, NEW w, Sound(views, w), FarCards(views) # {}
  PROVE  /\ Far(views, w) \in FarCards(views)
         /\ (\E c \in FarCards(views) : InWindow(c.story, w, clock + Horizon)) =>
              InWindow(Far(views, w).story, w, clock + Horizon)
<1> DEFINE staying == {c \in FarCards(views) : InWindow(c.story, w, clock + Horizon)}
           some == IF staying = {} THEN FarCards(views) ELSE staying
<1>1. FarCards(views) \subseteq Shelf(views)
  BY FarCardsBehind DEF Sound
<1>2. Far(views, w) = Best(some)
  BY DEF Far
<1>3. some \in SUBSET Shelf(views) /\ some # {} /\ some \subseteq FarCards(views)
  BY <1>1
<1> HIDE DEF some
<1>4. Far(views, w) \in some
  BY <1>2, <1>3, BestIs
<1>5. staying # {} => \A c \in some : InWindow(c.story, w, clock + Horizon)
  BY DEF some
<1> HIDE DEF staying
<1>6. (\E c \in FarCards(views) : InWindow(c.story, w, clock + Horizon)) => staying # {}
  BY DEF staying
<1> QED
  BY <1>3, <1>4, <1>5, <1>6

\* With no far card placed and none to place, there is nothing to settle.
LEMMA UnplacedSettled ==
  ASSUME NEW views \in ViewsSet, Unplaced(views), FarCards(views) = {}, NEW w, NEW until
  PROVE  Settled(views, w, until)
<1> DEFINE cards == views["recommended"]
           set == {c \in Range(cards) : c.arm # FarArm}
<1>1. cards \in Seq(CardSet) /\ \A c \in Range(cards) : c.arm \in Nat
  BY ShelfIs DEF Unplaced, Shelf
<1>2. \A c \in Range(cards) : c.arm # FarArm
  BY <1>1 DEF FarArm
<1>3. FarIn(cards) = {}
  BY <1>2 DEF FarIn
<1>4. \A c \in Range(cards) : c \in set
  BY <1>2
<1> HIDE DEF set, cards
<1>5. Only(cards, set) = cards
  BY <1>1, <1>4, OnlyAll
<1>6. OthersIn(views) = views
  <2>1. OthersIn(views) = [views EXCEPT !["recommended"] = Only(cards, set)]
    BY DEF OthersIn, cards, set
  <2> QED
    BY <1>5, <2>1 DEF ViewsSet, cards
<1>7. EligibleIn(views) = {}
  BY <1>3, <1>6 DEF EligibleIn, cards
<1> QED
  BY <1>3, <1>7 DEF Settled, cards

LEMMA FarPlacedSound ==
  ASSUME pool \in Pools, NEW views, NEW w, Sound(views, w), Unplaced(views),
         FarCards(views) # {}
  PROVE  /\ Sound(FarPlaced(views, w), w)
         /\ Settled(FarPlaced(views, w), w, clock + Horizon)
<1> DEFINE rec == views["recommended"]
           expl == views["explore"]
           far == Far(views, w)
           card == [far EXCEPT !.arm = FarArm, !.badge = "discover"]
           head == Ahead(views)
           tail == SubSeq(rec, Len(head) + 1, Len(rec))
           back == Only(tail, {c \in Range(tail) : c.story # far.story})
           left == Only(expl, {c \in Range(expl) : c.story # far.story})
           list == head \o <<card>> \o back
           new == FarPlaced(views, w)
<1>1. /\ views \in ViewsSet /\ StoryOnce(views) /\ rec \in Seq(CardSet) /\ expl \in Seq(CardSet)
      /\ Shelf(views) \subseteq CardSet /\ Distinct(rec) /\ Distinct(expl)
      /\ \A v \in Views : Distinct(views[v])
  BY ShelfIs, ViewsAre DEF Sound, StoryOnce
<1>2. far \in FarCards(views) /\ far \in Shelf(views) /\ far \in CardSet
  BY <1>1, FarIs, FarCardsBehind
<1>3. \A c \in Range(head) : c.story # far.story
  BY <1>1, <1>2, FarCardsBehind
<1>4. /\ card \in CardSet /\ card.story = far.story /\ card.of = far.of /\ card.arm = FarArm
  <2>1. FarArm \in Int /\ "discover" \in Badges
    BY DEF FarArm, Badges
  <2>2. far \in CardSet
    BY <1>2
  <2> HIDE DEF far
  <2> QED
    BY <2>1, <2>2 DEF CardSet
<1>5. new = [views EXCEPT !["recommended"] = list, !["explore"] = left]
  BY DEF FarPlaced, Ahead
<1>6. /\ new \in [Views -> {new[v] : v \in Views}] /\ DOMAIN new = Views
      /\ new["recommended"] = list /\ new["explore"] = left /\ new["popular"] = views["popular"]
  BY <1>1, <1>5, ViewsAre DEF ViewsSet
<1> HIDE DEF new, far, card
<1>7. /\ head \in Seq(CardSet) /\ Distinct(head) /\ Range(head) \subseteq Range(rec)
      /\ Len(head) = (IF ViewSize - 1 <= Len(rec) THEN ViewSize - 1 ELSE Len(rec))
      /\ DOMAIN head = 1 .. Len(head) /\ \A i \in 1 .. Len(head) : head[i] = rec[i]
  <2>1. head = First(rec, ViewSize - 1)
    BY DEF Ahead
  <2> DEFINE n == ViewSize - 1
  <2>2. n \in Nat
    BY Sizes
  <2> HIDE DEF head, rec, n
  <2>3. /\ First(rec, n) \in Seq(CardSet)
        /\ Len(First(rec, n)) = (IF n <= Len(rec) THEN n ELSE Len(rec))
        /\ DOMAIN First(rec, n) = 1 .. Len(First(rec, n))
        /\ \A i \in DOMAIN First(rec, n) : First(rec, n)[i] = rec[i]
    BY <1>1, <2>2, FirstIs
  <2>4. Distinct(First(rec, n)) /\ Range(First(rec, n)) \subseteq Range(rec)
    BY <1>1, <2>2, FirstDistinct, FirstRange
  <2> QED
    BY <2>1, <2>3, <2>4 DEF n
<1> HIDE DEF head
<1>8. /\ tail \in Seq(CardSet) /\ DOMAIN tail = 1 .. Len(rec) - Len(head)
      /\ \A i \in 1 .. Len(rec) - Len(head) : tail[i] = rec[Len(head) + i]
  <2>1. Len(rec) \in Nat /\ Len(head) \in Nat /\ Len(head) <= Len(rec)
    BY <1>1, <1>7
  <2> HIDE DEF rec
  <2> QED
    BY <1>1, <2>1
<1>9. /\ Len(rec) \in Nat /\ Len(head) \in Nat /\ Len(head) <= Len(rec)
      /\ DOMAIN rec = 1 .. Len(rec)
  BY <1>1, <1>7
<1> HIDE DEF tail, rec, expl
<1>10. Distinct(tail) /\ Range(tail) \subseteq Range(rec)
       /\ \A c \in Range(head), d \in Range(tail) : c.story # d.story
  <2>1. \A i \in 1 .. Len(rec) - Len(head) : Len(head) + i \in 1 .. Len(rec)
    BY <1>9
  <2>2. Range(tail) \subseteq Range(rec)
    BY <1>8, <1>9, <2>1 DEF Range
  <2>3. Distinct(tail)
    <3> SUFFICES ASSUME NEW i \in 1 .. Len(rec) - Len(head), NEW j \in 1 .. Len(rec) - Len(head),
                        tail[i].story = tail[j].story
                 PROVE  i = j
      BY <1>8 DEF Distinct
    <3>2. /\ Len(head) + i \in DOMAIN rec /\ Len(head) + j \in DOMAIN rec
          /\ rec[Len(head) + i].story = rec[Len(head) + j].story
      BY <1>8, <1>9, <2>1
    <3>1. Len(head) + i = Len(head) + j
      BY <1>1, <3>2, Zenon DEF Distinct
    <3> QED
      BY <1>9, <3>1
  <2>4. ASSUME NEW c \in Range(head), NEW d \in Range(tail) PROVE c.story # d.story
    <3>1. PICK i \in 1 .. Len(head) : c = rec[i]
      BY <1>7 DEF Range
    <3>2. PICK j \in 1 .. Len(rec) - Len(head) : d = rec[Len(head) + j]
      BY <1>8 DEF Range
    <3>3. i \in 1 .. Len(rec) /\ Len(head) + j \in 1 .. Len(rec) /\ i # Len(head) + j
      BY <1>9
    <3> QED
      BY <1>1, <1>9, <3>1, <3>2, <3>3 DEF Distinct
  <2> QED
    BY <2>2, <2>3, <2>4
<1>11. /\ back \in Seq(CardSet) /\ Distinct(back) /\ Range(back) \subseteq Range(tail)
       /\ \A c \in Range(back) : c.story # far.story
  <2> DEFINE set == {c \in Range(tail) : c.story # far.story}
  <2>1. \A c \in set : c.story # far.story
    OBVIOUS
  <2> HIDE DEF set
  <2>2. Range(back) = Range(tail) \cap set
    BY <1>8, OnlyRange DEF set
  <2>3. back \in Seq(CardSet) /\ Distinct(back)
    BY <1>8, <1>10, OnlyRange, OnlyDistinct
  <2> QED
    BY <2>1, <2>2, <2>3
<1>12. /\ left \in Seq(CardSet) /\ Distinct(left) /\ Range(left) \subseteq Range(expl)
       /\ \A c \in Range(left) : c.story # far.story
  <2> DEFINE set == {c \in Range(expl) : c.story # far.story}
  <2>1. \A c \in set : c.story # far.story
    OBVIOUS
  <2> HIDE DEF set
  <2>2. Range(left) = Range(expl) \cap set
    BY <1>1, OnlyRange DEF set
  <2>3. left \in Seq(CardSet) /\ Distinct(left)
    BY <1>1, OnlyRange, OnlyDistinct
  <2> QED
    BY <2>1, <2>2, <2>3
<1> HIDE DEF back, left
<1>13. /\ list \in Seq(CardSet) /\ Range(list) = Range(head) \cup {card} \cup Range(back)
       /\ Distinct(list)
  BY <1>3, <1>4, <1>7, <1>10, <1>11, Between
<1> HIDE DEF list
<1>14. new \in ViewsSet
  <2>1. \A v \in Views : new[v] \in Seq(CardSet)
    BY <1>1, <1>6, <1>12, <1>13, ShelfIs, ViewsAre
  <2> QED
    BY <1>6, <2>1 DEF ViewsSet
<1>15. \A c \in Range(list) : c = card \/ c \in Range(rec)
  BY <1>7, <1>10, <1>11, <1>13
<1>16. StoryOnce(new)
  <2>1. \A v \in Views : Distinct(new[v])
    BY <1>1, <1>6, <1>12, <1>13, ViewsAre
  <2>2. \A c \in Range(list), d \in Range(left) : c.story # d.story
    BY <1>1, <1>4, <1>12, <1>15 DEF StoryOnce, rec, expl
  <2> QED
    BY <1>6, <2>1, <2>2 DEF StoryOnce
<1>17. \A c \in Shelf(new) : \E d \in Shelf(views) : c.story = d.story /\ c.of = d.of
  <2>1. \A c \in Shelf(new) : c = card \/ c \in Shelf(views)
    BY <1>6, <1>12, <1>15 DEF Shelf, rec, expl
  <2> QED
    BY <1>2, <1>4, <2>1
<1>18. Sound(new, w)
  BY <1>14, <1>16, <1>17, FewerSound
<1>19. \A c \in Range(head) \cup Range(back) : c \in Range(rec) /\ c.arm \in Nat
  BY <1>7, <1>10, <1>11 DEF Unplaced, Shelf, rec
<1>20. FarIn(list) = {card}
  BY <1>4, <1>13, <1>19 DEF FarIn, FarArm
<1> DEFINE notFar == {c \in Range(list) : c.arm # FarArm}
           others == Only(list, notFar)
<1>21. others = head \o back
  <2>1. Only(head, notFar) = head
    <3>1. \A c \in Range(head) : c \in notFar
      BY <1>13, <1>19 DEF FarArm
    <3> HIDE DEF notFar
    <3> QED
      BY <1>7, <3>1, OnlyAll
  <2>2. Only(back, notFar) = back
    <3>1. \A c \in Range(back) : c \in notFar
      BY <1>13, <1>19 DEF FarArm
    <3> HIDE DEF notFar
    <3> QED
      BY <1>11, <3>1, OnlyAll
  <2>3. Only(<<card>>, notFar) = <<>>
    <3>1. card \notin notFar
      BY <1>4
    <3> HIDE DEF notFar
    <3> QED
      BY <1>4, <3>1, OnlyNot
  <2>4. <<card>> \in Seq(CardSet) /\ head \o <<card>> \in Seq(CardSet)
    BY <1>4, <1>7
  <2> HIDE DEF notFar
  <2>5. Only(Joined(Joined(head, <<card>>), back), notFar) =
          Joined(Joined(Only(head, notFar), Only(<<card>>, notFar)), Only(back, notFar))
    <3> DEFINE one == <<card>>
    <3>1. Joined(head, one) \in Seq(CardSet) /\ one \in Seq(CardSet)
      BY <2>4 DEF Joined
    <3> HIDE DEF one
    <3>2. Only(Joined(head, one), notFar) = Joined(Only(head, notFar), Only(one, notFar))
      BY <1>7, <3>1, OnlyConcat
    <3>3. Only(Joined(Joined(head, one), back), notFar) =
            Joined(Only(Joined(head, one), notFar), Only(back, notFar))
      BY <1>11, <3>1, OnlyConcat
    <3> QED
      BY <3>2, <3>3 DEF one
  <2>6. Only(Joined(Joined(head, <<card>>), back), notFar) = Joined(Joined(head, <<>>), back)
    BY <2>1, <2>2, <2>3, <2>5
  <2>7. head \o <<>> = head
    BY <1>7
  <2> QED
    BY <2>6, <2>7 DEF list, Joined
<1>22. /\ others \in Seq(CardSet) /\ Range(head) \subseteq Range(First(others, ViewSize - 1))
       /\ Range(others) \ Range(First(others, ViewSize - 1)) \subseteq Range(back)
  <2>1. /\ others \in Seq(CardSet) /\ Len(others) = Len(head) + Len(back) /\ Len(back) \in Nat
        /\ DOMAIN others = 1 .. Len(head) + Len(back) /\ DOMAIN back = 1 .. Len(back)
        /\ \A i \in 1 .. Len(head) : others[i] = head[i]
        /\ \A i \in 1 .. Len(back) : others[Len(head) + i] = back[i]
    <3> DEFINE both == head \o back
    <3>1. /\ both \in Seq(CardSet) /\ Len(both) = Len(head) + Len(back) /\ Len(back) \in Nat
          /\ DOMAIN both = 1 .. Len(head) + Len(back) /\ DOMAIN back = 1 .. Len(back)
      BY <1>7, <1>11
    <3>2. /\ \A i \in 1 .. Len(head) : both[i] = head[i]
          /\ \A i \in 1 .. Len(back) : both[Len(head) + i] = back[i]
      BY <1>7, <1>11
    <3> HIDE DEF both
    <3>3. others = both
      BY <1>21 DEF both
    <3> HIDE DEF others
    <3> QED
      BY <3>1, <3>2, <3>3
  <2> DEFINE prefix == First(others, ViewSize - 1)
  <2> HIDE DEF others
  <2>2. /\ Len(prefix) = (IF ViewSize - 1 <= Len(others) THEN ViewSize - 1 ELSE Len(others))
        /\ DOMAIN prefix = 1 .. Len(prefix)
        /\ \A i \in DOMAIN prefix : prefix[i] = others[i]
    BY <2>1, Sizes, FirstIs
  <2>3. Len(head) <= Len(prefix) /\ Len(prefix) \in Nat
    BY <1>7, <1>9, <2>1, <2>2, Sizes, SMTT(30)
  <2> HIDE DEF prefix
  <2>4. \A i \in 1 .. Len(head) : i \in DOMAIN prefix /\ prefix[i] = head[i]
    BY <1>9, <2>1, <2>2, <2>3, SMTT(30)
  <2>5. Range(head) \subseteq Range(prefix)
    BY <1>7, <2>4 DEF Range
  <2>6. \A c \in Range(others) : c \in Range(head) \/ c \in Range(back)
    <3> SUFFICES ASSUME NEW c \in Range(others) PROVE c \in Range(head) \/ c \in Range(back)
      OBVIOUS
    <3>1. PICK i \in 1 .. Len(head) + Len(back) : c = others[i]
      BY <2>1 DEF Range
    <3>2. CASE i <= Len(head)
      <4>1. i \in 1 .. Len(head) /\ c = head[i]
        BY <1>9, <2>1, <3>1, <3>2
      <4> QED
        BY <1>7, <4>1 DEF Range
    <3>3. CASE ~ (i <= Len(head))
      <4>1. i - Len(head) \in 1 .. Len(back) /\ Len(head) + (i - Len(head)) = i
        BY <1>9, <2>1, <3>3
      <4>2. c = back[i - Len(head)]
        BY <2>1, <3>1, <4>1
      <4> QED
        BY <2>1, <4>1, <4>2 DEF Range
    <3> QED
      BY <3>2, <3>3
  <2> QED
    BY <2>1, <2>5, <2>6 DEF prefix
<1> DEFINE rest == OthersIn(new)
<1>23. rest["recommended"] = others /\ rest["explore"] = left
  <2>1. rest = [new EXCEPT !["recommended"] = others]
    BY <1>6 DEF OthersIn
  <2> HIDE DEF rest, others
  <2> QED
    BY <1>6, <2>1, ViewsAre
<1> HIDE DEF others, rest
<1>24. FarCards(rest) \subseteq FarCards(views)
  <2> SUFFICES ASSUME NEW c \in FarCards(rest) PROVE c \in FarCards(views)
    OBVIOUS
  <2>1. /\ c \in (Range(others) \ Range(First(others, ViewSize - 1)))
                    \cup {d \in Range(left) :
                            d.badge = "discover" /\ d.story \notin StoriesOf(First(others, ViewSize - 1))}
        /\ hasUpvotes /\ c.of \in pool.far
    BY <1>23, FarCardsAre DEF Ahead
  <2>2. CASE c \in Range(others) \ Range(First(others, ViewSize - 1))
    <3>1. c \in Range(tail) /\ c \in Range(rec)
      BY <1>10, <1>11, <1>22, <2>2
    <3>2. c \notin Range(head)
      BY <1>10, <3>1
    <3> QED
      BY <2>1, <3>1, <3>2, FarCardsAre DEF head, rec
  <2>3. CASE c \in Range(left) /\ c.badge = "discover"
             /\ c.story \notin StoriesOf(First(others, ViewSize - 1))
    <3>1. c \in Range(expl) /\ c.story \notin StoriesOf(head)
      BY <1>12, <1>22, <2>3 DEF StoriesOf
    <3> QED
      BY <2>1, <2>3, <3>1, FarCardsAre DEF head, expl
  <2> QED
    BY <2>1, <2>2, <2>3
<1>25. Settled(new, w, clock + Horizon)
  <2>1. FarIn(new["recommended"]) = {card}
    BY <1>6, <1>20
  <2>2. ASSUME NEW c \in EligibleIn(new), InWindow(c.story, w, clock + Horizon)
        PROVE  InWindow(card.story, w, clock + Horizon)
    <3>1. CASE c \in {card}
      BY <2>2, <3>1
    <3>2. CASE c \in FarCards(rest)
      <4>1. InWindow(far.story, w, clock + Horizon)
        BY <1>24, <2>2, <3>2, FarIs DEF far
      <4> QED
        BY <1>4, <4>1
    <3> QED
      BY <2>1, <3>1, <3>2 DEF EligibleIn, rest
  <2> QED
    BY <2>1, <2>2 DEF Settled
<1> QED
  BY <1>18, <1>25 DEF new

-----------------------------------------------------------------------------
(* Serving                                                                 *)

LEMMA ServedRecommendedIs ==
  ASSUME NEW cards \in Seq(CardSet), Distinct(cards)
  PROVE  /\ ServedRecommended(cards) \in Seq(CardSet) /\ Distinct(ServedRecommended(cards))
         /\ Range(ServedRecommended(cards)) \subseteq Range(cards)
         /\ FarIn(cards) # {} => /\ ServedRecommended(cards) # <<>>
                                 /\ Last(ServedRecommended(cards)) \in FarIn(cards)
<1> DEFINE notFar == {c \in Range(cards) : c.arm # FarArm}
           others == Only(cards, notFar)
           isFar == {c \in Range(cards) : c.arm = FarArm}
           far == Only(cards, isFar)
           some == First(others, ViewSize - 1)
           shown == ServedRecommended(cards)
<1>1. shown = IF far = <<>> THEN First(cards, ViewSize) ELSE Append(some, Head(far))
  BY DEF ServedRecommended
<1>2. \A c \in Range(cards), d \in Range(cards) : c.story = d.story => c = d
  BY DEF Range, Distinct
<1>3. /\ isFar = FarIn(cards) /\ notFar \cap isFar = {} /\ isFar \subseteq Range(cards)
      /\ notFar \subseteq Range(cards)
  BY DEF FarIn
<1> HIDE DEF notFar, isFar
<1>4. /\ others \in Seq(CardSet) /\ Distinct(others) /\ Range(others) = Range(cards) \cap notFar
      /\ far \in Seq(CardSet) /\ Range(far) = Range(cards) \cap isFar
  BY OnlyRange, OnlyDistinct
<1> HIDE DEF others, far
<1>5. some \in Seq(CardSet) /\ Distinct(some) /\ Range(some) \subseteq Range(others)
  BY <1>4, Sizes, FirstIs, FirstDistinct, FirstRange
<1> HIDE DEF some, shown
<1>6. CASE far = <<>>
  <2>1. shown = First(cards, ViewSize)
    BY <1>1, <1>6
  <2>2. Range(far) = {}
    BY <1>6 DEF Range
  <2>3. FarIn(cards) = {}
    BY <1>3, <1>4, <2>2
  <2>4. shown \in Seq(CardSet) /\ Distinct(shown) /\ Range(shown) \subseteq Range(cards)
    BY <2>1, Sizes, FirstIs, FirstDistinct, FirstRange
  <2> QED
    BY <2>3, <2>4 DEF shown
<1>7. CASE far # <<>>
  <2> DEFINE card == Head(far)
  <2>1. shown = Append(some, card)
    BY <1>1, <1>7
  <2>2. card = far[1] /\ 1 \in DOMAIN far
    BY <1>4, <1>7
  <2>3. card \in Range(far)
    BY <2>2 DEF Range
  <2>4. card \in isFar /\ card \in Range(cards) /\ card \in CardSet
    <3>1. Range(cards) \subseteq CardSet
      BY DEF Range
    <3> QED
      BY <1>4, <2>3, <3>1
  <2> HIDE DEF card
  <2>5. \A i \in DOMAIN some : some[i].story # card.story
    <3>1. \A i \in DOMAIN some : some[i] \in Range(cards) /\ some[i] \in notFar
      BY <1>4, <1>5 DEF Range
    <3> QED
      BY <1>2, <1>3, <2>4, <3>1
  <2>6. Distinct(shown)
    BY <1>5, <2>1, <2>4, <2>5, AppendDistinct
  <2>7. /\ shown \in Seq(CardSet) /\ shown # <<>> /\ Len(some) \in Nat
        /\ Len(shown) = Len(some) + 1 /\ shown[Len(some) + 1] = card
        /\ DOMAIN shown = 1 .. Len(some) + 1 /\ DOMAIN some = 1 .. Len(some)
        /\ \A i \in 1 .. Len(some) : shown[i] = some[i]
    BY <1>5, <2>1, <2>4
  <2>8. Range(shown) \subseteq Range(cards)
    <3>1. \A i \in 1 .. Len(some) + 1 : i \in 1 .. Len(some) \/ i = Len(some) + 1
      BY <2>7
    <3>2. \A i \in 1 .. Len(some) : some[i] \in Range(cards)
      BY <1>4, <1>5, <2>7 DEF Range
    <3>3. \A i \in 1 .. Len(some) + 1 : shown[i] \in Range(cards)
      BY <2>4, <2>7, <3>1, <3>2
    <3> QED
      BY <2>7, <3>3 DEF Range
  <2>9. Last(shown) = card
    BY <2>7 DEF Last
  <2> QED
    BY <1>3, <2>4, <2>6, <2>7, <2>8, <2>9 DEF shown
<1> QED
  BY <1>6, <1>7

LEMMA ByScoreIs ==
  ASSUME pool \in Pools, NEW cards \in SUBSET CardSet,
         \A c, d \in cards : c.story = d.story => c = d
  PROVE  /\ ByScore(cards) \in Seq(CardSet) /\ Distinct(ByScore(cards))
         /\ Range(ByScore(cards)) \subseteq cards
<1> DEFINE ofs == {c.of : c \in cards}
           order == Only(pool.ranked, ofs)
           new == ByScore(cards)
<1>1. pool.ranked \in Seq(Stories) /\ IsInjective(pool.ranked)
  BY PoolIs
<1>2. order \in Seq(Stories) /\ IsInjective(order) /\ Range(order) \subseteq ofs
  BY <1>1, OnlyOrder
<1>3. new = [i \in DOMAIN order |-> CHOOSE c \in cards : c.of = order[i]]
  BY DEF ByScore
<1> HIDE DEF order, new
<1>4. Len(order) \in Nat /\ DOMAIN order = 1 .. Len(order)
  BY <1>2
<1>5. \A i \in 1 .. Len(order) : \E c \in cards : c.of = order[i]
  BY <1>2, <1>4 DEF Range
<1>6. \A i \in 1 .. Len(order) : new[i] \in cards /\ new[i].of = order[i]
  BY <1>3, <1>4, <1>5
<1>7. new \in [1 .. Len(order) -> CardSet]
  BY <1>3, <1>4, <1>6
<1>8. new \in Seq(CardSet) /\ DOMAIN new = 1 .. Len(order)
  BY <1>4, <1>7, ListIs
<1>9. Distinct(new)
  <2> SUFFICES ASSUME NEW i \in 1 .. Len(order), NEW j \in 1 .. Len(order), new[i].story = new[j].story
               PROVE  i = j
    BY <1>8 DEF Distinct
  <2>1. new[i] = new[j]
    BY <1>6
  <2>2. order[i] = order[j]
    BY <1>6, <2>1
  <2> QED
    BY <1>2, <1>4, <2>2 DEF IsInjective
<1>10. Range(new) \subseteq cards
  BY <1>6, <1>8 DEF Range
<1> QED
  BY <1>8, <1>9, <1>10 DEF new

LEMMA ServedExploreIs ==
  ASSUME pool \in Pools, NEW cards \in Seq(CardSet), Distinct(cards)
  PROVE  /\ ServedExplore(cards) \in Seq(CardSet) /\ Distinct(ServedExplore(cards))
         /\ Range(ServedExplore(cards)) \subseteq Range(cards)
<1> DEFINE of(badge) == First(Only(cards, {c \in Range(cards) : c.badge = badge}), PerBadge)
           some == UNION {Range(of(b)) : b \in {"unsure", "discover", "interest"}}
<1>1. ServedExplore(cards) = ByScore(some)
  BY DEF ServedExplore
<1>2. ASSUME NEW badge PROVE Range(of(badge)) \subseteq Range(cards)
  <2> DEFINE set == {c \in Range(cards) : c.badge = badge}
             all == Only(cards, set)
  <2> HIDE DEF set
  <2>1. all \in Seq(CardSet) /\ Range(all) = Range(cards) \cap set
    BY OnlyRange
  <2> HIDE DEF all
  <2>2. Range(First(all, PerBadge)) \subseteq Range(all)
    BY <2>1, Sizes, FirstRange
  <2> QED
    BY <2>1, <2>2 DEF all, set
<1>3. some \subseteq Range(cards)
  <2> HIDE DEF of
  <2> QED
    BY <1>2
<1>4. Range(cards) \subseteq CardSet /\ \A c, d \in Range(cards) : c.story = d.story => c = d
  BY DEF Range, Distinct
<1> HIDE DEF some
<1>5. some \in SUBSET CardSet /\ \A c, d \in some : c.story = d.story => c = d
  BY <1>3, <1>4
<1> QED
  BY <1>1, <1>3, <1>5, ByScoreIs

Current(w, cards) ==
  Only(cards, {c \in Range(cards) : c.story \notin Voted(votes) /\ InWindow(c.story, w, clock)})

LEMMA CurrentIs ==
  ASSUME NEW w, NEW cards \in Seq(CardSet), Distinct(cards)
  PROVE  /\ Current(w, cards) \in Seq(CardSet) /\ Distinct(Current(w, cards))
         /\ Range(Current(w, cards)) =
              {c \in Range(cards) : c.story \notin Voted(votes) /\ InWindow(c.story, w, clock)}
<1> DEFINE set == {c \in Range(cards) : c.story \notin Voted(votes) /\ InWindow(c.story, w, clock)}
<1>1. set \subseteq Range(cards)
  OBVIOUS
<1> HIDE DEF set
<1>2. Current(w, cards) = Only(cards, set)
  BY DEF Current, set
<1>3. /\ Only(cards, set) \in Seq(CardSet) /\ Distinct(Only(cards, set))
      /\ Range(Only(cards, set)) = Range(cards) \cap set
  BY OnlyRange, OnlyDistinct
<1> QED
  BY <1>1, <1>2, <1>3 DEF set

LEMMA ServedIs ==
  ASSUME pool \in Pools, NEW w \in Windows, deck[w] \in ViewsSet, StoryOnce(deck[w])
  PROVE  /\ \A v \in Views : /\ Served(w)[v] \in Seq(CardSet) /\ Distinct(Served(w)[v])
                             /\ Range(Served(w)[v]) \subseteq Range(deck[w][v])
         /\ Served(w)["recommended"] = ServedRecommended(Current(w, deck[w]["recommended"]))
<1> DEFINE shown == Served(w)
           current(v) == Current(w, deck[w][v])
<1>1. /\ shown["recommended"] = ServedRecommended(current("recommended"))
      /\ shown["popular"] = First(current("popular"), ViewSize)
      /\ shown["explore"] = ServedExplore(current("explore"))
  BY DEF Served, Current
<1>2. ASSUME NEW v \in Views
      PROVE  /\ current(v) \in Seq(CardSet) /\ Distinct(current(v))
             /\ Range(current(v)) \subseteq Range(deck[w][v])
  <2>1. deck[w][v] \in Seq(CardSet) /\ Distinct(deck[w][v])
    BY ShelfIs DEF StoryOnce
  <2> QED
    BY <2>1, CurrentIs
<1> HIDE DEF shown, current
<1>3. /\ shown["recommended"] \in Seq(CardSet) /\ Distinct(shown["recommended"])
      /\ Range(shown["recommended"]) \subseteq Range(deck[w]["recommended"])
  BY <1>1, <1>2, ServedRecommendedIs, ViewsAre
<1>4. /\ shown["popular"] \in Seq(CardSet) /\ Distinct(shown["popular"])
      /\ Range(shown["popular"]) \subseteq Range(deck[w]["popular"])
  BY <1>1, <1>2, Sizes, FirstIs, FirstDistinct, FirstRange, ViewsAre
<1>5. /\ shown["explore"] \in Seq(CardSet) /\ Distinct(shown["explore"])
      /\ Range(shown["explore"]) \subseteq Range(deck[w]["explore"])
  BY <1>1, <1>2, ServedExploreIs, ViewsAre
<1> QED
  BY <1>1, <1>3, <1>4, <1>5, ViewsAre DEF shown, current

-----------------------------------------------------------------------------
(* The invariant                                                           *)

\* The stages differ in what the cards of the views are by then.
Inv ==
  /\ TypeOK /\ builtAt <= clock
  /\ deck \in [Windows -> ViewsSet] /\ picked \in [Windows -> ViewsSet]
  /\ \A w \in Windows : Sound(deck[w], w)
  /\ stage \in {"dedup", "canonicalize"} => \A w \in Windows : Fresh(deck[w])
  /\ stage # "cached" => \A w \in Windows : Unplaced(deck[w])
  /\ stage \notin {"feedback", "assemble"} /\ Voted(feedback) = {} => ~hasUpvotes
  /\ stage = "cached" => \A w \in Windows : Settled(deck[w], w, builtAt + Horizon)

LEMMA EmptyDeck ==
  /\ NoDeck \in [Windows -> ViewsSet]
  /\ \A w \in Windows : Sound(NoDeck[w], w) /\ Unplaced(NoDeck[w])
<1>1. \A v \in Views : NoView[v] = <<>>
  BY DEF Views, NoView
<1>2. DOMAIN <<>> = {} /\ <<>> \in Seq(CardSet) /\ Range(<<>>) = {}
  BY DEF Range
<1>3. NoView = [v \in Views |-> <<>>]
  BY <1>1, ViewsAre DEF NoView
<1>4. NoView \in ViewsSet
  BY <1>2, <1>3 DEF ViewsSet
<1>5. Shelf(NoView) = {}
  BY <1>1, <1>2, ViewsAre DEF Shelf
<1>6. StoryOnce(NoView)
  <2>1. Distinct(<<>>)
    BY <1>2 DEF Distinct
  <2> QED
    BY <1>1, <1>2, <2>1, ViewsAre DEF StoryOnce
<1>7. \A w : Sound(NoView, w) /\ Unplaced(NoView)
  BY <1>4, <1>5, <1>6 DEF Sound, Placed, Unplaced
<1>8. \A w \in Windows : NoDeck[w] = NoView
  BY DEF NoDeck
<1> QED
  BY <1>4, <1>7, <1>8 DEF NoDeck

\* Nothing leaves the archive.
LEMMA ArchiveStays ==
  ASSUME pool \in Pools, NEW s \in Stories, NEW a \in Int, NEW b \in Int, a <= b,
         InWindow(s, Archive, a)
  PROVE  InWindow(s, Archive, b)
<1>1. pool.age[s] \in Int
  BY PoolIs
<1>2. \A v \in DOMAIN Width : pool.age[s] + a > Width[v]
  BY DEF InWindow
<1>3. \A v \in DOMAIN Width : Width[v] \in Int
  BY DeckAssumption
<1> QED
  BY <1>1, <1>2, <1>3 DEF InWindow

\* A story that leaves a window was in it before.
LEMMA WindowShrinks ==
  ASSUME pool \in Pools, NEW w \in Windows, w # Archive, NEW s \in Stories,
         NEW a \in Int, NEW b \in Int, a <= b, InWindow(s, w, b)
  PROVE  InWindow(s, w, a)
<1>1. pool.age[s] \in Int
  BY PoolIs
<1>2. Width[w] \in Int
  BY DeckAssumption
<1> QED
  BY <1>1, <1>2 DEF InWindow

LEMMA InvInit == Init => Inv
<1> SUFFICES ASSUME Init PROVE Inv
  OBVIOUS
<1>1. hasUpvotes \in BOOLEAN /\ stage = "feedback"
  BY DEF Init
<1>3. TypeOK /\ builtAt <= clock
  BY <1>1, PoolIs, Sizes DEF Init, TypeOK, Actions, NoDeck
<1>2. deck = NoDeck /\ picked = NoDeck
  BY DEF Init
<1> QED
  BY <1>1, <1>2, <1>3, EmptyDeck DEF Inv


LEMMA ReadFeedbackStep == Inv /\ ReadFeedback => Inv'
<1> SUFFICES ASSUME Inv, ReadFeedback PROVE Inv'
  OBVIOUS
<1>1. stage = "feedback" /\ stage' = "assemble" /\ feedback' = votes
      /\ UNCHANGED <<pool, clock, votes, hasUpvotes, deck, picked, compared, builtAt>>
  BY DEF ReadFeedback
<1>2. TypeOK' /\ (builtAt <= clock)'
  BY <1>1 DEF Inv, TypeOK
<1>3. \A w \in Windows : Sound(deck[w], w)' /\ Unplaced(deck[w])'
  BY <1>1 DEF Inv, Sound, Placed, Unplaced, InWindow
<1> QED
  BY <1>1, <1>2, <1>3 DEF Inv

LEMMA AssembleStep == Inv /\ Assemble => Inv'
<1> SUFFICES ASSUME Inv, Assemble PROVE Inv'
  OBVIOUS
<1>1. /\ stage = "assemble" /\ stage' \in {"dedup", "canonicalize"} /\ picked' = deck'
      /\ deck' = [w \in Windows |-> AssembledViews(w)]
      /\ UNCHANGED <<pool, clock, votes, feedback, compared, builtAt>>
  BY DEF Assemble, AssembledViews
<1>2. pool \in Pools
  BY DEF Inv, TypeOK
<1>3. \A w \in Windows : Sound(AssembledViews(w), w) /\ Fresh(AssembledViews(w))
  BY <1>2, AssembleSound
<1>4. \A w \in Windows : deck'[w] = AssembledViews(w)
  BY <1>1
<1>5. deck' \in [Windows -> ViewsSet] /\ picked' \in [Windows -> ViewsSet]
  BY <1>1, <1>3 DEF Sound
<1>10. hasUpvotes' \in BOOLEAN /\ (Voted(feedback)' = {} => ~hasUpvotes')
  <2>1. hasUpvotes' = (Voted(feedback) # {} /\ UpVoted)
    BY DEF Assemble
  <2>2. Voted(feedback)' = Voted(feedback)
    BY <1>1 DEF Voted
  <2> QED
    BY <2>1, <2>2
<1>6. TypeOK' /\ (builtAt <= clock)'
  BY <1>1, <1>5, <1>10 DEF Inv, TypeOK
<1>7. \A w \in Windows : Sound(deck[w], w)'
  BY <1>1, <1>3, <1>4 DEF Sound, Placed, InWindow
<1>8. \A w \in Windows : Fresh(deck[w])'
  BY <1>1, <1>3, <1>4 DEF Fresh
<1>9. \A w \in Windows : Unplaced(deck[w])'
  BY <1>8, ViewsAre DEF Fresh, Unplaced, Shelf
<1> QED
  BY <1>1, <1>5, <1>6, <1>7, <1>8, <1>9, <1>10 DEF Inv

LEMMA DedupStep == Inv /\ Dedup => Inv'
<1> SUFFICES ASSUME Inv, Dedup PROVE Inv'
  OBVIOUS
<1>1. /\ stage = "dedup" /\ stage' = "canonicalize" /\ deck' = Deduplicated
      /\ compared' = Liked(votes)
      /\ UNCHANGED <<pool, clock, votes, feedback, hasUpvotes, picked, builtAt>>
  BY DEF Dedup
<1>2. \A w \in Windows : Sound(deck[w], w) /\ Fresh(deck[w])
  BY <1>1 DEF Inv
<1>3. \A w \in Windows : Sound(deck'[w], w) /\ Fresh(deck'[w])
  BY <1>1, <1>2, DedupSound
<1>4. deck' = [w \in Windows |-> deck'[w]]
  BY <1>1 DEF Deduplicated, MapViews
<1>5. deck' \in [Windows -> ViewsSet]
  BY <1>3, <1>4 DEF Sound
<1>6. TypeOK' /\ (builtAt <= clock)'
  BY <1>1, <1>5 DEF Inv, TypeOK, Liked
<1>7. \A w \in Windows : Sound(deck[w], w)'
  BY <1>1, <1>3 DEF Sound, Placed, InWindow
<1>8. \A w \in Windows : Fresh(deck[w])'
  BY <1>1, <1>3 DEF Fresh
<1>9. \A w \in Windows : Unplaced(deck[w])'
  BY <1>8, ViewsAre DEF Fresh, Unplaced, Shelf
<1> QED
  BY <1>1, <1>5, <1>6, <1>7, <1>8, <1>9 DEF Inv

LEMMA CanonicalizeStep == Inv /\ Canonicalize => Inv'
<1> SUFFICES ASSUME Inv, Canonicalize PROVE Inv'
  OBVIOUS
<1>1. /\ stage = "canonicalize" /\ deck' = Canonicalized /\ compared' = {}
      /\ stage' = IF Voted(feedback) = {} THEN "cached"
                  ELSE IF pool.arms = <<>> THEN "far" ELSE "draft"
      /\ UNCHANGED <<pool, clock, votes, feedback, hasUpvotes, picked, builtAt>>
  BY DEF Canonicalize
<1>2. pool \in Pools /\ \A w \in Windows : Sound(deck[w], w) /\ Fresh(deck[w])
  BY <1>1 DEF Inv, TypeOK
<1>3. \A w \in Windows : Sound(deck'[w], w) /\ Unplaced(deck'[w])
  BY <1>1, <1>2, CanonicalSound
<1>4. deck' = [w \in Windows |-> deck'[w]]
  BY <1>1 DEF Canonicalized, MapViews
<1>5. deck' \in [Windows -> ViewsSet]
  BY <1>3, <1>4 DEF Sound
<1>6. TypeOK' /\ (builtAt <= clock)'
  BY <1>1, <1>5 DEF Inv, TypeOK
<1>7. \A w \in Windows : Sound(deck[w], w)' /\ Unplaced(deck[w])'
  BY <1>1, <1>3 DEF Sound, Placed, InWindow, Unplaced
<1>8. ASSUME stage' = "cached", NEW w \in Windows PROVE Settled(deck[w], w, builtAt + Horizon)'
  <2>1. Voted(feedback) = {}
    BY <1>1, <1>8
  <2>2. ~hasUpvotes
    BY <1>1, <2>1 DEF Inv
  <2>3. FarCards(deck'[w]) = {}
    BY <2>2 DEF FarCards
  <2>4. Settled(deck'[w], w, builtAt + Horizon)
    BY <1>3, <1>5, <2>3, UnplacedSettled
  <2> QED
    BY <1>1, <2>4 DEF Settled, InWindow, EligibleIn, OthersIn, FarIn, FarCards
<1> QED
  BY <1>1, <1>5, <1>6, <1>7, <1>8 DEF Inv

LEMMA DraftStep == Inv /\ Draft => Inv'
<1> SUFFICES ASSUME Inv, Draft PROVE Inv'
  OBVIOUS
<1>1. /\ stage = "draft" /\ stage' = "far"
      /\ UNCHANGED <<pool, clock, votes, feedback, hasUpvotes, picked, compared, builtAt>>
  BY DEF Draft
<1>2. PICK turns \in Rounds : deck' = Drafted(turns)
  BY DEF Draft
<1>3. pool \in Pools /\ \A w \in Windows : Sound(deck[w], w) /\ Unplaced(deck[w])
  BY <1>1 DEF Inv, TypeOK
<1>4. \A w \in Windows : Sound(deck'[w], w) /\ Unplaced(deck'[w])
  BY <1>2, <1>3, DraftSound
<1>5. deck' = [w \in Windows |-> deck'[w]]
  BY <1>2 DEF Drafted, MapViews
<1>6. deck' \in [Windows -> ViewsSet]
  BY <1>4, <1>5 DEF Sound
<1>7. TypeOK' /\ (builtAt <= clock)'
  BY <1>1, <1>6 DEF Inv, TypeOK
<1>8. \A w \in Windows : Sound(deck[w], w)' /\ Unplaced(deck[w])'
  BY <1>1, <1>4 DEF Sound, Placed, InWindow, Unplaced
<1> QED
  BY <1>1, <1>6, <1>7, <1>8 DEF Inv

LEMMA PlaceFarStep == Inv /\ PlaceFar => Inv'
<1> SUFFICES ASSUME Inv, PlaceFar PROVE Inv'
  OBVIOUS
<1>1. /\ stage = "far" /\ stage' = "cached" /\ builtAt' = clock
      /\ deck' = [w \in Windows |->
           IF FarCards(deck[w]) = {} THEN deck[w] ELSE FarPlaced(deck[w], w)]
      /\ UNCHANGED <<pool, clock, votes, feedback, hasUpvotes, picked, compared>>
  BY DEF PlaceFar
<1>2. pool \in Pools /\ \A w \in Windows : Sound(deck[w], w) /\ Unplaced(deck[w])
  BY <1>1 DEF Inv, TypeOK
<1>3. \A w \in Windows :
        Sound(deck'[w], w) /\ Settled(deck'[w], w, clock + Horizon)
  <2> SUFFICES ASSUME NEW w \in Windows
               PROVE  Sound(deck'[w], w) /\ Settled(deck'[w], w, clock + Horizon)
    OBVIOUS
  <2>1. CASE FarCards(deck[w]) = {}
    <3>1. deck'[w] = deck[w] /\ deck[w] \in ViewsSet
      BY <1>1, <1>2, <2>1 DEF Sound
    <3> QED
      BY <1>2, <2>1, <3>1, UnplacedSettled
  <2>2. CASE FarCards(deck[w]) # {}
    <3>1. deck'[w] = FarPlaced(deck[w], w)
      BY <1>1, <2>2
    <3> QED
      BY <1>2, <2>2, <3>1, FarPlacedSound
  <2> QED
    BY <2>1, <2>2
<1>4. deck' = [w \in Windows |-> deck'[w]]
  BY <1>1
<1>5. deck' \in [Windows -> ViewsSet]
  BY <1>3, <1>4 DEF Sound
<1>6. TypeOK' /\ (builtAt <= clock)'
  BY <1>1, <1>5 DEF Inv, TypeOK
<1>7. \A w \in Windows : Sound(deck[w], w)'
  BY <1>1, <1>3 DEF Sound, Placed, InWindow
<1>8. \A w \in Windows : Settled(deck[w], w, builtAt + Horizon)'
  BY <1>1, <1>3, ZenonT(30) DEF Settled, InWindow, EligibleIn, OthersIn, FarIn, FarCards
<1> QED
  BY <1>1, <1>5, <1>6, <1>7, <1>8 DEF Inv

LEMMA VoteStep == Inv /\ Vote => Inv'
<1> SUFFICES ASSUME Inv, Vote PROVE Inv'
  OBVIOUS
<1>1. UNCHANGED <<pool, clock, stage, feedback, hasUpvotes, deck, picked, compared, builtAt>>
  BY DEF Vote
<1>2. votes' \in [Stories -> {"none", "up", "neutral", "down"}]
  BY DEF Inv, TypeOK, Vote
<1>3. TypeOK' /\ (builtAt <= clock)'
  BY <1>1, <1>2 DEF Inv, TypeOK
<1>4. \A w \in Windows : Sound(deck[w], w)'
  BY <1>1 DEF Inv, Sound, Placed, InWindow
<1>5. stage = "cached" => \A w \in Windows : Settled(deck[w], w, builtAt + Horizon)'
  BY <1>1, ZenonT(30) DEF Inv, Settled, InWindow, EligibleIn, OthersIn, FarIn, FarCards
<1> QED
  BY <1>1, <1>3, <1>4, <1>5 DEF Inv, Fresh, Unplaced

LEMMA TickStep == Inv /\ Tick => Inv'
<1> SUFFICES ASSUME Inv, Tick PROVE Inv'
  OBVIOUS
<1>1. /\ UNCHANGED <<pool, votes, stage, feedback, hasUpvotes, deck, picked, compared, builtAt>>
      /\ clock' = clock + 1 /\ clock < MaxTime /\ clock \in Nat /\ builtAt \in Nat /\ builtAt <= clock
  BY DEF Inv, TypeOK, Tick
<1>2. TypeOK' /\ (builtAt <= clock)'
  BY <1>1, Sizes DEF Inv, TypeOK
<1>3. \A w \in Windows : Sound(deck[w], w)'
  <2> SUFFICES ASSUME NEW w \in Windows PROVE Sound(deck[w], w)'
    OBVIOUS
  <2>1. Sound(deck[w], w) /\ pool \in Pools
    BY DEF Inv, TypeOK
  <2>2. \A c \in Shelf(deck[w]) : c.story \in Stories
    BY <2>1, ShelfIs DEF Sound, CardSet
  <2>3. \A c \in Shelf(deck[w]) : w = Archive => InWindow(c.story, w, clock + 1)
    BY <1>1, <2>1, <2>2, ArchiveStays DEF Sound, Placed
  <2>4. \A c \in Shelf(deck[w]) : w = Archive => InWindow(c.story, w, clock)'
    BY <1>1, <2>3 DEF InWindow
  <2> QED
    BY <1>1, <2>1, <2>4 DEF Sound, Placed
<1>4. stage = "cached" => \A w \in Windows : Settled(deck[w], w, builtAt + Horizon)'
  BY <1>1, ZenonT(30) DEF Inv, Settled, InWindow, EligibleIn, OthersIn, FarIn, FarCards
<1> QED
  BY <1>1, <1>2, <1>3, <1>4 DEF Inv, Fresh, Unplaced

LEMMA InvStep == Inv /\ [Next]_vars => Inv'
<1> SUFFICES ASSUME Inv, [Next]_vars PROVE Inv'
  OBVIOUS
<1>1. CASE Next
  BY <1>1, ReadFeedbackStep, AssembleStep, DedupStep, CanonicalizeStep, DraftStep,
     PlaceFarStep, VoteStep, TickStep DEF Next
<1>2. CASE UNCHANGED vars
  <2>1. TypeOK' /\ (builtAt <= clock)'
    BY <1>2 DEF Inv, TypeOK, vars
  <2>2. \A w \in Windows : Sound(deck[w], w)'
    BY <1>2 DEF Inv, Sound, Placed, InWindow, vars
  <2>3. stage = "cached" => \A w \in Windows : Settled(deck[w], w, builtAt + Horizon)'
    BY <1>2, ZenonT(30) DEF Inv, Settled, InWindow, EligibleIn, OthersIn, FarIn, FarCards, vars
  <2> QED
    BY <1>2, <2>1, <2>2, <2>3 DEF Inv, Fresh, Unplaced, vars
<1> QED
  BY <1>1, <1>2

\* At every stage of a rank the deck that is being made is sound: its views hold
\* cards of stories in their windows, no story twice, and arms as that stage gives
\* them; what is cached has its far cards in place.
THEOREM Invariant == Spec => []Inv
BY InvInit, InvStep, PTL DEF Spec

\* What a rank computes is of its types at every stage: a deck has the views of
\* every window, with cards of stories.
THEOREM TypeCorrect == Spec => []TypeOK
<1>1. Inv => TypeOK
  BY DEF Inv
<1> QED
  BY <1>1, Invariant, PTL

LEMMA InvServedOnce == Inv => ServedOnce
<1> SUFFICES ASSUME Inv, stage = "cached", NEW w \in Windows
             PROVE  LET served == Served(w)
                        stories(v) == StoriesOf(served[v])
                    IN  /\ \A v \in Views : Cardinality(stories(v)) = Len(served[v])
                        /\ stories("recommended") \cap stories("explore") = {}
  BY DEF ServedOnce
<1>1. pool \in Pools /\ deck[w] \in ViewsSet /\ StoryOnce(deck[w])
  BY DEF Inv, TypeOK, Sound
<1>2. \A v \in Views : /\ Served(w)[v] \in Seq(CardSet) /\ Distinct(Served(w)[v])
                       /\ Range(Served(w)[v]) \subseteq Range(deck[w][v])
  BY <1>1, ServedIs
<1>3. \A v \in Views : Cardinality(StoriesOf(Served(w)[v])) = Len(Served(w)[v])
  BY <1>2, DistinctCounts
<1>4. StoriesOf(Served(w)["recommended"]) \cap StoriesOf(Served(w)["explore"]) = {}
  <2>1. /\ Range(Served(w)["recommended"]) \subseteq Range(deck[w]["recommended"])
        /\ Range(Served(w)["explore"]) \subseteq Range(deck[w]["explore"])
    BY <1>2, ViewsAre
  <2> QED
    BY <1>1, <2>1 DEF StoryOnce, StoriesOf
<1> QED
  BY <1>3, <1>4

\* No served view repeats a story, and Explore repeats none of Recommended, for
\* any pool, windows, votes and ages (fast_rerank_for_user, serve_window).
THEOREM OnceServed == Spec => []ServedOnce
BY Invariant, InvServedOnce, PTL

LEMMA InvFarCardStays == Inv => FarCardStays
<1> SUFFICES ASSUME Inv, stage = "cached", clock <= builtAt + Horizon, NEW w \in Windows,
                    \E c \in Eligible(w) : InWindow(c.story, w, builtAt + Horizon)
             PROVE  \E c \in FarPlacedIn(w) :
                      \/ c.story \in Voted(votes)
                      \/ LET shown == Served(w).recommended
                         IN  shown # <<>> /\ Last(shown) = c
  BY DEF FarCardStays
<1> DEFINE cards == deck[w]["recommended"]
<1>1. /\ pool \in Pools /\ deck[w] \in ViewsSet /\ StoryOnce(deck[w]) /\ Placed(deck[w], w)
      /\ clock \in Nat /\ builtAt \in Nat /\ Settled(deck[w], w, builtAt + Horizon)
  BY DEF Inv, TypeOK, Sound
<1>2. Eligible(w) = EligibleIn(deck[w]) /\ FarPlacedIn(w) = FarIn(cards)
  BY DEF Eligible, EligibleIn, OthersIn, FarPlacedIn, FarIn
<1>3. PICK c \in FarIn(cards) : InWindow(c.story, w, builtAt + Horizon)
  BY <1>1, <1>2 DEF Settled
<1>4. cards \in Seq(CardSet) /\ Distinct(cards) /\ c \in Range(cards) /\ c \in Shelf(deck[w])
  BY <1>1, ShelfIs, ViewsAre DEF StoryOnce, FarIn, Shelf
<1>5. c.story \in Stories
  BY <1>1, <1>4, ShelfIs DEF CardSet
<1>6. InWindow(c.story, w, clock)
  <2>1. CASE w = Archive
    BY <1>1, <1>4, <2>1 DEF Placed
  <2>2. CASE w # Archive
    <3>1. builtAt + Horizon \in Int /\ clock \in Int
      BY <1>1, Sizes
    <3> QED
      BY <1>1, <1>3, <1>5, <2>2, <3>1, WindowShrinks
  <2> QED
    BY <2>1, <2>2
<1>7. CASE c.story \in Voted(votes)
  BY <1>2, <1>7
<1>8. CASE c.story \notin Voted(votes)
  <2> DEFINE current == Current(w, cards)
             shown == Served(w)["recommended"]
  <2>1. /\ current \in Seq(CardSet) /\ Distinct(current)
        /\ Range(current) =
             {d \in Range(cards) : d.story \notin Voted(votes) /\ InWindow(d.story, w, clock)}
    BY <1>4, CurrentIs
  <2>2. shown = ServedRecommended(current)
    BY <1>1, ServedIs
  <2>3. c \in FarIn(current) /\ FarIn(current) \subseteq FarIn(cards)
    BY <1>3, <1>4, <1>6, <1>8, <2>1 DEF FarIn
  <2> HIDE DEF current, shown
  <2>4. shown # <<>> /\ Last(shown) \in FarIn(current)
    BY <2>1, <2>2, <2>3, ServedRecommendedIs
  <2>5. Last(shown) = c
    BY <1>1, <1>3, <2>3, <2>4 DEF Settled
  <2> QED
    BY <1>2, <2>4, <2>5 DEF shown
<1> QED
  BY <1>7, <1>8

\* The far card is served last for a horizon, if something that could be it is
\* in the window for so long (place_far_card, serve_window), whatever the pool,
\* the sizes, the horizon and the votes.
THEOREM FarStays == Spec => []FarCardStays
BY Invariant, InvFarCardStays, PTL

-----------------------------------------------------------------------------
(* The draft is fair                                                       *)

Taken(picks, n) == {picks[i].story : i \in 1 .. n}
Left(orders, picks, n, a) == Only(orders[a], Range(orders[a]) \ Taken(picks, n))
CreditOf(picks, n, a) == {i \in 1 .. n : picks[i].arm = a}
Credits(picks, n, a) == Cardinality(CreditOf(picks, n, a))

\* What DraftFair says of a prefix.
FairAt(orders, picks, n) ==
  /\ n > 0 => picks[n].story = Head(Left(orders, picks, n - 1, picks[n].arm))
  /\ \A a, b \in 1 .. Len(orders) :
       Left(orders, picks, n, b) # <<>> => Credits(picks, n, a) <= Credits(picks, n, b) + 1

Fair(orders, picks) == \A n \in 0 .. Len(picks) : FairAt(orders, picks, n)

\* In each of k rounds an arm has added a story, unless it has none left; and
\* so it has in this round, once it was its turn.
Due(k, visited, a) == IF a \in visited THEN k + 1 ELSE k
Even(orders, picks, limit, k, visited) ==
  Len(picks) = limit \/
  \A a \in 1 .. Len(orders) :
    /\ Credits(picks, Len(picks), a) <= Due(k, visited, a)
    /\ Left(orders, picks, Len(picks), a) # <<>> =>
         Credits(picks, Len(picks), a) = Due(k, visited, a)

LEMMA OnlyEmpty ==
  ASSUME NEW S, NEW list \in Seq(S), NEW set
  PROVE  Only(list, set) = <<>> <=> Range(list) \cap set = {}
<1> DEFINE some == Only(list, set)
<1>1. some \in Seq(S) /\ Range(some) = Range(list) \cap set
  BY OnlyRange
<1> HIDE DEF some
<1>2. some = <<>> => Range(some) = {}
  BY DEF Range
<1>3. some # <<>> => some[1] \in Range(some)
  <2>1. some # <<>> => 1 \in DOMAIN some
    BY <1>1
  <2> QED
    BY <2>1 DEF Range
<1> QED
  BY <1>1, <1>2, <1>3 DEF some

LEMMA CreditsAre ==
  ASSUME NEW picks, NEW n \in Nat, NEW a
  PROVE  IsFiniteSet(CreditOf(picks, n, a)) /\ Credits(picks, n, a) \in Nat
<1>1. CreditOf(picks, n, a) \in SUBSET (1 .. n)
  BY DEF CreditOf
<1>2. IsFiniteSet(CreditOf(picks, n, a))
  BY <1>1, FS_Interval, FS_Subset
<1> QED
  BY <1>2, FS_CardinalityType DEF Credits

LEMMA PicksAre ==
  ASSUME NEW orders, NEW picks \in PicksOf(orders)
  PROVE  /\ Len(picks) \in Nat /\ DOMAIN picks = 1 .. Len(picks)
         /\ \A i \in 1 .. Len(picks) : picks[i].story \in Stories /\ picks[i].arm \in 1 .. Len(orders)
<1> DEFINE S == [story : Stories, arm : 1 .. Len(orders)]
<1>1. picks \in Seq(S)
  BY DEF PicksOf
<1> HIDE DEF S
<1>2. Len(picks) \in Nat /\ DOMAIN picks = 1 .. Len(picks) /\ \A i \in 1 .. Len(picks) : picks[i] \in S
  BY <1>1
<1> QED
  BY <1>2 DEF S

Grown(list, x) == Append(list, x)

\* One more pick.
LEMMA OneMore ==
  ASSUME NEW orders \in Seq(Seq(Stories)), NEW picks \in PicksOf(orders),
         NEW arm \in 1 .. Len(orders), NEW best, best.arm = arm,
         NEW more, more \in PicksOf(orders), more = Grown(picks, best)
  PROVE  /\ Len(more) = Len(picks) + 1 /\ more[Len(picks) + 1] = best
         /\ \A n \in 0 .. Len(picks) : /\ Taken(more, n) = Taken(picks, n)
                                       /\ \A a : Credits(more, n, a) = Credits(picks, n, a)
                                       /\ n > 0 => more[n] = picks[n]
         /\ Taken(picks, Len(picks)) \subseteq Taken(more, Len(picks) + 1)
         /\ \A a : Credits(more, Len(picks) + 1, a) =
                     IF a = arm THEN Credits(picks, Len(picks), a) + 1
                                ELSE Credits(picks, Len(picks), a)
<1> DEFINE N == Len(picks)
<1>0. N \in Nat
  BY PicksAre
<1>1. /\ Len(more) = N + 1 /\ more[N + 1] = best
      /\ \A i \in 1 .. N : more[i] = picks[i]
  <2> DEFINE S == [story : Stories, arm : 1 .. Len(orders)]
  <2>1. picks \in Seq(S) /\ more \in Seq(S)
    BY DEF PicksOf
  <2> HIDE DEF S
  <2>2. Len(more) = N + 1 /\ more[N + 1] = best
    BY <2>1 DEF Grown
  <2> QED
    BY <2>1, <2>2 DEF Grown
<1> HIDE DEF N
<1>2. ASSUME NEW n \in 0 .. N
      PROVE  /\ Taken(more, n) = Taken(picks, n)
             /\ \A a : CreditOf(more, n, a) = CreditOf(picks, n, a)
             /\ n > 0 => more[n] = picks[n]
  <2>1. \A i \in 1 .. n : i \in 1 .. N /\ more[i] = picks[i]
    BY <1>0, <1>1
  <2>2. Taken(more, n) = Taken(picks, n)
    BY <2>1 DEF Taken
  <2>3. \A a : CreditOf(more, n, a) = CreditOf(picks, n, a)
    BY <2>1 DEF CreditOf
  <2>4. n > 0 => n \in 1 .. n
    BY <1>0
  <2> QED
    BY <2>1, <2>2, <2>3, <2>4
<1>3. Taken(picks, N) \subseteq Taken(more, N + 1)
  <2>1. \A i \in 1 .. N : i \in 1 .. N + 1 /\ more[i] = picks[i]
    BY <1>0, <1>1
  <2> QED
    BY <2>1 DEF Taken
<1>4. ASSUME NEW a
      PROVE  Credits(more, N + 1, a) =
               IF a = arm THEN Credits(picks, N, a) + 1 ELSE Credits(picks, N, a)
  <2>1. \A i \in 1 .. N + 1 : i \in 1 .. N \/ i = N + 1
    BY <1>0
  <2>2. N + 1 \in 1 .. N + 1 /\ N + 1 \notin 1 .. N /\ \A i \in 1 .. N : i \in 1 .. N + 1
    BY <1>0
  <2>3. CASE a = arm
    <3>1. CreditOf(more, N + 1, a) = CreditOf(picks, N, a) \cup {N + 1}
      BY <1>1, <2>1, <2>2, <2>3 DEF CreditOf
    <3>2. N + 1 \notin CreditOf(picks, N, a)
      BY <2>2 DEF CreditOf
    <3>3. IsFiniteSet(CreditOf(picks, N, a))
      BY <1>0, CreditsAre
    <3>4. Cardinality(CreditOf(picks, N, a) \cup {N + 1}) = Cardinality(CreditOf(picks, N, a)) + 1
      BY <3>2, <3>3, FS_AddElement
    <3> QED
      BY <2>3, <3>1, <3>4 DEF Credits
  <2>4. CASE a # arm
    <3>1. CreditOf(more, N + 1, a) = CreditOf(picks, N, a)
      BY <1>1, <2>1, <2>2, <2>4 DEF CreditOf
    <3> QED
      BY <2>4, <3>1 DEF Credits
  <2> QED
    BY <2>3, <2>4
<1> QED
  BY <1>1, <1>2, <1>3, <1>4 DEF N, Credits

LEMMA TakenAre ==
  ASSUME NEW orders, NEW picks \in PicksOf(orders)
  PROVE  {p.story : p \in Range(picks)} = Taken(picks, Len(picks))
BY PicksAre DEF Range, Taken

LEMMA TurnFair ==
  ASSUME NEW orders \in Seq(Seq(Stories)), NEW picks \in PicksOf(orders), NEW limit,
         NEW arm \in 1 .. Len(orders), NEW k \in Nat, NEW visited, arm \notin visited,
         Fair(orders, picks), Even(orders, picks, limit, k, visited)
  PROVE  LET new == Turn(orders, picks, arm, limit)
         IN  Fair(orders, new) /\ Even(orders, new, limit, k, visited \cup {arm})
<1> DEFINE new == Turn(orders, picks, arm, limit)
           free == FreeOf(orders, picks, arm)
           best == [story |-> Head(free), arm |-> arm]
           N == Len(picks)
<1>1. free = Left(orders, picks, N, arm)
  BY TakenAre DEF FreeOf, Left
<1>2. \/ new = picks /\ (N = limit \/ free = <<>>)
      \/ N # limit /\ free # <<>> /\ new = Append(picks, best)
  BY TurnIs
<1>3. new \in PicksOf(orders)
  BY TurnPicks
<1>4. best.arm = arm /\ best.story = Head(free)
  OBVIOUS
<1>5. N \in Nat
  BY PicksAre
<1>6. \A n \in Nat : \A a : Credits(picks, n, a) \in Nat /\ Credits(new, n, a) \in Nat
  BY CreditsAre
<1> HIDE DEF new, free, best
<1>7. CASE new = picks /\ (N = limit \/ free = <<>>)
  <2>1. Fair(orders, new)
    BY <1>7
  <2>2. CASE N = limit
    BY <1>7, <2>1, <2>2 DEF Even, new
  <2>3. CASE N # limit
    <3>1. Left(orders, picks, N, arm) = <<>>
      BY <1>1, <1>7, <2>3
    <3>2. \A a \in 1 .. Len(orders) :
            /\ Credits(picks, N, a) <= Due(k, visited, a)
            /\ Left(orders, picks, N, a) # <<>> => Credits(picks, N, a) = Due(k, visited, a)
      BY <2>3 DEF Even
    <3>3. \A a \in 1 .. Len(orders) :
            /\ Credits(picks, N, a) <= Due(k, visited \cup {arm}, a)
            /\ Left(orders, picks, N, a) # <<>> =>
                 Credits(picks, N, a) = Due(k, visited \cup {arm}, a)
      BY <1>5, <1>6, <3>1, <3>2 DEF Due
    <3>4. Even(orders, new, limit, k, visited \cup {arm})
      BY <1>7, <3>3 DEF Even
    <3> QED
      BY <2>1, <3>4 DEF new
  <2> QED
    BY <2>2, <2>3
<1>8. CASE N # limit /\ free # <<>> /\ new = Append(picks, best)
  <2>0. best.arm = arm /\ new \in PicksOf(orders) /\ new = Grown(picks, best)
    BY <1>3, <1>4, <1>8 DEF Grown
  <2>1. /\ Len(new) = N + 1 /\ new[N + 1] = best
        /\ \A n \in 0 .. N : /\ Taken(new, n) = Taken(picks, n)
                             /\ \A a : Credits(new, n, a) = Credits(picks, n, a)
                             /\ n > 0 => new[n] = picks[n]
        /\ Taken(picks, N) \subseteq Taken(new, N + 1)
        /\ \A a : Credits(new, N + 1, a) =
                    IF a = arm THEN Credits(picks, N, a) + 1 ELSE Credits(picks, N, a)
    <3> HIDE DEF N
    <3> QED
      BY <2>0, OneMore DEF N
  <2>2. \A n \in 0 .. N : \A a : Left(orders, new, n, a) = Left(orders, picks, n, a)
    BY <2>1 DEF Left
  <2>3. \A a \in 1 .. Len(orders) :
          Left(orders, new, N + 1, a) # <<>> => Left(orders, picks, N, a) # <<>>
    <3> SUFFICES ASSUME NEW a \in 1 .. Len(orders), Left(orders, picks, N, a) = <<>>
                 PROVE  Left(orders, new, N + 1, a) = <<>>
      OBVIOUS
    <3>1. orders[a] \in Seq(Stories)
      OBVIOUS
    <3>2. Range(orders[a]) \cap (Range(orders[a]) \ Taken(picks, N)) = {}
      BY <3>1, OnlyEmpty DEF Left
    <3>3. Range(orders[a]) \cap (Range(orders[a]) \ Taken(new, N + 1)) = {}
      BY <2>1, <3>2
    <3> QED
      BY <3>1, <3>3, OnlyEmpty DEF Left
  <2>4. \A a \in 1 .. Len(orders) :
          /\ Credits(picks, N, a) <= Due(k, visited, a)
          /\ Left(orders, picks, N, a) # <<>> => Credits(picks, N, a) = Due(k, visited, a)
    BY <1>8 DEF Even
  <2>5. FairAt(orders, new, N + 1)
    <3>1. N + 1 - 1 = N /\ N \in 0 .. N
      BY <1>5
    <3>2. new[N + 1].story = Head(Left(orders, new, N, new[N + 1].arm))
      BY <1>1, <1>4, <2>1, <2>2, <3>1
    <3>3. ASSUME NEW a \in 1 .. Len(orders), NEW b \in 1 .. Len(orders),
                 Left(orders, new, N + 1, b) # <<>>
          PROVE  Credits(new, N + 1, a) <= Credits(new, N + 1, b) + 1
      <4>1. /\ Credits(picks, N, a) \in Nat /\ Credits(picks, N, b) \in Nat
        BY <1>5, <1>6
      <4>2. Credits(picks, N, b) = Due(k, visited, b)
        BY <2>3, <2>4, <3>3
      <4>3. Credits(new, N + 1, b) >= k
        <5>1. Credits(picks, N, b) >= k
          BY <4>2 DEF Due
        <5>2. Credits(new, N + 1, b) \in {Credits(picks, N, b), Credits(picks, N, b) + 1}
          BY <2>1
        <5> QED
          BY <4>1, <5>1, <5>2
      <4>4. Credits(picks, N, a) <= Due(k, visited, a)
        BY <2>4
      <4>5. Credits(new, N + 1, a) <= k + 1
        <5>1. CASE a = arm
          <6>1. Credits(picks, N, a) <= k
            BY <4>4, <5>1 DEF Due
          <6>2. Credits(new, N + 1, a) = Credits(picks, N, a) + 1
            BY <2>1, <5>1
          <6> QED
            BY <4>1, <6>1, <6>2
        <5>2. CASE a # arm
          <6>1. Credits(picks, N, a) <= k + 1
            BY <4>1, <4>4 DEF Due
          <6>2. Credits(new, N + 1, a) = Credits(picks, N, a)
            BY <2>1, <5>2
          <6> QED
            BY <6>1, <6>2
        <5> QED
          BY <5>1, <5>2
      <4>6. Credits(new, N + 1, a) \in Nat /\ Credits(new, N + 1, b) \in Nat
        BY <1>5, <1>6
      <4> QED
        BY <4>3, <4>5, <4>6
    <3> QED
      BY <3>1, <3>2, <3>3 DEF FairAt
  <2>6. \A n \in 0 .. N : FairAt(orders, new, n)
    <3> SUFFICES ASSUME NEW n \in 0 .. N PROVE FairAt(orders, new, n)
      OBVIOUS
    <3>1. FairAt(orders, picks, n)
      BY DEF Fair
    <3>2. n > 0 => n - 1 \in 0 .. N
      BY <1>5
    <3> QED
      BY <2>1, <2>2, <3>1, <3>2 DEF FairAt
  <2>7. Fair(orders, new)
    <3>1. \A n \in 0 .. N + 1 : n \in 0 .. N \/ n = N + 1
      BY <1>5
    <3> QED
      BY <2>1, <2>5, <2>6, <3>1 DEF Fair
  <2>8. \A a \in 1 .. Len(orders) :
          /\ Credits(new, N + 1, a) <= Due(k, visited \cup {arm}, a)
          /\ Left(orders, new, N + 1, a) # <<>> =>
               Credits(new, N + 1, a) = Due(k, visited \cup {arm}, a)
    <3> SUFFICES ASSUME NEW a \in 1 .. Len(orders)
                 PROVE  /\ Credits(new, N + 1, a) <= Due(k, visited \cup {arm}, a)
                        /\ Left(orders, new, N + 1, a) # <<>> =>
                             Credits(new, N + 1, a) = Due(k, visited \cup {arm}, a)
      OBVIOUS
    <3>1. Credits(picks, N, a) \in Nat
      BY <1>5, <1>6
    <3>2. CASE a = arm
      <4>1. Left(orders, picks, N, a) # <<>>
        BY <1>1, <1>8, <3>2
      <4>2. Credits(picks, N, a) = k
        BY <2>4, <3>2, <4>1 DEF Due
      <4>3. Credits(new, N + 1, a) = k + 1
        BY <2>1, <3>2, <4>2
      <4> QED
        BY <3>2, <4>3 DEF Due
    <3>3. CASE a # arm
      <4>1. Credits(new, N + 1, a) = Credits(picks, N, a)
        BY <2>1, <3>3
      <4>2. Due(k, visited \cup {arm}, a) = Due(k, visited, a)
        BY <3>3 DEF Due
      <4> QED
        BY <2>3, <2>4, <4>1, <4>2
    <3> QED
      BY <3>2, <3>3
  <2>9. Even(orders, new, limit, k, visited \cup {arm})
    BY <2>1, <2>8 DEF Even
  <2> QED
    BY <2>7, <2>9 DEF new
<1> QED
  BY <1>2, <1>7, <1>8

\* A round that gives every arm its turn.
LEMMA RoundFair ==
  ASSUME NEW orders \in Seq(Seq(Stories)), NEW picks \in PicksOf(orders), NEW limit,
         NEW k \in Nat, NEW order \in SetToSeqs(1 .. Len(orders)),
         Fair(orders, picks), Even(orders, picks, limit, k, {})
  PROVE  LET new == Round(orders, picks, order, limit)
         IN  new \in PicksOf(orders) /\ Fair(orders, new) /\ Even(orders, new, limit, k + 1, {})
<1> DEFINE arms == 1 .. Len(orders)
           L == Len(orders)
           before(m) == {order[i] : i \in 1 .. m}
           Good(m) == {p \in PicksOf(orders) : Fair(orders, p) /\ Even(orders, p, limit, k, before(m))}
           T == [m \in 0 .. L |-> Good(m)]
           new == Round(orders, picks, order, limit)
<1>0. L \in Nat
  OBVIOUS
<1>1. IsFiniteSet(arms) /\ Cardinality(arms) = L
  <2> HIDE DEF L
  <2>1. /\ IsFiniteSet(1 .. L)
        /\ Cardinality(1 .. L) = IF 1 > L THEN 0 ELSE L - 1 + 1
    BY <1>0, FS_Interval
  <2> QED
    BY <1>0, <2>1 DEF L
<1>2. order \in [arms -> arms] /\ \A i, j \in arms : i # j => order[i] # order[j]
  BY <1>1 DEF SetToSeqs
<1>3. order \in Seq(arms) /\ Len(order) = L
  BY <1>0, <1>2, ListIs
<1>4. before(L) = arms
  <2>1. order \in Injection(arms, arms)
    BY <1>2 DEF Injection, IsInjective
  <2> HIDE DEF arms
  <2>2. order \in Surjection(arms, arms)
    BY <1>1, <2>1, FS_Injection
  <2>3. \A a \in arms : \E i \in arms : order[i] = a
    BY <2>2 DEF Surjection
  <2>4. \A i \in arms : order[i] \in arms
    BY <1>2
  <2>5. {order[i] : i \in arms} = arms
    BY <2>3, <2>4
  <2> QED
    BY <2>5 DEF arms
<1>5. ASSUME NEW m \in 0 .. L - 1, NEW p \in Good(m)
      PROVE  Turn(orders, p, order[m + 1], limit) \in Good(m + 1)
  <2> DEFINE arm == order[m + 1]
             next == Turn(orders, p, arm, limit)
  <2>1. m + 1 \in arms /\ \A i \in 1 .. m : i \in arms /\ i # m + 1
    BY <1>0
  <2>2. arm \in 1 .. Len(orders) /\ arm \notin before(m)
    BY <1>2, <2>1
  <2>3. before(m + 1) = before(m) \cup {arm}
    <3>1. \A i \in 1 .. m + 1 : i \in 1 .. m \/ i = m + 1
      BY <2>1
    <3>2. m + 1 \in 1 .. m + 1 /\ \A i \in 1 .. m : i \in 1 .. m + 1
      BY <2>1
    <3> QED
      BY <3>1, <3>2
  <2>4. p \in PicksOf(orders) /\ Fair(orders, p) /\ Even(orders, p, limit, k, before(m))
    OBVIOUS
  <2> HIDE DEF before, arm
  <2>5. Fair(orders, next) /\ Even(orders, next, limit, k, before(m) \cup {arm})
    BY <2>2, <2>4, TurnFair
  <2>6. next \in PicksOf(orders)
    BY <2>2, <2>4, TurnPicks
  <2> QED
    BY <2>3, <2>5, <2>6 DEF arm
<1>6. before(0) = {}
  OBVIOUS
<1>7. picks \in Good(0)
  BY <1>6
<1>8. \A m \in 0 .. L : Good(m) \subseteq PicksOf(orders)
  OBVIOUS
<1> HIDE DEF Good
<1>9. T \in [0 .. Len(order) -> SUBSET PicksOf(orders)] /\ \A m \in 0 .. L : T[m] = Good(m)
  BY <1>3, <1>8
<1> HIDE DEF T
<1>10. /\ 0 \in 0 .. L /\ L \in 0 .. L
       /\ \A m \in 0 .. L - 1 : m \in 0 .. L /\ m + 1 \in 0 .. L
  BY <1>0
<1>11. picks \in T[0]
  BY <1>7, <1>9, <1>10
<1>12. \A m \in 0 .. Len(order) - 1 : \A p \in T[m] :
         Turn(orders, p, order[m + 1], limit) \in T[m + 1]
  BY <1>3, <1>5, <1>9, <1>10, SMTT(30)
<1>13. new \in T[Len(order)]
  BY <1>3, <1>9, <1>11, <1>12, RoundIn
<1>14. new \in Good(L)
  BY <1>3, <1>9, <1>10, <1>13
<1>15. new \in PicksOf(orders) /\ Fair(orders, new) /\ Even(orders, new, limit, k, arms)
  BY <1>4, <1>14 DEF Good
<1> HIDE DEF new
<1>16. \A a \in arms : Due(k, arms, a) = Due(k + 1, {}, a)
  BY DEF Due
<1>17. Even(orders, new, limit, k + 1, {})
  BY <1>15, <1>16 DEF Even
<1> QED
  BY <1>15, <1>17 DEF new

LEMMA DrawFair ==
  ASSUME NEW orders \in Seq(Seq(Stories)), NEW turns \in Seq(SetToSeqs(1 .. Len(orders))),
         turns \in Seq(Seq(1 .. Len(orders))), NEW limit
  PROVE  Draw(orders, turns, limit) \in PicksOf(orders) /\ Fair(orders, Draw(orders, turns, limit))
<1> DEFINE N == Len(turns)
           Good(m) == {p \in PicksOf(orders) : Fair(orders, p) /\ Even(orders, p, limit, m, {})}
           T == [m \in 0 .. N |-> Good(m)]
           Some == SetToSeqs(1 .. Len(orders))
<1>1. N \in Nat /\ \A m \in 1 .. N : turns[m] \in Some
  <2>1. turns \in Seq(Some)
    OBVIOUS
  <2> HIDE DEF Some
  <2> QED
    BY <2>1
<1>2. <<>> \in Good(0)
  <2> DEFINE none == <<>>
  <2>1. none \in PicksOf(orders) /\ Len(none) = 0
    BY DEF PicksOf
  <2>2. \A a : CreditOf(none, 0, a) = {}
    BY DEF CreditOf
  <2>3. \A a : Credits(none, 0, a) = 0
    BY <2>2, FS_EmptySet DEF Credits
  <2> HIDE DEF none
  <2>4. Even(orders, none, limit, 0, {})
    BY <2>1, <2>3 DEF Even, Due
  <2>5. FairAt(orders, none, 0)
    BY <2>3 DEF FairAt
  <2>6. Fair(orders, none)
    <3>1. \A n \in 0 .. 0 : n = 0
      OBVIOUS
    <3> QED
      BY <2>1, <2>5, <3>1 DEF Fair
  <2> QED
    BY <2>1, <2>4, <2>6 DEF none
<1>3. ASSUME NEW m \in 0 .. N - 1, NEW p \in Good(m)
      PROVE  Round(orders, p, turns[m + 1], limit) \in Good(m + 1)
  <2>1. m + 1 \in 1 .. N /\ m \in Nat
    BY <1>1
  <2>2. turns[m + 1] \in SetToSeqs(1 .. Len(orders))
    BY <1>1, <2>1
  <2>3. p \in PicksOf(orders) /\ Fair(orders, p) /\ Even(orders, p, limit, m, {})
    OBVIOUS
  <2> DEFINE order == turns[m + 1]
             new == Round(orders, p, order, limit)
  <2>4. order \in SetToSeqs(1 .. Len(orders))
    BY <2>2
  <2> HIDE DEF order, Some
  <2>5. new \in PicksOf(orders) /\ Fair(orders, new) /\ Even(orders, new, limit, m + 1, {})
    BY <2>1, <2>3, <2>4, RoundFair
  <2> QED
    BY <2>5 DEF order
<1>4. \A m \in 0 .. N : Good(m) \subseteq PicksOf(orders)
  OBVIOUS
<1> HIDE DEF Good
<1>5. T \in [0 .. Len(turns) -> SUBSET PicksOf(orders)] /\ \A m \in 0 .. N : T[m] = Good(m)
  BY <1>4
<1> HIDE DEF T
<1>6. /\ 0 \in 0 .. N /\ N \in 0 .. N
      /\ \A m \in 0 .. N - 1 : m \in 0 .. N /\ m + 1 \in 0 .. N
  BY <1>1
<1>7. <<>> \in T[0]
  BY <1>2, <1>5, <1>6
<1>8. \A m \in 0 .. Len(turns) - 1 : \A p \in T[m] :
        Round(orders, p, turns[m + 1], limit) \in T[m + 1]
  BY <1>3, <1>5, <1>6
<1>9. Draw(orders, turns, limit) \in T[Len(turns)]
  BY <1>5, <1>7, <1>8, DrawIn
<1>10. Draw(orders, turns, limit) \in Good(N)
  BY <1>5, <1>6, <1>9
<1> QED
  BY <1>10 DEF Good

\* The cards of a draft are its picks.
LEMMA DraftedCards ==
  ASSUME pool \in Pools, NEW w \in Windows, Sound(deck[w], w), NEW turns \in Rounds
  PROVE  LET cards  == Drafted(turns)[w]["recommended"]
             orders == Orders(deck[w]["recommended"])
             picks  == Draw(orders, turns, ViewSize * Margin)
         IN  /\ cards \in Seq(CardSet) /\ Len(cards) = Len(picks)
             /\ \A i \in 1 .. Len(picks) : /\ cards[i].story = picks[i].story
                                           /\ cards[i].arm = picks[i].arm
<1> DEFINE old == deck[w]["recommended"]
           orders == Orders(old)
           picks == Draw(orders, turns, ViewSize * Margin)
           card(s) == CHOOSE c \in Range(old) : c.story = s
           cards == Drafted(turns)[w]["recommended"]
<1>1. cards = [i \in DOMAIN picks |-> [card(picks[i].story) EXCEPT !.arm = picks[i].arm]]
  BY ViewsAre DEF Drafted, MapViews
<1>2. old \in Seq(CardSet) /\ Range(old) \subseteq CardSet
  BY ShelfIs, ViewsAre DEF Sound
<1>3. /\ orders \in Seq(Seq(Stories)) /\ Len(orders) = Len(pool.arms) + 1
      /\ \A a \in 1 .. Len(orders) : Range(orders[a]) \subseteq StoriesOf(old)
  BY <1>2, OrdersAre
<1>4. turns \in Seq(Seq(1 .. Len(orders)))
  BY <1>3, RoundsAre
<1> HIDE DEF orders
<1>5. picks \in PicksOf(orders) /\ Own(orders, picks)
  BY <1>3, <1>4, DrawnOnce
<1> HIDE DEF picks
<1>6. /\ Len(picks) \in Nat /\ DOMAIN picks = 1 .. Len(picks)
      /\ \A i \in 1 .. Len(picks) : picks[i].story \in Stories /\ picks[i].arm \in 1 .. Len(orders)
  BY <1>5, PicksAre
<1>7. \A i \in 1 .. Len(picks) : picks[i].story \in StoriesOf(old) /\ picks[i].arm \in Int
  <2> SUFFICES ASSUME NEW i \in 1 .. Len(picks)
               PROVE  picks[i].story \in StoriesOf(old) /\ picks[i].arm \in Int
    OBVIOUS
  <2>1. picks[i].arm \in 1 .. Len(orders) /\ picks[i].story \in Range(orders[picks[i].arm])
    BY <1>5, <1>6 DEF Own
  <2>2. picks[i].arm \in Int
    BY <2>1
  <2> QED
    BY <1>3, <2>1, <2>2
<1>8. \A i \in 1 .. Len(picks) :
        card(picks[i].story) \in Range(old) /\ card(picks[i].story).story = picks[i].story
  BY <1>7 DEF StoriesOf
<1> HIDE DEF cards
<1>9. ASSUME NEW i \in 1 .. Len(picks)
      PROVE  /\ cards[i] \in CardSet /\ cards[i].arm = picks[i].arm
             /\ cards[i].story = picks[i].story
  <2> DEFINE d == card(picks[i].story)
  <2>1. d.story = picks[i].story /\ d \in CardSet /\ picks[i].arm \in Int
    BY <1>2, <1>7, <1>8
  <2>2. cards[i] = [d EXCEPT !.arm = picks[i].arm]
    BY <1>1, <1>6
  <2> HIDE DEF d
  <2> QED
    BY <2>1, <2>2 DEF CardSet
<1>10. cards = [i \in 1 .. Len(picks) |-> cards[i]]
  BY <1>1, <1>6
<1>11. cards \in [1 .. Len(picks) -> CardSet]
  BY <1>9, <1>10
<1>12. cards \in Seq(CardSet) /\ Len(cards) = Len(picks)
  BY <1>6, <1>11, ListIs
<1> QED
  BY <1>9, <1>12 DEF cards, picks, orders

\* DraftFair of one window.
FairCards(orders, cards) ==
  LET credits(n, a) == Cardinality({i \in 1 .. n : cards[i].arm = a})
      left(n, a) == Only(orders[a], Range(orders[a]) \ StoriesOf(SubSeq(cards, 1, n)))
  IN  \A n \in 0 .. Len(cards) :
        /\ n > 0 => cards[n].story = Head(left(n - 1, cards[n].arm))
        /\ \A a, b \in DOMAIN orders :
             left(n, b) # <<>> => credits(n, a) <= credits(n, b) + 1

LEMMA FairPicks ==
  ASSUME NEW orders \in Seq(Seq(Stories)), NEW picks \in PicksOf(orders), Fair(orders, picks),
         NEW cards \in Seq(CardSet), Len(cards) = Len(picks),
         \A i \in 1 .. Len(picks) : cards[i].story = picks[i].story /\ cards[i].arm = picks[i].arm
  PROVE  FairCards(orders, cards)
<1> DEFINE N == Len(picks)
           credits(n, a) == Cardinality({i \in 1 .. n : cards[i].arm = a})
           left(n, a) == Only(orders[a], Range(orders[a]) \ StoriesOf(SubSeq(cards, 1, n)))
<1>1. N \in Nat /\ DOMAIN orders = 1 .. Len(orders)
  BY PicksAre
<1>2. ASSUME NEW n \in 0 .. N PROVE StoriesOf(SubSeq(cards, 1, n)) = Taken(picks, n)
  <2> DEFINE some == SubSeq(cards, 1, n)
  <2>1. DOMAIN some = 1 .. n /\ \A i \in 1 .. n : some[i] = cards[i]
    BY <1>1
  <2>2. \A i \in 1 .. n : i \in 1 .. N
    BY <1>1
  <2> HIDE DEF some
  <2>3. \A i \in 1 .. n : some[i].story = picks[i].story
    BY <2>1, <2>2
  <2>4. StoriesOf(some) = {some[i].story : i \in 1 .. n}
    BY <2>1, ZenonT(30) DEF StoriesOf, Range
  <2> QED
    BY <2>3, <2>4 DEF some, Taken
<1>3. ASSUME NEW n \in 0 .. N, NEW a PROVE left(n, a) = Left(orders, picks, n, a)
  BY <1>2 DEF Left
<1>4. ASSUME NEW n \in 0 .. N, NEW a PROVE credits(n, a) = Credits(picks, n, a)
  <2>1. \A i \in 1 .. n : i \in 1 .. N /\ cards[i].arm = picks[i].arm
    BY <1>1
  <2>2. {i \in 1 .. n : cards[i].arm = a} = CreditOf(picks, n, a)
    BY <2>1 DEF CreditOf
  <2> QED
    BY <2>2 DEF Credits
<1> HIDE DEF credits, left
<1>5. ASSUME NEW n \in 0 .. N
      PROVE  /\ n > 0 => cards[n].story = Head(left(n - 1, cards[n].arm))
             /\ \A a, b \in 1 .. Len(orders) :
                  left(n, b) # <<>> => credits(n, a) <= credits(n, b) + 1
  <2>1. FairAt(orders, picks, n)
    BY DEF Fair
  <2>2. n > 0 => n \in 1 .. N /\ n - 1 \in 0 .. N
    BY <1>1
  <2>3. n > 0 => /\ cards[n].story = picks[n].story /\ cards[n].arm = picks[n].arm
                 /\ left(n - 1, picks[n].arm) = Left(orders, picks, n - 1, picks[n].arm)
    BY <1>3, <2>2
  <2> QED
    BY <1>3, <1>4, <2>1, <2>3 DEF FairAt
<1>6. \A n \in 0 .. Len(cards) :
        /\ n > 0 => cards[n].story = Head(left(n - 1, cards[n].arm))
        /\ \A a, b \in DOMAIN orders : left(n, b) # <<>> => credits(n, a) <= credits(n, b) + 1
  BY <1>1, <1>5
<1> QED
  BY <1>6 DEF FairCards, credits, left

LEMMA DraftedFair ==
  ASSUME pool \in Pools, NEW w \in Windows, Sound(deck[w], w), NEW turns \in Rounds
  PROVE  FairCards(Orders(deck[w]["recommended"]), Drafted(turns)[w]["recommended"])
<1> DEFINE old == deck[w]["recommended"]
           orders == Orders(old)
           limit == ViewSize * Margin
           picks == Draw(orders, turns, limit)
           cards == Drafted(turns)[w]["recommended"]
<1>1. /\ cards \in Seq(CardSet) /\ Len(cards) = Len(picks)
      /\ \A i \in 1 .. Len(picks) : cards[i].story = picks[i].story /\ cards[i].arm = picks[i].arm
  BY DraftedCards
<1>2. old \in Seq(CardSet)
  BY ShelfIs, ViewsAre DEF Sound
<1>3. orders \in Seq(Seq(Stories)) /\ Len(orders) = Len(pool.arms) + 1
  BY <1>2, OrdersAre
<1>4. turns \in Seq(Seq(1 .. Len(orders)))
  BY <1>3, RoundsAre
<1>5. turns \in Seq(SetToSeqs(1 .. Len(orders)))
  <2> DEFINE Some == SetToSeqs(1 .. Len(pool.arms) + 1)
  <2>1. turns \in [1 .. limit -> Some]
    BY DEF Rounds
  <2> HIDE DEF Some
  <2>2. turns \in Seq(Some)
    BY <2>1, Sizes, ListIs
  <2> QED
    BY <1>3, <2>2 DEF Some
<1> HIDE DEF cards, orders, limit
<1>6. picks \in PicksOf(orders) /\ Fair(orders, picks)
  BY <1>3, <1>4, <1>5, DrawFair
<1> HIDE DEF picks
<1>7. FairCards(orders, cards)
  BY <1>1, <1>3, <1>6, FairPicks
<1> QED
  BY <1>7 DEF cards, orders

LEMMA FairStep ==
  ASSUME Inv, [Next]_vars, stage = "draft", stage' = "far", NEW w \in Windows
  PROVE  FairCards(Orders(deck[w]["recommended"]), deck'[w]["recommended"])
<1>1. Draft
  BY DEF Next, vars, ReadFeedback, Assemble, Dedup, Canonicalize, PlaceFar, Vote, Tick
<1>2. PICK turns \in Rounds : deck' = Drafted(turns)
  BY <1>1 DEF Draft
<1>3. pool \in Pools /\ Sound(deck[w], w)
  BY DEF Inv, TypeOK
<1> QED
  BY <1>2, <1>3, DraftedFair

\* However the draws of its rounds come out, a draft is fair to its arms at
\* every place, though they run dry at different times (team_draft).
THEOREM DraftIsFair == Spec => DraftFair
<1>1. Inv /\ [Next]_vars =>
        [stage = "draft" /\ stage' = "far" =>
           \A w \in Windows :
             LET cards == deck'[w].recommended
                 orders == Orders(deck[w].recommended)
                 credits(n, a) == Cardinality({i \in 1 .. n : cards[i].arm = a})
                 left(n, a) == Only(orders[a],
                                 Range(orders[a]) \ StoriesOf(SubSeq(cards, 1, n)))
             IN  \A n \in 0 .. Len(cards) :
                   /\ n > 0 => cards[n].story = Head(left(n - 1, cards[n].arm))
                   /\ \A a, b \in DOMAIN orders :
                        left(n, b) # <<>> => credits(n, a) <= credits(n, b) + 1]_vars
  BY FairStep DEF FairCards
<1> QED
  BY <1>1, Invariant, PTL DEF Spec, DraftFair

-----------------------------------------------------------------------------
(* No topic is lost                                                        *)

\* The votes that are sorted in are all there.
LEMMA ByIdIs ==
  ASSUME NEW set \in SUBSET Stories
  PROVE  ById(set) \in Seq(Stories) /\ Range(ById(set)) = set
<1> DEFINE N == Cardinality(set)
           Below(s) == {t \in set : t < s}
           rank == [s \in set |-> Cardinality(Below(s)) + 1]
<1>1. IsFiniteSet(set) /\ N \in Nat /\ set \subseteq Int
  BY DeckAssumption, FS_Subset, FS_CardinalityType
<1>2. ASSUME NEW s \in set
      PROVE  /\ IsFiniteSet(Below(s)) /\ Cardinality(Below(s)) \in Nat
             /\ Cardinality(Below(s)) < N
  <2>1. Below(s) \in SUBSET set /\ s \notin Below(s)
    BY <1>1
  <2>2. IsFiniteSet(Below(s)) /\ Cardinality(Below(s)) <= N /\ (N = Cardinality(Below(s)) => set = Below(s))
    BY <1>1, <2>1, FS_Subset
  <2>3. Cardinality(Below(s)) \in Nat
    BY <2>2, FS_CardinalityType
  <2>4. set # Below(s)
    BY <2>1
  <2> HIDE DEF Below, N
  <2> QED
    BY <1>1, <2>2, <2>3, <2>4
<1>3. ASSUME NEW s \in set, NEW t \in set, s < t
      PROVE  Cardinality(Below(s)) < Cardinality(Below(t))
  <2>0. s \in Int /\ t \in Int
    BY <1>1
  <2>1. /\ \A u \in Below(s) : u \in Below(t)
        /\ s \in Below(t) /\ s \notin Below(s)
    BY <1>1, <1>3, <2>0
  <2>2. IsFiniteSet(Below(t)) /\ Cardinality(Below(t)) \in Nat /\ Cardinality(Below(s)) \in Nat
    BY <1>2
  <2> HIDE DEF Below
  <2>3. Below(t) # Below(s) /\ Below(s) \in SUBSET Below(t)
    BY <2>1
  <2>4. Cardinality(Below(s)) <= Cardinality(Below(t)) /\ Cardinality(Below(s)) # Cardinality(Below(t))
    BY <2>2, <2>3, FS_Subset
  <2> QED
    BY <2>2, <2>4
<1> HIDE DEF Below, N
<1>4. rank \in [set -> 1 .. N]
  BY <1>1, <1>2
<1>5. \A s, t \in set : rank[s] = rank[t] => s = t
  <2> SUFFICES ASSUME NEW s \in set, NEW t \in set, rank[s] = rank[t] PROVE s = t
    OBVIOUS
  <2>1. Cardinality(Below(s)) \in Nat /\ Cardinality(Below(t)) \in Nat
    BY <1>2
  <2>2. Cardinality(Below(s)) = Cardinality(Below(t))
    BY <2>1
  <2>3. ~ (s < t) /\ ~ (t < s)
    BY <1>3, <2>1, <2>2
  <2>4. s \in Int /\ t \in Int
    BY <1>1
  <2> QED
    BY <2>3, <2>4
<1>6. rank \in Injection(set, 1 .. N)
  BY <1>4, <1>5 DEF Injection, IsInjective
<1>7. Cardinality(1 .. N) = N /\ IsFiniteSet(1 .. N)
  BY <1>1, FS_Interval
<1>8. rank \in Surjection(set, 1 .. N)
  BY <1>6, <1>7, FS_Injection DEF N
<1>9. \A n \in 1 .. N : \E s \in set : rank[s] = n
  BY <1>8 DEF Surjection
<1>10. \A s \in set, n \in 1 .. N : Cardinality(Below(s)) = n - 1 <=> rank[s] = n
  BY <1>1, <1>2
<1> HIDE DEF rank
<1>11. ById(set) = [n \in 1 .. N |-> CHOOSE s \in set : Cardinality(Below(s)) = n - 1]
  BY DEF ById, N, Below
<1>12. \A n \in 1 .. N : ById(set)[n] \in set /\ rank[ById(set)[n]] = n
  BY <1>9, <1>10, <1>11
<1>13. DOMAIN ById(set) = 1 .. N /\ ById(set) \in [1 .. N -> Stories]
  BY <1>11, <1>12
<1>14. ById(set) \in Seq(Stories)
  BY <1>1, <1>13
<1>15. \A s \in set : ById(set)[rank[s]] = s
  BY <1>4, <1>5, <1>12
<1>16. Range(ById(set)) = set
  BY <1>4, <1>12, <1>13, <1>15 DEF Range
<1> QED
  BY <1>14, <1>16

\* A set of stories that has with each of its stories all about the same.
Whole(some) ==
  /\ some \subseteq Stories
  /\ \A s \in some, t \in Stories : SameTopic(t, s) => t \in some

LEMMA SameTopicIsSymmetric ==
  ASSUME NEW s, NEW t, SameTopic(s, t)
  PROVE  SameTopic(t, s)
<1>1. {s, t} = {t, s}
  OBVIOUS
<1> QED
  BY <1>1 DEF SameTopic

\* What is about the same as a story of a set.
Wider(some) == some \cup {t \in Stories : \E u \in some : SameTopic(t, u)}

LEMMA TopicEquation ==
  ASSUME NEW s \in Stories
  PROVE  \E grown :
           /\ grown[0] = {s}
           /\ \A n \in 1 .. Cardinality(Stories) : grown[n] = Wider(grown[n - 1])
           /\ Topic(s) = grown[Cardinality(Stories)]
<1> DEFINE N == Cardinality(Stories)
           Sets == SUBSET Stories
           G == [p \in Sets \X (1 .. N) |-> Wider(p[1])]
<1>0. N \in Nat
  BY DeckAssumption, FS_CardinalityType
<1>1. /\ G \in [Sets \X (1 .. N) -> Sets]
      /\ \A p \in Sets, n \in 1 .. N : G[<<p, n>>] = Wider(p)
  BY DEF Wider
<1> HIDE DEF G
<1>2. PICK f : Recurses(f, Sets, {s}, N, G)
  <2>1. {s} \in Sets
    OBVIOUS
  <2> HIDE DEF N, Sets
  <2> QED
    BY <1>0, <1>1, <2>1, Recursion, Zenon
<1>3. \A i \in 1 .. N : f[i] = Wider(f[i - 1])
  <2>1. \A i \in 1 .. N : f[i - 1] \in Sets
    <3>1. \A i \in 1 .. N : i - 1 \in 0 .. N
      BY <1>0
    <3>2. f \in [0 .. N -> Sets]
      BY <1>2 DEF Recurses
    <3> QED
      BY <3>1, <3>2
  <2> HIDE DEF N
  <2> QED
    BY <1>1, <1>2, <2>1 DEF Recurses
<1> DEFINE step(before) == before \cup {t \in Stories : \E u \in before : SameTopic(t, u)}
           R(g) == [n \in 0 .. N |-> IF n = 0 THEN {s} ELSE step(g[n - 1])]
           grown == CHOOSE g : g = R(g)
<1>4. f = R(f)
  <2>1. \A n \in 0 .. N : n = 0 \/ n \in 1 .. N
    BY <1>0
  <2>2. f \in [0 .. N -> SUBSET Stories] /\ f[0] = {s}
    BY <1>2 DEF Recurses
  <2>3. \A n \in 1 .. N : f[n] = step(f[n - 1])
    BY <1>3 DEF Wider
  <2> HIDE DEF N, step
  <2> QED
    BY <2>1, <2>2, <2>3
<1>5. grown = R(grown)
  <2> HIDE DEF N, step
  <2> QED
    BY <1>4
<1>6. Topic(s) = grown[N]
  BY DEF Topic
<1> HIDE DEF grown
<1>7. grown[0] = {s}
  <2> HIDE DEF step
  <2> QED
    BY <1>0, <1>5
<1>8. \A n \in 1 .. N : grown[n] = Wider(grown[n - 1])
  <2>1. \A n \in 1 .. N : n \in 0 .. N /\ n # 0
    BY <1>0
  <2>2. \A n \in 1 .. N : grown[n] = step(grown[n - 1])
    <3> HIDE DEF step, N
    <3> QED
      BY <1>5, <2>1
  <2> QED
    BY <2>2 DEF Wider
<1> QED
  BY <1>6, <1>7, <1>8

\* A topic is whole: it grows until it is, and there are no more stories than
\* it has steps to.
LEMMA TopicIsWhole ==
  ASSUME NEW s \in Stories
  PROVE  s \in Topic(s) /\ Whole(Topic(s))
<1> DEFINE N == Cardinality(Stories)
<1>0. N \in Nat /\ IsFiniteSet(Stories)
  BY DeckAssumption, FS_CardinalityType
<1>1. PICK grown :
        /\ grown[0] = {s}
        /\ \A n \in 1 .. N : grown[n] = Wider(grown[n - 1])
        /\ Topic(s) = grown[N]
  BY TopicEquation
<1> DEFINE Good(n) ==
      /\ grown[n] \in SUBSET Stories /\ s \in grown[n]
      /\ Whole(grown[n]) \/ Cardinality(grown[n]) >= n + 1
<1> HIDE DEF N
<1>2. Good(0)
  <2>1. Cardinality({s}) = 1
    BY FS_Singleton
  <2> QED
    BY <1>1, <2>1
<1>3. ASSUME NEW n \in 0 .. N - 1, Good(n) PROVE Good(n + 1)
  <2> DEFINE old == grown[n]
             new == grown[n + 1]
  <2>1. n + 1 \in 1 .. N /\ n + 1 - 1 = n /\ n \in Nat
    BY <1>0
  <2>2. new = Wider(old)
    BY <1>1, <2>1
  <2>3. old \in SUBSET Stories /\ s \in old /\ (Whole(old) \/ Cardinality(old) >= n + 1)
    BY <1>3
  <2> HIDE DEF old, new, Good
  <2>4. new \in SUBSET Stories /\ old \subseteq new
    BY <2>2, <2>3 DEF Wider
  <2>5. CASE Whole(old)
    <3>1. new = old
      BY <2>2, <2>5 DEF Wider, Whole
    <3> QED
      BY <2>3, <2>5, <3>1 DEF Good, new
  <2>6. CASE ~Whole(old)
    <3>1. new # old
      BY <2>2, <2>3, <2>6 DEF Wider, Whole
    <3>2. IsFiniteSet(new) /\ IsFiniteSet(old)
      BY <1>0, <2>3, <2>4, FS_Subset
    <3>3. Cardinality(old) <= Cardinality(new) /\ Cardinality(old) # Cardinality(new)
      BY <2>4, <3>1, <3>2, FS_Subset
    <3>4. Cardinality(old) \in Nat /\ Cardinality(new) \in Nat
      BY <3>2, FS_CardinalityType
    <3>5. Cardinality(new) >= n + 1 + 1
      BY <2>1, <2>3, <2>6, <3>3, <3>4
    <3> QED
      BY <2>3, <2>4, <3>5 DEF Good, new
  <2> QED
    BY <2>5, <2>6
<1> HIDE DEF Good
<1> DEFINE T == {n \in 0 .. N : Good(n)}
<1>4. 0 \in T /\ \A n \in 0 .. N - 1 : n \in T => n + 1 \in T
  BY <1>0, <1>2, <1>3
<1>5. N \in T
  <2> HIDE DEF T
  <2>1. \A n \in 0 .. N : n \in T
    BY <1>0, <1>4, InductiveTo
  <2> QED
    BY <1>0, <2>1
<1>6. Good(N)
  BY <1>5
<1>7. grown[N] \in SUBSET Stories /\ s \in grown[N]
  BY <1>6 DEF Good
<1>8. Cardinality(grown[N]) <= N /\ Cardinality(grown[N]) \in Nat
  BY <1>0, <1>7, FS_Subset, FS_CardinalityType DEF N
<1>9. Whole(grown[N])
  BY <1>0, <1>6, <1>8 DEF Good
<1> QED
  BY <1>1, <1>7, <1>9

\* The entries of a deduplication: the stories of the deck and the votes.
LEMMA EntriesAre ==
  ASSUME pool \in Pools
  PROVE  /\ Entries \in Seq(Stories)
         /\ Range(Entries) = Range(DeckStories) \cup Liked(votes)
<1> DEFINE list == DeckStories
           more == ById(Liked(votes) \ Range(list))
<1>1. list \in Seq(Stories) /\ Range(list) \subseteq Stories
  BY PoolIs, OnlyOrder DEF DeckStories
<1>2. Liked(votes) \ Range(list) \in SUBSET Stories
  BY DEF Liked
<1>3. more \in Seq(Stories) /\ Range(more) = Liked(votes) \ Range(list)
  BY <1>2, ByIdIs
<1>4. Entries = list \o more
  BY DEF Entries
<1> HIDE DEF list, more
<1>5. /\ Entries \in Seq(Stories)
      /\ DOMAIN Entries = 1 .. Len(list) + Len(more)
      /\ DOMAIN list = 1 .. Len(list) /\ DOMAIN more = 1 .. Len(more)
      /\ Len(list) \in Nat /\ Len(more) \in Nat
      /\ \A i \in 1 .. Len(list) : Entries[i] = list[i]
      /\ \A i \in 1 .. Len(more) : Entries[i + Len(list)] = more[i]
  BY <1>1, <1>3, <1>4
<1>6. \A i \in 1 .. Len(list) : i \in DOMAIN Entries
  BY <1>5
<1>7. \A i \in 1 .. Len(more) : i + Len(list) \in DOMAIN Entries
  BY <1>5
<1>8. \A x \in Range(list) \cup Range(more) : x \in Range(Entries)
  <2>1. \A x \in Range(list) : x \in Range(Entries)
    BY <1>5, <1>6 DEF Range
  <2>2. \A x \in Range(more) : x \in Range(Entries)
    BY <1>5, <1>7 DEF Range
  <2> QED
    BY <2>1, <2>2
<1>9. \A i \in DOMAIN Entries : Entries[i] \in Range(list) \cup Range(more)
  <2> SUFFICES ASSUME NEW i \in DOMAIN Entries PROVE Entries[i] \in Range(list) \cup Range(more)
    OBVIOUS
  <2>1. CASE i <= Len(list)
    <3>1. i \in 1 .. Len(list)
      BY <1>5, <2>1
    <3> QED
      BY <1>5, <3>1 DEF Range
  <2>2. CASE ~ (i <= Len(list))
    <3>1. i - Len(list) \in 1 .. Len(more) /\ i - Len(list) + Len(list) = i
      BY <1>5, <2>2
    <3> QED
      BY <1>5, <3>1 DEF Range
  <2> QED
    BY <2>1, <2>2
<1>10. Range(Entries) = Range(list) \cup Range(more)
  BY <1>8, <1>9 DEF Range
<1> QED
  BY <1>3, <1>5, <1>10 DEF list

\* Of two entries one is preferred, and preferences do not go in a circle.
LEMMA PreferredOrders ==
  ASSUME pool \in Pools
  PROVE  /\ \A s, t \in Range(Entries) : s # t => Preferred(s, t) \/ Preferred(t, s)
         /\ \A s, t, u \in Range(Entries) : Preferred(s, t) /\ Preferred(t, u) => Preferred(s, u)
<1> DEFINE points(x) == IF x \in Range(DeckStories) THEN pool.worth[x].points ELSE -1
           source(x) == pool.worth[x].source
           at(x) == Place(Entries, x)
<1>1. Entries \in Seq(Stories) /\ Range(Entries) \subseteq Stories
  BY EntriesAre DEF Range
<1>2. pool.worth \in [Stories -> [source : Int, points : Nat]]
  BY DeckAssumption DEF Pool
<1>3. \A s \in Range(Entries) : points(s) \in Int /\ source(s) \in Int
  BY <1>1, <1>2
<1>4. \A s \in Range(Entries) : at(s) \in 1 .. Len(Entries) /\ Entries[at(s)] = s
  BY <1>1, PlaceIs
<1>5. \A s, t : Preferred(s, t) <=>
        \/ source(s) < source(t)
        \/ source(s) = source(t) /\ points(s) > points(t)
        \/ source(s) = source(t) /\ points(s) = points(t) /\ at(s) < at(t)
  BY DEF Preferred
<1> HIDE DEF points, source, at
<1>6. \A s \in Range(Entries) : at(s) \in Int
  BY <1>4
<1>7. \A s, t \in Range(Entries) : at(s) = at(t) => s = t
  BY <1>4
<1>8. \A s, t \in Range(Entries) : s # t => Preferred(s, t) \/ Preferred(t, s)
  BY <1>3, <1>5, <1>6, <1>7
<1>9. \A s, t, u \in Range(Entries) : Preferred(s, t) /\ Preferred(t, u) => Preferred(s, u)
  BY <1>3, <1>5, <1>6
<1> QED
  BY <1>8, <1>9

\* Every entry's URL has a story that is preferred to all others of it.
LEMMA UrlHasBest ==
  ASSUME pool \in Pools, NEW s \in Range(Entries)
  PROVE  \E u \in Range(OnePerUrl) : pool.url[u] = pool.url[s]
<1> DEFINE N == Len(Entries)
           Seen(n) == {Entries[j] : j \in 1 .. n}
           Leads(u, n) == \A t \in Seen(n) \ {u} : pool.url[u] = pool.url[t] => Preferred(u, t)
           Good(n) == \A x \in Seen(n) : \E u \in Seen(n) : pool.url[u] = pool.url[x] /\ Leads(u, n)
<1>0. /\ Entries \in Seq(Stories) /\ N \in Nat /\ DOMAIN Entries = 1 .. N
      /\ Range(Entries) = Seen(N)
  BY EntriesAre DEF Range
<1>1. \A n \in 0 .. N : Seen(n) \subseteq Range(Entries)
  BY <1>0 DEF Range
<1>2. Good(0)
  <2>1. 1 .. 0 = {}
    OBVIOUS
  <2> QED
    BY <2>1
<1>3. ASSUME NEW n \in 0 .. N - 1, Good(n) PROVE Good(n + 1)
  <2> DEFINE y == Entries[n + 1]
             old == Seen(n)
             new == Seen(n + 1)
  <2>1. n \in 0 .. N /\ n + 1 \in 0 .. N
    BY <1>0
  <2>2. new = old \cup {y}
    <3>1. \A j \in 1 .. n + 1 : j \in 1 .. n \/ j = n + 1
      OBVIOUS
    <3>2. \A j \in 1 .. n : j \in 1 .. n + 1
      OBVIOUS
    <3>3. n + 1 \in 1 .. n + 1
      OBVIOUS
    <3> QED
      BY <3>1, <3>2, <3>3
  <2>3. new \subseteq Range(Entries)
    BY <1>1, <2>1
  <2>4. \A x \in old : \E u \in old :
          pool.url[u] = pool.url[x] /\ \A t \in old \ {u} : pool.url[u] = pool.url[t] => Preferred(u, t)
    BY <1>3
  <2> SUFFICES ASSUME NEW x \in new
               PROVE  \E u \in new : /\ pool.url[u] = pool.url[x]
                                     /\ \A t \in new \ {u} : pool.url[u] = pool.url[t] => Preferred(u, t)
    OBVIOUS
  <2> HIDE DEF old, new, y
  \* Someone before the new entry has the URL, or nobody has.
  <2>5. CASE \E z \in old : pool.url[z] = pool.url[x]
    <3>1. PICK u \in old : /\ pool.url[u] = pool.url[x]
                           /\ \A t \in old \ {u} : pool.url[u] = pool.url[t] => Preferred(u, t)
      BY <2>4, <2>5
    <3>2. CASE pool.url[y] # pool.url[x] \/ y = u \/ Preferred(u, y)
      <4>1. \A t \in new \ {u} : pool.url[u] = pool.url[t] => Preferred(u, t)
        BY <2>2, <3>1, <3>2
      <4> QED
        BY <2>2, <3>1, <4>1
    <3>3. CASE pool.url[y] = pool.url[x] /\ y # u /\ ~Preferred(u, y)
      <4>1. y \in Range(Entries) /\ u \in Range(Entries)
        BY <2>2, <2>3, <3>1
      <4>2. Preferred(y, u)
        BY <3>3, <4>1, PreferredOrders
      <4>3. ASSUME NEW t \in new \ {y}, pool.url[y] = pool.url[t] PROVE Preferred(y, t)
        <5>1. t \in old /\ t \in Range(Entries)
          BY <2>2, <2>3
        <5>2. CASE t = u
          BY <4>2, <5>2
        <5>3. CASE t # u
          <6>1. Preferred(u, t)
            BY <3>1, <3>3, <4>3, <5>1, <5>3
          <6> QED
            BY <4>1, <4>2, <5>1, <6>1, PreferredOrders
        <5> QED
          BY <5>2, <5>3
      <4> QED
        BY <2>2, <3>3, <4>3
    <3> QED
      BY <3>2, <3>3
  <2>6. CASE \A z \in old : pool.url[z] # pool.url[x]
    <3>1. x = y
      BY <2>2, <2>6
    <3>2. \A t \in new \ {x} : pool.url[x] # pool.url[t]
      BY <2>2, <2>6, <3>1
    <3> QED
      BY <3>2
  <2> QED
    BY <2>5, <2>6
<1> DEFINE T == {n \in 0 .. N : Good(n)}
<1>4. N \in T
  <2>1. 0 \in T /\ \A n \in 0 .. N - 1 : n \in T => n + 1 \in T
    <3> HIDE DEF Good, N
    <3> QED
      BY <1>0, <1>2, <1>3
  <2> HIDE DEF T, N
  <2>2. \A n \in 0 .. N : n \in T
    BY <1>0, <2>1, InductiveTo
  <2> QED
    BY <1>0, <2>2
<1>5. PICK u \in Range(Entries) :
        /\ pool.url[u] = pool.url[s]
        /\ \A t \in Range(Entries) \ {u} : pool.url[u] = pool.url[t] => Preferred(u, t)
  <2>1. Good(N)
    BY <1>4
  <2> QED
    BY <1>0, <2>1
<1>6. Range(OnePerUrl) =
        Range(Entries) \cap {x \in Range(Entries) :
          \A t \in Range(Entries) \ {x} : pool.url[x] = pool.url[t] => Preferred(x, t)}
  BY <1>0, OnlyRange DEF OnePerUrl
<1> QED
  BY <1>5, <1>6

\* What a story's turn leaves: it or one about the same, and of those that
\* were kept it or it instead.
LEMMA KeepIs ==
  ASSUME pool \in Pools, NEW kept \in SUBSET Stories, NEW s \in Stories
  PROVE  /\ Keep(kept, s) \subseteq kept \cup {s}
         /\ s \in Keep(kept, s) \/ \E t \in Keep(kept, s) : SameTopic(t, s)
         /\ \A u \in kept : u \in Keep(kept, s) \/ (s \in Keep(kept, s) /\ SameTopic(s, u))
<1> DEFINE close == {i \in DOMAIN pool.near : \E t \in kept : pool.near[i] = {s, t}}
           rival == CHOOSE t \in kept : pool.near[Min(close)] = {s, t}
           new == Keep(kept, s)
<1>1. CASE close = {}
  <2>1. new = kept \cup {s}
    BY <1>1 DEF Keep
  <2> HIDE DEF new
  <2> QED
    BY <2>1 DEF new
<1>2. CASE close # {}
  <2>1. DOMAIN pool.near \subseteq Nat
    <3>1. pool.near \in Seq(SUBSET Stories)
      BY DeckAssumption DEF Pool
    <3> QED
      BY <3>1
  <2>2. Min(close) \in close
    <3>1. close \in SUBSET Nat
      BY <2>1
    <3> HIDE DEF close
    <3>2. \E x \in close : \A y \in close : x =< y
      BY <1>2, <3>1, Least
    <3> QED
      BY <3>2 DEF Min
  <2>3. rival \in kept /\ pool.near[Min(close)] = {s, rival} /\ Min(close) \in DOMAIN pool.near
    BY <2>2
  <2>4. new = IF Preferred(s, rival) THEN (kept \ {rival}) \cup {s} ELSE kept
    BY <1>2 DEF Keep
  <2> HIDE DEF close, rival, new
  <2>5. {s, rival} \in Range(pool.near)
    BY <2>3 DEF Range
  <2>6. SameTopic(s, rival) /\ SameTopic(rival, s)
    <3>1. SameTopic(s, rival)
      BY <2>5 DEF SameTopic
    <3> QED
      BY <3>1, SameTopicIsSymmetric
  <2>7. CASE Preferred(s, rival)
    <3>1. new = (kept \ {rival}) \cup {s}
      BY <2>4, <2>7
    <3> QED
      BY <2>6, <3>1 DEF new
  <2>8. CASE ~Preferred(s, rival)
    <3>1. new = kept
      BY <2>4, <2>8
    <3> QED
      BY <2>3, <2>6, <3>1 DEF new
  <2> QED
    BY <2>7, <2>8
<1> QED
  BY <1>1, <1>2

LEMMA SurvivorsEquation ==
  ASSUME pool \in Pools, OnePerUrl \in Seq(Stories)
  PROVE  \E kept :
           /\ kept[0] = {}
           /\ \A n \in 1 .. Len(OnePerUrl) : kept[n] = Keep(kept[n - 1], OnePerUrl[n])
           /\ Survivors = {s \in kept[Len(OnePerUrl)] :
                             pool.url[s] \notin {pool.url[f] : f \in Liked(feedback)}}
<1> DEFINE list == OnePerUrl
           N == Len(list)
           Sets == SUBSET Stories
           G == [p \in Sets \X (1 .. N) |-> Keep(p[1], list[p[2]])]
<1>0. N \in Nat /\ \A n \in 1 .. N : list[n] \in Stories
  OBVIOUS
<1> HIDE DEF list
<1>1. /\ G \in [Sets \X (1 .. N) -> Sets]
      /\ \A p \in Sets, n \in 1 .. N : G[<<p, n>>] = Keep(p, list[n])
  <2>1. \A p \in Sets, n \in 1 .. N : Keep(p, list[n]) \in Sets
    BY <1>0, KeepIs
  <2> HIDE DEF N, Sets
  <2> QED
    BY <2>1
<1> HIDE DEF G
<1>2. PICK f : Recurses(f, Sets, {}, N, G)
  <2>1. {} \in Sets
    OBVIOUS
  <2> HIDE DEF N, Sets
  <2> QED
    BY <1>0, <1>1, <2>1, Recursion, Zenon
<1>3. \A i \in 1 .. N : f[i] = Keep(f[i - 1], list[i])
  <2>1. \A i \in 1 .. N : f[i - 1] \in Sets
    <3>1. \A i \in 1 .. N : i - 1 \in 0 .. N
      BY <1>0
    <3>2. f \in [0 .. N -> Sets]
      BY <1>2 DEF Recurses
    <3> QED
      BY <3>1, <3>2
  <2> HIDE DEF N
  <2> QED
    BY <1>1, <1>2, <2>1 DEF Recurses
<1> DEFINE R(g) == [n \in 0 .. N |-> IF n = 0 THEN {} ELSE Keep(g[n - 1], list[n])]
           kept == CHOOSE g : g = R(g)
<1>4. f = R(f)
  <2>1. \A n \in 0 .. N : n = 0 \/ n \in 1 .. N
    BY <1>0
  <2>2. f \in [0 .. N -> Sets] /\ f[0] = {}
    BY <1>2 DEF Recurses
  <2> HIDE DEF N
  <2> QED
    BY <1>3, <2>1, <2>2
<1>5. kept = R(kept)
  <2> HIDE DEF N
  <2> QED
    BY <1>4
<1>6. Survivors = {s \in kept[N] : pool.url[s] \notin {pool.url[f1] : f1 \in Liked(feedback)}}
  BY DEF Survivors, list
<1> HIDE DEF kept
<1>7. kept[0] = {}
  BY <1>0, <1>5
<1>8. \A n \in 1 .. N : kept[n] = Keep(kept[n - 1], list[n])
  <2>1. \A n \in 1 .. N : n \in 0 .. N /\ n # 0
    BY <1>0
  <2> HIDE DEF N
  <2> QED
    BY <1>5, <2>1
<1> QED
  BY <1>6, <1>7, <1>8 DEF list

\* A topic of which something is in the deck has, after deduplication, something
\* in the deck or a vote.
LEMMA DedupKeepsTopic ==
  ASSUME pool \in Pools, NEW topic, Whole(topic), NEW s \in Range(DeckStories) \cap topic
  PROVE  \E t \in topic :
           t \in Range(DeckStories) \cap Survivors \/ t \in Liked(feedback) \cup Liked(votes)
<1> DEFINE list == OnePerUrl
           N == Len(list)
<1>0. /\ list \in Seq(Stories) /\ Range(list) \subseteq Range(Entries)
      /\ N \in Nat /\ DOMAIN list = 1 .. N /\ \A n \in 1 .. N : list[n] \in Stories
  <2>1. OnePerUrl \in Seq(Stories) /\ Range(OnePerUrl) \subseteq Range(Entries)
    BY EntriesAre, OnlyRange DEF OnePerUrl
  <2> HIDE DEF list
  <2> QED
    BY <2>1 DEF list
<1>1. PICK kept :
        /\ kept[0] = {}
        /\ \A n \in 1 .. N : kept[n] = Keep(kept[n - 1], list[n])
        /\ Survivors = {x \in kept[N] : pool.url[x] \notin {pool.url[f] : f \in Liked(feedback)}}
  BY <1>0, SurvivorsEquation
<1>2. PICK u \in Range(list) : pool.url[u] = pool.url[s]
  BY EntriesAre, UrlHasBest
<1>3. u \in topic
  <2>1. u \in Stories
    BY <1>0 DEF Range
  <2>2. SameTopic(u, s)
    BY <1>2 DEF SameTopic
  <2> QED
    BY <2>1, <2>2 DEF Whole
<1> DEFINE Good(n) ==
      /\ kept[n] \subseteq Range(list)
      /\ \A i \in 1 .. n : list[i] \in topic => \E t \in kept[n] : t \in topic
<1> HIDE DEF list, N
<1>4. Good(0)
  BY <1>1
<1>5. ASSUME NEW n \in 0 .. N - 1, Good(n) PROVE Good(n + 1)
  <2> DEFINE x == list[n + 1]
             old == kept[n]
             new == kept[n + 1]
  <2>1. n + 1 \in 1 .. N /\ n + 1 - 1 = n /\ \A i \in 1 .. n + 1 : i \in 1 .. n \/ i = n + 1
    BY <1>0
  <2>2. new = Keep(old, x)
    BY <1>1, <2>1
  <2>3. x \in Range(list) /\ x \in Stories
    BY <1>0, <2>1 DEF Range
  <2>4. Range(list) \subseteq Stories
    BY <1>0 DEF Range
  <2>5. old \subseteq Range(list) /\ \A i \in 1 .. n : list[i] \in topic => \E t \in old : t \in topic
    BY <1>5
  <2> HIDE DEF x, old, new, Good
  <2>6. /\ new \subseteq old \cup {x}
        /\ x \in new \/ \E t \in new : SameTopic(t, x)
        /\ \A t \in old : t \in new \/ (x \in new /\ SameTopic(x, t))
    <3>1. old \in SUBSET Stories
      BY <2>4, <2>5
    <3> QED
      BY <2>2, <2>3, <3>1, KeepIs
  <2>7. new \subseteq Range(list)
    BY <2>3, <2>5, <2>6
  <2>8. ASSUME NEW t \in old, t \in topic PROVE \E y \in new : y \in topic
    BY <2>3, <2>6, <2>8 DEF Whole
  <2>9. ASSUME x \in topic PROVE \E y \in new : y \in topic
    BY <2>4, <2>6, <2>7, <2>9 DEF Whole
  <2>10. \A i \in 1 .. n + 1 : list[i] \in topic => \E t \in new : t \in topic
    BY <2>1, <2>5, <2>8, <2>9 DEF x
  <2> QED
    BY <2>7, <2>10 DEF Good, new
<1> HIDE DEF Good
<1> DEFINE T == {n \in 0 .. N : Good(n)}
<1>6. N \in T
  <2>1. 0 \in T /\ \A n \in 0 .. N - 1 : n \in T => n + 1 \in T
    BY <1>0, <1>4, <1>5
  <2> HIDE DEF T
  <2>2. \A n \in 0 .. N : n \in T
    BY <1>0, <2>1, InductiveTo
  <2> QED
    BY <1>0, <2>2
<1>7. PICK t \in kept[N] : t \in topic /\ t \in Range(list)
  <2>1. Good(N)
    BY <1>6
  <2>2. \E i \in 1 .. N : list[i] = u
    BY <1>0, <1>2 DEF Range
  <2> QED
    BY <1>3, <2>1, <2>2 DEF Good
<1>8. t \in Range(DeckStories) \cup Liked(votes)
  BY <1>0, <1>7, EntriesAre
<1>9. CASE pool.url[t] \in {pool.url[f] : f \in Liked(feedback)}
  <2>1. PICK f \in Liked(feedback) : pool.url[f] = pool.url[t]
    BY <1>9
  <2>2. f \in Stories /\ SameTopic(f, t)
    BY <2>1 DEF Liked, SameTopic
  <2>3. f \in topic
    BY <1>7, <2>2 DEF Whole
  <2> QED
    BY <2>1, <2>3
<1>10. CASE pool.url[t] \notin {pool.url[f] : f \in Liked(feedback)}
  <2>1. t \in Survivors
    BY <1>1, <1>7, <1>10
  <2> QED
    BY <1>7, <1>8, <2>1
<1> QED
  BY <1>9, <1>10

\* Why a story has the outcome it has, if its turn has not come before.
LEMMA OutcomeWhy ==
  ASSUME NEW read \in Reads, NEW s \in Stories, NEW emitted \in SUBSET Stories, s \notin emitted
  PROVE  LET o == Outcome(read, s, emitted)
             c == read.canonical[s]
         IN  \/ o = s
             \/ o = Dropped /\ s \in read.hn /\ s \in read.alike
             \/ /\ o = Dropped /\ s \in read.hn /\ c \in Stories
                /\ c \in read.voted \cup Range(read.ranked) \cup emitted
             \/ o = c /\ s \in read.hn /\ c \in Stories /\ c \notin Range(read.ranked)
<1> DEFINE c == read.canonical[s]
           taken == read.voted \cup Range(read.ranked) \cup emitted
           o == Outcome(read, s, emitted)
<1>0. c \in Stories \cup {NoStory} /\ NoStory \notin Stories
  BY DeckAssumption DEF Reads
<1>1. CASE s \notin read.hn
  BY <1>1 DEF Outcome
<1>2. CASE s \in read.hn /\ s \in read.alike
  <2>1. o = Dropped
    BY <1>2 DEF Outcome
  <2> QED
    BY <1>2, <2>1
<1>3. CASE s \in read.hn /\ s \notin read.alike /\ c = NoStory
  <2>1. o = s
    BY <1>3 DEF Outcome
  <2> QED
    BY <2>1
<1>4. CASE s \in read.hn /\ s \notin read.alike /\ c # NoStory
  <2>1. o = IF c \in taken THEN Dropped ELSE IF c \in read.showable THEN c ELSE s
    BY <1>4 DEF Outcome
  <2>2. c \in Stories
    BY <1>0, <1>4
  <2> HIDE DEF o, c
  <2>3. \/ o = s
        \/ o = Dropped /\ s \in read.hn /\ c \in Stories /\ c \in taken
        \/ o = c /\ s \in read.hn /\ c \in Stories /\ c \notin Range(read.ranked)
    BY <1>4, <2>1, <2>2
  <2> QED
    BY <2>3 DEF o, c
<1> QED
  BY <1>1, <1>2, <1>3, <1>4

\* What is emitted was on the list or is an outcome that was not.
Accounted(emitted, ranked, cards) ==
  \A x \in emitted :
    x \in Range(ranked) \/ (x \notin Range(ranked) /\ \E j \in 1 .. Len(cards) : cards[j] = x)

LEMMA OutcomesAre ==
  ASSUME NEW read \in Reads, IsInjective(read.ranked)
  PROVE  \A i \in 1 .. Len(read.ranked) : \E emitted \in SUBSET Stories :
           /\ Outcomes(read)[i] = Outcome(read, read.ranked[i], emitted)
           /\ read.ranked[i] \notin emitted
           /\ Accounted(emitted, read.ranked, Outcomes(read))
<1> DEFINE list == read.ranked
           N == Len(list)
<1>0. /\ N \in Nat /\ list \in Seq(Stories) /\ DOMAIN list = 1 .. N
      /\ \A n \in 1 .. N : list[n] \in Stories /\ list[n] \in Range(list)
  BY DEF Reads, Range
<1>1. PICK done :
        /\ done[0] = [cards |-> <<>>, emitted |-> {}]
        /\ \A n \in 1 .. N : done[n] = Passed(read, done[n - 1], list[n])
        /\ Outcomes(read) = done[N].cards
  BY OutcomesEquation
<1> DEFINE Good(n) ==
      /\ done[n] \in Passes /\ Len(done[n].cards) = n
      /\ \A x \in done[n].emitted :
           \/ \E j \in 1 .. n : x = list[j]
           \/ x \notin Range(list) /\ \E j \in 1 .. n : done[n].cards[j] = x
      /\ \A i \in 1 .. n : \E emitted \in SUBSET Stories :
           /\ done[n].cards[i] = Outcome(read, list[i], emitted)
           /\ list[i] \notin emitted
           /\ Accounted(emitted, list, done[n].cards)
<1>2. Good(0)
  BY <1>1 DEF Passes
<1> HIDE DEF N, list
<1>3. ASSUME NEW n \in 0 .. N - 1, Good(n) PROVE Good(n + 1)
  <2> DEFINE s == list[n + 1]
             old == done[n].cards
             before == done[n].emitted
             card == Outcome(read, s, before)
             new == done[n + 1].cards
             after == done[n + 1].emitted
  <2>1. n + 1 \in 1 .. N /\ n + 1 - 1 = n /\ n \in Nat
    BY <1>0
  <2>2. s \in Stories /\ s \in Range(list) /\ done[n + 1] = Passed(read, done[n], s)
    BY <1>0, <1>1, <2>1
  <2>3. /\ done[n] \in Passes /\ old \in Seq(Stories \cup {NoStory})
        /\ before \in SUBSET Stories /\ Len(old) = n
    BY <1>3 DEF Passes
  <2>4. done[n + 1] \in Passes
    BY <2>2, <2>3, PassedIs
  <2>5. card \in Stories \cup {Dropped}
    BY <2>2, <2>3, OutcomeIs
  <2>6. /\ new = Append(old, card)
        /\ after = before \cup {IF card = Dropped THEN s ELSE card}
    BY <2>2 DEF Passed
  <2>7. /\ \A x \in before :
             \/ \E j \in 1 .. n : x = list[j]
             \/ x \notin Range(list) /\ \E j \in 1 .. n : old[j] = x
        /\ \A i \in 1 .. n : \E emitted \in SUBSET Stories :
             /\ old[i] = Outcome(read, list[i], emitted)
             /\ list[i] \notin emitted
             /\ Accounted(emitted, list, old)
    BY <1>3
  <2>8. s \notin before
    <3>1. \A j \in 1 .. n : list[j] # s
      <4>1. \A j \in 1 .. n : j \in DOMAIN list /\ n + 1 \in DOMAIN list /\ j # n + 1
        BY <1>0, <2>1
      <4> QED
        BY <4>1 DEF IsInjective, list
    <3> QED
      BY <2>2, <2>7, <3>1
  <2>9. card = s \/ card = Dropped \/ card \notin Range(list)
    BY <2>2, <2>3, <2>8, OutcomeWhy DEF list
  <2> HIDE DEF s, card, old, new, before, after, Good
  <2>10. /\ Len(new) = n + 1 /\ new[n + 1] = card
         /\ \A i \in 1 .. n : new[i] = old[i]
    BY <2>3, <2>5, <2>6 DEF Dropped
  <2>11. /\ \A i \in 1 .. n + 1 : i \in 1 .. n \/ i = n + 1
         /\ \A i \in 1 .. n : i \in 1 .. n + 1
         /\ n + 1 \in 1 .. n + 1
    BY <2>1
  <2>12. \A x \in after :
           \/ \E j \in 1 .. n + 1 : x = list[j]
           \/ x \notin Range(list) /\ \E j \in 1 .. n + 1 : new[j] = x
    <3> SUFFICES ASSUME NEW x \in after
                 PROVE  \/ \E j \in 1 .. n + 1 : x = list[j]
                        \/ x \notin Range(list) /\ \E j \in 1 .. n + 1 : new[j] = x
      OBVIOUS
    <3>1. CASE x \in before
      BY <2>7, <2>10, <2>11, <3>1
    <3>2. CASE x \notin before
      <4>1. x = s \/ (x = card /\ card # Dropped)
        BY <2>6, <3>2
      <4>2. CASE x = s
        BY <2>11, <4>2 DEF s
      <4>3. CASE x # s
        BY <2>9, <2>10, <2>11, <4>1, <4>3
      <4> QED
        BY <4>2, <4>3
    <3> QED
      BY <3>1, <3>2
  <2>13. \A emitted : Accounted(emitted, list, old) => Accounted(emitted, list, new)
    BY <2>3, <2>10, <2>11 DEF Accounted
  <2>14. Accounted(before, list, new)
    <3>1. \A j \in 1 .. n : list[j] \in Range(list)
      BY <1>0, <2>1
    <3> QED
      BY <2>7, <2>10, <2>11, <3>1 DEF Accounted
  <2>15. \A i \in 1 .. n + 1 : \E emitted \in SUBSET Stories :
           /\ new[i] = Outcome(read, list[i], emitted)
           /\ list[i] \notin emitted
           /\ Accounted(emitted, list, new)
    <3>1. \A i \in 1 .. n : \E emitted \in SUBSET Stories :
           /\ new[i] = Outcome(read, list[i], emitted)
           /\ list[i] \notin emitted
           /\ Accounted(emitted, list, new)
      BY <2>7, <2>10, <2>13
    <3>2. /\ new[n + 1] = Outcome(read, list[n + 1], before)
          /\ list[n + 1] \notin before
      BY <2>8, <2>10 DEF card, s
    <3> QED
      BY <2>3, <2>11, <2>14, <3>1, <3>2
  <2> QED
    BY <2>4, <2>10, <2>12, <2>15 DEF Good, new, after
<1> HIDE DEF Good
<1> DEFINE T == {n \in 0 .. N : Good(n)}
<1>4. N \in T
  <2>1. 0 \in T /\ \A n \in 0 .. N - 1 : n \in T => n + 1 \in T
    BY <1>0, <1>2, <1>3
  <2> HIDE DEF T
  <2>2. \A n \in 0 .. N : n \in T
    BY <1>0, <2>1, InductiveTo
  <2> QED
    BY <1>0, <2>2
<1>5. Good(N)
  BY <1>4
<1> QED
  BY <1>1, <1>5 DEF Good, N, list

\* The same for the stories of a deck.
LEMMA DeckOutcomeWhy ==
  ASSUME pool \in Pools, NEW s \in Range(DeckStories)
  PROVE  LET c == pool.canonical[s]
         IN  \/ OutcomeOf[s] = s
             \/ s \in pool.hn /\ Matches(s)
             \/ s \in pool.hn /\ c \in Stories /\ c \in Context \cup Range(DeckStories)
             \/ s \in pool.hn /\ c \in Stories /\ OutcomeOf[s] = c
             \/ /\ s \in pool.hn /\ c \in Stories
                /\ \E u \in Range(DeckStories) :
                     OutcomeOf[u] = c /\ pool.canonical[u] = c /\ u \in pool.hn
<1> DEFINE list == DeckStories
           read == [ranked    |-> list,
                    hn        |-> pool.hn,
                    canonical |-> pool.canonical,
                    voted     |-> Context,
                    alike     |-> {x \in Stories : Matches(x)},
                    showable  |-> pool.showable]
           out == Outcomes(read)
           c == pool.canonical[s]
<1>1. OutcomeOf = [x \in Range(list) |-> out[Place(list, x)]]
  BY DEF OutcomeOf
<1>2. list \in Seq(Stories) /\ IsInjective(list) /\ Range(list) \subseteq Stories
  BY PoolIs, OnlyOrder DEF DeckStories
<1>3. read \in Reads
  <2>1. /\ pool.hn \in SUBSET Stories /\ pool.canonical \in [Stories -> Stories \cup {NoStory}]
        /\ pool.showable \in SUBSET Stories
    BY DeckAssumption DEF Pool
  <2>2. Context \in SUBSET Stories
    BY DEF Context, Liked
  <2> HIDE DEF list
  <2> QED
    BY <1>2, <2>1, <2>2 DEF Reads
<1>4. /\ read.ranked = list /\ read.hn = pool.hn /\ read.canonical = pool.canonical
      /\ read.voted = Context /\ read.alike = {x \in Stories : Matches(x)}
  OBVIOUS
<1> HIDE DEF read
<1>5. /\ Len(out) = Len(list) /\ Len(list) \in Nat /\ DOMAIN list = 1 .. Len(list)
      /\ \A i \in 1 .. Len(list) : \E emitted \in SUBSET Stories :
           /\ out[i] = Outcome(read, list[i], emitted)
           /\ list[i] \notin emitted
           /\ Accounted(emitted, list, out)
  BY <1>2, <1>3, <1>4, OutcomesOnce, OutcomesAre
<1> HIDE DEF out, list
<1>6. \A x \in Range(list) : Place(list, x) \in 1 .. Len(list) /\ list[Place(list, x)] = x
  BY <1>2, PlaceIs
<1>7. \A x \in Range(list) : \E emitted \in SUBSET Stories :
           /\ OutcomeOf[x] = Outcome(read, x, emitted)
           /\ x \notin emitted
           /\ Accounted(emitted, list, out)
  BY <1>1, <1>5, <1>6
<1>8. \A i \in 1 .. Len(list) : list[i] \in Range(list) /\ OutcomeOf[list[i]] = out[i]
  <2>1. \A i \in 1 .. Len(list) : list[i] \in Range(list)
    BY <1>5 DEF Range
  <2>2. \A i \in 1 .. Len(list) : Place(list, list[i]) = i
    BY <1>2, <1>5, <1>6, <2>1 DEF IsInjective
  <2> QED
    BY <1>1, <2>1, <2>2
<1>9. \A x \in Range(list) :
        \/ OutcomeOf[x] = x
        \/ OutcomeOf[x] = Dropped
        \/ OutcomeOf[x] = pool.canonical[x] /\ x \in pool.hn
  BY <1>2, <1>3, <1>4, <1>7, OutcomeWhy
<1>10. s \in Range(list) /\ s \in Stories
  BY <1>2 DEF list
<1>11. PICK emitted \in SUBSET Stories :
           /\ OutcomeOf[s] = Outcome(read, s, emitted)
           /\ s \notin emitted
           /\ Accounted(emitted, list, out)
  BY <1>7, <1>10
<1>12. \/ OutcomeOf[s] = s
       \/ s \in pool.hn /\ Matches(s)
       \/ s \in pool.hn /\ c \in Stories /\ c \in Context \cup Range(list) \cup emitted
       \/ s \in pool.hn /\ c \in Stories /\ OutcomeOf[s] = c
  BY <1>3, <1>4, <1>10, <1>11, OutcomeWhy
<1>13. ASSUME c \in Stories, c \in emitted, c \notin Range(list)
       PROVE  \E u \in Range(list) :
                OutcomeOf[u] = c /\ pool.canonical[u] = c /\ u \in pool.hn
  <2>1. PICK j \in 1 .. Len(list) : out[j] = c
    BY <1>5, <1>11, <1>13 DEF Accounted
  <2>2. list[j] \in Range(list) /\ OutcomeOf[list[j]] = c
    BY <1>8, <2>1
  <2>3. c # list[j] /\ c # Dropped
    BY <1>13, <2>2, DeckAssumption DEF Dropped
  <2> QED
    BY <1>9, <2>2, <2>3
<1> QED
  BY <1>12, <1>13 DEF list

\* The outcome of a card is in its view, unless it is dropped or another story
\* that is not in the window.
LEMMA CanonicalShown ==
  ASSUME pool \in Pools, NEW w \in Windows, deck[w] \in ViewsSet, NEW v \in Views,
         NEW card \in Range(deck[w][v]),
         NEW o, o = OutcomeOf[card.story], o # Dropped,
         o = card.story \/ InWindow(o, w, clock), v = "popular" => o \in pool.hn
  PROVE  o \in StoriesOf(Canonicalized[w][v])
<1> DEFINE f == OutcomeOf
           kept(c) == /\ f[c.story] # Dropped
                      /\ f[c.story] = c.story \/ InWindow(f[c.story], w, clock)
           set == {c \in Range(deck[w][v]) : kept(c)}
           left == Only(deck[w][v], set)
           new == [i \in DOMAIN left |-> [left[i] EXCEPT !.story = f[@]]]
           view == Canonicalized[w][v]
<1>1. view = IF v = "popular" THEN ByGravity(new) ELSE new
  BY DEF Canonicalized, MapViews
<1>2. card \in set
  BY DEF set
<1>3. deck[w][v] \in Seq(CardSet) /\ Range(deck[w][v]) \subseteq CardSet
  BY ShelfIs
<1> HIDE DEF set, view
<1>4. Range(left) = Range(deck[w][v]) \cap set /\ left \in Seq(CardSet)
  BY <1>3, OnlyRange
<1> HIDE DEF left
<1>5. PICK i \in DOMAIN left : left[i] = card
  BY <1>2, <1>4 DEF Range
<1>6. card \in CardSet
  BY <1>3
<1>7. i \in DOMAIN new /\ new[i].story = o
  BY <1>5, <1>6 DEF CardSet
<1> DEFINE T == {new[k] : k \in DOMAIN left}
<1>12. new \in Seq(T)
  <2>1. DOMAIN left = 1 .. Len(left) /\ Len(left) \in Nat
    BY <1>4
  <2>2. DOMAIN new = DOMAIN left /\ new = [k \in DOMAIN left |-> new[k]]
    OBVIOUS
  <2> HIDE DEF new
  <2>3. \A k \in DOMAIN left : new[k] \in T
    OBVIOUS
  <2> HIDE DEF T
  <2>4. new \in [1 .. Len(left) -> T]
    BY <2>1, <2>2, <2>3
  <2> QED
    BY <2>1, <2>4, ListIs
<1> HIDE DEF new, f, T
<1>8. \E c \in Range(new) : c.story = o
  BY <1>7 DEF Range
<1>9. o \in StoriesOf(new)
  BY <1>8 DEF StoriesOf
<1>10. CASE v # "popular"
  BY <1>1, <1>9, <1>10 DEF view
<1>11. CASE v = "popular"
  <2>2. Range(new) \subseteq Range(ByGravity(new))
    BY <1>12, ByGravityIs
  <2>3. o \in StoriesOf(ByGravity(new))
    BY <1>8, <2>2 DEF StoriesOf
  <2> QED
    BY <1>1, <1>11, <2>3 DEF view
<1> QED
  BY <1>10, <1>11

Popularly(d) == \A w \in Windows : \A c \in Range(d[w]["popular"]) : c.story \in pool.hn

\* What is in the deck, list by list.
LEMMA DeckStoriesAre ==
  ASSUME pool \in Pools
  PROVE  /\ \A s \in Range(DeckStories) : s \in Stories /\
              \E w \in Windows, v \in Views : \E c \in Range(deck[w][v]) : c.story = s
         /\ \A w \in Windows, v \in Views :
              Fresh(deck[w]) => \A c \in Range(deck[w][v]) : c.story \in Range(DeckStories)
<1> DEFINE all == UNION {StoriesOf(deck[w][v]) : w \in Windows, v \in Views}
<1>1. Range(DeckStories) = Range(pool.ranked) \cap all
  BY PoolIs, OnlyRange DEF DeckStories
<1>2. Range(pool.ranked) \subseteq Stories
  BY PoolIs DEF Range
<1>3. \A s \in all : \E w \in Windows, v \in Views : s \in StoriesOf(deck[w][v])
  OBVIOUS
<1>4. \A w \in Windows, v \in Views : \A s \in StoriesOf(deck[w][v]) : s \in all
  OBVIOUS
<1> HIDE DEF all
<1>5. \A s \in Range(DeckStories) : s \in Stories /\
        \E w \in Windows, v \in Views : \E c \in Range(deck[w][v]) : c.story = s
  BY <1>1, <1>2, <1>3 DEF StoriesOf
<1>6. ASSUME NEW w \in Windows, NEW v \in Views, Fresh(deck[w]), NEW c \in Range(deck[w][v])
      PROVE  c.story \in Range(DeckStories)
  <2>1. c.story \in Range(pool.ranked)
    BY <1>6 DEF Fresh
  <2>2. c.story \in StoriesOf(deck[w][v])
    BY DEF StoriesOf
  <2> QED
    BY <1>1, <1>4, <2>1, <2>2
<1> QED
  BY <1>5, <1>6

\* Where a topic may end, as TopicKept has it.
ShownBy(final) == UNION {StoriesOf(final[w][v]) : w \in Windows, v \in Views}

LeftOut(t) ==
  \E x \in Windows, y \in Views :
    /\ t \in StoriesOf(deck[x][y])
    /\ pool.canonical[t] # NoStory /\ ~InWindow(pool.canonical[t], x, clock)

\* A story of the deck whose outcome is it or its discussion, so that it is
\* shown or its discussion is not in some window of the story.
LEMMA ShownOrOutside ==
  ASSUME pool \in Pools, \A w \in Windows : deck[w] \in ViewsSet, Popularly(deck),
         NEW s \in Range(DeckStories), NEW o \in Stories, OutcomeOf[s] = o,
         o = s \/ (o = pool.canonical[s] /\ s \in pool.hn)
  PROVE  o \in ShownBy(Canonicalized) \/ LeftOut(s)
<1>1. PICK w \in Windows, v \in Views : \E c \in Range(deck[w][v]) : c.story = s
  BY DeckStoriesAre
<1>2. PICK card \in Range(deck[w][v]) : card.story = s
  BY <1>1
<1>3. o # Dropped /\ o # NoStory
  BY DeckAssumption DEF Dropped
<1>4. v = "popular" => o \in pool.hn
  <2>1. v = "popular" => s \in pool.hn
    BY <1>2 DEF Popularly
  <2>2. s \in pool.hn /\ o = pool.canonical[s] => o \in pool.hn
    BY <1>3, PoolIs
  <2> QED
    BY <2>1, <2>2
<1>5. CASE o = s \/ InWindow(o, w, clock)
  <2>1. o \in StoriesOf(Canonicalized[w][v])
    BY <1>2, <1>3, <1>4, <1>5, CanonicalShown
  <2> QED
    BY <2>1 DEF ShownBy
<1>6. CASE o # s /\ ~InWindow(o, w, clock)
  <2>1. s \in StoriesOf(deck[w][v])
    BY <1>2 DEF StoriesOf
  <2>2. o = pool.canonical[s]
    BY <1>6
  <2> QED
    BY <1>3, <1>6, <2>1, <2>2 DEF LeftOut
<1> QED
  BY <1>5, <1>6

\* A topic of which something is in the deck, and nothing leads round in a circle,
\* ends in what canonicalization shows, in a vote, or with a discussion that is not
\* in the window.
LEMMA CanonicalKeepsTopic ==
  ASSUME pool \in Pools, \A w \in Windows : deck[w] \in ViewsSet, Popularly(deck),
         NEW topic, Whole(topic), topic \cap Range(DeckStories) # {},
         ~Circular(topic \cap Range(DeckStories))
  PROVE  \E t \in topic :
           \/ t \in ShownBy(Canonicalized) \cup Liked(feedback) \cup Liked(votes)
           \/ LeftOut(t)
<1> DEFINE some == topic \cap Range(DeckStories)
           Ends(t) == \/ t \in ShownBy(Canonicalized) \cup Liked(feedback) \cup Liked(votes)
                      \/ LeftOut(t)
<1>1. PICK s \in some : pool.canonical[s] \notin some
  <2>1. some \in (SUBSET some) \ {{}} /\ ~Circular(some)
    OBVIOUS
  <2> HIDE DEF some
  <2> QED
    BY <2>1 DEF Circular
<1> DEFINE c == pool.canonical[s]
<1>2. s \in topic /\ s \in Range(DeckStories) /\ s \in Stories
  BY DEF Whole
<1>3. c \in Stories => c \in topic /\ c \notin Range(DeckStories)
  <2>1. c \in Stories => SameTopic(c, s)
    BY DEF SameTopic
  <2> QED
    BY <1>1, <1>2, <2>1 DEF Whole
<1>4. Context \subseteq Stories /\ Context \subseteq Liked(feedback) \cup Liked(votes)
  BY DEF Context, Liked
<1>5. CASE OutcomeOf[s] = s
  <2>1. s \in ShownBy(Canonicalized) \/ LeftOut(s)
    BY <1>2, <1>5, ShownOrOutside
  <2> QED
    BY <1>2, <2>1
<1>6. CASE Matches(s)
  <2>1. PICK t \in Context : s = t \/ pool.url[s] = pool.url[t] \/ {s, t} \in pool.titles
    BY <1>6 DEF Matches
  <2>2. {t, s} = {s, t}
    OBVIOUS
  <2>3. SameTopic(t, s)
    BY <2>1, <2>2 DEF SameTopic
  <2>4. t \in topic
    BY <1>2, <1>4, <2>3 DEF Whole
  <2> QED
    BY <1>4, <2>4
<1>7. CASE c \in Stories /\ c \in Context
  BY <1>3, <1>4, <1>7
<1>8. ASSUME NEW u \in Range(DeckStories), u \in topic, c \in Stories, OutcomeOf[u] = c,
             c = pool.canonical[u], u \in pool.hn
      PROVE  \E t \in topic : Ends(t)
  <2>1. c \in ShownBy(Canonicalized) \/ LeftOut(u)
    BY <1>8, ShownOrOutside
  <2> QED
    BY <1>3, <1>8, <2>1
<1>9. CASE s \in pool.hn /\ c \in Stories /\ OutcomeOf[s] = c
  BY <1>2, <1>8, <1>9
<1>10. CASE /\ s \in pool.hn /\ c \in Stories
            /\ \E u \in Range(DeckStories) :
                 OutcomeOf[u] = c /\ pool.canonical[u] = c /\ u \in pool.hn
  <2>1. PICK u \in Range(DeckStories) :
          OutcomeOf[u] = c /\ pool.canonical[u] = c /\ u \in pool.hn
    BY <1>10
  <2>2. u \in Stories /\ SameTopic(u, c)
    BY <2>1, DeckStoriesAre DEF SameTopic
  <2>3. u \in topic
    BY <1>3, <1>10, <2>2 DEF Whole
  <2> QED
    BY <1>8, <1>10, <2>1, <2>3
<1> HIDE DEF some
<1>11. \/ OutcomeOf[s] = s
       \/ Matches(s)
       \/ c \in Stories /\ c \in Context
       \/ s \in pool.hn /\ c \in Stories /\ OutcomeOf[s] = c
       \/ /\ s \in pool.hn /\ c \in Stories
          /\ \E u \in Range(DeckStories) :
               OutcomeOf[u] = c /\ pool.canonical[u] = c /\ u \in pool.hn
  BY <1>2, <1>3, DeckOutcomeWhy
<1> HIDE DEF c
<1> QED
  BY <1>5, <1>6, <1>7, <1>9, <1>10, <1>11

Has(d, t) == \E w \in Windows, v \in Views : \E c \in Range(d[w][v]) : c.story = t

\* What the stages before canonicalization leave: Popular has HN stories, and of
\* each topic that was picked something is in the deck or was a vote.
TopicInv ==
  /\ stage = "dedup" => deck = picked
  /\ stage \in {"dedup", "canonicalize"} => Popularly(deck)
  /\ stage = "canonicalize" =>
       \A topic \in SUBSET Stories :
         Whole(topic) /\ (\E s \in topic : Has(picked, s)) =>
           \E t \in topic : Has(deck, t) \/ t \in Liked(feedback) \cup compared

LEMMA TopicInvInit == Init => TopicInv
BY DEF Init, TopicInv

LEMMA TopicInvAssemble == Inv /\ Assemble => TopicInv'
<1> SUFFICES ASSUME Inv, Assemble PROVE TopicInv'
  OBVIOUS
<1>1. /\ picked' = deck' /\ pool' = pool /\ pool \in Pools
      /\ \A w \in Windows : deck'[w]["popular"] = Cards(Popular(w))
  BY DEF Assemble, Inv, TypeOK
<1>2. ASSUME NEW w \in Windows, NEW c \in Range(Cards(Popular(w))) PROVE c.story \in pool.hn
  <2>1. PICK i \in DOMAIN Popular(w) : c = Card(Popular(w)[i])
    BY DEF Cards, Range
  <2>2. c.story \in Range(Popular(w))
    BY <2>1 DEF Card, Range
  <2> DEFINE list == Only(pool.gravity, Range(Candidates(w)))
  <2>3. list \in Seq(Stories) /\ Range(list) \subseteq Range(pool.gravity)
    BY <1>1, PoolIs, OnlyOrder
  <2>4. Popular(w) = First(list, ViewSize * Margin)
    BY DEF Popular
  <2> HIDE DEF list
  <2>5. ViewSize * Margin \in Nat
    BY Sizes
  <2>6. Range(Popular(w)) \subseteq Range(list)
    BY <2>3, <2>4, <2>5, FirstRange
  <2> QED
    BY <1>1, <2>2, <2>3, <2>6, PoolIs
<1>3. Popularly(deck)'
  BY <1>1, <1>2 DEF Popularly
<1>4. \A s : Has(picked, s)' => Has(deck, s)'
  BY <1>1 DEF Has
<1> QED
  BY <1>1, <1>3, <1>4 DEF TopicInv

LEMMA TopicInvDedup == Inv /\ TopicInv /\ Dedup => TopicInv'
<1> SUFFICES ASSUME Inv, TopicInv, Dedup PROVE TopicInv'
  OBVIOUS
<1>1. /\ stage = "dedup" /\ stage' = "canonicalize" /\ deck' = Deduplicated
      /\ compared' = Liked(votes) /\ pool' = pool /\ picked' = picked /\ feedback' = feedback
  BY DEF Dedup
<1>2. /\ pool \in Pools /\ deck = picked /\ Popularly(deck)
      /\ \A w \in Windows : deck[w] \in ViewsSet /\ Fresh(deck[w])
  BY <1>1 DEF Inv, TypeOK, TopicInv, Sound
<1>3. ASSUME NEW w \in Windows, NEW v \in Views
      PROVE  Range(deck'[w][v]) = {c \in Range(deck[w][v]) : c.story \in Survivors}
  <2> DEFINE set == {c \in Range(deck[w][v]) : c.story \in Survivors}
  <2>1. deck'[w][v] = Only(deck[w][v], set)
    BY <1>1 DEF Deduplicated, MapViews
  <2>2. deck[w][v] \in Seq(CardSet)
    BY <1>2, ShelfIs
  <2>3. Range(deck'[w][v]) = Range(deck[w][v]) \cap set
    BY <2>1, <2>2, OnlyRange
  <2> QED
    BY <2>3
<1>4. Popularly(deck)'
  BY <1>1, <1>2, <1>3, ViewsAre DEF Popularly
<1>5. ASSUME NEW topic \in SUBSET Stories, Whole(topic), NEW s \in topic, Has(picked, s)
      PROVE  \E t \in topic : Has(deck, t)' \/ t \in Liked(feedback) \cup Liked(votes)
  <2>1. s \in Range(DeckStories) \cap topic
    BY <1>2, <1>5, DeckStoriesAre DEF Has
  <2>2. PICK t \in topic :
          t \in Range(DeckStories) \cap Survivors \/ t \in Liked(feedback) \cup Liked(votes)
    BY <1>2, <1>5, <2>1, DedupKeepsTopic
  <2>3. CASE t \in Range(DeckStories) \cap Survivors
    <3>1. PICK w \in Windows, v \in Views : \E c \in Range(deck[w][v]) : c.story = t
      BY <1>2, <2>3, DeckStoriesAre
    <3>2. \E c \in Range(deck'[w][v]) : c.story = t
      BY <1>3, <2>3, <3>1
    <3>3. Has(deck, t)'
      BY <3>2 DEF Has
    <3> QED
      BY <3>3
  <2> QED
    BY <2>2, <2>3
<1>6. \A topic : Whole(topic)' => Whole(topic)
  BY <1>1 DEF Whole, SameTopic
<1>7. \A s : Has(picked, s)' => Has(picked, s)
  BY <1>1 DEF Has
<1>8. Liked(feedback)' = Liked(feedback)
  BY <1>1 DEF Liked
<1> QED
  BY <1>1, <1>4, <1>5, <1>6, <1>7, <1>8 DEF TopicInv

\* What neither the deck nor what it is made of changes in.
LEMMA TopicInvKept ==
  ASSUME TopicInv, UNCHANGED <<pool, feedback, deck, picked, compared>>,
         stage' = stage \/ stage' \notin {"dedup", "canonicalize"}
  PROVE  TopicInv'
<1>1. \A topic : Whole(topic)' => Whole(topic)
  BY DEF Whole, SameTopic
<1>2. \A s : (Has(picked, s)' => Has(picked, s)) /\ (Has(deck, s) => Has(deck, s)')
  BY DEF Has
<1>3. Liked(feedback)' = Liked(feedback)
  BY DEF Liked
<1>4. Popularly(deck) => Popularly(deck)'
  BY DEF Popularly
<1> QED
  BY <1>1, <1>2, <1>3, <1>4 DEF TopicInv

LEMMA TopicInvStep == Inv /\ TopicInv /\ [Next]_vars => TopicInv'
<1> SUFFICES ASSUME Inv, TopicInv, [Next]_vars PROVE TopicInv'
  OBVIOUS
<1>1. CASE ReadFeedback
  BY <1>1 DEF ReadFeedback, TopicInv
<1>2. CASE Canonicalize \/ Draft \/ PlaceFar
  <2>1. stage' \notin {"dedup", "canonicalize"}
    BY <1>2 DEF Canonicalize, Draft, PlaceFar
  <2> QED
    BY <2>1 DEF TopicInv
<1>3. CASE Vote \/ Tick \/ UNCHANGED vars
  <2>1. UNCHANGED <<pool, feedback, deck, picked, compared>> /\ stage' = stage
    BY <1>3 DEF Vote, Tick, vars
  <2> QED
    BY <2>1, TopicInvKept
<1> QED
  BY <1>1, <1>2, <1>3, TopicInvAssemble, TopicInvDedup DEF Next

LEMMA TopicInvMeans ==
  ASSUME Inv, TopicInv
  PROVE  TopicKept
<1> DEFINE final == Canonicalized
           shown == UNION {StoriesOf(final[w][v]) : w \in Windows, v \in Views}
           ends == shown \cup Liked(feedback) \cup compared \cup Liked(votes)
           outside(t, w) == pool.canonical[t] # NoStory /\ ~InWindow(pool.canonical[t], w, clock)
           out(t) == \E x \in Windows, y \in Views : t \in StoriesOf(deck[x][y]) /\ outside(t, x)
<1>1. ASSUME stage = "canonicalize", NEW w \in Windows, NEW v \in Views,
             NEW s \in StoriesOf(picked[w][v])
      PROVE  (\E t \in Topic(s) : t \in ends \/ out(t)) \/ Circular(Topic(s) \cap Range(DeckStories))
  <2>1. /\ pool \in Pools /\ Popularly(deck) /\ picked[w] \in ViewsSet
        /\ \A x \in Windows : deck[x] \in ViewsSet /\ Fresh(deck[x])
    BY <1>1 DEF Inv, TypeOK, TopicInv, Sound
  <2>2. PICK c \in Range(picked[w][v]) : c.story = s
    BY DEF StoriesOf
  <2>3. s \in Stories
    BY <2>1, <2>2, ShelfIs DEF CardSet
  <2>4. s \in Topic(s) /\ Whole(Topic(s))
    BY <2>3, TopicIsWhole
  <2>5. Topic(s) \in SUBSET Stories
    BY <2>4 DEF Whole
  <2>6. Has(picked, s)
    BY <2>2 DEF Has
  <2>7. PICK t \in Topic(s) : Has(deck, t) \/ t \in Liked(feedback) \cup compared
    BY <1>1, <2>4, <2>5, <2>6 DEF TopicInv
  <2>8. CASE Has(deck, t)
    <3>1. t \in Topic(s) \cap Range(DeckStories)
      BY <2>1, <2>8, DeckStoriesAre DEF Has
    <3>2. CASE ~Circular(Topic(s) \cap Range(DeckStories))
      <4>1. PICK u \in Topic(s) :
              \/ u \in ShownBy(Canonicalized) \cup Liked(feedback) \cup Liked(votes)
              \/ LeftOut(u)
        BY <2>1, <2>4, <3>1, <3>2, CanonicalKeepsTopic
      <4>2. u \in ends \/ out(u)
        BY <4>1 DEF ShownBy, LeftOut
      <4> QED
        BY <4>2
    <3> QED
      BY <3>2
  <2> QED
    BY <2>7, <2>8
<1> QED
  BY <1>1 DEF TopicKept

\* Deduplication and canonicalization drop no topic between them: what was picked
\* leaves the deck only for something about the same, unless resolutions of the deck
\* lead round in a circle (_apply_dedup_to_ranked, canonicalize_deck).
THEOREM TopicIsKept == Spec => []TopicKept
<1>1. Inv /\ TopicInv => TopicKept
  BY TopicInvMeans
<1>2. Init => TopicInv
  BY TopicInvInit
<1>3. Inv /\ TopicInv /\ [Next]_vars => TopicInv'
  BY TopicInvStep
<1> QED
  BY <1>1, <1>2, <1>3, Invariant, PTL DEF Spec
=============================================================================
