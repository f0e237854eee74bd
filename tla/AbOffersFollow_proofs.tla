------------------------ MODULE AbOffersFollow_proofs ------------------------
(***************************************************************************)
(* Proofs about AbOffers: the offers follow the positions of the AB, and   *)
(* where positions are only added and removed at the end, they keep the    *)
(* places their candidates were looked for.                                *)
(*                                                                         *)
(* Offers and places are paired by rank, and the commands of an edit are   *)
(* applied in any order: the invariant says what a half-applied edit has   *)
(* done, as long as no copy is out of date.                                *)
(***************************************************************************)
EXTENDS AbOffers_proofs

\* The numbers of a set of offers, each that of one offer.
NumbersOf(O) == {o.id : o \in O}
OneNumberEach(O) == \A o, p \in O : o.id = p.id => o = p

\* What a request knows of the offers was there, and never becomes nothing while
\* it rewrites them; it has seen none if it is to create them.
Lists ==
  \A r \in Staff :
    /\ req[r].pc = "apply" =>
         /\ req[r].known \subseteq 1..serial
         /\ \E n \in req[r].known \cap req[r].list : RankIn(n, req[r].list) = 1
    /\ req[r].pc \in {"fetch", "insert"} => req[r].known = {}

\* r is rewriting the offers, which are those it knows.
InHand(r) == req[r].pc = "apply" /\ req[r].known = Ids

\* The offers O are, in order, the places of form.
Follow(O, form) ==
  /\ Cardinality(O) = Len(buildOffers(form))
  /\ \A o \in O : o.place = buildOffers(form)[RankIn(o.id, NumbersOf(O))]

\* Besides those of list, O is the places of form left over, in order.
Rest(O, form, list) ==
  LET k == Cardinality(list) IN
  \E base \in Nat :
    /\ \A n \in list : n <= base
    /\ NumbersOf(O) \ list = (base + 1)..(base + (Len(buildOffers(form)) - k))
    /\ \A o \in O : o.id \notin list =>
         o.place = buildOffers(form)[k + (o.id - base)]

\* What q has already done: an offer it has treated has its place, or is deleted
\* if its rank is too high; the places left over have offers once 0 is treated.
HalfWay(O, q) ==
  LET len == Len(buildOffers(q.form)) IN
  /\ \A n \in q.list : RankIn(n, q.list) <= len => n \in NumbersOf(O)
  /\ \A n \in q.list \cap NumbersOf(O) :
        n \in q.todo \/ RankIn(n, q.list) <= len
  /\ \A o \in O : o.id \in q.list \ q.todo =>
       o.place = buildOffers(q.form)[RankIn(o.id, q.list)]
  /\ IF 0 \in q.todo \/ Cardinality(q.list) >= len
     THEN NumbersOf(O) \subseteq q.list
     ELSE Rest(O, q.form, q.list)

\* An edit in hand is the only one; it or another that has written the AB will
\* make the offers follow, if they do not.
Following ==
  /\ \A r, s \in Staff : InHand(r) /\ req[s].pc = "apply" => r = s
  /\ \A r \in Staff : InHand(r) => HalfWay(offers, req[r])
  /\ offers # {} =>
       \/ \E r \in Staff : InHand(r)
       \/ Follow(offers, ab.positions)
       \/ \E r \in Staff : req[r].pc = "sync" /\ req[r].form = ab.positions

FollowInv == OneNumberEach(offers) /\ Lists /\ (astray = {} => Following)

\* The place of o is the k-th of a form.
AsAsked(o, k) ==
  \E form \in Forms : /\ k \in 1..Len(buildOffers(form))
                      /\ o.place = buildOffers(form)[k]

\* Candidates were looked for the place of their offer, and an edit gives an
\* offer the place it has.
Staying ==
  /\ \A o \in offers : o.made \in {None, o.place}
  /\ (\A r \in Staff : ~InHand(r)) =>
        \A o \in offers : AsAsked(o, RankIn(o.id, Ids))
  /\ \A r \in Staff : InHand(r) =>
        \A o \in offers :
          o.id \in req[r].list => AsAsked(o, RankIn(o.id, req[r].list))

StayInv == astray = {} => Staying

\* Positions are added and removed at the end only: two forms agree on the
\* places they both have.
GrowOnly ==
  \A f, g \in Forms : \A k \in 1..Len(buildOffers(f)) :
    k <= Len(buildOffers(g)) => buildOffers(f)[k] = buildOffers(g)[k]

-----------------------------------------------------------------------------
(* Ranks.                                                                  *)

\* A greater number has a greater rank.
LEMMA RankLess ==
  ASSUME NEW k \in Nat, NEW S \in SUBSET (1..k), NEW m \in S, NEW n \in S, m < n
  PROVE  RankIn(m, S) < RankIn(n, S)
<1> DEFINE A == {x \in S : x <= m}
           B == {x \in S : x <= n}
<1>1. /\ \A x \in S : x <= m => x <= n
      /\ n <= n /\ ~(n <= m)
  <2>1. \A x \in S : x \in Nat
    OBVIOUS
  <2> QED
    BY <2>1
<1>2. A \in SUBSET B /\ B \in SUBSET S /\ n \in B /\ n \notin A
  BY <1>1
<1>3. IsFiniteSet(B) /\ Cardinality(B) \in Nat
  BY <1>2, FiniteList
<1>4. IsFiniteSet(A) /\ Cardinality(A) \in Nat
  BY <1>2, FiniteList
<1>5. Cardinality(A) <= Cardinality(B) /\ Cardinality(A) # Cardinality(B)
  BY <1>2, <1>3, FS_Subset
<1> QED
  BY <1>3, <1>4, <1>5 DEF RankIn

\* Ranks are the numbers from one to the length of the list, each once.
LEMMA Ranks ==
  ASSUME NEW k \in Nat, NEW S \in SUBSET (1..k)
  PROVE  /\ \A n \in S : RankIn(n, S) \in 1..Cardinality(S)
         /\ \A m, n \in S : RankIn(m, S) = RankIn(n, S) => m = n
         /\ \A i \in 1..Cardinality(S) : \E n \in S : RankIn(n, S) = i
<1> DEFINE f == [n \in S |-> RankIn(n, S)]
           c == Cardinality(S)
<1>1. IsFiniteSet(S) /\ c \in Nat
  BY FiniteList
<1>2. ASSUME NEW n \in S PROVE RankIn(n, S) \in 1..c
  <2>1. {x \in S : x <= n} \in SUBSET S
    OBVIOUS
  <2>2. Cardinality({x \in S : x <= n}) <= c
    BY <2>1, <1>1, FS_Subset
  <2>3. RankIn(n, S) \in Nat /\ RankIn(n, S) >= 1
    BY RankPositive
  <2> QED
    BY <1>1, <2>2, <2>3 DEF RankIn
<1>3. ASSUME NEW m \in S, NEW n \in S, RankIn(m, S) = RankIn(n, S) PROVE m = n
  <2>1. RankIn(m, S) \in Nat /\ m \in Nat /\ n \in Nat
    BY <1>2
  <2>2. ASSUME m < n PROVE FALSE
    <3>1. RankIn(m, S) < RankIn(n, S)
      BY <2>2, RankLess
    <3> QED
      BY <1>3, <2>1, <3>1
  <2>3. ASSUME n < m PROVE FALSE
    <3>1. RankIn(n, S) < RankIn(m, S)
      BY <2>3, RankLess
    <3> QED
      BY <1>3, <2>1, <3>1
  <2> QED
    BY <2>1, <2>2, <2>3
<1>4. f \in Injection(S, 1..c)
  BY <1>2, <1>3 DEF Injection, IsInjective
<1>5. IsFiniteSet(1..c) /\ Cardinality(1..c) = c
  BY <1>1, FS_Interval
<1>6. f \in Surjection(S, 1..c)
  BY <1>4, <1>5, FS_Injection
<1>7. \A i \in 1..c : \E n \in S : f[n] = i
  BY <1>6 DEF Surjection
<1> QED
  BY <1>2, <1>3, <1>7

\* The first m of a list are m, and keep their ranks without the others.
LEMMA FirstOnes ==
  ASSUME NEW k \in Nat, NEW S \in SUBSET (1..k),
         NEW m \in Nat, m <= Cardinality(S),
         NEW K, K = {n \in S : RankIn(n, S) <= m}
  PROVE  /\ Cardinality(K) = m
         /\ \A n \in K : RankIn(n, K) = RankIn(n, S)
<1> DEFINE g == [n \in K |-> RankIn(n, S)]
<1>1. /\ \A n \in S : RankIn(n, S) \in 1..Cardinality(S)
      /\ \A x, n \in S : RankIn(x, S) = RankIn(n, S) => x = n
      /\ \A i \in 1..Cardinality(S) : \E n \in S : RankIn(n, S) = i
  BY Ranks
<1>0. Cardinality(S) \in Nat
  BY FiniteList
<1>2. g \in [K -> 1..m]
  <2>1. ASSUME NEW n \in K PROVE RankIn(n, S) \in 1..m
    <3>1. n \in S /\ RankIn(n, S) <= m
      OBVIOUS
    <3> QED
      BY <1>0, <1>1, <3>1
  <2> QED
    BY <2>1
<1>3. g \in Injection(K, 1..m)
  BY <1>1, <1>2 DEF Injection, IsInjective
<1>4. \A i \in 1..m : \E n \in K : g[n] = i
  BY <1>0, <1>1
<1>5. g \in Surjection(K, 1..m)
  BY <1>2, <1>4 DEF Surjection
<1>6. IsFiniteSet(1..m) /\ Cardinality(1..m) = m
  BY FS_Interval
<1>7. Cardinality(K) = m
  BY <1>3, <1>5, <1>6, FS_Injection
<1>8. ASSUME NEW n \in K PROVE RankIn(n, K) = RankIn(n, S)
  <2>1. \A x \in S : x <= n => x \in K
    <3> TAKE x \in S
    <3> HAVE x <= n
    <3>1. x \in Nat /\ n \in Nat /\ RankIn(x, S) \in Nat /\ RankIn(n, S) \in Nat
      BY <1>0, <1>1
    <3>2. x < n => RankIn(x, S) < RankIn(n, S)
      BY RankLess
    <3> QED
      BY <3>1, <3>2
  <2>2. {x \in K : x <= n} = {x \in S : x <= n}
    BY <2>1
  <2> QED
    BY <2>2 DEF RankIn
<1> QED
  BY <1>7, <1>8

\* Numbers added above a list come after it.
LEMMA RankAdded ==
  ASSUME NEW k \in Nat, NEW S \in SUBSET (1..k),
         NEW base \in Nat, \A n \in S : n <= base, NEW j \in Nat,
         NEW T, T = S \cup ((base + 1)..(base + j))
  PROVE  /\ Cardinality(T) = Cardinality(S) + j
         /\ \A n \in S : RankIn(n, T) = RankIn(n, S)
         /\ \A i \in 1..j : RankIn(base + i, T) = Cardinality(S) + i
<1>0. IsFiniteSet(S) /\ Cardinality(S) \in Nat
  BY FiniteList
<1>1. IsFiniteSet(S) /\ Cardinality(S) \in Nat /\ \A n \in S : n \in Nat
  BY <1>0
<1>2. ASSUME NEW i \in 0..j
      PROVE  Cardinality(S \cup ((base + 1)..(base + i))) = Cardinality(S) + i
  <2> DEFINE N == (base + 1)..(base + i)
  <2>1. IsFiniteSet(N) /\ Cardinality(N) = i
    BY FS_Interval
  <2>2. S \cap N = {}
    BY <1>1
  <2>3. Cardinality(S \cap N) = 0
    BY <2>2, FS_EmptySet
  <2> HIDE DEF N
  <2>4. Cardinality(S \cup N)
          = Cardinality(S) + Cardinality(N) - Cardinality(S \cap N)
    BY <1>1, <2>1, FS_Union
  <2>5. Cardinality(S \cup N) = Cardinality(S) + i
    BY <1>1, <2>1, <2>3, <2>4
  <2> QED
    BY <2>5 DEF N
<1>3. ASSUME NEW n \in S PROVE RankIn(n, T) = RankIn(n, S)
  <2>1. {x \in T : x <= n} = {x \in S : x <= n}
    BY <1>1
  <2> QED
    BY <2>1 DEF RankIn
<1>4. ASSUME NEW i \in 1..j PROVE RankIn(base + i, T) = Cardinality(S) + i
  <2>1. \A x \in S : x <= base + i
    BY <1>1
  <2>2. \A x \in (base + 1)..(base + j) :
           x <= base + i <=> x \in (base + 1)..(base + i)
    OBVIOUS
  <2>3. \A x \in (base + 1)..(base + i) : x \in (base + 1)..(base + j)
    OBVIOUS
  <2>4. {x \in T : x <= base + i} = S \cup ((base + 1)..(base + i))
    BY <2>1, <2>2, <2>3
  <2> QED
    BY <1>2, <2>4 DEF RankIn
<1>5. Cardinality(T) = Cardinality(S) + j
  <2>1. j \in 0..j
    OBVIOUS
  <2> QED
    BY <1>2, <2>1
<1> QED
  BY <1>3, <1>4, <1>5

\* There are as many offers as numbers.
LEMMA AsMany ==
  ASSUME NEW k \in Nat, NEW O, NumbersOf(O) \in SUBSET (1..k), OneNumberEach(O)
  PROVE  Cardinality(O) = Cardinality(NumbersOf(O))
<1> DEFINE f == [o \in O |-> o.id]
<1>1. f \in [O -> NumbersOf(O)]
  BY DEF NumbersOf
<1>2. f \in Injection(O, NumbersOf(O))
  BY <1>1 DEF OneNumberEach, Injection, IsInjective
<1>3. f \in Surjection(O, NumbersOf(O))
  BY <1>1 DEF Surjection, NumbersOf
<1>4. IsFiniteSet(NumbersOf(O))
  BY FiniteList
<1> QED
  BY <1>2, <1>3, <1>4, FS_Injection

\* When nothing is left to do, the offers follow.
LEMMA Finished ==
  ASSUME NEW k \in Nat, NEW O, NumbersOf(O) \in SUBSET (1..k), OneNumberEach(O),
         NEW q, q.list \in SUBSET (1..k), q.form \in Forms, q.todo = {},
         HalfWay(O, q)
  PROVE  Follow(O, q.form)
<1> DEFINE b == buildOffers(q.form)
           len == Len(b)
           L == q.list
           c == Cardinality(L)
           N == NumbersOf(O)
<1>1. len \in Nat /\ c \in Nat
  BY FormPlaces, FiniteList
<1>2. /\ \A n \in L : RankIn(n, L) <= len => n \in N
      /\ \A n \in L \cap N : RankIn(n, L) <= len
      /\ \A o \in O : o.id \in L => o.place = b[RankIn(o.id, L)]
      /\ IF c >= len THEN N \subseteq L ELSE Rest(O, q.form, L)
  BY DEF HalfWay
<1>3. Cardinality(O) = Cardinality(N) /\ \A o \in O : o.id \in N
  BY AsMany DEF NumbersOf
<1>4. ASSUME c >= len
      PROVE  Cardinality(N) = len /\ \A o \in O : o.place = b[RankIn(o.id, N)]
  <2>1. N = {n \in L : RankIn(n, L) <= len}
    BY <1>2, <1>4
  <2>2. Cardinality(N) = len /\ \A n \in N : RankIn(n, N) = RankIn(n, L)
    <3>1. len \in Nat /\ len <= Cardinality(L) /\ L \in SUBSET (1..k)
      BY <1>1, <1>4
    <3>2. k \in Nat
      OBVIOUS
    <3> HIDE DEF len, N, L, c
    <3> QED
      BY ONLY <2>1, <3>1, <3>2, FirstOnes, SMTT(30)
  <2> QED
    BY <1>2, <1>3, <1>4, <2>1, <2>2
<1>5. ASSUME ~(c >= len)
      PROVE  Cardinality(N) = len /\ \A o \in O : o.place = b[RankIn(o.id, N)]
  <2>1. PICK base \in Nat :
           /\ \A n \in L : n <= base
           /\ N \ L = (base + 1)..(base + (len - c))
           /\ \A o \in O : o.id \notin L => o.place = b[c + (o.id - base)]
    BY <1>2, <1>5 DEF Rest
  <2>2. \A n \in L : n \in N
    <3> TAKE n \in L
    <3>1. RankIn(n, L) \in 1..c
      BY Ranks
    <3> QED
      BY <1>1, <1>2, <1>5, <3>1
  <2>3. len - c \in Nat
    BY <1>1, <1>5
  <2>4. N = L \cup ((base + 1)..(base + (len - c)))
    BY <2>1, <2>2
  <2>5. /\ Cardinality(N) = c + (len - c)
        /\ \A n \in L : RankIn(n, N) = RankIn(n, L)
        /\ \A i \in 1..(len - c) : RankIn(base + i, N) = c + i
    <3>0. k \in Nat /\ base \in Nat
      OBVIOUS
    <3>1. L \in SUBSET (1..k)
      OBVIOUS
    <3>2. \A n \in L : n <= base
      BY <2>1
    <3> DEFINE j == len - c
    <3>3. j \in Nat /\ N = L \cup ((base + 1)..(base + j))
      BY <2>3, <2>4
    <3> HIDE DEF N, len, L, j
    <3>4. /\ Cardinality(N) = Cardinality(L) + j
          /\ \A n \in L : RankIn(n, N) = RankIn(n, L)
          /\ \A i \in 1..j : RankIn(base + i, N) = Cardinality(L) + i
      BY ONLY <3>0, <3>1, <3>2, <3>3, RankAdded, SMTT(30)
    <3> QED
      BY <3>4 DEF j
  <2>6. ASSUME NEW o \in O PROVE o.place = b[RankIn(o.id, N)]
    <3>1. CASE o.id \in L
      BY <1>2, <2>5, <3>1
    <3>2. CASE o.id \notin L
      <4>1. o.id \in (base + 1)..(base + (len - c))
        BY <1>3, <2>4, <3>2
      <4>2. o.id - base \in 1..(len - c) /\ base + (o.id - base) = o.id
        BY <2>3, <4>1
      <4>3. RankIn(o.id, N) = c + (o.id - base)
        <5> HIDE DEF N
        <5> QED
          BY <2>5, <4>2
      <4> QED
        BY <2>1, <3>2, <4>3
    <3> QED
      BY <3>1, <3>2
  <2> QED
    BY <1>1, <2>5, <2>6
<1> QED
  BY <1>1, <1>3, <1>4, <1>5 DEF Follow

\* The numbers of new offers.
LEMMA NewNumbers ==
  ASSUME NEW form \in Forms, NEW k \in Nat, serial \in Nat
  PROVE  LET b == buildOffers(form)
             new == NewOffers(form, k)
         IN  /\ NumbersOf(new) = (serial + 1)..(serial + (Len(b) - k))
             /\ \A o \in new : o.place = b[k + (o.id - serial)] /\ o.made = None
             /\ OneNumberEach(new)
<1> DEFINE b == buildOffers(form)
           n(i) == [id |-> serial + i, place |-> b[k + i], made |-> None]
           d == Len(b) - k
           new == NewOffers(form, k)
<1>1. d \in Int
  BY FormPlaces
<1>2. new = {n(i) : i \in 1..d}
  BY DEF NewOffers
<1> HIDE DEF b, d, new
<1>3. \A i \in 1..d : n(i).id = serial + i /\ n(i).place = b[k + i]
                      /\ n(i).made = None
  OBVIOUS
<1>4. ASSUME NEW o \in new
      PROVE  /\ o.id - serial \in 1..d /\ o = n(o.id - serial)
             /\ o.id \in (serial + 1)..(serial + d)
  <2> PICK i \in 1..d : o = n(i)
    BY <1>2
  <2>1. o.id = serial + i
    BY <1>3
  <2>2. o.id - serial = i
    BY <1>1, <2>1
  <2> QED
    BY <1>1, <2>1, <2>2
<1>5. ASSUME NEW m \in (serial + 1)..(serial + d)
      PROVE  m \in NumbersOf(new)
  <2>1. m - serial \in 1..d /\ serial + (m - serial) = m
    BY <1>1
  <2>2. n(m - serial) \in new /\ n(m - serial).id = m
    BY <1>2, <1>3, <2>1
  <2> QED
    BY <2>2 DEF NumbersOf
<1>6. NumbersOf(new) = (serial + 1)..(serial + d)
  BY <1>4, <1>5 DEF NumbersOf
<1>7. \A o \in new : o.place = b[k + (o.id - serial)] /\ o.made = None
  BY <1>3, <1>4
<1>8. OneNumberEach(new)
  BY <1>4 DEF OneNumberEach
<1> QED
  BY <1>6, <1>7, <1>8 DEF b, d, new

\* All the places of a form at once follow it.
LEMMA NewFollow ==
  ASSUME NEW form \in Forms, serial \in Nat
  PROVE  Follow(NewOffers(form, 0), form)
<1> DEFINE new == NewOffers(form, 0)
           q == [list |-> {}, form |-> form, todo |-> {}]
           len == Len(buildOffers(form))
<1>1. len \in Nat /\ len >= 1 /\ Cardinality({}) = 0 /\ 0 \in Nat
  BY FormPlaces, FS_EmptySet
<1>2. /\ NumbersOf(new) = (serial + 1)..(serial + (len - 0))
      /\ \A o \in new : o.place = buildOffers(form)[0 + (o.id - serial)]
      /\ OneNumberEach(new)
  BY <1>1, NewNumbers
<1> HIDE DEF new
<1>3. Rest(new, form, {})
  BY <1>1, <1>2 DEF Rest
<1>4. HalfWay(new, q)
  BY <1>1, <1>3 DEF HalfWay
<1>5. serial + len \in Nat /\ NumbersOf(new) \in SUBSET (1..(serial + len))
  BY <1>1, <1>2
<1>6. /\ q.list \in SUBSET (1..(serial + len)) /\ q.form \in Forms
      /\ q.todo = {} /\ q.form = form
  OBVIOUS
<1> HIDE DEF q, len
<1>7. Follow(new, q.form)
  BY <1>2, <1>4, <1>5, <1>6, Finished
<1> QED
  BY <1>6, <1>7 DEF new

-----------------------------------------------------------------------------
(* The commands of an edit.                                                *)

\* An offer is given its place.
LEMMA UpdateHalf ==
  ASSUME NEW O, NEW q, NEW n \in q.list, n # 0,
         RankIn(n, q.list) <= Len(buildOffers(q.form)),
         NEW u, u.list = q.list, u.form = q.form, u.todo = q.todo \ {n},
         NEW P, NumbersOf(P) = NumbersOf(O),
         \A p \in P : p.id # n => p \in O,
         \A p \in P : p.id = n =>
           p.place = buildOffers(q.form)[RankIn(n, q.list)],
         HalfWay(O, q)
  PROVE  HalfWay(P, u)
<1>1. \A o \in P : o.id \in u.list \ u.todo =>
         o.place = buildOffers(u.form)[RankIn(o.id, u.list)]
  BY DEF HalfWay
<1>2. Rest(O, q.form, q.list) => Rest(P, u.form, u.list)
  BY DEF Rest
<1> QED
  BY <1>1, <1>2 DEF HalfWay

\* An offer too many is deleted.
LEMMA DeleteHalf ==
  ASSUME NEW O, OneNumberEach(O),
         NEW q, NEW n \in q.list, n # 0,
         ~(RankIn(n, q.list) <= Len(buildOffers(q.form))),
         NEW u, u.list = q.list, u.form = q.form, u.todo = q.todo \ {n},
         NEW P, P = {o \in O : o.id # n}
  PROVE  /\ NumbersOf(P) = NumbersOf(O) \ {n} /\ OneNumberEach(P)
         /\ HalfWay(O, q) => HalfWay(P, u)
<1>1. NumbersOf(P) = NumbersOf(O) \ {n}
  BY DEF NumbersOf
<1>2. OneNumberEach(P)
  BY DEF OneNumberEach
<1>3. Rest(O, q.form, q.list) => Rest(P, u.form, u.list)
  BY <1>1 DEF Rest
<1>4. HalfWay(O, q) => HalfWay(P, u)
  BY <1>1, <1>3 DEF HalfWay
<1> QED
  BY <1>1, <1>2, <1>4

\* The places left over get offers.
LEMMA CreateHalf ==
  ASSUME serial \in Nat,
         NEW O, NumbersOf(O) \subseteq 1..serial, OneNumberEach(O),
         NEW form \in Forms, NEW c \in Nat,
         NEW new, new = NewOffers(form, c)
  PROVE  /\ OneNumberEach(O \cup new)
         /\ NumbersOf(O \cup new) = NumbersOf(O) \cup NumbersOf(new)
         /\ NumbersOf(new)
              = (serial + 1)..(serial + (Len(buildOffers(form)) - c))
         /\ \A o \in new : o.place = buildOffers(form)[c + (o.id - serial)]
         /\ \A n \in NumbersOf(new) : n \in Nat /\ n > serial
         /\ \A n \in NumbersOf(O) : n \notin NumbersOf(new)
         /\ \A o \in O : o.id \in NumbersOf(O)
         /\ \A o \in new : o.id \in NumbersOf(new)
<1>1. Len(buildOffers(form)) \in Nat
  BY FormPlaces
<1>2. /\ NumbersOf(new) = (serial + 1)..(serial + (Len(buildOffers(form)) - c))
      /\ \A o \in new : o.place = buildOffers(form)[c + (o.id - serial)]
      /\ OneNumberEach(new)
  BY NewNumbers
<1>3. /\ \A o \in O : o.id \in NumbersOf(O)
      /\ \A o \in new : o.id \in NumbersOf(new)
      /\ NumbersOf(O \cup new) = NumbersOf(O) \cup NumbersOf(new)
  BY DEF NumbersOf
<1>4. \A n \in NumbersOf(new) : n \in Nat /\ n > serial
  BY <1>1, <1>2
<1>5. \A n \in NumbersOf(O) : n \notin NumbersOf(new)
  BY <1>4
<1>6. OneNumberEach(O \cup new)
  BY <1>2, <1>3, <1>5 DEF OneNumberEach
<1> QED
  BY <1>2, <1>3, <1>4, <1>5, <1>6

LEMMA RestHalf ==
  ASSUME serial \in Nat,
         NEW O, NumbersOf(O) \subseteq 1..serial, OneNumberEach(O),
         NEW q, HalfWay(O, q), q.form \in Forms, q.list \in SUBSET (1..serial),
         0 \in q.todo, Cardinality(q.list) < Len(buildOffers(q.form)),
         NEW u, u.list = q.list, u.form = q.form, u.todo = q.todo \ {0},
         NEW new, new = NewOffers(q.form, Cardinality(q.list))
  PROVE  HalfWay(O \cup new, u)
<1> DEFINE c == Cardinality(q.list)
           b == buildOffers(q.form)
           P == O \cup new
<1>1. c \in Nat /\ Len(b) \in Nat
  BY FiniteList, FormPlaces
<1>2. /\ NumbersOf(P) = NumbersOf(O) \cup NumbersOf(new)
      /\ NumbersOf(new) = (serial + 1)..(serial + (Len(b) - c))
      /\ \A o \in new : o.place = b[c + (o.id - serial)]
      /\ \A n \in NumbersOf(new) : n \in Nat /\ n > serial
      /\ \A o \in O : o.id \in NumbersOf(O)
      /\ \A o \in new : o.id \in NumbersOf(new)
  <2>1. /\ NumbersOf(new) = (serial + 1)..(serial + (Len(b) - c))
        /\ \A o \in new : o.place = b[c + (o.id - serial)]
    <3> HIDE DEF c
    <3>1. new = NewOffers(q.form, c)
      BY DEF c
    <3> QED
      BY <1>1, <3>1, NewNumbers
  <2>2. \A n \in NumbersOf(new) : n \in Nat /\ n > serial
    BY <1>1, <2>1
  <2>3. /\ NumbersOf(P) = NumbersOf(O) \cup NumbersOf(new)
        /\ \A o \in O : o.id \in NumbersOf(O)
        /\ \A o \in new : o.id \in NumbersOf(new)
    BY DEF NumbersOf
  <2> QED
    BY <2>1, <2>2, <2>3
<1>3. NumbersOf(O) \subseteq q.list
  BY DEF HalfWay
<1>5. \A n \in q.list : n \in Nat /\ n <= serial /\ n # 0
  OBVIOUS
<1>6. \A n \in NumbersOf(new) : n \notin q.list
  BY <1>2, <1>5
<1>8. NumbersOf(P) \ q.list = (serial + 1)..(serial + (Len(b) - c))
  BY <1>2, <1>3, <1>6
<1>9. \A o \in P : o.id \notin q.list => o.place = b[c + (o.id - serial)]
  BY <1>2, <1>3
<1>10. Rest(P, u.form, u.list)
  BY <1>5, <1>8, <1>9 DEF Rest
<1>11. \A n \in q.list \cap NumbersOf(P) : n \in NumbersOf(O)
  BY <1>2, <1>6
<1>12. \A o \in P : o.id \in q.list => o \in O
  BY <1>2, <1>6
<1> HIDE DEF P
<1>13. /\ \A n \in u.list : RankIn(n, u.list) <= Len(b) => n \in NumbersOf(P)
       /\ \A n \in u.list \cap NumbersOf(P) :
             n \in u.todo \/ RankIn(n, u.list) <= Len(b)
       /\ \A o \in P : o.id \in u.list \ u.todo =>
             o.place = b[RankIn(o.id, u.list)]
  BY <1>2, <1>5, <1>11, <1>12 DEF HalfWay
<1>14. ~(0 \in u.todo \/ Cardinality(u.list) >= Len(b))
  BY <1>1
<1> QED
  BY <1>10, <1>13, <1>14 DEF HalfWay, P

\* What does not look at what was done with an offer does not change with it.
LEMMA SamePlaces ==
  ASSUME NEW k \in Nat, NEW O, NEW P, NumbersOf(O) \in SUBSET (1..k),
         OneNumberEach(O), OneNumberEach(P), NumbersOf(P) = NumbersOf(O),
         \A p \in P : \E o \in O : o.id = p.id /\ o.place = p.place
  PROVE  /\ \A form : Follow(O, form) => Follow(P, form)
         /\ \A q : HalfWay(O, q) => HalfWay(P, q)
<1>1. Cardinality(P) = Cardinality(O)
  BY AsMany
<1>2. \A form : Follow(O, form) => Follow(P, form)
  BY <1>1 DEF Follow
<1>3. ASSUME NEW q, HalfWay(O, q) PROVE HalfWay(P, q)
  <2>1. Rest(O, q.form, q.list) => Rest(P, q.form, q.list)
    BY DEF Rest
  <2> QED
    BY <1>3, <2>1 DEF HalfWay
<1> QED
  BY <1>2, <1>3

-----------------------------------------------------------------------------
(* Steps that leave the offers alone.                                      *)

\* A request goes on, and only it.
LEMMA Moved ==
  ASSUME ShapeInv, NEW r \in Staff, NEW u, Continue(r, u)
  PROVE  /\ req'[r] = IF u.pc = "idle" THEN Idle ELSE u
         /\ \A s \in Staff \ {r} : req'[s] = req[s]
BY DEF Continue, ShapeInv, TypeOK

\* What a request keeps when it goes to the step p.
LEMMA KeepsCopies ==
  ASSUME NEW q \in ReqRec, NEW p
  PROVE  LET u == [q EXCEPT !.pc = p]
         IN  u.pc = p /\ u.known = q.known /\ u.list = q.list /\ u.form = q.form
BY DEF ReqRec

LEMMA IdleStep ==
  Idle.pc = "idle" /\ Idle.known = {}
BY DEF Idle

\* After one command of an edit.
LEMMA NextFields ==
  ASSUME NEW q \in ReqRec, NEW n, NEW known
  PROVE  LET u == NextCommand(q, n, known)
         IN  /\ u.list = q.list /\ u.form = q.form /\ u.known = known
             /\ u.todo = q.todo \ {n}
             /\ u.pc = IF u.todo = {} THEN AfterSync(q) ELSE "apply"
BY DEF NextCommand, ReqRec

\* A step of r that leaves the offers alone, and no work on them undone unless
\* astray says so.
Quietly(r) ==
  /\ UNCHANGED <<offers, serial>>
  /\ \A s \in Staff \ {r} : req'[s] = req[s]
  /\ req'[r].pc = "apply" =>
       /\ req[r].pc = "apply" /\ req'[r].known = req[r].known
       /\ req'[r].list = req[r].list
  /\ req'[r].pc \in {"fetch", "insert"} => req'[r].known = {}
  /\ astray' = {} => astray = {} /\ req[r].pc \notin {"sync", "apply"}

LEMMA QuietlyByStep ==
  ASSUME ShapeInv, NEW r \in Staff, UNCHANGED <<offers, serial, astray>>,
         req[r].pc \notin {"sync", "apply"},
         NEW p, p \notin {"apply", "fetch", "insert"},
         Continue(r, [req[r] EXCEPT !.pc = p])
  PROVE  Quietly(r)
<1> DEFINE u == [req[r] EXCEPT !.pc = p]
<1>1. u.pc = p
  BY Fields, KeepsCopies
<1> HIDE DEF u
<1>2. /\ req'[r] = IF u.pc = "idle" THEN Idle ELSE u
      /\ \A s \in Staff \ {r} : req'[s] = req[s]
  BY Moved DEF u
<1> QED
  BY <1>1, <1>2, IdleStep DEF Quietly

LEMMA CallQuiet ==
  ASSUME ShapeInv, NEW r \in Staff, NEW op, NEW to, NEW form,
         NEW pc \in {"store", "write", "flag", "check", "clear"},
         Call(r, op, pc, to, form)
  PROVE  Quietly(r) /\ ab' = ab
<1> DEFINE u == [op |-> op, pc |-> pc, form |-> form, status |-> ab.status,
                 was |-> ab.visible, to |-> to,
                 list |-> {}, known |-> {}, todo |-> {}]
<1>1. /\ req' = [req EXCEPT ![r] = u] /\ u.pc = pc /\ req[r].pc = "idle"
      /\ ab' = ab /\ UNCHANGED <<offers, serial, astray>>
  BY DEF Call
<1> HIDE DEF u
<1>2. req'[r] = u /\ \A s \in Staff \ {r} : req'[s] = req[s]
  BY <1>1 DEF ShapeInv, TypeOK
<1> QED
  BY <1>1, <1>2 DEF Quietly

LEMMA BeginQuiet ==
  ASSUME ShapeInv, NEW r \in Staff, Begin(r)
  PROVE  Quietly(r) /\ ab' = ab
<1>1. CASE sendForSignature(r)
  BY <1>1, CallQuiet DEF sendForSignature
<1>2. CASE update(r)
  BY <1>2, CallQuiet DEF update
<1>3. CASE setMatchingVisibility(r)
  BY <1>3, CallQuiet DEF setMatchingVisibility
<1>4. CASE markSigned(r) \/ delete(r)
  BY <1>4, CallQuiet DEF markSigned, delete
<1> QED
  BY <1>1, <1>2, <1>3, <1>4 DEF Begin

LEMMA OnAbQuiet ==
  ASSUME ShapeInv, NEW r \in Staff, OnAb(r)
  PROVE  /\ Quietly(r)
         /\ \/ ab'.positions = ab.positions
            \/ req'[r].pc = "sync" /\ req'[r].form = ab'.positions
<1> DEFINE q == req[r]
<1>0. q \in ReqRec /\ ab \in [positions : Forms, status : Status,
                              visible : BOOLEAN, deleted : BOOLEAN]
  BY Fields DEF ShapeInv, TypeOK
<1>1. CASE StoreRequest(r)
  <2>1. PICK p \in {"check", "idle"} : Continue(r, [q EXCEPT !.pc = p])
    BY <1>1 DEF StoreRequest
  <2>2. q.pc = "store" /\ UNCHANGED <<offers, serial, astray>>
        /\ ab'.positions = ab.positions
    BY <1>0, <1>1 DEF StoreRequest
  <2> QED
    BY <2>1, <2>2, QuietlyByStep
<1>2. CASE WriteAb(r)
  <2>1. /\ Continue(r, [q EXCEPT !.pc = "sync"]) /\ q.pc = "write"
        /\ UNCHANGED <<offers, serial, astray>> /\ ab'.positions = q.form
    BY <1>0, <1>2 DEF WriteAb
  <2>2. Quietly(r)
    BY <2>1, QuietlyByStep
  <2>3. /\ [q EXCEPT !.pc = "sync"].pc = "sync"
        /\ [q EXCEPT !.pc = "sync"].form = q.form
    BY <1>0, KeepsCopies
  <2>4. req'[r] = [q EXCEPT !.pc = "sync"]
    BY <2>1, <2>3, Moved
  <2> QED
    BY <2>1, <2>2, <2>3, <2>4
<1>3. CASE SetVisible(r)
  <2>1. PICK p \in {"check", "clear"} : Continue(r, [q EXCEPT !.pc = p])
    BY <1>3 DEF SetVisible
  <2>2. q.pc = "flag" /\ UNCHANGED <<offers, serial, astray>>
        /\ ab'.positions = ab.positions
    BY <1>0, <1>3 DEF SetVisible
  <2> QED
    BY <2>1, <2>2, QuietlyByStep
<1>4. CASE StoreSigned(r) \/ markDeleted(r)
  <2>1. /\ Continue(r, Idle) /\ q.pc \in {"mark", "drop"}
        /\ UNCHANGED <<offers, serial, astray>> /\ ab'.positions = ab.positions
    BY <1>0, <1>4 DEF StoreSigned, markDeleted
  <2> QED
    BY <2>1, Moved, IdleStep DEF Quietly
<1> QED
  BY <1>1, <1>2, <1>3, <1>4 DEF OnAb

LEMMA LooksQuiet ==
  ASSUME ShapeInv, Lists, NEW r \in Staff, Check(r) \/ Fetch(r)
  PROVE  Quietly(r) /\ ab' = ab
<1> DEFINE q == req[r]
<1>0. q \in ReqRec
  BY Fields
<1>1. CASE Check(r)
  <2>1. PICK p : /\ Continue(r, [q EXCEPT !.known = {}, !.pc = p])
                 /\ p \in {AfterOffers(q), "fetch", "insert"}
    BY <1>1 DEF Check
  <2>2. p # "apply"
    BY <2>1, After
  <2> DEFINE u == [q EXCEPT !.known = {}, !.pc = p]
  <2>3. u.pc = p /\ u.known = {}
    BY <1>0 DEF ReqRec
  <2>4. q.pc = "check" /\ UNCHANGED <<ab, offers, serial, astray>>
    BY <1>1 DEF Check
  <2> HIDE DEF u
  <2>5. /\ req'[r] = IF u.pc = "idle" THEN Idle ELSE u
        /\ \A s \in Staff \ {r} : req'[s] = req[s]
    BY <2>1, Moved DEF u
  <2> QED
    BY <2>2, <2>3, <2>4, <2>5, IdleStep DEF Quietly
<1>2. CASE Fetch(r)
  <2> DEFINE u == [q EXCEPT !.form = ab.positions, !.pc = "insert"]
  <2>1. /\ q.pc = "fetch" /\ UNCHANGED <<ab, offers, serial, astray>>
        /\ Continue(r, u)
    BY <1>2 DEF Fetch
  <2>2. u.pc = "insert" /\ u.known = q.known
    BY <1>0 DEF ReqRec
  <2>3. q.known = {}
    BY <2>1 DEF Lists
  <2> HIDE DEF u
  <2>4. /\ req'[r] = IF u.pc = "idle" THEN Idle ELSE u
        /\ \A s \in Staff \ {r} : req'[s] = req[s]
    BY <2>1, Moved
  <2> QED
    BY <2>1, <2>2, <2>3, <2>4 DEF Quietly
<1> QED
  BY <1>1, <1>2

LEMMA FailQuiet ==
  ASSUME ShapeInv, NEW r \in Staff, Fail(r)
  PROVE  Quietly(r) /\ ab' = ab
<1> DEFINE q == req[r]
<1>0. q \in ReqRec
  BY Fields
<1>1. UNCHANGED <<ab, offers, serial>> /\ astray' = astray \cup Undone(q)
  BY DEF Fail
<1>2. astray' = {} => astray = {} /\ q.pc \notin {"sync", "apply"}
  BY <1>1 DEF Undone
<1>3. PICK u : /\ Continue(r, u)
               /\ u.pc = "apply" => /\ q.pc = "apply" /\ u.known = q.known
                                    /\ u.list = q.list
               /\ u.pc \notin {"fetch", "insert"}
  <2>1. CASE q.pc = "clear"
    <3>1. Continue(r, [q EXCEPT !.pc = AfterOffers(q)])
      BY <2>1 DEF Fail
    <3>2. [q EXCEPT !.pc = AfterOffers(q)].pc \in {"mark", "drop", "idle"}
      BY <1>0, KeepsCopies, After
    <3> QED
      BY <3>1, <3>2
  <2>2. CASE q.pc = "apply"
    <3> DEFINE v == [q EXCEPT !.op = "rejected"]
    <3>1. PICK n \in q.todo : Continue(r, NextCommand(v, n, q.known))
      BY <2>2 DEF Fail
    <3>2. v \in ReqRec /\ v.list = q.list /\ v.known = q.known
      BY <1>0 DEF ReqRec, Op
    <3> HIDE DEF v
    <3>3. LET w == NextCommand(v, n, q.known)
          IN  w.list = v.list /\ w.known = q.known
              /\ w.pc \in {AfterSync(v), "apply"}
      BY <3>2, NextFields
    <3>4. AfterSync(v) \in {"check", "clear", "idle"}
      BY After
    <3> QED
      BY <2>2, <3>1, <3>2, <3>3, <3>4
  <2>3. CASE q.pc \notin {"clear", "apply"}
    <3>1. Continue(r, Idle)
      BY <2>3 DEF Fail
    <3> QED
      BY <3>1, IdleStep
  <2> QED
    BY <2>1, <2>2, <2>3
<1>4. /\ req'[r] = IF u.pc = "idle" THEN Idle ELSE u
      /\ \A s \in Staff \ {r} : req'[s] = req[s]
  BY <1>3, Moved
<1> QED
  BY <1>1, <1>2, <1>3, <1>4, IdleStep DEF Quietly

\* Such a step keeps the invariant.
LEMMA FollowKept ==
  ASSUME FollowInv, NEW r \in Staff, Quietly(r),
         \/ ab'.positions = ab.positions
         \/ req'[r].pc = "sync" /\ req'[r].form = ab'.positions
  PROVE  FollowInv'
<1>1. offers' = offers /\ Ids' = Ids /\ serial' = serial
  BY DEF Quietly, Ids
<1>2. OneNumberEach(offers')
  BY <1>1 DEF FollowInv
<1>3. Lists'
  <2> SUFFICES ASSUME NEW s \in Staff
               PROVE  /\ req'[s].pc = "apply" =>
                           /\ req'[s].known \subseteq 1..serial
                           /\ \E n \in req'[s].known \cap req'[s].list :
                                 RankIn(n, req'[s].list) = 1
                      /\ req'[s].pc \in {"fetch", "insert"} =>
                           req'[s].known = {}
    BY <1>1 DEF Lists
  <2>1. CASE s = r
    BY <2>1 DEF FollowInv, Lists, Quietly
  <2>2. CASE s # r
    BY <2>2 DEF FollowInv, Lists, Quietly
  <2> QED
    BY <2>1, <2>2
<1>4. ASSUME astray' = {} PROVE Following'
  <2>1. /\ Following /\ req[r].pc \notin {"sync", "apply"}
        /\ req'[r].pc # "apply"
        /\ \A s \in Staff \ {r} : req'[s] = req[s]
    BY <1>4 DEF FollowInv, Quietly
  <2>2. \A s \in Staff : req'[s].pc = "apply" => s # r /\ req[s].pc = "apply"
    BY <2>1
  <2>3. \A s \in Staff : InHand(s)' <=> InHand(s)
    BY <1>1, <2>1 DEF InHand
  <2>4. \A s, t \in Staff : InHand(s)' /\ req'[t].pc = "apply" => s = t
    BY <2>1, <2>2, <2>3 DEF Following
  <2>5. \A s \in Staff : InHand(s)' => HalfWay(offers', req'[s])
    BY <1>1, <2>1, <2>2, <2>3 DEF Following, InHand
  <2>6. ASSUME offers' # {}
        PROVE  \/ \E s \in Staff : InHand(s)'
               \/ Follow(offers', ab'.positions)
               \/ \E s \in Staff : /\ req'[s].pc = "sync"
                                   /\ req'[s].form = ab'.positions
    <3>1. \/ \E s \in Staff : InHand(s)
          \/ Follow(offers, ab.positions)
          \/ \E s \in Staff : req[s].pc = "sync" /\ req[s].form = ab.positions
      BY <1>1, <2>1, <2>6 DEF Following
    <3> QED
      BY <1>1, <2>1, <2>3, <3>1
  <2> QED
    BY <2>4, <2>5, <2>6 DEF Following
<1> QED
  BY <1>2, <1>3, <1>4 DEF FollowInv

-----------------------------------------------------------------------------
(* The steps that write offers.                                            *)

\* What one command of an edit does: u is what its request becomes.
Effect(r, u) ==
  LET q == req[r] IN
  /\ Continue(r, u) /\ u.list = q.list /\ u.form = q.form
  /\ u.pc = IF u.todo = {} THEN AfterSync(q) ELSE "apply"
  /\ OneNumberEach(offers')
  /\ HalfWay(offers, q) => HalfWay(offers', u)
  /\ q.known = Ids => u.known = Ids'
  /\ q.known \subseteq 1..serial => u.known \subseteq 1..serial'
  /\ \A n \in q.known : RankIn(n, q.list) = 1 => n \in u.known
  /\ \A o \in offers' :
       \/ o \in offers
       \/ o.made = None /\ o.id \notin q.list
       \/ /\ o.id \in q.list
          /\ o.place = buildOffers(q.form)[RankIn(o.id, q.list)]
          /\ RankIn(o.id, q.list) \in 1..Len(buildOffers(q.form))
          /\ \E p \in offers : p.id = o.id /\ p.made = o.made

\* A request that is rewriting the offers.
LEMMA Applier ==
  ASSUME ShapeInv, NEW r \in Staff, req[r].pc = "apply"
  PROVE  /\ req[r] \in ReqRec /\ req[r].form \in Forms /\ serial \in Nat
         /\ req[r].list \in SUBSET (1..serial)
         /\ req[r].todo \subseteq req[r].list \cup {0}
         /\ 0 \in req[r].todo =>
              Cardinality(req[r].list) < Len(buildOffers(req[r].form))
         /\ Len(buildOffers(req[r].form)) \in Nat
         /\ Len(buildOffers(req[r].form)) >= 1
<1>1. Sound(req[r], serial) /\ serial \in Nat /\ req[r] \in ReqRec
  BY Fields
<1>2. req[r].form \in Forms
  BY <1>1 DEF Sound, Handler
<1> QED
  BY <1>1, <1>2, FormPlaces DEF Sound, Commands

LEMMA UpdateEffect ==
  ASSUME ShapeInv, OneNumberEach(offers), NEW r \in Staff, req[r].pc = "apply",
         NEW n \in req[r].todo \ {0}, UpdateContent(r, n)
  PROVE  /\ Effect(r, NextCommand(req[r], n, req[r].known))
         /\ serial' = serial
<1> DEFINE q == req[r]
           b == buildOffers(q.form)
           k == RankIn(n, q.list)
           u == NextCommand(q, n, q.known)
<1>1. /\ q \in ReqRec /\ serial \in Nat /\ q.list \in SUBSET (1..serial)
      /\ n \in q.list /\ n # 0
  BY Applier
<1>2. /\ k \in 1..Len(b) /\ k <= Len(b)
  <2>1. Len(b) \in Nat /\ k <= Len(b)
    BY Applier DEF UpdateContent
  <2>2. k \in Nat /\ k >= 1
    BY <1>1, RankPositive
  <2> HIDE DEF k, b
  <2> QED
    BY <2>1, <2>2
<1>3. /\ offers' = {IF o.id = n THEN [o EXCEPT !.place = b[k]] ELSE o :
                      o \in offers}
      /\ Continue(r, u) /\ serial' = serial
  BY DEF UpdateContent
<1>4. /\ u.list = q.list /\ u.form = q.form /\ u.known = q.known
      /\ u.todo = q.todo \ {n}
      /\ u.pc = IF u.todo = {} THEN AfterSync(q) ELSE "apply"
  BY <1>1, NextFields
<1>5. offers \subseteq OfferRec
  BY OfferFields
<1> HIDE DEF u
<1>6. /\ NumbersOf(offers') = NumbersOf(offers) /\ OneNumberEach(offers')
      /\ \A o \in offers' : o.id # n => o \in offers
      /\ \A o \in offers' : o.id = n => o.place = b[k]
  <2> DEFINE new(o) == IF o.id = n THEN [o EXCEPT !.place = b[k]] ELSE o
  <2>1. offers' = {new(o) : o \in offers}
    BY <1>3
  <2>2. \A o \in offers : /\ new(o).id = o.id
                          /\ o.id = n => new(o).place = b[k]
                          /\ o.id # n => new(o) = o
    BY <1>5 DEF OfferRec
  <2> HIDE DEF new
  <2>3. NumbersOf(offers') = NumbersOf(offers)
    BY <2>1, <2>2 DEF NumbersOf
  <2>4. OneNumberEach(offers')
    BY <2>1, <2>2 DEF OneNumberEach
  <2> QED
    BY <2>1, <2>2, <2>3, <2>4
<1>10. HalfWay(offers, q) => HalfWay(offers', u)
  BY <1>1, <1>2, <1>4, <1>6, UpdateHalf
<1>7. Ids' = Ids
  BY <1>6 DEF Ids, NumbersOf
<1>8. \A o \in offers' : \E p \in offers : p.id = o.id /\ p.made = o.made
  BY <1>3, <1>5 DEF OfferRec
<1>9. \A o \in offers' :
        \/ o \in offers
        \/ /\ o.id \in q.list /\ RankIn(o.id, q.list) \in 1..Len(b)
           /\ o.place = b[RankIn(o.id, q.list)]
           /\ \E p \in offers : p.id = o.id /\ p.made = o.made
  BY <1>1, <1>2, <1>6, <1>8
<1> QED
  BY <1>3, <1>4, <1>6, <1>7, <1>9, <1>10 DEF Effect, u

LEMMA DeleteEffect ==
  ASSUME ShapeInv, OneNumberEach(offers), NEW r \in Staff, req[r].pc = "apply",
         NEW n \in req[r].todo \ {0}, DeleteById(r, n)
  PROVE  /\ Effect(r, NextCommand(req[r], n, req[r].known \ {n}))
         /\ serial' = serial
<1> DEFINE q == req[r]
           b == buildOffers(q.form)
           known == q.known \ {n}
           u == NextCommand(q, n, known)
<1>1. /\ q \in ReqRec /\ serial \in Nat /\ q.list \in SUBSET (1..serial)
      /\ n \in q.list /\ n # 0 /\ Len(b) \in Nat /\ Len(b) >= 1
  BY Applier
<1>2. /\ RankIn(n, q.list) > Len(b) /\ offers' = {o \in offers : o.id # n}
      /\ Continue(r, u) /\ serial' = serial
  BY DEF DeleteById
<1>3. RankIn(n, q.list) \in Nat
  BY <1>1, RankPositive
<1> HIDE DEF known, b
<1>4. /\ u.list = q.list /\ u.form = q.form /\ u.known = known
      /\ u.todo = q.todo \ {n}
      /\ u.pc = IF u.todo = {} THEN AfterSync(q) ELSE "apply"
  BY <1>1, NextFields
<1> HIDE DEF u
<1>5. /\ NumbersOf(offers') = NumbersOf(offers) \ {n} /\ OneNumberEach(offers')
      /\ HalfWay(offers, q) => HalfWay(offers', u)
  <2> DEFINE P == {o \in offers : o.id # n}
  <2>1. ~(RankIn(n, q.list) <= Len(b))
    BY <1>1, <1>2, <1>3
  <2>2. /\ NumbersOf(P) = NumbersOf(offers) \ {n} /\ OneNumberEach(P)
        /\ HalfWay(offers, q) => HalfWay(P, u)
    BY <1>1, <1>4, <2>1, DeleteHalf DEF b
  <2> QED
    BY <1>2, <2>2
<1>6. Ids' = Ids \ {n}
  BY <1>5 DEF Ids, NumbersOf
<1>7. \A m \in q.known : RankIn(m, q.list) = 1 => m \in known
  BY <1>1, <1>2, <1>3 DEF known
<1> QED
  BY <1>2, <1>4, <1>5, <1>6, <1>7 DEF Effect, u, known, b

LEMMA RestEffect ==
  ASSUME ShapeInv, OneNumberEach(offers), NEW r \in Staff, req[r].pc = "apply",
         0 \in req[r].todo, CreateRest(r)
  PROVE  /\ \E known : Effect(r, NextCommand(req[r], 0, known))
         /\ serial' \in Nat /\ serial <= serial'
<1> DEFINE q == req[r]
           c == Cardinality(q.list)
           b == buildOffers(q.form)
           new == NewOffers(q.form, c)
           known == q.known \cup {o.id : o \in new}
           u == NextCommand(q, 0, known)
<1>1. /\ q \in ReqRec /\ q.form \in Forms /\ serial \in Nat
      /\ q.list \in SUBSET (1..serial) /\ c < Len(b)
      /\ Len(b) \in Nat /\ Len(b) >= 1 /\ c \in Nat
  BY Applier, FiniteList
<1>2. /\ offers' = offers \cup new /\ Continue(r, u)
      /\ serial' = serial + Len(b)
  BY DEF CreateRest
<1> HIDE DEF known
<1>3. /\ u.list = q.list /\ u.form = q.form /\ u.known = known
      /\ u.todo = q.todo \ {0}
      /\ u.pc = IF u.todo = {} THEN AfterSync(q) ELSE "apply"
  BY <1>1, NextFields
<1> HIDE DEF u
<1>4. /\ NumbersOf(new) = (serial + 1)..(serial + (Len(b) - c))
      /\ \A o \in new : o.made = None
      /\ OneNumberEach(new)
  <2> HIDE DEF c
  <2> QED
    BY <1>1, NewNumbers
<1>5. NumbersOf(offers) = Ids /\ Ids \subseteq 1..serial
  BY OfferFields DEF NumbersOf, Ids
<1>6. HalfWay(offers, q) => HalfWay(offers', u)
  <2> HIDE DEF b, new
  <2>1. ASSUME HalfWay(offers, q) PROVE HalfWay(offers \cup new, u)
    BY <1>1, <1>3, <1>5, <2>1, RestHalf DEF b, new
  <2> QED
    BY <1>2, <2>1
<1>7. /\ \A o \in offers : o.id \in NumbersOf(offers)
      /\ \A o \in new : o.id \in NumbersOf(new)
      /\ NumbersOf(offers') = NumbersOf(offers) \cup NumbersOf(new)
      /\ NumbersOf(offers') = Ids'
      /\ known = q.known \cup NumbersOf(new)
  BY <1>2 DEF NumbersOf, Ids, known
<1> HIDE DEF new, c, b
<1>8. \A n \in NumbersOf(new) : n \in Nat /\ n > serial /\ n \in 1..serial'
  BY <1>1, <1>2, <1>4
<1>9. \A o \in offers, p \in new : o.id # p.id
  BY <1>1, <1>5, <1>7, <1>8
<1>10. OneNumberEach(offers')
  BY <1>2, <1>4, <1>9 DEF OneNumberEach
<1>11. \A o \in new : o.made = None /\ o.id \notin q.list
  BY <1>1, <1>4, <1>7, <1>8
<1>12. /\ q.known = Ids => known = Ids'
       /\ q.known \subseteq 1..serial => known \subseteq 1..serial'
       /\ serial' \in Nat /\ serial <= serial'
  BY <1>1, <1>2, <1>5, <1>7, <1>8
<1>13. Effect(r, u)
  <2>1. \A n \in q.known : n \in known
    BY <1>7
  <2>2. \A o \in offers' : o \in offers \/ (o.made = None /\ o.id \notin q.list)
    BY <1>2, <1>11
  <2> QED
    BY <1>2, <1>3, <1>6, <1>10, <1>12, <2>1, <2>2 DEF Effect
<1> QED
  BY <1>12, <1>13 DEF u

\* The state after one command of an edit.
LEMMA ApplyEffect ==
  ASSUME ShapeInv, OneNumberEach(offers), NEW r \in Staff, Apply(r)
  PROVE  /\ req[r].pc = "apply" /\ serial' \in Nat /\ serial <= serial'
         /\ ab' = ab /\ NoteStale(req[r])
         /\ \A s \in Staff \ {r} : req'[s] = req[s]
         /\ \E u : /\ Effect(r, u)
                   /\ req'[r] = IF u.pc = "idle" THEN Idle ELSE u
<1> DEFINE q == req[r]
<1>1. q.pc = "apply" /\ ab' = ab /\ NoteStale(q) /\ serial \in Nat
  BY OfferFields DEF Apply
<1>2. PICK u : Effect(r, u) /\ serial' \in Nat /\ serial <= serial'
  <2>1. CASE \E n \in q.todo \ {0} : UpdateContent(r, n)
    BY <1>1, <2>1, UpdateEffect
  <2>2. CASE \E n \in q.todo \ {0} : DeleteById(r, n)
    <3>1. PICK n \in q.todo \ {0} : DeleteById(r, n)
      BY <2>2
    <3>2. /\ Effect(r, NextCommand(q, n, q.known \ {n})) /\ serial' = serial
      BY <1>1, <3>1, DeleteEffect
    <3> QED
      BY <1>1, <3>2
  <2>3. CASE 0 \in q.todo /\ CreateRest(r)
    BY <1>1, <2>3, RestEffect
  <2> QED
    BY <2>1, <2>2, <2>3 DEF Apply
<1>3. /\ req'[r] = IF u.pc = "idle" THEN Idle ELSE u
      /\ \A s \in Staff \ {r} : req'[s] = req[s]
  <2>1. Continue(r, u)
    BY <1>2 DEF Effect
  <2> QED
    BY <2>1, Moved
<1> QED
  BY <1>1, <1>2, <1>3

\* An edit in hand that finishes leaves offers that follow its form.
LEMMA DoneFollows ==
  ASSUME ShapeInv, ShapeInv', serial <= serial',
         NEW r \in Staff, HalfWay(offers, req[r]), req[r].pc = "apply",
         NEW u, Effect(r, u), u.todo = {}
  PROVE  Follow(offers', req[r].form)
<1> DEFINE q == req[r]
<1>1. /\ q.form \in Forms /\ q.list \in SUBSET (1..serial) /\ serial \in Nat
  BY Applier
<1>2. /\ u.list = q.list /\ u.form = q.form /\ OneNumberEach(offers')
      /\ HalfWay(offers', u)
  BY DEF Effect
<1>3. NumbersOf(offers') \in SUBSET (1..serial') /\ serial' \in Nat
  BY DEF ShapeInv, TypeOK, NumbersOf, Ids
<1>4. u.list \in SUBSET (1..serial') /\ u.form \in Forms
  BY <1>1, <1>2, <1>3
<1>5. Follow(offers', u.form)
  BY <1>2, <1>3, <1>4, Finished
<1> QED
  BY <1>2, <1>5

\* A list that is rewritten was not empty, and its first number stays known.
LEMMA ListsMoved ==
  ASSUME Lists, NEW r \in Staff, serial \in Nat, serial' \in Nat,
         serial <= serial',
         \A s \in Staff \ {r} : req'[s] = req[s],
         req'[r].pc = "apply" =>
           /\ req'[r].known \subseteq 1..serial'
           /\ \E n \in req'[r].known \cap req'[r].list :
                 RankIn(n, req'[r].list) = 1,
         req'[r].pc \in {"fetch", "insert"} => req'[r].known = {}
  PROVE  Lists'
<1>1. \A n : n \in 1..serial => n \in 1..serial'
  OBVIOUS
<1> SUFFICES ASSUME NEW s \in Staff
             PROVE  /\ req'[s].pc = "apply" =>
                         /\ req'[s].known \subseteq 1..serial'
                         /\ \E n \in req'[s].known \cap req'[s].list :
                               RankIn(n, req'[s].list) = 1
                    /\ req'[s].pc \in {"fetch", "insert"} => req'[s].known = {}
  BY DEF Lists
<1>2. CASE s = r
  BY <1>2
<1>3. CASE s # r
  BY <1>1, <1>3 DEF Lists
<1> QED
  BY <1>2, <1>3

LEMMA FollowApply ==
  ASSUME OffersInv, FollowInv, NEW r \in Staff, Apply(r)
  PROVE  FollowInv'
<1> DEFINE q == req[r]
<1>0. ShapeInv /\ ShapeInv' /\ OneNumberEach(offers) /\ Lists
  BY ApplyShape DEF OffersInv, FollowInv
<1>1. /\ q.pc = "apply"
      /\ serial \in Nat /\ serial' \in Nat /\ serial <= serial'
      /\ ab' = ab /\ NoteStale(q) /\ \A s \in Staff \ {r} : req'[s] = req[s]
  BY <1>0, ApplyEffect, OfferFields
<1>2. PICK u : /\ Effect(r, u)
               /\ req'[r] = IF u.pc = "idle" THEN Idle ELSE u
  BY <1>0, ApplyEffect
<1>3. /\ u.list = q.list /\ OneNumberEach(offers')
      /\ u.pc = IF u.todo = {} THEN AfterSync(q) ELSE "apply"
      /\ q.known \subseteq 1..serial => u.known \subseteq 1..serial'
      /\ \A n \in q.known : RankIn(n, q.list) = 1 => n \in u.known
      /\ q.known = Ids => u.known = Ids'
      /\ HalfWay(offers, q) => HalfWay(offers', u)
  BY <1>2 DEF Effect
<1>4. /\ req'[r].pc = u.pc /\ u.pc \in {"check", "clear", "idle", "apply"}
      /\ u.pc = "apply" <=> u.todo # {}
      /\ u.pc = "apply" => req'[r] = u
  <2>1. AfterSync(q) \in {"check", "clear", "idle"}
    BY After
  <2> QED
    BY <1>2, <1>3, <2>1, IdleStep
<1>5. Lists'
  <2>1. /\ q.known \subseteq 1..serial
        /\ \E n \in q.known \cap q.list : RankIn(n, q.list) = 1
    BY <1>0, <1>1 DEF Lists
  <2>2. /\ u.known \subseteq 1..serial'
        /\ \E n \in u.known \cap u.list : RankIn(n, u.list) = 1
    BY <1>3, <2>1
  <2> QED
    BY <1>0, <1>1, <1>4, <2>2, ListsMoved
<1>6. ASSUME astray' = {} PROVE Following'
  <2>1. astray = {} /\ q.form = ab.positions /\ InHand(r)
    BY <1>1, <1>6 DEF NoteStale, Stale, InHand
  <2>2. /\ \A s \in Staff : req[s].pc = "apply" => r = s
        /\ HalfWay(offers, q)
    BY <2>1 DEF FollowInv, Following
  <2>3. \A s \in Staff : req'[s].pc = "apply" => s = r
    BY <1>1, <2>2
  <2>4. CASE u.todo = {}
    <3>1. Follow(offers', ab'.positions)
      BY <1>0, <1>1, <1>2, <2>1, <2>2, <2>4, DoneFollows
    <3>2. \A s \in Staff : req'[s].pc # "apply"
      BY <1>4, <2>3, <2>4
    <3> QED
      BY <3>1, <3>2 DEF Following, InHand
  <2>5. CASE u.todo # {}
    <3>1. req'[r] = u /\ u.pc = "apply" /\ InHand(r)'
      BY <1>3, <1>4, <2>1, <2>5 DEF InHand
    <3>2. \A s \in Staff : InHand(s)' => s = r
      BY <2>3 DEF InHand
    <3>3. HalfWay(offers', req'[r])
      BY <1>3, <2>2, <3>1
    <3> QED
      BY <2>3, <3>1, <3>2, <3>3 DEF Following
  <2> QED
    BY <2>4, <2>5
<1> QED
  BY <1>3, <1>5, <1>6 DEF FollowInv

\* The list of an edit is that of the offers.
LEMMA SyncEffect ==
  ASSUME OffersInv, NEW r \in Staff, Sync(r)
  PROVE  /\ ab' = ab /\ offers' = offers /\ serial' = serial /\ Ids' = Ids
         /\ \A s \in Staff \ {r} : req'[s] = req[s]
         /\ offers = {} => req'[r].pc \notin {"apply", "fetch", "insert"}
         /\ offers # {} =>
              /\ req'[r].pc = "apply"
              /\ req'[r].list = Ids /\ req'[r].known = Ids
              /\ HalfWay(offers, req'[r])
              /\ \E n \in Ids : RankIn(n, Ids) = 1
         /\ astray' = {} => astray = {} /\ \A s \in Staff : req[s].pc # "apply"
<1> DEFINE q == req[r]
           len == Len(buildOffers(q.form))
           c == Cardinality(Ids)
           todo == IF len > c THEN Ids \cup {0} ELSE Ids
           v == [q EXCEPT !.pc = AfterSync(q)]
           w == [q EXCEPT !.pc = "apply", !.list = Ids, !.known = Ids,
                          !.todo = todo]
<1>1. /\ q \in ReqRec /\ q.form \in Forms /\ serial \in Nat
      /\ Ids \in SUBSET (1..serial) /\ ShapeInv
  <2>1. ShapeInv /\ Sound(q, serial) /\ q.pc = "sync"
    BY Fields DEF OffersInv, Sync
  <2> QED
    BY <2>1, OfferFields DEF Sound, Handler
<1>2. len \in Nat /\ c \in Nat
  BY <1>1, FiniteList, FormPlaces
<1>3. /\ UNCHANGED <<ab, offers, serial>>
      /\ Continue(r, IF offers = {} THEN v ELSE w)
      /\ astray' = IF \E s \in Staff : req[s].pc = "apply"
                   THEN astray \cup {"stale"} ELSE astray
  BY DEF Sync
<1>4. Ids' = Ids
  BY <1>3 DEF Ids
<1>5. \A s \in Staff \ {r} : req'[s] = req[s]
  BY <1>1, <1>3, Moved
<1>6. CASE offers = {}
  <2>1. v.pc \in {"check", "clear", "idle"}
    BY <1>1, KeepsCopies, After
  <2> HIDE DEF v
  <2>2. req'[r].pc \in {"check", "clear", "idle"}
    BY <1>1, <1>3, <1>6, <2>1, Moved, IdleStep
  <2> QED
    BY <1>3, <1>4, <1>5, <1>6, <2>2
<1>7. CASE offers # {}
  <2> HIDE DEF todo
  <2>1. /\ w.pc = "apply" /\ w.list = Ids /\ w.known = Ids /\ w.todo = todo
        /\ w.form = q.form
    BY <1>1 DEF ReqRec
  <2> HIDE DEF w
  <2>2. req'[r] = w
    BY <1>1, <1>3, <1>7, <2>1, Moved
  <2>3. NumbersOf(offers) = Ids
    BY DEF NumbersOf, Ids
  <2>4. Ids \subseteq todo /\ (0 \in todo \/ c >= len)
    BY <1>2 DEF todo
  <2>5. HalfWay(offers, w)
    BY <2>1, <2>3, <2>4 DEF HalfWay
  <2>6. \E n \in Ids : RankIn(n, Ids) = 1
    <3>1. PICK m \in Ids : \A n \in Ids : m <= n
      BY <1>7 DEF OffersInv, FirstStays
    <3> QED
      BY <1>1, <3>1, RankOfFirst
  <2> QED
    BY <1>3, <1>4, <1>5, <1>7, <2>1, <2>2, <2>5, <2>6
<1> QED
  BY <1>6, <1>7

LEMMA FollowSync ==
  ASSUME OffersInv, FollowInv, NEW r \in Staff, Sync(r)
  PROVE  FollowInv'
<1>1. /\ ab' = ab /\ offers' = offers /\ serial' = serial /\ Ids' = Ids
      /\ \A s \in Staff \ {r} : req'[s] = req[s]
      /\ offers = {} => req'[r].pc \notin {"apply", "fetch", "insert"}
      /\ offers # {} => /\ req'[r].pc = "apply"
                        /\ req'[r].list = Ids /\ req'[r].known = Ids
                        /\ HalfWay(offers, req'[r])
                        /\ \E n \in Ids : RankIn(n, Ids) = 1
      /\ astray' = {} => astray = {} /\ \A s \in Staff : req[s].pc # "apply"
  BY SyncEffect
<1>2. Ids \subseteq 1..serial /\ serial \in Nat
  BY OfferFields DEF OffersInv
<1>3. Lists'
  <2>1. CASE offers = {}
    BY <1>1, <1>2, <2>1, ListsMoved DEF FollowInv
  <2>2. CASE offers # {}
    <3>0. Lists
      BY DEF FollowInv
    <3>1. PICK n \in Ids : RankIn(n, Ids) = 1
      BY <1>1, <2>2
    <3>2. /\ req'[r].pc = "apply" /\ req'[r].known \subseteq 1..serial'
          /\ n \in req'[r].known \cap req'[r].list
          /\ RankIn(n, req'[r].list) = 1
      BY <1>1, <1>2, <2>2, <3>1
    <3>3. serial' \in Nat /\ serial <= serial'
      BY <1>1, <1>2
    <3> QED
      BY <1>1, <1>2, <3>0, <3>2, <3>3, ListsMoved
  <2> QED
    BY <2>1, <2>2
<1>4. ASSUME astray' = {} PROVE Following'
  <2>1. CASE offers = {}
    <3>1. \A s \in Staff : req'[s].pc # "apply"
      BY <1>1, <1>4, <2>1
    <3> QED
      BY <1>1, <2>1, <3>1 DEF Following, InHand
  <2>2. CASE offers # {}
    <3>1. \A s \in Staff : req'[s].pc = "apply" => s = r
      BY <1>1, <1>4
    <3>2. InHand(r)' /\ HalfWay(offers', req'[r])
      BY <1>1, <2>2 DEF InHand
    <3> QED
      BY <3>1, <3>2 DEF Following, InHand
  <2> QED
    BY <2>1, <2>2
<1>5. OneNumberEach(offers')
  BY <1>1 DEF FollowInv
<1> QED
  BY <1>3, <1>4, <1>5 DEF FollowInv

\* Offers are created when the request has seen none.
LEMMA CreateEffect ==
  ASSUME OffersInv, FollowInv, NEW r \in Staff, createOffers(r)
  PROVE  LET q == req[r] IN
         /\ ShapeInv' /\ ab' = ab /\ q.form \in Forms
         /\ serial \in Nat /\ serial' \in Nat /\ serial <= serial'
         /\ \A s \in Staff \ {r} : req'[s] = req[s]
         /\ req'[r].pc \notin {"apply", "fetch", "insert"}
         /\ OneNumberEach(offers')
         /\ astray' = {} =>
              /\ astray = {} /\ q.form = ab.positions
              /\ offers' = NewOffers(q.form, 0)
              /\ Follow(offers', q.form)
              /\ \A s \in Staff : ~InHand(s)'
<1> DEFINE q == req[r]
           new == NewOffers(q.form, 0)
           len == Len(buildOffers(q.form))
           u == [q EXCEPT !.pc = AfterOffers(q)]
<1>1. /\ ShapeInv /\ ShapeInv' /\ q \in ReqRec /\ q.form \in Forms
      /\ serial \in Nat /\ Ids \in SUBSET (1..serial) /\ q.known = {}
  <2>1. ShapeInv /\ ShapeInv' /\ q.pc = "insert"
    BY CreateShape DEF OffersInv
  <2>2. Sound(q, serial) /\ q \in ReqRec
    BY <2>1, Fields
  <2> QED
    BY <2>1, <2>2, OfferFields DEF Sound, Handler, FollowInv, Lists
<1>2. /\ offers' = offers \cup new /\ serial' = serial + len /\ ab' = ab
      /\ NoteStale(q) /\ Continue(r, u)
  BY DEF createOffers
<1>3. /\ len \in Nat /\ len >= 1
  BY <1>1, FormPlaces
<1>4. u.pc \in {"mark", "drop", "idle"}
  BY <1>1, KeepsCopies, After
<1> HIDE DEF u
<1>5. /\ req'[r].pc \in {"mark", "drop", "idle"}
      /\ \A s \in Staff \ {r} : req'[s] = req[s]
  BY <1>1, <1>2, <1>4, Moved, IdleStep
<1>6. /\ NumbersOf(new) = (serial + 1)..(serial + (len - 0))
      /\ OneNumberEach(new) /\ Follow(new, q.form)
  <2>1. 0 \in Nat
    OBVIOUS
  <2> QED
    BY <1>1, <2>1, NewNumbers, NewFollow
<1>7. /\ \A o \in offers : o.id \in Ids
      /\ \A o \in new : o.id \in NumbersOf(new)
      /\ NumbersOf(offers) = Ids
  BY DEF NumbersOf, Ids
<1> HIDE DEF new, len
<1>8. \A n \in NumbersOf(new) : n \in Nat /\ n > serial
  BY <1>1, <1>3, <1>6
<1>9. \A o \in offers, p \in new : o.id # p.id
  BY <1>1, <1>7, <1>8
<1>10. OneNumberEach(offers')
  BY <1>2, <1>6, <1>9 DEF OneNumberEach, FollowInv
<1>11. ASSUME astray' = {}
       PROVE  /\ astray = {} /\ q.form = ab.positions
              /\ offers' = new
              /\ \A s \in Staff : ~InHand(s)'
  <2>1. astray = {} /\ q.form = ab.positions /\ Ids = {}
    BY <1>1, <1>2, <1>11 DEF NoteStale, Stale
  <2>2. offers' = new
    BY <1>2, <2>1, Numbered
  <2>3. Ids' = NumbersOf(new)
    BY <2>2 DEF Ids, NumbersOf
  <2>4. ASSUME NEW s \in Staff, InHand(s)' PROVE FALSE
    <3>1. req'[s].pc = "apply" /\ req'[s].known = Ids'
      BY <2>4 DEF InHand
    <3>2. req'[s] = req[s]
      BY <1>5, <3>1
    <3>3. /\ req[s].known \subseteq 1..serial
          /\ \E n \in req[s].known : n = n
      BY <3>1, <3>2 DEF FollowInv, Lists
    <3> QED
      BY <1>1, <1>8, <2>3, <3>1, <3>2, <3>3
  <2> QED
    BY <2>1, <2>2, <2>4
<1>12. serial' \in Nat /\ serial <= serial'
  BY <1>1, <1>2, <1>3
<1> QED
  BY <1>1, <1>2, <1>5, <1>6, <1>10, <1>11, <1>12 DEF new

LEMMA FollowCreate ==
  ASSUME OffersInv, FollowInv, NEW r \in Staff, createOffers(r)
  PROVE  FollowInv'
<1>1. Lists' /\ OneNumberEach(offers')
  BY CreateEffect, ListsMoved DEF FollowInv
<1>2. ASSUME astray' = {} PROVE Following'
  <2>1. Follow(offers', ab'.positions) /\ \A s \in Staff : ~InHand(s)'
    BY <1>2, CreateEffect
  <2> QED
    BY <2>1 DEF Following
<1> QED
  BY <1>1, <1>2 DEF FollowInv

LEMMA ClearEffect ==
  ASSUME OffersInv, FollowInv, NEW r \in Staff, Clear(r)
  PROVE  /\ offers' = {} /\ serial' = serial /\ Ids' = {}
         /\ \A s \in Staff \ {r} : req'[s] = req[s]
         /\ req'[r].pc \notin {"apply", "fetch", "insert"}
         /\ \A s \in Staff : ~InHand(s)'
<1> DEFINE q == req[r]
           u == [q EXCEPT !.pc = AfterOffers(q)]
<1>1. ShapeInv /\ q \in ReqRec
  BY Fields DEF OffersInv
<1>2. /\ offers' = {} /\ serial' = serial /\ Ids' = {} /\ Continue(r, u)
  BY Numbered DEF Clear
<1>3. u.pc \in {"mark", "drop", "idle"}
  BY <1>1, KeepsCopies, After
<1> HIDE DEF u
<1>4. /\ req'[r].pc \in {"mark", "drop", "idle"}
      /\ \A s \in Staff \ {r} : req'[s] = req[s]
  BY <1>1, <1>2, <1>3, Moved, IdleStep
<1>5. ASSUME NEW s \in Staff, InHand(s)' PROVE FALSE
  <2>1. req'[s].pc = "apply" /\ req'[s].known = {}
    BY <1>2, <1>5 DEF InHand
  <2>2. req'[s] = req[s]
    BY <1>4, <2>1
  <2> QED
    BY <2>1, <2>2 DEF FollowInv, Lists
<1> QED
  BY <1>2, <1>4, <1>5

LEMMA FollowClear ==
  ASSUME OffersInv, FollowInv, NEW r \in Staff, Clear(r)
  PROVE  FollowInv'
<1>1. /\ offers' = {} /\ serial' = serial
      /\ \A s \in Staff \ {r} : req'[s] = req[s]
      /\ req'[r].pc \notin {"apply", "fetch", "insert"}
      /\ \A s \in Staff : ~InHand(s)'
  BY ClearEffect
<1>2. serial \in Nat /\ Lists
  BY OfferFields DEF OffersInv, FollowInv
<1>3. Lists'
  BY <1>1, <1>2, ListsMoved
<1>4. OneNumberEach(offers') /\ Following'
  BY <1>1 DEF OneNumberEach, Following
<1> QED
  BY <1>3, <1>4 DEF FollowInv

LEMMA CrashEffect ==
  ASSUME Crash
  PROVE  /\ ab' = ab /\ offers' = offers /\ Ids' = Ids
         /\ \A s \in Staff : req'[s] = Idle
         /\ \A s \in Staff : ~InHand(s)'
         /\ astray' = {} =>
              astray = {} /\ \A s \in Staff : req[s].pc \notin {"sync", "apply"}
<1>1. /\ ab' = ab /\ offers' = offers /\ req' = [r \in Staff |-> Idle]
      /\ astray' = astray \cup UNION {Undone(req[r]) : r \in Staff}
  BY DEF Crash
<1>2. Ids' = Ids
  BY <1>1 DEF Ids
<1>3. \A s \in Staff : req'[s] = Idle
  BY <1>1
<1>4. \A s \in Staff : ~InHand(s)'
  BY <1>3, IdleStep DEF InHand
<1>5. ASSUME astray' = {}, NEW s \in Staff, req[s].pc \in {"sync", "apply"}
      PROVE  FALSE
  <2>1. "torn" \in Undone(req[s])
    BY <1>5 DEF Undone
  <2> QED
    BY <1>1, <1>5, <2>1
<1>6. astray' = {} => astray = {}
  BY <1>1
<1> QED
  BY <1>1, <1>2, <1>3, <1>4, <1>5, <1>6

LEMMA FollowCrash ==
  ASSUME FollowInv, Crash
  PROVE  FollowInv'
<1>1. /\ ab' = ab /\ offers' = offers
      /\ \A s \in Staff : req'[s] = Idle
      /\ \A s \in Staff : ~InHand(s)'
      /\ astray' = {} => /\ astray = {}
                         /\ \A s \in Staff : req[s].pc \notin {"sync", "apply"}
  BY CrashEffect
<1>2. Lists'
  BY <1>1, IdleStep DEF Lists
<1>3. ASSUME astray' = {} PROVE Following'
  BY <1>1, <1>3 DEF FollowInv, Following, InHand
<1> QED
  BY <1>1, <1>2, <1>3 DEF FollowInv

\* What Match and Sign leave alone.
LEMMA MatchEffect ==
  ASSUME ShapeInv, OneNumberEach(offers), NEW o \in offers, Match(o)
  PROVE  /\ Ids' = Ids /\ UNCHANGED <<ab, serial, req, astray>>
         /\ OneNumberEach(offers')
         /\ offers' # {} => offers # {}
         /\ \A form : Follow(offers, form) => Follow(offers', form)
         /\ \A q : HalfWay(offers, q) => HalfWay(offers', q)
         /\ \A p \in offers' :
              /\ \E x \in offers : x.id = p.id /\ x.place = p.place
              /\ p \in offers \/ p.made = p.place
<1> DEFINE n == [o EXCEPT !.made = o.place]
<1>1. n.id = o.id /\ n.place = o.place /\ n.made = n.place
  BY OfferFields DEF OfferRec
<1>2. /\ offers' = (offers \ {o}) \cup {n}
      /\ UNCHANGED <<ab, serial, req, astray>>
  BY DEF Match
<1>3. ShapeInv' /\ Ids' = Ids
  BY MatchShape
<1> HIDE DEF n
<1>4. OneNumberEach(offers')
  BY <1>1, <1>2 DEF OneNumberEach
<1>5. \A p \in offers' : /\ \E x \in offers : x.id = p.id /\ x.place = p.place
                         /\ p \in offers \/ p.made = p.place
  BY <1>1, <1>2
<1>6. /\ NumbersOf(offers) = Ids /\ NumbersOf(offers') = Ids'
      /\ Ids \in SUBSET (1..serial) /\ serial \in Nat
  BY OfferFields DEF NumbersOf, Ids
<1>7. /\ \A form : Follow(offers, form) => Follow(offers', form)
      /\ \A q : HalfWay(offers, q) => HalfWay(offers', q)
  <2>1. /\ NumbersOf(offers) \in SUBSET (1..serial)
        /\ NumbersOf(offers') = NumbersOf(offers)
        /\ \A p \in offers' : \E x \in offers : x.id = p.id /\ x.place = p.place
    BY <1>3, <1>5, <1>6
  <2> QED
    BY <1>4, <1>6, <2>1, SamePlaces
<1> QED
  BY <1>2, <1>3, <1>4, <1>5, <1>7

LEMMA FollowMatch ==
  ASSUME OffersInv, FollowInv, NEW o \in offers, Match(o)
  PROVE  FollowInv'
<1>1. /\ Ids' = Ids /\ UNCHANGED <<ab, serial, req, astray>>
      /\ OneNumberEach(offers')
      /\ \A form : Follow(offers, form) => Follow(offers', form)
      /\ \A q : HalfWay(offers, q) => HalfWay(offers', q)
  BY MatchEffect DEF OffersInv, FollowInv
<1>2. Lists'
  BY <1>1 DEF FollowInv, Lists
<1>3. \A s \in Staff : InHand(s)' <=> InHand(s)
  BY <1>1 DEF InHand
<1>4. ASSUME astray' = {} PROVE Following'
  <2>1. Following /\ offers # {}
    BY <1>1, <1>4 DEF FollowInv
  <2>2. \A s, t \in Staff : InHand(s)' /\ req'[t].pc = "apply" => s = t
    BY <1>1, <1>3, <2>1 DEF Following
  <2>3. \A s \in Staff : InHand(s)' => HalfWay(offers', req'[s])
    BY <1>1, <1>3, <2>1 DEF Following
  <2>4. \/ \E s \in Staff : InHand(s)'
        \/ Follow(offers', ab'.positions)
        \/ \E s \in Staff : req'[s].pc = "sync" /\ req'[s].form = ab'.positions
    BY <1>1, <1>3, <2>1 DEF Following
  <2> QED
    BY <2>2, <2>3, <2>4 DEF Following
<1> QED
  BY <1>1, <1>2, <1>4 DEF FollowInv

LEMMA FollowStays ==
  ASSUME OffersInv, FollowInv, Sign \/ UNCHANGED vars
  PROVE  FollowInv'
<1>1. UNCHANGED <<offers, serial, req, astray>> /\ ab'.positions = ab.positions
  <2>1. CASE Sign
    BY <2>1 DEF Sign, OffersInv, ShapeInv, TypeOK
  <2>2. CASE UNCHANGED vars
    BY <2>2 DEF vars
  <2> QED
    BY <2>1, <2>2
<1>2. Ids' = Ids
  BY <1>1 DEF Ids
<1> QED
  BY <1>1, <1>2 DEF FollowInv, Lists, Following, InHand

-----------------------------------------------------------------------------
(* The offers follow the AB.                                               *)

LEMMA FollowInit ==
  ASSUME Init
  PROVE  FollowInv
<1>1. offers = {} /\ Ids = {}
  BY Numbered DEF Init
<1>2. PICK form \in Forms, visible \in BOOLEAN, r \in Staff :
        req = [s \in Staff |->
                 IF s = r /\ visible
                 THEN [Idle EXCEPT !.op = "create", !.pc = "insert",
                                   !.form = form]
                 ELSE Idle]
  BY DEF Init
<1> DEFINE c == [Idle EXCEPT !.op = "create", !.pc = "insert", !.form = form]
<1>3. c.pc = "insert" /\ c.known = {}
  BY DEF Idle
<1>4. \A s \in Staff : req[s] = c \/ req[s] = Idle
  BY <1>2
<1> HIDE DEF c
<1>5. Lists /\ \A s \in Staff : req[s].pc # "apply"
  BY <1>3, <1>4, IdleStep DEF Lists
<1> QED
  BY <1>1, <1>5 DEF FollowInv, OneNumberEach, Following, InHand

\* The steps that leave the offers alone.
LEMMA QuietSteps ==
  ASSUME OffersInv, FollowInv, NEW r \in Staff,
         Begin(r) \/ OnAb(r) \/ Check(r) \/ Fetch(r) \/ Fail(r)
  PROVE  /\ Quietly(r)
         /\ \/ ab'.positions = ab.positions
            \/ req'[r].pc = "sync" /\ req'[r].form = ab'.positions
<1>0. ShapeInv /\ Lists
  BY DEF OffersInv, FollowInv
<1>1. CASE Begin(r)
  BY <1>0, <1>1, BeginQuiet
<1>2. CASE OnAb(r)
  BY <1>0, <1>2, OnAbQuiet
<1>3. CASE Check(r) \/ Fetch(r)
  BY <1>0, <1>3, LooksQuiet
<1>4. CASE Fail(r)
  BY <1>0, <1>4, FailQuiet
<1> QED
  BY <1>1, <1>2, <1>3, <1>4

LEMMA FollowNext ==
  ASSUME OffersInv, FollowInv, [Next]_vars
  PROVE  FollowInv'
<1>1. ASSUME NEW r \in Staff, Begin(r) \/ OnAb(r) \/ OnOffers(r) \/ Fail(r)
      PROVE  FollowInv'
  <2>1. CASE Begin(r) \/ OnAb(r) \/ Check(r) \/ Fetch(r) \/ Fail(r)
    BY <2>1, QuietSteps, FollowKept
  <2>2. CASE createOffers(r)
    BY <2>2, FollowCreate
  <2>3. CASE Sync(r)
    BY <2>3, FollowSync
  <2>4. CASE Apply(r)
    BY <2>4, FollowApply
  <2>5. CASE Clear(r)
    BY <2>5, FollowClear
  <2> QED
    BY <1>1, <2>1, <2>2, <2>3, <2>4, <2>5 DEF OnOffers
<1>2. CASE Crash
  BY <1>2, FollowCrash
<1>3. CASE Sign \/ UNCHANGED vars
  BY <1>3, FollowStays
<1>4. CASE \E o \in offers : Match(o)
  BY <1>4, FollowMatch
<1> QED
  BY <1>1, <1>2, <1>3, <1>4 DEF Next

\* What the invariant says of the offers at every step of an edit.
THEOREM FollowInvariant == Spec => [](OffersInv /\ FollowInv)
<1>1. Init => FollowInv
  BY FollowInit
<1>2. OffersInv /\ FollowInv /\ [Next]_vars => FollowInv'
  BY FollowNext
<1> QED
  BY <1>1, <1>2, OffersInvariant, PTL DEF Spec

\* Whatever the number of users, the forms and the overlap of their requests,
\* the offers are, between requests, the places of the AB in their order, unless
\* a request wrote from copies out of date or stopped half-way.
THEOREM OffersAlwaysFollow == Spec => []OffersFollowAb
<1>1. OffersInv /\ FollowInv => OffersFollowAb
  <2> SUFFICES ASSUME OffersInv, FollowInv,
                      \A r \in Staff : req[r].pc = "idle",
                      astray = {}, offers # {}
               PROVE  /\ Cardinality(offers) = Len(buildOffers(ab.positions))
                      /\ \A o \in offers :
                           o.place =
                             buildOffers(ab.positions)[RankIn(o.id, Ids)]
    BY DEF OffersFollowAb
  <2>1. Follow(offers, ab.positions)
    BY DEF FollowInv, Following, InHand
  <2>2. NumbersOf(offers) = Ids
    BY DEF NumbersOf, Ids
  <2> QED
    BY <2>1, <2>2 DEF Follow
<1> QED
  BY <1>1, FollowInvariant, PTL

-----------------------------------------------------------------------------
(* The candidates stay with their places.                                  *)

\* Offers that follow a form have places it asks for.
LEMMA FollowAsked ==
  ASSUME ShapeInv', OneNumberEach(offers'), NEW form \in Forms,
         Follow(offers', form)
  PROVE  \A o \in offers' : AsAsked(o, RankIn(o.id, Ids'))
<1> DEFINE b == buildOffers(form)
<1>1. /\ NumbersOf(offers') = Ids'
      /\ Ids' \in SUBSET (1..serial') /\ serial' \in Nat
  BY DEF ShapeInv, TypeOK, NumbersOf, Ids
<1>2. Cardinality(offers') = Cardinality(Ids')
  BY <1>1, AsMany
<1>3. \A n \in Ids' : RankIn(n, Ids') \in 1..Cardinality(Ids')
  BY <1>1, Ranks
<1>4. \A o \in offers' : o.id \in Ids'
  BY DEF Ids
<1>5. /\ Cardinality(offers') = Len(b)
      /\ \A o \in offers' : o.place = b[RankIn(o.id, Ids')]
  BY <1>1 DEF Follow
<1> TAKE o \in offers'
<1>6. RankIn(o.id, Ids') \in 1..Len(b) /\ o.place = b[RankIn(o.id, Ids')]
  BY <1>2, <1>3, <1>4, <1>5
<1> QED
  BY <1>6 DEF AsAsked

\* An edit in hand gives an offer the place it has.
LEMMA StayApply ==
  ASSUME GrowOnly, OffersInv, FollowInv, StayInv, NEW r \in Staff, Apply(r)
  PROVE  StayInv'
<1> DEFINE q == req[r]
           b == buildOffers(q.form)
<1>0. ShapeInv /\ ShapeInv' /\ OneNumberEach(offers) /\ Lists
      /\ OneNumberEach(offers') /\ FollowInv'
  BY ApplyShape, FollowApply DEF OffersInv, FollowInv
<1>1. /\ q.pc = "apply" /\ serial' \in Nat /\ serial <= serial'
      /\ ab' = ab /\ NoteStale(q) /\ \A s \in Staff \ {r} : req'[s] = req[s]
      /\ q.form \in Forms
  BY <1>0, ApplyEffect, Applier
<1>2. PICK u : /\ Effect(r, u)
               /\ req'[r] = IF u.pc = "idle" THEN Idle ELSE u
  BY <1>0, ApplyEffect
<1> SUFFICES ASSUME astray' = {} PROVE Staying'
  BY DEF StayInv
<1>3. astray = {} /\ InHand(r) /\ Staying /\ HalfWay(offers, q)
      /\ \A s \in Staff : req[s].pc = "apply" => r = s
  BY <1>1 DEF NoteStale, Stale, InHand, FollowInv, Following, StayInv
<1>4. /\ \A o \in offers : o.made \in {None, o.place}
      /\ \A o \in offers : o.id \in q.list => AsAsked(o, RankIn(o.id, q.list))
  BY <1>3 DEF Staying
<1>5. /\ u.list = q.list
      /\ u.pc = IF u.todo = {} THEN AfterSync(q) ELSE "apply"
      /\ \A o \in offers' :
           \/ o \in offers
           \/ o.made = None /\ o.id \notin q.list
           \/ /\ o.id \in q.list /\ o.place = b[RankIn(o.id, q.list)]
              /\ RankIn(o.id, q.list) \in 1..Len(b)
              /\ \E p \in offers : p.id = o.id /\ p.made = o.made
  BY <1>2 DEF Effect
<1>6. ASSUME NEW o \in offers'
      PROVE  /\ o.made \in {None, o.place}
             /\ o.id \in q.list => AsAsked(o, RankIn(o.id, q.list))
  <2> DEFINE k == RankIn(o.id, q.list)
  <2>1. CASE o \in offers
    BY <1>4, <2>1
  <2>4. CASE o.made = None /\ o.id \notin q.list
    BY <2>4
  <2>2. CASE /\ o.id \in q.list /\ o.place = b[k] /\ k \in 1..Len(b)
             /\ \E p \in offers : p.id = o.id /\ p.made = o.made
    <3>1. PICK p \in offers : p.id = o.id /\ p.made = o.made
      BY <2>2
    <3>2. PICK form \in Forms : /\ k \in 1..Len(buildOffers(form))
                                /\ p.place = buildOffers(form)[k]
      BY <1>4, <2>2, <3>1 DEF AsAsked
    <3>3. k <= Len(b)
      BY <1>1, <2>2, FormPlaces
    <3>4. p.place = o.place
      BY <1>1, <2>2, <3>2, <3>3 DEF GrowOnly
    <3> QED
      BY <1>1, <1>4, <2>2, <3>1, <3>4 DEF AsAsked
  <2>3. \/ o \in offers
        \/ o.made = None /\ o.id \notin q.list
        \/ /\ o.id \in q.list /\ o.place = b[k] /\ k \in 1..Len(b)
           /\ \E p \in offers : p.id = o.id /\ p.made = o.made
    <3> HIDE DEF b
    <3> QED
      BY <1>5
  <2> HIDE DEF b, k
  <2> QED
    BY <2>1, <2>2, <2>3, <2>4, Zenon
<1>7. u.pc = "apply" <=> u.todo # {}
  <2>1. AfterSync(q) \in {"check", "clear", "idle"}
    BY After
  <2> QED
    BY <1>5, <2>1
<1>8. \A s \in Staff : req'[s].pc = "apply" => s = r
  BY <1>1, <1>3
<1>9. CASE u.todo = {}
  <2>1. \A o \in offers' : AsAsked(o, RankIn(o.id, Ids'))
    <3>1. Follow(offers', q.form)
      BY <1>0, <1>1, <1>2, <1>3, <1>9, DoneFollows
    <3> QED
      BY <1>0, <1>1, <3>1, FollowAsked
  <2>2. \A s \in Staff : ~InHand(s)'
    BY <1>2, <1>7, <1>8, <1>9, IdleStep DEF InHand
  <2> QED
    BY <1>6, <2>1, <2>2 DEF Staying
<1>10. CASE u.todo # {}
  <2>1. req'[r] = u /\ u.pc = "apply"
    BY <1>2, <1>7, <1>10
  <2>2. InHand(r)'
    BY <1>2, <1>3, <2>1 DEF InHand, Effect
  <2>3. \A s \in Staff : InHand(s)' => s = r
    BY <1>8 DEF InHand
  <2> QED
    BY <1>5, <1>6, <2>1, <2>2, <2>3 DEF Staying
<1> QED
  BY <1>9, <1>10

LEMMA StaySync ==
  ASSUME OffersInv, StayInv, NEW r \in Staff, Sync(r)
  PROVE  StayInv'
<1> SUFFICES ASSUME astray' = {} PROVE Staying'
  BY DEF StayInv
<1>1. /\ offers' = offers /\ Ids' = Ids
      /\ \A s \in Staff \ {r} : req'[s] = req[s]
      /\ astray = {} /\ \A s \in Staff : req[s].pc # "apply"
  BY SyncEffect
<1>2. /\ \A o \in offers : o.made \in {None, o.place}
      /\ \A o \in offers : AsAsked(o, RankIn(o.id, Ids))
  BY <1>1 DEF StayInv, Staying, InHand
<1>3. \A s \in Staff : req'[s].pc = "apply" => s = r
  BY <1>1
<1>4. offers # {} => req'[r].list = Ids
  BY SyncEffect
<1>5. \A s \in Staff : InHand(s)' =>
        \A o \in offers' : AsAsked(o, RankIn(o.id, req'[s].list))
  BY <1>1, <1>2, <1>3, <1>4 DEF InHand
<1> QED
  BY <1>1, <1>2, <1>5 DEF Staying

LEMMA StayCreate ==
  ASSUME OffersInv, FollowInv, NEW r \in Staff, createOffers(r)
  PROVE  StayInv'
<1> DEFINE form == req[r].form
<1> SUFFICES ASSUME astray' = {} PROVE Staying'
  BY DEF StayInv
<1>1. /\ ShapeInv' /\ OneNumberEach(offers') /\ form \in Forms /\ serial \in Nat
      /\ offers' = NewOffers(form, 0) /\ Follow(offers', form)
      /\ \A s \in Staff : ~InHand(s)'
  BY CreateEffect
<1>2. \A o \in offers' : AsAsked(o, RankIn(o.id, Ids'))
  BY <1>1, FollowAsked
<1>3. \A o \in offers' : o.made = None
  <2>1. 0 \in Nat
    OBVIOUS
  <2> HIDE DEF form
  <2>2. \A o \in NewOffers(form, 0) : o.made = None
    BY <1>1, <2>1, NewNumbers
  <2> QED
    BY <1>1, <2>2
<1> QED
  BY <1>1, <1>2, <1>3 DEF Staying

\* A step after which nobody rewrites the offers who did not before.
LEMMA StayQuiet ==
  ASSUME StayInv, NEW r \in Staff, Quietly(r)
  PROVE  StayInv'
<1> SUFFICES ASSUME astray' = {} PROVE Staying'
  BY DEF StayInv
<1>1. /\ offers' = offers /\ Ids' = Ids
      /\ \A s \in Staff \ {r} : req'[s] = req[s]
      /\ astray = {} /\ req[r].pc # "apply" /\ req'[r].pc # "apply"
  BY DEF Quietly, Ids
<1>2. \A s \in Staff : /\ InHand(s)' <=> InHand(s)
                       /\ InHand(s)' => req'[s] = req[s]
  BY <1>1 DEF InHand
<1>3. Staying
  BY <1>1 DEF StayInv
<1> QED
  BY <1>1, <1>2, <1>3 DEF Staying

LEMMA StayMatch ==
  ASSUME OffersInv, FollowInv, StayInv, NEW o \in offers, Match(o)
  PROVE  StayInv'
<1> SUFFICES ASSUME astray' = {} PROVE Staying'
  BY DEF StayInv
<1>1. /\ Ids' = Ids /\ UNCHANGED <<req, astray>>
      /\ \A p \in offers' :
           /\ \E x \in offers : x.id = p.id /\ x.place = p.place
           /\ p \in offers \/ p.made = p.place
  BY MatchEffect DEF OffersInv, FollowInv
<1>2. Staying
  BY <1>1 DEF StayInv
<1>3. \A s \in Staff : InHand(s)' <=> InHand(s)
  BY <1>1 DEF InHand
<1>4. \A p \in offers' : p.made \in {None, p.place}
  BY <1>1, <1>2 DEF Staying
<1>5. (\A s \in Staff : ~InHand(s)') =>
        \A p \in offers' : AsAsked(p, RankIn(p.id, Ids'))
  BY <1>1, <1>2, <1>3 DEF Staying, AsAsked
<1>6. \A s \in Staff : InHand(s)' =>
        \A p \in offers' : p.id \in req'[s].list =>
          AsAsked(p, RankIn(p.id, req'[s].list))
  BY <1>1, <1>2, <1>3 DEF Staying, AsAsked
<1> QED
  BY <1>4, <1>5, <1>6 DEF Staying

LEMMA StayNext ==
  ASSUME GrowOnly, OffersInv, FollowInv, StayInv, [Next]_vars
  PROVE  StayInv'
<1>1. ASSUME NEW r \in Staff, Begin(r) \/ OnAb(r) \/ OnOffers(r) \/ Fail(r)
      PROVE  StayInv'
  <2>1. CASE Begin(r) \/ OnAb(r) \/ Check(r) \/ Fetch(r) \/ Fail(r)
    BY <2>1, QuietSteps, StayQuiet
  <2>2. CASE createOffers(r)
    BY <2>2, StayCreate
  <2>3. CASE Sync(r)
    BY <2>3, StaySync
  <2>4. CASE Apply(r)
    BY <2>4, StayApply
  <2>5. CASE Clear(r)
    BY <2>5, ClearEffect DEF StayInv, Staying
  <2> QED
    BY <1>1, <2>1, <2>2, <2>3, <2>4, <2>5 DEF OnOffers
<1>2. CASE Crash
  <2>1. /\ offers' = offers /\ Ids' = Ids /\ \A s \in Staff : ~InHand(s)'
        /\ astray' = {} => /\ astray = {} /\ \A s \in Staff : ~InHand(s)
    BY <1>2, CrashEffect DEF InHand
  <2> QED
    BY <2>1 DEF StayInv, Staying
<1>3. CASE Sign \/ UNCHANGED vars
  <2>1. UNCHANGED <<offers, req, astray>>
    BY <1>3 DEF Sign, vars
  <2> QED
    BY <2>1 DEF StayInv, Staying, InHand, Ids
<1>4. CASE \E o \in offers : Match(o)
  BY <1>4, StayMatch
<1> QED
  BY <1>1, <1>2, <1>3, <1>4 DEF Next

LEMMA StayInvariant ==
  ASSUME GrowOnly
  PROVE  Spec => []StayInv
<1>1. Init => StayInv
  BY DEF Init, StayInv, Staying
<1>2. OffersInv /\ FollowInv /\ StayInv /\ [Next]_vars => StayInv'
  BY StayNext
<1> QED
  BY <1>1, <1>2, FollowInvariant, PTL DEF Spec

\* Where positions are only added and removed at the end of the list, and unless
\* a request wrote from copies out of date or stopped half-way, no edit moves
\* the candidates looked for on an offer to another place.
THEOREM MatchingAlwaysStays ==
  ASSUME GrowOnly
  PROVE  Spec => []MatchingStays
<1>1. StayInv => MatchingStays
  BY DEF StayInv, Staying, MatchingStays
<1> QED
  BY <1>1, StayInvariant, PTL

-----------------------------------------------------------------------------
(* What an edit of an AB that was sent keeps.                              *)

\* An offer that one command of an edit does not leave as it is was in the list
\* the edit read: it lies beyond the last place asked for and is deleted, or it
\* gets the place of its rank.
LEMMA ApplyTouches ==
  ASSUME ShapeInv, NEW r \in Staff, Apply(r), NEW o \in offers, o \notin offers'
  PROVE  LET q == req[r]
             b == buildOffers(q.form)
             k == RankIn(o.id, q.list)
         IN  /\ o.id \in q.list
             /\ \/ k > Len(b)
                \/ k \in 1..Len(b) /\ o.place # b[k]
<1> DEFINE q == req[r]
           b == buildOffers(q.form)
           k == RankIn(o.id, q.list)
<1>1. /\ q.pc = "apply" /\ q.list \in SUBSET (1..serial) /\ serial \in Nat
      /\ q.todo \subseteq q.list \cup {0} /\ Len(b) \in Nat
      /\ o \in OfferRec
  BY Applier, OfferFields DEF Apply
<1>2. ~CreateRest(r)
  BY DEF CreateRest
<1>3. PICK n \in q.todo \ {0} : UpdateContent(r, n) \/ DeleteById(r, n)
  BY <1>2 DEF Apply
<1>4. n = o.id
  <2>1. CASE UpdateContent(r, n)
    BY <2>1 DEF UpdateContent
  <2>2. CASE DeleteById(r, n)
    BY <2>2 DEF DeleteById
  <2> QED
    BY <1>3, <2>1, <2>2
<1>5. o.id \in q.list /\ k \in Nat /\ k >= 1
  BY <1>1, <1>4, RankPositive
<1>6. CASE UpdateContent(r, n)
  <2>1. /\ k <= Len(b)
        /\ offers' = {IF p.id = n THEN [p EXCEPT !.place = b[k]] ELSE p :
                        p \in offers}
    BY <1>4, <1>6 DEF UpdateContent
  <2>2. [o EXCEPT !.place = b[k]] \in offers'
    BY <1>4, <2>1
  <2>3. o.place # b[k]
    <3>1. o.place = b[k] => [o EXCEPT !.place = b[k]] = o
      BY <1>1 DEF OfferRec
    <3> QED
      BY <2>2, <3>1
  <2> HIDE DEF b, k
  <2> QED
    BY <1>1, <1>5, <2>1, <2>3 DEF b, k
<1>7. CASE DeleteById(r, n)
  BY <1>4, <1>5, <1>7 DEF DeleteById
<1> QED
  BY <1>3, <1>6, <1>7

\* Where positions are only added and removed at the end, an edit whose copies
\* are current leaves the offers it keeps exactly as they are.
LEMMA ApplyKeeps ==
  ASSUME GrowOnly, OffersInv, FollowInv, StayInv, NEW r \in Staff, Apply(r),
         astray' = {}, NEW o \in offers, o \notin offers'
  PROVE  /\ req[r].form = ab.positions /\ o.id \in req[r].list
         /\ RankIn(o.id, req[r].list) > Len(buildOffers(ab.positions))
         /\ AsAsked(o, RankIn(o.id, req[r].list))
<1> DEFINE q == req[r]
           b == buildOffers(q.form)
           k == RankIn(o.id, q.list)
<1>1. ShapeInv /\ q.pc = "apply" /\ q.form \in Forms
  BY Applier DEF OffersInv, Apply
<1>2. astray = {} /\ q.form = ab.positions /\ q.known = Ids
  BY DEF Apply, NoteStale, Stale
<1>3. /\ o.id \in q.list
      /\ k > Len(b) \/ (k \in 1..Len(b) /\ o.place # b[k])
  BY <1>1, ApplyTouches
<1>4. AsAsked(o, k)
  BY <1>1, <1>2, <1>3 DEF StayInv, Staying, InHand
<1>5. ~(k \in 1..Len(b) /\ o.place # b[k])
  <2> SUFFICES ASSUME k \in 1..Len(b) PROVE o.place = b[k]
    OBVIOUS
  <2>1. PICK form \in Forms : /\ k \in 1..Len(buildOffers(form))
                              /\ o.place = buildOffers(form)[k]
    BY <1>4 DEF AsAsked
  <2>2. k <= Len(b) /\ Len(b) \in Nat
    BY <1>1, FormPlaces
  <2> QED
    BY <1>1, <2>1, <2>2 DEF GrowOnly
<1> QED
  BY <1>2, <1>3, <1>4, <1>5

\* A command of an edit whose copies are current leaves alone the offers of the
\* first places, as many as the AB asks for: with their numbers, their places
\* and their candidates.
FirstOffersStay ==
  [][\A r \in Staff : Apply(r) /\ astray' = {} =>
       \A o \in offers :
         RankIn(o.id, req[r].list) <= Len(buildOffers(ab.positions))
         => o \in offers']_vars

\* "En preservant leur id stable et leur etat de matching": where positions are
\* only added and removed at the end of the list, the commands of an edit that
\* overlaps no other request delete the offers beyond the end and write nothing
\* new on any other.
THEOREM EditsTouchTheEndOnly ==
  ASSUME GrowOnly
  PROVE  Spec => FirstOffersStay
<1>1. OffersInv /\ FollowInv /\ StayInv =>
        \A r \in Staff : Apply(r) /\ astray' = {} =>
          \A o \in offers :
            RankIn(o.id, req[r].list) <= Len(buildOffers(ab.positions))
            => o \in offers'
  <2> SUFFICES ASSUME OffersInv, FollowInv, StayInv, NEW r \in Staff, Apply(r),
                      astray' = {}, NEW o \in offers, o \notin offers',
                      RankIn(o.id, req[r].list)
                        <= Len(buildOffers(ab.positions))
               PROVE  FALSE
    OBVIOUS
  <2>1. /\ req[r].form = ab.positions /\ o.id \in req[r].list
        /\ RankIn(o.id, req[r].list) > Len(buildOffers(ab.positions))
    BY ApplyKeeps
  <2>2. /\ req[r].list \in SUBSET (1..serial) /\ serial \in Nat
        /\ Len(buildOffers(req[r].form)) \in Nat
    BY Applier DEF Apply, OffersInv
  <2>3. RankIn(o.id, req[r].list) \in Nat
    BY <2>1, <2>2, RankPositive
  <2> QED
    BY <2>1, <2>2, <2>3
<1> QED
  BY <1>1, StayInvariant, FollowInvariant, PTL DEF FirstOffersStay

\* No form asks twice for the same place.
NoPlaceTwice ==
  \A form \in Forms : \A i, j \in 1..Len(buildOffers(form)) :
    buildOffers(form)[i] = buildOffers(form)[j] => i = j

\* No request has written from old copies, or stopped half-way.
InStep == astray = {}

\* No edit hides the AB.
NoEditHides == [][\A r \in Staff : req[r].op = "edit" => ~Clear(r)]_vars

\* What the comment of syncOffers promises of every edit is kept where the
\* positions are only added and removed at the end, none of them asks twice for
\* one place, no edit hides the AB, and no request writes from old copies or
\* stops half-way: an edit that breaks the promise has one of these causes.
THEOREM EditsKeepMatching ==
  ASSUME GrowOnly, NoPlaceTwice
  PROVE  Spec /\ []InStep /\ NoEditHides => EditKeepsMatching
<1> DEFINE Hides == \A r \in Staff : req[r].op = "edit" => ~Clear(r)
           Keeps ==
             (ab.status # "BROUILLON"
              /\ \E r \in Staff : req[r].op = "edit" /\ (Apply(r) \/ Clear(r)))
             => \A o \in offers :
                  o.made = o.place
                  /\ (\E k \in DOMAIN buildOffers(ab.positions) :
                        buildOffers(ab.positions)[k] = o.made)
                  => \E p \in offers' : p.place = o.made /\ p.made = o.made
<1>1. OffersInv /\ FollowInv /\ StayInv /\ InStep' /\ Hides => Keeps
  <2> SUFFICES ASSUME OffersInv, FollowInv, StayInv, astray' = {},
                      NEW r \in Staff, Apply(r), NEW o \in offers,
                      o.made = o.place, o \notin offers',
                      NEW j \in DOMAIN buildOffers(ab.positions),
                      buildOffers(ab.positions)[j] = o.made
               PROVE  FALSE
    BY DEF InStep
  <2> DEFINE b == buildOffers(ab.positions)
             k == RankIn(o.id, req[r].list)
  <2>1. k > Len(b) /\ AsAsked(o, k) /\ req[r].form = ab.positions
    BY ApplyKeeps
  <2>2. ab.positions \in Forms /\ Len(b) \in Nat /\ j \in 1..Len(b)
    <3>1. ab.positions \in Forms
      BY DEF OffersInv, ShapeInv, TypeOK
    <3>2. b \in Seq(Place)
      BY <3>1, FormsAssumption DEF FormsAssumption
    <3> HIDE DEF b
    <3> QED
      BY <3>1, <3>2 DEF b
  <2>3. PICK form \in Forms : /\ k \in 1..Len(buildOffers(form))
                              /\ o.place = buildOffers(form)[k]
    BY <2>1 DEF AsAsked
  <2> DEFINE f == buildOffers(form)
  <2>4. Len(f) \in Nat
    BY FormPlaces
  <2> HIDE DEF k
  <2>5. j \in 1..Len(f) /\ j # k /\ j <= Len(f)
    <3> HIDE DEF b, f
    <3> QED
      BY <2>1, <2>2, <2>3, <2>4 DEF f
  <2>6. b[j] = f[j]
    BY <2>2, <2>5 DEF GrowOnly
  <2>7. f[j] = f[k]
    BY <2>3, <2>6
  <2> QED
    BY <2>3, <2>5, <2>7 DEF NoPlaceTwice
<1>2. OffersInv /\ FollowInv /\ StayInv /\ InStep' /\ [Hides]_vars
      => [Keeps]_vars
  BY <1>1
<1> QED
  BY <1>2, StayInvariant, FollowInvariant, PTL
     DEF NoEditHides, EditKeepsMatching
=============================================================================
