---------------------------- MODULE SharedLemmas ----------------------------
(***************************************************************************)
(* Lemmas the proofs share.  Chains: the promise chains of the nodes, a    *)
(* sequence of waiting handlers in which each one occurs once, that grows  *)
(* at its end and that a handler leaves from whatever place it has.  Folds *)
(* and totals: a fold over a finite set exists, and a sum does not depend  *)
(* on the order of its terms; both by induction over the subsets of a      *)
(* finite set, in the form that needs no operator as a parameter.          *)
(***************************************************************************)
EXTENDS Integers, SequencesExt, SequenceTheorems, FiniteSetTheorems, TLAPS

(* g entered the chain before h.                                           *)
Ahead(s, g, h) == \E i, j \in DOMAIN s : i < j /\ s[i] = g /\ s[j] = h
Chain(s, S) == s \in Seq(S) /\ IsInjective(s)

(* Two handlers in a chain: one of them is ahead of the other.             *)
LEMMA OneIsAhead ==
  ASSUME NEW S, NEW s, Chain(s, S), NEW g \in Range(s), NEW h \in Range(s), g # h
  PROVE  Ahead(s, g, h) \/ Ahead(s, h, g)
<1>1. PICK i \in DOMAIN s, j \in DOMAIN s : s[i] = g /\ s[j] = h
  BY DEF Range
<1>2. i \in Int /\ j \in Int /\ i # j
  BY <1>1 DEF Chain
<1> QED BY <1>1, <1>2 DEF Ahead

(* Nobody is ahead of itself, and those ahead are in the chain.            *)
LEMMA AheadIsInside ==
  ASSUME NEW S, NEW s, Chain(s, S), NEW g, NEW h, Ahead(s, g, h)
  PROVE  g \in Range(s) /\ h \in Range(s) /\ g # h /\ ~Ahead(s, h, g)
<1>1. DOMAIN s \subseteq Int
  BY DEF Chain
<1>2. PICK i \in DOMAIN s, j \in DOMAIN s : i < j /\ s[i] = g /\ s[j] = h
  BY DEF Ahead
<1>3. g \in Range(s) /\ h \in Range(s)
  BY <1>2 DEF Range
<1>4. \A m, n \in DOMAIN s : s[m] = s[n] => m = n
  BY DEF Chain, IsInjective
<1>5. g # h
  BY <1>1, <1>2, <1>4
<1>6. ~Ahead(s, h, g)
  BY <1>1, <1>2, <1>4 DEF Ahead
<1> QED BY <1>3, <1>5, <1>6

(* A handler that enters is behind all the others.                         *)
LEMMA Entered ==
  ASSUME NEW S, NEW s, Chain(s, S), NEW h \in S, h \notin Range(s)
  PROVE  /\ Chain(Append(s, h), S)
         /\ Range(Append(s, h)) = Range(s) \cup {h}
         /\ \A f, g : Ahead(Append(s, h), f, g)
                        <=> Ahead(s, f, g) \/ (f \in Range(s) /\ g = h)
<1> DEFINE t == Append(s, h)
           n == Len(s)
<1>1. /\ n \in Nat /\ DOMAIN s = 1..n /\ t \in Seq(S) /\ DOMAIN t = 1..n + 1
      /\ t[n + 1] = h /\ \A i \in 1..n : t[i] = s[i]
  BY DEF Chain
<1>2. DOMAIN t = DOMAIN s \cup {n + 1} /\ n + 1 \notin DOMAIN s
  BY <1>1
<1> HIDE DEF t
<1>3. Range(t) = Range(s) \cup {h}
  BY <1>1, <1>2 DEF Range
<1>4. \A i \in DOMAIN s : s[i] # h
  BY DEF Range
<1>5. IsInjective(t)
  BY <1>1, <1>2, <1>4 DEF Chain, IsInjective
<1>6. ASSUME NEW f, NEW g
      PROVE  Ahead(t, f, g) <=> Ahead(s, f, g) \/ (f \in Range(s) /\ g = h)
  <2>1. ASSUME Ahead(t, f, g) PROVE Ahead(s, f, g) \/ (f \in Range(s) /\ g = h)
    <3>1. PICK i \in DOMAIN t, j \in DOMAIN t : i < j /\ t[i] = f /\ t[j] = g
      BY <2>1 DEF Ahead
    <3>2. i \in DOMAIN s /\ t[i] = s[i] /\ (j = n + 1 \/ (j \in DOMAIN s /\ t[j] = s[j]))
      BY <1>1, <3>1
    <3> QED BY <1>1, <3>1, <3>2 DEF Ahead, Range
  <2>2. ASSUME Ahead(s, f, g) PROVE Ahead(t, f, g)
    <3>1. PICK i \in DOMAIN s, j \in DOMAIN s : i < j /\ s[i] = f /\ s[j] = g
      BY <2>2 DEF Ahead
    <3>2. i \in DOMAIN t /\ j \in DOMAIN t /\ t[i] = f /\ t[j] = g
      BY <1>1, <3>1
    <3> QED BY <3>1, <3>2 DEF Ahead
  <2>3. ASSUME f \in Range(s), g = h PROVE Ahead(t, f, g)
    <3>1. PICK i \in DOMAIN s : s[i] = f
      BY <2>3 DEF Range
    <3>2. i \in DOMAIN t /\ n + 1 \in DOMAIN t /\ t[i] = f /\ i < n + 1
      BY <1>1, <3>1
    <3> QED BY <1>1, <2>3, <3>2 DEF Ahead
  <2> QED BY <2>1, <2>2, <2>3
<1> QED BY <1>1, <1>3, <1>5, <1>6 DEF Chain, t

(* A sequence without its i-th element keeps the order of the others.      *)
LEMMA Dropped ==
  ASSUME NEW S, NEW s, Chain(s, S), NEW i \in DOMAIN s, NEW t \in Seq(S),
         Len(t) = Len(s) - 1,
         \A m \in DOMAIN t : (m < i => t[m] = s[m]) /\ (~(m < i) => t[m] = s[m + 1])
  PROVE  /\ Chain(t, S)
         /\ Range(t) = Range(s) \ {s[i]}
         /\ \A f, g : Ahead(t, f, g) <=> Ahead(s, f, g) /\ f # s[i] /\ g # s[i]
<1> DEFINE n == Len(s)
           At(m) == IF m < i THEN m ELSE m + 1
<1>1. n \in Nat /\ DOMAIN s = 1..n /\ i \in 1..n
  BY DEF Chain
<1>2. DOMAIN t = 1..n - 1
  BY <1>1
<1> HIDE DEF n
<1>3. \A m \in DOMAIN t : At(m) \in DOMAIN s /\ At(m) # i /\ t[m] = s[At(m)]
  BY <1>1, <1>2
<1>4. \A j \in DOMAIN s : j # i => \E m \in DOMAIN t : At(m) = j
  <2>1. ASSUME NEW j \in DOMAIN s, j < i PROVE j \in DOMAIN t /\ At(j) = j
    BY <1>1, <1>2, <2>1
  <2>2. ASSUME NEW j \in DOMAIN s, j > i PROVE j - 1 \in DOMAIN t /\ At(j - 1) = j
    BY <1>1, <1>2, <2>2
  <2> QED BY <1>1, <2>1, <2>2
<1>5. \A m, l \in DOMAIN t : (m < l <=> At(m) < At(l)) /\ (At(m) = At(l) => m = l)
  BY <1>1, <1>2
<1>6. \A m, l \in DOMAIN s : s[m] = s[l] => m = l
  BY DEF Chain, IsInjective
<1> HIDE DEF At
<1>7. IsInjective(t)
  BY <1>3, <1>5, <1>6 DEF IsInjective
<1>8. Range(t) = Range(s) \ {s[i]}
  <2>1. \A m \in DOMAIN t : s[At(m)] # s[i]
    BY <1>3, <1>6
  <2> QED BY <1>3, <1>4, <2>1 DEF Range
<1>9. ASSUME NEW f, NEW g
      PROVE  Ahead(t, f, g) <=> Ahead(s, f, g) /\ f # s[i] /\ g # s[i]
  <2>1. ASSUME Ahead(t, f, g) PROVE Ahead(s, f, g) /\ f # s[i] /\ g # s[i]
    <3>1. PICK m \in DOMAIN t, l \in DOMAIN t : m < l /\ t[m] = f /\ t[l] = g
      BY <2>1 DEF Ahead
    <3> QED BY <1>3, <1>5, <1>6, <3>1 DEF Ahead
  <2>2. ASSUME Ahead(s, f, g), f # s[i], g # s[i] PROVE Ahead(t, f, g)
    <3>1. PICK j \in DOMAIN s, k \in DOMAIN s : j < k /\ s[j] = f /\ s[k] = g
      BY <2>2 DEF Ahead
    <3>2. PICK m \in DOMAIN t, l \in DOMAIN t : At(m) = j /\ At(l) = k
      BY <1>4, <2>2, <3>1
    <3> QED BY <1>3, <1>5, <3>1, <3>2 DEF Ahead
  <2> QED BY <2>1, <2>2
<1> QED BY <1>7, <1>8, <1>9 DEF Chain

(* A handler that leaves, if it was in the chain at all.                   *)
LEMMA LeftChain ==
  ASSUME NEW S, NEW s, Chain(s, S), NEW h
  PROVE  /\ Chain(RemoveFirst(s, h), S)
         /\ Range(RemoveFirst(s, h)) = Range(s) \ {h}
         /\ \A f, g : Ahead(RemoveFirst(s, h), f, g) <=> Ahead(s, f, g) /\ f # h /\ g # h
<1>1. Len(s) \in Nat /\ DOMAIN s = 1..Len(s) /\ s \in Seq(S)
  BY DEF Chain
<1>2. CASE h \notin Range(s)
  <2>1. ~\E i \in 1..Len(s) : s[i] = h
    BY <1>1, <1>2 DEF Range
  <2>2. RemoveFirst(s, h) = s
    BY <2>1 DEF RemoveFirst
  <2>3. \A f, g : Ahead(s, f, g) => f # h /\ g # h
    BY <1>1, <2>1 DEF Ahead
  <2> QED BY <1>2, <2>2, <2>3
<1>3. CASE h \in Range(s)
  <2>1. PICK i \in 1..Len(s) : s[i] = h
    BY <1>1, <1>3 DEF Range
  <2>2. {m \in 1..Len(s) : s[m] = h} = {i}
    BY <1>1, <2>1 DEF Chain, IsInjective
  <2>3. Min({i}) = i
    BY <1>1 DEF Min
  <2>4. RemoveFirst(s, h) = RemoveAt(s, i)
    BY <2>1, <2>2, <2>3 DEF RemoveFirst, SelectInSeq
  <2> DEFINE a == SubSeq(s, 1, i - 1)
             b == SubSeq(s, i + 1, Len(s))
             t == RemoveAt(s, i)
  <2>5. /\ a \in Seq(S) /\ Len(a) = i - 1 /\ \A m \in 1..i - 1 : a[m] = s[m]
        /\ b \in Seq(S) /\ Len(b) = Len(s) - i
        /\ \A m \in 1..Len(s) - i : b[m] = s[i + m]
    <3>1. /\ 1 \in Int /\ i - 1 \in Int /\ i + 1 \in Int /\ Len(s) \in Int /\ i <= Len(s)
          /\ \A m \in 1..i - 1 : s[m] \in S
          /\ \A m \in i + 1..Len(s) : s[m] \in S
      BY <1>1
    <3>2. /\ a \in Seq(S) /\ Len(a) = IF 1 <= i - 1 THEN (i - 1) - 1 + 1 ELSE 0
          /\ \A m \in 1..(i - 1) - 1 + 1 : a[m] = s[1 + m - 1]
      BY <3>1, SubSeqProperties
    <3>3. /\ b \in Seq(S)
          /\ Len(b) = IF i + 1 <= Len(s) THEN Len(s) - (i + 1) + 1 ELSE 0
          /\ \A m \in 1..Len(s) - (i + 1) + 1 : b[m] = s[(i + 1) + m - 1]
      BY <3>1, SubSeqProperties
    <3> HIDE DEF a, b, t
    <3>4. ASSUME NEW m \in 1..i - 1 PROVE a[m] = s[m]
      BY <1>1, <3>2
    <3>5. ASSUME NEW m \in 1..Len(s) - i PROVE b[m] = s[i + m]
      <4>1. m \in 1..Len(s) - (i + 1) + 1 /\ (i + 1) + m - 1 = i + m
        BY <1>1
      <4> QED BY <3>3, <4>1
    <3>6. Len(a) = i - 1 /\ Len(b) = Len(s) - i
      <4>1. (IF 1 <= i - 1 THEN (i - 1) - 1 + 1 ELSE 0) = i - 1
        BY <1>1
      <4>2. (IF i + 1 <= Len(s) THEN Len(s) - (i + 1) + 1 ELSE 0) = Len(s) - i
        <5>1. i \in Int /\ Len(s) \in Int /\ i <= Len(s)
          BY <1>1
        <5>2. CASE i + 1 <= Len(s)
          BY <5>1, <5>2
        <5>3. CASE ~(i + 1 <= Len(s))
          BY <5>1, <5>3
        <5> QED BY <5>2, <5>3
      <4> QED BY <3>2, <3>3, <4>1, <4>2
    <3> QED BY <3>2, <3>3, <3>4, <3>5, <3>6
  <2>6. /\ t = a \o b /\ t \in Seq(S) /\ Len(t) = Len(s) - 1
        /\ \A m \in DOMAIN t : (m < i => t[m] = s[m]) /\ (~(m < i) => t[m] = s[m + 1])
    <3> HIDE DEF a, b
    <3>1. t = a \o b
      BY DEF RemoveAt, a, b
    <3>2. /\ t \in Seq(S) /\ Len(t) = Len(a) + Len(b)
          /\ \A m \in 1..Len(a) + Len(b) : t[m] = IF m <= Len(a) THEN a[m] ELSE b[m - Len(a)]
      BY <2>5, <3>1, ConcatProperties
    <3>3. DOMAIN t = 1..Len(s) - 1
      BY <1>1, <2>5, <3>2
    <3> HIDE DEF t
    <3>4. ASSUME NEW m \in DOMAIN t, m < i PROVE t[m] = s[m]
      BY <1>1, <2>5, <3>2, <3>3, <3>4
    <3>5. ASSUME NEW m \in DOMAIN t, ~(m < i) PROVE t[m] = s[m + 1]
      <4>1. m - (i - 1) \in 1..Len(s) - i /\ i + (m - (i - 1)) = m + 1
        BY <1>1, <3>3, <3>5
      <4>2. t[m] = b[m - (i - 1)]
        BY <1>1, <2>5, <3>2, <3>3, <3>5
      <4>3. b[m - (i - 1)] = s[i + (m - (i - 1))]
        BY <2>5, <4>1
      <4> QED BY <4>1, <4>2, <4>3
    <3> QED BY <1>1, <2>5, <3>1, <3>2, <3>4, <3>5
  <2> HIDE DEF t, a, b
  <2>7. /\ i \in DOMAIN s /\ t \in Seq(S) /\ Len(t) = Len(s) - 1
        /\ \A m \in DOMAIN t : (m < i => t[m] = s[m]) /\ (~(m < i) => t[m] = s[m + 1])
    BY <1>1, <2>6
  <2>8. /\ Chain(t, S) /\ Range(t) = Range(s) \ {s[i]}
        /\ \A f, g : Ahead(t, f, g) <=> Ahead(s, f, g) /\ f # s[i] /\ g # s[i]
    BY ONLY <2>7, Chain(s, S), Dropped, Zenon
  <2>9. /\ Chain(t, S) /\ Range(t) = Range(s) \ {h}
        /\ \A f, g : Ahead(t, f, g) <=> Ahead(s, f, g) /\ f # h /\ g # h
    BY ONLY <2>1, <2>8
  <2> QED BY <2>4, <2>9 DEF t
<1> QED BY <1>2, <1>3

(* The first one leaves.                                                   *)
LEMMA FirstLeft ==
  ASSUME NEW S, NEW s, Chain(s, S), s # <<>>
  PROVE  /\ Chain(Tail(s), S)
         /\ Range(Tail(s)) = Range(s) \ {Head(s)}
         /\ \A f, g : Ahead(Tail(s), f, g) <=> Ahead(s, f, g) /\ f # Head(s) /\ g # Head(s)
<1>1. Len(s) \in Nat /\ DOMAIN s = 1..Len(s) /\ s \in Seq(S) /\ 1 \in DOMAIN s /\ Head(s) = s[1]
  BY DEF Chain
<1> DEFINE t == Tail(s)
<1>2. /\ t \in Seq(S) /\ Len(t) = Len(s) - 1
      /\ \A m \in DOMAIN t : (m < 1 => t[m] = s[m]) /\ (~(m < 1) => t[m] = s[m + 1])
  BY <1>1
<1> HIDE DEF t
<1>3. /\ Chain(t, S) /\ Range(t) = Range(s) \ {Head(s)}
      /\ \A f, g : Ahead(t, f, g) <=> Ahead(s, f, g) /\ f # Head(s) /\ g # Head(s)
  BY ONLY <1>1, <1>2, Chain(s, S), Dropped
<1> QED BY <1>3 DEF t

(* Nobody is ahead of the first one.                                       *)
LEMMA FirstIsAhead ==
  ASSUME NEW S, NEW s, Chain(s, S), s # <<>>
  PROVE  /\ Head(s) \in Range(s)
         /\ \A g \in Range(s) : g # Head(s) => Ahead(s, Head(s), g)
         /\ \A g : ~Ahead(s, g, Head(s))
<1>1. DOMAIN s = 1..Len(s) /\ 1 \in DOMAIN s /\ Head(s) = s[1] /\ Len(s) \in Nat
  BY DEF Chain
<1>2. \A g \in Range(s) : g # Head(s) => Ahead(s, Head(s), g)
  <2>1. ASSUME NEW g \in Range(s), g # Head(s) PROVE Ahead(s, Head(s), g)
    <3>1. PICK j \in DOMAIN s : s[j] = g
      BY DEF Range
    <3>2. 1 < j
      BY <1>1, <2>1, <3>1
    <3> QED BY <1>1, <3>1, <3>2 DEF Ahead
  <2> QED BY <2>1
<1>3. \A g : ~Ahead(s, g, Head(s))
  <2>1. ASSUME NEW g, Ahead(s, g, Head(s)) PROVE FALSE
    <3>1. PICK i \in DOMAIN s, j \in DOMAIN s : i < j /\ s[i] = g /\ s[j] = Head(s)
      BY <2>1 DEF Ahead
    <3>2. j = 1
      BY <1>1, <3>1 DEF Chain, IsInjective
    <3> QED BY <1>1, <3>1, <3>2
  <2> QED BY <2>1
<1> QED BY <1>1, <1>2, <1>3 DEF Range

(* The empty chain.                                                        *)
LEMMA EmptyChain ==
  ASSUME NEW S
  PROVE  Chain(<<>>, S) /\ Range(<<>>) = {} /\ \A f, g : ~Ahead(<<>>, f, g)
  BY DEF Chain, IsInjective, Range, Ahead

(* Those ahead, by their places.                                           *)
LEMMA AheadBefore ==
  ASSUME NEW S, NEW s, Chain(s, S), NEW h \in Range(s)
  PROVE  \A g : g \in {s[i] : i \in 1..(CHOOSE j \in DOMAIN s : s[j] = h) - 1}
                  <=> Ahead(s, g, h)
<1> DEFINE k == CHOOSE j \in DOMAIN s : s[j] = h
<1>1. DOMAIN s = 1..Len(s) /\ Len(s) \in Nat
  BY DEF Chain
<1>2. k \in DOMAIN s /\ s[k] = h
  BY DEF Range
<1> HIDE DEF k
<1>3. \A j \in DOMAIN s : s[j] = h => j = k
  BY <1>2 DEF Chain, IsInjective
<1>4. ASSUME NEW g PROVE g \in {s[i] : i \in 1..k - 1} <=> Ahead(s, g, h)
  <2>1. ASSUME NEW i \in 1..k - 1, g = s[i] PROVE Ahead(s, g, h)
    BY <1>1, <1>2, <2>1 DEF Ahead
  <2>2. ASSUME Ahead(s, g, h) PROVE \E i \in 1..k - 1 : g = s[i]
    <3>1. PICK i \in DOMAIN s, j \in DOMAIN s : i < j /\ s[i] = g /\ s[j] = h
      BY <2>2 DEF Ahead
    <3>2. j = k
      BY <1>3, <3>1
    <3> QED BY <1>1, <3>1, <3>2
  <2> QED BY <2>1, <2>2
<1> QED BY <1>4 DEF k

(* A finite, non-empty set of integers has a largest and a smallest        *)
(* element: both ends of a queue, the first of some events.                *)
LEMMA EndsExist ==
  ASSUME NEW S, S \subseteq Int, IsFiniteSet(S), S # {}
  PROVE  /\ Max(S) \in S /\ Min(S) \in S
         /\ \A x \in S : Min(S) <= x /\ x <= Max(S)
<1> DEFINE hasEnds(T) ==
      /\ \E x \in T : \A y \in T : x >= y
      /\ \E x \in T : \A y \in T : x <= y
<1> DEFINE Bad == {T \in SUBSET S : T # {} /\ ~hasEnds(T)}
<1> DEFINE R == StrictSubsetOrdering(S)
<1>1. SUBSET S = FiniteSubsetsOf(S)
  BY FS_FiniteSubsetsOfFinite
<1>2. Bad = {}
  <2>1. SUFFICES ASSUME Bad # {} PROVE FALSE
    OBVIOUS
  <2>2. IsWellFoundedOn(R, SUBSET S)
    BY <1>1, FS_StrictSubsetOrderingWellFounded
  <2>3. PICK T \in Bad : \A U \in Bad : <<U, T>> \notin R
    <3> HIDE DEF Bad, R
    <3>1. Bad \subseteq SUBSET S
      BY DEF Bad
    <3> QED BY <2>1, <2>2, <3>1, WFMin
  <2>4. PICK x \in T : TRUE
    OBVIOUS
  <2>5. T \ {x} \notin Bad
    <3>1. T \ {x} \in SUBSET S /\ T \in SUBSET S /\ T \ {x} # T
      OBVIOUS
    <3>2. <<T \ {x}, T>> \in R
      BY <3>1 DEF StrictSubsetOrdering
    <3> QED BY <2>3, <3>2
  <2>6. CASE T \ {x} = {}
    BY <2>6, x \in Int
  <2>7. CASE T \ {x} # {}
    <3>1. PICK a \in T \ {x} : \A y \in T \ {x} : a >= y
      BY <2>5, <2>7
    <3>2. PICK b \in T \ {x} : \A y \in T \ {x} : b <= y
      BY <2>5, <2>7
    <3>3. \E c \in T : \A y \in T : c >= y
      <4>1. CASE x >= a
        BY <3>1, <4>1
      <4>2. CASE a >= x
        BY <3>1, <4>2
      <4> QED BY <4>1, <4>2, <3>1
    <3>4. \E c \in T : \A y \in T : c <= y
      <4>1. CASE x <= b
        BY <3>2, <4>1
      <4>2. CASE b <= x
        BY <3>2, <4>2
      <4> QED BY <4>1, <4>2, <3>2
    <3> QED BY <3>3, <3>4
  <2> QED BY <2>6, <2>7
<1>3. hasEnds(S)
  BY <1>2
<1>4. Max(S) \in S /\ \A x \in S : Max(S) >= x
  BY <1>3 DEF Max
<1>5. Min(S) \in S /\ \A x \in S : Min(S) <= x
  BY <1>3 DEF Min
<1> QED BY <1>4, <1>5

-----------------------------------------------------------------------------
(* Induction over the subsets of a finite set.                             *)
LEMMA FiniteInduction ==
  ASSUME NEW S, IsFiniteSet(S), NEW Good,
         \A T \in SUBSET S : (\A x \in T : T \ {x} \in Good) => T \in Good
  PROVE  SUBSET S \subseteq Good
<1> DEFINE Bad == (SUBSET S) \ Good
           R == StrictSubsetOrdering(S)
<1>1. SUFFICES ASSUME Bad # {} PROVE FALSE
  OBVIOUS
<1>2. IsWellFoundedOn(R, SUBSET S)
  BY FS_FiniteSubsetsOfFinite, FS_StrictSubsetOrderingWellFounded
<1>3. PICK T \in Bad : \A U \in Bad : <<U, T>> \notin R
  <2> HIDE DEF Bad, R
  <2>1. Bad \subseteq SUBSET S
    BY DEF Bad
  <2> QED BY <1>1, <1>2, <2>1, WFMin
<1>4. ASSUME NEW x \in T PROVE T \ {x} \in Good
  <2>1. T \ {x} \in SUBSET S /\ T \in SUBSET S /\ T \ {x} # T
    OBVIOUS
  <2>2. <<T \ {x}, T>> \in R
    BY <2>1 DEF StrictSubsetOrdering
  <2> QED BY <1>3, <2>1, <2>2
<1> QED BY <1>4

(* A fold over a finite set exists: f computes it for every subset, which  *)
(* gives up its elements in the order of the function c.                   *)
Folds(f, S, b, c, g) ==
  f = [T \in SUBSET S |-> IF T = {} THEN b ELSE g[c[T]][f[T \ {c[T]}]]]
Chooses(c, S) == \A T \in SUBSET S : T # {} => c[T] \in T

(* A fold over the subsets of a finite set exists.                         *)
LEMMA FoldExists ==
  ASSUME NEW S, IsFiniteSet(S), NEW c, Chooses(c, S), NEW X, NEW b \in X, NEW g,
         \A x \in S, v \in X : g[x][v] \in X
  PROVE  \E f \in [SUBSET S -> X] : Folds(f, S, b, c, g)
<1> DEFINE Small(n) == {T \in SUBSET S : Cardinality(T) <= n}
           Next(f, T) == IF T = {} THEN b ELSE g[c[T]][f[T \ {c[T]}]]
           Done(f, n) == f \in [Small(n) -> X] /\ \A T \in Small(n) : f[T] = Next(f, T)
           N == Cardinality(S)
           Missing == {n \in 0..N : ~\E f : Done(f, n)}
<1>1. N \in Nat /\ \A T \in SUBSET S : IsFiniteSet(T) /\ Cardinality(T) \in 0..N
  BY FS_CardinalityType, FS_Subset
<1>2. \A T \in SUBSET S : T # {} => Cardinality(T \ {c[T]}) = Cardinality(T) - 1
  BY <1>1, FS_RemoveElement DEF Chooses
<1>3. \E f : Done(f, 0)
  <2> DEFINE f == [T \in Small(0) |-> b]
  <2>1. \A T \in Small(0) : T = {}
    BY <1>1, FS_EmptySet
  <2>2. Done(f, 0)
    BY <2>1
  <2> QED BY <2>2
<1>4. ASSUME NEW n \in 0..N, NEW f, Done(f, n) PROVE \E h : Done(h, n + 1)
  <2> DEFINE h == [T \in Small(n + 1) |-> Next(f, T)]
  <2>1. \A T \in Small(n + 1) : T # {} => c[T] \in S /\ T \ {c[T]} \in Small(n)
    BY <1>1, <1>2 DEF Chooses
  <2>2. \A T \in Small(n + 1) : Next(f, T) \in X
    BY <1>4, <2>1
  <2>3. ASSUME NEW T \in Small(n) PROVE T \in Small(n + 1) /\ h[T] = f[T]
    <3>1. T \in Small(n + 1)
      BY <1>1
    <3>2. h[T] = Next(f, T)
      BY <3>1
    <3> QED BY <1>4, <3>1, <3>2
  <2>4. \A T \in Small(n + 1) : h[T] = Next(h, T)
    BY <2>1, <2>3
  <2>5. h \in [Small(n + 1) -> X]
    BY <2>2
  <2>6. Done(h, n + 1)
    BY <2>4, <2>5
  <2> QED BY <2>6
<1>5. Missing = {}
  <2> HIDE DEF Done
  <2>1. SUFFICES ASSUME Missing # {} PROVE FALSE
    OBVIOUS
  <2>2. IsFiniteSet(Missing) /\ Missing \subseteq Int
    <3>1. Missing \subseteq 0..N /\ 0..N \subseteq Int
      OBVIOUS
    <3>2. IsFiniteSet(0..N)
      BY ONLY <1>1, FS_Interval, N \in Int, 0 \in Int
    <3> HIDE DEF Missing
    <3> QED BY <3>1, <3>2, FS_Subset
  <2> DEFINE m == Min(Missing)
  <2>3. m \in Missing /\ \A n \in Missing : m <= n
    BY <2>1, <2>2, EndsExist
  <2> HIDE DEF m
  <2>4. m # 0 /\ m - 1 \in 0..N /\ m - 1 \notin Missing
    BY <1>1, <1>3, <2>3
  <2>5. PICK f : Done(f, m - 1)
    BY <2>4
  <2>6. \E h : Done(h, m - 1 + 1)
    BY <1>4, <2>4, <2>5
  <2> QED BY <2>3, <2>4, <2>6
<1>6. PICK f : Done(f, N)
  BY <1>1, <1>5
<1>7. Small(N) = SUBSET S
  BY <1>1
<1> QED BY <1>6, <1>7 DEF Folds

(* The total of the weights w of a finite set.                             *)
Total(w, S) == MapThenSumSet(LAMBDA i : w[i], S)

(* A total is such a fold, so it takes its elements one by one.            *)
LEMMA TotalIsFold ==
  ASSUME NEW S, IsFiniteSet(S), NEW w, \A x \in S : w[x] \in Nat
  PROVE  \A T \in SUBSET S :
           /\ Total(w, T) \in Nat
           /\ T = {} => Total(w, T) = 0
           /\ T # {} => \E x \in T : Total(w, T) = w[x] + Total(w, T \ {x})
<1> DEFINE c == [T \in SUBSET S |-> CHOOSE x \in T : TRUE]
           g == [x \in S |-> [v \in Nat |-> w[x] + v]]
           Sums(f, T) == f = [U \in SUBSET T |->
              IF U = {} THEN 0
              ELSE w[CHOOSE x \in U : TRUE] + f[U \ {CHOOSE x \in U : TRUE}]]
<1>1. Chooses(c, S)
  BY DEF Chooses
<1>2. \A x \in S, v \in Nat : g[x][v] \in Nat /\ g[x][v] = w[x] + v
  OBVIOUS
<1>3. PICK f \in [SUBSET S -> Nat] : Folds(f, S, 0, c, g)
  <2> HIDE DEF c, g
  <2> QED BY <1>1, <1>2, FoldExists, 0 \in Nat
<1>4. ASSUME NEW T \in SUBSET S
      PROVE  f[T] = IF T = {} THEN 0
                    ELSE w[CHOOSE x \in T : TRUE] + f[T \ {CHOOSE x \in T : TRUE}]
  <2>1. CASE T = {}
    BY <1>3, <2>1 DEF Folds
  <2>2. CASE T # {}
    <3>1. c[T] = CHOOSE x \in T : TRUE
      OBVIOUS
    <3>2. c[T] \in S /\ T \ {c[T]} \in SUBSET S
      BY <1>1, <2>2 DEF Chooses
    <3>3. f[T] = g[c[T]][f[T \ {c[T]}]]
      BY <1>3, <2>2 DEF Folds
    <3>4. g[c[T]][f[T \ {c[T]}]] = w[c[T]] + f[T \ {c[T]}]
      BY <1>2, <1>3, <3>2
    <3> QED BY <2>2, <3>1, <3>3, <3>4
  <2> QED BY <2>1, <2>2
<1>5. ASSUME NEW T \in SUBSET S PROVE Total(w, T) = f[T]
  <2> DEFINE r == [U \in SUBSET T |-> f[U]]
             h == CHOOSE h : Sums(h, T)
  <2>1. Sums(r, T)
    <3>1. ASSUME NEW U \in SUBSET T
          PROVE  f[U] = IF U = {} THEN 0
                        ELSE w[CHOOSE x \in U : TRUE] + r[U \ {CHOOSE x \in U : TRUE}]
      <4>1. U \in SUBSET S /\ U \ {CHOOSE x \in U : TRUE} \in SUBSET T
        OBVIOUS
      <4> QED BY <1>4, <4>1
    <3> QED BY <3>1
  <2>2. Sums(h, T)
    BY <2>1
  <2>3. Total(w, T) = h[T]
    BY DEF Total, MapThenSumSet, MapThenFoldSet
  <2> DEFINE Good == {U \in SUBSET T : h[U] = f[U]}
  <2>4. ASSUME NEW U \in SUBSET T, \A x \in U : U \ {x} \in Good PROVE U \in Good
    <3>1. h[U] = IF U = {} THEN 0
                 ELSE w[CHOOSE x \in U : TRUE] + h[U \ {CHOOSE x \in U : TRUE}]
      BY <2>2
    <3>2. U # {} => h[U \ {CHOOSE x \in U : TRUE}] = f[U \ {CHOOSE x \in U : TRUE}]
      BY <2>4
    <3>3. h[U] = f[U]
      BY <1>4, <3>1, <3>2
    <3> QED BY <3>3
  <2>5. IsFiniteSet(T)
    BY FS_Subset
  <2>6. T \in Good
    <3> HIDE DEF Good
    <3> QED BY <2>4, <2>5, FiniteInduction
  <2> QED BY <2>3, <2>6
<1>6. ASSUME NEW T \in SUBSET S
      PROVE  /\ f[T] \in Nat
             /\ T = {} => f[T] = 0
             /\ T # {} => \E x \in T : f[T] = w[x] + f[T \ {x}]
  BY <1>3, <1>4
<1>7. \A T \in SUBSET S : \A x \in T : T \ {x} \in SUBSET S
  OBVIOUS
<1> HIDE DEF c, g
<1> QED BY <1>5, <1>6, <1>7

(* Any element may be counted first.                                       *)
LEMMA TotalRemove ==
  ASSUME NEW S, IsFiniteSet(S), NEW w, \A x \in S : w[x] \in Nat
  PROVE  \A x \in S : Total(w, S) = w[x] + Total(w, S \ {x})
<1> DEFINE Good == {T \in SUBSET S : \A x \in T : Total(w, T) = w[x] + Total(w, T \ {x})}
<1>1. ASSUME NEW T \in SUBSET S, \A x \in T : T \ {x} \in Good PROVE T \in Good
  <2>1. ASSUME NEW x \in T PROVE Total(w, T) = w[x] + Total(w, T \ {x})
    <3>1. PICK y \in T : Total(w, T) = w[y] + Total(w, T \ {y})
      BY TotalIsFold
    <3>2. CASE x = y
      BY <3>1, <3>2
    <3>3. CASE x # y
      <4>1. T \ {x} \in Good /\ T \ {y} \in Good /\ y \in T \ {x} /\ x \in T \ {y}
        BY <1>1, <3>3
      <4>2. /\ Total(w, T \ {x}) = w[y] + Total(w, (T \ {x}) \ {y})
            /\ Total(w, T \ {y}) = w[x] + Total(w, (T \ {y}) \ {x})
        BY <4>1
      <4>3. (T \ {x}) \ {y} = (T \ {y}) \ {x}
        OBVIOUS
      <4>4. Total(w, (T \ {x}) \ {y}) \in Nat
        BY TotalIsFold
      <4>5. w[x] \in Nat /\ w[y] \in Nat
        OBVIOUS
      <4> DEFINE a == Total(w, T)
                 b == Total(w, T \ {x})
                 d == Total(w, T \ {y})
                 e == Total(w, (T \ {x}) \ {y})
                 p == w[x]
                 q == w[y]
      <4>6. a = q + d /\ d = p + e /\ b = q + e
        BY <3>1, <4>2, <4>3
      <4>7. p \in Nat /\ q \in Nat /\ e \in Nat
        BY <4>4, <4>5
      <4> HIDE DEF a, b, d, e, p, q
      <4>8. a = p + b
        BY <4>6, <4>7
      <4> QED BY <4>8 DEF a, b, p
    <3> QED BY <3>2, <3>3
  <2> QED BY <2>1
<1>2. S \in Good
  <2> HIDE DEF Good
  <2> QED BY <1>1, FiniteInduction
<1> QED BY <1>2

(* A part weighs no more than the whole.                                   *)
LEMMA TotalOfPart ==
  ASSUME NEW S, IsFiniteSet(S), NEW w, \A x \in S : w[x] \in Nat, NEW P \in SUBSET S
  PROVE  Total(w, P) <= Total(w, S)
<1> DEFINE Good == {T \in SUBSET S : \A U \in SUBSET T : Total(w, U) <= Total(w, T)}
<1>1. ASSUME NEW T \in SUBSET S, \A x \in T : T \ {x} \in Good PROVE T \in Good
  <2>1. ASSUME NEW U \in SUBSET T PROVE Total(w, U) <= Total(w, T)
    <3>1. U \in SUBSET S
      OBVIOUS
    <3>2. Total(w, T) \in Nat /\ Total(w, U) \in Nat
      BY <3>1, TotalIsFold
    <3>3. CASE U = T
      BY <3>2, <3>3
    <3>4. CASE U # T
      <4>1. PICK x \in T : x \notin U
        BY <3>4
      <4>2. U \in SUBSET (T \ {x}) /\ T \ {x} \in SUBSET S
        BY <4>1
      <4>3. Total(w, U) <= Total(w, T \ {x})
        BY <1>1, <4>2
      <4>4. IsFiniteSet(T)
        BY FS_Subset
      <4>5. Total(w, T) = w[x] + Total(w, T \ {x})
        BY <4>4, TotalRemove
      <4>6. Total(w, T \ {x}) \in Nat /\ w[x] \in Nat
        BY <4>2, TotalIsFold
      <4> QED BY <3>2, <4>3, <4>5, <4>6
    <3> QED BY <3>3, <3>4
  <2> QED BY <2>1
<1>2. S \in Good
  <2> HIDE DEF Good
  <2> QED BY <1>1, FiniteInduction
<1> QED BY <1>2
=============================================================================
