----------------------------- MODULE Sums_proofs -----------------------------
(***************************************************************************)
(* What MapThenSumSet and FoldFunction compute, for any finite set.  Both  *)
(* fold by choosing an element, adding it to the sum of the rest: a        *)
(* function that is defined by itself.  Here it is shown to exist, to be   *)
(* the only one, and not to depend on what is chosen.                      *)
(*                                                                         *)
(* The library's induction takes an operator as its parameter; its minimum *)
(* of a well-founded order takes a set, so the proofs are by a smallest    *)
(* counterexample.                                                         *)
(***************************************************************************)
EXTENDS Integers, FiniteSetsExt, FiniteSetTheorems, WellFoundedInduction, TLAPS

Chosen(s) == CHOOSE x \in s : TRUE

\* h sums f over every part of S.
Sums(h, f, S) ==
  h = [s \in SUBSET S |-> IF s = {} THEN 0 ELSE f[Chosen(s)] + h[s \ {Chosen(s)}]]

\* A set of parts of a finite set, if it is not empty, has one without a smaller one.
LEMMA Smallest ==
  ASSUME NEW S, IsFiniteSet(S), NEW T, T \subseteq SUBSET S, T # {}
  PROVE  \E t \in T : \A u \in T : u \subseteq t => u = t
<1>1. T \subseteq FiniteSubsetsOf(S)
  BY FS_Subset DEF FiniteSubsetsOf
<1>2. IsWellFoundedOn(StrictSubsetOrdering(S), FiniteSubsetsOf(S))
  BY FS_StrictSubsetOrderingWellFounded
<1>3. PICK t \in T : \A u \in T : <<u, t>> \notin StrictSubsetOrdering(S)
  BY <1>1, <1>2, WFMin
<1>4. \A u \in T : u \subseteq t => u = t
  BY <1>3 DEF StrictSubsetOrdering
<1>5. QED
  BY <1>4

LEMMA ChosenIn == ASSUME NEW s, s # {} PROVE Chosen(s) \in s
BY DEF Chosen

LEMMA SumsUnique ==
  ASSUME NEW S, IsFiniteSet(S), NEW f, NEW g, NEW h, Sums(g, f, S), Sums(h, f, S)
  PROVE  g = h
<1> DEFINE T == {s \in SUBSET S : g[s] # h[s]}
<1>1. /\ \A s \in SUBSET S : g[s] = IF s = {} THEN 0 ELSE f[Chosen(s)] + g[s \ {Chosen(s)}]
      /\ \A s \in SUBSET S : h[s] = IF s = {} THEN 0 ELSE f[Chosen(s)] + h[s \ {Chosen(s)}]
  BY DEF Sums
<1>2. ASSUME T # {} PROVE FALSE
  <2>1. T \subseteq SUBSET S
    OBVIOUS
  <2> HIDE DEF T
  <2>2. PICK t \in T : \A u \in T : u \subseteq t => u = t
    BY <1>2, <2>1, Smallest
  <2>3. t \subseteq S /\ g[t] # h[t]
    BY <2>2 DEF T
  <2>4. t # {}
    BY <1>1, <2>3
  <2>5. Chosen(t) \in t /\ t \ {Chosen(t)} \subseteq t /\ t \ {Chosen(t)} # t
    BY <2>4, ChosenIn
  <2>6. g[t \ {Chosen(t)}] = h[t \ {Chosen(t)}]
    BY <2>2, <2>3, <2>5 DEF T
  <2>7. QED
    BY <1>1, <2>3, <2>4, <2>6
<1>3. \A s \in SUBSET S : g[s] = h[s]
  BY <1>2
<1>4. QED
  BY <1>3 DEF Sums

\* What sums over S sums over its parts.
LEMMA SumsPart ==
  ASSUME NEW S, NEW f, NEW h, Sums(h, f, S), NEW P, P \subseteq S
  PROVE  Sums([s \in SUBSET P |-> h[s]], f, P)
<1> DEFINE g == [s \in SUBSET P |-> h[s]]
<1>1. \A s \in SUBSET S : h[s] = IF s = {} THEN 0 ELSE f[Chosen(s)] + h[s \ {Chosen(s)}]
  BY DEF Sums
<1>2. \A s \in SUBSET P : s \in SUBSET S /\ s \ {Chosen(s)} \in SUBSET P
  OBVIOUS
<1>3. \A s \in SUBSET P : g[s] = IF s = {} THEN 0 ELSE f[Chosen(s)] + g[s \ {Chosen(s)}]
  BY <1>1, <1>2
<1>4. QED
  BY <1>3 DEF Sums

LEMMA SumsExist ==
  ASSUME NEW S, IsFiniteSet(S), NEW f
  PROVE  \E h : Sums(h, f, S)
<1> DEFINE T == {s \in SUBSET S : ~\E h : Sums(h, f, s)}
<1>1. ASSUME T # {} PROVE FALSE
  <2>1. T \subseteq SUBSET S
    OBVIOUS
  <2> HIDE DEF T
  <2>2. PICK t \in T : \A u \in T : u \subseteq t => u = t
    BY <1>1, <2>1, Smallest
  <2>3. t \subseteq S /\ ~\E h : Sums(h, f, t)
    BY <2>2 DEF T
  <2> DEFINE of == [s \in SUBSET t |-> CHOOSE h : Sums(h, f, s)]
             e == [s \in SUBSET t |-> IF s = {} THEN 0
                                      ELSE f[Chosen(s)] + of[s \ {Chosen(s)}][s \ {Chosen(s)}]]
  <2>4. \A s \in SUBSET t : s # t => Sums(of[s], f, s)
    <3>1. \A s \in SUBSET t : s # t => \E h : Sums(h, f, s)
      BY <2>2, <2>3 DEF T
    <3>2. QED
      BY <3>1
  <2>5. \A s \in SUBSET t : s # {} => s \ {Chosen(s)} \in SUBSET t /\ s \ {Chosen(s)} # t
                                      /\ s \ {Chosen(s)} # s
    BY ChosenIn
  <2>6. /\ DOMAIN e = SUBSET t
        /\ \A s \in SUBSET t : e[s] = IF s = {} THEN 0
                                     ELSE f[Chosen(s)] + of[s \ {Chosen(s)}][s \ {Chosen(s)}]
        /\ e = [s \in SUBSET t |-> e[s]]
    OBVIOUS
  <2> HIDE DEF of, e
  <2>7. ASSUME NEW s \in SUBSET t, s # t
        PROVE  of[s][s] = IF s = {} THEN 0 ELSE f[Chosen(s)] + of[s][s \ {Chosen(s)}]
    <3>1. of[s] = [u \in SUBSET s |-> IF u = {} THEN 0
                                      ELSE f[Chosen(u)] + of[s][u \ {Chosen(u)}]]
      BY <2>4, <2>7 DEF Sums
    <3>2. QED
      BY <3>1
  <2>8. ASSUME NEW s \in SUBSET t, s # t, NEW u \in SUBSET s
        PROVE  of[s][u] = of[u][u]
    <3>1. Sums([v \in SUBSET u |-> of[s][v]], f, u)
      BY <2>4, <2>8, SumsPart
    <3>2. IsFiniteSet(u) /\ Sums(of[u], f, u)
      BY <2>3, <2>4, <2>8, FS_Subset
    <3>3. [v \in SUBSET u |-> of[s][v]] = of[u]
      BY <3>1, <3>2, SumsUnique
    <3>4. QED
      BY <3>3
  <2>9. ASSUME NEW s \in SUBSET t, s # t PROVE e[s] = of[s][s]
    <3>1. CASE s = {}
      BY <2>6, <2>7, <2>9, <3>1
    <3>2. CASE s # {}
      <4>1. of[s][s \ {Chosen(s)}] = of[s \ {Chosen(s)}][s \ {Chosen(s)}]
        BY <2>8, <2>9
      <4>2. QED
        BY <2>6, <2>7, <2>9, <3>2, <4>1
    <3>3. QED
      BY <3>1, <3>2
  <2>10. Sums(e, f, t)
    <3>1. ASSUME NEW s \in SUBSET t
          PROVE  e[s] = IF s = {} THEN 0 ELSE f[Chosen(s)] + e[s \ {Chosen(s)}]
      <4>1. CASE s = {}
        BY <2>6, <4>1
      <4>2. CASE s # {}
        <5>1. e[s \ {Chosen(s)}] = of[s \ {Chosen(s)}][s \ {Chosen(s)}]
          BY <2>5, <2>9, <4>2
        <5>2. QED
          BY <2>6, <4>2, <5>1
      <4>3. QED
        BY <4>1, <4>2
    <3>2. QED
      BY <2>6, <3>1 DEF Sums
  <2>11. QED
    BY <2>3, <2>10
<1>2. QED
  BY <1>1

-----------------------------------------------------------------------------
(* The sum of a function                                                    *)

SumOver(f, S) == (CHOOSE h : Sums(h, f, S))[S]

\* The sum of a part takes the chosen element to the sum of the rest.
LEMMA SumUnfolds ==
  ASSUME NEW S, IsFiniteSet(S), NEW f
  PROVE  SumOver(f, S) = IF S = {} THEN 0 ELSE f[Chosen(S)] + SumOver(f, S \ {Chosen(S)})
<1> DEFINE H(s) == CHOOSE h : Sums(h, f, s)
           R == S \ {Chosen(S)}
<1>1. Sums(H(S), f, S)
  BY SumsExist
<1>2. H(S) = [s \in SUBSET S |-> IF s = {} THEN 0 ELSE f[Chosen(s)] + H(S)[s \ {Chosen(s)}]]
  BY <1>1 DEF Sums
<1>3. IsFiniteSet(R) /\ R \subseteq S
  BY FS_Subset
<1>4. Sums(H(R), f, R)
  BY <1>3, SumsExist
<1>5. Sums([s \in SUBSET R |-> H(S)[s]], f, R)
  BY <1>1, <1>3, SumsPart
<1>6. [s \in SUBSET R |-> H(S)[s]] = H(R)
  BY <1>3, <1>4, <1>5, SumsUnique
<1> HIDE DEF H
<1>7. H(S)[R] = H(R)[R]
  BY <1>6
<1>8. H(S)[S] = IF S = {} THEN 0 ELSE f[Chosen(S)] + H(S)[R]
  BY <1>2
<1>9. QED
  BY <1>7, <1>8 DEF H, SumOver

LEMMA SumInt ==
  ASSUME NEW S, IsFiniteSet(S), NEW f, \A x \in S : f[x] \in Int
  PROVE  SumOver(f, S) \in Int
<1> DEFINE T == {s \in SUBSET S : SumOver(f, s) \notin Int}
<1>1. ASSUME T # {} PROVE FALSE
  <2>1. T \subseteq SUBSET S
    OBVIOUS
  <2> HIDE DEF T
  <2>2. PICK t \in T : \A u \in T : u \subseteq t => u = t
    BY <1>1, <2>1, Smallest
  <2>3. t \subseteq S /\ SumOver(f, t) \notin Int /\ IsFiniteSet(t)
    BY <2>2, FS_Subset DEF T
  <2>4. SumOver(f, t) = IF t = {} THEN 0 ELSE f[Chosen(t)] + SumOver(f, t \ {Chosen(t)})
    BY <2>3, SumUnfolds
  <2>5. t # {} /\ Chosen(t) \in t
    BY <2>3, <2>4, ChosenIn
  <2>6. SumOver(f, t \ {Chosen(t)}) \in Int
    BY <2>2, <2>3, <2>5 DEF T
  <2>7. QED
    BY <2>3, <2>4, <2>5, <2>6
<1>2. QED
  BY <1>1

\* It does not matter which element comes first.
LEMMA SumWithout ==
  ASSUME NEW S, IsFiniteSet(S), NEW f, \A x \in S : f[x] \in Int, NEW x \in S
  PROVE  SumOver(f, S) = f[x] + SumOver(f, S \ {x})
<1> DEFINE T == {s \in SUBSET S : \E z \in s : SumOver(f, s) # f[z] + SumOver(f, s \ {z})}
<1>1. ASSUME T # {} PROVE FALSE
  <2>1. T \subseteq SUBSET S
    OBVIOUS
  <2> HIDE DEF T
  <2>2. PICK t \in T : \A u \in T : u \subseteq t => u = t
    BY <1>1, <2>1, Smallest
  <2>3. t \subseteq S /\ \E z \in t : SumOver(f, t) # f[z] + SumOver(f, t \ {z})
    BY <2>2 DEF T
  <2>0. PICK z \in t : SumOver(f, t) # f[z] + SumOver(f, t \ {z})
    BY <2>3
  <2> DEFINE y == Chosen(t)
             r == t \ {z, y}
  <2>4. \A s \in SUBSET t : IsFiniteSet(s)
    BY <2>3, FS_Subset
  <2>5. y \in t /\ SumOver(f, t) = f[y] + SumOver(f, t \ {y})
    BY <2>3, <2>4, ChosenIn, SumUnfolds
  <2> HIDE DEF y
  <2>6. y # z
    BY <2>0, <2>5
  <2>7. \A s \in SUBSET t : s # t => \A v \in s : SumOver(f, s) = f[v] + SumOver(f, s \ {v})
    BY <2>2, <2>3 DEF T
  <2>8. SumOver(f, t \ {y}) = f[z] + SumOver(f, r)
    <3>1. (t \ {y}) \ {z} = r /\ t \ {y} \in SUBSET t /\ t \ {y} # t /\ z \in t \ {y}
      BY <2>3, <2>5, <2>6
    <3>2. QED
      BY <2>7, <3>1
  <2>9. SumOver(f, t \ {z}) = f[y] + SumOver(f, r)
    <3>1. (t \ {z}) \ {y} = r /\ t \ {z} \in SUBSET t /\ t \ {z} # t /\ y \in t \ {z}
      BY <2>3, <2>5, <2>6
    <3>2. QED
      BY <2>7, <3>1
  <2>10. f[z] \in Int /\ f[y] \in Int /\ SumOver(f, r) \in Int
    <3>1. \A v \in r : f[v] \in Int
      BY <2>3
    <3>2. IsFiniteSet(r)
      BY <2>4
    <3>3. QED
      BY <2>3, <2>5, <3>1, <3>2, SumInt
  <2>11. QED
    BY <2>0, <2>5, <2>8, <2>9, <2>10
<1>2. QED
  BY <1>1

\* The elements that add to a sum and those that take from it
Above(f, S) == {x \in S : f[x] > 0}
Negatives(f, S) == {x \in S : f[x] < 0}

\* One more element with the sign looked for goes into the sum, another does not.
LEMMA SignedStep ==
  ASSUME NEW t, IsFiniteSet(t), NEW f, \A v \in t : f[v] \in Int, NEW x \in t,
         NEW r, r = t \ {x}
  PROVE  /\ SumOver(f, Above(f, t)) = SumOver(f, Above(f, r)) + (IF f[x] > 0 THEN f[x] ELSE 0)
         /\ SumOver(f, Negatives(f, t)) = SumOver(f, Negatives(f, r)) + (IF f[x] < 0 THEN f[x] ELSE 0)
<1>1. /\ \A s \in SUBSET t : IsFiniteSet(s)
      /\ Above(f, t) \in SUBSET t /\ Negatives(f, t) \in SUBSET t
      /\ Above(f, r) \in SUBSET t /\ Negatives(f, r) \in SUBSET t
  BY FS_Subset DEF Above, Negatives
<1>2. \A s \in SUBSET t : SumOver(f, s) \in Int
  BY <1>1, SumInt
<1>3. \A s \in SUBSET t : \A y \in s : SumOver(f, s) = f[y] + SumOver(f, s \ {y})
  BY <1>1, SumWithout
<1>4. CASE f[x] > 0
  <2>0. ~(f[x] < 0)
    BY <1>4
  <2>1. x \in Above(f, t) /\ Above(f, t) \ {x} = Above(f, r)
    BY <1>4 DEF Above
  <2>5. Negatives(f, t) = Negatives(f, r)
    <3>1. \A v : v \in Negatives(f, t) <=> v \in Negatives(f, r)
      BY <2>0 DEF Negatives
    <3>2. QED
      BY <3>1
  <2>2. SumOver(f, Above(f, t)) = f[x] + SumOver(f, Above(f, r))
    <3>1. SumOver(f, Above(f, t)) = f[x] + SumOver(f, Above(f, t) \ {x})
      BY <1>1, <1>3, <2>1
    <3>2. QED
      BY <2>1, <3>1
  <2>3. /\ SumOver(f, Above(f, r)) \in Int /\ SumOver(f, Negatives(f, r)) \in Int
        /\ f[x] \in Int
    BY <1>1, <1>2
  <2>4. QED
    BY <1>4, <2>0, <2>5, <2>2, <2>3
<1>5. CASE f[x] < 0
  <2>0. ~(f[x] > 0)
    BY <1>5
  <2>1. x \in Negatives(f, t) /\ Negatives(f, t) \ {x} = Negatives(f, r) /\ Above(f, t) = Above(f, r)
    BY <1>5, <2>0 DEF Above, Negatives
  <2>2. SumOver(f, Negatives(f, t)) = f[x] + SumOver(f, Negatives(f, r))
    <3>1. SumOver(f, Negatives(f, t)) = f[x] + SumOver(f, Negatives(f, t) \ {x})
      BY <1>1, <1>3, <2>1
    <3>2. QED
      BY <2>1, <3>1
  <2>3. /\ SumOver(f, Above(f, r)) \in Int /\ SumOver(f, Negatives(f, r)) \in Int
        /\ f[x] \in Int
    BY <1>1, <1>2
  <2>4. QED
    BY <1>5, <2>0, <2>1, <2>2, <2>3
<1>6. CASE f[x] = 0
  <2>1. Negatives(f, t) = Negatives(f, r) /\ Above(f, t) = Above(f, r)
    BY <1>6 DEF Above, Negatives
  <2>2. SumOver(f, Above(f, r)) \in Int /\ SumOver(f, Negatives(f, r)) \in Int
    BY <1>1, <1>2
  <2>3. ~(f[x] > 0) /\ ~(f[x] < 0)
    BY <1>6
  <2>4. QED
    BY <2>1, <2>2, <2>3
<1>7. QED
  BY <1>4, <1>5, <1>6

\* The sum of some elements of S lies between the negative and the positive ones of S.
LEMMA SumOfSome ==
  ASSUME NEW S, IsFiniteSet(S), NEW f, \A x \in S : f[x] \in Int, NEW P, P \subseteq S
  PROVE  SumOver(f, P) <= SumOver(f, Above(f, S)) /\ SumOver(f, P) >= SumOver(f, Negatives(f, S))
<1> DEFINE Within(s, t) == /\ SumOver(f, s) <= SumOver(f, Above(f, t))
                           /\ SumOver(f, s) >= SumOver(f, Negatives(f, t))
           T == {t \in SUBSET S : ~\A s \in SUBSET t : Within(s, t)}
<1>1. ASSUME T # {} PROVE FALSE
  <2>1. T \subseteq SUBSET S
    OBVIOUS
  <2> HIDE DEF T
  <2>2. PICK t \in T : \A u \in T : u \subseteq t => u = t
    BY <1>1, <2>1, Smallest
  <2>3. PICK s \in SUBSET t : ~Within(s, t)
    BY <2>2 DEF T
  <2>4. t \subseteq S /\ IsFiniteSet(t) /\ \A v \in t : f[v] \in Int
    BY <2>2, FS_Subset DEF T
  <2>5. \A v \in SUBSET t : SumOver(f, v) \in Int
    BY <2>4, FS_Subset, SumInt
  <2>6. t # {}
    <3>1. ASSUME t = {} PROVE FALSE
      <4>1. s = {} /\ Above(f, t) = {} /\ Negatives(f, t) = {} /\ SumOver(f, {}) \in Int
        BY <2>5, <3>1 DEF Above, Negatives
      <4>2. QED
        BY <2>3, <4>1
    <3>2. QED
      BY <3>1
  <2>7. PICK x \in t : TRUE
    BY <2>6
  <2> DEFINE r == t \ {x}
             b == s \ {x}
  <2>8. Within(b, r)
    <3>1. r \notin T /\ r \in SUBSET S /\ b \in SUBSET r
      BY <2>2, <2>4, <2>7
    <3>2. QED
      BY <3>1 DEF T
  <2>9. /\ SumOver(f, Above(f, t)) = SumOver(f, Above(f, r)) + (IF f[x] > 0 THEN f[x] ELSE 0)
        /\ SumOver(f, Negatives(f, t)) = SumOver(f, Negatives(f, r)) + (IF f[x] < 0 THEN f[x] ELSE 0)
    BY <2>4, <2>7, SignedStep
  <2>10. SumOver(f, s) = SumOver(f, b) + (IF x \in s THEN f[x] ELSE 0)
    <3>1. CASE x \in s
      <4>1. IsFiniteSet(s) /\ \A v \in s : f[v] \in Int
        BY <2>4, FS_Subset
      <4>2. SumOver(f, s) = f[x] + SumOver(f, b) /\ b \in SUBSET t
        BY <3>1, <4>1, SumWithout
      <4>3. QED
        BY <2>4, <2>5, <3>1, <4>2
    <3>2. CASE x \notin s
      <4>1. b = s /\ SumOver(f, s) \in Int
        BY <2>5, <3>2
      <4> HIDE DEF b
      <4>2. QED
        BY <3>2, <4>1
    <3>3. QED
      BY <3>1, <3>2
  <2>11. /\ f[x] \in Int /\ SumOver(f, b) \in Int
         /\ SumOver(f, Above(f, r)) \in Int /\ SumOver(f, Negatives(f, r)) \in Int
    <3>1. b \in SUBSET t /\ Above(f, r) \in SUBSET t /\ Negatives(f, r) \in SUBSET t
      BY DEF Above, Negatives
    <3>2. QED
      BY <2>4, <2>5, <2>7, <3>1
  <2>12. /\ SumOver(f, b) <= SumOver(f, Above(f, r))
         /\ SumOver(f, b) >= SumOver(f, Negatives(f, r))
    BY <2>8
  <2> HIDE DEF r, b
  <2>13. Within(s, t)
    BY <2>9, <2>10, <2>11, <2>12
  <2>14. QED
    BY <2>3, <2>13
<1>2. \A s \in SUBSET S : Within(s, S)
  BY <1>1
<1>3. QED
  BY <1>2
=============================================================================
