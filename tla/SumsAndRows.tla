------------------------------ MODULE SumsAndRows ------------------------------
(***************************************************************************)
(* Lemmas that the proofs share.                                           *)
(*                                                                         *)
(* What SumFunction, of the community module Functions, computes: the sum  *)
(* of the values of a function on a finite set, in whatever order it       *)
(* chooses them.  Induction is used in the form that every non-empty set   *)
(* of numbers, or of finite sets, has a smallest member.                   *)
(*                                                                         *)
(* What keeps the order in a row of sequences that hand their elements on, *)
(* each to the one before it.  The proofs about System see the way of the  *)
(* commands to a worker as a row of queues and buffers.                    *)
(***************************************************************************)
EXTENDS Integers, FiniteSets, Sequences, SequencesExt, FiniteSetTheorems,
        WellFoundedInduction, TLAPS

-----------------------------------------------------------------------------
(* A set of natural numbers has a least member.                            *)
LEMMA LeastNumber ==
    ASSUME NEW T \in SUBSET Nat, T # {}
    PROVE  \E n \in T : \A m \in T : n <= m
<1>1. IsWellFoundedOn(OpToRel(<, Nat), Nat)
  BY NatLessThanWellFounded
<1>2. PICK n \in T : \A m \in T : ~(<<m, n>> \in OpToRel(<, Nat))
  BY <1>1, WFMin
<1>3. \A m \in T : ~(m < n)
  BY <1>2 DEF OpToRel
<1>. QED
  BY <1>3

(* A set of subsets of a finite set has a smallest member.                 *)
LEMMA SmallestSet ==
    ASSUME NEW D, IsFiniteSet(D), NEW T \in SUBSET (SUBSET D), T # {}
    PROVE  \E s \in T : \A r \in T : r \subseteq s => r = s
<1>1. IsWellFoundedOn(StrictSubsetOrdering(D), FiniteSubsetsOf(D))
  BY FS_StrictSubsetOrderingWellFounded
<1>2. T \subseteq FiniteSubsetsOf(D)
  BY FS_FiniteSubsetsOfFinite
<1>3. PICK s \in T : \A r \in T : ~(<<r, s>> \in StrictSubsetOrdering(D))
  BY <1>1, <1>2, WFMin
<1>. QED
  BY <1>3 DEF StrictSubsetOrdering

-----------------------------------------------------------------------------
(***************************************************************************)
(* The sums of f on every set s of its arguments, one chosen after the     *)
(* other.                                                                  *)
(***************************************************************************)
Chosen(s) == CHOOSE x \in s : TRUE

SumStep(f, g, s) == IF s = {} THEN 0 ELSE f[Chosen(s)] + g[s \ {Chosen(s)}]

Partial(f) == CHOOSE g : g = [s \in SUBSET DOMAIN f |-> SumStep(f, g, s)]

(* SumFunction is the last of them.                                        *)
LEMMA SumIsPartial == \A f : SumFunction(f) = Partial(f)[DOMAIN f]
BY DEF SumFunction, SumFunctionOnSet, FoldFunctionOnSet, MapThenFoldSet, Partial, SumStep, Chosen

(* What is chosen is there.                                                *)
LEMMA ChosenIsThere == \A s : s # {} => Chosen(s) \in s
BY DEF Chosen

(* The sums on the sets of up to n arguments.                              *)
UpTo(D, n) == {s \in SUBSET D : Cardinality(s) <= n}

SumsUpTo(f, g, D, n) ==
    /\ g \in [UpTo(D, n) -> Int]
    /\ \A s \in UpTo(D, n) : g[s] = SumStep(f, g, s)

(* They can be defined for any n.                                          *)
LEMMA SumsExist ==
    ASSUME NEW D, IsFiniteSet(D), NEW f \in [D -> Int], NEW n \in Nat
    PROVE  \E g : SumsUpTo(f, g, D, n)
<1>. DEFINE Bad == {m \in Nat : ~\E g : SumsUpTo(f, g, D, m)}
<1>. SUFFICES ASSUME n \in Bad PROVE FALSE
  OBVIOUS
<1>. HIDE DEF Bad
<1>1. PICK m \in Bad : \A k \in Bad : m <= k
  BY LeastNumber DEF Bad
<1>2. m \in Nat /\ ~\E g : SumsUpTo(f, g, D, m)
  BY <1>1 DEF Bad
<1>3. \A s \in SUBSET D : IsFiniteSet(s) /\ Cardinality(s) \in Nat
  BY FS_Subset, FS_CardinalityType
<1>4. ASSUME m = 0 PROVE FALSE
  <2>1. \A s \in UpTo(D, m) : s = {}
    BY <1>3, <1>4, FS_EmptySet DEF UpTo
  <2>2. SumsUpTo(f, [s \in UpTo(D, m) |-> 0], D, m)
    BY <2>1 DEF SumsUpTo, SumStep
  <2>. QED
    BY <1>2, <2>2
<1>5. ASSUME m # 0 PROVE FALSE
  <2>1. m - 1 \in Nat /\ m - 1 \notin Bad
    BY <1>1, <1>2, <1>5
  <2>2. PICK g : SumsUpTo(f, g, D, m - 1)
    BY <2>1 DEF Bad
  <2>3. PICK h : h = [s \in UpTo(D, m) |-> SumStep(f, g, s)]
    OBVIOUS
  <2>4. ASSUME NEW s \in UpTo(D, m), s # {}
        PROVE  Chosen(s) \in D /\ s \ {Chosen(s)} \in UpTo(D, m - 1)
    <3>1. s \in SUBSET D /\ Chosen(s) \in s /\ IsFiniteSet(s) /\ Cardinality(s) <= m
      BY <1>3, <2>4, ChosenIsThere DEF UpTo
    <3>2. Cardinality(s \ {Chosen(s)}) = Cardinality(s) - 1
      BY <3>1, FS_RemoveElement
    <3>. QED
      BY <1>2, <1>3, <3>1, <3>2 DEF UpTo
  <2>5. h \in [UpTo(D, m) -> Int]
    BY <2>2, <2>3, <2>4 DEF SumsUpTo, SumStep
  <2>6. UpTo(D, m - 1) \subseteq UpTo(D, m)
    BY <1>2, <1>3 DEF UpTo
  <2>7. \A s \in UpTo(D, m - 1) : h[s] = g[s]
    BY <2>2, <2>3, <2>6 DEF SumsUpTo
  <2>8. ASSUME NEW s \in UpTo(D, m) PROVE h[s] = SumStep(f, h, s)
    BY <2>3, <2>4, <2>7 DEF SumStep
  <2>. QED
    BY <1>2, <2>5, <2>8 DEF SumsUpTo
<1>. QED
  BY <1>4, <1>5

(* So the partial sums are what their recursive definition says.           *)
LEMMA PartialSums ==
    ASSUME NEW D, IsFiniteSet(D), NEW f \in [D -> Int]
    PROVE  /\ Partial(f) \in [SUBSET D -> Int]
           /\ \A s \in SUBSET D : Partial(f)[s] = SumStep(f, Partial(f), s)
<1>1. Cardinality(D) \in Nat /\ UpTo(D, Cardinality(D)) = SUBSET D
  BY FS_Subset, FS_CardinalityType DEF UpTo
<1>2. PICK g : SumsUpTo(f, g, D, Cardinality(D))
  BY <1>1, SumsExist
<1>3. g = [s \in SUBSET DOMAIN f |-> SumStep(f, g, s)]
  BY <1>1, <1>2 DEF SumsUpTo
<1>4. Partial(f) = [s \in SUBSET DOMAIN f |-> SumStep(f, Partial(f), s)]
  BY <1>3 DEF Partial
<1>5. DOMAIN Partial(f) = SUBSET D /\ \A s \in SUBSET D : Partial(f)[s] = SumStep(f, Partial(f), s)
  BY <1>4
<1>6. \A s \in SUBSET D : Partial(f)[s] \in Int
  <2>. DEFINE Bad == {s \in SUBSET D : Partial(f)[s] \notin Int}
  <2>. SUFFICES ASSUME Bad # {} PROVE FALSE
    OBVIOUS
  <2>0. Bad \in SUBSET (SUBSET D)
    OBVIOUS
  <2>. HIDE DEF Bad
  <2>1. PICK s \in Bad : \A r \in Bad : r \subseteq s => r = s
    BY <2>0, SmallestSet
  <2>2. s # {} /\ Chosen(s) \in s /\ Chosen(s) \in D /\ s \in SUBSET D /\ Partial(f)[s] \notin Int
    BY <1>5, ChosenIsThere DEF SumStep, Bad
  <2>3. Partial(f)[s \ {Chosen(s)}] \in Int
    BY <2>1, <2>2 DEF Bad
  <2>4. f[Chosen(s)] \in Int
    BY <2>2
  <2>. QED
    BY <1>5, <2>2, <2>3, <2>4 DEF SumStep
<1>. QED
  BY <1>4, <1>5, <1>6

(* A partial sum is that of any argument and the others.                   *)
LEMMA AnyFirst ==
    ASSUME NEW D, IsFiniteSet(D), NEW f \in [D -> Int], NEW s \in SUBSET D, NEW x \in s
    PROVE  Partial(f)[s] = f[x] + Partial(f)[s \ {x}]
<1>. DEFINE Bad == {r \in SUBSET D : \E y \in r : Partial(f)[r] # f[y] + Partial(f)[r \ {y}]}
<1>. SUFFICES ASSUME Bad # {} PROVE FALSE
  OBVIOUS
<1>0. Bad \in SUBSET (SUBSET D)
  OBVIOUS
<1>1. ASSUME NEW r \in SUBSET D, r \notin Bad, NEW y \in r
      PROVE  Partial(f)[r] = f[y] + Partial(f)[r \ {y}]
  BY <1>1
<1>2. \A r \in Bad : r \in SUBSET D /\ \E y \in r : Partial(f)[r] # f[y] + Partial(f)[r \ {y}]
  OBVIOUS
<1>. HIDE DEF Bad
<1>3. PICK r \in Bad : \A q \in Bad : q \subseteq r => q = r
  BY <1>0, SmallestSet
<1>4. PICK y \in r : Partial(f)[r] # f[y] + Partial(f)[r \ {y}]
  BY <1>2
<1>5. PICK c : c = Chosen(r)
  OBVIOUS
<1>a. Partial(f) \in [SUBSET D -> Int] /\ \A q \in SUBSET D : Partial(f)[q] = SumStep(f, Partial(f), q)
  BY PartialSums
<1>6. r \in SUBSET D /\ c \in r /\ Partial(f)[r] = f[c] + Partial(f)[r \ {c}]
  <2>1. r \in SUBSET D /\ r # {} /\ c \in r
    BY <1>2, <1>4, <1>5, ChosenIsThere
  <2>. QED
    BY <1>a, <1>5, <2>1 DEF SumStep
<1>7. y # c /\ y \in r \ {c} /\ c \in r \ {y}
  BY <1>4, <1>6
<1>8. r \ {c} \notin Bad /\ r \ {y} \notin Bad
  BY <1>3, <1>4, <1>6
<1>9. Partial(f)[r \ {c}] = f[y] + Partial(f)[(r \ {c}) \ {y}]
  BY <1>1, <1>6, <1>7, <1>8
<1>10. Partial(f)[r \ {y}] = f[c] + Partial(f)[(r \ {y}) \ {c}]
  BY <1>1, <1>6, <1>7, <1>8
<1>11. (r \ {c}) \ {y} = (r \ {y}) \ {c}
  OBVIOUS
<1>12. PICK p \in Int : p = Partial(f)[(r \ {y}) \ {c}]
  <2>1. (r \ {y}) \ {c} \in SUBSET D
    BY <1>6
  <2>. QED
    BY <1>a, <2>1
<1>13. f[c] \in Int /\ f[y] \in Int
  BY <1>4, <1>6
<1>14. Partial(f)[r \ {c}] = f[y] + p /\ Partial(f)[r \ {y}] = f[c] + p
  BY <1>9, <1>10, <1>11, <1>12
<1>15. Partial(f)[r] = f[c] + (f[y] + p) /\ Partial(f)[r] # f[y] + (f[c] + p)
  BY <1>4, <1>6, <1>14
<1>. QED
  BY <1>12, <1>13, <1>15

(* Functions that agree on a set have the same sum on it.                  *)
LEMMA SameOn ==
    ASSUME NEW D, IsFiniteSet(D), NEW f \in [D -> Int],
           NEW E, IsFiniteSet(E), NEW g \in [E -> Int],
           NEW s \in SUBSET (D \cap E), \A x \in s : f[x] = g[x]
    PROVE  Partial(f)[s] = Partial(g)[s]
<1>. DEFINE Bad == {r \in SUBSET s : Partial(f)[r] # Partial(g)[r]}
<1>. SUFFICES ASSUME Bad # {} PROVE FALSE
  OBVIOUS
<1>0. Bad \in SUBSET (SUBSET D)
  OBVIOUS
<1>1. \A r \in SUBSET s : r \in Bad <=> Partial(f)[r] # Partial(g)[r]
  OBVIOUS
<1>2. Bad \subseteq SUBSET s
  OBVIOUS
<1>. HIDE DEF Bad
<1>3. PICK r \in Bad : \A q \in Bad : q \subseteq r => q = r
  BY <1>0, SmallestSet
<1>4. r \in SUBSET s /\ r \in SUBSET D /\ r \in SUBSET E
  BY <1>2
<1>5. /\ Partial(f)[r] = SumStep(f, Partial(f), r)
      /\ Partial(g)[r] = SumStep(g, Partial(g), r)
  BY <1>4, PartialSums, ZenonT(40)
<1>6. r # {} /\ Chosen(r) \in r
  BY <1>1, <1>4, <1>5, ChosenIsThere DEF SumStep
<1>7. Partial(f)[r \ {Chosen(r)}] = Partial(g)[r \ {Chosen(r)}]
  BY <1>1, <1>3, <1>4, <1>6
<1>8. f[Chosen(r)] = g[Chosen(r)]
  BY <1>4, <1>6
<1>. QED
  BY <1>1, <1>4, <1>5, <1>6, <1>7, <1>8 DEF SumStep

-----------------------------------------------------------------------------
(***************************************************************************)
(* The facts about sums.                                                   *)
(***************************************************************************)

(* A sum is a number.                                                      *)
LEMMA SumType ==
    ASSUME NEW D, IsFiniteSet(D), NEW f \in [D -> Int]
    PROVE  SumFunction(f) \in Int
<1>1. Partial(f) \in [SUBSET D -> Int] /\ D \in SUBSET D
  BY PartialSums
<1>. QED
  BY <1>1, SumIsPartial

(* There is no sum of nothing.                                             *)
LEMMA SumOfNothing ==
    ASSUME NEW f \in [{} -> Int]
    PROVE  SumFunction(f) = 0
<1>1. IsFiniteSet({})
  BY FS_EmptySet
<1>. QED
  BY <1>1, SumIsPartial, PartialSums DEF SumStep

(* The sum of one number.                                                  *)
LEMMA SumOfOne ==
    ASSUME NEW x, NEW f \in [{x} -> Int]
    PROVE  SumFunction(f) = f[x]
<1>1. IsFiniteSet({x})
  BY FS_Singleton
<1>2. Partial(f)[{x}] = f[x] + Partial(f)[{x} \ {x}]
  BY <1>1, AnyFirst
<1>3. Partial(f)[{}] = 0
  BY <1>1, PartialSums DEF SumStep
<1>4. {x} \ {x} = {} /\ DOMAIN f = {x} /\ f[x] \in Int
  OBVIOUS
<1>. QED
  BY <1>2, <1>3, <1>4, SumIsPartial

(* An argument more adds its value.                                        *)
LEMMA SumAdds ==
    ASSUME NEW D, IsFiniteSet(D), NEW f \in [D -> Int], NEW x, x \notin D,
           NEW g \in [D \cup {x} -> Int], \A y \in D : g[y] = f[y]
    PROVE  SumFunction(g) = SumFunction(f) + g[x]
<1>1. IsFiniteSet(D \cup {x})
  BY FS_AddElement
<1>2. Partial(g)[D \cup {x}] = g[x] + Partial(g)[(D \cup {x}) \ {x}]
  BY <1>1, AnyFirst
<1>3. (D \cup {x}) \ {x} = D
  OBVIOUS
<1>4. Partial(g)[D] = Partial(f)[D]
  BY <1>1, SameOn
<1>5. Partial(f)[D] \in Int /\ g[x] \in Int
  <2>1. Partial(f) \in [SUBSET D -> Int] /\ D \in SUBSET D
    BY PartialSums
  <2>. QED
    BY <2>1
<1>6. SumFunction(g) = Partial(g)[D \cup {x}] /\ SumFunction(f) = Partial(f)[D]
  BY SumIsPartial
<1>7. Partial(g)[D \cup {x}] = g[x] + Partial(f)[D]
  BY <1>2, <1>3, <1>4
<1>. QED
  BY <1>5, <1>6, <1>7

(* When one value changes, the sum changes as much.                        *)
LEMMA SumChanges ==
    ASSUME NEW D, IsFiniteSet(D), NEW f \in [D -> Int], NEW g \in [D -> Int], NEW x \in D,
           \A y \in D \ {x} : g[y] = f[y]
    PROVE  SumFunction(g) = SumFunction(f) + g[x] - f[x]
<1>1. Partial(g)[D] = g[x] + Partial(g)[D \ {x}] /\ Partial(f)[D] = f[x] + Partial(f)[D \ {x}]
  BY AnyFirst
<1>2. Partial(g)[D \ {x}] = Partial(f)[D \ {x}]
  BY SameOn
<1>3. Partial(f)[D \ {x}] \in Int /\ g[x] \in Int /\ f[x] \in Int
  <2>1. Partial(f) \in [SUBSET D -> Int] /\ D \ {x} \in SUBSET D
    BY PartialSums
  <2>. QED
    BY <2>1
<1>4. SumFunction(g) = Partial(g)[D] /\ SumFunction(f) = Partial(f)[D]
  BY SumIsPartial
<1>. QED
  BY <1>1, <1>2, <1>3, <1>4

(* A sum of zeros is zero.                                                 *)
LEMMA SumOfZeros ==
    ASSUME NEW D, IsFiniteSet(D), NEW f \in [D -> Int], \A x \in D : f[x] = 0
    PROVE  SumFunction(f) = 0
<1>. DEFINE Bad == {r \in SUBSET D : Partial(f)[r] # 0}
<1>. SUFFICES ASSUME Bad # {} PROVE FALSE
  BY SumIsPartial
<1>0. Bad \in SUBSET (SUBSET D) /\ \A r \in SUBSET D : r \in Bad <=> Partial(f)[r] # 0
  OBVIOUS
<1>. HIDE DEF Bad
<1>1. PICK r \in Bad : \A q \in Bad : q \subseteq r => q = r
  BY <1>0, SmallestSet
<1>2. r \in SUBSET D /\ Partial(f)[r] = SumStep(f, Partial(f), r)
  BY <1>0, PartialSums
<1>3. r # {} /\ Chosen(r) \in r /\ Chosen(r) \in D
  BY <1>0, <1>2, ChosenIsThere DEF SumStep
<1>4. Partial(f)[r \ {Chosen(r)}] = 0 /\ f[Chosen(r)] = 0
  BY <1>0, <1>1, <1>2, <1>3
<1>. QED
  BY <1>0, <1>2, <1>3, <1>4 DEF SumStep

(* A function that is nowhere less has no smaller sum.                     *)
LEMMA SumGrows ==
    ASSUME NEW D, IsFiniteSet(D), NEW f \in [D -> Int], NEW g \in [D -> Int],
           \A x \in D : f[x] <= g[x]
    PROVE  SumFunction(f) <= SumFunction(g)
<1>. DEFINE Bad == {r \in SUBSET D : ~(Partial(f)[r] <= Partial(g)[r])}
<1>. SUFFICES ASSUME Bad # {} PROVE FALSE
  BY SumIsPartial
<1>0. /\ Bad \in SUBSET (SUBSET D)
      /\ \A r \in SUBSET D : r \in Bad <=> ~(Partial(f)[r] <= Partial(g)[r])
  OBVIOUS
<1>. HIDE DEF Bad
<1>1. PICK r \in Bad : \A q \in Bad : q \subseteq r => q = r
  BY <1>0, SmallestSet
<1>2. /\ r \in SUBSET D /\ Partial(f)[r] = SumStep(f, Partial(f), r)
      /\ Partial(g)[r] = SumStep(g, Partial(g), r)
  BY <1>0, PartialSums
<1>3. r # {} /\ Chosen(r) \in r /\ Chosen(r) \in D
  BY <1>0, <1>2, ChosenIsThere DEF SumStep
<1>4. PICK p \in Int, q \in Int : p = Partial(f)[r \ {Chosen(r)}] /\ q = Partial(g)[r \ {Chosen(r)}]
  <2>1. /\ Partial(f) \in [SUBSET D -> Int] /\ Partial(g) \in [SUBSET D -> Int]
        /\ r \ {Chosen(r)} \in SUBSET D
    BY <1>2, PartialSums
  <2>. QED
    BY <2>1
<1>5. p <= q
  BY <1>0, <1>1, <1>2, <1>3, <1>4
<1>6. f[Chosen(r)] <= g[Chosen(r)] /\ f[Chosen(r)] \in Int /\ g[Chosen(r)] \in Int
  BY <1>3
<1>. QED
  BY <1>0, <1>2, <1>3, <1>4, <1>5, <1>6 DEF SumStep

(* A sum of numbers that are not negative is at least each one of them.    *)
LEMMA SumAtLeast ==
    ASSUME NEW D, IsFiniteSet(D), NEW f \in [D -> Int], \A x \in D : f[x] >= 0, NEW x \in D
    PROVE  f[x] <= SumFunction(f)
<1>. DEFINE g == [y \in D |-> IF y = x THEN 0 ELSE f[y]]
           z == [y \in D |-> 0]
<1>1. g \in [D -> Int] /\ z \in [D -> Int] /\ g[x] = 0
      /\ (\A y \in D \ {x} : f[y] = g[y]) /\ (\A y \in D : z[y] <= g[y])
      /\ (\A y \in D : z[y] = 0) /\ f[x] \in Int
  OBVIOUS
<1>. HIDE DEF g, z
<1>2. SumFunction(z) = 0 /\ SumFunction(z) <= SumFunction(g) /\ SumFunction(g) \in Int
  BY <1>1, SumOfZeros, SumGrows, SumType
<1>3. SumFunction(f) = SumFunction(g) + f[x] - g[x]
  BY <1>1, SumChanges
<1>. QED
  BY <1>1, <1>2, <1>3

-----------------------------------------------------------------------------
(***************************************************************************)
(* Every element of the sequence is related to those behind it.            *)
(***************************************************************************)
Sorted(s, R) == \A i, j \in 1..Len(s) : i < j => <<s[i], s[j]>> \in R

(***************************************************************************)
(* So is every element of the row to those behind it, in its own sequence  *)
(* or in a later one; and the k-th sequence holds members of F[k].         *)
(***************************************************************************)
Arranged(L, R, F) ==
    \A k \in DOMAIN L :
        /\ Sorted(L[k], R)
        /\ ToSet(L[k]) \subseteq F[k]
        /\ \A l \in DOMAIN L : k < l =>
              \A x \in ToSet(L[k]), y \in ToSet(L[l]) : <<x, y>> \in R

(***************************************************************************)
(* t is s with less at its ends.                                           *)
(***************************************************************************)
PieceOf(t, s) ==
    \E d \in Nat : \A i \in 1..Len(t) : i + d \in 1..Len(s) /\ t[i] = s[i + d]

(***************************************************************************)
(* The steps of a row.  The head of the sequence q moves to the end of the *)
(* one before; all of q does; something new joins the end of p; the head   *)
(* of r is moved to q and copied to p; p goes back to the front of q.      *)
(***************************************************************************)
Besides(L, M, K) == \A k \in DOMAIN L \ K : M[k] = L[k]

MovedHead(L, M, p, q) ==
    /\ q = p + 1 /\ L[q] # << >>
    /\ M[p] = Append(L[p], Head(L[q])) /\ M[q] = Tail(L[q]) /\ Besides(L, M, {p, q})

MovedAll(L, M, p, q) ==
    /\ q = p + 1 /\ L[p] = << >>
    /\ M[p] = L[q] /\ M[q] = << >> /\ Besides(L, M, {p, q})

Joined(L, M, p, c) == M[p] = Append(L[p], c) /\ Besides(L, M, {p})

MayJoin(L, R, p, c) ==
    \A k \in DOMAIN L : \A x \in ToSet(L[k]) :
        (k <= p => <<x, c>> \in R) /\ (p < k => <<c, x>> \in R)

Copied(L, M, p, q, r) ==
    /\ q = p + 1 /\ r = q + 1 /\ L[p] = << >> /\ L[q] = << >> /\ L[r] # << >>
    /\ M[p] = <<Head(L[r])>> /\ M[q] = <<Head(L[r])>> /\ M[r] = Tail(L[r])
    /\ Besides(L, M, {p, q, r})

PutBack(L, M, p, q) ==
    /\ q = p + 1 /\ M[p] = << >> /\ M[q] = L[p] \o L[q] /\ Besides(L, M, {p, q})

(* The elements of a sequence.                                             *)
LEMMA ToSetOf ==
    ASSUME NEW S, NEW s \in Seq(S)
    PROVE  ToSet(s) = {s[i] : i \in 1..Len(s)} /\ ToSet(s) \subseteq S
  BY DEF ToSet

(* A piece of a sorted sequence is sorted.                                 *)
LEMMA PieceSorted ==
    ASSUME NEW S, NEW s \in Seq(S), NEW t \in Seq(S), PieceOf(t, s), NEW R, Sorted(s, R)
    PROVE  Sorted(t, R) /\ ToSet(t) \subseteq ToSet(s)
<1>1. PICK d \in Nat : \A i \in 1..Len(t) : i + d \in 1..Len(s) /\ t[i] = s[i + d]
  BY DEF PieceOf
<1>2. ASSUME NEW i \in 1..Len(t), NEW j \in 1..Len(t), i < j
      PROVE  <<t[i], t[j]>> \in R
  <2>1. i + d < j + d
    BY <1>2
  <2>. QED
    BY <1>1, <2>1 DEF Sorted
<1>3. ToSet(t) \subseteq ToSet(s)
  BY <1>1, ToSetOf
<1>. QED
  BY <1>2, <1>3 DEF Sorted

(* So is a sequence that grows by an element all others may precede.       *)
LEMMA AppendSorted ==
    ASSUME NEW S, NEW s \in Seq(S), NEW c \in S, NEW R, Sorted(s, R),
           \A x \in ToSet(s) : <<x, c>> \in R
    PROVE  Sorted(Append(s, c), R)
<1>1. Len(s) \in Nat
  OBVIOUS
<1>2. ASSUME NEW i \in 1..Len(s) + 1, NEW j \in 1..Len(s) + 1, i < j
      PROVE  <<Append(s, c)[i], Append(s, c)[j]>> \in R
  <2>1. i \in 1..Len(s) /\ Append(s, c)[i] = s[i] /\ s[i] \in ToSet(s)
    BY <1>1, <1>2, ToSetOf
  <2>2. CASE j = Len(s) + 1
    BY <2>1, <2>2, <1>1
  <2>3. CASE j \in 1..Len(s)
    <3>1. Append(s, c)[j] = s[j]
      BY <2>3
    <3>. QED
    BY <2>1, <2>3, <3>1, <1>2 DEF Sorted
  <2>. QED
    BY <2>2, <2>3, <1>1
<1>. QED
  BY <1>2, <1>1 DEF Sorted

(* The elements of a sequence that grows.                                  *)
LEMMA AppendToSet ==
    ASSUME NEW S, NEW s \in Seq(S), NEW c \in S
    PROVE  ToSet(Append(s, c)) = ToSet(s) \cup {c}
<1>. Append(s, c) \in Seq(S) /\ Len(Append(s, c)) = Len(s) + 1 /\ Len(s) \in Nat
  OBVIOUS
<1>. DEFINE a == Append(s, c)
<1>1. (\A i \in 1..Len(s) : a[i] = s[i]) /\ a[Len(s) + 1] = c
  OBVIOUS
<1>2. ToSet(a) = {a[i] : i \in 1..Len(s) + 1} /\ ToSet(s) = {s[i] : i \in 1..Len(s)}
  BY ToSetOf
<1>. HIDE DEF a
<1>3. ASSUME NEW i \in 1..Len(s) + 1 PROVE a[i] \in ToSet(s) \cup {c}
  BY <1>1, <1>2
<1>4. ASSUME NEW i \in 1..Len(s) PROVE s[i] \in ToSet(a)
  BY <1>1, <1>2
<1>5. c \in ToSet(a)
  BY <1>1, <1>2
<1>. QED
  BY <1>2, <1>3, <1>4, <1>5 DEF a

(* The head of a sorted sequence is related to all elements of its tail.   *)
LEMMA TailSorted ==
    ASSUME NEW S, NEW s \in Seq(S), s # << >>, NEW R, Sorted(s, R)
    PROVE  /\ Head(s) \in ToSet(s)
           /\ \A x \in ToSet(Tail(s)) : <<Head(s), x>> \in R
<1>. DEFINE t == Tail(s)
<1>1. /\ t \in Seq(S) /\ Len(t) = Len(s) - 1 /\ Len(s) \in Nat \ {0} /\ Head(s) = s[1]
      /\ \A i \in 1..Len(t) : t[i] = s[i + 1]
  OBVIOUS
<1>. HIDE DEF t
<1>2. ASSUME NEW i \in 1..Len(t) PROVE <<s[1], t[i]>> \in R
  <2>1. i + 1 \in 1..Len(s) /\ 1 < i + 1 /\ 1 \in 1..Len(s)
    BY <1>1
  <2>. QED
    BY <1>1, <2>1 DEF Sorted
<1>3. ToSet(t) = {t[i] : i \in 1..Len(t)} /\ s[1] \in ToSet(s)
  BY <1>1, ToSetOf
<1>. QED
  BY <1>1, <1>2, <1>3 DEF t

(* The tail is a piece.                                                    *)
LEMMA TailPiece ==
    ASSUME NEW S, NEW s \in Seq(S), s # << >>
    PROVE  Tail(s) \in Seq(S) /\ PieceOf(Tail(s), s)
<1>. DEFINE t == Tail(s)
<1>1. /\ t \in Seq(S) /\ Len(t) = Len(s) - 1 /\ Len(s) \in Nat \ {0} 
      /\ \A i \in 1..Len(t) : t[i] = s[i + 1]
  OBVIOUS
<1>. HIDE DEF t
<1>2. \A i \in 1..Len(t) : i + 1 \in 1..Len(s) /\ t[i] = s[i + 1]
  BY <1>1
<1>3. PieceOf(t, s)
  BY <1>2 DEF PieceOf
<1>. QED
  BY <1>1, <1>3 DEF t


(* The elements of a tail, and the head, are elements.                     *)
LEMMA HeadTailIn ==
    ASSUME NEW S, NEW s \in Seq(S), s # << >>
    PROVE  Head(s) \in ToSet(s) /\ ToSet(Tail(s)) \subseteq ToSet(s)
<1>1. Sorted(s, S \X S)
  <2>1. \A i \in 1..Len(s) : s[i] \in S
    OBVIOUS
  <2>. QED
    BY <2>1 DEF Sorted
<1>2. Tail(s) \in Seq(S) /\ PieceOf(Tail(s), s)
  BY TailPiece
<1>. QED
  BY <1>1, <1>2, TailSorted, PieceSorted

(* A suffix is a piece.                                                    *)
LEMMA SuffixPiece ==
    ASSUME NEW S, NEW s \in Seq(S), NEW n \in 0..Len(s)
    PROVE  PieceOf(SubSeq(s, n + 1, Len(s)), s)
<1>. DEFINE t == SubSeq(s, n + 1, Len(s))
<1>1. /\ Len(t) = Len(s) - n /\ Len(s) \in Nat
      /\ \A i \in 1..Len(t) : t[i] = s[i + n]
  OBVIOUS
<1>. HIDE DEF t
<1>2. n \in Nat /\ \A i \in 1..Len(t) : i + n \in 1..Len(s) /\ t[i] = s[i + n]
  BY <1>1
<1>. QED
  BY <1>2 DEF PieceOf, t

(* The empty sequence is a piece of every sequence.                        *)
LEMMA EmptyPiece == ASSUME NEW s PROVE PieceOf(<< >>, s)
BY DEF PieceOf

(* Every sequence is a piece of itself.                                    *)
LEMMA SamePiece == ASSUME NEW S, NEW s \in Seq(S) PROVE PieceOf(s, s)
<1>1. \A i \in 1..Len(s) : i + 0 \in 1..Len(s) /\ s[i] = s[i + 0]
  OBVIOUS
<1>. QED
  BY <1>1 DEF PieceOf

(* The empty sequence is sorted.                                           *)
LEMMA EmptySorted == ASSUME NEW R PROVE Sorted(<< >>, R) /\ ToSet(<< >>) = {}
BY DEF Sorted, ToSet

(* Two sorted sequences make one, when the first may precede the second.   *)
LEMMA ConcatSorted ==
    ASSUME NEW S, NEW s \in Seq(S), NEW t \in Seq(S), NEW R, Sorted(s, R), Sorted(t, R),
           \A x \in ToSet(s), y \in ToSet(t) : <<x, y>> \in R
    PROVE  Sorted(s \o t, R) /\ ToSet(s \o t) \subseteq ToSet(s) \cup ToSet(t)
<1>. DEFINE u == s \o t
<1>1. /\ u \in Seq(S) /\ Len(s) \in Nat /\ Len(t) \in Nat /\ Len(u) = Len(s) + Len(t)
      /\ \A i \in 1..Len(u) : u[i] = IF i <= Len(s) THEN s[i] ELSE t[i - Len(s)]
  OBVIOUS
<1>. HIDE DEF u
<1>2. \A i \in 1..Len(u) :
         \/ i \in 1..Len(s) /\ u[i] = s[i] /\ s[i] \in ToSet(s)
         \/ /\ i > Len(s) /\ i - Len(s) \in 1..Len(t) /\ u[i] = t[i - Len(s)]
            /\ t[i - Len(s)] \in ToSet(t)
  BY <1>1, ToSetOf
<1>3. ASSUME NEW i \in 1..Len(u), NEW j \in 1..Len(u), i < j
      PROVE  <<u[i], u[j]>> \in R
  <2>1. CASE j \in 1..Len(s)
    BY <2>1, <1>2, <1>3, <1>1, SMTT(30) DEF Sorted
  <2>2. CASE i > Len(s)
    <3>0. j > Len(s) /\ ~(i \in 1..Len(s)) /\ ~(j \in 1..Len(s))
      BY <1>1, <1>3, <2>2
    <3>1. PICK a \in 1..Len(t) : a = i - Len(s) /\ u[i] = t[a]
      BY <1>2, <3>0
    <3>2. PICK b \in 1..Len(t) : b = j - Len(s) /\ u[j] = t[b]
      BY <1>2, <3>0
    <3>3. a < b
      BY <3>1, <3>2, <1>1, <1>3
    <3>. QED
      BY <3>1, <3>2, <3>3 DEF Sorted
  <2>3. CASE i \in 1..Len(s) /\ j > Len(s)
    BY <2>3, <1>2
  <2>. QED
    BY <2>1, <2>2, <2>3, <1>1
<1>4. ToSet(u) = {u[i] : i \in 1..Len(u)}
  BY <1>1, ToSetOf
<1>5. ToSet(u) \subseteq ToSet(s) \cup ToSet(t)
  BY <1>4, <1>2
<1>. QED
  BY <1>3, <1>5 DEF Sorted, u

(* A sequence of one element is sorted.                                    *)
LEMMA OneSorted ==
    ASSUME NEW c, NEW R PROVE Sorted(<<c>>, R) /\ ToSet(<<c>>) = {c}
BY DEF Sorted, ToSet

(* Two places of a row that follow each other.                             *)
LEMMA Neighbours ==
    ASSUME NEW K \in SUBSET Int, NEW p \in K, NEW q \in K, q = p + 1
    PROVE  /\ p < q
           /\ \A k \in K : /\ k < p => k < q
                           /\ q < k => p < k
                           /\ k < q => k = p \/ k < p
                           /\ p < k => k = q \/ q < k
OBVIOUS

(* What an arranged row says of each sequence, and of each two.            *)
LEMMA ArrangedAt ==
    ASSUME NEW S, NEW R, NEW K \in SUBSET Int, NEW F, NEW L \in [K -> Seq(S)], Arranged(L, R, F)
    PROVE  /\ \A k \in K : L[k] \in Seq(S) /\ Sorted(L[k], R) /\ ToSet(L[k]) \subseteq F[k]
           /\ \A k, l \in K : \A x \in ToSet(L[k]), y \in ToSet(L[l]) : k < l => <<x, y>> \in R
BY DEF Arranged

(* A row that loses elements at the ends of its sequences stays arranged.  *)
LEMMA ArrangedParts ==
    ASSUME NEW S, NEW R, NEW K \in SUBSET Int, NEW F,
           NEW L \in [K -> Seq(S)], NEW M \in [K -> Seq(S)],
           Arranged(L, R, F), \A k \in K : PieceOf(M[k], L[k])
    PROVE  Arranged(M, R, F)
<1>1. ASSUME NEW k \in K
      PROVE  Sorted(M[k], R) /\ ToSet(M[k]) \subseteq ToSet(L[k])
  BY PieceSorted DEF Arranged
<1>. QED
  BY <1>1 DEF Arranged

(* So does one where a head moves to the end of the sequence before...     *)
LEMMA ArrangedMove ==
    ASSUME NEW S, NEW R, NEW K \in SUBSET Int, NEW F,
           NEW L \in [K -> Seq(S)], NEW M \in [K -> Seq(S)],
           Arranged(L, R, F), NEW p \in K, NEW q \in K, MovedHead(L, M, p, q),
           Head(L[q]) \in F[p]
    PROVE  Arranged(M, R, F)
<1>. USE DEF MovedHead, Besides
<1>a. /\ \A k \in K : L[k] \in Seq(S) /\ Sorted(L[k], R) /\ ToSet(L[k]) \subseteq F[k]
      /\ \A k, l \in K : \A x \in ToSet(L[k]), y \in ToSet(L[l]) : k < l => <<x, y>> \in R
  BY ArrangedAt
<1>n. /\ p < q
      /\ \A k \in K : /\ q < k => p < k /\ k # p
                      /\ p < k => k = q \/ q < k
                      /\ k < p => k < q /\ k # p
  BY Neighbours
<1>m. p < q
  BY <1>n
<1>0. L[p] \in Seq(S) /\ L[q] \in Seq(S) /\ p < q /\ Head(L[q]) \in S
  <2>1. L[p] \in Seq(S) /\ L[q] \in Seq(S) /\ L[q] # << >>
    OBVIOUS
  <2>2. Head(L[q]) \in S
    BY <2>1
  <2>. QED
    BY <2>1, <2>2, <1>m
<1>1. Head(L[q]) \in ToSet(L[q])
  BY <1>0, TailSorted, <1>a
<1>b. \A x \in ToSet(L[p]) : <<x, Head(L[q])>> \in R
  BY <1>0, <1>1, <1>a
<1>2. Sorted(M[p], R) /\ ToSet(M[p]) = ToSet(L[p]) \cup {Head(L[q])}
  <2>1. Sorted(M[p], R)
    BY <1>0, <1>b, AppendSorted, <1>a
  <2>. QED
    BY <2>1, <1>0, AppendToSet
<1>3. Sorted(M[q], R) /\ ToSet(M[q]) \subseteq ToSet(L[q])
  BY <1>0, TailPiece, PieceSorted, <1>a, ZenonT(40)
<1>4. \A x \in ToSet(M[q]) : <<Head(L[q]), x>> \in R
  BY <1>0, TailSorted, <1>a
<1>5. ASSUME NEW k \in K, NEW l \in K, k < l,
             NEW x \in ToSet(M[k]), NEW y \in ToSet(M[l])
      PROVE  <<x, y>> \in R
  <2>1. x \in ToSet(L[k]) \/ (k = p /\ x = Head(L[q]))
    BY <1>2, <1>3
  <2>2. y \in ToSet(L[l]) \/ (l = p /\ y = Head(L[q]))
    BY <1>2, <1>3
  <2>3. CASE x \in ToSet(L[k]) /\ y \in ToSet(L[l])
    BY <2>3, <1>5, <1>a
  <2>4. CASE k = p /\ x = Head(L[q])
    <3>1. CASE l = q
      BY <3>1, <2>4, <1>4
    <3>2. CASE q < l
      <4>1. y \in ToSet(L[l])
        BY <3>2, <2>2, <1>n
      <4>. QED
        BY <4>1, <3>2, <2>4, <1>1, <1>a
    <3>3. l = q \/ q < l
      BY <2>4, <1>5, <1>n
    <3>. QED
      BY <3>1, <3>2, <3>3
  <2>5. CASE l = p /\ y = Head(L[q])
    <3>1. k < q /\ x \in ToSet(L[k])
      BY <2>5, <2>1, <1>5, <1>n
    <3>. QED
      BY <3>1, <2>5, <1>1, <1>a
  <2>. QED
    BY <2>1, <2>2, <2>3, <2>4, <2>5
<1>6. ASSUME NEW k \in K PROVE Sorted(M[k], R) /\ ToSet(M[k]) \subseteq F[k]
  <2>1. CASE k = p
    BY <2>1, <1>2, <1>a
  <2>2. CASE k = q
    BY <2>2, <1>3, <1>a
  <2>3. CASE k \notin {p, q}
    BY <2>3, <1>a
  <2>. QED
    BY <2>1, <2>2, <2>3
<1>. QED
  BY <1>5, <1>6 DEF Arranged

(* ... or a whole sequence does, when the one before is empty.             *)
LEMMA ArrangedMoveAll ==
    ASSUME NEW S, NEW R, NEW K \in SUBSET Int, NEW F,
           NEW L \in [K -> Seq(S)], NEW M \in [K -> Seq(S)],
           Arranged(L, R, F), NEW p \in K, NEW q \in K, MovedAll(L, M, p, q),
           F[q] \subseteq F[p]
    PROVE  Arranged(M, R, F)
<1>. USE DEF MovedAll, Besides
<1>a. /\ \A k \in K : L[k] \in Seq(S) /\ Sorted(L[k], R) /\ ToSet(L[k]) \subseteq F[k]
      /\ \A k, l \in K : \A x \in ToSet(L[k]), y \in ToSet(L[l]) : k < l => <<x, y>> \in R
  BY ArrangedAt
<1>1. ASSUME NEW k \in K PROVE Sorted(M[k], R) /\ ToSet(M[k]) \subseteq F[k]
  <2>1. CASE k = p
    BY <2>1, <1>a
  <2>2. CASE k = q
    BY <2>2, EmptySorted
  <2>3. CASE k \notin {p, q}
    BY <2>3, <1>a
  <2>. QED
    BY <2>1, <2>2, <2>3
<1>2. ASSUME NEW k \in K, NEW l \in K, k < l,
             NEW x \in ToSet(M[k]), NEW y \in ToSet(M[l])
      PROVE  <<x, y>> \in R
  <2>1. k # q /\ l # q
    BY EmptySorted
  <2>2. CASE k = p
    BY <2>1, <2>2, <1>2, <1>a
  <2>3. CASE l = p
    BY <2>1, <2>3, <1>2, <1>a
  <2>4. CASE k # p /\ l # p
    BY <2>1, <2>4, <1>2, <1>a
  <2>. QED
    BY <2>2, <2>3, <2>4
<1>. QED
  BY <1>1, <1>2 DEF Arranged

(* An element may join a sequence where its relations allow it.            *)
LEMMA ArrangedAppend ==
    ASSUME NEW S, NEW R, NEW K \in SUBSET Int, NEW F,
           NEW L \in [K -> Seq(S)], NEW M \in [K -> Seq(S)],
           Arranged(L, R, F), NEW c \in S, NEW p \in K, c \in F[p],
           Joined(L, M, p, c),
           MayJoin(L, R, p, c)
    PROVE  Arranged(M, R, F)
<1>. USE DEF Joined, MayJoin, Besides
<1>a. /\ \A k \in K : L[k] \in Seq(S) /\ Sorted(L[k], R) /\ ToSet(L[k]) \subseteq F[k]
      /\ \A k, l \in K : \A x \in ToSet(L[k]), y \in ToSet(L[l]) : k < l => <<x, y>> \in R
  BY ArrangedAt
<1>0. L[p] \in Seq(S)
  OBVIOUS
<1>1. Sorted(M[p], R) /\ ToSet(M[p]) = ToSet(L[p]) \cup {c}
  <2>0. p <= p
    OBVIOUS
  <2>1. \A x \in ToSet(L[p]) : <<x, c>> \in R
    BY <2>0
  <2>2. Sorted(Append(L[p], c), R)
    BY <1>0, <2>1, AppendSorted, <1>a
  <2>. QED
    BY <2>2, <1>0, AppendToSet
<1>2. ASSUME NEW k \in K PROVE Sorted(M[k], R) /\ ToSet(M[k]) \subseteq F[k]
  BY <1>1, <1>a
<1>3. ASSUME NEW k \in K, NEW l \in K, k < l,
             NEW x \in ToSet(M[k]), NEW y \in ToSet(M[l])
      PROVE  <<x, y>> \in R
  <2>1. x \in ToSet(L[k]) \/ (k = p /\ x = c)
    BY <1>1
  <2>2. y \in ToSet(L[l]) \/ (l = p /\ y = c)
    BY <1>1
  <2>3. CASE x \in ToSet(L[k]) /\ y \in ToSet(L[l])
    BY <2>3, <1>3, <1>a
  <2>4. CASE k = p /\ x = c
    <3>1. y \in ToSet(L[l]) /\ p < l
      BY <2>4, <2>2, <1>3
    <3>. QED
      BY <3>1, <2>4
  <2>5. CASE l = p /\ y = c
    <3>1. x \in ToSet(L[k]) /\ k <= p
      BY <2>5, <2>1, <1>3
    <3>. QED
      BY <3>1, <2>5
  <2>. QED
    BY <2>1, <2>2, <2>3, <2>4, <2>5
<1>. QED
  BY <1>2, <1>3 DEF Arranged

(* A head may move to both of the two places before, when they are empty.  *)
LEMMA ArrangedDeliver ==
    ASSUME NEW S, NEW R, NEW K \in SUBSET Int, NEW F,
           NEW L \in [K -> Seq(S)], NEW M \in [K -> Seq(S)],
           Arranged(L, R, F), NEW p \in K, NEW q \in K, NEW r \in K,
           Copied(L, M, p, q, r),
           Head(L[r]) \in F[p] \cap F[q], <<Head(L[r]), Head(L[r])>> \in R
    PROVE  Arranged(M, R, F)
<1>. USE DEF Copied, Besides
<1>a. /\ \A k \in K : L[k] \in Seq(S) /\ Sorted(L[k], R) /\ ToSet(L[k]) \subseteq F[k]
      /\ \A k, l \in K : \A x \in ToSet(L[k]), y \in ToSet(L[l]) : k < l => <<x, y>> \in R
  BY ArrangedAt
<1>0. L[r] \in Seq(S) /\ p < q /\ q < r /\ p < r
  <2>1. p < q /\ q < r /\ p < r
    BY Neighbours
  <2>. QED
    BY <2>1
<1>n. \A k \in K : /\ p < k => k = q \/ q < k
                   /\ q < k => k = r \/ r < k
                   /\ k < p => k < q
                   /\ k < q => k < r
  BY Neighbours
<1>. DEFINE h == Head(L[r])
<1>1. h \in ToSet(L[r]) /\ \A x \in ToSet(M[r]) : <<h, x>> \in R
  BY <1>0, TailSorted, <1>a
<1>2. Sorted(M[r], R) /\ ToSet(M[r]) \subseteq ToSet(L[r])
  <2>1. Tail(L[r]) \in Seq(S) /\ PieceOf(Tail(L[r]), L[r])
    BY <1>0, TailPiece
  <2>2. Sorted(L[r], R)
    BY <1>a
  <2>3. Sorted(Tail(L[r]), R) /\ ToSet(Tail(L[r])) \subseteq ToSet(L[r])
    BY <1>0, <2>1, <2>2, PieceSorted
  <2>. QED
    BY <2>3
<1>. HIDE DEF h
<1>3. M[p] = <<h>> /\ M[q] = <<h>> /\ h \in F[p] \cap F[q] /\ <<h, h>> \in R
  BY DEF h
<1>4. ToSet(M[p]) = {h} /\ ToSet(M[q]) = {h} /\ Sorted(M[p], R) /\ Sorted(M[q], R)
  <2>1. Sorted(<<h>>, R) /\ ToSet(<<h>>) = {h}
    BY OneSorted
  <2>. QED
    BY <2>1, <1>3
<1>5. ASSUME NEW k \in K PROVE Sorted(M[k], R) /\ ToSet(M[k]) \subseteq F[k]
  <2>1. CASE k \in {p, q}
    BY <2>1, <1>4, <1>3
  <2>2. CASE k = r
    BY <2>2, <1>2, <1>a
  <2>3. CASE k \notin {p, q, r}
    BY <2>3, <1>a
  <2>. QED
    BY <2>1, <2>2, <2>3
<1>6. ASSUME NEW k \in K, NEW l \in K, k < l,
             NEW x \in ToSet(M[k]), NEW y \in ToSet(M[l])
      PROVE  <<x, y>> \in R
  <2>1. x \in ToSet(L[k]) \/ (k \in {p, q} /\ x = h)
    BY <1>2, <1>4
  <2>2. y \in ToSet(L[l]) \/ (l \in {p, q} /\ y = h)
    BY <1>2, <1>4
  <2>3. CASE x \in ToSet(L[k]) /\ y \in ToSet(L[l])
    BY <2>3, <1>6, <1>a
  <2>4. CASE k \in {p, q} /\ x = h
    <3>1. CASE l \in {p, q}
      BY <3>1, <2>4, <1>3, <1>4
    <3>2. CASE l = r
      BY <3>2, <2>4, <1>1
    <3>3. CASE r < l
      <4>0. l # r
        BY <3>3
      <4>1. l \notin {p, q}
        BY <3>3, <1>0, <4>0
      <4>2. y \in ToSet(L[l])
        BY <2>2, <4>1
      <4>. QED
        BY <4>2, <3>3, <2>4, <1>1, <1>a
    <3>4. p < l => l = q \/ l = r \/ r < l
      BY <1>n
    <3>5. q < l => l = r \/ r < l
      BY <1>n
    <3>6. k = p \/ k = q
      BY <2>4
    <3>7. CASE k = p
      BY <1>6, <3>7, <3>4, <3>1, <3>2, <3>3
    <3>8. CASE k = q
      BY <1>6, <3>8, <3>5, <3>2, <3>3
    <3>. QED
      BY <3>6, <3>7, <3>8
  <2>5. CASE l \in {p, q} /\ y = h /\ x \in ToSet(L[k])
    <3>0. (k < p => k < r) /\ (k < q => k < r)
      BY <1>n
    <3>1. k < r
      BY <2>5, <1>6, <3>0
    <3>. QED
      BY <3>1, <2>5, <1>1, <1>a
  <2>. QED
    BY <2>1, <2>2, <2>3, <2>4, <2>5
<1>. QED
  BY <1>5, <1>6 DEF Arranged

(* A sequence may be put back in front of the next one.                    *)
LEMMA ArrangedBack ==
    ASSUME NEW S, NEW R, NEW K \in SUBSET Int, NEW F,
           NEW L \in [K -> Seq(S)], NEW M \in [K -> Seq(S)],
           Arranged(L, R, F), NEW p \in K, NEW q \in K, PutBack(L, M, p, q),
           F[p] \subseteq F[q]
    PROVE  Arranged(M, R, F)
<1>. USE DEF PutBack, Besides
<1>a. /\ \A k \in K : L[k] \in Seq(S) /\ Sorted(L[k], R) /\ ToSet(L[k]) \subseteq F[k]
      /\ \A k, l \in K : \A x \in ToSet(L[k]), y \in ToSet(L[l]) : k < l => <<x, y>> \in R
  BY ArrangedAt
<1>0. L[p] \in Seq(S) /\ L[q] \in Seq(S) /\ p < q
  OBVIOUS
<1>1. Sorted(M[q], R) /\ ToSet(M[q]) \subseteq ToSet(L[p]) \cup ToSet(L[q])
  <2>1. Sorted(L[p], R) /\ Sorted(L[q], R)
    BY <1>a
  <2>2. \A x \in ToSet(L[p]), y \in ToSet(L[q]) : <<x, y>> \in R
    BY <1>0, <1>a
  <2>3. /\ Sorted(L[p] \o L[q], R)
        /\ ToSet(L[p] \o L[q]) \subseteq ToSet(L[p]) \cup ToSet(L[q])
    BY <1>0, <2>1, <2>2, ConcatSorted
  <2>. QED
    BY <2>3
<1>2. Sorted(M[p], R) /\ ToSet(M[p]) = {}
  BY EmptySorted
<1>3. ASSUME NEW k \in K PROVE Sorted(M[k], R) /\ ToSet(M[k]) \subseteq F[k]
  <2>1. CASE k = p
    BY <2>1, <1>2
  <2>2. CASE k = q
    BY <2>2, <1>1, <1>a
  <2>3. CASE k \notin {p, q}
    BY <2>3, <1>a
  <2>. QED
    BY <2>1, <2>2, <2>3
<1>4. ASSUME NEW k \in K, NEW l \in K, k < l,
             NEW x \in ToSet(M[k]), NEW y \in ToSet(M[l])
      PROVE  <<x, y>> \in R
  <2>1. k # p /\ l # p
    BY <1>2
  <2>2. x \in ToSet(L[k]) \/ (k = q /\ x \in ToSet(L[p]))
    BY <1>1, <2>1
  <2>3. y \in ToSet(L[l]) \/ (l = q /\ y \in ToSet(L[p]))
    BY <1>1, <2>1
  <2>4. CASE k = q
    <3>1. y \in ToSet(L[l]) /\ p < l /\ q < l
      BY <2>3, <2>4, <1>4, Neighbours
    <3>2. x \in ToSet(L[p]) \/ x \in ToSet(L[q])
      BY <2>2, <2>4
    <3>. QED
      BY <3>1, <3>2, <1>a
  <2>5. CASE l = q
    <3>1. x \in ToSet(L[k]) /\ k < p /\ k < q
      BY <2>2, <2>5, <1>4, <2>1, Neighbours
    <3>2. y \in ToSet(L[p]) \/ y \in ToSet(L[q])
      BY <2>3, <2>5
    <3>. QED
      BY <3>1, <3>2, <1>a
  <2>6. CASE k # q /\ l # q
    BY <2>2, <2>3, <2>6, <1>4, <1>a
  <2>. QED
    BY <2>4, <2>5, <2>6
<1>. QED
  BY <1>3, <1>4 DEF Arranged

(* A row that is arranged is so for whatever holds of its elements as well. *)
LEMMA ArrangedWeaker ==
    ASSUME NEW S, NEW K \in SUBSET Int, NEW L \in [K -> Seq(S)],
           NEW R, NEW F, NEW Q, NEW G,
           Arranged(L, R, F), \A k \in K : F[k] \subseteq G[k],
           \A k, l \in K : \A x \in F[k], y \in F[l] : <<x, y>> \in R => <<x, y>> \in Q
    PROVE  Arranged(L, Q, G)
<1>1. /\ \A k \in K : L[k] \in Seq(S) /\ Sorted(L[k], R) /\ ToSet(L[k]) \subseteq F[k]
      /\ \A k, l \in K : \A x \in ToSet(L[k]), y \in ToSet(L[l]) : k < l => <<x, y>> \in R
  BY ArrangedAt
<1>2. ASSUME NEW k \in K PROVE Sorted(L[k], Q)
  <2>1. \A i \in 1..Len(L[k]) : L[k][i] \in F[k]
    BY <1>1, ToSetOf
  <2>2. Sorted(L[k], R)
    BY <1>1
  <2>. QED
    BY <2>1, <2>2 DEF Sorted
<1>3. ASSUME NEW k \in K, NEW l \in K, k < l, NEW x \in ToSet(L[k]), NEW y \in ToSet(L[l])
      PROVE  <<x, y>> \in Q
  <2>1. x \in F[k] /\ y \in F[l] /\ <<x, y>> \in R
    BY <1>1, <1>3
  <2>. QED
    BY <2>1
<1>. QED
  BY <1>1, <1>2, <1>3 DEF Arranged
================================================================================
