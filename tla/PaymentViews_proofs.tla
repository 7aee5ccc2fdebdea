------------------------- MODULE PaymentViews_proofs -------------------------
(* Proofs about the payment views, for every snapshot the source may answer.      *)
(*                                                                                *)
(* The five properties of PaymentViews hold in every state that has the types of  *)
(* TypeOK: Closed, Divided, AddsUp, Agree, Paged.  Sales_proofs makes theorems of *)
(* the specification of them.                                                     *)
(*                                                                                *)
(* All views are sums over finite sets.  SumFunctionOnSet is a fold, defined by   *)
(* recursion over an arbitrary choice of elements; SumIs restates it as an        *)
(* equation on subsets, and FiniteInduction (a set of subsets that contains T     *)
(* whenever it contains the proper subsets of T contains them all) gives SumUnion *)
(* and SumSame.  The rest is which rows a figure is the sum over:                 *)
(*                                                                                *)
(*   PartsDivide     the rows of a case, by kind                                  *)
(*   BlockIs         the rows of a report, by month, age, project, representative *)
(*   ListDivides     the rows of a list, by case                                  *)
(*   PagesJoin       the places of a list, by page                                *)
(*                                                                                *)
(* An unknown amount is no number: what is summed is Known, zero where it is not  *)
(* known, beside the count of what is not.                                        *)
EXTENDS PaymentViews, FiniteSetTheorems, SequenceTheorems, TLAPS

\* What holds of a finite set as soon as it holds of its proper subsets.
LEMMA FiniteInduction ==
    ASSUME NEW S, IsFiniteSet(S), NEW G,
           \A T \in SUBSET S : (\A U \in SUBSET T : U # T => U \in G) => T \in G
    PROVE  SUBSET S \subseteq G
<1> DEFINE B == (SUBSET S) \ G
<1> SUFFICES ASSUME B # {} PROVE FALSE
  OBVIOUS
<1>1. IsWellFoundedOn(StrictSubsetOrdering(S), SUBSET S)
  <2>1. IsWellFoundedOn(StrictSubsetOrdering(S), FiniteSubsetsOf(S))
    BY FS_StrictSubsetOrderingWellFounded, Zenon
  <2>2. FiniteSubsetsOf(S) = SUBSET S
    BY FS_FiniteSubsetsOfFinite, Zenon
  <2> QED
    BY <2>1, <2>2, Zenon
<1>2. B \subseteq SUBSET S
  OBVIOUS
<1> HIDE DEF B
<1>3. PICK T \in B : \A U \in B : <<U, T>> \notin StrictSubsetOrdering(S)
  BY <1>1, <1>2, WFMin
<1>4. \A U \in SUBSET T : U # T => U \in G
  BY <1>2, <1>3 DEF StrictSubsetOrdering, B
<1> QED
  BY <1>2, <1>3, <1>4 DEF B

-----------------------------------------------------------------------------
(* Sums over a finite set.                                                 *)

Pick(s) == CHOOSE x \in s : TRUE

IsSum(it, v, S) ==
    it = [s \in SUBSET S |-> IF s = {} THEN 0 ELSE v[Pick(s)] + it[s \ {Pick(s)}]]

\* The sum of the library, as the value at S of an equation on the subsets of S.
LEMMA SumIs ==
    ASSUME NEW v, NEW S
    PROVE  SumFunctionOnSet(v, S) = (CHOOSE it : IsSum(it, v, S))[S]
  BY DEF SumFunctionOnSet, FoldFunctionOnSet, MapThenFoldSet, IsSum, Pick

SameOn(v, w, S) == \A x \in S : v[x] = w[x]

\* Two such sums agree where what they sum agrees.
LEMMA SumsAgree ==
    ASSUME NEW v, NEW w, NEW A, NEW C, NEW j, NEW k, NEW S,
           IsSum(j, v, A), IsSum(k, w, C), IsFiniteSet(S), S \in SUBSET A, S \in SUBSET C,
           SameOn(v, w, S)
    PROVE  j[S] = k[S]
<1> DEFINE G == {T \in SUBSET S : j[T] = k[T]}
<1>1. ASSUME NEW T \in SUBSET S, \A U \in SUBSET T : U # T => U \in G
      PROVE  T \in G
  <2>1. CASE T = {}
    BY <2>1 DEF IsSum
  <2>2. CASE T # {}
    <3>1. Pick(T) \in T
      BY <2>2 DEF Pick
    <3>2. T \ {Pick(T)} \in G
      BY <1>1, <3>1
    <3>3. /\ j[T] = v[Pick(T)] + j[T \ {Pick(T)}]
          /\ k[T] = w[Pick(T)] + k[T \ {Pick(T)}]
      BY <2>2 DEF IsSum
    <3> QED
      BY <3>1, <3>2, <3>3 DEF SameOn
  <2> QED
    BY <2>1, <2>2
<1> HIDE DEF G
<1>2. SUBSET S \subseteq G
  BY <1>1, FiniteInduction
<1> QED
  BY <1>2 DEF G

\* That equation has a solution on a finite set: the recursion is well founded.
LEMMA SumExists ==
    ASSUME NEW v, NEW S, IsFiniteSet(S)
    PROVE  \E it : IsSum(it, v, S)
<1> DEFINE G == {T \in SUBSET S : \E it : IsSum(it, v, T)}
           At(T) == (CHOOSE it : IsSum(it, v, T))[T]
<1>1. ASSUME NEW T \in SUBSET S, \A U \in SUBSET T : U # T => U \in G
      PROVE  T \in G
  <2> DEFINE it == [s \in SUBSET T |-> IF s = {} THEN 0 ELSE v[Pick(s)] + At(s \ {Pick(s)})]
  <2>1. ASSUME NEW s \in SUBSET T, s # {}
        PROVE  it[s \ {Pick(s)}] = At(s \ {Pick(s)})
    <3> DEFINE r == s \ {Pick(s)}
               j == CHOOSE m : IsSum(m, v, r)
    <3>1. r \in SUBSET T /\ r # T
      BY <2>1 DEF Pick
    <3>2. IsSum(j, v, r)
      BY <1>1, <3>1
    <3> HIDE DEF j
    <3>3. j[r] = IF r = {} THEN 0 ELSE v[Pick(r)] + j[r \ {Pick(r)}]
      BY <3>2 DEF IsSum
    <3>4. r # {} => j[r \ {Pick(r)}] = At(r \ {Pick(r)})
      <4> DEFINE p == r \ {Pick(r)}
                 k == CHOOSE m : IsSum(m, v, p)
      <4>1. p \in SUBSET T /\ p # T
        BY <3>1
      <4>2. IsSum(k, v, p)
        BY <1>1, <4>1
      <4>3. IsFiniteSet(p)
        BY <4>1, FS_Subset
      <4> HIDE DEF k, p
      <4>4. p \in SUBSET r /\ p \in SUBSET p /\ SameOn(v, v, p)
        BY DEF p, SameOn
      <4>5. j[p] = k[p]
        BY <3>2, <4>2, <4>3, <4>4, SumsAgree
      <4> QED
        BY <4>5 DEF p, k
    <3>5. At(r) = IF r = {} THEN 0 ELSE v[Pick(r)] + At(r \ {Pick(r)})
      BY <3>3, <3>4 DEF j
    <3>6. it[r] = IF r = {} THEN 0 ELSE v[Pick(r)] + At(r \ {Pick(r)})
      BY <3>1
    <3>7. it[r] = At(r)
      <4> HIDE DEF it, At, r
      <4> QED
        BY <3>5, <3>6
    <3> QED
      BY <3>7
  <2>2. IsSum(it, v, T)
    <3>1. it = [s \in SUBSET T |-> IF s = {} THEN 0 ELSE v[Pick(s)] + At(s \ {Pick(s)})]
      OBVIOUS
    <3> HIDE DEF it, At
    <3>2. it = [s \in SUBSET T |-> IF s = {} THEN 0 ELSE v[Pick(s)] + it[s \ {Pick(s)}]]
      BY <2>1, <3>1
    <3> QED
      BY <3>2 DEF IsSum
  <2> QED
    BY <2>2
<1> HIDE DEF G
<1>2. SUBSET S \subseteq G
  BY <1>1, FiniteInduction
<1> QED
  BY <1>2 DEF G

\* Hence the sum is what its recursion says, one element at a time.
LEMMA SumEquation ==
    ASSUME NEW v, NEW S, IsFiniteSet(S)
    PROVE  SumFunctionOnSet(v, S) =
             IF S = {} THEN 0 ELSE v[Pick(S)] + SumFunctionOnSet(v, S \ {Pick(S)})
<1> DEFINE R == S \ {Pick(S)}
           j == CHOOSE it : IsSum(it, v, S)
           k == CHOOSE it : IsSum(it, v, R)
<1>1. IsFiniteSet(R) /\ R \subseteq S
  BY FS_RemoveElement
<1>2. IsSum(j, v, S) /\ IsSum(k, v, R)
  <2> HIDE DEF R
  <2>1. (\E it : IsSum(it, v, S)) /\ (\E it : IsSum(it, v, R))
    BY <1>1, SumExists
  <2> QED
    BY <2>1, Zenon
<1>3. SumFunctionOnSet(v, S) = j[S] /\ SumFunctionOnSet(v, R) = k[R]
  BY SumIs
<1> HIDE DEF j, k
<1>4. j[S] = IF S = {} THEN 0 ELSE v[Pick(S)] + j[R]
  BY <1>2 DEF IsSum
<1>5. j[R] = k[R]
  <2> HIDE DEF R
  <2> QED
    <3>1. R \in SUBSET S /\ R \in SUBSET R /\ SameOn(v, v, R)
      BY <1>1 DEF SameOn
    <3> QED
      BY <1>1, <1>2, <3>1, SumsAgree
<1> HIDE DEF R
<1>6. SumFunctionOnSet(v, S) = IF S = {} THEN 0 ELSE v[Pick(S)] + SumFunctionOnSet(v, R)
  BY <1>3, <1>4, <1>5
<1> QED
  BY <1>6 DEF R

\* A sum depends on the values at its elements only.
LEMMA SumSame ==
    ASSUME NEW v, NEW w, NEW S, IsFiniteSet(S), \A x \in S : v[x] = w[x]
    PROVE  SumFunctionOnSet(v, S) = SumFunctionOnSet(w, S)
<1> DEFINE j == CHOOSE it : IsSum(it, v, S)
           k == CHOOSE it : IsSum(it, w, S)
<1>1. IsSum(j, v, S) /\ IsSum(k, w, S)
  <2>1. (\E it : IsSum(it, v, S)) /\ (\E it : IsSum(it, w, S))
    BY SumExists
  <2> QED
    BY <2>1, Zenon
<1>2. SumFunctionOnSet(v, S) = j[S] /\ SumFunctionOnSet(w, S) = k[S]
  BY SumIs
<1> HIDE DEF j, k
<1>3. S \in SUBSET S /\ SameOn(v, w, S)
  BY DEF SameOn
<1>4. j[S] = k[S]
  BY <1>1, <1>3, SumsAgree
<1> QED
  BY <1>2, <1>4

IntOn(v, S) == \A x \in S : v[x] \in Int

\* Integers add up to an integer.
LEMMA SumIsInt ==
    ASSUME NEW v, NEW S, IsFiniteSet(S), IntOn(v, S)
    PROVE  SumFunctionOnSet(v, S) \in Int
<1> DEFINE G == {T \in SUBSET S : SumFunctionOnSet(v, T) \in Int}
<1>1. ASSUME NEW T \in SUBSET S, \A U \in SUBSET T : U # T => U \in G
      PROVE  T \in G
  <2>1. IsFiniteSet(T)
    BY FS_Subset
  <2>2. T # {} => Pick(T) \in T
    BY DEF Pick
  <2>3. T # {} => SumFunctionOnSet(v, T \ {Pick(T)}) \in Int
    BY <1>1, <2>2
  <2>4. SumFunctionOnSet(v, T) =
          IF T = {} THEN 0 ELSE v[Pick(T)] + SumFunctionOnSet(v, T \ {Pick(T)})
    BY <2>1, SumEquation
  <2> QED
    BY <2>2, <2>3, <2>4 DEF IntOn
<1> HIDE DEF G
<1>2. SUBSET S \subseteq G
  BY <1>1, FiniteInduction
<1> QED
  BY <1>2 DEF G

\* Whichever element is taken first.
LEMMA SumTakeOut ==
    ASSUME NEW v, NEW S, IsFiniteSet(S), IntOn(v, S), NEW y \in S
    PROVE  SumFunctionOnSet(v, S) = v[y] + SumFunctionOnSet(v, S \ {y})
<1> DEFINE G == {T \in SUBSET S : \A x \in T :
                   SumFunctionOnSet(v, T) = v[x] + SumFunctionOnSet(v, T \ {x})}
<1>1. ASSUME NEW T \in SUBSET S, \A U \in SUBSET T : U # T => U \in G
      PROVE  T \in G
  <2> SUFFICES ASSUME NEW x \in T
               PROVE  SumFunctionOnSet(v, T) = v[x] + SumFunctionOnSet(v, T \ {x})
    OBVIOUS
  <2> DEFINE p == Pick(T)
  <2>1. p \in T
    BY DEF Pick
  <2> HIDE DEF p
  <2>2. IsFiniteSet(T)
    BY FS_Subset
  <2>3. SumFunctionOnSet(v, T) = v[p] + SumFunctionOnSet(v, T \ {p})
    BY <2>2, SumEquation DEF p
  <2>4. CASE x # p
    <3>1. /\ T \ {p} \in G /\ x \in T \ {p}
          /\ T \ {x} \in G /\ p \in T \ {x}
      BY <1>1, <2>1, <2>4
    <3> DEFINE r == (T \ {p}) \ {x}
    <3>2. r = (T \ {x}) \ {p}
      OBVIOUS
    <3>3. SumFunctionOnSet(v, T \ {p}) = v[x] + SumFunctionOnSet(v, r)
      BY <3>1
    <3>4. SumFunctionOnSet(v, T \ {x}) = v[p] + SumFunctionOnSet(v, (T \ {x}) \ {p})
      BY <3>1
    <3>5. SumFunctionOnSet(v, r) \in Int
      <4>1. IsFiniteSet(r) /\ IntOn(v, r)
        BY <2>2, FS_Subset DEF IntOn
      <4> HIDE DEF r
      <4> QED
        BY <4>1, SumIsInt
    <3>6. v[x] \in Int /\ v[p] \in Int
      BY <2>1 DEF IntOn
    <3> HIDE DEF r
    <3> QED
      BY <2>3, <3>2, <3>3, <3>4, <3>5, <3>6
  <2> QED
    BY <2>3, <2>4
<1> HIDE DEF G
<1>2. SUBSET S \subseteq G
  BY <1>1, FiniteInduction
<1> QED
  BY <1>2 DEF G

\* Nothing adds up to zero.
LEMMA SumEmpty ==
    ASSUME NEW v
    PROVE  SumFunctionOnSet(v, {}) = 0
  BY SumEquation, FS_EmptySet

\* Of two disjoint sets, the sum of both is the sum of the two sums.
LEMMA SumUnion ==
    ASSUME NEW v, NEW S, NEW T, IsFiniteSet(S), IsFiniteSet(T), S \cap T = {},
           IntOn(v, S \cup T)
    PROVE  SumFunctionOnSet(v, S \cup T) = SumFunctionOnSet(v, S) + SumFunctionOnSet(v, T)
<1> DEFINE G == {U \in SUBSET S :
                   SumFunctionOnSet(v, U \cup T) = SumFunctionOnSet(v, U) + SumFunctionOnSet(v, T)}
<1>1. ASSUME NEW U \in SUBSET S, \A W \in SUBSET U : W # U => W \in G
      PROVE  U \in G
  <2>0. SumFunctionOnSet(v, T) \in Int
    BY SumIsInt DEF IntOn
  <2>1. CASE U = {}
    <3>1. U \cup T = T
      BY <2>1
    <3>2. SumFunctionOnSet(v, U) = 0
      BY <2>1, SumEmpty
    <3>3. SumFunctionOnSet(v, U \cup T) = SumFunctionOnSet(v, T)
      BY <3>1
    <3> QED
      BY <2>0, <3>2, <3>3
  <2>2. CASE U # {}
    <3>1. PICK x : x \in U
      BY <2>2
    <3> DEFINE W == U \ {x}
    <3>2. W \in G /\ (U \cup T) \ {x} = W \cup T
      BY <1>1, <3>1
    <3>3. /\ IsFiniteSet(U) /\ IsFiniteSet(U \cup T) /\ IsFiniteSet(W)
          /\ IntOn(v, U \cup T) /\ IntOn(v, U) /\ IntOn(v, W)
      <4>1. IsFiniteSet(U) /\ IsFiniteSet(W)
        BY FS_Subset
      <4>2. IsFiniteSet(U \cup T)
        BY <4>1, FS_Union
      <4> QED
        BY <4>1, <4>2 DEF IntOn
    <3> HIDE DEF W
    <3>4. SumFunctionOnSet(v, U) = v[x] + SumFunctionOnSet(v, W)
      BY <3>1, <3>3, SumTakeOut DEF W
    <3>5. SumFunctionOnSet(v, U \cup T) = v[x] + SumFunctionOnSet(v, W \cup T)
      <4>1. SumFunctionOnSet(v, U \cup T) = v[x] + SumFunctionOnSet(v, (U \cup T) \ {x})
        BY <3>1, <3>3, x \in U \cup T, SumTakeOut
      <4> QED
        BY <3>2, <4>1
    <3>6. SumFunctionOnSet(v, W) \in Int
      BY <3>3, SumIsInt
    <3>7. SumFunctionOnSet(v, W \cup T) = SumFunctionOnSet(v, W) + SumFunctionOnSet(v, T)
      BY <3>2
    <3>8. v[x] \in Int
      BY <3>1 DEF IntOn
    <3>9. SumFunctionOnSet(v, U \cup T) = SumFunctionOnSet(v, U) + SumFunctionOnSet(v, T)
      <4> HIDE DEF G
      <4> QED
        BY <2>0, <3>4, <3>5, <3>6, <3>7, <3>8
    <3> QED
      BY <3>9
  <2> QED
    BY <2>1, <2>2
<1> HIDE DEF G
<1>2. SUBSET S \subseteq G
  BY <1>1, FiniteInduction
<1> QED
  BY <1>2 DEF G

Joined(parts, K) == UNION {parts[k] : k \in K}

\* A sum is the sum of the sums of its parts.
LEMMA SumParts ==
    ASSUME NEW K, IsFiniteSet(K), NEW D, IsFiniteSet(D), NEW v, IntOn(v, D),
           NEW parts \in [K -> SUBSET D],
           \A k, m \in K : k # m => parts[k] \cap parts[m] = {},
           NEW t, \A k \in K : t[k] = SumFunctionOnSet(v, parts[k])
    PROVE  SumFunctionOnSet(t, K) = SumFunctionOnSet(v, Joined(parts, K))
<1> DEFINE G == {M \in SUBSET K : SumFunctionOnSet(t, M) = SumFunctionOnSet(v, Joined(parts, M))}
<1>0. \A S \in SUBSET D : IsFiniteSet(S) /\ IntOn(v, S) /\ SumFunctionOnSet(v, S) \in Int
  <2>1. ASSUME NEW S \in SUBSET D PROVE IsFiniteSet(S) /\ IntOn(v, S)
    BY FS_Subset DEF IntOn
  <2> QED
    BY <2>1, SumIsInt
<1>1. ASSUME NEW M \in SUBSET K, \A U \in SUBSET M : U # M => U \in G
      PROVE  M \in G
  <2>1. CASE M = {}
    <3>1. Joined(parts, M) = {}
      BY <2>1 DEF Joined
    <3> QED
      BY <2>1, <3>1, SumEmpty
  <2>2. CASE M # {}
    <3>1. PICK k : k \in M
      BY <2>2
    <3> DEFINE N == M \ {k}
    <3>2. N \in G
      BY <1>1, <3>1
    <3>3. SumFunctionOnSet(t, N) = SumFunctionOnSet(v, Joined(parts, N))
      BY <3>2
    <3>4. IsFiniteSet(M) /\ IntOn(t, M)
      BY <1>0, FS_Subset DEF IntOn
    <3>5. SumFunctionOnSet(t, M) = t[k] + SumFunctionOnSet(t, N)
      BY <3>1, <3>4, SumTakeOut
    <3>6. /\ Joined(parts, M) = parts[k] \cup Joined(parts, N)
          /\ parts[k] \cap Joined(parts, N) = {}
          /\ parts[k] \in SUBSET D /\ Joined(parts, N) \in SUBSET D
          /\ parts[k] \cup Joined(parts, N) \in SUBSET D
      BY <3>1 DEF Joined
    <3> HIDE DEF N
    <3>7. SumFunctionOnSet(v, parts[k] \cup Joined(parts, N)) =
            SumFunctionOnSet(v, parts[k]) + SumFunctionOnSet(v, Joined(parts, N))
      BY <1>0, <3>6, SumUnion
    <3>8. t[k] = SumFunctionOnSet(v, parts[k])
      BY <3>1
    <3>9. SumFunctionOnSet(t, M) = SumFunctionOnSet(v, Joined(parts, M))
      <4> HIDE DEF G
      <4> QED
        BY <3>3, <3>5, <3>6, <3>7, <3>8
    <3> QED
      BY <3>9
  <2> QED
    BY <2>1, <2>2
<1> HIDE DEF G
<1>2. SUBSET K \subseteq G
  BY <1>1, FiniteInduction
<1> QED
  BY <1>2 DEF G

NatOn(v, S) == \A x \in S : v[x] \in Nat

\* A sum of nothing below zero is zero only if all of it is.
LEMMA SumIsNat ==
    ASSUME NEW v, NEW S, IsFiniteSet(S), NatOn(v, S)
    PROVE  /\ SumFunctionOnSet(v, S) \in Nat
           /\ SumFunctionOnSet(v, S) = 0 <=> \A x \in S : v[x] = 0
<1> DEFINE G == {T \in SUBSET S : /\ SumFunctionOnSet(v, T) \in Nat
                                  /\ SumFunctionOnSet(v, T) = 0 <=> \A x \in T : v[x] = 0}
<1>1. ASSUME NEW T \in SUBSET S, \A U \in SUBSET T : U # T => U \in G
      PROVE  T \in G
  <2>1. IsFiniteSet(T)
    BY FS_Subset
  <2>2. SumFunctionOnSet(v, T) =
          IF T = {} THEN 0 ELSE v[Pick(T)] + SumFunctionOnSet(v, T \ {Pick(T)})
    BY <2>1, SumEquation
  <2>3. CASE T = {}
    BY <2>2, <2>3
  <2>4. CASE T # {}
    <3> DEFINE p == Pick(T)
               n == SumFunctionOnSet(v, T \ {p})
    <3>1. p \in T
      BY <2>4 DEF Pick
    <3>2. T \ {p} \in G
      BY <1>1, <3>1
    <3>3. n \in Nat /\ (n = 0 <=> \A x \in T \ {p} : v[x] = 0)
      BY <3>2
    <3>4. v[p] \in Nat
      BY <3>1 DEF NatOn
    <3>5. SumFunctionOnSet(v, T) = v[p] + n
      BY <2>2, <2>4
    <3> HIDE DEF p, n
    <3>6. SumFunctionOnSet(v, T) \in Nat /\ (SumFunctionOnSet(v, T) = 0 <=> v[p] = 0 /\ n = 0)
      BY <3>3, <3>4, <3>5
    <3>7. (\A x \in T : v[x] = 0) <=> v[p] = 0 /\ \A x \in T \ {p} : v[x] = 0
      BY <3>1
    <3> QED
      BY <3>3, <3>6, <3>7
  <2> QED
    BY <2>3, <2>4
<1> HIDE DEF G
<1>2. SUBSET S \subseteq G
  BY <1>1, FiniteInduction
<1> QED
  BY <1>2 DEF G

\* A set is counted by adding one for each of its elements.
LEMMA SumOfOnes ==
    ASSUME NEW v, NEW S, IsFiniteSet(S), \A x \in S : v[x] = 1
    PROVE  SumFunctionOnSet(v, S) = Cardinality(S)
<1> DEFINE G == {T \in SUBSET S : SumFunctionOnSet(v, T) = Cardinality(T)}
<1>1. ASSUME NEW T \in SUBSET S, \A U \in SUBSET T : U # T => U \in G
      PROVE  T \in G
  <2>1. IsFiniteSet(T)
    BY FS_Subset
  <2>2. SumFunctionOnSet(v, T) =
          IF T = {} THEN 0 ELSE v[Pick(T)] + SumFunctionOnSet(v, T \ {Pick(T)})
    BY <2>1, SumEquation
  <2>3. CASE T = {}
    BY <2>2, <2>3, FS_EmptySet
  <2>4. CASE T # {}
    <3>1. Pick(T) \in T
      BY <2>4 DEF Pick
    <3>2. T \ {Pick(T)} \in G
      BY <1>1, <3>1
    <3>3. /\ Cardinality(T \ {Pick(T)}) = Cardinality(T) - 1
          /\ Cardinality(T) \in Nat
      BY <2>1, <3>1, FS_RemoveElement, FS_CardinalityType
    <3>4. SumFunctionOnSet(v, T) = Cardinality(T)
      BY <2>2, <2>4, <3>1, <3>2, <3>3
    <3> QED
      BY <3>4
  <2> QED
    BY <2>3, <2>4
<1> HIDE DEF G
<1>2. SUBSET S \subseteq G
  BY <1>1, FiniteInduction
<1> QED
  BY <1>2 DEF G

\* The parts of a set count as many as the set.
LEMMA CountParts ==
    ASSUME NEW K, IsFiniteSet(K), NEW D, IsFiniteSet(D), NEW parts \in [K -> SUBSET D],
           \A k, m \in K : k # m => parts[k] \cap parts[m] = {},
           NEW t, \A k \in K : t[k] = Cardinality(parts[k])
    PROVE  SumFunctionOnSet(t, K) = Cardinality(Joined(parts, K))
<1> DEFINE v == [x \in D |-> 1]
<1>1. IntOn(v, D)
  BY DEF IntOn
<1>2. ASSUME NEW S \in SUBSET D PROVE SumFunctionOnSet(v, S) = Cardinality(S)
  <2>1. IsFiniteSet(S) /\ \A x \in S : v[x] = 1
    BY FS_Subset
  <2> HIDE DEF v
  <2> QED
    BY <2>1, SumOfOnes
<1> HIDE DEF v
<1>3. \A k \in K : t[k] = SumFunctionOnSet(v, parts[k])
  BY <1>2
<1>4. Joined(parts, K) \in SUBSET D
  BY DEF Joined
<1>5. SumFunctionOnSet(t, K) = SumFunctionOnSet(v, Joined(parts, K))
  BY <1>1, <1>3, SumParts
<1> QED
  BY <1>2, <1>4, <1>5

-----------------------------------------------------------------------------
(* Rows and cases.                                                         *)

Known(x) == Plus(x, 0)

\* What there is to say of a row once its status is computed.
GoodLine(l) ==
    /\ l.identity \in Range(Identities)
    /\ l.amount \in Int \cup {None} /\ l.paid \in Int \cup {None} /\ l.dueDate \in Nat \cup {None}
    /\ l.outstanding \in Nat \cup {None}
    /\ l.outstanding = None <=> l.amount = None \/ l.paid = None
    /\ l.incomplete = (None \in {l.amount, l.paid, l.dueDate, l.identity.currency})
    /\ l.overdueAmount =
         IF l.outstanding = None \/ (l.outstanding # 0 /\ l.dueDate = None) THEN None
         ELSE IF l.outstanding # 0 /\ l.dueDate < asOf THEN l.outstanding ELSE 0
    /\ l.status = "overdue" <=>
         l.outstanding \notin {None, 0} /\ l.dueDate # None /\ l.dueDate < asOf

Lines      == {normalizedRow(n) : n \in DOMAIN rows}
LinesOf(i) == {l \in Lines : l.identity = i}

\* What normalizedRow makes of a source row: the same fields, and an open amount that is
\* known or not.
LEMMA RowGivesLine ==
    ASSUME PaymentViewsAssumption, TypeOK, NEW n \in DOMAIN rows
    PROVE  /\ GoodLine(normalizedRow(n))
           /\ normalizedRow(n).sequence = n
           /\ normalizedRow(n).identity = rows[n].identity
           /\ normalizedRow(n).kind = rows[n].kind
           /\ normalizedRow(n).outstanding = outstanding(rows[n])
           /\ normalizedRow(n).dueDate = rows[n].dueDate
           /\ normalizedRow(n).amount = rows[n].amount
           /\ normalizedRow(n).paid = rows[n].paid
<1> DEFINE r == rows[n]
           l == normalizedRow(n)
<1>1. r \in Rows
  BY DEF TypeOK
<1>2. /\ r.identity \in Range(Identities)
      /\ r.dueDate \in Nat \cup {None}
      /\ r.amount \in Int \cup {None} /\ r.paid \in Int \cup {None}
      /\ asOf \in Nat /\ None \notin Int
  BY <1>1 DEF PaymentViewsAssumption
<1>3. /\ l.sequence = n /\ l.identity = r.identity /\ l.kind = r.kind /\ l.dueDate = r.dueDate
      /\ l.status = statusOf(r)
      /\ l.amount = r.amount /\ l.paid = r.paid /\ l.outstanding = outstanding(r)
      /\ l.incomplete = (None \in {r.amount, r.paid, r.dueDate, r.identity.currency})
      /\ l.overdueAmount = IF statusOf(r) = "unknown" THEN None
                           ELSE IF statusOf(r) = "overdue" THEN outstanding(r) ELSE 0
  BY DEF normalizedRow
<1>4. /\ outstanding(r) \in Nat \cup {None}
      /\ outstanding(r) = None <=> r.amount = None \/ r.paid = None
  BY <1>2 DEF outstanding
<1>5. /\ statusOf(r) = "unknown" <=>
            outstanding(r) = None \/ (outstanding(r) # 0 /\ r.dueDate = None)
      /\ statusOf(r) = "overdue" <=>
            /\ outstanding(r) \notin {None, 0} /\ r.dueDate # None /\ r.dueDate < asOf
  <2> HIDE DEF r
  <2> QED
    BY <1>2, <1>4 DEF statusOf
<1> HIDE DEF l, r
<1>6. l.overdueAmount =
        IF l.outstanding = None \/ (l.outstanding # 0 /\ l.dueDate = None) THEN None
        ELSE IF l.outstanding # 0 /\ l.dueDate < asOf THEN l.outstanding ELSE 0
  BY <1>2, <1>3, <1>4, <1>5
<1>7. GoodLine(l)
  BY <1>2, <1>3, <1>4, <1>5, <1>6 DEF GoodLine
<1> QED
  BY <1>3, <1>7 DEF l, r

\* So is every line of the snapshot; there are finitely many, whoever they are of.
LEMMA LinesAreGood ==
    ASSUME PaymentViewsAssumption, TypeOK
    PROVE  /\ IsFiniteSet(Lines)
           /\ \A l \in Lines : GoodLine(l)
           /\ \A i : IsFiniteSet(LinesOf(i)) /\ LinesOf(i) \subseteq Lines
<1>1. IsFiniteSet(DOMAIN rows)
  BY FS_Interval DEF TypeOK
<1>2. IsFiniteSet(Lines)
  <2> DEFINE f == [n \in DOMAIN rows |-> normalizedRow(n)]
  <2>1. f \in Surjection(DOMAIN rows, Lines)
    BY DEF Surjection, Lines
  <2> QED
    BY <1>1, <2>1, FS_Surjection
<1>3. \A l \in Lines : GoodLine(l)
  BY RowGivesLine DEF Lines
<1>4. ASSUME NEW i PROVE IsFiniteSet(LinesOf(i)) /\ LinesOf(i) \subseteq Lines
  BY <1>2, FS_Subset DEF LinesOf
<1> QED
  BY <1>2, <1>3, <1>4

\* A case per identity that has a row, over the lines of that identity.
LEMMA CasesAre ==
    /\ \A n \in DOMAIN rows : rows[n].identity \in {l.identity : l \in Lines}
    /\ \A i \in {l.identity : l \in Lines} : \E n \in DOMAIN rows : i = rows[n].identity
    /\ Cases = {sourceCase(i, LinesOf(i)) : i \in {l.identity : l \in Lines}}
    /\ \A i \in {l.identity : l \in Lines} : LinesOf(i) # {}
<1>1. \A n \in DOMAIN rows : normalizedRow(n).identity = rows[n].identity
  BY DEF normalizedRow
<1> QED
  BY <1>1 DEF Cases, Lines, LinesOf

-----------------------------------------------------------------------------
(* What is known of a sum.                                                 *)

IntOrNone == Int \cup {None}

Into(value, D) == \A x \in D : value[x] \in IntOrNone
KnownOn(w, value, D) == \A x \in D : w[x] = Known(value[x])

\* The sum of what is known, where what is unknown counts nothing; unknown when all is.
LEMMA SumKnownIs ==
    ASSUME PaymentViewsAssumption,
           NEW value, NEW D, DOMAIN value = D, IsFiniteSet(D), Into(value, D),
           NEW w, KnownOn(w, value, D)
    PROVE  /\ sumKnown(value) \in IntOrNone
           /\ Known(sumKnown(value)) = SumFunctionOnSet(w, D)
           /\ sumKnown(value) = None <=> D # {} /\ \A x \in D : value[x] = None
<1> DEFINE known == {x \in D : value[x] # None}
           rest == D \ known
<1>0. None \notin Int
  BY DEF PaymentViewsAssumption
<1>1. /\ IsFiniteSet(known) /\ IsFiniteSet(rest)
      /\ known \cap rest = {} /\ known \cup rest = D
  BY FS_Subset
<1>2. /\ IntOn(w, known \cup rest) /\ IntOn(value, known)
      /\ \A x \in known : value[x] = w[x]
      /\ \A x \in rest : w[x] = 0
  BY <1>0 DEF IntOn, Into, IntOrNone, KnownOn, Known, Plus
<1>3. sumKnown(value) = IF known = {} /\ D # {} THEN None ELSE SumFunctionOnSet(value, known)
  BY DEF sumKnown
<1>4. known = {} <=> \A x \in D : value[x] = None
  OBVIOUS
<1> HIDE DEF known, rest
<1>5. SumFunctionOnSet(w, D) = SumFunctionOnSet(w, known) + SumFunctionOnSet(w, rest)
  BY <1>1, <1>2, SumUnion
<1>6. SumFunctionOnSet(w, rest) = 0
  BY <1>1, <1>2, SumIsNat DEF NatOn
<1>7. SumFunctionOnSet(value, known) = SumFunctionOnSet(w, known)
  BY <1>1, <1>2, SumSame
<1>8. SumFunctionOnSet(value, known) \in Int
  BY <1>1, <1>2, SumIsInt
<1>9. SumFunctionOnSet(w, D) = SumFunctionOnSet(value, known)
  BY <1>5, <1>6, <1>7, <1>8
<1>10. CASE known = {} /\ D # {}
  <2>1. SumFunctionOnSet(value, known) = 0
    BY <1>10, SumEmpty
  <2> QED
    BY <1>0, <1>3, <1>4, <1>9, <1>10, <2>1 DEF IntOrNone, Known, Plus
<1>11. CASE ~(known = {} /\ D # {})
  BY <1>0, <1>3, <1>4, <1>8, <1>9, <1>11 DEF IntOrNone, Known, Plus
<1> QED
  BY <1>10, <1>11

-----------------------------------------------------------------------------
(* A file is closed when it is paid off.                                   *)

PaidOff(l) == l.outstanding = 0 /\ l.dueDate # None /\ l.identity.currency # None

CaseIdentities == {l.identity : l \in Lines}

\* The fields of a case that the views compute with (sourceCase).
LEMMA SourceCaseIs ==
    ASSUME NEW i, NEW L
    PROVE  /\ sourceCase(i, L).identity = i
           /\ sourceCase(i, L).installments = L
           /\ sourceCase(i, L).amount = sumKnown([l \in L |-> l.amount])
           /\ sourceCase(i, L).paid = sumKnown([l \in L |-> l.paid])
           /\ sourceCase(i, L).outstanding = sumKnown([l \in L |-> l.outstanding])
           /\ sourceCase(i, L).overdueAmount = sumKnown([l \in L |-> l.overdueAmount])
           /\ sourceCase(i, L).incompleteRows = Cardinality({l \in L : l.incomplete})
           /\ sourceCase(i, L).oldestDueDate = First(OpenDates(L))
  BY DEF sourceCase, CaseOver

\* A field of the lines, and what of it is known.
LEMMA FieldSum ==
    ASSUME PaymentViewsAssumption, TypeOK, NEW L \in SUBSET Lines,
           NEW value, DOMAIN value = L, Into(value, L)
    PROVE  /\ sumKnown(value) \in IntOrNone
           /\ Known(sumKnown(value)) = SumFunctionOnSet([l \in L |-> Known(value[l])], L)
           /\ sumKnown(value) = None <=> L # {} /\ \A l \in L : value[l] = None
<1> DEFINE w == [l \in L |-> Known(value[l])]
<1>1. IsFiniteSet(L)
  BY LinesAreGood, FS_Subset
<1>2. KnownOn(w, value, L)
  BY DEF KnownOn
<1> HIDE DEF w
<1>3. /\ sumKnown(value) \in IntOrNone
      /\ Known(sumKnown(value)) = SumFunctionOnSet(w, L)
      /\ sumKnown(value) = None <=> L # {} /\ \A x \in L : value[x] = None
  BY <1>1, <1>2, SumKnownIs
<1> QED
  BY <1>3 DEF w

\* A case counts as paid off exactly when each of its lines is settled, dated and of a
\* known currency.
LEMMA CaseIsPaid ==
    ASSUME PaymentViewsAssumption, TypeOK, NEW i \in CaseIdentities
    PROVE  CompleteAndPaid(sourceCase(i, LinesOf(i))) <=> \A l \in LinesOf(i) : PaidOff(l)
<1> DEFINE L == LinesOf(i)
           c == sourceCase(i, L)
           open == [l \in L |-> l.outstanding]
           amount == [l \in L |-> l.amount]
           paid == [l \in L |-> l.paid]
           partial == {l \in L : l.incomplete}
           w == [l \in L |-> Known(open[l])]
<1>0. None \notin Int /\ asOf \in Nat
  BY DEF PaymentViewsAssumption
<1>1. /\ L \in SUBSET Lines /\ L # {} /\ IsFiniteSet(L)
      /\ \A l \in L : GoodLine(l) /\ l.identity = i
  BY LinesAreGood, CasesAre DEF LinesOf, CaseIdentities
<1>2. Into(open, L) /\ Into(amount, L) /\ Into(paid, L)
  BY <1>1 DEF Into, IntOrNone, GoodLine
<1> HIDE DEF L
<1>3. c.identity = i /\ c.outstanding = sumKnown(open) /\ c.amount = sumKnown(amount)
      /\ c.paid = sumKnown(paid) /\ c.incompleteRows = Cardinality(partial)
  BY DEF sourceCase, CaseOver
<1>4. DOMAIN open = L /\ DOMAIN amount = L /\ DOMAIN paid = L
  OBVIOUS
<1>5. /\ \A l \in L : open[l] = l.outstanding /\ amount[l] = l.amount /\ paid[l] = l.paid
      /\ partial \subseteq L /\ \A l \in L : l \in partial <=> l.incomplete
  OBVIOUS
<1>6. w = [l \in L |-> Known(open[l])]
  OBVIOUS
<1> HIDE DEF L, c, open, amount, paid, partial, w
<1>7. Cardinality(partial) = 0 <=> \A l \in L : ~l.incomplete
  <2>1. IsFiniteSet(partial)
    BY <1>1, <1>5, FS_Subset
  <2> QED
    BY <1>5, <2>1, FS_EmptySet
<1>8. CASE \E l \in L : l.incomplete
  <2>1. ~CompleteAndPaid(c)
    BY <1>3, <1>7, <1>8 DEF CompleteAndPaid
  <2>2. \E l \in L : ~PaidOff(l)
    <3>1. PICK l \in L : l.incomplete
      BY <1>8
    <3>2. None \in {l.amount, l.paid, l.dueDate, l.identity.currency}
      BY <1>1, <3>1 DEF GoodLine
    <3>3. l.outstanding = None <=> l.amount = None \/ l.paid = None
      BY <1>1 DEF GoodLine
    <3>4. ~PaidOff(l)
      BY <1>0, <3>2, <3>3 DEF PaidOff
    <3> QED
      BY <3>4
  <2> QED
    BY <2>1, <2>2 DEF c, L
<1>9. CASE \A l \in L : ~l.incomplete
  <2>1. \A l \in L : /\ l.amount # None /\ l.paid # None /\ l.dueDate # None
                     /\ l.identity.currency # None /\ l.outstanding \in Nat
    BY <1>0, <1>1, <1>9 DEF GoodLine
  <2>2. i.currency # None
    BY <1>1, <2>1
  <2>3. sumKnown(amount) # None /\ sumKnown(paid) # None /\ sumKnown(open) # None
    <3>1. ~(\A l \in L : amount[l] = None) /\ ~(\A l \in L : paid[l] = None)
          /\ ~(\A l \in L : open[l] = None)
      BY <1>0, <1>1, <1>5, <2>1
    <3> QED
      BY <1>1, <1>2, <1>4, <3>1, FieldSum
  <2>4. Known(sumKnown(open)) = SumFunctionOnSet(w, L) /\ sumKnown(open) \in IntOrNone
    <3>1. Known(sumKnown(open)) = SumFunctionOnSet([l \in L |-> Known(open[l])], L)
          /\ sumKnown(open) \in IntOrNone
      BY <1>1, <1>2, <1>4, FieldSum
    <3> QED
      BY <3>1, <1>6
  <2>5. NatOn(w, L) /\ \A l \in L : w[l] = l.outstanding
    BY <1>0, <1>5, <1>6, <2>1 DEF NatOn, Known, Plus
  <2>6. SumFunctionOnSet(w, L) = 0 <=> \A l \in L : w[l] = 0
    BY <1>1, <2>5, SumIsNat
  <2>7. sumKnown(open) = 0 <=> \A l \in L : l.outstanding = 0
    BY <1>0, <2>3, <2>4, <2>5, <2>6 DEF Known, Plus, IntOrNone
  <2>8. Cardinality(partial) = 0
    BY <1>7, <1>9
  <2>9. CompleteAndPaid(c) <=> \A l \in L : l.outstanding = 0
    BY <1>3, <2>2, <2>3, <2>7, <2>8 DEF CompleteAndPaid
  <2> QED
    BY <1>1, <2>1, <2>9 DEF PaidOff, c, L
<1> QED
  BY <1>8, <1>9

SameFile(i, j) == i.customer = j.customer /\ i.unit = j.unit

\* A file is closed exactly when every row of its customer and unit is so: in the rows, not
\* in what has been computed from them.
LEMMA FileIsClosed ==
    ASSUME PaymentViewsAssumption, TypeOK, NEW c
    PROVE  isPortfolioClosed(c, Cases) <=>
             \A n \in DOMAIN rows : SameFile(rows[n].identity, c.identity) =>
               /\ outstanding(rows[n]) = 0 /\ rows[n].dueDate # None
               /\ rows[n].identity.currency # None
<1>1. isPortfolioClosed(c, Cases) <=>
        \A i \in CaseIdentities : SameFile(i, c.identity) =>
          CompleteAndPaid(sourceCase(i, LinesOf(i)))
  <2>1. \A i : sourceCase(i, LinesOf(i)).identity = i
    BY DEF sourceCase, CaseOver
  <2>2. Cases = {sourceCase(i, LinesOf(i)) : i \in CaseIdentities}
    BY CasesAre DEF CaseIdentities
  <2>3. isPortfolioClosed(c, Cases) <=>
          \A d \in Cases : SameFile(d.identity, c.identity) => CompleteAndPaid(d)
    BY DEF isPortfolioClosed, Portfolio, SameFile
  <2> QED
    BY <2>1, <2>2, <2>3, Zenon
<1>2. @ <=> \A i \in CaseIdentities : SameFile(i, c.identity) => \A l \in LinesOf(i) : PaidOff(l)
  BY CaseIsPaid
<1>3. @ <=> \A l \in Lines : SameFile(l.identity, c.identity) => PaidOff(l)
  BY DEF CaseIdentities, LinesOf
<1>4. @ <=> \A n \in DOMAIN rows :
              SameFile(normalizedRow(n).identity, c.identity) => PaidOff(normalizedRow(n))
  BY DEF Lines
<1> QED
  BY <1>1, <1>2, <1>3, <1>4, RowGivesLine DEF PaidOff

\* A part of a case is of the customer, unit and currency of the case.
LEMMA KindKeepsIdentity ==
    ASSUME NEW c, NEW kind, NEW k \in selectPaymentKind(c, kind)
    PROVE  k.identity = c.identity
  BY DEF selectPaymentKind, CaseOver

\* A row of the list takes its mark from the whole file, not from the kind it shows.
LEMMA RowOfCase ==
    ASSUME NEW cases, NEW q, NEW row \in CurrencyRows(cases, q)
    PROVE  \E c \in cases : /\ row.identity = c.identity
                            /\ row.fullyPaid = isPortfolioClosed(c, cases)
<1>0. PICK c \in cases : \E k \in selectPaymentKind(c, q.paymentKind) :
        row = trackingRow(k, states[c.identity], isPortfolioClosed(c, cases),
                          paymentProjectGroups(c, cases))
  BY Zenon DEF CurrencyRows
<1>1. PICK k \in selectPaymentKind(c, q.paymentKind) :
        row = trackingRow(k, states[c.identity], isPortfolioClosed(c, cases),
                          paymentProjectGroups(c, cases))
  BY <1>0
<1>2. row.identity = k.identity /\ row.fullyPaid = isPortfolioClosed(c, cases)
  <2> DEFINE open == isPortfolioClosed(c, cases)
             group == paymentProjectGroups(c, cases)
  <2> HIDE DEF open, group
  <2>1. /\ trackingRow(k, states[c.identity], open, group).identity = k.identity
        /\ trackingRow(k, states[c.identity], open, group).fullyPaid = open
    BY DEF trackingRow
  <2> QED
    BY <1>1, <2>1 DEF open, group
<1> QED
  BY <1>2, KindKeepsIdentity

\* So does the screen of a case.
LEMMA ItemIs ==
    ASSUME NEW cases, NEW c
    PROVE  describe(cases, c).item.fullyPaid = isPortfolioClosed(c, cases)
<1> DEFINE portfolio == Portfolio(cases, c)
           closed == isPortfolioClosed(c, portfolio)
           group == paymentProjectGroups(c, portfolio)
<1>1. Portfolio(portfolio, c) = portfolio
  BY DEF Portfolio
<1>2. closed = isPortfolioClosed(c, cases)
  BY <1>1, Zenon DEF isPortfolioClosed
<1>3. describe(cases, c).item = trackingRow(c, states[c.identity], closed, group)
  BY DEF describe
<1> HIDE DEF closed, group
<1>4. trackingRow(c, states[c.identity], closed, group).fullyPaid = closed
  BY DEF trackingRow
<1> QED
  BY <1>2, <1>3, <1>4

\* Of every snapshot: a row of any list is shown as paid off exactly when every obligation
\* of its customer and unit is settled, dated and of a known currency, and the screen of
\* the case says the same (isPortfolioClosed).
LEMMA Closed ==
    ASSUME PaymentViewsAssumption, TypeOK
    PROVE  ClosedIsPaidOff
<1> DEFINE RowIsRight(all, row) ==
             LET same == {n \in DOMAIN rows : rows[n].identity.customer = row.identity.customer
                                              /\ rows[n].identity.unit = row.identity.unit} IN
             /\ row.fullyPaid <=> \A n \in same : outstanding(rows[n]) = 0 /\ rows[n].dueDate # None
                                                  /\ rows[n].identity.currency # None
             /\ \A c \in all : c.identity = row.identity => describe(all, c).item.fullyPaid = row.fullyPaid
<1>0. ClosedIsPaidOff <=>
        \A all \in {Cases}, q \in CurrencyQueries, k \in Kinds :
          \A row \in CurrencyRows(all, [q EXCEPT !.paymentKind = k]) : RowIsRight(all, row)
  BY DEF ClosedIsPaidOff
<1> HIDE DEF RowIsRight
<1> SUFFICES ASSUME NEW q \in CurrencyQueries, NEW k \in Kinds,
                    NEW row \in CurrencyRows(Cases, [q EXCEPT !.paymentKind = k])
             PROVE  RowIsRight(Cases, row)
  BY <1>0, Zenon
<1> DEFINE same == {n \in DOMAIN rows : rows[n].identity.customer = row.identity.customer
                                         /\ rows[n].identity.unit = row.identity.unit}
           Settled == \A n \in same : outstanding(rows[n]) = 0 /\ rows[n].dueDate # None
                                      /\ rows[n].identity.currency # None
<1>1. PICK d \in Cases : row.identity = d.identity /\ row.fullyPaid = isPortfolioClosed(d, Cases)
  BY RowOfCase
<1>2. ASSUME NEW c, c.identity = row.identity
      PROVE  isPortfolioClosed(c, Cases) <=> Settled
  <2> DEFINE Good(n) == outstanding(rows[n]) = 0 /\ rows[n].dueDate # None
                        /\ rows[n].identity.currency # None
  <2>1. isPortfolioClosed(c, Cases) <=>
             \A n \in DOMAIN rows : SameFile(rows[n].identity, c.identity) => Good(n)
    BY FileIsClosed
  <2>2. Settled <=> \A n \in same : Good(n)
    OBVIOUS
  <2>3. \A n : n \in same <=> n \in DOMAIN rows /\ SameFile(rows[n].identity, c.identity)
    BY <1>2 DEF SameFile
  <2> HIDE DEF Good, same, Settled
  <2> QED
    BY <2>1, <2>2, <2>3, Zenon
<1>3. row.fullyPaid <=> Settled
  <2>1. isPortfolioClosed(d, Cases) <=> Settled
    BY <1>1, <1>2
  <2> QED
    BY <1>1, <2>1, Zenon
<1>4. ASSUME NEW c \in Cases, c.identity = row.identity
      PROVE  describe(Cases, c).item.fullyPaid = row.fullyPaid
  <2>1. Portfolio(Cases, c) = Portfolio(Cases, d)
    BY <1>1, <1>4 DEF Portfolio
  <2>2. isPortfolioClosed(c, Cases) = isPortfolioClosed(d, Cases)
    BY <2>1, Zenon DEF isPortfolioClosed
  <2> QED
    BY <1>1, <2>2, ItemIs
<1> QED
  BY <1>3, <1>4 DEF RowIsRight

-----------------------------------------------------------------------------
(* The kinds of payment divide a case.                                     *)

Fields == {"amount", "paid", "outstanding", "overdueAmount", "incompleteRows"}

\* What a line adds to a figure.
Weight(f) ==
    [l \in Lines |-> CASE f = "amount" -> Known(l.amount)
                       [] f = "paid" -> Known(l.paid)
                       [] f = "outstanding" -> Known(l.outstanding)
                       [] f = "overdueAmount" -> Known(l.overdueAmount)
                       [] f = "incompleteRows" -> IF l.incomplete THEN 1 ELSE 0]

\* The weights are integers: known amounts, zero, or one per incomplete row.
LEMMA WeightIs ==
    ASSUME PaymentViewsAssumption, TypeOK, NEW f \in Fields
    PROVE  /\ IntOn(Weight(f), Lines)
           /\ \A l \in Lines :
                /\ f = "amount" => Weight(f)[l] = Known(l.amount)
                /\ f = "paid" => Weight(f)[l] = Known(l.paid)
                /\ f = "outstanding" => Weight(f)[l] = Known(l.outstanding)
                /\ f = "overdueAmount" => Weight(f)[l] = Known(l.overdueAmount)
                /\ f = "incompleteRows" => Weight(f)[l] = IF l.incomplete THEN 1 ELSE 0
<1>0. None \notin Int
  BY DEF PaymentViewsAssumption
<1>1. \A l \in Lines :
                /\ f = "amount" => Weight(f)[l] = Known(l.amount)
                /\ f = "paid" => Weight(f)[l] = Known(l.paid)
                /\ f = "outstanding" => Weight(f)[l] = Known(l.outstanding)
                /\ f = "overdueAmount" => Weight(f)[l] = Known(l.overdueAmount)
                /\ f = "incompleteRows" => Weight(f)[l] = IF l.incomplete THEN 1 ELSE 0
  BY DEF Weight, Fields
<1>2. ASSUME NEW x \in IntOrNone PROVE Known(x) \in Int
  BY <1>0 DEF Known, Plus, IntOrNone
<1>3. ASSUME NEW l \in Lines PROVE Weight(f)[l] \in Int
  <2>1. GoodLine(l)
    BY LinesAreGood
  <2>2. {l.amount, l.paid, l.outstanding, l.overdueAmount} \subseteq IntOrNone
    BY <2>1 DEF GoodLine, IntOrNone
  <2>3. CASE f = "amount"
    BY <1>1, <1>2, <2>2, <2>3
  <2>4. CASE f = "paid"
    BY <1>1, <1>2, <2>2, <2>4
  <2>5. CASE f = "outstanding"
    BY <1>1, <1>2, <2>2, <2>5
  <2>6. CASE f = "overdueAmount"
    BY <1>1, <1>2, <2>2, <2>6
  <2>7. CASE f = "incompleteRows"
    BY <1>1, <2>7
  <2> QED
    BY <2>3, <2>4, <2>5, <2>6, <2>7 DEF Fields
<1> QED
  BY <1>1, <1>3 DEF IntOn

\* Counting is summing.
LEMMA CountIs ==
    ASSUME NEW w, NEW S, IsFiniteSet(S), NEW T \in SUBSET S,
           \A x \in S : w[x] = IF x \in T THEN 1 ELSE 0
    PROVE  /\ SumFunctionOnSet(w, S) = Cardinality(T)
           /\ Cardinality(T) \in Nat
<1> DEFINE R == S \ T
<1>1. IsFiniteSet(T) /\ IsFiniteSet(R) /\ T \cap R = {} /\ T \cup R = S
  BY FS_Subset
<1>2. IntOn(w, T \cup R) /\ (\A x \in T : w[x] = 1) /\ (\A x \in R : w[x] = 0)
  BY DEF IntOn
<1> HIDE DEF R
<1>3. SumFunctionOnSet(w, S) = SumFunctionOnSet(w, T) + SumFunctionOnSet(w, R)
  BY <1>1, <1>2, SumUnion
<1>4. SumFunctionOnSet(w, T) = Cardinality(T)
  BY <1>1, <1>2, SumOfOnes
<1>5. SumFunctionOnSet(w, R) = 0
  BY <1>1, <1>2, SumIsNat DEF NatOn
<1>6. Cardinality(T) \in Nat
  BY <1>1, FS_CardinalityType
<1> QED
  BY <1>3, <1>4, <1>5, <1>6

\* What a case says of its lines, however its overdue part is found.
IsCaseOver(c, L) ==
    /\ c.installments = L
    /\ c.amount = sumKnown([l \in L |-> l.amount])
    /\ c.paid = sumKnown([l \in L |-> l.paid])
    /\ c.outstanding = sumKnown([l \in L |-> l.outstanding])
    /\ c.overdueAmount = sumKnown([l \in L |-> l.overdueAmount])
    /\ c.incompleteRows = Cardinality({l \in L : l.incomplete})
    /\ c.oldestDueDate = First(OpenDates(L))

\* The fields of a case, as far as they are known, are sums of its lines' weights.
LEMMA CaseSums ==
    ASSUME PaymentViewsAssumption, TypeOK, NEW L \in SUBSET Lines,
           NEW c, IsCaseOver(c, L), NEW f \in Fields
    PROVE  /\ c[f] \in IntOrNone
           /\ Known(c[f]) = SumFunctionOnSet(Weight(f), L)
<1>0. None \notin Int
  BY DEF PaymentViewsAssumption
<1>1. /\ IsFiniteSet(L) /\ \A l \in L : GoodLine(l)
  BY LinesAreGood, FS_Subset
<1>2. \A l \in L :
                /\ f = "amount" => Weight(f)[l] = Known(l.amount)
                /\ f = "paid" => Weight(f)[l] = Known(l.paid)
                /\ f = "outstanding" => Weight(f)[l] = Known(l.outstanding)
                /\ f = "overdueAmount" => Weight(f)[l] = Known(l.overdueAmount)
                /\ f = "incompleteRows" => Weight(f)[l] = IF l.incomplete THEN 1 ELSE 0
  BY WeightIs
<1> DEFINE w == Weight(f)
<1> HIDE DEF w
<1>3. CASE f = "amount"
  <2> DEFINE v == [l \in L |-> l.amount]
  <2>1. Into(v, L) /\ DOMAIN v = L /\ KnownOn(w, v, L)
    BY <1>1, <1>2, <1>3 DEF Into, KnownOn, GoodLine, IntOrNone, w
  <2>2. c.amount = sumKnown(v)
    BY DEF IsCaseOver
  <2> HIDE DEF v
  <2>3. sumKnown(v) \in IntOrNone /\ Known(sumKnown(v)) = SumFunctionOnSet(w, L)
    BY <1>1, <2>1, SumKnownIs
  <2> QED
    BY <1>3, <2>2, <2>3 DEF w
<1>4. CASE f = "paid"
  <2> DEFINE v == [l \in L |-> l.paid]
  <2>1. Into(v, L) /\ DOMAIN v = L /\ KnownOn(w, v, L)
    BY <1>1, <1>2, <1>4 DEF Into, KnownOn, GoodLine, IntOrNone, w
  <2>2. c.paid = sumKnown(v)
    BY DEF IsCaseOver
  <2> HIDE DEF v
  <2>3. sumKnown(v) \in IntOrNone /\ Known(sumKnown(v)) = SumFunctionOnSet(w, L)
    BY <1>1, <2>1, SumKnownIs
  <2> QED
    BY <1>4, <2>2, <2>3 DEF w
<1>5. CASE f = "outstanding"
  <2> DEFINE v == [l \in L |-> l.outstanding]
  <2>1. Into(v, L) /\ DOMAIN v = L /\ KnownOn(w, v, L)
    BY <1>1, <1>2, <1>5 DEF Into, KnownOn, GoodLine, IntOrNone, w
  <2>2. c.outstanding = sumKnown(v)
    BY DEF IsCaseOver
  <2> HIDE DEF v
  <2>3. sumKnown(v) \in IntOrNone /\ Known(sumKnown(v)) = SumFunctionOnSet(w, L)
    BY <1>1, <2>1, SumKnownIs
  <2> QED
    BY <1>5, <2>2, <2>3 DEF w
<1>6. CASE f = "overdueAmount"
  <2> DEFINE v == [l \in L |-> l.overdueAmount]
  <2>1. Into(v, L) /\ DOMAIN v = L /\ KnownOn(w, v, L)
    BY <1>1, <1>2, <1>6 DEF Into, KnownOn, GoodLine, IntOrNone, w
  <2>2. c.overdueAmount = sumKnown(v)
    BY DEF IsCaseOver
  <2> HIDE DEF v
  <2>3. sumKnown(v) \in IntOrNone /\ Known(sumKnown(v)) = SumFunctionOnSet(w, L)
    BY <1>1, <2>1, SumKnownIs
  <2> QED
    BY <1>6, <2>2, <2>3 DEF w
<1>7. CASE f = "incompleteRows"
  <2> DEFINE T == {l \in L : l.incomplete}
  <2>1. T \in SUBSET L /\ \A x \in L : w[x] = IF x \in T THEN 1 ELSE 0
    BY <1>2, <1>7 DEF w
  <2>2. c.incompleteRows = Cardinality(T)
    BY DEF IsCaseOver
  <2> HIDE DEF T
  <2>3. SumFunctionOnSet(w, L) = Cardinality(T) /\ Cardinality(T) \in Nat
    BY <1>1, <2>1, CountIs
  <2> QED
    BY <1>0, <1>7, <2>2, <2>3 DEF w, Known, Plus, IntOrNone
<1> QED
  BY <1>3, <1>4, <1>5, <1>6, <1>7 DEF Fields

Apart(lines, P) == \A p, q \in P : p # q => lines[p] \cap lines[q] = {}

\* The sum of what is known of the parts is the sum over the whole.
LEMMA SumOfParts ==
    ASSUME PaymentViewsAssumption, NEW P, IsFiniteSet(P), NEW L, IsFiniteSet(L),
           NEW w, IntOn(w, L), NEW lines \in [P -> SUBSET L], Apart(lines, P),
           NEW value, DOMAIN value = P, Into(value, P),
           \A p \in P : Known(value[p]) = SumFunctionOnSet(w, lines[p])
    PROVE  /\ sumKnown(value) \in IntOrNone
           /\ Known(sumKnown(value)) = SumFunctionOnSet(w, Joined(lines, P))
           /\ sumKnown(value) = None <=> P # {} /\ \A p \in P : value[p] = None
<1> DEFINE t == [p \in P |-> Known(value[p])]
<1>1. KnownOn(t, value, P) /\ \A p \in P : t[p] = SumFunctionOnSet(w, lines[p])
  BY DEF KnownOn
<1>2. \A p, q \in P : p # q => lines[p] \cap lines[q] = {}
  BY DEF Apart
<1> HIDE DEF t
<1>3. SumFunctionOnSet(t, P) = SumFunctionOnSet(w, Joined(lines, P))
  BY <1>1, <1>2, SumParts
<1>4. /\ sumKnown(value) \in IntOrNone
      /\ Known(sumKnown(value)) = SumFunctionOnSet(t, P)
      /\ sumKnown(value) = None <=> P # {} /\ \A x \in P : value[x] = None
  BY <1>1, SumKnownIs
<1> QED
  BY <1>3, <1>4

\* A finite set has finitely many values of a function.
LEMMA ImageIsFinite ==
    ASSUME NEW S, IsFiniteSet(S), NEW f, NEW T, \A y \in T : \E x \in S : y = f[x]
    PROVE  IsFiniteSet(T)
<1> DEFINE g == [x \in S |-> f[x]]
           R == {g[x] : x \in S}
<1>1. g \in Surjection(S, R)
  BY DEF Surjection
<1>2. IsFiniteSet(R)
  <2> HIDE DEF g, R
  <2> QED
    BY <1>1, FS_Surjection
<1>3. T \subseteq R
  OBVIOUS
<1> QED
  BY <1>2, <1>3, FS_Subset

\* The oldest of some dates is one of them and not after any.
LEMMA FirstIs ==
    ASSUME NEW S \in SUBSET Nat, S # {}
    PROVE  First(S) \in S /\ \A d \in S : First(S) <= d
<1>1. PICK m \in S : \A d \in S : <<d, m>> \notin OpToRel(<, Nat)
  BY NatLessThanWellFounded, WFMin
<1>2. ASSUME NEW d \in S PROVE m <= d
  <2>1. CASE d < m
    <3>1. <<d, m>> \in Nat \X Nat
      OBVIOUS
    <3>2. <<d, m>> \in OpToRel(<, Nat)
      BY <2>1, <3>1 DEF OpToRel
    <3> QED
      BY <1>1, <3>2
  <2> QED
    BY <2>1
<1>3. \E x \in S : \A d \in S : x <= d
  BY <1>2
<1>4. Min(S) \in S /\ \A d \in S : Min(S) <= d
  BY <1>3, Zenon DEF Min
<1> QED
  BY <1>4 DEF First

OfKind(L, kind) == {l \in L : l.kind = kind}

KindPart(c, kind) ==
    CaseOver(c.identity, OfKind(c.installments, kind),
             [l \in OfKind(c.installments, kind) |-> timedAmount(l, "overdue")])

\* A part of a case says of its own lines what the case says of all.
LEMMA PartIs ==
    ASSUME PaymentViewsAssumption, TypeOK, NEW c, NEW L, c.installments = L, L \in SUBSET Lines,
           NEW kind
    PROVE  /\ IsCaseOver(KindPart(c, kind), OfKind(L, kind))
           /\ KindPart(c, kind).identity = c.identity
<1> DEFINE S == OfKind(L, kind)
           timed == [l \in S |-> timedAmount(l, "overdue")]
           given == [l \in S |-> l.overdueAmount]
<1>0. None \notin Int
  BY DEF PaymentViewsAssumption
<1>1. S \in SUBSET Lines
  BY DEF OfKind
<1>2. ASSUME NEW l \in S PROVE timedAmount(l, "overdue") = l.overdueAmount
  <2>1. GoodLine(l)
    BY <1>1, LinesAreGood
  <2> QED
    BY <1>0, <2>1 DEF GoodLine, timedAmount
<1>3. timed = given
  BY <1>2
<1>4. KindPart(c, kind) = CaseOver(c.identity, S, timed)
  BY DEF KindPart
<1> HIDE DEF S, timed, given
<1>5. KindPart(c, kind) = CaseOver(c.identity, S, given)
  BY <1>3, <1>4
<1>6. CaseOver(c.identity, S, given).identity = c.identity
  BY DEF CaseOver
<1>7. given = [l \in S |-> l.overdueAmount]
  BY DEF given
<1>8. IsCaseOver(CaseOver(c.identity, S, given), S)
  BY <1>7 DEF CaseOver, IsCaseOver
<1> QED
  BY <1>5, <1>6, <1>8 DEF S

\* A case has at most one part of a kind, over its lines of that kind.
LEMMA PartsAre ==
    ASSUME NEW c, NEW kind
    PROVE  selectPaymentKind(c, kind) =
             IF kind = "all" THEN {c}
             ELSE IF OfKind(c.installments, kind) = {} THEN {} ELSE {KindPart(c, kind)}
  BY DEF selectPaymentKind, OfKind, KindPart

\* A case of the snapshot has all lines of its identity, and at least one.
LEMMA CaseFacts ==
    ASSUME PaymentViewsAssumption, TypeOK, NEW c \in Cases
    PROVE  /\ c.identity \in CaseIdentities
           /\ c = sourceCase(c.identity, LinesOf(c.identity))
           /\ IsCaseOver(c, LinesOf(c.identity))
           /\ c.installments = LinesOf(c.identity)
           /\ LinesOf(c.identity) \in SUBSET Lines
           /\ LinesOf(c.identity) # {}
           /\ IsFiniteSet(LinesOf(c.identity))
           /\ \A l \in LinesOf(c.identity) : l.identity = c.identity
<1>1. PICK i \in CaseIdentities : c = sourceCase(i, LinesOf(i))
  BY CasesAre DEF CaseIdentities
<1> DEFINE L == LinesOf(i)
<1>2. /\ L \in SUBSET Lines /\ L # {} /\ IsFiniteSet(L)
      /\ \A l \in L : l.identity = i
  BY LinesAreGood, CasesAre DEF LinesOf, CaseIdentities
<1> HIDE DEF L
<1>3. sourceCase(i, L).identity = i /\ IsCaseOver(sourceCase(i, L), L)
  BY DEF sourceCase, CaseOver, IsCaseOver
<1>4. c.identity = i
  BY <1>1, <1>3 DEF L
<1>5. c = sourceCase(i, L) /\ c.installments = L /\ IsCaseOver(c, L)
  BY <1>1, <1>3 DEF L, IsCaseOver
<1> QED
  BY <1>2, <1>4, <1>5 DEF L

\* The parts of a case by kind, and their lines.
LEMMA KindParts ==
    ASSUME PaymentViewsAssumption, TypeOK, NEW c \in Cases,
           NEW parts, parts = UNION {selectPaymentKind(c, k) : k \in Kinds},
           NEW lines, lines = [p \in parts |-> p.installments]
    PROVE  /\ IsFiniteSet(parts)
           /\ \A p \in parts : IsCaseOver(p, lines[p])
           /\ lines \in [parts -> SUBSET LinesOf(c.identity)]
           /\ Apart(lines, parts)
           /\ Joined(lines, parts) = LinesOf(c.identity)
<1> DEFINE L == LinesOf(c.identity)
           part == [l \in L |-> KindPart(c, l.kind)]
<1>1. /\ L \in SUBSET Lines /\ IsFiniteSet(L) /\ c.installments = L
  BY CaseFacts
<1>2. \A l \in L : l.kind \in Kinds
  <2>1. ASSUME NEW n \in DOMAIN rows PROVE normalizedRow(n).kind \in Kinds
    <3>1. rows[n] \in Rows /\ normalizedRow(n).kind = rows[n].kind
      BY RowGivesLine DEF TypeOK
    <3> QED
      BY <3>1 DEF Kinds
  <2> QED
    BY <1>1, <2>1 DEF Lines
<1>3. \A k \in Kinds : k # "all"
  BY DEF Kinds, PaymentViewsAssumption
<1> HIDE DEF L
<1>4. \A k : IsCaseOver(KindPart(c, k), OfKind(L, k))
  BY <1>1, PartIs
<1>5. \A k : KindPart(c, k).installments = OfKind(L, k)
  BY <1>4 DEF IsCaseOver
<1>6. \A k \in Kinds : selectPaymentKind(c, k) = IF OfKind(L, k) = {} THEN {} ELSE {KindPart(c, k)}
  BY <1>1, <1>3, PartsAre
<1>7. \A p \in parts : \E k \in Kinds : OfKind(L, k) # {} /\ p = KindPart(c, k)
  BY <1>6
<1>8. \A l \in L : part[l] \in parts /\ part[l] = KindPart(c, l.kind) /\ l \in OfKind(L, l.kind)
  BY <1>2, <1>6 DEF OfKind
<1> HIDE DEF part
<1>9. \A p \in parts : \E l \in L : p = part[l]
  BY <1>7, <1>8 DEF OfKind
<1>10. IsFiniteSet(parts)
  BY <1>1, <1>9, ImageIsFinite
<1>11. \A p \in parts : IsCaseOver(p, lines[p])
  BY <1>4, <1>5, <1>7
<1>12. lines \in [parts -> SUBSET L]
  BY <1>5, <1>7 DEF OfKind
<1>13. Apart(lines, parts)
  BY <1>5, <1>7 DEF OfKind, Apart
<1>14. Joined(lines, parts) = L
  <2>1. \A l \in L : l \in lines[part[l]]
    BY <1>5, <1>8
  <2> QED
    BY <1>8, <1>12, <2>1 DEF Joined
<1> QED
  BY <1>10, <1>11, <1>12, <1>13, <1>14 DEF L

DivideIn(c, parts, f) == Plus(c[f], 0) = Plus(sumKnown([k \in parts |-> k[f]]), 0)

\* Each field of a case is divided among its kinds: every line is of one kind.
LEMMA PartsDivide ==
    ASSUME PaymentViewsAssumption, TypeOK, NEW c \in Cases,
           NEW parts, parts = UNION {selectPaymentKind(c, k) : k \in Kinds},
           NEW f \in Fields
    PROVE  DivideIn(c, parts, f)
<1> DEFINE L == LinesOf(c.identity)
           lines == [p \in parts |-> p.installments]
           value == [p \in parts |-> p[f]]
           w == Weight(f)
<1>1. /\ L \in SUBSET Lines /\ IsFiniteSet(L) /\ IsCaseOver(c, L)
  BY CaseFacts
<1>2. lines = [p \in parts |-> p.installments]
  OBVIOUS
<1> HIDE DEF lines
<1>3. /\ IsFiniteSet(parts)
      /\ \A p \in parts : IsCaseOver(p, lines[p])
      /\ lines \in [parts -> SUBSET L]
      /\ Apart(lines, parts)
      /\ Joined(lines, parts) = L
  BY <1>2, KindParts
<1> HIDE DEF L
<1>4. \A p \in parts : p[f] \in IntOrNone /\ Known(p[f]) = SumFunctionOnSet(w, lines[p])
  <2>1. \A p \in parts : lines[p] \in SUBSET Lines
    BY <1>1, <1>3
  <2> QED
    BY <1>3, <2>1, CaseSums
<1>5. Known(c[f]) = SumFunctionOnSet(w, L)
  BY <1>1, CaseSums
<1>6. IntOn(w, L)
  <2>1. IntOn(w, Lines)
    BY WeightIs
  <2> QED
    BY <1>1, <2>1 DEF IntOn
<1>7. DOMAIN value = parts /\ \A p \in parts : value[p] = p[f]
  OBVIOUS
<1>8. value = [k \in parts |-> k[f]]
  OBVIOUS
<1> HIDE DEF value, w
<1>9. Into(value, parts) /\ \A p \in parts : Known(value[p]) = SumFunctionOnSet(w, lines[p])
  BY <1>4, <1>7 DEF Into
<1>10. Known(sumKnown(value)) = SumFunctionOnSet(w, Joined(lines, parts))
  BY <1>1, <1>3, <1>6, <1>7, <1>9, SumOfParts
<1>11. Known(c[f]) = Known(sumKnown(value))
  BY <1>3, <1>5, <1>10
<1> QED
  BY <1>8, <1>11 DEF DivideIn, Known

\* The open dates of some lines are those of each of them.
LEMMA OpenDatesAre ==
    ASSUME PaymentViewsAssumption, TypeOK, NEW L \in SUBSET Lines
    PROVE  /\ OpenDates(L) \in SUBSET Nat
           /\ \A d : d \in OpenDates(L) <=> d \in UNION {OpenDates({l}) : l \in L}
<1>0. None \notin Int
  BY DEF PaymentViewsAssumption
<1>1. \A l \in L : GoodLine(l)
  BY LinesAreGood
<1>2. OpenDates(L) \in SUBSET Nat
  BY <1>1 DEF OpenDates, GoodLine
<1> QED
  BY <1>2 DEF OpenDates

\* The oldest open date of a case is the oldest of its kinds.
LEMMA OldestOfParts ==
    ASSUME PaymentViewsAssumption, TypeOK, NEW c \in Cases,
           NEW parts, parts = UNION {selectPaymentKind(c, k) : k \in Kinds}
    PROVE  /\ c.oldestDueDate = First({k.oldestDueDate : k \in parts} \ {None})
           /\ \A k \in parts : k.oldestDueDate \in OpenDates(k.installments) \cup {None}
<1> DEFINE L == LinesOf(c.identity)
           lines == [p \in parts |-> p.installments]
           oldest == {k.oldestDueDate : k \in parts} \ {None}
<1>0. None \notin Int
  BY DEF PaymentViewsAssumption
<1>1. /\ L \in SUBSET Lines /\ c.oldestDueDate = First(OpenDates(L))
  BY CaseFacts DEF IsCaseOver
<1>2. lines = [p \in parts |-> p.installments]
  OBVIOUS
<1> HIDE DEF lines
<1>3. /\ \A p \in parts : IsCaseOver(p, lines[p])
      /\ lines \in [parts -> SUBSET L]
      /\ Joined(lines, parts) = L
  BY <1>2, KindParts
<1> HIDE DEF L
<1>4. \A p \in parts : p.oldestDueDate = First(OpenDates(lines[p])) /\ p.installments = lines[p]
  BY <1>3 DEF IsCaseOver
<1>5. \A p \in parts :
        OpenDates(lines[p]) \in SUBSET Nat /\ OpenDates(lines[p]) \subseteq OpenDates(L)
  BY <1>1, <1>3, OpenDatesAre DEF OpenDates
<1>6. OpenDates(L) \in SUBSET Nat
  BY <1>1, OpenDatesAre
<1>7. \A d \in OpenDates(L) : \E p \in parts : d \in OpenDates(lines[p])
  BY <1>3 DEF OpenDates, Joined
<1>8. \A S \in SUBSET Nat : S # {} => First(S) \in S /\ \A d \in S : First(S) <= d
  BY FirstIs
<1>9. \A p \in parts : p.oldestDueDate \in OpenDates(lines[p]) \cup {None}
  BY <1>4, <1>5, <1>8 DEF First
<1>10. oldest \in SUBSET Nat /\ oldest \subseteq OpenDates(L)
  BY <1>5, <1>9
<1>11. \A d \in OpenDates(L) : \E e \in oldest : e <= d
  <2> SUFFICES ASSUME NEW d \in OpenDates(L) PROVE \E e \in oldest : e <= d
    OBVIOUS
  <2>1. PICK p \in parts : d \in OpenDates(lines[p])
    BY <1>7
  <2>2. p.oldestDueDate \in OpenDates(lines[p]) /\ p.oldestDueDate <= d
    BY <1>4, <1>5, <1>8, <2>1
  <2>3. p.oldestDueDate \in oldest
    BY <1>0, <1>5, <2>2
  <2> QED
    BY <2>2, <2>3
<1> HIDE DEF oldest
<1>12. First(OpenDates(L)) = First(oldest)
  <2>1. CASE OpenDates(L) = {}
    BY <1>10, <2>1
  <2>2. CASE OpenDates(L) # {}
    <3>1. oldest # {}
      BY <1>11, <2>2
    <3> DEFINE a == First(OpenDates(L))
               b == First(oldest)
    <3>2. a \in OpenDates(L) /\ (\A d \in OpenDates(L) : a <= d)
          /\ b \in oldest /\ (\A d \in oldest : b <= d)
      BY <1>6, <1>8, <1>10, <2>2, <3>1
    <3> HIDE DEF a, b
    <3>3. a <= b /\ b <= a
      BY <1>6, <1>10, <1>11, <3>2
    <3>4. a \in Nat /\ b \in Nat
      BY <1>6, <1>10, <3>2
    <3>5. a = b
      BY <3>3, <3>4
    <3> QED
      BY <3>5 DEF a, b
  <2> QED
    BY <2>1, <2>2
<1>13. \A k \in parts : k.oldestDueDate \in OpenDates(k.installments) \cup {None}
  BY <1>4, <1>9
<1> QED
  BY <1>1, <1>12, <1>13 DEF oldest

\* The kinds of payment divide a case (selectPaymentKind): nothing of it is lost between
\* them or counted twice, and its oldest open date is the oldest of theirs.
LEMMA Divided ==
    ASSUME PaymentViewsAssumption, TypeOK
    PROVE  KindsDivideCases
<1> DEFINE Parts(c) == UNION {selectPaymentKind(c, k) : k \in Kinds}
           Oldest(c) == /\ c.oldestDueDate = First({k.oldestDueDate : k \in Parts(c)} \ {None})
                        /\ \A k \in Parts(c) :
                             k.oldestDueDate \in OpenDates(k.installments) \cup {None}
<1>1. KindsDivideCases <=>
        \A c \in Cases : (\A f \in Fields : DivideIn(c, Parts(c), f)) /\ Oldest(c)
  BY Zenon DEF KindsDivideCases, DivideIn, Fields
<1>2. ASSUME NEW c \in Cases
      PROVE  (\A f \in Fields : DivideIn(c, Parts(c), f)) /\ Oldest(c)
  <2>1. \A f \in Fields : DivideIn(c, Parts(c), f)
    BY PartsDivide
  <2>2. Oldest(c)
    BY OldestOfParts, Zenon
  <2> QED
    BY <2>1, <2>2
<1> QED
  BY <1>1, <1>2

-----------------------------------------------------------------------------
(* The parts of a report make up the whole.                                *)

Counts == {"installmentCount", "incompleteRows"}
Money  == {"overdue", "outstanding"}

\* What a line adds to a figure of the report.
Share(f) ==
    [l \in Lines |-> CASE f = "installmentCount" -> 1
                       [] f = "incompleteRows" -> IF l.incomplete THEN 1 ELSE 0
                       [] f = "overdue" -> Known(overdueAmount(l))
                       [] f = "outstanding" -> Known(l.outstanding)]

\* What a line adds to a figure of the report is an integer.
LEMMA ShareIs ==
    ASSUME PaymentViewsAssumption, TypeOK, NEW f \in Counts \cup Money
    PROVE  /\ IntOn(Share(f), Lines)
           /\ \A l \in Lines :
                /\ f = "installmentCount" => Share(f)[l] = 1
                /\ f = "incompleteRows" => Share(f)[l] = IF l.incomplete THEN 1 ELSE 0
                /\ f = "overdue" => Share(f)[l] = Known(overdueAmount(l))
                /\ f = "outstanding" => Share(f)[l] = Known(l.outstanding)
                /\ {overdueAmount(l), l.outstanding} \subseteq IntOrNone
<1>0. None \notin Int /\ asOf \in Nat
  BY DEF PaymentViewsAssumption
<1>1. \A l \in Lines :
                /\ f = "installmentCount" => Share(f)[l] = 1
                /\ f = "incompleteRows" => Share(f)[l] = IF l.incomplete THEN 1 ELSE 0
                /\ f = "overdue" => Share(f)[l] = Known(overdueAmount(l))
                /\ f = "outstanding" => Share(f)[l] = Known(l.outstanding)
  BY DEF Share, Counts, Money
<1>2. ASSUME NEW x \in IntOrNone PROVE Known(x) \in Int
  BY <1>0 DEF Known, Plus, IntOrNone
<1>3. ASSUME NEW l \in Lines PROVE {overdueAmount(l), l.outstanding} \subseteq IntOrNone
  <2>1. GoodLine(l)
    BY LinesAreGood
  <2> QED
    BY <1>0, <2>1 DEF GoodLine, IntOrNone, overdueAmount
<1>4. ASSUME NEW l \in Lines PROVE Share(f)[l] \in Int
  <2>1. CASE f = "installmentCount"
    BY <1>1, <2>1
  <2>2. CASE f = "incompleteRows"
    BY <1>1, <2>2
  <2>3. CASE f = "overdue"
    BY <1>1, <1>2, <1>3, <2>3
  <2>4. CASE f = "outstanding"
    BY <1>1, <1>2, <1>3, <2>4
  <2> QED
    BY <2>1, <2>2, <2>3, <2>4 DEF Counts, Money
<1> QED
  BY <1>1, <1>3, <1>4 DEF IntOn

Total(f, L) == SumFunctionOnSet(Share(f), L)

\* The totals of some lines are sums of the lines' shares; amounts as far as they are known.
LEMMA TotalsAre ==
    ASSUME PaymentViewsAssumption, TypeOK, NEW L \in SUBSET Lines, NEW f \in Counts \cup Money
    PROVE  /\ Total(f, L) \in Int
           /\ f \in Counts => totals(L)[f] = Total(f, L)
           /\ f \in Money => totals(L)[f] \in IntOrNone /\ Known(totals(L)[f]) = Total(f, L)
<1> DEFINE w == Share(f)
           open == [l \in L |-> l.outstanding]
           late == [l \in L |-> overdueAmount(l)]
           partial == {l \in L : l.incomplete}
<1>1. IsFiniteSet(L)
  BY LinesAreGood, FS_Subset
<1>2. \A l \in L :
                /\ f = "installmentCount" => w[l] = 1
                /\ f = "incompleteRows" => w[l] = IF l.incomplete THEN 1 ELSE 0
                /\ f = "overdue" => w[l] = Known(overdueAmount(l))
                /\ f = "outstanding" => w[l] = Known(l.outstanding)
                /\ {overdueAmount(l), l.outstanding} \subseteq IntOrNone
  BY ShareIs
<1>3. IntOn(w, L)
  <2>1. IntOn(w, Lines)
    BY ShareIs
  <2> QED
    BY <2>1 DEF IntOn
<1>4. /\ totals(L).installmentCount = Cardinality(L)
      /\ totals(L).incompleteRows = Cardinality(partial)
      /\ totals(L).overdue = sumKnown(late)
      /\ totals(L).outstanding = sumKnown(open)
  BY DEF totals
<1>5. /\ Into(open, L) /\ DOMAIN open = L /\ \A l \in L : open[l] = l.outstanding
      /\ Into(late, L) /\ DOMAIN late = L /\ \A l \in L : late[l] = overdueAmount(l)
  BY <1>2 DEF Into
<1>6. partial \in SUBSET L /\ \A l \in L : l \in partial <=> l.incomplete
  OBVIOUS
<1>7. Total(f, L) = SumFunctionOnSet(w, L)
  BY DEF Total
<1> HIDE DEF w, open, late, partial
<1>8. Total(f, L) \in Int
  BY <1>1, <1>3, <1>7, SumIsInt
<1>9. CASE f = "installmentCount"
  BY <1>1, <1>2, <1>4, <1>7, <1>8, <1>9, SumOfOnes DEF Money
<1>10. CASE f = "incompleteRows"
  <2>1. \A x \in L : w[x] = IF x \in partial THEN 1 ELSE 0
    BY <1>2, <1>6, <1>10
  <2>2. SumFunctionOnSet(w, L) = Cardinality(partial)
    BY <1>1, <1>6, <2>1, CountIs
  <2> QED
    BY <1>4, <1>7, <1>8, <1>10, <2>2 DEF Money
<1>11. CASE f = "overdue"
  <2>1. KnownOn(w, late, L)
    BY <1>2, <1>5, <1>11 DEF KnownOn
  <2>2. sumKnown(late) \in IntOrNone /\ Known(sumKnown(late)) = SumFunctionOnSet(w, L)
    BY <1>1, <1>5, <2>1, SumKnownIs
  <2> QED
    BY <1>4, <1>7, <1>8, <1>11, <2>2 DEF Counts
<1>12. CASE f = "outstanding"
  <2>1. KnownOn(w, open, L)
    BY <1>2, <1>5, <1>12 DEF KnownOn
  <2>2. sumKnown(open) \in IntOrNone /\ Known(sumKnown(open)) = SumFunctionOnSet(w, L)
    BY <1>1, <1>5, <2>1, SumKnownIs
  <2> QED
    BY <1>4, <1>7, <1>8, <1>12, <2>2 DEF Counts
<1> QED
  BY <1>9, <1>10, <1>11, <1>12 DEF Counts, Money

TotalsOver(p, lines, K) == p = [k \in K |-> totals(lines[k])]

\* A count of a whole is the sum of the counts of its parts.
LEMMA CountsAddUp ==
    ASSUME PaymentViewsAssumption, TypeOK, NEW K, IsFiniteSet(K),
           NEW lines \in [K -> SUBSET Lines], Apart(lines, K), NEW f \in Counts,
           NEW p, TotalsOver(p, lines, K)
    PROVE  Sum(p, f) = totals(Joined(lines, K))[f]
<1> DEFINE t == [k \in DOMAIN p |-> p[k][f]]
           w == Share(f)
<1>1. f \in Counts \cup Money
  OBVIOUS
<1>2. IsFiniteSet(Lines) /\ IntOn(w, Lines)
  BY <1>1, LinesAreGood, ShareIs
<1>3. \A S \in SUBSET Lines : totals(S)[f] = SumFunctionOnSet(w, S)
  BY <1>1, TotalsAre DEF Total
<1>4. Sum(p, f) = SumFunctionOnSet(t, K)
  BY DEF Sum, SumFunction, TotalsOver
<1>5. \A k \in K : t[k] = totals(lines[k])[f]
  BY DEF TotalsOver
<1> HIDE DEF t, w
<1>6. \A k \in K : t[k] = SumFunctionOnSet(w, lines[k])
  BY <1>3, <1>5
<1>7. \A k, m \in K : k # m => lines[k] \cap lines[m] = {}
  BY DEF Apart
<1>8. SumFunctionOnSet(t, K) = SumFunctionOnSet(w, Joined(lines, K))
  BY <1>2, <1>6, <1>7, SumParts
<1>9. Joined(lines, K) \in SUBSET Lines
  BY DEF Joined
<1> QED
  BY <1>3, <1>4, <1>8, <1>9

\* Totals of two disjoint sets of lines add up.
LEMMA TotalOfTwo ==
    ASSUME PaymentViewsAssumption, TypeOK, NEW f \in Counts \cup Money,
           NEW S \in SUBSET Lines, NEW T \in SUBSET Lines, S \cap T = {}
    PROVE  Total(f, S \cup T) = Total(f, S) + Total(f, T)
<1>1. IsFiniteSet(S) /\ IsFiniteSet(T) /\ IntOn(Share(f), S \cup T)
  <2>1. IsFiniteSet(Lines) /\ IntOn(Share(f), Lines)
    BY LinesAreGood, ShareIs
  <2> QED
    BY <2>1, FS_Subset DEF IntOn
<1> QED
  BY <1>1, SumUnion DEF Total

\* The month of a day.
LEMMA MonthIsInt ==
    ASSUME PaymentViewsAssumption, NEW d \in Nat
    PROVE  Month(d) \in Int
  BY DEF Month, PaymentViewsAssumption

ReportLines(cases, u) == UNION {c.installments : c \in {d \in cases : d.identity.currency = u}}

\* A query of the report asks from a known month, or from the next.
IsReportQuery(q) == q.startMonth \in Int \cup {None}

\* The months of the report's window, from its first month to its last.
LEMMA PeriodsAre ==
    ASSUME PaymentViewsAssumption, NEW q, IsReportQuery(q)
    PROVE  /\ Start(q) \in Int
           /\ IsFiniteSet(Periods(q))
           /\ \A m \in Int : m \in Periods(q) <=> Start(q) <= m /\ m <= Start(q) + Months - 1
           /\ Periods(q) \subseteq Int
<1>1. Start(q) \in Int
  <2>1. Month(asOf) \in Int
    BY MonthIsInt DEF PaymentViewsAssumption
  <2> QED
    BY <2>1 DEF Start, IsReportQuery
<1>2. Months \in Int
  BY DEF PaymentViewsAssumption
<1> QED
  BY <1>1, <1>2, FS_Interval DEF Periods

Undated(L) == {l \in L : l.dueDate = None}
Dated(L) == {l \in L : l.dueDate # None}
Overdue(L) == {l \in L : isOverdue(l)}

BeforeWindow(L, q) == {l \in Dated(L) : Month(l.dueDate) < Start(q)}
AfterWindow(L, q) == {l \in Dated(L) : Month(l.dueDate) > Start(q) + Months - 1}
InWindow(L, q) == UNION {InMonth(L, m) : m \in Periods(q)}

\* Figures of the parts of the rows L: months of the window, ages, projects, representatives.
MonthsOver(p, L, q) == p = [m \in Periods(q) |-> totals(InMonth(L, m))]
AgesOver(p, L) == p = [k \in AGING_KEYS |-> totals({l \in L : agingKey(l) = k})]
ProjectsOver(p, L, project) ==
    p = [k \in {project[l.identity] : l \in L} |->
           totals(Overdue({l \in L : project[l.identity] = k}))]
GroupsOver(p, L) ==
    p = [g \in UNION {representativeGroup(l.identity) : l \in L} |->
           totals(Overdue({l \in L : g \in representativeGroup(l.identity)}))]

MonthlyOf(b) == [m \in DOMAIN b.monthly |-> b.monthly[m].totals]
SplitOf(split) == [k \in DOMAIN split |-> split[k].totals.overdue]

\* A block of the report, figure after figure.
Figures(b, L, q, project) ==
    /\ b.totals.summary = totals(L)
    /\ b.totals.overdue = totals(Overdue(Dated(L)))
    /\ b.totals.undated = totals(L \ Dated(L))
    /\ b.totals.beforeWindow = totals(BeforeWindow(L, q))
    /\ b.totals.afterWindow = totals(AfterWindow(L, q))
    /\ b.period.totals = totals(InWindow(L, q))
    /\ MonthsOver(MonthlyOf(b), L, q)
    /\ AgesOver(b.aging, Overdue(Dated(L)))
    /\ ProjectsOver(SplitOf(b.projectBreakdown), L, project)
    /\ GroupsOver(SplitOf(b.representativeBreakdown), L)

\* Which lines each figure of a currency's block is the total of (byCurrency).
LEMMA BlockIs ==
    ASSUME NEW q, NEW cases, NEW u, NEW project, NEW b, b = byCurrency(q, cases, u, project),
           NEW L, L = ReportLines(cases, u)
    PROVE  Figures(b, L, q, project)
<1> USE DEF ReportLines, Overdue, Dated, BeforeWindow, AfterWindow, InWindow
<1>1. \A S : performanceTotals(S).totals = totals(S)
  BY DEF performanceTotals
<1>2. \A S : breakdown(S, q).totals.overdue = totals(Overdue(S))
  BY DEF breakdown, TotalsOf
<1>3. b.totals.summary = totals(L)
  BY DEF byCurrency, TotalsOf
<1>4. b.totals.overdue = totals(Overdue(Dated(L)))
  BY DEF byCurrency, TotalsOf
<1>5. b.totals.undated = totals(L \ Dated(L))
  BY DEF byCurrency, TotalsOf
<1>6. b.totals.beforeWindow = totals(BeforeWindow(L, q))
  BY DEF byCurrency, TotalsOf
<1>7. b.totals.afterWindow = totals(AfterWindow(L, q))
  BY DEF byCurrency, TotalsOf
<1>8. b.period.totals = totals(InWindow(L, q))
  BY <1>1 DEF byCurrency
<1>9. [m \in DOMAIN b.monthly |-> b.monthly[m].totals]
        = [m \in Periods(q) |-> totals(InMonth(L, m))]
  <2>1. b.monthly = [m \in Periods(q) |-> performanceTotals(InMonth(L, m))]
    BY DEF byCurrency, PerformanceOf
  <2> QED
    BY <1>1, <2>1
<1>10. b.aging = [k \in AGING_KEYS |-> totals({l \in Overdue(Dated(L)) : agingKey(l) = k})]
  BY DEF byCurrency, TotalsOf
<1>11. [k \in DOMAIN b.projectBreakdown |-> b.projectBreakdown[k].totals.overdue] =
         [p \in {project[l.identity] : l \in L} |->
            totals(Overdue({l \in L : project[l.identity] = p}))]
  <2>1. b.projectBreakdown = [p \in {project[l.identity] : l \in L} |->
                                breakdown({l \in L : project[l.identity] = p}, q)]
    BY DEF byCurrency
  <2> QED
    BY <1>2, <2>1
<1>12. [k \in DOMAIN b.representativeBreakdown |-> b.representativeBreakdown[k].totals.overdue] =
         [g \in UNION {representativeGroup(l.identity) : l \in L} |->
            totals(Overdue({l \in L : g \in representativeGroup(l.identity)}))]
  <2>1. b.representativeBreakdown =
          [g \in UNION {representativeGroup(l.identity) : l \in L} |->
             breakdown({l \in L : g \in representativeGroup(l.identity)}, q)]
    BY DEF byCurrency
  <2> QED
    BY <1>2, <2>1
<1> QED
  BY <1>3, <1>4, <1>5, <1>6, <1>7, <1>8, <1>9, <1>10, <1>11, <1>12
     DEF Figures, MonthsOver, AgesOver, ProjectsOver, GroupsOver, MonthlyOf, SplitOf

\* Lines of the snapshot have a date that falls in a month, or none.
LEMMA LinesKnown ==
    ASSUME PaymentViewsAssumption, TypeOK, NEW L \in SUBSET Lines
    PROVE  /\ IsFiniteSet(L)
           /\ \A l \in L : /\ l.dueDate \in Nat \cup {None}
                           /\ l.dueDate # None => Month(l.dueDate) \in Int
                           /\ l.identity \in Range(Identities)
<1>1. IsFiniteSet(L)
  BY LinesAreGood, FS_Subset
<1>2. \A l \in L : GoodLine(l)
  BY LinesAreGood
<1>3. \A l \in L : l.dueDate \in Nat \cup {None} /\ l.identity \in Range(Identities)
  BY <1>2 DEF GoodLine
<1>4. \A d \in Nat : Month(d) \in Int
  BY MonthIsInt
<1> QED
  BY <1>1, <1>3, <1>4

\* A row has no date, or is due before, in or after the window.
LEMMA WindowDivides ==
    ASSUME PaymentViewsAssumption, TypeOK, NEW L \in SUBSET Lines, NEW q, IsReportQuery(q),
           NEW f \in Counts \cup Money
    PROVE  Total(f, L) = Total(f, L \ Dated(L)) + Total(f, BeforeWindow(L, q))
                           + Total(f, InWindow(L, q)) + Total(f, AfterWindow(L, q))
<1> DEFINE A == L \ Dated(L)
           B == BeforeWindow(L, q)
           C == InWindow(L, q)
           D == AfterWindow(L, q)
<1>1. \A l \in L : l.dueDate # None => Month(l.dueDate) \in Int
  BY LinesKnown
<1>2. /\ Start(q) \in Int /\ Months \in Nat \ {0}
      /\ \A m \in Int : m \in Periods(q) <=> Start(q) <= m /\ m <= Start(q) + Months - 1
  BY PeriodsAre DEF PaymentViewsAssumption
<1>3. \A l \in L : l \in C <=> l.dueDate # None /\ Month(l.dueDate) \in Periods(q)
  BY DEF InWindow, InMonth
<1>4. C \subseteq L
  BY DEF InWindow, InMonth
<1>5. /\ \A l \in L : l \in A <=> l.dueDate = None
      /\ \A l \in L : l \in B <=> l.dueDate # None /\ Month(l.dueDate) < Start(q)
      /\ \A l \in L : l \in D <=> l.dueDate # None /\ Month(l.dueDate) > Start(q) + Months - 1
      /\ A \subseteq L /\ B \subseteq L /\ D \subseteq L
  BY DEF Dated, BeforeWindow, AfterWindow
<1> HIDE DEF A, B, C, D
<1>6. \A l \in L : l \in A \/ l \in B \/ l \in C \/ l \in D
  BY <1>1, <1>2, <1>3, <1>5
<1>7. /\ A \cap B = {} /\ (A \cup B) \cap C = {} /\ (A \cup B \cup C) \cap D = {}
  BY <1>1, <1>2, <1>3, <1>4, <1>5
<1>8. A \cup B \cup C \cup D = L
  BY <1>4, <1>5, <1>6
<1>9. /\ A \in SUBSET Lines /\ B \in SUBSET Lines /\ C \in SUBSET Lines /\ D \in SUBSET Lines
      /\ A \cup B \in SUBSET Lines /\ A \cup B \cup C \in SUBSET Lines
  BY <1>4, <1>5
<1>10. Total(f, A \cup B) = Total(f, A) + Total(f, B)
  BY <1>7, <1>9, TotalOfTwo
<1>11. Total(f, A \cup B \cup C) = Total(f, A \cup B) + Total(f, C)
  BY <1>7, <1>9, TotalOfTwo
<1>12. Total(f, A \cup B \cup C \cup D) = Total(f, A \cup B \cup C) + Total(f, D)
  BY <1>7, <1>9, TotalOfTwo
<1>13. Total(f, L) = Total(f, A) + Total(f, B) + Total(f, C) + Total(f, D)
  BY <1>8, <1>10, <1>11, <1>12
<1> QED
  BY <1>13 DEF A, B, C, D

\* The months of the window.
LEMMA MonthsDivide ==
    ASSUME PaymentViewsAssumption, TypeOK, NEW L \in SUBSET Lines, NEW q, IsReportQuery(q),
           NEW f \in Counts, NEW p, MonthsOver(p, L, q)
    PROVE  Sum(p, f) = totals(InWindow(L, q))[f]
<1> DEFINE K == Periods(q)
           lines == [m \in K |-> InMonth(L, m)]
<1>1. IsFiniteSet(K)
  BY PeriodsAre
<1>2. lines \in [K -> SUBSET Lines] /\ Apart(lines, K)
  BY DEF InMonth, Apart
<1>3. Joined(lines, K) = InWindow(L, q)
  BY DEF Joined, InWindow
<1>4. TotalsOver(p, lines, K)
  BY DEF TotalsOver, MonthsOver
<1> HIDE DEF K, lines
<1> QED
  BY <1>1, <1>2, <1>3, <1>4, CountsAddUp

\* The ages of what is overdue.
LEMMA AgesDivide ==
    ASSUME PaymentViewsAssumption, TypeOK, NEW L \in SUBSET Lines, NEW f \in Counts,
           NEW p, AgesOver(p, L)
    PROVE  Sum(p, f) = totals(L)[f]
<1> DEFINE K == AGING_KEYS
           lines == [k \in K |-> {l \in L : agingKey(l) = k}]
<1>1. IsFiniteSet(K)
  <2>1. \A x : IsFiniteSet({x})
    BY FS_Singleton
  <2>2. IsFiniteSet({"1_30"} \cup {"31_60"}) /\ IsFiniteSet({"61_90"} \cup {"90_plus"})
    BY <2>1, FS_Union
  <2>3. IsFiniteSet(({"1_30"} \cup {"31_60"}) \cup ({"61_90"} \cup {"90_plus"}))
    BY <2>2, FS_Union
  <2>4. K = ({"1_30"} \cup {"31_60"}) \cup ({"61_90"} \cup {"90_plus"})
    BY DEF AGING_KEYS
  <2> QED
    BY <2>3, <2>4
<1>2. lines \in [K -> SUBSET Lines] /\ Apart(lines, K)
  BY DEF Apart
<1>3. Joined(lines, K) = L
  <2>1. \A l : agingKey(l) \in K
    BY DEF agingKey, AGING_KEYS
  <2> HIDE DEF K
  <2> QED
    BY <2>1 DEF Joined
<1>4. TotalsOver(p, lines, K)
  BY DEF TotalsOver, AgesOver
<1> HIDE DEF K, lines
<1> QED
  BY <1>1, <1>2, <1>3, <1>4, CountsAddUp

SplitOver(p, value, L, K) == p = [k \in K |-> totals(Overdue({l \in L : value[l] = k}))]

\* What is overdue, by a value of each row.
LEMMA SplitDivides ==
    ASSUME PaymentViewsAssumption, TypeOK, NEW L \in SUBSET Lines, NEW f \in Counts,
           NEW value, NEW K, IsFiniteSet(K), \A l \in L : value[l] \in K,
           NEW p, SplitOver(p, value, L, K)
    PROVE  Sum(p, f) = totals(Overdue(L))[f]
<1> DEFINE lines == [k \in K |-> Overdue({l \in L : value[l] = k})]
<1>2. lines \in [K -> SUBSET Lines] /\ Apart(lines, K)
  BY DEF Apart, Overdue
<1>3. Joined(lines, K) = Overdue(L)
  <2>2. \A l, k : k \in K => (l \in lines[k] <=> l \in L /\ isOverdue(l) /\ value[l] = k)
    BY DEF Overdue
  <2> HIDE DEF lines
  <2>3. \A l : l \in Joined(lines, K) <=> \E k \in K : l \in lines[k]
    BY DEF Joined
  <2>4. \A l : l \in Joined(lines, K) <=> l \in L /\ isOverdue(l)
    BY <2>2, <2>3
  <2> QED
    BY <2>4 DEF Overdue
<1>4. TotalsOver(p, lines, K)
  BY DEF TotalsOver, SplitOver
<1> HIDE DEF lines
<1> QED
  BY <1>2, <1>3, <1>4, CountsAddUp

\* A case is of one representative group: counted once, whoever represents it.
LEMMA GroupIsOne ==
    ASSUME PaymentViewsAssumption, NEW i \in Range(Identities)
    PROVE  \E g : representativeGroup(i) = {g}
<1>1. IsFiniteSet(invoice[i].representatives)
  BY DEF PaymentViewsAssumption
<1>2. Cardinality(invoice[i].representatives) = 1 => \E x : invoice[i].representatives = {x}
  BY <1>1, FS_Singleton
<1> QED
  BY <1>2 DEF representativeGroup

\* The projects of a breakdown divide what is overdue.
LEMMA ProjectsDivide ==
    ASSUME PaymentViewsAssumption, TypeOK, NEW L \in SUBSET Lines, NEW f \in Counts, NEW project,
           NEW p, ProjectsOver(p, L, project)
    PROVE  Sum(p, f) = totals(Overdue(L))[f]
<1> DEFINE value == [l \in L |-> project[l.identity]]
           K == {project[l.identity] : l \in L}
<1>1. \A l \in L : value[l] \in K
  OBVIOUS
<1>2. IsFiniteSet(K)
  <2>1. IsFiniteSet(L) /\ \A k \in K : \E l \in L : k = value[l]
    BY LinesKnown
  <2> HIDE DEF value, K
  <2> QED
    BY <2>1, ImageIsFinite
<1>3. \A k : {l \in L : value[l] = k} = {l \in L : project[l.identity] = k}
  OBVIOUS
<1>4. SplitOver(p, value, L, K)
  BY <1>3 DEF SplitOver, ProjectsOver
<1> HIDE DEF value, K
<1> QED
  BY <1>1, <1>2, <1>4, SplitDivides

\* So do its representatives: a case of several is in one group, "shared", once.
LEMMA RepresentativesDivide ==
    ASSUME PaymentViewsAssumption, TypeOK, NEW L \in SUBSET Lines, NEW f \in Counts,
           NEW p, GroupsOver(p, L)
    PROVE  Sum(p, f) = totals(Overdue(L))[f]
<1> DEFINE value == [l \in L |-> CHOOSE g : representativeGroup(l.identity) = {g}]
           K == UNION {representativeGroup(l.identity) : l \in L}
<1>0. \A l \in L : representativeGroup(l.identity) = {value[l]}
  <2> SUFFICES ASSUME NEW l \in L PROVE representativeGroup(l.identity) = {value[l]}
    OBVIOUS
  <2>1. l.identity \in Range(Identities)
    BY LinesKnown
  <2>2. \E g : representativeGroup(l.identity) = {g}
    BY <2>1, GroupIsOne
  <2>3. representativeGroup(l.identity) = {CHOOSE g : representativeGroup(l.identity) = {g}}
    BY <2>2, Zenon
  <2> QED
    BY <2>3
<1>1. \A l \in L : value[l] \in K
  BY <1>0
<1>2. IsFiniteSet(K)
  <2>1. IsFiniteSet(L) /\ \A k \in K : \E l \in L : k = value[l]
    BY <1>0, LinesKnown
  <2> HIDE DEF value, K
  <2> QED
    BY <2>1, ImageIsFinite
<1>3. \A k : {l \in L : value[l] = k} = {l \in L : k \in representativeGroup(l.identity)}
  BY <1>0
<1>4. p = [k \in K |-> totals(Overdue({l \in L : k \in representativeGroup(l.identity)}))]
  BY DEF GroupsOver
<1> HIDE DEF value, K
<1>5. SplitOver(p, value, L, K)
  BY <1>3, <1>4 DEF SplitOver
<1> QED
  BY <1>1, <1>2, <1>5, SplitDivides

OwnLines(cases) == \A c \in cases : /\ c.installments \in SUBSET Lines
                                    /\ \A l \in c.installments : l.identity = c.identity

DetailsOver(p, detail) ==
    p = [i \in {d.identity : d \in detail} |-> (CHOOSE d \in detail : d.identity = i).totals]

\* The cases behind a figure.
LEMMA DetailsDivide ==
    ASSUME PaymentViewsAssumption, TypeOK, NEW cases, OwnLines(cases), NEW q,
           q.detailScope = "overdue", NEW u, NEW f \in Counts,
           NEW L, L = ReportLines(cases, u),
           NEW detail, detail = {d \in Details(q, cases) : d.identity.currency = u},
           NEW p, DetailsOver(p, detail)
    PROVE  Sum(p, f) = totals(Overdue(L))[f]
<1> USE DEF DetailsOver
<1> DEFINE all == {l \in UNION {c.installments : c \in cases} : isOverdue(l)}
           late == Overdue(L)
           lines == [i \in {d.identity : d \in detail} |-> {l \in late : l.identity = i}]
           K == {d.identity : d \in detail}
           Entry(i) == [identity |-> i, totals |-> totals({l \in all : l.identity = i})]
           Found(i) == CHOOSE d \in detail : d.identity = i
<1>1. Details(q, cases) = {Entry(i) : i \in {l.identity : l \in all}}
  BY DEF Details
<1>2. late = {l \in all : l.identity.currency = u} /\ late \in SUBSET Lines
  BY DEF OwnLines, ReportLines, Overdue
<1> HIDE DEF all, late
<1>4. \A i : Entry(i).identity = i /\ Entry(i).totals = totals({l \in all : l.identity = i})
  OBVIOUS
<1> HIDE DEF Entry
<1>3. \A d : d \in detail <=> \E l \in late : d = Entry(l.identity)
  BY <1>1, <1>2, <1>4
<1>5. \A l \in late : {k \in all : k.identity = l.identity} = {k \in late : k.identity = l.identity}
  BY <1>2
<1>6. ASSUME NEW i \in K PROVE Found(i).totals = totals(lines[i])
  <2>1. PICK l \in late : i = l.identity /\ Entry(i) \in detail
    BY <1>3, <1>4
  <2>2. \A d \in detail : d.identity = i => d = Entry(i)
    BY <1>3, <1>4
  <2>3. Found(i) \in detail /\ Found(i).identity = i
    <3>1. \E d \in detail : d.identity = i
      BY <1>4, <2>1
    <3> QED
      BY <3>1, Zenon
  <2> HIDE DEF Found
  <2>4. Found(i).totals = totals({k \in all : k.identity = i})
    BY <1>4, <2>2, <2>3
  <2>5. lines[i] = {k \in late : k.identity = i}
    OBVIOUS
  <2>6. {k \in all : k.identity = i} = {k \in late : k.identity = i}
    BY <1>5, <2>1
  <2> HIDE DEF lines
  <2>7. totals(lines[i]) = totals({k \in all : k.identity = i})
    BY <2>5, <2>6
  <2> QED
    BY <2>4, <2>7
<1>7. TotalsOver(p, lines, K)
  <2>1. p = [i \in K |-> Found(i).totals]
    OBVIOUS
  <2> HIDE DEF lines, K, Found
  <2> QED
    BY <1>6, <2>1 DEF TotalsOver
<1>8. K = {l.identity : l \in late}
  BY <1>3, <1>4
<1>9. IsFiniteSet(K)
  <2> DEFINE g == [l \in late |-> l.identity]
  <2>1. IsFiniteSet(late) /\ \A k \in K : \E l \in late : k = g[l]
    BY <1>2, <1>8, LinesKnown
  <2> HIDE DEF K, g
  <2> QED
    BY <2>1, ImageIsFinite
<1>10. lines \in [K -> SUBSET Lines] /\ Apart(lines, K)
  BY <1>2 DEF Apart
<1>11. Joined(lines, K) = late
  <2>1. \A l, i : i \in K => (l \in lines[i] <=> l \in late /\ l.identity = i)
    OBVIOUS
  <2>2. \A l \in late : l.identity \in K
    BY <1>8
  <2> HIDE DEF K, lines
  <2>3. \A l : l \in Joined(lines, K) <=> \E i \in K : l \in lines[i]
    BY DEF Joined
  <2>4. \A l : l \in Joined(lines, K) <=> l \in late
    BY <2>1, <2>2, <2>3
  <2> QED
    BY <2>4
<1> HIDE DEF K, lines
<1>12. Sum(p, f) = totals(late)[f]
  BY <1>7, <1>9, <1>10, <1>11, CountsAddUp
<1> QED
  BY <1>12 DEF late

\* The counts of a block add up: over dates, months, ages, projects, representatives and
\* details.
LEMMA BlockCounts ==
    ASSUME PaymentViewsAssumption, TypeOK, NEW cases, OwnLines(cases), NEW q, IsReportQuery(q),
           q.detailScope = "overdue", NEW u, NEW project, NEW f \in Counts,
           NEW b, b = byCurrency(q, cases, u, project),
           NEW detail, detail = {d \in Details(q, cases) : d.identity.currency = u},
           NEW p, DetailsOver(p, detail)
    PROVE  BlockAddsUp(b, p, f)
<1> DEFINE L == ReportLines(cases, u)
           monthly == MonthlyOf(b)
           projects == SplitOf(b.projectBreakdown)
           groups == SplitOf(b.representativeBreakdown)
<1>2. L \in SUBSET Lines
  BY DEF ReportLines, OwnLines
<1>3. L = ReportLines(cases, u)
  OBVIOUS
<1> HIDE DEF L
<1>0. Figures(b, L, q, project)
  BY <1>3, BlockIs
<1>1. /\ b.totals.summary = totals(L)
      /\ b.totals.overdue = totals(Overdue(Dated(L)))
      /\ b.totals.undated = totals(L \ Dated(L))
      /\ b.totals.beforeWindow = totals(BeforeWindow(L, q))
      /\ b.totals.afterWindow = totals(AfterWindow(L, q))
      /\ b.period.totals = totals(InWindow(L, q))
      /\ MonthsOver(monthly, L, q)
      /\ AgesOver(b.aging, Overdue(Dated(L)))
      /\ ProjectsOver(projects, L, project)
      /\ GroupsOver(groups, L)
  BY <1>0 DEF Figures
<1>4. Overdue(Dated(L)) = Overdue(L) /\ Overdue(L) \in SUBSET Lines
  BY <1>2 DEF Overdue, Dated, isOverdue
<1> HIDE DEF monthly, projects, groups
<1>5. b.totals.summary[f] = b.totals.undated[f] + b.totals.beforeWindow[f]
                              + b.period.totals[f] + b.totals.afterWindow[f]
  <2>1. /\ L \ Dated(L) \in SUBSET Lines /\ BeforeWindow(L, q) \in SUBSET Lines
        /\ AfterWindow(L, q) \in SUBSET Lines /\ InWindow(L, q) \in SUBSET Lines
    BY <1>2 DEF BeforeWindow, AfterWindow, InWindow, InMonth, Dated
  <2>2. \A S \in SUBSET Lines : totals(S)[f] = Total(f, S)
    BY TotalsAre
  <2>3. Total(f, L) = Total(f, L \ Dated(L)) + Total(f, BeforeWindow(L, q))
                           + Total(f, InWindow(L, q)) + Total(f, AfterWindow(L, q))
    BY <1>2, WindowDivides
  <2> QED
    BY <1>1, <1>2, <2>1, <2>2, <2>3
<1>6. b.period.totals[f] = Sum(monthly, f)
  BY <1>1, <1>2, MonthsDivide
<1>7. b.totals.overdue[f] = Sum(b.aging, f)
  <2>1. AgesOver(b.aging, Overdue(L))
    BY <1>1, <1>4
  <2>2. Sum(b.aging, f) = totals(Overdue(L))[f]
    BY <1>4, <2>1, AgesDivide
  <2> QED
    BY <1>1, <1>4, <2>2
<1>8. b.totals.overdue[f] = Sum(p, f)
  BY <1>1, <1>3, <1>4, DetailsDivide
<1>9. b.totals.overdue[f] = Sum(projects, f)
  BY <1>1, <1>2, <1>4, ProjectsDivide
<1>10. b.totals.overdue[f] = Sum(groups, f)
  BY <1>1, <1>2, <1>4, RepresentativesDivide
<1> QED
  BY <1>5, <1>6, <1>7, <1>8, <1>9, <1>10
  DEF BlockAddsUp, MonthlyOf, SplitOf, monthly, projects, groups

\* What is unknown adds nothing.
LEMMA PlusIs ==
    ASSUME PaymentViewsAssumption, NEW a \in IntOrNone, NEW b \in IntOrNone,
           NEW c \in IntOrNone, NEW d \in IntOrNone
    PROVE  Plus(Plus(a, b), Plus(c, Plus(d, 0))) = Known(a) + Known(b) + Known(c) + Known(d)
<1>1. None \notin Int
  BY DEF PaymentViewsAssumption
<1> QED
  BY <1>1 DEF Plus, Known, IntOrNone

\* The amounts of a block add up: without a date, before, in and after the window.
LEMMA BlockMoney ==
    ASSUME PaymentViewsAssumption, TypeOK, NEW cases, OwnLines(cases), NEW q, IsReportQuery(q),
           NEW u, NEW project, NEW f \in Money, NEW b, b = byCurrency(q, cases, u, project)
    PROVE  MoneyAddsUp(b, f)
<1> DEFINE L == ReportLines(cases, u)
<1>0. L = ReportLines(cases, u)
  OBVIOUS
<1>2. L \in SUBSET Lines
  BY DEF ReportLines, OwnLines
<1> HIDE DEF L
<1>1. /\ b.totals.summary = totals(L)
      /\ b.totals.undated = totals(L \ Dated(L))
      /\ b.totals.beforeWindow = totals(BeforeWindow(L, q))
      /\ b.totals.afterWindow = totals(AfterWindow(L, q))
      /\ b.period.totals = totals(InWindow(L, q))
  <2>1. Figures(b, L, q, project)
    BY <1>0, BlockIs
  <2> QED
    BY <2>1 DEF Figures
<1>3. /\ L \ Dated(L) \in SUBSET Lines /\ BeforeWindow(L, q) \in SUBSET Lines
      /\ AfterWindow(L, q) \in SUBSET Lines /\ InWindow(L, q) \in SUBSET Lines
  BY <1>2 DEF BeforeWindow, AfterWindow, InWindow, InMonth, Dated
<1>4. \A S \in SUBSET Lines : totals(S)[f] \in IntOrNone /\ Known(totals(S)[f]) = Total(f, S)
  BY TotalsAre
<1>5. Total(f, L) = Total(f, L \ Dated(L)) + Total(f, BeforeWindow(L, q))
                           + Total(f, InWindow(L, q)) + Total(f, AfterWindow(L, q))
  BY <1>2, WindowDivides
<1> DEFINE w == b.totals.summary[f]
           x == b.totals.undated[f]
           y == b.totals.beforeWindow[f]
           z == b.period.totals[f]
           v == b.totals.afterWindow[f]
<1>6. /\ x \in IntOrNone /\ Known(x) = Total(f, L \ Dated(L))
      /\ y \in IntOrNone /\ Known(y) = Total(f, BeforeWindow(L, q))
      /\ z \in IntOrNone /\ Known(z) = Total(f, InWindow(L, q))
      /\ v \in IntOrNone /\ Known(v) = Total(f, AfterWindow(L, q))
      /\ Known(w) = Total(f, L)
  BY <1>1, <1>2, <1>3, <1>4
<1>7. MoneyAddsUp(b, f) <=> Plus(w, 0) = Plus(Plus(x, y), Plus(z, Plus(v, 0)))
  BY DEF MoneyAddsUp
<1> HIDE DEF w, x, y, z, v
<1>8. Plus(Plus(x, y), Plus(z, Plus(v, 0))) = Known(x) + Known(y) + Known(z) + Known(v)
  BY <1>6, PlusIs
<1> QED
  BY <1>5, <1>6, <1>7, <1>8 DEF Known

\* The cases of a report have their own lines, and no line is in two of them.
LEMMA ReportCasesOwn ==
    ASSUME PaymentViewsAssumption, TypeOK, NEW q
    PROVE  OwnLines(ReportCases(Cases, q))
<1> SUFFICES ASSUME NEW c \in ReportCases(Cases, q)
             PROVE  /\ c.installments \in SUBSET Lines
                    /\ \A l \in c.installments : l.identity = c.identity
  BY DEF OwnLines
<1>1. PICK d \in Cases : c \in selectPaymentKind(d, q.paymentKind)
  BY DEF ReportCases
<1> DEFINE L == LinesOf(d.identity)
<1>2. d.installments = L /\ L \in SUBSET Lines /\ \A l \in L : l.identity = d.identity
  BY CaseFacts
<1> HIDE DEF L
<1>3. CASE c = d
  BY <1>2, <1>3
<1>4. CASE c = KindPart(d, q.paymentKind)
  <2> DEFINE k == q.paymentKind
  <2> HIDE DEF k
  <2>0. IsCaseOver(KindPart(d, k), OfKind(L, k)) /\ KindPart(d, k).identity = d.identity
    BY <1>2, PartIs
  <2>1. c.identity = d.identity /\ c.installments = OfKind(L, q.paymentKind)
    BY <1>4, <2>0 DEF IsCaseOver, k
  <2> QED
    BY <1>2, <2>1 DEF OfKind
<1> QED
  BY <1>1, <1>3, <1>4, PartsAre

ReportQueries == {[Query EXCEPT !.paymentKind = k, !.startMonth = s] :
                    k \in {"all", "sale"}, s \in {None, Month(asOf) - 1}}

DetailOf(report, u) == {d \in report.detail : d.identity.currency = u}
TotalsByCase(detail) ==
    [i \in {d.identity : d \in detail} |-> (CHOOSE d \in detail : d.identity = i).totals]

PartsMakeWhole(report) ==
    \A u \in DOMAIN report.byCurrency :
      /\ \A f \in Counts : BlockAddsUp(report.byCurrency[u],
                                       TotalsByCase(DetailOf(report, u)), f)
      /\ \A f \in Money : MoneyAddsUp(report.byCurrency[u], f)

\* The parts of a report make up the whole (buildCollectionReport), whatever it is filtered by
\* and whichever month it begins with: rows without a date, before, in and after the window;
\* the months of the window; the ages, the projects and the representatives of what is
\* overdue, and the details behind the figure.
LEMMA EveryReport ==
    ASSUME PaymentViewsAssumption, TypeOK, NEW q, IsReportQuery(q), q.detailScope = "overdue"
    PROVE  PartsMakeWhole(buildCollectionReport(Cases, q))
<1> DEFINE cases == ReportCases(Cases, q)
           project == [i \in {c.identity : c \in Cases} |->
                         paymentProjectGroups([identity |-> i], Cases)]
           report == buildCollectionReport(Cases, q)
<1>1. /\ DOMAIN report.byCurrency = {c.identity.currency : c \in cases}
      /\ \A u \in DOMAIN report.byCurrency :
           report.byCurrency[u] = byCurrency(q, cases, u, project)
      /\ report.detail = Details(q, cases)
  BY DEF buildCollectionReport, Report
<1>2. OwnLines(cases)
  BY ReportCasesOwn
<1> HIDE DEF cases, project, report
<1> SUFFICES ASSUME NEW u \in DOMAIN report.byCurrency
             PROVE  /\ \A f \in Counts : BlockAddsUp(report.byCurrency[u],
                                                     TotalsByCase(DetailOf(report, u)), f)
                    /\ \A f \in Money : MoneyAddsUp(report.byCurrency[u], f)
  BY DEF report, PartsMakeWhole
<1> DEFINE b == report.byCurrency[u]
           detail == DetailOf(report, u)
           p == TotalsByCase(detail)
<1>3. b = byCurrency(q, cases, u, project)
  BY <1>1
<1>4. detail = {d \in Details(q, cases) : d.identity.currency = u}
  BY <1>1 DEF DetailOf
<1>5. DetailsOver(p, detail)
  BY DEF DetailsOver, TotalsByCase
<1> HIDE DEF b, detail, p
<1>6. \A f \in Counts : BlockAddsUp(b, p, f)
  BY <1>2, <1>3, <1>4, <1>5, BlockCounts
<1>7. \A f \in Money : MoneyAddsUp(b, f)
  BY <1>2, <1>3, BlockMoney
<1> QED
  BY <1>6, <1>7 DEF b, detail, p

\* So do those of the reports of ReportAddsUp.
LEMMA AddsUp ==
    ASSUME PaymentViewsAssumption, TypeOK
    PROVE  ReportAddsUp
<1>1. ReportAddsUp <=> \A q \in ReportQueries :
                         \A report \in {buildCollectionReport(Cases, q)} : PartsMakeWhole(report)
  BY DEF ReportAddsUp, ReportQueries, Counts, Money, DetailOf, TotalsByCase, PartsMakeWhole
<1>2. ASSUME NEW q \in ReportQueries
      PROVE  IsReportQuery(q) /\ q.detailScope = "overdue"
  <2>1. PICK k \in {"all", "sale"}, s \in {None, Month(asOf) - 1} :
          q = [Query EXCEPT !.paymentKind = k, !.startMonth = s]
    BY DEF ReportQueries
  <2>2. q.startMonth = s /\ q.detailScope = Query.detailScope
    BY <2>1 DEF Query
  <2>3. Query.detailScope = "overdue"
    BY DEF Query
  <2>4. s \in Int \cup {None}
    BY MonthIsInt DEF PaymentViewsAssumption
  <2> QED
    BY <2>2, <2>3, <2>4 DEF IsReportQuery
<1>3. \A q \in ReportQueries : PartsMakeWhole(buildCollectionReport(Cases, q))
  BY <1>2, EveryReport
<1> QED
  BY <1>1, <1>3

-----------------------------------------------------------------------------
(* The list, the report and the installment table agree.                   *)

\* The cases, or their parts of a kind, that a query of one currency chooses.
Chosen(q) ==
    {k \in UNION {selectPaymentKind(d, q.paymentKind) :
                    d \in {e \in Cases : e.identity.currency = q.currency}} :
        matchesInvoiceOk(k, q.invoiceOk) /\ matchesAuthorization(k, q.authorizationState)}

\* What distinguishes the part of a case: it says what its own lines say.
IsPart(k) ==
    /\ IsCaseOver(k, k.installments)
    /\ k.installments \in SUBSET Lines /\ k.installments # {}
    /\ \A l \in k.installments : l.identity = k.identity

\* A part of a case is computed from some lines of the case like a case of its own.
LEMMA SelectedIsPart ==
    ASSUME PaymentViewsAssumption, TypeOK, NEW c \in Cases, NEW kind,
           NEW k \in selectPaymentKind(c, kind)
    PROVE  IsPart(k) /\ k.identity = c.identity
<1> DEFINE L == LinesOf(c.identity)
<1>1. /\ c.installments = L /\ L \in SUBSET Lines /\ \A l \in L : l.identity = c.identity
      /\ L # {} /\ IsCaseOver(c, L)
  BY CaseFacts
<1> HIDE DEF L
<1>2. CASE k = c
  BY <1>1, <1>2 DEF IsPart
<1>3. CASE k = KindPart(c, kind) /\ OfKind(L, kind) # {}
  <2>1. IsCaseOver(KindPart(c, kind), OfKind(L, kind)) /\ KindPart(c, kind).identity = c.identity
    BY <1>1, PartIs
  <2>2. IsCaseOver(k, OfKind(L, kind)) /\ k.identity = c.identity
    BY <1>3, <2>1
  <2>3. k.installments = OfKind(L, kind)
    BY <2>2 DEF IsCaseOver
  <2>4. OfKind(L, kind) \in SUBSET Lines /\ \A l \in OfKind(L, kind) : l.identity = c.identity
    BY <1>1 DEF OfKind
  <2> QED
    BY <1>3, <2>2, <2>3, <2>4 DEF IsPart
<1>4. selectPaymentKind(c, kind) = IF kind = "all" THEN {c}
        ELSE IF OfKind(L, kind) = {} THEN {} ELSE {KindPart(c, kind)}
  BY <1>1, PartsAre
<1>5. k = c \/ (k = KindPart(c, kind) /\ OfKind(L, kind) # {})
  BY <1>4
<1> QED
  BY <1>2, <1>3, <1>5

\* There is one part of a kind.
LEMMA SelectedIsOne ==
    ASSUME NEW c, NEW kind,
           NEW j \in selectPaymentKind(c, kind), NEW k \in selectPaymentKind(c, kind)
    PROVE  j = k
  BY PartsAre

\* There is one case of an identity.
LEMMA CaseIsOne ==
    ASSUME PaymentViewsAssumption, TypeOK, NEW c \in Cases, NEW d \in Cases,
           c.identity = d.identity
    PROVE  c = d
<1>1. /\ c = sourceCase(c.identity, LinesOf(c.identity))
      /\ d = sourceCase(d.identity, LinesOf(d.identity))
  BY CaseFacts
<1> QED
  BY <1>1

\* Parts of one query that have an identity in common are the same.
LEMMA ChosenAre ==
    ASSUME PaymentViewsAssumption, TypeOK, NEW q
    PROVE  /\ \A k \in Chosen(q) : IsPart(k)
           /\ \A j, k \in Chosen(q) : j.identity = k.identity => j = k
<1>1. ASSUME NEW k \in Chosen(q)
      PROVE  \E c \in Cases : k \in selectPaymentKind(c, q.paymentKind)
  BY DEF Chosen
<1>2. \A k \in Chosen(q) : IsPart(k)
  BY <1>1, SelectedIsPart
<1>3. ASSUME NEW j \in Chosen(q), NEW k \in Chosen(q), j.identity = k.identity
      PROVE  j = k
  <2>1. PICK c \in Cases : j \in selectPaymentKind(c, q.paymentKind)
    BY <1>1
  <2>2. PICK d \in Cases : k \in selectPaymentKind(d, q.paymentKind)
    BY <1>1
  <2>3. j.identity = c.identity /\ k.identity = d.identity
    BY <2>1, <2>2, KindKeepsIdentity
  <2>4. c = d
    BY <1>3, <2>3, CaseIsOne
  <2> QED
    BY <2>1, <2>2, <2>4, SelectedIsOne
<1> QED
  BY <1>2, <1>3

\* A query that filters by nothing but the currency, the kind and the two invoice fields.
IsPlain(q) ==
    /\ q.currency # "__ALL__"
    /\ q.projectGroup = "" /\ q.representative = ""
    /\ q.dueFrom = None /\ q.dueTo = None
    /\ q.overdueAmountMin = None /\ q.overdueAmountMax = None
    /\ q.paymentState = "all" /\ q.deferral = "all" /\ q.scope = "all"

\* With no filter but the kind and the invoice, the list has one row per case or part that
\* these let through (paymentList).
LEMMA ListRows ==
    ASSUME PaymentViewsAssumption, TypeOK, NEW q, IsPlain(q)
    PROVE  /\ \A row \in Filtered(Cases, q) : row.source \in Chosen(q)
           /\ \A k \in Chosen(q) : \E row \in Filtered(Cases, q) : row.source = k
           /\ \A a, b \in Filtered(Cases, q) : a.source = b.source => a = b
<1> DEFINE All == CurrencyRows(Cases, q)
           Passes(k) == /\ matchesInvoiceOk(k, q.invoiceOk)
                        /\ matchesAuthorization(k, q.authorizationState)
           Of(c, k) == trackingRow(k, states[c.identity], isPortfolioClosed(c, Cases),
                                   paymentProjectGroups(c, Cases))
           Own == {e \in Cases : e.identity.currency = q.currency}
<1>1. Base(Cases, q) = {row \in All : Passes(row.source)}
  <2>1. \A v : InRange(v, None, None)
    BY DEF InRange
  <2> HIDE DEF All
  <2> QED
    BY <2>1 DEF Base, IsPlain, All
<1>2. Filtered(Cases, q) = Base(Cases, q)
  BY DEF Filtered, InScope, IsPlain
<1>3. All = UNION {{Of(c, k) : k \in selectPaymentKind(c, q.paymentKind)} : c \in Own}
  <2>1. {d \in Cases : q.currency \in {"__ALL__", d.identity.currency}} = Own
    BY DEF IsPlain
  <2> QED
    BY <2>1, Zenon DEF CurrencyRows
<1>4. \A c, k : Of(c, k).source = k
  BY DEF trackingRow
<1>5. Chosen(q) = {k \in UNION {selectPaymentKind(d, q.paymentKind) : d \in Own} : Passes(k)}
  BY DEF Chosen
<1> HIDE DEF All, Passes, Of, Own
<1>6. \A row \in All : \E c \in Own : \E k \in selectPaymentKind(c, q.paymentKind) : row = Of(c, k)
  BY <1>3
<1>7. \A row \in Filtered(Cases, q) : row.source \in Chosen(q)
  BY <1>1, <1>2, <1>4, <1>5, <1>6
<1>8. ASSUME NEW k \in Chosen(q) PROVE \E row \in Filtered(Cases, q) : row.source = k
  <2>1. PICK c \in Own : k \in selectPaymentKind(c, q.paymentKind)
    BY <1>5
  <2>2. Of(c, k) \in All
    BY <1>3, <2>1
  <2> QED
    BY <1>1, <1>2, <1>4, <1>5, <2>2
<1>9. ASSUME NEW a \in Filtered(Cases, q), NEW b \in Filtered(Cases, q), a.source = b.source
      PROVE  a = b
  <2>1. PICK c \in Own : \E k \in selectPaymentKind(c, q.paymentKind) : a = Of(c, k)
    BY <1>1, <1>2, <1>6
  <2>2. PICK d \in Own : \E k \in selectPaymentKind(d, q.paymentKind) : b = Of(d, k)
    BY <1>1, <1>2, <1>6
  <2>3. a = Of(c, a.source) /\ a.source \in selectPaymentKind(c, q.paymentKind)
    BY <1>4, <2>1
  <2>4. b = Of(d, b.source) /\ b.source \in selectPaymentKind(d, q.paymentKind)
    BY <1>4, <2>2
  <2>5. c.identity = d.identity
    BY <1>9, <2>3, <2>4, KindKeepsIdentity
  <2>6. c = d
    BY <2>5, CaseIsOne DEF Own
  <2> QED
    BY <1>9, <2>3, <2>4, <2>6
<1> QED
  BY <1>7, <1>8, <1>9

\* The rows of a list have finitely many parts, and those divide their lines.
Obligations(q) == UNION {k.installments : k \in Chosen(q)}

LinesBy(S) == [row \in S |-> row.source.installments]

Deals(lines, S, L) ==
    /\ IsFiniteSet(S) /\ L \in SUBSET Lines
    /\ \A row \in S : IsCaseOver(row.source, lines[row]) /\ lines[row] # {}
    /\ lines \in [S -> SUBSET L] /\ Apart(lines, S) /\ Joined(lines, S) = L

\* The lines of such a list are divided among its rows.
LEMMA ListDivides ==
    ASSUME PaymentViewsAssumption, TypeOK, NEW q, IsPlain(q),
           NEW S, S = Filtered(Cases, q),
           NEW L, L = Obligations(q),
           NEW lines, lines = LinesBy(S)
    PROVE  Deals(lines, S, L)
<1> DEFINE P == Chosen(q)
           f == [l \in L |-> CHOOSE row \in S : l \in lines[row]]
<1>1. /\ \A k \in P : IsPart(k)
      /\ \A j, k \in P : j.identity = k.identity => j = k
  BY ChosenAre
<1>2. /\ \A row \in S : row.source \in P
      /\ \A k \in P : \E row \in S : row.source = k
      /\ \A a, b \in S : a.source = b.source => a = b
  BY ListRows
<1>3. L = UNION {k.installments : k \in P}
  BY DEF Obligations
<1> HIDE DEF P
<1>4. /\ L \in SUBSET Lines
      /\ \A k \in P : k.installments \in SUBSET L
  <2>1. \A k \in P : k.installments \in SUBSET Lines
    BY <1>1 DEF IsPart
  <2> QED
    BY <1>3, <2>1
<1>5. \A row \in S : /\ IsCaseOver(row.source, lines[row]) /\ lines[row] # {}
                     /\ lines[row] = row.source.installments
  <2>1. \A row \in S : lines[row] = row.source.installments
    BY DEF LinesBy
  <2>2. \A row \in S : IsPart(row.source)
    BY <1>1, <1>2
  <2>3. \A row \in S : /\ IsCaseOver(row.source, row.source.installments)
                       /\ row.source.installments # {}
    BY <2>2 DEF IsPart
  <2> QED
    BY <2>1, <2>3
<1>6. lines \in [S -> SUBSET L]
  BY <1>2, <1>4 DEF LinesBy
<1>7. Apart(lines, S)
  <2> SUFFICES ASSUME NEW a \in S, NEW b \in S, NEW l \in lines[a] \cap lines[b]
               PROVE  a = b
    BY DEF Apart
  <2>1. l.identity = a.source.identity /\ l.identity = b.source.identity
    BY <1>1, <1>2, <1>5 DEF IsPart
  <2> QED
    BY <1>1, <1>2, <2>1
<1>8. Joined(lines, S) = L
  <2>1. \A l : l \in Joined(lines, S) <=> \E row \in S : l \in lines[row]
    BY DEF Joined
  <2>2. \A l : l \in L <=> \E k \in P : l \in k.installments
    BY <1>3
  <2>3. \A row \in S : row.source \in P /\ lines[row] = row.source.installments
    BY <1>2, <1>5
  <2>4. \A k \in P : \E row \in S : lines[row] = k.installments
    BY <1>2, <2>3
  <2>5. \A l : l \in Joined(lines, S) <=> l \in L
    BY <2>1, <2>2, <2>3, <2>4
  <2> QED
    BY <2>5
<1>9. IsFiniteSet(S)
  <2>1. IsFiniteSet(L)
    BY <1>4, LinesKnown
  <2>2. \A row \in S : \E l \in L : row = f[l]
    <3> SUFFICES ASSUME NEW row \in S PROVE \E l \in L : row = f[l]
      OBVIOUS
    <3>1. PICK l \in lines[row] : TRUE
      BY <1>5
    <3>2. \A other \in S : l \in lines[other] => other = row
      BY <1>7, <3>1 DEF Apart
    <3>3. row = CHOOSE other \in S : l \in lines[other]
      BY <3>1, <3>2
    <3>4. l \in L
      BY <1>6, <3>1
    <3> QED
      BY <3>3, <3>4
  <2> HIDE DEF f
  <2> QED
    BY <2>1, <2>2, ImageIsFinite
<1> QED
  BY <1>4, <1>5, <1>6, <1>7, <1>8, <1>9 DEF Deals

\* All the chosen rows, taken as one case.
Whole(L) == sourceCase(None, L)

\* Its fields are the totals of these rows.
LEMMA WholeIs ==
    ASSUME NEW L
    PROVE  /\ IsCaseOver(Whole(L), L)
           /\ Whole(L).outstanding = totals(L).outstanding
           /\ Whole(L).incompleteRows = totals(L).incompleteRows
           /\ Whole(L).overdueAmount = sumKnown([l \in L |-> l.overdueAmount])
  BY DEF Whole, sourceCase, CaseOver, IsCaseOver, totals

\* An amount is unknown when that of every line is.
LEMMA CaseUnknown ==
    ASSUME PaymentViewsAssumption, TypeOK, NEW L \in SUBSET Lines,
           NEW c, IsCaseOver(c, L), NEW f \in {"outstanding", "overdueAmount"}
    PROVE  c[f] = None <=> L # {} /\ \A l \in L : l[f] = None
<1>1. \A l \in L : GoodLine(l)
  BY LinesAreGood
<1>2. CASE f = "outstanding"
  <2> DEFINE v == [l \in L |-> l.outstanding]
  <2>1. Into(v, L) /\ DOMAIN v = L /\ \A l \in L : v[l] = l.outstanding
    BY <1>1 DEF Into, GoodLine, IntOrNone
  <2>2. c.outstanding = sumKnown(v)
    BY DEF IsCaseOver
  <2> HIDE DEF v
  <2>3. sumKnown(v) = None <=> L # {} /\ \A l \in L : v[l] = None
    BY <2>1, FieldSum
  <2> QED
    BY <1>2, <2>1, <2>2, <2>3
<1>3. CASE f = "overdueAmount"
  <2> DEFINE v == [l \in L |-> l.overdueAmount]
  <2>1. Into(v, L) /\ DOMAIN v = L /\ \A l \in L : v[l] = l.overdueAmount
    BY <1>1 DEF Into, GoodLine, IntOrNone
  <2>2. c.overdueAmount = sumKnown(v)
    BY DEF IsCaseOver
  <2> HIDE DEF v
  <2>3. sumKnown(v) = None <=> L # {} /\ \A l \in L : v[l] = None
    BY <2>1, FieldSum
  <2> QED
    BY <1>3, <2>1, <2>2, <2>3
<1> QED
  BY <1>2, <1>3

FieldOver(v, S, f) == v = [row \in S |-> row.source[f]]

\* What the list sums is what there is of all its lines.
LEMMA ListSums ==
    ASSUME PaymentViewsAssumption, TypeOK, NEW q, IsPlain(q),
           NEW S, S = Filtered(Cases, q),
           NEW L, L = Obligations(q),
           NEW f \in {"outstanding", "overdueAmount"}, NEW v, FieldOver(v, S, f)
    PROVE  sumKnown(v) = Whole(L)[f]
<1> DEFINE lines == LinesBy(S)
           w == Weight(f)
<1>0. None \notin Int
  BY DEF PaymentViewsAssumption
<1>1. lines = LinesBy(S)
  OBVIOUS
<1> HIDE DEF lines
<1>d. Deals(lines, S, L)
  BY <1>1, ListDivides
<1>2. /\ IsFiniteSet(S) /\ L \in SUBSET Lines
      /\ \A row \in S : IsCaseOver(row.source, lines[row]) /\ lines[row] # {}
      /\ lines \in [S -> SUBSET L] /\ Apart(lines, S) /\ Joined(lines, S) = L
  BY <1>d DEF Deals
<1>3. IsFiniteSet(L)
  BY <1>2, LinesKnown
<1>4. f \in Fields
  BY DEF Fields
<1>5. IntOn(w, L)
  <2>1. IntOn(w, Lines)
    BY <1>4, WeightIs
  <2> QED
    BY <1>2, <2>1 DEF IntOn
<1>6. \A row \in S : /\ row.source[f] \in IntOrNone
                     /\ Known(row.source[f]) = SumFunctionOnSet(w, lines[row])
                     /\ row.source[f] = None <=> \A l \in lines[row] : l[f] = None
  <2>1. \A row \in S : lines[row] \in SUBSET Lines
    BY <1>2
  <2>2. \A row \in S : /\ row.source[f] \in IntOrNone
                       /\ Known(row.source[f]) = SumFunctionOnSet(w, lines[row])
    BY <1>2, <1>4, <2>1, CaseSums
  <2>3. \A row \in S : row.source[f] = None <=> lines[row] # {} /\ \A l \in lines[row] : l[f] = None
    BY <1>2, <2>1, CaseUnknown
  <2> QED
    BY <1>2, <2>2, <2>3
<1>7. DOMAIN v = S /\ \A row \in S : v[row] = row.source[f]
  BY DEF FieldOver
<1> HIDE DEF w
<1>8. Into(v, S) /\ \A row \in S : Known(v[row]) = SumFunctionOnSet(w, lines[row])
  BY <1>6, <1>7 DEF Into
<1>9. /\ sumKnown(v) \in IntOrNone
      /\ Known(sumKnown(v)) = SumFunctionOnSet(w, L)
      /\ sumKnown(v) = None <=> S # {} /\ \A row \in S : v[row] = None
  BY <1>2, <1>3, <1>5, <1>7, <1>8, SumOfParts
<1>10. /\ Whole(L)[f] \in IntOrNone
       /\ Known(Whole(L)[f]) = SumFunctionOnSet(w, L)
       /\ Whole(L)[f] = None <=> L # {} /\ \A l \in L : l[f] = None
  <2>1. IsCaseOver(Whole(L), L)
    BY WholeIs
  <2>2. Whole(L)[f] \in IntOrNone /\ Known(Whole(L)[f]) = SumFunctionOnSet(w, L)
    BY <1>2, <1>4, <2>1, CaseSums DEF w
  <2> QED
    BY <1>2, <2>1, <2>2, CaseUnknown
<1>11. (S # {} /\ \A row \in S : v[row] = None) <=> (L # {} /\ \A l \in L : l[f] = None)
  <2>1. \A l : l \in L <=> \E row \in S : l \in lines[row]
    BY <1>2 DEF Joined
  <2>2. \A row \in S : v[row] = None <=> \A l \in lines[row] : l[f] = None
    BY <1>6, <1>7
  <2>3. \A row \in S : lines[row] # {}
    BY <1>2
  <2>4. (\A row \in S : v[row] = None) <=> \A l \in L : l[f] = None
    BY <2>1, <2>2
  <2>5. S # {} <=> L # {}
    BY <2>1, <2>3
  <2> QED
    BY <2>4, <2>5
<1> QED
  BY <1>0, <1>9, <1>10, <1>11 DEF Known, Plus, IntOrNone

\* The incomplete lines behind a list are counted once each, whichever row they are in.
LEMMA ListCounts ==
    ASSUME PaymentViewsAssumption, TypeOK, NEW q, IsPlain(q),
           NEW S, S = Filtered(Cases, q),
           NEW L, L = Obligations(q),
           NEW t, FieldOver(t, S, "incompleteRows")
    PROVE  SumFunction(t) = totals(L).incompleteRows
<1> DEFINE lines == LinesBy(S)
           w == Weight("incompleteRows")
<1>0. None \notin Int
  BY DEF PaymentViewsAssumption
<1>1. lines = LinesBy(S)
  OBVIOUS
<1> HIDE DEF lines
<1>d. Deals(lines, S, L)
  BY <1>1, ListDivides
<1>2. /\ IsFiniteSet(S) /\ L \in SUBSET Lines
      /\ \A row \in S : IsCaseOver(row.source, lines[row])
      /\ lines \in [S -> SUBSET L] /\ Apart(lines, S) /\ Joined(lines, S) = L
  BY <1>d DEF Deals
<1>3. IsFiniteSet(L)
  BY <1>2, LinesKnown
<1>4. "incompleteRows" \in Fields
  BY DEF Fields
<1>5. IntOn(w, L)
  <2>1. IntOn(w, Lines)
    BY <1>4, WeightIs
  <2> QED
    BY <1>2, <2>1 DEF IntOn
<1>6. ASSUME NEW T \in SUBSET Lines, NEW c, IsCaseOver(c, T)
      PROVE  c.incompleteRows = SumFunctionOnSet(w, T)
  <2> DEFINE partial == {l \in T : l.incomplete}
  <2>1. \A l \in Lines : w[l] = IF l.incomplete THEN 1 ELSE 0
    BY <1>4, WeightIs
  <2>2. IsFiniteSet(T)
    BY LinesKnown
  <2>3. partial \in SUBSET T /\ \A x \in T : w[x] = IF x \in partial THEN 1 ELSE 0
    BY <2>1
  <2>4. c.incompleteRows = Cardinality(partial)
    BY <1>6 DEF IsCaseOver
  <2> HIDE DEF partial, w
  <2> QED
    BY <2>2, <2>3, <2>4, CountIs
<1>7. SumFunction(t) = SumFunctionOnSet(t, S)
  BY DEF SumFunction, FieldOver
<1> HIDE DEF w
<1>8. \A row \in S : t[row] = SumFunctionOnSet(w, lines[row])
  <2>1. \A row \in S : t[row] = row.source.incompleteRows
    BY DEF FieldOver
  <2>2. \A row \in S : lines[row] \in SUBSET Lines
    BY <1>2
  <2>3. \A row \in S : row.source.incompleteRows = SumFunctionOnSet(w, lines[row])
    BY <1>2, <1>6, <2>2
  <2> QED
    BY <2>1, <2>3
<1>9. \A k, m \in S : k # m => lines[k] \cap lines[m] = {}
  BY <1>2 DEF Apart
<1>10. SumFunctionOnSet(t, S) = SumFunctionOnSet(w, Joined(lines, S))
  BY <1>2, <1>3, <1>5, <1>8, <1>9, SumParts
<1>11. Whole(L).incompleteRows = SumFunctionOnSet(w, L)
  BY <1>2, <1>6, WholeIs
<1>12. Whole(L).incompleteRows = totals(L).incompleteRows
  BY WholeIs
<1> QED
  BY <1>2, <1>7, <1>10, <1>11, <1>12

\* The two computations of what is overdue differ only where nothing is known.
LEMMA OverdueAgrees ==
    ASSUME PaymentViewsAssumption, TypeOK, NEW L \in SUBSET Lines,
           Whole(L).overdueAmount # None
    PROVE  /\ Whole(L).overdueAmount = totals(L).overdue
           /\ Whole(L).overdueAmount = SumFunctionOnSet(Weight("overdueAmount"), L)
<1> DEFINE w == Weight("overdueAmount")
           v == Share("overdue")
           late == [l \in L |-> overdueAmount(l)]
<1>0. None \notin Int /\ asOf \in Nat
  BY DEF PaymentViewsAssumption
<1>1. "overdueAmount" \in Fields /\ "overdue" \in Money /\ "overdue" \notin Counts
  BY DEF Fields, Money, Counts
<1>2. IsFiniteSet(L) /\ \A l \in L : GoodLine(l)
  BY LinesKnown, LinesAreGood
<1>3. ASSUME NEW l \in L
      PROVE  /\ Known(l.overdueAmount) = Known(overdueAmount(l))
             /\ overdueAmount(l) = None => l.overdueAmount = None
  BY <1>0, <1>2 DEF GoodLine, overdueAmount, Known, Plus
<1>4. \A l \in L : w[l] = Known(l.overdueAmount)
  BY <1>1, WeightIs
<1>5. \A l \in L : v[l] = Known(overdueAmount(l)) /\ overdueAmount(l) \in IntOrNone
  BY <1>1, ShareIs
<1>6. /\ Whole(L).overdueAmount \in IntOrNone
      /\ Known(Whole(L).overdueAmount) = SumFunctionOnSet(w, L)
  BY <1>1, WholeIs, CaseSums
<1>7. totals(L).overdue = sumKnown(late)
  BY DEF totals
<1>8. /\ Into(late, L) /\ DOMAIN late = L /\ KnownOn(v, late, L)
      /\ \A l \in L : late[l] = overdueAmount(l)
  BY <1>5 DEF Into, KnownOn
<1> HIDE DEF w, v, late
<1>9. /\ sumKnown(late) \in IntOrNone
      /\ Known(sumKnown(late)) = SumFunctionOnSet(v, L)
      /\ sumKnown(late) = None <=> L # {} /\ \A l \in L : late[l] = None
  BY <1>2, <1>8, SumKnownIs
<1>10. SumFunctionOnSet(v, L) = SumFunctionOnSet(w, L)
  <2>1. \A l \in L : v[l] = w[l]
    BY <1>3, <1>4, <1>5
  <2> QED
    BY <1>2, <2>1, SumSame
<1>11. sumKnown(late) # None
  <2>1. ~(L # {} /\ \A l \in L : l.overdueAmount = None)
    BY WholeIs, CaseUnknown
  <2> QED
    BY <1>3, <1>8, <1>9, <2>1
<1> QED
  BY <1>0, <1>6, <1>7, <1>9, <1>10, <1>11 DEF Known, Plus, IntOrNone, w

\* What the report takes for a plain query is what the list takes.
LEMMA ReportTakes ==
    ASSUME PaymentViewsAssumption, TypeOK, NEW q, IsPlain(q)
    PROVE  ReportLines(ReportCases(Cases, q), q.currency) = Obligations(q)
<1> DEFINE Own == {e \in Cases : e.identity.currency = q.currency}
           Taken == UNION {selectPaymentKind(d, q.paymentKind) : d \in Own}
<1>1. {d \in Cases : q.currency \in {"__ALL__", d.identity.currency}} = Own
  BY DEF IsPlain
<1>2. Chosen(q) = {k \in Taken : matchesInvoiceOk(k, q.invoiceOk)
                                  /\ matchesAuthorization(k, q.authorizationState)}
  BY DEF Chosen
<1>3. ReportCases(Cases, q) =
        {c \in Taken : /\ q.projectGroup \in {"", paymentProjectGroups(c, Cases)}
                       /\ q.representative \in {""} \cup Meta(c).representatives
                       /\ matchesAuthorization(c, q.authorizationState)
                       /\ matchesInvoiceOk(c, q.invoiceOk)}
  BY <1>1, Zenon DEF ReportCases
<1>4. \A k \in Taken : k.identity.currency = q.currency
  BY KindKeepsIdentity
<1> HIDE DEF Own, Taken
<1>5. ReportCases(Cases, q) = Chosen(q)
  BY <1>2, <1>3 DEF IsPlain
<1>6. {d \in Chosen(q) : d.identity.currency = q.currency} = Chosen(q)
  BY <1>2, <1>4
<1> QED
  BY <1>5, <1>6 DEF ReportLines, Obligations

\* What the list says of the rows it shows.
LEMMA SummaryIs ==
    ASSUME PaymentViewsAssumption, TypeOK, NEW q, IsPlain(q),
           NEW L, L = Obligations(q)
    PROVE  /\ L \in SUBSET Lines
           /\ paymentList(Cases, q).filteredSummary.outstanding = Whole(L).outstanding
           /\ paymentList(Cases, q).filteredSummary.overdueAmount = Whole(L).overdueAmount
           /\ paymentList(Cases, q).filteredSummary.incompleteRows = totals(L).incompleteRows
<1> DEFINE S == Filtered(Cases, q)
           money == q.currency # "__ALL__"
           v == [row \in S |-> row.source.outstanding]
           w == [row \in S |-> row.source.overdueAmount]
           t == [row \in S |-> row.source.incompleteRows]
           s == paymentList(Cases, q).filteredSummary
<1>1. s = summarizeRows(S, money)
  BY DEF paymentList
<1>2. money
  BY DEF IsPlain
<1>3. /\ FieldOver(v, S, "outstanding") /\ FieldOver(w, S, "overdueAmount")
      /\ FieldOver(t, S, "incompleteRows")
  BY DEF FieldOver
<1>4. S = Filtered(Cases, q)
  OBVIOUS
<1>5. /\ summarizeRows(S, money).outstanding = IF money THEN sumKnown(v) ELSE None
      /\ summarizeRows(S, money).overdueAmount = IF money THEN sumKnown(w) ELSE None
      /\ summarizeRows(S, money).incompleteRows = SumFunction(t)
  BY DEF summarizeRows
<1> HIDE DEF S, money, v, w, t, s
<1>6. L \in SUBSET Lines
  <2> DEFINE lines == LinesBy(S)
  <2>1. Deals(lines, S, L)
    BY <1>4, ListDivides
  <2> QED
    BY <2>1 DEF Deals
<1>7. sumKnown(v) = Whole(L)["outstanding"]
  BY <1>3, <1>4, ListSums
<1>8. sumKnown(w) = Whole(L)["overdueAmount"]
  BY <1>3, <1>4, ListSums
<1>9. SumFunction(t) = totals(L).incompleteRows
  BY <1>3, <1>4, ListCounts
<1> QED
  BY <1>1, <1>2, <1>5, <1>6, <1>7, <1>8, <1>9 DEF s

\* The list and the report, of one currency.
LEMMA ListAndReport ==
    ASSUME PaymentViewsAssumption, TypeOK, NEW q, IsPlain(q),
           NEW r, r = buildCollectionReport(Cases, q), q.currency \in DOMAIN r.byCurrency
    PROVE  ListIsReport(paymentList(Cases, q).filteredSummary,
                        r.byCurrency[q.currency].totals.summary)
<1> DEFINE L == Obligations(q)
           cases == ReportCases(Cases, q)
           project == [i \in {c.identity : c \in Cases} |->
                         paymentProjectGroups([identity |-> i], Cases)]
           s == paymentList(Cases, q).filteredSummary
           b == r.byCurrency[q.currency]
<1>1. b = byCurrency(q, cases, q.currency, project)
  BY DEF buildCollectionReport, Report
<1>2. L = ReportLines(cases, q.currency)
  BY ReportTakes
<1> HIDE DEF b, project, cases
<1>3. Figures(b, L, q, project)
  BY <1>1, <1>2, BlockIs
<1>4. b.totals.summary = totals(L)
  BY <1>3 DEF Figures
<1>5. L = Obligations(q)
  OBVIOUS
<1> HIDE DEF L
<1>6. /\ L \in SUBSET Lines
      /\ s.outstanding = Whole(L).outstanding
      /\ s.overdueAmount = Whole(L).overdueAmount
      /\ s.incompleteRows = totals(L).incompleteRows
  BY <1>5, SummaryIs
<1> HIDE DEF s
<1>7. s.outstanding = totals(L).outstanding
  BY <1>6, WholeIs
<1>8. s.overdueAmount # None => s.overdueAmount = totals(L).overdue
  BY <1>6, OverdueAgrees
<1>9. ListIsReport(s, totals(L))
  BY <1>6, <1>7, <1>8 DEF ListIsReport
<1> QED
  BY <1>4, <1>9 DEF s, b

\* The rows of the table that are overdue.
LEMMA TableRows ==
    ASSUME PaymentViewsAssumption, TypeOK, NEW q, IsPlain(q), q.paymentKind = "sale",
           q.invoiceOk = "DND", q.authorizationState = "blank",
           NEW T, T = buildInstallmentTable(Cases, q.currency, "overdue").rows
    PROVE  T = {l \in Obligations(q) : l.status = "overdue"}
<1> DEFINE Open(c) == matchesInvoiceOk(c, "DND") /\ matchesAuthorization(c, "blank")
           eligible == {c \in Cases : Open(c)}
<1>1. T = {l \in UNION {c.installments : c \in eligible} :
             l.kind = "sale" /\ l.identity.currency = q.currency /\ l.status = "overdue"}
  BY DEF buildInstallmentTable
<1>2. \A c, d : c.identity = d.identity => (Open(c) <=> Open(d))
  BY DEF matchesInvoiceOk, invoiceOkToken, matchesAuthorization, Meta
<1>3. Chosen(q) = {k \in UNION {selectPaymentKind(d, "sale") :
                                 d \in {e \in Cases : e.identity.currency = q.currency}} : Open(k)}
  BY DEF Chosen
<1>4. ASSUME NEW c \in Cases
      PROVE  /\ \A l \in c.installments : l.identity = c.identity
             /\ \A k \in selectPaymentKind(c, "sale") :
                  /\ k.identity = c.identity
                  /\ k.installments = {l \in c.installments : l.kind = "sale"}
             /\ (\E l \in c.installments : l.kind = "sale") => selectPaymentKind(c, "sale") # {}
  <2>1. \A l \in c.installments : l.identity = c.identity
    BY CaseFacts
  <2> DEFINE M == {l \in c.installments : l.kind = "sale"}
             part == CaseOver(c.identity, M, [l \in M |-> timedAmount(l, "overdue")])
  <2>2. selectPaymentKind(c, "sale") = IF M = {} THEN {} ELSE {part}
    BY DEF selectPaymentKind
  <2>3. part.identity = c.identity /\ part.installments = M
    BY DEF CaseOver
  <2>4. (\E l \in c.installments : l.kind = "sale") => M # {}
    OBVIOUS
  <2>5. M = {l \in c.installments : l.kind = "sale"}
    OBVIOUS
  <2> HIDE DEF M, part
  <2> QED
    BY <2>1, <2>2, <2>3, <2>4, <2>5
<1> HIDE DEF Open
<1>5. ASSUME NEW l \in T PROVE l \in Obligations(q) /\ l.status = "overdue"
  <2>1. PICK c \in Cases : l \in c.installments /\ Open(c)
    BY <1>1
  <2>2. l.kind = "sale" /\ l.identity.currency = q.currency /\ l.status = "overdue"
    BY <1>1
  <2>3. PICK k \in selectPaymentKind(c, "sale") : TRUE
    BY <1>4, <2>1, <2>2
  <2>4. k.identity = c.identity /\ l \in k.installments /\ c.identity.currency = q.currency
    BY <1>4, <2>1, <2>2, <2>3
  <2>5. Open(k)
    BY <1>2, <2>1, <2>4
  <2>6. k \in Chosen(q)
    BY <1>3, <2>3, <2>4, <2>5
  <2> QED
    BY <2>2, <2>4, <2>6 DEF Obligations
<1>6. ASSUME NEW l \in Obligations(q), l.status = "overdue" PROVE l \in T
  <2>1. PICK k \in Chosen(q) : l \in k.installments
    BY DEF Obligations
  <2>2. PICK c \in Cases : k \in selectPaymentKind(c, "sale") /\ c.identity.currency = q.currency
    BY <1>3
  <2>3. Open(k)
    BY <1>3
  <2>4. k.identity = c.identity /\ l \in c.installments /\ l.kind = "sale" /\ l.identity = c.identity
    BY <1>4, <2>1, <2>2
  <2>5. Open(c)
    BY <1>2, <2>3, <2>4
  <2> QED
    BY <1>1, <1>6, <2>2, <2>4, <2>5
<1> QED
  <2>1. \A l : l \in T <=> l \in {m \in Obligations(q) : m.status = "overdue"}
    BY <1>5, <1>6
  <2> QED
    BY <2>1, <1>1

\* What the table shows of them is what the list calls overdue.
LEMMA TableAgrees ==
    ASSUME PaymentViewsAssumption, TypeOK, NEW q, IsPlain(q), q.paymentKind = "sale",
           q.invoiceOk = "DND", q.authorizationState = "blank",
           NEW s, s = paymentList(Cases, q).filteredSummary, s.overdueAmount # None
    PROVE  s.overdueAmount = buildInstallmentTable(Cases, q.currency, "overdue").overall.outstanding
<1> DEFINE L == Obligations(q)
           table == buildInstallmentTable(Cases, q.currency, "overdue")
           T == table.rows
           open == [l \in T |-> l.outstanding]
           w == Weight("overdueAmount")
           R == L \ T
<1>0. None \notin Int /\ asOf \in Nat /\ "overdueAmount" \in Fields
  BY DEF PaymentViewsAssumption, Fields
<1>1. /\ L = Obligations(q) /\ T = table.rows
      /\ table = buildInstallmentTable(Cases, q.currency, "overdue")
  OBVIOUS
<1>2. table.overall = totalsFor(T)
  BY DEF buildInstallmentTable
<1>3. totalsFor(T).outstanding = sumExact(open)
  BY DEF totalsFor
<1> HIDE DEF L, table, T
<1>4. L \in SUBSET Lines /\ s.overdueAmount = Whole(L).overdueAmount
  BY <1>1, SummaryIs
<1>5. T = {l \in L : l.status = "overdue"}
  BY <1>1, TableRows
<1>6. s.overdueAmount = SumFunctionOnSet(w, L)
  BY <1>4, OverdueAgrees
<1>7. IsFiniteSet(T) /\ IsFiniteSet(R) /\ T \cap R = {} /\ T \cup R = L
  BY <1>4, <1>5, LinesKnown
<1>8. \A l \in L : w[l] = Known(l.overdueAmount) /\ GoodLine(l)
  BY <1>0, <1>4, WeightIs, LinesAreGood
<1>9. IntOn(w, L)
  <2>1. IntOn(w, Lines)
    BY <1>0, WeightIs
  <2> QED
    BY <1>4, <2>1 DEF IntOn
<1> HIDE DEF w, R
<1>10. ASSUME NEW l \in T PROVE w[l] = l.outstanding /\ l.outstanding # None
  BY <1>0, <1>5, <1>8 DEF GoodLine, Known, Plus
<1>11. ASSUME NEW l \in R PROVE w[l] = 0
  <2>1. l \in L /\ l.status # "overdue"
    BY <1>5 DEF R
  <2> QED
    BY <1>0, <1>8, <2>1 DEF GoodLine, Known, Plus
<1>12. SumFunctionOnSet(w, L) = SumFunctionOnSet(w, T) + SumFunctionOnSet(w, R)
  BY <1>7, <1>9, SumUnion
<1>13. SumFunctionOnSet(w, R) = 0
  BY <1>7, <1>11, SumIsNat DEF NatOn
<1>14. SumFunctionOnSet(w, T) \in Int
  <2>1. IntOn(w, T)
    BY <1>5, <1>9 DEF IntOn
  <2> QED
    BY <1>7, <2>1, SumIsInt
<1>15. sumExact(open) = SumFunctionOnSet(open, T)
  <2>1. DOMAIN open = T /\ \A l \in T : open[l] # None
    BY <1>10
  <2> HIDE DEF open
  <2> QED
    BY <2>1 DEF sumExact, SumFunction
<1>16. SumFunctionOnSet(open, T) = SumFunctionOnSet(w, T)
  <2>1. \A l \in T : open[l] = w[l]
    BY <1>10
  <2> HIDE DEF open
  <2> QED
    BY <1>7, <2>1, SumSame
<1> HIDE DEF open
<1>17. table.overall.outstanding = s.overdueAmount
  BY <1>2, <1>3, <1>6, <1>12, <1>13, <1>14, <1>15, <1>16
<1> QED
  BY <1>1, <1>17

\* What the list calls overdue, the report and the installment table call overdue: of every
\* snapshot, in each currency and kind (paymentList, buildCollectionReport,
\* buildInstallmentTable).
LEMMA Agree ==
    ASSUME PaymentViewsAssumption, TypeOK
    PROVE  ViewsAgree
<1> DEFINE OfKindToo(q, k) == [q EXCEPT !.paymentKind = k]
           Tabled(q) == [q EXCEPT !.paymentKind = "sale", !.invoiceOk = "DND",
                                  !.authorizationState = "blank"]
<1>1. ASSUME NEW q \in CurrencyQueries
      PROVE  /\ \A k : IsPlain(OfKindToo(q, k)) /\ OfKindToo(q, k).currency = q.currency
             /\ IsPlain(Tabled(q)) /\ Tabled(q).currency = q.currency
             /\ Tabled(q).paymentKind = "sale" /\ Tabled(q).invoiceOk = "DND"
             /\ Tabled(q).authorizationState = "blank"
  <2>1. PICK c \in Cases : q = [Query EXCEPT !.currency = c.identity.currency]
    BY DEF CurrencyQueries
  <2>2. c.identity \in Range(Identities)
    <3>1. PICK n \in DOMAIN rows : c.identity = rows[n].identity
      BY CaseFacts, CasesAre DEF CaseIdentities
    <3>2. rows[n] \in Rows
      BY DEF TypeOK
    <3> QED
      BY <3>1, <3>2 DEF PaymentViewsAssumption
  <2>3. c.identity.currency # "__ALL__"
    BY <2>2 DEF PaymentViewsAssumption
  <2> DEFINE u == c.identity.currency
  <2>4. q = [Query EXCEPT !.currency = u]
    BY <2>1
  <2> HIDE DEF u
  <2>5. u # "__ALL__"
    BY <2>3 DEF u
  <2> QED
    BY <2>4, <2>5 DEF Query, IsPlain
<1>2. ASSUME NEW q \in CurrencyQueries, NEW k,
             NEW r, r = buildCollectionReport(Cases, OfKindToo(q, k)),
             q.currency \in DOMAIN r.byCurrency
      PROVE  ListIsReport(paymentList(Cases, OfKindToo(q, k)).filteredSummary,
                          r.byCurrency[q.currency].totals.summary)
  <2> DEFINE p == OfKindToo(q, k)
  <2>1. IsPlain(p) /\ p.currency = q.currency
    BY <1>1
  <2> HIDE DEF OfKindToo
  <2> QED
    BY <1>2, <2>1, ListAndReport
<1>3. ASSUME NEW q \in CurrencyQueries,
             NEW s, s = paymentList(Cases, Tabled(q)).filteredSummary, s.overdueAmount # None
      PROVE  s.overdueAmount =
               buildInstallmentTable(Cases, q.currency, "overdue").overall.outstanding
  <2> DEFINE p == Tabled(q)
  <2>1. /\ IsPlain(p) /\ p.currency = q.currency /\ p.paymentKind = "sale"
        /\ p.invoiceOk = "DND" /\ p.authorizationState = "blank"
    BY <1>1
  <2> HIDE DEF Tabled
  <2> QED
    BY <1>3, <2>1, TableAgrees
<1> HIDE DEF OfKindToo, Tabled
<1>4. ViewsAgree <=>
        \A q \in CurrencyQueries :
          /\ \A k \in Kinds \cup {"all"} :
               LET r == buildCollectionReport(Cases, OfKindToo(q, k)) IN
               q.currency \in DOMAIN r.byCurrency =>
                 ListIsReport(paymentList(Cases, OfKindToo(q, k)).filteredSummary,
                              r.byCurrency[q.currency].totals.summary)
          /\ LET s == paymentList(Cases, Tabled(q)).filteredSummary IN
             s.overdueAmount # None =>
               s.overdueAmount = buildInstallmentTable(Cases, q.currency, "overdue").overall.outstanding
  BY Zenon DEF ViewsAgree, OfKindToo, Tabled
<1> QED
  BY <1>2, <1>3, <1>4

-----------------------------------------------------------------------------
(* The pages of a list are the list.                                       *)

InOrder(q, S) ==
    /\ \A a \in S : ~Before(q, a, a)
    /\ \A a, b, c \in S : Before(q, a, b) /\ Before(q, b, c) => Before(q, a, c)
    /\ \A a, b \in S : a # b => Before(q, a, b) \/ Before(q, b, a)

\* How many rows come before each.
Rank(q, S) == [a \in S |-> Cardinality({b \in S : Before(q, b, a)}) + 1]

\* A strict linear order numbers a finite set: the number of an element counts those before it.
LEMMA RankIs ==
    ASSUME NEW q, NEW S, IsFiniteSet(S), InOrder(q, S)
    PROVE  /\ Rank(q, S) \in Surjection(S, 1..Cardinality(S))
           /\ \A a, b \in S : Before(q, a, b) => Rank(q, S)[a] < Rank(q, S)[b]
<1> DEFINE n == Cardinality(S)
           prior == [a \in S |-> {b \in S : Before(q, b, a)}]
           r == Rank(q, S)
<1>1. \A a \in S : prior[a] \in SUBSET S /\ a \notin prior[a]
  BY DEF InOrder
<1>2. \A a, b \in S : Before(q, a, b) => prior[a] \subseteq prior[b] /\ a \in prior[b]
  BY DEF InOrder
<1>3. \A a, b \in S : a # b => Before(q, a, b) \/ Before(q, b, a)
  BY DEF InOrder
<1>4. DOMAIN r = S /\ \A a \in S : r[a] = Cardinality(prior[a]) + 1
  BY DEF Rank
<1>5. n \in Nat
  BY FS_CardinalityType
<1> HIDE DEF n, prior, r
<1>6. \A a \in S : /\ IsFiniteSet(prior[a]) /\ Cardinality(prior[a]) \in Nat
                   /\ Cardinality(prior[a]) < n
  <2> SUFFICES ASSUME NEW a \in S
               PROVE  /\ IsFiniteSet(prior[a]) /\ Cardinality(prior[a]) \in Nat
                      /\ Cardinality(prior[a]) < n
    OBVIOUS
  <2>1. /\ IsFiniteSet(prior[a]) /\ Cardinality(prior[a]) <= n
        /\ n = Cardinality(prior[a]) => S = prior[a]
    BY <1>1, FS_Subset DEF n
  <2>2. Cardinality(prior[a]) \in Nat
    BY <2>1, FS_CardinalityType
  <2> QED
    BY <1>1, <1>5, <2>1, <2>2
<1>7. ASSUME NEW a \in S, NEW b \in S, Before(q, a, b)
      PROVE  Cardinality(prior[a]) < Cardinality(prior[b])
  <2>1. prior[a] \in SUBSET prior[b] /\ prior[a] # prior[b]
    BY <1>1, <1>2, <1>7
  <2>2. IsFiniteSet(prior[b])
    BY <1>6
  <2>3. /\ Cardinality(prior[a]) <= Cardinality(prior[b])
        /\ Cardinality(prior[b]) = Cardinality(prior[a]) => prior[b] = prior[a]
    BY <2>1, <2>2, FS_Subset
  <2>4. Cardinality(prior[a]) \in Nat /\ Cardinality(prior[b]) \in Nat
    BY <1>6
  <2> QED
    BY <2>1, <2>3, <2>4
<1>8. \A a, b \in S : Before(q, a, b) => r[a] < r[b]
  BY <1>4, <1>6, <1>7
<1>9. r \in [S -> 1..n]
  <2>1. \A a \in S : r[a] \in 1..n
    BY <1>4, <1>5, <1>6
  <2>2. r = [a \in S |-> r[a]]
    BY DEF r, Rank
  <2> QED
    BY <2>1, <2>2
<1>10. r \in Injection(S, 1..n)
  <2>1. \A a, b \in S : r[a] \in Int
    BY <1>9
  <2>2. \A a, b \in S : r[a] = r[b] => a = b
    BY <1>3, <1>8, <2>1
  <2> QED
    BY <1>9, <2>2 DEF Injection, IsInjective
<1>11. IsFiniteSet(1..n) /\ Cardinality(1..n) = n
  BY <1>5, FS_Interval
<1>12. r \in Surjection(S, 1..n)
  BY <1>10, <1>11, FS_Injection DEF n
<1> QED
  BY <1>8, <1>12 DEF n, r

\* Rows that are ordered have a listing, and it names each of them once, in order.
LEMMA Listing ==
    ASSUME NEW q, NEW S, IsFiniteSet(S), InOrder(q, S),
           NEW list, list = CHOOSE l \in Listings(q, S) : TRUE
    PROVE  /\ list \in Seq(S) /\ Len(list) = Cardinality(S)
           /\ Range(list) = S
           /\ \A m, n \in DOMAIN list : m < n => Before(q, list[m], list[n])
<1> DEFINE n == Cardinality(S)
           r == Rank(q, S)
           g == [k \in 1..n |-> CHOOSE a \in S : r[a] = k]
<1>1. n \in Nat
  BY FS_CardinalityType
<1>2. \A f : f \in SetToSeqs(S) <=> f \in [1..n -> S] /\ \A i, j \in 1..n : i # j => f[i] # f[j]
  BY DEF SetToSeqs
<1>3. r \in Surjection(S, 1..n) /\ \A a, b \in S : Before(q, a, b) => r[a] < r[b]
  BY RankIs
<1> HIDE DEF n, r
<1>4. \A k \in 1..n : g[k] \in S /\ r[g[k]] = k
  <2> SUFFICES ASSUME NEW k \in 1..n PROVE g[k] \in S /\ r[g[k]] = k
    OBVIOUS
  <2>1. \E a \in S : r[a] = k
    BY <1>3 DEF Surjection
  <2>2. g[k] = CHOOSE a \in S : r[a] = k
    OBVIOUS
  <2> HIDE DEF g
  <2> QED
    BY <2>1, <2>2
<1>5. g \in SetToSeqs(S)
  <2>1. g \in [1..n -> S]
    BY <1>4
  <2> HIDE DEF g
  <2> QED
    BY <1>2, <1>4, <2>1
<1>6. \A i, j \in DOMAIN g : i < j => ~Before(q, g[j], g[i])
  <2>1. DOMAIN g = 1..n
    OBVIOUS
  <2> HIDE DEF g
  <2> SUFFICES ASSUME NEW i \in 1..n, NEW j \in 1..n, i < j, Before(q, g[j], g[i]) PROVE FALSE
    BY <2>1
  <2>2. r[g[j]] < r[g[i]]
    BY <1>3, <1>4
  <2>3. j < i
    BY <1>4, <2>2
  <2> QED
    BY <1>1, <2>3
<1> HIDE DEF g
<1>7. list \in Listings(q, S)
  <2>1. g \in Listings(q, S)
    BY <1>5, <1>6 DEF Listings
  <2> QED
    BY <2>1
<1>8. /\ list \in [1..n -> S]
      /\ \A i, j \in 1..n : i # j => list[i] # list[j]
      /\ \A i, j \in 1..n : i < j => ~Before(q, list[j], list[i])
  BY <1>2, <1>7 DEF Listings
<1>9. \A i, j \in 1..n : i < j => Before(q, list[i], list[j])
  <2> SUFFICES ASSUME NEW i \in 1..n, NEW j \in 1..n, i < j PROVE Before(q, list[i], list[j])
    OBVIOUS
  <2>1. list[i] \in S /\ list[j] \in S /\ list[i] # list[j] /\ ~Before(q, list[j], list[i])
    BY <1>1, <1>8
  <2> QED
    BY <2>1 DEF InOrder
<1>10. Range(list) = S
  <2>1. IsFiniteSet(1..n) /\ Cardinality(1..n) = n
    BY <1>1, FS_Interval
  <2>2. list \in Injection(1..n, S)
    BY <1>8 DEF Injection, IsInjective
  <2>3. list \in Surjection(1..n, S)
    BY <2>1, <2>2, FS_Injection DEF n
  <2>4. \A a \in S : \E i \in 1..n : list[i] = a
    BY <2>3 DEF Surjection
  <2>5. DOMAIN list = 1..n /\ \A i \in 1..n : list[i] \in S
    BY <1>8
  <2> QED
    BY <2>4, <2>5, Zenon DEF Range
<1>11. list \in Seq(S) /\ Len(list) = n /\ DOMAIN list = 1..n
  BY <1>1, <1>8
<1> QED
  BY <1>9, <1>10, <1>11 DEF n

MinOf(a, b) == IF a <= b THEN a ELSE b

\* The least of a set of two.
LEMMA MinOfTwo ==
    ASSUME NEW a \in Int, NEW b \in Int
    PROVE  Min({a, b}) = MinOf(a, b)
<1>1. \E x \in {a, b} : \A y \in {a, b} : x <= y
  OBVIOUS
<1>2. Min({a, b}) \in {a, b} /\ \A y \in {a, b} : Min({a, b}) <= y
  BY <1>1, Zenon DEF Min
<1> QED
  BY <1>2 DEF MinOf

\* The pages have room for the list, and every page begins within it.
LEMMA PagesCover ==
    ASSUME PaymentViewsAssumption, NEW n \in Nat, NEW t, t = TotalPages(n)
    PROVE  /\ t \in Nat \ {0}
           /\ n <= t * PageSize
           /\ \A p \in 1..t : /\ (p - 1) * PageSize \in 0..n
                              /\ p * PageSize = (p - 1) * PageSize + PageSize
<1> DEFINE d == (n + PageSize - 1) \div PageSize
<1>0. PageSize \in Nat /\ PageSize > 0
  BY DEF PaymentViewsAssumption
<1>1. n + PageSize - 1 \in Nat
  BY <1>0
<1>2. /\ d \in Nat
      /\ PageSize * d <= n + PageSize - 1
      /\ n + PageSize - 1 < PageSize * d + PageSize
  BY <1>0, <1>1
<1> HIDE DEF d
<1>3. t = IF d >= 1 THEN d ELSE 1
  <2>1. t = Max({1, d})
    BY DEF TotalPages, d
  <2>2. \E x \in {1, d} : \A y \in {1, d} : x >= y
    BY <1>2
  <2>3. Max({1, d}) \in {1, d} /\ \A y \in {1, d} : Max({1, d}) >= y
    BY <2>2, Zenon DEF Max
  <2> QED
    BY <1>2, <2>1, <2>3
<1>4. n <= t * PageSize
  <2>1. CASE d >= 1
    BY <1>0, <1>2, <1>3, <2>1
  <2>2. CASE d = 0
    BY <1>0, <1>2, <1>3, <2>2
  <2> QED
    BY <1>2, <2>1, <2>2
<1>5. ASSUME NEW p \in 1..t
      PROVE  (p - 1) * PageSize \in 0..n /\ p * PageSize = (p - 1) * PageSize + PageSize
  <2>1. p - 1 \in Nat /\ (p - 1) * PageSize \in Nat /\ p * PageSize = (p - 1) * PageSize + PageSize
    BY <1>0, <1>2, <1>3
  <2>2. CASE p = 1
    BY <1>0, <2>1, <2>2
  <2>3. CASE p > 1
    <3>1. t = d /\ p <= d
      BY <1>2, <1>3, <2>3
    <3>2. p * PageSize <= PageSize * d
      BY <1>0, <1>2, <2>1, <3>1
    <3>3. p * PageSize \in Nat
      BY <1>0, <2>1
    <3> QED
      BY <1>0, <1>2, <2>1, <3>2, <3>3
  <2> QED
    BY <2>2, <2>3
<1>6. t \in Nat \ {0}
  BY <1>2, <1>3
<1> QED
  BY <1>4, <1>5, <1>6

\* The list up to a page, and a page of it.
UpTo(list, p) == SubSeq(list, 1, MinOf(p * PageSize, Len(list)))
PagesOf(list) == [p \in 1..TotalPages(Len(list)) |-> Page(list, p)]

\* A page is what the list up to it has more than the list up to the page before.
LEMMA PageIs ==
    ASSUME PaymentViewsAssumption, NEW S, NEW list \in Seq(S),
           NEW t, t = TotalPages(Len(list)), NEW p \in 1..t
    PROVE  /\ p = 1 => Page(list, p) = UpTo(list, p)
           /\ p > 1 => UpTo(list, p) = UpTo(list, p - 1) \o Page(list, p)
<1> DEFINE n == Len(list)
           a == (p - 1) * PageSize
           b == p * PageSize
<1>0. n \in Nat /\ PageSize \in Nat /\ PageSize > 0
  BY DEF PaymentViewsAssumption
<1>1. t \in Nat \ {0} /\ a \in 0..n /\ b = a + PageSize
  BY <1>0, PagesCover
<1>2. Min({p, t}) = p
  <2>1. p \in Int /\ t \in Int /\ p <= t
    BY <1>1
  <2> QED
    BY <2>1, MinOfTwo DEF MinOf
<1>3. Page(list, p) =
        SubSeq(list, (Min({p, t}) - 1) * PageSize + 1, Min({Min({p, t}) * PageSize, n}))
  BY DEF Page
<1>4. Page(list, p) = SubSeq(list, a + 1, Min({b, n}))
  BY <1>2, <1>3
<1>5. p = 1 => a = 0
  BY <1>0
<1> HIDE DEF a, b, n
<1>6. Page(list, p) = SubSeq(list, a + 1, MinOf(b, n))
  <2>1. b \in Int /\ n \in Int
    BY <1>0, <1>1
  <2> QED
    BY <1>4, <2>1, MinOfTwo
<1>7. /\ UpTo(list, p) = SubSeq(list, 1, MinOf(b, n))
      /\ UpTo(list, p - 1) = SubSeq(list, 1, MinOf(a, n))
  BY DEF UpTo, a, b, n
<1>8. MinOf(a, n) = a /\ MinOf(b, n) \in a..n
  BY <1>0, <1>1 DEF MinOf
<1>9. CASE p = 1
  <2>1. a + 1 = 1 /\ ~(p > 1)
    BY <1>5, <1>9
  <2>2. SubSeq(list, a + 1, MinOf(b, n)) = SubSeq(list, 1, MinOf(b, n))
    BY <2>1, Zenon
  <2>3. Page(list, p) = UpTo(list, p)
    BY <1>6, <1>7, <2>2, Zenon
  <2> QED
    BY <2>1, <2>3, Zenon
<1>10. CASE p > 1
  <2>1. SubSeq(list, 1, a) \o SubSeq(list, a + 1, MinOf(b, n)) = SubSeq(list, 1, MinOf(b, n))
    <3>1. 1 \in 1..Len(list)+1 /\ a \in 1-1 .. Len(list) /\ MinOf(b, n) \in a .. Len(list)
      BY <1>0, <1>1, <1>8 DEF n
    <3> QED
      BY <3>1, ConcatAdjacentSubSeq
  <2>2. UpTo(list, p - 1) = SubSeq(list, 1, a)
    BY <1>7, <1>8, Zenon
  <2>3. UpTo(list, p) = UpTo(list, p - 1) \o Page(list, p)
    BY <1>6, <1>7, <2>1, <2>2, Zenon
  <2>4. p # 1
    BY <1>1, <1>10
  <2> QED
    BY <2>3, <2>4, Zenon
<1> QED
  BY <1>1, <1>9, <1>10

\* Laid one after the other, the pages give the list again.
Joins(f, seqs) ==
    f = [i \in 1..Len(seqs) |-> IF i = 1 THEN seqs[i] ELSE f[i - 1] \o seqs[i]]

\* The pages, laid one after the other, are the list.
LEMMA PagesJoin ==
    ASSUME PaymentViewsAssumption, NEW S, NEW list \in Seq(S)
    PROVE  FlattenSeq(PagesOf(list)) = list
<1> DEFINE seqs == PagesOf(list)
           t == TotalPages(Len(list))
           g == [i \in 1..t |-> UpTo(list, i)]
           f == CHOOSE h : Joins(h, seqs)
<1>0. Len(list) \in Nat
  OBVIOUS
<1>1. t = TotalPages(Len(list)) /\ t \in Nat \ {0} /\ Len(list) <= t * PageSize
  BY <1>0, PagesCover
<1>2. DOMAIN seqs = 1..t /\ \A p \in 1..t : seqs[p] = Page(list, p)
  BY DEF PagesOf
<1>3. Len(seqs) = t
  <2>1. seqs = [p \in 1..t |-> Page(list, p)]
    BY DEF PagesOf
  <2> HIDE DEF t, seqs
  <2> QED
    BY <1>1, <2>1
<1>4. FlattenSeq(seqs) = IF Len(seqs) = 0 THEN seqs ELSE f[Len(seqs)]
  BY DEF FlattenSeq, Joins
<1>5. DOMAIN g = 1..t /\ \A i \in 1..t : g[i] = UpTo(list, i)
  OBVIOUS
<1>6. g = [i \in 1..t |-> UpTo(list, i)]
  OBVIOUS
<1> HIDE DEF seqs, t, g
<1>7. \A p \in 1..t : /\ p = 1 => seqs[p] = g[p]
                      /\ p > 1 => g[p] = g[p - 1] \o seqs[p]
  <2> SUFFICES ASSUME NEW p \in 1..t
               PROVE  /\ p = 1 => seqs[p] = g[p]
                      /\ p > 1 => g[p] = g[p - 1] \o seqs[p]
    OBVIOUS
  <2>1. /\ p = 1 => Page(list, p) = UpTo(list, p)
        /\ p > 1 => UpTo(list, p) = UpTo(list, p - 1) \o Page(list, p)
    BY <1>1, PageIs
  <2>2. p > 1 => p - 1 \in 1..t
    BY <1>1
  <2> QED
    BY <1>2, <1>5, <2>1, <2>2
<1>8. Joins(g, seqs)
  <2>1. ASSUME NEW i \in 1..t
        PROVE  g[i] = IF i = 1 THEN seqs[i] ELSE g[i - 1] \o seqs[i]
    <3>1. i = 1 \/ i > 1
      BY <1>1
    <3>2. CASE i = 1
      BY <1>7, <3>2
    <3>3. CASE i > 1
      <4>0. i # 1
        BY <1>1, <3>3
      <4>1. g[i] = g[i - 1] \o seqs[i] /\ i # 1
        BY <1>7, <3>3, <4>0, Zenon
      <4> QED
        BY <4>1, Zenon
    <3> QED
      BY <3>1, <3>2, <3>3
  <2>2. g = [i \in 1..t |-> g[i]]
    BY <1>5, <1>6
  <2>3. g = [i \in 1..t |-> IF i = 1 THEN seqs[i] ELSE g[i - 1] \o seqs[i]]
    BY <2>1, <2>2
  <2> QED
    BY <1>3, <2>3 DEF Joins
<1>9. Joins(f, seqs)
  <2>1. \E h : Joins(h, seqs)
    BY <1>8
  <2> QED
    BY <2>1, Zenon
<1> HIDE DEF f
<1>10. \A i \in 1..t : f[i] = IF i = 1 THEN seqs[i] ELSE f[i - 1] \o seqs[i]
  BY <1>3, <1>9 DEF Joins
<1>11. \A i \in 1..t : f[i] = g[i]
  <2> DEFINE bad == {i \in 1..t : f[i] # g[i]}
  <2> SUFFICES ASSUME bad # {} PROVE FALSE
    OBVIOUS
  <2>1. bad \in SUBSET Nat
    BY <1>1
  <2>2. \A i \in bad : i \in 1..t /\ f[i] # g[i]
    OBVIOUS
  <2>3. \A i \in 1..t : i \notin bad => f[i] = g[i]
    OBVIOUS
  <2> HIDE DEF bad
  <2>4. PICK m \in bad : \A d \in bad : m <= d
    BY <2>1, FirstIs
  <2>5. m \in 1..t /\ f[m] # g[m]
    BY <2>2, <2>4
  <2>6. CASE m = 1
    BY <1>7, <1>10, <2>5, <2>6
  <2>7. CASE m > 1
    <3>1. m - 1 \in 1..t /\ m - 1 \notin bad
      BY <1>1, <2>4, <2>5, <2>7
    <3>2. f[m - 1] = g[m - 1]
      BY <2>3, <3>1
    <3> QED
      BY <1>7, <1>10, <2>5, <2>7, <3>2
  <2> QED
    BY <1>1, <2>5, <2>6, <2>7
<1>12. g[t] = list
  <2>1. g[t] = UpTo(list, t)
    BY <1>1, <1>5
  <2>2. MinOf(t * PageSize, Len(list)) = Len(list)
    <3>1. t * PageSize \in Int
      BY <1>1 DEF PaymentViewsAssumption
    <3> QED
      BY <1>0, <1>1, <3>1 DEF MinOf
  <2> QED
    BY <2>1, <2>2, SubSeqFull DEF UpTo
<1>13. FlattenSeq(seqs) = list
  BY <1>1, <1>3, <1>4, <1>11, <1>12
<1> QED
  BY <1>13 DEF seqs

\* The comparison, of keys: closed or not, place of the currency, value, place of the case.
Precedes(all, apart, up, f, g, c, d, x, y, i, j) ==
    IF all /\ f # g THEN g
    ELSE IF apart /\ c # d THEN c < d
    ELSE IF x # y /\ None \in {x, y} THEN y = None
    ELSE IF x # y THEN (IF up THEN x < y ELSE x > y)
    ELSE i < j

\* Different members of a sequence have different places.
LEMMA PlaceIs ==
    ASSUME NEW s, s \in Seq(Range(s))
    PROVE  /\ \A x : Place(s, x) \in Int
           /\ \A x, y \in Range(s) : Place(s, x) = Place(s, y) => x = y
<1>1. Len(s) \in Nat /\ DOMAIN s = 1..Len(s)
  OBVIOUS
<1>2. ASSUME NEW x, \E n \in DOMAIN s : s[n] = x
      PROVE  Place(s, x) \in DOMAIN s /\ s[Place(s, x)] = x
  <2>1. Place(s, x) = CHOOSE n \in DOMAIN s : s[n] = x
    BY <1>2 DEF Place
  <2> QED
    BY <1>2, <2>1, Zenon
<1>3. ASSUME NEW x, ~\E n \in DOMAIN s : s[n] = x
      PROVE  Place(s, x) = Len(s) + 1
  BY <1>3 DEF Place
<1>4. \A x : Place(s, x) \in Int
  BY <1>1, <1>2, <1>3
<1>5. \A x \in Range(s) : s[Place(s, x)] = x
  BY <1>2 DEF Range
<1> QED
  BY <1>4, <1>5

\* The rows of a list are cases, or their parts of one kind, one row of a case at most.
LEMMA RowsAreParts ==
    ASSUME PaymentViewsAssumption, TypeOK, NEW q, NEW S, S = Filtered(Cases, q)
    PROVE  /\ IsFiniteSet(S)
           /\ \A row \in S : /\ IsPart(row.source)
                             /\ row.identity \in Range(Identities)
                             /\ row.fullyPaid \in BOOLEAN
           /\ \A a, b \in S : a.identity = b.identity => a = b
<1> DEFINE kind == q.paymentKind
           Of(c, k) == trackingRow(k, states[c.identity], isPortfolioClosed(c, Cases),
                                   paymentProjectGroups(c, Cases))
           f == [c \in Cases |-> Of(c, CHOOSE k \in selectPaymentKind(c, kind) : TRUE)]
           case == [l \in Lines |-> sourceCase(l.identity, LinesOf(l.identity))]
<1>1. IsFiniteSet(Cases)
  <2>1. \A c \in Cases : \E l \in Lines : c = case[l]
    BY CasesAre
  <2> HIDE DEF case
  <2> QED
    BY <2>1, LinesAreGood, ImageIsFinite
<1>2. ASSUME NEW row \in S
      PROVE  \E c \in Cases : \E k \in selectPaymentKind(c, kind) : row = Of(c, k)
  <2>1. row \in CurrencyRows(Cases, q)
    BY DEF Filtered, Base
  <2> QED
    BY <2>1, Zenon DEF CurrencyRows
<1>3. \A c, k : /\ Of(c, k).source = k /\ Of(c, k).identity = k.identity
                /\ Of(c, k).fullyPaid = isPortfolioClosed(c, Cases)
  BY DEF trackingRow
<1>4. \A c : isPortfolioClosed(c, Cases) \in BOOLEAN
  BY DEF isPortfolioClosed
<1>5. \A c \in Cases : c.identity \in Range(Identities)
  <2> SUFFICES ASSUME NEW c \in Cases PROVE c.identity \in Range(Identities)
    OBVIOUS
  <2>1. PICK n \in DOMAIN rows : c.identity = rows[n].identity
    BY CaseFacts, CasesAre DEF CaseIdentities
  <2>2. rows[n] \in Rows
    BY DEF TypeOK
  <2> QED
    BY <2>1, <2>2 DEF PaymentViewsAssumption
<1>6. IsFiniteSet(S)
  <2>1. ASSUME NEW row \in S PROVE \E c \in Cases : row = f[c]
    <3>1. PICK c \in Cases : \E k \in selectPaymentKind(c, kind) : row = Of(c, k)
      BY <1>2
    <3>2. PICK k \in selectPaymentKind(c, kind) : row = Of(c, k)
      BY <3>1
    <3>3. k = CHOOSE j \in selectPaymentKind(c, kind) : TRUE
      BY SelectedIsOne
    <3> QED
      BY <3>2, <3>3
  <2> HIDE DEF f
  <2> QED
    BY <1>1, <2>1, ImageIsFinite
<1> HIDE DEF Of, kind
<1>7. \A a, b \in S : a.identity = b.identity => a = b
  <2> SUFFICES ASSUME NEW a \in S, NEW b \in S, a.identity = b.identity PROVE a = b
    OBVIOUS
  <2>1. PICK c \in Cases : \E k \in selectPaymentKind(c, kind) : a = Of(c, k)
    BY <1>2
  <2>2. PICK d \in Cases : \E k \in selectPaymentKind(d, kind) : b = Of(d, k)
    BY <1>2
  <2>3. PICK j \in selectPaymentKind(c, kind) : a = Of(c, j)
    BY <2>1
  <2>4. PICK k \in selectPaymentKind(d, kind) : b = Of(d, k)
    BY <2>2
  <2>5. c = d
    BY <1>3, <2>3, <2>4, KindKeepsIdentity, CaseIsOne
  <2>6. j = k
    BY <2>5, SelectedIsOne
  <2> QED
    BY <2>3, <2>4, <2>5, <2>6
<1>8. ASSUME NEW row \in S
      PROVE  /\ IsPart(row.source)
             /\ row.identity \in Range(Identities)
             /\ row.fullyPaid \in BOOLEAN
  <2>1. PICK c \in Cases : \E k \in selectPaymentKind(c, kind) : row = Of(c, k)
    BY <1>2
  <2>2. PICK k \in selectPaymentKind(c, kind) : row = Of(c, k)
    BY <2>1
  <2>3. IsPart(k) /\ k.identity = c.identity
    BY SelectedIsPart
  <2> QED
    BY <1>3, <1>4, <1>5, <2>2, <2>3
<1> QED
  BY <1>6, <1>7, <1>8

\* A query that orders by an amount or a date.
IsListQuery(q) ==
    /\ q = [x \in DOMAIN Query |-> q[x]]
    /\ q.sortBy \in {"amount", "paid", "outstanding", "overdueAmount", "oldestDueDate"}

\* The order of the list is strict and total: two rows that agree in everything compared
\* before differ in their identity, hence in its place.
LEMMA RowsAreOrdered ==
    ASSUME PaymentViewsAssumption, TypeOK, NEW q, IsListQuery(q),
           NEW S, S = Filtered(Cases, q)
    PROVE  InOrder(q, S)
<1> DEFINE all == q.scope = "all"
           apart == /\ q.currency = "__ALL__"
                    /\ q.sortBy \in {"amount", "paid", "outstanding", "overdueAmount"}
           up == q.sortDir = "asc"
           C(a) == Place(Currencies, a.identity.currency)
           X(a) == a.source[q.sortBy]
           I(a) == Place(Identities, a.identity)
<1>0. None \notin Int
  BY DEF PaymentViewsAssumption
<1>1. \A a, b : Before(q, a, b) <=> Precedes(all, apart, up, a.fullyPaid, b.fullyPaid,
                                             C(a), C(b), X(a), X(b), I(a), I(b))
  BY DEF Before, Precedes
<1>2. /\ \A row \in S : /\ IsPart(row.source)
                        /\ row.identity \in Range(Identities)
                        /\ row.fullyPaid \in BOOLEAN
      /\ \A a, b \in S : a.identity = b.identity => a = b
  BY RowsAreParts
<1>3. all \in BOOLEAN /\ apart \in BOOLEAN /\ up \in BOOLEAN
  OBVIOUS
<1>4. \A a : C(a) \in Int
  <2>1. Currencies \in Seq(Range(Currencies))
    BY DEF PaymentViewsAssumption
  <2> QED
    BY <2>1, PlaceIs
<1>5. (\A a : I(a) \in Int) /\ \A a, b \in S : a # b => I(a) # I(b)
  <2>1. Identities \in Seq(Range(Identities))
    BY DEF PaymentViewsAssumption
  <2>2. /\ \A i : Place(Identities, i) \in Int
        /\ \A i, j \in Range(Identities) : Place(Identities, i) = Place(Identities, j) => i = j
    BY <2>1, PlaceIs
  <2> QED
    BY <1>2, <2>2
<1>6. ASSUME NEW a \in S PROVE X(a) \in IntOrNone
  <2> DEFINE c == a.source
             L == c.installments
  <2>2. IsCaseOver(c, L) /\ L \in SUBSET Lines
    BY <1>2 DEF IsPart
  <2> HIDE DEF c, L
  <2>3. CASE q.sortBy # "oldestDueDate"
    <3>1. q.sortBy \in Fields
      BY <2>3 DEF IsListQuery, Fields
    <3>2. c[q.sortBy] \in IntOrNone
      BY <2>2, <3>1, CaseSums
    <3> QED
      BY <3>2 DEF c
  <2>4. CASE q.sortBy = "oldestDueDate"
    <3>1. c.oldestDueDate = First(OpenDates(L))
      BY <2>2 DEF IsCaseOver
    <3>2. OpenDates(L) \in SUBSET Nat
      <4>1. \A l \in L : l.dueDate \in Nat \cup {None}
        BY <2>2, LinesKnown
      <4> QED
        BY <4>1 DEF OpenDates
    <3>3. First(OpenDates(L)) \in Nat \cup {None}
      <4>1. CASE OpenDates(L) = {}
        BY <4>1 DEF First
      <4>2. CASE OpenDates(L) # {}
        BY <3>2, <4>2, FirstIs
      <4> QED
        BY <4>1, <4>2
    <3> QED
      BY <2>4, <3>1, <3>3 DEF c, IntOrNone
  <2> QED
    BY <2>3, <2>4
<1> HIDE DEF all, apart, up, C, X, I
<1>7. ASSUME NEW a \in S PROVE ~Before(q, a, a)
  <2>1. ~Precedes(all, apart, up, a.fullyPaid, a.fullyPaid, C(a), C(a), X(a), X(a), I(a), I(a))
    BY <1>2, <1>3, <1>4, <1>5 DEF Precedes
  <2> QED
    BY <1>1, <2>1
<1>8. ASSUME NEW a \in S, NEW b \in S, NEW c \in S, Before(q, a, b), Before(q, b, c)
      PROVE  Before(q, a, c)
  <2> DEFINE B(x, y) == Precedes(all, apart, up, x.fullyPaid, y.fullyPaid, C(x), C(y),
                                 X(x), X(y), I(x), I(y))
  <2>1. B(a, b) /\ B(b, c)
    BY <1>1, <1>8
  <2>2. /\ a.fullyPaid \in BOOLEAN /\ b.fullyPaid \in BOOLEAN /\ c.fullyPaid \in BOOLEAN
        /\ C(a) \in Int /\ C(b) \in Int /\ C(c) \in Int
        /\ X(a) \in IntOrNone /\ X(b) \in IntOrNone /\ X(c) \in IntOrNone
        /\ I(a) \in Int /\ I(b) \in Int /\ I(c) \in Int
    BY <1>2, <1>4, <1>5, <1>6
  <2>3. B(a, b) /\ B(b, c) => B(a, c)
    BY <1>0, <1>3, <2>2 DEF Precedes, IntOrNone
  <2> QED
    BY <1>1, <2>1, <2>3
<1>9. ASSUME NEW a \in S, NEW b \in S, a # b
      PROVE  Before(q, a, b) \/ Before(q, b, a)
  <2>1. /\ a.fullyPaid \in BOOLEAN /\ b.fullyPaid \in BOOLEAN
        /\ C(a) \in Int /\ C(b) \in Int
        /\ X(a) \in IntOrNone /\ X(b) \in IntOrNone
        /\ I(a) \in Int /\ I(b) \in Int /\ I(a) # I(b)
    BY <1>2, <1>4, <1>5, <1>6, <1>9
  <2>2. \/ Precedes(all, apart, up, a.fullyPaid, b.fullyPaid, C(a), C(b), X(a), X(b), I(a), I(b))
        \/ Precedes(all, apart, up, b.fullyPaid, a.fullyPaid, C(b), C(a), X(b), X(a), I(b), I(a))
    BY <1>0, <1>3, <2>1 DEF Precedes, IntOrNone
  <2> QED
    BY <1>1, <2>2
<1> QED
  BY <1>7, <1>8, <1>9 DEF InOrder

\* What a query asks for does not depend on the page it asks for.
SameButPage(p, q) ==
    /\ p.currency = q.currency /\ p.paymentKind = q.paymentKind
    /\ p.projectGroup = q.projectGroup /\ p.invoiceOk = q.invoiceOk
    /\ p.authorizationState = q.authorizationState /\ p.representative = q.representative
    /\ p.dueFrom = q.dueFrom /\ p.dueTo = q.dueTo
    /\ p.overdueAmountMin = q.overdueAmountMin /\ p.overdueAmountMax = q.overdueAmountMax
    /\ p.paymentState = q.paymentState /\ p.deferral = q.deferral
    /\ p.scope = q.scope /\ p.sortBy = q.sortBy /\ p.sortDir = q.sortDir

\* Which page is asked for does not change the order.
LEMMA SameOnEveryPage ==
    ASSUME NEW p, NEW q, SameButPage(p, q)
    PROVE  Sorted(Cases, p) = Sorted(Cases, q)
<1>1. CurrencyRows(Cases, p) = CurrencyRows(Cases, q)
  BY DEF CurrencyRows, SameButPage
<1>2. Base(Cases, p) = Base(Cases, q)
  BY <1>1 DEF Base, SameButPage
<1>3. Filtered(Cases, p) = Filtered(Cases, q)
  BY <1>2 DEF Filtered, SameButPage
<1>4. \A a, b : Before(p, a, b) <=> Before(q, a, b)
  BY DEF Before, SameButPage
<1>5. Listings(p, Filtered(Cases, p)) = Listings(q, Filtered(Cases, q))
  BY <1>3, <1>4 DEF Listings
<1> QED
  BY <1>5 DEF Sorted

Paging(q, list) ==
    /\ Range(list) = Filtered(Cases, q)
    /\ Len(list) = Cardinality(Range(list))
    /\ \A m, n \in DOMAIN list : m < n => Before(q, list[m], list[n])

\* The pages of a list, one after the other, are the list, whatever it is filtered and ordered
\* by: each case once, and in order (paymentList, and the export of the sales ledger).
LEMMA EveryList ==
    ASSUME PaymentViewsAssumption, TypeOK, NEW q, IsListQuery(q)
    PROVE  Paging(q, exportAll(Cases, q))
<1> DEFINE S == Filtered(Cases, q)
           list == Sorted(Cases, q)
           at(p) == [q EXCEPT !.page = p]
<1>1. \A p : SameButPage(at(p), q) /\ at(p).page = p
  <2>1. {"currency", "paymentKind", "projectGroup", "invoiceOk", "authorizationState",
         "representative", "dueFrom", "dueTo", "overdueAmountMin", "overdueAmountMax",
         "paymentState", "deferral", "scope", "sortBy", "sortDir", "page"} \subseteq DOMAIN Query
    BY DEF Query
  <2>2. DOMAIN q = DOMAIN Query
    BY DEF IsListQuery
  <2>3. \A p : \A x \in DOMAIN Query : x # "page" => at(p)[x] = q[x]
    BY <2>2
  <2>4. \A p : at(p).page = p
    BY <2>1, <2>2
  <2> HIDE DEF at
  <2> QED
    BY <2>1, <2>3, <2>4 DEF SameButPage
<1>2. IsFiniteSet(S) /\ InOrder(q, S)
  BY RowsAreParts, RowsAreOrdered
<1>3. list = CHOOSE l \in Listings(q, S) : TRUE
  BY DEF Sorted
<1>4. paymentList(Cases, q).totalPages = TotalPages(Cardinality(S))
  BY DEF paymentList
<1>5. \A p : Sorted(Cases, at(p)) = list
  BY <1>1, SameOnEveryPage
<1>6. \A p : paymentList(Cases, at(p)).rows = Page(list, p)
  <2>1. \A p : paymentList(Cases, at(p)).rows = Page(Sorted(Cases, at(p)), at(p).page)
    BY DEF paymentList
  <2> QED
    BY <1>1, <1>5, <2>1
<1>7. exportAll(Cases, q) =
        FlattenSeq([p \in 1..paymentList(Cases, q).totalPages |-> paymentList(Cases, at(p)).rows])
  BY DEF exportAll
<1> HIDE DEF S, list, at
<1>8. /\ list \in Seq(S) /\ Len(list) = Cardinality(S) /\ Range(list) = S
      /\ \A m, n \in DOMAIN list : m < n => Before(q, list[m], list[n])
  BY <1>2, <1>3, Listing
<1>9. [p \in 1..paymentList(Cases, q).totalPages |-> paymentList(Cases, at(p)).rows]
        = PagesOf(list)
  BY <1>4, <1>6, <1>8 DEF PagesOf
<1>10. FlattenSeq(PagesOf(list)) = list
  BY <1>8, PagesJoin
<1>11. exportAll(Cases, q) = list
  BY <1>7, <1>9, <1>10
<1> QED
  BY <1>8, <1>11 DEF S, Paging

\* So are those of the lists of PagesAreTheList.
LEMMA Paged ==
    ASSUME PaymentViewsAssumption, TypeOK
    PROVE  PagesAreTheList
<1>1. ASSUME NEW q \in ListQueries PROVE IsListQuery(q)
  <2>1. PICK s \in {"overdueAmount", "oldestDueDate"}, d \in {"asc", "desc"},
             c \in {"all", "open"}, u \in {"__ALL__", None}, m \in {None, 1} :
          q = [Query EXCEPT !.sortBy = s, !.sortDir = d, !.scope = c, !.currency = u,
                            !.overdueAmountMin = m]
    BY DEF ListQueries
  <2>2. "sortBy" \in DOMAIN Query
    BY DEF Query
  <2>3. q = [x \in DOMAIN Query |-> q[x]]
    BY <2>1
  <2> QED
    BY <2>1, <2>2, <2>3 DEF IsListQuery
<1>2. \A q \in ListQueries : Paging(q, exportAll(Cases, q))
  BY <1>1, EveryList
<1>3. PagesAreTheList <=> \A q \in ListQueries : \A list \in {exportAll(Cases, q)} : Paging(q, list)
  BY DEF PagesAreTheList, Paging
<1> QED
  BY <1>2, <1>3
=============================================================================
