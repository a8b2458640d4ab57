--------------------------- MODULE CountingProofs ---------------------------
(***************************************************************************)
(* Sums over finite sets, as the reports form them, and the first places   *)
(* of a ranking: the fold of the community modules has a value, which does *)
(* not depend on the order of its elements; a sum by groups is the sum;    *)
(* and a list cut off at a limit has as many entries as the limit says.    *)
(*                                                                         *)
(* Induction over a finite set is stated with a set of sets in the place   *)
(* of a predicate, so that it can be cited.                                *)
(***************************************************************************)
EXTENDS Integers, FiniteSets, Functions, FiniteSetsExt,
        FiniteSetTheorems, WellFoundedInduction, TLAPS

\* What holds of a set whenever it holds of its proper subsets holds of every
\* finite set.
LEMMA SubsetInduction ==
    ASSUME NEW S, IsFiniteSet(S), NEW Good,
           \A T \in SUBSET S : (\A U \in SUBSET T : U # T => U \in Good) => T \in Good
    PROVE  S \in Good
<1> SUFFICES ASSUME S \notin Good PROVE FALSE
    OBVIOUS
<1> DEFINE Bad == {T \in SUBSET S : T \notin Good}
<1>1. Bad \subseteq FiniteSubsetsOf(S) /\ Bad # {}
    <2>1. FiniteSubsetsOf(S) = SUBSET S
        BY FS_FiniteSubsetsOfFinite
    <2> QED
        BY <2>1
<1>2. PICK m \in Bad : \A y \in Bad : ~(<<y, m>> \in StrictSubsetOrdering(S))
    <2> HIDE DEF Bad
    <2> QED
        BY <1>1, FS_StrictSubsetOrderingWellFounded, WFMin
<1>3. \A U \in SUBSET m : U # m => U \in Good
    <2> SUFFICES ASSUME NEW U \in SUBSET m, U # m, U \notin Good PROVE FALSE
        OBVIOUS
    <2>1. U \in Bad
        BY <1>2
    <2>2. <<U, m>> \in StrictSubsetOrdering(S)
        BY <1>2 DEF StrictSubsetOrdering
    <2> QED
        BY <1>2, <2>1, <2>2
<1> QED
    BY <1>2, <1>3

\* What holds of the empty set, and of a set with one element more whenever it
\* holds without it, holds of every finite set.
LEMMA ElementInduction ==
    ASSUME NEW S, IsFiniteSet(S), NEW Good, {} \in Good,
           \A T \in SUBSET S : \A x \in T : T \ {x} \in Good => T \in Good
    PROVE  S \in Good
<1> SUFFICES ASSUME NEW T \in SUBSET S, \A U \in SUBSET T : U # T => U \in Good
             PROVE  T \in Good
    BY SubsetInduction
<1>1. CASE T = {}
    BY <1>1
<1>2. CASE T # {}
    <2>1. PICK x \in T : TRUE
        BY <1>2
    <2>2. T \ {x} \in SUBSET T /\ T \ {x} # T
        BY <2>1
    <2> QED
        BY <2>1, <2>2
<1> QED
    BY <1>1, <1>2

\* What holds of 0, and of a number whenever it holds of the one before, holds
\* of every number up to a bound.
LEMMA NumberInduction ==
    ASSUME NEW n \in Nat, NEW Good, 0 \in Good,
           \A k \in 1..n : k - 1 \in Good => k \in Good
    PROVE  n \in Good
<1> DEFINE Reached == {T \in SUBSET (1..n) : \A k \in 0..n : T = 1..k => k \in Good}
<1>1. ASSUME NEW T \in SUBSET (1..n), \A U \in SUBSET T : U # T => U \in Reached
      PROVE  T \in Reached
    <2> SUFFICES ASSUME NEW k \in 0..n, T = 1..k, k # 0 PROVE k \in Good
        OBVIOUS
    <2>1. k \in 1..n /\ k - 1 \in 0..n /\ 1..(k - 1) \in SUBSET T /\ 1..(k - 1) # T
        OBVIOUS
    <2>2. 1..(k - 1) \in Reached
        BY <1>1, <2>1
    <2> QED
        BY <2>1, <2>2
<1>2. IsFiniteSet(1..n)
    BY FS_Interval
<1>3. 1..n \in Reached
    <2> DEFINE upTo == 1..n
    <2>1. IsFiniteSet(upTo)
        BY <1>2
    <2>2. \A T \in SUBSET upTo : (\A U \in SUBSET T : U # T => U \in Reached) => T \in Reached
        <3> HIDE DEF Reached
        <3> QED
            BY <1>1
    <2>3. upTo \in Reached
        <3> HIDE DEF Reached, upTo
        <3> QED
            BY <2>1, <2>2, SubsetInduction
    <2> QED
        BY <2>3
<1> QED
    BY <1>3

\* Sets whose elements go one to one are of one size.
LEMMA SameSize ==
    ASSUME NEW S, IsFiniteSet(S), NEW T, NEW to \in [S -> T],
           \A x, y \in S : to[x] = to[y] => x = y,
           \A z \in T : \E x \in S : to[x] = z
    PROVE  IsFiniteSet(T) /\ Cardinality(T) = Cardinality(S)
<1>1. to \in Bijection(S, T)
    BY DEF Bijection, Injection, Surjection, IsInjective
<1>2. ExistsBijection(S, T)
    BY <1>1 DEF ExistsBijection
<1> QED
    BY <1>2, FS_Bijection

-----------------------------------------------------------------------------
(* The fold is well defined. *)

Chosen(s) == CHOOSE x \in s : TRUE

\* The equation of the table of partial sums behind the fold.
IsTable(t, f, S) ==
    t = [s \in SUBSET S |-> IF s = {} THEN 0 ELSE f[Chosen(s)] + t[s \ {Chosen(s)}]]

LEMMA ChosenElement == ASSUME NEW s, s # {} PROVE Chosen(s) \in s
BY DEF Chosen

LEMMA TableEntry ==
    ASSUME NEW f, NEW S, NEW t, IsTable(t, f, S), NEW s \in SUBSET S
    PROVE  t[s] = IF s = {} THEN 0 ELSE f[Chosen(s)] + t[s \ {Chosen(s)}]
BY DEF IsTable

\* Two tables agree wherever both are defined.
LEMMA OneTable ==
    ASSUME NEW f, NEW S, NEW T, NEW t, NEW u, IsTable(t, f, S), IsTable(u, f, T),
           NEW A, IsFiniteSet(A), A \subseteq S, A \subseteq T
    PROVE  t[A] = u[A]
<1> DEFINE Good == {B \in SUBSET A : t[B] = u[B]}
<1>0. SUFFICES ASSUME NEW B \in SUBSET A, \A U \in SUBSET B : U # B => U \in Good
               PROVE  B \in Good
    <2>1. A \in Good
        <3> HIDE DEF Good
        <3> QED
            BY <1>0, SubsetInduction
    <2> QED
        BY <2>1
<1>1. B \in SUBSET S /\ B \in SUBSET T
    OBVIOUS
<1>2. CASE B = {}
    <2>1. t[B] = 0
        BY <1>1, <1>2, TableEntry
    <2>2. u[B] = 0
        BY <1>1, <1>2, TableEntry
    <2> QED
        BY <2>1, <2>2
<1>3. CASE B # {}
    <2>1. Chosen(B) \in B
        BY <1>3, ChosenElement
    <2>2. B \ {Chosen(B)} \in Good
        BY <1>0, <2>1
    <2>3. t[B] = f[Chosen(B)] + t[B \ {Chosen(B)}]
        BY <1>1, <1>3, TableEntry
    <2>4. u[B] = f[Chosen(B)] + u[B \ {Chosen(B)}]
        BY <1>1, <1>3, TableEntry
    <2> QED
        BY <2>2, <2>3, <2>4
<1> QED
    BY <1>2, <1>3

\* There is a table for every finite set.
LEMMA SomeTable ==
    ASSUME NEW f, NEW S, IsFiniteSet(S)
    PROVE  \E t : IsTable(t, f, S)
<1> DEFINE Good == {T \in SUBSET S : \E t : IsTable(t, f, T)}
<1>0. SUFFICES ASSUME NEW T \in SUBSET S, \A U \in SUBSET T : U # T => U \in Good
               PROVE  T \in Good
    <2>1. S \in Good
        <3> HIDE DEF Good
        <3> QED
            BY <1>0, SubsetInduction
    <2> QED
        BY <2>1
<1> DEFINE Table(U) == CHOOSE t : IsTable(t, f, U)
           Entry(U) == IF U = {} THEN 0 ELSE f[Chosen(U)] + Table(U \ {Chosen(U)})[U \ {Chosen(U)}]
           all == [U \in SUBSET T |-> Entry(U)]
<1>1. \A U \in SUBSET T : U # T => IsTable(Table(U), f, U)
    BY <1>0
<1>2. ASSUME NEW U \in SUBSET T, U # {}
      PROVE  Table(U \ {Chosen(U)})[U \ {Chosen(U)}] = all[U \ {Chosen(U)}]
    <2> DEFINE V == U \ {Chosen(U)}
    <2>1. Chosen(U) \in U
        BY <1>2, ChosenElement
    <2>2. V \in SUBSET T /\ V # T /\ IsTable(Table(V), f, V)
        BY <1>1, <2>1
    <2>3. CASE V = {}
        BY <2>2, <2>3, TableEntry
    <2>4. CASE V # {}
        <3> DEFINE W == V \ {Chosen(V)}
        <3>1. Chosen(V) \in V
            BY <2>4, ChosenElement
        <3>2. W \in SUBSET T /\ W # T /\ IsTable(Table(W), f, W)
            BY <1>1, <2>2, <3>1
        <3>3. IsFiniteSet(W)
            BY <3>2, FS_Subset
        <3>4. Table(V)[W] = Table(W)[W]
            BY <2>2, <3>2, <3>3, OneTable
        <3>5. Table(V)[V] = f[Chosen(V)] + Table(V)[W]
            <4> HIDE DEF V, Table
            <4> QED
                BY <2>2, <2>4, TableEntry
        <3>6. all[V] = Entry(V)
            BY <2>2
        <3> QED
            BY <2>4, <3>4, <3>5, <3>6
    <2> QED
        BY <2>3, <2>4
<1>3. IsTable(all, f, T)
    <2>1. \A U \in SUBSET T :
             Entry(U) = IF U = {} THEN 0 ELSE f[Chosen(U)] + all[U \ {Chosen(U)}]
        <3> SUFFICES ASSUME NEW U \in SUBSET T
                     PROVE  Entry(U) = IF U = {} THEN 0
                                       ELSE f[Chosen(U)] + all[U \ {Chosen(U)}]
            OBVIOUS
        <3> HIDE DEF all, Table
        <3> QED
            BY <1>2
    <2>2. all = [U \in SUBSET T |-> Entry(U)]
        OBVIOUS
    <2> HIDE DEF all, Entry
    <2> QED
        BY <2>1, <2>2 DEF IsTable
<1> QED
    BY <1>3

\* The fold is the entry of such a table.
LEMMA SumTable ==
    ASSUME NEW f, NEW S, IsFiniteSet(S)
    PROVE  \E t : IsTable(t, f, S) /\ SumFunctionOnSet(f, S) = t[S]
<1> DEFINE iter == CHOOSE t : IsTable(t, f, S)
<1>1. IsTable(iter, f, S)
    BY SomeTable
<1>2. SumFunctionOnSet(f, S) = iter[S]
    BY DEF SumFunctionOnSet, FoldFunctionOnSet, MapThenFoldSet, IsTable, Chosen
<1> QED
    BY <1>1, <1>2

LEMMA SumEmpty == \A f : SumFunctionOnSet(f, {}) = 0
<1> TAKE f
<1>1. PICK t : IsTable(t, f, {}) /\ SumFunctionOnSet(f, {}) = t[{}]
    BY SumTable, FS_EmptySet
<1> QED
    BY <1>1, TableEntry

LEMMA SumStep ==
    ASSUME NEW f, NEW S, IsFiniteSet(S), S # {}
    PROVE  SumFunctionOnSet(f, S) =
              f[Chosen(S)] + SumFunctionOnSet(f, S \ {Chosen(S)})
<1> DEFINE R == S \ {Chosen(S)}
<1>1. Chosen(S) \in S /\ IsFiniteSet(R) /\ R \in SUBSET S
    BY ChosenElement, FS_Subset
<1>2. PICK t : IsTable(t, f, S) /\ SumFunctionOnSet(f, S) = t[S]
    BY SumTable
<1>3. PICK u : IsTable(u, f, R) /\ SumFunctionOnSet(f, R) = u[R]
    BY SumTable, <1>1
<1>4. t[R] = u[R]
    BY <1>1, <1>2, <1>3, OneTable
<1>5. t[S] = f[Chosen(S)] + t[R]
    BY <1>2, TableEntry
<1> QED
    BY <1>2, <1>3, <1>4, <1>5

\* A sum of integers is an integer.
LEMMA SumInt ==
    ASSUME NEW S, IsFiniteSet(S), NEW f, \A x \in S : f[x] \in Int
    PROVE  SumFunctionOnSet(f, S) \in Int
<1> DEFINE Good == {T \in SUBSET S : SumFunctionOnSet(f, T) \in Int}
<1>0. SUFFICES ASSUME NEW T \in SUBSET S, \A U \in SUBSET T : U # T => U \in Good
               PROVE  T \in Good
    <2>1. S \in Good
        <3> HIDE DEF Good
        <3> QED
            BY <1>0, SubsetInduction
    <2> QED
        BY <2>1
<1>1. CASE T = {}
    BY <1>1, SumEmpty
<1>2. CASE T # {}
    <2>1. Chosen(T) \in T /\ IsFiniteSet(T)
        BY <1>2, ChosenElement, FS_Subset
    <2>2. SumFunctionOnSet(f, T \ {Chosen(T)}) \in Int
        BY <1>0, <2>1
    <2> QED
        BY <1>2, <2>1, <2>2, SumStep
<1> QED
    BY <1>1, <1>2

\* It does not matter which element is added last.
LEMMA SumPoint ==
    ASSUME NEW S, IsFiniteSet(S), NEW f, \A x \in S : f[x] \in Int, NEW a \in S
    PROVE  SumFunctionOnSet(f, S) = f[a] + SumFunctionOnSet(f, S \ {a})
<1> DEFINE Good == {T \in SUBSET S :
                      \A b \in T : SumFunctionOnSet(f, T) = f[b] + SumFunctionOnSet(f, T \ {b})}
<1>0. SUFFICES ASSUME NEW T \in SUBSET S, \A U \in SUBSET T : U # T => U \in Good
               PROVE  T \in Good
    <2>1. S \in Good
        <3> HIDE DEF Good
        <3> QED
            BY <1>0, SubsetInduction
    <2> QED
        BY <2>1
<1> SUFFICES ASSUME NEW b \in T
             PROVE  SumFunctionOnSet(f, T) = f[b] + SumFunctionOnSet(f, T \ {b})
    OBVIOUS
<1> DEFINE c == Chosen(T)
<1>1. c \in T /\ IsFiniteSet(T)
    BY ChosenElement, FS_Subset
<1>2. SumFunctionOnSet(f, T) = f[c] + SumFunctionOnSet(f, T \ {c})
    BY <1>1, SumStep
<1>3. CASE b = c
    BY <1>2, <1>3
<1>4. CASE b # c
    <2>1. T \ {c} \in SUBSET T /\ T \ {c} # T /\ b \in T \ {c}
        BY <1>1, <1>4
    <2>2. SumFunctionOnSet(f, T \ {c}) = f[b] + SumFunctionOnSet(f, (T \ {c}) \ {b})
        BY <1>0, <2>1
    <2>3. T \ {b} \in SUBSET T /\ T \ {b} # T /\ c \in T \ {b}
        BY <1>1, <1>4
    <2>4. SumFunctionOnSet(f, T \ {b}) = f[c] + SumFunctionOnSet(f, (T \ {b}) \ {c})
        BY <1>0, <2>3
    <2>5. (T \ {c}) \ {b} = (T \ {b}) \ {c}
        OBVIOUS
    <2>6. SumFunctionOnSet(f, (T \ {c}) \ {b}) \in Int
        <3>1. IsFiniteSet((T \ {c}) \ {b})
            BY <1>1, FS_Subset
        <3> QED
            BY <3>1, SumInt
    <2>7. f[b] \in Int /\ f[c] \in Int
        BY <1>1
    <2>8. ASSUME NEW p \in Int, NEW q \in Int, NEW r \in Int PROVE p + (q + r) = q + (p + r)
        OBVIOUS
    <2>9. f[c] + (f[b] + SumFunctionOnSet(f, (T \ {c}) \ {b}))
             = f[b] + (f[c] + SumFunctionOnSet(f, (T \ {c}) \ {b}))
        BY <2>6, <2>7, <2>8
    <2> HIDE DEF c
    <2> QED
        BY <1>2, <2>2, <2>4, <2>5, <2>9, Zenon
<1> QED
    BY <1>3, <1>4

\* Two functions with the same values have the same sum.
LEMMA SumEqual ==
    ASSUME NEW S, IsFiniteSet(S), NEW f, NEW g, \A x \in S : f[x] \in Int /\ f[x] = g[x]
    PROVE  SumFunctionOnSet(f, S) = SumFunctionOnSet(g, S)
<1> DEFINE Good == {T \in SUBSET S : SumFunctionOnSet(f, T) = SumFunctionOnSet(g, T)}
<1>1. {} \in Good
    BY SumEmpty
<1>2. ASSUME NEW T \in SUBSET S, NEW x \in T, T \ {x} \in Good PROVE T \in Good
    <2>1. IsFiniteSet(T)
        BY FS_Subset
    <2>2. SumFunctionOnSet(f, T) = f[x] + SumFunctionOnSet(f, T \ {x})
        BY <2>1, SumPoint
    <2>3. SumFunctionOnSet(g, T) = g[x] + SumFunctionOnSet(g, T \ {x})
        BY <2>1, SumPoint
    <2> QED
        BY <1>2, <2>2, <2>3
<1>3. S \in Good
    <2> HIDE DEF Good
    <2> QED
        BY <1>1, <1>2, ElementInduction
<1> QED
    BY <1>3

\* The sum of the differences is the difference of the sums.
LEMMA SumDifference ==
    ASSUME NEW S, IsFiniteSet(S), NEW f, NEW g, NEW h,
           \A x \in S : f[x] \in Int /\ g[x] \in Int /\ h[x] = f[x] - g[x]
    PROVE  SumFunctionOnSet(h, S) = SumFunctionOnSet(f, S) - SumFunctionOnSet(g, S)
<1> DEFINE F(T) == SumFunctionOnSet(f, T)
           G(T) == SumFunctionOnSet(g, T)
           H(T) == SumFunctionOnSet(h, T)
           Good == {T \in SUBSET S : H(T) = F(T) - G(T)}
<1>1. {} \in Good
    BY SumEmpty
<1>2. ASSUME NEW T \in SUBSET S, NEW x \in T, T \ {x} \in Good PROVE T \in Good
    <2>1. IsFiniteSet(T) /\ IsFiniteSet(T \ {x}) /\ \A y \in S : h[y] \in Int
        BY FS_Subset
    <2>2. F(T) = f[x] + F(T \ {x})
        BY <2>1, SumPoint
    <2>3. G(T) = g[x] + G(T \ {x})
        BY <2>1, SumPoint
    <2>4. H(T) = h[x] + H(T \ {x})
        BY <2>1, SumPoint
    <2>5. F(T \ {x}) \in Int /\ G(T \ {x}) \in Int
        BY <2>1, SumInt
    <2>6. H(T \ {x}) = F(T \ {x}) - G(T \ {x}) /\ h[x] = f[x] - g[x]
        BY <1>2
    <2>7. f[x] \in Int /\ g[x] \in Int
        OBVIOUS
    <2> HIDE DEF F, G, H
    <2>8. H(T) = F(T) - G(T)
        BY <2>2, <2>3, <2>4, <2>5, <2>6, <2>7
    <2> QED
        BY <2>8
<1>3. S \in Good
    <2> HIDE DEF Good
    <2> QED
        BY <1>1, <1>2, ElementInduction
<1> QED
    BY <1>3

\* Adding one to the entries of a set counts its elements.
LEMMA SumOnes ==
    ASSUME NEW S, IsFiniteSet(S), NEW f, \A x \in S : f[x] = 1
    PROVE  SumFunctionOnSet(f, S) = Cardinality(S)
<1> DEFINE Good == {T \in SUBSET S : SumFunctionOnSet(f, T) = Cardinality(T)}
<1>1. {} \in Good
    BY SumEmpty, FS_EmptySet
<1>2. ASSUME NEW T \in SUBSET S, NEW x \in T, T \ {x} \in Good PROVE T \in Good
    <2>1. IsFiniteSet(T)
        BY FS_Subset
    <2>2. SumFunctionOnSet(f, T) = f[x] + SumFunctionOnSet(f, T \ {x})
        BY <2>1, SumPoint
    <2>3. Cardinality(T) \in Nat /\ Cardinality(T \ {x}) = Cardinality(T) - 1
        BY <2>1, FS_RemoveElement, FS_CardinalityType
    <2>4. f[x] = 1 /\ SumFunctionOnSet(f, T \ {x}) = Cardinality(T \ {x})
        BY <1>2
    <2>5. SumFunctionOnSet(f, T) = Cardinality(T)
        BY <2>2, <2>3, <2>4
    <2> QED
        BY <2>5
<1>3. S \in Good
    <2> HIDE DEF Good
    <2> QED
        BY <1>1, <1>2, ElementInduction
<1> QED
    BY <1>3

\* One entry that differs moves the sum by the difference.
LEMMA SumBump ==
    ASSUME NEW S, IsFiniteSet(S), NEW a \in S, NEW d \in Int, NEW f, NEW g,
           \A x \in S : f[x] \in Int /\ g[x] = IF x = a THEN f[x] + d ELSE f[x]
    PROVE  SumFunctionOnSet(g, S) = SumFunctionOnSet(f, S) + d
<1> DEFINE F(T) == SumFunctionOnSet(f, T)
           G(T) == SumFunctionOnSet(g, T)
           R == S \ {a}
<1>1. IsFiniteSet(R) /\ R \subseteq S /\ f[a] \in Int /\ g[a] = f[a] + d
    BY FS_Subset
<1>2. \A x \in S : g[x] \in Int
    OBVIOUS
<1>3. F(S) = f[a] + F(R)
    BY SumPoint
<1>4. G(S) = g[a] + G(R)
    BY <1>2, SumPoint
<1>5. F(R) = G(R)
    BY <1>1, SumEqual
<1>6. F(R) \in Int
    BY <1>1, SumInt
<1> HIDE DEF F, G
<1>7. G(S) = F(S) + d
    BY <1>1, <1>3, <1>4, <1>5, <1>6
<1> QED
    BY <1>7 DEF F, G

\* Adding the same number for every element multiplies it.
LEMMA SumConstant ==
    ASSUME NEW S, IsFiniteSet(S), NEW v \in Int, NEW f, \A x \in S : f[x] = v
    PROVE  SumFunctionOnSet(f, S) = v * Cardinality(S)
<1> DEFINE Good == {T \in SUBSET S : SumFunctionOnSet(f, T) = v * Cardinality(T)}
<1>1. {} \in Good
    BY SumEmpty, FS_EmptySet
<1>2. ASSUME NEW T \in SUBSET S, NEW x \in T, T \ {x} \in Good PROVE T \in Good
    <2>1. IsFiniteSet(T)
        BY FS_Subset
    <2>2. SumFunctionOnSet(f, T) = f[x] + SumFunctionOnSet(f, T \ {x})
        BY <2>1, SumPoint
    <2>3. Cardinality(T) \in Nat /\ Cardinality(T \ {x}) = Cardinality(T) - 1
        BY <2>1, FS_RemoveElement, FS_CardinalityType
    <2>4. f[x] = v /\ SumFunctionOnSet(f, T \ {x}) = v * Cardinality(T \ {x})
        BY <1>2
    <2>5. \A c \in Nat : v + v * (c - 1) = v * c
        OBVIOUS
    <2>6. SumFunctionOnSet(f, T) = v * Cardinality(T)
        BY <2>2, <2>3, <2>4, <2>5
    <2> QED
        BY <2>6
<1>3. S \in Good
    <2> HIDE DEF Good
    <2> QED
        BY <1>1, <1>2, ElementInduction
<1> QED
    BY <1>3

\* Leaving elements out makes a sum of numbers no larger.
LEMMA SumOfPart ==
    ASSUME NEW S, IsFiniteSet(S), NEW f, \A x \in S : f[x] \in Nat, NEW P \in SUBSET S
    PROVE  SumFunctionOnSet(f, P) \in 0..SumFunctionOnSet(f, S)
<1> DEFINE Sum(T) == SumFunctionOnSet(f, T)
           Good == {T \in SUBSET S : Sum(T) \in Nat /\ Sum(P \cap T) \in 0..Sum(T)}
<1>1. {} \in Good
    <2>1. P \cap {} = {} /\ Sum({}) = 0
        BY SumEmpty
    <2> HIDE DEF Sum
    <2> QED
        BY <2>1
<1>2. ASSUME NEW T \in SUBSET S, NEW x \in T, T \ {x} \in Good PROVE T \in Good
    <2>1. IsFiniteSet(T) /\ IsFiniteSet(P \cap T)
        BY FS_Subset
    <2>2. Sum(T) = f[x] + Sum(T \ {x}) /\ f[x] \in Nat
        BY <2>1, SumPoint
    <2>3. Sum(T \ {x}) \in Nat /\ Sum(P \cap (T \ {x})) \in 0..Sum(T \ {x})
        BY <1>2
    <2>4. CASE x \in P
        <3>1. x \in P \cap T /\ (P \cap T) \ {x} = P \cap (T \ {x})
            BY <2>4
        <3>2. Sum(P \cap T) = f[x] + Sum((P \cap T) \ {x})
            BY <2>1, <3>1, SumPoint
        <3>3. ASSUME NEW a \in Nat, NEW b \in Nat, NEW c \in 0..b
              PROVE  a + b \in Nat /\ a + c \in 0..(a + b)
            OBVIOUS
        <3> HIDE DEF Sum
        <3>4. Sum(P \cap T) = f[x] + Sum(P \cap (T \ {x}))
            BY <3>1, <3>2
        <3>5. Sum(T) \in Nat /\ Sum(P \cap T) \in 0..Sum(T)
            BY <2>2, <2>3, <3>3, <3>4
        <3> QED
            BY <3>5
    <2>5. CASE x \notin P
        <3>1. P \cap T = P \cap (T \ {x})
            BY <2>5
        <3> HIDE DEF Sum
        <3>2. Sum(T) \in Nat /\ Sum(P \cap T) \in 0..Sum(T)
            BY <2>2, <2>3, <3>1
        <3> QED
            BY <3>2
    <2> QED
        BY <2>4, <2>5
<1>3. S \in Good
    <2> HIDE DEF Good
    <2> QED
        BY <1>1, <1>2, ElementInduction
<1>4. P \cap S = P
    OBVIOUS
<1> QED
    BY <1>3, <1>4

\* A sum of zeros is zero.
LEMMA SumZero ==
    ASSUME NEW S, IsFiniteSet(S), NEW f, \A x \in S : f[x] = 0
    PROVE  SumFunctionOnSet(f, S) = 0
<1> DEFINE Good == {T \in SUBSET S : SumFunctionOnSet(f, T) = 0}
<1>1. {} \in Good
    BY SumEmpty
<1>2. ASSUME NEW T \in SUBSET S, NEW x \in T, T \ {x} \in Good PROVE T \in Good
    <2>1. IsFiniteSet(T)
        BY FS_Subset
    <2>2. SumFunctionOnSet(f, T) = f[x] + SumFunctionOnSet(f, T \ {x})
        BY <2>1, SumPoint
    <2> QED
        BY <1>2, <2>2
<1>3. S \in Good
    <2> HIDE DEF Good
    <2> QED
        BY <1>1, <1>2, ElementInduction
<1> QED
    BY <1>3

\* Summing by groups: every group of elements with the same key counts with the
\* weight of its key, as often as it has elements.
LEMMA SumByKey ==
    ASSUME NEW S, IsFiniteSet(S), NEW K, IsFiniteSet(K), NEW key \in [S -> K],
           NEW w \in [K -> Int]
    PROVE  SumFunctionOnSet([p \in K |-> w[p] * Cardinality({x \in S : key[x] = p})], K)
              = SumFunctionOnSet([x \in S |-> w[key[x]]], S)
<1> DEFINE Size(T, p) == Cardinality({x \in T : key[x] = p})
           groups(T) == [p \in K |-> w[p] * Size(T, p)]
           all == [x \in S |-> w[key[x]]]
           Good == {T \in SUBSET S : SumFunctionOnSet(groups(T), K) = SumFunctionOnSet(all, T)}
<1>1. \A T \in SUBSET S : \A p \in K : Size(T, p) \in Nat
    <2> SUFFICES ASSUME NEW T \in SUBSET S, NEW p \in K PROVE Size(T, p) \in Nat
        OBVIOUS
    <2>1. IsFiniteSet({x \in T : key[x] = p})
        BY FS_Subset
    <2> QED
        BY <2>1, FS_CardinalityType
<1>2. \A x \in S : all[x] = w[key[x]] /\ all[x] \in Int
    OBVIOUS
<1>3. {} \in Good
    <2>1. \A p \in K : groups({})[p] = 0
        <3> SUFFICES ASSUME NEW p \in K PROVE groups({})[p] = 0
            OBVIOUS
        <3>1. {x \in {} : key[x] = p} = {}
            OBVIOUS
        <3>2. Size({}, p) = 0
            BY <3>1, FS_EmptySet
        <3> QED
            BY <3>2
    <2>2. SumFunctionOnSet(groups({}), K) = 0
        <3> HIDE DEF groups
        <3> QED
            BY <2>1, SumZero
    <2> QED
        BY <2>2, SumEmpty
<1>4. ASSUME NEW T \in SUBSET S, NEW x \in T, T \ {x} \in Good PROVE T \in Good
    <2> DEFINE R == T \ {x}
    <2>1. IsFiniteSet(T) /\ IsFiniteSet(R) /\ R \in SUBSET S /\ key[x] \in K /\ w[key[x]] \in Int
        BY FS_Subset
    <2>2. ASSUME NEW p \in K
          PROVE  groups(T)[p] = IF p = key[x] THEN groups(R)[p] + w[key[x]] ELSE groups(R)[p]
        <3> DEFINE A == {y \in T : key[y] = p}
                   B == {y \in R : key[y] = p}
        <3>1. CASE p = key[x]
            <4>1. B = A \ {x} /\ x \in A /\ A \in SUBSET S
                BY <3>1
            <4>2. IsFiniteSet(A)
                BY <4>1, FS_Subset
            <4>3. Cardinality(A) \in Nat /\ Cardinality(B) = Cardinality(A) - 1
                <5> HIDE DEF A, B
                <5> QED
                    BY <4>1, <4>2, FS_RemoveElement, FS_CardinalityType
            <4>4. w[p] \in Int /\ w[p] = w[key[x]]
                BY <3>1
            <4>5. \A c \in Nat, v \in Int : v * c = v * (c - 1) + v
                OBVIOUS
            <4>6. w[p] * Cardinality(A) = w[p] * Cardinality(B) + w[p]
                BY <4>3, <4>4, <4>5
            <4> QED
                BY <3>1, <4>4, <4>6
        <3>2. CASE p # key[x]
            <4>1. A = B
                BY <3>2
            <4> QED
                BY <3>2, <4>1
        <3> QED
            BY <3>1, <3>2
    <2>3. \A p \in K : groups(R)[p] \in Int
        <3> SUFFICES ASSUME NEW p \in K PROVE groups(R)[p] \in Int
            OBVIOUS
        <3>1. Size(R, p) \in Nat /\ w[p] \in Int
            BY <1>1, <2>1
        <3> HIDE DEF Size
        <3> QED
            BY <3>1
    <2>4. SumFunctionOnSet(groups(T), K) = SumFunctionOnSet(groups(R), K) + w[key[x]]
        <3> DEFINE f == groups(R)
                   g == groups(T)
                   k == key[x]
        <3>1. \A p \in K : f[p] \in Int /\ g[p] = IF p = k THEN f[p] + w[k] ELSE f[p]
            BY <2>2, <2>3
        <3>2. k \in K /\ w[k] \in Int
            BY <2>1
        <3> HIDE DEF f, g, k
        <3>3. SumFunctionOnSet(g, K) = SumFunctionOnSet(f, K) + w[k]
            BY <3>1, <3>2, SumBump
        <3> QED
            BY <3>3 DEF f, g, k
    <2>5. SumFunctionOnSet(all, T) = all[x] + SumFunctionOnSet(all, R)
        <3> HIDE DEF all
        <3> QED
            BY <1>2, <2>1, SumPoint
    <2>6. SumFunctionOnSet(groups(R), K) = SumFunctionOnSet(all, R)
        BY <1>4
    <2>7. SumFunctionOnSet(all, R) \in Int
        <3> HIDE DEF all
        <3> QED
            BY <1>2, <2>1, SumInt
    <2>8. all[x] = w[key[x]]
        BY <1>2
    <2>9. SumFunctionOnSet(groups(T), K) = SumFunctionOnSet(all, T)
        <3> HIDE DEF groups, all
        <3> QED
            BY <2>1, <2>4, <2>5, <2>6, <2>7, <2>8
    <2> QED
        BY <2>9
<1>5. S \in Good
    <2> HIDE DEF Good
    <2> QED
        BY <1>3, <1>4, ElementInduction
<1> QED
    BY <1>5

\* The sizes of all groups add up to the size of the set.
LEMMA SumGroups ==
    ASSUME NEW S, IsFiniteSet(S), NEW K, IsFiniteSet(K), NEW key \in [S -> K]
    PROVE  SumFunctionOnSet([p \in K |-> Cardinality({x \in S : key[x] = p})], K)
              = Cardinality(S)
<1> DEFINE one == [p \in K |-> 1]
           size == [p \in K |-> Cardinality({x \in S : key[x] = p})]
           weighed == [p \in K |-> one[p] * Cardinality({x \in S : key[x] = p})]
           ones == [x \in S |-> one[key[x]]]
<1>1. one \in [K -> Int]
    OBVIOUS
<1>2. \A p \in K : size[p] \in Int /\ size[p] = weighed[p]
    <2> SUFFICES ASSUME NEW p \in K PROVE size[p] \in Int /\ size[p] = weighed[p]
        OBVIOUS
    <2>1. IsFiniteSet({x \in S : key[x] = p})
        BY FS_Subset
    <2>2. Cardinality({x \in S : key[x] = p}) \in Nat
        BY <2>1, FS_CardinalityType
    <2> QED
        BY <2>2
<1>3. SumFunctionOnSet(size, K) = SumFunctionOnSet(weighed, K)
    <2> HIDE DEF size, weighed
    <2> QED
        BY <1>2, SumEqual
<1>4. SumFunctionOnSet(weighed, K) = SumFunctionOnSet(ones, S)
    <2> HIDE DEF one
    <2> QED
        BY <1>1, SumByKey
<1>5. \A x \in S : ones[x] = 1
    OBVIOUS
<1>6. SumFunctionOnSet(ones, S) = Cardinality(S)
    <2> HIDE DEF ones
    <2> QED
        BY <1>5, SumOnes
<1> QED
    BY <1>3, <1>4, <1>6

\* The pairs of a relation, counted by their first and by their second element.
After(R, N) == [i \in N |-> Cardinality({j \in N : <<i, j>> \in R})]
Before(R, N) == [i \in N |-> Cardinality({j \in N : <<j, i>> \in R})]

LEMMA PairsByFirst ==
    ASSUME NEW N, IsFiniteSet(N), NEW R \in SUBSET (N \X N)
    PROVE  /\ SumFunctionOnSet(After(R, N), N) = Cardinality(R)
           /\ After(R, N) \in [N -> Nat]
<1> DEFINE key == [x \in R |-> x[1]]
           group == [i \in N |-> Cardinality({x \in R : key[x] = i})]
           size == [i \in N |-> Cardinality({j \in N : <<i, j>> \in R})]
<1>1. IsFiniteSet(R) /\ key \in [R -> N]
    <2>1. IsFiniteSet(N \X N)
        BY FS_Product
    <2> QED
        BY <2>1, FS_Subset
<1>2. \A i \in N : size[i] \in Nat /\ size[i] = group[i]
    <2> SUFFICES ASSUME NEW i \in N PROVE size[i] \in Nat /\ size[i] = group[i]
        OBVIOUS
    <2> DEFINE A == {j \in N : <<i, j>> \in R}
               B == {x \in R : key[x] = i}
               to == [j \in A |-> <<i, j>>]
    <2>1. IsFiniteSet(A)
        BY FS_Subset
    <2>2. to \in [A -> B] /\ \A x, y \in A : to[x] = to[y] => x = y
        OBVIOUS
    <2>3. \A z \in B : \E x \in A : to[x] = z
        <3> SUFFICES ASSUME NEW z \in B PROVE \E x \in A : to[x] = z
            OBVIOUS
        <3>1. z = <<i, z[2]>> /\ z[2] \in A
            OBVIOUS
        <3> QED
            BY <3>1
    <2>4. Cardinality(B) = Cardinality(A)
        <3> HIDE DEF A, B, to
        <3> QED
            BY <2>1, <2>2, <2>3, SameSize
    <2>5. Cardinality(A) \in Nat
        BY <2>1, FS_CardinalityType
    <2> QED
        BY <2>4, <2>5
<1>3. SumFunctionOnSet(size, N) = SumFunctionOnSet(group, N)
    <2> HIDE DEF size, group
    <2> QED
        BY <1>2, SumEqual
<1>4. SumFunctionOnSet(group, N) = Cardinality(R)
    <2> HIDE DEF key
    <2> QED
        BY <1>1, SumGroups
<1>5. size \in [N -> Nat] /\ size = After(R, N)
    BY <1>2 DEF After
<1> HIDE DEF size
<1> QED
    BY <1>3, <1>4, <1>5

LEMMA PairsBySecond ==
    ASSUME NEW N, IsFiniteSet(N), NEW R \in SUBSET (N \X N)
    PROVE  /\ SumFunctionOnSet(Before(R, N), N) = Cardinality(R)
           /\ Before(R, N) \in [N -> Nat]
<1> DEFINE turned == {x \in N \X N : <<x[2], x[1]>> \in R}
           turn == [x \in R |-> <<x[2], x[1]>>]
<1>1. IsFiniteSet(R)
    <2>1. IsFiniteSet(N \X N)
        BY FS_Product
    <2> QED
        BY <2>1, FS_Subset
<1>2. turn \in [R -> turned] /\ \A x, y \in R : turn[x] = turn[y] => x = y
    OBVIOUS
<1>3. \A z \in turned : \E x \in R : turn[x] = z
    <2> SUFFICES ASSUME NEW z \in turned PROVE \E x \in R : turn[x] = z
        OBVIOUS
    <2>1. <<z[2], z[1]>> \in R /\ z = <<z[1], z[2]>>
        OBVIOUS
    <2>2. turn[<<z[2], z[1]>>] = z
        BY <2>1
    <2> QED
        BY <2>1, <2>2
<1>4. Cardinality(turned) = Cardinality(R)
    <2> HIDE DEF turned, turn
    <2> QED
        BY <1>1, <1>2, <1>3, SameSize
<1>5. turned \in SUBSET (N \X N) /\ After(turned, N) = Before(R, N)
    <2>1. \A i \in N : {j \in N : <<i, j>> \in turned} = {j \in N : <<j, i>> \in R}
        OBVIOUS
    <2> HIDE DEF turned
    <2>2. After(turned, N) = Before(R, N)
        BY <2>1 DEF After, Before
    <2> QED
        BY <2>2 DEF turned
<1> HIDE DEF turned, turn
<1> QED
    BY <1>4, <1>5, PairsByFirst

-----------------------------------------------------------------------------
(* Limits *)

LEMMA MinOfTwo ==
    ASSUME NEW a \in Int, NEW b \in Int
    PROVE  Min({a, b}) = IF a <= b THEN a ELSE b
<1>1. Min({a, b}) = CHOOSE x \in {a, b} : \A y \in {a, b} : x <= y
    BY DEF Min
<1>2. \E x \in {a, b} : \A y \in {a, b} : x <= y
    OBVIOUS
<1>3. Min({a, b}) \in {a, b} /\ Min({a, b}) <= a /\ Min({a, b}) <= b
    BY <1>1, <1>2
<1> QED
    BY <1>3

LEMMA Places ==
    ASSUME NEW n \in Nat
    PROVE  IsFiniteSet(0..(n - 1)) /\ Cardinality(0..(n - 1)) = n
<1>1. IsFiniteSet(0..(n - 1)) /\ Cardinality(0..(n - 1)) = IF 0 > n - 1 THEN 0 ELSE n - 1 - 0 + 1
    BY FS_Interval
<1> QED
    BY <1>1

LEMMA NumbersUpTo ==
    ASSUME NEW n \in Nat
    PROVE  IsFiniteSet(1..n) /\ Cardinality(1..n) = n
<1>1. IsFiniteSet(1..n) /\ Cardinality(1..n) = IF 1 > n THEN 0 ELSE n - 1 + 1
    BY FS_Interval
<1> QED
    BY <1>1

\* Of elements that each have a place of their own, those with fewer than n
\* others ahead of them are n, or all.
LEMMA FirstPlaces ==
    ASSUME NEW F, IsFiniteSet(F), NEW n \in Nat, NEW ahead \in [F -> SUBSET F],
           \A k \in F : k \notin ahead[k],
           \A j, k \in F : j = k \/ j \in ahead[k] \/ k \in ahead[j],
           \A k \in F : \A j \in ahead[k] : ahead[j] \subseteq ahead[k]
    PROVE  Cardinality({k \in F : Cardinality(ahead[k]) < n}) = Min({Cardinality(F), n})
<1> DEFINE size == Cardinality(F)
           place == [k \in F |-> Cardinality(ahead[k])]
           first == {k \in F : place[k] < n}
           short == IF size <= n THEN size ELSE n
           top == [k \in first |-> place[k]]
<1>1. size \in Nat /\ short \in Nat
    BY FS_CardinalityType
<1>2. \A k \in F : ahead[k] \in SUBSET F /\ IsFiniteSet(ahead[k]) /\ place[k] \in Nat
    <2> SUFFICES ASSUME NEW k \in F
                 PROVE  ahead[k] \in SUBSET F /\ IsFiniteSet(ahead[k]) /\ place[k] \in Nat
        OBVIOUS
    <2>1. ahead[k] \in SUBSET F
        OBVIOUS
    <2>2. IsFiniteSet(ahead[k])
        BY <2>1, FS_Subset
    <2> QED
        BY <2>1, <2>2, FS_CardinalityType
<1>3. \A k \in F : place[k] \in 0..(size - 1)
    <2> SUFFICES ASSUME NEW k \in F PROVE place[k] <= size - 1
        BY <1>1, <1>2
    <2>1. IsFiniteSet(F \ {k}) /\ Cardinality(F \ {k}) = size - 1
        BY FS_RemoveElement
    <2>2. ahead[k] \in SUBSET (F \ {k})
        BY <1>2
    <2>3. Cardinality(ahead[k]) <= Cardinality(F \ {k})
        BY <2>1, <2>2, FS_Subset
    <2> QED
        BY <2>1, <2>3
<1>4. ASSUME NEW k \in F, NEW j \in ahead[k] PROVE place[j] < place[k]
    <2>1. j \in F /\ ahead[j] \in SUBSET ahead[k] /\ ahead[j] # ahead[k]
        BY <1>2
    <2>2. Cardinality(ahead[j]) <= Cardinality(ahead[k])
          /\ Cardinality(ahead[k]) # Cardinality(ahead[j])
        BY <1>2, <2>1, FS_Subset
    <2>3. place[j] = Cardinality(ahead[j]) /\ place[k] = Cardinality(ahead[k])
        BY <2>1
    <2>4. place[j] \in Nat /\ place[k] \in Nat
        BY <1>2, <2>1
    <2> HIDE DEF place
    <2> QED
        BY <2>2, <2>3, <2>4
<1>5. ASSUME NEW j \in F, NEW k \in F, place[j] = place[k] PROVE j = k
    <2>1. place[j] \in Nat /\ place[k] \in Nat
        BY <1>2
    <2> HIDE DEF place
    <2> QED
        BY <1>4, <1>5, <2>1
<1>6. place \in Surjection(F, 0..(size - 1))
    <2>1. place \in [F -> 0..(size - 1)]
        BY <1>3
    <2>2. place \in Injection(F, 0..(size - 1))
        <3> HIDE DEF place
        <3> QED
            BY <1>5, <2>1 DEF Injection, IsInjective
    <2>3. IsFiniteSet(0..(size - 1)) /\ Cardinality(0..(size - 1)) = size
        BY <1>1, Places
    <2> HIDE DEF place
    <2> QED
        BY <2>2, <2>3, FS_Injection
<1>7. top \in Injection(first, 0..(short - 1))
    <2>1. \A k \in first : top[k] \in 0..(short - 1)
        <3> SUFFICES ASSUME NEW k \in first PROVE top[k] \in 0..(short - 1)
            OBVIOUS
        <3>1. k \in F /\ place[k] \in 0..(size - 1) /\ place[k] < n /\ top[k] = place[k]
            BY <1>3
        <3> HIDE DEF place, first, top
        <3> QED
            BY <1>1, <3>1
    <2>2. \A j, k \in first : top[j] = top[k] => j = k
        <3> HIDE DEF place
        <3> QED
            BY <1>5
    <2> HIDE DEF first, short
    <2> QED
        BY <2>1, <2>2 DEF Injection, IsInjective
<1>8. top \in Surjection(first, 0..(short - 1))
    <2>1. \A p \in 0..(short - 1) : \E k \in first : top[k] = p
        <3> SUFFICES ASSUME NEW p \in 0..(short - 1) PROVE \E k \in first : top[k] = p
            OBVIOUS
        <3>1. p \in 0..(size - 1) /\ p < n
            BY <1>1
        <3>2. PICK k \in F : place[k] = p
            <4> HIDE DEF place
            <4> QED
                BY <1>6, <3>1 DEF Surjection
        <3> HIDE DEF place
        <3> QED
            BY <3>1, <3>2
    <2>2. top \in [first -> 0..(short - 1)]
        <3> HIDE DEF top
        <3> QED
            BY <1>7 DEF Injection
    <2> HIDE DEF top, first, short
    <2> QED
        BY <2>1, <2>2 DEF Surjection
<1>9. IsFiniteSet(0..(short - 1)) /\ Cardinality(0..(short - 1)) = short
    <2> HIDE DEF short
    <2> QED
        BY <1>1, Places
<1>10. Cardinality(first) = short
    <2> HIDE DEF top, first, short
    <2> QED
        BY <1>7, <1>8, <1>9, FS_Injection
<1>11. first = {k \in F : Cardinality(ahead[k]) < n}
    OBVIOUS
<1>12. Min({size, n}) = short
    <2> HIDE DEF size
    <2> QED
        BY <1>1, MinOfTwo
<1> HIDE DEF first
<1> QED
    BY <1>10, <1>11, <1>12

\* Of finitely many, one comes first by a count, and of several with the same
\* count by number.
LEMMA FirstByCount ==
    ASSUME NEW A, IsFiniteSet(A), A # {}, A \subseteq Nat, NEW count \in [A -> Nat]
    PROVE  \E a \in A : \A b \in A : count[b] < count[a] \/ (count[b] = count[a] /\ a <= b)
<1> DEFINE First(T, a) ==
              a \in T /\ \A b \in T : count[b] < count[a] \/ (count[b] = count[a] /\ a <= b)
           Good == {T \in SUBSET A : T = {} \/ \E a \in A : First(T, a)}
<1>1. ASSUME NEW T \in SUBSET A, NEW x \in T, T \ {x} \in Good PROVE T \in Good
    <2>1. \A b \in A : b \in Nat /\ count[b] \in Nat
        OBVIOUS
    <2>2. CASE T \ {x} = {}
        <3>1. First(T, x)
            BY <2>1, <2>2
        <3> QED
            BY <3>1
    <2>3. CASE T \ {x} # {}
        <3>1. PICK a \in A : First(T \ {x}, a)
            BY <1>1, <2>3
        <3>2. CASE count[x] < count[a] \/ (count[x] = count[a] /\ a <= x)
            <4>1. First(T, a)
                BY <3>1, <3>2
            <4> QED
                BY <4>1
        <3>3. CASE ~(count[x] < count[a] \/ (count[x] = count[a] /\ a <= x))
            <4>1. x \in A /\ a \in A
                OBVIOUS
            <4>2. count[a] < count[x] \/ (count[a] = count[x] /\ x <= a)
                BY <2>1, <3>3, <4>1
            <4>3. ASSUME NEW b \in T
                  PROVE  count[b] < count[x] \/ (count[b] = count[x] /\ x <= b)
                <5>1. CASE b = x
                    BY <2>1, <4>1, <5>1
                <5>2. CASE b # x
                    <6>1. count[b] < count[a] \/ (count[b] = count[a] /\ a <= b)
                        BY <3>1, <5>2
                    <6>2. b \in A
                        OBVIOUS
                    <6> QED
                        BY <2>1, <4>1, <4>2, <6>1, <6>2
                <5> QED
                    BY <5>1, <5>2
            <4>4. First(T, x)
                BY <4>3
            <4> QED
                BY <4>1, <4>4
        <3> QED
            BY <3>2, <3>3
    <2> QED
        BY <2>2, <2>3
<1>2. {} \in Good
    OBVIOUS
<1>3. A \in Good
    <2> HIDE DEF Good
    <2> QED
        BY <1>1, <1>2, ElementInduction
<1> QED
    BY <1>3

=============================================================================
