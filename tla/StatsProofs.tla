----------------------------- MODULE StatsProofs -----------------------------
(***************************************************************************)
(* The statistics of FailureStats and the adjustment made from them, for   *)
(* any constants.  A sum over a finite set is a table over its subsets;    *)
(* what holds of it is shown by taking a least subset for which it would   *)
(* not hold.  StatsInv then says of the trail and of both snapshots what   *)
(* the properties need.                                                    *)
(***************************************************************************)
EXTENDS FailureStats, TLAPS, FiniteSetTheorems, WellFoundedInduction

---------------------------------------------------------------------------
\* Sums

Pick(s) == CHOOSE x \in s : TRUE

\* h is the table of the sums of f over the subsets of S.
Sums(f, S, h) ==
  h = [s \in SUBSET S |-> IF s = {} THEN 0 ELSE f[Pick(s)] + h[s \ {Pick(s)}]]

\* What SumOver looks up.
LEMMA SumOverIsTable ==
  ASSUME NEW f, NEW S
  PROVE  SumOver(f, S) = (CHOOSE h : Sums(f, S, h))[S]
BY DEF SumOver, MapThenSumSet, MapThenFoldSet, Sums, Pick

\* A family of subsets of a finite set has a least member.
LEMMA Minimal ==
  ASSUME NEW S, IsFiniteSet(S), NEW Bad, Bad \subseteq SUBSET S, Bad # {}
  PROVE  \E m \in Bad : \A y \in SUBSET m : y # m => y \notin Bad
<1>1. IsWellFoundedOn(StrictSubsetOrdering(S), SUBSET S)
  BY Zenon, FS_StrictSubsetOrderingWellFounded, FS_FiniteSubsetsOfFinite
<1>2. PICK m \in Bad : \A y \in Bad : ~ (<<y, m>> \in StrictSubsetOrdering(S))
  BY <1>1, WFMin
<1>3. ASSUME NEW y \in SUBSET m, y # m PROVE y \notin Bad
  <2>1. <<y, m>> \in StrictSubsetOrdering(S)
    BY <1>3 DEF StrictSubsetOrdering
  <2> QED
    BY <1>2, <2>1
<1> QED
  BY <1>3

\* The table says the same of a set whichever larger set it was made for.
LEMMA TablesAgree ==
  ASSUME NEW f, NEW S, IsFiniteSet(S), NEW T \in SUBSET S,
         NEW h, Sums(f, S, h), NEW k, Sums(f, T, k),
         NEW s \in SUBSET T
  PROVE  h[s] = k[s]
<1> DEFINE Bad == {r \in SUBSET T : h[r] # k[r]}
<1> SUFFICES ASSUME Bad # {} PROVE FALSE
  OBVIOUS
<1>1. IsFiniteSet(T)
  BY FS_Subset
<1>2. PICK m \in Bad : \A y \in SUBSET m : y # m => y \notin Bad
  <2> HIDE DEF Bad
  <2>1. Bad \subseteq SUBSET T
    BY DEF Bad
  <2> QED
    BY <1>1, <2>1, Minimal, Zenon
<1>3. h[m] = IF m = {} THEN 0 ELSE f[Pick(m)] + h[m \ {Pick(m)}]
  BY Zenon, <1>2 DEF Sums
<1>4. k[m] = IF m = {} THEN 0 ELSE f[Pick(m)] + k[m \ {Pick(m)}]
  BY Zenon, <1>2 DEF Sums
<1>5. m # {}
  BY <1>2, <1>3, <1>4
<1>6. Pick(m) \in m
  BY <1>5 DEF Pick
<1>7. h[m \ {Pick(m)}] = k[m \ {Pick(m)}]
  BY <1>2, <1>6
<1> QED
  BY <1>2, <1>3, <1>4, <1>5, <1>7

\* Every finite set has its table of sums.
LEMMA TableExists ==
  ASSUME NEW f, NEW S, IsFiniteSet(S)
  PROVE  \E h : Sums(f, S, h)
<1> DEFINE Bad == {T \in SUBSET S : ~ \E h : Sums(f, T, h)}
<1> SUFFICES ASSUME Bad # {} PROVE FALSE
  OBVIOUS
<1>1. PICK T \in Bad : \A y \in SUBSET T : y # T => y \notin Bad
  <2> HIDE DEF Bad
  <2>1. Bad \subseteq SUBSET S
    BY DEF Bad
  <2> QED
    BY <2>1, Minimal, Zenon
<1>2. T \in SUBSET S /\ IsFiniteSet(T)
  BY FS_Subset
<1> DEFINE H(s) == CHOOSE h : Sums(f, s, h)
           G == [s \in SUBSET T |-> IF s = {} THEN 0
                                    ELSE f[Pick(s)] + H(s \ {Pick(s)})[s \ {Pick(s)}]]
<1>3. ASSUME NEW s \in SUBSET T, s # T PROVE Sums(f, s, H(s))
  BY <1>1, <1>2, <1>3
<1>4. ASSUME NEW s \in SUBSET T, s # {} PROVE Pick(s) \in s
  BY <1>4 DEF Pick
<1>5. ASSUME NEW s \in SUBSET T, s # T PROVE G[s] = H(s)[s]
  <2>1. CASE s = {}
    <3>1. Sums(f, s, H(s))
      BY <1>3, <1>5
    <3>2. G[s] = 0
      BY <2>1
    <3> HIDE DEF H, G
    <3> QED
      BY Zenon, <2>1, <3>1, <3>2 DEF Sums
  <2>2. CASE s # {}
    <3> DEFINE r == s \ {Pick(s)}
    <3>1. r \in SUBSET s /\ r \in SUBSET T /\ r # T
      BY <1>4, <1>5, <2>2
    <3>2. IsFiniteSet(s)
      BY <1>2, FS_Subset
    <3>3. Sums(f, s, H(s)) /\ Sums(f, r, H(r))
      BY Zenon, <1>3, <1>5, <3>1
    <3> HIDE DEF H
    <3>4. H(s)[r] = H(r)[r]
      BY <3>1, <3>2, <3>3, TablesAgree
    <3>5. H(s)[s] = f[Pick(s)] + H(s)[r]
      BY Zenon, <2>2, <3>3 DEF Sums
    <3> QED
      BY <2>2, <3>4, <3>5
  <2> QED
    BY <2>1, <2>2
<1>6. Sums(f, T, G)
  <2>1. ASSUME NEW s \in SUBSET T
        PROVE  G[s] = IF s = {} THEN 0 ELSE f[Pick(s)] + G[s \ {Pick(s)}]
    <3>1. CASE s = {}
      BY <3>1
    <3>2. CASE s # {}
      <4> DEFINE r == s \ {Pick(s)}
      <4>1. r \in SUBSET T /\ r # T
        BY <1>4, <3>2
      <4>2. G[r] = H(r)[r]
        BY Zenon, <1>5, <4>1
      <4> QED
        BY <3>2, <4>2
    <3> QED
      BY <3>1, <3>2
  <2>2. G = [s \in SUBSET T |-> G[s]]
    OBVIOUS
  <2> HIDE DEF G
  <2> QED
    BY Zenon, <2>1, <2>2 DEF Sums
<1> QED
  BY <1>6

\* A sum is that of the set without one of its elements, and that element's.
LEMMA SumOverPick ==
  ASSUME NEW f, NEW S, IsFiniteSet(S)
  PROVE  SumOver(f, S) = IF S = {} THEN 0 ELSE f[Pick(S)] + SumOver(f, S \ {Pick(S)})
<1> DEFINE H(s) == CHOOSE h : Sums(f, s, h)
           R == S \ {Pick(S)}
<1>1. Sums(f, S, H(S))
  BY TableExists
<1>2. IsFiniteSet(R) /\ R \in SUBSET S
  BY FS_Subset
<1>3. Sums(f, R, H(R))
  BY <1>2, TableExists
<1>4. SumOver(f, S) = H(S)[S] /\ SumOver(f, R) = H(R)[R]
  BY Zenon, SumOverIsTable
<1> HIDE DEF H, R
<1>5. H(S)[R] = H(R)[R]
  <2>1. R \in SUBSET R
    OBVIOUS
  <2> QED
    BY <1>1, <1>2, <1>3, <2>1, TablesAgree
<1>6. H(S)[S] = IF S = {} THEN 0 ELSE f[Pick(S)] + H(S)[R]
  BY Zenon, <1>1 DEF Sums, R
<1> QED
  BY <1>4, <1>5, <1>6 DEF R

\* A sum of naturals is a natural.
LEMMA SumOverType ==
  ASSUME NEW f, NEW S, IsFiniteSet(S), \A x \in S : f[x] \in Nat
  PROVE  SumOver(f, S) \in Nat
<1> DEFINE Bad == {T \in SUBSET S : SumOver(f, T) \notin Nat}
<1> SUFFICES ASSUME Bad # {} PROVE FALSE
  OBVIOUS
<1>1. PICK T \in Bad : \A y \in SUBSET T : y # T => y \notin Bad
  <2> HIDE DEF Bad
  <2>1. Bad \subseteq SUBSET S
    BY DEF Bad
  <2> QED
    BY <2>1, Minimal, Zenon
<1>2. T \in SUBSET S /\ IsFiniteSet(T) /\ SumOver(f, T) \notin Nat
  BY FS_Subset
<1>3. SumOver(f, T) = IF T = {} THEN 0 ELSE f[Pick(T)] + SumOver(f, T \ {Pick(T)})
  BY <1>2, SumOverPick
<1>4. T # {}
  BY <1>2, <1>3
<1>5. Pick(T) \in T
  BY <1>4 DEF Pick
<1>6. SumOver(f, T \ {Pick(T)}) \in Nat
  BY <1>1, <1>2, <1>5
<1> QED
  BY <1>2, <1>3, <1>4, <1>5, <1>6

\* It does not matter which element is added last.
LEMMA SumOverRemove ==
  ASSUME NEW f, NEW S, IsFiniteSet(S), \A x \in S : f[x] \in Nat, NEW e \in S
  PROVE  SumOver(f, S) = f[e] + SumOver(f, S \ {e})
<1> DEFINE Bad == {T \in SUBSET S : \E x \in T : SumOver(f, T) # f[x] + SumOver(f, T \ {x})}
<1> SUFFICES ASSUME Bad # {} PROVE FALSE
  OBVIOUS
<1>1. PICK T \in Bad : \A y \in SUBSET T : y # T => y \notin Bad
  <2> HIDE DEF Bad
  <2>1. Bad \subseteq SUBSET S
    BY DEF Bad
  <2> QED
    BY <2>1, Minimal, Zenon
<1>2. PICK x \in T : SumOver(f, T) # f[x] + SumOver(f, T \ {x})
  OBVIOUS
<1>3. \A U \in SUBSET S : IsFiniteSet(U) /\ SumOver(f, U) \in Nat
  BY FS_Subset, SumOverType
<1>4. SumOver(f, T) = f[Pick(T)] + SumOver(f, T \ {Pick(T)})
  BY <1>2, <1>3, SumOverPick
<1>5. Pick(T) \in T
  BY <1>2 DEF Pick
<1>6. PICK c : c = Pick(T)
  OBVIOUS
<1>7. x # c
  BY <1>2, <1>4, <1>6
<1> DEFINE A == T \ {c}
           B == T \ {x}
           C == (T \ {c}) \ {x}
<1>8. A \in SUBSET T /\ A # T /\ B \in SUBSET T /\ B # T /\ x \in A /\ c \in B
  BY <1>5, <1>6, <1>7
<1>9. SumOver(f, A) = f[x] + SumOver(f, A \ {x})
  BY Zenon, <1>1, <1>8
<1>10. SumOver(f, B) = f[c] + SumOver(f, B \ {c})
  BY Zenon, <1>1, <1>8
<1>11. A \ {x} = C /\ B \ {c} = C
  OBVIOUS
<1>12. C \in SUBSET S /\ x \in S /\ c \in S
  BY <1>5, <1>6
<1>13. SumOver(f, C) \in Nat /\ f[x] \in Nat /\ f[c] \in Nat
  BY <1>3, <1>12
<1> HIDE DEF A, B, C
<1>14. SumOver(f, T) = f[c] + (f[x] + SumOver(f, C))
  BY <1>4, <1>6, <1>9, <1>11 DEF A
<1>15. f[x] + SumOver(f, T \ {x}) = f[x] + (f[c] + SumOver(f, C))
  BY <1>10, <1>11 DEF B
<1> QED
  BY <1>2, <1>13, <1>14, <1>15

\* The sum over two disjoint sets.
LEMMA SumOverUnion ==
  ASSUME NEW f, NEW S, IsFiniteSet(S), \A x \in S : f[x] \in Nat,
         NEW T \in SUBSET S, NEW V \in SUBSET S, T \cap V = {}
  PROVE  SumOver(f, T \cup V) = SumOver(f, T) + SumOver(f, V)
<1> DEFINE Bad == {U \in SUBSET V : SumOver(f, T \cup U) # SumOver(f, T) + SumOver(f, U)}
<1> SUFFICES ASSUME Bad # {} PROVE FALSE
  BY Zenon
<1>1. \A U \in SUBSET S : IsFiniteSet(U) /\ SumOver(f, U) \in Nat
  BY FS_Subset, SumOverType
<1>2. PICK U \in Bad : \A y \in SUBSET U : y # U => y \notin Bad
  <2> HIDE DEF Bad
  <2>1. Bad \subseteq SUBSET V /\ IsFiniteSet(V)
    BY <1>1 DEF Bad
  <2> QED
    BY <2>1, Minimal, Zenon
<1>3. SumOver(f, T \cup U) # SumOver(f, T) + SumOver(f, U) /\ U \in SUBSET S
  OBVIOUS
<1>4. U # {}
  <2>1. SumOver(f, {}) = 0
    BY Zenon, FS_EmptySet, SumOverPick
  <2> SUFFICES ASSUME U = {} PROVE FALSE
    OBVIOUS
  <2>2. T \cup U = T
    OBVIOUS
  <2> QED
    BY <1>1, <1>3, <2>1, <2>2
<1>5. PICK u : u \in U
  BY <1>4
<1> DEFINE W == U \ {u}
<1>6. W \in SUBSET U /\ W # U /\ W \in SUBSET S /\ T \cup U \in SUBSET S /\ T \cup W \in SUBSET S
  BY <1>3, <1>5
<1>7. SumOver(f, T \cup W) = SumOver(f, T) + SumOver(f, W)
  BY <1>2, <1>6
<1>8. (T \cup U) \ {u} = T \cup W
  BY <1>5
<1>9. \A x \in U : f[x] \in Nat
  BY <1>3
<1>10. \A x \in T \cup U : f[x] \in Nat
  BY <1>3
<1> HIDE DEF W
<1>11. SumOver(f, U) = f[u] + SumOver(f, W)
  BY <1>1, <1>3, <1>5, <1>9, SumOverRemove DEF W
<1>12. SumOver(f, T \cup U) = f[u] + SumOver(f, T \cup W)
  <2>1. u \in T \cup U
    BY <1>5
  <2> QED
    BY <1>1, <1>6, <1>8, <1>10, <2>1, SumOverRemove
<1>13. f[u] \in Nat /\ SumOver(f, W) \in Nat /\ SumOver(f, T) \in Nat
  BY <1>1, <1>5, <1>6, <1>9
<1> QED
  BY <1>3, <1>7, <1>11, <1>12, <1>13

\* More elements, no smaller a sum.
LEMMA SumOverMonotone ==
  ASSUME NEW f, NEW S, IsFiniteSet(S), \A x \in S : f[x] \in Nat, NEW T \in SUBSET S
  PROVE  SumOver(f, T) <= SumOver(f, S)
<1>1. T \cup (S \ T) = S /\ T \cap (S \ T) = {} /\ S \ T \in SUBSET S
  OBVIOUS
<1>2. SumOver(f, S) = SumOver(f, T) + SumOver(f, S \ T)
  BY <1>1, SumOverUnion
<1>3. SumOver(f, T) \in Nat /\ SumOver(f, S \ T) \in Nat
  BY <1>1, FS_Subset, SumOverType
<1> QED
  BY <1>2, <1>3

\* Summing the sums of disjoint parts sums their union.
LEMMA SumOverParts ==
  ASSUME NEW f, NEW S, IsFiniteSet(S), \A x \in S : f[x] \in Nat,
         NEW K, IsFiniteSet(K), NEW P \in [K -> SUBSET S],
         \A j, k \in K : j # k => P[j] \cap P[k] = {},
         NEW g, \A k \in K : g[k] = SumOver(f, P[k])
  PROVE  SumOver(g, K) = SumOver(f, UNION {P[k] : k \in K})
<1> DEFINE All(M) == UNION {P[k] : k \in M}
           Bad == {M \in SUBSET K : SumOver(g, M) # SumOver(f, All(M))}
<1> SUFFICES ASSUME Bad # {} PROVE FALSE
  BY Zenon
<1>1. PICK M \in Bad : \A y \in SUBSET M : y # M => y \notin Bad
  <2> HIDE DEF Bad
  <2>1. Bad \subseteq SUBSET K
    BY DEF Bad
  <2> QED
    BY <2>1, Minimal, Zenon
<1>2. M \in SUBSET K /\ SumOver(g, M) # SumOver(f, All(M))
  OBVIOUS
<1>3. IsFiniteSet(M)
  BY <1>2, FS_Subset
<1>4. M # {}
  <2>1. SumOver(f, {}) = 0 /\ SumOver(g, {}) = 0
    BY Zenon, FS_EmptySet, SumOverPick
  <2>2. All({}) = {}
    OBVIOUS
  <2> QED
    BY <1>2, <2>1, <2>2
<1>5. PICK m : m \in M
  BY <1>4
<1> DEFINE W == M \ {m}
<1>6. W \in SUBSET M /\ W # M
  BY <1>5
<1>7. SumOver(g, W) = SumOver(f, All(W))
  BY <1>1, <1>2, <1>6
<1>8. \A k \in M : g[k] \in Nat
  BY <1>2, FS_Subset, SumOverType
<1>9. SumOver(g, M) = g[m] + SumOver(g, W)
  BY <1>3, <1>5, <1>8, SumOverRemove
<1>10. All(M) = All(W) \cup P[m]
  BY <1>5
<1>11. All(W) \in SUBSET S /\ P[m] \in SUBSET S
  BY <1>2, <1>5
<1>12. All(W) \cap P[m] = {}
  BY <1>2, <1>5
<1> HIDE DEF All
<1>13. SumOver(f, All(M)) = SumOver(f, All(W)) + SumOver(f, P[m])
  <2>1. PICK X : X = All(W)
    OBVIOUS
  <2>2. PICK Y : Y = P[m]
    OBVIOUS
  <2>3. X \in SUBSET S /\ Y \in SUBSET S /\ X \cap Y = {}
    BY Zenon, <1>11, <1>12, <2>1, <2>2
  <2>4. SumOver(f, X \cup Y) = SumOver(f, X) + SumOver(f, Y)
    BY <2>3, SumOverUnion
  <2> QED
    BY Zenon, <1>10, <2>1, <2>2, <2>4
<1>14. g[m] = SumOver(f, P[m])
  BY <1>2, <1>5
<1>15. SumOver(f, All(W)) \in Nat /\ SumOver(f, P[m]) \in Nat
  BY Zenon, <1>11, FS_Subset, SumOverType
<1> QED
  BY <1>2, <1>7, <1>9, <1>13, <1>14, <1>15

---------------------------------------------------------------------------
\* Statistics of a query

\* The keys of one strategy, and of one strategy and role, are finitely many.
LEMMA KeysFinite ==
  ASSUME NEW s, NEW r,
         NEW M, M = {k \in Reported \X Category : k[1] = s},
         NEW L, L = {k \in Reported \X Role \X Category : k[1] = s /\ k[2] = r}
  PROVE  IsFiniteSet(M) /\ IsFiniteSet(L)
<1>1. IsFiniteSet(Category)
  BY FailureStatsAssumption
<1>2. PICK f : f = [k \in M |-> k[2]]
  BY Zenon
<1>3. f \in Injection(M, Category)
  <2>1. f \in [M -> Category]
    BY <1>2
  <2>2. \A j, k \in M : f[j] = f[k] => j = k
    BY <1>2
  <2> QED
    BY <2>1, <2>2 DEF Injection, IsInjective
<1>4. PICK g : g = [k \in L |-> k[3]]
  BY Zenon
<1>5. g \in Injection(L, Category)
  <2>1. g \in [L -> Category]
    BY <1>4
  <2>2. \A j, k \in L : g[j] = g[k] => j = k
    BY <1>4
  <2> QED
    BY <2>1, <2>2 DEF Injection, IsInjective
<1> QED
  BY <1>1, <1>3, <1>5, FS_Injection

\* Summing a rate over keys whose entries are apart counts the entries of all
\* the keys.
LEMMA SumRatesParts ==
  ASSUME NEW q, Counted(q), NEW K, IsFiniteSet(K), NEW rates, DOMAIN rates = K,
         NEW P \in [K -> SUBSET DOMAIN q],
         \A j, k \in K : j # k => P[j] \cap P[k] = {},
         \A k \in K : rates[k] = FailureRate(q, P[k]),
         NEW U, U = UNION {P[k] : k \in K}, NEW B, B = {e \in U : e.failed}
  PROVE  SumRates(rates).total = SumOver(q, U) /\ SumRates(rates).failures = SumOver(q, B)
<1>1. IsFiniteSet(DOMAIN q) /\ \A e \in DOMAIN q : q[e] \in Nat
  BY DEF Counted
<1>2. PICK F : F = [k \in K |-> {e \in P[k] : e.failed}]
  BY Zenon
<1>3. \A k \in K : rates[k].total = SumOver(q, P[k]) /\ rates[k].failures = SumOver(q, F[k])
  BY <1>2 DEF FailureRate
<1>4. PICK g : g = [k \in K |-> rates[k].total]
  BY Zenon
<1>5. PICK h : h = [k \in K |-> rates[k].failures]
  BY Zenon
<1>6. \A k \in K : g[k] = SumOver(q, P[k]) /\ h[k] = SumOver(q, F[k])
  BY <1>3, <1>4, <1>5
<1>7. SumOver(g, K) = SumOver(q, UNION {P[k] : k \in K})
  BY <1>1, <1>6, SumOverParts
<1>8. F \in [K -> SUBSET DOMAIN q] /\ \A j, k \in K : j # k => F[j] \cap F[k] = {}
  BY <1>2
<1>9. SumOver(h, K) = SumOver(q, UNION {F[k] : k \in K})
  BY <1>1, <1>6, <1>8, SumOverParts
<1>10. UNION {F[k] : k \in K} = B
  BY <1>2
<1> QED
  BY ZenonT(40), <1>4, <1>5, <1>7, <1>9, <1>10 DEF SumRates

\* Fewer elements and smaller values, no greater a sum.
LEMMA SumOverBelow ==
  ASSUME NEW f, NEW g, NEW S, IsFiniteSet(S), NEW T \in SUBSET S,
         \A x \in S : g[x] \in Nat, \A x \in T : f[x] \in Nat /\ f[x] <= g[x]
  PROVE  SumOver(f, T) <= SumOver(g, S)
<1>1. \A U \in SUBSET T : IsFiniteSet(U) /\ SumOver(f, U) \in Nat /\ SumOver(g, U) \in Nat
  BY FS_Subset, SumOverType
<1>2. SumOver(f, T) <= SumOver(g, T)
  <2> DEFINE Bad == {U \in SUBSET T : ~ (SumOver(f, U) <= SumOver(g, U))}
  <2> SUFFICES ASSUME Bad # {} PROVE FALSE
    OBVIOUS
  <2>1. PICK U \in Bad : \A y \in SUBSET U : y # U => y \notin Bad
    <3>1. Bad \subseteq SUBSET T /\ IsFiniteSet(T)
      BY <1>1 DEF Bad
    <3> HIDE DEF Bad
    <3> QED
      BY <3>1, Minimal, Zenon
  <2>2. U \in SUBSET T /\ ~ (SumOver(f, U) <= SumOver(g, U)) /\ IsFiniteSet(U)
    BY <1>1
  <2>3. /\ SumOver(f, U) = IF U = {} THEN 0 ELSE f[Pick(U)] + SumOver(f, U \ {Pick(U)})
        /\ SumOver(g, U) = IF U = {} THEN 0 ELSE g[Pick(U)] + SumOver(g, U \ {Pick(U)})
    BY ZenonT(40), <2>2, SumOverPick
  <2>4. U # {}
    BY <2>2, <2>3
  <2>5. Pick(U) \in U
    BY <2>4 DEF Pick
  <2>6. PICK R : R = U \ {Pick(U)}
    BY Zenon
  <2>7. SumOver(f, R) <= SumOver(g, R) /\ R \in SUBSET T
    BY <2>1, <2>2, <2>5, <2>6
  <2>8. SumOver(f, R) \in Nat /\ SumOver(g, R) \in Nat
    BY <1>1, <2>7
  <2>9. f[Pick(U)] \in Nat /\ g[Pick(U)] \in Nat /\ f[Pick(U)] <= g[Pick(U)]
    BY <2>2, <2>5
  <2> QED
    BY <2>2, <2>3, <2>4, <2>6, <2>7, <2>8, <2>9
<1>3. SumOver(g, T) <= SumOver(g, S)
  BY SumOverMonotone
<1>4. SumOver(g, S) \in Nat
  BY SumOverType
<1> QED
  BY <1>1, <1>2, <1>3, <1>4

\* The rate of a strategy in one bag is at most that in a larger one.
LEMMA LargerBag ==
  ASSUME NEW q, NEW b, Counted(q), Counted(b), DOMAIN q \in SUBSET DOMAIN b,
         \A e \in DOMAIN q : q[e] <= b[e], NEW s
  PROVE  /\ AtMost(FailureRate(q, {e \in DOMAIN q : e.strategy = s}),
                   FailureRate(b, {e \in DOMAIN b : e.strategy = s}))
         /\ IsRate(FailureRate(b, {e \in DOMAIN b : e.strategy = s}))
<1>1. PICK T, S : T = {e \in DOMAIN q : e.strategy = s} /\ S = {e \in DOMAIN b : e.strategy = s}
  BY ZenonT(40)
<1>2. PICK TF, SF : TF = {e \in T : e.failed} /\ SF = {e \in S : e.failed}
  BY ZenonT(40)
<1>3. T \in SUBSET S /\ TF \in SUBSET SF /\ SF \in SUBSET S /\ S \in SUBSET DOMAIN b
  BY <1>1, <1>2
<1>4. IsFiniteSet(S) /\ IsFiniteSet(SF)
  BY <1>3, FS_Subset DEF Counted
<1>5. /\ \A x \in S : b[x] \in Nat
      /\ \A x \in T : q[x] \in Nat /\ q[x] <= b[x]
      /\ \A x \in SF : b[x] \in Nat
      /\ \A x \in TF : q[x] \in Nat /\ q[x] <= b[x]
  BY <1>1, <1>2, <1>3 DEF Counted
<1>6. SumOver(q, T) <= SumOver(b, S)
  BY <1>3, <1>4, <1>5, SumOverBelow
<1>7. SumOver(q, TF) <= SumOver(b, SF)
  BY <1>3, <1>4, <1>5, SumOverBelow
<1>8. SumOver(b, SF) <= SumOver(b, S) /\ SumOver(b, S) \in Nat /\ SumOver(b, SF) \in Nat
  BY <1>3, <1>4, <1>5, SumOverMonotone, SumOverType
<1>9. FailureRate(q, T) = [total |-> SumOver(q, T), failures |-> SumOver(q, TF)]
  BY <1>2 DEF FailureRate
<1>10. FailureRate(b, S) = [total |-> SumOver(b, S), failures |-> SumOver(b, SF)]
  BY <1>2 DEF FailureRate
<1>11. AtMost(FailureRate(q, T), FailureRate(b, S)) /\ IsRate(FailureRate(b, S))
  BY <1>6, <1>7, <1>8, <1>9, <1>10 DEF AtMost, IsRate
<1> QED
  BY <1>1, <1>11

\* What a query returns is aggregated level below level.
LEMMA AggregateOrdered ==
  ASSUME NEW q, Counted(q)
  PROVE  Ordered(Aggregate(q))
<1> DEFINE A == Aggregate(q)
           Q == DOMAIN q
<1> SUFFICES ASSUME NEW s \in Reported \cap Scored
             PROVE  /\ IsRate(ByStrategyAndRole(A, s)) /\ IsRate(ByStrategyFromMap(A, s))
                    /\ IsRate(A.byStrategy[s])
                    /\ AtMost(ByStrategyAndRole(A, s), ByStrategyFromMap(A, s))
                    /\ AtMost(ByStrategyFromMap(A, s), A.byStrategy[s])
  BY DEF Ordered
<1>1. PICK r : r = DefaultRole[s]
  OBVIOUS
<1>2. IsFiniteSet(Q) /\ \A e \in Q : q[e] \in Nat
  BY DEF Counted
<1>3. PICK Bad : Bad = {e \in Q : e.failed}
  BY Zenon
<1>4. PICK M : M = {k \in Reported \X Category : k[1] = s}
  BY Zenon
<1>5. PICK L : L = {k \in Reported \X Role \X Category : k[1] = s /\ k[2] = r}
  BY Zenon
<1>6. IsFiniteSet(M) /\ IsFiniteSet(L)
  BY Zenon, <1>4, <1>5, KeysFinite
<1>7. PICK PM : PM = [k \in M |-> {e \in Q : e.strategy = k[1] /\ e.category = k[2]}]
  BY Zenon
<1>8. PICK PL : PL = [k \in L |-> {e \in Q : /\ e.strategy = k[1] /\ e.category = k[3]
                                             /\ e.role = k[2]}]
  BY Zenon
<1>9. PICK UM : UM = UNION {PM[k] : k \in M}
  BY Zenon
<1>10. PICK UL : UL = UNION {PL[k] : k \in L}
  BY Zenon
<1>11. /\ ByStrategyFromMap(A, s).total = SumOver(q, UM)
       /\ ByStrategyFromMap(A, s).failures = SumOver(q, UM \cap Bad)
  <2>1. PICK rates : rates = [k \in M |-> A.byStrategyCategory[k]]
    BY Zenon
  <2>2. \A k \in M : rates[k] = FailureRate(q, PM[k])
    <3>1. ASSUME NEW k \in M PROVE rates[k] = FailureRate(q, PM[k])
      <4>1. k \in Reported \X Category
        BY <1>4
      <4>2. {e \in {e \in BagToSet(q) : e.strategy = k[1]} : e.category = k[2]} = PM[k]
        BY <1>7 DEF BagToSet
      <4> QED
        BY Zenon, <2>1, <4>1, <4>2 DEF Aggregate
    <3> QED
      BY <3>1
  <2>3. PM \in [M -> SUBSET DOMAIN q] /\ DOMAIN rates = M
    BY <1>7, <2>1
  <2>4. \A j, k \in M : j # k => PM[j] \cap PM[k] = {}
    BY <1>4, <1>7
  <2>5. PICK B : B = {e \in UM : e.failed}
    BY Zenon
  <2>6. SumRates(rates).total = SumOver(q, UM) /\ SumRates(rates).failures = SumOver(q, B)
    <3>1. PICK V : V = UNION {PM[k] : k \in M} /\ V = UM /\ IsFiniteSet(M)
      BY Zenon, <1>6, <1>9
    <3>2. B = {e \in V : e.failed}
      BY Zenon, <2>5, <3>1
    <3>3. SumRates(rates).total = SumOver(q, V) /\ SumRates(rates).failures = SumOver(q, B)
      BY <2>2, <2>3, <2>4, <3>1, <3>2, SumRatesParts
    <3> QED
      BY Zenon, <3>1, <3>3
  <2>7. DOMAIN A.byStrategyCategory = Reported \X Category
    BY DEF Aggregate
  <2>8. ByStrategyFromMap(A, s) = SumRates(rates)
    BY <1>4, <2>1, <2>7 DEF ByStrategyFromMap
  <2>9. B = UM \cap Bad
    BY <1>3, <1>9, <2>3, <2>5
  <2> QED
    BY <2>6, <2>8, <2>9
<1>12. /\ ByStrategyAndRole(A, s).total = SumOver(q, UL)
       /\ ByStrategyAndRole(A, s).failures = SumOver(q, UL \cap Bad)
  <2>1. PICK rates : rates = [k \in L |-> A.byStrategyRoleCategory[k]]
    BY Zenon
  <2>2. \A k \in L : rates[k] = FailureRate(q, PL[k])
    <3>1. ASSUME NEW k \in L PROVE rates[k] = FailureRate(q, PL[k])
      <4>1. k \in Reported \X Role \X Category
        BY <1>5
      <4>2. {e \in {e \in {e \in BagToSet(q) : e.strategy = k[1]} : e.category = k[3]} :
               e.role = k[2]} = PL[k]
        BY <1>8 DEF BagToSet
      <4> QED
        BY Zenon, <2>1, <4>1, <4>2 DEF Aggregate
    <3> QED
      BY <3>1
  <2>3. PL \in [L -> SUBSET DOMAIN q] /\ DOMAIN rates = L
    BY <1>8, <2>1
  <2>4. \A j, k \in L : j # k => PL[j] \cap PL[k] = {}
    BY <1>5, <1>8
  <2>5. PICK B : B = {e \in UL : e.failed}
    BY Zenon
  <2>6. SumRates(rates).total = SumOver(q, UL) /\ SumRates(rates).failures = SumOver(q, B)
    <3>1. PICK V : V = UNION {PL[k] : k \in L} /\ V = UL /\ IsFiniteSet(L)
      BY Zenon, <1>6, <1>10
    <3>2. B = {e \in V : e.failed}
      BY Zenon, <2>5, <3>1
    <3>3. SumRates(rates).total = SumOver(q, V) /\ SumRates(rates).failures = SumOver(q, B)
      BY <2>2, <2>3, <2>4, <3>1, <3>2, SumRatesParts
    <3> QED
      BY Zenon, <3>1, <3>3
  <2>7. DOMAIN A.byStrategyRoleCategory = Reported \X Role \X Category
    BY DEF Aggregate
  <2>8. ByStrategyAndRole(A, s) = SumRates(rates)
    BY <1>1, <1>5, <2>1, <2>7 DEF ByStrategyAndRole
  <2>9. B = UL \cap Bad
    BY <1>3, <1>10, <2>3, <2>5
  <2> QED
    BY <2>6, <2>8, <2>9
<1>13. PICK O : O = {e \in BagToSet(q) : e.strategy = s}
  BY Zenon
<1>14. A.byStrategy[s].total = SumOver(q, O) /\ A.byStrategy[s].failures = SumOver(q, O \cap Bad)
  <2>1. {e \in O : e.failed} = O \cap Bad
    BY <1>3, <1>13 DEF BagToSet
  <2>2. A.byStrategy[s] = FailureRate(q, O)
    BY <1>13 DEF Aggregate
  <2> QED
    BY <2>1, <2>2 DEF FailureRate
<1>15. UL \in SUBSET UM
  <2>1. ASSUME NEW k \in L, NEW e \in PL[k] PROVE e \in UM
    <3>1. <<s, k[3]>> \in M
      BY <1>4, <1>5
    <3>2. e \in PM[<<s, k[3]>>]
      BY <1>5, <1>7, <1>8, <3>1
    <3> QED
      BY <1>9, <3>1, <3>2
  <2> QED
    BY <1>10, <2>1
<1>16. UM \in SUBSET O
  <2>1. ASSUME NEW k \in M, NEW e \in PM[k] PROVE e \in O
    BY <1>4, <1>7, <1>13 DEF BagToSet
  <2> QED
    BY <1>9, <2>1
<1>17. O \in SUBSET Q
  BY <1>13 DEF BagToSet
<1>18. \A U \in SUBSET Q : IsFiniteSet(U) /\ SumOver(q, U) \in Nat
  BY <1>2, FS_Subset, SumOverType
<1>19. \A U \in SUBSET Q : \A T \in SUBSET U : SumOver(q, T) <= SumOver(q, U)
  BY <1>2, <1>18, SumOverMonotone
<1>20. /\ UL \in SUBSET Q /\ UM \in SUBSET Q
       /\ UL \cap Bad \in SUBSET UL /\ UM \cap Bad \in SUBSET UM /\ O \cap Bad \in SUBSET O
       /\ UL \cap Bad \in SUBSET (UM \cap Bad) /\ UM \cap Bad \in SUBSET (O \cap Bad)
       /\ UL \cap Bad \in SUBSET Q /\ UM \cap Bad \in SUBSET Q /\ O \cap Bad \in SUBSET Q
  BY <1>15, <1>16, <1>17
<1>21. /\ SumOver(q, UL) <= SumOver(q, UM) /\ SumOver(q, UM) <= SumOver(q, O)
       /\ SumOver(q, UL \cap Bad) <= SumOver(q, UM \cap Bad)
       /\ SumOver(q, UM \cap Bad) <= SumOver(q, O \cap Bad)
       /\ SumOver(q, UL \cap Bad) <= SumOver(q, UL)
       /\ SumOver(q, UM \cap Bad) <= SumOver(q, UM)
       /\ SumOver(q, O \cap Bad) <= SumOver(q, O)
  BY Zenon, <1>15, <1>16, <1>17, <1>19, <1>20
<1> HIDE DEF A
<1> QED
  BY <1>11, <1>12, <1>14, <1>17, <1>18, <1>20, <1>21 DEF IsRate, AtMost

\* A snapshot stays backed while the trail grows.
LEMMA BackedKept ==
  ASSUME NEW st, Ordered(st), Backed(st), Counted(trail), Counted(trail'),
         DOMAIN trail \in SUBSET DOMAIN trail', \A e \in DOMAIN trail : trail[e] <= trail'[e],
         NEW s \in Reported \cap Scored, st.known
  PROVE  AtMost(st.byStrategy[s], Held(s)')
<1>1. PICK q, b : q = trail /\ b = trail'
  OBVIOUS
<1>2. PICK old, new : /\ old = FailureRate(q, {e \in DOMAIN q : e.strategy = s})
                      /\ new = FailureRate(b, {e \in DOMAIN b : e.strategy = s})
  BY ZenonT(40)
<1>3. Held(s) = old /\ Held(s)' = new
  BY <1>1, <1>2 DEF Held, BagToSet, FailureRate
<1>4. AtMost(old, new) /\ IsRate(new)
  <2>1. /\ Counted(q) /\ Counted(b) /\ DOMAIN q \in SUBSET DOMAIN b
        /\ \A e \in DOMAIN q : q[e] <= b[e]
    BY <1>1
  <2>2. /\ AtMost(FailureRate(q, {e \in DOMAIN q : e.strategy = s}),
                  FailureRate(b, {e \in DOMAIN b : e.strategy = s}))
        /\ IsRate(FailureRate(b, {e \in DOMAIN b : e.strategy = s}))
    BY ZenonT(40), <2>1, LargerBag
  <2> QED
    BY Zenon, <1>2, <2>2
<1>5. IsRate(old)
  <2>1. \A e \in DOMAIN q : q[e] <= q[e]
    BY <1>1 DEF Counted
  <2> QED
    BY ZenonT(40), <1>1, <1>2, <2>1, LargerBag
<1>6. IsRate(st.byStrategy[s]) /\ AtMost(st.byStrategy[s], old)
  BY <1>3 DEF Ordered, Backed
<1>7. AtMost(st.byStrategy[s], new)
  BY <1>4, <1>5, <1>6 DEF IsRate, AtMost
<1> QED
  BY Zenon, <1>3, <1>7

\* Everything the trail and the snapshots may become keeps the invariant.
LEMMA StatsInvariance == Spec => []StatsInv
<1>1. Init => StatsInv
  <2> SUFFICES ASSUME Init PROVE StatsInv
    OBVIOUS
  <2>1. DOMAIN trail = {}
    BY DEF Init, EmptyBag, SetToBag
  <2>2. Counted(trail)
    BY <2>1, FS_EmptySet DEF Counted
  <2>3. Ordered(stats) /\ Ordered(fresh) /\ Backed(stats) /\ Backed(fresh)
    BY DEF Init, NoStats, Ordered, Backed
  <2> QED
    BY <2>2, <2>3 DEF StatsInv
<1>2. StatsInv /\ [Next]_vars => StatsInv'
  <2> SUFFICES ASSUME StatsInv, [Next]_vars PROVE StatsInv'
    OBVIOUS
  <2>1. /\ Counted(trail) /\ Ordered(stats) /\ Ordered(fresh)
        /\ Backed(stats) /\ Backed(fresh)
    BY DEF StatsInv
  <2>2. ASSUME trail' = trail PROVE Counted(trail)'
    BY <2>1, <2>2 DEF Counted, Entry
  <2>3. ASSUME stats' = stats PROVE Ordered(stats)'
    BY <2>1, <2>3
  <2>4. ASSUME fresh' = fresh PROVE Ordered(fresh)'
    BY <2>1, <2>4
  <2>5. ASSUME trail' = trail PROVE \A s : Held(s)' = Held(s)
    BY <2>5 DEF Held, FailureRate
  <2>6. ASSUME trail' = trail, stats' = stats PROVE Backed(stats)'
    BY <2>1, <2>5, <2>6 DEF Backed
  <2>7. ASSUME trail' = trail, fresh' = fresh PROVE Backed(fresh)'
    BY <2>1, <2>5, <2>7 DEF Backed
  <2>8. ASSUME NEW e \in Entry, RegisterAttempt(e) PROVE StatsInv'
    <3>1. trail' = trail (+) SetToBag({e}) /\ stats' = stats /\ fresh' = fresh
      BY <2>8 DEF RegisterAttempt
    <3>2. DOMAIN trail' = DOMAIN trail \cup {e}
      BY <3>1 DEF (+), SetToBag
    <3>3. IsFiniteSet(DOMAIN trail')
      BY <2>1, <3>2, FS_AddElement DEF Counted
    <3>4. \A d \in DOMAIN trail' : trail'[d] \in Nat
      BY <2>1, <3>1 DEF (+), SetToBag, Counted
    <3>5. Counted(trail)'
      BY <2>1, <3>2, <3>3, <3>4 DEF Counted, Entry
    <3>6. \A d \in DOMAIN trail : trail[d] <= trail'[d]
      BY <2>1, <3>1 DEF (+), SetToBag, Counted
    <3>7. Counted(trail')
      BY <3>5 DEF Counted, Entry
    <3>8. DOMAIN trail \in SUBSET DOMAIN trail'
      BY <3>2
    <3>9. \A s \in Reported \cap Scored : stats.known => AtMost(stats.byStrategy[s], Held(s)')
      BY Zenon, <2>1, <3>6, <3>7, <3>8, BackedKept
    <3>10. \A s \in Reported \cap Scored : fresh.known => AtMost(fresh.byStrategy[s], Held(s)')
      BY Zenon, <2>1, <3>6, <3>7, <3>8, BackedKept
    <3>11. Backed(stats)' /\ Backed(fresh)'
      BY <3>1, <3>9, <3>10 DEF Backed
    <3> QED
      BY <2>3, <2>4, <3>1, <3>5, <3>11 DEF StatsInv
  <2>9. CASE Refresh
    BY <2>2, <2>3, <2>4, <2>6, <2>7, <2>9 DEF Refresh, StatsInv
  <2>10. CASE RefreshQuery
    <3>1. PICK q : q = Query(cutoff)
      OBVIOUS
    <3>2. DOMAIN q \in SUBSET DOMAIN trail /\ \A e \in DOMAIN q : q[e] = trail[e]
      BY <3>1 DEF Query, BagToSet
    <3>3. IsFiniteSet(DOMAIN q)
      BY <2>1, <3>2, FS_Subset DEF Counted
    <3>4. Counted(q) /\ \A e \in DOMAIN q : q[e] <= trail[e]
      BY <2>1, <3>2, <3>3 DEF Counted
    <3>5. fresh' = Aggregate(q) /\ trail' = trail /\ stats' = stats
      BY <2>10, <3>1 DEF RefreshQuery
    <3>6. Ordered(fresh)'
      BY <3>4, <3>5, AggregateOrdered
    <3>7. ASSUME NEW s \in Reported \cap Scored PROVE AtMost(fresh'.byStrategy[s], Held(s)')
      <4>1. fresh'.byStrategy[s] = FailureRate(q, {e \in DOMAIN q : e.strategy = s})
        BY <3>5 DEF Aggregate, BagToSet
      <4>2. Held(s)' = FailureRate(trail, {e \in DOMAIN trail : e.strategy = s})
        BY <2>5, <3>5 DEF Held, BagToSet
      <4>3. PICK b : b = trail
        OBVIOUS
      <4>4. AtMost(FailureRate(q, {e \in DOMAIN q : e.strategy = s}),
                   FailureRate(b, {e \in DOMAIN b : e.strategy = s}))
        <5>1. Counted(b) /\ DOMAIN q \in SUBSET DOMAIN b /\ \A e \in DOMAIN q : q[e] <= b[e]
          BY <2>1, <3>2, <3>4, <4>3
        <5> QED
          BY ZenonT(40), <3>4, <5>1, LargerBag
      <4> QED
        BY Zenon, <4>1, <4>2, <4>3, <4>4
    <3>8. Backed(fresh)'
      BY <3>7 DEF Backed
    <3> QED
      BY <2>2, <2>3, <2>6, <3>5, <3>6, <3>8 DEF StatsInv
  <2>11. CASE Update
    <3>1. stats' = fresh /\ fresh' = NoStats /\ trail' = trail
      BY <2>11 DEF Update, Published
    <3>2. Ordered(stats)' /\ Backed(stats)'
      BY <2>1, <2>5, <3>1 DEF Backed
    <3>3. Ordered(fresh)' /\ Backed(fresh)'
      BY <3>1 DEF Ordered, Backed, NoStats
    <3> QED
      BY <2>2, <3>1, <3>2, <3>3 DEF StatsInv
  <2>12. CASE RefreshFails
    BY <2>2, <2>3, <2>4, <2>6, <2>7, <2>12 DEF RefreshFails, StatsInv
  <2>13. CASE Tick
    BY <2>2, <2>3, <2>4, <2>6, <2>7, <2>13 DEF Tick, StatsInv
  <2>14. CASE Restart
    <3>1. stats' = NoStats /\ fresh' = NoStats /\ trail' = trail
      BY <2>14 DEF Restart
    <3>2. Ordered(stats)' /\ Ordered(fresh)' /\ Backed(stats)' /\ Backed(fresh)'
      BY <3>1 DEF Ordered, Backed, NoStats
    <3> QED
      BY <2>2, <3>1, <3>2 DEF StatsInv
  <2>15. CASE UNCHANGED vars
    BY <2>2, <2>3, <2>4, <2>6, <2>7, <2>15 DEF vars, StatsInv
  <2> QED
    BY <2>8, <2>9, <2>10, <2>11, <2>12, <2>13, <2>14, <2>15 DEF Next, Collector
<1> QED
  BY <1>1, <1>2, PTL DEF Spec

\* CountsAreBacked, for any strategies, roles and categories and any number of
\* attempts and refreshes: a published snapshot counts attempts of the trail,
\* each once, and every level at most those of the coarser one.
THEOREM CountsAreBackedAlways == Spec => []CountsAreBacked
<1>1. StatsInv => CountsAreBacked
  BY DEF StatsInv, Ordered, Backed, IsRate, CountsAreBacked
<1> QED
  BY <1>1, StatsInvariance, PTL

---------------------------------------------------------------------------
\* Adjustments

\* Dividing rounds down and stays between the same bounds.
LEMMA DivisionBounded ==
  ASSUME NEW a \in Int, NEW d \in Nat \ {0}, NEW lo \in Int, NEW hi \in Int,
         lo * d <= a, a <= hi * d
  PROVE  a \div d \in Int /\ lo <= a \div d /\ a \div d <= hi
<1>1. PICK q : q = a \div d
  OBVIOUS
<1>2. q \in Int /\ q * d <= a /\ a < q * d + d
  BY <1>1
<1>3. q <= hi
  <2> SUFFICES ASSUME q >= hi + 1 PROVE FALSE
    BY <1>2
  <2>1. q * d >= (hi + 1) * d
    BY <1>2
  <2>2. (hi + 1) * d = hi * d + d
    OBVIOUS
  <2>3. q * d \in Int /\ hi * d \in Int
    BY <1>2
  <2> QED
    BY <1>2, <2>1, <2>2, <2>3
<1>4. lo <= q
  <2> SUFFICES ASSUME q + 1 <= lo PROVE FALSE
    BY <1>2
  <2>1. (q + 1) * d <= lo * d
    BY <1>2
  <2>2. (q + 1) * d = q * d + d
    BY <1>2
  <2>3. q * d \in Int /\ lo * d \in Int
    BY <1>2
  <2> QED
    BY <1>2, <2>1, <2>2, <2>3
<1> QED
  BY <1>1, <1>2, <1>3, <1>4

\* The confidence never takes an adjustment out of its limits.
LEMMA ConfidentBounded ==
  ASSUME NEW value \in Adjustment, NEW samples \in Nat
  PROVE  Confident(value, samples) \in Adjustment
<1>0. MinSamples \in Nat /\ FullConfidenceAt \in Nat /\ MinSamples < FullConfidenceAt
  BY FailureStatsAssumption
<1>1. CASE samples <= MinSamples
  BY <1>1 DEF Confident, Adjustment
<1>2. CASE samples >= FullConfidenceAt
  BY <1>0, <1>2 DEF Confident
<1>3. CASE MinSamples < samples /\ samples < FullConfidenceAt
  <2>1. PICK n : n = samples - MinSamples
    OBVIOUS
  <2>2. PICK d : d = FullConfidenceAt - MinSamples
    OBVIOUS
  <2>3. n \in Nat /\ d \in Nat \ {0} /\ n <= d
    BY <1>0, <1>3, <2>1, <2>2
  <2>4. value * n <= 500 * n /\ 500 * n <= 500 * d
    BY <2>3 DEF Adjustment
  <2>5. -1500 * d <= -1500 * n /\ -1500 * n <= value * n
    BY <2>3 DEF Adjustment
  <2>6. -1500 * d <= value * n /\ value * n <= 500 * d /\ value * n \in Int
    BY <2>3, <2>4, <2>5 DEF Adjustment
  <2>7. (value * n) \div d \in Adjustment
    BY <2>3, <2>6, DivisionBounded DEF Adjustment
  <2>8. ~ (samples <= MinSamples) /\ ~ (samples >= FullConfidenceAt)
    BY <1>0, <1>3
  <2>9. Confident(value, samples) = (value * n) \div d
    BY Zenon, <2>1, <2>2, <2>8 DEF Confident
  <2> QED
    BY Zenon, <2>7, <2>9
<1> QED
  BY <1>0, <1>1, <1>2, <1>3

\* The adjustment of a rate with samples is within the limits.
LEMMA AdjustmentBounded ==
  ASSUME NEW rate, IsRate(rate), rate.total > 0
  PROVE  BuildAdjustment(rate) \in Adjustment
<1>1. PICK n : n = rate.total
  OBVIOUS
<1>2. PICK v : v = rate.total - 5 * rate.failures
  OBVIOUS
<1>3. n \in Nat \ {0} /\ v \in Int
  BY <1>1, <1>2 DEF IsRate
<1>4. (v * 500) \div n \in Int /\ (v * 1500) \div (4 * n) \in Int
  BY <1>3
<1>5. RawAdjustment(rate) \in Adjustment
  <2>1. PICK x : x = IF v >= 0 THEN (v * 500) \div n ELSE (v * 1500) \div (4 * n)
    OBVIOUS
  <2>2. x \in Int
    BY Zenon, <1>4, <2>1
  <2>3. ClampValue(x, -1500, 500) \in Adjustment
    BY <2>2 DEF ClampValue, Adjustment
  <2>4. RawAdjustment(rate) = ClampValue(x, -1500, 500)
    <3>1. x = IF rate.total - 5 * rate.failures >= 0
                THEN ((rate.total - 5 * rate.failures) * 500) \div rate.total
                ELSE ((rate.total - 5 * rate.failures) * 1500) \div (4 * rate.total)
      BY <1>1, <1>2, <2>1
    <3> QED
      BY <3>1 DEF RawAdjustment
  <2> QED
    BY <2>3, <2>4
<1>6. rate.total \in Nat
  BY DEF IsRate
<1> QED
  BY Zenon, <1>5, <1>6, ConfidentBounded DEF BuildAdjustment

\* ExplainedIsApplied, for any thresholds and any number of attempts: the
\* adjustment the evaluator explains already lies within the limits the final
\* clamp enforces.
THEOREM ExplainedIsAppliedAlways == Spec => []ExplainedIsApplied
<1>1. StatsInv => ExplainedIsApplied
  <2> SUFFICES ASSUME Ordered(stats), NEW s \in Scored
               PROVE  ComputeAdjustment(stats, s) \in Adjustment
    BY DEF StatsInv, ExplainedIsApplied, ClampValue, Adjustment
  <2>1. CASE ~ stats.known \/ s \notin Reported
    BY <2>1 DEF ComputeAdjustment, Adjustment
  <2>2. CASE stats.known /\ s \in Reported
    <3>1. PICK rate : rate = Level(stats, s)
      OBVIOUS
    <3>2. IsRate(rate)
      BY <2>2, <3>1 DEF Ordered, Level
    <3>3. CASE rate.total < MinSamples
      BY <2>2, <3>1, <3>3 DEF ComputeAdjustment, Adjustment
    <3>4. CASE ~ (rate.total < MinSamples)
      <4>1. rate.total > 0
        BY <3>2, <3>4, FailureStatsAssumption DEF IsRate
      <4> QED
        BY <2>2, <3>1, <3>2, <3>4, <4>1, AdjustmentBounded DEF ComputeAdjustment
    <3> QED
      BY <3>3, <3>4
  <2> QED
    BY <2>1, <2>2
<1> QED
  BY <1>1, StatsInvariance, PTL
=============================================================================
