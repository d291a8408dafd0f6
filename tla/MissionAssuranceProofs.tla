----------------------- MODULE MissionAssuranceProofs -----------------------
(***************************************************************************)
(* Proofs about MissionAssurance.                                          *)
(*                                                                         *)
(* Scores are sums over assets, averages are sums over missions, and a     *)
(* scenario is applied one perturbation after the other: all of them are   *)
(* folds.  The first part shows what a fold over a finite set returns, by  *)
(* looking at a smallest set on which it would go wrong.                   *)
(***************************************************************************)
EXTENDS MissionAssurance, FiniteSetTheorems, SequenceTheorems,
        WellFoundedInduction, TLAPS

-----------------------------------------------------------------------------
(* Folds over a finite set. *)

\* g folds step over the subsets of S, taking the element c[s] out of s.
FoldsOver(g, S, base, c, step) ==
    \A s \in SUBSET S :
        g[s] = IF s = {} THEN base ELSE step[<<c[s], g[s \ {c[s]}]>>]

\* The same of the function over these subsets and nothing else.
IsFold(g, S, base, c, step) ==
    g = [s \in SUBSET S |->
           IF s = {} THEN base ELSE step[<<c[s], g[s \ {c[s]}]>>]]

\* c chooses an element of every subset of S that has one.
Chooses(c, S) == \A s \in SUBSET S : s # {} => c[s] \in s

\* A set of finite subsets of S has a smallest member: what holds of a set
\* whenever it holds of its strict subsets holds of all.
LEMMA SmallestSubset ==
    ASSUME NEW S, IsFiniteSet(S), NEW T, T \subseteq SUBSET S, T # {}
    PROVE  \E s \in T : \A t \in T : ~(t \subseteq s /\ t # s)
<1>1. IsWellFoundedOn(StrictSubsetOrdering(S), SUBSET S)
  BY FS_StrictSubsetOrderingWellFounded, FS_FiniteSubsetsOfFinite
<1>2. \E s \in T : \A t \in T : <<t, s>> \notin StrictSubsetOrdering(S)
  BY <1>1, WFMin, Zenon
<1>3. PICK s \in T : \A t \in T : <<t, s>> \notin StrictSubsetOrdering(S)
  BY <1>2
<1>4. \A t \in T : ~(t \subseteq s /\ t # s)
  BY <1>3 DEF StrictSubsetOrdering
<1>5. QED
  BY <1>4

\* Two folds agree on every set both are defined on.
LEMMA FoldUnique ==
    ASSUME NEW S, NEW T, NEW w, IsFiniteSet(w), w \subseteq S, w \subseteq T,
           NEW base, NEW c, NEW step, Chooses(c, S), NEW g, NEW h,
           FoldsOver(g, S, base, c, step), FoldsOver(h, T, base, c, step)
    PROVE  g[w] = h[w]
<1> DEFINE Bad == {s \in SUBSET w : g[s] # h[s]}
<1>1. SUFFICES ASSUME Bad # {} PROVE FALSE
  OBVIOUS
<1>2. PICK s \in Bad : \A t \in Bad : ~(t \subseteq s /\ t # s)
  <2> HIDE DEF Bad
  <2>1. Bad \subseteq SUBSET w
    BY DEF Bad
  <2> QED BY <1>1, <2>1, SmallestSubset
<1>3. s \in SUBSET S /\ s \in SUBSET T /\ g[s] # h[s] /\ s \in SUBSET w
  OBVIOUS
<1>4. g[s] = IF s = {} THEN base ELSE step[<<c[s], g[s \ {c[s]}]>>]
  BY <1>3, Zenon DEF FoldsOver
<1>5. h[s] = IF s = {} THEN base ELSE step[<<c[s], h[s \ {c[s]}]>>]
  BY <1>3, Zenon DEF FoldsOver
<1>6. s # {}
  BY <1>3, <1>4, <1>5
<1>7. c[s] \in s
  BY <1>3, <1>6 DEF Chooses
<1>8. g[s \ {c[s]}] = h[s \ {c[s]}]
  <2>1. s \ {c[s]} \subseteq s /\ s \ {c[s]} # s /\ s \ {c[s]} \in SUBSET w
    BY <1>3, <1>7
  <2>2. s \ {c[s]} \notin Bad
    BY <2>1, <1>2
  <2> QED BY <2>1, <2>2
<1>9. QED
  BY <1>3, <1>4, <1>5, <1>8

\* What a fold returns is of the type its steps keep to.
LEMMA FoldTyped ==
    ASSUME NEW S, IsFiniteSet(S), NEW V, NEW base \in V, NEW c, Chooses(c, S),
           NEW step, \A x \in S, v \in V : step[<<x, v>>] \in V,
           NEW g, FoldsOver(g, S, base, c, step)
    PROVE  \A s \in SUBSET S : g[s] \in V
<1> DEFINE Bad == {s \in SUBSET S : g[s] \notin V}
<1>1. SUFFICES ASSUME Bad # {} PROVE FALSE
  OBVIOUS
<1>2. PICK s \in Bad : \A t \in Bad : ~(t \subseteq s /\ t # s)
  <2> HIDE DEF Bad
  <2>1. Bad \subseteq SUBSET S
    BY DEF Bad
  <2> QED BY <1>1, <2>1, SmallestSubset
<1>3. g[s] = IF s = {} THEN base ELSE step[<<c[s], g[s \ {c[s]}]>>]
  BY Zenon DEF FoldsOver
<1>4. s # {}
  BY <1>3
<1>5. c[s] \in s /\ c[s] \in S
  BY <1>4 DEF Chooses
<1>6. g[s \ {c[s]}] \in V
  <2>1. s \ {c[s]} \subseteq s /\ s \ {c[s]} # s /\ s \ {c[s]} \in SUBSET S
    BY <1>5
  <2>2. s \ {c[s]} \notin Bad
    BY <2>1, <1>2
  <2> QED BY <2>1, <2>2
<1>7. step[<<c[s], g[s \ {c[s]}]>>] \in V
  BY <1>5, <1>6
<1>8. QED
  BY <1>3, <1>4, <1>7

\* There is a fold over every finite set.
LEMMA FoldExists ==
    ASSUME NEW S, IsFiniteSet(S), NEW base, NEW c, NEW step, Chooses(c, S)
    PROVE  \E g : IsFold(g, S, base, c, step)
<1> DEFINE Rec(s, g) == IF s = {} THEN base ELSE step[<<c[s], g[s \ {c[s]}]>>]
           Has(w) == \E g : FoldsOver(g, w, base, c, step)
           Of(w) == CHOOSE g : FoldsOver(g, w, base, c, step)
           Bad == {w \in SUBSET S : ~Has(w)}
           Glue(v) == [s \in SUBSET v |-> Rec(s, Of(s \ {c[s]}))]
<1>1. ASSUME NEW v \in SUBSET S,
             \A w \in SUBSET S : w \subseteq v /\ w # v => Has(w)
      PROVE  Glue(v) = [s \in SUBSET v |-> Rec(s, Glue(v))]
  <2>1. ASSUME NEW s \in SUBSET v
        PROVE  Rec(s, Of(s \ {c[s]})) = Rec(s, Glue(v))
    <3>1. CASE s = {}
      BY <3>1
    <3>2. CASE s # {}
      <4> DEFINE t == s \ {c[s]}
      <4>1. c[s] \in s
        BY <3>2, <2>1 DEF Chooses
      <4>2. t \in SUBSET S /\ t \subseteq v /\ t # v /\ t \in SUBSET v
        BY <4>1
      <4>3. FoldsOver(Of(t), t, base, c, step)
        <5> HIDE DEF t
        <5>1. Has(t)
          BY <4>2, <1>1
        <5> QED BY <5>1, Zenon
      <4>4. Of(t)[t] = Rec(t, Of(t))
        <5> HIDE DEF t
        <5> QED BY <4>3, Zenon DEF FoldsOver
      <4>5. Rec(t, Of(t)) = Rec(t, Of(t \ {c[t]}))
        <5> HIDE DEF t
        <5>1. CASE t = {}
          BY <5>1
        <5>2. CASE t # {}
          <6> DEFINE u == t \ {c[t]}
          <6>1. c[t] \in t
            BY <5>2, <4>2 DEF Chooses
          <6>2. u \in SUBSET S /\ u \subseteq v /\ u # v /\ u \subseteq t
            BY <6>1, <4>2
          <6>3. FoldsOver(Of(u), u, base, c, step)
            <7> HIDE DEF u
            <7>1. Has(u)
              BY <6>2, <1>1
            <7> QED BY <7>1, Zenon
          <6>4. Chooses(c, t) /\ IsFiniteSet(u)
            BY <4>2, <6>2, FS_Subset DEF Chooses
          <6>5. Of(t)[u] = Of(u)[u]
            <7>1. u \subseteq u
              OBVIOUS
            <7> HIDE DEF u, Of, t
            <7> QED BY <4>3, <6>2, <6>3, <6>4, <7>1, FoldUnique
          <6> QED BY <6>5, <5>2
        <5> QED BY <5>1, <5>2
      <4>6. Glue(v)[t] = Rec(t, Of(t \ {c[t]}))
        <5> HIDE DEF t, Rec, Of
        <5> QED BY <4>2
      <4>7. Of(t)[t] = Glue(v)[t]
        BY <4>4, <4>5, <4>6, Zenon
      <4> QED BY <4>7, <3>2
    <3> QED BY <3>1, <3>2
  <2> HIDE DEF Rec, Of
  <2> QED BY <2>1
<1>2. Bad = {}
  <2>1. SUFFICES ASSUME Bad # {} PROVE FALSE
    OBVIOUS
  <2>2. PICK v \in Bad : \A t \in Bad : ~(t \subseteq v /\ t # v)
    <3> HIDE DEF Bad
    <3>1. Bad \subseteq SUBSET S
      BY DEF Bad
    <3> QED BY <2>1, <3>1, SmallestSubset
  <2>3. v \in SUBSET S /\ ~Has(v)
    <3> HIDE DEF Has
    <3> QED OBVIOUS
  <2>4. \A w \in SUBSET S : w \subseteq v /\ w # v => Has(w)
    <3> HIDE DEF Has
    <3> QED BY <2>2
  <2>5. Glue(v) = [s \in SUBSET v |-> Rec(s, Glue(v))]
    <3> HIDE DEF Has, Glue, Rec
    <3> QED BY <2>3, <2>4, <1>1
  <2>6. \A s \in SUBSET v : Glue(v)[s] = Rec(s, Glue(v))
    <3> HIDE DEF Glue, Rec
    <3> QED BY <2>5
  <2>7. FoldsOver(Glue(v), v, base, c, step)
    <3> HIDE DEF Glue
    <3> QED BY <2>6, Zenon DEF FoldsOver
  <2> HIDE DEF Glue
  <2> QED BY <2>3, <2>7
<1>3. Glue(S) = [s \in SUBSET S |-> Rec(s, Glue(S))]
  <2>1. \A w \in SUBSET S : Has(w)
    <3> HIDE DEF Has
    <3> QED BY <1>2
  <2> HIDE DEF Has, Glue, Rec
  <2> QED BY <2>1, <1>1
<1>4. QED
  <2>1. IsFold(Glue(S), S, base, c, step)
    <3> HIDE DEF Glue
    <3> QED BY <1>3, Zenon DEF IsFold
  <2> HIDE DEF Glue
  <2> QED BY <2>1
-----------------------------------------------------------------------------
(* Sums of functions. *)

Taken(s) == CHOOSE x \in s : TRUE

\* Sums of f over the subsets of S, one element taken at a time.
SumsOver(h, S, f) ==
    h = [s \in SUBSET S |->
           IF s = {} THEN 0 ELSE f[Taken(s)] + h[s \ {Taken(s)}]]

LEMMA SumExists ==
    ASSUME NEW S, IsFiniteSet(S), NEW f \in [S -> Int]
    PROVE  \E h : SumsOver(h, S, f)
<1> DEFINE c == [s \in SUBSET S |-> Taken(s)]
           add == [p \in S \X Int |-> f[p[1]] + p[2]]
<1>1. Chooses(c, S)
  BY DEF Chooses, Taken
<1>2. PICK g : IsFold(g, S, 0, c, add)
  <2> HIDE DEF c, add
  <2> QED BY <1>1, FoldExists
<1>3. FoldsOver(g, S, 0, c, add)
  <2> HIDE DEF c, add
  <2> QED BY <1>2 DEF FoldsOver, IsFold
<1>4. \A s \in SUBSET S : g[s] \in Int
  <2>1. \A x \in S, v \in Int : add[<<x, v>>] \in Int
    OBVIOUS
  <2>2. 0 \in Int
    OBVIOUS
  <2> HIDE DEF c, add
  <2> QED BY <1>1, <1>3, <2>1, <2>2, FoldTyped, Zenon
<1>5. ASSUME NEW s \in SUBSET S
      PROVE  (IF s = {} THEN 0 ELSE add[<<c[s], g[s \ {c[s]}]>>]) =
             (IF s = {} THEN 0 ELSE f[Taken(s)] + g[s \ {Taken(s)}])
  <2>1. CASE s = {}
    BY <2>1
  <2>2. CASE s # {}
    <3>1. c[s] = Taken(s) /\ c[s] \in S
      BY <1>1, <2>2 DEF Chooses
    <3>2. g[s \ {c[s]}] \in Int
      BY <1>4
    <3>3. add[<<c[s], g[s \ {c[s]}]>>] = f[c[s]] + g[s \ {c[s]}]
      <4> HIDE DEF c
      <4> QED BY <3>1, <3>2
    <3> QED BY <2>2, <3>1, <3>3
  <2> QED BY <2>1, <2>2
<1>6. SumsOver(g, S, f)
  <2> HIDE DEF c, add
  <2> QED BY <1>2, <1>5 DEF SumsOver, IsFold
<1>7. QED
  BY <1>6

\* The sums are of every type of the terms that addition keeps to.
LEMMA SumTyped ==
    ASSUME NEW S, IsFiniteSet(S), NEW V, 0 \in V, \A x, y \in V : x + y \in V,
           NEW f \in [S -> V], NEW h, SumsOver(h, S, f)
    PROVE  \A s \in SUBSET S : h[s] \in V
<1> DEFINE Bad == {s \in SUBSET S : h[s] \notin V}
<1>1. SUFFICES ASSUME Bad # {} PROVE FALSE
  OBVIOUS
<1>2. PICK s \in Bad : \A t \in Bad : ~(t \subseteq s /\ t # s)
  <2> HIDE DEF Bad
  <2>1. Bad \subseteq SUBSET S
    BY DEF Bad
  <2> QED BY <1>1, <2>1, SmallestSubset
<1>3. h[s] = IF s = {} THEN 0 ELSE f[Taken(s)] + h[s \ {Taken(s)}]
  BY DEF SumsOver
<1>4. s # {}
  BY <1>3
<1>5. Taken(s) \in s /\ Taken(s) \in S
  BY <1>4 DEF Taken
<1>6. h[s \ {Taken(s)}] \in V
  <2>1. s \ {Taken(s)} \subseteq s /\ s \ {Taken(s)} # s /\ s \ {Taken(s)} \in SUBSET S
    BY <1>5
  <2> QED BY <2>1, <1>2
<1>7. QED
  BY <1>3, <1>4, <1>5, <1>6

\* SumFunction is the last of the sums.
LEMMA SumFunctionIsSum ==
    ASSUME NEW S, IsFiniteSet(S), NEW f \in [S -> Int]
    PROVE  \E h : SumsOver(h, S, f) /\ SumFunction(f) = h[S]
<1> DEFINE h == CHOOSE g : SumsOver(g, S, f)
<1>1. SumsOver(h, S, f)
  BY SumExists, Zenon
<1>2. SumFunction(f) = h[S]
  BY DEF SumFunction, SumFunctionOnSet, FoldFunctionOnSet, MapThenFoldSet,
         SumsOver, Taken
<1> HIDE DEF h
<1>3. QED
  BY <1>1, <1>2

LEMMA SumIsInteger ==
    ASSUME NEW S, IsFiniteSet(S), NEW f \in [S -> Int]
    PROVE  SumFunction(f) \in Int
<1>1. PICK h : SumsOver(h, S, f) /\ SumFunction(f) = h[S]
  BY SumFunctionIsSum
<1>2. 0 \in Int /\ \A x, y \in Int : x + y \in Int
  OBVIOUS
<1>3. \A s \in SUBSET S : h[s] \in Int
  BY <1>1, <1>2, SumTyped
<1>4. QED
  BY <1>1, <1>3

LEMMA SumIsNatural ==
    ASSUME NEW S, IsFiniteSet(S), NEW f \in [S -> Nat]
    PROVE  SumFunction(f) \in Nat
<1>1. f \in [S -> Int]
  OBVIOUS
<1>2. PICK h : SumsOver(h, S, f) /\ SumFunction(f) = h[S]
  BY <1>1, SumFunctionIsSum
<1>3. 0 \in Nat /\ \A x, y \in Nat : x + y \in Nat
  OBVIOUS
<1>4. \A s \in SUBSET S : h[s] \in Nat
  BY <1>2, <1>3, SumTyped
<1>5. QED
  BY <1>2, <1>4

\* A sum grows with its terms.
LEMMA SumMonotone ==
    ASSUME NEW S, IsFiniteSet(S), NEW f \in [S -> Int], NEW g \in [S -> Int],
           \A x \in S : f[x] <= g[x]
    PROVE  SumFunction(f) <= SumFunction(g)
<1>1. PICK hf : SumsOver(hf, S, f) /\ SumFunction(f) = hf[S]
  BY SumFunctionIsSum
<1>2. PICK hg : SumsOver(hg, S, g) /\ SumFunction(g) = hg[S]
  BY SumFunctionIsSum
<1>3. \A s \in SUBSET S : hf[s] \in Int /\ hg[s] \in Int
  <2>1. 0 \in Int /\ \A x, y \in Int : x + y \in Int
    OBVIOUS
  <2> QED BY <1>1, <1>2, <2>1, SumTyped
<1> DEFINE Bad == {s \in SUBSET S : ~(hf[s] <= hg[s])}
<1>4. Bad = {}
  <2>1. SUFFICES ASSUME Bad # {} PROVE FALSE
    OBVIOUS
  <2>2. PICK s \in Bad : \A t \in Bad : ~(t \subseteq s /\ t # s)
    <3> HIDE DEF Bad
    <3>1. Bad \subseteq SUBSET S
      BY DEF Bad
    <3> QED BY <2>1, <3>1, SmallestSubset
  <2>3. hf[s] = IF s = {} THEN 0 ELSE f[Taken(s)] + hf[s \ {Taken(s)}]
    BY <1>1 DEF SumsOver
  <2>4. hg[s] = IF s = {} THEN 0 ELSE g[Taken(s)] + hg[s \ {Taken(s)}]
    BY <1>2 DEF SumsOver
  <2>5. s # {}
    BY <2>3, <2>4
  <2>6. Taken(s) \in s /\ Taken(s) \in S
    BY <2>5 DEF Taken
  <2>7. s \ {Taken(s)} \subseteq s /\ s \ {Taken(s)} # s /\ s \ {Taken(s)} \in SUBSET S
    BY <2>6
  <2>8. hf[s \ {Taken(s)}] <= hg[s \ {Taken(s)}]
    BY <2>2, <2>7
  <2>9. hf[s \ {Taken(s)}] \in Int /\ hg[s \ {Taken(s)}] \in Int
        /\ f[Taken(s)] \in Int /\ g[Taken(s)] \in Int /\ f[Taken(s)] <= g[Taken(s)]
    BY <1>3, <2>6, <2>7
  <2>10. QED
    BY <2>3, <2>4, <2>5, <2>8, <2>9
<1>5. QED
  BY <1>1, <1>2, <1>4
-----------------------------------------------------------------------------
(* Scenarios, applied one perturbation after the other. *)

\* What a perturbation is made of.
LEMMA PerturbationTyped ==
    ASSUME NEW p \in Perturbation
    PROVE  /\ p.kind \in {"set_status", "offline", "add_alerts", "remove_asset"}
           /\ p.asset \in Assets /\ p.magnitude \in Nat
BY DEF Perturbation

\* A non-empty set of positions has a last one.
LEMMA LastPosition ==
    ASSUME NEW n \in Nat, NEW s \in SUBSET (1 .. n), s # {}
    PROVE  Max(s) \in s
<1> DEFINE HasMax(t) == \E x \in t : \A y \in t : x >= y
           Bad == {t \in SUBSET (1 .. n) : t # {} /\ ~HasMax(t)}
<1>1. Bad = {}
  <2>1. SUFFICES ASSUME Bad # {} PROVE FALSE
    OBVIOUS
  <2>2. PICK t \in Bad : \A u \in Bad : ~(u \subseteq t /\ u # t)
    <3> DEFINE N == 1 .. n
    <3>1. Bad \subseteq SUBSET N /\ Bad # {}
      BY <2>1
    <3>2. IsFiniteSet(N)
      BY FS_Interval
    <3> HIDE DEF Bad, N
    <3> QED BY <3>1, <3>2, SmallestSubset
  <2>3. t \subseteq 1 .. n /\ t # {} /\ ~HasMax(t)
    OBVIOUS
  <2>4. PICK x \in t : TRUE
    BY <2>3
  <2>5. t \ {x} # {}
    <3>1. ASSUME t \ {x} = {} PROVE HasMax(t)
      <4>1. \A y \in t : y = x
        BY <3>1
      <4>2. x >= x
        BY <2>3
      <4> QED BY <4>1, <4>2
    <3> QED BY <3>1, <2>3
  <2>6. HasMax(t \ {x})
    <3>1. t \ {x} \subseteq t /\ t \ {x} # t
      BY <2>4
    <3> QED BY <3>1, <2>2, <2>3, <2>5
  <2>7. PICK m \in t \ {x} : \A y \in t \ {x} : m >= y
    BY <2>6
  <2>8. HasMax(t)
    <3>1. m \in Nat /\ x \in Nat /\ (\A y \in t : y \in Nat)
      BY <2>3
    <3>2. CASE m >= x
      <4>1. \A y \in t : m >= y
        BY <2>7, <3>2
      <4> QED BY <4>1
    <3>3. CASE ~(m >= x)
      <4>1. \A y \in t : x >= y
        BY <2>7, <3>1, <3>3
      <4> QED BY <4>1
    <3> QED BY <3>2, <3>3
  <2>9. QED
    BY <2>3, <2>8
<1>2. HasMax(s)
  BY <1>1
<1>3. QED
  BY <1>2 DEF Max

\* h applies the perturbations of every set of positions of the scenario.
AppliesOver(h, scenario, state) ==
    h = [s \in SUBSET DOMAIN scenario |->
           IF s = {} THEN state
           ELSE Perturb(h[s \ {Max(s)}], scenario[Max(s)])]

\* A scenario keeps to every set of states its perturbations keep to.
LEMMA ApplyKeeps ==
    ASSUME NEW V, NEW state \in V, NEW scenario \in Seq(Perturbation),
           \A st \in V, i \in DOMAIN scenario : Perturb(st, scenario[i]) \in V
    PROVE  Apply(state, scenario) \in V
<1> DEFINE D == DOMAIN scenario
           c == [s \in SUBSET D |-> Max(s)]
           step == [p \in D \X V |-> Perturb(p[2], scenario[p[1]])]
           h == CHOOSE g : AppliesOver(g, scenario, state)
<1>1. IsFiniteSet(D)
  BY FS_Interval
<1>2. Chooses(c, D)
  <2>1. Len(scenario) \in Nat /\ D = 1 .. Len(scenario)
    OBVIOUS
  <2>2. \A s \in SUBSET D : s # {} => Max(s) \in s
    BY <2>1, LastPosition
  <2> QED BY <2>2 DEF Chooses
<1>3. \A x \in D, v \in V : step[<<x, v>>] \in V
  OBVIOUS
<1>4. PICK g : IsFold(g, D, state, c, step)
  <2> HIDE DEF c, D, step
  <2> QED BY <1>1, <1>2, FoldExists
<1>5. FoldsOver(g, D, state, c, step)
  <2> HIDE DEF c, D, step
  <2> QED BY <1>4 DEF FoldsOver, IsFold
<1>6. \A s \in SUBSET D : g[s] \in V
  <2> HIDE DEF c, D, step
  <2> QED BY <1>1, <1>2, <1>3, <1>5, FoldTyped
<1>7. ASSUME NEW s \in SUBSET D
      PROVE  (IF s = {} THEN state ELSE step[<<c[s], g[s \ {c[s]}]>>]) =
             (IF s = {} THEN state ELSE Perturb(g[s \ {Max(s)}], scenario[Max(s)]))
  <2>1. CASE s = {}
    BY <2>1
  <2>2. CASE s # {}
    <3>1. c[s] = Max(s) /\ c[s] \in D
      BY <1>2, <2>2 DEF Chooses
    <3>2. g[s \ {c[s]}] \in V
      BY <1>6
    <3>3. step[<<c[s], g[s \ {c[s]}]>>] = Perturb(g[s \ {c[s]}], scenario[c[s]])
      <4> HIDE DEF c, D
      <4> QED BY <3>1, <3>2
    <3> QED BY <2>2, <3>1, <3>3
  <2> QED BY <2>1, <2>2
<1>8. AppliesOver(g, scenario, state)
  <2> HIDE DEF c, step
  <2> QED BY <1>4, <1>7 DEF AppliesOver, IsFold
<1>9. AppliesOver(h, scenario, state)
  BY <1>8, Zenon
<1>10. Apply(state, scenario) = h[D]
  BY DEF Apply, FoldLeft, MapThenFoldSet, AppliesOver
<1>11. h[D] \in V
  <2> DEFINE Bad == {s \in SUBSET D : h[s] \notin V}
  <2>1. SUFFICES ASSUME Bad # {} PROVE FALSE
    OBVIOUS
  <2>2. PICK s \in Bad : \A t \in Bad : ~(t \subseteq s /\ t # s)
    <3> HIDE DEF Bad, D
    <3>1. Bad \subseteq SUBSET D
      BY DEF Bad
    <3> QED BY <1>1, <2>1, <3>1, SmallestSubset
  <2>3. s \in SUBSET D /\ h[s] \notin V
    <3> HIDE DEF D
    <3> QED OBVIOUS
  <2> HIDE DEF h
  <2>4. h[s] = IF s = {} THEN state ELSE Perturb(h[s \ {Max(s)}], scenario[Max(s)])
    BY <1>9, <2>3 DEF AppliesOver
  <2>5. s # {}
    BY <2>3, <2>4
  <2>6. Max(s) \in s /\ Max(s) \in D
    BY <1>2, <2>3, <2>5 DEF Chooses
  <2>7. s \ {Max(s)} \subseteq s /\ s \ {Max(s)} # s /\ s \ {Max(s)} \in SUBSET D
    BY <2>3, <2>6
  <2>8. h[s \ {Max(s)}] \in V
    BY <2>2, <2>7
  <2>9. QED
    BY <2>3, <2>4, <2>5, <2>6, <2>8
<1>12. QED
  BY <1>10, <1>11

\* An empty scenario changes nothing.
LEMMA ApplyNothing ==
    ASSUME NEW V, NEW state \in V, NEW scenario \in Seq(Perturbation),
           scenario = <<>>
    PROVE  Apply(state, scenario) = state
<1>1. state \in {state}
  OBVIOUS
<1>2. DOMAIN scenario = {}
  OBVIOUS
<1>3. \A st \in {state}, i \in DOMAIN scenario : Perturb(st, scenario[i]) \in {state}
  BY <1>2
<1>4. Apply(state, scenario) \in {state}
  BY <1>1, <1>3, ApplyKeeps
<1>5. QED
  BY <1>4
-----------------------------------------------------------------------------
(* Scores. *)

AssetState == [status : AssetStatus \cup {None}, alerts : Nat, removed : BOOLEAN]

\* The states of all assets; one that is not found counts as removed.
States ==
    {st \in [Assets -> AssetState] :
       \A a \in Assets : st[a].removed \/ st[a].status \in AssetStatus}

Needs == [Assets -> Criticality \cup {None}]

\* round() is monotone.
LEMMA RoundMonotone ==
    ASSUME NEW n \in Nat \ {0}, NEW s \in Int, NEW t \in Int, s <= t
    PROVE  RoundDiv(s, n) \in Int /\ RoundDiv(s, n) <= RoundDiv(t, n)
<1> DEFINE q == s \div n
           r == s % n
           p == t \div n
           o == t % n
<1>1. /\ q \in Int /\ r \in Int /\ p \in Int /\ o \in Int
      /\ 0 <= r /\ r < n /\ 0 <= o /\ o < n
      /\ s = n * q + r /\ t = n * p + o
  OBVIOUS
<1>2. RoundDiv(s, n) = IF 2 * r > n \/ (2 * r = n /\ q % 2 = 1) THEN q + 1 ELSE q
  BY DEF RoundDiv
<1>3. RoundDiv(t, n) = IF 2 * o > n \/ (2 * o = n /\ p % 2 = 1) THEN p + 1 ELSE p
  BY DEF RoundDiv
<1> HIDE DEF q, r, p, o
<1>4. q <= p
  <2>1. SUFFICES ASSUME p + 1 <= q PROVE FALSE
    BY <1>1
  <2>2. n * (p + 1) <= n * q
    <3>1. n * (q - (p + 1)) >= 0
      BY <1>1, <2>1
    <3> QED BY <3>1, <1>1
  <2>3. n * (p + 1) = n * p + n
    BY <1>1
  <2>4. n * p \in Int /\ n * q \in Int
    BY <1>1
  <2> QED BY <1>1, <2>2, <2>3, <2>4
<1>5. CASE q = p
  <2>1. r <= o
    <3>1. n * p \in Int /\ n * q = n * p
      BY <1>1, <1>5
    <3> QED BY <1>1, <3>1
  <2> QED BY <1>1, <1>2, <1>3, <1>5, <2>1
<1>6. CASE q # p
  <2>1. q + 1 <= p
    BY <1>1, <1>4, <1>6
  <2> QED BY <1>1, <1>2, <1>3, <2>1
<1>7. QED
  BY <1>5, <1>6

\* A deduction is never negative.
LEMMA DeductionsNatural ==
    ASSUME NEW needs \in Needs, NEW st \in States
    PROVE  Deductions(needs, st) \in [Assets -> Nat]
<1>1. ASSUME NEW a \in Assets
      PROVE  (IF needs[a] = None \/ st[a].removed THEN 0
              ELSE Weight[needs[a]] *
                     (Penalty[st[a].status] + AlertPenalty * st[a].alerts)) \in Nat
  <2>1. CASE needs[a] = None \/ st[a].removed
    BY <2>1
  <2>2. CASE ~(needs[a] = None \/ st[a].removed)
    <3>1. needs[a] \in Criticality /\ st[a].status \in AssetStatus
          /\ st[a].alerts \in Nat
      BY <2>2 DEF States, AssetState, Needs
    <3>2. Weight[needs[a]] \in 1 .. 4
      BY <3>1 DEF Weight, Criticality
    <3>3. Penalty[st[a].status] \in 0 .. 45
      BY <3>1 DEF Penalty, AssetStatus
    <3>4. Penalty[st[a].status] + AlertPenalty * st[a].alerts \in Nat
      BY <3>1, <3>3 DEF AlertPenalty
    <3>5. Weight[needs[a]] * (Penalty[st[a].status] + AlertPenalty * st[a].alerts) \in Nat
      BY <3>2, <3>4
    <3> QED BY <2>2, <3>5
  <2> QED BY <2>1, <2>2
<1>2. DOMAIN needs = Assets
  BY DEF Needs
<1>3. QED
  BY <1>1, <1>2 DEF Deductions

\* A score is a natural number, and falls as deductions grow.
LEMMA ScoreFalls ==
    ASSUME NEW needs \in Needs, NEW st \in States, NEW worse \in States,
           \A a \in Assets : Deductions(needs, st)[a] <= Deductions(needs, worse)[a]
    PROVE  Score(needs, worse) \in Nat /\ Score(needs, worse) <= Score(needs, st)
<1> DEFINE s == SumFunction(Deductions(needs, st))
           w == SumFunction(Deductions(needs, worse))
<1>1. /\ Deductions(needs, st) \in [Assets -> Int]
      /\ Deductions(needs, worse) \in [Assets -> Int]
  BY DeductionsNatural
<1>2. s \in Int /\ w \in Int /\ s <= w
  BY <1>1, SumIsInteger, SumMonotone, AssuranceAssumption
<1>3. /\ Score(needs, st) = LET x == RoundDiv(400 - s, 4) IN IF x < 0 THEN 0 ELSE x
      /\ Score(needs, worse) = LET x == RoundDiv(400 - w, 4) IN IF x < 0 THEN 0 ELSE x
  BY DEF Score
<1> HIDE DEF s, w
<1>4. 400 - s \in Int /\ 400 - w \in Int /\ 400 - w <= 400 - s
  BY <1>2
<1>5. /\ RoundDiv(400 - w, 4) \in Int /\ RoundDiv(400 - s, 4) \in Int
      /\ RoundDiv(400 - w, 4) <= RoundDiv(400 - s, 4)
  BY <1>4, RoundMonotone
<1>6. QED
  BY <1>3, <1>5

\* A score lies between 0 and 100, however many assets and alerts there are:
\* the min(100, .) of score_mission, which Score leaves out, never acts.
THEOREM ScoreInRange ==
    ASSUME NEW needs \in Needs, NEW st \in States
    PROVE  Score(needs, st) \in 0 .. 100
<1> DEFINE s == SumFunction(Deductions(needs, st))
<1>1. s \in Nat
  BY DeductionsNatural, SumIsNatural, AssuranceAssumption
<1>2. Score(needs, st) = LET x == RoundDiv(400 - s, 4) IN IF x < 0 THEN 0 ELSE x
  BY DEF Score
<1> HIDE DEF s
<1>3. 400 - s \in Int /\ 400 - s <= 400
  BY <1>1
<1>4. RoundDiv(400 - s, 4) \in Int /\ RoundDiv(400 - s, 4) <= RoundDiv(400, 4)
  BY <1>3, RoundMonotone
<1>5. RoundDiv(400, 4) = 100
  BY DEF RoundDiv
<1>6. QED
  BY <1>2, <1>4, <1>5

\* What outages and more alerts make of a state.
Worse(st) ==
    {t \in States : \A a \in Assets :
       /\ t[a].removed = st[a].removed
       /\ t[a].alerts >= st[a].alerts
       /\ t[a].status \in {st[a].status, "offline"}}

\* Damage to an asset deducts no less.
LEMMA WorseDeductsMore ==
    ASSUME NEW needs \in Needs, NEW st \in States, NEW t \in Worse(st)
    PROVE  Score(needs, t) \in Nat /\ Score(needs, t) <= Score(needs, st)
<1>1. t \in States
  BY DEF Worse
<1>2. ASSUME NEW a \in Assets
      PROVE  Deductions(needs, st)[a] <= Deductions(needs, t)[a]
  <2>1. /\ Deductions(needs, st)[a] =
             IF needs[a] = None \/ st[a].removed THEN 0
             ELSE Weight[needs[a]] *
                    (Penalty[st[a].status] + AlertPenalty * st[a].alerts)
        /\ Deductions(needs, t)[a] =
             IF needs[a] = None \/ t[a].removed THEN 0
             ELSE Weight[needs[a]] *
                    (Penalty[t[a].status] + AlertPenalty * t[a].alerts)
    BY DEF Deductions, Needs
  <2>2. t[a].removed = st[a].removed
    BY DEF Worse
  <2>3. CASE needs[a] = None \/ st[a].removed
    BY <2>1, <2>2, <2>3
  <2>4. CASE ~(needs[a] = None \/ st[a].removed)
    <3>1. /\ needs[a] \in Criticality /\ st[a].status \in AssetStatus
          /\ st[a].alerts \in Nat /\ t[a].alerts \in Nat
          /\ t[a].alerts >= st[a].alerts /\ t[a].status \in {st[a].status, "offline"}
      BY <2>4, <1>1 DEF States, AssetState, Needs, Worse
    <3>2. Weight[needs[a]] \in 1 .. 4
      BY <3>1 DEF Weight, Criticality
    <3>3. Penalty[st[a].status] \in 0 .. 45 /\ Penalty["offline"] = 45
      BY <3>1 DEF Penalty, AssetStatus
    <3> DEFINE d == Penalty[st[a].status] + AlertPenalty * st[a].alerts
               e == Penalty[t[a].status] + AlertPenalty * t[a].alerts
               k == Weight[needs[a]]
    <3>4. d \in Int /\ e \in Int /\ d <= e
      <4>1. Penalty[t[a].status] \in 0 .. 45 /\ Penalty[st[a].status] <= Penalty[t[a].status]
        BY <3>1, <3>3
      <4> QED BY <3>1, <3>3, <4>1 DEF AlertPenalty
    <3>5. k * d <= k * e
      <4>1. k \in 1 .. 4
        BY <3>2
      <4> HIDE DEF d, e, k
      <4> QED BY <3>4, <4>1
    <3> QED BY <2>1, <2>2, <2>4, <3>5
  <2> QED BY <2>3, <2>4
<1>3. QED
  BY <1>1, <1>2, ScoreFalls

\* What the loss of assets makes of a state.
Lesser(st) ==
    {t \in States : \A a \in Assets :
       /\ st[a].removed => t[a].removed
       /\ t[a].alerts = st[a].alerts
       /\ t[a].status = st[a].status}

\* An asset that is lost deducts nothing any more.
LEMMA LesserDeductsLess ==
    ASSUME NEW needs \in Needs, NEW st \in States, NEW t \in Lesser(st)
    PROVE  Score(needs, st) \in Nat /\ Score(needs, st) <= Score(needs, t)
<1>1. t \in States
  BY DEF Lesser
<1>2. ASSUME NEW a \in Assets
      PROVE  Deductions(needs, t)[a] <= Deductions(needs, st)[a]
  <2>1. /\ Deductions(needs, st)[a] =
             IF needs[a] = None \/ st[a].removed THEN 0
             ELSE Weight[needs[a]] *
                    (Penalty[st[a].status] + AlertPenalty * st[a].alerts)
        /\ Deductions(needs, t)[a] =
             IF needs[a] = None \/ t[a].removed THEN 0
             ELSE Weight[needs[a]] *
                    (Penalty[t[a].status] + AlertPenalty * t[a].alerts)
    BY DEF Deductions, Needs
  <2>2. (st[a].removed => t[a].removed) /\ t[a].alerts = st[a].alerts
        /\ t[a].status = st[a].status
    BY DEF Lesser
  <2>3. CASE needs[a] = None \/ st[a].removed
    BY <2>1, <2>2, <2>3
  <2>4. CASE ~(needs[a] = None \/ st[a].removed)
    <3>1. /\ needs[a] \in Criticality /\ st[a].status \in AssetStatus
          /\ st[a].alerts \in Nat
      BY <2>4 DEF States, AssetState, Needs
    <3>2. Weight[needs[a]] \in 1 .. 4
      BY <3>1 DEF Weight, Criticality
    <3>3. Penalty[st[a].status] \in 0 .. 45
      BY <3>1 DEF Penalty, AssetStatus
    <3> DEFINE d == Penalty[st[a].status] + AlertPenalty * st[a].alerts
               k == Weight[needs[a]]
    <3>4. d \in Nat
      BY <3>1, <3>3 DEF AlertPenalty
    <3>5. k * d \in Nat
      <4>1. k \in 1 .. 4
        BY <3>2
      <4> HIDE DEF d, k
      <4> QED BY <3>4, <4>1
    <3>6. Deductions(needs, st)[a] = k * d
          /\ (Deductions(needs, t)[a] = k * d \/ Deductions(needs, t)[a] = 0)
      BY <2>1, <2>2, <2>4
    <3> HIDE DEF d, k
    <3> QED BY <3>5, <3>6
  <2> QED BY <2>3, <2>4
<1>3. QED
  BY <1>1, <1>2, ScoreFalls

\* Outages and more alerts keep to the worse states.
LEMMA DamageKeeps ==
    ASSUME NEW st \in States, NEW scenario \in Seq(Perturbation),
           \A i \in DOMAIN scenario : scenario[i].kind \in {"offline", "add_alerts"}
    PROVE  Apply(st, scenario) \in Worse(st)
<1>1. st \in Worse(st)
  BY DEF Worse, States, AssetState
<1>2. ASSUME NEW t \in Worse(st), NEW i \in DOMAIN scenario
      PROVE  Perturb(t, scenario[i]) \in Worse(st)
  <2> DEFINE p == scenario[i]
             b == p.asset
  <2>1. p \in Perturbation /\ p.kind \in {"offline", "add_alerts"}
    OBVIOUS
  <2> HIDE DEF p
  <2>2. b \in Assets /\ p.magnitude \in Nat
    BY <2>1, PerturbationTyped
  <2>3. t \in [Assets -> AssetState] /\ t \in States
    BY DEF Worse, States
  <2>4. t[b] \in AssetState
    BY <2>2, <2>3
  <2>5. CASE p.kind = "offline"
    <3> DEFINE u == [t EXCEPT ![b].status = "offline"]
    <3>1. Perturb(t, p) = u
      BY <2>5 DEF Perturb
    <3>2. u = [a \in Assets |-> IF a = b THEN [t[a] EXCEPT !.status = "offline"] ELSE t[a]]
      BY <2>2, <2>3
    <3>3. [t[b] EXCEPT !.status = "offline"] \in AssetState
      BY <2>4 DEF AssetState, AssetStatus
    <3>4. u \in [Assets -> AssetState]
      BY <2>3, <3>2, <3>3
    <3>5. \A a \in Assets : /\ u[a].removed = t[a].removed /\ u[a].alerts = t[a].alerts
                            /\ u[a].status \in {t[a].status, "offline"}
      BY <2>3, <2>4, <3>2 DEF AssetState
    <3> HIDE DEF u
    <3>6. u \in States
      BY <2>3, <3>4, <3>5 DEF States, AssetStatus
    <3>7. u \in Worse(st)
      BY <3>5, <3>6 DEF Worse
    <3> QED BY <3>1, <3>7 DEF p
  <2>6. CASE p.kind = "add_alerts"
    <3> DEFINE u == [t EXCEPT ![b].alerts = @ + p.magnitude]
    <3>1. Perturb(t, p) = u
      BY <2>6 DEF Perturb
    <3>2. u = [a \in Assets |-> IF a = b THEN [t[a] EXCEPT !.alerts = @ + p.magnitude]
                                ELSE t[a]]
      BY <2>2, <2>3
    <3>3. [t[b] EXCEPT !.alerts = @ + p.magnitude] \in AssetState
      BY <2>2, <2>4 DEF AssetState
    <3>4. u \in [Assets -> AssetState]
      BY <2>3, <3>2, <3>3
    <3>5. \A a \in Assets : /\ u[a].removed = t[a].removed /\ u[a].alerts >= t[a].alerts
                            /\ u[a].status = t[a].status
      BY <2>2, <2>3, <2>4, <3>2 DEF AssetState
    <3> HIDE DEF u
    <3>6. u \in States
      BY <2>3, <3>4, <3>5 DEF States
    <3>7. \A a \in Assets : u[a].alerts >= st[a].alerts
      <4>1. ASSUME NEW a \in Assets PROVE u[a].alerts >= st[a].alerts
        <5>1. u[a].alerts \in Nat /\ t[a].alerts \in Nat /\ st[a].alerts \in Nat
          BY <2>3, <3>4 DEF AssetState, States
        <5>2. u[a].alerts >= t[a].alerts /\ t[a].alerts >= st[a].alerts
          BY <3>5 DEF Worse
        <5> QED BY <5>1, <5>2
      <4> QED BY <4>1
    <3>8. u \in Worse(st)
      BY <3>5, <3>6, <3>7 DEF Worse
    <3> QED BY <3>1, <3>8 DEF p
  <2>7. QED
    BY <2>1, <2>5, <2>6
<1>3. \A t \in Worse(st), i \in DOMAIN scenario : Perturb(t, scenario[i]) \in Worse(st)
  BY <1>2
<1>4. QED
  <2> DEFINE V == Worse(st)
  <2>1. st \in V /\ \A t \in V, i \in DOMAIN scenario : Perturb(t, scenario[i]) \in V
    BY <1>1, <1>3
  <2> HIDE DEF V
  <2>2. Apply(st, scenario) \in V
    BY <2>1, ApplyKeeps
  <2> QED BY <2>2 DEF V

\* The loss of assets keeps to the lesser states.
LEMMA LossKeeps ==
    ASSUME NEW st \in States, NEW scenario \in Seq(Perturbation),
           \A i \in DOMAIN scenario : scenario[i].kind = "remove_asset"
    PROVE  Apply(st, scenario) \in Lesser(st)
<1>1. st \in Lesser(st)
  BY DEF Lesser, States, AssetState
<1>2. ASSUME NEW t \in Lesser(st), NEW i \in DOMAIN scenario
      PROVE  Perturb(t, scenario[i]) \in Lesser(st)
  <2> DEFINE p == scenario[i]
             b == p.asset
             u == [t EXCEPT ![b].removed = TRUE]
  <2>1. p \in Perturbation /\ p.kind = "remove_asset"
    OBVIOUS
  <2> HIDE DEF p
  <2>2. b \in Assets
    BY <2>1, PerturbationTyped
  <2>3. t \in [Assets -> AssetState] /\ t \in States
    BY DEF Lesser, States
  <2>4. t[b] \in AssetState
    BY <2>2, <2>3
  <2>5. Perturb(t, p) = u
    BY <2>1 DEF Perturb
  <2>6. u = [a \in Assets |-> IF a = b THEN [t[a] EXCEPT !.removed = TRUE] ELSE t[a]]
    BY <2>2, <2>3
  <2>7. [t[b] EXCEPT !.removed = TRUE] \in AssetState
    BY <2>4 DEF AssetState
  <2>8. u \in [Assets -> AssetState]
    BY <2>3, <2>6, <2>7
  <2>9. \A a \in Assets : /\ t[a].removed => u[a].removed
                          /\ u[a].alerts = t[a].alerts /\ u[a].status = t[a].status
    BY <2>3, <2>4, <2>6 DEF AssetState
  <2> HIDE DEF u
  <2>10. u \in States
    BY <2>3, <2>8, <2>9 DEF States
  <2>11. u \in Lesser(st)
    BY <2>9, <2>10 DEF Lesser
  <2>12. QED
    BY <2>5, <2>11 DEF p
<1>3. QED
  <2> DEFINE V == Lesser(st)
  <2>1. st \in V /\ \A t \in V, i \in DOMAIN scenario : Perturb(t, scenario[i]) \in V
    BY <1>1, <1>2
  <2> HIDE DEF V
  <2>2. Apply(st, scenario) \in V
    BY <2>1, ApplyKeeps
  <2> QED BY <2>2 DEF V
-----------------------------------------------------------------------------
(* The inductive invariant, over the statements of a request. *)

LEMMA NoRunTyped == NoRun \in RunRecord
<1>1. <<>> \in Seq(Perturbation) /\ <<>> \in Seq(Missions)
  OBVIOUS
<1>2. QED
  BY <1>1 DEF NoRun, RunRecord, Phases

\* A statement of a request that only reads keeps the tables' types.
LEMMA ReadsTyped ==
    ASSUME TypeOK, Reads, run' \in RunRecord
    PROVE  TypeOK'
BY DEF TypeOK, Reads, tables, Referential

LEMMA NewestTyped ==
    ASSUME missions \in Seq(Missions)
    PROVE  Newest \in Seq(Missions)
<1> DEFINE k == IF Len(missions) < PageLimit THEN Len(missions) ELSE PageLimit
<1>1. k \in Int /\ k <= Len(missions)
  BY AssuranceAssumption
<1>2. \A i \in 1 .. k : missions[i] \in Missions
  BY <1>1
<1> HIDE DEF k
<1>3. SubSeq(missions, 1, k) \in Seq(Missions)
  BY <1>1, <1>2, SubSeqProperties
<1>4. QED
  BY <1>3 DEF Newest, k

\* What is read of unchanged tables is unchanged.
LEMMA ReadsSame ==
    ASSUME Reads
    PROVE  /\ Newest' = Newest /\ AllOpen' = AllOpen
           /\ AllAlerts("critical")' = AllAlerts("critical")
           /\ \A a \in Assets : Open(a)' = Open(a)
           /\ links' = links /\ fleet' = fleet
BY DEF Reads, tables, Newest, AllOpen, AllAlerts, Open

LEMMA BeginKeeps ==
    ASSUME AssuranceInv, NEW op \in {"summary", "simulate", "saved"},
           NEW scenario \in Seq(Perturbation), Begin(op, scenario)
    PROVE  AssuranceInv'
<1> DEFINE to == IF \E i \in DOMAIN scenario : fleet[scenario[i].asset] = None
                   THEN "failed" ELSE "missions"
<1>1. run' = [NoRun EXCEPT !.op = op, !.scenario = scenario, !.pc = to]
  BY DEF Begin
<1>2. to \in {"failed", "missions"} /\ (to = "failed" => scenario # <<>>)
  OBVIOUS
<1> HIDE DEF to
<1>3. run' \in RunRecord
  BY <1>1, <1>2, NoRunTyped DEF RunRecord, Phases
<1>4. /\ run'.pc = to /\ run'.op = op /\ run'.scenario = scenario
      /\ run'.listed = <<>>
  BY <1>1 DEF NoRun
<1>5. TypeOK'
  BY <1>3, ReadsTyped DEF Begin, Reads, AssuranceInv
<1>6. ReadSoFar'
  BY <1>2, <1>4 DEF ReadSoFar, LinksRead, AssetsRead
<1>7. Undisturbed'
  BY <1>2, <1>4 DEF Undisturbed, LinksRead, AssetsRead
<1>8. FailureHasCause'
  BY <1>2, <1>4 DEF FailureHasCause
<1>9. QED
  BY <1>5, <1>6, <1>7, <1>8 DEF AssuranceInv

LEMMA ListMissionsKeeps ==
    ASSUME AssuranceInv, ListMissions
    PROVE  AssuranceInv'
<1>1. run \in RunRecord /\ Newest \in Seq(Missions)
  BY NewestTyped DEF AssuranceInv, TypeOK
<1>2. run' \in RunRecord
  BY <1>1 DEF ListMissions, RunRecord, Phases
<1>3. run'.pc = "links" /\ run'.listed = Newest /\ run'.todo = Newest
  BY <1>1 DEF ListMissions, RunRecord
<1>4. TypeOK'
  BY <1>2, ReadsTyped DEF ListMissions, AssuranceInv
<1>5. ReadSoFar'
  BY <1>3 DEF ReadSoFar, LinksRead, AssetsRead
<1>6. Undisturbed'
  BY <1>3, ReadsSame DEF ListMissions, Undisturbed, LinksRead, AssetsRead
<1>7. FailureHasCause'
  BY <1>3 DEF FailureHasCause
<1>8. QED
  BY <1>4, <1>5, <1>6, <1>7 DEF AssuranceInv

LEMMA ReadLinksKeeps ==
    ASSUME AssuranceInv, ReadLinks
    PROVE  AssuranceInv'
<1>1. run \in RunRecord /\ links \in Links /\ Referential(links, fleet, alerts)
  BY DEF AssuranceInv, TypeOK
<1>2. run' \in RunRecord
  BY <1>1 DEF ReadLinks, RunRecord, Phases
<1>3. /\ run'.pc = "assets" /\ run'.links = links /\ run'.listed = run.listed
      /\ run'.todo = run.todo /\ run'.dirty = run.dirty
  BY <1>1 DEF ReadLinks, RunRecord
<1>4. TypeOK'
  BY <1>2, ReadsTyped DEF ReadLinks, AssuranceInv
<1>5. ReadSoFar'
  BY <1>1, <1>3, ReadsSame
     DEF ReadLinks, ReadSoFar, LinksRead, AssetsRead, Names, Referential
<1>6. Undisturbed'
  BY <1>3, ReadsSame
     DEF ReadLinks, AssuranceInv, Undisturbed, LinksRead, AssetsRead
<1>7. FailureHasCause'
  BY <1>3 DEF FailureHasCause
<1>8. QED
  BY <1>4, <1>5, <1>6, <1>7 DEF AssuranceInv

LEMMA ReadAssetsKeeps ==
    ASSUME AssuranceInv, ReadAssets
    PROVE  AssuranceInv'
<1> DEFINE none == [m \in Missions |-> [a \in Assets |-> 0]]
<1>1. run \in RunRecord /\ fleet \in Fleet /\ run.links \in Links
  BY DEF AssuranceInv, TypeOK, ReadSoFar, LinksRead, ReadAssets
<1>2. none \in [Missions -> [Assets -> Nat]]
  OBVIOUS
<1>3. run' = [run EXCEPT !.pc = "alerts", !.status = fleet, !.alerts = none]
  BY DEF ReadAssets
<1> HIDE DEF none
<1>4. run' \in RunRecord
  BY <1>1, <1>2, <1>3 DEF RunRecord, Phases
<1>5. /\ run'.pc = "alerts" /\ run'.status = fleet /\ run'.alerts = none
      /\ run'.links = run.links /\ run'.listed = run.listed /\ run'.todo = run.todo
      /\ run'.dirty = run.dirty /\ run'.lost = run.lost /\ run'.op = run.op
  BY <1>1, <1>3 DEF RunRecord
<1>6. TypeOK'
  BY <1>4, ReadsTyped DEF ReadAssets, AssuranceInv
<1>7. ReadSoFar'
  <2>1. ~run.lost => \A m \in Missions, a \in Assets :
                       run.links[m][a] # None => fleet[a] # None
    BY DEF AssuranceInv, ReadSoFar, ReadAssets, Names
  <2> QED BY <1>1, <1>2, <1>5, <2>1 DEF ReadSoFar, LinksRead, AssetsRead, Names
<1>8. Undisturbed'
  <2>1. ~run.dirty => /\ run.listed = Newest /\ run.todo = run.listed
                      /\ run.links = links
    BY DEF AssuranceInv, Undisturbed, LinksRead, ReadAssets
  <2> QED BY <1>5, <2>1, ReadsSame DEF ReadAssets, Undisturbed, LinksRead, AssetsRead
<1>9. FailureHasCause'
  BY <1>5 DEF FailureHasCause
<1>10. QED
  BY <1>6, <1>7, <1>8, <1>9 DEF AssuranceInv

LEMMA OpenTyped ==
    ASSUME alerts \in Alerts
    PROVE  /\ \A a \in Assets \cup {None} : Open(a) \in Nat
           /\ AllAlerts("critical") \in Nat /\ AllOpen \in Nat
<1>1. IsFiniteSet(Assets \cup {None})
  BY AssuranceAssumption, FS_AddElement
<1>2. \A a \in Assets \cup {None} : alerts[a].critical \in Nat /\ alerts[a].other \in Nat
  BY DEF Alerts
<1>3. /\ [a \in Assets \cup {None} |-> alerts[a]["critical"]]
           \in [Assets \cup {None} -> Nat]
      /\ [a \in Assets \cup {None} |-> alerts[a]["other"]]
           \in [Assets \cup {None} -> Nat]
  BY <1>2
<1>4. AllAlerts("critical") \in Nat /\ AllAlerts("other") \in Nat
  BY <1>1, <1>3, SumIsNatural DEF AllAlerts
<1>5. QED
  BY <1>2, <1>4 DEF Open, AllOpen

\* What a sequence holds is at its head or in its tail.
LEMMA HeadOrTail ==
    ASSUME NEW S, NEW s \in Seq(S), s # <<>>
    PROVE  ToSet(s) \subseteq ToSet(Tail(s)) \cup {Head(s)}
<1>1. SUFFICES ASSUME NEW i \in 1 .. Len(s)
               PROVE  s[i] \in ToSet(Tail(s)) \cup {Head(s)}
  BY DEF ToSet
<1>2. CASE i = 1
  BY <1>2
<1>3. CASE i # 1
  <2>1. i - 1 \in 1 .. Len(Tail(s)) /\ Tail(s)[i - 1] = s[i]
    BY <1>3
  <2>2. DOMAIN Tail(s) = 1 .. Len(Tail(s))
    BY HeadTailProperties
  <2> QED BY <2>1, <2>2 DEF ToSet
<1>4. QED
  BY <1>2, <1>3

LEMMA CountAlertsKeeps ==
    ASSUME AssuranceInv, CountAlerts
    PROVE  AssuranceInv'
<1> DEFINE to == IF run.op = "saved" THEN "stamp" ELSE "done"
           counts == [m \in Missions |-> [a \in Assets |-> Open(a)]]
<1>1. run \in RunRecord /\ run.links \in Links /\ run.status \in Fleet
  BY DEF AssuranceInv, TypeOK, ReadSoFar, LinksRead, AssetsRead, CountAlerts
<1>2. counts \in [Missions -> [Assets -> Nat]]
  BY OpenTyped DEF AssuranceInv, TypeOK
<1>3. run' = [run EXCEPT !.pc = to, !.alerts = counts]
  BY DEF CountAlerts
<1>4. /\ to \in {"stamp", "done"} /\ (to = "stamp" => run.op = "saved")
      /\ \A m \in Missions, a \in Assets : counts[m][a] = Open(a)
  OBVIOUS
<1> HIDE DEF to, counts
<1>5. run' \in RunRecord
  BY <1>1, <1>2, <1>3, <1>4 DEF RunRecord, Phases
<1>6. /\ run'.pc = to /\ run'.status = run.status /\ run'.alerts = counts
      /\ run'.links = run.links /\ run'.listed = run.listed
      /\ run'.dirty = run.dirty /\ run'.op = run.op
  BY <1>1, <1>3 DEF RunRecord
<1>7. TypeOK'
  BY <1>5, ReadsTyped DEF CountAlerts, AssuranceInv
<1>8. ReadSoFar'
  BY <1>1, <1>2, <1>4, <1>6 DEF ReadSoFar, LinksRead, AssetsRead
<1>9. Undisturbed'
  <2>1. ~run.dirty => run.listed = Newest /\ run.links = links /\ run.status = fleet
    BY DEF AssuranceInv, Undisturbed, LinksRead, AssetsRead, CountAlerts
  <2>2. run.op # "summary"
    BY DEF CountAlerts
  <2> QED BY <1>4, <1>6, <2>1, <2>2, ReadsSame
          DEF CountAlerts, Undisturbed, LinksRead, AssetsRead
<1>10. FailureHasCause'
  BY <1>4, <1>6 DEF FailureHasCause
<1>11. QED
  BY <1>7, <1>8, <1>9, <1>10 DEF AssuranceInv

LEMMA AssureNextKeeps ==
    ASSUME AssuranceInv, AssureNext
    PROVE  AssuranceInv'
<1> DEFINE m == Head(run.todo)
           counts == [a \in Assets |-> Open(a)]
<1>1. /\ run \in RunRecord /\ run.links \in Links /\ run.status \in Fleet
      /\ run.alerts \in [Missions -> [Assets -> Nat]]
  BY DEF AssuranceInv, TypeOK, ReadSoFar, LinksRead, AssetsRead, AssureNext
<1>2. /\ run.todo \in Seq(Missions) /\ run.todo # <<>> /\ m \in Missions
      /\ Tail(run.todo) \in Seq(Missions)
  BY <1>1 DEF AssureNext, RunRecord
<1>3. counts \in [Assets -> Nat] /\ \A a \in Assets : counts[a] = Open(a)
  BY OpenTyped DEF AssuranceInv, TypeOK
<1>4. CASE \E a \in Assets : Names(m, a) /\ run.status[a] = None
  <2>1. run' = [run EXCEPT !.pc = "failed"]
    BY <1>4 DEF AssureNext
  <2>2. run' \in RunRecord
    BY <1>1, <2>1 DEF RunRecord, Phases
  <2>3. run'.pc = "failed" /\ run'.op = run.op /\ run'.lost = run.lost
    BY <1>1, <2>1 DEF RunRecord
  <2>4. run.lost
    BY <1>2, <1>4 DEF AssuranceInv, ReadSoFar, AssureNext
  <2>5. TypeOK'
    BY <2>2, ReadsTyped DEF AssureNext, AssuranceInv
  <2>6. ReadSoFar' /\ Undisturbed'
    BY <2>3 DEF ReadSoFar, Undisturbed, LinksRead, AssetsRead
  <2>7. FailureHasCause'
    BY <2>3, <2>4 DEF FailureHasCause, AssureNext
  <2>8. QED
    BY <2>5, <2>6, <2>7 DEF AssuranceInv
<1>5. CASE ~\E a \in Assets : Names(m, a) /\ run.status[a] = None
  <2>1. run' = [run EXCEPT !.alerts[m] = counts, !.todo = Tail(run.todo)]
    BY <1>5 DEF AssureNext
  <2> DEFINE all == [run.alerts EXCEPT ![m] = counts]
  <2>2. /\ all \in [Missions -> [Assets -> Nat]] /\ all[m] = counts
        /\ \A n \in Missions : n # m => all[n] = run.alerts[n]
    <3> HIDE DEF counts, m
    <3> QED BY <1>1, <1>2, <1>3
  <2>3. run' = [run EXCEPT !.alerts = all, !.todo = Tail(run.todo)]
    <3> HIDE DEF counts, m
    <3> QED BY <1>1, <2>1 DEF RunRecord
  <2> HIDE DEF all, counts, m
  <2>4. run' \in RunRecord
    BY <1>1, <1>2, <2>2, <2>3 DEF RunRecord
  <2>5. /\ run'.pc = "alerts" /\ run'.status = run.status /\ run'.alerts = all
        /\ run'.links = run.links /\ run'.listed = run.listed
        /\ run'.todo = Tail(run.todo)
        /\ run'.dirty = run.dirty /\ run'.lost = run.lost /\ run'.op = run.op
    BY <1>1, <2>3 DEF RunRecord, AssureNext
  <2>6. TypeOK'
    BY <2>4, ReadsTyped DEF AssureNext, AssuranceInv
  <2>7. ReadSoFar'
    <3>1. ~run.lost => \A n \in Missions, a \in Assets :
                         run.links[n][a] # None => run.status[a] # None
      BY DEF AssuranceInv, ReadSoFar, AssureNext, Names
    <3> QED BY <1>1, <2>2, <2>5, <3>1 DEF ReadSoFar, LinksRead, AssetsRead, Names
  <2>8. Undisturbed'
    <3>1. ~run.dirty =>
            /\ run.listed = Newest /\ run.links = links /\ run.status = fleet
            /\ \A n \in ToSet(run.listed) \ ToSet(run.todo), a \in Assets :
                 run.alerts[n][a] = Open(a)
      BY DEF AssuranceInv, Undisturbed, LinksRead, AssetsRead, AssureNext
    <3>2. ToSet(run.todo) \subseteq ToSet(Tail(run.todo)) \cup {m}
      BY <1>2, HeadOrTail DEF m
    <3>3. ToSet(run.listed) \subseteq Missions
      BY <1>1 DEF RunRecord, ToSet
    <3>4. ~run.dirty => \A n \in ToSet(run.listed) \ ToSet(Tail(run.todo)), a \in Assets :
                          all[n][a] = Open(a)
      <4>1. SUFFICES ASSUME ~run.dirty, NEW n \in ToSet(run.listed) \ ToSet(Tail(run.todo)),
                            NEW a \in Assets
                     PROVE  all[n][a] = Open(a)
        OBVIOUS
      <4>2. CASE n = m
        BY <4>2, <2>2, <1>3
      <4>3. CASE n # m
        <5>1. n \in ToSet(run.listed) \ ToSet(run.todo) /\ n \in Missions
          BY <4>3, <3>2, <3>3
        <5> QED BY <5>1, <4>3, <4>1, <3>1, <2>2
      <4> QED BY <4>2, <4>3
    <3> QED BY <2>5, <3>1, <3>4, ReadsSame
            DEF AssureNext, Undisturbed, LinksRead, AssetsRead
  <2>9. FailureHasCause'
    BY <2>5 DEF FailureHasCause
  <2>10. QED
    BY <2>6, <2>7, <2>8, <2>9 DEF AssuranceInv
<1>6. QED
  BY <1>4, <1>5

LEMMA CountOpenKeeps ==
    ASSUME AssuranceInv, CountOpen
    PROVE  AssuranceInv'
<1>1. /\ run \in RunRecord /\ run.links \in Links /\ run.status \in Fleet
      /\ run.alerts \in [Missions -> [Assets -> Nat]]
  BY DEF AssuranceInv, TypeOK, ReadSoFar, LinksRead, AssetsRead, CountOpen
<1>2. AllOpen \in Nat
  BY OpenTyped DEF AssuranceInv, TypeOK
<1>3. run' = [run EXCEPT !.pc = "critical", !.open = AllOpen]
  BY DEF CountOpen
<1>4. run' \in RunRecord
  BY <1>1, <1>2, <1>3 DEF RunRecord, Phases
<1>5. /\ run'.pc = "critical" /\ run'.status = run.status /\ run'.alerts = run.alerts
      /\ run'.links = run.links /\ run'.listed = run.listed /\ run'.todo = run.todo
      /\ run'.open = AllOpen /\ run'.dirty = run.dirty /\ run'.op = run.op
      /\ run.op = "summary" /\ run.todo = <<>>
  BY <1>1, <1>3 DEF RunRecord, CountOpen
<1>6. TypeOK'
  BY <1>4, ReadsTyped DEF CountOpen, AssuranceInv
<1>7. ReadSoFar'
  BY <1>1, <1>5 DEF ReadSoFar, LinksRead, AssetsRead
<1>8. Undisturbed'
  <2>1. ~run.dirty =>
          /\ run.listed = Newest /\ run.links = links /\ run.status = fleet
          /\ \A n \in ToSet(run.listed) \ ToSet(run.todo), a \in Assets :
               run.alerts[n][a] = Open(a)
    BY <1>5 DEF AssuranceInv, Undisturbed, LinksRead, AssetsRead, CountOpen
  <2> QED BY <1>5, <2>1, ReadsSame DEF CountOpen, Undisturbed, LinksRead, AssetsRead
<1>9. FailureHasCause'
  BY <1>5 DEF FailureHasCause
<1>10. QED
  BY <1>6, <1>7, <1>8, <1>9 DEF AssuranceInv

LEMMA CountCriticalKeeps ==
    ASSUME AssuranceInv, CountCritical
    PROVE  AssuranceInv'
<1>1. /\ run \in RunRecord /\ run.links \in Links /\ run.status \in Fleet
      /\ run.alerts \in [Missions -> [Assets -> Nat]]
  BY DEF AssuranceInv, TypeOK, ReadSoFar, LinksRead, AssetsRead, CountCritical
<1>2. AllAlerts("critical") \in Nat
  BY OpenTyped DEF AssuranceInv, TypeOK
<1>3. run' = [run EXCEPT !.pc = "done", !.critical = AllAlerts("critical")]
  BY DEF CountCritical
<1>4. run' \in RunRecord
  BY <1>1, <1>2, <1>3 DEF RunRecord, Phases
<1>5. /\ run'.pc = "done" /\ run'.status = run.status /\ run'.alerts = run.alerts
      /\ run'.links = run.links /\ run'.listed = run.listed /\ run'.todo = run.todo
      /\ run'.open = run.open /\ run'.critical = AllAlerts("critical")
      /\ run'.dirty = run.dirty /\ run'.op = run.op /\ run.op = "summary"
  BY <1>1, <1>3 DEF RunRecord, CountCritical, AssuranceInv, ReadSoFar
<1>6. TypeOK'
  BY <1>4, ReadsTyped DEF CountCritical, AssuranceInv
<1>7. ReadSoFar'
  BY <1>1, <1>5 DEF ReadSoFar, LinksRead, AssetsRead
<1>8. Undisturbed'
  <2>1. ~run.dirty =>
          /\ run.listed = Newest /\ run.links = links /\ run.status = fleet
          /\ \A n \in ToSet(run.listed) \ ToSet(run.todo), a \in Assets :
               run.alerts[n][a] = Open(a)
          /\ run.todo = <<>> /\ run.open = AllOpen
    BY <1>5 DEF AssuranceInv, Undisturbed, LinksRead, AssetsRead, CountCritical
  <2> QED BY <1>5, <2>1, ReadsSame
          DEF CountCritical, Undisturbed, LinksRead, AssetsRead
<1>9. FailureHasCause'
  BY <1>5 DEF FailureHasCause
<1>10. QED
  BY <1>6, <1>7, <1>8, <1>9 DEF AssuranceInv

LEMMA StampKeeps ==
    ASSUME AssuranceInv, Stamp
    PROVE  AssuranceInv'
<1> DEFINE to == IF run.gone THEN "failed" ELSE "done"
<1>1. /\ run \in RunRecord /\ run.links \in Links /\ run.status \in Fleet
      /\ run.alerts \in [Missions -> [Assets -> Nat]] /\ run.op = "saved"
  BY DEF AssuranceInv, TypeOK, ReadSoFar, LinksRead, AssetsRead, Stamp
<1>2. to \in {"failed", "done"} /\ (to = "failed" => run.gone)
  OBVIOUS
<1>3. run' = [run EXCEPT !.pc = to]
  BY DEF Stamp
<1> HIDE DEF to
<1>4. run' \in RunRecord
  BY <1>1, <1>2, <1>3 DEF RunRecord, Phases
<1>5. /\ run'.pc = to /\ run'.status = run.status /\ run'.alerts = run.alerts
      /\ run'.links = run.links /\ run'.listed = run.listed
      /\ run'.dirty = run.dirty /\ run'.op = run.op /\ run'.gone = run.gone
  BY <1>1, <1>3 DEF RunRecord
<1>6. TypeOK'
  BY <1>4, ReadsTyped DEF Stamp, AssuranceInv
<1>7. ReadSoFar'
  BY <1>1, <1>2, <1>5 DEF ReadSoFar, LinksRead, AssetsRead
<1>8. Undisturbed'
  <2>1. ~run.dirty =>
          /\ run.listed = Newest /\ run.links = links /\ run.status = fleet
          /\ \A m \in Missions, a \in Assets : run.alerts[m][a] = Open(a)
    BY <1>1 DEF AssuranceInv, Undisturbed, LinksRead, AssetsRead, Stamp
  <2> QED BY <1>1, <1>2, <1>5, <2>1, ReadsSame
          DEF Stamp, Undisturbed, LinksRead, AssetsRead
<1>9. FailureHasCause'
  BY <1>1, <1>2, <1>5 DEF FailureHasCause
<1>10. QED
  BY <1>6, <1>7, <1>8, <1>9 DEF AssuranceInv

LEMMA DeliverKeeps ==
    ASSUME AssuranceInv, Deliver
    PROVE  AssuranceInv'
<1>1. run' = NoRun /\ run' \in RunRecord /\ run'.pc = "idle"
  BY NoRunTyped DEF Deliver, NoRun
<1>2. TypeOK'
  BY <1>1, ReadsTyped DEF Deliver, AssuranceInv
<1>3. ReadSoFar' /\ Undisturbed' /\ FailureHasCause'
  BY <1>1 DEF ReadSoFar, Undisturbed, FailureHasCause, LinksRead, AssetsRead
<1>4. QED
  BY <1>2, <1>3 DEF AssuranceInv

LEMMA ReaderKeeps ==
    ASSUME AssuranceInv, Reader
    PROVE  AssuranceInv'
<1>1. CASE BeginSummary
  <2>1. <<>> \in Seq(Perturbation)
    OBVIOUS
  <2> QED BY <1>1, <2>1, BeginKeeps DEF BeginSummary
<1>2. CASE BeginSimulate
  BY <1>2, BeginKeeps, AssuranceAssumption DEF BeginSimulate
<1>3. CASE BeginSaved
  BY <1>3, BeginKeeps, AssuranceAssumption DEF BeginSaved, AssuranceInv, TypeOK
<1>4. QED
  BY <1>1, <1>2, <1>3, ListMissionsKeeps, ReadLinksKeeps, ReadAssetsKeeps,
     CountAlertsKeeps, AssureNextKeeps, CountOpenKeeps, CountCriticalKeeps,
     StampKeeps, DeliverKeeps DEF Reader
-----------------------------------------------------------------------------
(* The inductive invariant, over the writes of operators. *)

TablesOK ==
    /\ missions \in Seq(Missions)
    /\ links \in Links /\ fleet \in Fleet /\ alerts \in Alerts
    /\ Referential(links, fleet, alerts)
    /\ saved \in Scenarios \cup {None}

\* A write leaves the request as it is, but for the note that it happened.
LEMMA WriteKeeps ==
    ASSUME AssuranceInv, TablesOK', NEW lost \in BOOLEAN, NEW gone \in BOOLEAN,
           Write(lost, gone),
           \A a \in Assets : fleet[a] # None /\ ~lost => fleet'[a] # None
    PROVE  AssuranceInv'
<1>1. run \in RunRecord /\ writes \in 0 .. MaxWrites
  BY DEF AssuranceInv, TypeOK
<1>2. writes' \in 0 .. MaxWrites
  BY <1>1, AssuranceAssumption DEF Write
<1>3. CASE run = NoRun
  <2>1. run' = NoRun /\ run'.pc = "idle"
    BY <1>3 DEF Write, NoRun
  <2>2. TypeOK'
    BY <1>2, <2>1, NoRunTyped DEF TypeOK, TablesOK
  <2>3. ReadSoFar' /\ Undisturbed' /\ FailureHasCause'
    BY <2>1 DEF ReadSoFar, Undisturbed, FailureHasCause, LinksRead, AssetsRead
  <2>4. QED
    BY <2>2, <2>3 DEF AssuranceInv
<1>4. CASE run # NoRun
  <2> DEFINE l == run.lost \/ lost
             g == run.gone \/ gone
  <2>1. run' = [run EXCEPT !.dirty = TRUE, !.lost = l, !.gone = g]
    BY <1>4 DEF Write
  <2>2. l \in BOOLEAN /\ g \in BOOLEAN
    BY Zenon
  <2>3. (run.gone => g) /\ (run.lost => l) /\ (~l => ~lost)
    BY Zenon
  <2> HIDE DEF l, g
  <2>4. run' \in RunRecord
    BY <1>1, <2>1, <2>2 DEF RunRecord
  <2>5. /\ run'.pc = run.pc /\ run'.op = run.op /\ run'.scenario = run.scenario
        /\ run'.listed = run.listed /\ run'.links = run.links
        /\ run'.status = run.status /\ run'.alerts = run.alerts
        /\ run'.dirty = TRUE /\ run'.lost = l /\ run'.gone = g
    BY <1>1, <2>1 DEF RunRecord
  <2>6. TypeOK'
    BY <1>2, <2>4 DEF TypeOK, TablesOK
  <2>7. Undisturbed'
    BY <2>5 DEF Undisturbed
  <2>8. FailureHasCause'
    BY <2>3, <2>5 DEF FailureHasCause, AssuranceInv
  <2>9. ReadSoFar'
    <3>1. ReadSoFar
      BY DEF AssuranceInv
    <3> QED BY <2>3, <2>5, <3>1 DEF ReadSoFar, Names, LinksRead, AssetsRead
  <2>10. QED
    BY <2>6, <2>7, <2>8, <2>9 DEF AssuranceInv
<1>5. QED
  BY <1>3, <1>4

LEMMA CreateMissionKeeps ==
    ASSUME AssuranceInv, NEW m \in Missions, CreateMission(m)
    PROVE  AssuranceInv'
<1>1. TablesOK
  BY DEF AssuranceInv, TypeOK, TablesOK
<1>2. missions' \in Seq(Missions)
  <2>1. <<m>> \in Seq(Missions)
    OBVIOUS
  <2> QED BY <1>1, <2>1, ConcatProperties DEF CreateMission, TablesOK
<1>3. TablesOK'
  BY <1>1, <1>2 DEF CreateMission, TablesOK, Referential
<1>4. QED
  BY <1>3, WriteKeeps DEF CreateMission

LEMMA DeleteMissionKeeps ==
    ASSUME AssuranceInv, NEW m \in Missions, DeleteMission(m)
    PROVE  AssuranceInv'
<1>1. TablesOK
  BY DEF AssuranceInv, TypeOK, TablesOK
<1>2. missions' \in Seq(Missions)
  <2>1. PICK i \in DOMAIN missions : missions' = RemoveAt(missions, i)
    BY DEF DeleteMission
  <2>2. missions \in Seq(Missions) /\ i \in 1 .. Len(missions) /\ Len(missions) \in Nat
    BY <1>1 DEF TablesOK
  <2>3. /\ \A j \in 1 .. i - 1 : missions[j] \in Missions
        /\ \A j \in i + 1 .. Len(missions) : missions[j] \in Missions
    BY <2>2
  <2>4. /\ SubSeq(missions, 1, i - 1) \in Seq(Missions)
        /\ SubSeq(missions, i + 1, Len(missions)) \in Seq(Missions)
    BY <2>2, <2>3, SubSeqProperties
  <2> QED BY <2>1, <2>4, ConcatProperties DEF RemoveAt
<1>3. links' = [links EXCEPT ![m] = NoLinks] /\ NoLinks \in [Assets -> {None}]
  BY DEF DeleteMission, NoLinks
<1>4. links' \in Links /\ \A n \in Missions, a \in Assets :
                              links'[n][a] = links[n][a] \/ links'[n][a] = None
  BY <1>1, <1>3 DEF TablesOK, Links
<1>5. TablesOK'
  BY <1>1, <1>2, <1>4 DEF DeleteMission, TablesOK, Referential
<1>6. QED
  BY <1>5, WriteKeeps DEF DeleteMission

LEMMA AttachAssetKeeps ==
    ASSUME AssuranceInv, NEW m \in Missions, NEW b \in Assets, AttachAsset(m, b)
    PROVE  AssuranceInv'
<1>1. TablesOK
  BY DEF AssuranceInv, TypeOK, TablesOK
<1>2. PICK c \in Criticality : links' = [links EXCEPT ![m][b] = c]
  BY DEF AttachAsset
<1>3. links' \in Links /\ \A n \in Missions, a \in Assets :
                              links'[n][a] = links[n][a] \/ a = b
  BY <1>1, <1>2 DEF TablesOK, Links
<1>4. TablesOK'
  BY <1>1, <1>3 DEF AttachAsset, TablesOK, Referential
<1>5. QED
  BY <1>4, WriteKeeps DEF AttachAsset

LEMMA DetachAssetKeeps ==
    ASSUME AssuranceInv, NEW m \in Missions, NEW b \in Assets, DetachAsset(m, b)
    PROVE  AssuranceInv'
<1>1. TablesOK
  BY DEF AssuranceInv, TypeOK, TablesOK
<1>2. links' \in Links /\ \A n \in Missions, a \in Assets :
                              links'[n][a] = links[n][a] \/ links'[n][a] = None
  BY <1>1 DEF TablesOK, Links, DetachAsset
<1>3. TablesOK'
  BY <1>1, <1>2 DEF DetachAsset, TablesOK, Referential
<1>4. QED
  BY <1>3, WriteKeeps DEF DetachAsset

LEMMA CreateAssetKeeps ==
    ASSUME AssuranceInv, NEW b \in Assets, CreateAsset(b)
    PROVE  AssuranceInv'
<1>1. TablesOK
  BY DEF AssuranceInv, TypeOK, TablesOK
<1>2. PICK s \in AssetStatus : fleet' = [fleet EXCEPT ![b] = s]
  BY DEF CreateAsset
<1>3. fleet' \in Fleet /\ \A a \in Assets : fleet'[a] = fleet[a] \/ fleet'[a] # None
  BY <1>1, <1>2, AssuranceAssumption DEF TablesOK, Fleet
<1>4. TablesOK'
  BY <1>1, <1>3 DEF CreateAsset, TablesOK, Referential
<1>5. QED
  BY <1>3, <1>4, WriteKeeps DEF CreateAsset

LEMMA UpdateAssetKeeps ==
    ASSUME AssuranceInv, NEW b \in Assets, UpdateAsset(b)
    PROVE  AssuranceInv'
<1>1. TablesOK
  BY DEF AssuranceInv, TypeOK, TablesOK
<1>2. PICK s \in AssetStatus : fleet' = [fleet EXCEPT ![b] = s]
  BY DEF UpdateAsset
<1>3. fleet' \in Fleet /\ \A a \in Assets : fleet'[a] = fleet[a] \/ fleet'[a] # None
  BY <1>1, <1>2, AssuranceAssumption DEF TablesOK, Fleet
<1>4. TablesOK'
  BY <1>1, <1>3 DEF UpdateAsset, TablesOK, Referential
<1>5. QED
  BY <1>3, <1>4, WriteKeeps DEF UpdateAsset

LEMMA DeleteAssetKeeps ==
    ASSUME AssuranceInv, NEW b \in Assets, DeleteAsset(b)
    PROVE  AssuranceInv'
<1>1. TablesOK
  BY DEF AssuranceInv, TypeOK, TablesOK
<1>2. fleet' \in Fleet /\ \A a \in Assets : a # b => fleet'[a] = fleet[a]
  BY <1>1 DEF TablesOK, Fleet, DeleteAsset
<1>3. /\ links' \in Links
      /\ \A m \in Missions, a \in Assets :
           links'[m][a] = IF a = b THEN None ELSE links[m][a]
  BY <1>1 DEF TablesOK, Links, DeleteAsset
<1>4. /\ alerts' \in Alerts /\ alerts'[b].critical = 0 /\ alerts'[b].other = 0
      /\ \A a \in Assets : a # b => alerts'[a] = alerts[a]
  <2> DEFINE n == [critical |-> alerts[None].critical + alerts[b].critical,
                   other    |-> alerts[None].other + alerts[b].other]
             z == [critical |-> 0, other |-> 0]
             R == [critical : Nat, other : Nat]
  <2>1. n \in R /\ z \in R
    BY <1>1 DEF TablesOK, Alerts
  <2>2. b # None /\ \A a \in Assets : a # None
    BY AssuranceAssumption
  <2>3. alerts \in [Assets \cup {None} -> R]
    BY <1>1 DEF TablesOK, Alerts
  <2>4. alerts' = [alerts EXCEPT ![None] = n, ![b] = z]
    BY DEF DeleteAsset
  <2>5. z.critical = 0 /\ z.other = 0
    OBVIOUS
  <2> HIDE DEF n, z, R
  <2>6. /\ alerts' \in [Assets \cup {None} -> R] /\ alerts'[b] = z
        /\ \A a \in Assets : a # b => alerts'[a] = alerts[a]
    BY <2>1, <2>2, <2>3, <2>4
  <2> QED BY <2>5, <2>6 DEF Alerts, R
<1>5. Referential(links', fleet', alerts')
  <2>1. SUFFICES ASSUME NEW a \in Assets, fleet'[a] = None
                 PROVE  /\ \A m \in Missions : links'[m][a] = None
                        /\ alerts'[a].critical = 0 /\ alerts'[a].other = 0
    BY DEF Referential
  <2>2. CASE a = b
    BY <1>3, <1>4, <2>2
  <2>3. CASE a # b
    BY <1>1, <1>2, <1>3, <1>4, <2>1, <2>3 DEF TablesOK, Referential
  <2>4. QED
    BY <2>2, <2>3
<1>6. TablesOK'
  <2>1. missions' = missions /\ saved' = saved
    BY DEF DeleteAsset
  <2> QED BY <1>1, <1>2, <1>3, <1>4, <1>5, <2>1 DEF TablesOK
<1>7. QED
  BY <1>6, WriteKeeps DEF DeleteAsset

\* Raising or resolving one alert changes one count.
LEMMA AlertCountsKept ==
    ASSUME TablesOK, NEW b \in Assets \cup {None}, NEW kind \in {"critical", "other"},
           NEW n \in Nat, alerts' = [alerts EXCEPT ![b][kind] = n],
           n > 0 /\ b \in Assets => fleet[b] # None,
           UNCHANGED <<missions, links, fleet, saved>>
    PROVE  TablesOK'
<1> DEFINE R == [critical : Nat, other : Nat]
           r == [alerts[b] EXCEPT ![kind] = n]
<1>1. alerts \in [Assets \cup {None} -> R] /\ alerts[b] \in R
  BY DEF TablesOK, Alerts
<1>2. r \in R /\ (n = 0 /\ alerts[b].critical = 0 /\ alerts[b].other = 0 =>
                    r.critical = 0 /\ r.other = 0)
  <2>1. CASE kind = "critical"
    <3>1. r = [alerts[b] EXCEPT !.critical = n]
      BY <2>1
    <3> QED BY <1>1, <3>1
  <2>2. CASE kind = "other"
    <3>1. r = [alerts[b] EXCEPT !.other = n]
      BY <2>2
    <3> QED BY <1>1, <3>1
  <2> QED BY <2>1, <2>2
<1>3. alerts' = [alerts EXCEPT ![b] = r]
  BY <1>1
<1> HIDE DEF r, R
<1>4. /\ alerts' \in [Assets \cup {None} -> R] /\ alerts'[b] = r
      /\ \A a \in Assets : a # b => alerts'[a] = alerts[a]
  BY <1>1, <1>2, <1>3
<1>5. Referential(links, fleet, alerts')
  BY <1>2, <1>4 DEF TablesOK, Referential
<1>6. QED
  BY <1>4, <1>5 DEF TablesOK, Alerts, R

LEMMA RaiseAlertKeeps ==
    ASSUME AssuranceInv, NEW b \in Assets \cup {None},
           NEW kind \in {"critical", "other"}, RaiseAlert(b, kind)
    PROVE  AssuranceInv'
<1>1. TablesOK
  BY DEF AssuranceInv, TypeOK, TablesOK
<1>2. alerts[b][kind] + 1 \in Nat
  BY <1>1 DEF TablesOK, Alerts
<1>3. TablesOK'
  BY <1>1, <1>2, AlertCountsKept DEF RaiseAlert
<1>4. QED
  BY <1>3, WriteKeeps DEF RaiseAlert

LEMMA ResolveAlertKeeps ==
    ASSUME AssuranceInv, NEW b \in Assets \cup {None},
           NEW kind \in {"critical", "other"}, ResolveAlert(b, kind)
    PROVE  AssuranceInv'
<1>1. TablesOK
  BY DEF AssuranceInv, TypeOK, TablesOK
<1>2. /\ alerts[b][kind] \in Nat /\ alerts[b][kind] > 0
      /\ alerts[b][kind] - 1 \in Nat
  BY <1>1 DEF TablesOK, Alerts, ResolveAlert
<1>3. b \in Assets => fleet[b] # None
  BY <1>1, <1>2 DEF TablesOK, Referential
<1>4. TablesOK'
  BY <1>1, <1>2, <1>3, AlertCountsKept DEF ResolveAlert
<1>5. QED
  BY <1>4, WriteKeeps DEF ResolveAlert

LEMMA ScenarioWritesKeep ==
    ASSUME AssuranceInv, CreateScenario \/ DeleteScenario
    PROVE  AssuranceInv'
<1>1. TablesOK
  BY DEF AssuranceInv, TypeOK, TablesOK
<1>2. TablesOK'
  BY <1>1 DEF TablesOK, Referential, CreateScenario, DeleteScenario
<1>3. CASE CreateScenario
  BY <1>2, <1>3, WriteKeeps DEF CreateScenario
<1>4. CASE DeleteScenario
  <2>1. (run.op = "saved") \in BOOLEAN
    BY Zenon
  <2> QED BY <1>2, <1>4, <2>1, WriteKeeps DEF DeleteScenario
<1>5. QED
  BY <1>3, <1>4

LEMMA OperatorKeeps ==
    ASSUME AssuranceInv, Operator
    PROVE  AssuranceInv'
BY CreateMissionKeeps, DeleteMissionKeeps, AttachAssetKeeps, DetachAssetKeeps,
   CreateAssetKeeps, UpdateAssetKeeps, DeleteAssetKeeps, RaiseAlertKeeps,
   ResolveAlertKeeps, ScenarioWritesKeep DEF Operator
-----------------------------------------------------------------------------
LEMMA InitInvariant == Init => AssuranceInv
<1>1. SUFFICES ASSUME Init PROVE AssuranceInv
  OBVIOUS
<1>2. missions \in Seq(Missions)
  <2>1. Cardinality(Missions) \in Nat
    BY AssuranceAssumption, FS_CardinalityType
  <2>2. missions \in [1 .. Cardinality(Missions) -> Missions]
    BY <1>1 DEF Init, SetToSeqs
  <2> QED BY <2>1, <2>2, IsASeq
<1>3. PICK t \in InitialStates : links = t.links /\ fleet = t.fleet /\ alerts = t.alerts
  BY <1>1 DEF Init
<1>4. /\ links \in Links /\ fleet \in Fleet /\ alerts \in Alerts
      /\ Referential(links, fleet, alerts)
  BY <1>3, AssuranceAssumption
<1>5. saved = None /\ run = NoRun /\ writes = 0 /\ run.pc = "idle"
  BY <1>1 DEF Init, NoRun
<1>6. TypeOK
  BY <1>2, <1>4, <1>5, NoRunTyped, AssuranceAssumption DEF TypeOK
<1>7. ReadSoFar /\ Undisturbed /\ FailureHasCause
  BY <1>5 DEF ReadSoFar, Undisturbed, FailureHasCause, LinksRead, AssetsRead
<1>8. QED
  BY <1>6, <1>7 DEF AssuranceInv

LEMMA StepInvariant == AssuranceInv /\ [Next]_vars => AssuranceInv'
<1>1. SUFFICES ASSUME AssuranceInv, [Next]_vars PROVE AssuranceInv'
  OBVIOUS
<1>2. CASE Next
  BY <1>1, <1>2, ReaderKeeps, OperatorKeeps DEF Next
<1>3. CASE UNCHANGED vars
  BY <1>1, <1>3 DEF vars, tables, AssuranceInv, TypeOK, ReadSoFar, Undisturbed,
              FailureHasCause, Referential, Names, Newest, Open, AllOpen, AllAlerts
<1>4. QED
  BY <1>1, <1>2, <1>3

\* Whatever the missions, assets, scenarios and bounds: the tables keep
\* their types and keys while services/digitaltwin.py and missioniq.py read
\* them, what a request has read is fit for use, and what it has read before
\* the first write is what the tables hold.
THEOREM AssuranceInvariance == Spec => []AssuranceInv
<1>1. QED
  BY InitInvariant, StepInvariant, PTL DEF Spec

\* A request fails only for a reason: simulate of services/digitaltwin.py
\* never does because an asset it needs was deleted while it ran.
THEOREM FailuresHaveCauses == Spec => []FailureHasCause
<1>1. AssuranceInv => FailureHasCause
  BY DEF AssuranceInv
<1>2. QED
  BY <1>1, AssuranceInvariance, PTL
-----------------------------------------------------------------------------
(* What an answered request says. *)

\* What an answered request has read, and the states it scores.
LEMMA AnswerTyped ==
    ASSUME AssuranceInv, Answered
    PROVE  /\ run \in RunRecord /\ run.scenario \in Seq(Perturbation)
           /\ run.listed \in Seq(Missions)
           /\ ToSet(run.listed) \subseteq Missions /\ IsFiniteSet(ToSet(run.listed))
           /\ \A m \in Missions : run.links[m] \in Needs /\ Snapshot(m) \in States
<1>1. /\ run \in RunRecord /\ run.links \in Links /\ run.status \in Fleet
      /\ run.alerts \in [Missions -> [Assets -> Nat]]
  BY DEF AssuranceInv, TypeOK, ReadSoFar, LinksRead, AssetsRead, Answered
<1>2. /\ run.scenario \in Seq(Perturbation) /\ run.listed \in Seq(Missions)
  BY <1>1 DEF RunRecord
<1>3. ToSet(run.listed) \subseteq Missions
  BY <1>2 DEF ToSet
<1>4. IsFiniteSet(ToSet(run.listed))
  BY <1>3, AssuranceAssumption, FS_Subset
<1>5. ASSUME NEW m \in Missions
      PROVE  run.links[m] \in Needs /\ Snapshot(m) \in States
  <2>1. run.links[m] \in Needs
    BY <1>1 DEF Links, Needs
  <2>2. ASSUME NEW a \in Assets
        PROVE  /\ Snapshot(m)[a] \in AssetState
               /\ Snapshot(m)[a].removed \/ Snapshot(m)[a].status \in AssetStatus
    <3> DEFINE gone == run.status[a] = None
    <3>1. gone \in BOOLEAN
      BY Zenon
    <3>2. run.status[a] \in AssetStatus \cup {None} /\ run.alerts[m][a] \in Nat
      BY <1>1 DEF Fleet
    <3>3. gone \/ run.status[a] \in AssetStatus
      BY <3>2
    <3>4. Snapshot(m)[a] =
            [status |-> run.status[a], alerts |-> run.alerts[m][a], removed |-> gone]
      BY DEF Snapshot
    <3> HIDE DEF gone
    <3> QED BY <3>1, <3>2, <3>3, <3>4 DEF AssetState
  <2>3. Snapshot(m) \in [Assets -> AssetState]
    <3>1. Snapshot(m) = [a \in Assets |-> Snapshot(m)[a]]
      BY DEF Snapshot
    <3> QED BY <3>1, <2>2
  <2> QED BY <2>1, <2>2, <2>3 DEF States
<1>6. QED
  BY <1>1, <1>2, <1>3, <1>4, <1>5

\* An average grows with the scores.
LEMMA AverageMonotone ==
    ASSUME run.listed \in Seq(Missions), IsFiniteSet(ToSet(run.listed)),
           NEW f \in [ToSet(run.listed) -> Int], NEW g \in [ToSet(run.listed) -> Int],
           \A m \in ToSet(run.listed) : f[m] <= g[m]
    PROVE  Average(f) <= Average(g)
<1>1. CASE run.listed = <<>>
  BY <1>1 DEF Average
<1>2. CASE run.listed # <<>>
  <2>1. Len(run.listed) \in Nat \ {0}
    BY <1>2
  <2> DEFINE D == ToSet(run.listed)
  <2>2. IsFiniteSet(D) /\ f \in [D -> Int] /\ g \in [D -> Int]
        /\ \A m \in D : f[m] <= g[m]
    OBVIOUS
  <2> HIDE DEF D
  <2>3. SumFunction(f) \in Int /\ SumFunction(g) \in Int
    BY <2>2, SumIsInteger
  <2>4. SumFunction(f) <= SumFunction(g)
    BY <2>2, SumMonotone
  <2>5. RoundDiv(SumFunction(f), Len(run.listed)) <=
          RoundDiv(SumFunction(g), Len(run.listed))
    BY <2>1, <2>3, <2>4, RoundMonotone
  <2> QED BY <1>2, <2>5 DEF Average
<1>3. QED
  BY <1>1, <1>2

\* A mission that is at risk stays so when its score does not rise.
LEMMA RiskMonotone ==
    ASSUME NEW s \in Int, NEW t \in Int, s <= t, Health(t) = "at_risk"
    PROVE  Health(s) = "at_risk"
BY DEF Health

LEMMA DamageIsSeen ==
    ASSUME AssuranceInv, Simulated,
           \A i \in DOMAIN run.scenario :
              run.scenario[i].kind \in {"offline", "add_alerts"}
    PROVE  /\ \A m \in ToSet(run.listed) : Projected[m] <= Baseline[m]
           /\ Average(Projected) <= Average(Baseline)
           /\ AtRisk(Baseline) \subseteq AtRisk(Projected)
<1> DEFINE D == ToSet(run.listed)
<1>1. Answered
  BY DEF Simulated
<1>2. ASSUME NEW m \in D
      PROVE  /\ Projected[m] \in Nat /\ Baseline[m] \in Nat
             /\ Projected[m] <= Baseline[m]
  <2>1. m \in Missions /\ run.links[m] \in Needs /\ Snapshot(m) \in States
        /\ run.scenario \in Seq(Perturbation)
    BY <1>1, AnswerTyped
  <2>2. Apply(Snapshot(m), run.scenario) \in Worse(Snapshot(m))
    BY <2>1, DamageKeeps
  <2>3. Snapshot(m) \in Worse(Snapshot(m))
    BY <2>1 DEF Worse, States, AssetState
  <2>4. /\ Score(run.links[m], Apply(Snapshot(m), run.scenario)) \in Nat
        /\ Score(run.links[m], Snapshot(m)) \in Nat
        /\ Score(run.links[m], Apply(Snapshot(m), run.scenario)) <=
             Score(run.links[m], Snapshot(m))
    BY <2>1, <2>2, <2>3, WorseDeductsMore
  <2> QED BY <2>4 DEF Projected, Baseline
<1>3. Projected \in [D -> Int] /\ Baseline \in [D -> Int]
  <2>1. /\ Projected = [m \in D |-> Projected[m]]
        /\ Baseline = [m \in D |-> Baseline[m]]
    BY DEF Projected, Baseline
  <2>2. \A m \in D : Projected[m] \in Int /\ Baseline[m] \in Int
    BY <1>2
  <2> HIDE DEF D
  <2> QED BY <2>1, <2>2
<1>4. Average(Projected) <= Average(Baseline)
  BY <1>1, <1>2, <1>3, AnswerTyped, AverageMonotone
<1>5. AtRisk(Baseline) \subseteq AtRisk(Projected)
  <2>1. SUFFICES ASSUME NEW m \in D, Health(Baseline[m]) = "at_risk"
                 PROVE  Health(Projected[m]) = "at_risk"
    BY <1>3 DEF AtRisk
  <2>2. Projected[m] \in Int /\ Baseline[m] \in Int
    BY <1>2
  <2> QED BY <1>2, <2>1, <2>2, RiskMonotone
<1>6. QED
  BY <1>2, <1>4, <1>5

LEMMA LossIsSeen ==
    ASSUME AssuranceInv, Simulated,
           \A i \in DOMAIN run.scenario : run.scenario[i].kind = "remove_asset"
    PROVE  /\ \A m \in ToSet(run.listed) : Projected[m] >= Baseline[m]
           /\ AtRisk(Projected) \subseteq AtRisk(Baseline)
<1> DEFINE D == ToSet(run.listed)
<1>1. Answered
  BY DEF Simulated
<1>2. ASSUME NEW m \in D
      PROVE  /\ Projected[m] \in Nat /\ Baseline[m] \in Nat
             /\ Baseline[m] <= Projected[m]
  <2> DEFINE t == Apply(Snapshot(m), run.scenario)
  <2>1. m \in Missions /\ run.links[m] \in Needs /\ Snapshot(m) \in States
        /\ run.scenario \in Seq(Perturbation)
    BY <1>1, AnswerTyped
  <2>2. t \in Lesser(Snapshot(m)) /\ t \in States
    BY <2>1, LossKeeps DEF Lesser
  <2>3. t \in Lesser(t)
    <3> HIDE DEF t
    <3> QED BY <2>2 DEF Lesser, States, AssetState
  <2>4. /\ Score(run.links[m], t) \in Nat
        /\ Score(run.links[m], Snapshot(m)) \in Nat
        /\ Score(run.links[m], Snapshot(m)) <= Score(run.links[m], t)
    <3> HIDE DEF t
    <3> QED BY <2>1, <2>2, <2>3, LesserDeductsLess
  <2> QED BY <2>4 DEF Projected, Baseline
<1>3. DOMAIN Projected = D /\ DOMAIN Baseline = D
  BY DEF Projected, Baseline
<1>4. AtRisk(Projected) \subseteq AtRisk(Baseline)
  <2>1. SUFFICES ASSUME NEW m \in D, Health(Projected[m]) = "at_risk"
                 PROVE  Health(Baseline[m]) = "at_risk"
    BY <1>3 DEF AtRisk
  <2>2. Projected[m] \in Int /\ Baseline[m] \in Int
    BY <1>2
  <2> QED BY <1>2, <2>1, <2>2, RiskMonotone
<1>5. \A m \in D : Projected[m] >= Baseline[m]
  <2>1. SUFFICES ASSUME NEW m \in D PROVE Projected[m] >= Baseline[m]
    OBVIOUS
  <2>2. /\ Projected[m] \in Nat /\ Baseline[m] \in Nat
        /\ Baseline[m] <= Projected[m]
    BY <1>2
  <2> QED BY <2>2
<1>6. QED
  BY <1>4, <1>5

\* The tables as a state to be scored in, as LiveScore has it.
Live == [a \in Assets |-> [status |-> fleet[a], alerts |-> Open(a), removed |-> FALSE]]

\* What a page of the missions holds.
LEMMA NewestHolds ==
    ASSUME missions \in Seq(Missions)
    PROVE  ToSet(Newest) = {missions[i] : i \in {j \in DOMAIN missions : j <= PageLimit}}
<1> DEFINE k == IF Len(missions) < PageLimit THEN Len(missions) ELSE PageLimit
<1>1. /\ k \in Nat /\ k <= Len(missions) /\ Len(missions) \in Nat /\ PageLimit \in Nat
      /\ DOMAIN missions = 1 .. Len(missions)
  BY AssuranceAssumption
<1>2. {j \in DOMAIN missions : j <= PageLimit} = 1 .. k
  BY <1>1
<1>3. /\ DOMAIN Newest = 1 .. k
      /\ \A i \in 1 .. k : Newest[i] = missions[i]
  <2>1. Newest = SubSeq(missions, 1, k)
    BY DEF Newest
  <2> HIDE DEF k
  <2>2. \A i \in 1 .. k : missions[i] \in Missions
    BY <1>1
  <2>3. /\ SubSeq(missions, 1, k) \in Seq(Missions)
        /\ Len(SubSeq(missions, 1, k)) = k
        /\ \A i \in 1 .. k : SubSeq(missions, 1, k)[i] = missions[i]
    BY <1>1, <2>2, SubSeqProperties
  <2> QED BY <2>1, <2>3
<1> HIDE DEF k
<1>4. QED
  BY <1>2, <1>3 DEF ToSet

\* The snapshot of a mission deducts what the tables do.
LEMMA SnapshotIsLive ==
    ASSUME AssuranceInv, NEW m \in Missions, run.links = links, run.status = fleet,
           \A a \in Assets : run.alerts[m][a] = Open(a)
    PROVE  Score(run.links[m], Snapshot(m)) = LiveScore(m)
<1>1. links \in Links /\ Referential(links, fleet, alerts) /\ links[m] \in Needs
  BY DEF AssuranceInv, TypeOK, Links, Needs
<1>2. ASSUME NEW a \in Assets
      PROVE  (IF links[m][a] = None \/ Snapshot(m)[a].removed THEN 0
              ELSE Weight[links[m][a]] *
                     (Penalty[Snapshot(m)[a].status] + AlertPenalty * Snapshot(m)[a].alerts)) =
             (IF links[m][a] = None \/ Live[a].removed THEN 0
              ELSE Weight[links[m][a]] *
                     (Penalty[Live[a].status] + AlertPenalty * Live[a].alerts))
  <2>1. CASE links[m][a] = None
    BY <2>1
  <2>2. CASE links[m][a] # None
    <3>1. fleet[a] # None
      BY <1>1, <2>2 DEF Referential
    <3> DEFINE gone == run.status[a] = None
    <3>2. Snapshot(m)[a] =
            [status |-> run.status[a], alerts |-> run.alerts[m][a], removed |-> gone]
      BY DEF Snapshot
    <3>3. ~gone
      BY <3>1
    <3>4. /\ Snapshot(m)[a].status = fleet[a] /\ Snapshot(m)[a].alerts = Open(a)
          /\ ~Snapshot(m)[a].removed
      <4> HIDE DEF gone
      <4>1. Snapshot(m)[a].removed = gone
        BY <3>2
      <4>2. ~Snapshot(m)[a].removed
        BY <3>3, <4>1, Zenon
      <4> QED BY <3>2, <4>2
    <3>5. /\ Live[a].status = fleet[a] /\ Live[a].alerts = Open(a)
          /\ ~Live[a].removed
      BY DEF Live
    <3> QED BY <3>4, <3>5
  <2> QED BY <2>1, <2>2
<1>3. DOMAIN links[m] = Assets
  BY <1>1 DEF Needs
<1>4. Deductions(links[m], Snapshot(m)) = Deductions(links[m], Live)
  BY <1>2, <1>3 DEF Deductions
<1>5. Score(links[m], Snapshot(m)) = Score(links[m], Live)
  BY <1>4 DEF Score
<1>6. QED
  BY <1>5 DEF LiveScore, Live

LEMMA QuietIsSeen ==
    ASSUME AssuranceInv, Answered, ~run.dirty
    PROVE  /\ ToSet(run.listed) =
                {missions[i] : i \in {j \in DOMAIN missions : j <= PageLimit}}
           /\ \A m \in ToSet(run.listed) :
                /\ Baseline[m] = LiveScore(m)
                /\ run.scenario = <<>> => Projected[m] = LiveScore(m)
           /\ run.op = "summary" =>
                Threat(run.open, run.critical) = Threat(AllOpen, AllAlerts("critical"))
<1>1. /\ run.listed = Newest /\ run.links = links /\ run.status = fleet
      /\ run.op # "summary" =>
           \A m \in Missions, a \in Assets : run.alerts[m][a] = Open(a)
      /\ run.op = "summary" =>
           /\ \A m \in ToSet(run.listed) \ ToSet(run.todo), a \in Assets :
                run.alerts[m][a] = Open(a)
           /\ run.todo = <<>> /\ run.open = AllOpen
           /\ run.critical = AllAlerts("critical")
  BY DEF AssuranceInv, Undisturbed, Answered, LinksRead, AssetsRead
<1>2. ToSet(run.listed) =
        {missions[i] : i \in {j \in DOMAIN missions : j <= PageLimit}}
  BY <1>1, NewestHolds DEF AssuranceInv, TypeOK
<1>3. ASSUME NEW m \in ToSet(run.listed)
      PROVE  /\ Baseline[m] = LiveScore(m)
             /\ run.scenario = <<>> => Projected[m] = LiveScore(m)
  <2>1. /\ m \in Missions /\ Snapshot(m) \in States
        /\ run.scenario \in Seq(Perturbation)
    BY AnswerTyped
  <2>2. \A a \in Assets : run.alerts[m][a] = Open(a)
    <3>1. run.op = "summary" => ToSet(run.todo) = {}
      BY <1>1 DEF ToSet
    <3> QED BY <1>1, <2>1, <3>1
  <2>3. Score(run.links[m], Snapshot(m)) = LiveScore(m)
    BY <1>1, <2>1, <2>2, SnapshotIsLive
  <2>4. Baseline[m] = LiveScore(m)
    BY <2>3 DEF Baseline
  <2>5. ASSUME run.scenario = <<>> PROVE Projected[m] = LiveScore(m)
    <3>1. Apply(Snapshot(m), run.scenario) = Snapshot(m)
      BY <2>1, <2>5, ApplyNothing
    <3>2. Projected[m] = Score(run.links[m], Apply(Snapshot(m), run.scenario))
      BY DEF Projected
    <3> QED BY <2>3, <3>1, <3>2
  <2>6. QED
    BY <2>4, <2>5
<1>4. QED
  BY <1>1, <1>2, <1>3

\* "The twin's baseline must equal the live MissionIQ score exactly"
\* (test_digitaltwin.py), for every number of missions, assets and alerts:
\* what nobody wrote to meanwhile is answered as the tables have it.
THEOREM QuietRunsAreLive == Spec => []QuietRunIsLive
<1>1. AssuranceInv => QuietRunIsLive
  BY QuietIsSeen DEF QuietRunIsLive
<1>2. QED
  BY <1>1, AssuranceInvariance, PTL

\* A scenario of outages and further alerts, of any length, raises no score
\* and no average, and leaves no mission at risk unnamed (simulate).
THEOREM DamageNeverRaises == Spec => []DamageNeverHelps
<1>1. AssuranceInv => DamageNeverHelps
  BY DamageIsSeen DEF DamageNeverHelps
<1>2. QED
  BY <1>1, AssuranceInvariance, PTL

\* A scenario of losses, of any length, lowers no score (simulate).
THEOREM LossNeverLowers == Spec => []RemovalNeverLowers
<1>1. AssuranceInv => RemovalNeverLowers
  BY LossIsSeen DEF RemovalNeverLowers
<1>2. QED
  BY <1>1, AssuranceInvariance, PTL
=============================================================================
