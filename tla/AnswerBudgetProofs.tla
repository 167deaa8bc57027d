------------------------- MODULE AnswerBudgetProofs -------------------------
(***************************************************************************)
(* Theorems about AnswerBudget.  The model adds up a history with a fold;  *)
(* the first part derives from the fold's definition that dropping the     *)
(* oldest turn takes its tokens from the sum, by the minimum principle of  *)
(* the naturals.  The second part follows the running sum through the two  *)
(* trimming loops.                                                         *)
(***************************************************************************)
EXTENDS AnswerBudget, SequenceTheorems, WellFoundedInduction, TLAPS

\* The minimum principle, for a relation on the naturals.
LEMMA WellFoundedMin ==
    ASSUME NEW R, NEW T, IsWellFoundedOn(R, Nat), T \subseteq Nat, T # {}
    PROVE  \E x \in T : \A y \in T : ~(<<y, x>> \in R)
BY WFMin

\* A set of naturals that is not empty has a least member.
LEMMA LeastNat ==
    ASSUME NEW T \in SUBSET Nat, T # {}
    PROVE  \E x \in T : \A y \in T : x <= y
<1>1. \E R : IsWellFoundedOn(R, Nat) /\ \A m, n \in Nat : <<m, n>> \in R <=> m < n
  <2> DEFINE L == {ss \in Nat \X Nat : ss[1] < ss[2]}
  <2>1. L = OpToRel(<, Nat)
    BY ZenonT(20) DEF OpToRel
  <2>2. IsWellFoundedOn(L, Nat)
    BY <2>1, NatLessThanWellFounded, Zenon
  <2>3. \A m, n \in Nat : <<m, n>> \in L <=> m < n
    OBVIOUS
  <2> HIDE DEF L
  <2> QED
    BY <2>2, <2>3
<1>2. PICK R : IsWellFoundedOn(R, Nat) /\ \A m, n \in Nat : <<m, n>> \in R <=> m < n
  BY <1>1
<1>3. T \subseteq Nat
  OBVIOUS
<1>4. PICK x \in T : \A y \in T : ~(<<y, x>> \in R)
  BY <1>2, <1>3, WellFoundedMin
<1>5. \A y \in T : ~(y < x)
  BY <1>2, <1>3, <1>4
<1> QED
  BY <1>3, <1>5

\* A set of naturals below a bound has a greatest member, and Max is it.
LEMMA MaxOfBounded ==
    ASSUME NEW n \in Nat, NEW P \in SUBSET (1 .. n), P # {}
    PROVE  Max(P) \in P /\ \A x \in P : Max(P) >= x
<1> DEFINE T == {n - x : x \in P}
<1>1. T \in SUBSET Nat /\ T # {}
  <2>1. \A x \in P : x \in 1 .. n
    OBVIOUS
  <2>2. \A x \in P : n - x \in Nat
    BY <2>1
  <2> QED
    BY <2>2
<1>2. PICK t \in T : \A y \in T : t <= y
  BY <1>1, LeastNat
<1>3. PICK m \in P : t = n - m
  OBVIOUS
<1>4. \A x \in P : m >= x
  <2> TAKE x \in P
  <2>1. n - m <= n - x
    BY <1>2, <1>3
  <2> QED
    BY <2>1
<1> QED
  BY <1>3, <1>4, Zenon DEF Max

-----------------------------------------------------------------------------
\* The fold over a sequence visits the sets of its first positions.

\* f is the fold that adds up w over the subsets of 1 .. n.
Folds(f, w, n) ==
    f = [P \in SUBSET (1 .. n) |->
            IF P = {} THEN 0 ELSE f[P \ {Max(P)}] + w[Max(P)]]

\* Such a fold exists: from one for n, one for n + 1 is built by cases on whether
\* n + 1 is in the set.
LEMMA FoldExtends ==
    ASSUME NEW w, NEW n \in Nat, NEW f, Folds(f, w, n)
    PROVE  \E g : Folds(g, w, n + 1)
<1> DEFINE g == [P \in SUBSET (1 .. n + 1) |->
                    IF n + 1 \in P THEN f[P \ {n + 1}] + w[n + 1] ELSE f[P]]
<1>1. \A P \in SUBSET (1 .. n) :
         f[P] = IF P = {} THEN 0 ELSE f[P \ {Max(P)}] + w[Max(P)]
  BY Zenon DEF Folds
<1>2. ASSUME NEW P \in SUBSET (1 .. n + 1)
      PROVE  g[P] = IF P = {} THEN 0 ELSE g[P \ {Max(P)}] + w[Max(P)]
  <2>1. CASE n + 1 \in P
    <3>1. Max(P) \in P /\ Max(P) >= n + 1
      BY <2>1, MaxOfBounded, n + 1 \in Nat
    <3>2. Max(P) = n + 1
      <4>1. Max(P) \in 1 .. n + 1
        BY <3>1, Zenon
      <4> QED
        BY <3>1, <4>1
    <3>3. P \ {n + 1} \in SUBSET (1 .. n + 1) /\ n + 1 \notin P \ {n + 1}
      OBVIOUS
    <3>4. g[P \ {n + 1}] = f[P \ {n + 1}]
      BY <3>3
    <3>5. g[P] = f[P \ {n + 1}] + w[n + 1]
      BY <2>1
    <3> HIDE DEF g
    <3> QED
      BY <2>1, <3>2, <3>4, <3>5
  <2>2. CASE n + 1 \notin P
    <3>1. P \in SUBSET (1 .. n)
      BY <2>2
    <3>2. g[P] = f[P]
      BY <2>2
    <3>3. CASE P = {}
      BY <1>1, <3>1, <3>2, <3>3
    <3>4. CASE P # {}
      <4>1. P \ {Max(P)} \in SUBSET (1 .. n + 1) /\ n + 1 \notin P \ {Max(P)}
        BY <2>2
      <4>2. g[P \ {Max(P)}] = f[P \ {Max(P)}]
        BY <4>1
      <4> HIDE DEF g
      <4> QED
        BY <1>1, <3>1, <3>2, <3>4, <4>2
    <3> QED
      BY <3>3, <3>4
  <2> QED
    BY <2>1, <2>2
<1>3. g = [P \in SUBSET (1 .. n + 1) |->
              IF P = {} THEN 0 ELSE g[P \ {Max(P)}] + w[Max(P)]]
  <2> DEFINE h == [P \in SUBSET (1 .. n + 1) |->
                      IF P = {} THEN 0 ELSE g[P \ {Max(P)}] + w[Max(P)]]
  <2>1. \A P \in SUBSET (1 .. n + 1) : g[P] = h[P]
    BY <1>2, Zenon
  <2>2. g = [P \in SUBSET (1 .. n + 1) |-> g[P]] /\ h = [P \in SUBSET (1 .. n + 1) |-> h[P]]
    OBVIOUS
  <2> HIDE DEF g, h
  <2>3. g = h
    BY <2>1, <2>2, Zenon
  <2> QED
    BY <2>3 DEF h
<1> HIDE DEF g
<1> QED
  BY <1>3, Zenon DEF Folds

LEMMA FoldExists ==
    ASSUME NEW w, NEW n \in Nat
    PROVE  \E f : Folds(f, w, n)
<1> DEFINE T == {m \in Nat : ~\E f : Folds(f, w, m)}
<1>1. CASE T = {}
  BY <1>1
<1>2. CASE T # {}
  <2>1. PICK m \in T : \A k \in T : m <= k
    BY <1>2, LeastNat, T \in SUBSET Nat
  <2>2. CASE m = 0
    <3> DEFINE f == [P \in SUBSET (1 .. 0) |-> 0]
    <3>1. SUBSET (1 .. 0) = {{}}
      OBVIOUS
    <3>2. f = [P \in SUBSET (1 .. 0) |->
                  IF P = {} THEN 0 ELSE f[P \ {Max(P)}] + w[Max(P)]]
      BY <3>1
    <3> HIDE DEF f
    <3>3. Folds(f, w, 0)
      BY <3>2, Zenon DEF Folds
    <3> QED
      BY <2>1, <2>2, <3>3
  <2>3. CASE m # 0
    <3>1. m - 1 \in Nat /\ m - 1 \notin T
      BY <2>1, <2>3
    <3>2. PICK f : Folds(f, w, m - 1)
      BY <3>1
    <3>3. \E g : Folds(g, w, (m - 1) + 1)
      BY <3>1, <3>2, FoldExtends
    <3>4. (m - 1) + 1 = m
      BY <2>1
    <3> QED
      BY <2>1, <3>3, <3>4
  <2> QED
    BY <2>2, <2>3
<1> QED
  BY <1>1, <1>2

\* The running sums of a history, of which Cost is the last: the same order of
\* turns as in the code's sum().
LEMMA RunningSums ==
    ASSUME NEW s \in Seq(Turn)
    PROVE  \E c \in [0 .. Len(s) -> Nat] :
              /\ c[0] = 0
              /\ \A k \in 1 .. Len(s) : c[k] = c[k - 1] + s[k].tokens
              /\ Cost(s) = c[Len(s)]
<1> DEFINE n == Len(s)
           w == [i \in 1 .. n |-> s[i].tokens]
           S == 1 .. n
<1>0. n \in Nat /\ DOMAIN s = 1 .. n /\ \A i \in 1 .. n : s[i] \in Turn
  OBVIOUS
<1>1. \A i \in 1 .. n : w[i] = s[i].tokens /\ w[i] \in Nat
  BY <1>0, BudgetAssumption
<1>2. PICK g : Folds(g, w, n)
  BY <1>0, FoldExists
<1>3. g = [P \in SUBSET (1 .. n) |->
              IF P = {} THEN 0 ELSE g[P \ {Max(P)}] + s[Max(P)].tokens]
  <2>1. \A P \in SUBSET (1 .. n) : P # {} => Max(P) \in 1 .. n
    BY <1>0, MaxOfBounded
  <2>2. \A P \in SUBSET (1 .. n) : P # {} => w[Max(P)] = s[Max(P)].tokens
    BY <1>1, <2>1
  <2> HIDE DEF w
  <2>3. g = [P \in SUBSET (1 .. n) |->
                IF P = {} THEN 0 ELSE g[P \ {Max(P)}] + w[Max(P)]]
    BY <1>2, Zenon DEF Folds
  <2> QED
    BY <2>2, <2>3
<1>4. \E f : /\ f = [P \in SUBSET (1 .. n) |->
                        IF P = {} THEN 0 ELSE f[P \ {Max(P)}] + s[Max(P)].tokens]
             /\ Cost(s) = f[1 .. n]
  <2> DEFINE IsFold(f) == f = [P \in SUBSET (1 .. n) |->
                        IF P = {} THEN 0 ELSE f[P \ {Max(P)}] + s[Max(P)].tokens]
  <2>1. Cost(s) = (CHOOSE f : f = [P \in SUBSET DOMAIN s |->
                     IF P = {} THEN 0 ELSE f[P \ {Max(P)}] + s[Max(P)].tokens])[DOMAIN s]
    BY Zenon DEF Cost, FoldLeft, MapThenFoldSet
  <2>2. Cost(s) = (CHOOSE f : IsFold(f))[1 .. n]
    BY <1>0, <2>1, Zenon
  <2>3. IsFold(g)
    BY <1>3, Zenon
  <2> HIDE DEF IsFold
  <2>4. IsFold(CHOOSE f : IsFold(f))
    BY <2>3, Zenon
  <2> QED
    BY <2>2, <2>4, Zenon DEF IsFold
<1>5. PICK f : /\ f = [P \in SUBSET (1 .. n) |->
                        IF P = {} THEN 0 ELSE f[P \ {Max(P)}] + s[Max(P)].tokens]
              /\ Cost(s) = f[1 .. n]
  BY <1>4
<1>6. \A P \in SUBSET (1 .. n) :
         f[P] = IF P = {} THEN 0 ELSE f[P \ {Max(P)}] + s[Max(P)].tokens
  BY <1>5, Zenon
<1> HIDE DEF n
<1>7. f[1 .. 0] = 0
  <2>1. 1 .. 0 = {} /\ 1 .. 0 \in SUBSET (1 .. n)
    OBVIOUS
  <2> QED
    BY <1>6, <2>1
<1>8. \A k \in 1 .. n : f[1 .. k] = f[1 .. (k - 1)] + s[k].tokens
  <2> TAKE k \in 1 .. n
  <2>1. 1 .. k \in SUBSET (1 .. n) /\ 1 .. k # {} /\ k \in Nat /\ k \in 1 .. k
    BY <1>0
  <2>2. 1 .. k \in SUBSET (1 .. k)
    OBVIOUS
  <2>3. Max(1 .. k) \in 1 .. k /\ Max(1 .. k) >= k
    BY <2>1, <2>2, MaxOfBounded
  <2>4. Max(1 .. k) = k
    BY <2>1, <2>3
  <2>5. (1 .. k) \ {k} = 1 .. (k - 1)
    BY <2>1
  <2> QED
    BY <1>6, <2>1, <2>4, <2>5
<1> DEFINE c == [k \in 0 .. n |-> f[1 .. k]]
<1>9. c[0] = 0 /\ \A k \in 1 .. n : c[k] = c[k - 1] + s[k].tokens
  <2>1. 0 \in 0 .. n /\ \A k \in 1 .. n : k \in 0 .. n /\ k - 1 \in 0 .. n
    BY <1>0
  <2>2. \A k \in 0 .. n : c[k] = f[1 .. k]
    OBVIOUS
  <2> HIDE DEF c
  <2> QED
    BY <1>7, <1>8, <2>1, <2>2
<1>10. \A k \in 0 .. n : c[k] \in Nat
  <2> DEFINE T == {k \in 0 .. n : c[k] \notin Nat}
  <2> HIDE DEF c
  <2>1. CASE T = {}
    BY <2>1
  <2>2. CASE T # {}
    <3>1. PICK k \in T : \A j \in T : k <= j
      <4>1. T \in SUBSET Nat
        BY <1>0
      <4> HIDE DEF T
      <4> QED
        BY <2>2, <4>1, LeastNat
    <3>2. k # 0
      BY <1>9, <3>1
    <3>3. k \in 1 .. n /\ k - 1 \in 0 .. n /\ k - 1 \notin T
      BY <1>0, <3>1, <3>2
    <3>4. c[k - 1] \in Nat /\ s[k].tokens \in Nat
      BY <1>1, <3>3
    <3> QED
      BY <1>9, <3>1, <3>3, <3>4
  <2> QED
    BY <2>1, <2>2
<1>11. c \in [0 .. n -> Nat]
  <2>1. c = [k \in 0 .. n |-> c[k]]
    OBVIOUS
  <2> HIDE DEF c
  <2> QED
    BY <1>10, <2>1
<1>12. Cost(s) = c[n]
  <2>1. n \in 0 .. n
    BY <1>0
  <2>2. c[n] = f[1 .. n]
    BY <2>1
  <2> QED
    BY <1>5, <2>2, Zenon
<1> HIDE DEF c
<1> QED
  BY <1>9, <1>11, <1>12 DEF n

\* An empty history costs nothing.
LEMMA CostEmpty == Cost(<<>>) = 0
<1>1. <<>> \in Seq(Turn) /\ Len(<<>>) = 0
  OBVIOUS
<1> QED
  BY <1>1, RunningSums

LEMMA CostType ==
    ASSUME NEW s \in Seq(Turn)
    PROVE  Cost(s) \in Nat
<1>1. Len(s) \in 0 .. Len(s)
  OBVIOUS
<1> QED
  BY <1>1, RunningSums

\* What the running estimate loses by dropping a turn is what the history does.
LEMMA CostTail ==
    ASSUME NEW s \in Seq(Turn), s # <<>>
    PROVE  Cost(s) = Head(s).tokens + Cost(Tail(s))
<1> DEFINE n == Len(s)
           r == Tail(s)
<1>1. /\ r \in Seq(Turn) /\ n \in Nat /\ n # 0 /\ Len(r) = n - 1
      /\ Head(s) = s[1] /\ s[1] \in Turn
      /\ \A i \in 1 .. n - 1 : r[i] = s[i + 1]
  BY HeadTailProperties
<1> HIDE DEF n, r
<1>2. PICK c \in [0 .. n -> Nat] :
         /\ c[0] = 0
         /\ \A k \in 1 .. n : c[k] = c[k - 1] + s[k].tokens
         /\ Cost(s) = c[n]
  BY RunningSums DEF n
<1>3. PICK e \in [0 .. n - 1 -> Nat] :
         /\ e[0] = 0
         /\ \A k \in 1 .. n - 1 : e[k] = e[k - 1] + r[k].tokens
         /\ Cost(r) = e[n - 1]
  BY <1>1, RunningSums
<1>4. s[1].tokens \in Nat
  BY <1>1, BudgetAssumption
<1>5. \A k \in 1 .. n : c[k] = s[1].tokens + e[k - 1]
  <2> DEFINE T == {k \in 1 .. n : c[k] # s[1].tokens + e[k - 1]}
  <2>1. CASE T = {}
    BY <2>1
  <2>2. CASE T # {}
    <3>1. PICK k \in T : \A j \in T : k <= j
      <4>1. T \in SUBSET Nat
        OBVIOUS
      <4> HIDE DEF T
      <4> QED
        BY <2>2, <4>1, LeastNat
    <3>2. k \in 1 .. n /\ k \in Nat
      BY <1>1, <3>1
    <3>3. CASE k = 1
      <4>1. c[1] = c[0] + s[1].tokens
        BY <1>2, <3>2, <3>3
      <4> QED
        BY <1>2, <1>3, <1>4, <3>1, <3>3, <4>1
    <3>4. CASE k # 1
      <4>1. k - 1 \in 1 .. n - 1 /\ k - 1 \notin T /\ (k - 1) - 1 \in 0 .. n - 1
        BY <1>1, <3>1, <3>2, <3>4
      <4>2. c[k - 1] = s[1].tokens + e[(k - 1) - 1]
        BY <1>1, <4>1
      <4>3. c[k] = c[k - 1] + s[k].tokens
        BY <1>2, <3>2
      <4>4. e[k - 1] = e[(k - 1) - 1] + r[k - 1].tokens
        BY <1>3, <4>1
      <4>5. r[k - 1] = s[k]
        BY <1>1, <3>2, <4>1
      <4>6. s[k].tokens \in Nat
        BY <3>2, BudgetAssumption DEF n
      <4>7. e[(k - 1) - 1] \in Nat
        BY <1>3, <4>1
      <4> QED
        BY <1>4, <3>1, <4>2, <4>3, <4>4, <4>5, <4>6, <4>7
    <3> QED
      BY <3>3, <3>4
  <2> QED
    BY <2>1, <2>2
<1>6. n \in 1 .. n
  BY <1>1
<1> QED
  BY <1>1, <1>2, <1>3, <1>5, <1>6 DEF r

-----------------------------------------------------------------------------
Working == {"trim", "pair", "answered", "question_too_large"}

BudgetTypeOK ==
    /\ geometry \in Geometry /\ admittedIn \in Geometry
    /\ text \in Text \cup {NoText}
    /\ counted \in BOOLEAN
    /\ pc \in Working \cup {"no_document", "idle", "document_too_large"}
    /\ question \in Nat
    /\ asked \in Seq(Turn) /\ kept \in Seq(Turn)
    /\ spent \in Int /\ requested \in Nat /\ granted \in Int

\* "used" is the estimate of what is handed on, after every round.
SpentIsCost == pc \in Working => spent = question + Cost(kept)

\* What is left of the history is a suffix, and no longer one was usable.
TrimsUnusable ==
    pc \in Working =>
        \E i \in 1 .. Len(asked) + 1 :
            kept = Suffix(i) /\ \A j \in 1 .. i - 1 : ~Usable(j)

\* The answer budget is as requested until the request is settled, and a history
\* that outlives the first loop fits.
FitsUnlessEmpty ==
    /\ pc \in {"trim", "pair"} => granted = requested
    /\ pc = "pair" /\ kept # <<>> => ~Overflows

\* What settling a request decides.
Settled ==
    /\ pc = "answered" =>
          ~Overflows /\ (granted = requested \/ kept = <<>>)
    /\ pc = "question_too_large" => kept = <<>> /\ Available - spent < MinFit
    /\ pc \in {"answered", "question_too_large"} => ~LeadsWithAssistant

\* The upload passed the exact gate under the geometry of that moment.
PassedGate ==
    /\ pc # "no_document" =>
          /\ text \in Text
          /\ text.tokens + text.name <= TokenLimit(admittedIn)
    /\ pc = "document_too_large" => DocTokens > TokenLimit(geometry)

BudgetInv ==
    /\ BudgetTypeOK
    /\ SpentIsCost /\ TrimsUnusable
    /\ FitsUnlessEmpty /\ Settled
    /\ PassedGate

-----------------------------------------------------------------------------
\* The suffixes of the history that was sent.

LEMMA SuffixTail ==
    ASSUME asked \in Seq(Turn), NEW i \in 1 .. Len(asked)
    PROVE  /\ Suffix(i) \in Seq(Turn) /\ Suffix(i) # <<>>
           /\ Head(Suffix(i)) = asked[i] /\ asked[i] \in Turn
           /\ Tail(Suffix(i)) = Suffix(i + 1)
<1>1. Len(asked) \in i .. Len(asked) /\ \A j \in i .. Len(asked) : asked[j] \in Turn
  OBVIOUS
<1>2. Suffix(i) \in Seq(Turn) /\ Len(Suffix(i)) = Len(asked) - i + 1
  BY <1>1, SubSeqProperties DEF Suffix
<1>3. Head(Suffix(i)) = asked[i] /\ Tail(Suffix(i)) = Suffix(i + 1)
  BY <1>1, HeadTailOfSubSeq DEF Suffix
<1>4. Suffix(i) # <<>>
  BY <1>2
<1> QED
  BY <1>1, <1>2, <1>3, <1>4

LEMMA SuffixEnd ==
    ASSUME asked \in Seq(Turn)
    PROVE  Suffix(Len(asked) + 1) = <<>>
BY SubSeqEmpty DEF Suffix

\* The numbers the budget is computed from.
LEMMA BudgetNumbers ==
    ASSUME BudgetTypeOK
    PROVE  /\ \A g \in Geometry : SlotCtx(g) \in Int /\ TokenLimit(g) \in Int
           /\ DocTokens \in Int /\ Available \in Int
           /\ Reserve \in Nat /\ Overhead \in Nat
<1>1. ASSUME NEW g \in Geometry
      PROVE  SlotCtx(g) \in Int
  <2>1. g[1] \in Nat /\ g[2] \in Nat
    BY BudgetAssumption
  <2>2. (IF g[2] > 1 THEN g[2] ELSE 1) \in Nat \ {0}
    BY <2>1
  <2> QED
    BY <2>1, <2>2 DEF SlotCtx
<1>2. text.tokens \in Nat /\ text.chars \in Nat
  BY BudgetAssumption DEF BudgetTypeOK, NoText
<1>3. DocTokens \in Int
  BY <1>2 DEF DocTokens
<1>4. geometry \in Geometry /\ Reserve \in Nat /\ Overhead \in Nat
  BY BudgetAssumption DEF BudgetTypeOK
<1> QED
  BY <1>1, <1>3, <1>4 DEF TokenLimit, Available

\* What a round of either loop does to history and sum.
LEMMA RoundDrops ==
    ASSUME BudgetTypeOK, SpentIsCost, TrimsUnusable, pc \in Working,
           kept # <<>>, DropFirst, UNCHANGED <<asked, question>>,
           ~(/\ question + Cost(kept) + requested <= Available
             /\ Head(kept).role = "user"),
           UNCHANGED <<geometry, docVars, requested>>
    PROVE  /\ kept' \in Seq(Turn) /\ spent' \in Int /\ spent' < spent
           /\ spent' = question' + Cost(kept')
           /\ \E i \in 1 .. Len(asked') + 1 :
                 kept' = Suffix(i)' /\ \A j \in 1 .. i - 1 : ~Usable(j)'
<1>1. asked \in Seq(Turn) /\ kept \in Seq(Turn) /\ spent \in Int /\ question \in Nat
  BY DEF BudgetTypeOK
<1>2. PICK i \in 1 .. Len(asked) + 1 :
         kept = Suffix(i) /\ \A j \in 1 .. i - 1 : ~Usable(j)
  BY DEF TrimsUnusable
<1>3. i # Len(asked) + 1
  BY <1>1, <1>2, SuffixEnd
<1>4. i \in 1 .. Len(asked) /\ i + 1 \in 1 .. Len(asked) + 1
  BY <1>1, <1>3
<1>5. Head(kept) = asked[i] /\ asked[i] \in Turn /\ Tail(kept) = Suffix(i + 1)
  BY <1>1, <1>2, <1>4, SuffixTail
<1>6. asked[i].tokens \in Nat \ {0}
  BY <1>5, BudgetAssumption
<1>7. Tail(kept) \in Seq(Turn)
  BY <1>1, HeadTailProperties
<1>8. Cost(kept) = asked[i].tokens + Cost(Tail(kept))
  BY <1>1, <1>5, CostTail
<1>9. Cost(kept) \in Nat /\ Cost(Tail(kept)) \in Nat
  BY <1>1, <1>7, CostType
<1>10. kept' = Tail(kept) /\ spent' = spent - asked[i].tokens
  BY <1>5 DEF DropFirst
<1>11. spent = question + Cost(kept)
  BY DEF SpentIsCost
<1>12. ~Usable(i)
  BY <1>2, <1>5 DEF Usable
<1>13. \A j \in 1 .. (i + 1) - 1 : ~Usable(j)
  BY <1>2, <1>4, <1>12
<1>14. \A j : Usable(j)' <=> Usable(j)
  BY DEF Usable, Suffix, Available, DocTokens, docVars
<1>15. kept' = Suffix(i + 1)' /\ Len(asked') = Len(asked)
  BY <1>5, <1>10 DEF Suffix
<1>16. Cost(kept') = Cost(Tail(kept))
  BY <1>10
<1>17. spent' = question' + Cost(kept')
  <2>1. question' = question
    OBVIOUS
  <2>2. spent - asked[i].tokens = question + Cost(Tail(kept))
    <3>1. PICK t \in Nat : t = asked[i].tokens
      BY <1>6
    <3>2. PICK a \in Nat, b \in Nat : a = Cost(kept) /\ b = Cost(Tail(kept))
      BY <1>9, Zenon
    <3>3. a = t + b
      BY <1>8, <3>1, <3>2, Zenon
    <3>4. spent = question + a
      BY <1>11, <3>2, Zenon
    <3>5. spent - t = question + b
      BY <1>1, <3>3, <3>4
    <3> QED
      BY <3>1, <3>2, <3>5, Zenon
  <2> QED
    BY <1>10, <1>16, <2>1, <2>2, Zenon
<1>18. kept' \in Seq(Turn) /\ spent' \in Int /\ spent' < spent
  BY <1>1, <1>6, <1>7, <1>10
<1>19. \A j \in 1 .. (i + 1) - 1 : ~Usable(j)'
  BY <1>13, <1>14
<1>20. i + 1 \in 1 .. Len(asked') + 1
  BY <1>4, <1>15
<1> QED
  BY <1>15, <1>17, <1>18, <1>19, <1>20, Zenon

-----------------------------------------------------------------------------
\* The inductive invariant.

LEMMA BudgetInit == Init => BudgetInv
<1> SUFFICES ASSUME Init
             PROVE  BudgetInv
  OBVIOUS
<1>1. <<>> \in Seq(Turn)
  OBVIOUS
<1>2. asked \in Seq(Turn) /\ kept \in Seq(Turn)
  BY <1>1 DEF Init
<1>3. /\ geometry \in Geometry /\ admittedIn \in Geometry
      /\ text \in Text \cup {NoText}
  BY DEF Init
<1>4. counted \in BOOLEAN
  BY Zenon DEF Init
<1>5. /\ pc = "no_document"
      /\ question \in Nat /\ spent \in Int /\ requested \in Nat /\ granted \in Int
  BY DEF Init
<1>6. BudgetTypeOK
  BY <1>2, <1>3, <1>4, <1>5 DEF BudgetTypeOK
<1> QED
  BY <1>5, <1>6
  DEF Init, BudgetInv, SpentIsCost, TrimsUnusable, FitsUnlessEmpty, Settled,
      PassedGate, Working

LEMMA AdmitKeeps == ASSUME BudgetInv, Admit PROVE BudgetInv'
<1>1. BudgetTypeOK'
  BY DEF BudgetInv, Admit, BudgetTypeOK, Working
<1> QED
  BY <1>1
  DEF BudgetInv, Admit, SpentIsCost, TrimsUnusable, FitsUnlessEmpty, Settled,
      PassedGate, Working, TokenLimit, SlotCtx

LEMMA ReconfigureKeeps == ASSUME BudgetInv, Reconfigure PROVE BudgetInv'
<1>1. BudgetTypeOK'
  BY DEF BudgetInv, Reconfigure, BudgetTypeOK, docVars
<1> QED
  BY <1>1
  DEF BudgetInv, Reconfigure, SpentIsCost, TrimsUnusable, FitsUnlessEmpty, Settled,
      PassedGate, Working, docVars, TokenLimit, SlotCtx

LEMMA AskKeeps == ASSUME BudgetInv, Ask PROVE BudgetInv'
<1>1. PICK q \in Question, h \in SeqOf(Turn, MaxTurns), m \in MaxTokens :
         /\ question' = q /\ asked' = h /\ requested' = m
         /\ IF DocTokens > TokenLimit(geometry)
            THEN pc' = "document_too_large" /\ UNCHANGED <<kept, spent, granted>>
            ELSE pc' = "trim" /\ kept' = h /\ spent' = q + Cost(h) /\ granted' = m
  BY DEF Ask
<1>2. h \in Seq(Turn)
  BY DEF SeqOf
<1>3. q \in Nat /\ m \in Nat
  BY BudgetAssumption
<1>4. Cost(h) \in Nat
  BY <1>2, CostType
<1>5. pc = "idle" /\ UNCHANGED <<geometry, text, counted, admittedIn>>
  BY DEF Ask, docVars
<1>6. PassedGate'
  BY <1>1, <1>5
  DEF BudgetInv, PassedGate, TokenLimit, SlotCtx, DocTokens
<1>7. CASE DocTokens > TokenLimit(geometry)
  <2>1. pc' = "document_too_large" /\ UNCHANGED <<kept, spent, granted>>
    BY <1>1, <1>7
  <2>2. BudgetTypeOK'
    BY <1>1, <1>2, <1>3, <1>5, <2>1 DEF BudgetInv, BudgetTypeOK
  <2> QED
    BY <1>6, <2>1, <2>2
    DEF BudgetInv, SpentIsCost, TrimsUnusable, FitsUnlessEmpty, Settled, Working
<1>8. CASE ~(DocTokens > TokenLimit(geometry))
  <2>1. pc' = "trim" /\ kept' = h /\ spent' = q + Cost(h) /\ granted' = m
    BY <1>1, <1>8
  <2>2. BudgetTypeOK'
    BY <1>1, <1>2, <1>3, <1>4, <1>5, <2>1 DEF BudgetInv, BudgetTypeOK, Working
  <2>3. SpentIsCost'
    BY <1>1, <2>1 DEF SpentIsCost
  <2>4. kept' = Suffix(1)' /\ 1 \in 1 .. Len(asked') + 1
    BY <1>1, <1>2, <2>1, SubSeqFull DEF Suffix
  <2>5. TrimsUnusable'
    BY <2>4 DEF TrimsUnusable
  <2> QED
    BY <1>1, <1>6, <2>1, <2>2, <2>3, <2>5
    DEF BudgetInv, FitsUnlessEmpty, Settled
<1> QED
  BY <1>7, <1>8

LEMMA TrimOldestKeeps == ASSUME BudgetInv, TrimOldest PROVE BudgetInv'
<1>1. /\ pc = "trim" /\ kept # <<>> /\ Overflows /\ DropFirst
      /\ UNCHANGED <<geometry, text, counted, admittedIn, pc, question, asked,
                     requested, granted>>
  BY DEF TrimOldest, docVars
<1>2. BudgetTypeOK /\ SpentIsCost /\ TrimsUnusable /\ pc \in Working
  BY <1>1 DEF BudgetInv, Working
<1>3. ~(question + Cost(kept) + requested <= Available)
  <2>1. granted = requested /\ spent = question + Cost(kept)
    BY <1>1, <1>2 DEF BudgetInv, FitsUnlessEmpty, SpentIsCost
  <2>2. spent + requested > Available
    BY <1>1, <2>1 DEF Overflows
  <2>3. Available \in Int /\ spent \in Int /\ requested \in Int
    BY <1>2, BudgetNumbers DEF BudgetTypeOK
  <2>4. ~(spent + requested <= Available)
    BY <2>2, <2>3
  <2> QED
    BY <2>1, <2>4, Zenon
<1>4. /\ kept' \in Seq(Turn) /\ spent' \in Int
      /\ spent' = question' + Cost(kept')
      /\ \E i \in 1 .. Len(asked') + 1 :
            kept' = Suffix(i)' /\ \A j \in 1 .. i - 1 : ~Usable(j)'
  BY <1>1, <1>2, <1>3, RoundDrops DEF docVars
<1>5. BudgetTypeOK'
  BY <1>1, <1>2, <1>4 DEF BudgetTypeOK
<1>6. SpentIsCost' /\ TrimsUnusable'
  BY <1>4 DEF SpentIsCost, TrimsUnusable
<1> QED
  BY <1>1, <1>5, <1>6
  DEF BudgetInv, FitsUnlessEmpty, Settled, PassedGate, TokenLimit, SlotCtx

LEMMA TrimmedEnoughKeeps == ASSUME BudgetInv, TrimmedEnough PROVE BudgetInv'
<1>1. /\ pc = "trim" /\ ~(kept # <<>> /\ Overflows) /\ pc' = "pair"
      /\ UNCHANGED <<geometry, text, counted, admittedIn, question, asked, kept,
                     spent, requested, granted>>
  BY DEF TrimmedEnough, docVars
<1>2. BudgetTypeOK'
  BY <1>1 DEF BudgetInv, BudgetTypeOK, Working
<1>3. SpentIsCost'
  BY <1>1 DEF BudgetInv, SpentIsCost, Working
<1>4. TrimsUnusable'
  BY <1>1
  DEF BudgetInv, TrimsUnusable, Working, Suffix, Usable, Available, DocTokens, SlotCtx
<1>5. FitsUnlessEmpty'
  BY <1>1
  DEF BudgetInv, FitsUnlessEmpty, Overflows, Available, DocTokens, SlotCtx
<1> QED
  BY <1>1, <1>2, <1>3, <1>4, <1>5
  DEF BudgetInv, Settled, PassedGate, TokenLimit, SlotCtx

LEMMA TrimAssistantKeeps == ASSUME BudgetInv, TrimAssistant PROVE BudgetInv'
<1>1. /\ pc = "pair" /\ kept # <<>> /\ Head(kept).role = "assistant" /\ DropFirst
      /\ UNCHANGED <<geometry, text, counted, admittedIn, pc, question, asked,
                     requested, granted>>
  BY DEF TrimAssistant, LeadsWithAssistant, docVars
<1>2. BudgetTypeOK /\ SpentIsCost /\ TrimsUnusable /\ pc \in Working
  BY <1>1 DEF BudgetInv, Working
<1>3. /\ kept' \in Seq(Turn) /\ spent' \in Int /\ spent' < spent
      /\ spent' = question' + Cost(kept')
      /\ \E i \in 1 .. Len(asked') + 1 :
            kept' = Suffix(i)' /\ \A j \in 1 .. i - 1 : ~Usable(j)'
  BY <1>1, <1>2, RoundDrops DEF docVars
<1>4. BudgetTypeOK'
  BY <1>1, <1>2, <1>3 DEF BudgetTypeOK
<1>5. SpentIsCost' /\ TrimsUnusable'
  BY <1>3 DEF SpentIsCost, TrimsUnusable
<1>6. ~Overflows /\ granted = requested
  BY <1>1 DEF BudgetInv, FitsUnlessEmpty
<1>7. ~Overflows'
  <2>1. Available' = Available /\ granted' = granted
    BY <1>1 DEF Available, DocTokens, SlotCtx
  <2>2. Available \in Int /\ spent \in Int /\ granted \in Int
    BY <1>2, BudgetNumbers DEF BudgetTypeOK
  <2>3. ~(spent + granted > Available)
    BY <1>6 DEF Overflows
  <2>4. ~(spent' + granted > Available)
    BY <1>3, <2>2, <2>3
  <2> QED
    BY <2>1, <2>4 DEF Overflows
<1> QED
  BY <1>1, <1>4, <1>5, <1>6, <1>7
  DEF BudgetInv, FitsUnlessEmpty, Settled, PassedGate, TokenLimit, SlotCtx

LEMMA SettleKeeps == ASSUME BudgetInv, Settle PROVE BudgetInv'
<1>1. /\ pc = "pair" /\ ~LeadsWithAssistant
      /\ UNCHANGED <<geometry, text, counted, admittedIn, question, asked, kept,
                     spent, requested>>
  BY DEF Settle, docVars
<1>2. \/ ~Overflows /\ pc' = "answered" /\ UNCHANGED granted
      \/ /\ Overflows /\ Available - spent >= MinFit
         /\ granted' = Available - spent
         /\ pc' = "answered"
      \/ /\ Overflows /\ Available - spent < MinFit
         /\ pc' = "question_too_large"
         /\ UNCHANGED granted
  BY DEF Settle
<1>3. /\ BudgetTypeOK /\ granted = requested
      /\ kept # <<>> => ~Overflows
  BY <1>1 DEF BudgetInv, FitsUnlessEmpty
<1>4. Available \in Int /\ spent \in Int /\ granted \in Int
  BY <1>3, BudgetNumbers DEF BudgetTypeOK
<1>5. BudgetTypeOK'
  BY <1>1, <1>2, <1>3, <1>4 DEF BudgetTypeOK, Working
<1>6. SpentIsCost'
  BY <1>1, <1>2 DEF BudgetInv, SpentIsCost, Working
<1>7. TrimsUnusable'
  BY <1>1, <1>2
  DEF BudgetInv, TrimsUnusable, Working, Suffix, Usable, Available, DocTokens, SlotCtx
<1>8. Available' = Available /\ LeadsWithAssistant' = LeadsWithAssistant
  BY <1>1 DEF Available, DocTokens, SlotCtx, LeadsWithAssistant
<1>9. Settled'
  <2>1. CASE ~Overflows /\ pc' = "answered" /\ UNCHANGED granted
    BY <1>1, <1>3, <1>8, <2>1 DEF Settled, Overflows
  <2>2. CASE /\ Overflows /\ granted' = Available - spent
             /\ pc' = "answered"
    <3>1. kept' = <<>>
      BY <1>1, <1>3, <2>2
    <3>2. ~(spent + (Available - spent) > Available)
      BY <1>4
    <3>3. ~Overflows'
      BY <1>1, <1>8, <2>2, <3>2 DEF Overflows
    <3> QED
      BY <1>1, <1>8, <2>2, <3>1, <3>3 DEF Settled
  <2>3. CASE /\ Overflows /\ Available - spent < MinFit
             /\ pc' = "question_too_large"
    BY <1>1, <1>3, <1>8, <2>3 DEF Settled, MinFit
  <2> QED
    BY <1>2, <2>1, <2>2, <2>3
<1> QED
  BY <1>1, <1>2, <1>5, <1>6, <1>7, <1>9
  DEF BudgetInv, FitsUnlessEmpty, PassedGate, TokenLimit, SlotCtx

LEMMA ReturnKeeps == ASSUME BudgetInv, Return PROVE BudgetInv'
<1>1. /\ pc' = "idle" /\ pc # "no_document"
      /\ question' = 0 /\ asked' = <<>> /\ kept' = <<>>
      /\ spent' = 0 /\ requested' = 0 /\ granted' = 0
      /\ counted' \in BOOLEAN
      /\ UNCHANGED <<geometry, text, admittedIn>>
  BY DEF Return, BudgetInv, BudgetTypeOK
<1>2. <<>> \in Seq(Turn)
  OBVIOUS
<1>3. BudgetTypeOK'
  BY <1>1, <1>2 DEF BudgetInv, BudgetTypeOK
<1> QED
  BY <1>1, <1>3
  DEF BudgetInv, SpentIsCost, TrimsUnusable, FitsUnlessEmpty, Settled, PassedGate,
      Working, TokenLimit, SlotCtx

LEMMA StutterKeeps == ASSUME BudgetInv, UNCHANGED vars PROVE BudgetInv'
BY DEF BudgetInv, vars, docVars, BudgetTypeOK, SpentIsCost, TrimsUnusable, FitsUnlessEmpty,
       Settled, PassedGate, Working, Suffix, Usable, Overflows, Available, DocTokens,
       LeadsWithAssistant, TokenLimit, SlotCtx

LEMMA BudgetNext == BudgetInv /\ [Next]_vars => BudgetInv'
BY AdmitKeeps, ReconfigureKeeps, AskKeeps, TrimOldestKeeps, TrimmedEnoughKeeps,
   TrimAssistantKeeps, SettleKeeps, ReturnKeeps, StutterKeeps
DEF Next

LEMMA BudgetInvariant == Spec => []BudgetInv
BY BudgetInit, BudgetNext, PTL DEF Spec

-----------------------------------------------------------------------------
\* The promises of the budget.

\* Whatever document, geometry, history and answer length meet, an answer is only
\* generated when document, framing, question, the history handed on and the
\* tokens granted fit the slot, by the engine's own estimates.
THEOREM BudgetKept == Spec => []BudgetHolds
<1>1. BudgetInv => BudgetHolds
  <2> SUFFICES ASSUME BudgetInv, pc = "answered"
               PROVE  DocTokens + Overhead + question + Cost(kept) + granted
                         <= SlotCtx(geometry)
    BY DEF BudgetHolds
  <2>1. BudgetTypeOK /\ spent = question + Cost(kept) /\ ~(spent + granted > Available)
    BY DEF BudgetInv, SpentIsCost, Settled, Overflows, Working
  <2>2. /\ DocTokens \in Int /\ Overhead \in Int /\ SlotCtx(geometry) \in Int
        /\ question \in Int /\ granted \in Int
    BY <2>1, BudgetNumbers DEF BudgetTypeOK
  <2>3. PICK c \in Nat : c = Cost(kept)
    BY <2>1, CostType DEF BudgetTypeOK
  <2>4. spent = question + c
    BY <2>1, <2>3, Zenon
  <2>5. DocTokens + Overhead + question + c + granted <= SlotCtx(geometry)
    BY <2>1, <2>2, <2>3, <2>4 DEF Available
  <2> QED
    BY <2>3, <2>5, Zenon
<1> QED
  BY <1>1, BudgetInvariant, PTL

\* The two trimming loops, one dropping turns that do not fit and one dropping
\* answers without their question, end at the longest usable recent history.
THEOREM LongestHistoryKept == Spec => []KeptIsLongest
<1>1. BudgetInv => KeptIsLongest
  <2> SUFFICES ASSUME BudgetInv, pc \in {"answered", "question_too_large"}
               PROVE  \E i \in 1 .. Len(asked) + 1 :
                         /\ kept = Suffix(i)
                         /\ i <= Len(asked) => Usable(i)
                         /\ \A j \in 1 .. i - 1 : ~Usable(j)
    BY DEF KeptIsLongest
  <2>1. BudgetTypeOK /\ spent = question + Cost(kept) /\ ~LeadsWithAssistant
    BY DEF BudgetInv, SpentIsCost, Settled, Working
  <2>2. PICK i \in 1 .. Len(asked) + 1 :
           kept = Suffix(i) /\ \A j \in 1 .. i - 1 : ~Usable(j)
    BY DEF BudgetInv, TrimsUnusable, Working
  <2>3. ASSUME i <= Len(asked)
        PROVE  Usable(i)
    <3>1. asked \in Seq(Turn) /\ i \in 1 .. Len(asked)
      BY <2>1, <2>3 DEF BudgetTypeOK
    <3>2. kept # <<>> /\ Head(kept) = asked[i] /\ asked[i] \in Turn
      BY <2>2, <3>1, SuffixTail
    <3>3. asked[i].role = "user"
      BY <2>1, <3>2, BudgetAssumption DEF LeadsWithAssistant
    <3>4. granted = requested /\ ~(spent + granted > Available)
      BY <3>2 DEF BudgetInv, Settled, Overflows
    <3>5. spent \in Int /\ granted \in Int /\ Available \in Int
      BY <2>1, BudgetNumbers DEF BudgetTypeOK
    <3>6. spent + requested <= Available
      BY <3>4, <3>5
    <3>7. question + Cost(Suffix(i)) + requested <= Available
      BY <2>1, <2>2, <3>6, Zenon
    <3> QED
      BY <3>3, <3>7 DEF Usable
  <2> QED
    BY <2>2, <2>3
<1> QED
  BY <1>1, BudgetInvariant, PTL

\* An answer is cut short only after the whole history has been given up.
THEOREM HistoryGoesFirst == Spec => []ClampedAlone
<1>1. BudgetInv => ClampedAlone
  <2> SUFFICES ASSUME BudgetInv, pc = "answered", granted < requested
               PROVE  kept = <<>>
    BY DEF ClampedAlone
  <2>1. granted \in Int /\ requested \in Int
    BY DEF BudgetInv, BudgetTypeOK
  <2>2. granted # requested
    BY <2>1
  <2> QED
    BY <2>2 DEF BudgetInv, Settled
<1> QED
  BY <1>1, BudgetInvariant, PTL

\* What the gate at ingest lets in can be asked about: while the geometry is that of
\* the ingest and the row has its exact count, a question within the reserve is
\* never refused.
THEOREM AdmittedIsAnswered == Spec => []AdmittedIsAnswerable
<1>1. BudgetInv => AdmittedIsAnswerable
  <2> SUFFICES ASSUME BudgetInv, counted, geometry = admittedIn,
                      question <= Reserve - MinFit,
                      pc \in {"question_too_large", "document_too_large"}
               PROVE  FALSE
    BY DEF AdmittedIsAnswerable
  <2>1. /\ text \in Text /\ text.tokens + text.name <= TokenLimit(geometry)
        /\ text.tokens \in Nat /\ text.name \in Nat
    BY BudgetAssumption DEF BudgetInv, PassedGate
  <2>2. DocTokens = text.tokens
    BY DEF DocTokens
  <2>3. /\ BudgetTypeOK /\ TokenLimit(geometry) \in Int /\ SlotCtx(geometry) \in Int
        /\ Reserve \in Int /\ Overhead \in Int /\ question \in Int /\ spent \in Int
    BY BudgetNumbers DEF BudgetInv, BudgetTypeOK
  <2>4. CASE pc = "document_too_large"
    <3>1. DocTokens > TokenLimit(geometry)
      BY <2>4 DEF BudgetInv, PassedGate
    <3> QED
      BY <2>1, <2>2, <2>3, <3>1
  <2>5. CASE pc = "question_too_large"
    <3>1. kept = <<>> /\ spent = question + Cost(kept) /\ Available - spent < MinFit
      BY <2>5 DEF BudgetInv, Settled, SpentIsCost, Working
    <3>2. spent = question
      BY <2>3, <3>1, CostEmpty
    <3> QED
      BY <2>1, <2>2, <2>3, <3>1, <3>2 DEF Available, TokenLimit, MinFit
  <2> QED
    BY <2>4, <2>5
<1> QED
  BY <1>1, BudgetInvariant, PTL

\* A question is refused only when not even a minimal answer to it alone would fit
\* beside the document.
RefusalIsNeeded ==
    pc = "question_too_large" => Available - question < MinFit

\* query() refuses no question that could be answered without its history.
THEOREM RefusedAlone == Spec => []RefusalIsNeeded
<1>1. BudgetInv => RefusalIsNeeded
  <2> SUFFICES ASSUME BudgetInv, pc = "question_too_large"
               PROVE  Available - question < MinFit
    BY DEF RefusalIsNeeded
  <2>1. kept = <<>> /\ spent = question + Cost(kept) /\ Available - spent < MinFit
    BY DEF BudgetInv, Settled, SpentIsCost, Working
  <2>2. question \in Int
    BY DEF BudgetInv, BudgetTypeOK
  <2> QED
    BY <2>1, <2>2, CostEmpty
<1> QED
  BY <1>1, BudgetInvariant, PTL
=============================================================================
