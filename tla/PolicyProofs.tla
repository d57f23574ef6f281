---------------------------- MODULE PolicyProofs ----------------------------
(***************************************************************************)
(* Theorems of what admits, limits and derates, for any parameters: the    *)
(* breaker, which never stays half open for want of a trial; the allocator *)
(* of power, whose watts add up and stay within the limits; and the rules, *)
(* which strike the best deal, and which time and heat only tighten.       *)
(***************************************************************************)
EXTENDS Breaker, PowerBudget, DecisionRules, FiniteSetTheorems, TLAPS

-----------------------------------------------------------------------------
(***************************************************************************)
(* The circuit breaker.                                                    *)
(***************************************************************************)
Parameters == IsFiniteSet(Calls) /\ MaxRequests \in Nat \ {0}

Present == {c \in Calls : call[c] = "present"}

\* A half-open breaker lets a further trial through, or one is under way whose
\* end will close or open it.
NeverStuck ==
  breaker = "half_open" => counts.requests < MaxRequests \/ Present # {}

(***************************************************************************)
(* The inductive invariant: in a half-open generation every trial is under *)
(* way or has succeeded, and those that succeeded were not yet enough.     *)
(***************************************************************************)
TrialsCount ==
  breaker = "half_open" =>
    /\ counts.requests = Cardinality(Present) + counts.successes
    /\ counts.successes < MaxRequests

\* Calls of an open breaker belong to earlier generations.
OpenIsIdle == breaker = "open" => Present = {}

IInv == TypeOK /\ TrialsCount /\ OpenIsIdle

-----------------------------------------------------------------------------
LEMMA NoCountsTyped ==
  NoCounts \in Counts /\ NoCounts.requests = 0 /\ NoCounts.successes = 0
BY DEF NoCounts, Counts

\* A new generation begins with no call of its own.
LEMMA NewGeneration ==
  ASSUME Parameters, TypeOK, NEW state \in {"closed", "open", "half_open"},
         Become(state), UNCHANGED healthy,
         call' \in [Calls -> {"none", "past"}]
  PROVE  IInv'
<1>1. TypeOK'
  BY NoCountsTyped DEF TypeOK, Become
<1>2. Present' = {}
  BY DEF Present
<1>3. Cardinality({}) = 0
  BY FS_EmptySet
<1>4. counts'.requests = Cardinality(Present') + counts'.successes /\ counts'.successes < MaxRequests
  BY <1>2, <1>3, NoCountsTyped DEF Become, Parameters
<1> QED
  BY <1>1, <1>2, <1>4 DEF IInv, TrialsCount, OpenIsIdle

LEMMA PastTyped ==
  ASSUME TypeOK, NEW c \in Calls
  PROVE  Past \in [Calls -> {"none", "past"}] /\ [Past EXCEPT ![c] = "none"] \in [Calls -> {"none", "past"}]
BY DEF Past, TypeOK

LEMMA PresentIsFinite ==
  ASSUME Parameters
  PROVE  IsFiniteSet(Present) /\ Cardinality(Present) \in Nat
<1>1. Present \subseteq Calls
  BY DEF Present
<1>2. IsFiniteSet(Present)
  BY <1>1, FS_Subset DEF Parameters
<1> QED
  BY <1>2, FS_CardinalityType

LEMMA CountsAreNumbers ==
  ASSUME TypeOK
  PROVE  /\ counts \in Counts
         /\ counts.requests \in Nat /\ counts.failures \in Nat
         /\ counts.successes \in Nat /\ counts.consecutive \in Nat
BY DEF TypeOK, Counts

LEMMA BeginHolds ==
  ASSUME Parameters, IInv, NEW c \in Calls, Begin(c)
  PROVE  IInv'
<1> USE DEF IInv
<1>1. /\ counts' = [counts EXCEPT !.requests = @ + 1] /\ counts \in Counts
      /\ call' = [call EXCEPT ![c] = "present"] /\ call[c] = "none"
      /\ UNCHANGED <<breaker, healthy>> /\ breaker \in {"closed", "half_open"}
  BY DEF Begin, TypeOK
<1>2. /\ counts' \in Counts /\ counts'.requests = counts.requests + 1
      /\ counts'.successes = counts.successes
      /\ counts.requests \in Nat /\ counts.successes \in Nat
  BY <1>1 DEF Counts
<1>3. TypeOK'
  BY <1>1, <1>2 DEF TypeOK
<1>4. Present' = Present \cup {c} /\ c \notin Present
  BY <1>1 DEF Present, TypeOK
<1>5. Cardinality(Present') = Cardinality(Present) + 1 /\ Cardinality(Present) \in Nat
  BY <1>4, PresentIsFinite, FS_AddElement
<1>6. TrialsCount'
  BY <1>1, <1>2, <1>5 DEF TrialsCount, Parameters
<1>7. OpenIsIdle'
  BY <1>1 DEF OpenIsIdle
<1> QED
  BY <1>3, <1>6, <1>7

\* A call of the present generation that ends without changing the state.
LEMMA CountedHolds ==
  ASSUME Parameters, IInv, NEW c \in Calls, call[c] = "present",
         call' = [call EXCEPT ![c] = "none"], UNCHANGED <<breaker, healthy>>,
         counts' \in Counts,
         breaker = "half_open" =>
           /\ counts'.requests = counts.requests
           /\ counts'.successes = counts.successes + 1
           /\ counts'.successes < MaxRequests
  PROVE  IInv'
<1> USE DEF IInv
<1>1. TypeOK'
  BY DEF TypeOK
<1>2. Present' = Present \ {c} /\ c \in Present
  BY DEF Present, TypeOK
<1>3. Cardinality(Present') = Cardinality(Present) - 1 /\ Cardinality(Present) \in Nat
  BY <1>2, PresentIsFinite, FS_RemoveElement
<1>4. counts.requests \in Nat /\ counts.successes \in Nat
  BY DEF TypeOK, Counts
<1>5. TrialsCount'
  BY <1>3, <1>4 DEF TrialsCount
<1>6. OpenIsIdle'
  BY <1>2 DEF OpenIsIdle
<1> QED
  BY <1>1, <1>5, <1>6

LEMMA SucceedHolds ==
  ASSUME Parameters, IInv, NEW c \in Calls, Succeed(c)
  PROVE  IInv'
<1> USE DEF IInv
<1>1. Succeeded \in Counts /\ Succeeded.requests = counts.requests
      /\ Succeeded.successes = counts.successes + 1
      /\ counts.requests \in Nat /\ counts.successes \in Nat
  BY CountsAreNumbers DEF Succeeded, Counts
<1>2. CASE breaker = "half_open" /\ Closes(Succeeded)
  BY <1>2, PastTyped, NewGeneration DEF Succeed
<1>3. CASE ~(breaker = "half_open" /\ Closes(Succeeded))
  <2>1. /\ call[c] = "present" /\ counts' = Succeeded /\ call' = [call EXCEPT ![c] = "none"]
        /\ UNCHANGED <<breaker, healthy>>
    BY <1>3 DEF Succeed
  <2>2. breaker = "half_open" => Succeeded.successes < MaxRequests
    BY <1>1, <1>3 DEF Closes, Parameters
  <2> QED
    BY <1>1, <2>1, <2>2, CountedHolds
<1> QED
  BY <1>2, <1>3

LEMMA FailHolds ==
  ASSUME Parameters, IInv, NEW c \in Calls, Fail(c)
  PROVE  IInv'
<1> USE DEF IInv
<1>1. Failed \in Counts
  BY CountsAreNumbers DEF Failed, Counts
<1>2. CASE breaker = "half_open" \/ ReadyToTrip(Failed)
  <2>1. Become("open") /\ call' = [Past EXCEPT ![c] = "none"] /\ UNCHANGED healthy
    BY <1>2 DEF Fail
  <2> QED
    BY <2>1, PastTyped, NewGeneration
<1>3. CASE ~(breaker = "half_open" \/ ReadyToTrip(Failed))
  <2>1. /\ call[c] = "present" /\ counts' = Failed /\ call' = [call EXCEPT ![c] = "none"]
        /\ UNCHANGED <<breaker, healthy>>
    BY <1>3 DEF Fail
  <2> QED
    BY <1>1, <1>3, <2>1, CountedHolds
<1> QED
  BY <1>2, <1>3

LEMMA StepHolds ==
  ASSUME Parameters, IInv, [Next]_vars
  PROVE  IInv'
<1> USE DEF IInv
<1>1. ASSUME NEW c \in Calls, EndLate(c)
      PROVE  IInv'
  <2>1. TypeOK'
    BY <1>1 DEF EndLate, TypeOK
  <2>2. Present' = Present
    BY <1>1 DEF EndLate, Present, TypeOK
  <2> QED
    BY <1>1, <2>1, <2>2 DEF EndLate, TrialsCount, OpenIsIdle
<1>2. ASSUME HalfOpen
      PROVE  IInv'
  <2>1. Past \in [Calls -> {"none", "past"}]
    BY DEF Past, TypeOK
  <2> QED
    BY <1>2, <2>1, NewGeneration DEF HalfOpen
<1>3. ASSUME Change \/ UNCHANGED vars
      PROVE  IInv'
  BY <1>3 DEF Change, vars, TypeOK, TrialsCount, OpenIsIdle, Present
<1> QED
  BY <1>1, <1>2, <1>3, BeginHolds, SucceedHolds, FailHolds DEF Next, End

LEMMA Inductive ==
  ASSUME Parameters
  PROVE  Spec => []IInv
<1>1. ASSUME Init PROVE IInv
  <2>1. TypeOK
    BY <1>1, NoCountsTyped DEF Init, TypeOK
  <2> QED
    BY <1>1, <2>1 DEF Init, IInv, TrialsCount, OpenIsIdle
<1>2. IInv /\ [Next]_vars => IInv'
  BY StepHolds
<1> QED
  BY <1>1, <1>2, PTL DEF Spec

-----------------------------------------------------------------------------
\* Every reachable state of the breaker in front of Execute is well typed.
THEOREM BreakerTypeCorrect ==
  ASSUME Parameters
  PROVE  Spec => []TypeOK
<1>1. IInv => TypeOK
  BY DEF IInv
<1> QED
  BY <1>1, Inductive, PTL

\* A half-open breaker never refuses every call for good: it lets a trial
\* through, or one is under way that will decide.  Recovers rests on it.
THEOREM HalfOpenDecides ==
  ASSUME Parameters
  PROVE  Spec => []NeverStuck
<1>1. ASSUME IInv PROVE NeverStuck
  <2>1. counts.requests \in Nat /\ counts.successes \in Nat
    BY <1>1 DEF IInv, TypeOK, Counts
  <2>2. CASE Present = {}
    <3>1. Cardinality(Present) = 0
      BY <2>2, FS_EmptySet
    <3> QED
      BY <1>1, <2>1, <3>1 DEF IInv, TrialsCount, NeverStuck, Parameters
  <2> QED
    BY <2>2 DEF NeverStuck
<1> QED
  BY <1>1, Inductive, PTL

-----------------------------------------------------------------------------
(***************************************************************************)
(* Sums over finite sets.  What the fold computes is shown by a smallest   *)
(* counterexample, for the provers take no induction on an operator.       *)
(***************************************************************************)
\* A set of subsets of a finite set that is not empty has a smallest member.
LEMMA SmallestSubset ==
  ASSUME NEW S, IsFiniteSet(S), NEW Bad \in SUBSET SUBSET S, Bad # {}
  PROVE  \E T \in Bad : \A U \in SUBSET T : U # T => U \notin Bad
<1>1. IsWellFoundedOn(StrictSubsetOrdering(S), SUBSET S)
  BY FS_StrictSubsetOrderingWellFounded, FS_FiniteSubsetsOfFinite
<1>2. PICK T \in Bad : \A U \in Bad : ~ (<<U, T>> \in StrictSubsetOrdering(S))
  BY <1>1, WFMin
<1>3. ASSUME NEW U \in SUBSET T, U # T, U \in Bad
      PROVE  FALSE
  <2>1. <<U, T>> \in (SUBSET S) \X (SUBSET S)
    BY <1>3
  <2>2. <<U, T>> \in StrictSubsetOrdering(S)
    BY <1>3, <2>1 DEF StrictSubsetOrdering
  <2> QED
    BY <1>2, <1>3, <2>2
<1> QED
  BY <1>3

First(s) == CHOOSE x \in s : TRUE

LEMMA FirstIsIn ==
  ASSUME NEW s, s # {}
  PROVE  First(s) \in s /\ s \ {First(s)} \in SUBSET s /\ s \ {First(s)} # s
BY DEF First

\* What the fold makes of a set, given what it makes of smaller ones; the
\* functions that do so throughout S; and the one that the fold takes.
Added(f, g, s) == IF s = {} THEN 0 ELSE f[First(s)] + g[s \ {First(s)}]

Adds(f, g, S) == g = [s \in SUBSET S |-> Added(f, g, s)]

Partial(f, S) == CHOOSE g : Adds(f, g, S)

LEMMA AddsOf ==
  ASSUME NEW f, NEW g, NEW S, Adds(f, g, S), NEW s \in SUBSET S
  PROVE  g[s] = Added(f, g, s)
<1> DEFINE h == [t \in SUBSET S |-> Added(f, g, t)]
<1>1. h[s] = Added(f, g, s)
  OBVIOUS
<1>2. g = h
  BY DEF Adds
<1> HIDE DEF h
<1> QED
  BY <1>1, <1>2

LEMMA AddsAgree ==
  ASSUME NEW f, NEW S, IsFiniteSet(S), NEW T \in SUBSET S, NEW g, NEW h,
         Adds(f, g, S), Adds(f, h, T)
  PROVE  \A s \in SUBSET T : g[s] = h[s]
<1> DEFINE Bad == {s \in SUBSET T : g[s] # h[s]}
<1>1. SUFFICES ASSUME Bad # {} PROVE FALSE
  OBVIOUS
<1>2. PICK s \in Bad : \A u \in SUBSET s : u # s => u \notin Bad
  <2>1. IsFiniteSet(T) /\ Bad \in SUBSET SUBSET T
    BY FS_Subset
  <2> HIDE DEF Bad
  <2> QED
    BY <1>1, <2>1, SmallestSubset
<1>3. g[s] = Added(f, g, s) /\ h[s] = Added(f, h, s)
  BY AddsOf
<1>4. CASE s = {}
  BY <1>3, <1>4 DEF Added
<1>5. CASE s # {}
  <2> DEFINE u == s \ {First(s)}
  <2>1. u \in SUBSET s /\ u # s
    BY <1>5, FirstIsIn
  <2>2. g[u] = h[u]
    BY <1>2, <2>1
  <2> QED
    BY <1>2, <1>3, <1>5, <2>2 DEF Added
<1> QED
  BY <1>4, <1>5

LEMMA AddsExists ==
  ASSUME NEW f, NEW S, IsFiniteSet(S)
  PROVE  Adds(f, Partial(f, S), S)
<1> DEFINE Bad == {s \in SUBSET S : ~ \E g : Adds(f, g, s)}
<1>1. ASSUME Bad # {} PROVE FALSE
  <2>1. PICK T \in Bad : \A u \in SUBSET T : u # T => u \notin Bad
    <3>1. Bad \in SUBSET SUBSET S
      OBVIOUS
    <3> HIDE DEF Bad
    <3> QED
      BY <1>1, <3>1, SmallestSubset
  <2> DEFINE Val(u) == Partial(f, u)[u]
             G == [s \in SUBSET T |-> IF s = {} THEN 0 ELSE f[First(s)] + Val(s \ {First(s)})]
  <2>2. ASSUME NEW u \in SUBSET T, u # T
        PROVE  Adds(f, Partial(f, u), u)
    BY <2>1, <2>2 DEF Partial
  <2>3. ASSUME NEW u \in SUBSET T, u # T
        PROVE  G[u] = Val(u)
    <3>1. Val(u) = Added(f, Partial(f, u), u)
      BY <2>2, <2>3, AddsOf
    <3>2. CASE u = {}
      BY <3>1, <3>2 DEF Added
    <3>3. CASE u # {}
      <4> DEFINE w == u \ {First(u)}
      <4>1. w \in SUBSET u /\ w # T
        BY <2>3, <3>3, FirstIsIn
      <4>2. Adds(f, Partial(f, w), w) /\ Adds(f, Partial(f, u), u) /\ IsFiniteSet(u)
        BY <2>2, <2>3, <4>1, FS_Subset
      <4>3. Partial(f, u)[w] = Partial(f, w)[w]
        <5> HIDE DEF w
        <5> QED
          BY <4>1, <4>2, AddsAgree
      <4> QED
        BY <3>1, <3>3, <4>3 DEF Added
    <3> QED
      BY <3>2, <3>3
  <2>4. ASSUME NEW s \in SUBSET T
        PROVE  G[s] = Added(f, G, s)
    <3>1. CASE s = {}
      BY <3>1 DEF Added
    <3>2. CASE s # {}
      <4>1. s \ {First(s)} \in SUBSET T /\ s \ {First(s)} # T
        BY <3>2, FirstIsIn
      <4>2. G[s \ {First(s)}] = Val(s \ {First(s)})
        BY <2>3, <4>1
      <4>3. G[s] = f[First(s)] + Val(s \ {First(s)})
        BY <3>2
      <4> HIDE DEF G, Val
      <4> QED
        BY <3>2, <4>2, <4>3 DEF Added
    <3> QED
      BY <3>1, <3>2
  <2>5. G = [s \in SUBSET T |-> G[s]]
    OBVIOUS
  <2> HIDE DEF G
  <2>6. Adds(f, G, T)
    BY <2>4, <2>5 DEF Adds
  <2> QED
    BY <2>1, <2>6
<1>2. \E g : Adds(f, g, S)
  BY <1>1
<1> QED
  BY <1>2 DEF Partial

LEMMA SumIsPartial ==
  ASSUME NEW f, NEW S
  PROVE  SumFunctionOnSet(f, S) = Partial(f, S)[S]
BY DEF Partial, Adds, Added, First, SumFunctionOnSet, FoldFunctionOnSet, MapThenFoldSet

\* How the fold adds up: it takes one member, and the sum of the others.
LEMMA SumStep ==
  ASSUME NEW f, NEW S, IsFiniteSet(S)
  PROVE  /\ S = {} => SumFunctionOnSet(f, S) = 0
         /\ S # {} => SumFunctionOnSet(f, S) =
                        f[First(S)] + SumFunctionOnSet(f, S \ {First(S)})
<1>1. SumFunctionOnSet(f, S) = Added(f, Partial(f, S), S)
  BY SumIsPartial, AddsExists, AddsOf
<1>2. ASSUME S # {}
      PROVE  Partial(f, S)[S \ {First(S)}] = SumFunctionOnSet(f, S \ {First(S)})
  <2> DEFINE T == S \ {First(S)}
  <2>1. T \in SUBSET S /\ IsFiniteSet(T)
    BY FS_Subset
  <2>2. Adds(f, Partial(f, T), T) /\ Adds(f, Partial(f, S), S)
    BY <2>1, AddsExists
  <2> HIDE DEF T
  <2>3. Partial(f, S)[T] = Partial(f, T)[T]
    BY <2>1, <2>2, AddsAgree
  <2> QED
    BY <2>3, SumIsPartial DEF T
<1> QED
  BY <1>1, <1>2 DEF Added

LEMMA SumIsNat ==
  ASSUME NEW S, IsFiniteSet(S), NEW f, \A x \in S : f[x] \in Nat
  PROVE  SumFunctionOnSet(f, S) \in Nat
<1> DEFINE Bad == {s \in SUBSET S : SumFunctionOnSet(f, s) \notin Nat}
<1>1. ASSUME Bad # {} PROVE FALSE
  <2>1. PICK T \in Bad : \A u \in SUBSET T : u # T => u \notin Bad
    <3>1. Bad \in SUBSET SUBSET S
      OBVIOUS
    <3> HIDE DEF Bad
    <3> QED
      BY <1>1, <3>1, SmallestSubset
  <2>2. IsFiniteSet(T)
    BY FS_Subset
  <2>3. CASE T = {}
    <3>1. SumFunctionOnSet(f, T) = 0
      BY <2>2, <2>3, SumStep
    <3> QED
      BY <3>1
  <2>4. CASE T # {}
    <3>1. SumFunctionOnSet(f, T \ {First(T)}) \in Nat
      BY <2>1, <2>4, FirstIsIn
    <3>2. f[First(T)] \in Nat
      BY <2>4, FirstIsIn
    <3>3. SumFunctionOnSet(f, T) = f[First(T)] + SumFunctionOnSet(f, T \ {First(T)})
      BY <2>2, <2>4, SumStep
    <3> QED
      BY <3>1, <3>2, <3>3
  <2> QED
    BY <2>3, <2>4
<1> QED
  BY <1>1

\* The order does not matter: any member can be taken first.
LEMMA SumTakes ==
  ASSUME NEW S, IsFiniteSet(S), NEW f, \A x \in S : f[x] \in Nat, NEW a \in S
  PROVE  SumFunctionOnSet(f, S) = f[a] + SumFunctionOnSet(f, S \ {a})
<1> DEFINE Sum(s) == SumFunctionOnSet(f, s)
           Bad == {s \in SUBSET S : \E b \in s : Sum(s) # f[b] + Sum(s \ {b})}
<1>1. ASSUME Bad # {} PROVE FALSE
  <2>1. PICK T \in Bad : \A u \in SUBSET T : u # T => u \notin Bad
    <3>1. Bad \in SUBSET SUBSET S
      OBVIOUS
    <3> HIDE DEF Bad
    <3> QED
      BY <1>1, <3>1, SmallestSubset
  <2>2. PICK b \in T : Sum(T) # f[b] + Sum(T \ {b})
    OBVIOUS
  <2> DEFINE x == First(T)
  <2>3. x \in T /\ \A s \in SUBSET T : IsFiniteSet(s) /\ Sum(s) \in Nat
    <3>1. x \in T
      BY <2>2, FirstIsIn
    <3>2. ASSUME NEW s \in SUBSET T PROVE IsFiniteSet(s) /\ Sum(s) \in Nat
      BY SumIsNat, FS_Subset
    <3> QED
      BY <3>1, <3>2
  <2>4. Sum(T) = f[x] + Sum(T \ {x})
    BY <2>2, <2>3, SumStep
  <2>5. x # b
    BY <2>2, <2>4
  <2>6. Sum(T \ {x}) = f[b] + Sum((T \ {x}) \ {b})
    BY <2>1, <2>3, <2>5
  <2>7. Sum(T \ {b}) = f[x] + Sum((T \ {b}) \ {x})
    BY <2>1, <2>3, <2>5
  <2> DEFINE rest == Sum((T \ {x}) \ {b})
  <2>8. Sum((T \ {b}) \ {x}) = rest
    <3>1. (T \ {b}) \ {x} = (T \ {x}) \ {b}
      OBVIOUS
    <3> QED
      BY <3>1
  <2>9. rest \in Nat /\ f[b] \in Nat /\ f[x] \in Nat
    BY <2>3
  <2>10. /\ Sum(T) = f[x] + (f[b] + rest)
         /\ f[b] + Sum(T \ {b}) = f[b] + (f[x] + rest)
    BY <2>4, <2>6, <2>7, <2>8
  <2> HIDE DEF Sum, x, rest
  <2>11. f[x] + (f[b] + rest) = f[b] + (f[x] + rest)
    BY <2>9
  <2> QED
    BY <2>2, <2>10, <2>11
<1>2. S \notin Bad
  BY <1>1
<1> QED
  BY <1>2

\* Only the members count.
LEMMA SumAgrees ==
  ASSUME NEW S, IsFiniteSet(S), NEW f, NEW g, \A x \in S : f[x] = g[x]
  PROVE  SumFunctionOnSet(f, S) = SumFunctionOnSet(g, S)
<1> DEFINE Bad == {s \in SUBSET S : SumFunctionOnSet(f, s) # SumFunctionOnSet(g, s)}
<1>1. ASSUME Bad # {} PROVE FALSE
  <2>1. PICK T \in Bad : \A u \in SUBSET T : u # T => u \notin Bad
    <3>1. Bad \in SUBSET SUBSET S
      OBVIOUS
    <3> HIDE DEF Bad
    <3> QED
      BY <1>1, <3>1, SmallestSubset
  <2>2. IsFiniteSet(T)
    BY FS_Subset
  <2>3. CASE T = {}
    BY <2>2, <2>3, SumStep
  <2>4. CASE T # {}
    <3>1. /\ SumFunctionOnSet(f, T \ {First(T)}) = SumFunctionOnSet(g, T \ {First(T)})
          /\ f[First(T)] = g[First(T)]
      BY <2>1, <2>4, FirstIsIn
    <3> QED
      BY <2>1, <2>2, <2>4, <3>1, SumStep
  <2> QED
    BY <2>3, <2>4
<1> QED
  BY <1>1

\* Adding a member adds what it has.
LEMMA SumWith ==
  ASSUME NEW S, IsFiniteSet(S), NEW x, x \notin S, NEW f, NEW g,
         f[x] \in Nat, \A y \in S : g[y] \in Nat /\ f[y] = g[y]
  PROVE  /\ SumFunctionOnSet(f, S \cup {x}) = f[x] + SumFunctionOnSet(g, S)
         /\ SumFunctionOnSet(g, S) \in Nat
<1>1. IsFiniteSet(S \cup {x})
  BY FS_AddElement
<1>2. \A y \in S \cup {x} : f[y] \in Nat
  OBVIOUS
<1>3. SumFunctionOnSet(f, S \cup {x}) = f[x] + SumFunctionOnSet(f, (S \cup {x}) \ {x})
  <2> DEFINE T == S \cup {x}
  <2>1. IsFiniteSet(T) /\ x \in T /\ \A y \in T : f[y] \in Nat
    BY <1>1, <1>2
  <2> HIDE DEF T
  <2>2. SumFunctionOnSet(f, T) = f[x] + SumFunctionOnSet(f, T \ {x})
    BY <2>1, SumTakes
  <2> QED
    BY <2>2 DEF T
<1>4. (S \cup {x}) \ {x} = S
  OBVIOUS
<1>5. SumFunctionOnSet(f, S) = SumFunctionOnSet(g, S)
  BY SumAgrees
<1> QED
  BY <1>3, <1>4, <1>5, SumIsNat

\* Changing what one member has changes the sum by the same.
LEMMA SumChanges ==
  ASSUME NEW S, IsFiniteSet(S), NEW x \in S, NEW f, NEW g,
         \A y \in S : f[y] \in Nat /\ g[y] \in Nat,
         \A y \in S : y # x => g[y] = f[y]
  PROVE  /\ SumFunctionOnSet(f, S) \in Nat /\ SumFunctionOnSet(g, S) \in Nat
         /\ SumFunctionOnSet(g, S) + f[x] = SumFunctionOnSet(f, S) + g[x]
<1> DEFINE T == S \ {x}
<1>1. IsFiniteSet(T)
  BY FS_Subset
<1>2. SumFunctionOnSet(f, S) = f[x] + SumFunctionOnSet(f, T)
  BY SumTakes
<1>3. SumFunctionOnSet(g, S) = g[x] + SumFunctionOnSet(g, T)
  BY SumTakes
<1>4. x \notin T /\ \A y \in T : f[y] \in Nat /\ f[y] = g[y]
  OBVIOUS
<1> HIDE DEF T
<1>5. SumFunctionOnSet(g, T) = SumFunctionOnSet(f, T) /\ SumFunctionOnSet(f, T) \in Nat
  BY <1>1, <1>4, SumAgrees, SumIsNat
<1> QED
  BY <1>2, <1>3, <1>5

-----------------------------------------------------------------------------
(***************************************************************************)
(* The allocator of charging power.                                        *)
(***************************************************************************)
Held == [id \in Ids |-> active[id].watts]

\* Clients may choose from infinitely many ids; those in use are finitely many.
FinitelyMany == \A p \in Ports : IsFiniteSet(On(p))

PowerInv == PowerTypeOK /\ FinitelyMany /\ BudgetKept

LEMMA PowerTypes ==
  ASSUME PowerTypeOK
  PROVE  /\ current \in [Ports -> Nat] /\ initial \in [Ports -> Nat] /\ enabled \subseteq Ports
         /\ active \in [Ids -> Allocation \cup {NoAllocation}]
         /\ MaxWatts \in [Ports -> Nat \ {0}] /\ TotalCap \in Nat
         /\ IsFiniteSet(Ports) /\ UsedWatts \in Nat
         /\ \A id \in Ids : Held[id] = active[id].watts /\ Held[id] \in Nat
<1>1. /\ current \in [Ports -> Nat] /\ initial \in [Ports -> Nat] /\ enabled \subseteq Ports
      /\ active \in [Ids -> Allocation \cup {NoAllocation}]
      /\ MaxWatts \in [Ports -> Nat \ {0}] /\ TotalCap \in Nat /\ IsFiniteSet(Ports)
  BY LimitsPositive, PortsAreFinite DEF PowerTypeOK
<1>2. UsedWatts \in Nat
  BY <1>1, SumIsNat DEF UsedWatts
<1>3. \A id \in Ids : Held[id] = active[id].watts /\ Held[id] \in Nat
  BY <1>1 DEF Held, Allocation, NoAllocation
<1> QED
  BY <1>1, <1>2, <1>3

\* An allocation is put on its port, and its watts on those of the port.
LEMMA AllocateFits ==
  ASSUME PowerInv, NEW id \in Ids, NEW p \in Ports, NEW watts \in Amounts,
         Allocate(id, p, watts)
  PROVE  PowerInv'
<1>0. PowerTypeOK /\ FinitelyMany /\ PortsAddUp /\ WithinLimits
  BY DEF PowerInv, BudgetKept
<1>1. /\ watts \in Nat \ {0} /\ watts + current[p] <= MaxWatts[p]
      /\ UsedWatts + watts <= TotalCap /\ active[id] = NoAllocation
      /\ current' = [current EXCEPT ![p] = @ + watts]
      /\ active' = [active EXCEPT ![id] = [port |-> p, watts |-> watts]]
      /\ UNCHANGED <<enabled, initial>>
  BY WattsAreNumbers DEF Allocate, Fits, Reserve
<1>2. PowerTypeOK'
  <2>1. [port |-> p, watts |-> watts] \in Allocation
    BY <1>1 DEF Allocation
  <2>2. active' \in [Ids -> Allocation \cup {NoAllocation}]
    BY <1>0, <1>1, <2>1, PowerTypes
  <2>3. current' \in [Ports -> Nat]
    BY <1>0, <1>1, PowerTypes
  <2> QED
    BY <1>0, <1>1, <2>2, <2>3, PowerTypes DEF PowerTypeOK
<1>3. On(p)' = On(p) \cup {id} /\ \A k \in Ports : id \notin On(k) /\ (k # p => On(k)' = On(k))
  BY <1>0, <1>1, PowerTypes, PortsAreFinite DEF On, NoAllocation
<1>4. \A d \in Ids : Held'[d] \in Nat /\ Held'[d] = IF d = id THEN watts ELSE Held[d]
  BY <1>0, <1>1, PowerTypes DEF Held
<1>5. FinitelyMany'
  <2>1. IsFiniteSet(On(p) \cup {id})
    BY <1>0, FS_AddElement DEF FinitelyMany
  <2> QED
    BY <1>0, <1>3, <2>1 DEF FinitelyMany
<1>6. PortsAddUp'
  <2> SUFFICES ASSUME NEW k \in Ports
               PROVE  current'[k] = initial'[k] + SumFunctionOnSet(Held', On(k)')
    BY DEF PortsAddUp, Held
  <2>1. IsFiniteSet(On(k)) /\ On(k) \subseteq Ids /\ id \notin On(k)
    BY <1>0, <1>3 DEF FinitelyMany, On
  <2>2. current[k] = initial[k] + SumFunctionOnSet(Held, On(k))
    BY <1>0 DEF PortsAddUp, Held
  <2>3. \A d \in On(k) : Held'[d] = Held[d] /\ Held[d] \in Nat
    BY <1>0, <1>4, <2>1, PowerTypes
  <2>4. CASE k = p
    <3>1. /\ SumFunctionOnSet(Held', On(k) \cup {id}) = Held'[id] + SumFunctionOnSet(Held, On(k))
          /\ SumFunctionOnSet(Held, On(k)) \in Nat
      BY <1>4, <2>1, <2>3, SumWith
    <3>2. current'[k] = current[k] + watts /\ initial'[k] = initial[k] /\ initial[k] \in Nat
      BY <1>0, <1>1, <2>4, PowerTypes
    <3>3. Held'[id] = watts /\ On(k)' = On(k) \cup {id}
      BY <1>3, <1>4, <2>4
    <3> QED
      BY <1>1, <2>2, <3>1, <3>2, <3>3
  <2>5. CASE k # p
    <3>1. SumFunctionOnSet(Held', On(k)) = SumFunctionOnSet(Held, On(k))
      BY <2>1, <2>3, SumAgrees
    <3>2. current'[k] = current[k] /\ initial'[k] = initial[k] /\ On(k)' = On(k)
      BY <1>0, <1>1, <1>3, <2>5, PowerTypes
    <3> QED
      BY <2>2, <3>1, <3>2
  <2> QED
    BY <2>4, <2>5
<1>7. WithinLimits'
  <2>1. ASSUME NEW k \in Ports, On(k)' # {}
        PROVE  current'[k] <= MaxWatts[k]
    <3>1. CASE k = p
      BY <1>0, <1>1, <3>1, PowerTypes
    <3>2. CASE k # p
      BY <1>0, <1>1, <1>3, <2>1, <3>2, PowerTypes DEF WithinLimits
    <3> QED
      BY <3>1, <3>2
  <2>2. UsedWatts' <= TotalCap
    <3>1. \A k \in Ports : current[k] \in Nat /\ current'[k] \in Nat
      BY <1>0, <1>2, PowerTypes DEF PowerTypeOK
    <3>2. current'[p] = current[p] + watts /\ \A k \in Ports : k # p => current'[k] = current[k]
      BY <1>0, <1>1, PowerTypes
    <3>3. IsFiniteSet(Ports) /\ \A k \in Ports : k # p => current'[k] = current[k]
      BY <3>2, PortsAreFinite
    <3>4. /\ UsedWatts \in Nat /\ UsedWatts' \in Nat
          /\ UsedWatts' + current[p] = UsedWatts + current'[p]
      BY ONLY <3>1, <3>3, p \in Ports, SumChanges DEF UsedWatts
    <3> QED
      BY <1>0, <1>1, <3>1, <3>2, <3>4, PowerTypes
  <2> QED
    BY <2>1, <2>2 DEF WithinLimits
<1> QED
  BY <1>2, <1>5, <1>6, <1>7 DEF PowerInv, BudgetKept

\* A release takes off its port what the allocation had put there: the port has
\* that much, so that Release never has to stop at zero.
LEMMA ReleaseFits ==
  ASSUME PowerInv, NEW id \in Ids, Release(id)
  PROVE  PowerInv'
<1>0. PowerTypeOK /\ FinitelyMany /\ PortsAddUp /\ WithinLimits
  BY DEF PowerInv, BudgetKept
<1>1. PICK p \in Ports, watts \in Nat \ {0} :
        /\ active[id] = [port |-> p, watts |-> watts]
        /\ active' = [active EXCEPT ![id] = NoAllocation]
        /\ UNCHANGED <<enabled, initial>>
        /\ current' = [current EXCEPT ![p] = IF current[p] - watts < 0 THEN 0 ELSE current[p] - watts]
  <2>1. active[id] \in Allocation
    BY <1>0, PowerTypes DEF Release
  <2>2. PICK p \in Ports, watts \in Nat \ {0} : active[id] = [port |-> p, watts |-> watts]
    BY <2>1 DEF Allocation
  <2>3. active[id].port = p /\ active[id].watts = watts
    BY <2>2
  <2>4. current' = [current EXCEPT ![p] = IF current[p] - watts < 0 THEN 0 ELSE current[p] - watts]
    BY <2>3 DEF Release
  <2>5. active' = [active EXCEPT ![id] = NoAllocation] /\ UNCHANGED <<enabled, initial>>
    BY DEF Release
  <2> QED
    BY <2>2, <2>4, <2>5
<1>p. PICK others : others = On(p) \ {id}
  OBVIOUS
<1>2. /\ On(p)' = others /\ id \in On(p) /\ id \notin others
      /\ \A k \in Ports : k # p => On(k)' = On(k) /\ id \notin On(k)
  BY <1>0, <1>1, <1>p, PowerTypes, PortsAreFinite DEF On, NoAllocation
<1>3. \A d \in Ids : Held'[d] \in Nat /\ (d # id => Held'[d] = Held[d]) /\ Held[id] = watts
  BY <1>0, <1>1, PowerTypes DEF Held, NoAllocation
<1>4. IsFiniteSet(others) /\ others \subseteq Ids
  <2>1. IsFiniteSet(On(p)) /\ others \subseteq On(p) /\ On(p) \subseteq Ids
    BY <1>0, <1>p DEF FinitelyMany, On
  <2> QED
    BY <2>1, FS_Subset
<1>5. /\ current[p] = initial[p] + (watts + SumFunctionOnSet(Held', others))
      /\ SumFunctionOnSet(Held', others) \in Nat
  <2>1. \A d \in others : Held'[d] \in Nat /\ Held[d] = Held'[d]
    BY <1>2, <1>3, <1>4
  <2>2. Held[id] = watts /\ watts \in Nat
    BY <1>1, <1>3
  <2>3. On(p) = others \cup {id}
    BY <1>2, <1>p
  <2>4. current[p] = initial[p] + SumFunctionOnSet(Held, On(p))
    BY <1>0, <1>1 DEF PortsAddUp, Held
  <2>5. /\ SumFunctionOnSet(Held, others \cup {id}) = Held[id] + SumFunctionOnSet(Held', others)
        /\ SumFunctionOnSet(Held', others) \in Nat
    BY ONLY <1>2, <1>4, <2>1, <2>2, SumWith
  <2> QED
    BY <2>2, <2>3, <2>4, <2>5
<1>6. /\ current'[p] = initial[p] + SumFunctionOnSet(Held', others)
      /\ current'[p] + watts = current[p] /\ current'[p] \in Nat
      /\ current' \in [Ports -> Nat]
      /\ \A k \in Ports : k # p => current'[k] = current[k]
  <2>1. initial[p] \in Nat /\ current \in [Ports -> Nat]
    BY <1>0, <1>1, PowerTypes
  <2>2. current[p] - watts = initial[p] + SumFunctionOnSet(Held', others)
        /\ ~(current[p] - watts < 0) /\ current[p] - watts \in Nat
    BY <1>1, <1>5, <2>1
  <2>3. current' = [current EXCEPT ![p] = current[p] - watts]
    BY <1>1, <2>2
  <2> QED
    BY <1>1, <2>1, <2>2, <2>3
<1>7. PowerTypeOK'
  <2>1. active' \in [Ids -> Allocation \cup {NoAllocation}]
    BY <1>0, <1>1, PowerTypes
  <2> QED
    BY <1>0, <1>1, <1>6, <2>1, PowerTypes DEF PowerTypeOK
<1>8. FinitelyMany'
  <2> SUFFICES ASSUME NEW k \in Ports PROVE IsFiniteSet(On(k)')
    BY DEF FinitelyMany
  <2> QED
    BY <1>0, <1>2, <1>4 DEF FinitelyMany
<1>9. PortsAddUp'
  <2> SUFFICES ASSUME NEW k \in Ports
               PROVE  current'[k] = initial'[k] + SumFunctionOnSet(Held', On(k)')
    BY DEF PortsAddUp, Held
  <2>1. CASE k = p
    BY <1>1, <1>2, <1>6, <2>1
  <2>2. CASE k # p
    <3>1. IsFiniteSet(On(k)) /\ On(k)' = On(k) /\ \A d \in On(k) : Held'[d] = Held[d]
      BY <1>0, <1>2, <1>3, <2>2 DEF FinitelyMany, On
    <3>2. SumFunctionOnSet(Held', On(k)) = SumFunctionOnSet(Held, On(k))
      BY <3>1, SumAgrees
    <3>3. current[k] = initial[k] + SumFunctionOnSet(Held, On(k))
      BY <1>0 DEF PortsAddUp, Held
    <3> QED
      BY <1>1, <1>6, <2>2, <3>1, <3>2, <3>3
  <2> QED
    BY <2>1, <2>2
<1>10. WithinLimits'
  <2>1. \A k \in Ports : current[k] \in Nat /\ current'[k] \in Nat /\ current'[k] <= current[k]
    BY <1>0, <1>1, <1>6, PowerTypes
  <2>2. \A k \in Ports : On(k)' # {} => On(k) # {}
    BY <1>2
  <2>3. /\ UsedWatts \in Nat /\ UsedWatts' \in Nat
        /\ UsedWatts' + current[p] = UsedWatts + current'[p]
    <3>1. IsFiniteSet(Ports) /\ \A k \in Ports : k # p => current'[k] = current[k]
      BY <1>6, PortsAreFinite
    <3> QED
      BY ONLY <2>1, <3>1, p \in Ports, SumChanges DEF UsedWatts
  <2>4. UsedWatts <= TotalCap
    BY <1>0, <1>1, <1>2 DEF WithinLimits
  <2>5. UsedWatts' <= TotalCap
    BY <1>0, <1>1, <2>1, <2>3, <2>4, PowerTypes
  <2>6. \A k \in Ports : On(k)' # {} => current'[k] <= MaxWatts[k]
    BY <1>0, <2>1, <2>2, PowerTypes DEF WithinLimits
  <2> QED
    BY <2>5, <2>6 DEF WithinLimits
<1> QED
  BY <1>7, <1>8, <1>9, <1>10 DEF PowerInv, BudgetKept

LEMMA PowerInductive ==
  PowerSpec => []PowerInv
<1>1. PowerInit => PowerInv
  <2> SUFFICES ASSUME PowerInit PROVE PowerInv
    OBVIOUS
  <2>1. PowerTypeOK
    BY WattsAreNumbers DEF PowerInit, PowerTypeOK
  <2>2. \A p \in Ports : On(p) = {}
    BY PortsAreFinite DEF PowerInit, On, NoAllocation
  <2>3. IsFiniteSet({}) /\ SumFunctionOnSet(Held, {}) = 0
    BY FS_EmptySet, SumStep
  <2>4. FinitelyMany /\ WithinLimits
    BY <2>2, <2>3 DEF FinitelyMany, WithinLimits
  <2>5. PortsAddUp
    <3> SUFFICES ASSUME NEW p \in Ports
                 PROVE  current[p] = initial[p] + SumFunctionOnSet(Held, On(p))
      BY DEF PortsAddUp, Held
    <3>1. current[p] = initial[p] /\ initial[p] \in Nat
      BY <2>1, PowerTypes DEF PowerInit
    <3> QED
      BY <2>2, <2>3, <3>1
  <2> QED
    BY <2>1, <2>4, <2>5 DEF PowerInv, BudgetKept
<1>2. PowerInv /\ [PowerNext]_powerVars => PowerInv'
  <2> SUFFICES ASSUME PowerInv, [PowerNext]_powerVars PROVE PowerInv'
    OBVIOUS
  <2>1. CASE UNCHANGED powerVars
    BY <2>1 DEF powerVars, PowerInv, PowerTypeOK, FinitelyMany, BudgetKept, PortsAddUp,
                WithinLimits, On, UsedWatts
  <2> QED
    BY <2>1, AllocateFits, ReleaseFits DEF PowerNext
<1> QED
  BY <1>1, <1>2, PTL DEF PowerSpec

\* Every reachable state of the allocator is well typed.
THEOREM PowerTypeCorrect ==
  PowerSpec => []PowerTypeOK
<1>1. PowerInv => PowerTypeOK
  BY DEF PowerInv
<1> QED
  BY <1>1, PowerInductive, PTL

\* Watts are neither lost nor counted twice, and no allocation takes its port or
\* all ports together above the limit, whichever ids and watts clients ask for,
\* repeat and release (Allocate, Release).
THEOREM BudgetIsKept ==
  PowerSpec => []BudgetKept
<1>1. PowerInv => BudgetKept
  BY DEF PowerInv
<1> QED
  BY <1>1, PowerInductive, PTL

-----------------------------------------------------------------------------
(***************************************************************************)
(* The decision rules.                                                     *)
(***************************************************************************)
\* A question has the answer of its rule, once it has one.
Answered ==
  /\ question \in Questions
  /\ answer # <<>> => answer[1] = Decision(question)

LEMMA AnswersHold ==
  RuleSpec => []Answered
<1>1. RuleInit => Answered
  BY DEF RuleInit, Answered
<1>2. Answered /\ [RuleNext]_ruleVars => Answered'
  BY DEF Answered, RuleNext, Decide, ruleVars
<1> QED
  BY <1>1, <1>2, PTL DEF RuleSpec

Sensors == [kind : {"thermal"}, battery : 0..MaxTemp, adapter : 0..MaxTemp]

LEMMA Kinds ==
  ASSUME NEW q \in Questions
  PROVE  /\ q.kind = "thermal" => q \in Sensors
         /\ q.kind = "cable" =>
              q \in [kind : {"cable"}, now : 0..MaxTime, expires : 0..MaxTime,
                     revoked : 0..MaxTime, watts : 1..MaxPower, rating : 1..MaxPower,
                     supported : BOOLEAN]
         /\ q.kind = "evidence" =>
              q \in [kind : {"evidence"}, complete : BOOLEAN, now : 0..MaxTime,
                     expires : 0..MaxTime, validity : 1..MaxTime]
         /\ q.kind = "transit" =>
              q \in [kind : {"transit"}, now : 0..MaxTime, max : 0..MaxTime,
                     default : 0..MaxTime, rule : {"none", "draft", "active", "deprecated"}]
BY DEF Questions, Sensors

\* A hotter sensor reaches every level that a cooler one does, and the levels
\* rise, so the power that Decide leaves only falls.
LEMMA HotterIsLess ==
  ASSUME NEW q \in Sensors, NEW r \in Sensors,
         r.battery >= q.battery, r.adapter >= q.adapter
  PROVE  Multiplier(r) <= Multiplier(q)
<1>1. /\ q.battery \in Int /\ q.adapter \in Int /\ r.battery \in Int /\ r.adapter \in Int
      /\ \A t \in {Battery, Adapter} : t.warn \in Int /\ t.throttle \in Int /\ t.shutdown \in Int
  BY ThresholdsRise DEF Sensors, Thresholds
<1>2. \A level \in {"warn", "throttle", "shutdown"} :
        Reached(q, level) => Reached(r, level)
  BY <1>1 DEF Reached
<1> QED
  BY <1>2 DEF Multiplier

\* A later question of the same kind: time revokes and expires, and adds delay.
LEMMA LaterIsLess ==
  ASSUME NEW q \in Questions,
         q.kind \in {"cable", "evidence", "transit"},
         NEW t \in q.now .. MaxTime, NEW r, r = [q EXCEPT !.now = t]
  PROVE  Decision(r) <= Decision(q)
<1>1. CASE q.kind = "cable"
  <2>1. q \in [kind : {"cable"}, now : 0..MaxTime, expires : 0..MaxTime,
               revoked : 0..MaxTime, watts : 1..MaxPower, rating : 1..MaxPower,
                     supported : BOOLEAN]
    BY <1>1, Kinds
  <2>2. /\ r.kind = "cable" /\ r.now = t /\ r.expires = q.expires /\ r.revoked = q.revoked
        /\ r.watts = q.watts /\ r.rating = q.rating /\ r.supported = q.supported
        /\ t \in Int /\ t >= q.now /\ q.now \in Nat /\ q.expires \in Int /\ q.revoked \in Int
    BY <2>1
  <2>3. Decision(r) = Verify(r) /\ Decision(q) = Verify(q)
    BY <1>1, <2>2 DEF Decision
  <2> QED
    BY <2>2, <2>3 DEF Verify
<1>2. CASE q.kind = "evidence"
  <2>1. q \in [kind : {"evidence"}, complete : BOOLEAN, now : 0..MaxTime,
               expires : 0..MaxTime, validity : 1..MaxTime]
    BY <1>2, Kinds
  <2>2. /\ r.kind = "evidence" /\ r.now = t /\ r.expires = q.expires
        /\ r.validity = q.validity /\ r.complete = q.complete
        /\ t \in Int /\ t >= q.now /\ q.now \in Int /\ q.expires \in Int /\ q.validity \in Int
    BY <2>1
  <2>3. Decision(r) = Evaluate(r) /\ Decision(q) = Evaluate(q)
    BY <1>2, <2>2 DEF Decision
  <2> QED
    BY <2>2, <2>3 DEF Evaluate
<1>3. CASE q.kind = "transit"
  <2>1. q \in [kind : {"transit"}, now : 0..MaxTime, max : 0..MaxTime,
               default : 0..MaxTime, rule : {"none", "draft", "active", "deprecated"}]
    BY <1>3, Kinds
  <2>2. /\ r.kind = "transit" /\ r.now = t /\ r.max = q.max
        /\ r.default = q.default /\ r.rule = q.rule
        /\ t \in Int /\ t >= q.now /\ q.now \in Int /\ q.max \in Int /\ q.default \in Int
    BY <2>1
  <2>3. Decision(r) = Classify(r) /\ Decision(q) = Classify(q)
    BY <1>3, <2>2 DEF Decision
  <2>4. ActiveMax(r) = ActiveMax(q) /\ ActiveMax(q) \in Int
    BY <2>2 DEF ActiveMax
  <2> QED
    BY <2>2, <2>3, <2>4 DEF Classify
<1> QED
  BY <1>1, <1>2, <1>3

\* For any thresholds that rise, and any times and temperatures: no hotter
\* reading gives more power (Decide), and no cable, evidence or delay that was
\* refused or late is good again later (Verify, Evaluate, Classify).
THEOREM RulesOnlyTighten ==
  RuleSpec => []TimeAndHeatOnlyTighten
<1>1. Answered => TimeAndHeatOnlyTighten
  <2> SUFFICES ASSUME Answered, answer # <<>>, NEW r \in Tighter(question)
               PROVE  Decision(r) <= Decision(question)
    BY DEF Answered, TimeAndHeatOnlyTighten
  <2>0. question \in Questions
    BY DEF Answered
  <2>1. CASE question.kind = "thermal"
    <3>1. question \in Sensors
      BY <2>0, <2>1, Kinds
    <3>2. r \in [kind : {"thermal"}, battery : question.battery..MaxTemp,
                 adapter : question.adapter..MaxTemp]
      BY <2>1 DEF Tighter
    <3>3. r \in Sensors /\ r.battery >= question.battery /\ r.adapter >= question.adapter
      BY <3>1, <3>2 DEF Sensors
    <3>4. /\ Decision(r) = Multiplier(r)
          /\ Decision(question) = Multiplier(question)
      BY <3>1, <3>3 DEF Sensors, Decision
    <3> QED
      BY <3>1, <3>3, <3>4, HotterIsLess
  <2>2. CASE question.kind \in {"cable", "evidence", "transit"}
    <3>1. PICK t \in question.now .. MaxTime : r = [question EXCEPT !.now = t]
      BY <2>2 DEF Tighter
    <3> QED
      BY <2>0, <2>2, <3>1, LaterIsLess
  <2>3. CASE question.kind = "negotiate"
    BY <2>3 DEF Tighter
  <2> QED
    BY <2>0, <2>1, <2>2, <2>3 DEF Questions
<1> QED
  BY <1>1, AnswersHold, PTL

-----------------------------------------------------------------------------
(***************************************************************************)
(* Negotiation.  Least and greatest members, in the words of the operators *)
(* that choose them.                                                       *)
(***************************************************************************)
LEMMA LeastExists ==
  ASSUME NEW N \in SUBSET Nat, N # {}
  PROVE  \E n \in N : \A m \in N : n <= m
<1>1. PICK n \in N : \A m \in N : ~ (<<m, n>> \in OpToRel(<, Nat))
  BY NatLessThanWellFounded, WFMin
<1>2. ASSUME NEW m \in N
      PROVE  n <= m
  <2>1. m \in Nat /\ n \in Nat
    OBVIOUS
  <2>2. ~ (m < n)
    <3>1. <<m, n>> \in OpToRel(<, Nat) <=> m < n
      BY <2>1 DEF OpToRel
    <3> QED
      BY <1>1, <3>1
  <2> QED
    BY <2>1, <2>2
<1> QED
  BY <1>2

LEMMA GreatestExists ==
  ASSUME NEW k \in Nat, NEW N \in SUBSET (0..k), N # {}
  PROVE  \E n \in N : \A m \in N : m <= n
<1> DEFINE M == {k - n : n \in N}
<1>1. M \in SUBSET Nat /\ M # {}
  <2>1. \A n \in N : n \in 0..k /\ k - n \in Nat
    OBVIOUS
  <2> QED
    BY <2>1
<1>2. PICK d \in M : \A e \in M : d <= e
  <2> HIDE DEF M
  <2> QED
    BY <1>1, LeastExists
<1>3. PICK n \in N : d = k - n
  OBVIOUS
<1>4. ASSUME NEW m \in N
      PROVE  m <= n
  <2>1. k - n <= k - m
    BY <1>2, <1>3
  <2> QED
    BY <2>1
<1> QED
  BY <1>4

LEMMA MaxIs ==
  ASSUME NEW S \in SUBSET Int, NEW n \in S, \A m \in S : m <= n
  PROVE  Max(S) = n
<1>1. \A y \in S : n >= y
  OBVIOUS
<1>2. Max(S) \in S /\ \A y \in S : Max(S) >= y
  BY <1>1 DEF Max
<1>3. PICK x \in S : x = Max(S) /\ n <= x /\ x <= n
  BY <1>2
<1> QED
  BY <1>3

LEMMA MinIs ==
  ASSUME NEW S \in SUBSET Int, NEW n \in S, \A m \in S : n <= m
  PROVE  Min(S) = n
<1>1. Min(S) \in S /\ \A y \in S : Min(S) =< y
  BY DEF Min
<1>2. PICK x \in S : x = Min(S) /\ n <= x /\ x <= n
  BY <1>1
<1> QED
  BY <1>2

(***************************************************************************)
(* What a question about two endpoints holds, and how candidates compare.  *)
(***************************************************************************)

Negotiations == {q \in Questions : q.kind = "negotiate"}

LEMMA NegotiationTyped ==
  ASSUME NEW q \in Negotiations
  PROVE  /\ \E m \in 0..MaxCaps : q.device \in [1..m -> Capability]
         /\ \E m \in 0..MaxCaps : q.charger \in [1..m -> Capability]
         /\ q.requested \in 1..MaxPower /\ q.cable \in 0..MaxPower - 1
         /\ q.stable \in BOOLEAN /\ q.unsafe \in BOOLEAN
<1>1. q \in [kind : {"negotiate"}, device : BoundedSeq(Capability, MaxCaps),
             charger : BoundedSeq(Capability, MaxCaps), requested : 1..MaxPower,
             cable : 0..MaxPower - 1, stable : BOOLEAN, unsafe : BOOLEAN]
  BY DEF Negotiations, Questions
<1>2. /\ q.device \in BoundedSeq(Capability, MaxCaps) /\ q.charger \in BoundedSeq(Capability, MaxCaps)
      /\ q.requested \in 1..MaxPower /\ q.cable \in 0..MaxPower - 1
      /\ q.stable \in BOOLEAN /\ q.unsafe \in BOOLEAN
  BY <1>1
<1> QED
  BY <1>2 DEF BoundedSeq, SeqOf

\* The power of a candidate is the lesser of its own and that of an offer of the
\* charger.
LEMMA LastOffer ==
  ASSUME NEW q \in Negotiations, NEW k \in Candidates(q)
  PROVE  \E o \in Offers(q, q.device[k].name) :
           Power(q, k) = Lesser(q.device[k].watts, q.charger[o].watts)
<1>1. PICK n \in 0..MaxCaps : q.charger \in [1..n -> Capability]
  BY NegotiationTyped
<1> DEFINE O == Offers(q, q.device[k].name)
<1>2. O \subseteq 1..n /\ O # {}
  BY <1>1 DEF Offers, Candidates
<1> HIDE DEF O
<1>3. PICK o \in O : \A j \in O : j <= o
  <2>1. O \in SUBSET (0..MaxCaps)
    BY <1>2, BoundsAreNumbers
  <2> QED
    BY <1>2, <2>1, GreatestExists, BoundsAreNumbers
<1>4. Max(O) = o
  BY <1>2, <1>3, MaxIs
<1> QED
  BY <1>3, <1>4 DEF Power, O

\* A candidate is an entry of the device's list that the charger has an offer for.
LEMMA CandidateTyped ==
  ASSUME NEW q \in Negotiations, NEW k \in Candidates(q)
  PROVE  /\ k \in Nat /\ k <= MaxCaps /\ q.device[k] \in Capability
         /\ Power(q, k) \in 0..MaxPower /\ q.charger[1].watts \in 0..MaxPower
<1>1. PICK m \in 0..MaxCaps : q.device \in [1..m -> Capability]
  BY NegotiationTyped
<1>2. PICK n \in 0..MaxCaps : q.charger \in [1..n -> Capability]
  BY NegotiationTyped
<1>3. k \in 1..m /\ q.device[k] \in Capability /\ q.device[k].watts \in 0..MaxPower
  BY <1>1 DEF Candidates, Capability
<1>4. PICK o \in Offers(q, q.device[k].name) :
        Power(q, k) = Lesser(q.device[k].watts, q.charger[o].watts)
  BY LastOffer
<1>5. o \in 1..n /\ q.charger[o] \in Capability /\ q.charger[o].watts \in 0..MaxPower
  BY <1>2, <1>4 DEF Offers, Capability
<1>6. q.charger[1] \in Capability /\ q.charger[1].watts \in 0..MaxPower
  BY <1>2, <1>5 DEF Capability
<1> QED
  BY <1>3, <1>4, <1>5, <1>6, BoundsAreNumbers DEF Lesser

\* The sorted list has a first among any of the candidates.
LEMMA ForemostIs ==
  ASSUME NEW q \in Negotiations, NEW K \in SUBSET Candidates(q), K # {}
  PROVE  /\ Foremost(q, K) \in K
         /\ \A j \in K : j = Foremost(q, K) \/ Before(q, Foremost(q, K), j)
<1>1. \A k \in K : k \in Nat /\ Power(q, k) \in 0..MaxPower
  BY CandidateTyped
<1> DEFINE W == {Power(q, k) : k \in K}
<1>2. W \in SUBSET (0..MaxPower) /\ W # {}
  BY <1>1
<1>3. PICK w \in W : \A v \in W : v <= w
  <2> HIDE DEF W
  <2> QED
    BY <1>2, GreatestExists, BoundsAreNumbers
<1> DEFINE F == {k \in K : Power(q, k) = w}
<1>4. F \in SUBSET Nat /\ F # {}
  BY <1>1
<1>5. PICK k \in F : \A j \in F : k <= j
  <2> HIDE DEF F
  <2> QED
    BY <1>4, LeastExists
<1>6. ASSUME NEW j \in K
      PROVE  j = k \/ Before(q, k, j)
  <2>1. Power(q, j) <= w /\ Power(q, j) \in Int /\ w \in Int /\ j \in Nat /\ k \in Nat
    BY <1>1, <1>2, <1>3
  <2>2. CASE Power(q, j) = w
    BY <1>5, <2>1, <2>2 DEF Before
  <2>3. CASE Power(q, j) # w
    BY <2>1, <2>3 DEF Before
  <2> QED
    BY <2>2, <2>3
<1>7. \E i \in K : \A j \in K : j = i \/ Before(q, i, j)
  BY <1>6
<1> QED
  BY <1>7 DEF Foremost

\* A candidate may be used when it has power, and no more than stability leaves.
LEMMA UsableIs ==
  ASSUME NEW q \in Negotiations, NEW k \in Candidates(q)
  PROVE  /\ Usable(q, k) <=>
              Power(q, k) > 0 /\ (q.stable => Power(q, k) <= q.charger[1].watts)
         /\ Watts(q, k) = Drawn(q, Power(q, k))
<1>1. Power(q, k) \in Nat /\ q.requested \in Nat \ {0} /\ q.cable \in Nat
  BY CandidateTyped, NegotiationTyped, BoundsAreNumbers
<1>2. Watts(q, k) > 0 <=> Power(q, k) > 0
  BY <1>1 DEF Watts, Lesser
<1> DEFINE limits == {q.requested, Power(q, k)} \cup IF q.cable > 0 THEN {q.cable} ELSE {}
<1>3. limits \in SUBSET Int
  BY <1>1
<1>4. Watts(q, k) \in limits /\ \A m \in limits : Watts(q, k) <= m
  BY <1>1 DEF Watts, Lesser
<1>5. Min(limits) = Watts(q, k)
  <2> HIDE DEF limits
  <2> QED
    BY <1>3, <1>4, MinIs
<1> QED
  BY <1>2, <1>5 DEF Usable, Drawn

Deal(q, k) == [protocol |-> q.device[k].name, watts |-> Power(q, k)]

UsableOnes(q) == {k \in Candidates(q) : Usable(q, k)}

\* A candidate stands for a deal: its own entry and the last of the charger's
\* offers for its name.
LEMMA CandidateIsDeal ==
  ASSUME NEW q \in Negotiations, NEW k \in Candidates(q)
  PROVE  Deal(q, k) \in Deals(q)
<1>1. PICK m \in 0..MaxCaps : q.device \in [1..m -> Capability]
  BY NegotiationTyped
<1>2. PICK n \in 0..MaxCaps : q.charger \in [1..n -> Capability]
  BY NegotiationTyped
<1>3. PICK o \in Offers(q, q.device[k].name) :
        Power(q, k) = Lesser(q.device[k].watts, q.charger[o].watts)
  BY LastOffer
<1>4. k \in DOMAIN q.device /\ q.device[k].certified
  BY DEF Candidates
<1>5. /\ o \in DOMAIN q.charger /\ q.charger[o].certified
      /\ q.charger[o].name = q.device[k].name /\ q.charger[o].watts > 0
  BY <1>3 DEF Offers
<1>6. q.device[k] \in CertifiedIn(q.device) /\ q.charger[o] \in CertifiedIn(q.charger)
  BY <1>4, <1>5 DEF CertifiedIn, Range
<1> DEFINE p == <<q.device[k], q.charger[o]>>
<1>7. p \in CertifiedIn(q.device) \X CertifiedIn(q.charger) /\ p[1].name = p[2].name /\ p[2].watts > 0
  BY <1>5, <1>6
<1>8. Deal(q, k) = [protocol |-> p[1].name, watts |-> Lesser(p[1].watts, p[2].watts)]
  BY <1>3 DEF Deal
<1> HIDE DEF p
<1> QED
  BY <1>7, <1>8 DEF Deals

\* When the charger offers each protocol once, the candidates are the deals.
LEMMA DealIsCandidate ==
  ASSUME NEW q \in Negotiations, OffersOnce(q), NEW d \in Deals(q)
  PROVE  \E k \in Candidates(q) : d = Deal(q, k)
<1>1. PICK p \in CertifiedIn(q.device) \X CertifiedIn(q.charger) :
        /\ p[1].name = p[2].name /\ p[2].watts > 0
        /\ d = [protocol |-> p[1].name, watts |-> Lesser(p[1].watts, p[2].watts)]
  BY DEF Deals
<1>2. PICK k \in DOMAIN q.device : p[1] = q.device[k] /\ q.device[k].certified
  BY <1>1 DEF CertifiedIn, Range
<1>3. PICK j \in DOMAIN q.charger : p[2] = q.charger[j] /\ q.charger[j].certified
  BY <1>1 DEF CertifiedIn, Range
<1>4. j \in Offers(q, q.device[k].name)
  BY <1>1, <1>2, <1>3 DEF Offers
<1>5. k \in Candidates(q)
  BY <1>2, <1>4 DEF Candidates
<1>6. PICK o \in Offers(q, q.device[k].name) :
        Power(q, k) = Lesser(q.device[k].watts, q.charger[o].watts)
  BY <1>5, LastOffer
<1>7. o \in DOMAIN q.charger /\ q.charger[j].name = q.device[k].name
  BY <1>4, <1>6 DEF Offers
<1>8. o = j
  BY <1>4, <1>6, <1>7 DEF OffersOnce
<1> QED
  BY <1>1, <1>2, <1>3, <1>5, <1>6, <1>8 DEF Deal

\* What may be used is a stable deal, and all of them if each is offered once.
LEMMA StableDealsAre ==
  ASSUME NEW q \in Negotiations
  PROVE  /\ \A k \in UsableOnes(q) : Deal(q, k) \in StableDeals(q)
         /\ OffersOnce(q) => StableDeals(q) = {Deal(q, k) : k \in UsableOnes(q)}
<1>1. \A k \in Candidates(q) :
        /\ Deal(q, k) \in Deals(q)
        /\ Usable(q, k) <=> Deal(q, k).watts > 0 /\ (q.stable => Deal(q, k).watts <= q.charger[1].watts)
  BY UsableIs, CandidateIsDeal DEF Deal
<1>2. \A k \in UsableOnes(q) : Deal(q, k) \in StableDeals(q)
  BY <1>1 DEF StableDeals, UsableOnes
<1>3. ASSUME OffersOnce(q), NEW d \in StableDeals(q)
      PROVE  \E k \in UsableOnes(q) : d = Deal(q, k)
  <2>1. PICK k \in Candidates(q) : d = Deal(q, k)
    BY <1>3, DealIsCandidate DEF StableDeals
  <2> QED
    BY <1>1, <1>3, <2>1 DEF StableDeals, UsableOnes
<1> QED
  BY <1>2, <1>3

LEMMA NegotiatedIsBest ==
  ASSUME question \in Negotiations, answer # <<>>, answer[1] = Negotiate(question)
  PROVE  NegotiatesBest
<1> DEFINE q == question
           U == UsableOnes(q)
<1>1. /\ \A k \in U : Deal(q, k) \in StableDeals(q)
      /\ OffersOnce(q) => StableDeals(q) = {Deal(q, k) : k \in U}
  BY StableDealsAre
<1>2. CASE q.unsafe \/ U = {}
  <2>1. answer[1] = Refused(IF q.unsafe THEN "ErrUnsafeRequest" ELSE "ErrNoCommonProtocol")
    BY <1>2 DEF Negotiate, UsableOnes
  <2>2. ~q.unsafe /\ OffersOnce(q) => StableDeals(q) = {}
    BY <1>1, <1>2
  <2> QED
    BY <2>1, <2>2 DEF NegotiatesBest
<1>3. CASE ~q.unsafe /\ U # {}
  <2> DEFINE k == Foremost(q, U)
             best == Power(q, k)
             deals == StableDeals(q)
             deal == [error |-> None, protocol |-> q.device[k].name, watts |-> Watts(q, k),
                      fallback |-> \E j \in Candidates(q) : Before(q, j, k)]
  <2>1. answer[1] = deal
    BY <1>3 DEF Negotiate, UsableOnes
  <2>2. U \in SUBSET Candidates(q)
    BY DEF UsableOnes
  <2>3. k \in U /\ \A j \in U : j = k \/ Before(q, k, j)
    <3> HIDE DEF q, U
    <3>1. q \in Negotiations
      BY DEF q
    <3> QED
      BY <1>3, <2>2, <3>1, ForemostIs
  <2>4. k \in Candidates(q) /\ \A j \in Candidates(q) : j \in Nat /\ Power(q, j) \in Nat
    BY <2>2, <2>3, CandidateTyped, BoundsAreNumbers
  <2>5. \A j \in U : Power(q, j) <= best
    BY <2>2, <2>3, <2>4 DEF Before
  <2>6. ASSUME OffersOnce(q)
        PROVE  Max({d.watts : d \in deals}) = best
    <3> DEFINE W == {d.watts : d \in deals}
    <3>1. deals = {Deal(q, j) : j \in U} /\ \A j \in U : Deal(q, j).watts = Power(q, j)
      BY <1>1, <2>6 DEF Deal
    <3>2. \A j \in U : Power(q, j) \in Int /\ Power(q, j) <= best
      BY <2>2, <2>4, <2>5
    <3> HIDE DEF U, q, k, best, deals
    <3>3. W \in SUBSET Int /\ \A w \in W : w <= best
      BY <3>1, <3>2
    <3>4. best \in W
      <4>1. Deal(q, k) \in deals /\ Deal(q, k).watts = best
        BY <2>3, <3>1 DEF best
      <4> QED
        BY <4>1
    <3> HIDE DEF W
    <3>5. Max(W) = best
      BY <3>3, <3>4, MaxIs
    <3> QED
      BY <3>5 DEF W
  <2>7. [protocol |-> q.device[k].name, watts |-> best] \in deals
    BY <1>1, <2>3 DEF Deal
  <2>8. /\ Watts(q, k) > 0
        /\ Watts(q, k) = Drawn(q, best)
    BY <2>3, <2>4, UsableIs DEF UsableOnes, Usable
  <2>9. ASSUME OffersOnce(q)
        PROVE  (\E j \in Candidates(q) : Before(q, j, k)) <=> \E d \in Deals(q) : d.watts > best
    <3>1. ASSUME NEW j \in Candidates(q), Before(q, j, k)
          PROVE  Power(q, j) > best
      <4>1. SUFFICES ASSUME Power(q, j) = best, j < k PROVE FALSE
        BY <3>1 DEF Before
      <4>2. Usable(q, j)
        BY <2>3, <2>4, <4>1, UsableIs DEF UsableOnes
      <4>3. j \in U
        BY <4>2 DEF UsableOnes
      <4> QED
        BY <2>3, <2>4, <4>1, <4>3 DEF Before
    <3>2. \A j \in Candidates(q) : Power(q, j) > best => Before(q, j, k)
      BY DEF Before
    <3>3. Deals(q) = {Deal(q, j) : j \in Candidates(q)} /\ \A j \in Candidates(q) : Deal(q, j).watts = Power(q, j)
      BY <2>9, CandidateIsDeal, DealIsCandidate DEF Deal
    <3> QED
      BY <3>1, <3>2, <3>3
  <2>10. deal # Refused("ErrNoCommonProtocol")
    BY <2>8 DEF Refused
  <2>11. \E d \in deals : deal.protocol = d.protocol /\ deal.watts = Drawn(q, d.watts)
    BY <2>7, <2>8
  <2>12. /\ deal.protocol = q.device[k].name /\ deal.watts = Watts(q, k)
         /\ deal.fallback = \E j \in Candidates(q) : Before(q, j, k)
    OBVIOUS
  <2> HIDE DEF deal, k, deals, best
  <2>13. OffersOnce(q) /\ deals # {} =>
           /\ deal.watts = Drawn(q, Max({d.watts : d \in deals}))
           /\ [protocol |-> deal.protocol, watts |-> Max({d.watts : d \in deals})] \in deals
           /\ deal.fallback <=> \E e \in Deals(q) : e.watts > Max({d.watts : d \in deals})
    BY <2>6, <2>7, <2>8, <2>9, <2>12
  <2> QED
    BY <1>3, <2>1, <2>10, <2>11, <2>13 DEF NegotiatesBest, deals
<1> QED
  BY <1>2, <1>3

\* For any capabilities: negotiation settles on nothing but a deal that an entry
\* of either list certifies, within what was asked for and what the cable
\* carries; and where the charger offers each protocol once, on the most powerful
\* one there is, refusing only when there is none and calling it a fallback
\* exactly when a stronger one was passed over (Negotiate).
THEOREM NegotiationIsBest ==
  RuleSpec => []NegotiatesBest
<1>1. Answered => NegotiatesBest
  <2> SUFFICES ASSUME Answered, question.kind = "negotiate", answer # <<>>
               PROVE  NegotiatesBest
    BY DEF NegotiatesBest
  <2>1. question \in Negotiations
    BY DEF Answered, Negotiations
  <2>2. answer[1] = Negotiate(question)
    BY <2>1 DEF Answered, Decision
  <2> QED
    BY <2>1, <2>2, NegotiatedIsBest
<1> QED
  BY <1>1, AnswersHold, PTL
=============================================================================
