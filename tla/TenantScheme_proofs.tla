------------------------ MODULE TenantScheme_proofs -------------------------
(***************************************************************************)
(* What an upsert stores and what the views show of it, for any bodies,    *)
(* general routes, namespaces and configmaps.  The loops that remove       *)
(* elements from the slice they iterate over are proved about for lists of *)
(* any length, by looking at the first step that would break their         *)
(* invariant.                                                              *)
(***************************************************************************)
EXTENDS TenantScheme, FiniteSetTheorems, WellFoundedInduction, TLAPS

-----------------------------------------------------------------------------
(* The loop that removes elements.                                         *)

\* A set of numbers has a least one.
LEMMA LeastElement ==
    ASSUME NEW T, T \subseteq Nat, T # {}
    PROVE  \E x \in T : \A y \in T : x <= y
<1> DEFINE R == {p \in Nat \X Nat : p[1] < p[2]}
<1>1. IsWellFoundedOn(OpToRel(<, Nat), Nat)
  BY NatLessThanWellFounded
<1>2. OpToRel(<, Nat) = R
  BY DEF OpToRel
<1>3. IsWellFoundedOn(R, Nat)
  BY <1>1, <1>2
<1>4. ASSUME NEW x \in Nat, NEW y \in Nat, y < x PROVE <<y, x>> \in R
  BY <1>4
<1> HIDE DEF R
<1>5. PICK x \in T : \A y \in T : ~ (<<y, x>> \in R)
  BY <1>3, WFMin
<1>6. ASSUME NEW y \in T PROVE x <= y
  <2>1. x \in Nat /\ y \in Nat /\ ~(y < x)
    BY <1>4, <1>5
  <2> QED BY <2>1
<1> QED BY <1>5, <1>6

\* The first n steps of the loop.
IsRun(f, n, list, bad, deleteLast) ==
    f = [i \in 0..n |-> IF i = 0 THEN Whole(list) ELSE Removal(f[i - 1], i, bad, deleteLast)]

\* There is such a run for any number of steps.
LEMMA RunExists ==
    ASSUME NEW list, NEW bad, NEW deleteLast, NEW n \in Nat
    PROVE  \E f : IsRun(f, n, list, bad, deleteLast)
<1> DEFINE T == {m \in Nat : ~\E f : IsRun(f, m, list, bad, deleteLast)}
<1> SUFFICES ASSUME T # {} PROVE FALSE
  OBVIOUS
<1>1. PICK m \in T : \A k \in T : m <= k
  BY LeastElement
<1>2. CASE m = 0
  <2> DEFINE f == [i \in 0..0 |-> Whole(list)]
  <2>1. f = [i \in 0..0 |-> IF i = 0 THEN Whole(list) ELSE Removal(f[i - 1], i, bad, deleteLast)]
    OBVIOUS
  <2>2. IsRun(f, 0, list, bad, deleteLast)
    BY <2>1, Zenon DEF IsRun
  <2> QED BY <1>1, <1>2, <2>2
<1>3. CASE m # 0
  <2>1. m \in Nat /\ m - 1 \in Nat /\ m - 1 \notin T
    BY <1>1, <1>3
  <2>2. PICK f : IsRun(f, m - 1, list, bad, deleteLast)
    BY <2>1
  <2>3. f = [i \in 0..(m - 1) |-> IF i = 0 THEN Whole(list) ELSE Removal(f[i - 1], i, bad, deleteLast)]
    BY <2>2, Zenon DEF IsRun
  <2> DEFINE g == [i \in 0..m |-> IF i = m THEN Removal(f[m - 1], m, bad, deleteLast) ELSE f[i]]
             h == [i \in 0..m |-> IF i = 0 THEN Whole(list) ELSE Removal(g[i - 1], i, bad, deleteLast)]
  <2>4. ASSUME NEW i \in 0..m PROVE g[i] = h[i]
    <3>1. CASE i = m
      <4>1. g[m - 1] = f[m - 1]
        BY <2>1
      <4>2. h[i] = Removal(g[m - 1], m, bad, deleteLast)
        BY <1>3, <3>1
      <4> QED BY <3>1, <4>1, <4>2
    <3>2. CASE i = 0
      BY <1>3, <2>1, <2>3, <3>2
    <3>3. CASE i # m /\ i # 0
      <4>1. i \in 0..(m - 1) /\ i - 1 \in 0..(m - 1) /\ i - 1 \in 0..m /\ i - 1 # m
        BY <2>1, <3>3
      <4>2. f[i] = Removal(f[i - 1], i, bad, deleteLast)
        BY <2>3, <3>3, <4>1
      <4>3. g[i - 1] = f[i - 1] /\ g[i] = f[i]
        BY <3>3, <4>1
      <4>4. h[i] = Removal(g[i - 1], i, bad, deleteLast)
        BY <3>3
      <4> QED BY <4>2, <4>3, <4>4
    <3> QED BY <3>1, <3>2, <3>3
  <2>5. g = h
    BY <2>4
  <2> HIDE DEF g
  <2>6. IsRun(g, m, list, bad, deleteLast)
    BY <2>5, Zenon DEF IsRun
  <2> QED BY <1>1, <2>6
<1> QED BY <1>2, <1>3

\* What holds after i steps: the array has nothing new, and of what is not to be
\* removed everything; when only one element is to be removed, the list goes only if
\* it has no other.
Few(list, bad) == \A j, k \in DOMAIN list : list[j] \in bad /\ list[k] \in bad => j = k
StateType(list) ==
    [array : [DOMAIN list -> ElementsOf(list)], len : 0..Len(list), gone : BOOLEAN]
Untouched(st, i, list, bad) ==
    /\ st = Whole(list)
    /\ \A k \in DOMAIN list : k <= i => list[k] \notin bad
Removed(st, i, list, bad) ==
    /\ \A k \in DOMAIN list : k > i => st.array[k] \notin bad
    /\ st.gone => ElementsOf(list) \subseteq bad
LoopInv(st, i, list, bad) ==
    /\ st \in StateType(list)
    /\ ElementsOf(list) \ bad \subseteq ElementsOf(st.array)
    /\ Few(list, bad) => Untouched(st, i, list, bad) \/ Removed(st, i, list, bad)

\* It holds of the list itself.
LEMMA WholeIs ==
    ASSUME NEW S, NEW list \in Seq(S), NEW bad
    PROVE  LoopInv(Whole(list), 0, list, bad)
<1>1. /\ Len(list) \in Nat /\ DOMAIN list = 1..Len(list)
      /\ list \in [DOMAIN list -> ElementsOf(list)]
  BY DEF ElementsOf
<1>2. Whole(list) \in StateType(list) /\ Whole(list).array = list
  BY <1>1 DEF Whole, StateType
<1>3. Untouched(Whole(list), 0, list, bad)
  BY <1>1 DEF Untouched
<1> QED BY <1>2, <1>3 DEF LoopInv

\* Shifting costs the element at i, and that one only.
IsShift(sh, n, V, array, i, len) ==
    /\ sh \in [1..n -> V]
    /\ \A k \in 1..n : k < i \/ k >= len => sh[k] = array[k]
    /\ \A k \in 1..n : k >= i /\ k < len => k + 1 \in 1..n /\ sh[k] = array[k + 1]
    /\ \A k \in 1..n : k # i => \E j \in 1..n : sh[j] = array[k]

\* That is what shifting the array does.
LEMMA ShiftKeeps ==
    ASSUME NEW n \in Nat, NEW V, NEW array \in [1..n -> V], NEW i \in 1..n, NEW len \in 0..n, i < len
    PROVE  IsShift(Shift(array, i, len), n, V, array, i, len)
<1> DEFINE sh == Shift(array, i, len)
<1>1. sh = [k \in 1..n |-> IF k >= i /\ k < len THEN array[k + 1] ELSE array[k]]
  BY DEF Shift
<1> HIDE DEF sh
<1>2. \A k \in 1..n : k >= i /\ k < len => k + 1 \in 1..n /\ sh[k] = array[k + 1]
  BY <1>1
<1>3. \A k \in 1..n : k < i \/ k >= len => sh[k] = array[k]
  BY <1>1
<1>4. sh \in [1..n -> V]
  <2>1. ASSUME NEW k \in 1..n PROVE (IF k >= i /\ k < len THEN array[k + 1] ELSE array[k]) \in V
    OBVIOUS
  <2> QED BY <1>1, <2>1
<1>5. ASSUME NEW k \in 1..n, k # i PROVE \E j \in 1..n : sh[j] = array[k]
  <2>1. CASE k < i \/ k > len
    BY <1>3, <2>1
  <2>2. CASE k > i /\ k <= len
    <3>1. k - 1 \in 1..n /\ k - 1 >= i /\ k - 1 < len /\ (k - 1) + 1 = k
      BY <2>2
    <3>2. sh[k - 1] = array[k]
      BY <1>2, <3>1
    <3> QED BY <3>1, <3>2
  <2> QED BY <1>5, <2>1, <2>2
<1> QED BY <1>2, <1>3, <1>4, <1>5 DEF sh, IsShift

\* The body of the loop keeps it.
LEMMA RemovalKeeps ==
    ASSUME NEW S, NEW list \in Seq(S), NEW bad, NEW deleteLast \in BOOLEAN, NEW i \in 1..Len(list),
           NEW st, LoopInv(st, i - 1, list, bad)
    PROVE  LoopInv(Removal(st, i, bad, deleteLast), i, list, bad)
<1> DEFINE n == Len(list)
           V == ElementsOf(list)
           new == Removal(st, i, bad, deleteLast)
<1>1. n \in Nat /\ DOMAIN list = 1..n /\ i \in 1..n /\ i \in DOMAIN list
  OBVIOUS
<1>2. /\ st.array \in [1..n -> V] /\ st.len \in 0..n /\ st.gone \in BOOLEAN
      /\ st \in StateType(list) /\ V \ bad \subseteq ElementsOf(st.array)
  BY <1>1 DEF LoopInv, StateType
<1>3. Few(list, bad) => Untouched(st, i - 1, list, bad) \/ Removed(st, i - 1, list, bad)
  BY DEF LoopInv
<1> HIDE DEF n
<1>4. CASE st.array[i] \notin bad
  <2>1. new = st
    BY <1>4 DEF Removal
  <2>2. Untouched(st, i - 1, list, bad) => Untouched(st, i, list, bad)
    BY <1>1, <1>4 DEF Untouched, Whole
  <2>3. Removed(st, i - 1, list, bad) => Removed(st, i, list, bad)
    BY <1>1 DEF Removed
  <2> QED BY <1>2, <1>3, <2>1, <2>2, <2>3 DEF LoopInv
<1>5. CASE st.array[i] \in bad /\ deleteLast /\ st.len = 1
  <2>1. new = [st EXCEPT !.gone = TRUE]
    BY <1>5 DEF Removal
  <2>2. new \in StateType(list) /\ new.array = st.array /\ new.gone = TRUE
    BY <1>2, <2>1 DEF StateType
  <2>3. ASSUME Few(list, bad) PROVE Removed(new, i, list, bad)
    <3>1. CASE Untouched(st, i - 1, list, bad)
      <4>1. st.array = list /\ st.len = n
        BY <3>1 DEF Untouched, Whole, n
      <4>2. n = 1 /\ DOMAIN list = {1} /\ i = 1
        BY <1>1, <1>5, <4>1
      <4>3. ElementsOf(list) \subseteq bad
        BY <1>5, <4>1, <4>2 DEF ElementsOf
      <4> QED BY <2>2, <4>2, <4>3 DEF Removed
    <3>2. CASE Removed(st, i - 1, list, bad)
      BY <1>1, <1>5, <3>2 DEF Removed
    <3> QED BY <1>3, <2>3, <3>1, <3>2
  <2> QED BY <1>2, <2>2, <2>3 DEF LoopInv
<1>6. CASE st.array[i] \in bad /\ ~(deleteLast /\ st.len = 1) /\ i < st.len
  <2> DEFINE sh == Shift(st.array, i, st.len)
  <2>1. new = [st EXCEPT !.array = sh, !.len = st.len - 1]
    BY <1>6 DEF Removal
  <2>2. /\ sh \in [1..n -> V]
        /\ \A k \in 1..n : k < i \/ k >= st.len => sh[k] = st.array[k]
        /\ \A k \in 1..n : k >= i /\ k < st.len => k + 1 \in 1..n /\ sh[k] = st.array[k + 1]
        /\ \A k \in 1..n : k # i => \E j \in 1..n : sh[j] = st.array[k]
    <3>1. /\ n \in Nat /\ st.array \in [1..n -> V] /\ i \in 1..n /\ st.len \in 0..n /\ i < st.len
      BY <1>1, <1>2, <1>6
    <3> HIDE DEF V
    <3>2. IsShift(Shift(st.array, i, st.len), n, V, st.array, i, st.len)
      BY <3>1, ShiftKeeps
    <3> QED BY <3>2 DEF IsShift
  <2> HIDE DEF sh
  <2>3. new \in StateType(list) /\ new.array = sh /\ new.gone = st.gone
    <3>1. st.len - 1 \in 0..n
      BY <1>1, <1>2, <1>6
    <3> QED BY <1>1, <1>2, <2>1, <2>2, <3>1 DEF StateType, n
  <2>4. V \ bad \subseteq ElementsOf(sh)
    <3>1. ASSUME NEW v \in V \ bad PROVE v \in ElementsOf(sh)
      <4>1. PICK k \in 1..n : st.array[k] = v
        BY <1>2, <3>1 DEF ElementsOf
      <4>2. k # i
        BY <1>6, <4>1
      <4>3. PICK j \in 1..n : sh[j] = v
        BY <2>2, <4>1, <4>2
      <4> QED BY <2>2, <4>3 DEF ElementsOf
    <3> QED BY <3>1
  <2>5. ASSUME Few(list, bad) PROVE Removed(new, i, list, bad)
    <3>1. CASE Untouched(st, i - 1, list, bad)
      <4>1. st.array = list /\ st.len = n /\ st.gone = FALSE
        BY <3>1 DEF Untouched, Whole, n
      <4>2. ASSUME NEW k \in 1..n, k > i PROVE sh[k] \notin bad
        <5>1. \A j \in 1..n : j # i => list[j] \notin bad
          BY <1>1, <1>6, <2>5, <4>1 DEF Few
        <5>2. CASE k < n
          <6>1. sh[k] = list[k + 1] /\ k + 1 \in 1..n /\ k + 1 # i
            BY <1>1, <2>2, <4>1, <4>2, <5>2
          <6> QED BY <5>1, <6>1
        <5>3. CASE k = n
          <6>1. sh[k] = list[k] /\ k # i
            BY <1>1, <2>2, <4>1, <4>2, <5>3
          <6> QED BY <5>1, <6>1
        <5> QED BY <1>1, <5>2, <5>3
      <4> QED BY <1>1, <2>3, <4>1, <4>2 DEF Removed
    <3>2. CASE Removed(st, i - 1, list, bad)
      BY <1>1, <1>6, <3>2 DEF Removed
    <3> QED BY <1>3, <2>5, <3>1, <3>2
  <2> QED BY <2>3, <2>4, <2>5 DEF LoopInv
<1>7. CASE st.array[i] \in bad /\ ~(deleteLast /\ st.len = 1) /\ ~(i < st.len)
  <2>1. new = [st EXCEPT !.len = i - 1]
    BY <1>7 DEF Removal
  <2>2. new \in StateType(list) /\ new.array = st.array /\ new.gone = st.gone
    BY <1>1, <1>2, <2>1 DEF StateType, n
  <2>3. ASSUME Few(list, bad) PROVE Removed(new, i, list, bad)
    <3>1. CASE Untouched(st, i - 1, list, bad)
      <4>1. st.len = n /\ st.gone = FALSE
        BY <3>1 DEF Untouched, Whole, n
      <4>2. i = n
        BY <1>1, <1>7, <4>1
      <4> QED BY <1>1, <2>2, <4>1, <4>2 DEF Removed
    <3>2. CASE Removed(st, i - 1, list, bad)
      BY <1>1, <1>7, <3>2 DEF Removed
    <3> QED BY <1>3, <2>3, <3>1, <3>2
  <2> QED BY <1>2, <2>2, <2>3 DEF LoopInv
<1> QED BY <1>4, <1>5, <1>6, <1>7, Zenon

\* The loop is the last step of such a run.
LEMMA LoopSteps ==
    ASSUME NEW S, NEW list \in Seq(S), NEW bad, NEW deleteLast
    PROVE  \E run : /\ RemovalLoop(list, bad, deleteLast) = run[Len(list)]
                    /\ run[0] = Whole(list)
                    /\ \A i \in 1..Len(list) : run[i] = Removal(run[i - 1], i, bad, deleteLast)
<1> DEFINE n == Len(list)
           run == CHOOSE f : f = [i \in 0..n |-> IF i = 0 THEN Whole(list)
                                                ELSE Removal(f[i - 1], i, bad, deleteLast)]
<1>1. n \in Nat
  OBVIOUS
<1>2. RemovalLoop(list, bad, deleteLast) = run[n]
  BY DEF RemovalLoop
<1>3. IsRun(run, n, list, bad, deleteLast)
  <2> HIDE DEF n
  <2>1. \E f : IsRun(f, n, list, bad, deleteLast)
    BY <1>1, RunExists
  <2>2. \E f : f = [i \in 0..n |-> IF i = 0 THEN Whole(list) ELSE Removal(f[i - 1], i, bad, deleteLast)]
    BY <2>1, Zenon DEF IsRun
  <2>3. run = [i \in 0..n |-> IF i = 0 THEN Whole(list) ELSE Removal(run[i - 1], i, bad, deleteLast)]
    BY <2>2, Zenon
  <2> QED BY <2>3, Zenon DEF IsRun
<1> HIDE DEF run
<1>4. run = [i \in 0..n |-> IF i = 0 THEN Whole(list) ELSE Removal(run[i - 1], i, bad, deleteLast)]
  BY <1>3, Zenon DEF IsRun
<1> HIDE DEF n
<1>5. run[0] = Whole(list) /\ \A i \in 1..n : run[i] = Removal(run[i - 1], i, bad, deleteLast)
  <2>1. 0 \in 0..n /\ \A i \in 1..n : i \in 0..n /\ i # 0
    BY <1>1
  <2> QED BY <1>4, <2>1
<1> QED BY <1>2, <1>5 DEF n

\* What the loop leaves, for a list of any length.
LEMMA LoopKeeps ==
    ASSUME NEW S, NEW list \in Seq(S), NEW bad, NEW deleteLast \in BOOLEAN
    PROVE  LoopInv(RemovalLoop(list, bad, deleteLast), Len(list), list, bad)
<1> DEFINE n == Len(list)
<1>1. PICK run : /\ RemovalLoop(list, bad, deleteLast) = run[n]
                 /\ run[0] = Whole(list)
                 /\ \A i \in 1..n : run[i] = Removal(run[i - 1], i, bad, deleteLast)
  BY LoopSteps
<1> DEFINE T == {m \in 0..n : ~LoopInv(run[m], m, list, bad)}
<1>2. T = {}
  <2> SUFFICES ASSUME T # {} PROVE FALSE
    OBVIOUS
  <2>1. n \in Nat /\ T \subseteq Nat
    OBVIOUS
  <2>2. PICK m \in T : \A k \in T : m <= k
    <3> HIDE DEF T
    <3> QED BY <2>1, LeastElement
  <2>3. m # 0
    BY <1>1, <2>2, WholeIs
  <2>4. m \in 1..n /\ m - 1 \in 0..n /\ m - 1 \notin T
    BY <2>1, <2>2, <2>3
  <2>5. LoopInv(run[m - 1], m - 1, list, bad)
    BY <2>4
  <2>6. LoopInv(run[m], m, list, bad)
    BY <1>1, <2>4, <2>5, RemovalKeeps
  <2> QED BY <2>2, <2>6
<1>3. LoopInv(run[n], n, list, bad)
  BY <1>2
<1> QED BY <1>1, <1>3

\* Nothing new comes in, nothing that is to stay goes.
LEMMA LoopResult ==
    ASSUME NEW S, NEW list \in Seq(S), NEW bad, NEW deleteLast \in BOOLEAN,
           NEW out, out = RemovalLoop(list, bad, deleteLast)
    PROVE  /\ out.array \in Seq(S)
           /\ ElementsOf(out.array) \subseteq ElementsOf(list)
           /\ ElementsOf(list) \ bad \subseteq ElementsOf(out.array)
           /\ Few(list, bad) /\ out.gone => ElementsOf(list) \subseteq bad
<1>1. LoopInv(out, Len(list), list, bad)
  BY LoopKeeps
<1>2. DOMAIN list = 1..Len(list) /\ Len(list) \in Nat /\ ElementsOf(list) \subseteq S
  BY DEF ElementsOf
<1>3. out.array \in [1..Len(list) -> ElementsOf(list)]
  BY <1>1, <1>2 DEF LoopInv, StateType
<1>4. out.array \in Seq(S)
  <2>1. \A k \in 1..Len(list) : out.array[k] \in S
    BY <1>2, <1>3
  <2> QED BY <1>2, <1>3, <2>1
<1>5. ElementsOf(out.array) \subseteq ElementsOf(list)
  <2>1. DOMAIN out.array = 1..Len(list)
    BY <1>3
  <2>2. ASSUME NEW k \in DOMAIN out.array PROVE out.array[k] \in ElementsOf(list)
    BY <1>3, <2>1
  <2> QED BY <2>2 DEF ElementsOf
<1>6. Few(list, bad) /\ out.gone => ElementsOf(list) \subseteq bad
  BY <1>1 DEF LoopInv, Untouched, Removed, Whole
<1>7. ElementsOf(list) \ bad \subseteq ElementsOf(out.array)
  BY <1>1 DEF LoopInv
<1> QED BY <1>4, <1>5, <1>6, <1>7

-----------------------------------------------------------------------------
(* The loop run over what it left.                                         *)

\* Nothing is to be removed but at the end, and not as the last element either.
AtEnd(list, bad, deleteLast) ==
    /\ \A k \in DOMAIN list : list[k] \in bad => k = Len(list)
    /\ deleteLast /\ Len(list) = 1 => list[1] \notin bad

\* After i steps over such a list the array is what it was.
Kept(st, i, list) ==
    /\ st.array = list /\ st.gone = FALSE
    /\ i < Len(list) => st = Whole(list)

\* The body of the loop keeps that.
LEMMA RemovalLeaves ==
    ASSUME NEW S, NEW list \in Seq(S), NEW bad, NEW deleteLast \in BOOLEAN,
           AtEnd(list, bad, deleteLast), NEW i \in 1..Len(list),
           NEW st, Kept(st, i - 1, list)
    PROVE  Kept(Removal(st, i, bad, deleteLast), i, list)
<1>1. st = [array |-> list, len |-> Len(list), gone |-> FALSE]
  BY DEF Kept, Whole
<1>2. CASE list[i] \notin bad
  BY <1>1, <1>2 DEF Removal, Kept, Whole
<1>3. CASE list[i] \in bad
  <2>1. i = Len(list) /\ ~(deleteLast /\ Len(list) = 1)
    BY <1>3 DEF AtEnd
  <2>2. Removal(st, i, bad, deleteLast) = [st EXCEPT !.len = i - 1]
    BY <1>1, <1>3, <2>1 DEF Removal
  <2> QED BY <1>1, <2>1, <2>2 DEF Kept
<1> QED BY <1>2, <1>3

\* Run over such a list the loop leaves it alone.
LEMMA LoopLeaves ==
    ASSUME NEW S, NEW list \in Seq(S), NEW bad, NEW deleteLast \in BOOLEAN,
           AtEnd(list, bad, deleteLast)
    PROVE  /\ RemovalLoop(list, bad, deleteLast).array = list
           /\ RemovalLoop(list, bad, deleteLast).gone = FALSE
<1> DEFINE n == Len(list)
<1>1. PICK run : /\ RemovalLoop(list, bad, deleteLast) = run[n]
                 /\ run[0] = Whole(list)
                 /\ \A i \in 1..n : run[i] = Removal(run[i - 1], i, bad, deleteLast)
  BY LoopSteps
<1> DEFINE T == {m \in 0..n : ~Kept(run[m], m, list)}
<1>2. T = {}
  <2> SUFFICES ASSUME T # {} PROVE FALSE
    OBVIOUS
  <2>1. n \in Nat /\ T \subseteq Nat
    OBVIOUS
  <2>2. PICK m \in T : \A k \in T : m <= k
    <3> HIDE DEF T
    <3> QED BY <2>1, LeastElement
  <2>3. Kept(Whole(list), 0, list)
    BY DEF Kept, Whole
  <2>4. m \in 1..n /\ m - 1 \in 0..n /\ m - 1 \notin T
    BY <1>1, <2>1, <2>2, <2>3
  <2>5. Kept(run[m - 1], m - 1, list)
    BY <2>4
  <2>6. Kept(run[m], m, list)
    BY <1>1, <2>4, <2>5, RemovalLeaves
  <2> QED BY <2>2, <2>6
<1>3. Kept(run[n], n, list)
  BY <1>2
<1> QED BY <1>1, <1>3 DEF Kept

\* With one element to be removed, the loop leaves such a list: an element before
\* the end is shifted out, one at the end stays, and one that is alone takes the list
\* with it.
Settles(st, i, list, bad, deleteLast) ==
    \/ Untouched(st, i, list, bad)
    \/ st.gone = TRUE /\ deleteLast
    \/ \A k \in DOMAIN list : st.array[k] \notin bad
    \/ i = Len(list) /\ st.array = list /\ AtEnd(list, bad, deleteLast)

\* The body of the loop keeps that.
LEMMA RemovalSettles ==
    ASSUME NEW S, NEW list \in Seq(S), NEW bad, NEW deleteLast \in BOOLEAN, Few(list, bad),
           NEW i \in 1..Len(list), NEW st, st \in StateType(list),
           Settles(st, i - 1, list, bad, deleteLast)
    PROVE  Settles(Removal(st, i, bad, deleteLast), i, list, bad, deleteLast)
<1> DEFINE n == Len(list)
           V == ElementsOf(list)
           new == Removal(st, i, bad, deleteLast)
<1>1. n \in Nat /\ DOMAIN list = 1..n /\ i \in 1..n /\ i \in DOMAIN list
  OBVIOUS
<1>2. CASE Untouched(st, i - 1, list, bad)
  <2>1. st = [array |-> list, len |-> n, gone |-> FALSE]
        /\ \A k \in DOMAIN list : k <= i - 1 => list[k] \notin bad
    BY <1>2 DEF Untouched, Whole
  <2>2. CASE list[i] \notin bad
    <3>1. new = st
      BY <2>1, <2>2 DEF Removal
    <3>2. Untouched(new, i, list, bad)
      BY <1>1, <1>2, <2>1, <2>2, <3>1 DEF Untouched
    <3> QED BY <3>2 DEF Settles
  <2>3. CASE list[i] \in bad /\ deleteLast /\ n = 1
    <3>1. new = [st EXCEPT !.gone = TRUE]
      BY <2>1, <2>3 DEF Removal
    <3>2. new.gone = TRUE
      BY <2>1, <3>1
    <3> QED BY <2>3, <3>2 DEF Settles
  <2>4. CASE list[i] \in bad /\ ~(deleteLast /\ n = 1) /\ i < n
    <3> DEFINE sh == Shift(list, i, n)
    <3>1. new = [st EXCEPT !.array = sh, !.len = n - 1]
      BY <2>1, <2>4 DEF Removal
    <3>2. new.array = sh
      BY <2>1, <3>1
    <3>3. IsShift(sh, n, V, list, i, n)
      <4>1. list \in [1..n -> V] /\ n \in 0..n
        BY <1>1 DEF ElementsOf
      <4> HIDE DEF n, V
      <4> QED BY <1>1, <2>4, <4>1, ShiftKeeps
    <3> HIDE DEF sh
    <3>4. \A j \in 1..n : j # i => list[j] \notin bad
      BY <1>1, <2>4 DEF Few
    <3>5. ASSUME NEW k \in 1..n PROVE sh[k] \notin bad
      <4>1. CASE k < i \/ k >= n
        <5>1. sh[k] = list[k] /\ k # i
          BY <1>1, <2>4, <3>3, <4>1 DEF IsShift
        <5> QED BY <3>4, <5>1
      <4>2. CASE k >= i /\ k < n
        <5>1. sh[k] = list[k + 1] /\ k + 1 \in 1..n /\ k + 1 # i
          BY <1>1, <3>3, <4>2 DEF IsShift
        <5> QED BY <3>4, <5>1
      <4> QED BY <1>1, <4>1, <4>2
    <3> QED BY <1>1, <3>2, <3>5 DEF Settles
  <2>5. CASE list[i] \in bad /\ ~(deleteLast /\ n = 1) /\ ~(i < n)
    <3>1. new = [st EXCEPT !.len = i - 1] /\ i = n
      BY <1>1, <2>1, <2>5 DEF Removal
    <3>2. new.array = list
      BY <2>1, <3>1
    <3>3. AtEnd(list, bad, deleteLast)
      BY <1>1, <2>5, <3>1 DEF Few, AtEnd
    <3> QED BY <3>1, <3>2, <3>3 DEF Settles
  <2> QED BY <2>2, <2>3, <2>4, <2>5
<1>3. CASE st.gone = TRUE /\ deleteLast
  <2>1. new.gone = TRUE
    BY <1>3 DEF Removal, StateType
  <2> QED BY <1>3, <2>1 DEF Settles
<1>4. CASE \A k \in DOMAIN list : st.array[k] \notin bad
  <2>1. new = st
    BY <1>1, <1>4 DEF Removal
  <2> QED BY <1>4, <2>1 DEF Settles
<1>5. ~(i - 1 = n)
  BY <1>1
<1> QED BY <1>2, <1>3, <1>4, <1>5 DEF Settles

\* What the loop leaves it would leave again.
LEMMA LoopSettles ==
    ASSUME NEW S, NEW list \in Seq(S), NEW bad, NEW deleteLast \in BOOLEAN, Few(list, bad),
           NEW out, out = RemovalLoop(list, bad, deleteLast)
    PROVE  \/ out.gone = TRUE /\ deleteLast
           \/ out.array \in Seq(S) /\ AtEnd(out.array, bad, deleteLast)
<1> DEFINE n == Len(list)
<1>1. PICK run : /\ RemovalLoop(list, bad, deleteLast) = run[n]
                 /\ run[0] = Whole(list)
                 /\ \A i \in 1..n : run[i] = Removal(run[i - 1], i, bad, deleteLast)
  BY LoopSteps
<1> DEFINE Good(m) == LoopInv(run[m], m, list, bad) /\ Settles(run[m], m, list, bad, deleteLast)
           T == {m \in 0..n : ~Good(m)}
<1>2. T = {}
  <2> SUFFICES ASSUME T # {} PROVE FALSE
    OBVIOUS
  <2>1. n \in Nat /\ T \subseteq Nat
    OBVIOUS
  <2>2. PICK m \in T : \A k \in T : m <= k
    <3> HIDE DEF T
    <3> QED BY <2>1, LeastElement
  <2>3. LoopInv(Whole(list), 0, list, bad) /\ Settles(Whole(list), 0, list, bad, deleteLast)
    <3>1. Untouched(Whole(list), 0, list, bad)
      BY DEF Untouched
    <3> QED BY <3>1, WholeIs DEF Settles
  <2>4. m \in 1..n /\ m - 1 \in 0..n /\ m - 1 \notin T
    <3>1. m # 0
      BY <1>1, <2>2, <2>3
    <3> QED BY <2>1, <2>2, <3>1
  <2>5. LoopInv(run[m - 1], m - 1, list, bad) /\ Settles(run[m - 1], m - 1, list, bad, deleteLast)
    BY <2>4
  <2>6. LoopInv(run[m], m, list, bad)
    BY <1>1, <2>4, <2>5, RemovalKeeps
  <2>7. Settles(run[m], m, list, bad, deleteLast)
    BY <1>1, <2>4, <2>5, RemovalSettles DEF LoopInv
  <2> QED BY <2>2, <2>6, <2>7
<1>3. Settles(out, n, list, bad, deleteLast)
  BY <1>1, <1>2
<1>4. out.array \in Seq(S)
  BY LoopResult
<1>5. DOMAIN list = 1..n /\ DOMAIN out.array = 1..n /\ Len(out.array) = n /\ n \in Nat
  <2>1. out \in StateType(list)
    BY LoopKeeps DEF LoopInv
  <2> QED BY <1>4, <2>1 DEF StateType
<1>6. CASE Untouched(out, n, list, bad)
  BY <1>4, <1>5, <1>6 DEF Untouched, Whole, AtEnd
<1>7. CASE \A k \in DOMAIN list : out.array[k] \notin bad
  BY <1>4, <1>5, <1>7 DEF AtEnd
<1> QED BY <1>3, <1>4, <1>6, <1>7 DEF Settles

-----------------------------------------------------------------------------
(* Namespaces.                                                             *)

\* The namespaces around a tenant are its own list and the home.
LEMMA AroundIs ==
    ASSUME NEW namespaces \in Seq(Namespace), Home \in Namespace
    PROVE  Around(namespaces) = ElementsOf(namespaces) \union {Home}
<1>1. CASE Home \in ElementsOf(namespaces)
  BY <1>1 DEF Around, AppendIfMissing
<1>2. CASE Home \notin ElementsOf(namespaces)
  <2> DEFINE longer == Append(namespaces, Home)
             n == Len(namespaces)
  <2>1. /\ n \in Nat /\ DOMAIN namespaces = 1..n /\ DOMAIN longer = 1..(n + 1)
        /\ longer[n + 1] = Home /\ \A i \in 1..n : longer[i] = namespaces[i]
    OBVIOUS
  <2>2. Around(namespaces) = ElementsOf(longer)
    BY <1>2 DEF Around, AppendIfMissing
  <2> HIDE DEF longer, n
  <2>3. ElementsOf(longer) \subseteq ElementsOf(namespaces) \union {Home}
    <3>1. ASSUME NEW i \in 1..(n + 1) PROVE longer[i] \in ElementsOf(namespaces) \union {Home}
      <4>1. i \in 1..n \/ i = n + 1
        BY <2>1
      <4> QED BY <2>1, <4>1 DEF ElementsOf
    <3> QED BY <2>1, <3>1 DEF ElementsOf
  <2>4. ElementsOf(namespaces) \union {Home} \subseteq ElementsOf(longer)
    <3>1. n + 1 \in DOMAIN longer /\ \A i \in 1..n : i \in DOMAIN longer
      BY <2>1
    <3> QED BY <2>1, <3>1 DEF ElementsOf
  <2> QED BY <2>2, <2>3, <2>4
<1> QED BY <1>1, <1>2

\* The own namespace is taken out in place, and put back by whoever asks.
LEMMA SameAround ==
    ASSUME NEW namespaces \in Seq(Namespace), Home \in Namespace
    PROVE  /\ NamespacesAfter(namespaces) \in Seq(Namespace)
           /\ Around(NamespacesAfter(namespaces)) = Around(namespaces)
<1> DEFINE out == HomeRemoved(namespaces)
<1>1. out = RemovalLoop(namespaces, {Home}, FALSE)
  BY DEF HomeRemoved
<1>2. NamespacesAfter(namespaces) = out.array
  BY DEF NamespacesAfter
<1> HIDE DEF out
<1>3. /\ out.array \in Seq(Namespace)
      /\ ElementsOf(out.array) \subseteq ElementsOf(namespaces)
      /\ ElementsOf(namespaces) \ {Home} \subseteq ElementsOf(out.array)
  BY <1>1, LoopResult
<1>4. Around(out.array) = ElementsOf(out.array) \union {Home}
  BY <1>3, AroundIs
<1> QED BY <1>2, <1>3, <1>4, AroundIs

-----------------------------------------------------------------------------
(* The filter for general addresses.                                       *)

\* A host of a scheme is in the list of some service of some site.
LEMMA HostsOfIs ==
    ASSUME NEW sites, NEW h
    PROVE  h \in HostsOf(sites) <=>
               \E x \in DOMAIN sites : \E s \in DOMAIN sites[x] : h \in ElementsOf(sites[x][s])
BY DEF HostsOf

\* Two positions are two.
LEMMA TwoAre ==
    ASSUME NEW j, NEW k, j # k
    PROVE  Cardinality({k} \union {j}) = 2
<1>1. IsFiniteSet({k}) /\ Cardinality({k}) = 1
  BY FS_Singleton
<1>2. j \notin {k}
  OBVIOUS
<1>3. Cardinality({k} \union {j}) = Cardinality({k}) + 1
  BY <1>1, <1>2, FS_AddElement
<1> QED BY <1>1, <1>3

\* At most one position of a general host is what the loop can cope with.
LEMMA FewIs ==
    ASSUME NEW S, NEW list \in Seq(S), NEW bad,
           Cardinality({i \in DOMAIN list : list[i] \in bad}) <= 1
    PROVE  Few(list, bad)
<1> DEFINE C == {i \in DOMAIN list : list[i] \in bad}
<1> SUFFICES ASSUME NEW j \in DOMAIN list, NEW k \in DOMAIN list, list[j] \in bad, list[k] \in bad, j # k
             PROVE  FALSE
  BY DEF Few
<1>1. IsFiniteSet(C)
  <2>1. IsFiniteSet(1..Len(list)) /\ C \subseteq 1..Len(list)
    BY FS_Interval
  <2> QED BY <2>1, FS_Subset
<1>2. Cardinality({k} \union {j}) = 2
  BY TwoAre
<1>3. {k} \union {j} \subseteq C
  OBVIOUS
<1>4. Cardinality({k} \union {j}) <= Cardinality(C)
  BY <1>1, <1>3, FS_Subset
<1>5. Cardinality(C) \in Nat /\ Cardinality(C) <= 1
  BY <1>1, FS_CardinalityType
<1> QED BY <1>2, <1>4, <1>5

\* The services of a site, filtered one by one.
LEMMA FilteredServices ==
    ASSUME NEW services, IsServices(services), NEW bad,
           NEW kept, kept = FilterServices(services, bad)
    PROVE  /\ IsServices(kept)
           /\ DOMAIN kept \subseteq DOMAIN services
           /\ \A s \in DOMAIN kept : ElementsOf(kept[s]) \subseteq ElementsOf(services[s])
           /\ \A s \in DOMAIN services : Few(services[s], bad) =>
                  \A h \in ElementsOf(services[s]) \ bad :
                      s \in DOMAIN kept /\ h \in ElementsOf(kept[s])
<1> DEFINE out == [s \in DOMAIN services |-> RemovalLoop(services[s], bad, TRUE)]
<1>1. kept = [s \in {x \in DOMAIN services : ~out[x].gone} |-> out[s].array]
  BY DEF FilterServices
<1>2. ASSUME NEW s \in DOMAIN services
      PROVE  /\ out[s].array \in Seq(HostType)
             /\ ElementsOf(out[s].array) \subseteq ElementsOf(services[s])
             /\ ElementsOf(services[s]) \ bad \subseteq ElementsOf(out[s].array)
             /\ Few(services[s], bad) /\ out[s].gone => ElementsOf(services[s]) \subseteq bad
  <2>1. services[s] \in Seq(HostType)
    BY DEF IsServices
  <2>2. out[s] = RemovalLoop(services[s], bad, TRUE)
    OBVIOUS
  <2> HIDE DEF out
  <2> QED BY <2>1, <2>2, LoopResult
<1> HIDE DEF out
<1>3. DOMAIN kept \subseteq DOMAIN services /\ \A s \in DOMAIN kept : kept[s] = out[s].array
  BY <1>1
<1>4. IsServices(kept)
  BY <1>1, <1>2 DEF IsServices
<1>5. ASSUME NEW s \in DOMAIN services, Few(services[s], bad), NEW h \in ElementsOf(services[s]) \ bad
      PROVE  s \in DOMAIN kept /\ h \in ElementsOf(kept[s])
  <2>1. ~out[s].gone
    BY <1>2, <1>5
  <2>2. s \in DOMAIN kept /\ kept[s] = out[s].array
    BY <1>1, <2>1
  <2> QED BY <1>2, <1>5, <2>2
<1> QED BY <1>2, <1>3, <1>4, <1>5

\* No list of a scheme has two of the bad hosts.
AtMostOne(sites, bad) ==
    \A x \in DOMAIN sites : \A s \in DOMAIN sites[x] :
        Cardinality({i \in DOMAIN sites[x][s] : sites[x][s][i] \in bad}) <= 1

\* Every other host of a scheme is where it was.
OthersKept(sites, kept, bad) ==
    \A x \in DOMAIN sites : \A s \in DOMAIN sites[x] : \A h \in ElementsOf(sites[x][s]) \ bad :
        s \in DOMAIN kept[x] /\ h \in ElementsOf(kept[x][s])

\* The scheme as a whole: no host comes in, and when no list has two general
\* hosts only general ones go.
LEMMA FilteredScheme ==
    ASSUME NEW sites, IsScheme(sites), NEW bad, NEW kept, kept = FilterGeneralRoutes(sites, bad)
    PROVE  /\ IsScheme(kept) /\ DOMAIN kept = DOMAIN sites
           /\ \A x \in DOMAIN sites : DOMAIN kept[x] \subseteq DOMAIN sites[x]
           /\ HostsOf(kept) \subseteq HostsOf(sites)
           /\ AtMostOne(sites, bad) => OthersKept(sites, kept, bad)
<1>1. DOMAIN kept = DOMAIN sites /\ kept = [x \in DOMAIN kept |-> kept[x]]
      /\ \A x \in DOMAIN sites : kept[x] = FilterServices(sites[x], bad)
  BY DEF FilterGeneralRoutes
<1>2. \A x \in DOMAIN sites : IsServices(sites[x])
  BY DEF IsScheme
<1>3. ASSUME NEW x \in DOMAIN sites
      PROVE  /\ IsServices(kept[x])
             /\ DOMAIN kept[x] \subseteq DOMAIN sites[x]
             /\ \A s \in DOMAIN kept[x] : ElementsOf(kept[x][s]) \subseteq ElementsOf(sites[x][s])
             /\ \A s \in DOMAIN sites[x] : Few(sites[x][s], bad) =>
                    \A h \in ElementsOf(sites[x][s]) \ bad :
                        s \in DOMAIN kept[x] /\ h \in ElementsOf(kept[x][s])
  BY <1>1, <1>2, FilteredServices
<1>4. IsScheme(kept)
  BY <1>1, <1>3 DEF IsScheme
<1>5. HostsOf(kept) \subseteq HostsOf(sites)
  <2>1. ASSUME NEW h \in HostsOf(kept) PROVE h \in HostsOf(sites)
    <3>1. PICK x \in DOMAIN kept : \E s \in DOMAIN kept[x] : h \in ElementsOf(kept[x][s])
      BY HostsOfIs
    <3>2. PICK s \in DOMAIN kept[x] : h \in ElementsOf(kept[x][s])
      BY <3>1
    <3>3. x \in DOMAIN sites /\ s \in DOMAIN sites[x] /\ h \in ElementsOf(sites[x][s])
      BY <1>1, <1>3, <3>2
    <3> QED BY <3>3, HostsOfIs
  <2> QED BY <2>1
<1>6. ASSUME AtMostOne(sites, bad), NEW x \in DOMAIN sites, NEW s \in DOMAIN sites[x]
      PROVE  Few(sites[x][s], bad)
  <2>1. sites[x][s] \in Seq(HostType)
    BY <1>2 DEF IsServices
  <2> QED BY <1>6, <2>1, FewIs DEF AtMostOne
<1>7. AtMostOne(sites, bad) => OthersKept(sites, kept, bad)
  BY <1>3, <1>6 DEF OthersKept
<1> QED BY <1>1, <1>3, <1>4, <1>5, <1>7

-----------------------------------------------------------------------------
(* The filter over what it left.                                           *)

\* No list of the scheme has anything left for the filter.
Settled(sites, bad) ==
    \A x \in DOMAIN sites : \A s \in DOMAIN sites[x] : AtEnd(sites[x][s], bad, TRUE)

\* No list of the scheme has two positions to remove.
AllFew(sites, bad) == \A x \in DOMAIN sites : \A s \in DOMAIN sites[x] : Few(sites[x][s], bad)

\* The filter leaves lists it would leave again.
LEMMA FilterSettles ==
    ASSUME NEW sites, IsScheme(sites), NEW bad, AllFew(sites, bad)
    PROVE  Settled(FilterGeneralRoutes(sites, bad), bad)
<1> DEFINE kept == FilterGeneralRoutes(sites, bad)
<1>1. ASSUME NEW x \in DOMAIN sites, NEW s \in DOMAIN FilterServices(sites[x], bad)
      PROVE  AtEnd(FilterServices(sites[x], bad)[s], bad, TRUE)
  <2> DEFINE services == sites[x]
             out == RemovalLoop(services[s], bad, TRUE)
  <2>1. s \in DOMAIN services /\ ~out.gone /\ FilterServices(services, bad)[s] = out.array
    BY <1>1 DEF FilterServices
  <2>2. services[s] \in Seq(HostType) /\ Few(services[s], bad)
    BY <1>1, <2>1 DEF IsScheme, IsServices, AllFew
  <2> HIDE DEF services
  <2>3. AtEnd(out.array, bad, TRUE)
    BY <2>1, <2>2, LoopSettles
  <2> QED BY <2>1, <2>3 DEF services
<1>2. DOMAIN kept = DOMAIN sites /\ \A x \in DOMAIN sites : kept[x] = FilterServices(sites[x], bad)
  BY DEF FilterGeneralRoutes
<1> HIDE DEF kept
<1> QED BY <1>1, <1>2 DEF Settled, kept

\* Services without anything to filter stay as they are.
LEMMA LeavesServices ==
    ASSUME NEW services, IsServices(services), NEW bad,
           \A s \in DOMAIN services : AtEnd(services[s], bad, TRUE)
    PROVE  FilterServices(services, bad) = services
<1> DEFINE out == [s \in DOMAIN services |-> RemovalLoop(services[s], bad, TRUE)]
<1>1. FilterServices(services, bad) = [s \in {x \in DOMAIN services : ~out[x].gone} |-> out[s].array]
  BY DEF FilterServices
<1>2. ASSUME NEW s \in DOMAIN services
      PROVE  out[s].array = services[s] /\ out[s].gone = FALSE
  <2>1. services[s] \in Seq(HostType) /\ out[s] = RemovalLoop(services[s], bad, TRUE)
    BY DEF IsServices
  <2> HIDE DEF out
  <2>2. AtEnd(services[s], bad, TRUE)
    OBVIOUS
  <2>3. /\ RemovalLoop(services[s], bad, TRUE).array = services[s]
        /\ RemovalLoop(services[s], bad, TRUE).gone = FALSE
    <3> DEFINE list == services[s]
    <3> HIDE DEF list
    <3>1. list \in Seq(HostType) /\ AtEnd(list, bad, TRUE)
      BY <2>1, <2>2 DEF list
    <3>2. RemovalLoop(list, bad, TRUE).array = list /\ RemovalLoop(list, bad, TRUE).gone = FALSE
      BY <3>1, LoopLeaves
    <3> QED BY <3>2 DEF list
  <2> QED BY <2>1, <2>3
<1> HIDE DEF out
<1>3. services = [s \in DOMAIN services |-> services[s]]
  BY DEF IsServices
<1>4. {x \in DOMAIN services : ~out[x].gone} = DOMAIN services
  BY <1>2
<1> QED BY <1>1, <1>2, <1>3, <1>4

\* A scheme without anything to filter stays as it is.
LEMMA FilterLeaves ==
    ASSUME NEW sites, IsScheme(sites), NEW bad, Settled(sites, bad)
    PROVE  FilterGeneralRoutes(sites, bad) = sites
<1>1. \A x \in DOMAIN sites : FilterServices(sites[x], bad) = sites[x]
  BY LeavesServices DEF IsScheme, Settled
<1>2. sites = [x \in DOMAIN sites |-> sites[x]]
  BY DEF IsScheme
<1> QED BY <1>1, <1>2 DEF FilterGeneralRoutes

\* A service under another name has the list it had.
LEMMA RenamedSettled ==
    ASSUME NEW sites, IsScheme(sites), NEW bad, Settled(sites, bad), NEW from, NEW to,
           NEW site \in SitesWith(from, sites)
    PROVE  Settled(ChangeServiceName(from, to, site, sites), bad)
<1> DEFINE old == sites[site]
           put == With(Without(old, from), to, old[from])
           new == ChangeServiceName(from, to, site, sites)
<1>1. site \in DOMAIN sites /\ from \in DOMAIN old
  BY DEF SitesWith
<1>2. /\ DOMAIN put = (DOMAIN old \ {from}) \union {to} /\ put[to] = old[from]
      /\ \A s \in DOMAIN old \ {from} : s # to => put[s] = old[s]
  BY DEF With, Without
<1>3. new = [sites EXCEPT ![site] = put]
  BY DEF ChangeServiceName
<1>4. /\ DOMAIN new = DOMAIN sites /\ new[site] = put
      /\ \A x \in DOMAIN sites : x # site => new[x] = sites[x]
  BY <1>1, <1>3 DEF IsScheme
<1>5. \A s \in DOMAIN old : AtEnd(old[s], bad, TRUE)
  BY <1>1 DEF Settled
<1> HIDE DEF old, put, new
<1>6. \A s \in DOMAIN put : AtEnd(put[s], bad, TRUE)
  BY <1>1, <1>2, <1>5
<1> QED BY <1>4, <1>6 DEF Settled, new

-----------------------------------------------------------------------------
(* Schemes and rows with a part replaced.                                  *)

\* A site with a service replaced.
LEMMA WithServices ==
    ASSUME NEW services, IsServices(services), NEW k, NEW v \in Seq(HostType)
    PROVE  IsServices(With(services, k, v))
BY DEF With, IsServices

\* A scheme with a site replaced.
LEMMA WithScheme ==
    ASSUME NEW sites, IsScheme(sites), NEW k, NEW v, IsServices(v)
    PROVE  IsScheme(With(sites, k, v))
<1> DEFINE new == With(sites, k, v)
<1>1. /\ DOMAIN new = DOMAIN sites \union {k} /\ new = [x \in DOMAIN new |-> new[x]]
      /\ new[k] = v /\ \A x \in DOMAIN sites : x # k => new[x] = sites[x]
  BY DEF With
<1> HIDE DEF new
<1>2. \A x \in DOMAIN new : IsServices(new[x])
  BY <1>1 DEF IsScheme
<1> QED BY <1>1, <1>2 DEF IsScheme, new

\* A row is a record of these fields.
LEMMA RowIs ==
    ASSUME NEW row, IsRow(row)
    PROVE  /\ row.active \in BOOLEAN /\ row.namespaces \in Seq(Namespace)
           /\ row.domain \in STRING /\ row.service \in STRING /\ row.name \in STRING
           /\ IsScheme(row.sites)
BY DEF IsRow

\* A row with its sites replaced.
LEMMA RowWithSites ==
    ASSUME NEW row, IsRow(row), NEW sites, IsScheme(sites),
           NEW new, new = [row EXCEPT !.sites = sites]
    PROVE  /\ IsRow(new) /\ new.sites = sites /\ new.active = row.active
           /\ new.namespaces = row.namespaces /\ new.domain = row.domain
           /\ new.service = row.service /\ new.name = row.name
BY DEF IsRow

\* A row with its service name replaced.
LEMMA RowWithService ==
    ASSUME NEW row, IsRow(row), NEW service \in STRING,
           NEW new, new = [row EXCEPT !.service = service]
    PROVE  /\ IsRow(new) /\ new.service = service /\ new.sites = row.sites
           /\ new.active = row.active /\ new.namespaces = row.namespaces
           /\ new.domain = row.domain /\ new.name = row.name
BY DEF IsRow

\* A row with its namespaces replaced.
LEMMA RowWithNamespaces ==
    ASSUME NEW row, IsRow(row), NEW namespaces \in Seq(Namespace),
           NEW new, new = [row EXCEPT !.namespaces = namespaces]
    PROVE  /\ IsRow(new) /\ new.namespaces = namespaces /\ new.sites = row.sites
           /\ new.active = row.active /\ new.domain = row.domain
           /\ new.service = row.service /\ new.name = row.name
BY DEF IsRow

\* A row with its status replaced.
LEMMA RowWithStatus ==
    ASSUME NEW row, IsRow(row), NEW active \in BOOLEAN,
           NEW new, new = [row EXCEPT !.active = active]
    PROVE  /\ IsRow(new) /\ new.active = active /\ new.sites = row.sites
           /\ new.namespaces = row.namespaces /\ new.domain = row.domain
           /\ new.service = row.service /\ new.name = row.name
BY DEF IsRow

\* A service under another name has the addresses it had; another of that name
\* loses its own.
LEMMA Renamed ==
    ASSUME NEW sites, IsScheme(sites), NEW from, NEW to, NEW site \in SitesWith(from, sites),
           NEW new, new = ChangeServiceName(from, to, site, sites)
    PROVE  /\ IsScheme(new) /\ DOMAIN new = DOMAIN sites
           /\ HostsOf(new) \subseteq HostsOf(sites)
           /\ to \notin DOMAIN sites[site] \ {from} => HostsOf(sites) \subseteq HostsOf(new)
           /\ site \in SitesWith(to, new)
           /\ to # from => SitesWith(from, new) = SitesWith(from, sites) \ {site}
<1> DEFINE old == sites[site]
           put == With(Without(old, from), to, old[from])
<1>1. site \in DOMAIN sites /\ from \in DOMAIN old /\ IsServices(old)
  BY DEF SitesWith, IsScheme
<1>2. /\ DOMAIN put = (DOMAIN old \ {from}) \union {to} /\ put[to] = old[from]
      /\ \A s \in DOMAIN old \ {from} : s # to => put[s] = old[s]
  BY DEF With, Without
<1>3. IsServices(put)
  BY <1>1 DEF With, Without, IsServices
<1>4. new = [sites EXCEPT ![site] = put]
  BY DEF ChangeServiceName
<1> HIDE DEF put
<1>5. /\ DOMAIN new = DOMAIN sites /\ new[site] = put
      /\ \A x \in DOMAIN sites : x # site => new[x] = sites[x]
  BY <1>1, <1>4
<1>6. new = [x \in DOMAIN new |-> new[x]]
  BY <1>4
<1>7. IsScheme(new)
  BY <1>3, <1>5, <1>6 DEF IsScheme
<1>8. ASSUME NEW h \in HostsOf(new) PROVE h \in HostsOf(sites)
  <2>1. PICK x \in DOMAIN new : \E s \in DOMAIN new[x] : h \in ElementsOf(new[x][s])
    BY HostsOfIs
  <2>2. PICK s \in DOMAIN new[x] : h \in ElementsOf(new[x][s])
    BY <2>1
  <2>3. CASE x # site
    BY <1>5, <2>2, <2>3, HostsOfIs
  <2>4. CASE x = site /\ s = to
    <3>1. h \in ElementsOf(old[from])
      BY <1>2, <1>5, <2>2, <2>4
    <3> QED BY <1>1, <3>1, HostsOfIs
  <2>5. CASE x = site /\ s # to
    <3>1. s \in DOMAIN old /\ h \in ElementsOf(old[s])
      BY <1>2, <1>5, <2>2, <2>5
    <3> QED BY <1>1, <3>1, HostsOfIs
  <2> QED BY <2>3, <2>4, <2>5
<1>9. ASSUME to \notin DOMAIN old \ {from}, NEW h \in HostsOf(sites) PROVE h \in HostsOf(new)
  <2>1. PICK x \in DOMAIN sites : \E s \in DOMAIN sites[x] : h \in ElementsOf(sites[x][s])
    BY HostsOfIs
  <2>2. PICK s \in DOMAIN sites[x] : h \in ElementsOf(sites[x][s])
    BY <2>1
  <2>3. CASE x # site
    BY <1>5, <2>2, <2>3, HostsOfIs
  <2>4. CASE x = site /\ s = from
    <3>1. to \in DOMAIN new[site] /\ h \in ElementsOf(new[site][to])
      BY <1>2, <1>5, <2>2, <2>4
    <3> QED BY <1>1, <1>5, <3>1, HostsOfIs
  <2>5. CASE x = site /\ s # from
    <3>1. s \in DOMAIN new[site] /\ h \in ElementsOf(new[site][s])
      BY <1>2, <1>5, <1>9, <2>2, <2>5
    <3> QED BY <1>1, <1>5, <3>1, HostsOfIs
  <2> QED BY <2>3, <2>4, <2>5
<1>10. site \in SitesWith(to, new)
  BY <1>1, <1>2, <1>5 DEF SitesWith
<1>11. ASSUME to # from PROVE SitesWith(from, new) = SitesWith(from, sites) \ {site}
  BY <1>1, <1>2, <1>5, <1>11 DEF SitesWith
<1> QED BY <1>5, <1>7, <1>8, <1>9, <1>10, <1>11

-----------------------------------------------------------------------------
(* Generated addresses.                                                    *)

\* A name and a zone make a host.
LEMMA HostTyped ==
    ASSUME NEW name \in STRING, NEW zone \in STRING
    PROVE  Host(name, zone) \in HostType
BY DEF Host, HostType

\* A generated host is a name and a zone.
LEMMA GeneratedHostTyped ==
    ASSUME NEW service \in STRING, NEW domain \in STRING, NEW routes, routes \subseteq RouteType
    PROVE  GeneratedHosts(service, domain, routes) \subseteq HostType
<1>1. CASE domain # ""
  <2>1. Host(service, domain) \in HostType
    BY HostTyped
  <2> QED BY <1>1, <2>1 DEF GeneratedHosts
<1>2. CASE domain = ""
  <2>1. \A r \in routes : r.host \in HostType
    BY DEF RouteType
  <2>2. NoHost \in HostType
    <3>1. "" \in STRING
      BY SchemeAssumption DEF SchemeAssumption
    <3> QED BY <3>1, HostTyped DEF NoHost
  <2> QED BY <1>2, <2>1, <2>2 DEF GeneratedHosts, HostsOfRoutes
<1> QED BY <1>1, <1>2

\* Generated addresses are services with lists of hosts.
LEMMA GeneratedTyped ==
    ASSUME NEW domain \in STRING, NEW namespaces \in SUBSET Namespace,
           NEW routes, routes \subseteq RouteType, NEW services \in Generated(domain, namespaces, routes)
    PROVE  IsServices(services)
<1> DEFINE names == PublicIn(namespaces)
           all == UNION {GeneratedHosts(s, domain, routes) : s \in names}
<1>1. names \subseteq STRING
  <2>1. DOMAIN ServiceId \subseteq STRING /\ \A n \in Namespace : Public[n] \subseteq DOMAIN ServiceId
    BY SchemeAssumption DEF SchemeAssumption
  <2> QED BY <2>1 DEF PublicIn
<1>2. services \in [names -> {<<h>> : h \in all}]
  BY DEF Generated
<1>3. all \subseteq HostType
  <2>1. \A s \in names : GeneratedHosts(s, domain, routes) \subseteq HostType
    BY <1>1, GeneratedHostTyped
  <2> HIDE DEF names
  <2> QED BY <2>1
<1> HIDE DEF names, all
<1>4. {<<h>> : h \in all} \subseteq Seq(HostType)
  <2>1. ASSUME NEW h \in all PROVE <<h>> \in Seq(HostType)
    <3>1. h \in HostType
      BY <1>3
    <3> QED BY <3>1
  <2> QED BY <2>1
<1>5. services = [s \in names |-> services[s]] /\ DOMAIN services = names
      /\ \A s \in names : services[s] \in Seq(HostType)
  BY <1>2, <1>4
<1> QED BY <1>5 DEF IsServices

\* The namespaces around a row are namespaces.
LEMMA AroundTyped ==
    ASSUME NEW namespaces \in Seq(Namespace)
    PROVE  Around(namespaces) \subseteq Namespace
<1>1. Home \in Namespace
  BY SchemeAssumption DEF SchemeAssumption
<1>2. ElementsOf(namespaces) \subseteq Namespace
  <2>1. \A i \in DOMAIN namespaces : namespaces[i] \in Namespace
    OBVIOUS
  <2> QED BY <2>1 DEF ElementsOf
<1> QED BY <1>1, <1>2, AroundIs

\* The sites an upsert starts from are a scheme, whichever status.
LEMMA NewUrlsTyped ==
    ASSUME NEW row, IsRow(row), NEW old, NEW routes, routes \subseteq RouteType,
           NEW sites \in WithNewUrls(row, old, routes)
    PROVE  IsScheme(sites) /\ (SitesKept(row) => sites = row.sites)
<1>1. /\ IsScheme(row.sites) /\ row.namespaces \in Seq(Namespace)
      /\ row.domain \in STRING /\ row.name \in STRING
  BY RowIs
<1>2. SitesKept(row) => sites = row.sites
  BY DEF SitesKept, WithNewUrls
<1>3. ASSUME sites # row.sites PROVE IsScheme(sites)
  <2> DEFINE Shop(services) == IF Shopping \in DOMAIN services
                               THEN With(services, Shopping, ShoppingRoute(row.domain, row.name))
                               ELSE services
  <2>1. Default \in DOMAIN row.sites
    BY <1>2, <1>3 DEF SitesKept
  <2>2. \E services \in {row.sites[Default]} \union Generated(row.domain, Around(row.namespaces), routes) :
            sites = With(row.sites, Default, Shop(services))
    BY <1>3 DEF WithNewUrls
  <2>3. PICK services \in {row.sites[Default]} \union Generated(row.domain, Around(row.namespaces), routes) :
            sites = With(row.sites, Default, Shop(services))
    BY <2>2
  <2>4. IsServices(services)
    <3>1. IsServices(row.sites[Default])
      BY <1>1, <2>1 DEF IsScheme
    <3>2. Around(row.namespaces) \in SUBSET Namespace
      BY <1>1, AroundTyped
    <3> QED BY <1>1, <2>3, <3>1, <3>2, GeneratedTyped
  <2>5. ShoppingRoute(row.domain, row.name) \in Seq(HostType)
    <3>1. "" \in STRING /\ PlatformZone \in STRING
      BY SchemeAssumption DEF SchemeAssumption
    <3>2. Host("", row.domain) \in HostType /\ Host(row.name, PlatformZone) \in HostType
      BY <1>1, <3>1, HostTyped
    <3>3. \A h \in HostType : <<h>> \in Seq(HostType)
      OBVIOUS
    <3> QED BY <3>2, <3>3 DEF ShoppingRoute
  <2>6. IsServices(Shop(services))
    BY <2>4, <2>5, WithServices
  <2> QED BY <1>1, <2>3, <2>6, WithScheme
<1> QED BY <1>1, <1>2, <1>3

\* A name that is made up belongs to no service: the first is taken, or free.
LEMMA UniqueNameIs ==
    ASSUME NEW names \in SUBSET {Names[1]}
    PROVE  UniqueName(names) \in STRING \ names
<1> DEFINE P(i) == Names[i] \notin names /\ \A j \in 1..(i - 1) : Names[j] \in names
<1>1. /\ Names \in Seq(STRING) /\ Names[1] # Names[2]
      /\ 1 \in DOMAIN Names /\ 2 \in DOMAIN Names
  <2>1. Names \in Seq(STRING) /\ Len(Names) > 1 /\ Names[1] # Names[2]
    BY SchemeAssumption DEF SchemeAssumption
  <2> QED BY <2>1
<1>2. P(1) \/ P(2)
  <2>1. CASE Names[1] \notin names
    BY <2>1
  <2>2. CASE Names[1] \in names
    <3>1. Names[2] \notin names
      BY <1>1
    <3>2. \A j \in 1..(2 - 1) : j = 1
      OBVIOUS
    <3> QED BY <2>2, <3>1, <3>2
  <2> QED BY <2>1, <2>2
<1>3. \E i \in DOMAIN Names : P(i)
  BY <1>1, <1>2
<1> DEFINE i == CHOOSE k \in DOMAIN Names : P(k)
<1>4. UniqueName(names) = Names[i]
  BY DEF UniqueName
<1>5. i \in DOMAIN Names /\ P(i)
  BY <1>3, Zenon
<1> HIDE DEF i
<1>6. Names[i] \in STRING
  BY <1>1, <1>5
<1> QED BY <1>4, <1>5, <1>6

\* The name a row gets is a given or a stored one, or belongs to no service.
LEMMA ServiceNameIs ==
    ASSUME NEW row, IsRow(row), NEW old, \A o \in old : IsRow(o),
           NEW names \in SUBSET {Names[1]}
    PROVE  /\ ServiceNameFor(row, old, names) \in STRING
           /\ \/ ServiceNameFor(row, old, names) \in {row.service} \union {o.service : o \in old}
              \/ ServiceNameFor(row, old, names) \notin names
<1>1. row.service \in STRING
  BY RowIs
<1>2. \A o \in old : o.service \in STRING
  BY RowIs
<1>3. old # {} => (CHOOSE o \in old : TRUE) \in old
  OBVIOUS
<1>4. UniqueName(names) \in STRING \ names
  BY UniqueNameIs
<1> QED BY <1>1, <1>2, <1>3, <1>4 DEF ServiceNameFor

-----------------------------------------------------------------------------
(* What is stored for a row.                                               *)

\* The shopping service under its name: no host comes in, and none goes unless
\* another service had that name.
UnderItsName(new, row, old, names) ==
    /\ IsRow(new) /\ new.namespaces = row.namespaces /\ new.active = row.active
    /\ HostsOf(new.sites) \subseteq HostsOf(row.sites)
    /\ (\A x \in SitesWith(Shopping, row.sites) : new.service \notin DOMAIN row.sites[x] \ {Shopping})
       => HostsOf(row.sites) \subseteq HostsOf(new.sites)
    /\ SitesWith(Shopping, row.sites) # {} =>
           /\ new.service = ServiceNameFor(row, old, names)
           /\ SitesWith(new.service, new.sites) # {}
           /\ new.service # Shopping =>
                  \E x \in SitesWith(Shopping, row.sites) :
                      SitesWith(Shopping, new.sites) = SitesWith(Shopping, row.sites) \ {x}

\* WithShoppingRenamed does that.
LEMMA RenamedRow ==
    ASSUME NEW row, IsRow(row), NEW old, \A o \in old : IsRow(o), NEW names \in SUBSET {Names[1]},
           NEW new \in WithShoppingRenamed(row, old, names)
    PROVE  UnderItsName(new, row, old, names)
<1> DEFINE name == ServiceNameFor(row, old, names)
           named == [row EXCEPT !.service = name]
<1>1. CASE SitesWith(Shopping, row.sites) = {}
  <2>1. new = row
    BY <1>1 DEF WithShoppingRenamed
  <2> QED BY <1>1, <2>1 DEF UnderItsName
<1>2. CASE SitesWith(Shopping, row.sites) # {}
  <2>1. /\ IsRow(named) /\ named.service = name /\ named.sites = row.sites
        /\ named.active = row.active /\ named.namespaces = row.namespaces
    BY ServiceNameIs, RowWithService
  <2>2. \E x \in SitesWith(Shopping, row.sites) :
            new = [named EXCEPT !.sites = ChangeServiceName(Shopping, named.service, x, named.sites)]
    BY <1>2 DEF WithShoppingRenamed
  <2> HIDE DEF named
  <2>3. PICK x \in SitesWith(Shopping, row.sites) :
            new = [named EXCEPT !.sites = ChangeServiceName(Shopping, name, x, row.sites)]
    BY <2>1, <2>2
  <2> DEFINE sites == ChangeServiceName(Shopping, name, x, row.sites)
  <2>4. /\ IsScheme(sites)
        /\ HostsOf(sites) \subseteq HostsOf(row.sites)
        /\ name \notin DOMAIN row.sites[x] \ {Shopping} => HostsOf(row.sites) \subseteq HostsOf(sites)
        /\ x \in SitesWith(name, sites)
        /\ name # Shopping => SitesWith(Shopping, sites) = SitesWith(Shopping, row.sites) \ {x}
    BY RowIs, Renamed
  <2>5. /\ IsRow(new) /\ new.sites = sites /\ new.active = named.active
        /\ new.namespaces = named.namespaces /\ new.service = named.service
    BY <2>1, <2>3, <2>4, RowWithSites
  <2> HIDE DEF sites
  <2> QED BY <1>2, <2>1, <2>4, <2>5 DEF UnderItsName
<1> QED BY <1>1, <1>2

\* General hosts of the namespaces of a row.
GeneralOf(row, routes) == HostsOfRoutes(RoutesIn(routes, Around(row.namespaces)))

\* The three steps of the normalisation, one after the other.
LEMMA NormalisedSteps ==
    ASSUME NEW row, IsRow(row), NEW old, \A o \in old : IsRow(o),
           NEW routes, routes \subseteq RouteType, NEW parents, NEW names \in SUBSET {Names[1]},
           NEW new \in Normalised(row, old, routes, parents, names)
    PROVE  \E sites, filtered :
               /\ IsScheme(sites) /\ (SitesKept(row) => sites = row.sites)
               /\ IsRow(filtered) /\ filtered.active = row.active
               /\ filtered.service = row.service
               /\ filtered.sites = FilterGeneralRoutes(sites, GeneralOf(row, routes))
               /\ filtered.namespaces = NamespacesAfter(row.namespaces)
               /\ new \in WithShoppingRenamed(filtered, old, names)
<1> DEFINE after == NamespacesAfter(row.namespaces)
           placed == [row EXCEPT !.namespaces = after]
           around == RoutesIn(routes, Around(placed.namespaces))
<1>1. row.namespaces \in Seq(Namespace) /\ Home \in Namespace
  BY RowIs, SchemeAssumption DEF SchemeAssumption
<1>2. after \in Seq(Namespace) /\ Around(after) = Around(row.namespaces)
  BY <1>1, SameAround
<1>3. \E sites \in WithNewUrls(placed, old, around) :
          new \in WithShoppingRenamed(
                      [placed EXCEPT !.sites = FilterGeneralRoutes(sites, HostsOfRoutes(around))], old, names)
  BY DEF Normalised
<1> HIDE DEF after
<1>4. /\ IsRow(placed) /\ placed.namespaces = after /\ placed.sites = row.sites
      /\ placed.active = row.active /\ placed.service = row.service
  BY <1>2, RowWithNamespaces
<1>5. around \subseteq RouteType /\ HostsOfRoutes(around) = GeneralOf(row, routes)
  BY <1>2, <1>4 DEF RoutesIn, GeneralOf
<1> HIDE DEF placed, around
<1>6. PICK sites \in WithNewUrls(placed, old, around) :
          new \in WithShoppingRenamed(
                      [placed EXCEPT !.sites = FilterGeneralRoutes(sites, HostsOfRoutes(around))], old, names)
  BY <1>3
<1>7. IsScheme(sites) /\ (SitesKept(row) => sites = row.sites)
  <2>1. IsScheme(sites) /\ (SitesKept(placed) => sites = placed.sites)
    BY <1>4, <1>5, NewUrlsTyped
  <2> QED BY <1>4, <2>1 DEF SitesKept
<1> DEFINE left == FilterGeneralRoutes(sites, GeneralOf(row, routes))
           filtered == [placed EXCEPT !.sites = left]
<1>8. IsScheme(left)
  BY <1>7, FilteredScheme
<1>9. /\ IsRow(filtered) /\ filtered.sites = left /\ filtered.active = placed.active
      /\ filtered.namespaces = placed.namespaces /\ filtered.service = placed.service
  BY <1>4, <1>8, RowWithSites
<1>10. new \in WithShoppingRenamed(filtered, old, names)
  BY <1>5, <1>6
<1> HIDE DEF filtered
<1> QED BY <1>4, <1>7, <1>9, <1>10 DEF after

\* One site's shopping service goes under the row's service name, given or new.
OneMoved(new, row, old, names) ==
    /\ SitesWith(new.service, new.sites) # {}
    /\ \/ new.service \in {row.service} \union {o.service : o \in old}
       \/ new.service \notin names
    /\ new.service # Shopping =>
           \E x \in SitesWith(Shopping, row.sites) :
               SitesWith(Shopping, new.sites) \subseteq SitesWith(Shopping, row.sites) \ {x}

\* What an upsert stores of a row: a row of the same namespaces, without a host
\* that nobody asked for, and with every host that is the tenant's own.
LEMMA NormalisedIs ==
    ASSUME NEW row, IsRow(row), NEW old, \A o \in old : IsRow(o),
           NEW routes, routes \subseteq RouteType, NEW parents, NEW names \in SUBSET {Names[1]},
           NEW new \in Normalised(row, old, routes, parents, names)
    PROVE  /\ IsRow(new) /\ new.active = row.active
           /\ Around(new.namespaces) = Around(row.namespaces)
           /\ SitesKept(row) => HostsOf(new.sites) \subseteq HostsOf(row.sites)
           /\ SitesKept(row) /\ ~StoredOver(row, new.service) /\ AtMostOne(row.sites, GeneralOf(row, routes))
              => HostsOf(row.sites) \ GeneralOf(row, routes) \subseteq HostsOf(new.sites)
           /\ /\ SitesKept(row)
              /\ SitesWith(Shopping, FilterGeneralRoutes(row.sites, GeneralOf(row, routes))) # {}
              => OneMoved(new, row, old, names)
<1> DEFINE bad == GeneralOf(row, routes)
<1>1. PICK sites, filtered :
          /\ IsScheme(sites) /\ (SitesKept(row) => sites = row.sites)
          /\ IsRow(filtered) /\ filtered.active = row.active /\ filtered.service = row.service
          /\ filtered.sites = FilterGeneralRoutes(sites, bad)
          /\ filtered.namespaces = NamespacesAfter(row.namespaces)
          /\ new \in WithShoppingRenamed(filtered, old, names)
  BY NormalisedSteps
<1> HIDE DEF bad
<1>2. UnderItsName(new, filtered, old, names)
  <2>1. IsRow(filtered) /\ new \in WithShoppingRenamed(filtered, old, names)
    BY <1>1
  <2> QED BY <2>1, RenamedRow
<1>3. Around(new.namespaces) = Around(row.namespaces)
  <2>1. row.namespaces \in Seq(Namespace) /\ Home \in Namespace
    BY RowIs, SchemeAssumption DEF SchemeAssumption
  <2> QED BY <1>1, <1>2, <2>1, SameAround DEF UnderItsName
<1>4. /\ DOMAIN filtered.sites = DOMAIN sites
      /\ \A x \in DOMAIN sites : DOMAIN filtered.sites[x] \subseteq DOMAIN sites[x]
      /\ HostsOf(filtered.sites) \subseteq HostsOf(sites)
      /\ AtMostOne(sites, bad) => OthersKept(sites, filtered.sites, bad)
  <2>1. IsScheme(sites) /\ filtered.sites = FilterGeneralRoutes(sites, bad)
    BY <1>1
  <2> QED BY <2>1, FilteredScheme
<1>5. SitesWith(Shopping, filtered.sites) \subseteq SitesWith(Shopping, sites)
  BY <1>4 DEF SitesWith
<1>6. SitesKept(row) => HostsOf(new.sites) \subseteq HostsOf(row.sites)
  BY <1>1, <1>2, <1>4 DEF UnderItsName
<1>7. ASSUME SitesKept(row), ~StoredOver(row, new.service),
             AtMostOne(row.sites, bad), NEW h \in HostsOf(row.sites) \ bad
      PROVE  h \in HostsOf(new.sites)
  <2>1. sites = row.sites
    BY <1>1, <1>7
  <2>2. PICK x \in DOMAIN sites : \E s \in DOMAIN sites[x] : h \in ElementsOf(sites[x][s])
    BY <2>1, HostsOfIs
  <2>3. PICK s \in DOMAIN sites[x] : h \in ElementsOf(sites[x][s])
    BY <2>2
  <2>4. s \in DOMAIN filtered.sites[x] /\ h \in ElementsOf(filtered.sites[x][s])
    BY <1>4, <1>7, <2>1, <2>3 DEF OthersKept
  <2>5. h \in HostsOf(filtered.sites)
    BY <1>4, <2>4, HostsOfIs
  <2>6. \A y \in SitesWith(Shopping, filtered.sites) :
            new.service \notin DOMAIN filtered.sites[y] \ {Shopping}
    <3>1. \A y \in SitesWith(Shopping, sites) : y \in DOMAIN sites /\ new.service \notin DOMAIN sites[y] \ {Shopping}
      BY <1>7, <2>1 DEF StoredOver, SitesWith
    <3> QED BY <1>4, <1>5, <3>1
  <2> QED BY <1>2, <2>5, <2>6 DEF UnderItsName
<1>8. ASSUME SitesKept(row), SitesWith(Shopping, FilterGeneralRoutes(row.sites, bad)) # {}
      PROVE  OneMoved(new, row, old, names)
  <2>1. SitesWith(Shopping, filtered.sites) # {} /\ sites = row.sites
    BY <1>1, <1>8
  <2>2. \/ new.service \in {row.service} \union {o.service : o \in old}
        \/ new.service \notin names
    BY <1>1, <1>2, <2>1, ServiceNameIs DEF UnderItsName
  <2>3. new.service # Shopping =>
            \E x \in SitesWith(Shopping, row.sites) :
                SitesWith(Shopping, new.sites) \subseteq SitesWith(Shopping, row.sites) \ {x}
    BY <1>2, <1>5, <2>1 DEF UnderItsName
  <2> QED BY <1>2, <2>1, <2>2, <2>3 DEF UnderItsName, OneMoved
<1> QED BY <1>1, <1>2, <1>3, <1>6, <1>7, <1>8 DEF bad, UnderItsName

-----------------------------------------------------------------------------
(* What is shown.                                                          *)

\* What is shown of a site maps services to lists of hosts.
LEMMA ShownTyped ==
    ASSUME NEW row, IsRow(row), NEW site, NEW routes, routes \subseteq RouteType,
           NEW services \in SchemesShown(row, site, routes)
    PROVE  IsServices(services)
<1> DEFINE own == IF site \in DOMAIN row.sites THEN row.sites[site] ELSE <<>>
<1>1. /\ IsScheme(row.sites) /\ row.namespaces \in Seq(Namespace) /\ row.domain \in STRING
  BY RowIs
<1>2. IsServices(own)
  <2>1. CASE site \in DOMAIN row.sites
    BY <1>1, <2>1 DEF IsScheme
  <2>2. CASE site \notin DOMAIN row.sites
    BY <2>2 DEF IsServices
  <2> QED BY <2>1, <2>2
<1>3. services \in {Without(s, row.service) :
                        s \in IF row.active THEN {own}
                              ELSE {Over(own, g) : g \in Generated(row.domain, Around(row.namespaces), routes)}}
  BY DEF SchemesShown
<1> HIDE DEF own
<1>4. \A s : IsServices(s) => IsServices(Without(s, row.service))
  BY DEF Without, IsServices
<1>5. \A g : IsServices(g) => IsServices(Over(own, g))
  BY <1>2 DEF Over, IsServices
<1>6. \A g \in Generated(row.domain, Around(row.namespaces), routes) : IsServices(g)
  <2>1. Around(row.namespaces) \in SUBSET Namespace
    BY <1>1, AroundTyped
  <2> QED BY <1>1, <2>1, GeneratedTyped
<1> QED BY <1>2, <1>3, <1>4, <1>5, <1>6

\* An entry is one of the tenant's or one of the cluster's.
OwnEntry(r, services) ==
    r.service \in DOMAIN services /\ r.host \in ElementsOf(services[r.service]) /\ r.general = FALSE
GeneralEntry(r, routes) ==
    r.general = TRUE /\ \E g \in routes : r.service = g.service /\ r.host = g.host /\ r.id = g.id

\* An annotated route leads its group in a scheme that may be shown.
LEMMA EntryIs ==
    ASSUME NEW row, NEW site, NEW routes, NEW r \in AnnotatedRoutes(row, site, routes)
    PROVE  \E services \in SchemesShown(row, site, routes) :
               /\ r \in Leading(OwnRoutes(services) \union GeneralRoutesOf(routes))
               /\ OwnEntry(r, services) \/ GeneralEntry(r, routes)
<1>1. PICK services \in SchemesShown(row, site, routes) :
          r \in Leading(OwnRoutes(services) \union GeneralRoutesOf(routes))
  BY DEF AnnotatedRoutes
<1>2. r \in OwnRoutes(services) \/ r \in GeneralRoutesOf(routes)
  BY <1>1 DEF Leading
<1>3. ASSUME r \in OwnRoutes(services) PROVE OwnEntry(r, services)
  <2>1. PICK s \in DOMAIN services :
            r \in {[service |-> s, host |-> services[s][i], id |-> "", general |-> FALSE]
                       : i \in DOMAIN services[s]}
    BY <1>3 DEF OwnRoutes
  <2>2. PICK i \in DOMAIN services[s] :
            r = [service |-> s, host |-> services[s][i], id |-> "", general |-> FALSE]
    BY <2>1
  <2>3. r.service = s /\ r.host = services[s][i] /\ r.general = FALSE
    BY <2>2
  <2> QED BY <2>3 DEF OwnEntry, ElementsOf
<1>4. ASSUME r \in GeneralRoutesOf(routes) PROVE GeneralEntry(r, routes)
  <2>1. PICK g \in routes : r = [service |-> g.service, host |-> g.host, id |-> g.id, general |-> TRUE]
    BY <1>4 DEF GeneralRoutesOf
  <2>2. r.service = g.service /\ r.host = g.host /\ r.id = g.id /\ r.general = TRUE
    BY <2>1
  <2> QED BY <2>2 DEF GeneralEntry
<1> QED BY <1>1, <1>2, <1>3, <1>4

\* The host of an annotated route is a host.
LEMMA EntryTyped ==
    ASSUME NEW row, IsRow(row), NEW site, NEW routes, routes \subseteq RouteType,
           NEW r \in AnnotatedRoutes(row, site, routes)
    PROVE  r.host \in HostType
<1>1. PICK services \in SchemesShown(row, site, routes) : OwnEntry(r, services) \/ GeneralEntry(r, routes)
  BY EntryIs
<1>2. CASE OwnEntry(r, services)
  <2>1. IsServices(services)
    BY ShownTyped
  <2>2. services[r.service] \in Seq(HostType)
    BY <1>2, <2>1 DEF IsServices, OwnEntry
  <2>3. \A i \in DOMAIN services[r.service] : services[r.service][i] \in HostType
    BY <2>2
  <2> QED BY <1>2, <2>3 DEF OwnEntry, ElementsOf
<1>3. CASE GeneralEntry(r, routes)
  BY <1>3 DEF GeneralEntry, RouteType
<1> QED BY <1>1, <1>2, <1>3

\* The generated default site is a scheme.
LEMMA DefaultSitesTyped ==
    ASSUME NEW row, IsRow(row), NEW routes, routes \subseteq RouteType,
           NEW sites \in DefaultSites(row, routes)
    PROVE  IsScheme(sites)
<1> DEFINE entries == AnnotatedRoutes(row, Default, routes)
           ids == {IdShown(r) : r \in entries}
<1>1. PICK f \in [ids -> {<<r.host>> : r \in entries}] : sites = [x \in {Default} |-> f]
  BY DEF DefaultSites
<1>2. \A r \in entries : <<r.host>> \in Seq(HostType)
  <2>1. ASSUME NEW r \in entries PROVE <<r.host>> \in Seq(HostType)
    <3>1. r.host \in HostType
      BY EntryTyped
    <3> QED BY <3>1
  <2> QED BY <2>1
<1> HIDE DEF ids, entries
<1>3. IsServices(f)
  BY <1>1, <1>2 DEF IsServices
<1> QED BY <1>1, <1>3 DEF IsScheme

\* What an active tenant is shown is in its scheme, or general.
LEMMA ShownInRealm ==
    ASSUME NEW row, NEW site \in DOMAIN row.sites, row.active = TRUE, NEW routes,
           NEW r \in AnnotatedRoutes(row, site, routes)
    PROVE  r.host \in RealmHosts(row, routes)
<1>1. PICK services \in SchemesShown(row, site, routes) : OwnEntry(r, services) \/ GeneralEntry(r, routes)
  BY EntryIs
<1>2. services = Without(row.sites[site], row.service)
  BY <1>1 DEF SchemesShown
<1>3. CASE OwnEntry(r, services)
  <2>1. r.service \in DOMAIN row.sites[site] /\ services[r.service] = row.sites[site][r.service]
    BY <1>2, <1>3 DEF Without, OwnEntry
  <2>2. r.host \in HostsOf(row.sites)
    BY <1>3, <2>1, HostsOfIs DEF OwnEntry
  <2> QED BY <2>2 DEF RealmHosts
<1>4. CASE GeneralEntry(r, routes)
  BY <1>4 DEF GeneralEntry, RealmHosts, HostsOfRoutes
<1> QED BY <1>1, <1>3, <1>4

\* A list that is not empty has a first element.
LEMMA FirstOfList ==
    ASSUME NEW S, NEW list \in Seq(S), list # <<>>
    PROVE  1 \in DOMAIN list
OBVIOUS

\* GetPriority puts a tenant's route before a general one.
LEMMA OwnIsAhead ==
    ASSUME NEW q, NEW r, q.general = FALSE, r.general = TRUE
    PROVE  ~(Priority(q) <= Priority(r))
BY DEF Priority

\* Each address of the tenant's is one of its own routes.
LEMMA OwnRouteIs ==
    ASSUME NEW services, NEW s \in DOMAIN services, NEW i \in DOMAIN services[s]
    PROVE  [service |-> s, host |-> services[s][i], id |-> "", general |-> FALSE]
               \in OwnRoutes(services)
<1> DEFINE Of(t) == {[service |-> t, host |-> services[t][k], id |-> "", general |-> FALSE]
                         : k \in DOMAIN services[t]}
<1>1. [service |-> s, host |-> services[s][i], id |-> "", general |-> FALSE] \in Of(s)
  OBVIOUS
<1>2. OwnRoutes(services) = UNION {Of(t) : t \in DOMAIN services}
  BY Zenon DEF OwnRoutes
<1> HIDE DEF Of
<1> QED BY <1>1, <1>2

\* A general route without an id gives way to the tenant's of the same service.
LEMMA OwnFirst ==
    ASSUME NEW row, IsRow(row), NEW site \in DOMAIN row.sites, row.active = TRUE,
           NEW routes, \A g \in routes : g.id = "",
           NEW r \in AnnotatedRoutes(row, site, routes),
           r.service \in DOMAIN row.sites[site], r.service # row.service,
           row.sites[site][r.service] # <<>>
    PROVE  r.host \in ElementsOf(row.sites[site][r.service])
<1>1. PICK services \in SchemesShown(row, site, routes) :
          /\ r \in Leading(OwnRoutes(services) \union GeneralRoutesOf(routes))
          /\ OwnEntry(r, services) \/ GeneralEntry(r, routes)
  BY EntryIs
<1>2. services = Without(row.sites[site], row.service)
  BY <1>1 DEF SchemesShown
<1>3. r.service \in DOMAIN services /\ services[r.service] = row.sites[site][r.service]
  BY <1>2 DEF Without
<1>4. CASE OwnEntry(r, services)
  BY <1>3, <1>4 DEF OwnEntry
<1>5. CASE GeneralEntry(r, routes)
  <2>1. r.id = "" /\ r.general = TRUE
    BY <1>5 DEF GeneralEntry
  <2>2. 1 \in DOMAIN services[r.service]
    <3>1. IsScheme(row.sites)
      BY RowIs
    <3>2. row.sites[site][r.service] \in Seq(HostType)
      BY <3>1 DEF IsScheme, IsServices
    <3> HIDE DEF HostType
    <3> QED BY <1>3, <3>2, FirstOfList
  <2> DEFINE s == r.service
             q == [service |-> s, host |-> services[s][1], id |-> "", general |-> FALSE]
  <2>3. q \in OwnRoutes(services)
    BY <1>3, <2>2, OwnRouteIs
  <2>4. q.service = s /\ q.id = "" /\ q.general = FALSE
    OBVIOUS
  <2> HIDE DEF q
  <2>5. GroupOf(q) = GroupOf(r)
    BY <2>1, <2>4 DEF GroupOf
  <2>6. Priority(q) <= Priority(r)
    BY <1>1, <2>3, <2>5 DEF Leading
  <2> QED BY <2>1, <2>4, <2>6, OwnIsAhead
<1> QED BY <1>1, <1>4, <1>5

\* Merging general routes into a scheme leaves every host where it was found.
LEMMA FoundWhereItIs ==
    ASSUME NEW row, NEW routes, NEW merged \in MergedSchemes(row, routes), NEW h \in HostsOf(row.sites)
    PROVE  /\ SitesOfHost(merged, h) # {}
           /\ \A x \in SitesOfHost(merged, h) :
                  h \in HostsOf([y \in {Default} \intersect DOMAIN row.sites |-> row.sites[y]])
                  => x = Default
<1> DEFINE found == {x \in DOMAIN merged : h \in HostsOf([y \in {x} |-> merged[x]])}
<1>1. PICK services : merged = [x \in DOMAIN row.sites |-> Over(row.sites[x], services)]
  BY DEF MergedSchemes
<1>2. ASSUME NEW x \in DOMAIN row.sites, NEW s \in DOMAIN row.sites[x], h \in ElementsOf(row.sites[x][s])
      PROVE  x \in found
  <2>1. x \in DOMAIN merged /\ s \in DOMAIN merged[x] /\ merged[x][s] = row.sites[x][s]
    BY <1>1 DEF Over
  <2> DEFINE one == [y \in {x} |-> merged[x]]
  <2>2. x \in DOMAIN one /\ one[x] = merged[x]
    OBVIOUS
  <2> HIDE DEF one
  <2>3. h \in HostsOf(one)
    BY <1>2, <2>1, <2>2, HostsOfIs
  <2> QED BY <2>1, <2>3 DEF one
<1>3. found # {}
  BY <1>2, HostsOfIs
<1>4. ASSUME h \in HostsOf([y \in {Default} \intersect DOMAIN row.sites |-> row.sites[y]])
      PROVE  Default \in found
  <2> DEFINE part == [y \in {Default} \intersect DOMAIN row.sites |-> row.sites[y]]
  <2>1. PICK x \in DOMAIN part : \E s \in DOMAIN part[x] : h \in ElementsOf(part[x][s])
    BY <1>4, HostsOfIs
  <2>2. x = Default /\ x \in DOMAIN row.sites /\ part[x] = row.sites[x]
    BY <2>1
  <2> QED BY <1>2, <2>1, <2>2
<1>5. SitesOfHost(merged, h) = IF Default \in found THEN {Default} ELSE found
  BY DEF SitesOfHost
<1> HIDE DEF found
<1> QED BY <1>3, <1>4, <1>5

-----------------------------------------------------------------------------
(* The inductive invariant: types, and that what an upsert stored is one of *)
(* the outcomes for what it was asked, in the cluster as it still is.       *)

Answered ==
    Upserted => \E asked, new, old :
        /\ request.asked = {asked} /\ stored = {new}
        /\ IsRow(asked) /\ (\A o \in old : IsRow(o))
        /\ new \in Normalised(asked, old, general, parent, taken)

SchemeInv == TypeOK /\ taken \in SUBSET {Names[1]} /\ Answered

\* A table of one row.
LEMMA OneRow ==
    ASSUME NEW row, IsRow(row), NEW rows, rows = {row}
    PROVE  Cardinality(rows) <= 1 /\ \A o \in rows : IsRow(o)
BY FS_Singleton

\* There is no row yet.
LEMMA InitInv == Init => SchemeInv
<1> SUFFICES ASSUME Init PROVE SchemeInv
  OBVIOUS
<1>1. Cardinality(stored) = 0
  BY FS_EmptySet DEF Init
<1>2. TypeOK
  BY <1>1 DEF Init, TypeOK
<1>3. taken \in SUBSET {Names[1]}
  BY DEF Init
<1>4. request.op = "none"
  BY DEF Init, NoRequest
<1>5. Answered
  BY <1>4 DEF Answered, Upserted
<1> QED BY <1>2, <1>3, <1>5 DEF SchemeInv

\* General routes have the fields of routes.
LEMMA RoutesTyped == TypeOK => general \subseteq RouteType
BY SchemeAssumption DEF TypeOK, SchemeAssumption

\* What an upsert leaves: the row as it was, or an outcome.
LEMMA UpsertIs ==
    ASSUME TypeOK, taken \in SUBSET {Names[1]}, NEW op \in {"put", "status"},
           NEW row, IsRow(row), Upsert(op, row)
    PROVE  SchemeInv'
<1>1. general \subseteq RouteType /\ \A o \in stored : IsRow(o)
  BY RoutesTyped DEF TypeOK
<1>2. general' = general /\ parent' = parent /\ taken' = taken
  BY DEF Upsert, cluster
<1>3. /\ request' = [op |-> op, asked |-> {row}, ok |-> Outcomes(row) # {}]
      /\ \/ \E new \in Outcomes(row) : stored' = {new}
         \/ Outcomes(row) = {} /\ stored' = stored
  BY DEF Upsert
<1>4. CASE \E new \in Outcomes(row) : stored' = {new}
  <2>1. PICK new \in Outcomes(row) : stored' = {new}
    BY <1>4
  <2>2. new \in Normalised(row, stored, general, parent, taken)
    BY DEF Outcomes
  <2>3. IsRow(new)
    BY <1>1, <2>2, NormalisedIs
  <2>4. Cardinality(stored') <= 1 /\ \A o \in stored' : IsRow(o)
    BY <2>1, <2>3, OneRow
  <2>5. TypeOK'
    BY <1>2, <2>4 DEF TypeOK
  <2>6. new \in Normalised(row, stored, general', parent', taken')
    BY <1>2, <2>2
  <2>7. request'.asked = {row}
    BY <1>3
  <2>8. Answered'
    BY <1>1, <2>1, <2>6, <2>7 DEF Answered
  <2> QED BY <1>2, <2>5, <2>8 DEF SchemeInv
<1>5. CASE Outcomes(row) = {} /\ stored' = stored
  <2>1. TypeOK'
    BY <1>2, <1>5 DEF TypeOK
  <2>2. request'.ok = FALSE
    BY <1>3, <1>5
  <2>3. Answered'
    BY <2>2 DEF Answered, Upserted
  <2> QED BY <1>2, <2>1, <2>3 DEF SchemeInv
<1> QED BY <1>3, <1>4, <1>5

\* A PUT brings a row.
LEMMA BodyTyped == \A body \in Bodies : IsRow(body)
BY SchemeAssumption DEF SchemeAssumption

\* Every step keeps the invariant.
LEMMA StepInv == SchemeInv /\ [Next]_vars => SchemeInv'
<1> SUFFICES ASSUME SchemeInv, [Next]_vars PROVE SchemeInv'
  OBVIOUS
<1>1. /\ TypeOK /\ taken \in SUBSET {Names[1]} /\ general \subseteq RouteType
      /\ \A o \in stored : IsRow(o)
  BY RoutesTyped DEF SchemeInv, TypeOK
<1>2. CASE \E body \in Bodies : Put(body)
  <2>1. PICK body \in Bodies : Upsert("put", body)
    BY <1>2 DEF Put
  <2>2. IsRow(body)
    BY BodyTyped
  <2> QED BY <1>1, <2>1, <2>2, UpsertIs
<1>3. CASE \E active \in BOOLEAN : ChangeTenantStatus(active)
  <2>1. PICK active \in BOOLEAN : \E row \in stored : Upsert("status", [row EXCEPT !.active = active])
    BY <1>3 DEF ChangeTenantStatus
  <2>2. PICK row \in stored : Upsert("status", [row EXCEPT !.active = active])
    BY <2>1
  <2>3. IsRow([row EXCEPT !.active = active])
    BY <1>1, RowWithStatus
  <2> QED BY <1>1, <2>2, <2>3, UpsertIs
<1>4. CASE DeleteRoutes
  <2>1. PICK row \in stored : stored' = {[row EXCEPT !.sites = <<>>]}
    BY <1>4 DEF DeleteRoutes
  <2>2. request' = [op |-> "delete", asked |-> {}, ok |-> TRUE]
        /\ general' = general /\ parent' = parent /\ taken' = taken
    BY <1>4 DEF DeleteRoutes, cluster
  <2>3. IsScheme(<<>>)
    BY DEF IsScheme
  <2>4. IsRow([row EXCEPT !.sites = <<>>])
    BY <1>1, <2>3, RowWithSites
  <2>5. Cardinality(stored') <= 1 /\ \A o \in stored' : IsRow(o)
    BY <2>1, <2>4, OneRow
  <2>6. TypeOK'
    BY <1>1, <2>2, <2>5 DEF TypeOK
  <2>7. request'.op = "delete"
    BY <2>2
  <2>8. Answered'
    BY <2>7 DEF Answered, Upserted
  <2> QED BY <1>1, <2>2, <2>6, <2>8 DEF SchemeInv
<1>5. CASE RestoreTenantAlias
  <2>1. PICK row \in stored :
            LET around == RoutesIn(general, Around(row.namespaces))
                drafts == IF row.sites # <<>> THEN {row}
                          ELSE {[row EXCEPT !.sites = sites] : sites \in DefaultSites(row, around)}
                mids == IF row.sites # <<>> THEN {row} ELSE UNION {Outcomes(d) : d \in drafts}
                After(mid) == Normalised([mid EXCEPT !.active = TRUE], {mid}, general, parent, taken)
            IN /\ IF mids = {} THEN stored' = stored
                  ELSE \E mid \in mids :
                          \/ \E new \in After(mid) : stored' = {new}
                          \/ After(mid) = {} /\ stored' = {mid}
               /\ request' = [op |-> "restore", asked |-> {},
                              ok |-> \E mid \in mids : After(mid) # {}]
               /\ UNCHANGED cluster
    BY <1>5 DEF RestoreTenantAlias
  <2> DEFINE around == RoutesIn(general, Around(row.namespaces))
             drafts == IF row.sites # <<>> THEN {row}
                       ELSE {[row EXCEPT !.sites = sites] : sites \in DefaultSites(row, around)}
             mids == IF row.sites # <<>> THEN {row} ELSE UNION {Outcomes(d) : d \in drafts}
             After(mid) == Normalised([mid EXCEPT !.active = TRUE], {mid}, general, parent, taken)
  <2>2. /\ mids = {} => stored' = stored
        /\ mids # {} => \E mid \in mids :
                            \/ \E new \in After(mid) : stored' = {new}
                            \/ stored' = {mid}
    BY <2>1
  <2>3. /\ request'.op = "restore"
        /\ general' = general /\ parent' = parent /\ taken' = taken
    BY <2>1 DEF cluster
  <2>4. \A d \in drafts : IsRow(d)
    <3>1. around \subseteq RouteType
      BY <1>1 DEF RoutesIn
    <3>2. ASSUME NEW sites \in DefaultSites(row, around) PROVE IsRow([row EXCEPT !.sites = sites])
      <4>1. IsScheme(sites)
        BY <1>1, <3>1, DefaultSitesTyped
      <4> QED BY <1>1, <4>1, RowWithSites
    <3> HIDE DEF around
    <3> QED BY <1>1, <3>2
  <2> HIDE DEF drafts
  <2>5. \A mid \in mids : IsRow(mid)
    <3>1. ASSUME NEW d \in drafts, NEW mid \in Outcomes(d) PROVE IsRow(mid)
      <4>1. mid \in Normalised(d, stored, general, parent, taken)
        BY DEF Outcomes
      <4> QED BY <1>1, <2>4, <4>1, NormalisedIs
    <3> QED BY <1>1, <3>1
  <2>6. ASSUME NEW mid \in mids, NEW new \in After(mid) PROVE IsRow(new)
    <3>1. IsRow(mid)
      BY <2>5
    <3> DEFINE asked == [mid EXCEPT !.active = TRUE]
               old == {mid}
    <3>2. IsRow(asked) /\ \A o \in old : IsRow(o)
      BY <3>1, RowWithStatus
    <3>3. new \in Normalised(asked, old, general, parent, taken)
      OBVIOUS
    <3> HIDE DEF asked, old
    <3> QED BY <1>1, <3>2, <3>3, NormalisedIs
  <2> HIDE DEF mids, After
  <2>7. Cardinality(stored') <= 1 /\ \A o \in stored' : IsRow(o)
    <3>1. CASE stored' = stored
      BY <1>1, <3>1 DEF TypeOK
    <3>2. CASE \E mid \in mids : (\E new \in After(mid) : stored' = {new}) \/ stored' = {mid}
      <4>1. PICK new : IsRow(new) /\ stored' = {new}
        BY <2>5, <2>6, <3>2
      <4> QED BY <4>1, OneRow
    <3> QED BY <2>2, <3>1, <3>2
  <2>8. TypeOK'
    BY <1>1, <2>3, <2>7 DEF TypeOK
  <2>9. Answered'
    BY <2>3 DEF Answered, Upserted
  <2> QED BY <1>1, <2>3, <2>8, <2>9 DEF SchemeInv
<1>6. CASE ClusterChanges
  <2>1. stored' = stored /\ request' = NoRequest
    BY <1>6 DEF ClusterChanges
  <2>2. /\ general' \subseteq GeneralRoutes /\ parent' \in ParentMaps /\ taken' \in SUBSET {Names[1]}
    BY <1>1, <1>6 DEF ClusterChanges, TypeOK
  <2>3. TypeOK'
    BY <1>1, <2>1, <2>2 DEF TypeOK
  <2>4. request'.op = "none"
    BY <2>1 DEF NoRequest
  <2>5. Answered'
    BY <2>4 DEF Answered, Upserted
  <2> QED BY <2>2, <2>3, <2>5 DEF SchemeInv
<1>7. CASE UNCHANGED vars
  BY <1>7 DEF SchemeInv, TypeOK, Answered, Upserted, vars
<1> QED BY <1>2, <1>3, <1>4, <1>5, <1>6, <1>7 DEF Next

\* The invariant holds throughout.
LEMMA Inductive == Spec => []SchemeInv
BY InitInv, StepInv, PTL DEF Spec

-----------------------------------------------------------------------------
(* The theorems.                                                           *)

\* TypeOK: there is one row at most, and it is a scheme of lists of hosts.
THEOREM TypeCorrect == Spec => []TypeOK
<1>1. SchemeInv => TypeOK
  BY DEF SchemeInv
<1> QED BY <1>1, Inductive, PTL

\* What Answered says, for the rows an upsert was asked for and left.
LEMMA AnsweredIs ==
    ASSUME SchemeInv, Upserted, NEW asked \in request.asked, NEW new \in stored
    PROVE  /\ IsRow(asked)
           /\ \E old : /\ \A o \in old : IsRow(o)
                       /\ new \in Normalised(asked, old, general, parent, taken)
           /\ general \subseteq RouteType /\ taken \in SUBSET {Names[1]}
BY RoutesTyped DEF SchemeInv, Answered

\* The conclusion of NormalisedIs for them.
LEMMA AnswerKeeps ==
    ASSUME SchemeInv, Upserted, NEW asked \in request.asked, NEW new \in stored
    PROVE  /\ Around(new.namespaces) = Around(asked.namespaces)
           /\ SitesKept(asked) => HostsOf(new.sites) \subseteq HostsOf(asked.sites)
           /\ FewGeneral(asked) /\ SitesKept(asked) /\ ~StoredOver(asked, new.service)
              => HostsOf(asked.sites) \ HostsOfRoutes(GeneralAround(asked)) \subseteq HostsOf(new.sites)
<1>1. /\ IsRow(asked) /\ general \subseteq RouteType /\ taken \in SUBSET {Names[1]}
      /\ \E old : /\ \A o \in old : IsRow(o)
                  /\ new \in Normalised(asked, old, general, parent, taken)
  BY AnsweredIs
<1>2. PICK old : /\ \A o \in old : IsRow(o)
                 /\ new \in Normalised(asked, old, general, parent, taken)
  BY <1>1
<1>3. HostsOfRoutes(GeneralAround(asked)) = GeneralOf(asked, general)
  BY DEF GeneralAround, GeneralOf
<1>4. FewGeneral(asked) => AtMostOne(asked.sites, GeneralOf(asked, general))
  BY <1>3 DEF FewGeneral, AtMostOne
<1>5. Around(new.namespaces) = Around(asked.namespaces)
  BY <1>1, <1>2, NormalisedIs
<1>6. SitesKept(asked) => HostsOf(new.sites) \subseteq HostsOf(asked.sites)
  BY <1>1, <1>2, NormalisedIs
<1>7. SitesKept(asked) /\ ~StoredOver(asked, new.service) /\ AtMostOne(asked.sites, GeneralOf(asked, general))
      => HostsOf(asked.sites) \ GeneralOf(asked, general) \subseteq HostsOf(new.sites)
  BY <1>1, <1>2, NormalisedIs
<1> QED BY <1>3, <1>4, <1>5, <1>6, <1>7

\* NoForeignHost: an upsert stores no host that nobody asked for.
THEOREM OnlyHostsAskedFor == Spec => []NoForeignHost
<1>1. SchemeInv => NoForeignHost
  BY AnswerKeeps DEF NoForeignHost
<1> QED BY <1>1, Inductive, PTL

\* NamespacesKept: taking the own namespace out of the slice in place loses no other.
THEOREM SameNamespaces == Spec => []NamespacesKept
<1>1. SchemeInv => NamespacesKept
  BY AnswerKeeps DEF NamespacesKept
<1> QED BY <1>1, Inductive, PTL

\* OwnHostsKept: the loop that removes general hosts under its own feet costs the
\* tenant no host of its own, however long the lists are.
THEOREM OwnHostsSurvive == Spec => []OwnHostsKept
<1>1. SchemeInv => OwnHostsKept
  BY AnswerKeeps DEF OwnHostsKept
<1> QED BY <1>1, Inductive, PTL

\* ShownHostsAreInRealm: an active tenant's users are shown addresses of its realm only.
THEOREM ShownIsAllowed == Spec => []ShownHostsAreInRealm
<1>1. SchemeInv => ShownHostsAreInRealm
  <2> SUFFICES ASSUME SchemeInv, NEW row \in stored, NEW x \in DOMAIN row.sites, row.active,
                      NEW r \in AnnotatedRoutes(row, x, GeneralAround(row))
               PROVE  r.host \in RealmHosts(row, GeneralAround(row))
    BY DEF ShownHostsAreInRealm
  <2>1. row.active = TRUE
    BY RowIs DEF SchemeInv, TypeOK
  <2> QED BY <2>1, ShownInRealm
<1> QED BY <1>1, Inductive, PTL

\* TenantRouteFirst: a general route without an id never hides a tenant's address.
THEOREM OwnRouteWins == Spec => []TenantRouteFirst
<1>1. SchemeInv => TenantRouteFirst
  <2> SUFFICES ASSUME SchemeInv, NEW row \in stored, NEW x \in DOMAIN row.sites, row.active,
                      NEW r \in AnnotatedRoutes(row, x, {g \in GeneralAround(row) : g.id = ""}),
                      r.service \in DOMAIN row.sites[x], r.service # row.service,
                      row.sites[x][r.service] # <<>>
               PROVE  r.host \in ElementsOf(row.sites[x][r.service])
    BY DEF TenantRouteFirst
  <2> DEFINE routes == {g \in GeneralAround(row) : g.id = ""}
  <2>1. IsRow(row) /\ row.active = TRUE
    BY RowIs DEF SchemeInv, TypeOK
  <2>2. r \in AnnotatedRoutes(row, x, routes) /\ \A g \in routes : g.id = ""
    OBVIOUS
  <2> HIDE DEF routes
  <2> QED BY <2>1, <2>2, OwnFirst
<1> QED BY <1>1, Inductive, PTL

\* HostFindsItsSite: merging general routes hides no site from its hosts.
THEOREM EveryHostIsFound == Spec => []HostFindsItsSite
<1>1. SchemeInv => HostFindsItsSite
  BY FoundWhereItIs DEF HostFindsItsSite
<1> QED BY <1>1, Inductive, PTL

\* An upsert that succeeds stores an outcome for the row it was asked for.
LEMMA UpsertStores ==
    ASSUME SchemeInv, NEW op, NEW row, IsRow(row), Upsert(op, row), request'.ok
    PROVE  /\ request'.asked = {row}
           /\ \E new \in Normalised(row, stored, general, parent, taken) : stored' = {new}
<1>1. request' = [op |-> op, asked |-> {row}, ok |-> Outcomes(row) # {}]
  BY DEF Upsert
<1>2. request'.asked = {row} /\ Outcomes(row) # {}
  BY <1>1
<1> QED BY <1>2 DEF Upsert, Outcomes

\* A put or a change of status is an upsert of a row.
LEMMA AnswersUpsert ==
    ASSUME Next, request'.op \in {"put", "status"}, \A o \in stored : IsRow(o)
    PROVE  \E op, row : IsRow(row) /\ Upsert(op, row)
<1>1. CASE \E body \in Bodies : Put(body)
  BY <1>1, BodyTyped DEF Put
<1>2. CASE \E active \in BOOLEAN : ChangeTenantStatus(active)
  <2>1. PICK active \in BOOLEAN : \E row \in stored : Upsert("status", [row EXCEPT !.active = active])
    BY <1>2 DEF ChangeTenantStatus
  <2>2. PICK row \in stored : Upsert("status", [row EXCEPT !.active = active])
    BY <2>1
  <2>3. IsRow([row EXCEPT !.active = active])
    BY RowWithStatus
  <2> QED BY <2>2, <2>3
<1>3. CASE DeleteRoutes \/ RestoreTenantAlias \/ ClusterChanges
  <2>1. request'.op \in {"delete", "restore", "none"}
    BY <1>3 DEF DeleteRoutes, RestoreTenantAlias, ClusterChanges, NoRequest
  <2> QED BY <2>1
<1> QED BY <1>1, <1>2, <1>3 DEF Next

\* NormalisedIs for an upsert that is under way.
LEMMA MovedIs ==
    ASSUME \A o \in stored : IsRow(o), general \subseteq RouteType, taken \in SUBSET {Names[1]},
           NEW asked, IsRow(asked), SitesKept(asked),
           SitesWith(Shopping, FilterGeneralRoutes(asked.sites, GeneralOf(asked, general))) # {},
           NEW new \in Normalised(asked, stored, general, parent, taken)
    PROVE  OneMoved(new, asked, stored, taken)
BY NormalisedIs

\* ShoppingRenamed: after an upsert no site has the shopping service, one has it under
\* the row's service name, and a name that was made up belonged to no service.
THEOREM ShoppingUnderItsName == Spec => ShoppingRenamed
<1>1. SchemeInv /\ [Next]_vars =>
        [request'.op \in {"put", "status"} /\ request'.ok /\ cluster' = cluster
         => \A asked \in request'.asked, new \in stored' :
              (\E x \in DOMAIN asked.sites : SitesWith(Shopping, asked.sites) = {x})
              /\ SitesKept(asked)
              /\ new.service # Shopping
              /\ SitesWith(Shopping, FilterGeneralRoutes(asked.sites,
                     HostsOfRoutes(GeneralAround(asked)))) # {}
              => /\ SitesWith(Shopping, new.sites) = {}
                 /\ SitesWith(new.service, new.sites) # {}
                 /\ new.service \in {asked.service} \union {o.service : o \in stored}
                    \/ new.service \notin taken]_vars
  <2> SUFFICES ASSUME SchemeInv, Next, request'.op \in {"put", "status"}, request'.ok,
                      NEW asked \in request'.asked, NEW new \in stored',
                      \E x \in DOMAIN asked.sites : SitesWith(Shopping, asked.sites) = {x},
                      SitesKept(asked),
                      new.service # Shopping,
                      SitesWith(Shopping, FilterGeneralRoutes(asked.sites,
                          HostsOfRoutes(GeneralAround(asked)))) # {}
               PROVE  /\ SitesWith(Shopping, new.sites) = {}
                      /\ SitesWith(new.service, new.sites) # {}
                      /\ \/ new.service \in {asked.service} \union {o.service : o \in stored}
                         \/ new.service \notin taken
    OBVIOUS
  <2>1. (\A o \in stored : IsRow(o)) /\ general \subseteq RouteType /\ taken \in SUBSET {Names[1]}
    BY RoutesTyped DEF SchemeInv, TypeOK
  <2>2. \E op, row : IsRow(row) /\ Upsert(op, row)
    BY <2>1, AnswersUpsert
  <2>3. PICK op, row : IsRow(row) /\ Upsert(op, row)
    BY <2>2
  <2>4. /\ IsRow(asked)
        /\ new \in Normalised(asked, stored, general, parent, taken)
    BY <2>3, UpsertStores
  <2>5. HostsOfRoutes(GeneralAround(asked)) = GeneralOf(asked, general)
    BY DEF GeneralAround, GeneralOf
  <2>6. OneMoved(new, asked, stored, taken)
    <3>1. SitesWith(Shopping, FilterGeneralRoutes(asked.sites, GeneralOf(asked, general))) # {}
      BY <2>5
    <3> QED BY <2>1, <2>4, <3>1, MovedIs
  <2> QED BY <2>6 DEF OneMoved
<1> QED BY <1>1, Inductive, PTL DEF Spec, ShoppingRenamed
-----------------------------------------------------------------------------
(* An upsert of what an upsert stored.                                     *)

\* Generated lists have one host each.
LEMMA GeneratedFew ==
    ASSUME NEW domain, NEW namespaces, NEW routes, NEW services \in Generated(domain, namespaces, routes),
           NEW bad
    PROVE  /\ DOMAIN services = PublicIn(namespaces)
           /\ \A s \in DOMAIN services : Few(services[s], bad)
<1> DEFINE names == PublicIn(namespaces)
           all == UNION {GeneratedHosts(s, domain, routes) : s \in names}
<1>1. services \in [names -> {<<h>> : h \in all}]
  BY DEF Generated
<1> HIDE DEF names, all
<1>2. ASSUME NEW s \in names PROVE Few(services[s], bad)
  <2>1. PICK h \in all : services[s] = <<h>>
    BY <1>1
  <2>2. DOMAIN services[s] = {1}
    BY <2>1
  <2> QED BY <2>2 DEF Few
<1> QED BY <1>1, <1>2 DEF names

\* The sites an upsert starts from have no list with two general hosts when the
\* sites asked for have none, and the shopping service is where it may be.
LEMMA NewUrlsFew ==
    ASSUME NEW row, IsRow(row), NEW old, NEW routes, NEW sites \in WithNewUrls(row, old, routes),
           NEW bad, AllFew(row.sites, bad)
    PROVE  /\ AllFew(sites, bad)
           /\ SitesWith(Shopping, sites) \subseteq ShoppingPlaces(row)
<1> DEFINE Shop(services) == IF Shopping \in DOMAIN services
                             THEN With(services, Shopping, ShoppingRoute(row.domain, row.name))
                             ELSE services
           given == row.sites
<1>1. CASE sites = given
  BY <1>1 DEF ShoppingPlaces
<1>2. CASE sites # given
  <2>1. Default \in DOMAIN given /\ ~row.active
    BY <1>2 DEF WithNewUrls
  <2>2. \E services \in {given[Default]} \union Generated(row.domain, Around(row.namespaces), routes) :
            sites = With(given, Default, Shop(services))
    BY <1>2 DEF WithNewUrls
  <2>3. PICK services \in {given[Default]} \union Generated(row.domain, Around(row.namespaces), routes) :
            sites = With(given, Default, Shop(services))
    BY <2>2
  <2>4. \A s \in DOMAIN services : Few(services[s], bad)
    BY <2>1, <2>3, GeneratedFew DEF AllFew
  <2>5. Shopping \in DOMAIN services => Default \in ShoppingPlaces(row)
    <3>1. CASE services = given[Default]
      BY <2>1, <3>1 DEF ShoppingPlaces, SitesWith
    <3>2. CASE services \in Generated(row.domain, Around(row.namespaces), routes)
      <4>1. DOMAIN services = PublicIn(Around(row.namespaces))
        BY <3>2, GeneratedFew
      <4> QED BY <2>1, <4>1 DEF ShoppingPlaces, SitesKept
    <3> QED BY <2>3, <3>1, <3>2
  <2> DEFINE list == ShoppingRoute(row.domain, row.name)
             put == Shop(services)
  <2>6. Few(list, bad)
    <3>1. DOMAIN list = {1}
      BY DEF ShoppingRoute
    <3> HIDE DEF list
    <3> QED BY <3>1 DEF Few
  <2> HIDE DEF list
  <2>7. DOMAIN put = DOMAIN services /\ \A s \in DOMAIN put : Few(put[s], bad)
    <3>1. CASE Shopping \in DOMAIN services
      <4>1. put = With(services, Shopping, list)
        BY <3>1 DEF list
      <4>2. DOMAIN put = DOMAIN services /\ put[Shopping] = list
            /\ \A s \in DOMAIN services : s # Shopping => put[s] = services[s]
        BY <3>1, <4>1 DEF With
      <4> HIDE DEF put
      <4> QED BY <2>4, <2>6, <4>2
    <3>2. CASE Shopping \notin DOMAIN services
      BY <2>4, <3>2
    <3> QED BY <3>1, <3>2
  <2> HIDE DEF put
  <2>8. sites = With(given, Default, put)
    BY <2>3 DEF put
  <2>9. /\ DOMAIN sites = DOMAIN given /\ sites[Default] = put
        /\ \A x \in DOMAIN given : x # Default => sites[x] = given[x]
    BY <2>1, <2>8 DEF With
  <2>10. AllFew(sites, bad)
    BY <2>7, <2>9 DEF AllFew
  <2>11. ASSUME NEW x \in SitesWith(Shopping, sites) PROVE x \in ShoppingPlaces(row)
    <3>1. CASE x = Default
      BY <2>5, <2>7, <2>9, <2>11, <3>1 DEF SitesWith
    <3>2. CASE x # Default
      BY <2>9, <2>11, <3>2 DEF SitesWith, ShoppingPlaces
    <3> QED BY <3>1, <3>2
  <2> QED BY <2>10, <2>11
<1> QED BY <1>1, <1>2

\* Taking the own namespace out once is taking it out for good.
LEMMA NamespacesSettle ==
    ASSUME NEW namespaces \in Seq(Namespace), Few(namespaces, {Home})
    PROVE  NamespacesAfter(NamespacesAfter(namespaces)) = NamespacesAfter(namespaces)
<1> DEFINE out == RemovalLoop(namespaces, {Home}, FALSE)
<1>1. NamespacesAfter(namespaces) = out.array
  BY DEF NamespacesAfter, HomeRemoved
<1>2. out.array \in Seq(Namespace) /\ AtEnd(out.array, {Home}, FALSE)
  BY LoopSettles
<1> HIDE DEF out
<1> DEFINE list == out.array
<1>3. list \in Seq(Namespace) /\ AtEnd(list, {Home}, FALSE)
  BY <1>2
<1> HIDE DEF list
<1>4. RemovalLoop(list, {Home}, FALSE).array = list
  BY <1>3, LoopLeaves
<1>5. NamespacesAfter(list) = list
  BY <1>4 DEF NamespacesAfter, HomeRemoved
<1> QED BY <1>1, <1>5 DEF list

\* A row that an upsert has nothing to do about.
RowSettled(row, bad) ==
    /\ NamespacesAfter(row.namespaces) = row.namespaces
    /\ Settled(row.sites, bad)
    /\ SitesWith(Shopping, row.sites) = {} \/ row.service = Shopping

\* Renaming the shopping service, if it does anything, is changing its name.
LEMMA RenamedIs ==
    ASSUME NEW row, IsRow(row), NEW old, \A o \in old : IsRow(o), NEW names \in SUBSET {Names[1]},
           NEW new \in WithShoppingRenamed(row, old, names)
    PROVE  \/ SitesWith(Shopping, row.sites) = {} /\ new = row
           \/ \E x \in SitesWith(Shopping, row.sites) :
                  new.sites = ChangeServiceName(Shopping, new.service, x, row.sites)
<1> DEFINE name == ServiceNameFor(row, old, names)
           named == [row EXCEPT !.service = name]
<1>1. CASE SitesWith(Shopping, row.sites) = {}
  BY <1>1 DEF WithShoppingRenamed
<1>2. CASE SitesWith(Shopping, row.sites) # {}
  <2>1. IsRow(named) /\ named.service = name /\ named.sites = row.sites
    <3>1. name \in STRING
      BY ServiceNameIs
    <3> HIDE DEF name
    <3> QED BY <3>1, RowWithService
  <2>2. \E x \in SitesWith(Shopping, row.sites) :
            new = [named EXCEPT !.sites = ChangeServiceName(Shopping, named.service, x, named.sites)]
    BY <1>2 DEF WithShoppingRenamed
  <2> HIDE DEF named
  <2>3. PICK x \in SitesWith(Shopping, row.sites) :
            new = [named EXCEPT !.sites = ChangeServiceName(Shopping, name, x, row.sites)]
    BY <2>1, <2>2
  <2> DEFINE sites == ChangeServiceName(Shopping, name, x, row.sites)
  <2>4. IsScheme(sites)
    BY RowIs, Renamed
  <2>5. new.sites = sites /\ new.service = named.service
    BY <2>1, <2>3, <2>4, RowWithSites
  <2> HIDE DEF sites
  <2>6. new.sites = ChangeServiceName(Shopping, new.service, x, row.sites)
    BY <2>1, <2>5 DEF sites
  <2> QED BY <2>6
<1> QED BY <1>1, <1>2

\* What an upsert stores is settled, unless there is too much to do at once.
LEMMA NormalisedSettles ==
    ASSUME NEW row, IsRow(row), NEW old, \A o \in old : IsRow(o),
           NEW routes, routes \subseteq RouteType, NEW parents, NEW names \in SUBSET {Names[1]},
           NEW new \in Normalised(row, old, routes, parents, names),
           AllFew(row.sites, GeneralOf(row, routes)), Few(row.namespaces, {Home}),
           \A x, y \in ShoppingPlaces(row) : x = y
    PROVE  IsRow(new) /\ RowSettled(new, GeneralOf(new, routes))
<1> DEFINE bad == GeneralOf(row, routes)
           after == NamespacesAfter(row.namespaces)
           placed == [row EXCEPT !.namespaces = after]
           around == RoutesIn(routes, Around(placed.namespaces))
<1>1. row.namespaces \in Seq(Namespace) /\ Home \in Namespace
  <2>1. Home \in Namespace
    BY SchemeAssumption DEF SchemeAssumption
  <2> QED BY <2>1, RowIs
<1>2. after \in Seq(Namespace) /\ Around(after) = Around(row.namespaces)
  BY <1>1, SameAround
<1>3. \E sites \in WithNewUrls(placed, old, around) :
          new \in WithShoppingRenamed(
                      [placed EXCEPT !.sites = FilterGeneralRoutes(sites, HostsOfRoutes(around))], old, names)
  BY DEF Normalised
<1>4. NamespacesAfter(after) = after
  <2> DEFINE namespaces == row.namespaces
  <2>1. namespaces \in Seq(Namespace) /\ Few(namespaces, {Home})
    BY <1>1
  <2> HIDE DEF namespaces
  <2>2. NamespacesAfter(NamespacesAfter(namespaces)) = NamespacesAfter(namespaces)
    BY <2>1, NamespacesSettle
  <2> QED BY <2>2 DEF namespaces
<1> HIDE DEF after
<1>5. /\ IsRow(placed) /\ placed.namespaces = after /\ placed.sites = row.sites
      /\ placed.active = row.active
  BY <1>2, RowWithNamespaces
<1>6. around \subseteq RouteType /\ HostsOfRoutes(around) = bad
  BY <1>2, <1>5 DEF RoutesIn, GeneralOf
<1>7. \A x, y \in ShoppingPlaces(placed) : x = y
  <2>1. ShoppingPlaces(placed) = ShoppingPlaces(row)
    BY <1>2, <1>5 DEF ShoppingPlaces, SitesKept
  <2> QED BY <2>1
<1> HIDE DEF placed, around, bad
<1>8. PICK sites \in WithNewUrls(placed, old, around) :
          new \in WithShoppingRenamed([placed EXCEPT !.sites = FilterGeneralRoutes(sites, bad)], old, names)
  BY <1>3, <1>6
<1>9. AllFew(sites, bad) /\ SitesWith(Shopping, sites) \subseteq ShoppingPlaces(placed)
  <2>1. AllFew(placed.sites, bad)
    BY <1>5 DEF bad
  <2> QED BY <1>5, <1>8, <2>1, NewUrlsFew
<1>10. IsScheme(sites)
  BY <1>5, <1>6, <1>8, NewUrlsTyped
<1> DEFINE left == FilterGeneralRoutes(sites, bad)
           filtered == [placed EXCEPT !.sites = left]
<1>11. IsScheme(left) /\ DOMAIN left = DOMAIN sites
       /\ \A x \in DOMAIN sites : DOMAIN left[x] \subseteq DOMAIN sites[x]
  BY <1>10, FilteredScheme
<1>12. Settled(left, bad)
  BY <1>9, <1>10, FilterSettles
<1>13. IsRow(filtered) /\ filtered.sites = left /\ filtered.namespaces = after
  BY <1>5, <1>11, RowWithSites
<1>14. new \in WithShoppingRenamed(filtered, old, names)
  BY <1>8
<1> HIDE DEF left, filtered
<1>15. \A x, y \in SitesWith(Shopping, left) : x = y
  BY <1>7, <1>9, <1>11 DEF SitesWith
<1>16. UnderItsName(new, filtered, old, names)
  BY <1>13, <1>14, RenamedRow
<1>17. IsRow(new) /\ new.namespaces = after
  BY <1>13, <1>16 DEF UnderItsName
<1>18. \/ SitesWith(Shopping, left) = {} /\ new = filtered
       \/ \E x \in SitesWith(Shopping, left) :
              new.sites = ChangeServiceName(Shopping, new.service, x, left)
  BY <1>13, <1>14, RenamedIs
<1>19. Settled(new.sites, bad)
  BY <1>11, <1>12, <1>13, <1>18, RenamedSettled
<1>20. SitesWith(Shopping, new.sites) = {} \/ new.service = Shopping
  <2>1. CASE SitesWith(Shopping, left) = {}
    BY <1>13, <1>18, <2>1
  <2>2. CASE SitesWith(Shopping, left) # {} /\ new.service # Shopping
    <3>1. PICK x \in SitesWith(Shopping, left) :
              SitesWith(Shopping, new.sites) = SitesWith(Shopping, left) \ {x}
      BY <1>13, <1>16, <2>2 DEF UnderItsName
    <3> QED BY <1>15, <3>1
  <2> QED BY <2>1, <2>2
<1>21. GeneralOf(new, routes) = bad
  BY <1>2, <1>17 DEF GeneralOf, bad
<1> QED BY <1>4, <1>17, <1>19, <1>20, <1>21 DEF RowSettled

\* A row with a field replaced by what it has is the row.
LEMMA SameRow ==
    ASSUME NEW row, IsRow(row)
    PROVE  /\ [row EXCEPT !.namespaces = row.namespaces] = row
           /\ [row EXCEPT !.sites = row.sites] = row
           /\ [row EXCEPT !.service = row.service] = row
BY DEF IsRow

\* A service put back under its name is where it was.
LEMMA SameName ==
    ASSUME NEW sites, IsScheme(sites), NEW name, NEW site \in SitesWith(name, sites)
    PROVE  ChangeServiceName(name, name, site, sites) = sites
<1> DEFINE services == sites[site]
           put == With(Without(services, name), name, services[name])
<1>1. site \in DOMAIN sites /\ name \in DOMAIN services /\ IsServices(services)
  BY DEF SitesWith, IsScheme
<1>2. put = [x \in DOMAIN put |-> put[x]] /\ DOMAIN put = DOMAIN services
      /\ \A s \in DOMAIN services : put[s] = services[s]
  BY <1>1 DEF With, Without
<1>3. services = [s \in DOMAIN services |-> services[s]]
  BY <1>1 DEF IsServices
<1>4. put = services
  <2> HIDE DEF put, services
  <2> QED BY <1>2, <1>3
<1>5. ChangeServiceName(name, name, site, sites) = [sites EXCEPT ![site] = put]
  BY DEF ChangeServiceName
<1>6. sites = [x \in DOMAIN sites |-> sites[x]]
  BY DEF IsScheme
<1> HIDE DEF put
<1> QED BY <1>1, <1>4, <1>5, <1>6

\* The name a row gets when the row stored is the row itself.
LEMMA OwnName ==
    ASSUME NEW row, row.service = Shopping, NEW names
    PROVE  ServiceNameFor(row, {row}, names) = row.service
BY DEF ServiceNameFor, Shopping

\* An upsert of a settled row over itself stores the row.
LEMMA SettledStays ==
    ASSUME NEW row, IsRow(row), NEW routes, NEW parents, NEW names,
           RowSettled(row, GeneralOf(row, routes)),
           NEW new \in Normalised(row, {row}, routes, parents, names)
    PROVE  new = row
<1> DEFINE placed == [row EXCEPT !.namespaces = NamespacesAfter(row.namespaces)]
           around == RoutesIn(routes, Around(placed.namespaces))
<1>1. \E sites \in WithNewUrls(placed, {row}, around) :
          new \in WithShoppingRenamed(
                      [placed EXCEPT !.sites = FilterGeneralRoutes(sites, HostsOfRoutes(around))], {row}, names)
  BY DEF Normalised
<1>2. placed = row
  BY SameRow DEF RowSettled
<1>3. HostsOfRoutes(around) = GeneralOf(row, routes)
  BY <1>2 DEF GeneralOf
<1> HIDE DEF placed, around
<1>4. PICK sites \in WithNewUrls(row, {row}, around) :
          new \in WithShoppingRenamed(
                      [row EXCEPT !.sites = FilterGeneralRoutes(sites, GeneralOf(row, routes))], {row}, names)
  BY <1>1, <1>2, <1>3
<1>5. sites = row.sites
  <2>1. (CHOOSE o \in {row} : TRUE) = row
    OBVIOUS
  <2> QED BY <1>4, <2>1 DEF WithNewUrls
<1>6. IsScheme(row.sites)
  BY RowIs
<1>7. FilterGeneralRoutes(row.sites, GeneralOf(row, routes)) = row.sites
  BY <1>6, FilterLeaves DEF RowSettled
<1>8. new \in WithShoppingRenamed(row, {row}, names)
  BY <1>4, <1>5, <1>7, SameRow
<1>9. CASE SitesWith(Shopping, row.sites) = {}
  BY <1>8, <1>9 DEF WithShoppingRenamed
<1>10. CASE SitesWith(Shopping, row.sites) # {}
  <2>1. row.service = Shopping
    BY <1>10 DEF RowSettled
  <2> DEFINE named == [row EXCEPT !.service = ServiceNameFor(row, {row}, names)]
  <2>2. named = row
    BY <2>1, OwnName, SameRow
  <2>3. \E x \in SitesWith(Shopping, row.sites) :
            new = [named EXCEPT !.sites = ChangeServiceName(Shopping, named.service, x, named.sites)]
    BY <1>8, <1>10 DEF WithShoppingRenamed
  <2> HIDE DEF named
  <2>4. PICK x \in SitesWith(Shopping, row.sites) :
            new = [row EXCEPT !.sites = ChangeServiceName(Shopping, Shopping, x, row.sites)]
    BY <2>1, <2>2, <2>3
  <2>5. ChangeServiceName(Shopping, Shopping, x, row.sites) = row.sites
    BY <1>6, <2>4, SameName
  <2> QED BY <2>4, <2>5, SameRow
<1> QED BY <1>9, <1>10

\* Few general hosts, counted or compared.
LEMMA FewGeneralIs ==
    ASSUME NEW row, IsRow(row), FewGeneral(row)
    PROVE  AllFew(row.sites, GeneralOf(row, general))
<1> DEFINE bad == GeneralOf(row, general)
<1>1. HostsOfRoutes(GeneralAround(row)) = bad
  BY DEF GeneralAround, GeneralOf
<1> HIDE DEF bad
<1>2. ASSUME NEW x \in DOMAIN row.sites, NEW s \in DOMAIN row.sites[x]
      PROVE  Few(row.sites[x][s], bad)
  <2> DEFINE list == row.sites[x][s]
  <2>1. list \in Seq(HostType)
    <3>1. IsScheme(row.sites)
      BY RowIs
    <3>2. IsServices(row.sites[x])
      BY <3>1 DEF IsScheme
    <3> QED BY <3>2 DEF IsServices
  <2>2. Cardinality({i \in DOMAIN list : list[i] \in bad}) <= 1
    BY <1>1 DEF FewGeneral
  <2> HIDE DEF list
  <2>3. Few(list, bad)
    BY <2>1, <2>2, FewIs
  <2> QED BY <2>3 DEF list
<1> QED BY <1>2 DEF AllFew, bad

\* One own namespace, counted or compared.
LEMMA FewHomeIs ==
    ASSUME NEW namespaces \in Seq(Namespace),
           Cardinality({i \in DOMAIN namespaces : namespaces[i] = Home}) <= 1
    PROVE  Few(namespaces, {Home})
<1>1. {i \in DOMAIN namespaces : namespaces[i] = Home} = {i \in DOMAIN namespaces : namespaces[i] \in {Home}}
  OBVIOUS
<1> QED BY <1>1, FewIs

\* NormalisedOnce: what an upsert stored, a second upsert of it stores again.
THEOREM OneUpsertIsEnough == Spec => NormalisedOnce
<1> DEFINE Simple(a) ==
      /\ FewGeneral(a)
      /\ \A x, y \in ShoppingPlaces(a) : x = y
      /\ Cardinality({i \in DOMAIN a.namespaces : a.namespaces[i] = Home}) <= 1
<1>1. SchemeInv /\ [Next]_vars =>
        [request.op \in {"put", "status"} /\ request.ok /\ request'.op = "status"
           /\ request'.ok
           /\ (\A a \in request.asked : Simple(a))
           /\ request'.asked = stored
         => stored' = stored]_vars
  <2> SUFFICES ASSUME SchemeInv, Next, Upserted, request'.op = "status", request'.ok,
                      \A a \in request.asked : Simple(a), request'.asked = stored
               PROVE  stored' = stored
    BY DEF Upserted
  <2>1. (\A o \in stored : IsRow(o)) /\ general \subseteq RouteType /\ taken \in SUBSET {Names[1]}
    BY RoutesTyped DEF SchemeInv, TypeOK
  <2>2. PICK asked, new, old :
            /\ request.asked = {asked} /\ stored = {new}
            /\ IsRow(asked) /\ (\A o \in old : IsRow(o))
            /\ new \in Normalised(asked, old, general, parent, taken)
    BY DEF SchemeInv, Answered
  <2>3. IsRow(new) /\ RowSettled(new, GeneralOf(new, general))
    <3>1. Simple(asked)
      BY <2>2
    <3>2. AllFew(asked.sites, GeneralOf(asked, general))
      BY <2>2, <3>1, FewGeneralIs
    <3>3. Few(asked.namespaces, {Home})
      <4>1. asked.namespaces \in Seq(Namespace)
        BY <2>2, RowIs
      <4> QED BY <3>1, <4>1, FewHomeIs
    <3>4. \A x, y \in ShoppingPlaces(asked) : x = y
      BY <3>1
    <3> QED BY <2>1, <2>2, <3>2, <3>3, <3>4, NormalisedSettles
  <2>4. \E op, row : IsRow(row) /\ Upsert(op, row)
    BY <2>1, AnswersUpsert
  <2>5. PICK op, row : IsRow(row) /\ Upsert(op, row)
    BY <2>4
  <2>6. /\ request'.asked = {row}
        /\ \E again \in Normalised(row, stored, general, parent, taken) : stored' = {again}
    BY <2>5, UpsertStores
  <2>7. row = new
    BY <2>2, <2>6
  <2>8. PICK again \in Normalised(new, {new}, general, parent, taken) : stored' = {again}
    BY <2>2, <2>6, <2>7
  <2>9. again = new
    BY <2>3, <2>8, SettledStays
  <2> QED BY <2>2, <2>8, <2>9
<1> QED BY <1>1, Inductive, PTL DEF Spec, NormalisedOnce
=============================================================================
