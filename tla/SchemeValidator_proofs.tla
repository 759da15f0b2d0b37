----------------------- MODULE SchemeValidator_proofs -----------------------
(***************************************************************************)
(* The verdicts of the three checkers, for any scheme, table and tenants,  *)
(* and for every order in which the maps give up their entries.            *)
(***************************************************************************)
EXTENDS SchemeValidator, TLAPS

USE ValidatorAssumption

-----------------------------------------------------------------------------
(* The inductive invariant: an answer in progress is the reference verdict *)
(* of what the checkers have seen so far.                                  *)

KeyOf(p) == <<p.site, p.service>>
Seen(i) == IF i < checker THEN places ELSE IF i = checker THEN places \ left ELSE {}
FailingSeen(k) == {i \in 1..3 : \E p \in Seen(i) : KeyOf(p) = k /\ ~Passes(Checkers[i], p)}

\* The last checker that rejected anything has the last word.
LastWord(k) ==
    /\ FailingSeen(k) = {} => result[k] = Valid
    /\ \A i \in FailingSeen(k) : (\A j \in FailingSeen(k) : j <= i) => result[k] = Checkers[i]

Answers ==
    /\ result = [k \in DOMAIN result |-> result[k]]
    /\ DOMAIN result = {KeyOf(p) : p \in Seen(1)}
    /\ \A k \in DOMAIN result : LastWord(k)

ValidInv == TypeOK /\ (left # {} => checker <= 3) /\ Answers

\* There are three checkers, each with its own reason.
LEMMA Three ==
    /\ Len(Checkers) = 3 /\ DOMAIN Checkers = 1..3
    /\ \A i \in 1..3 : Checkers[i] \in Verdicts /\ Checkers[i] # Valid
<1>1. Len(Checkers) = 3 /\ DOMAIN Checkers = 1..3
  BY DEF Checkers
<1>2. Checkers[1] = "url" /\ Checkers[2] = "tenant" /\ Checkers[3] = "scheme"
  BY DEF Checkers
<1>3. \A i \in 1..3 : i = 1 \/ i = 2 \/ i = 3
  OBVIOUS
<1> QED BY <1>1, <1>2, <1>3 DEF Verdicts, Valid

\* A place's key is one of a site and a service.
LEMMA KeysAre == \A p \in Place : KeyOf(p) \in Site \X Service
BY DEF Place, KeyOf

\* Of some checkers one is the last.
LEMMA LastOf ==
    ASSUME NEW S \in SUBSET (1..3), S # {}
    PROVE  \E i \in S : \A j \in S : j <= i
<1>1. CASE 3 \in S
  BY <1>1
<1>2. CASE 3 \notin S /\ 2 \in S
  <2>1. \A j \in S : j <= 2
    BY <1>2
  <2> QED BY <1>2, <2>1
<1>3. CASE 3 \notin S /\ 2 \notin S
  <2>1. \A j \in S : j = 1
    BY <1>3
  <2>2. PICK i \in S : TRUE
    OBVIOUS
  <2>3. \A j \in S : j <= i
    BY <2>1
  <2> QED BY <2>3
<1> QED BY <1>1, <1>2, <1>3

\* Before the first checker there is no verdict.
LEMMA InitValid == Init => ValidInv
<1> SUFFICES ASSUME Init PROVE ValidInv
  OBVIOUS
<1>1. /\ places \subseteq Place /\ rows \subseteq Row
      /\ checker = 1 /\ left = places /\ result = <<>>
  BY DEF Init
<1>2. DOMAIN result = {} /\ result = [k \in DOMAIN result |-> result[k]]
  <2>1. <<>> \in [1..0 -> {}]
    OBVIOUS
  <2>2. result \in [1..0 -> {}] /\ 1..0 = {}
    BY <1>1, <2>1
  <2> QED BY <2>2
<1>3. Seen(1) = {}
  BY <1>1 DEF Seen
<1>4. TypeOK
  BY <1>1, <1>2, Three DEF TypeOK
<1> QED BY <1>1, <1>2, <1>3, <1>4 DEF ValidInv, Answers

\* What a visit does to the answer: the key of the place gets a verdict.
LEMMA Verdict ==
    ASSUME ValidInv, NEW p, Visit(p)
    PROVE  LET k == KeyOf(p)  fails == ~Passes(Checkers[checker], p) IN
           /\ p \in left /\ p \in places /\ k \in Site \X Service /\ checker \in 1..3
           /\ UNCHANGED <<places, rows, checker>> /\ left' = left \ {p}
           /\ result' = [l \in DOMAIN result' |-> result'[l]]
           /\ DOMAIN result' = DOMAIN result \union {k}
           /\ \A l \in DOMAIN result : l # k => result'[l] = result[l]
           /\ result'[k] = IF fails THEN Checkers[checker]
                           ELSE IF k \in DOMAIN result THEN result[k] ELSE Valid
<1> DEFINE k == KeyOf(p)
           fails == ~Passes(Checkers[checker], p)
<1>1. /\ p \in left /\ p \in places /\ p \in Place /\ checker \in 1..3
      /\ UNCHANGED <<places, rows, checker>> /\ left' = left \ {p}
  BY Three DEF Visit, ValidInv, TypeOK
<1>2. k \in Site \X Service
  BY <1>1, KeysAre
<1>3. result = [l \in DOMAIN result |-> result[l]]
  BY DEF ValidInv, Answers
<1>4. IF fails THEN Set(k, Checkers[checker])
      ELSE IF k \notin DOMAIN result THEN Set(k, Valid) ELSE UNCHANGED result
  BY DEF Visit, KeyOf
<1> HIDE DEF k, fails
<1>5. ASSUME NEW v, Set(k, v)
      PROVE  /\ result' = [l \in DOMAIN result' |-> result'[l]]
             /\ DOMAIN result' = DOMAIN result \union {k} /\ result'[k] = v
             /\ \A l \in DOMAIN result : l # k => result'[l] = result[l]
  BY <1>5 DEF Set
<1>6. /\ result' = [l \in DOMAIN result' |-> result'[l]]
      /\ DOMAIN result' = DOMAIN result \union {k}
      /\ \A l \in DOMAIN result : l # k => result'[l] = result[l]
      /\ result'[k] = IF fails THEN Checkers[checker]
                      ELSE IF k \in DOMAIN result THEN result[k] ELSE Valid
  <2>1. CASE fails
    BY <1>4, <1>5, <2>1
  <2>2. CASE ~fails /\ k \notin DOMAIN result
    BY <1>4, <1>5, <2>2
  <2>3. CASE ~fails /\ k \in DOMAIN result
    BY <1>3, <1>4, <2>3
  <2> QED BY <2>1, <2>2, <2>3
<1> QED BY <1>1, <1>2, <1>6 DEF k, fails

\* A visit writes the verdict of the checker at work, or the first verdict of its key.
LEMMA VisitValid ==
    ASSUME ValidInv, NEW p, Visit(p)
    PROVE  ValidInv'
<1> DEFINE k == KeyOf(p)
           fails == ~Passes(Checkers[checker], p)
<1>1. /\ p \in left /\ p \in places /\ k \in Site \X Service /\ checker \in 1..3
      /\ UNCHANGED <<places, rows, checker>> /\ left' = left \ {p}
      /\ result' = [l \in DOMAIN result' |-> result'[l]]
      /\ DOMAIN result' = DOMAIN result \union {k}
      /\ \A l \in DOMAIN result : l # k => result'[l] = result[l]
      /\ result'[k] = IF fails THEN Checkers[checker]
                      ELSE IF k \in DOMAIN result THEN result[k] ELSE Valid
  BY Verdict
<1>2. TypeOK /\ Answers
  BY DEF ValidInv
<1>3. /\ Seen(checker)' = Seen(checker) \union {p}
      /\ \A i \in 1..3 : i # checker => Seen(i)' = Seen(i)
      /\ \A i \in 1..3 : i > checker => Seen(i) = {}
      /\ \A i \in 1..3 : Seen(i) \subseteq Seen(1)
  BY <1>1, <1>2 DEF Seen, TypeOK
<1>4. \A q : \A i \in 1..3 : Passes(Checkers[i], q) = Passes(Checkers[i], q)'
  BY <1>1 DEF Passes, UniqueInTenant, UniqueInScheme
<1>5. \A l : FailingSeen(l)' = IF l = k /\ fails THEN FailingSeen(l) \union {checker} ELSE FailingSeen(l)
  BY <1>1, <1>3, <1>4 DEF FailingSeen
<1>6. TypeOK'
  <2>1. result'[k] \in Verdicts
    BY <1>1, <1>2, Three DEF TypeOK, Verdicts
  <2> HIDE DEF k
  <2> QED BY <1>1, <1>2, <2>1 DEF TypeOK
<1>7. DOMAIN result' = {KeyOf(q) : q \in Seen(1)'}
  <2>1. CASE checker = 1
    BY <1>1, <1>2, <1>3, <2>1 DEF Answers
  <2>2. CASE checker # 1
    <3>1. Seen(1)' = Seen(1) /\ Seen(1) = places
      BY <1>1, <1>3, <2>2 DEF Seen
    <3>2. k \in DOMAIN result
      BY <1>1, <1>2, <3>1 DEF Answers
    <3> QED BY <1>1, <1>2, <3>1, <3>2 DEF Answers
  <2> QED BY <2>1, <2>2
<1>8. ASSUME NEW l \in DOMAIN result' PROVE LastWord(l)'
  <2>1. CASE l # k
    <3>1. l \in DOMAIN result /\ result'[l] = result[l] /\ FailingSeen(l)' = FailingSeen(l)
      BY <1>1, <1>5, <1>8, <2>1
    <3>2. LastWord(l)
      BY <1>2, <3>1 DEF Answers
    <3> QED BY <3>1, <3>2 DEF LastWord
  <2>2. CASE l = k /\ fails
    <3>1. FailingSeen(l)' = FailingSeen(l) \union {checker} /\ result'[l] = Checkers[checker]
      BY <1>1, <1>5, <2>2
    <3>2. \A i \in FailingSeen(l) : i <= checker
      BY <1>1, <1>3 DEF FailingSeen
    <3>3. \A i \in FailingSeen(l)' : checker <= i => i = checker
      BY <1>1, <3>1, <3>2 DEF FailingSeen
    <3> QED BY <3>1, <3>3 DEF LastWord
  <2>3. CASE l = k /\ ~fails /\ k \in DOMAIN result
    <3>1. FailingSeen(l)' = FailingSeen(l) /\ result'[l] = result[l] /\ LastWord(l)
      BY <1>1, <1>2, <1>5, <2>3 DEF Answers
    <3> QED BY <3>1 DEF LastWord
  <2>4. CASE l = k /\ ~fails /\ k \notin DOMAIN result
    <3>1. FailingSeen(l)' = FailingSeen(l) /\ result'[l] = Valid
      BY <1>1, <1>5, <2>4
    <3>2. \A q \in Seen(1) : KeyOf(q) # l
      BY <1>2, <2>4 DEF Answers
    <3>3. FailingSeen(l) = {}
      BY <1>3, <3>2 DEF FailingSeen
    <3> QED BY <3>1, <3>3 DEF LastWord
  <2> QED BY <2>1, <2>2, <2>3, <2>4
<1> QED BY <1>1, <1>6, <1>7, <1>8 DEF ValidInv, Answers

\* Every step keeps the invariant.
LEMMA NextValid == ValidInv /\ [Next]_vars => ValidInv'
<1> SUFFICES ASSUME ValidInv, [Next]_vars PROVE ValidInv'
  OBVIOUS
<1>1. ASSUME NEW p \in left, Visit(p) PROVE ValidInv'
  BY <1>1, VisitValid
<1>2. CASE NextChecker
  <2>1. /\ left = {} /\ checker \in 1..3 /\ checker' = checker + 1
        /\ left' = (IF checker < 3 THEN places ELSE {}) /\ UNCHANGED <<places, rows, result>>
    BY <1>2, Three DEF NextChecker, ValidInv, TypeOK
  <2>2. \A i \in 1..3 : Seen(i)' = Seen(i)
    BY <2>1 DEF Seen
  <2>3. \A q : \A i \in 1..3 : Passes(Checkers[i], q) = Passes(Checkers[i], q)'
    BY <2>1 DEF Passes, UniqueInTenant, UniqueInScheme
  <2>4. \A k : FailingSeen(k)' = FailingSeen(k)
    BY <2>2, <2>3 DEF FailingSeen
  <2>5. TypeOK'
    BY <2>1, Three DEF ValidInv, TypeOK
  <2>6. Answers'
    BY <2>1, <2>2, <2>4 DEF ValidInv, Answers, LastWord
  <2> QED BY <2>1, <2>5, <2>6 DEF ValidInv
<1>3. CASE UNCHANGED vars
  <2>1. UNCHANGED <<places, rows, checker, left, result>>
    BY <1>3 DEF vars
  <2>2. \A i : Seen(i)' = Seen(i)
    BY <2>1 DEF Seen
  <2>3. \A q, i : Passes(Checkers[i], q) = Passes(Checkers[i], q)'
    BY <2>1 DEF Passes, UniqueInTenant, UniqueInScheme
  <2>4. \A k : FailingSeen(k)' = FailingSeen(k)
    BY <2>2, <2>3 DEF FailingSeen
  <2>5. TypeOK'
    BY <2>1 DEF ValidInv, TypeOK
  <2>6. Answers'
    BY <2>1, <2>2, <2>4 DEF ValidInv, Answers, LastWord
  <2> QED BY <2>1, <2>5, <2>6 DEF ValidInv
<1> QED BY <1>1, <1>2, <1>3 DEF Next

\* The invariant holds throughout.
LEMMA ValidInvariant == Spec => []ValidInv
BY InitValid, NextValid, PTL DEF Spec

-----------------------------------------------------------------------------
(* What the answer says in the end.                                        *)

\* When the validator is done every checker has seen every address.
LEMMA AllSeen ==
    ASSUME ValidInv, Done
    PROVE  /\ DOMAIN result = Keys
           /\ \A k : FailingSeen(k) = Failing(k)
<1>1. checker = 4
  BY Three DEF ValidInv, TypeOK, Done
<1>2. \A i \in 1..3 : Seen(i) = places
  BY <1>1 DEF Seen
<1> QED BY <1>2, Three DEF ValidInv, Answers, Keys, KeyOf, FailingSeen, Failing

\* Every verdict is one of the four, for a site and a service.
THEOREM TypeCorrect == Spec => []TypeOK
<1>1. ValidInv => TypeOK
  BY DEF ValidInv
<1> QED BY <1>1, ValidInvariant, PTL

\* validateScheme: whatever the order of the maps, each service gets the reason of the
\* last checker that rejects one of its addresses, and is valid when none does.
THEOREM OrderDoesNotMatter == Spec => []OrderIsIrrelevant
<1>1. ValidInv => OrderIsIrrelevant
  <2> SUFFICES ASSUME ValidInv, Done PROVE result = [k \in Keys |-> Reference(k)]
    BY DEF OrderIsIrrelevant
  <2>1. ASSUME NEW k \in Keys PROVE result[k] = Reference(k)
    <3>1. LastWord(k) /\ FailingSeen(k) = Failing(k)
      BY <2>1, AllSeen DEF ValidInv, Answers
    <3>2. CASE Failing(k) = {}
      BY <3>1, <3>2 DEF LastWord, Reference
    <3>3. CASE Failing(k) # {}
      <4>1. Failing(k) \in SUBSET (1..3)
        BY Three DEF Failing
      <4>2. \E i \in Failing(k) : \A j \in Failing(k) : j <= i
        BY <3>3, <4>1, LastOf
      <4> DEFINE last == CHOOSE i \in Failing(k) : \A j \in Failing(k) : j <= i
      <4>3. last \in Failing(k) /\ \A j \in Failing(k) : j <= last
        BY <4>2
      <4>4. Reference(k) = Checkers[last]
        BY <3>3 DEF Reference
      <4> HIDE DEF last
      <4> QED BY <3>1, <4>3, <4>4 DEF LastWord
    <3> QED BY <3>2, <3>3
  <2>2. result = [k \in Keys |-> result[k]]
    BY AllSeen DEF ValidInv, Answers
  <2> QED BY <2>1, <2>2
<1> QED BY <1>1, ValidInvariant, PTL

\* checkUniqueInTenant: of two services of the tenant with one address, on whatever
\* sites and with or without http://, neither is reported valid.
THEOREM BothAreReported == Spec => []BothSidesReported
<1>1. ValidInv => BothSidesReported
  <2> SUFFICES ASSUME ValidInv, Done, NEW p \in places, NEW q \in places, p.service # q.service,
                      WithoutHttp(p.address) = WithoutHttp(q.address)
               PROVE  result[KeyOf(p)] # Valid
    BY DEF BothSidesReported, KeyOf
  <2>1. ~Passes(Checkers[2], p)
    BY DEF Passes, Checkers, UniqueInTenant
  <2>2. 2 \in Failing(KeyOf(p)) /\ KeyOf(p) \in Keys
    BY <2>1, Three DEF Failing, Keys, KeyOf
  <2>3. /\ LastWord(KeyOf(p)) /\ FailingSeen(KeyOf(p)) = Failing(KeyOf(p))
        /\ Failing(KeyOf(p)) \in SUBSET (1..3)
    BY <2>2, AllSeen, Three DEF ValidInv, Answers, Failing
  <2>4. PICK i \in Failing(KeyOf(p)) : \A j \in Failing(KeyOf(p)) : j <= i
    BY <2>2, <2>3, LastOf
  <2>5. result[KeyOf(p)] = Checkers[i] /\ i \in 1..3
    BY <2>3, <2>4 DEF LastWord
  <2> QED BY <2>5, Three
<1> QED BY <1>1, ValidInvariant, PTL

\* iterateOverTenant: no later address and no later checker makes a rejected service
\* valid again.
THEOREM RejectionSticks == Spec => InvalidSticks
<1>1. ValidInv /\ [Next]_vars =>
        [\A k \in DOMAIN result :
            result[k] # Valid => k \in DOMAIN result' /\ result'[k] # Valid]_vars
  <2> SUFFICES ASSUME ValidInv, Next, NEW k \in DOMAIN result, result[k] # Valid
               PROVE  k \in DOMAIN result' /\ result'[k] # Valid
    OBVIOUS
  <2>1. CASE NextChecker
    BY <2>1 DEF NextChecker
  <2>2. ASSUME NEW p \in left, Visit(p) PROVE k \in DOMAIN result' /\ result'[k] # Valid
    BY <2>2, Verdict, Three
  <2> QED BY <2>1, <2>2 DEF Next
<1> QED BY <1>1, ValidInvariant, PTL DEF Spec, InvalidSticks
=============================================================================
