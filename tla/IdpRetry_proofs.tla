--------------------------- MODULE IdpRetry_proofs ---------------------------
(***************************************************************************)
(* With one caller of PostURI at a time, at most one goroutine keeps       *)
(* posting, and a skipped request is the one the newest goroutine carries. *)
(***************************************************************************)
EXTENDS IdpRetry, TLAPS

(* The fields, the callers and the goroutines keep their types, however    *)
(* many call PostURI at once.                                              *)
THEOREM TypeCorrect == Spec => []TypeOK
<1>1. Init => TypeOK
  BY ConstantsAssumption DEF Init, TypeOK, Idle, NoSender, Sender
<1>2. TypeOK /\ [Next]_vars => TypeOK'
  <2> SUFFICES ASSUME TypeOK, [Next]_vars PROVE TypeOK'
    OBVIOUS
  <2>1. ASSUME NEW u \in URIs, Change(u) PROVE TypeOK'
    BY <2>1 DEF TypeOK, Change, bounds
  <2>2. ASSUME NEW c \in Caller, SendRoutesToIDP(c) PROVE TypeOK'
    BY <2>2 DEF TypeOK, SendRoutesToIDP, bounds
  <2>3. ASSUME NEW c \in Caller, CompareHash(c) PROVE TypeOK'
    <3>1. \/ caller' = [caller EXCEPT ![c] = Idle]
          \/ caller' = [caller EXCEPT ![c].pc = "store"]
      BY <2>3 DEF CompareHash, Goto
    <3>2. UNCHANGED <<current, idp, hash, cancel, sender, started, cancelled, overtaken>>
      BY <2>3 DEF CompareHash
    <3>3. caller' \in [Caller -> [pc : {"idle", "compare", "store", "cancel", "start"},
                                  uris : URIs \cup {NoHash}]]
      <4>1. caller[c] \in [pc : {"idle", "compare", "store", "cancel", "start"},
                           uris : URIs \cup {NoHash}]
        BY DEF TypeOK
      <4>2. Idle \in [pc : {"idle", "compare", "store", "cancel", "start"},
                      uris : URIs \cup {NoHash}]
        BY DEF Idle
      <4>3. CASE caller' = [caller EXCEPT ![c] = Idle]
        BY <4>2, <4>3 DEF TypeOK
      <4>4. CASE caller' = [caller EXCEPT ![c].pc = "store"]
        BY <4>1, <4>4 DEF TypeOK
      <4> QED
        BY <3>1, <4>3, <4>4
    <3> QED
      BY <3>2, <3>3 DEF TypeOK
  <2>4. ASSUME NEW c \in Caller, StoreHash(c) PROVE TypeOK'
    BY <2>4 DEF TypeOK, StoreHash, Goto, bounds
  <2>5. ASSUME NEW c \in Caller, CancelLast(c) PROVE TypeOK'
    <3>1. cancelled' \subseteq Sender
      <4>1. cancel # 0 => cancel \in Sender
        <5>1. started \in 0..MaxPosts /\ cancel \in 0..started /\ MaxPosts \in Nat
          BY ConstantsAssumption DEF TypeOK
        <5> QED
          BY <5>1 DEF Sender
      <4>2. cancelled' = cancelled \cup ({cancel} \ {0})
        BY <2>5 DEF CancelLast
      <4> QED
        BY <4>1, <4>2 DEF TypeOK
    <3>2. /\ caller' = [caller EXCEPT ![c].pc = "start"]
          /\ UNCHANGED <<current, idp, hash, cancel, sender, started, overtaken>>
      BY <2>5 DEF CancelLast, Goto
    <3> QED
      BY <3>1, <3>2 DEF TypeOK
  <2>6. ASSUME NEW c \in Caller, StartSender(c) PROVE TypeOK'
    <3>1. started \in 0..MaxPosts /\ cancel \in 0..started
      BY DEF TypeOK
    <3>2. /\ started < MaxPosts /\ started' = started + 1 /\ cancel' = started'
          /\ UNCHANGED <<current, idp, hash, cancelled>>
      BY <2>6 DEF StartSender
    <3>3. /\ sender' = [sender EXCEPT ![started'] =
                            [pc |-> "post", uris |-> caller[c].uris]]
          /\ caller' = [caller EXCEPT ![c] = Idle]
          /\ overtaken' \subseteq Sender
      BY <2>6 DEF StartSender
    <3>4. started' \in 0..MaxPosts /\ cancel' \in 0..started' /\ started' \in Sender
      BY <3>1, <3>2, ConstantsAssumption DEF Sender
    <3>5. sender' \in [Sender -> [pc : {"none", "post", "select", "posted", "given up"},
                                  uris : URIs \cup {NoHash}]]
      BY <3>3, <3>4 DEF TypeOK
    <3>6. caller' \in [Caller -> [pc : {"idle", "compare", "store", "cancel", "start"},
                                  uris : URIs \cup {NoHash}]]
      BY <3>3 DEF TypeOK, Idle
    <3> QED
      BY <3>2, <3>3, <3>4, <3>5, <3>6 DEF TypeOK
  <2>7. ASSUME Reset PROVE TypeOK'
    BY <2>7 DEF TypeOK, Reset
  <2>8. ASSUME NEW s \in Sender, SenderStep(s) PROVE TypeOK'
    <3>1. CASE Posted(s)
      BY <3>1 DEF TypeOK, Posted, bounds
    <3>2. CASE PauseEnds(s)
      BY <3>2 DEF TypeOK, PauseEnds, bounds
    <3>3. CASE Cancelled(s)
      <4>1. /\ sender' = [sender EXCEPT ![s].pc = "given up"]
            /\ UNCHANGED <<current, idp, caller, hash, cancel, started, cancelled, overtaken>>
        BY <3>3 DEF Cancelled
      <4> QED
        BY <4>1 DEF TypeOK
    <3> QED
      BY <2>8, <3>1, <3>2, <3>3 DEF SenderStep
  <2>9. ASSUME NEW s \in Sender, PostFails(s) PROVE TypeOK'
    <3>1. /\ sender' = [sender EXCEPT ![s].pc = "select"]
          /\ idp' \in {idp, sender[s].uris}
          /\ UNCHANGED <<current, caller, hash, cancel, started, cancelled, overtaken>>
      BY <2>9 DEF PostFails
    <3> QED
      BY <3>1 DEF TypeOK, Idle
  <2>10. CASE UNCHANGED vars
    BY <2>10 DEF TypeOK, vars, bounds
  <2> QED
    BY <2>1, <2>2, <2>3, <2>4, <2>5, <2>6, <2>7, <2>8, <2>9, <2>10 DEF Next, CallerStep
<1> QED
  BY <1>1, <1>2, PTL DEF Spec

-----------------------------------------------------------------------------
SingleCaller == \A c, d \in Caller : c = d

\* No more goroutines are started than MaxPosts.
LEMMA StartedIsNat == TypeOK => started \in Nat /\ started <= MaxPosts
<1>1. TypeOK => started \in 0..MaxPosts
  BY DEF TypeOK
<1>2. MaxPosts \in Nat
  BY ConstantsAssumption
<1> QED
  BY <1>1, <1>2

\* The newest goroutine is one of them.
LEMMA NewestIsSender == TypeOK /\ started > 0 => started \in Sender
<1>1. TypeOK => started \in 0..MaxPosts
  BY DEF TypeOK
<1>2. MaxPosts \in Nat
  BY ConstantsAssumption
<1> QED
  BY <1>1, <1>2 DEF Sender

(* A goroutine that sends changes only its own state, and gives up only    *)
(* when it was cancelled.                                                  *)
LEMMA SenderKeepsIInv ==
    ASSUME TypeOK, IInv, NEW s \in Sender, SenderStep(s) \/ PostFails(s)
    PROVE  IInv'
<1>1. UNCHANGED <<caller, hash, cancel, started, cancelled>>
  BY DEF SenderStep, Posted, PauseEnds, Cancelled, PostFails, bounds
<1>2. PICK label \in {"post", "select", "posted", "given up"} :
          /\ sender' = [sender EXCEPT ![s].pc = label]
          /\ label = "given up" => s \in cancelled
  BY DEF SenderStep, Posted, PauseEnds, Cancelled, PostFails
<1>3. sender[s].pc \in {"post", "select"}
  BY DEF SenderStep, Posted, PauseEnds, Cancelled, PostFails
<1>4. \A r \in Sender : /\ sender'[r].uris = sender[r].uris
                        /\ r # s => sender'[r].pc = sender[r].pc
  BY <1>2 DEF TypeOK
<1>5. sender'[s].pc = label
  BY <1>2 DEF TypeOK
<1>6. CallersHoldRequests'
  BY <1>1 DEF IInv, CallersHoldRequests
<1>7. OnlyNewestTries'
  <2>1. \A r \in Sender : r > started <=> sender'[r].pc = "none"
    BY <1>2, <1>3, <1>4, <1>5 DEF IInv, OnlyNewestTries
  <2>2. \A r \in Sender : sender'[r].pc = "given up" => r \in cancelled
    BY <1>2, <1>4, <1>5 DEF IInv, OnlyNewestTries
  <2>3. \A r \in Sender \ cancelled : Trying(r)' => r = started
    BY <1>3, <1>4 DEF IInv, OnlyNewestTries, Trying
  <2> QED
    BY <1>1, <2>1, <2>2, <2>3 DEF IInv, OnlyNewestTries
<1>8. HashIsNewest'
  <2> SUFFICES ASSUME ~Replacing, hash # NoHash
               PROVE  started > 0 /\ sender'[started].uris = hash /\ started \notin cancelled
    BY <1>1 DEF HashIsNewest, Replacing
  <2>1. started > 0 /\ sender[started].uris = hash /\ started \notin cancelled
    BY DEF IInv, HashIsNewest
  <2>2. started \in Sender
    BY <2>1, NewestIsSender
  <2> QED
    BY <1>4, <2>1, <2>2
<1> QED
  BY <1>6, <1>7, <1>8 DEF IInv

(* What a caller does.  Where the caller is decides what is left to do:    *)
(* nobody else is between two statements of PostURI.                       *)
LEMMA CallerKeepsIInv ==
    ASSUME SingleCaller, TypeOK, IInv, NEW c \in Caller, CallerStep(c)
    PROVE  IInv'
<1> USE DEF IInv
<1>0. \A d \in Caller : d = c
  BY DEF SingleCaller
<1>1. CASE SendRoutesToIDP(c)
  <2>1. /\ caller'[c].pc = "compare" /\ caller'[c].uris \in URIs
        /\ UNCHANGED <<hash, cancel, sender, started, cancelled>>
    BY <1>1 DEF SendRoutesToIDP, TypeOK
  <2>2. ~Replacing /\ ~Replacing'
    BY <1>0, <1>1, <2>1 DEF Replacing, SendRoutesToIDP
  <2>3. CallersHoldRequests'
    BY <1>0, <2>1 DEF CallersHoldRequests
  <2>4. OnlyNewestTries'
    <3>1. ~ \E d \in Caller : caller'[d].pc = "start"
      BY <1>0, <2>1
    <3> QED
      BY <2>1, <3>1 DEF OnlyNewestTries, Trying
  <2> QED
    BY <2>1, <2>2, <2>3, <2>4 DEF HashIsNewest
<1>2. CASE CompareHash(c)
  <2>1. /\ caller[c].pc = "compare"
        /\ UNCHANGED <<hash, cancel, sender, started, cancelled>>
    BY <1>2 DEF CompareHash
  <2>2. \/ caller'[c].pc = "idle"
        \/ caller'[c].pc = "store" /\ caller'[c].uris = caller[c].uris
    <3>1. \/ caller' = [caller EXCEPT ![c] = Idle]
          \/ caller' = [caller EXCEPT ![c].pc = "store"]
      BY <1>2 DEF CompareHash, Goto
    <3>2. CASE caller' = [caller EXCEPT ![c] = Idle]
      BY <3>2 DEF Idle, TypeOK
    <3>3. CASE caller' = [caller EXCEPT ![c].pc = "store"]
      BY <3>3 DEF TypeOK
    <3> QED
      BY <3>1, <3>2, <3>3
  <2>3. CallersHoldRequests'
    BY <1>0, <2>1, <2>2 DEF CallersHoldRequests
  <2>4. OnlyNewestTries'
    <3>1. ~ \E d \in Caller : caller'[d].pc = "start"
      BY <1>0, <2>2
    <3> QED
      BY <2>1, <3>1 DEF OnlyNewestTries, Trying
  <2>5. ~Replacing
    BY <1>0, <2>1 DEF Replacing
  <2> QED
    BY <2>1, <2>3, <2>4, <2>5 DEF HashIsNewest
<1>3. CASE StoreHash(c)
  <2>1. /\ caller[c].pc = "store"
        /\ caller'[c].pc = "cancel" /\ caller'[c].uris = caller[c].uris
        /\ hash' = caller[c].uris
        /\ UNCHANGED <<cancel, sender, started, cancelled>>
    BY <1>3 DEF StoreHash, Goto, TypeOK
  <2>2. Replacing'
    BY <2>1 DEF Replacing
  <2>3. CallersHoldRequests'
    BY <1>0, <2>1 DEF CallersHoldRequests
  <2>4. OnlyNewestTries'
    BY <1>0, <2>1 DEF OnlyNewestTries, Trying
  <2> QED
    BY <2>2, <2>3, <2>4 DEF HashIsNewest
<1>4. CASE CancelLast(c)
  <2>1. /\ caller[c].pc = "cancel"
        /\ caller'[c].pc = "start" /\ caller'[c].uris = caller[c].uris
        /\ UNCHANGED <<hash, cancel, sender, started>>
    BY <1>4 DEF CancelLast, Goto, TypeOK
  <2>2. cancelled' = cancelled \cup ({cancel} \ {0})
    BY <1>4 DEF CancelLast
  <2>3. CallersHoldRequests'
    BY <1>0, <2>1 DEF CallersHoldRequests
  <2>4. OnlyNewestTries'
    <3>1. started \in Nat /\ cancel = started
      BY StartedIsNat DEF OnlyNewestTries
    <3>2. \A s \in cancelled' : s <= started
      <4>1. \A s \in cancelled : s <= started
        BY DEF OnlyNewestTries
      <4> QED
        BY <2>2, <3>1, <4>1
    <3>3. started > 0 => started \in cancelled'
      BY <2>2, <3>1
    <3> QED
      BY <2>1, <2>2, <3>2, <3>3 DEF OnlyNewestTries, Trying
  <2>5. Replacing'
    BY <2>1 DEF Replacing
  <2> QED
    BY <2>3, <2>4, <2>5 DEF HashIsNewest
<1>5. CASE StartSender(c)
  <2>1. /\ started < MaxPosts /\ started' = started + 1 /\ cancel' = started'
        /\ UNCHANGED <<hash, cancelled>>
    BY <1>5 DEF StartSender
  <2>2. /\ caller[c].pc = "start"
        /\ caller'[c] = Idle
    BY <1>5 DEF StartSender, TypeOK
  <2>3. started \in Nat /\ started' \in Nat /\ started' > started /\ started' > 0
    BY <2>1, StartedIsNat
  <2>4. started' \in Sender
    BY <2>1, StartedIsNat, ConstantsAssumption DEF Sender
  <2>5. /\ sender'[started'].pc = "post" /\ sender'[started'].uris = caller[c].uris
        /\ \A s \in Sender : s # started' => sender'[s] = sender[s]
    BY <1>5, <2>4 DEF StartSender, TypeOK
  <2>6. ~Replacing'
    BY <1>0, <2>2 DEF Replacing, Idle
  <2>7. \A s \in cancelled : s \in Sender /\ s <= started
    BY DEF OnlyNewestTries, TypeOK
  <2>8. started' \notin cancelled
    BY <2>3, <2>7 DEF Sender
  <2>9. CallersHoldRequests'
    BY <1>0, <2>2 DEF CallersHoldRequests, Idle
  <2>10. OnlyNewestTries'
    <3>1. \A s \in Sender : s > started' <=> sender'[s].pc = "none"
      <4> SUFFICES ASSUME NEW s \in Sender PROVE s > started' <=> sender'[s].pc = "none"
        OBVIOUS
      <4>1. s \in Nat
        BY ConstantsAssumption DEF Sender
      <4>2. CASE s = started'
        BY <2>3, <2>5, <4>2
      <4>3. CASE s # started'
        <5>1. s > started' <=> s > started
          BY <2>1, <2>3, <4>1, <4>3
        <5> QED
          BY <2>5, <4>3, <5>1 DEF OnlyNewestTries
      <4> QED
        BY <4>2, <4>3
    <3>2. \A s \in Sender : sender'[s].pc = "given up" => s \in cancelled
      BY <2>5 DEF OnlyNewestTries
    <3>3. \A s \in Sender \ cancelled : Trying(s)' => s = started'
      <4> SUFFICES ASSUME NEW s \in Sender \ cancelled, Trying(s)', s # started'
                   PROVE  FALSE
        OBVIOUS
      <4>1. Trying(s)
        BY <2>5 DEF Trying
      <4>2. s = started
        BY <4>1 DEF OnlyNewestTries
      <4>3. started > 0
        BY <2>3, <4>2 DEF Sender
      <4> QED
        BY <2>2, <4>2, <4>3 DEF OnlyNewestTries
    <3>4. \A s \in cancelled : s <= started'
      BY <2>3, <2>7 DEF Sender
    <3>5. ~ \E d \in Caller : caller'[d].pc = "start"
      BY <1>0, <2>2 DEF Idle
    <3> QED
      BY <2>1, <3>1, <3>2, <3>3, <3>4, <3>5 DEF OnlyNewestTries
  <2>11. HashIsNewest'
    <3>1. hash \in {NoHash, caller[c].uris}
      BY <2>2 DEF CallersHoldRequests
    <3> QED
      BY <2>1, <2>3, <2>5, <2>8, <3>1 DEF HashIsNewest
  <2> QED
    BY <2>9, <2>10, <2>11
<1> QED
  BY <1>1, <1>2, <1>3, <1>4, <1>5 DEF CallerStep

\* Reset forgets the hash, which the invariant allows at any time.
LEMMA ResetKeepsIInv == TypeOK /\ IInv /\ Reset => IInv'
<1> SUFFICES ASSUME TypeOK, IInv, Reset PROVE IInv'
  OBVIOUS
<1>1. hash' = NoHash /\ UNCHANGED <<caller, cancel, sender, started, cancelled>>
  BY DEF Reset
<1>2. CallersHoldRequests'
  BY <1>1 DEF IInv, CallersHoldRequests
<1>3. OnlyNewestTries'
  BY <1>1 DEF IInv, OnlyNewestTries, Trying
<1> QED
  BY <1>1, <1>2, <1>3 DEF IInv, HashIsNewest

\* What getRealms returns may change at any time.
LEMMA ChangeKeepsIInv ==
    IInv /\ UNCHANGED <<caller, hash, cancel, sender, started, cancelled>> => IInv'
BY DEF IInv, CallersHoldRequests, OnlyNewestTries, HashIsNewest, Trying, Replacing

\* With one caller at a time the invariant holds throughout.
LEMMA Inductive == ASSUME SingleCaller PROVE Spec => [](TypeOK /\ IInv)
<1>1. Init => IInv
  <2> SUFFICES ASSUME Init PROVE IInv
    OBVIOUS
  <2>1. /\ \A c \in Caller : caller[c].pc = "idle"
        /\ \A s \in Sender : sender[s].pc = "none"
        /\ hash = NoHash /\ cancel = 0 /\ started = 0 /\ cancelled = {}
    BY DEF Init, Idle, NoSender
  <2>2. \A s \in Sender : s > 0
    BY ConstantsAssumption DEF Sender
  <2>3. OnlyNewestTries
    BY <2>1, <2>2 DEF OnlyNewestTries, Trying
  <2> QED
    BY <2>1, <2>3 DEF IInv, CallersHoldRequests, HashIsNewest
<1>2. TypeOK /\ IInv /\ [Next]_vars => IInv'
  <2> SUFFICES ASSUME TypeOK, IInv, [Next]_vars PROVE IInv'
    OBVIOUS
  <2>1. ASSUME NEW u \in URIs, Change(u) PROVE IInv'
    BY <2>1, ChangeKeepsIInv DEF Change
  <2>2. ASSUME NEW c \in Caller, CallerStep(c) PROVE IInv'
    BY <2>2, CallerKeepsIInv
  <2>3. ASSUME NEW s \in Sender, SenderStep(s) \/ PostFails(s) PROVE IInv'
    BY <2>3, SenderKeepsIInv
  <2>4. CASE Reset
    BY <2>4, ResetKeepsIInv
  <2>5. CASE UNCHANGED vars
    BY <2>5, ChangeKeepsIInv DEF vars
  <2> QED
    BY <2>1, <2>2, <2>3, <2>4, <2>5 DEF Next
<1> QED
  BY <1>1, <1>2, TypeCorrect, PTL DEF Spec

(* With one caller at a time, at most one goroutine that was not cancelled *)
(* keeps posting.                                                          *)
THEOREM OneSenderTries == ASSUME SingleCaller PROVE Spec => []OneLiveSender
<1>1. IInv => OneLiveSender
  BY DEF IInv, OnlyNewestTries, OneLiveSender
<1> QED
  BY <1>1, Inductive, PTL

(* With one caller at a time, what is skipped as sent before is carried by *)
(* the newest goroutine, which has posted it or still tries.               *)
THEOREM SkippedIsUnderWay == ASSUME SingleCaller PROVE Spec => SkippedIsNewest
<1>1. ASSUME TypeOK, IInv, [Next]_vars, NEW c \in Caller,
             caller[c].pc = "compare", caller'[c].pc = "idle"
      PROVE  started > 0 /\ sender[started].uris = caller[c].uris /\ UnderWay(started)
  <2>1. \A d \in Caller : d = c
    BY DEF SingleCaller
  <2>2. CompareHash(c)
    <3>1. \A u \in URIs : ~Change(u)
      BY <1>1 DEF Change
    <3>2. ~UNCHANGED caller
      BY <1>1
    <3>3. ~Reset /\ \A s \in Sender : ~SenderStep(s) /\ ~PostFails(s)
      BY <3>2 DEF Reset, SenderStep, Posted, PauseEnds, Cancelled, PostFails
    <3>4. PICK d \in Caller : CallerStep(d)
      BY <1>1, <3>1, <3>2, <3>3 DEF Next, vars
    <3>5. d = c
      BY <2>1
    <3> QED
      BY <1>1, <3>4, <3>5 DEF CallerStep, SendRoutesToIDP, StoreHash, CancelLast, StartSender
  <2>3. caller[c].uris = hash /\ hash # NoHash
    <3>1. caller'[c].pc = "store" \/ caller[c].uris = hash
      BY <1>1, <2>2 DEF CompareHash, Goto, TypeOK
    <3>2. caller[c].uris \in URIs
      BY <1>1 DEF IInv, CallersHoldRequests
    <3> QED
      BY <1>1, <3>1, <3>2, ConstantsAssumption
  <2>4. ~Replacing
    BY <1>1, <2>1 DEF Replacing
  <2>5. started > 0 /\ sender[started].uris = hash /\ started \notin cancelled
    BY <1>1, <2>3, <2>4 DEF IInv, HashIsNewest
  <2>6. started \in Sender
    BY <1>1, <2>5, NewestIsSender
  <2>7. sender[started].pc # "given up"
    BY <1>1, <2>5, <2>6 DEF IInv, OnlyNewestTries
  <2>8. sender[started].pc # "none"
    <3>1. started \in Nat
      BY <1>1, StartedIsNat
    <3>2. ~(started > started)
      BY <3>1
    <3>3. started > started <=> sender[started].pc = "none"
      BY <1>1, <2>6 DEF IInv, OnlyNewestTries
    <3> QED
      BY <3>2, <3>3
  <2> QED
    BY <1>1, <2>3, <2>5, <2>6, <2>7, <2>8 DEF UnderWay, Trying, TypeOK
<1>2. TypeOK /\ IInv /\ [Next]_vars =>
          [\A c \in Caller :
               caller[c].pc = "compare" /\ caller'[c].pc = "idle" =>
                   started > 0 /\ sender[started].uris = caller[c].uris
                               /\ UnderWay(started)]_vars
  BY <1>1
<1> QED
  BY <1>2, Inductive, PTL DEF Spec, SkippedIsNewest
=============================================================================
