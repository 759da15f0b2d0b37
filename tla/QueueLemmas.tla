---------------------------- MODULE QueueLemmas -----------------------------
(***************************************************************************)
(* Queues, as the bus of a cache and the frames of a websocket are: what   *)
(* is added comes last, and what is taken was first.                       *)
(***************************************************************************)
EXTENDS Naturals, Sequences, TLAPS

\* An element at the end leaves every other element at its place.
LEMMA Appended ==
    ASSUME NEW S, NEW s \in Seq(S), NEW e \in S, NEW t, t = Append(s, e)
    PROVE  /\ t \in Seq(S) /\ Len(t) = Len(s) + 1 /\ Len(s) \in Nat
           /\ DOMAIN t = 1..Len(t) /\ DOMAIN s = 1..Len(s)
           /\ Len(t) \in DOMAIN t /\ t[Len(t)] = e
           /\ \A i \in DOMAIN s : i \in DOMAIN t /\ i < Len(t) /\ t[i] = s[i]
           /\ \A i \in DOMAIN t : i # Len(t) => i \in DOMAIN s
OBVIOUS

\* Without its head, every element is one place further ahead.
LEMMA Taken ==
    ASSUME NEW S, NEW s \in Seq(S), s # <<>>, NEW t, t = Tail(s)
    PROVE  /\ t \in Seq(S) /\ Len(s) = Len(t) + 1 /\ Len(t) \in Nat
           /\ DOMAIN t = 1..Len(t) /\ DOMAIN s = 1..Len(s)
           /\ 1 \in DOMAIN s /\ s[1] = Head(s) /\ Head(s) \in S
           /\ \A i \in DOMAIN t : i + 1 \in DOMAIN s /\ t[i] = s[i + 1]
           /\ \A i \in DOMAIN s : i # 1 => i - 1 \in DOMAIN t /\ t[i - 1] = s[i]
OBVIOUS

=============================================================================
