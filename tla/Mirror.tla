------------------------------- MODULE Mirror -------------------------------
(***************************************************************************)
(* What a cache of a cluster's objects promises its readers, whatever the  *)
(* way it is filled.  The source changes one object at a time.  The view   *)
(* of a namespace is empty-handed (not shown) until it is first filled,    *)
(* and never forgotten after that.  It changes in three ways: one object   *)
(* takes a value the source has had, the whole namespace takes a content   *)
(* the source has had at one moment, or it goes blank.                     *)
(***************************************************************************)
EXTENDS Naturals

CONSTANTS Namespace, Object

VARIABLES
    source,   \* source[n][o]: the version of an object, 0 when it is absent
    past,     \* past[n]: every content namespace n has had
    shown,    \* the namespaces the view has
    view      \* view[n][o]

vars == <<source, past, shown, view>>

Blank == [o \in Object |-> 0]

Init ==
    /\ past = [n \in Namespace |-> {source[n]}]
    /\ \A n \in Namespace : view[n] \in {source[n], Blank}
    /\ shown \subseteq Namespace

SourceChanges(n, o) ==
    /\ source' = [source EXCEPT ![n][o] = source'[n][o]]
    /\ source'[n][o] \in Nat
    /\ past' = [past EXCEPT ![n] = @ \union {source'[n]}]
    /\ UNCHANGED <<shown, view>>

ShowObject(n, o) ==
    /\ n \in shown
    /\ \E before \in past[n] : view' = [view EXCEPT ![n][o] = before[o]]
    /\ UNCHANGED <<source, past, shown>>

ShowAll(n) ==
    /\ shown' = shown \union {n}
    /\ \E content \in past[n] \union {Blank} : view' = [view EXCEPT ![n] = content]
    /\ UNCHANGED <<source, past>>

Next ==
    \E n \in Namespace :
        \/ \E o \in Object : SourceChanges(n, o) \/ ShowObject(n, o)
        \/ ShowAll(n)

Spec == Init /\ [][Next]_vars
=============================================================================
