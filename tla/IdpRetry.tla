------------------------------ MODULE IdpRetry ------------------------------
(***************************************************************************)
(* Sending the redirect URIs to the identity provider: SendRoutesToIDP     *)
(* builds a request from the current routes and tenants, and               *)
(* ClientWithRetry.PostURI compares its hash with that of the last one,    *)
(* cancels the goroutine that sends the last one, and starts a goroutine   *)
(* that posts the new one until the provider takes it or it is cancelled.  *)
(*                                                                         *)
(* PostURI runs in the auto-sync timer, the tenant watcher, the route      *)
(* callback and the handler of POST /routes/sync-idp, without a lock: each *)
(* statement on the shared fields hash and cancel is a step.  A request is *)
(* the value it was built from, and its hash is taken to be collision-free.*)
(* The provider is external: it stores what it takes, as it arrives.       *)
(***************************************************************************)
EXTENDS Naturals

CONSTANTS
    URIs,          \* possible contents of a request
    NoHash,        \* hash 0: nothing sent yet, or reset
    Caller,        \* goroutines that call SendRoutesToIDP
    MaxPosts,      \* bound on the goroutines started
    MaxChanges,    \* bound on changes of the routes and tenants
    MaxFaults,     \* bound on failing posts
    MaxResets      \* bound on calls of Reset

ASSUME ConstantsAssumption ==
    /\ NoHash \notin URIs
    /\ MaxPosts \in Nat \ {0}
    /\ MaxChanges \in Nat /\ MaxFaults \in Nat /\ MaxResets \in Nat

VARIABLES
    current,       \* what getRealms would return now
    idp,           \* the URIs the identity provider holds
    caller,        \* the callers: where they are, and their request
    hash,          \* ClientWithRetry.hash
    cancel,        \* the goroutine that ClientWithRetry.cancel cancels, 0 when nil
    sender,        \* the goroutines, numbered as they start
    started,       \* how many were started
    cancelled,     \* goroutines whose context is cancelled
    overtaken,     \* history: who was still sending when the newest started
    changes, faults, resets  \* how much of each bound is used

bounds == <<changes, faults, resets>>
vars == <<current, idp, caller, hash, cancel, sender, started, cancelled, overtaken, bounds>>

Sender == 1..MaxPosts
NoSender == [pc |-> "none", uris |-> NoHash]
Idle == [pc |-> "idle", uris |-> NoHash]

Trying(s) == sender[s].pc \in {"post", "select"}

-----------------------------------------------------------------------------
Init ==
    /\ current \in URIs
    /\ idp = NoHash
    /\ caller = [c \in Caller |-> Idle]
    /\ hash = NoHash /\ cancel = 0
    /\ sender = [s \in Sender |-> NoSender] /\ started = 0 /\ cancelled = {} /\ overtaken = {}
    /\ changes = 0 /\ faults = 0 /\ resets = 0

Change(u) ==
    /\ changes < MaxChanges
    /\ changes' = changes + 1
    /\ u # current
    /\ current' = u
    /\ UNCHANGED <<idp, caller, hash, cancel, sender, started, cancelled, overtaken, faults, resets>>

-----------------------------------------------------------------------------
(* A caller of SendRoutesToIDP. *)

Goto(c, label) == caller' = [caller EXCEPT ![c].pc = label]

SendRoutesToIDP(c) ==
    /\ caller[c].pc = "idle"
    /\ caller' = [caller EXCEPT ![c] = [pc |-> "compare", uris |-> current]]
    /\ UNCHANGED <<current, idp, hash, cancel, sender, started, cancelled, overtaken, bounds>>

(* Mutation: whatever was sent once counts as sent. *)
CompareAnySent(c) ==
    /\ caller[c].pc = "compare"
    /\ \/ hash # NoHash /\ caller' = [caller EXCEPT ![c] = Idle]
       \/ hash = NoHash /\ started < MaxPosts /\ Goto(c, "store")
    /\ UNCHANGED <<current, idp, hash, cancel, sender, started, cancelled, overtaken, bounds>>

CompareHash(c) ==
    /\ caller[c].pc = "compare"
    /\ \/ caller[c].uris = hash /\ caller' = [caller EXCEPT ![c] = Idle]
       \/ caller[c].uris # hash /\ started < MaxPosts /\ Goto(c, "store")
    /\ UNCHANGED <<current, idp, hash, cancel, sender, started, cancelled, overtaken, bounds>>

StoreHash(c) ==
    /\ caller[c].pc = "store"
    /\ hash' = caller[c].uris
    /\ Goto(c, "cancel")
    /\ UNCHANGED <<current, idp, cancel, sender, started, cancelled, overtaken, bounds>>

(* Mutation: the goroutine of the last request is left running. *)
CancelNothing(c) ==
    /\ caller[c].pc = "cancel"
    /\ Goto(c, "start")
    /\ UNCHANGED <<current, idp, hash, cancel, sender, started, cancelled, overtaken, bounds>>

(* Mutation: cancel is called though it may be nil. *)
CancelUnchecked(c) ==
    /\ caller[c].pc = "cancel"
    /\ cancelled' = cancelled \cup {cancel}
    /\ Goto(c, "start")
    /\ UNCHANGED <<current, idp, hash, cancel, sender, started, overtaken, bounds>>

CancelLast(c) ==
    /\ caller[c].pc = "cancel"
    /\ cancelled' = cancelled \cup ({cancel} \ {0})
    /\ Goto(c, "start")
    /\ UNCHANGED <<current, idp, hash, cancel, sender, started, overtaken, bounds>>

(* A new context, its cancel function in the field, and go func().         *)
StartSender(c) ==
    /\ caller[c].pc = "start"
    /\ started < MaxPosts
    /\ started' = started + 1
    /\ cancel' = started'
    /\ sender' = [sender EXCEPT ![started'] =
                      [pc |-> "post", uris |-> caller[c].uris]]
    /\ caller' = [caller EXCEPT ![c] = Idle]
    /\ overtaken' = {s \in Sender : Trying(s)}
    /\ UNCHANGED <<current, idp, hash, cancelled, bounds>>

(* POST /routes/sync-idp resets the hash and then sends.                   *)
Reset ==
    /\ resets < MaxResets
    /\ resets' = resets + 1
    /\ hash' = NoHash
    /\ UNCHANGED <<current, idp, caller, cancel, sender, started, cancelled, overtaken, changes, faults>>

-----------------------------------------------------------------------------
(* A goroutine that sends.  The HTTP call does not look at the context: a  *)
(* cancelled goroutine finishes its post, and only then may notice.        *)

Posted(s) ==
    /\ sender[s].pc = "post"
    /\ idp' = sender[s].uris
    /\ sender' = [sender EXCEPT ![s].pc = "posted"]
    /\ UNCHANGED <<current, caller, hash, cancel, started, cancelled, overtaken, bounds>>

(* Mutation: a failed post is not tried again. *)
PostFailsForGood(s) ==
    /\ sender[s].pc = "post"
    /\ faults < MaxFaults
    /\ faults' = faults + 1
    /\ sender' = [sender EXCEPT ![s].pc = "given up"]
    /\ UNCHANGED <<current, idp, caller, hash, cancel, started, cancelled, overtaken, changes, resets>>

(* An error, before or after the provider stored the request. *)
PostFails(s) ==
    /\ sender[s].pc = "post"
    /\ faults < MaxFaults
    /\ faults' = faults + 1
    /\ sender' = [sender EXCEPT ![s].pc = "select"]
    /\ idp' \in {idp, sender[s].uris}
    /\ UNCHANGED <<current, caller, hash, cancel, started, cancelled, overtaken, changes, resets>>

(* select between the end of the pause and the context: when both are      *)
(* there, either is taken.                                                 *)
PauseEnds(s) ==
    /\ sender[s].pc = "select"
    /\ sender' = [sender EXCEPT ![s].pc = "post"]
    /\ UNCHANGED <<current, idp, caller, hash, cancel, started, cancelled, overtaken, bounds>>

Cancelled(s) ==
    /\ sender[s].pc = "select"
    /\ s \in cancelled
    /\ sender' = [sender EXCEPT ![s].pc = "given up"]
    /\ UNCHANGED <<current, idp, caller, hash, cancel, started, cancelled, overtaken, bounds>>

-----------------------------------------------------------------------------
CallerStep(c) ==
    SendRoutesToIDP(c) \/ CompareHash(c) \/ StoreHash(c) \/ CancelLast(c) \/ StartSender(c)

SenderStep(s) == Posted(s) \/ PauseEnds(s) \/ Cancelled(s)

Next ==
    \/ \E u \in URIs : Change(u)
    \/ \E c \in Caller : CallerStep(c)
    \/ \E s \in Sender : SenderStep(s) \/ PostFails(s)
    \/ Reset

Spec == Init /\ [][Next]_vars

(* The timer calls SendRoutesToIDP for ever; goroutines that can run do.   *)
FairSpec ==
    /\ Spec
    /\ \A c \in Caller : WF_vars(CallerStep(c))
    /\ \A s \in Sender : WF_vars(SenderStep(s))

-----------------------------------------------------------------------------
(* Properties. *)

(* The types of the fields, the callers and the goroutines. *)
TypeOK ==
    /\ current \in URIs /\ idp \in URIs \cup {NoHash}
    /\ caller \in [Caller -> [pc : {"idle", "compare", "store", "cancel", "start"},
                              uris : URIs \cup {NoHash}]]
    /\ hash \in URIs \cup {NoHash}
    /\ started \in 0..MaxPosts /\ cancelled \subseteq Sender /\ overtaken \subseteq Sender
    /\ cancel \in 0..started
    /\ sender \in [Sender -> [pc : {"none", "post", "select", "posted", "given up"},
                              uris : URIs \cup {NoHash}]]

(* With one caller at a time, at most one goroutine keeps posting: every   *)
(* other one is done or was cancelled.                                     *)
OneLiveSender ==
    \A s, r \in Sender \ cancelled : Trying(s) /\ Trying(r) => s = r

UnderWay(s) == sender[s].pc = "posted" \/ (Trying(s) /\ s \notin cancelled)

(* With one caller at a time, a request is skipped only because the newest *)
(* goroutine carries the same one, and it was posted or is still tried.    *)
SkippedIsNewest ==
    [][\A c \in Caller :
           caller[c].pc = "compare" /\ caller'[c].pc = "idle" =>
               started > 0 /\ sender[started].uris = caller[c].uris /\ UnderWay(started)]_vars

(* Once the routes stay as they are, the newest goroutine carries them and *)
(* gets its request through, however often posts fail before.              *)
NewestArrives ==
    <>[](started > 0 /\ sender[started].uris = current /\ sender[started].pc = "posted")

(* Once the routes stay as they are, the identity provider holds them,     *)
(* unless an older post was still on its way when the newest was started.  *)
ProviderCurrent == <>[](idp = current \/ overtaken # {})

(* "Request with the same data was already send": a request is skipped     *)
(* only if the same one was posted, is still tried or about to be, or is   *)
(* what the provider holds.                                                *)
SkippedWasSent ==
    [][\A c \in Caller :
           caller[c].pc = "compare" /\ caller'[c].pc = "idle" =>
               \/ \E s \in Sender : /\ sender[s].uris = caller[c].uris
                                    /\ sender[s].pc = "posted" \/ Trying(s)
               \/ idp = caller[c].uris
               \/ \E d \in Caller : /\ caller[d].pc \in {"cancel", "start"}
                                    /\ caller[d].uris = caller[c].uris]_vars

-----------------------------------------------------------------------------
(* The inductive invariant behind OneLiveSender and SkippedIsNewest.       *)

Replacing == \E c \in Caller : caller[c].pc \in {"cancel", "start"}

CallersHoldRequests ==
    \A c \in Caller :
        /\ caller[c].pc # "idle" => caller[c].uris \in URIs
        /\ caller[c].pc \in {"cancel", "start"} => hash \in {NoHash, caller[c].uris}

OnlyNewestTries ==
    /\ cancel = started
    /\ \A s \in Sender : s > started <=> sender[s].pc = "none"
    /\ \A s \in Sender : sender[s].pc = "given up" => s \in cancelled
    /\ \A s \in Sender \ cancelled : Trying(s) => s = started
    /\ \A s \in cancelled : s <= started
    /\ (\E c \in Caller : caller[c].pc = "start") /\ started > 0 => started \in cancelled

HashIsNewest ==
    ~Replacing /\ hash # NoHash =>
        started > 0 /\ sender[started].uris = hash /\ started \notin cancelled

IInv == CallersHoldRequests /\ OnlyNewestTries /\ HashIsNewest
=============================================================================
