-------------------------- MODULE IncentiveStream --------------------------
(***************************************************************************)
(* The live stream of internal/httpapi/stream.go and the listeners of      *)
(* internal/store/store.go: a connection takes a slot, subscribes, pushes  *)
(* the current incentives, and then pushes again on a change of its        *)
(* platform or on the stale tick until its browser goes away.              *)
(*                                                                         *)
(* What the store shows of a group is a version, one higher at every       *)
(* change.  A push reads the groups one by one, so a payload may be torn   *)
(* between two writes.  A payload carries the millisecond it was built in: *)
(* two pushes of the same versions are equal only within a millisecond,    *)
(* which is why both Deliver and Skip are open to such a push.  Heartbeats *)
(* and presence touch none of this state and are left out.                 *)
(***************************************************************************)
EXTENDS Integers, FiniteSets

CONSTANTS
  Clients,        \* connections that may exist at once
  Writers,        \* goroutines in Store.Ingest or Store.Evict
  Groups,         \* (platform, region) pairs
  Platforms,
  PlatformOf,     \* the platform of a group
  Watched,        \* the platform a connection asked for
  MaxStreams,     \* maxConcurrentStreams
  MaxChanges      \* bound on the changes of the store

ASSUME StreamAssumptions ==
  /\ IsFiniteSet(Clients)
  /\ PlatformOf \in [Groups -> Platforms]
  /\ Watched \in [Clients -> Platforms]
  /\ MaxStreams \in Nat
  /\ MaxChanges \in Nat

\* Newer than no version: what a connection was sent of a group at first.
Nothing == -1

Versions == Nat \cup {Nothing}

Unsent == [g \in Groups |-> Nothing]

VARIABLES
  shown,      \* the version of each group in Store.live
  told,       \* history: the last version whose writer announces it
  changed,    \* how many changes were made
  phase,      \* a writer is "idle", has "written", or is "calling" listeners
  about,      \* the platform a writer announces
  fns,        \* the listeners a writer copied and has yet to call
  listeners,  \* Store.listeners, by the connection that registered them
  slots,      \* how full the streamSlots channel is
  stage,      \* where the handler of a connection stands
  signal,     \* the connection's changes channel holds a token
  toRead,     \* groups the push under way has not read yet
  snap,       \* the payload being built
  last,       \* the payload last sent
  gone        \* connections whose browser left: ctx is done

vars == <<shown, told, changed, phase, about, fns, listeners, slots, stage,
          signal, toRead, snap, last, gone>>

storeVars == <<shown, told, changed>>
emitVars == <<phase, about, fns>>
pushVars == <<toRead, snap, last>>

Stages == {"closed", "opened", "reading", "sending", "waiting", "unsubscribed"}

\* Stages of a handler that holds a slot, and of one with a listener registered.
Holding == Stages \ {"closed"}
Listening == {"reading", "sending", "waiting"}

GroupsOf(c) == {g \in Groups : PlatformOf[g] = Watched[c]}

Init ==
  /\ shown = [g \in Groups |-> 0]
  /\ told = [g \in Groups |-> 0]
  /\ changed = 0
  /\ phase = [w \in Writers |-> "idle"]
  /\ about \in [Writers -> Platforms]
  /\ fns = [w \in Writers |-> {}]
  /\ listeners = {}
  /\ slots = 0
  /\ stage = [c \in Clients |-> "closed"]
  /\ signal = [c \in Clients |-> FALSE]
  /\ toRead = [c \in Clients |-> {}]
  /\ snap = [c \in Clients |-> Unsent]
  /\ last = [c \in Clients |-> Unsent]
  /\ gone = {}

-----------------------------------------------------------------------------
\* A change of group g in the store.
Change(g) ==
  /\ changed < MaxChanges
  /\ changed' = changed + 1
  /\ shown' = [shown EXCEPT ![g] = @ + 1]

\* The write of Ingest or Evict; emitChange is still to come.
Write(w, g) ==
  /\ phase[w] = "idle"
  /\ Change(g)
  /\ told' = [told EXCEPT ![g] = shown'[g]]
  /\ phase' = [phase EXCEPT ![w] = "written"]
  /\ about' = [about EXCEPT ![w] = PlatformOf[g]]
  /\ UNCHANGED <<fns, listeners, slots, stage, signal, pushVars, gone>>

\* A change nobody announces: a region enters or leaves the registry, or a tile
\* turns stale.
ChangeSilently(g) ==
  /\ Change(g)
  /\ UNCHANGED <<told, emitVars, listeners, slots, stage, signal, pushVars, gone>>

\* emitChange copies the listeners under listenersMu ...
CopyListeners(w) ==
  /\ phase[w] = "written"
  /\ phase' = [phase EXCEPT ![w] = "calling"]
  /\ fns' = [fns EXCEPT ![w] = listeners]
  /\ UNCHANGED <<storeVars, about, listeners, slots, stage, signal, pushVars, gone>>

\* Mutant: an unbuffered channel, whose send finds nobody receiving in a push.
CallUnbuffered(w, c) ==
  /\ c \in fns[w]
  /\ fns' = [fns EXCEPT ![w] = @ \ {c}]
  /\ signal' = IF about[w] = Watched[c] /\ stage[c] = "waiting"
                 THEN [signal EXCEPT ![c] = TRUE] ELSE signal
  /\ UNCHANGED <<storeVars, phase, about, listeners, slots, stage, pushVars, gone>>

\* ... and calls them after: one of another platform returns, one whose channel
\* is full drops the signal, and one whose stream has ended fills a dead channel.
Call(w, c) ==
  /\ c \in fns[w]
  /\ fns' = [fns EXCEPT ![w] = @ \ {c}]
  /\ signal' = IF about[w] = Watched[c] THEN [signal EXCEPT ![c] = TRUE] ELSE signal
  /\ UNCHANGED <<storeVars, phase, about, listeners, slots, stage, pushVars, gone>>

EmitReturns(w) ==
  /\ phase[w] = "calling"
  /\ fns[w] = {}
  /\ phase' = [phase EXCEPT ![w] = "idle"]
  /\ UNCHANGED <<storeVars, about, fns, listeners, slots, stage, signal, pushVars, gone>>

-----------------------------------------------------------------------------
\* Mutant: the deferred release also runs for a connection that was refused.
OpenReleasing(c) ==
  /\ stage[c] = "closed"
  /\ \A w \in Writers : c \notin fns[w]
  /\ IF slots < MaxStreams
       THEN /\ slots' = slots + 1
            /\ stage' = [stage EXCEPT ![c] = "opened"]
            /\ signal' = [signal EXCEPT ![c] = FALSE]
            /\ snap' = [snap EXCEPT ![c] = Unsent]
            /\ last' = [last EXCEPT ![c] = Unsent]
       ELSE /\ slots' = slots - 1
            /\ UNCHANGED <<stage, signal, snap, last>>
  /\ UNCHANGED <<storeVars, emitVars, listeners, toRead, gone>>

(***************************************************************************)
(* A connection arrives and takes a slot, or is sent a ping and closed at  *)
(* once, which leaves nothing behind.  It goes by an id nothing refers to  *)
(* any more: no copied listener still to be called is its predecessor's.   *)
(***************************************************************************)
Open(c) ==
  /\ stage[c] = "closed"
  /\ \A w \in Writers : c \notin fns[w]
  /\ slots < MaxStreams
  /\ slots' = slots + 1
  /\ stage' = [stage EXCEPT ![c] = "opened"]
  /\ signal' = [signal EXCEPT ![c] = FALSE]
  /\ snap' = [snap EXCEPT ![c] = Unsent]
  /\ last' = [last EXCEPT ![c] = Unsent]
  /\ UNCHANGED <<storeVars, emitVars, listeners, toRead, gone>>

\* The call of push: Store.Incentives is about to read the groups.
BeginPush(c) ==
  /\ stage' = [stage EXCEPT ![c] = "reading"]
  /\ toRead' = [toRead EXCEPT ![c] = GroupsOf(c)]

\* Store.OnChange, and after it the first push.
Subscribe(c) ==
  /\ stage[c] = "opened"
  /\ listeners' = listeners \cup {c}
  /\ BeginPush(c)
  /\ UNCHANGED <<storeVars, emitVars, slots, signal, snap, last, gone>>

\* Store.Incentives reads one group.
Read(c, g) ==
  /\ stage[c] = "reading"
  /\ g \in toRead[c]
  /\ snap' = [snap EXCEPT ![c][g] = shown[g]]
  /\ toRead' = [toRead EXCEPT ![c] = @ \ {g}]
  /\ UNCHANGED <<storeVars, emitVars, listeners, slots, stage, signal, last, gone>>

\* Mutant: what was read so far is sent when the store is busy.
BuiltEarly(c) ==
  /\ stage[c] = "reading"
  /\ stage' = [stage EXCEPT ![c] = "sending"]
  /\ UNCHANGED <<storeVars, emitVars, listeners, slots, signal, pushVars, gone>>

Built(c) ==
  /\ stage[c] = "reading"
  /\ toRead[c] = {}
  /\ stage' = [stage EXCEPT ![c] = "sending"]
  /\ UNCHANGED <<storeVars, emitVars, listeners, slots, signal, pushVars, gone>>

\* Mutant: signals that came during a push are taken as served by it.
DeliverDraining(c) ==
  /\ stage[c] = "sending"
  /\ last' = [last EXCEPT ![c] = snap[c]]
  /\ stage' = [stage EXCEPT ![c] = "waiting"]
  /\ signal' = [signal EXCEPT ![c] = FALSE]
  /\ UNCHANGED <<storeVars, emitVars, listeners, slots, toRead, snap, gone>>

\* The payload differs from the last one and is sent; an error is ignored.
Deliver(c) ==
  /\ stage[c] = "sending"
  /\ last' = [last EXCEPT ![c] = snap[c]]
  /\ stage' = [stage EXCEPT ![c] = "waiting"]
  /\ UNCHANGED <<storeVars, emitVars, listeners, slots, signal, toRead, snap, gone>>

\* The payload is the last one, its millisecond included.
Skip(c) ==
  /\ stage[c] = "sending"
  /\ snap[c] = last[c]
  /\ stage' = [stage EXCEPT ![c] = "waiting"]
  /\ UNCHANGED <<storeVars, emitVars, listeners, slots, signal, pushVars, gone>>

\* The select's case of a change: the token is taken before the groups are read.
TakeSignal(c) ==
  /\ stage[c] = "waiting"
  /\ signal[c]
  /\ signal' = [signal EXCEPT ![c] = FALSE]
  /\ BeginPush(c)
  /\ UNCHANGED <<storeVars, emitVars, listeners, slots, snap, last, gone>>

\* Mutant: the tick sends again what was sent last.
StaleTickRepeating(c) ==
  /\ stage[c] = "waiting"
  /\ stage' = [stage EXCEPT ![c] = "sending"]
  /\ UNCHANGED <<storeVars, emitVars, listeners, slots, signal, pushVars, gone>>

\* The select's case of the 30 s ticker.
StaleTick(c) ==
  /\ stage[c] = "waiting"
  /\ BeginPush(c)
  /\ UNCHANGED <<storeVars, emitVars, listeners, slots, signal, snap, last, gone>>

\* The browser goes away, wherever the handler stands.
Disconnect(c) ==
  /\ stage[c] \in {"opened"} \cup Listening
  /\ c \notin gone
  /\ gone' = gone \cup {c}
  /\ UNCHANGED <<storeVars, emitVars, listeners, slots, stage, signal, pushVars>>

\* Mutant: the context is looked at only when a change wakes the loop.
UnsubscribeOnSignal(c) ==
  /\ stage[c] = "waiting"
  /\ c \in gone
  /\ signal[c]
  /\ listeners' = listeners \ {c}
  /\ stage' = [stage EXCEPT ![c] = "unsubscribed"]
  /\ UNCHANGED <<storeVars, emitVars, slots, signal, pushVars, gone>>

\* The select's case of ctx.Done: of the deferred calls, off() runs first ...
Unsubscribe(c) ==
  /\ stage[c] = "waiting"
  /\ c \in gone
  /\ listeners' = listeners \ {c}
  /\ stage' = [stage EXCEPT ![c] = "unsubscribed"]
  /\ UNCHANGED <<storeVars, emitVars, slots, signal, pushVars, gone>>

\* ... and the release of the slot last.
Release(c) ==
  /\ stage[c] = "unsubscribed"
  /\ slots' = slots - 1
  /\ stage' = [stage EXCEPT ![c] = "closed"]
  /\ gone' = gone \ {c}
  /\ UNCHANGED <<storeVars, emitVars, listeners, signal, pushVars>>

Push(c) ==
  \/ \E g \in Groups : Read(c, g)
  \/ Built(c)
  \/ Deliver(c)
  \/ Skip(c)

Emit(w) ==
  \/ CopyListeners(w)
  \/ \E c \in Clients : Call(w, c)
  \/ EmitReturns(w)

Next ==
  \/ \E w \in Writers, g \in Groups : Write(w, g)
  \/ \E w \in Writers : Emit(w)
  \/ \E g \in Groups : ChangeSilently(g)
  \/ \E c \in Clients :
       \/ Open(c)
       \/ Subscribe(c)
       \/ Push(c)
       \/ TakeSignal(c)
       \/ StaleTick(c)
       \/ Disconnect(c)
       \/ Unsubscribe(c)
       \/ Release(c)

Spec == Init /\ [][Next]_vars

(***************************************************************************)
(* Goroutines run, and a send returns: sse gives every message a write     *)
(* deadline.  When several cases of the select are ready one is picked at  *)
(* random, so a case that is ready time and again is picked in the end.    *)
(***************************************************************************)
SchedulerFairness ==
  /\ \A w \in Writers : WF_vars(Emit(w))
  /\ \A c \in Clients :
       /\ WF_vars(Subscribe(c))
       /\ WF_vars(Push(c))
       /\ SF_vars(TakeSignal(c))
       /\ SF_vars(Unsubscribe(c))
       /\ WF_vars(Release(c))

\* Nothing is assumed of the ticker.
FairSpec == Spec /\ SchedulerFairness

-----------------------------------------------------------------------------
\* The state is well formed.
TypeOK ==
  /\ shown \in [Groups -> Nat]
  /\ told \in [Groups -> Nat]
  /\ changed \in 0..MaxChanges
  /\ phase \in [Writers -> {"idle", "written", "calling"}]
  /\ about \in [Writers -> Platforms]
  /\ fns \in [Writers -> SUBSET Clients]
  /\ listeners \subseteq Clients
  /\ slots \in 0..MaxStreams
  /\ stage \in [Clients -> Stages]
  /\ signal \in [Clients -> BOOLEAN]
  /\ toRead \in [Clients -> SUBSET Groups]
  /\ snap \in [Clients -> [Groups -> Versions]]
  /\ last \in [Clients -> [Groups -> Versions]]
  /\ gone \subseteq Clients

\* A writer has yet to reach connection c with a change of its platform.
Owed(w, c) ==
  /\ about[w] = Watched[c]
  /\ phase[w] = "written" \/ c \in fns[w]

\* A stream never sleeps on a change: when its loop waits with an empty channel and
\* no writer has it still to call, it has sent every announced version, or a later
\* one, although writers drop signals on a full channel, copy the listeners before
\* they call them, and payloads are torn.
NoLostUpdate ==
  \A c \in Clients :
    /\ stage[c] = "waiting"
    /\ ~signal[c]
    /\ \A w \in Writers : ~Owed(w, c)
    => \A g \in GroupsOf(c) : last[c][g] >= told[g]

\* However connections come, are refused and go, the slots taken and the listeners
\* registered are those of the handlers still running, and no more than the cap.
NothingLeftBehind ==
  /\ slots = Cardinality({c \in Clients : stage[c] \in Holding})
  /\ slots <= MaxStreams
  /\ listeners = {c \in Clients : stage[c] \in Listening}

Feed == INSTANCE LiveFeed WITH
          Of <- [c \in Clients |-> GroupsOf(c)], Room <- MaxStreams,
          current <- shown, seen <- last,
          open <- {c \in Clients : stage[c] \in Holding}

\* Connections, pushes and writers implement LiveFeed: no stream shows a version older
\* than one it has shown, or one the store does not have yet, although a payload is read
\* group by group while others write, and is kept from one push to the next.
StreamsMoveForward == Feed!Spec

Staying(c) == stage[c] \in Listening /\ c \notin gone

\* An announced change reaches every stream that stays, without the ticker.
AnnouncedShown ==
  \A c \in Clients : \A g \in GroupsOf(c), v \in 1..MaxChanges :
    Staying(c) /\ told[g] = v ~> ~Staying(c) \/ last[c][g] >= v

\* A change nobody announces reaches every stream that stays too, as long as its
\* ticker keeps firing.
SilentChangeShown ==
  \A c \in Clients :
    []<><<StaleTick(c)>>_vars =>
      \A g \in GroupsOf(c), v \in 1..MaxChanges :
        Staying(c) /\ shown[g] = v ~> ~Staying(c) \/ last[c][g] >= v

\* The slot of a browser that left comes back.
SlotComesBack ==
  \A c \in Clients : c \in gone ~> stage[c] = "closed"

=============================================================================
