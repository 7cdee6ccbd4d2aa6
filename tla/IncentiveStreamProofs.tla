----------------------- MODULE IncentiveStreamProofs -----------------------
(***************************************************************************)
(* Proofs about IncentiveStream, for every set of groups, writers and      *)
(* connections, any cap on the streams and any number of changes.          *)
(***************************************************************************)
EXTENDS IncentiveStream, FiniteSetTheorems, TLAPS

Held == {c \in Clients : stage[c] \in Holding}

\* Nobody announces a version the store has yet to show.
ToldShown == \A g \in Groups : told[g] <= shown[g]

\* Listening connection c has no announced change coming to it.
Undisturbed(c) ==
  /\ stage[c] \in Listening
  /\ ~signal[c]
  /\ \A w \in Writers : ~Owed(w, c)

\* What the loop of such a connection has, or will have read by the end of the push
\* under way, is all that was announced.  A token taken before the groups are read
\* makes this inductive: the push that serves it reads what it was for.
UpToDate(c) ==
  \A g \in GroupsOf(c) :
    /\ stage[c] = "reading" => g \in toRead[c] \/ snap[c][g] >= told[g]
    /\ stage[c] = "sending" => snap[c][g] >= told[g]
    /\ stage[c] = "waiting" => last[c][g] >= told[g]

Covered == \A c \in Clients : Undisturbed(c) => UpToDate(c)

\* Only a writer that is calling has listeners left to call.
CallersOnly == \A w \in Writers : phase[w] # "calling" => fns[w] = {}

Counted == TypeOK /\ NothingLeftBehind

IInv == Counted /\ ToldShown /\ CallersOnly /\ Covered

-----------------------------------------------------------------------------
(***************************************************************************)
(* Types, slots and listeners.                                             *)
(***************************************************************************)
LEMMA HeldFinite == IsFiniteSet(Held) /\ Cardinality(Held) \in Nat
<1>1. IsFiniteSet(Clients) /\ Held \in SUBSET Clients
  BY StreamAssumptions DEF Held
<1> QED
  BY <1>1, FS_Subset, FS_CardinalityType

LEMMA InitCounted == Init => Counted
<1> SUFFICES ASSUME Init PROVE Counted
  OBVIOUS
<1>1. {c \in Clients : stage[c] \in Holding} = {}
  BY DEF Init, Holding
<1>2. Cardinality({c \in Clients : stage[c] \in Holding}) = 0
  BY <1>1, FS_EmptySet
<1>3. NothingLeftBehind
  BY <1>2, StreamAssumptions DEF Init, NothingLeftBehind, Listening
<1>4. TypeOK
  BY StreamAssumptions DEF Init, TypeOK, Unsent, Versions, Nothing, Stages
<1> QED
  BY <1>3, <1>4 DEF Counted

\* A step that leaves the held connections as they are leaves the slots alone.
LEMMA SameHeld ==
  ASSUME NothingLeftBehind, slots' = slots, Held' = Held,
         listeners' = {c \in Clients : stage'[c] \in Listening}
  PROVE  NothingLeftBehind'
BY DEF NothingLeftBehind, Held

LEMMA MoveInHold ==
  ASSUME TypeOK, NothingLeftBehind, NEW c \in Clients, NEW s \in Listening,
         stage[c] \in Listening, stage' = [stage EXCEPT ![c] = s],
         slots' = slots, listeners' = listeners
  PROVE  NothingLeftBehind'
<1>1. Held' = Held
  BY DEF Held, TypeOK, Holding, Listening, Stages
<1>2. listeners' = {d \in Clients : stage'[d] \in Listening}
  BY DEF NothingLeftBehind, TypeOK, Listening
<1> QED
  BY <1>1, <1>2, SameHeld

LEMMA PushCounted ==
  ASSUME Counted, NEW c \in Clients,
         Push(c) \/ TakeSignal(c) \/ StaleTick(c)
  PROVE  Counted'
<1> USE DEF Counted
<1>1. TypeOK'
  <2>1. ASSUME NEW g \in Groups, Read(c, g) PROVE TypeOK'
    <3>1. shown[g] \in Versions
      BY DEF TypeOK, Versions
    <3>2. snap' \in [Clients -> [Groups -> Versions]]
      BY <2>1, <3>1 DEF Read, TypeOK
    <3> QED
      BY <2>1, <3>2 DEF Read, TypeOK, storeVars, emitVars
  <2>2. ASSUME Built(c) PROVE TypeOK'
    BY <2>2 DEF Built, TypeOK, storeVars, emitVars, pushVars, Stages
  <2>3. ASSUME Deliver(c) \/ Skip(c) PROVE TypeOK'
    BY <2>3 DEF Deliver, Skip, TypeOK, storeVars, emitVars, pushVars, Stages
  <2>4. ASSUME TakeSignal(c) \/ StaleTick(c) PROVE TypeOK'
    <3>1. GroupsOf(c) \in SUBSET Groups
      BY DEF GroupsOf
    <3>2. /\ toRead' = [toRead EXCEPT ![c] = GroupsOf(c)]
          /\ stage' = [stage EXCEPT ![c] = "reading"]
      BY <2>4 DEF TakeSignal, StaleTick, BeginPush
    <3>3. /\ toRead' \in [Clients -> SUBSET Groups]
          /\ stage' \in [Clients -> Stages]
      BY <3>1, <3>2 DEF TypeOK, Stages
    <3>4. signal' \in [Clients -> BOOLEAN]
      BY <2>4 DEF TakeSignal, StaleTick, TypeOK
    <3> QED
      BY <2>4, <3>3, <3>4 DEF TakeSignal, StaleTick, TypeOK, storeVars, emitVars
  <2> QED
    BY <2>1, <2>2, <2>3, <2>4 DEF Push
<1>2. NothingLeftBehind'
  <2>1. ASSUME NEW g \in Groups, Read(c, g) PROVE NothingLeftBehind'
    BY <2>1 DEF Read, NothingLeftBehind
  <2>2. ASSUME Built(c) PROVE NothingLeftBehind'
    BY <2>2, MoveInHold DEF Built, Listening
  <2>3. ASSUME Deliver(c) \/ Skip(c) PROVE NothingLeftBehind'
    BY <2>3, MoveInHold DEF Deliver, Skip, Listening
  <2>4. ASSUME TakeSignal(c) \/ StaleTick(c) PROVE NothingLeftBehind'
    BY <2>4, MoveInHold DEF TakeSignal, StaleTick, BeginPush, Listening
  <2> QED
    BY <2>1, <2>2, <2>3, <2>4 DEF Push
<1> QED
  BY <1>1, <1>2

LEMMA OpenCounted ==
  ASSUME Counted, NEW c \in Clients, Open(c)
  PROVE  Counted'
<1> USE DEF Counted
<1>1. Held' = Held \cup {c} /\ c \notin Held
  BY DEF Open, Held, TypeOK, Holding, Stages
<1>2. Cardinality(Held') = Cardinality(Held) + 1
  BY <1>1, HeldFinite, FS_AddElement
<1>3. listeners' = {d \in Clients : stage'[d] \in Listening}
  BY DEF Open, NothingLeftBehind, TypeOK, Listening
<1>4. slots' = slots + 1 /\ slots < MaxStreams /\ slots \in Nat
  BY DEF Open, TypeOK
<1>5. NothingLeftBehind'
  BY <1>2, <1>3, <1>4, StreamAssumptions DEF NothingLeftBehind, Held
<1>6. TypeOK'
  <2>1. Unsent \in [Groups -> Versions]
    BY DEF Unsent, Versions
  <2>2. slots' \in 0..MaxStreams
    BY <1>4, StreamAssumptions
  <2> QED
    BY <2>1, <2>2 DEF Open, TypeOK, storeVars, emitVars, Stages
<1> QED
  BY <1>5, <1>6

LEMMA SubscribeCounted ==
  ASSUME Counted, NEW c \in Clients, Subscribe(c)
  PROVE  Counted'
<1> USE DEF Counted
<1>1. Held' = Held
  BY DEF Subscribe, BeginPush, Held, TypeOK, Holding, Stages
<1>2. listeners' = {d \in Clients : stage'[d] \in Listening}
  BY DEF Subscribe, BeginPush, NothingLeftBehind, TypeOK, Listening
<1>3. NothingLeftBehind'
  BY <1>1, <1>2, SameHeld DEF Subscribe
<1>4. TypeOK'
  <2>1. GroupsOf(c) \in SUBSET Groups
    BY DEF GroupsOf
  <2> QED
    BY <2>1 DEF Subscribe, BeginPush, TypeOK, storeVars, emitVars, Stages
<1> QED
  BY <1>3, <1>4

LEMMA UnsubscribeCounted ==
  ASSUME Counted, NEW c \in Clients, Unsubscribe(c)
  PROVE  Counted'
<1> USE DEF Counted
<1>1. Held' = Held
  BY DEF Unsubscribe, Held, TypeOK, Holding, Stages
<1>2. listeners' = {d \in Clients : stage'[d] \in Listening}
  BY DEF Unsubscribe, NothingLeftBehind, TypeOK, Listening
<1>3. NothingLeftBehind'
  BY <1>1, <1>2, SameHeld DEF Unsubscribe
<1>4. TypeOK'
  BY DEF Unsubscribe, TypeOK, storeVars, emitVars, pushVars, Stages
<1> QED
  BY <1>3, <1>4

LEMMA ReleaseCounted ==
  ASSUME Counted, NEW c \in Clients, Release(c)
  PROVE  Counted'
<1> USE DEF Counted
<1>1. Held' = Held \ {c} /\ c \in Held
  BY DEF Release, Held, TypeOK, Holding, Stages
<1>2. Cardinality(Held') = Cardinality(Held) - 1 /\ Cardinality(Held') \in Nat
  BY <1>1, HeldFinite, FS_RemoveElement, FS_CardinalityType
<1>3. listeners' = {d \in Clients : stage'[d] \in Listening}
  BY DEF Release, NothingLeftBehind, TypeOK, Listening
<1>4. slots = Cardinality(Held) /\ slots' = slots - 1 /\ slots \in 0..MaxStreams
  BY DEF Release, TypeOK, NothingLeftBehind, Held
<1>5. slots' = Cardinality(Held') /\ slots' \in 0..MaxStreams
  BY <1>2, <1>4, HeldFinite, StreamAssumptions
<1>6. NothingLeftBehind'
  BY <1>3, <1>5, StreamAssumptions DEF NothingLeftBehind, Held
<1>7. TypeOK'
  BY <1>5 DEF Release, TypeOK, storeVars, emitVars, pushVars, Stages
<1> QED
  BY <1>6, <1>7

LEMMA WriterCounted ==
  ASSUME Counted, NEW w \in Writers,
         Emit(w) \/ (\E g \in Groups : Write(w, g))
  PROVE  Counted'
<1> USE DEF Counted
<1>1. ASSUME NEW g \in Groups, Write(w, g) PROVE TypeOK'
  <2>1. shown' \in [Groups -> Nat] /\ changed' \in 0..MaxChanges
    BY <1>1, StreamAssumptions DEF Write, Change, TypeOK
  <2>2. told' \in [Groups -> Nat]
    BY <1>1, <2>1 DEF Write, TypeOK
  <2>3. about' \in [Writers -> Platforms]
    BY <1>1, StreamAssumptions DEF Write, TypeOK
  <2> QED
    BY <1>1, <2>1, <2>2, <2>3 DEF Write, TypeOK, pushVars
<1>2. ASSUME CopyListeners(w) PROVE TypeOK'
  BY <1>2 DEF CopyListeners, TypeOK, storeVars, pushVars
<1>3. ASSUME NEW c \in Clients, Call(w, c) PROVE TypeOK'
  BY <1>3 DEF Call, TypeOK, storeVars, pushVars
<1>4. ASSUME EmitReturns(w) PROVE TypeOK'
  BY <1>4 DEF EmitReturns, TypeOK, storeVars, pushVars
<1>5. NothingLeftBehind'
  BY DEF Emit, Write, CopyListeners, Call, EmitReturns, NothingLeftBehind
<1> QED
  BY <1>1, <1>2, <1>3, <1>4, <1>5 DEF Emit

LEMMA OtherCounted ==
  ASSUME Counted,
         \/ \E g \in Groups : ChangeSilently(g)
         \/ \E c \in Clients : Disconnect(c)
         \/ UNCHANGED vars
  PROVE  Counted'
<1> USE DEF Counted
<1>1. ASSUME NEW g \in Groups, ChangeSilently(g) PROVE TypeOK' /\ NothingLeftBehind'
  BY <1>1, StreamAssumptions
     DEF ChangeSilently, Change, TypeOK, NothingLeftBehind, emitVars, pushVars
<1>2. ASSUME NEW c \in Clients, Disconnect(c) PROVE TypeOK' /\ NothingLeftBehind'
  BY <1>2 DEF Disconnect, TypeOK, NothingLeftBehind, storeVars, emitVars, pushVars
<1>3. ASSUME UNCHANGED vars PROVE TypeOK' /\ NothingLeftBehind'
  BY <1>3 DEF TypeOK, NothingLeftBehind, vars
<1> QED
  BY <1>1, <1>2, <1>3

LEMMA NextCounted == Counted /\ [Next]_vars => Counted'
BY PushCounted, OpenCounted, SubscribeCounted, UnsubscribeCounted,
   ReleaseCounted, WriterCounted, OtherCounted DEF Next

-----------------------------------------------------------------------------
(***************************************************************************)
(* No update is lost.                                                      *)
(***************************************************************************)
LEMMA InitRest == Init => ToldShown /\ CallersOnly /\ Covered
BY DEF Init, ToldShown, CallersOnly, Covered, Undisturbed, Listening

LEMMA NextToldShown ==
  ASSUME TypeOK, ToldShown, [Next]_vars
  PROVE  ToldShown'
<1>1. ASSUME NEW g \in Groups, Change(g), told' = told \/ told' = [told EXCEPT ![g] = shown'[g]]
      PROVE  ToldShown'
  <2> SUFFICES ASSUME NEW h \in Groups PROVE told'[h] <= shown'[h]
    BY DEF ToldShown
  <2>1. shown'[h] = (IF h = g THEN shown[h] + 1 ELSE shown[h])
    BY <1>1 DEF Change, TypeOK
  <2>2. told'[h] = told[h] \/ told'[h] = shown'[h]
    BY <1>1 DEF TypeOK
  <2>3. shown[h] \in Nat /\ told[h] \in Nat /\ told[h] <= shown[h]
    BY DEF TypeOK, ToldShown
  <2> QED
    BY <2>1, <2>2, <2>3
<1>2. ASSUME NEW g \in Groups, ChangeSilently(g) \/ \E w \in Writers : Write(w, g)
      PROVE  ToldShown'
  BY <1>1, <1>2 DEF ChangeSilently, Write
<1>3. ASSUME told' = told, shown' = shown PROVE ToldShown'
  BY <1>3 DEF ToldShown
<1>4. ASSUME NEW w \in Writers, Emit(w) PROVE ToldShown'
  BY <1>3, <1>4 DEF Emit, CopyListeners, Call, EmitReturns, storeVars
<1>5. ASSUME NEW c \in Clients,
             \/ Open(c) \/ Subscribe(c) \/ Push(c) \/ TakeSignal(c)
             \/ StaleTick(c) \/ Disconnect(c) \/ Unsubscribe(c) \/ Release(c)
      PROVE  ToldShown'
  BY <1>3, <1>5 DEF Open, Subscribe, Push, Read, Built, Deliver, Skip, TakeSignal,
                    StaleTick, Disconnect, Unsubscribe, Release, storeVars
<1>6. CASE UNCHANGED vars
  BY <1>3, <1>6 DEF vars
<1> QED
  BY <1>2, <1>4, <1>5, <1>6 DEF Next

LEMMA NextCallersOnly ==
  ASSUME TypeOK, CallersOnly, [Next]_vars
  PROVE  CallersOnly'
<1>1. ASSUME phase' = phase, fns' = fns PROVE CallersOnly'
  BY <1>1 DEF CallersOnly
<1>2. ASSUME NEW w \in Writers, NEW g \in Groups, Write(w, g) PROVE CallersOnly'
  BY <1>2 DEF Write, CallersOnly, TypeOK
<1>3. ASSUME NEW w \in Writers, CopyListeners(w) \/ EmitReturns(w) PROVE CallersOnly'
  BY <1>3 DEF CopyListeners, EmitReturns, CallersOnly, TypeOK
<1>4. ASSUME NEW w \in Writers, NEW c \in Clients, Call(w, c) PROVE CallersOnly'
  BY <1>4 DEF Call, CallersOnly, TypeOK
<1>5. ASSUME NEW g \in Groups, ChangeSilently(g) PROVE CallersOnly'
  BY <1>1, <1>5 DEF ChangeSilently, emitVars
<1>6. ASSUME NEW c \in Clients,
             \/ Open(c) \/ Subscribe(c) \/ Push(c) \/ TakeSignal(c)
             \/ StaleTick(c) \/ Disconnect(c) \/ Unsubscribe(c) \/ Release(c)
      PROVE  CallersOnly'
  BY <1>1, <1>6 DEF Open, Subscribe, Push, Read, Built, Deliver, Skip, TakeSignal,
                    StaleTick, Disconnect, Unsubscribe, Release, emitVars
<1>7. CASE UNCHANGED vars
  BY <1>1, <1>7 DEF vars
<1> QED
  BY <1>2, <1>3, <1>4, <1>5, <1>6, <1>7 DEF Next, Emit

\* A step that neither moves connection d on nor takes a coming change away from it.
LEMMA Kept ==
  ASSUME NEW d \in Clients, Undisturbed(d) => UpToDate(d),
         \A g \in GroupsOf(d) : told'[g] = told[g],
         stage'[d] = stage[d], toRead'[d] = toRead[d],
         snap'[d] = snap[d], last'[d] = last[d],
         Undisturbed(d)' => Undisturbed(d)
  PROVE  Undisturbed(d)' => UpToDate(d)'
BY DEF UpToDate, GroupsOf

\* No connection but c is touched.
LEMMA KeptBesides ==
  ASSUME TypeOK, Covered, NEW c \in Clients, NEW d \in Clients, d # c,
         UNCHANGED <<told, phase, about, fns>>,
         stage'[d] = stage[d], signal'[d] = signal[d], toRead'[d] = toRead[d],
         snap'[d] = snap[d], last'[d] = last[d]
  PROVE  Undisturbed(d)' => UpToDate(d)'
<1>1. Undisturbed(d)' => Undisturbed(d)
  BY DEF Undisturbed, Owed
<1>2. Undisturbed(d) => UpToDate(d)
  BY DEF Covered
<1> QED
  BY <1>1, <1>2, Kept

LEMMA WriteCovered ==
  ASSUME IInv, NEW w \in Writers, NEW g \in Groups, Write(w, g)
  PROVE  Covered'
<1> SUFFICES ASSUME NEW d \in Clients, Undisturbed(d)' PROVE UpToDate(d)'
  BY DEF Covered
<1>1. /\ phase[w] = "idle"
      /\ phase' = [phase EXCEPT ![w] = "written"]
      /\ about' = [about EXCEPT ![w] = PlatformOf[g]]
      /\ told' = [told EXCEPT ![g] = shown'[g]]
      /\ UNCHANGED <<fns, stage, signal, toRead, snap, last>>
  BY DEF Write, pushVars
<1>2. PlatformOf[g] # Watched[d]
  BY <1>1 DEF Undisturbed, Owed, IInv, Counted, TypeOK
<1>3. \A h \in GroupsOf(d) : told'[h] = told[h]
  BY <1>1, <1>2 DEF GroupsOf, IInv, Counted, TypeOK
<1>4. ~Owed(w, d)
  BY <1>1 DEF Owed, IInv, CallersOnly
<1>5. \A v \in Writers : v # w => (Owed(v, d)' <=> Owed(v, d))
  BY <1>1 DEF Owed, IInv, Counted, TypeOK
<1>6. Undisturbed(d)
  BY <1>1, <1>4, <1>5 DEF Undisturbed
<1>7. Undisturbed(d) => UpToDate(d)
  BY DEF IInv, Covered
<1> QED
  BY <1>1, <1>3, <1>6, <1>7, Kept

LEMMA EmitCovered ==
  ASSUME IInv, NEW w \in Writers, Emit(w)
  PROVE  Covered'
<1> SUFFICES ASSUME NEW d \in Clients, Undisturbed(d)' PROVE UpToDate(d)'
  BY DEF Covered
<1>1. UNCHANGED <<told, stage, toRead, snap, last, about>>
  BY DEF Emit, CopyListeners, Call, EmitReturns, storeVars, pushVars
<1>2. stage[d] \in Listening
  BY <1>1 DEF Undisturbed
<1>3. Undisturbed(d)
  <2>1. CASE CopyListeners(w)
    <3>1. d \in listeners
      BY <1>2 DEF IInv, Counted, NothingLeftBehind
    <3>2. Owed(w, d) => Owed(w, d)'
      BY <2>1, <3>1 DEF CopyListeners, Owed, IInv, Counted, TypeOK
    <3>3. \A v \in Writers : v # w => (Owed(v, d)' <=> Owed(v, d))
      BY <2>1 DEF CopyListeners, Owed, IInv, Counted, TypeOK
    <3> QED
      BY <1>2, <2>1, <3>2, <3>3 DEF CopyListeners, Undisturbed
  <2>2. ASSUME NEW c \in Clients, Call(w, c) PROVE Undisturbed(d)
    <3>1. ~signal'[d]
      BY DEF Undisturbed
    <3>2. ~signal[d]
      BY <2>2, <3>1 DEF Call, IInv, Counted, TypeOK
    <3>3. c = d => about[w] # Watched[d]
      BY <2>2, <3>1 DEF Call, IInv, Counted, TypeOK
    <3>4. \A v \in Writers : Owed(v, d) => Owed(v, d)'
      BY <2>2, <3>3 DEF Call, Owed, IInv, Counted, TypeOK
    <3> QED
      BY <1>2, <3>2, <3>4 DEF Undisturbed
  <2>3. CASE EmitReturns(w)
    <3>1. \A v \in Writers : Owed(v, d) => Owed(v, d)'
      BY <2>3 DEF EmitReturns, Owed, IInv, Counted, TypeOK
    <3> QED
      BY <1>2, <2>3, <3>1 DEF EmitReturns, Undisturbed
  <2> QED
    BY <2>1, <2>2, <2>3 DEF Emit
<1>4. Undisturbed(d) => UpToDate(d)
  BY DEF IInv, Covered
<1> QED
  BY <1>1, <1>3, <1>4, Kept

LEMMA ClientCovered ==
  ASSUME IInv, NEW c \in Clients,
         \/ Open(c) \/ Subscribe(c) \/ TakeSignal(c) \/ StaleTick(c)
         \/ Disconnect(c) \/ Unsubscribe(c) \/ Release(c) \/ Built(c)
         \/ Deliver(c) \/ Skip(c)
  PROVE  Covered'
<1> SUFFICES ASSUME NEW d \in Clients, Undisturbed(d)' PROVE UpToDate(d)'
  BY DEF Covered
<1>1. UNCHANGED <<told, phase, about, fns>>
  BY DEF Open, Subscribe, TakeSignal, StaleTick, Disconnect, Unsubscribe,
         Release, Built, Deliver, Skip, storeVars, emitVars
<1>2. ASSUME d # c PROVE UpToDate(d)'
  <2>1. /\ stage'[d] = stage[d] /\ signal'[d] = signal[d]
        /\ toRead'[d] = toRead[d] /\ snap'[d] = snap[d] /\ last'[d] = last[d]
    BY <1>2 DEF Open, Subscribe, TakeSignal, StaleTick, BeginPush, Disconnect,
                Unsubscribe, Release, Built, Deliver, Skip, pushVars, IInv,
                Counted, TypeOK
  <2>2. TypeOK /\ Covered
    BY DEF IInv, Counted
  <2> QED
    BY <1>1, <1>2, <2>1, <2>2, KeptBesides
<1>3. CASE d = c
  <2>1. ~(Open(c) \/ Unsubscribe(c) \/ Release(c))
    BY <1>3 DEF Open, Unsubscribe, Release, Undisturbed, Listening, IInv,
                Counted, TypeOK
  <2>2. CASE Subscribe(c) \/ TakeSignal(c) \/ StaleTick(c)
    <3>1. stage'[c] = "reading" /\ toRead'[c] = GroupsOf(c)
      BY <2>2 DEF Subscribe, TakeSignal, StaleTick, BeginPush, IInv, Counted, TypeOK
    <3> QED
      BY <1>3, <3>1 DEF UpToDate, GroupsOf
  <2>3. ASSUME Disconnect(c) \/ Built(c) \/ Deliver(c) \/ Skip(c)
        PROVE  UpToDate(c)
    <3>1. signal' = signal /\ (stage[c] \in Listening \/ stage' = stage)
      BY <2>3 DEF Disconnect, Built, Deliver, Skip, Listening
    <3>2. Undisturbed(c)
      BY <1>1, <1>3, <3>1 DEF Undisturbed, Owed
    <3> QED
      BY <3>2 DEF IInv, Covered
  <2>4. CASE Disconnect(c)
    BY <1>1, <1>3, <2>3, <2>4 DEF Disconnect, UpToDate, GroupsOf, pushVars
  <2>5. CASE Built(c)
    <3>1. /\ stage[c] = "reading" /\ toRead[c] = {} /\ stage'[c] = "sending"
          /\ snap' = snap
      BY <2>5 DEF Built, pushVars, IInv, Counted, TypeOK
    <3> QED
      BY <1>1, <1>3, <2>3, <2>5, <3>1 DEF UpToDate, GroupsOf
  <2>6. CASE Deliver(c) \/ Skip(c)
    <3>1. /\ stage[c] = "sending" /\ stage'[c] = "waiting"
          /\ last'[c] = snap[c]
      BY <2>6 DEF Deliver, Skip, pushVars, IInv, Counted, TypeOK
    <3> QED
      BY <1>1, <1>3, <2>3, <2>6, <3>1 DEF UpToDate, GroupsOf
  <2> QED
    BY <2>1, <2>2, <2>4, <2>5, <2>6
<1> QED
  BY <1>2, <1>3

LEMMA ReadCovered ==
  ASSUME IInv, NEW c \in Clients, NEW g \in Groups, Read(c, g)
  PROVE  Covered'
<1> SUFFICES ASSUME NEW d \in Clients, Undisturbed(d)' PROVE UpToDate(d)'
  BY DEF Covered
<1>1. /\ UNCHANGED <<told, phase, about, fns, stage, signal, last>>
      /\ stage[c] = "reading"
      /\ toRead' = [toRead EXCEPT ![c] = @ \ {g}]
      /\ snap' = [snap EXCEPT ![c][g] = shown[g]]
  BY DEF Read, storeVars, emitVars
<1>2. TypeOK /\ Covered
  BY DEF IInv, Counted
<1>3. CASE d # c
  <2>1. toRead'[d] = toRead[d] /\ snap'[d] = snap[d]
    BY <1>1, <1>2, <1>3 DEF TypeOK
  <2> QED
    BY <1>1, <1>2, <1>3, <2>1, KeptBesides
<1>4. CASE d = c
  <2>1. Undisturbed(c)
    BY <1>1, <1>4 DEF Undisturbed, Owed
  <2>2. UpToDate(c)
    BY <1>2, <2>1 DEF Covered
  <2>3. told[g] <= shown[g]
    BY DEF IInv, ToldShown
  <2>4. toRead'[c] = toRead[c] \ {g}
    BY <1>1, <1>2 DEF TypeOK
  <2>5. \A h \in Groups : snap'[c][h] = IF h = g THEN shown[g] ELSE snap[c][h]
    BY <1>1, <1>2 DEF TypeOK
  <2>6. told[g] \in Nat /\ shown[g] \in Nat
    BY <1>2 DEF TypeOK
  <2>7. \A h \in GroupsOf(c) : h \in toRead'[c] \/ snap'[c][h] >= told[h]
    BY <1>1, <2>2, <2>3, <2>4, <2>5, <2>6 DEF UpToDate, GroupsOf
  <2> QED
    BY <1>1, <1>4, <2>7 DEF UpToDate, GroupsOf
<1> QED
  BY <1>3, <1>4

LEMMA StillCovered ==
  ASSUME IInv, UNCHANGED vars \/ \E g \in Groups : ChangeSilently(g)
  PROVE  Covered'
<1> SUFFICES ASSUME NEW d \in Clients PROVE Undisturbed(d)' => UpToDate(d)'
  BY DEF Covered
<1>1. UNCHANGED <<told, phase, about, fns, stage, signal, toRead, snap, last>>
  BY DEF vars, ChangeSilently, emitVars, pushVars
<1>2. Undisturbed(d)' => Undisturbed(d)
  BY <1>1 DEF Undisturbed, Owed
<1>3. Undisturbed(d) => UpToDate(d)
  BY DEF IInv, Covered
<1> QED
  BY <1>1, <1>2, <1>3, Kept

LEMMA NextInv == IInv /\ [Next]_vars => IInv'
<1> SUFFICES ASSUME IInv, [Next]_vars PROVE IInv'
  OBVIOUS
<1>1. Counted' /\ ToldShown' /\ CallersOnly'
  BY NextCounted, NextToldShown, NextCallersOnly DEF IInv, Counted
<1>2. Covered'
  BY WriteCovered, EmitCovered, ClientCovered, ReadCovered, StillCovered
     DEF Next, Push
<1> QED
  BY <1>1, <1>2 DEF IInv

LEMMA Invariance == Spec => []IInv
<1>1. Init => IInv
  BY InitCounted, InitRest DEF IInv
<1> QED
  BY <1>1, NextInv, PTL DEF Spec

\* The state of the streams is well formed.
THEOREM StreamTypeOK == Spec => []TypeOK
BY Invariance, PTL DEF IInv, Counted

\* Slots and listeners are exactly those of the handlers still running, however the
\* handlers of stream.go interleave and wherever their browsers leave them.
THEOREM StreamNothingLeftBehind == Spec => []NothingLeftBehind
BY Invariance, PTL DEF IInv, Counted

\* No stream sleeps on a change that was announced: the one-token channel, filled
\* after the write and emptied before the read, loses no update.
THEOREM StreamNoLostUpdate == Spec => []NoLostUpdate
<1>1. IInv => NoLostUpdate
  BY DEF IInv, Covered, Undisturbed, UpToDate, NoLostUpdate, Listening
<1> QED
  BY <1>1, Invariance, PTL


-----------------------------------------------------------------------------
(***************************************************************************)
(* The streams implement LiveFeed.                                         *)
(***************************************************************************)

\* What connection c was sent is older than what it reads, which is older than what the
\* store shows; a payload has every group that was read, and no group of another platform.
Forward(c) ==
  /\ \A g \in Groups : last[c][g] <= snap[c][g] /\ snap[c][g] <= shown[g]
  /\ \A g \in Groups \ GroupsOf(c) : snap[c][g] = Nothing
  /\ stage[c] \in {"reading", "sending"} =>
       \A g \in GroupsOf(c) \ toRead[c] : snap[c][g] >= 0
  /\ stage[c] = "sending" => toRead[c] = {}
  /\ toRead[c] \subseteq GroupsOf(c)

Ordered == \A c \in Clients : Forward(c)

LEMMA InitOrdered == Init => Ordered
BY DEF Init, Ordered, Forward, Unsent, Nothing

\* Nothing of connection c's push moved, and no group went back.
LEMMA ForwardKept ==
  ASSUME TypeOK, TypeOK', NEW c \in Clients, Forward(c),
         \A g \in Groups : shown'[g] >= shown[g],
         toRead'[c] = toRead[c], snap'[c] = snap[c], last'[c] = last[c],
         stage'[c] \in {"reading", "sending"} => stage'[c] = stage[c]
  PROVE  Forward(c)'
<1>1. \A g \in Groups : snap[c][g] \in Versions /\ shown[g] \in Nat /\ shown'[g] \in Nat
  BY DEF TypeOK
<1>2. \A g \in Groups : last'[c][g] <= snap'[c][g] /\ snap'[c][g] <= shown'[g]
  BY <1>1 DEF Forward, Versions, Nothing
<1> QED
  BY <1>2 DEF Forward, GroupsOf

LEMMA NextOrdered ==
  ASSUME Counted, Counted', Ordered, [Next]_vars
  PROVE  Ordered'
<1> SUFFICES ASSUME NEW d \in Clients PROVE Forward(d)'
  BY DEF Ordered
<1> USE DEF Counted
<1>1. Forward(d)
  BY DEF Ordered
<1>2. ASSUME NEW g \in Groups, Change(g), UNCHANGED <<stage, pushVars>> PROVE Forward(d)'
  <2>1. \A h \in Groups : shown'[h] >= shown[h]
    BY <1>2 DEF Change, TypeOK
  <2> QED
    BY <1>1, <1>2, <2>1, ForwardKept DEF pushVars
<1>3. ASSUME UNCHANGED <<shown, stage, pushVars>> PROVE Forward(d)'
  BY <1>1, <1>3 DEF Forward, GroupsOf, pushVars
<1>4. ASSUME NEW c \in Clients, d # c, shown' = shown,
             stage'[d] = stage[d], toRead'[d] = toRead[d],
             snap'[d] = snap[d], last'[d] = last[d]
      PROVE  Forward(d)'
  BY <1>1, <1>4 DEF Forward, GroupsOf
<1>5. ASSUME NEW c \in Clients,
             \/ Open(c) \/ Subscribe(c) \/ Push(c) \/ TakeSignal(c)
             \/ StaleTick(c) \/ Disconnect(c) \/ Unsubscribe(c) \/ Release(c)
      PROVE  Forward(d)'
  <2>1. shown' = shown
    BY <1>5 DEF Open, Subscribe, Push, Read, Built, Deliver, Skip, TakeSignal,
                StaleTick, Disconnect, Unsubscribe, Release, storeVars
  <2>2. CASE d # c
    BY <1>4, <1>5, <2>1, <2>2
       DEF Open, Subscribe, Push, Read, Built, Deliver, Skip, TakeSignal, BeginPush,
           StaleTick, Disconnect, Unsubscribe, Release, pushVars, TypeOK
  <2>3. CASE d = c /\ Open(c)
    <3>1. stage'[c] = "opened" /\ snap'[c] = Unsent /\ last'[c] = Unsent /\ toRead' = toRead
      BY <2>3 DEF Open, TypeOK
    <3>2. \A g \in Groups : shown[g] \in Nat
      BY DEF TypeOK
    <3> QED
      BY <1>1, <2>1, <2>3, <3>1, <3>2 DEF Forward, GroupsOf, Unsent, Nothing
  <2>4. CASE d = c /\ (Subscribe(c) \/ TakeSignal(c) \/ StaleTick(c))
    <3>1. /\ stage'[c] = "reading" /\ toRead'[c] = GroupsOf(c)
          /\ snap' = snap /\ last' = last
      BY <2>4 DEF Subscribe, TakeSignal, StaleTick, BeginPush, TypeOK
    <3> QED
      BY <1>1, <2>1, <2>4, <3>1 DEF Forward, GroupsOf
  <2>5. ASSUME d = c, NEW g \in Groups, Read(c, g) PROVE Forward(d)'
    <3>1. /\ stage'[c] = "reading" /\ stage[c] = "reading" /\ last' = last
          /\ g \in toRead[c] /\ toRead'[c] = toRead[c] \ {g}
          /\ \A h \in Groups : snap'[c][h] = IF h = g THEN shown[g] ELSE snap[c][h]
      BY <2>5 DEF Read, TypeOK
    <3>2. last[c][g] <= shown[g] /\ shown[g] >= 0
      <4>1. last[c][g] \in Versions /\ snap[c][g] \in Versions /\ shown[g] \in Nat
        BY DEF TypeOK
      <4> QED
        BY <1>1, <2>5, <4>1 DEF Forward, Versions, Nothing
    <3>3. g \in GroupsOf(c) /\ toRead'[c] \subseteq GroupsOf(c)
      BY <1>1, <2>5, <3>1 DEF Forward
    <3>4. shown[g] <= shown[g]
      BY DEF TypeOK
    <3>5. \A h \in Groups : last'[c][h] <= snap'[c][h] /\ snap'[c][h] <= shown'[h]
      BY <1>1, <2>1, <2>5, <3>1, <3>2, <3>4 DEF Forward
    <3>6. \A h \in Groups \ GroupsOf(c) : snap'[c][h] = Nothing
      BY <1>1, <2>5, <3>1, <3>3 DEF Forward
    <3>7. \A h \in GroupsOf(c) \ toRead'[c] : snap'[c][h] >= 0
      BY <1>1, <2>5, <3>1, <3>2 DEF Forward, GroupsOf
    <3> QED
      BY <2>5, <3>1, <3>3, <3>5, <3>6, <3>7 DEF Forward, GroupsOf
  <2>6. CASE d = c /\ Built(c)
    <3>1. /\ stage[c] = "reading" /\ toRead[c] = {} /\ stage'[c] = "sending"
          /\ toRead' = toRead /\ snap' = snap /\ last' = last
      BY <2>6 DEF Built, pushVars, TypeOK
    <3> QED
      BY <1>1, <2>1, <2>6, <3>1 DEF Forward, GroupsOf
  <2>7. CASE d = c /\ (Deliver(c) \/ Skip(c))
    <3>1. /\ stage'[c] = "waiting" /\ toRead' = toRead /\ snap' = snap
          /\ last'[c] = snap[c]
      BY <2>7 DEF Deliver, Skip, pushVars, TypeOK
    <3>2. \A g \in Groups : snap[c][g] \in Versions
      BY DEF TypeOK
    <3>3. \A v \in Versions : v <= v
      BY DEF Versions, Nothing
    <3> QED
      BY <1>1, <2>1, <2>7, <3>1, <3>2, <3>3 DEF Forward, GroupsOf
  <2>8. CASE d = c /\ (Disconnect(c) \/ Unsubscribe(c) \/ Release(c))
    <3>1. /\ toRead' = toRead /\ snap' = snap /\ last' = last
          /\ stage'[c] \in {"reading", "sending"} => stage'[c] = stage[c]
      BY <2>8 DEF Disconnect, Unsubscribe, Release, pushVars, TypeOK
    <3> QED
      BY <1>1, <2>1, <2>8, <3>1 DEF Forward, GroupsOf
  <2> QED
    BY <1>5, <2>2, <2>3, <2>4, <2>5, <2>6, <2>7, <2>8 DEF Push
<1>6. ASSUME NEW w \in Writers, Emit(w) PROVE Forward(d)'
  BY <1>3, <1>6 DEF Emit, CopyListeners, Call, EmitReturns, storeVars
<1>7. ASSUME NEW g \in Groups, ChangeSilently(g) \/ \E w \in Writers : Write(w, g)
      PROVE  Forward(d)'
  BY <1>2, <1>7 DEF ChangeSilently, Write
<1>8. CASE UNCHANGED vars
  BY <1>3, <1>8 DEF vars, pushVars
<1> QED
  BY <1>5, <1>6, <1>7, <1>8 DEF Next

\* Every step of the hub is a step of LiveFeed, or none.
LEMMA FeedStep ==
  ASSUME Counted, Counted', Ordered, [Next]_vars
  PROVE  [Feed!Next]_(Feed!vars)
<1> USE DEF Counted
<1>1. ASSUME UNCHANGED <<shown, last>>, Held' = Held PROVE [Feed!Next]_(Feed!vars)
  BY <1>1 DEF Feed!vars, Held
<1>2. ASSUME NEW g \in Groups, Change(g), UNCHANGED <<stage, last>>
      PROVE  [Feed!Next]_(Feed!vars)
  BY <1>2 DEF Change, Feed!Next, Feed!Change
<1>3. ASSUME NEW g \in Groups, ChangeSilently(g) \/ \E w \in Writers : Write(w, g)
      PROVE  [Feed!Next]_(Feed!vars)
  BY <1>2, <1>3 DEF ChangeSilently, Write, pushVars
<1>4. ASSUME NEW w \in Writers, Emit(w) PROVE [Feed!Next]_(Feed!vars)
  BY <1>1, <1>4 DEF Emit, CopyListeners, Call, EmitReturns, storeVars, pushVars, Held
<1>5. ASSUME NEW c \in Clients, Open(c) PROVE [Feed!Next]_(Feed!vars)
  <2>1. Held' = Held \cup {c} /\ c \notin Held
    BY <1>5 DEF Open, Held, TypeOK, Holding, Stages
  <2>2. Cardinality(Held') <= MaxStreams
    BY DEF NothingLeftBehind, Held
  <2>3. shown' = shown /\ last' = [last EXCEPT ![c] = Feed!Unseen]
    BY <1>5 DEF Open, storeVars, Unsent, Nothing, Feed!Unseen, Feed!Nothing
  <2>4. Feed!Connect(c)
    BY <2>1, <2>2, <2>3 DEF Feed!Connect, Held, Feed!Cardinality, Cardinality
  <2> QED
    BY <2>4 DEF Feed!Next
<1>6. ASSUME NEW c \in Clients, Deliver(c) PROVE [Feed!Next]_(Feed!vars)
  <2>1. /\ stage[c] = "sending" /\ shown' = shown
        /\ stage' = [stage EXCEPT ![c] = "waiting"]
        /\ last' = [last EXCEPT ![c] = snap[c]]
    BY <1>6 DEF Deliver, storeVars
  <2>2. Held' = Held /\ c \in Held
    BY <2>1 DEF Held, TypeOK, Holding, Stages
  <2>3. last'[c] = snap[c] /\ last' = [last EXCEPT ![c] = last'[c]]
    BY <2>1 DEF TypeOK
  <2>4. Forward(c)
    BY DEF Ordered
  <2>5. \A g \in GroupsOf(c) : snap[c][g] \in 0 .. shown[g] /\ snap[c][g] >= last[c][g]
    <3>1. \A g \in Groups : /\ snap[c][g] \in Versions /\ last[c][g] \in Versions
                            /\ shown[g] \in Nat
      BY DEF TypeOK
    <3> QED
      BY <2>1, <2>4, <3>1 DEF Forward, GroupsOf, Versions, Nothing
  <2>6. \A g \in Groups \ GroupsOf(c) : snap[c][g] = Feed!Nothing
    BY <2>4 DEF Forward, Nothing, Feed!Nothing
  <2>7. Feed!Show(c)
    BY <2>1, <2>2, <2>3, <2>5, <2>6 DEF Feed!Show, Held
  <2> QED
    BY <2>7 DEF Feed!Next
<1>7. ASSUME NEW c \in Clients, Release(c) PROVE [Feed!Next]_(Feed!vars)
  <2>1. Held' = Held \ {c} /\ c \in Held
    BY <1>7 DEF Release, Held, TypeOK, Holding, Stages
  <2>2. Feed!Disconnect(c)
    BY <1>7, <2>1 DEF Release, storeVars, pushVars, Feed!Disconnect, Held
  <2> QED
    BY <2>2 DEF Feed!Next
<1>8. ASSUME NEW c \in Clients,
             \/ Subscribe(c) \/ (\E g \in Groups : Read(c, g)) \/ Built(c) \/ Skip(c)
             \/ TakeSignal(c) \/ StaleTick(c) \/ Disconnect(c) \/ Unsubscribe(c)
      PROVE  [Feed!Next]_(Feed!vars)
  <2>1. UNCHANGED <<shown, last>>
    BY <1>8 DEF Subscribe, Read, Built, Skip, TakeSignal, StaleTick, Disconnect,
                Unsubscribe, storeVars, pushVars
  <2>2. Held' = Held
    BY <1>8 DEF Subscribe, Read, Built, Skip, TakeSignal, StaleTick, BeginPush, Disconnect,
                Unsubscribe, Held, TypeOK, Holding, Stages
  <2> QED
    BY <1>1, <2>1, <2>2
<1>9. CASE UNCHANGED vars
  BY <1>1, <1>9 DEF vars, Held
<1> QED
  BY <1>3, <1>4, <1>5, <1>6, <1>7, <1>8, <1>9 DEF Next, Push

\* The handlers of stream.go implement LiveFeed: what a stream has shown of a group never
\* goes back, every payload has all of its groups and none the store has yet to show, and
\* there are never more streams than the cap.
THEOREM StreamMovesForward == Spec => StreamsMoveForward
<1>1. Init => Feed!Init
  BY DEF Init, Feed!Init, Feed!Unseen, Feed!Nothing, Unsent, Nothing, Holding
<1>2. Ordered /\ IInv /\ IInv' /\ [Next]_vars => Ordered'
  BY NextOrdered DEF IInv
<1>3. Ordered /\ IInv /\ IInv' /\ [Next]_vars => [Feed!Next]_(Feed!vars)
  BY FeedStep DEF IInv
<1> QED
  BY <1>1, <1>2, <1>3, InitOrdered, Invariance, PTL DEF Spec, StreamsMoveForward, Feed!Spec

=============================================================================
