------------------------- MODULE AgentPollerProofs -------------------------
(***************************************************************************)
(* Proofs about AgentPoller and VersionResolver, for any number of builds, *)
(* and about SteamSession, in every mode.                                  *)
(***************************************************************************)
EXTENDS AgentPoller, SteamSession, TLAPS

\* Before the loop the resolver knows no build it could have given up.
Fresh ==
  at \in Starting \cup {"off"} =>
    active = NoBuild /\ candidate = NoBuild /\ rejected = NoBuild /\ brought = NoBuild

\* The status at every place, and who may have pulled the loop's signal.
Telling ==
  /\ at # "ended" => status # "error"
  /\ at = "ended" /\ ~stopping => status = "error"
  /\ at \in Polling /\ aborted => stopping
  /\ at \in Starting \cup {"off"} => ~stopping /\ ~aborted

\* A request presents a build, and a report is about data that build brought.
ReportsProven ==
  /\ at = "querying" => active # NoBuild
  /\ at = "reporting" => active = brought /\ active \in answered

\* Where the build presented, and the one that brought data last, come from.
Origins ==
  /\ active \in {NoBuild, candidate, lastWorking}
  /\ brought <= candidate \/ brought = lastWorking

\* A build still on trial though its data came has nothing it could be given up for.
Unchallenged ==
  at \notin {"reporting", "ended"} /\ OnTrial /\ active = brought =>
    lastWorking \in {NoBuild, active}

LoopInv ==
  /\ TypeOK
  /\ Fresh
  /\ Telling
  /\ ReportsProven
  /\ RejectedStaysOut
  /\ BadCyclesSlowDown

IInv == LoopInv /\ Origins /\ Unchallenged

-----------------------------------------------------------------------------
(* What the resolver's methods preserve.                                   *)

\* The methods keep the builds builds.
LEMMA ResolverType ==
  ASSUME ResolverTypeOK,
         \/ \E gotReal \in BOOLEAN : PassResult(gotReal)
         \/ Adopt(published)
         \/ InitWithout
         \/ ReadState
         \/ ForgetMemory
         \/ PublishBuild
         \/ \E build \in writing : WriteEnds(build)
         \/ UNCHANGED resolverVars
  PROVE  ResolverTypeOK'
<1> USE DEF ResolverTypeOK, memory, outside, resolverVars, Builds, NoBuild
<1>1. CASE \E gotReal \in BOOLEAN : PassResult(gotReal)
  BY <1>1 DEF PassResult, Confirm, Revert, OnTrial
<1>2. CASE Adopt(published)
  BY <1>2 DEF Adopt, Worthwhile
<1>3. CASE InitWithout \/ ReadState \/ ForgetMemory
  BY <1>3 DEF InitWithout, ReadState, ForgetMemory
<1>4. CASE PublishBuild
  BY <1>4, ResolverAssumptions DEF PublishBuild
<1>5. CASE \E build \in writing : WriteEnds(build)
  BY <1>5 DEF WriteEnds
<1>6. CASE UNCHANGED resolverVars
  BY <1>6
<1> QED
  BY <1>1, <1>2, <1>3, <1>4, <1>5, <1>6

\* The end of a pass keeps the given-up build out.
LEMMA PassRejected ==
  ASSUME RejectedStaysOut, NEW gotReal \in BOOLEAN, PassResult(gotReal)
  PROVE  RejectedStaysOut'
  BY DEF RejectedStaysOut, PassResult, Confirm, Revert, OnTrial, resolverVars,
         memory, outside

\* So does a discovery.
LEMMA AdoptRejected ==
  ASSUME ResolverTypeOK, RejectedStaysOut, Adopt(published) \/ UNCHANGED resolverVars
  PROVE  RejectedStaysOut'
  BY DEF ResolverTypeOK, Builds, NoBuild, RejectedStaysOut, Adopt, Worthwhile,
         resolverVars, memory, outside

-----------------------------------------------------------------------------
LEMMA InitLoopInv == Init => LoopInv
<1> SUFFICES ASSUME Init PROVE LoopInv
  OBVIOUS
<1>1. TypeOK
  <2>1. /\ published \in Builds
        /\ {active, candidate, lastWorking, rejected, disk} \subseteq Builds \cup {NoBuild}
    BY ResolverAssumptions DEF Init, ResolverInit, Builds, NoBuild
  <2>2. writing \subseteq Builds /\ answered \subseteq Builds /\ fellBack \subseteq Builds
    BY DEF Init, ResolverInit
  <2>3. verified \in BOOLEAN /\ stopping \in BOOLEAN /\ aborted \in BOOLEAN /\ due \in BOOLEAN
    BY Zenon DEF Init, ResolverInit
  <2>4. at \in Places /\ status \in Statuses /\ outcome \in Outcomes
    BY DEF Init, Places, Statuses, Outcomes
  <2>5. backoff \in 1 .. MaxBackoff /\ bad \in 0 .. PauseAfterBadCycles
    BY DEF Init, MaxBackoff, PauseAfterBadCycles
  <2>6. brought \in Builds \cup {NoBuild}
    BY DEF Init
  <2> QED
    BY <2>1, <2>2, <2>3, <2>4, <2>5, <2>6 DEF TypeOK, ResolverTypeOK
<1>2. Fresh /\ Telling /\ ReportsProven
  BY DEF Init, ResolverInit, Fresh, Telling, Polling, ReportsProven
<1>3. RejectedStaysOut
  BY DEF Init, ResolverInit, RejectedStaysOut, NoBuild
<1>4. BadCyclesSlowDown
  BY DEF Init, BadCyclesSlowDown
<1> QED
  BY <1>1, <1>2, <1>3, <1>4 DEF LoopInv

LEMMA OffInv == TypeOK /\ Off => LoopInv'
<1> SUFFICES ASSUME TypeOK, Off PROVE LoopInv'
  OBVIOUS
<1>1. ResolverTypeOK'
  BY ResolverType DEF TypeOK, Off
<1>2. TypeOK'
  <2>1. answered' \subseteq Builds /\ fellBack' \subseteq Builds
    BY DEF TypeOK, Off
  <2>2. stopping' \in BOOLEAN /\ aborted' \in BOOLEAN /\ due' \in BOOLEAN
    BY Zenon DEF Off
  <2>3. at' \in Places /\ status' \in Statuses /\ outcome' \in Outcomes
    BY DEF Off, Places, Statuses, Outcomes
  <2>4. backoff' \in 1 .. MaxBackoff /\ bad' \in 0 .. PauseAfterBadCycles
    BY DEF Off, MaxBackoff, PauseAfterBadCycles
  <2>5. brought' \in Builds \cup {NoBuild}
    BY DEF Off
  <2> QED
    BY <1>1, <2>1, <2>2, <2>3, <2>4, <2>5 DEF TypeOK
<1>3. Fresh' /\ Telling' /\ ReportsProven' /\ RejectedStaysOut' /\ BadCyclesSlowDown'
  BY DEF Off, ForgetMemory, Fresh, Telling, Polling, ReportsProven, RejectedStaysOut,
         BadCyclesSlowDown, NoBuild
<1> QED
  BY <1>2, <1>3 DEF LoopInv

-----------------------------------------------------------------------------
\* What the head of the loop does to the process.
LEMMA LoopStep ==
  ASSUME TypeOK, Loop
  PROVE  /\ at' \in {"ended", "pausing", "querying"}
         /\ at' = "querying" => active' # NoBuild
         /\ at' = "ended" <=> aborted
         /\ status' \in {status, "degraded"}
         /\ status' = "error" => status = "error"
         /\ stopping' = stopping /\ aborted' = aborted /\ due' = due
         /\ backoff' = backoff /\ bad' = bad
  BY DEF Loop

\* The part of TypeOK that is about the loop.
LoopTypeOK ==
  /\ at \in Places
  /\ stopping \in BOOLEAN
  /\ aborted \in BOOLEAN
  /\ status \in Statuses
  /\ backoff \in 1 .. MaxBackoff
  /\ bad \in 0 .. PauseAfterBadCycles
  /\ due \in BOOLEAN

LEMMA LoopType ==
  ASSUME TypeOK, Loop
  PROVE  LoopTypeOK'
  BY LoopStep DEF TypeOK, LoopTypeOK, Places, Polling, Statuses

LEMMA GotoType ==
  ASSUME TypeOK, NEW place \in Places, Goto(place)
  PROVE  LoopTypeOK'
  BY DEF TypeOK, LoopTypeOK, Goto

\* Steps of the start.
LEMMA StartInv ==
  ASSUME LoopInv, Launch \/ Assigned \/ Resolved \/ Unresolved
  PROVE  LoopInv'
<1>1. CASE Launch
  <2>1. LoopTypeOK'
    BY <1>1, GotoType DEF LoopInv, Launch, Places, Starting
  <2>2. TypeOK' /\ Fresh' /\ Telling' /\ ReportsProven'
    BY <1>1, <2>1 DEF LoopInv, Launch, Goto, TypeOK, LoopTypeOK, ResolverTypeOK,
       resolverVars, memory, outside, history, Fresh, Telling, Polling, Starting,
       ReportsProven
  <2>3. RejectedStaysOut' /\ BadCyclesSlowDown'
    BY <1>1 DEF LoopInv, Launch, Goto, resolverVars, memory, outside, history,
       RejectedStaysOut, BadCyclesSlowDown
  <2> QED
    BY <2>2, <2>3 DEF LoopInv
<1>2. CASE Assigned
  <2>1. LoopTypeOK' /\ ResolverTypeOK'
    BY <1>2, GotoType, ResolverType DEF LoopInv, Assigned, Places, Starting, TypeOK
  <2>2. TypeOK'
    BY <1>2, <2>1 DEF LoopInv, Assigned, TypeOK, LoopTypeOK, history
  <2>3. Fresh' /\ Telling' /\ ReportsProven'
    BY <1>2 DEF LoopInv, Assigned, Goto, ReadState, history, Fresh, Telling, Polling,
       Starting, ReportsProven
  <2>4. RejectedStaysOut' /\ BadCyclesSlowDown'
    BY <1>2 DEF LoopInv, Assigned, Goto, ReadState, outside, history, RejectedStaysOut,
       BadCyclesSlowDown
  <2> QED
    BY <2>2, <2>3, <2>4 DEF LoopInv
<1>3. CASE Resolved
  <2>1. LoopTypeOK'
    BY <1>3, GotoType, LoopType DEF LoopInv, Resolved, Start, Places, Polling
  <2>2. ResolverTypeOK'
    BY <1>3, ResolverType DEF LoopInv, Resolved, TypeOK
  <2>3. TypeOK'
    BY <1>3, <2>1, <2>2 DEF LoopInv, Resolved, TypeOK, LoopTypeOK, history
  <2>4. Fresh' /\ Telling' /\ ReportsProven' /\ BadCyclesSlowDown'
    BY <1>3, LoopStep DEF LoopInv, Resolved, Start, Goto, Fresh, Telling, Polling,
       Starting, ReportsProven, BadCyclesSlowDown
  <2>5. RejectedStaysOut'
    BY <1>3, AdoptRejected
       DEF LoopInv, Resolved, TypeOK, InitWithout, outside, Fresh, Starting,
           RejectedStaysOut
  <2> QED
    BY <2>3, <2>4, <2>5 DEF LoopInv
<1>4. CASE Unresolved
  <2>1. TypeOK'
    BY <1>4 DEF LoopInv, Unresolved, TypeOK, ResolverTypeOK, resolverVars, memory,
       outside, history, Places, Statuses
  <2>2. Fresh' /\ Telling' /\ ReportsProven'
    BY <1>4 DEF LoopInv, Unresolved, Fresh, Telling, Polling, Starting, ReportsProven
  <2>3. RejectedStaysOut' /\ BadCyclesSlowDown'
    BY <1>4 DEF LoopInv, Unresolved, resolverVars, memory, outside, history,
       RejectedStaysOut, BadCyclesSlowDown
  <2> QED
    BY <2>1, <2>2, <2>3 DEF LoopInv
<1> QED
  BY <1>1, <1>2, <1>3, <1>4

\* Delays and discoveries.
LEMMA WaitInv ==
  ASSUME LoopInv, Wake \/ PauseOver \/ Rediscover \/ Discover
  PROVE  LoopInv'
<1>1. Loop \/ Goto("rediscovering") \/ Goto("waiting")
  BY DEF Wake, PauseOver, Rediscover, Discover
<1>2. at \in Polling
  BY DEF Wake, PauseOver, Rediscover, Discover, Polling
<1>3. Adopt(published) \/ UNCHANGED resolverVars
  BY DEF Wake, PauseOver, Rediscover, Discover
<1>4. UNCHANGED history
  BY DEF Wake, PauseOver, Rediscover, Discover
<1>5. LoopTypeOK' /\ ResolverTypeOK'
  BY <1>1, <1>3, GotoType, LoopType, ResolverType DEF LoopInv, TypeOK, Places, Polling
<1>6. TypeOK'
  <2>1. Builds' = Builds
    OBVIOUS
  <2> QED
    BY <1>4, <1>5, <2>1 DEF LoopInv, TypeOK, LoopTypeOK, history
<1>7. Fresh' /\ Telling' /\ ReportsProven' /\ BadCyclesSlowDown'
  BY <1>1, <1>2, LoopStep DEF LoopInv, Goto, Fresh, Telling, Polling, Starting,
     ReportsProven, BadCyclesSlowDown
<1>8. RejectedStaysOut'
  BY <1>3, <1>4, AdoptRejected DEF LoopInv, TypeOK, history
<1> QED
  BY <1>6, <1>7, <1>8 DEF LoopInv

\* The backoff and the count of bad passes move together.
LEMMA Slower ==
  ASSUME NEW b \in 1 .. MaxBackoff, NEW n \in 0 .. PauseAfterBadCycles,
         NEW factor \in 2 .. 4, b >= <<1, 2, 4, 8>>[n + 1],
         NEW m, m = IF n < PauseAfterBadCycles THEN n + 1 ELSE n
  PROVE  /\ Capped(factor * b) \in 1 .. MaxBackoff
         /\ m \in 0 .. PauseAfterBadCycles
         /\ Capped(factor * b) >= <<1, 2, 4, 8>>[m + 1]
<1> USE DEF Capped, MaxBackoff, PauseAfterBadCycles
<1>1. factor * b >= 2 * b /\ factor * b \in Nat
  <2>1. factor = 2 \/ factor = 3 \/ factor = 4
    OBVIOUS
  <2> QED
    BY <2>1
<1>2. n = 0 \/ n = 1 \/ n = 2 \/ n = 3
  OBVIOUS
<1> QED
  BY <1>1, <1>2

\* A pass that brings nothing, and one whose report was taken.
LEMMA PassInv ==
  ASSUME LoopInv, Fallback \/ QueryFails \/ BoundFails \/ Reported
  PROVE  LoopInv'
<1>1. ASSUME NEW factor \in 2 .. 4, at \in {"querying", "reporting"}, PassWithout(factor),
             outcome' \in Outcomes, fellBack' \subseteq Builds,
             UNCHANGED <<answered, brought>>
      PROVE  LoopInv'
  <2>1. CASE aborted
    <3>1. /\ at' = "ended" /\ status' \in {status, "degraded", "paused"}
          /\ UNCHANGED <<stopping, aborted, backoff, bad, due, resolverVars>>
      BY <1>1, <2>1 DEF PassWithout
    <3>2. LoopTypeOK' /\ ResolverTypeOK'
      BY <3>1, ResolverType DEF LoopInv, TypeOK, LoopTypeOK, Places, Statuses
    <3>3. TypeOK'
      BY <1>1, <3>2 DEF LoopInv, TypeOK, LoopTypeOK
    <3>4. Fresh' /\ Telling' /\ ReportsProven' /\ BadCyclesSlowDown'
      BY <1>1, <2>1, <3>1 DEF LoopInv, Fresh, Telling, Polling, Starting,
         ReportsProven, BadCyclesSlowDown
    <3>5. RejectedStaysOut'
      BY <1>1, <3>1, AdoptRejected DEF LoopInv, TypeOK
    <3> QED
      BY <3>3, <3>4, <3>5 DEF LoopInv
  <2>2. CASE ~aborted
    <3>1. /\ PassResult(FALSE)
          /\ backoff' = Capped(factor * backoff)
          /\ bad' = IF bad < PauseAfterBadCycles THEN bad + 1 ELSE bad
          /\ status' \in {"paused", "degraded"}
          /\ at' \in {"discovering", "waiting"}
          /\ due' \in {due, FALSE}
          /\ stopping' = stopping /\ aborted' = aborted
      BY <1>1, <2>2 DEF PassWithout, AfterPass
    <3>2. /\ backoff' \in 1 .. MaxBackoff
          /\ bad' \in 0 .. PauseAfterBadCycles
          /\ BadCyclesSlowDown'
      BY <2>2, <3>1, Slower DEF LoopInv, TypeOK, BadCyclesSlowDown
    <3>3. ResolverTypeOK'
      BY <3>1, ResolverType DEF LoopInv, TypeOK
    <3>4. due' \in BOOLEAN /\ stopping' \in BOOLEAN /\ aborted' \in BOOLEAN
      BY <3>1, Zenon DEF LoopInv, TypeOK
    <3>5. TypeOK'
      BY <1>1, <3>1, <3>2, <3>3, <3>4 DEF LoopInv, TypeOK, Places, Polling, Statuses
    <3>6. Fresh' /\ Telling' /\ ReportsProven'
      BY <1>1, <3>1 DEF LoopInv, Fresh, Telling, Polling, Starting, ReportsProven
    <3>7. RejectedStaysOut'
      BY <1>1, <3>1, PassRejected DEF LoopInv
    <3> QED
      BY <3>2, <3>5, <3>6, <3>7 DEF LoopInv
  <2> QED
    BY <2>1, <2>2
<1>2. CASE Fallback
  <2>1. fellBack' \subseteq Builds
    BY <1>2 DEF LoopInv, Fallback, TypeOK, ResolverTypeOK, ReportsProven
  <2> QED
    BY <1>1, <1>2, <2>1 DEF Fallback, Outcomes
<1>3. CASE QueryFails
  <2>1. fellBack' \subseteq Builds
    BY <1>3 DEF LoopInv, QueryFails, TypeOK
  <2> QED
    BY <1>1, <1>3, <2>1 DEF QueryFails, Outcomes
<1>5. CASE BoundFails
  <2>1. outcome' \in Outcomes /\ fellBack' \subseteq Builds
    BY <1>5 DEF LoopInv, BoundFails, TypeOK, history
  <2> QED
    BY <1>1, <1>5, <2>1 DEF BoundFails, history
<1>4. CASE Reported
  <2>1. CASE aborted
    <3>1. UNCHANGED <<status, bad, due, stopping, aborted, resolverVars, history>>
      BY <1>4, <2>1 DEF Reported
    <3>2. at = "reporting" /\ at' = "ended" /\ backoff' = 1
      BY <1>4, <2>1 DEF Reported
    <3>3. TypeOK'
      BY <3>1, <3>2, ResolverType
         DEF LoopInv, TypeOK, Places, MaxBackoff, history
    <3>4. Fresh' /\ Telling' /\ ReportsProven' /\ BadCyclesSlowDown'
      BY <2>1, <3>1, <3>2 DEF LoopInv, Fresh, Telling, Polling, Starting, ReportsProven,
         BadCyclesSlowDown
    <3>5. RejectedStaysOut'
      BY <3>1, AdoptRejected DEF LoopInv, TypeOK, history
    <3> QED
      BY <3>3, <3>4, <3>5 DEF LoopInv
  <2>2. CASE ~aborted
    <3>1. /\ at = "reporting" /\ at' \in {"discovering", "waiting"}
          /\ PassResult(TRUE)
          /\ backoff' = 1 /\ bad' = 0 /\ status' = "ok"
          /\ due' \in {due, FALSE}
          /\ UNCHANGED <<stopping, aborted, history>>
      BY <1>4, <2>2 DEF Reported, AfterPass
    <3>2. ResolverTypeOK'
      BY <3>1, ResolverType DEF LoopInv, TypeOK
    <3>3. due' \in BOOLEAN /\ stopping' \in BOOLEAN /\ aborted' \in BOOLEAN
      BY <3>1, Zenon DEF LoopInv, TypeOK
    <3>4. TypeOK'
      BY <3>1, <3>2, <3>3 DEF LoopInv, TypeOK, Places, Polling, Statuses, MaxBackoff,
         PauseAfterBadCycles, history
    <3>5. Fresh' /\ Telling' /\ ReportsProven' /\ BadCyclesSlowDown'
      BY <3>1 DEF LoopInv, Fresh, Telling, Polling, Starting, ReportsProven,
         BadCyclesSlowDown
    <3>6. RejectedStaysOut'
      BY <3>1, PassRejected DEF LoopInv, ReportsProven, history
    <3> QED
      BY <3>4, <3>5, <3>6 DEF LoopInv
  <2> QED
    BY <2>1, <2>2
<1> QED
  BY <1>2, <1>3, <1>4, <1>5

\* The other ends of a request.
LEMMA RequestInv ==
  ASSUME LoopInv, QueryReal \/ FailForGood
  PROVE  LoopInv'
<1>1. CASE QueryReal
  <2>1. active \in Builds
    BY <1>1 DEF LoopInv, QueryReal, TypeOK, ResolverTypeOK, ReportsProven
  <2>2. LoopTypeOK' /\ ResolverTypeOK'
    BY <1>1, GotoType, ResolverType DEF LoopInv, QueryReal, TypeOK, Places, Polling
  <2>3. TypeOK'
    BY <1>1, <2>1, <2>2 DEF LoopInv, QueryReal, TypeOK, LoopTypeOK, Outcomes
  <2>4. Fresh' /\ Telling' /\ ReportsProven' /\ BadCyclesSlowDown'
    BY <1>1 DEF LoopInv, QueryReal, Goto, resolverVars, memory, Fresh, Telling, Polling,
       Starting, ReportsProven, BadCyclesSlowDown
  <2>5. RejectedStaysOut'
    BY <1>1 DEF LoopInv, QueryReal, resolverVars, memory, outside, RejectedStaysOut
  <2> QED
    BY <2>3, <2>4, <2>5 DEF LoopInv
<1>2. CASE FailForGood
  <2>1. at' = "ended" /\ status' = "error" /\ aborted' = TRUE
    BY <1>2 DEF FailForGood, Fatal
  <2>2. UNCHANGED <<stopping, backoff, bad, due, resolverVars, history>>
    BY <1>2 DEF FailForGood, Fatal
  <2>3. TypeOK'
    BY <2>1, <2>2, ResolverType DEF LoopInv, TypeOK, Places, Statuses, history
  <2>4. Fresh' /\ Telling' /\ ReportsProven' /\ BadCyclesSlowDown'
    BY <2>1, <2>2 DEF LoopInv, Fresh, Telling, Polling, Starting, ReportsProven,
       BadCyclesSlowDown
  <2>5. RejectedStaysOut'
    BY <2>2, AdoptRejected DEF LoopInv, TypeOK, history
  <2> QED
    BY <2>3, <2>4, <2>5 DEF LoopInv
<1> QED
  BY <1>1, <1>2

\* What happens beside the loop.
LEMMA BesideInv ==
  ASSUME LoopInv, Terminate \/ RefreshDue \/ Publish \/ Write
  PROVE  LoopInv'
<1>1. CASE Terminate
  <2>1. TypeOK'
    BY <1>1, ResolverType DEF LoopInv, Terminate, TypeOK, history
  <2>2. Fresh' /\ Telling' /\ ReportsProven' /\ BadCyclesSlowDown'
    BY <1>1 DEF LoopInv, Terminate, resolverVars, memory, history, Fresh, Telling, Polling,
       Starting, ReportsProven, BadCyclesSlowDown
  <2>3. RejectedStaysOut'
    BY <1>1, AdoptRejected DEF LoopInv, TypeOK, Terminate, history
  <2> QED
    BY <2>1, <2>2, <2>3 DEF LoopInv
<1>2. CASE RefreshDue
  <2>1. TypeOK'
    BY <1>2, ResolverType DEF LoopInv, RefreshDue, TypeOK, history
  <2>2. Fresh' /\ Telling' /\ ReportsProven' /\ BadCyclesSlowDown'
    BY <1>2 DEF LoopInv, RefreshDue, resolverVars, memory, history, Fresh, Telling,
       Polling, Starting, ReportsProven, BadCyclesSlowDown
  <2>3. RejectedStaysOut'
    BY <1>2, AdoptRejected DEF LoopInv, TypeOK, RefreshDue, history
  <2> QED
    BY <2>1, <2>2, <2>3 DEF LoopInv
<1>3. CASE Publish \/ Write
  <2>1. ResolverTypeOK'
    BY <1>3, ResolverType DEF LoopInv, TypeOK, Publish, Write
  <2>2. UNCHANGED <<active, candidate, verified, lastWorking, rejected, loopVars, history>>
    BY <1>3 DEF Publish, Write, PublishBuild, WriteEnds, memory
  <2>3. TypeOK'
    BY <2>1, <2>2 DEF LoopInv, TypeOK, loopVars, history
  <2>4. /\ Fresh' /\ Telling' /\ ReportsProven' /\ RejectedStaysOut'
        /\ BadCyclesSlowDown'
    BY <2>2 DEF LoopInv, loopVars, history, Fresh, Telling, Polling, Starting,
       ReportsProven, RejectedStaysOut, BadCyclesSlowDown
  <2> QED
    BY <2>3, <2>4 DEF LoopInv
<1> QED
  BY <1>1, <1>2, <1>3

LEMMA NextLoopInv == LoopInv /\ [Next]_vars => LoopInv'
<1> SUFFICES ASSUME LoopInv, [Next]_vars PROVE LoopInv'
  OBVIOUS
<1>1. CASE Crash \/ Exit
  BY <1>1, OffInv DEF Crash, Exit, LoopInv
<1>2. CASE Launch \/ Assigned \/ Resolved \/ Unresolved
  BY <1>2, StartInv
<1>3. CASE Poll
  BY <1>3, WaitInv, PassInv, RequestInv DEF Poll
<1>4. CASE Terminate \/ RefreshDue \/ Publish \/ Write
  BY <1>4, BesideInv
<1>5. CASE UNCHANGED vars
  BY <1>5 DEF vars, resolverVars, memory, outside, loopVars, history, LoopInv, TypeOK,
     ResolverTypeOK, Fresh, Telling, ReportsProven, RejectedStaysOut, BadCyclesSlowDown
<1> QED
  BY <1>1, <1>2, <1>3, <1>4, <1>5 DEF Next

-----------------------------------------------------------------------------
(* Where builds come from, and what a build on trial may be given up for.   *)

LEMMA InitInv == Init => IInv
<1>1. Init => Origins /\ Unchallenged
  BY DEF Init, ResolverInit, Origins, Unchallenged, NoBuild
<1> QED
  BY <1>1, InitLoopInv DEF IInv

\* A pass, however it ends, leaves a build on trial only where there is nothing to go
\* back to.
LEMMA PassOrigins ==
  ASSUME IInv, NEW gotReal \in BOOLEAN, PassResult(gotReal), brought' = brought,
         gotReal => active = brought
  PROVE  Origins' /\ Unchallenged'
<1>1. ResolverTypeOK /\ brought \in Builds \cup {NoBuild}
  BY DEF IInv, LoopInv, TypeOK
<1>2. CASE OnTrial /\ gotReal
  <2>1. /\ active' = active /\ candidate' = active /\ lastWorking' = active /\ verified'
        /\ brought' = active
    BY <1>2 DEF PassResult, Confirm, OnTrial, outside
  <2>2. active \in Nat
    BY <1>1 DEF ResolverTypeOK, Builds, NoBuild
  <2> QED
    BY <2>1, <2>2 DEF Origins, Unchallenged, OnTrial
<1>3. CASE OnTrial /\ ~gotReal /\ lastWorking \notin {NoBuild, active}
  <2>1. active' = lastWorking /\ UNCHANGED <<candidate, lastWorking, brought>>
    BY <1>3 DEF PassResult, Revert, outside
  <2> QED
    BY <2>1 DEF IInv, Origins, Unchallenged
<1>4. CASE ~(OnTrial /\ gotReal) /\ (OnTrial => lastWorking \in {NoBuild, active})
  <2>1. UNCHANGED <<active, candidate, verified, lastWorking, brought>>
    BY <1>4 DEF PassResult, resolverVars, memory
  <2> QED
    BY <1>4, <2>1 DEF IInv, Origins, Unchallenged, OnTrial
<1> QED
  BY <1>2, <1>3, <1>4

\* A build adopted is newer than what was tried, unless it is the one to fall back to.
LEMMA AdoptOrigins ==
  ASSUME IInv, Worthwhile(published), Adopt(published), brought' = brought
  PROVE  Origins' /\ Unchallenged'
<1>1. /\ candidate' = published /\ active' = published
      /\ UNCHANGED <<lastWorking, brought>>
      /\ published > candidate
  BY DEF Adopt, Worthwhile
<1>2. {published, candidate, brought} \subseteq Nat
  BY DEF IInv, LoopInv, TypeOK, ResolverTypeOK, Builds, NoBuild
<1>3. brought <= candidate \/ brought = lastWorking
  BY DEF IInv, Origins
<1>4. Origins'
  BY <1>1, <1>2, <1>3 DEF Origins
<1>5. Unchallenged'
  BY <1>1, <1>2, <1>3 DEF Unchallenged
<1> QED
  BY <1>4, <1>5

LEMMA OriginsStep ==
  ASSUME IInv, [Next]_vars
  PROVE  Origins' /\ Unchallenged'
<1>1. CASE Crash \/ Exit
  <2>1. active' = NoBuild /\ candidate' = NoBuild /\ brought' = NoBuild
    BY <1>1 DEF Crash, Exit, Off, ForgetMemory
  <2> QED
    BY <2>1 DEF Origins, Unchallenged, OnTrial, NoBuild
<1>2. CASE Assigned
  <2>1. active' = NoBuild /\ candidate' = NoBuild /\ brought' = NoBuild
    BY <1>2 DEF Assigned, ReadState, history, IInv, LoopInv, Fresh, Starting
  <2> QED
    BY <2>1 DEF Origins, Unchallenged, OnTrial, NoBuild
<1>3. CASE Resolved /\ InitWithout
  <2>1. active' = lastWorking' /\ candidate' = NoBuild /\ brought' = NoBuild
    BY <1>3 DEF Resolved, InitWithout, history, IInv, LoopInv, Fresh, Starting
  <2> QED
    BY <2>1 DEF Origins, Unchallenged, OnTrial, NoBuild
<1>4. CASE (Resolved \/ Rediscover \/ Discover) /\ Worthwhile(published) /\ Adopt(published)
  BY <1>4, AdoptOrigins DEF Resolved, Rediscover, Discover, history
<1>5. CASE (Fallback \/ QueryFails \/ BoundFails) /\ PassResult(FALSE)
  BY <1>5, PassOrigins DEF Fallback, QueryFails, BoundFails, history
<1>6. CASE Reported /\ PassResult(TRUE)
  BY <1>6, PassOrigins DEF Reported, history, IInv, LoopInv, ReportsProven
<1>7. CASE QueryReal
  <2>1. /\ at' = "reporting" /\ brought' = active
        /\ UNCHANGED <<active, candidate, lastWorking>>
    BY <1>7 DEF QueryReal, Goto, resolverVars, memory
  <2>2. active # NoBuild /\ {active, candidate} \subseteq Nat
    BY <1>7 DEF QueryReal, IInv, LoopInv, TypeOK, ResolverTypeOK, ReportsProven, Builds,
       NoBuild
  <2> QED
    BY <2>1, <2>2 DEF IInv, Origins, Unchallenged
<1>8. CASE /\ UNCHANGED <<active, candidate, verified, lastWorking, brought>>
           /\ at' \in {at, "ended"} \/ at \notin {"reporting", "ended"}
  BY <1>8 DEF IInv, Origins, Unchallenged, OnTrial
<1>9. CASE \/ Fallback /\ ~PassResult(FALSE)
           \/ QueryFails /\ ~PassResult(FALSE)
           \/ BoundFails /\ ~PassResult(FALSE)
           \/ Reported /\ ~PassResult(TRUE)
  <2>1. at' = "ended" /\ UNCHANGED <<resolverVars, brought>>
    BY <1>9 DEF Fallback, QueryFails, BoundFails, Reported, PassWithout, history
  <2> QED
    BY <1>8, <2>1 DEF resolverVars, memory
<1>10. CASE (Resolved \/ Rediscover \/ Discover) /\ ~(Worthwhile(published) /\ Adopt(published))
            /\ ~(Resolved /\ InitWithout)
  <2>1. UNCHANGED <<resolverVars, brought>>
    BY <1>10 DEF Resolved, Rediscover, Discover, Adopt, history
  <2>2. at \notin {"reporting", "ended"}
    BY <1>10 DEF Resolved, Rediscover, Discover
  <2> QED
    BY <1>8, <2>1, <2>2 DEF resolverVars, memory
<1>11. CASE \/ Launch \/ Unresolved \/ Wake \/ PauseOver \/ FailForGood \/ Terminate
            \/ RefreshDue \/ Publish \/ Write \/ UNCHANGED vars
  <2>1. UNCHANGED <<active, candidate, verified, lastWorking, brought>>
    BY <1>11 DEF Launch, Unresolved, Wake, PauseOver, FailForGood, Terminate, RefreshDue,
       Publish, PublishBuild, Write, WriteEnds, vars, resolverVars, memory, history
  <2>2. at' \in {at, "ended"} \/ at \notin {"reporting", "ended"}
    BY <1>11 DEF Launch, Unresolved, Wake, PauseOver, FailForGood, Fatal, Terminate,
       RefreshDue, Publish, Write, vars, loopVars
  <2> QED
    BY <1>8, <2>1, <2>2
<1> QED
  BY <1>1, <1>2, <1>3, <1>4, <1>5, <1>6, <1>7, <1>9, <1>10, <1>11 DEF Next, Poll

LEMMA NextInv == IInv /\ [Next]_vars => IInv'
BY NextLoopInv, OriginsStep DEF IInv

LEMMA PollerInv == Spec => []IInv
<1>1. Init => IInv
  BY InitInv
<1>2. IInv /\ [Next]_vars => IInv'
  BY NextInv
<1> QED
  BY <1>1, <1>2, PTL DEF Spec

-----------------------------------------------------------------------------
\* Type correctness of the resolver and the loop, for any number of builds.
THEOREM PollerTypeOK == Spec => []TypeOK
<1>1. IInv => TypeOK
  BY DEF IInv, LoopInv
<1> QED
  BY <1>1, PollerInv, PTL

\* The health endpoint says 503 exactly when the loop has stopped for good.
THEOREM PollerHealthTellsTruth == Spec => []HealthTellsTruth
<1>1. IInv => HealthTellsTruth
  BY DEF IInv, LoopInv, Telling, HealthTellsTruth, Polling
<1> QED
  BY <1>1, PollerInv, PTL

\* A build that was given up is not presented again by the same process.
THEOREM PollerRejectedStaysOut == Spec => []RejectedStaysOut
<1>1. IInv => RejectedStaysOut
  BY DEF IInv, LoopInv
<1> QED
  BY <1>1, PollerInv, PTL

\* Passes that bring nothing slow the agent down, whatever their errors were.
THEOREM PollerSlowsDown == Spec => []BadCyclesSlowDown
<1>1. IInv => BadCyclesSlowDown
  BY DEF IInv, LoopInv
<1> QED
  BY <1>1, PollerInv, PTL

-----------------------------------------------------------------------------
(***************************************************************************)
(* The refinement of BuildTrial.                                           *)
(***************************************************************************)

\* Whether the data of a pass is on its way.
AtReport == at = "reporting"

\* What is mapped is the resolver's, what brought data, and where a report is.
LEMMA TrialUnmoved ==
  ASSUME UNCHANGED <<resolverVars, answered, brought, AtReport>>
  PROVE  UNCHANGED Trial!vars
  BY DEF resolverVars, memory, outside, Trial!vars, OnTrial, FallBacks, AtReport

\* A report that is over without a decision.
LEMMA TrialPassEnds ==
  ASSUME UNCHANGED <<resolverVars, answered, brought>>, ~AtReport'
  PROVE  [Trial!Next]_(Trial!vars)
<1>1. CASE AtReport
  <2>1. Trial!EndPass
    BY <1>1 DEF resolverVars, memory, outside, Trial!EndPass, OnTrial, FallBacks, AtReport
  <2> QED
    BY <2>1 DEF Trial!Next
<1>2. CASE ~AtReport
  <2>1. UNCHANGED AtReport
    BY <1>2 DEF AtReport
  <2> QED
    BY <2>1, TrialUnmoved
<1> QED
  BY <1>1, <1>2

\* A build adopted from the depot is tried, and was not before.
LEMMA AdoptTries ==
  ASSUME ResolverTypeOK, Adopt(published), UNCHANGED <<answered, brought, AtReport>>
  PROVE  [Trial!Next]_(Trial!vars)
<1>1. CASE Worthwhile(published)
  <2>1. /\ active' = published /\ candidate' = published /\ published > candidate
        /\ ~verified'
        /\ UNCHANGED <<lastWorking, disk, writing>>
    BY <1>1 DEF Adopt, Worthwhile, outside
  <2>2. published # NoBuild
    BY DEF ResolverTypeOK, Builds, NoBuild
  <2>3. Trial!Try
    BY <2>1, <2>2 DEF Trial!Try, OnTrial, FallBacks, AtReport
  <2> QED
    BY <2>3 DEF Trial!Next
<1>2. CASE ~Worthwhile(published)
  BY <1>2, TrialUnmoved DEF Adopt
<1> QED
  BY <1>1, <1>2

\* Before anything was tried, the process begins with what it kept, if anything.
LEMMA InitResumes ==
  ASSUME active = NoBuild, candidate = NoBuild, InitWithout,
         UNCHANGED <<answered, brought, AtReport>>
  PROVE  [Trial!Next]_(Trial!vars)
<1>1. active' = lastWorking
      /\ UNCHANGED <<candidate, verified, lastWorking, rejected, writing, published, disk>>
  BY DEF InitWithout, outside
<1>2. OnTrial' = OnTrial /\ FallBacks' = FallBacks
  BY <1>1 DEF OnTrial, FallBacks
<1>3. CASE lastWorking = NoBuild
  BY <1>1, <1>2, <1>3 DEF Trial!vars, AtReport
<1>4. CASE lastWorking # NoBuild
  <2>1. lastWorking \in FallBacks
    BY <1>4 DEF FallBacks
  <2>2. Trial!Resume
    BY <1>1, <1>2, <2>1 DEF Trial!Resume, Trial!None, NoBuild, AtReport
  <2> QED
    BY <2>2 DEF Trial!Next
<1> QED
  BY <1>3, <1>4

\* The end of a pass confirms the build that brought its data, gives one up that brought
\* none or whose report went wrong, or decides nothing.
LEMMA PassDecides ==
  ASSUME NEW gotReal \in BOOLEAN, PassResult(gotReal), Unchallenged, at # "ended",
         gotReal => AtReport /\ active = brought,
         UNCHANGED <<answered, brought>>, ~AtReport'
  PROVE  [Trial!Next]_(Trial!vars)
<1>1. CASE OnTrial /\ gotReal
  <2>1. Confirm
    BY <1>1 DEF PassResult
  <2>2. /\ active # NoBuild /\ active = candidate
        /\ verified' /\ lastWorking' = active /\ writing' = writing \cup {active}
        /\ UNCHANGED <<active, candidate, disk>>
    BY <1>1, <2>1 DEF OnTrial, Confirm, outside
  <2>3. active \in FallBacks' /\ FallBacks' \subseteq FallBacks \cup {active}
    BY <2>2 DEF FallBacks
  <2>4. ~OnTrial'
    BY <2>2 DEF OnTrial
  <2>5. Trial!Confirm
    BY <1>1, <2>2, <2>3, <2>4 DEF Trial!Confirm, AtReport
  <2> QED
    BY <2>5 DEF Trial!Next
<1>2. CASE OnTrial /\ ~gotReal /\ lastWorking \notin {NoBuild, active}
  <2>1. Revert
    BY <1>2 DEF PassResult
  <2>2. /\ active = candidate /\ active' = lastWorking /\ lastWorking # active
        /\ UNCHANGED <<candidate, lastWorking, writing, disk>>
    BY <1>2, <2>1 DEF OnTrial, Revert, outside
  <2>3. FallBacks' = FallBacks /\ active' \in FallBacks \ {active}
    BY <1>2, <2>2 DEF FallBacks
  <2>4. ~OnTrial'
    BY <2>2 DEF OnTrial
  <2>5. active = brought => AtReport
    BY <1>2 DEF Unchallenged, AtReport
  <2>6. Trial!GiveUp
    BY <1>2, <2>2, <2>3, <2>4, <2>5 DEF Trial!GiveUp, AtReport
  <2> QED
    BY <2>6 DEF Trial!Next
<1>3. CASE ~(OnTrial /\ gotReal) /\ ~(OnTrial /\ ~gotReal /\ lastWorking \notin {NoBuild, active})
  BY <1>3, TrialPassEnds DEF PassResult
<1> QED
  BY <1>1, <1>2, <1>3

\* A process that ends forgets what it had yet to write.
LEMMA OffRestarts ==
  ASSUME Off
  PROVE  [Trial!Next]_(Trial!vars)
<1>1. /\ active' = NoBuild /\ candidate' = NoBuild /\ lastWorking' = NoBuild
      /\ writing' = {} /\ disk' = disk /\ answered' = answered
      /\ brought' = NoBuild /\ at' = "off"
  BY DEF Off, ForgetMemory, outside
<1>2. ~OnTrial' /\ FallBacks' \subseteq FallBacks
  BY <1>1 DEF OnTrial, FallBacks
<1>3. Trial!Restart
  BY <1>1, <1>2 DEF Trial!Restart, Trial!None, NoBuild
<1> QED
  BY <1>3 DEF Trial!Next

\* Every step of the agent is a step of BuildTrial, or none.
LEMMA TrialStep ==
  ASSUME IInv, [Next]_vars
  PROVE  [Trial!Next]_(Trial!vars)
<1>1. CASE Crash \/ Exit
  BY <1>1, OffRestarts DEF Crash, Exit
<1>2. CASE Assigned
  <2>1. FallBacks' \subseteq FallBacks /\ OnTrial' = OnTrial
    BY <1>2 DEF Assigned, ReadState, outside, FallBacks, OnTrial
  <2>2. Trial!Lose
    BY <1>2, <2>1 DEF Assigned, Goto, ReadState, history, Trial!Lose
  <2> QED
    BY <2>2 DEF Trial!Next
<1>3. CASE Resolved
  <2>1. active = NoBuild /\ candidate = NoBuild /\ ResolverTypeOK
    BY <1>3 DEF IInv, LoopInv, TypeOK, Resolved, Fresh, Starting
  <2>2. UNCHANGED <<answered, brought, AtReport>>
    BY <1>3 DEF Resolved, Start, Goto, Loop, history, AtReport
  <2> QED
    BY <1>3, <2>1, <2>2, AdoptTries, InitResumes DEF Resolved
<1>4. CASE Rediscover \/ Discover
  <2>1. UNCHANGED <<answered, brought, AtReport>>
    BY <1>4 DEF Rediscover, Discover, Goto, Loop, history, AtReport
  <2> QED
    BY <1>4, <2>1, AdoptTries, TrialUnmoved
       DEF Rediscover, Discover, IInv, LoopInv, TypeOK
<1>5. CASE Fallback \/ QueryFails \/ BoundFails \/ Reported
  <2>1. /\ at # "ended" /\ ~AtReport'
        /\ UNCHANGED <<answered, brought>>
    BY <1>5 DEF Fallback, QueryFails, BoundFails, Reported, PassWithout, AfterPass, history,
       AtReport
  <2>2. CASE PassResult(FALSE)
    BY <2>1, <2>2, PassDecides DEF IInv
  <2>3. CASE Reported /\ PassResult(TRUE)
    <3>1. AtReport /\ active = brought
      BY <2>3 DEF Reported, IInv, LoopInv, ReportsProven, AtReport
    <3> QED
      BY <2>1, <2>3, <3>1, PassDecides DEF IInv
  <2>4. CASE UNCHANGED resolverVars
    BY <2>1, <2>4, TrialPassEnds
  <2> QED
    BY <1>5, <2>2, <2>3, <2>4 DEF Fallback, QueryFails, BoundFails, Reported, PassWithout
<1>6. CASE FailForGood
  <2>1. UNCHANGED <<resolverVars, answered, brought>> /\ ~AtReport'
    BY <1>6 DEF FailForGood, Fatal, history, AtReport
  <2> QED
    BY <2>1, TrialPassEnds
<1>7. CASE QueryReal
  <2>1. active # NoBuild
    BY <1>7 DEF IInv, LoopInv, ReportsProven, QueryReal
  <2>2. UNCHANGED <<active, candidate, OnTrial, FallBacks>>
    BY <1>7 DEF QueryReal, resolverVars, memory, outside, OnTrial, FallBacks
  <2>3. Trial!BringData
    BY <1>7, <2>1, <2>2 DEF QueryReal, Goto, Trial!BringData, Trial!None, NoBuild
  <2> QED
    BY <2>3 DEF Trial!Next
<1>8. CASE Write
  <2>1. FallBacks' \subseteq FallBacks /\ OnTrial' = OnTrial
    BY <1>8 DEF Write, WriteEnds, FallBacks, OnTrial
  <2>2. Trial!Lose
    BY <1>8, <2>1 DEF Write, WriteEnds, loopVars, history, Trial!Lose
  <2> QED
    BY <2>2 DEF Trial!Next
<1>9. CASE Publish
  BY <1>9 DEF Publish, PublishBuild, memory, loopVars, history, Trial!vars, OnTrial, FallBacks
<1>10. CASE \/ Launch \/ Unresolved \/ Wake \/ PauseOver \/ Terminate
            \/ RefreshDue \/ UNCHANGED vars
  <2>1. UNCHANGED <<resolverVars, answered, brought, AtReport>>
    BY <1>10 DEF Launch, Unresolved, Wake, PauseOver, Goto, Loop, Terminate, RefreshDue,
       vars, loopVars, history, AtReport
  <2> QED
    BY <2>1, TrialUnmoved
<1> QED
  BY <1>1, <1>2, <1>3, <1>4, <1>5, <1>6, <1>7, <1>8, <1>9, <1>10 DEF Next, Poll

\* The agent implements BuildTrial: every build is tried once in a process, given up for
\* a proven one only, and not once it has brought the process data, but in that very
\* pass; one that is confirmed is left for a newer one only.
THEOREM PollerTriesBuildsOnce == Spec => TriesBuildsOnce
<1>1. Init => Trial!Init
  BY DEF Init, ResolverInit, Trial!Init, Trial!None, NoBuild, OnTrial, FallBacks
<1>2. IInv /\ [Next]_vars => [Trial!Next]_(Trial!vars)
  BY TrialStep
<1> QED
  BY <1>1, <1>2, PollerInv, PTL DEF Spec, TriesBuildsOnce, Trial!Spec

\* Only what brought data is kept, and what is being reported brought some, whoever
\* implements BuildTrial.
TrialKept == Trial!KeptIsProven /\ (AtReport => brought \in answered)

LEMMA TrialKeepsProven == Trial!Spec => []Trial!KeptIsProven
<1>1. Trial!Init => TrialKept
  BY DEF Trial!Init, Trial!KeptIsProven, TrialKept, AtReport
<1>2. TrialKept /\ [Trial!Next]_(Trial!vars) => TrialKept'
  <2> SUFFICES ASSUME TrialKept, [Trial!Next]_(Trial!vars)
               PROVE  TrialKept'
    OBVIOUS
  <2> USE DEF TrialKept, Trial!KeptIsProven, AtReport
  <2>1. CASE Trial!Confirm
    BY <2>1 DEF Trial!Confirm
  <2>2. CASE Trial!BringData
    BY <2>2 DEF Trial!BringData
  <2>3. CASE \/ Trial!Try \/ Trial!Resume \/ Trial!GiveUp \/ Trial!EndPass \/ Trial!Lose
             \/ Trial!Restart
    BY <2>3 DEF Trial!Try, Trial!Resume, Trial!GiveUp, Trial!EndPass, Trial!Lose,
       Trial!Restart
  <2>4. CASE UNCHANGED Trial!vars
    BY <2>4 DEF Trial!vars
  <2> QED
    BY <2>1, <2>2, <2>3, <2>4 DEF Trial!Next
<1>3. TrialKept => Trial!KeptIsProven
  BY DEF TrialKept
<1> QED
  BY <1>1, <1>2, <1>3, PTL DEF Trial!Spec

\* The agent only ever falls back to a build that brought real data.
THEOREM PollerFallsBackOnProven == Spec => []FallsBackOnProven
<1>1. Trial!KeptIsProven <=> FallsBackOnProven
  BY DEF Trial!KeptIsProven, FallsBackOnProven
<1> QED
  BY <1>1, PollerTriesBuildsOnce, TrialKeepsProven, PTL DEF TriesBuildsOnce

\* The agent does not go back from a build that was confirmed, nor try again the one it
\* has given up, whatever its passes bring: it goes on to a newer one, or ends.
THEOREM PollerSettledStays == Spec => Trial!SettledStays
<1>1. [Trial!Next]_(Trial!vars)
        => [active # NoBuild /\ ~OnTrial /\ active' # active
              => active' > candidate \/ active' = NoBuild]_(Trial!vars)
  BY DEF Trial!Next, Trial!Try, Trial!Resume, Trial!BringData, Trial!Confirm,
     Trial!GiveUp, Trial!EndPass, Trial!Lose, Trial!Restart, Trial!None, NoBuild
<1> QED
  BY <1>1, PollerTriesBuildsOnce, PTL DEF TriesBuildsOnce, Trial!Spec, Trial!SettledStays,
     Trial!None, NoBuild

-----------------------------------------------------------------------------
(***************************************************************************)
(* SteamSession.  Its safety rests on one inductive invariant: the flag    *)
(* busy is up exactly while Steam is being asked something, there is a     *)
(* connection then, and a process that was shut down has nothing left that *)
(* could run.                                                              *)
(***************************************************************************)

\* Where the loop waits decides the flags and what there is of a connection.
Flags ==
  /\ busy <=> pc \in AtSteam
  /\ stopped <=> pc \in {"halted", "ended"}
  /\ conn = "opening" <=> pc = "connect"
  /\ pc \in AtSteam => conn \in {"opening", "open", "dead"}

Ages ==
  /\ ticket \subseteq {0, 1}
  /\ mode = "steam" => key \subseteq {0, 1}

SteamIInv == SteamIsTyped /\ Flags /\ Ages /\ LoggedOffOnceStopped

LEMMA InitEstablishesSteamIInv == SteamInit => SteamIInv
<1> SUFFICES ASSUME SteamInit PROVE SteamIInv
  OBVIOUS
<1>1. SteamIsTyped
  <2>1. key \in SUBSET Nat
    BY DEF SteamInit
  <2>2. pc \in {"idle", "halted", "ended"} \cup Waiting
    BY DEF SteamInit
  <2> QED  BY <2>1, <2>2 DEF SteamInit, SteamIsTyped
<1>2. Flags
  BY DEF SteamInit, Flags, AtSteam
<1>3. Ages
  BY DEF SteamInit, Ages
<1>4. LoggedOffOnceStopped
  BY DEF SteamInit, LoggedOffOnceStopped
<1> QED  BY <1>1, <1>2, <1>3, <1>4 DEF SteamIInv

-----------------------------------------------------------------------------
\* The request under way fails, and nothing is left of it.
LEMMA FailPreservesSteamIInv ==
  ASSUME SteamIInv, pc \in Waiting, Fail,
         conn' \in {conn, "failed"}, conn' = "opening" => conn = "opening" /\ pc # "connect"
  PROVE  SteamIInv'
<1>1. SteamIsTyped'
  BY DEF SteamIInv, SteamIsTyped, Fail
<1>2. Flags'
  BY DEF SteamIInv, SteamIsTyped, Flags, Fail, Waiting, AtSteam
<1>3. Ages'
  BY DEF SteamIInv, Ages, Fail
<1>4. LoggedOffOnceStopped'
  BY DEF SteamIInv, LoggedOffOnceStopped, Flags, Fail, Waiting, AtSteam
<1> QED  BY <1>1, <1>2, <1>3, <1>4 DEF SteamIInv

\* A fatal error leaves a process that is shut down.
LEMMA HaltPreservesSteamIInv == ASSUME SteamIInv, Halt PROVE SteamIInv'
<1>1. SteamIsTyped'
  BY DEF SteamIInv, SteamIsTyped, Halt, Shutdown
<1>2. Flags'
  BY DEF SteamIInv, SteamIsTyped, Flags, Halt, Shutdown, AtSteam
<1>3. Ages'
  BY DEF SteamIInv, Ages, Halt
<1>4. LoggedOffOnceStopped'
  BY DEF LoggedOffOnceStopped, Halt, Shutdown, Waiting, AtSteam
<1> QED  BY <1>1, <1>2, <1>3, <1>4 DEF SteamIInv

\* What the loop starts, up to its first await.
LEMMA LoopPreservesSteamIInv ==
  ASSUME SteamIInv, DiscoverVersion \/ Fetch \/ PassGate PROVE SteamIInv'
<1> USE DEF SteamIInv, SteamIsTyped, Flags, Ages, LoggedOffOnceStopped, Waiting, AtSteam
<1>1. CASE DiscoverVersion
  <2>1. SteamIsTyped'  BY <1>1 DEF DiscoverVersion, AskSteam, loginVars
  <2>2. Flags'  BY <1>1 DEF DiscoverVersion, AskSteam, loginVars
  <2>3. Ages'  BY <1>1 DEF DiscoverVersion, AskSteam, loginVars
  <2>4. LoggedOffOnceStopped'  BY <1>1 DEF DiscoverVersion, AskSteam, loginVars
  <2> QED  BY <2>1, <2>2, <2>3, <2>4
<1>2. CASE Fetch
  BY <1>2 DEF Fetch, loginVars
<1>3. CASE PassGate
  <2>1. CASE Halt
    BY <2>1, HaltPreservesSteamIInv
  <2>2. CASE key # {} /\ ~Halt
    <3>1. SteamIsTyped'  BY <1>3, <2>2 DEF PassGate, EpicRefuses, Anchored, loginVars
    <3>2. Flags'
      <4>1. UNCHANGED <<busy, stopped, conn>>  BY <1>3, <2>2 DEF PassGate, EpicRefuses
      <4>2. pc = "gate" /\ pc' \in {"call", "anchor"}
        BY <1>3, <2>2 DEF PassGate, EpicRefuses, Anchored
      <4> QED  BY <4>1, <4>2
    <3>3. Ages'  BY <1>3, <2>2 DEF PassGate, EpicRefuses, Anchored, loginVars
    <3>4. LoggedOffOnceStopped'  BY <1>3, <2>2 DEF PassGate, EpicRefuses, Anchored, loginVars
    <3> QED  BY <3>1, <3>2, <3>3, <3>4
  <2>3. CASE key = {} /\ ~Halt
    <3>1. SteamIsTyped'  BY <1>3, <2>3 DEF PassGate, EpicRefuses, AskSteam, loginVars
    <3>2. Flags'  BY <1>3, <2>3 DEF PassGate, EpicRefuses, AskSteam, loginVars
    <3>3. Ages'  BY <1>3, <2>3 DEF PassGate, EpicRefuses, AskSteam, loginVars
    <3>4. LoggedOffOnceStopped'  BY <1>3, <2>3 DEF PassGate, EpicRefuses, AskSteam, loginVars
    <3> QED  BY <3>1, <3>2, <3>3, <3>4
  <2> QED  BY <2>1, <2>2, <2>3
<1> QED  BY <1>1, <1>2, <1>3

\* What Steam and the service answer.
LEMMA AnswerPreservesSteamIInv == ASSUME SteamIInv, Answer PROVE SteamIInv'
<1> USE DEF SteamIInv, SteamIsTyped, Flags, Ages, LoggedOffOnceStopped, Waiting, AtSteam
<1>1. CASE Halt
  BY <1>1, HaltPreservesSteamIInv
<1>2. CASE LoggedOn
  BY <1>2 DEF LoggedOn, ScheduleRefresh, loginVars
<1>3. CASE LogOnFails \/ SteamFails \/ ServiceFails
  <2>1. /\ Fail
        /\ pc \in Waiting
        /\ conn' \in {conn, "failed"}
        /\ conn' = "opening" => conn = "opening" /\ pc # "connect"
    BY <1>3 DEF LogOnFails, SteamFails, ServiceFails
  <2> QED  BY <2>1, FailPreservesSteamIInv
<1>4. CASE TicketIssued
  <2>1. SteamIsTyped'
    <3>1. ticket' \in SUBSET Nat  BY <1>4 DEF TicketIssued
    <3>2. pc' \in Waiting  BY <1>4 DEF TicketIssued, Anchored
    <3>3. busy' \in BOOLEAN  BY <1>4 DEF TicketIssued
    <3> QED  BY <1>4, <3>1, <3>2, <3>3 DEF TicketIssued
  <2>2. Flags'  BY <1>4 DEF TicketIssued, Anchored
  <2>3. Ages'  BY <1>4 DEF TicketIssued, Anchored
  <2>4. LoggedOffOnceStopped'  BY <1>4 DEF TicketIssued, Anchored
  <2> QED  BY <2>1, <2>2, <2>3, <2>4
<1>5. CASE DepotRead
  BY <1>5 DEF DepotRead, Anchored
<1>6. CASE AnchorRead
  BY <1>6 DEF AnchorRead
<1>7. CASE LoginAnswered
  BY <1>7 DEF LoginAnswered, Anchored
<1>8. CASE CallAnswered
  BY <1>8 DEF CallAnswered, loginVars
<1>9. CASE Unauthorized /\ ~Halt
  <2>1. SteamIsTyped'  BY <1>9 DEF Unauthorized, QuickRefused, AskSteam
  <2>2. Flags'  BY <1>9 DEF Unauthorized, QuickRefused, AskSteam
  <2>3. Ages'  BY <1>9 DEF Unauthorized, QuickRefused, AskSteam
  <2>4. LoggedOffOnceStopped'  BY <1>9 DEF Unauthorized, QuickRefused, AskSteam
  <2> QED  BY <2>1, <2>2, <2>3, <2>4
<1> QED
  BY <1>1, <1>2, <1>3, <1>4, <1>5, <1>6, <1>7, <1>8, <1>9
     DEF Answer, GuardAsks, LogOnDenied, DepotDenied, LoginDenied

\* What interleaves with the loop.
LEMMA OtherPreservesSteamIInv ==
  ASSUME SteamIInv, SteamEnds \/ Relogin \/ Postpone \/ Cycle \/ Expire \/ Stop
  PROVE  SteamIInv'
<1> USE DEF SteamIInv, SteamIsTyped, Flags, Ages, LoggedOffOnceStopped, Waiting, AtSteam
<1>1. CASE SteamEnds
  BY <1>1 DEF SteamEnds, loginVars
<1>2. CASE Relogin
  BY <1>2 DEF Relogin, ScheduleRefresh, loginVars
<1>3. CASE Postpone
  BY <1>3 DEF Postpone, loginVars
<1>4. CASE Cycle
  <2>1. Aged(ticket) \subseteq {0, 1}
    <3>1. \A age \in ticket : age = 0
      BY <1>4 DEF Cycle, EndSession
    <3>2. \A age \in ticket : age + 1 = 1
      BY <3>1
    <3> QED
      BY <3>2, Zenon DEF Aged
  <2> QED  BY <1>4, <2>1 DEF Cycle, EndSession, ScheduleRefresh, DropKey
<1>5. CASE Expire
  BY <1>5 DEF Expire
<1>6. CASE Stop
  BY <1>6 DEF Stop, Shutdown, loginVars
<1> QED  BY <1>1, <1>2, <1>3, <1>4, <1>5, <1>6

LEMMA StutterPreservesSteamIInv == ASSUME SteamIInv, UNCHANGED steamVars PROVE SteamIInv'
BY DEF steamVars, loginVars, SteamIInv, SteamIsTyped, Flags, Ages, LoggedOffOnceStopped, Waiting, AtSteam

\* The invariant holds in every state of every mode.
THEOREM SteamInvariant == SteamSpec => []SteamIInv
<1>1. SteamIInv /\ [SteamNext]_steamVars => SteamIInv'
  BY LoopPreservesSteamIInv, AnswerPreservesSteamIInv, OtherPreservesSteamIInv, StutterPreservesSteamIInv
     DEF SteamNext
<1> QED  BY <1>1, InitEstablishesSteamIInv, PTL DEF SteamSpec

-----------------------------------------------------------------------------
\* The state of the session and of the login is well formed.
THEOREM SteamTypeOK == SteamSpec => []SteamIsTyped
<1>1. SteamIInv => SteamIsTyped
  BY DEF SteamIInv
<1> QED  BY <1>1, SteamInvariant, PTL

\* The one key that outlives its session is that of a login the cycle found under way
\* (steamProvider.ts, the callback and the end of doLogin), and the next cycle drops it.
THEOREM SteamKeyOutlivesOneCycle == SteamSpec => []KeyOutlivesOneCycle
<1>1. SteamIInv => KeyOutlivesOneCycle
  BY DEF SteamIInv, Ages, KeyOutlivesOneCycle
<1> QED  BY <1>1, SteamInvariant, PTL

\* Once polling has stopped for good nothing of the session is left: steamClient.ts's
\* shutdown, called by onFatal and by the signal.
THEOREM SteamLoggedOffOnceStopped == SteamSpec => []LoggedOffOnceStopped
<1>1. SteamIInv => LoggedOffOnceStopped
  BY DEF SteamIInv
<1> QED  BY <1>1, SteamInvariant, PTL

\* refreshSession leaves an operation under way alone: busy covers every await on Steam.
THEOREM SteamCycleSparesOperations == SteamSpec => CycleSparesOperations
<1>1. SteamIInv /\ [SteamNext]_steamVars => [{pc, pc'} \subseteq AtSteam => conn' # "none"]_steamVars
  <2> SUFFICES ASSUME SteamIInv, SteamNext, pc \in AtSteam, pc' \in AtSteam
               PROVE  conn' # "none"
    OBVIOUS
  <2>1. conn # "none" /\ busy
    BY DEF SteamIInv, Flags
  <2> QED
    BY <2>1 DEF SteamNext, DiscoverVersion, Fetch, PassGate, EpicRefuses, Answer, LoggedOn, GuardAsks, LogOnDenied,
       LogOnFails, TicketIssued, DepotRead, DepotDenied, SteamFails, AnchorRead,
       LoginAnswered, LoginDenied, CallAnswered, Unauthorized, QuickRefused, ServiceFails, SteamEnds,
       Relogin, Postpone, Cycle, Expire, Stop, Halt, Fail, AtSteam
<1> QED  BY <1>1, SteamInvariant, PTL DEF SteamSpec, CycleSparesOperations

-----------------------------------------------------------------------------
\* A session has its next cycle scheduled, also one that Steam has ended for good.
SessionIsTimed == conn \in {"open", "dead"} => timer # "off"

\* Once a log-on has succeeded, a cycle that will replace the session lies ahead until
\* polling stops, whatever fails in between: what ServesAgain rests on.
CycleAhead ==
  [][(conn \in {"open", "dead"} \/ timer # "off") => timer' # "off" \/ stopped']_steamVars

LEMMA SteamSessionIsTimed == SteamSpec => []SessionIsTimed
<1>1. SteamInit => SessionIsTimed
  BY DEF SteamInit, SessionIsTimed
<1>2. SteamIInv /\ SessionIsTimed /\ [SteamNext]_steamVars => SessionIsTimed'
  <2> SUFFICES ASSUME SteamIInv, SessionIsTimed, [SteamNext]_steamVars
               PROVE  SessionIsTimed'
    OBVIOUS
  <2>1. stopped => conn = "none"
    BY DEF SteamIInv, LoggedOffOnceStopped
  <2> USE <2>1 DEF SessionIsTimed
  <2>2. CASE DiscoverVersion \/ Fetch \/ PassGate
    BY <2>2 DEF DiscoverVersion, Fetch, PassGate, EpicRefuses, AskSteam, Halt, Shutdown
  <2>3. CASE LoggedOn \/ Relogin \/ Cycle
    BY <2>3 DEF LoggedOn, Relogin, Cycle, EndSession, ScheduleRefresh
  <2>4. CASE \/ GuardAsks \/ LogOnDenied \/ LogOnFails \/ TicketIssued \/ DepotRead
             \/ DepotDenied \/ SteamFails \/ AnchorRead
    BY <2>4 DEF GuardAsks, LogOnDenied, LogOnFails, TicketIssued, DepotRead, DepotDenied,
                SteamFails, AnchorRead, Fail, Halt, Shutdown
  <2>5. CASE LoginAnswered \/ LoginDenied \/ CallAnswered \/ Unauthorized \/ ServiceFails
    BY <2>5 DEF LoginAnswered, LoginDenied, CallAnswered, Unauthorized, QuickRefused,
                AskSteam, ServiceFails, Fail, Halt, Shutdown
  <2>6. CASE SteamEnds \/ Postpone \/ Expire \/ Stop
    BY <2>6 DEF SteamEnds, Postpone, Expire, Stop, Shutdown
  <2>7. CASE UNCHANGED steamVars
    BY <2>7 DEF steamVars
  <2> QED
    BY <2>2, <2>3, <2>4, <2>5, <2>6, <2>7 DEF SteamNext, Answer
<1> QED  BY <1>1, <1>2, SteamInvariant, PTL DEF SteamSpec

\* steamClient.ts: 'loggedOn' schedules the cycle, which schedules itself again, and only
\* shutdown clears the timer.
THEOREM SteamCycleAhead == SteamSpec => CycleAhead
<1>1. SteamIInv /\ SessionIsTimed /\ [SteamNext]_steamVars
        => [(conn \in {"open", "dead"} \/ timer # "off") => timer' # "off" \/ stopped']_steamVars
  <2> SUFFICES ASSUME SteamIInv, SteamNext, timer # "off" PROVE timer' # "off" \/ stopped'
    BY DEF SessionIsTimed
  <2> QED
    BY DEF SteamNext, DiscoverVersion, Fetch, PassGate, EpicRefuses, Answer, LoggedOn,
           GuardAsks, LogOnDenied, LogOnFails, TicketIssued, DepotRead, DepotDenied,
           SteamFails, AnchorRead, LoginAnswered, LoginDenied, CallAnswered, Unauthorized,
           QuickRefused, ServiceFails, SteamEnds, Relogin, Postpone, Cycle, EndSession,
           Expire, Stop, Halt, Shutdown, Fail, ScheduleRefresh
<1> QED  BY <1>1, SteamInvariant, SteamSessionIsTimed, PTL DEF SteamSpec, CycleAhead

=============================================================================
