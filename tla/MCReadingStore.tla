--------------------------- MODULE MCReadingStore ---------------------------
(***************************************************************************)
(* The store and the limiter in front of it.  They share no variable, and  *)
(* the store takes whatever comes, so a run of one says what a run of both *)
(* would: every behaviour runs one and leaves the other where it began.    *)
(*                                                                         *)
(* The store: one group, two requests in flight, two instants.  Of the     *)
(* three readings two are for the same instant, with different values.     *)
(*                                                                         *)
(* The limiter: two keys, of which it forgets the old one, and the same    *)
(* two requests; the gap may be longer or shorter than the time after      *)
(* which a key is forgotten.                                               *)
(***************************************************************************)
EXTENDS ReadingStore, ReportLimiter, TLC

CONSTANTS a1, g1, win, q1, q2, v1, v2, k1, k2

MCPlatformOf == [g \in {g1} |-> win]

MCReport(at, v, r) == [group |-> g1, at |-> at, value |-> v, refresh |-> r]

MCReports == {MCReport(0, v1, 7), MCReport(1, v1, 0), MCReport(1, v2, 7),
              MCReport(3, v1, 0)}

\* Requests differ in nothing but their identity, and neither do keys.
MCSymmetry == Permutations(RequestIds) \cup Permutations(Keys)

VARIABLE part

MCInit == part \in {"store", "limiter"} /\ Init /\ LimiterInit

MCNext ==
  \/ part = "store" /\ Next /\ UNCHANGED <<part, limiterVars>>
  \/ part = "limiter" /\ LimiterNext /\ UNCHANGED <<part, vars>>

MCSpec == MCInit /\ [][MCNext]_<<part, vars, limiterVars>>

=============================================================================
