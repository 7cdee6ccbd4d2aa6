------------------------------ MODULE BuildTrial ------------------------------
(***************************************************************************)
(* What an agent promises about the builds it presents to the game         *)
(* service, without its loop, its errors or its state file.  A process     *)
(* tries newer and newer builds, each of them once.  A build on trial is   *)
(* confirmed with the data it brings, or given up for one that brought     *)
(* some.  A pass that brought data may fail to report it, and then gives   *)
(* up the build as well; after that pass a build that has brought the      *)
(* process data is safe.  One that is confirmed is left for a newer one    *)
(* only.  What is kept to come back to, across restarts as well, may be    *)
(* lost and is always proven.                                              *)
(***************************************************************************)
EXTENDS Integers

VARIABLES
  presented,  \* the build presented, or None
  newest,     \* the newest build this process has tried
  onTrial,    \* the one presented is neither confirmed nor one come back to
  proven,     \* the builds that ever brought data
  useful,     \* the last to bring this process some, or None
  reporting,  \* the data of a pass is on its way
  kept        \* the builds the agent may come back to

vars == <<presented, newest, onTrial, proven, useful, reporting, kept>>

None == 0

Init ==
  /\ presented = None
  /\ newest = None
  /\ onTrial = FALSE
  /\ proven = {}
  /\ useful = None
  /\ reporting = FALSE
  /\ kept = {}

Try ==
  /\ presented' > newest
  /\ newest' = presented'
  /\ onTrial' = TRUE
  /\ UNCHANGED <<proven, useful, reporting, kept>>

\* A process that has not tried anything begins with what it kept.
Resume ==
  /\ presented = None /\ newest = None
  /\ presented' \in kept
  /\ UNCHANGED <<newest, onTrial, proven, useful, reporting, kept>>

BringData ==
  /\ presented # None
  /\ proven' = proven \cup {presented}
  /\ useful' = presented
  /\ reporting' = TRUE
  /\ UNCHANGED <<presented, newest, onTrial, kept>>

Confirm ==
  /\ onTrial /\ reporting /\ presented = useful
  /\ onTrial' = FALSE
  /\ reporting' = FALSE
  /\ presented \in kept' /\ kept' \subseteq kept \cup {presented}
  /\ UNCHANGED <<presented, newest, proven, useful>>

GiveUp ==
  /\ onTrial
  /\ presented = useful => reporting
  /\ presented' \in kept \ {presented}
  /\ onTrial' = FALSE
  /\ reporting' = FALSE
  /\ UNCHANGED <<newest, proven, useful, kept>>

\* A pass ends and decides nothing.
EndPass ==
  /\ reporting
  /\ reporting' = FALSE
  /\ UNCHANGED <<presented, newest, onTrial, proven, useful, kept>>

Lose ==
  /\ kept' \subseteq kept
  /\ UNCHANGED <<presented, newest, onTrial, proven, useful, reporting>>

Restart ==
  /\ presented' = None
  /\ newest' = None
  /\ onTrial' = FALSE
  /\ useful' = None
  /\ reporting' = FALSE
  /\ kept' \subseteq kept
  /\ UNCHANGED proven

Next == Try \/ Resume \/ BringData \/ Confirm \/ GiveUp \/ EndPass \/ Lose \/ Restart

Spec == Init /\ [][Next]_vars

\* Whatever is come back to has brought data.
KeptIsProven == kept \subseteq proven

\* A process that has settled on a build, confirmed or come back to, leaves it only for
\* one newer than all it has tried, or by ending.
SettledStays ==
  [][presented # None /\ ~onTrial /\ presented' # presented
       => presented' > newest \/ presented' = None]_vars

=============================================================================
