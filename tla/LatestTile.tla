----------------------------- MODULE LatestTile -----------------------------
(***************************************************************************)
(* What the hub's reading store promises, without its handlers, locks or   *)
(* database: every (platform, region) group shows at most one tile; while  *)
(* the hub serves, a tile is only ever replaced by a strictly newer        *)
(* reading or dropped; every reading that replaced a tile is owed to the   *)
(* history, which either gets it or loses it for good; and a hub that      *)
(* starts shows the newest tile of the history, or nothing at all.         *)
(***************************************************************************)
EXTENDS Integers

CONSTANTS Groups

VARIABLES
  serving,   \* "up" while the hub answers requests, else "down"
  tiles,     \* the tiles it shows, at most one per group
  owed,      \* tiles shown whose reading has not reached the history yet
  history    \* the readings kept across restarts

vars == <<serving, tiles, owed, history>>

Replace(S, t) == {u \in S : u.group # t.group} \cup {t}

NewerThan(t, S) == \A u \in S : u.group = t.group => u.at < t.at

\* S shows exactly one of the newest readings of every group H knows.
ShowsNewest(S, H) ==
  /\ S \subseteq H
  /\ \A t \in S, u \in H : u.group = t.group => u.at <= t.at
  /\ \A t, u \in S : t.group = u.group => t = u
  /\ \A u \in H : \E t \in S : t.group = u.group

Init ==
  /\ serving = "down"
  /\ tiles = {}
  /\ owed = {}
  /\ history = {}

Accept(t) ==
  /\ serving = "up"
  /\ NewerThan(t, tiles)
  /\ tiles' = Replace(tiles, t)
  /\ owed' = owed \cup {t}
  /\ UNCHANGED <<serving, history>>

\* Two reports may owe the same tile once an eviction came between them, so
\* settling one of them may leave it owed.
Settle(t) ==
  /\ t \in owed
  /\ history' \in {history, history \cup {t}}
  /\ owed' \in {owed, owed \ {t}}
  /\ UNCHANGED <<serving, tiles>>

Drop(g) ==
  /\ tiles' = {t \in tiles : t.group # g}
  /\ UNCHANGED <<serving, owed, history>>

Erase ==
  /\ history' \subseteq history
  /\ UNCHANGED <<serving, tiles, owed>>

Stop ==
  /\ serving' = "down"
  /\ tiles' = {}
  /\ owed' = {}
  /\ UNCHANGED history

Start ==
  /\ serving = "down"
  /\ serving' = "up"
  /\ tiles' = {} \/ ShowsNewest(tiles', history)
  /\ UNCHANGED <<owed, history>>

Next ==
  \/ \E t \in tiles' : Accept(t)
  \/ \E t \in owed : Settle(t)
  \/ \E g \in Groups : Drop(g)
  \/ Erase
  \/ Stop
  \/ Start

Spec == Init /\ [][Next]_vars

=============================================================================
