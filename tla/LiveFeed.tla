------------------------------- MODULE LiveFeed -------------------------------
(***************************************************************************)
(* What the hub promises to the dashboards that listen to it, without its  *)
(* handlers, signals or channels: a number of streams, each of which shows *)
(* its groups all at once, none of them in a state that was not there yet, *)
(* and never goes back to an earlier one.                                  *)
(***************************************************************************)
EXTENDS Integers, FiniteSets

CONSTANTS
  Clients,
  Groups,
  Of,           \* the groups a client asks for
  Room          \* how many streams there may be at once

VARIABLES
  current,   \* the version of every group
  open,      \* the clients that have a stream
  seen       \* what every stream has shown last; before, Nothing

vars == <<current, open, seen>>

Nothing == -1

Unseen == [g \in Groups |-> Nothing]

Init ==
  /\ current = [g \in Groups |-> 0]
  /\ open = {}
  /\ seen = [c \in Clients |-> Unseen]

Change(g) ==
  /\ current' = [current EXCEPT ![g] = @ + 1]
  /\ UNCHANGED <<open, seen>>

Connect(c) ==
  /\ c \notin open
  /\ open' = open \cup {c}
  /\ Cardinality(open') <= Room
  /\ seen' = [seen EXCEPT ![c] = Unseen]
  /\ UNCHANGED current

Show(c) ==
  /\ c \in open
  /\ \A g \in Of[c] : seen'[c][g] \in 0 .. current[g] /\ seen'[c][g] >= seen[c][g]
  /\ \A g \in Groups \ Of[c] : seen'[c][g] = Nothing
  /\ seen' = [seen EXCEPT ![c] = seen'[c]]
  /\ UNCHANGED <<current, open>>

Disconnect(c) ==
  /\ c \in open
  /\ open' = open \ {c}
  /\ UNCHANGED <<current, seen>>

Next ==
  \/ \E g \in Groups : Change(g)
  \/ \E c \in Clients : Connect(c) \/ Show(c) \/ Disconnect(c)

Spec == Init /\ [][Next]_vars

=============================================================================
