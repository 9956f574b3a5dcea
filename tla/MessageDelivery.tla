--------------------------- MODULE MessageDelivery ---------------------------
(***************************************************************************)
(* What a Feishu user may rely on: a message has one life.  It is taken    *)
(* over once, the agent is asked for it once at most, and once it came to  *)
(* an end, or was lost with the process or an answer of Redis's, nothing   *)
(* brings it back, however often the platform sends it.  This is promised  *)
(* as long as the check for duplicates can work; a message it could not    *)
(* protect is exposed, for good, and nothing is promised for it.  Calls,   *)
(* marks, the queue, workers and restarts do not show.                     *)
(***************************************************************************)
EXTENDS Naturals

CONSTANT Msgs

VARIABLES
  fate,  \* per message: new, taken, asked, closed or gone; or exposed
  asks   \* per message, how often the agent was asked

vars == <<fate, asks>>

Init ==
  /\ fate = [m \in Msgs |-> "new"]
  /\ asks = [m \in Msgs |-> 0]

Turn(m, from, to) ==
  /\ fate[m] = from
  /\ fate' = [fate EXCEPT ![m] = to]

TakeOver(m) == Turn(m, "new", "taken") /\ UNCHANGED asks

\* Of an exposed message, all that shows is that the agent is asked.
Ask(m) ==
  /\ \/ Turn(m, "taken", "asked")
     \/ fate[m] = "exposed" /\ UNCHANGED fate
  /\ asks' = [asks EXCEPT ![m] = @ + 1]

\* Also a message the agent is not asked for comes to an end.
Close(m) ==
  /\ \E from \in {"taken", "asked"} : Turn(m, from, "closed")
  /\ UNCHANGED asks

\* A process that dies takes several messages with it.
Lose(S) ==
  /\ \A m \in S : fate[m] \in {"taken", "asked"}
  /\ fate' = [m \in Msgs |-> IF m \in S THEN "gone" ELSE fate[m]]
  /\ UNCHANGED asks

Expose(m) ==
  /\ fate' = [fate EXCEPT ![m] = "exposed"]
  /\ UNCHANGED asks

Next ==
  \/ \E m \in Msgs : TakeOver(m) \/ Ask(m) \/ Close(m) \/ Expose(m)
  \/ \E S \in SUBSET Msgs : Lose(S)

Spec == Init /\ [][Next]_vars
=============================================================================
