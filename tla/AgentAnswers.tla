---------------------------- MODULE AgentAnswers ----------------------------
(***************************************************************************)
(* What the gateways may rely on when they ask an AgentProcessor: Process  *)
(* returns once, with an error or with an answer.  The answer is the whole *)
(* of what the agent has to say, or as much as it has said when it is      *)
(* through, or the beginning of it when the link to the agent broke        *)
(* meanwhile.  How many frames, servers and deadlines are behind it does   *)
(* not show.                                                               *)
(***************************************************************************)
EXTENDS Naturals, Sequences

CONSTANT Whole  \* all the agent has to say, a sequence

VARIABLES
  phase,    \* "asking", "answered"
  outcome,  \* what Process returns; Failed as long as it has not
  said,     \* how much of it the agent has said
  broken    \* the link broke

vars == <<phase, outcome, said, broken>>

Failed == [ok |-> FALSE, content |-> <<>>]
Replied(content) == [ok |-> TRUE, content |-> content]

Beginnings == {SubSeq(Whole, 1, n) : n \in 1..Len(Whole)}

Init == phase = "asking" /\ outcome = Failed /\ said = 0 /\ broken = FALSE

Say ==
  /\ phase = "asking"
  /\ said' = said + 1
  /\ UNCHANGED <<phase, outcome, broken>>

Break ==
  /\ phase = "asking"
  /\ broken' = TRUE
  /\ UNCHANGED <<phase, outcome, said>>

Return ==
  /\ phase = "asking" /\ phase' = "answered"
  /\ \/ outcome' = Failed
     \/ outcome' = Replied(Whole)
     \/ outcome' = Replied(SubSeq(Whole, 1, said))
     \/ broken /\ \E part \in Beginnings : outcome' = Replied(part)
  /\ UNCHANGED <<said, broken>>

Next == Say \/ Break \/ Return

Spec == Init /\ [][Next]_vars
=============================================================================
