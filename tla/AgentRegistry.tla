--------------------------- MODULE AgentRegistry ---------------------------
(***************************************************************************)
(* Registry.Process: the gateways' one way to an agent.  The bind info of  *)
(* the customer names the agent's type and may hold its config; the        *)
(* registry hands the question to GoclawAgent, whose call is the module    *)
(* GoclawChat, or to DifyAgent, which makes one HTTP request.              *)
(***************************************************************************)
EXTENDS GoclawChat

VARIABLES
  agentType,    \* the bind info's AgentType
  agentConfig,  \* its AgentConfig: nil, with the GoClaw part, without it
  bounded,      \* the caller's context has a deadline: qqbot's and the Feishu
                \* workers' have, weixin's and an unqueued Feishu call's have not
  at,           \* where the call is: registry, goclaw, dify, returned
  response      \* what DifyAgent or the registry itself returns

info     == <<agentType, agentConfig, bounded>>
registry == <<info, at, response>>
callVars == <<vars, registry>>

AgentTypes == {"", "goclaw", "dify", "unknown"}
AgentConfigs == {"nil", "goclaw", "other"}

CallInit ==
  /\ Init
  /\ agentType \in AgentTypes /\ agentConfig \in AgentConfigs /\ bounded \in BOOLEAN
  /\ at = "registry" /\ response = Failed

ReturnHere(r) == at' = "returned" /\ response' = r

\* The type's agent, GoClaw if there is none; its URL and key are nested in the
\* config or flat in the bind info.  DifyAgent cannot parse a nil config.
Route ==
  /\ at = "registry"
  /\ \/ agentType \in {"", "goclaw"} /\ at' = "goclaw" /\ UNCHANGED response
     \/ agentType = "dify" /\ agentConfig # "nil" /\ at' = "dify" /\ UNCHANGED response
     \/ agentType = "dify" /\ agentConfig = "nil" /\ ReturnHere(Failed)
     \/ agentType = "unknown" /\ ReturnHere(Failed)
  /\ UNCHANGED <<vars, info>>

\* Mutant: a body that breaks off is taken as far as it came.
PostDifyPart ==
  /\ at = "dify"
  /\ \E n \in 1..AnswerLen : ReturnHere(Replied(SubSeq(Answer, 1, n)))
  /\ UNCHANGED <<vars, info>>

\* One POST.  Its own timeout, the caller's context, the network, a status that
\* is not 200 and a body that is not JSON are errors; a 200 has all the answer.
PostDify ==
  /\ at = "dify"
  /\ \/ ReturnHere(Failed)
     \/ ReturnHere(Replied(Answer))
  /\ UNCHANGED <<vars, info>>

InGoclaw(A) == at = "goclaw" /\ A /\ UNCHANGED registry

CallNext == Route \/ PostDify \/ InGoclaw(Next)

CallSpec == CallInit /\ [][CallNext]_callVars

\* The client is scheduled, its writes and reads have deadlines and DifyAgent's
\* HTTP client has a timeout.  A dial has none of its own: only a context that has
\* a deadline ends one to a server that accepts the connection and says no more.
\* And the server stops to send frames some time, which nothing else bounds.
CallFairness ==
  /\ WF_callVars(Route) /\ WF_callVars(PostDify)
  /\ WF_callVars(bounded /\ InGoclaw(Dial)) /\ WF_callVars(InGoclaw(Send))
  /\ WF_callVars(InGoclaw(Handshake)) /\ WF_callVars(InGoclaw(ReadFrame))
  /\ WF_callVars(InGoclaw(ReadFails)) /\ WF_callVars(InGoclaw(Silence))

FairCallSpec == CallSpec /\ CallFairness

-----------------------------------------------------------------------------
(* Properties.                                                             *)

Returned == at = "returned" \/ (at = "goclaw" /\ pc = "done")

Agent == INSTANCE AgentAnswers WITH
  Whole   <- Answer,
  phase   <- IF Returned THEN "answered" ELSE "asking",
  outcome <- IF at = "goclaw" THEN result ELSE response,
  said    <- sent,
  broken  <- cut

\* The registry and both agents do what AgentAnswers says: whatever the bind info,
\* one return that is not taken back, an answer in order, and whole but for what
\* the agent left out or the link lost.
ImplementsAgent == Agent!Spec

\* Every call returns, wherever the connection breaks or falls silent, but for one
\* whose caller set no deadline: it may wait for its dial for good.
CallReturns == <>Returned \/ <>[](at = "goclaw" /\ pc = "dialing" /\ ~bounded)
=============================================================================
