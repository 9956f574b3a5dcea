------------------------ MODULE AgentRegistryProofs ------------------------
(***************************************************************************)
(* The proofs about AgentRegistry: a call of the registry is a call of     *)
(* GoclawChat where it takes that way, and implements AgentAnswers on      *)
(* either.  That the call ends needs fairness and is model-checked.        *)
(***************************************************************************)
EXTENDS AgentRegistry, GoclawChatProofs

\* As long as the call is not GoclawAgent's, no client was made; only a return
\* has a response.
Elsewhere ==
  /\ at \in {"registry", "goclaw", "dify", "returned"}
  /\ at # "goclaw" => Init
  /\ at \in {"registry", "dify"} => response = Failed
  /\ response = Failed \/ response = Replied(Answer)

LEMMA CallStepIsChatStep == [CallNext]_callVars => [Next]_vars
  BY DEF CallNext, callVars, Route, PostDify, InGoclaw

\* Every property of a GoClaw call holds of it behind the registry, too.
THEOREM CallIsChat == CallSpec => Spec
  <1>1. CallInit => Init
    BY DEF CallInit
  <1> QED
    BY <1>1, CallStepIsChatStep, PTL DEF CallSpec, Spec

LEMMA InitElsewhere == CallInit => Elsewhere
  BY DEF CallInit, Elsewhere

LEMMA StepElsewhere == Elsewhere /\ [CallNext]_callVars => Elsewhere'
  <1> SUFFICES ASSUME Elsewhere, [CallNext]_callVars PROVE Elsewhere'
    OBVIOUS
  <1>0. UNCHANGED vars => (Init <=> Init')
    BY DEF Init, vars, client, serving, link
  <1>1. CASE Route
    BY <1>0, <1>1 DEF Elsewhere, Route, ReturnHere
  <1>2. CASE PostDify
    BY <1>0, <1>2 DEF Elsewhere, PostDify, ReturnHere
  <1>3. CASE InGoclaw(Next)
    BY <1>3 DEF Elsewhere, InGoclaw, registry
  <1>4. CASE UNCHANGED callVars
    BY <1>0, <1>4 DEF Elsewhere, callVars, registry
  <1> QED
    BY <1>1, <1>2, <1>3, <1>4 DEF CallNext

-----------------------------------------------------------------------------
(* The step of AgentAnswers behind each step.                              *)

\* Breaking off is the link's, ending is the client's, and what has ended stays.
LEMMA ChatSteps ==
  ASSUME IInv, Next
  PROVE  /\ pc # "done"
         /\ pc' = "done" => UNCHANGED <<cut, sent>>
         /\ cut' # cut => cut' = TRUE /\ sent' = sent
         /\ sent' # sent => sent' = sent + 1
  <1>1. CASE Dial \/ Handshake \/ Send \/ ReadFrame \/ ReadFails
    BY <1>1 DEF Dial, Handshake, Send, ReadFrame, ReadFails, link, serving
  <1>2. CASE Server
    BY <1>2 DEF IInv, Outcome, Server, ServerConnect, ServerChunk, ServerCompletes,
                ServerResponds, ServerNoise, client, serving
  <1>3. CASE Break
    BY <1>3 DEF IInv, Outcome, Break, client
  <1> QED
    BY <1>1, <1>2, <1>3 DEF Next

LEMMA PartsAreBeginnings == Agent!Beginnings = Parts
  BY AnswerType DEF Agent!Beginnings, Parts

LEMMA InitImplements == CallInit => Agent!Init
  BY DEF CallInit, Init, Agent!Init, Returned, Failed, Agent!Failed

LEMMA RouteImplements ==
  ASSUME Elsewhere, Route
  PROVE  [Agent!Next]_(Agent!vars)
  <1>1. /\ pc = "dialing" /\ result = Failed /\ response = Failed /\ cut = FALSE
        /\ at = "registry" /\ UNCHANGED <<pc, result, sent, cut>>
    BY DEF Elsewhere, Init, Route, vars, client, serving, link
  <1>2. CASE at' \in {"goclaw", "dify"} /\ response' = response
    BY <1>1, <1>2 DEF Agent!vars, Returned
  <1>3. CASE ReturnHere(Failed)
    BY <1>1, <1>3 DEF ReturnHere, Agent!Next, Agent!Return, Returned, Failed, Agent!Failed
  <1> QED
    BY <1>2, <1>3 DEF Route

LEMMA PostDifyImplements ==
  ASSUME Elsewhere, PostDify
  PROVE  [Agent!Next]_(Agent!vars)
  <1>1. at = "dify" /\ at' = "returned" /\ UNCHANGED <<sent, cut>>
    BY DEF PostDify, ReturnHere, vars, link, serving
  <1>2. response' = Failed \/ response' = Replied(Answer)
    BY DEF PostDify, ReturnHere
  <1> QED
    BY <1>1, <1>2 DEF Agent!Next, Agent!Return, Returned, Failed, Agent!Failed,
                      Replied, Agent!Replied

LEMMA GoclawImplements ==
  ASSUME IInv, IInv', InGoclaw(Next)
  PROVE  [Agent!Next]_(Agent!vars)
  <1>1. at = "goclaw" /\ at' = "goclaw" /\ pc # "done" /\ result = Failed
    BY ChatSteps DEF InGoclaw, registry, IInv, TypeOK
  <1>2. CASE pc' = "done"
    <2>1. UNCHANGED <<cut, sent>> /\ cut \in BOOLEAN
      BY <1>2, ChatSteps DEF InGoclaw, IInv, TypeOK
    <2>2. \/ result' = Failed
          \/ result' = Replied(Answer)
          \/ result' = Replied(SubSeq(Answer, 1, sent))
          \/ cut /\ \E part \in Parts : result' = Replied(part)
      BY <2>1 DEF IInv, Outcome, Honest
    <2> QED
      BY <1>1, <1>2, <2>1, <2>2, PartsAreBeginnings
      DEF Agent!Next, Agent!Return, Returned, Failed, Agent!Failed, Replied, Agent!Replied
  <1>3. CASE pc' # "done"
    <2>1. result' = Failed
      BY <1>3 DEF IInv, TypeOK
    <2>2. \/ UNCHANGED <<cut, sent>>
          \/ cut' = TRUE /\ sent' = sent
          \/ cut' = cut /\ sent' = sent + 1
      BY ChatSteps DEF InGoclaw
    <2> QED
      BY <1>1, <1>3, <2>1, <2>2
      DEF Agent!Next, Agent!Break, Agent!Say, Agent!vars, Returned
  <1> QED
    BY <1>2, <1>3

\* The registry with both its agents implements what the gateways rely on: one
\* return that is not taken back, and an answer that is whole, or all that the
\* agent has said, or a beginning of it when the link broke under the question.
THEOREM RegistryImplementsAnswers == CallSpec => ImplementsAgent
  <1>1. IInv /\ IInv' /\ Elsewhere /\ [CallNext]_callVars => [Agent!Next]_(Agent!vars)
    <2> SUFFICES ASSUME IInv, IInv', Elsewhere, [CallNext]_callVars
                 PROVE  [Agent!Next]_(Agent!vars)
      OBVIOUS
    <2>1. CASE UNCHANGED callVars
      BY <2>1 DEF callVars, registry, vars, client, serving, link, Agent!vars, Returned
    <2> QED
      BY <2>1, RouteImplements, PostDifyImplements, GoclawImplements DEF CallNext
  <1>2. CallSpec => []Elsewhere
    BY InitElsewhere, StepElsewhere, PTL DEF CallSpec
  <1>3. CallSpec => []IInv
    BY CallIsChat, SpecIInv, PTL
  <1> QED
    BY InitImplements, <1>1, <1>2, <1>3, PTL DEF CallSpec, ImplementsAgent, Agent!Spec
=============================================================================
