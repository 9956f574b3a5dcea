------------------------------ MODULE Webhooks ------------------------------
(***************************************************************************)
(* The messages users send, beside the administration of the channels they *)
(* come through: this module composes the webhooks of the three types with *)
(* ChannelAdmin, whose tables they read.                                   *)
(*                                                                         *)
(* A call looks at shared state three times, each time under a lock of its *)
(* own that it gives back: the handler's table, to find the channel; the   *)
(* manager's map, for the channel's status; and, when the agent has        *)
(* answered, the handler's table again, for a client to answer with.  The  *)
(* administration may do anything in between.  The call is over here with  *)
(* the last look: the client it has found takes the message to the         *)
(* platform, for however long, and looks at nothing of this.               *)
(*                                                                         *)
(* A Feishu message changes hands after the status check (the queue and    *)
(* the workers are FeishuQueue); here it stays one call, and what makes it *)
(* special is that it may survive the process.                             *)
(***************************************************************************)
EXTENDS ChannelAdmin

CONSTANT Calls  \* webhook calls in progress

ASSUME CallsAssumption == None \notin [type : Types, slug : Slugs]

VARIABLES
  at,         \* per call: idle, gate, ask, tell, reply
  message,    \* per call: the type and tenant slug it came in for, or None
  sent,       \* what the last step sent to a user, or None
  disturbed,  \* history: calls whose channel was updated or destroyed since
  silent      \* history: slugs paused, and nothing that undoes it since

calls   == <<at, message>>
history == <<disturbed, silent>>
allVars == <<vars, calls, sent, history>>

(* idle -> gate -> ask -> reply       a message and its answer             *)
(*         gate -> tell, ask -> tell  a word from the gateway instead      *)
Stages == {"idle", "gate", "ask", "tell", "reply"}

Messages == [type : Types, slug : Slugs]

\* Whose client sent it, to whose user, and whether that call is disturbed.
Sendings == [type : Types, slug : Slugs, via : Slugs, disturbed : BOOLEAN]

AllInit ==
  /\ Init
  /\ at = [h \in Calls |-> "idle"] /\ message = [h \in Calls |-> None]
  /\ sent = None
  /\ disturbed = {} /\ silent = {}

-----------------------------------------------------------------------------
Proceed(h, stage) ==
  /\ at' = [at EXCEPT ![h] = stage]
  /\ sent' = None
  /\ UNCHANGED <<vars, message, history>>

\* The call is over, with whatever status; what it sends goes into sent'.
Over(h) ==
  /\ at' = [at EXCEPT ![h] = "idle"]
  /\ message' = [message EXCEPT ![h] = None]
  /\ disturbed' = disturbed \ {h}
  /\ UNCHANGED <<vars, silent>>

Drop(h) == Over(h) /\ sent' = None

\* WxGateway.mu is held across steps by a destroy or an update.
TableFree(type) == type = "weixin" => wxLock = None

\* webhookHandler finds the channel and its signature is right; otherwise the
\* call ends here with 404, 401 or 400.
Arrive(h, type, slug) ==
  /\ up /\ boot = "serving" /\ at[h] = "idle" /\ TableFree(type)
  /\ gw[type][slug] # None
  /\ at' = [at EXCEPT ![h] = "gate"]
  /\ message' = [message EXCEPT ![h] = [type |-> type, slug |-> slug]]
  /\ sent' = None
  /\ UNCHANGED <<vars, history>>

\* A channel the manager does not list counts as active.
Held(slug) == mgr[slug] # None /\ mgr[slug].status # "active"

\* Mutant: a held message gets a stage of its own.
GateSuspends(h) ==
  /\ at[h] = "gate" /\ mgrLock = None
  /\ IF Held(message[h].slug) THEN Proceed(h, "suspended") ELSE Proceed(h, "ask")

\* GetChannelBySlug and the status check.  qqbot answers a held message with a
\* 403; the others send a word.  A message without a sender, an event or a
\* duplicate is ignored, before or after the check.
Gate(h) ==
  /\ at[h] = "gate" /\ mgrLock = None
  /\ \/ Drop(h)
     \/ Held(message[h].slug) /\ message[h].type # "qqbot" /\ Proceed(h, "tell")
     \/ ~Held(message[h].slug) /\ Proceed(h, "ask")

\* Whom the user is bound to, and the agent's answer.  An error ends the call;
\* an unbound user is told, and so is one whose Feishu worker gets no answer.
\* Nothing here looks at the tables, however long the agent takes.
Ask(h) ==
  /\ at[h] = "ask"
  /\ \/ Drop(h)
     \/ \E stage \in {"tell", "reply"} : Proceed(h, stage)

\* Mutant: the clients are not keyed by tenant.
AnyClient(tab, slug) == Served(tab)

\* The tenant's client, or any other when there is none.
OwnOrAny(tab, slug) == IF tab[slug] # None THEN {slug} ELSE Served(tab)

OwnOnly(tab, slug) == {slug} \cap Served(tab)

\* The sending itself may fail, or come too late for the call's own deadline.
Send(h, clients) ==
  /\ Over(h)
  /\ \/ sent' = None
     \/ \E via \in clients :
          sent' = [type |-> message[h].type, slug |-> message[h].slug, via |-> via,
                   disturbed |-> h \in disturbed]

\* sendTextMessage.
Tell(h) ==
  /\ at[h] = "tell" /\ TableFree(message[h].type)
  /\ LET tab == gw[message[h].type] IN
       Send(h, IF message[h].type = "weixin" THEN OwnOrAny(tab, message[h].slug)
               ELSE OwnOnly(tab, message[h].slug))

\* Mutant: the answer is kept until there is a client to send it with.
AnswerWaits(h) ==
  /\ at[h] = "reply" /\ TableFree(message[h].type)
  /\ Served(gw[message[h].type]) # {}
  /\ Send(h, OwnOrAny(gw[message[h].type], message[h].slug))

\* sendAgentResponse.
Answer(h) ==
  /\ at[h] = "reply" /\ TableFree(message[h].type)
  /\ LET tab == gw[message[h].type] IN
       Send(h, IF message[h].type = "qqbot" THEN OwnOnly(tab, message[h].slug)
               ELSE OwnOrAny(tab, message[h].slug))

\* The steps that wait for nobody outside the gateway.
Inside(h) == Gate(h) \/ Tell(h) \/ Answer(h)

Call(h) == up /\ (Inside(h) \/ Ask(h))

-----------------------------------------------------------------------------
(* The administration, as the calls see it.                                *)

\* The channel a call came in for is being updated or destroyed.
Disturbs(h) ==
  /\ message[h] # None
  /\ \E p \in Subs \cap (Updates \cup Destroys) : Acts(p, message[h].slug)

\* A pause is through; what may undo it takes a step.
Silences(s) ==
  \E p \in Subs \cap Pauses :
    held[p] # None /\ held[p].slug = s /\ pc[p] = "writeback" /\ pc'[p] = "ok"

Unsilences(s) ==
  BootActs(s) \/ \E p \in Subs \ (Pauses \cup Updates) : Acts(p, s)

\* History: only properties read it.
Watch ==
  /\ disturbed' = disturbed \cup {h \in Calls : Disturbs(h)}
  /\ silent' = {s \in silent : ~Unsilences(s)} \cup {s \in Slugs : Silences(s)}

Beside(A) == A /\ UNCHANGED calls /\ sent' = None /\ Watch

\* The process ends with every call in it, but for the Feishu messages that
\* are still in Redis: a worker of the next process finds them.
End ==
  /\ Throw \/ StartFails
  /\ \E queued \in SUBSET {h \in Calls : at[h] = "ask" /\ message[h].type = "feishu"} :
       /\ at' = [h \in Calls |-> IF h \in queued THEN "ask" ELSE "idle"]
       /\ message' = [h \in Calls |-> IF h \in queued THEN message[h] ELSE None]
       /\ disturbed' = queued
  /\ sent' = None
  /\ silent' = {}

AllNext ==
  \/ Beside(Receive) \/ (\E p \in Subs : Beside(Handle(p)))
  \/ Beside(Boot) \/ Beside(Restart) \/ End
  \/ \E h \in Calls : Call(h) \/ \E t \in Types, s \in Slugs : Arrive(h, t, s)

AllSpec == AllInit /\ [][AllNext]_allVars

\* That of ChannelAdmin, whose locks starve nobody, and the same for the steps of
\* the calls that wait for nothing else.  Nothing makes an agent answer: weixin's
\* calls, and Feishu's that are not queued, ask with context.Background().
AllFairness ==
  /\ SF_allVars(Beside(Boot)) /\ \A p \in Subs : SF_allVars(Beside(Handle(p)))
  /\ \A h \in Calls : SF_allVars(up /\ Inside(h))

FairAllSpec == AllSpec /\ AllFairness

-----------------------------------------------------------------------------
(* Properties.                                                             *)

CallsTypeOK ==
  /\ at \in [Calls -> Stages] /\ message \in [Calls -> Messages \cup {None}]
  /\ \A h \in Calls : at[h] = "idle" <=> message[h] = None
  /\ sent \in Sendings \cup {None}
  /\ disturbed \subseteq {h \in Calls : at[h] # "idle"} /\ silent \subseteq Slugs

\* From the end of a pause until a create, a resume or a destroy of the tenant's
\* channel (or the end of the process), no message of the tenant's gets past
\* the status check to an agent, whatever else the administration does: updates
\* that take the client away and put it back, requests for other tenants, a
\* second pause.  Messages that were past the check are answered.
PausedIsSilent ==
  [][\A h \in Calls : at[h] = "gate" /\ at'[h] = "ask" => message[h].slug \notin silent]_allVars

\* A user hears from his own tenant's client, unless that tenant's channel was
\* updated or destroyed, or the process died, while the agent was at work: then
\* weixin and feishu take any other tenant's client, qqbot none.
ForeignOnlyWhenDisturbed ==
  sent # None /\ sent.via # sent.slug => sent.disturbed /\ sent.type # "qqbot"

\* No call waits for good inside the gateway, whose locks the administration takes
\* one in the other: it gets through to the agent, from the agent's answer to a
\* client, or to its end.
CallsFinish == \A h \in Calls : at[h] # "idle" ~> at[h] \in {"idle", "ask"}
=============================================================================
