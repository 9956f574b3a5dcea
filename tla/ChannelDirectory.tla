-------------------------- MODULE ChannelDirectory --------------------------
(***************************************************************************)
(* What the admin service may think the gateway is when it asks for one    *)
(* thing at a time per tenant: a directory of at most one channel per      *)
(* tenant, with a status, on which each request is one step.  The          *)
(* handlers' tables, the locks, the three ways from an id to a slug and    *)
(* the requests for other tenants do not show.                             *)
(***************************************************************************)
EXTENDS Channels

Requests == {"create", "update", "destroy", "pause", "resume"}

VARIABLES
  listed,  \* per slug, its channel and status, or None
  asked,   \* the requests taken and not answered: [sub, ch]
  answers  \* the answers that are on their way: [sub, ch, code]

vars == <<listed, asked, answers>>

Init ==
  /\ listed = [s \in Slugs |-> None]
  /\ asked = {} /\ answers = {}

\* Answers arrive, and a new one may be sent: no other way leads to an answer.
Arrive == answers' \subseteq answers

Send(answer) == answer \in answers' /\ answers' \subseteq answers \cup {answer}

Ask ==
  /\ \E sub \in Requests, c \in Catalog :
       asked' = asked \cup {[sub |-> sub, ch |-> c]}
  /\ Arrive
  /\ UNCHANGED listed

\* A request that names no channel.
Refuse ==
  /\ \E sub \in Requests : Send([sub |-> sub, ch |-> None, code |-> "error"])
  /\ UNCHANGED <<listed, asked>>

Respond(r, code) ==
  /\ r \in asked /\ asked' = asked \ {r}
  /\ Send([sub |-> r.sub, ch |-> r.ch, code |-> code])

Put(c, status) == listed' = [listed EXCEPT ![c.slug] = [ch |-> c, status |-> status]]

IsListed(c) == listed[c.slug] # None /\ listed[c.slug].ch = c

\* A create may push out another channel of the tenant.
Create(r) == r.sub = "create" /\ Respond(r, "ok") /\ Put(r.ch, "active")

\* An update shows nowhere, listed or not.
Update(r) == r.sub = "update" /\ Respond(r, "ok") /\ UNCHANGED listed

Pause(r) ==
  r.sub = "pause" /\ IsListed(r.ch) /\ Respond(r, "ok") /\ Put(r.ch, "paused")

Resume(r) ==
  r.sub = "resume" /\ IsListed(r.ch) /\ Respond(r, "ok") /\ Put(r.ch, "active")

Destroy(r) ==
  /\ r.sub = "destroy" /\ IsListed(r.ch) /\ Respond(r, "ok")
  /\ listed' = [listed EXCEPT ![r.ch.slug] = None]

\* A listed channel is paused and resumed without fail.
Fail(r) ==
  /\ r.sub \in {"pause", "resume"} => ~IsListed(r.ch)
  /\ Respond(r, "error")
  /\ UNCHANGED listed

\* The admin's list, when the process starts.
Install ==
  /\ \E e \in Entries : Put(e.ch, e.status)
  /\ Arrive
  /\ UNCHANGED asked

\* The process ends.
Forget ==
  /\ listed' = [s \in Slugs |-> None]
  /\ asked' = {} /\ Arrive

Quiet == Arrive /\ UNCHANGED <<listed, asked>>

Next ==
  \/ Ask \/ Refuse
  \/ \E r \in asked : \/ Create(r) \/ Update(r) \/ Pause(r) \/ Resume(r)
                      \/ Destroy(r) \/ Fail(r)
  \/ Install \/ Forget \/ Quiet

Spec == Init /\ [][Next]_vars
=============================================================================
