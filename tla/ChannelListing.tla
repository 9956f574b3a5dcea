--------------------------- MODULE ChannelListing ---------------------------
(***************************************************************************)
(* What the admin service may count on when its requests overlap, for one  *)
(* tenant or for many: a list of at most one channel per tenant, on which  *)
(* a create and an update take effect in one step, and a destroy, a pause  *)
(* or a resume in three.  It finds its channel listed; it finds it once    *)
(* more, where a pause or a resume sets its status; and then it takes the  *)
(* tenant's place on the list, whatever has come between: a destroy empties*)
(* it, a pause or a resume puts its channel back.  The answer comes later  *)
(* still, when the list may have moved on.                                 *)
(*                                                                         *)
(* ChannelDirectory is what is left of this when the requests for a tenant *)
(* come one at a time.  As there, the handlers' tables, the locks, the     *)
(* races and the ways from an id to a slug do not show.                    *)
(***************************************************************************)
EXTENDS Channels

CONSTANT Subs  \* the subjects in use; each handles one request at a time

VARIABLES
  listed,   \* per slug, its channel and status, or None
  stage,    \* per subject, how far its request is
  channel,  \* per subject, the channel its request names, or None
  reply     \* what this step answers, or None

vars == <<listed, stage, channel, reply>>

Stages == {"idle", "asked", "found", "matched", "set", "ok", "error"}

Init ==
  /\ listed = [s \in Slugs |-> None]
  /\ stage = [p \in Subs |-> "idle"] /\ channel = [p \in Subs |-> None]
  /\ reply = None

IsListed(c) == listed[c.slug] # None /\ listed[c.slug].ch = c

Put(c, status) == listed' = [listed EXCEPT ![c.slug] = [ch |-> c, status |-> status]]

Move(p, s) ==
  /\ stage' = [stage EXCEPT ![p] = s] /\ reply' = None
  /\ UNCHANGED channel

Ask(p) ==
  /\ stage[p] = "idle"
  /\ stage' = [stage EXCEPT ![p] = "asked"]
  /\ \E c \in Catalog : channel' = [channel EXCEPT ![p] = c]
  /\ reply' = None
  /\ UNCHANGED listed

\* A request that names no channel.
Refuse(p) ==
  /\ stage[p] = "idle" /\ p \notin Syncs
  /\ reply' = [sub |-> p, ch |-> None, code |-> "error"]
  /\ UNCHANGED <<listed, stage, channel>>

\* A create may push out another channel of the tenant.
Create(p) ==
  /\ p \in Creates /\ stage[p] = "asked"
  /\ Put(channel[p], "active") /\ Move(p, "ok")

\* An update shows nowhere, listed or not.
Update(p) ==
  /\ p \in Updates /\ stage[p] = "asked"
  /\ Move(p, "ok")
  /\ UNCHANGED listed

Find(p) ==
  /\ p \in Destroys \cup Pauses \cup Resumes /\ stage[p] = "asked"
  /\ IsListed(channel[p]) /\ Move(p, "found")
  /\ UNCHANGED listed

\* Another channel of the tenant is left alone ...
Match(p) ==
  /\ p \in Destroys /\ stage[p] = "found"
  /\ IsListed(channel[p]) /\ Move(p, "matched")
  /\ UNCHANGED listed

\* ... but for one that has been listed since.
Remove(p) ==
  /\ stage[p] = "matched"
  /\ listed' = [listed EXCEPT ![channel[p].slug] = None]
  /\ Move(p, "ok")

\* One at a time.
Set(p) ==
  /\ p \in Pauses \cup Resumes /\ stage[p] = "found"
  /\ \A q \in Subs : stage[q] # "set"
  /\ IsListed(channel[p]) /\ Put(channel[p], NewStatus(p))
  /\ Move(p, "set")

PutBack(p) ==
  /\ stage[p] = "set"
  /\ Put(channel[p], NewStatus(p)) /\ Move(p, "ok")

\* A destroy or a pause that finds its channel gone has nothing left to do.
Overtaken(p) ==
  /\ p \in Destroys \cup Pauses /\ stage[p] = "found"
  /\ ~IsListed(channel[p]) /\ Move(p, "ok")
  /\ UNCHANGED listed

\* What names a channel that is listed fails for one reason only: WxGateway does
\* not serve the channel that is to be destroyed.
Fail(p) ==
  /\ \/ /\ stage[p] = "asked"
        /\ p \in Destroys \cup Pauses \cup Resumes => ~IsListed(channel[p])
     \/ /\ stage[p] = "found"
        /\ \/ p \in Resumes /\ ~IsListed(channel[p])
           \/ p \in Destroys /\ channel[p].type = "weixin"
  /\ Move(p, "error")
  /\ UNCHANGED listed

\* The sync subjects are not answered.
Respond(p) ==
  /\ stage[p] \in {"ok", "error"}
  /\ stage' = [stage EXCEPT ![p] = "idle"]
  /\ channel' = [channel EXCEPT ![p] = None]
  /\ reply' = IF p \in Syncs THEN None
              ELSE [sub |-> p, ch |-> channel[p], code |-> stage[p]]
  /\ UNCHANGED listed

\* The admin's list, when the process starts.
Install ==
  /\ \E e \in Entries : Put(e.ch, e.status)
  /\ reply' = None
  /\ UNCHANGED <<stage, channel>>

\* The process ends.
Forget ==
  /\ listed' = [s \in Slugs |-> None]
  /\ stage' = [p \in Subs |-> "idle"] /\ channel' = [p \in Subs |-> None]
  /\ reply' = None

Quiet == reply' = None /\ UNCHANGED <<listed, stage, channel>>

Request(p) ==
  \/ Ask(p) \/ Refuse(p)
  \/ Create(p) \/ Update(p) \/ Find(p) \/ Match(p) \/ Remove(p)
  \/ Set(p) \/ PutBack(p) \/ Overtaken(p) \/ Fail(p) \/ Respond(p)

Next == (\E p \in Subs : Request(p)) \/ Install \/ Forget \/ Quiet

Spec == Init /\ [][Next]_vars
=============================================================================
