------------------------------ MODULE Channels ------------------------------
(***************************************************************************)
(* The channel tables of the gateway and the lookups on them.              *)
(*                                                                         *)
(* A channel is what the admin service registers: an id, the slug of the   *)
(* tenant it belongs to and its type.  The process keeps it in two places: *)
(*   - the ChannelManager's map, keyed by TENANT SLUG, of the registered   *)
(*     channel and its status;                                             *)
(*   - one map per channel type (WxGateway.channels,                       *)
(*     FeishuGateway.channels, QQBotGateway.channelStates), also keyed by  *)
(*     tenant slug, of the client that serves the type's webhook.          *)
(* The admin names a channel by its id, so each operation has to get from  *)
(* an id to a slug; the four components do it in four different ways, and  *)
(* the operators below are those ways.  Go iterates over a map in any      *)
(* order, so a lookup that takes the first match is a SET of candidates    *)
(* here, from which the action that uses it picks one.                     *)
(***************************************************************************)

CONSTANTS
  Catalog,  \* the channels the admin service may name: [id, slug, type]
  NoSlug,   \* the empty tenant slug
  Suffix,   \* <<slug, id>>: strings.HasSuffix(slug, id)
  None      \* no entry, no channel, nobody

Types == {"weixin", "feishu", "qqbot"}

\* "nil": the message has no config; "bad": the type's InitChannel refuses it.
Configs == {"nil", "bad", "good"}

Statuses == {"active", "paused", "disabled"}

\* What the subjects of the admin service ask for.
Creates  == {"create", "sync.create"}
Updates  == {"update", "sync.update"}
Destroys == {"destroy", "sync.destroy"}
Pauses   == {"pause", "sync.pause"}
Resumes  == {"resume", "sync.resume"}
Syncs    == {"sync.create", "sync.update", "sync.destroy", "sync.pause", "sync.resume"}

\* Mutant: a status of its own for a resumed channel.
ResumedStatus(p) == IF p \in Pauses THEN "paused" ELSE "resumed"

NewStatus(p) == IF p \in Pauses THEN "paused" ELSE "active"

Slugs == {c.slug : c \in Catalog}
Ids == {c.id : c \in Catalog}

ASSUME CatalogAssumption ==
  /\ \A c \in Catalog : /\ c = [id |-> c.id, slug |-> c.slug, type |-> c.type]
                        /\ c.type \in Types
  /\ None \notin Catalog
  /\ \A s \in Slugs \cap Ids : <<s, s>> \in Suffix

\* What ChannelInfo keeps of a channel in the manager's map.
Entries == [ch : Catalog, status : Statuses]

-----------------------------------------------------------------------------
(* Lookups in the manager's map m \in [Slugs -> Entries \cup {None}].      *)

\* GetChannel: the keys of the entries whose ChannelID is id.
ById(m, id) == {s \in Slugs : m[s] # None /\ m[s].ch.id = id}

\* The loops of DeleteChannel, PauseChannel and ResumeChannel.
ByIdOrSlug(m, id) == {s \in Slugs : m[s] # None /\ (m[s].ch.id = id \/ s = id)}

-----------------------------------------------------------------------------
(* The three ChannelHandlers, on a table tab \in                           *)
(* [Slugs -> Catalog \cup {None}]: which channel's client serves a slug.   *)

Served(tab) == {s \in Slugs : tab[s] # None}

\* WxGateway.InitChannel: without a config it succeeds and installs nothing.
WxInit(tab, c, cfg) ==
  IF cfg = "good" THEN [tab EXCEPT ![c.slug] = c] ELSE tab

\* FeishuGateway.InitChannel.
FeishuInit(tab, c, cfg) ==
  IF cfg = "good" THEN [tab EXCEPT ![c.slug] = c] ELSE tab

\* QQBotGateway.InitChannel: no state is kept for an empty slug.
QQInit(tab, c, cfg) ==
  IF cfg = "good" /\ c.slug # NoSlug THEN [tab EXCEPT ![c.slug] = c] ELSE tab

\* Whichever handler is registered for the channel's type.
InitTable(tab, c, cfg) ==
  CASE c.type = "weixin" -> WxInit(tab, c, cfg)
    [] c.type = "feishu" -> FeishuInit(tab, c, cfg)
    [] c.type = "qqbot"  -> QQInit(tab, c, cfg)

\* Mutant: an id that is found nowhere deletes any channel, as the replies that
\* find no channel of their own take any.
WxTriedAny(tab, m, id) ==
  IF id \in Served(tab) THEN {id} ELSE Served(tab)

\* WxGateway.DeleteChannel: the key it deletes.  The id itself when it is a
\* served slug, else the slug of an entry of the manager with that id, else
\* (no such entry, or an empty slug) the id taken as a slug again.
WxTried(tab, m, id) ==
  IF id \in Served(tab) \/ ById(m, id) = {}
  THEN {id}
  ELSE {IF m[k].ch.slug = NoSlug THEN id ELSE m[k].ch.slug : k \in ById(m, id)}

\* Mutant: the slug has to end with the id and to be longer.
FeishuTargetsByTail(tab, id) ==
  {s \in Served(tab) \ {NoSlug} : s # id /\ <<s, id>> \in Suffix}

\* FeishuGateway.DeleteChannel: a served slug that is the id or ends with it.
FeishuTargets(tab, id) ==
  {s \in Served(tab) \ {NoSlug} : s = id \/ <<s, id>> \in Suffix}

\* QQBotGateway.DeleteChannel: the same test.
QQTargets(tab, id) ==
  {s \in Served(tab) : <<s, id>> \in Suffix \/ s = id}

-----------------------------------------------------------------------------
(* What an admin service that hands out uuids guarantees.                  *)

\* An id names one channel.  (A slug may name several: one per type.)
UniqueIds == \A c, d \in Catalog : c.id = d.id => c = d

\* A tenant slug that is, or ends with, a channel's id is that channel's own.
SlugsFindOwn ==
  \A c \in Catalog, s \in Slugs : s = c.id \/ <<s, c.id>> \in Suffix => s = c.slug

\* A channel's own slug is, or ends with, its id, where the type's DeleteChannel
\* knows slugs only.  (FeishuGateway skips an empty slug, QQBotGateway has none.)
IdsFindOwn ==
  \A c \in Catalog :
    /\ c.type = "feishu" => c.slug # NoSlug
    /\ c.type = "feishu" \/ (c.type = "qqbot" /\ c.slug # NoSlug)
         => c.slug = c.id \/ <<c.slug, c.id>> \in Suffix

\* No weixin channel's id is a slug, whoever's.
WeixinIdsAreNoSlugs == \A c \in Catalog : c.type = "weixin" => c.id \notin Slugs

\* No tenant slug is, or ends with, a channel id: so it is with uuids.
SlugsAreNotIds == Slugs \cap Ids = {} /\ Suffix \cap (Slugs \X Ids) = {}
=============================================================================
