--------------------------- MODULE MCChannelAdmin ---------------------------
(***************************************************************************)
(* Instances of ChannelAdmin.                                              *)
(***************************************************************************)
EXTENDS ChannelAdmin

CONSTANTS w, f, q,                \* channel ids, as the uuids the admin hands out
          acme, globex, initech,  \* tenant slugs
          noSlug                  \* the empty slug

Channel(id, slug, type) == [id |-> id, slug |-> slug, type |-> type]

\* Two tenants with a channel of the same type.
TwoTenants == {Channel(w, acme, "weixin"), Channel(f, globex, "weixin")}

\* A tenant with two channels: the manager has one entry for both.
SharedTenant == {Channel(w, acme, "weixin"), Channel(q, acme, "qqbot")}

\* One channel of each type, with uuids for ids.
OnePerType ==
  {Channel(w, acme, "weixin"), Channel(f, globex, "feishu"), Channel(q, initech, "qqbot")}

OneWeixin == {Channel(w, acme, "weixin")}

\* A tenant with two channels, beside a channel without a tenant slug; where the
\* type wants it ("compatible with deleting by the slug"), the id is the slug.
SharedAndOther ==
  {Channel(w, acme, "weixin"), Channel(acme, acme, "feishu"), Channel(q, noSlug, "qqbot")}

\* A uuid is no suffix of a slug; a slug is one of itself.
NoSuffix == {}
SelfSuffix == {<<s, s>> : s \in {acme, globex, initech}}
=============================================================================
