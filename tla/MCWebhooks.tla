----------------------------- MODULE MCWebhooks -----------------------------
(***************************************************************************)
(* Instances of Webhooks.                                                  *)
(***************************************************************************)
EXTENDS Webhooks

CONSTANTS w, f, q,                \* channel ids
          acme, globex, initech,  \* tenant slugs
          noSlug,                 \* the empty slug
          h1, h2                  \* webhook calls

Channel(id, slug, type) == [id |-> id, slug |-> slug, type |-> type]

OneWeixin == {Channel(w, acme, "weixin")}

\* Two tenants with a client of the same type, so that there is another one.
TwoWeixin == {Channel(w, acme, "weixin"), Channel(f, globex, "weixin")}

\* A feishu channel's id is its slug, or no destroy would find it; one tenant
\* has a qqbot channel too.
TwoFeishu ==
  {Channel(acme, acme, "feishu"), Channel(globex, globex, "feishu"),
   Channel(q, acme, "qqbot")}

NoSuffix == {}
SelfSuffix == {<<s, s>> : s \in {acme, globex, initech}}
=============================================================================
