------------------------- MODULE ChannelAdminProofs -------------------------
(***************************************************************************)
(* Theorems about ChannelAdmin, for every catalog, every set of subjects   *)
(* and every number of requests in progress.                               *)
(***************************************************************************)
EXTENDS ChannelAdmin, TLAPS

\* The entry a pause, a resume or a destroy has found is one its request named; the
\* first two have given it the status the request asked for.
HeldMatches ==
  \A p \in Subs : held[p] # None =>
    /\ held[p].entry.ch.id = job[p].ch.id \/ held[p].slug = job[p].ch.id
    /\ p \notin Destroys => held[p].entry.status = NewStatus(p)

\* A goroutine only takes the steps of its own subject's handler.
OnRoute(p, l) ==
  /\ l = "init" => p \in Creates \cup Updates
  /\ l = "file" => p \in Creates
  /\ l = "lookup" => p \in Destroys \cup Pauses \cup Resumes
  /\ l = "delete" \/ l = "wxdelete" => p \in Updates \cup Destroys
  /\ l = "remove" \/ l = "drop" => p \in Destroys
  /\ l = "pausegw" => p \in Pauses
  /\ l = "scan" \/ l = "writeback" => p \in Pauses \cup Resumes

RouteInv == \A p \in Subs : OnRoute(p, pc[p])

IInv == TypeOK /\ OwnershipInv /\ KeyedBySlug /\ HeldMatches /\ RouteInv

LEMMA InitInv == Init => IInv
  BY CatalogAssumption, SubsAssumption
  DEF Init, IInv, TypeOK, OwnershipInv, KeyedBySlug, HeldMatches, RouteInv, OnRoute,
      Phases, Labels

\* What the constants' assumptions say of one channel.
LEMMA ChannelFacts ==
  ASSUME NEW c \in Catalog
  PROVE  c.slug \in Slugs /\ c.id \in Ids /\ c.type \in Types
  BY CatalogAssumption DEF Slugs, Ids

\* How a handler goes on, as far as types go.
LEMMA GoToType ==
  ASSUME TypeOK, NEW p \in Subs, NEW l \in Labels, GoTo(p, l)
  PROVE  /\ pc' \in [Subs -> Labels] /\ job' \in [Subs -> Jobs \cup {None}]
         /\ reply' \in Replies \cup {None}
  BY DEF GoTo, TypeOK

LEMMA AcceptInv ==
  ASSUME IInv, NEW p \in Subs, NEW c \in Catalog, NEW cfg \in Configs,
         NEW l \in {"init", "delete", "lookup"}, OnRoute(p, l), Accept(p, c, cfg, l)
  PROVE  IInv'
<1> USE DEF Accept, Ready, bootVars, tables, locks
<1>1. TypeOK'
  BY DEF IInv, TypeOK, Labels, Jobs
<1>2. OwnershipInv'
  BY SubsAssumption DEF IInv, TypeOK, OwnershipInv, Jobs
<1>3. KeyedBySlug'
  BY DEF IInv, KeyedBySlug
<1>4. HeldMatches'
  BY DEF IInv, TypeOK, OwnershipInv, HeldMatches
<1>5. RouteInv'
  BY DEF IInv, TypeOK, RouteInv
<1> QED BY <1>1, <1>2, <1>3, <1>4, <1>5 DEF IInv

LEMMA RejectInv ==
  ASSUME IInv, NEW p \in Subs, Reject(p)
  PROVE  IInv'
  BY DEF Reject, Reply, Replies, bootVars, tables, locks, IInv, TypeOK, OwnershipInv,
         KeyedBySlug, HeldMatches, RouteInv

\* InitChannel installs a channel at its own slug of its own type's table.
LEMMA InstallsType ==
  ASSUME TypeOK, KeyedBySlug, NEW c \in Catalog, NEW cfg \in Configs, Installs(c, cfg)
  PROVE  /\ gw' \in [Types -> [Slugs -> Catalog \cup {None}]]
         /\ refreshing' \subseteq Slugs
         /\ \A t \in Types, s \in Slugs :
              gw'[t][s] # gw[t][s] => gw'[t][s] = c /\ s = c.slug /\ t = c.type
         /\ \A s \in Slugs : (s \in refreshing') # (s \in refreshing) => s = c.slug
<1>1. c.slug \in Slugs /\ c.type \in Types
  BY ChannelFacts
<1>2. InitTable(gw[c.type], c, cfg) \in
        {gw[c.type], [gw[c.type] EXCEPT ![c.slug] = c]}
  BY <1>1 DEF InitTable, WxInit, FeishuInit, QQInit, Types
<1> QED BY <1>1, <1>2 DEF Installs, TypeOK

LEMMA InstallChannelInv ==
  ASSUME IInv, NEW p \in Subs, InstallChannel(p)
  PROVE  IInv'
<1> USE DEF InstallChannel, bootVars, locks
<1>0. job[p] \in Jobs /\ job[p].ch \in Catalog /\ job[p].cfg \in Configs
  BY DEF IInv, TypeOK, OwnershipInv, Jobs
<1>1. /\ gw' \in [Types -> [Slugs -> Catalog \cup {None}]]
      /\ refreshing' \subseteq Slugs
      /\ \A t \in Types, s \in Slugs :
           gw'[t][s] # gw[t][s] =>
             gw'[t][s] = job[p].ch /\ s = job[p].ch.slug /\ t = job[p].ch.type
  BY <1>0, InstallsType DEF IInv
<1>2. GoTo(p, "error") \/ GoTo(p, "ok") \/ (GoTo(p, "file") /\ p \in Creates)
  BY <1>0 DEF Configs
<1>3. TypeOK'
  <2>1. /\ pc' \in [Subs -> Labels] /\ job' \in [Subs -> Jobs \cup {None}]
        /\ reply' \in Replies \cup {None}
    BY <1>0, <1>2, GoToType DEF IInv, Labels
  <2> QED BY <1>1, <2>1 DEF IInv, TypeOK
<1>4. OwnershipInv'
  BY <1>0, <1>2, SubsAssumption DEF IInv, TypeOK, OwnershipInv, GoTo
<1>5. KeyedBySlug'
  BY <1>1 DEF IInv, KeyedBySlug
<1>6. HeldMatches'
  BY <1>2 DEF IInv, TypeOK, OwnershipInv, HeldMatches, GoTo
<1>7. RouteInv'
  BY <1>2 DEF IInv, TypeOK, RouteInv, OnRoute, GoTo
<1> QED BY <1>3, <1>4, <1>5, <1>6, <1>7 DEF IInv

LEMMA FileChannelInv ==
  ASSUME IInv, NEW p \in Subs, FileChannel(p)
  PROVE  IInv'
<1> USE DEF FileChannel, bootVars, locks
<1>0. job[p] \in Jobs /\ job[p].ch \in Catalog /\ job[p].ch.slug \in Slugs
  BY ChannelFacts DEF IInv, TypeOK, OwnershipInv, Jobs
<1>1. [ch |-> job[p].ch, status |-> "active"] \in Entries
  BY <1>0 DEF Entries, Statuses
<1>2. TypeOK'
  BY <1>0, <1>1, GoToType DEF IInv, TypeOK, Labels
<1>3. OwnershipInv'
  BY <1>0, SubsAssumption DEF IInv, TypeOK, OwnershipInv, GoTo
<1>4. KeyedBySlug'
  BY <1>0, <1>1 DEF IInv, TypeOK, KeyedBySlug
<1>5. HeldMatches'
  BY DEF IInv, TypeOK, OwnershipInv, HeldMatches, GoTo
<1>6. RouteInv'
  BY DEF IInv, TypeOK, RouteInv, OnRoute, GoTo
<1> QED BY <1>2, <1>3, <1>4, <1>5, <1>6 DEF IInv

LEMMA GetChannelInv ==
  ASSUME IInv, NEW p \in Subs, GetChannel(p)
  PROVE  IInv'
<1> USE DEF GetChannel, bootVars, locks, tables
<1>0. job[p] \in Jobs /\ job[p].ch \in Catalog
  BY DEF IInv, TypeOK, OwnershipInv, Jobs
<1>1. CASE GoTo(p, "error")
  <2>1. TypeOK'
    BY <1>0, <1>1, GoToType DEF IInv, TypeOK, Labels
  <2>2. OwnershipInv'
    BY <1>0, <1>1, SubsAssumption DEF IInv, TypeOK, OwnershipInv, GoTo
  <2>3. KeyedBySlug' /\ HeldMatches'
    BY <1>1 DEF IInv, TypeOK, OwnershipInv, KeyedBySlug, HeldMatches, GoTo
  <2>4. RouteInv'
    BY <1>1 DEF IInv, TypeOK, RouteInv, OnRoute, GoTo
  <2> QED BY <2>1, <2>2, <2>3, <2>4 DEF IInv
<1>2. CASE \E s \in ById(mgr, job[p].ch.id) :
             /\ job' = [job EXCEPT ![p].ch = mgr[s].ch]
             /\ pc' = [pc EXCEPT ![p] = AfterLookup(p)]
             /\ reply' = None
  <2> PICK s \in ById(mgr, job[p].ch.id) :
        /\ job' = [job EXCEPT ![p].ch = mgr[s].ch]
        /\ pc' = [pc EXCEPT ![p] = AfterLookup(p)]
        /\ reply' = None
    BY <1>2
  <2>1. mgr[s].ch \in Catalog
    BY DEF ById, IInv, TypeOK, Entries
  <2>2. job'[p] \in Jobs /\ job' = [job EXCEPT ![p] = job'[p]]
    BY <1>0, <2>1 DEF IInv, TypeOK, Jobs
  <2>3. OnRoute(p, AfterLookup(p)) /\ AfterLookup(p) \in {"delete", "pausegw", "scan"}
    BY DEF IInv, RouteInv, OnRoute, AfterLookup, Destroys, Pauses, Resumes
  <2>4. TypeOK'
    BY <2>2, <2>3 DEF IInv, TypeOK, Labels
  <2>5. OwnershipInv'
    BY <2>2, <2>3, SubsAssumption DEF IInv, TypeOK, OwnershipInv
  <2>6. KeyedBySlug'
    BY DEF IInv, KeyedBySlug
  <2>7. HeldMatches'
    BY <2>2 DEF IInv, TypeOK, OwnershipInv, HeldMatches
  <2>8. RouteInv'
    BY <2>3 DEF IInv, TypeOK, RouteInv
  <2> QED BY <2>4, <2>5, <2>6, <2>7, <2>8 DEF IInv
<1> QED BY <1>1, <1>2

\* DeleteChannel empties one place of one table.
LEMMA Emptied ==
  ASSUME TypeOK, NEW t \in Types, NEW s \in Slugs, gw' = [gw EXCEPT ![t][s] = None]
  PROVE  /\ gw' \in [Types -> [Slugs -> Catalog \cup {None}]]
         /\ \A u \in Types, r \in Slugs :
              gw'[u][r] = IF u = t /\ r = s THEN None ELSE gw[u][r]
  BY DEF TypeOK

LEMMA DeleteFromInv ==
  ASSUME IInv, NEW p \in Subs, pc[p] = "delete", NEW targets \in SUBSET Slugs,
         DeleteFrom(p, targets)
  PROVE  IInv'
<1> USE DEF DeleteFrom, bootVars, locks
<1>0. job[p] \in Jobs /\ job[p].ch.type \in Types
  BY ChannelFacts DEF IInv, TypeOK, OwnershipInv, Jobs
<1>1. OnRoute(p, AfterDelete(p)) /\ AfterDelete(p) \in {"remove", "init"}
  BY DEF IInv, RouteInv, OnRoute, AfterDelete, Destroys, Updates
<1>2. gw' = gw \/ \E s \in Slugs : gw' = [gw EXCEPT ![job[p].ch.type][s] = None]
  OBVIOUS
<1>3. TypeOK'
  <2>1. gw' \in [Types -> [Slugs -> Catalog \cup {None}]]
    BY <1>0, <1>2, Emptied DEF IInv, TypeOK
  <2>2. /\ pc' \in [Subs -> Labels] /\ job' \in [Subs -> Jobs \cup {None}]
        /\ reply' \in Replies \cup {None}
    BY <1>1, GoToType DEF IInv, Labels
  <2> QED BY <2>1, <2>2 DEF IInv, TypeOK
<1>4. OwnershipInv'
  BY <1>1, SubsAssumption DEF IInv, TypeOK, OwnershipInv, GoTo
<1>5. KeyedBySlug'
  <2>1. \A t \in Types, s \in Slugs : gw'[t][s] # None => gw'[t][s] = gw[t][s]
    <3>1. CASE gw' = gw
      BY <3>1
    <3>2. ASSUME NEW r \in Slugs, gw' = [gw EXCEPT ![job[p].ch.type][r] = None]
          PROVE  \A t \in Types, s \in Slugs : gw'[t][s] # None => gw'[t][s] = gw[t][s]
      BY <1>0, <3>2, Emptied DEF IInv
    <3> QED BY <1>2, <3>1, <3>2
  <2> QED BY <2>1 DEF IInv, KeyedBySlug
<1>6. HeldMatches' /\ RouteInv'
  BY <1>1 DEF IInv, TypeOK, OwnershipInv, HeldMatches, RouteInv, GoTo
<1> QED BY <1>3, <1>4, <1>5, <1>6 DEF IInv

LEMMA WxLockInv ==
  ASSUME IInv, NEW p \in Subs, WxLock(p)
  PROVE  IInv'
<1> USE DEF WxLock, bootVars, tables
<1>1. TypeOK'
  BY GoToType DEF IInv, TypeOK, Labels
<1>2. OwnershipInv'
  BY SubsAssumption DEF IInv, TypeOK, OwnershipInv, GoTo
<1>3. KeyedBySlug' /\ HeldMatches'
  BY DEF IInv, TypeOK, OwnershipInv, KeyedBySlug, HeldMatches, GoTo
<1>4. RouteInv'
  BY DEF IInv, TypeOK, RouteInv, OnRoute, GoTo
<1> QED BY <1>1, <1>2, <1>3, <1>4 DEF IInv

LEMMA WxDeleteInv ==
  ASSUME IInv, NEW p \in Subs, WxDeleteChannel(p)
  PROVE  IInv'
<1> USE DEF WxDeleteChannel, bootVars
<1>0. job[p] \in Jobs
  BY DEF IInv, TypeOK, OwnershipInv
<1>1. OnRoute(p, AfterDelete(p)) /\ AfterDelete(p) \in {"remove", "init"}
  BY DEF IInv, RouteInv, OnRoute, AfterDelete, Destroys, Updates
<1>2. \/ GoTo(p, AfterDelete(p))
      \/ GoTo(p, "error")
      \/ GoTo(p, "init") /\ AfterDelete(p) = "init"
  BY DEF AfterDelete
<1>3. /\ pc' \in [Subs -> Labels] /\ job' \in [Subs -> Jobs \cup {None}]
      /\ reply' \in Replies \cup {None}
  BY <1>0, <1>1, <1>2, GoToType DEF IInv, Labels
<1>4. gw' = gw \/ \E s \in Slugs : gw' = [gw EXCEPT !["weixin"][s] = None]
  BY DEF Served
<1>5. gw' \in [Types -> [Slugs -> Catalog \cup {None}]]
  BY <1>4 DEF IInv, TypeOK, Types
<1>6. TypeOK'
  BY <1>3, <1>5 DEF IInv, TypeOK
<1>7. OwnershipInv'
  BY <1>0, <1>1, <1>2, SubsAssumption DEF IInv, TypeOK, OwnershipInv, GoTo
<1>8. KeyedBySlug'
  BY <1>4 DEF IInv, TypeOK, KeyedBySlug, Types
<1>9. HeldMatches'
  BY <1>2 DEF IInv, TypeOK, OwnershipInv, HeldMatches, GoTo
<1>10. RouteInv'
  BY <1>1, <1>2 DEF IInv, TypeOK, RouteInv, OnRoute, GoTo
<1> QED BY <1>6, <1>7, <1>8, <1>9, <1>10 DEF IInv

LEMMA MatchInv ==
  ASSUME IInv, NEW p \in Subs, MatchChannel(p)
  PROVE  IInv'
<1> USE DEF MatchChannel, bootVars, tables, locks
<1>1. CASE GoTo(p, "ok") /\ UNCHANGED held
  <2>1. TypeOK'
    BY <1>1, GoToType DEF IInv, TypeOK, Labels
  <2>2. OwnershipInv'
    BY <1>1, SubsAssumption DEF IInv, TypeOK, OwnershipInv, GoTo
  <2>3. KeyedBySlug' /\ HeldMatches' /\ RouteInv'
    BY <1>1 DEF IInv, TypeOK, OwnershipInv, KeyedBySlug, HeldMatches, RouteInv, OnRoute, GoTo
  <2> QED BY <2>1, <2>2, <2>3 DEF IInv
<1>2. ASSUME NEW s \in ByIdOrSlug(mgr, job[p].ch.id),
             held' = [held EXCEPT ![p] = [slug |-> s, entry |-> mgr[s]]],
             GoTo(p, "drop")
      PROVE  IInv'
  <2> USE <1>2
  <2>1. /\ s \in Slugs /\ mgr[s] \in Entries /\ mgr[s].ch.slug = s
        /\ mgr[s].ch.id = job[p].ch.id \/ s = job[p].ch.id
    BY DEF ByIdOrSlug, IInv, TypeOK, KeyedBySlug
  <2>2. [slug |-> s, entry |-> mgr[s]] \in Kept
    BY <2>1 DEF Kept
  <2>3. TypeOK'
    BY <2>2, GoToType DEF IInv, TypeOK, Labels
  <2>4. OwnershipInv'
    BY <2>2, SubsAssumption DEF IInv, TypeOK, OwnershipInv, GoTo
  <2>5. KeyedBySlug'
    BY <2>1 DEF IInv, TypeOK, KeyedBySlug
  <2>6. p \in Destroys
    BY DEF IInv, RouteInv, OnRoute
  <2>7. HeldMatches'
    BY <2>1, <2>6 DEF IInv, TypeOK, HeldMatches, GoTo
  <2>8. RouteInv'
    BY <2>6 DEF IInv, TypeOK, RouteInv, OnRoute, GoTo
  <2> QED BY <2>3, <2>4, <2>5, <2>7, <2>8 DEF IInv
<1> QED BY <1>1, <1>2

LEMMA RemoveInv ==
  ASSUME IInv, NEW p \in Subs, RemoveChannel(p)
  PROVE  IInv'
<1> USE DEF RemoveChannel, bootVars, locks
<1>1. TypeOK'
  BY GoToType DEF IInv, TypeOK, Labels
<1>2. OwnershipInv'
  BY SubsAssumption DEF IInv, TypeOK, OwnershipInv, GoTo
<1>3. KeyedBySlug'
  BY DEF IInv, TypeOK, KeyedBySlug
<1>4. HeldMatches' /\ RouteInv'
  BY DEF IInv, TypeOK, OwnershipInv, HeldMatches, RouteInv, OnRoute, GoTo
<1> QED BY <1>1, <1>2, <1>3, <1>4 DEF IInv

LEMMA PauseHandlerInv ==
  ASSUME IInv, NEW p \in Subs, PauseHandler(p)
  PROVE  IInv'
<1> USE DEF PauseHandler, bootVars, locks
<1>1. refreshing' \subseteq Slugs
  BY DEF IInv, TypeOK
<1>2. TypeOK'
  BY <1>1, GoToType DEF IInv, TypeOK, Labels
<1>3. OwnershipInv'
  BY SubsAssumption DEF IInv, TypeOK, OwnershipInv, GoTo
<1>4. KeyedBySlug' /\ HeldMatches'
  BY DEF IInv, TypeOK, OwnershipInv, KeyedBySlug, HeldMatches, GoTo
<1>5. RouteInv'
  BY DEF IInv, TypeOK, RouteInv, OnRoute, GoTo
<1> QED BY <1>2, <1>3, <1>4, <1>5 DEF IInv

LEMMA ScanInv ==
  ASSUME IInv, NEW p \in Subs, ScanChannels(p)
  PROVE  IInv'
<1> USE DEF ScanChannels, bootVars
<1>0. job[p] \in Jobs
  BY DEF IInv, TypeOK, OwnershipInv
<1>1. CASE /\ GoTo(p, IF p \in Pauses THEN "ok" ELSE "error")
           /\ UNCHANGED <<mgr, mgrLock, held>>
  <2>1. TypeOK'
    BY <1>0, <1>1, GoToType DEF IInv, TypeOK, Labels
  <2>2. OwnershipInv'
    BY <1>1, SubsAssumption DEF IInv, TypeOK, OwnershipInv, GoTo
  <2>3. KeyedBySlug' /\ HeldMatches' /\ RouteInv'
    BY <1>1 DEF IInv, TypeOK, OwnershipInv, KeyedBySlug, HeldMatches, RouteInv, OnRoute, GoTo
  <2> QED BY <2>1, <2>2, <2>3 DEF IInv
<1>2. ASSUME NEW s \in ByIdOrSlug(mgr, job[p].ch.id), NEW e,
             e = [ch |-> mgr[s].ch, status |-> NewStatus(p)],
             mgr' = [mgr EXCEPT ![s] = e],
             held' = [held EXCEPT ![p] = [slug |-> s, entry |-> e]],
             mgrLock' = p, GoTo(p, "writeback")
      PROVE  IInv'
  <2> USE <1>2
  <2>1. /\ s \in Slugs /\ mgr[s] \in Entries /\ mgr[s].ch.slug = s
        /\ mgr[s].ch.id = job[p].ch.id \/ s = job[p].ch.id
    BY DEF ByIdOrSlug, IInv, TypeOK, KeyedBySlug
  <2>2. e \in Entries /\ e.ch = mgr[s].ch
    BY <2>1 DEF Entries, Statuses, NewStatus
  <2>3. [slug |-> s, entry |-> e] \in Kept
    BY <2>1, <2>2 DEF Kept
  <2>4. TypeOK'
    BY <2>1, <2>2, <2>3, GoToType DEF IInv, TypeOK, Labels
  <2>5. OwnershipInv'
    BY <2>3, SubsAssumption DEF IInv, TypeOK, OwnershipInv, GoTo
  <2>6. KeyedBySlug'
    BY <2>1, <2>2 DEF IInv, TypeOK, KeyedBySlug
  <2>7. HeldMatches'
    BY <2>1, <2>2 DEF IInv, TypeOK, HeldMatches, GoTo
  <2>8. RouteInv'
    BY DEF IInv, TypeOK, RouteInv, OnRoute, GoTo
  <2> QED BY <2>4, <2>5, <2>6, <2>7, <2>8 DEF IInv
<1> QED BY <1>1, <1>2

LEMMA WriteBackInv ==
  ASSUME IInv, NEW p \in Subs, WriteBack(p)
  PROVE  IInv'
<1> USE DEF WriteBack, bootVars
<1>0. job[p] \in Jobs /\ held[p] \in Kept
  BY DEF IInv, TypeOK, OwnershipInv
<1>1. /\ held[p].slug \in Slugs /\ held[p].entry \in Entries
      /\ held[p].entry.ch.slug = held[p].slug
  BY <1>0, SubsAssumption DEF IInv, KeyedBySlug, Kept, OwnershipInv
<1>2. TypeOK'
  BY <1>0, <1>1, GoToType DEF IInv, TypeOK, Labels
<1>3. OwnershipInv'
  BY SubsAssumption DEF IInv, TypeOK, OwnershipInv, GoTo
<1>4. KeyedBySlug'
  BY <1>1 DEF IInv, TypeOK, KeyedBySlug
<1>5. HeldMatches' /\ RouteInv'
  BY DEF IInv, TypeOK, OwnershipInv, HeldMatches, RouteInv, OnRoute, GoTo
<1> QED BY <1>2, <1>3, <1>4, <1>5 DEF IInv

LEMMA RespondInv ==
  ASSUME IInv, NEW p \in Subs, Respond(p)
  PROVE  IInv'
<1> USE DEF Respond, bootVars, tables, locks
<1>1. job[p] \in Jobs /\ job[p].ch \in Catalog
  BY DEF IInv, TypeOK, OwnershipInv, Jobs
<1>2. reply' \in Replies \cup {None}
  BY <1>1 DEF Reply, Replies
<1>3. TypeOK'
  BY <1>2 DEF IInv, TypeOK, Labels
<1>4. OwnershipInv'
  BY SubsAssumption DEF IInv, TypeOK, OwnershipInv
<1>5. KeyedBySlug' /\ HeldMatches' /\ RouteInv'
  BY DEF IInv, TypeOK, OwnershipInv, KeyedBySlug, HeldMatches, RouteInv, OnRoute
<1> QED BY <1>3, <1>4, <1>5 DEF IInv

LEMMA SubscribeInv ==
  ASSUME IInv, NEW subjects, NEW next \in Phases, SubscribeNext(subjects, next)
  PROVE  IInv'
<1> USE DEF SubscribeNext, tables, locks
<1>1. TypeOK'
  BY DEF IInv, TypeOK
<1>2. OwnershipInv' /\ KeyedBySlug' /\ HeldMatches' /\ RouteInv'
  BY DEF IInv, OwnershipInv, KeyedBySlug, HeldMatches, RouteInv
<1> QED BY <1>1, <1>2 DEF IInv

LEMMA InitNextInv ==
  ASSUME IInv, InitNext
  PROVE  IInv'
<1> USE DEF InitNext, locks
<1> PICK e \in todo, cfg \in Configs :
      /\ Installs(e.ch, cfg)
      /\ todo' = todo \ {e}
      /\ filing' = IF cfg = "bad" THEN None ELSE e
  OBVIOUS
<1>0. e \in Entries /\ e.ch \in Catalog
  BY DEF IInv, TypeOK, Entries
<1>1. /\ gw' \in [Types -> [Slugs -> Catalog \cup {None}]]
      /\ refreshing' \subseteq Slugs
      /\ \A t \in Types, s \in Slugs :
           gw'[t][s] # gw[t][s] => gw'[t][s] = e.ch /\ s = e.ch.slug /\ t = e.ch.type
  BY <1>0, InstallsType DEF IInv
<1>2. TypeOK'
  BY <1>0, <1>1 DEF IInv, TypeOK
<1>3. KeyedBySlug'
  BY <1>1 DEF IInv, KeyedBySlug
<1>4. OwnershipInv' /\ HeldMatches' /\ RouteInv'
  BY DEF IInv, OwnershipInv, HeldMatches, RouteInv
<1> QED BY <1>2, <1>3, <1>4 DEF IInv

LEMMA FileNextInv ==
  ASSUME IInv, FileNext
  PROVE  IInv'
<1> USE DEF FileNext, locks
<1>0. filing \in Entries /\ filing.ch.slug \in Slugs
  BY ChannelFacts DEF IInv, TypeOK, Entries
<1>1. TypeOK'
  BY <1>0 DEF IInv, TypeOK
<1>2. KeyedBySlug'
  BY <1>0 DEF IInv, TypeOK, KeyedBySlug
<1>3. OwnershipInv' /\ HeldMatches' /\ RouteInv'
  BY DEF IInv, OwnershipInv, HeldMatches, RouteInv
<1> QED BY <1>1, <1>2, <1>3 DEF IInv

LEMMA BootInv ==
  ASSUME IInv, Boot
  PROVE  IInv'
<1>1. CASE SubscribeChannelEvents \/ SubscribePeerSyncEvents
  BY <1>1, SubscribeInv DEF SubscribeChannelEvents, SubscribePeerSyncEvents, Phases
<1>2. CASE SubscribeMigrationEvents \/ Serve
  BY <1>2 DEF SubscribeMigrationEvents, Serve, tables, locks, Phases, IInv, TypeOK,
              OwnershipInv, KeyedBySlug, HeldMatches, RouteInv
<1>3. CASE ListChannels
  BY <1>3 DEF ListChannels, tables, locks, Phases, IInv, TypeOK,
              OwnershipInv, KeyedBySlug, HeldMatches, RouteInv
<1> QED BY <1>1, <1>2, <1>3, InitNextInv, FileNextInv DEF Boot

LEMMA CrashInv ==
  ASSUME Crash
  PROVE  IInv'
<1>1. TypeOK'
  BY DEF Crash, TypeOK, Phases, Labels
<1>2. OwnershipInv' /\ KeyedBySlug' /\ HeldMatches' /\ RouteInv'
  BY SubsAssumption DEF Crash, OwnershipInv, KeyedBySlug, HeldMatches, RouteInv, OnRoute
<1> QED BY <1>1, <1>2 DEF IInv

LEMMA ReceiveInv ==
  ASSUME IInv, Receive
  PROVE  IInv'
<1> USE DEF Ready, IInv, TypeOK, OnRoute
<1>1. CASE OnChannelCreate
  BY <1>1, AcceptInv, RejectInv DEF OnChannelCreate, Reject, Accept, Creates
<1>2. CASE OnChannelUpdate
  BY <1>2, AcceptInv, RejectInv DEF OnChannelUpdate, Reject, Accept, UpdateStart, Updates
<1>3. CASE OnChannelDestroy
  BY <1>3, AcceptInv, RejectInv DEF OnChannelDestroy, Reject, Accept, Destroys, Configs
<1>4. CASE OnChannelPause
  BY <1>4, AcceptInv, RejectInv DEF OnChannelPause, Reject, Accept, Pauses, Configs
<1>5. CASE OnChannelResume
  BY <1>5, AcceptInv, RejectInv DEF OnChannelResume, Reject, Accept, Resumes, Configs
<1>6. CASE OnSyncCreate
  BY <1>6, AcceptInv DEF OnSyncCreate, Accept, Creates
<1>7. CASE OnSyncUpdate
  BY <1>7, AcceptInv DEF OnSyncUpdate, Accept, UpdateStart, Updates
<1>8. CASE OnSyncDestroy
  BY <1>8, AcceptInv DEF OnSyncDestroy, Accept, Destroys, Configs
<1>9. CASE OnSyncPause
  BY <1>9, AcceptInv DEF OnSyncPause, Accept, Pauses, Configs
<1>10. CASE OnSyncResume
  BY <1>10, AcceptInv DEF OnSyncResume, Accept, Resumes, Configs
<1> QED BY <1>1, <1>2, <1>3, <1>4, <1>5, <1>6, <1>7, <1>8, <1>9, <1>10 DEF Receive

LEMMA HandleInv ==
  ASSUME IInv, NEW p \in Subs, Handle(p)
  PROVE  IInv'
<1>1. CASE FeishuDeleteChannel(p)
  <2>1. FeishuTargets(gw["feishu"], job[p].ch.id) \in SUBSET Slugs
    BY DEF FeishuTargets, Served
  <2> QED BY <1>1, <2>1, DeleteFromInv DEF FeishuDeleteChannel
<1>2. CASE QQDeleteChannel(p)
  <2>1. QQTargets(gw["qqbot"], job[p].ch.id) \in SUBSET Slugs
    BY DEF QQTargets, Served
  <2> QED BY <1>2, <2>1, DeleteFromInv DEF QQDeleteChannel
<1> QED
  BY <1>1, <1>2, InstallChannelInv, FileChannelInv, GetChannelInv, WxLockInv, WxDeleteInv,
     MatchInv, RemoveInv, PauseHandlerInv, ScanInv, WriteBackInv, RespondInv DEF Handle

LEMMA NextInv == IInv /\ [Next]_vars => IInv'
<1> SUFFICES ASSUME IInv, [Next]_vars PROVE IInv'
  OBVIOUS
<1>1. CASE Receive
  BY <1>1, ReceiveInv
<1>2. CASE \E p \in Subs : Handle(p)
  BY <1>2, HandleInv
<1>3. CASE Boot
  BY <1>3, BootInv
<1>4. CASE Throw \/ StartFails
  BY <1>4, CrashInv DEF Throw, StartFails
<1>5. CASE Restart
  BY <1>5 DEF Restart, tables, locks, procs, IInv, TypeOK, OwnershipInv, KeyedBySlug,
              HeldMatches, RouteInv
<1>6. CASE UNCHANGED vars
  BY <1>6 DEF vars, bootVars, tables, locks, procs, IInv, TypeOK, OwnershipInv,
              KeyedBySlug, HeldMatches, RouteInv
<1> QED BY <1>1, <1>2, <1>3, <1>4, <1>5, <1>6 DEF Next

\* The invariant that the theorems rest on holds in every state.
THEOREM Invariance == Spec => []IInv
  BY InitInv, NextInv, PTL DEF Spec

\* Every variable keeps its type.
THEOREM TypeCorrect == Spec => []TypeOK
  BY Invariance, PTL DEF IInv

\* The lock discipline: a subject holds a lock exactly in the step the code
\* holds it, so that no two hold one at a time, and has an entry in hand exactly
\* between finding it and the write that it is for.
THEOREM Ownership == Spec => []OwnershipInv
  BY Invariance, PTL DEF IInv

\* No table ever has a channel under another tenant's slug, or in another
\* type's table, whatever races and crashes happen.
THEOREM Keyed == Spec => []KeyedBySlug
  BY Invariance, PTL DEF IInv

-----------------------------------------------------------------------------
(* The nested locks.                                                       *)

\* Who holds the manager's lock is about to write back, and asks for nothing;
\* who holds WxGateway's may ask for the manager's and for nothing else.
LEMMA HoldersGoOn ==
  ASSUME TypeOK, OwnershipInv
  PROVE  /\ mgrLock # None => mgrLock \in Busy /\ WaitsFor(mgrLock) = {}
         /\ wxLock # None => wxLock \in Busy /\ WaitsFor(wxLock) \subseteq {mgrLock} \ {None}
<1>1. ASSUME mgrLock # None
      PROVE  mgrLock \in Busy /\ WaitsFor(mgrLock) = {}
  <2>1. mgrLock \in Subs /\ pc[mgrLock] = "writeback"
    BY <1>1 DEF TypeOK, OwnershipInv
  <2> QED BY <2>1 DEF Busy, WaitsFor, NeedsMgr, NeedsWx
<1>2. ASSUME wxLock # None
      PROVE  wxLock \in Busy /\ WaitsFor(wxLock) \subseteq {mgrLock} \ {None}
  <2>1. wxLock \in Subs /\ pc[wxLock] = "wxdelete"
    BY <1>2 DEF TypeOK, OwnershipInv
  <2> QED BY <2>1, SubsAssumption DEF Busy, WaitsFor, NeedsMgr, NeedsWx
<1> QED BY <1>1, <1>2

\* Neither requests, of any number, nor the boot ever wait for each other in a
\* circle, or for a lock that nobody will give back.
THEOREM NoCircle == Spec => []NoDeadlock
<1>1. IInv => NoDeadlock
  <2> SUFFICES ASSUME IInv, NEW p \in {mgrLock, wxLock} \ {None}
               PROVE  /\ p \in Busy
                      /\ \A q \in WaitsFor(p) : q \in Busy /\ WaitsFor(q) = {}
    BY DEF NoDeadlock
  <2> QED BY HoldersGoOn DEF IInv
<1> QED BY <1>1, Invariance, PTL

\* What a goroutine's next step asks of the state it is taken in.
MayStep(p) ==
  \/ pc[p] \in {"file", "remove", "drop", "writeback", "ok", "error"}
  \/ pc[p] \in {"lookup", "scan"} /\ mgrLock = None
  \/ /\ pc[p] = "init" /\ mgrLock = None
     /\ job[p].cfg = "good" /\ job[p].ch.type = "weixin" => wxLock = None
  \/ /\ pc[p] \in {"delete", "pausegw"} /\ mgrLock = None
     /\ job[p].ch.type \in Types
     /\ job[p].ch.type = "weixin" => wxLock = None
  \/ /\ pc[p] = "wxdelete"
     /\ job[p].ch.id \in Served(gw["weixin"]) \/ mgrLock = None
     /\ WxTried(gw["weixin"], mgr, job[p].ch.id) # {}

LEMMA FreeToStep ==
  ASSUME IInv, NEW p \in Busy, WaitsFor(p) = {}
  PROVE  MayStep(p)
<1>1. p \in Subs /\ pc[p] # "idle" /\ job[p] \in Jobs
  BY DEF Busy, IInv, TypeOK, OwnershipInv
<1>2. NeedsMgr(p) => mgrLock = None
  <2>1. NeedsMgr(p) => mgrLock # p
    BY <1>1 DEF NeedsMgr, IInv, OwnershipInv
  <2> QED BY <1>1, <2>1 DEF WaitsFor, IInv, TypeOK
<1>3. NeedsWx(p) => wxLock = None
  <2>1. NeedsWx(p) => wxLock # p
    BY <1>1 DEF NeedsWx, IInv, OwnershipInv
  <2> QED BY <1>1, <2>1 DEF WaitsFor, IInv, TypeOK
<1>4. WxTried(gw["weixin"], mgr, job[p].ch.id) # {}
  BY DEF WxTried
<1>5. job[p].ch.type \in Types
  BY <1>1, ChannelFacts DEF Jobs
<1>6. pc[p] \in Labels
  BY <1>1 DEF IInv, TypeOK
<1> QED BY <1>1, <1>2, <1>3, <1>4, <1>5, <1>6 DEF MayStep, NeedsMgr, NeedsWx, Labels

\* A process that is down handles nothing.
LEMMA BusyIsUp == Spec => [](Busy # {} => up)
<1>1. Init => (Busy # {} => up)
  BY DEF Init
<1>2. IInv /\ (Busy # {} => up) /\ [Next]_vars => (Busy # {} => up)'
  <2> SUFFICES ASSUME IInv, Busy # {} => up, [Next]_vars
               PROVE  (Busy # {} => up)'
    OBVIOUS
  <2>1. CASE Receive
    BY <2>1 DEF Receive, OnChannelCreate, OnChannelUpdate, OnChannelDestroy,
       OnChannelPause, OnChannelResume, OnSyncCreate, OnSyncUpdate, OnSyncDestroy,
       OnSyncPause, OnSyncResume, Accept, Reject, Ready, bootVars
  <2>2. ASSUME NEW p \in Subs, Handle(p)
        PROVE  up'
    BY <2>2 DEF Handle, InstallChannel, FileChannel, GetChannel, FeishuDeleteChannel,
       QQDeleteChannel, DeleteFrom, WxLock, WxDeleteChannel, MatchChannel, RemoveChannel,
       PauseHandler, ScanChannels, WriteBack, Respond, bootVars
  <2>3. CASE Boot
    BY <2>3 DEF Boot, SubscribeChannelEvents, SubscribePeerSyncEvents, SubscribeNext,
       SubscribeMigrationEvents, ListChannels, InitNext, FileNext, Serve
  <2>4. CASE Throw \/ StartFails
    BY <2>4 DEF Throw, StartFails, Crash, Busy
  <2>5. CASE Restart \/ UNCHANGED vars
    BY <2>5 DEF Restart, vars, bootVars, procs, Busy
  <2> QED BY <2>1, <2>2, <2>3, <2>4, <2>5 DEF Next
<1> QED BY <1>1, <1>2, Invariance, PTL DEF Spec

\* What there is to say of progress without fairness.  As long as requests are in
\* progress, one of them waits for nobody; and whoever waits for nobody finds what
\* its next step asks for: the locks free, a handler for the type of its channel,
\* and in WxGateway's DeleteChannel a slug to try.
THEOREM SomeoneGoesOn ==
  Spec => [](/\ Busy # {} => up /\ \E p \in Busy : WaitsFor(p) = {}
             /\ \A p \in Busy : WaitsFor(p) = {} => MayStep(p))
<1>1. IInv /\ (Busy # {} => up)
        => /\ Busy # {} => up /\ \E p \in Busy : WaitsFor(p) = {}
           /\ \A p \in Busy : WaitsFor(p) = {} => MayStep(p)
  <2> SUFFICES ASSUME IInv, NEW p \in Busy
               PROVE  \E q \in Busy : WaitsFor(q) = {}
    BY FreeToStep
  <2>1. CASE WaitsFor(p) # {}
    <3>1. PICK q \in {mgrLock, wxLock} \ {None} : q \in Subs
      BY <2>1, SubsAssumption DEF WaitsFor
    <3>2. mgrLock # None => mgrLock \in Busy /\ WaitsFor(mgrLock) = {}
      BY HoldersGoOn DEF IInv
    <3>3. wxLock # None => wxLock \in Busy /\ WaitsFor(wxLock) \subseteq {mgrLock} \ {None}
      BY HoldersGoOn DEF IInv
    <3> QED BY <3>1, <3>2, <3>3
  <2> QED BY <2>1
<1> QED BY <1>1, Invariance, BusyIsUp, PTL

-----------------------------------------------------------------------------
(* Isolation of the tenants.                                               *)

\* Ids that are no slugs are no other channel's.
LEMMA NoIdsIsOwn == SlugsAreNotIds => SlugsFindOwn
<1> SUFFICES ASSUME SlugsAreNotIds, NEW c \in Catalog, NEW s \in Slugs,
                    s = c.id \/ <<s, c.id>> \in Suffix
             PROVE  s = c.slug
  BY DEF SlugsFindOwn
<1> QED BY ChannelFacts DEF SlugsAreNotIds

\* With unique ids that are nobody else's slugs, each lookup by an id ends at
\* the slug of the channel that has it.
LEMMA LookupIsOwn ==
  ASSUME UniqueIds, SlugsFindOwn, IInv, NEW c \in Catalog
  PROVE  /\ \A s \in ById(mgr, c.id) : s = c.slug /\ mgr[s].ch = c
         /\ \A s \in ByIdOrSlug(mgr, c.id) : s = c.slug
         /\ \A s \in WxTried(gw["weixin"], mgr, c.id) \cap Served(gw["weixin"]) : s = c.slug
         /\ \A s \in FeishuTargets(gw["feishu"], c.id) : s = c.slug
         /\ \A s \in QQTargets(gw["qqbot"], c.id) : s = c.slug
         /\ c.id \in Slugs => c.id = c.slug
<1>1. \A s \in Slugs : s = c.id \/ <<s, c.id>> \in Suffix => s = c.slug
  BY DEF SlugsFindOwn
<1>2. \A s \in Slugs : mgr[s] # None => mgr[s].ch \in Catalog /\ mgr[s].ch.slug = s
  BY DEF IInv, TypeOK, KeyedBySlug, Entries
<1>3. \A s \in ById(mgr, c.id) : s = c.slug /\ mgr[s].ch = c
  BY <1>2 DEF UniqueIds, ById
<1>4. \A s \in ByIdOrSlug(mgr, c.id) : s = c.slug
  BY <1>1, <1>2 DEF UniqueIds, ByIdOrSlug
<1>5. \A s \in WxTried(gw["weixin"], mgr, c.id) \cap Served(gw["weixin"]) : s = c.slug
  BY <1>1, <1>3 DEF WxTried, Served
<1>6. /\ \A s \in FeishuTargets(gw["feishu"], c.id) : s = c.slug
      /\ \A s \in QQTargets(gw["qqbot"], c.id) : s = c.slug
  BY <1>1 DEF FeishuTargets, QQTargets, Served
<1> QED BY <1>1, <1>3, <1>4, <1>5, <1>6

\* A handler's step changes the tables at its own channel's slug at most.
LEMMA HandleIsolated ==
  ASSUME UniqueIds, SlugsFindOwn, IInv, NEW p \in Subs, Handle(p),
         NEW s \in Slugs, SlotChanges(s)
  PROVE  Acts(p, s)
<1>0. /\ pc[p] # "idle" => job[p] \in Jobs /\ job[p].ch \in Catalog
      /\ pc[p] # "idle" => job[p] # None
  BY DEF IInv, TypeOK, OwnershipInv, Jobs
<1> USE DEF SlotChanges, Acts, bootVars, tables, locks, AfterDelete
<1>1. CASE InstallChannel(p)
  <2>1. job[p].ch \in Catalog /\ job[p].cfg \in Configs /\ job[p] # None
    BY <1>0, <1>1 DEF InstallChannel, Jobs
  <2>2. s = job[p].ch.slug
    BY <1>1, <2>1, InstallsType DEF InstallChannel, IInv
  <2>3. pc'[p] \notin {pc[p], "idle"}
    BY <1>1 DEF InstallChannel, GoTo, IInv, TypeOK
  <2> QED BY <2>1, <2>2, <2>3
<1>2. CASE FileChannel(p)
  BY <1>0, <1>2, ChannelFacts DEF FileChannel, GoTo, IInv, TypeOK
<1>3. CASE FeishuDeleteChannel(p) \/ QQDeleteChannel(p)
  <2>1. job[p].ch \in Catalog
    BY <1>0, <1>3 DEF FeishuDeleteChannel, QQDeleteChannel
  <2>2. PICK r \in Slugs : r = job[p].ch.slug /\ gw' = [gw EXCEPT ![job[p].ch.type][r] = None]
    BY <1>3, <2>1, LookupIsOwn
       DEF FeishuDeleteChannel, QQDeleteChannel, DeleteFrom, FeishuTargets, QQTargets, Served
  <2>3. /\ job[p] # None /\ pc'[p] \notin {pc[p], "idle"}
        /\ UNCHANGED <<mgr, refreshing>>
    BY <1>0, <1>3
       DEF FeishuDeleteChannel, QQDeleteChannel, DeleteFrom, GoTo, AfterDelete, IInv, TypeOK
  <2>4. s = r
    BY <1>3, <2>1, <2>2, <2>3, ChannelFacts, Emptied DEF IInv
  <2> QED BY <2>2, <2>3, <2>4
<1>4. CASE WxDeleteChannel(p)
  <2>1. job[p].ch \in Catalog /\ job[p] # None
    BY <1>0, <1>4 DEF WxDeleteChannel
  <2>2. PICK r \in WxTried(gw["weixin"], mgr, job[p].ch.id) :
          /\ r \in Served(gw["weixin"])
          /\ gw' = [gw EXCEPT !["weixin"][r] = None]
          /\ refreshing' = refreshing \ {r}
          /\ GoTo(p, AfterDelete(p))
    BY <1>4 DEF WxDeleteChannel
  <2>3. r = job[p].ch.slug
    BY <2>1, <2>2, LookupIsOwn
  <2>4. r \in Slugs /\ "weixin" \in Types
    BY <2>2 DEF Served, Types
  <2>5. s = r
    BY <1>4, <2>2, <2>4, Emptied DEF WxDeleteChannel, IInv
  <2>6. pc'[p] \notin {pc[p], "idle"}
    BY <1>4, <2>2 DEF WxDeleteChannel, GoTo, AfterDelete, IInv, TypeOK
  <2> QED BY <2>1, <2>3, <2>5, <2>6
<1>5. CASE PauseHandler(p)
  <2>1. job[p] # None /\ (job[p].ch.id \in Slugs => job[p].ch.id = job[p].ch.slug)
    BY <1>0, <1>5, LookupIsOwn DEF PauseHandler
  <2>2. pc'[p] \notin {pc[p], "idle"}
    BY <1>5 DEF PauseHandler, GoTo, IInv, TypeOK
  <2> QED BY <1>5, <2>1, <2>2 DEF PauseHandler
<1>6. CASE ScanChannels(p)
  <2>1. job[p].ch \in Catalog /\ job[p] # None
    BY <1>0, <1>6 DEF ScanChannels
  <2>2. s = job[p].ch.slug
    BY <1>6, <2>1, LookupIsOwn DEF ScanChannels, IInv, TypeOK
  <2> QED BY <1>6, <2>1, <2>2 DEF ScanChannels, GoTo, IInv, TypeOK
<1>7. CASE RemoveChannel(p) \/ WriteBack(p)
  <2>1. job[p].ch \in Catalog /\ job[p] # None
    BY <1>0, <1>7 DEF RemoveChannel, WriteBack
  <2>2. held[p] \in Kept /\ held[p] # None
    BY <1>7 DEF RemoveChannel, WriteBack, IInv, TypeOK, OwnershipInv
  <2>3. /\ held[p].entry.ch \in Catalog /\ held[p].slug \in Slugs
        /\ held[p].entry.ch.slug = held[p].slug
    BY <2>2 DEF Kept, Entries, IInv, KeyedBySlug
  <2>4. held[p].entry.ch.id = job[p].ch.id \/ held[p].slug = job[p].ch.id
    BY <2>2 DEF IInv, HeldMatches
  <2>5. held[p].slug = job[p].ch.slug
    BY <2>1, <2>3, <2>4, LookupIsOwn DEF UniqueIds
  <2>6. s = held[p].slug
    BY <1>7, <2>3 DEF RemoveChannel, WriteBack, IInv, TypeOK
  <2> QED BY <1>7, <2>1, <2>5, <2>6 DEF RemoveChannel, WriteBack, GoTo, IInv, TypeOK
<1>8. CASE GetChannel(p) \/ WxLock(p) \/ MatchChannel(p) \/ Respond(p)
  BY <1>8 DEF GetChannel, WxLock, MatchChannel, Respond
<1> QED BY <1>1, <1>2, <1>3, <1>4, <1>5, <1>6, <1>7, <1>8 DEF Handle

\* The boot's step changes them at the slug of the listed channel it is at.
LEMMA BootIsolated ==
  ASSUME IInv, Boot, NEW s \in Slugs, SlotChanges(s)
  PROVE  BootActs(s)
<1> USE DEF SlotChanges, BootActs, tables
<1>1. CASE InitNext
  <2> PICK e \in todo, cfg \in Configs : Installs(e.ch, cfg) /\ todo' = todo \ {e}
    BY <1>1 DEF InitNext
  <2>1. e.ch \in Catalog
    BY DEF IInv, TypeOK, Entries
  <2>2. s = e.ch.slug
    BY <1>1, <2>1, InstallsType DEF InitNext, IInv
  <2> QED BY <2>2
<1>2. CASE FileNext
  BY <1>2 DEF FileNext, IInv, TypeOK
<1> QED BY <1>1, <1>2 DEF Boot, SubscribeChannelEvents, SubscribePeerSyncEvents,
           SubscribeNext, SubscribeMigrationEvents, ListChannels, Serve

\* When the admin's ids are unique and nobody else's slugs (they are uuids, or
\* the tenant's own slugs), no request ever touches another tenant's entry, client
\* or refresher: what a step does to them it does for the tenant its request, or
\* the admin's list, names.
THEOREM Isolation ==
  ASSUME UniqueIds, SlugsFindOwn
  PROVE  Spec => TenantIsolation
<1>1. ASSUME IInv, [Next]_vars
      PROVE  [up /\ up' => \A s \in Slugs :
                SlotChanges(s) => BootActs(s) \/ \E p \in Subs : Acts(p, s)]_vars
  <2> SUFFICES ASSUME Next, up, up', NEW s \in Slugs, SlotChanges(s)
               PROVE  BootActs(s) \/ \E p \in Subs : Acts(p, s)
    BY <1>1
  <2>1. CASE Receive
    BY <2>1 DEF Receive, OnChannelCreate, OnChannelUpdate, OnChannelDestroy,
       OnChannelPause, OnChannelResume, OnSyncCreate, OnSyncUpdate, OnSyncDestroy,
       OnSyncPause, OnSyncResume, Accept, Reject, SlotChanges, tables
  <2>2. CASE \E p \in Subs : Handle(p)
    BY <1>1, <2>2, HandleIsolated
  <2>3. CASE Boot
    BY <1>1, <2>3, BootIsolated
  <2>4. CASE Throw \/ StartFails \/ Restart
    BY <2>4 DEF Throw, StartFails, Crash, Restart
  <2> QED BY <2>1, <2>2, <2>3, <2>4 DEF Next
<1> QED BY <1>1, Invariance, PTL DEF Spec, TenantIsolation

-----------------------------------------------------------------------------
(* A pause lasts.                                                          *)

\* Only FileChannel, which is a create's, and the write-back of a resume put an
\* entry that is not paused where a paused one was.
LEMMA HandleKeepsPaused ==
  ASSUME IInv, NEW p \in Subs, Handle(p), NEW s \in Slugs,
         mgr[s] # None, mgr[s].status = "paused",
         mgr'[s] # None, mgr'[s].status # "paused"
  PROVE  p \notin Pauses \cup Updates \cup Destroys
<1>1. CASE FileChannel(p)
  BY <1>1 DEF FileChannel, IInv, RouteInv, OnRoute, Creates, Pauses, Updates, Destroys
<1>2. CASE RemoveChannel(p)
  BY <1>2 DEF RemoveChannel, IInv, TypeOK
<1>3. ASSUME p \in Pauses \cup Resumes, NewStatus(p) # "paused"
      PROVE  p \notin Pauses \cup Updates \cup Destroys
  BY <1>3 DEF NewStatus, Pauses, Resumes, Updates, Destroys
<1>4. CASE ScanChannels(p)
  <2>1. PICK r \in ByIdOrSlug(mgr, job[p].ch.id) :
          mgr' = [mgr EXCEPT ![r] = [ch |-> mgr[r].ch, status |-> NewStatus(p)]]
    BY <1>4 DEF ScanChannels
  <2>2. NewStatus(p) # "paused"
    BY <2>1 DEF IInv, TypeOK
  <2>3. p \in Pauses \cup Resumes
    BY <1>4 DEF ScanChannels, IInv, RouteInv, OnRoute
  <2> QED BY <1>3, <2>2, <2>3
<1>5. CASE WriteBack(p)
  <2>1. p \in Pauses \cup Resumes
    BY <1>5 DEF WriteBack, IInv, RouteInv, OnRoute
  <2>2. held[p] # None /\ held[p].entry.status = NewStatus(p)
    BY <1>5, <2>1
       DEF WriteBack, IInv, OwnershipInv, HeldMatches, Destroys, Pauses, Resumes
  <2>3. NewStatus(p) # "paused"
    BY <1>5, <2>2 DEF WriteBack, IInv, TypeOK
  <2> QED BY <1>3, <2>1, <2>3
<1>6. mgr' # mgr
  OBVIOUS
<1> QED BY <1>1, <1>2, <1>4, <1>5, <1>6
        DEF Handle, InstallChannel, GetChannel, FeishuDeleteChannel, QQDeleteChannel,
            DeleteFrom, WxLock, WxDeleteChannel, MatchChannel, PauseHandler, Respond, tables

\* When the admin's ids are unique and nobody else's slugs, only a create or a resume of
\* the tenant's own channel, or the boot's list, ends a pause; an update, a
\* destroy or another pause in between never does.
THEOREM PausesLast ==
  ASSUME UniqueIds, SlugsFindOwn
  PROVE  Spec => PauseLasts
<1>1. ASSUME IInv, [Next]_vars
      PROVE  [up /\ up' => \A s \in Slugs :
                /\ mgr[s] # None /\ mgr[s].status = "paused"
                /\ mgr'[s] # None /\ mgr'[s].status # "paused"
                => BootActs(s)
                   \/ \E p \in Subs \ (Pauses \cup Updates \cup Destroys) : Acts(p, s)]_vars
  <2> SUFFICES ASSUME Next, up, up', NEW s \in Slugs,
                      mgr[s] # None, mgr[s].status = "paused",
                      mgr'[s] # None, mgr'[s].status # "paused"
               PROVE  BootActs(s)
                      \/ \E p \in Subs \ (Pauses \cup Updates \cup Destroys) : Acts(p, s)
    BY <1>1
  <2>1. SlotChanges(s)
    BY DEF SlotChanges
  <2>2. CASE Receive
    BY <2>2 DEF Receive, OnChannelCreate, OnChannelUpdate, OnChannelDestroy,
       OnChannelPause, OnChannelResume, OnSyncCreate, OnSyncUpdate, OnSyncDestroy,
       OnSyncPause, OnSyncResume, Accept, Reject, tables
  <2>3. CASE \E p \in Subs : Handle(p)
    BY <1>1, <2>1, <2>3, HandleIsolated, HandleKeepsPaused
  <2>4. CASE Boot
    BY <1>1, <2>1, <2>4, BootIsolated
  <2>5. CASE Throw \/ StartFails \/ Restart
    BY <2>5 DEF Throw, StartFails, Crash, Restart
  <2> QED BY <2>2, <2>3, <2>4, <2>5 DEF Next
<1> QED BY <1>1, Invariance, PTL DEF Spec, PauseLasts

-----------------------------------------------------------------------------
(* What is listed stays listed.                                            *)

ChannelChanges(s) ==
  mgr'[s] # mgr[s] /\ ~(mgr[s] # None /\ mgr'[s] # None /\ mgr'[s].ch = mgr[s].ch)

\* Four steps write the map.  A create's may put another channel into the place; a
\* destroy's empties the place in which it has found its own channel; a scan changes
\* the status only, and a write-back stores what its scan has found.
LEMMA HandleKeepsListed ==
  ASSUME UniqueIds, SlugsAreNotIds, IInv, NEW p \in Subs, Handle(p),
         NEW s \in Slugs, ChannelChanges(s)
  PROVE  \/ p \in Creates
         \/ /\ p \in Destroys /\ mgr'[s] = None
            /\ held[p] # None /\ held[p].slug = s /\ held[p].entry.ch = job[p].ch
         \/ p \in Pauses \cup Resumes /\ held[p] # None /\ mgr'[s] = held[p].entry
<1> USE DEF ChannelChanges
<1>0. mgr' # mgr
  OBVIOUS
<1>1. CASE FileChannel(p)
  BY <1>1 DEF FileChannel, IInv, RouteInv, OnRoute
<1>2. CASE RemoveChannel(p)
  <2>1. p \in Destroys /\ job[p].ch \in Catalog
    BY <1>2 DEF RemoveChannel, IInv, RouteInv, OnRoute, TypeOK, OwnershipInv, Jobs
  <2>2. held[p] \in Kept /\ held[p] # None
    BY <1>2 DEF RemoveChannel, IInv, TypeOK, OwnershipInv
  <2>3. held[p].slug = s /\ mgr'[s] = None
    BY <1>2, <2>2 DEF RemoveChannel, IInv, TypeOK
  <2>4. held[p].entry.ch \in Catalog /\ held[p].entry.ch.id = job[p].ch.id
    BY <2>1, <2>2, ChannelFacts DEF Kept, Entries, SlugsAreNotIds, IInv, HeldMatches
  <2> QED BY <2>1, <2>2, <2>3, <2>4 DEF UniqueIds
<1>3. CASE ScanChannels(p)
  <2>1. PICK r \in ByIdOrSlug(mgr, job[p].ch.id) :
          mgr' = [mgr EXCEPT ![r] = [ch |-> mgr[r].ch, status |-> NewStatus(p)]]
    BY <1>0, <1>3 DEF ScanChannels
  <2>2. r = s /\ mgr'[s] = [ch |-> mgr[s].ch, status |-> NewStatus(p)] /\ mgr[s] # None
    BY <2>1 DEF IInv, TypeOK, ByIdOrSlug
  <2>3. mgr[s].ch \in Catalog
    BY <2>2 DEF IInv, TypeOK, Entries
  <2>4. mgr'[s] # None
    BY <2>2, <2>3, SubsAssumption DEF Entries, Statuses, NewStatus
  <2> QED BY <2>2, <2>4
<1>4. CASE WriteBack(p)
  <2>1. held[p] # None /\ p \in Pauses \cup Resumes
    BY <1>4 DEF WriteBack, IInv, OwnershipInv, RouteInv, OnRoute
  <2>2. mgr' = [mgr EXCEPT ![held[p].slug] = held[p].entry]
    BY <1>4 DEF WriteBack
  <2> QED BY <2>1, <2>2 DEF IInv, TypeOK
<1> QED BY <1>0, <1>1, <1>2, <1>3, <1>4
        DEF Handle, InstallChannel, GetChannel, FeishuDeleteChannel, QQDeleteChannel,
            DeleteFrom, WxLock, WxDeleteChannel, MatchChannel, PauseHandler, Respond, tables

\* When the admin's ids are unique and no slugs, the place of a listed channel changes
\* hands by the tenant's own creates and by the boot's list, and is emptied only by a
\* destroy that has found its own channel there, although two channels of a tenant
\* share the place and three writers do not take the map's lock; what a pause or a
\* resume has found comes back.
THEOREM ListingsStay ==
  ASSUME UniqueIds, SlugsAreNotIds
  PROVE  Spec => ListedStays
<1>0. SlugsFindOwn
  BY NoIdsIsOwn
<1>1. ASSUME IInv, [Next]_vars
      PROVE  [up /\ up' => \A s \in Slugs : ChannelChanges(s)
                => \/ BootActs(s)
                   \/ \E p \in Subs \cap Creates : Acts(p, s)
                   \/ \E p \in Subs \cap Destroys :
                        /\ Acts(p, s) /\ mgr'[s] = None
                        /\ held[p] # None /\ held[p].slug = s /\ held[p].entry.ch = job[p].ch
                   \/ \E p \in Subs \cap (Pauses \cup Resumes) :
                        Acts(p, s) /\ held[p] # None /\ mgr'[s] = held[p].entry]_vars
  <2> SUFFICES ASSUME Next, up, up', NEW s \in Slugs, ChannelChanges(s)
               PROVE  \/ BootActs(s)
                      \/ \E p \in Subs \cap Creates : Acts(p, s)
                      \/ \E p \in Subs \cap Destroys :
                           /\ Acts(p, s) /\ mgr'[s] = None
                           /\ held[p] # None /\ held[p].slug = s /\ held[p].entry.ch = job[p].ch
                      \/ \E p \in Subs \cap (Pauses \cup Resumes) :
                           Acts(p, s) /\ held[p] # None /\ mgr'[s] = held[p].entry
    BY <1>1
  <2>1. SlotChanges(s)
    BY DEF SlotChanges, ChannelChanges
  <2>2. CASE Receive
    BY <2>2 DEF Receive, OnChannelCreate, OnChannelUpdate, OnChannelDestroy,
       OnChannelPause, OnChannelResume, OnSyncCreate, OnSyncUpdate, OnSyncDestroy,
       OnSyncPause, OnSyncResume, Accept, Reject, tables, ChannelChanges
  <2>3. CASE \E p \in Subs : Handle(p)
    <3> PICK p \in Subs : Handle(p)
      BY <2>3
    <3>1. Acts(p, s)
      BY <1>0, <1>1, <2>1, HandleIsolated
    <3> QED BY <1>1, <3>1, HandleKeepsListed
  <2>4. CASE Boot
    BY <1>1, <2>1, <2>4, BootIsolated
  <2>5. CASE Throw \/ StartFails \/ Restart
    BY <2>5 DEF Throw, StartFails, Crash, Restart
  <2> QED BY <2>2, <2>3, <2>4, <2>5 DEF Next
<1> QED BY <1>1, Invariance, PTL DEF Spec, ListedStays, ChannelChanges

-----------------------------------------------------------------------------
(* The weixin token refreshers.                                            *)

\* Only InitChannel, WxGateway's DeleteChannel and its PauseChannel start or
\* cancel a refresher, and the first two install and remove its client.
LEMMA RefreshedStep ==
  ASSUME WeixinIdsAreNoSlugs, IInv, ServedIsRefreshed, [Next]_vars
  PROVE  ServedIsRefreshed'
<1> USE DEF ServedIsRefreshed
<1>0. "weixin" \in Types
  BY DEF Types
<1>1. ASSUME NEW c \in Catalog, NEW cfg \in Configs, Installs(c, cfg)
      PROVE  ServedIsRefreshed'
  <2>1. c.slug \in Slugs /\ c.type \in Types
    BY ChannelFacts
  <2>2. CASE cfg = "good" /\ c.type = "weixin"
    <3>1. gw' = [gw EXCEPT !["weixin"] = [@ EXCEPT ![c.slug] = c]]
      BY <1>1, <2>2 DEF Installs, InitTable, WxInit
    <3>2. c # None
      BY CatalogAssumption
    <3> QED BY <1>0, <1>1, <2>1, <2>2, <3>1, <3>2 DEF Installs, IInv, TypeOK
  <2>3. CASE ~(cfg = "good" /\ c.type = "weixin")
    <3>1. gw'["weixin"] = gw["weixin"]
      BY <1>0, <1>1, <2>1, <2>3 DEF Installs, InitTable, WxInit, IInv, TypeOK
    <3> QED BY <1>1, <2>3, <3>1 DEF Installs
  <2> QED BY <2>2, <2>3
<1>2. ASSUME NEW p \in Subs, InstallChannel(p)
      PROVE  ServedIsRefreshed'
  <2>1. job[p].ch \in Catalog /\ job[p].cfg \in Configs
    BY <1>2 DEF InstallChannel, IInv, TypeOK, OwnershipInv, Jobs
  <2> QED BY <1>1, <1>2, <2>1 DEF InstallChannel
<1>3. CASE InitNext
  BY <1>1, <1>3 DEF InitNext, IInv, TypeOK, Entries
<1>4. ASSUME NEW p \in Subs, WxDeleteChannel(p)
      PROVE  ServedIsRefreshed'
  <2>1. CASE UNCHANGED <<gw, refreshing>>
    BY <2>1
  <2>2. ASSUME NEW r \in Slugs, gw' = [gw EXCEPT !["weixin"][r] = None],
               refreshing' = refreshing \ {r}
        PROVE  ServedIsRefreshed'
    BY <1>0, <2>2, Emptied DEF IInv
  <2> QED BY <1>4, <2>1, <2>2 DEF WxDeleteChannel, Served
<1>5. ASSUME NEW p \in Subs, FeishuDeleteChannel(p) \/ QQDeleteChannel(p)
      PROVE  ServedIsRefreshed'
  <2>1. job[p].ch.type \in Types \ {"weixin"}
    BY <1>5 DEF FeishuDeleteChannel, QQDeleteChannel, Types
  <2>2. gw'["weixin"] = gw["weixin"]
    BY <1>0, <1>5, <2>1 DEF FeishuDeleteChannel, QQDeleteChannel, DeleteFrom, IInv, TypeOK
  <2> QED BY <1>5, <2>2 DEF FeishuDeleteChannel, QQDeleteChannel, DeleteFrom
<1>6. ASSUME NEW p \in Subs, PauseHandler(p)
      PROVE  ServedIsRefreshed'
  <2>0. job[p].ch \in Catalog
    BY <1>6 DEF PauseHandler, IInv, TypeOK, OwnershipInv, Jobs
  <2>1. job[p].ch.type = "weixin" => job[p].ch.id \notin Slugs
    BY <1>6, <2>0 DEF WeixinIdsAreNoSlugs
  <2> QED BY <1>6, <2>1 DEF PauseHandler
<1>7. CASE Receive
  BY <1>7 DEF Receive, OnChannelCreate, OnChannelUpdate, OnChannelDestroy,
     OnChannelPause, OnChannelResume, OnSyncCreate, OnSyncUpdate, OnSyncDestroy,
     OnSyncPause, OnSyncResume, Accept, Reject, tables
<1>8. CASE \E p \in Subs : Handle(p)
  BY <1>2, <1>4, <1>5, <1>6, <1>8
     DEF Handle, FileChannel, GetChannel, WxLock, MatchChannel, RemoveChannel, ScanChannels,
         WriteBack, Respond, tables
<1>9. CASE Boot
  BY <1>3, <1>9 DEF Boot, SubscribeChannelEvents, SubscribePeerSyncEvents,
     SubscribeNext, SubscribeMigrationEvents, ListChannels, FileNext, Serve, tables
<1>10. CASE Throw \/ StartFails
  BY <1>0, <1>10 DEF Throw, StartFails, Crash
<1>11. CASE Restart \/ UNCHANGED vars
  BY <1>11 DEF Restart, vars, tables
<1> QED BY <1>7, <1>8, <1>9, <1>10, <1>11 DEF Next

\* As long as no weixin channel's id is a slug, every served weixin channel has its
\* token refresher running, and no other has.  (With an id that is a slug a pause
\* finds the client, cancels its refresher and nothing starts it again.)
THEOREM Refreshed ==
  ASSUME WeixinIdsAreNoSlugs
  PROVE  Spec => []ServedIsRefreshed
<1>1. Init => ServedIsRefreshed
  BY DEF Init, ServedIsRefreshed, Types
<1> QED BY <1>1, RefreshedStep, Invariance, PTL DEF Spec

=============================================================================
