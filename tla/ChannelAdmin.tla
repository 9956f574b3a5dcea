---------------------------- MODULE ChannelAdmin ----------------------------
(***************************************************************************)
(* The administration of channels: GatewayServer's NATS handlers, the      *)
(* ChannelManager they call and the tables of the three ChannelHandlers.   *)
(*                                                                         *)
(* The NATS client runs the callbacks of one subscription one after the    *)
(* other on a goroutine of its own, so a subject is a process here: it is  *)
(* idle or handles one request, and different subjects interleave.  The    *)
(* goroutine that runs GatewayServer.Start is one more process (boot); it  *)
(* installs the channels the admin service lists while the subjects it     *)
(* has subscribed already deliver.                                         *)
(*                                                                         *)
(* A step is what a goroutine does between two points where another one    *)
(* may get in: taking ChannelManager.mu or WxGateway.mu, and the accesses  *)
(* to ChannelManager.channels that InitChannels, CreateChannel and         *)
(* DeleteChannel make without taking mu, where finding an entry and        *)
(* deleting its key are two.  Those are data races: the Go runtime may let *)
(* them through, or stop the process (Throw).  The answer is a step of its *)
(* own too: it is sent when all is done and no lock is held.               *)
(***************************************************************************)
EXTENDS Channels, Naturals, Sequences, FiniteSets

CONSTANTS
  Subs,         \* the subjects the admin service uses
  MaxInFlight   \* bound: requests (and the boot) in progress at a time

ChannelSubjects == <<"create", "update", "destroy", "pause", "resume">>
SyncSubjects ==
  <<"sync.create", "sync.update", "sync.destroy", "sync.pause", "sync.resume">>

VARIABLES
  up,          \* the process runs
  boot,        \* how far GatewayServer.Start is
  subscribed,  \* the subjects Start has subscribed
  todo,        \* the listed channels InitChannels has still to go through
  filing,      \* the entry InitChannels is about to write, or None
  mgr,         \* ChannelManager.channels
  gw,          \* per type, the handler's table
  refreshing,  \* slugs whose weixin client's token refresher is not cancelled
  mgrLock,     \* the holder of ChannelManager.mu (for writing), or None
  wxLock,      \* the holder of WxGateway.mu across steps, or None
  pc,          \* per subject, what its goroutine does next
  job,         \* per subject, the channel and config of its request, or None
  held,        \* per subject, the entry the loop of PauseChannel, ResumeChannel
               \* or DeleteChannel has found, or None
  reply        \* what the last step answered on NATS, or None

bootVars == <<up, boot, subscribed, todo, filing>>
tables   == <<mgr, gw, refreshing>>
locks    == <<mgrLock, wxLock>>
procs    == <<pc, job, held, reply>>
vars     == <<bootVars, tables, locks, procs>>

(* pc: idle                                                                *)
(*     init, file                       CreateChannel, end of UpdateChannel*)
(*     lookup                           destroy, pause, resume by id       *)
(*     delete, wxdelete, remove, drop   DeleteChannel                      *)
(*     pausegw, scan, writeback         PauseChannel, ResumeChannel        *)
(*     ok, error                        what is left is to answer so       *)
Labels == {"idle", "init", "file", "lookup", "delete", "wxdelete", "remove",
           "drop", "pausegw", "scan", "writeback", "ok", "error"}

Phases == {"channels", "sync", "migration", "listing", "installing", "serving"}

Jobs == [ch : Catalog, cfg : Configs]

Kept == [slug : Slugs, entry : Entries]

Replies == [sub : Subs, ch : Catalog \cup {None}, code : {"ok", "error"}]

ASSUME SubsAssumption ==
  /\ Subs \subseteq UNION {Creates, Updates, Destroys, Pauses, Resumes}
  /\ MaxInFlight \in Nat
  /\ None \notin Subs /\ None \notin Entries /\ None \notin Jobs
  /\ None \notin Kept /\ None \notin Replies

Init ==
  /\ up = TRUE
  /\ boot = "channels" /\ subscribed = {} /\ todo = {} /\ filing = None
  /\ mgr = [s \in Slugs |-> None]
  /\ gw = [t \in Types |-> [s \in Slugs |-> None]]
  /\ refreshing = {}
  /\ mgrLock = None /\ wxLock = None
  /\ pc = [p \in Subs |-> "idle"]
  /\ job = [p \in Subs |-> None]
  /\ held = [p \in Subs |-> None]
  /\ reply = None

-----------------------------------------------------------------------------
(* How a handler ends and goes on.                                         *)

Busy == {p \in Subs : pc[p] # "idle"}

\* respondOK, respondError; the sync handlers only log.
Reply(p, c, code) ==
  reply' = IF p \in Syncs THEN None ELSE [sub |-> p, ch |-> c, code |-> code]

GoTo(p, l) ==
  /\ pc' = [pc EXCEPT ![p] = l]
  /\ reply' = None
  /\ UNCHANGED job

-----------------------------------------------------------------------------
(* The ten subscriptions.  A request is rejected when it is not JSON, does *)
(* not name a channel or names a type no handler is registered for.        *)

Ready(p) ==
  /\ up /\ p \in subscribed /\ pc[p] = "idle"
  /\ Cardinality(Busy) + (IF boot = "serving" THEN 0 ELSE 1) < MaxInFlight

Reject(p) ==
  /\ Ready(p)
  /\ Reply(p, None, "error")
  /\ UNCHANGED <<bootVars, tables, locks, pc, job, held>>

Accept(p, c, cfg, l) ==
  /\ Ready(p)
  /\ pc' = [pc EXCEPT ![p] = l]
  /\ job' = [job EXCEPT ![p] = [ch |-> c, cfg |-> cfg]]
  /\ reply' = None
  /\ UNCHANGED <<bootVars, tables, locks, held>>

\* UpdateChannel of the type's handler; QQBotGateway's deletes nothing.
UpdateStart(c) == IF c.type = "qqbot" THEN "init" ELSE "delete"

OnChannelCreate ==
  \/ Reject("create")
  \/ \E c \in Catalog, cfg \in Configs : Accept("create", c, cfg, "init")

OnChannelUpdate ==
  \/ Reject("update")
  \/ \E c \in Catalog, cfg \in Configs : Accept("update", c, cfg, UpdateStart(c))

OnChannelDestroy ==
  \/ Reject("destroy")
  \/ \E c \in Catalog : Accept("destroy", c, "nil", "lookup")

OnChannelPause ==
  \/ Reject("pause")
  \/ \E c \in Catalog : Accept("pause", c, "nil", "lookup")

OnChannelResume ==
  \/ Reject("resume")
  \/ \E c \in Catalog : Accept("resume", c, "nil", "lookup")

\* A rejected sync event is logged and changes nothing.
OnSyncCreate ==
  \E c \in Catalog, cfg \in Configs : Accept("sync.create", c, cfg, "init")

OnSyncUpdate ==
  \E c \in Catalog, cfg \in Configs : Accept("sync.update", c, cfg, UpdateStart(c))

OnSyncDestroy == \E c \in Catalog : Accept("sync.destroy", c, "nil", "lookup")

OnSyncPause == \E c \in Catalog : Accept("sync.pause", c, "nil", "lookup")

OnSyncResume == \E c \in Catalog : Accept("sync.resume", c, "nil", "lookup")

Receive ==
  \/ OnChannelCreate \/ OnChannelUpdate \/ OnChannelDestroy
  \/ OnChannelPause \/ OnChannelResume
  \/ OnSyncCreate \/ OnSyncUpdate \/ OnSyncDestroy \/ OnSyncPause \/ OnSyncResume

-----------------------------------------------------------------------------
(* The steps of a handler.  GetHandler and GetChannel hold mu for reading  *)
(* within one step, so they only wait for a writer to be gone.             *)

\* Mutant: whatever the type, the first handler registered is used.
InstallsInFirst(c, cfg) ==
  /\ cfg = "good" => wxLock = None
  /\ gw' = [gw EXCEPT !["weixin"] = WxInit(@, c, cfg)]
  /\ refreshing' = IF cfg = "good" THEN refreshing \cup {c.slug} ELSE refreshing

\* The type's InitChannel; WxGateway's takes its own lock to write its table.
Installs(c, cfg) ==
  /\ cfg = "good" /\ c.type = "weixin" => wxLock = None
  /\ gw' = [gw EXCEPT ![c.type] = InitTable(@, c, cfg)]
  /\ refreshing' = IF cfg = "good" /\ c.type = "weixin"
                   THEN refreshing \cup {c.slug} ELSE refreshing

\* Mutant: an update files its channel as a create does.
InstallAndFile(p) ==
  /\ pc[p] = "init" /\ mgrLock = None
  /\ Installs(job[p].ch, job[p].cfg)
  /\ \/ job[p].cfg = "bad" /\ GoTo(p, "error")
     \/ job[p].cfg # "bad" /\ GoTo(p, "file")
  /\ UNCHANGED <<bootVars, mgr, locks, held>>

\* CreateChannel up to its InitChannel, and the InitChannel that ends the
\* handlers' UpdateChannel.
InstallChannel(p) ==
  /\ pc[p] = "init" /\ mgrLock = None
  /\ Installs(job[p].ch, job[p].cfg)
  /\ \/ job[p].cfg = "bad" /\ GoTo(p, "error")
     \/ job[p].cfg # "bad" /\ p \in Creates /\ GoTo(p, "file")
     \/ job[p].cfg # "bad" /\ p \notin Creates /\ GoTo(p, "ok")
  /\ UNCHANGED <<bootVars, mgr, locks, held>>

\* The write that ends CreateChannel, without mu.
FileChannel(p) ==
  /\ pc[p] = "file"
  /\ mgr' = [mgr EXCEPT ![job[p].ch.slug] = [ch |-> job[p].ch, status |-> "active"]]
  /\ GoTo(p, "ok")
  /\ UNCHANGED <<bootVars, gw, refreshing, locks, held>>

AfterLookup(p) ==
  CASE p \in Destroys -> "delete" [] p \in Pauses -> "pausegw" [] p \in Resumes -> "scan"

\* GetChannel: only an entry's ChannelID counts, and its type is the one used.
GetChannel(p) ==
  /\ pc[p] = "lookup" /\ mgrLock = None
  /\ \/ /\ ById(mgr, job[p].ch.id) = {}
        /\ GoTo(p, "error")
     \/ \E s \in ById(mgr, job[p].ch.id) :
          /\ job' = [job EXCEPT ![p].ch = mgr[s].ch]
          /\ pc' = [pc EXCEPT ![p] = AfterLookup(p)]
          /\ reply' = None
  /\ UNCHANGED <<bootVars, tables, locks, held>>

\* After the handler's DeleteChannel: a destroy goes on to the manager's map,
\* an update to InitChannel.
AfterDelete(p) == IF p \in Destroys THEN "remove" ELSE "init"

\* FeishuGateway and QQBotGateway never report an error.
DeleteFrom(p, targets) ==
  /\ \/ targets = {} /\ UNCHANGED gw
     \/ \E s \in targets : gw' = [gw EXCEPT ![job[p].ch.type][s] = None]
  /\ GoTo(p, AfterDelete(p))
  /\ UNCHANGED <<bootVars, mgr, refreshing, locks, held>>

FeishuDeleteChannel(p) ==
  /\ pc[p] = "delete" /\ job[p].ch.type = "feishu" /\ mgrLock = None
  /\ DeleteFrom(p, FeishuTargets(gw["feishu"], job[p].ch.id))

QQDeleteChannel(p) ==
  /\ pc[p] = "delete" /\ job[p].ch.type = "qqbot" /\ mgrLock = None
  /\ DeleteFrom(p, QQTargets(gw["qqbot"], job[p].ch.id))

\* WxGateway.DeleteChannel takes its lock ...
WxLock(p) ==
  /\ pc[p] = "delete" /\ job[p].ch.type = "weixin" /\ mgrLock = None
  /\ wxLock = None
  /\ wxLock' = p
  /\ GoTo(p, "wxdelete")
  /\ UNCHANGED <<bootVars, tables, mgrLock, held>>

\* ... and, unless the id is a slug, asks the manager under it.  Nothing
\* found: a destroy fails with it, an update logs it and goes on.
WxDeleteChannel(p) ==
  /\ pc[p] = "wxdelete"
  /\ job[p].ch.id \in Served(gw["weixin"]) \/ mgrLock = None
  /\ \E s \in WxTried(gw["weixin"], mgr, job[p].ch.id) :
       \/ /\ s \in Served(gw["weixin"])
          /\ gw' = [gw EXCEPT !["weixin"][s] = None]
          /\ refreshing' = refreshing \ {s}
          /\ GoTo(p, AfterDelete(p))
       \/ /\ s \notin Served(gw["weixin"])
          /\ IF p \in Destroys THEN GoTo(p, "error") ELSE GoTo(p, "init")
          /\ UNCHANGED <<gw, refreshing>>
  /\ wxLock' = None
  /\ UNCHANGED <<bootVars, mgr, mgrLock, held>>

\* Mutant: what is listed for the tenant goes, whichever channel it is by now.
MatchBySlug(p) ==
  /\ pc[p] = "remove"
  /\ LET s == job[p].ch.slug IN
       \/ /\ mgr[s] = None
          /\ GoTo(p, "ok")
          /\ UNCHANGED held
       \/ /\ mgr[s] # None
          /\ held' = [held EXCEPT ![p] = [slug |-> s, entry |-> mgr[s]]]
          /\ GoTo(p, "drop")
  /\ UNCHANGED <<bootVars, tables, locks>>

\* The loop that ends ChannelManager.DeleteChannel ranges over the map ...
MatchChannel(p) ==
  /\ pc[p] = "remove"
  /\ \/ /\ ByIdOrSlug(mgr, job[p].ch.id) = {}
        /\ GoTo(p, "ok")
        /\ UNCHANGED held
     \/ \E s \in ByIdOrSlug(mgr, job[p].ch.id) :
          /\ held' = [held EXCEPT ![p] = [slug |-> s, entry |-> mgr[s]]]
          /\ GoTo(p, "drop")
  /\ UNCHANGED <<bootVars, tables, locks>>

\* ... and deletes the key of what it has found, whatever is there by now.  Mu is
\* taken neither for the one nor for the other.
RemoveChannel(p) ==
  /\ pc[p] = "drop"
  /\ mgr' = [mgr EXCEPT ![held[p].slug] = None]
  /\ held' = [held EXCEPT ![p] = None]
  /\ GoTo(p, "ok")
  /\ UNCHANGED <<bootVars, gw, refreshing, locks>>

\* Mutant: the pause finds its client, and cancels the refresher for good.
PauseCancels(p) ==
  /\ pc[p] = "pausegw" /\ mgrLock = None
  /\ job[p].ch.type = "weixin" => wxLock = None
  /\ refreshing' = IF job[p].ch.type = "weixin"
                   THEN refreshing \ {job[p].ch.slug} ELSE refreshing
  /\ GoTo(p, "scan")
  /\ UNCHANGED <<bootVars, mgr, gw, locks, held>>

\* Mutant: the manager's lock is taken before the handler's, and kept.
PauseUnderLock(p) ==
  /\ pc[p] = "pausegw"
  /\ \/ mgrLock = None /\ mgrLock' = p /\ GoTo(p, "pausegw")
     \/ /\ mgrLock = p
        /\ job[p].ch.type = "weixin" => wxLock = None
        /\ mgrLock' = None /\ GoTo(p, "scan")
  /\ UNCHANGED <<bootVars, tables, wxLock, held>>

\* The type's PauseChannel.  WxGateway's takes the id for a slug, and cancels
\* that client's token refresher; FeishuGateway's does nothing.
PauseHandler(p) ==
  /\ pc[p] = "pausegw" /\ mgrLock = None
  /\ job[p].ch.type = "weixin" => wxLock = None
  /\ refreshing' = IF job[p].ch.type = "weixin"
                   THEN refreshing \ {job[p].ch.id} ELSE refreshing
  /\ GoTo(p, "scan")
  /\ UNCHANGED <<bootVars, mgr, gw, locks, held>>

\* Mutant: what finds nothing waits until there is something.
ScanWaits(p) ==
  /\ pc[p] = "scan" /\ mgrLock = None
  /\ \E s \in ByIdOrSlug(mgr, job[p].ch.id) :
       LET e == [ch |-> mgr[s].ch, status |-> NewStatus(p)] IN
         /\ mgr' = [mgr EXCEPT ![s] = e]
         /\ held' = [held EXCEPT ![p] = [slug |-> s, entry |-> e]]
         /\ mgrLock' = p
         /\ GoTo(p, "writeback")
  /\ UNCHANGED <<bootVars, gw, refreshing, wxLock>>

\* Mutant: the lock is given back before the object is stored again.
ScanReleases(p) ==
  /\ pc[p] = "scan" /\ mgrLock = None
  /\ \/ /\ ByIdOrSlug(mgr, job[p].ch.id) = {}
        /\ GoTo(p, IF p \in Pauses THEN "ok" ELSE "error")
        /\ UNCHANGED <<mgr, held>>
     \/ \E s \in ByIdOrSlug(mgr, job[p].ch.id) :
          LET e == [ch |-> mgr[s].ch, status |-> NewStatus(p)] IN
            /\ mgr' = [mgr EXCEPT ![s] = e]
            /\ held' = [held EXCEPT ![p] = [slug |-> s, entry |-> e]]
            /\ GoTo(p, "writeback")
  /\ UNCHANGED <<bootVars, gw, refreshing, locks>>

\* PauseChannel and ResumeChannel take mu, find an entry and set the status of
\* the object the map points to.  Nothing found is an error only for a resume.
ScanChannels(p) ==
  /\ pc[p] = "scan" /\ mgrLock = None
  /\ \/ /\ ByIdOrSlug(mgr, job[p].ch.id) = {}
        /\ GoTo(p, IF p \in Pauses THEN "ok" ELSE "error")
        /\ UNCHANGED <<mgr, mgrLock, held>>
     \/ \E s \in ByIdOrSlug(mgr, job[p].ch.id) :
          LET e == [ch |-> mgr[s].ch, status |-> NewStatus(p)] IN
            /\ mgr' = [mgr EXCEPT ![s] = e]
            /\ held' = [held EXCEPT ![p] = [slug |-> s, entry |-> e]]
            /\ mgrLock' = p
            /\ GoTo(p, "writeback")
  /\ UNCHANGED <<bootVars, gw, refreshing, wxLock>>

\* They store the object under the key again, whatever is there by now.
WriteBack(p) ==
  /\ pc[p] = "writeback"
  /\ mgr' = [mgr EXCEPT ![held[p].slug] = held[p].entry]
  /\ held' = [held EXCEPT ![p] = None]
  /\ mgrLock' = None
  /\ GoTo(p, "ok")
  /\ UNCHANGED <<bootVars, gw, refreshing, wxLock>>

\* The answer, on what has become of the request; the sync handlers only log it.
Respond(p) ==
  /\ pc[p] \in {"ok", "error"}
  /\ pc' = [pc EXCEPT ![p] = "idle"]
  /\ job' = [job EXCEPT ![p] = None]
  /\ Reply(p, job[p].ch, pc[p])
  /\ UNCHANGED <<bootVars, tables, locks, held>>

Handle(p) ==
  /\ up
  /\ \/ InstallChannel(p) \/ FileChannel(p) \/ GetChannel(p)
     \/ FeishuDeleteChannel(p) \/ QQDeleteChannel(p)
     \/ WxLock(p) \/ WxDeleteChannel(p) \/ MatchChannel(p) \/ RemoveChannel(p)
     \/ PauseHandler(p) \/ ScanChannels(p) \/ WriteBack(p)
     \/ Respond(p)

-----------------------------------------------------------------------------
(* GatewayServer.Start.                                                    *)

\* The subscriptions of a phase are made in the order of its table.
SubscribeNext(subjects, next) ==
  LET left == {i \in 1..Len(subjects) : subjects[i] \in Subs \ subscribed} IN
    /\ \/ /\ left = {}
          /\ boot' = next
          /\ UNCHANGED subscribed
       \/ \E i \in left :
            /\ \A j \in left : i <= j
            /\ subscribed' = subscribed \cup {subjects[i]}
            /\ UNCHANGED boot
    /\ reply' = None
    /\ UNCHANGED <<up, todo, filing, tables, locks, pc, job, held>>

SubscribeChannelEvents ==
  boot = "channels" /\ SubscribeNext(ChannelSubjects, "sync")

SubscribePeerSyncEvents ==
  boot = "sync" /\ SubscribeNext(SyncSubjects, "migration")

\* The two subjects of this phase only log.
SubscribeMigrationEvents ==
  /\ boot = "migration"
  /\ boot' = "listing"
  /\ reply' = None
  /\ UNCHANGED <<up, subscribed, todo, filing, tables, locks, pc, job, held>>

\* InitChannelsFromAdmin: the admin's list has an entry per channel at most.
\* A list that cannot be had is only warned of.
ListChannels ==
  /\ boot = "listing"
  /\ \/ /\ boot' = "installing"
        /\ todo' \in {T \in SUBSET Entries : \A d, e \in T : d.ch = e.ch => d = e}
     \/ /\ boot' = "serving"
        /\ UNCHANGED todo
  /\ reply' = None
  /\ UNCHANGED <<up, subscribed, filing, tables, locks, pc, job, held>>

\* Mutant: a channel that fails is tried again.
InitNextRetries ==
  /\ boot = "installing" /\ filing = None /\ mgrLock = None
  /\ \E e \in todo, cfg \in Configs :
       /\ Installs(e.ch, cfg)
       /\ todo' = IF cfg = "bad" THEN todo ELSE todo \ {e}
       /\ filing' = IF cfg = "bad" THEN None ELSE e
  /\ reply' = None
  /\ UNCHANGED <<up, boot, subscribed, mgr, locks, pc, job, held>>

\* InitChannels: one listed channel's InitChannel; a failure skips it.
InitNext ==
  /\ boot = "installing" /\ filing = None /\ mgrLock = None
  /\ \E e \in todo, cfg \in Configs :
       /\ Installs(e.ch, cfg)
       /\ todo' = todo \ {e}
       /\ filing' = IF cfg = "bad" THEN None ELSE e
  /\ reply' = None
  /\ UNCHANGED <<up, boot, subscribed, mgr, locks, pc, job, held>>

\* InitChannels: the entry is written as listed, without mu.
FileNext ==
  /\ boot = "installing" /\ filing # None
  /\ mgr' = [mgr EXCEPT ![filing.ch.slug] = filing]
  /\ filing' = None
  /\ reply' = None
  /\ UNCHANGED <<up, boot, subscribed, todo, gw, refreshing, locks, pc, job, held>>

\* The list is done, with or without failures: the HTTP server starts.
Serve ==
  /\ boot = "installing" /\ filing = None /\ todo = {}
  /\ boot' = "serving"
  /\ reply' = None
  /\ UNCHANGED <<up, subscribed, todo, filing, tables, locks, pc, job, held>>

Boot ==
  /\ up
  /\ \/ SubscribeChannelEvents \/ SubscribePeerSyncEvents \/ SubscribeMigrationEvents
     \/ ListChannels \/ InitNext \/ FileNext \/ Serve

-----------------------------------------------------------------------------
(* The end of the process.                                                 *)

\* A goroutine is about to write the manager's map without its lock ...
Unlocked(p) == pc[p] \in {"file", "drop"}

\* ... or to use it, with the lock or without.
UsesMap(p) ==
  pc[p] \in {"lookup", "wxdelete", "scan", "writeback", "file", "remove", "drop"}

\* Two at the same time, one of which writes; a webhook reads the map at any time.
Race ==
  \/ \E p \in Subs : /\ Unlocked(p)
                     /\ boot = "serving" \/ \E q \in Subs \ {p} : UsesMap(q)
  \/ \E p, q \in Subs : pc[p] = "remove" /\ pc[q] = "writeback"
  \/ filing # None /\ \E p \in Subs : UsesMap(p)

\* The process is gone with everything in it.
Crash ==
  /\ up' = FALSE
  /\ boot' = "channels" /\ subscribed' = {} /\ todo' = {} /\ filing' = None
  /\ mgr' = [s \in Slugs |-> None]
  /\ gw' = [t \in Types |-> [s \in Slugs |-> None]]
  /\ refreshing' = {}
  /\ mgrLock' = None /\ wxLock' = None
  /\ pc' = [p \in Subs |-> "idle"]
  /\ job' = [p \in Subs |-> None]
  /\ held' = [p \in Subs |-> None]
  /\ reply' = None

\* "fatal error: concurrent map writes".
Throw == up /\ Race /\ Crash

\* A subscription that fails ends the start.
StartFails == up /\ boot \in {"channels", "sync", "migration"} /\ Crash

\* Whatever supervises the process starts it again.
Restart ==
  /\ ~up
  /\ up' = TRUE
  /\ UNCHANGED <<boot, subscribed, todo, filing, tables, locks, procs>>

Next == Receive \/ (\E p \in Subs : Handle(p)) \/ Boot \/ Throw \/ StartFails \/ Restart

Spec == Init /\ [][Next]_vars

\* Goroutines are scheduled, and a RWMutex starves nobody.
Fairness == SF_vars(Boot) /\ \A p \in Subs : SF_vars(Handle(p))

FairSpec == Spec /\ Fairness

\* An admin service that waits for an answer before it asks for something else
\* for the same tenant, and for the tenants it lists until they are installed.
Apart ==
  /\ \A p, q \in Busy : job[p].ch.slug = job[q].ch.slug => p = q
  /\ \A p \in Busy, e \in todo \cup ({filing} \ {None}) : e.ch.slug # job[p].ch.slug

ApartSpec == Init /\ [][Next /\ Apart']_vars
-----------------------------------------------------------------------------
(* Properties.                                                             *)

\* Every variable has its type; the tables only ever hold channels of the
\* catalog.
TypeOK ==
  /\ up \in BOOLEAN
  /\ boot \in Phases
  /\ subscribed \subseteq Subs
  /\ todo \subseteq Entries
  /\ filing \in Entries \cup {None}
  /\ mgr \in [Slugs -> Entries \cup {None}]
  /\ gw \in [Types -> [Slugs -> Catalog \cup {None}]]
  /\ refreshing \subseteq Slugs
  /\ mgrLock \in Subs \cup {None}
  /\ wxLock \in Subs \cup {None}
  /\ pc \in [Subs -> Labels]
  /\ job \in [Subs -> Jobs \cup {None}]
  /\ held \in [Subs -> Kept \cup {None}]
  /\ reply \in Replies \cup {None}

\* A goroutine is past idle exactly when it has a request, holds a lock exactly
\* where the code has taken it and not yet released it, and has an entry in hand
\* exactly between finding it in the manager's map and writing that map.
OwnershipInv ==
  \A p \in Subs :
    /\ pc[p] = "idle" <=> job[p] = None
    /\ pc[p] = "writeback" <=> mgrLock = p
    /\ pc[p] \in {"writeback", "drop"} <=> held[p] # None
    /\ pc[p] = "wxdelete" <=> wxLock = p

\* Every key of every table is the slug of the channel under it, also in the
\* entry a pause, a resume or a destroy has found; a handler's table has channels
\* of its type only.
KeyedBySlug ==
  /\ \A s \in Slugs : mgr[s] # None => mgr[s].ch.slug = s
  /\ \A t \in Types, s \in Slugs :
       gw[t][s] # None => gw[t][s].slug = s /\ gw[t][s].type = t
  /\ \A p \in Subs : held[p] # None => held[p].entry.ch.slug = held[p].slug

\* A weixin channel that is served has its token refresher running, whatever
\* creates, updates, destroys and pauses (each of which starts or cancels it)
\* came in whatever order: without it every reply fails once the token expires.
ServedIsRefreshed == \A s \in Slugs : gw["weixin"][s] # None <=> s \in refreshing

\* A tenant's slot: its entry in the manager's map, its client in each table
\* and its refresher.
SlotChanges(s) ==
  \/ mgr'[s] # mgr[s]
  \/ \E t \in Types : gw'[t][s] # gw[t][s]
  \/ (s \in refreshing') # (s \in refreshing)

\* The goroutine p takes a step for a channel of the tenant s, and not the one in
\* which it only answers.
Acts(p, s) ==
  job[p] # None /\ job[p].ch.slug = s /\ pc'[p] \notin {pc[p], "idle"}

\* The boot takes a step for a listed channel of the tenant s.
BootActs(s) ==
  \/ \E e \in todo \ todo' : e.ch.slug = s
  \/ filing # None /\ filing.ch.slug = s /\ filing' = None

\* No request touches another tenant: what a step of the running process does
\* to the tables it does at the slug of the channel that the request, or the
\* admin's list, names.  The code gets from an id to a slug in four ways; each
\* of them has to end at the tenant's own slug, with other requests in between.
TenantIsolation ==
  [][up /\ up' => \A s \in Slugs :
       SlotChanges(s) => BootActs(s) \/ \E p \in Subs : Acts(p, s)]_vars

\* A pause lasts: only a create or a resume of the tenant's channel, or the
\* boot's list, turns a paused entry into one that is listed and not paused.
\* An update, a pause that was overtaken or a request for another tenant never
\* does.
PauseLasts ==
  [][up /\ up' => \A s \in Slugs :
       /\ mgr[s] # None /\ mgr[s].status = "paused"
       /\ mgr'[s] # None /\ mgr'[s].status # "paused"
       => BootActs(s) \/ \E p \in Subs \ (Pauses \cup Updates \cup Destroys) : Acts(p, s)]_vars

\* The channel that is listed for a tenant is replaced by the tenant's creates
\* and by the boot's list only, and removed only by a destroy that has found its
\* own channel listed: a destroy that finds another channel of the tenant, which
\* has the same place in the map, leaves it alone.  An update lists and removes
\* nothing.  Two steps hit whatever has been listed since: a destroy deletes the
\* key under which it has found its channel, and a pause or a resume puts back
\* what it has found.
ListedStays ==
  [][up /\ up' => \A s \in Slugs :
       mgr'[s] # mgr[s] /\ ~(mgr[s] # None /\ mgr'[s] # None /\ mgr'[s].ch = mgr[s].ch)
       => \/ BootActs(s)
          \/ \E p \in Subs \cap Creates : Acts(p, s)
          \/ \E p \in Subs \cap Destroys :
               /\ Acts(p, s) /\ mgr'[s] = None
               /\ held[p] # None /\ held[p].slug = s /\ held[p].entry.ch = job[p].ch
          \/ \E p \in Subs \cap (Pauses \cup Resumes) :
               Acts(p, s) /\ held[p] # None /\ mgr'[s] = held[p].entry]_vars

\* The locks a goroutine needs for its next step.
NeedsMgr(p) ==
  \/ pc[p] \in {"init", "lookup", "delete", "pausegw", "scan"}
  \/ pc[p] = "wxdelete" /\ job[p].ch.id \notin Served(gw["weixin"])

NeedsWx(p) ==
  /\ pc[p] \in {"init", "delete", "pausegw"} /\ job[p].ch.type = "weixin"
  /\ pc[p] = "init" => job[p].cfg = "good"

WaitsFor(p) ==
  {q \in Subs \ {p} : (NeedsMgr(p) /\ mgrLock = q) \/ (NeedsWx(p) /\ wxLock = q)}

\* Nobody waits for good: who holds a lock is at work, and waits for nobody, or
\* for one who is at work and waits for nobody.  A goroutine that asks for the
\* two locks in the other order, or ends with one of them, would break it.
NoDeadlock ==
  \A p \in {mgrLock, wxLock} \ {None} :
    /\ p \in Busy
    /\ \A q \in WaitsFor(p) : q \in Busy /\ WaitsFor(q) = {}

\* What a pause or a resume has written under ChannelManager.mu nobody sees
\* before it is written back: from there on it counts as done, like a request that
\* has only to be answered.
Committed(p) == pc[p] \in {"writeback", "ok", "error"}

Pending ==
  {[sub |-> p, ch |-> job[p].ch] : p \in {x \in Busy : ~Committed(x)}}

\* The answer that has been sent, and those that are still to be.
Answers ==
  ({reply} \ {None}) \cup
  {[sub |-> p, ch |-> job[p].ch, code |-> IF pc[p] = "error" THEN "error" ELSE "ok"] :
     p \in {x \in Busy : Committed(x)}}

Directory ==
  INSTANCE ChannelDirectory WITH listed <- mgr, asked <- Pending, answers <- Answers

\* How far a subject's request is, as the admin service may tell.
Stage(p) ==
  CASE pc[p] \in {"idle", "ok", "error"} -> pc[p]
    [] pc[p] = "writeback" -> "set"
    [] pc[p] = "drop" -> "matched"
    [] pc[p] \in {"init", "file", "lookup"} -> "asked"
    [] OTHER -> IF p \in Updates THEN "asked" ELSE "found"

Named(p) == IF job[p] = None THEN None ELSE job[p].ch

Listing ==
  INSTANCE ChannelListing WITH listed <- mgr, stage <- [p \in Subs |-> Stage(p)],
                               channel <- [p \in Subs |-> Named(p)]

\* When the requests for a tenant come one at a time, beside those for others,
\* the gateway is the directory the admin takes it for: each request is one step
\* on the listed channels, ends in one answer that fits it, and leaves no trace
\* when it fails.  (With two for a tenant it is not: a destroy between a pause's
\* lookup and its write-back is undone, and the answer may come late.)
ImplementsDirectory == Directory!Spec

\* Whatever overlaps: the gateway is the list of channels on which a destroy, a
\* pause and a resume act in a few steps, and which has moved on when the answer
\* comes.  A request is answered "ok" only after what it asked for was done to a
\* channel listed when it was found, and fails only when that was not, or the
\* handler has no client to destroy; a destroy that finds another channel of its
\* tenant leaves it alone; and of all that is in progress only the one pause or
\* resume that has set its status brings a channel back.
ImplementsListing == Listing!Spec

\* When the requests for a tenant come one at a time, a channel whose destroy was
\* answered "ok" is no longer served by its handler.  WxGateway asks the manager
\* for the slug of an id, so any id will do; FeishuGateway and QQBotGateway know
\* slugs only, and it holds of them as long as the admin's ids are slugs.
EveryDestroyGone ==
  reply # None /\ reply.code = "ok" /\ reply.sub \in Destroys
    => gw[reply.ch.type][reply.ch.slug] = None

\* Every request that a goroutine takes on it finishes: the nested locks
\* (WxGateway.mu, then ChannelManager.mu) never leave it waiting for good.
RequestsFinish == \A p \in Subs : pc[p] # "idle" ~> pc[p] = "idle"

\* Start comes to its end and the HTTP server starts, or the process dies.
BootFinishes == up ~> (boot = "serving" \/ ~up)
=============================================================================
