----------------------- MODULE ChannelDirectoryProofs -----------------------
(***************************************************************************)
(* One request at a time for a tenant: ChannelAdmin implements             *)
(* ChannelDirectory, and a destroyed channel is served no more.  Whatever  *)
(* overlaps: it implements ChannelListing.                                 *)
(***************************************************************************)
EXTENDS ChannelAdminProofs, FiniteSetTheorems

\* The admin service uses the request subjects, which answer, and no other.
RequestsOnly == Subs \subseteq Directory!Requests

Listed(c) == mgr[c.slug] # None /\ mgr[c.slug].ch = c

\* What a goroutine has looked up is still so when it is used.
InHandOf(p) ==
  /\ pc[p] \in {"delete", "wxdelete", "remove", "pausegw", "scan"} /\ p \notin Updates
       => Listed(job[p].ch)
  /\ pc[p] = "writeback" =>
       /\ Listed(job[p].ch)
       /\ held[p].slug = job[p].ch.slug /\ mgr[held[p].slug] = held[p].entry
  /\ pc[p] = "drop" => Listed(job[p].ch) /\ held[p].slug = job[p].ch.slug

InHand == \A p \in Subs : InHandOf(p)

\* Nothing happens to the goroutine q, nor to its tenant's tables.
Untouched(q) ==
  /\ pc'[q] = pc[q] /\ job'[q] = job[q] /\ held'[q] = held[q]
  /\ ~SlotChanges(job[q].ch.slug)

LEMMA OwnSlug ==
  ASSUME IInv, NEW p \in Subs, pc[p] # "idle"
  PROVE  /\ job[p] \in Jobs /\ job[p] # None
         /\ job[p].ch \in Catalog /\ job[p].ch.slug \in Slugs /\ job[p].ch.type \in Types
  BY ChannelFacts DEF IInv, TypeOK, OwnershipInv, Jobs

\* A step of a handler moves its own goroutine, and no other.
LEMMA HandleMoves ==
  ASSUME IInv, NEW p \in Subs, Handle(p)
  PROVE  /\ pc[p] # "idle"
         /\ \E l \in Labels : pc' = [pc EXCEPT ![p] = l]
         /\ \A q \in Subs \ {p} : job'[q] = job[q] /\ held'[q] = held[q]
         /\ UNCHANGED bootVars
  <1>1. p \in Destroys \cup Pauses \cup Resumes => AfterLookup(p) \in Labels
    BY DEF AfterLookup, Labels, Destroys, Pauses, Resumes
  <1>2. AfterDelete(p) \in Labels
    BY DEF AfterDelete, Labels
  <1> USE DEF IInv, TypeOK
  <1>3. CASE GetChannel(p)
    BY <1>1, <1>3 DEF GetChannel, GoTo, Labels, RouteInv, OnRoute
  <1>4. CASE FeishuDeleteChannel(p) \/ QQDeleteChannel(p)
    BY <1>2, <1>4 DEF FeishuDeleteChannel, QQDeleteChannel, DeleteFrom, GoTo
  <1>5. CASE WxDeleteChannel(p)
    BY <1>2, <1>5 DEF WxDeleteChannel, GoTo, Labels
  <1>6. CASE InstallChannel(p) \/ FileChannel(p) \/ WxLock(p) \/ MatchChannel(p)
             \/ RemoveChannel(p)
    BY <1>6 DEF InstallChannel, FileChannel, WxLock, MatchChannel, RemoveChannel, GoTo, Labels
  <1>7. CASE PauseHandler(p) \/ ScanChannels(p) \/ WriteBack(p) \/ Respond(p)
    BY <1>7 DEF PauseHandler, ScanChannels, WriteBack, Respond, GoTo, Labels
  <1> QED
    BY <1>3, <1>4, <1>5, <1>6, <1>7 DEF Handle

LEMMA HandleLeavesOthers ==
  ASSUME UniqueIds, SlugsFindOwn, IInv, Apart, NEW p \in Subs, Handle(p),
         NEW q \in Busy, q # p
  PROVE  Untouched(q)
  <1>1. q \in Subs /\ job[q].ch.slug \in Slugs
    BY OwnSlug DEF Busy
  <1>2. pc'[q] = pc[q] /\ job'[q] = job[q] /\ held'[q] = held[q] /\ p \in Busy
    BY <1>1, HandleMoves DEF Busy, IInv, TypeOK
  <1>3. job[p].ch.slug # job[q].ch.slug
    BY <1>2 DEF Apart
  <1> QED
    BY <1>1, <1>2, <1>3, HandleIsolated DEF Untouched, Acts

LEMMA BootLeavesAll ==
  ASSUME IInv, Apart, Boot, NEW q \in Busy
  PROVE  Untouched(q)
  <1>1. q \in Subs /\ job[q].ch.slug \in Slugs
    BY OwnSlug DEF Busy
  <1>2. UNCHANGED <<pc, job, held>>
    BY DEF Boot, SubscribeChannelEvents, SubscribePeerSyncEvents, SubscribeNext,
       SubscribeMigrationEvents, ListChannels, InitNext, FileNext, Serve
  <1>3. ~BootActs(job[q].ch.slug)
    BY DEF Apart, BootActs
  <1> QED
    BY <1>1, <1>2, <1>3, BootIsolated DEF Untouched

\* What a request that comes in does: it starts an idle goroutine, or none.
LEMMA ReceiveStarts ==
  ASSUME IInv, Receive
  PROVE  \E p \in Subs :
           /\ Ready(p)
           /\ \/ Reject(p) /\ p \notin Syncs
              \/ \E c \in Catalog, cfg \in Configs, l \in {"init", "delete", "lookup"} :
                   Accept(p, c, cfg, l) /\ (l = "delete" => p \in Updates)
  <1>1. CASE OnChannelCreate \/ OnChannelUpdate \/ OnSyncCreate \/ OnSyncUpdate
    BY <1>1 DEF OnChannelCreate, OnChannelUpdate, OnSyncCreate, OnSyncUpdate, Accept,
       Reject, Ready, UpdateStart, Updates, Syncs, IInv, TypeOK
  <1>2. CASE OnChannelDestroy \/ OnChannelPause \/ OnChannelResume
             \/ OnSyncDestroy \/ OnSyncPause \/ OnSyncResume
    <2>1. "nil" \in Configs
      BY DEF Configs
    <2> QED
      BY <1>2, <2>1 DEF OnChannelDestroy, OnChannelPause, OnChannelResume,
         OnSyncDestroy, OnSyncPause, OnSyncResume, Accept, Reject, Ready, Syncs, IInv, TypeOK
  <1> QED
    BY <1>1, <1>2 DEF Receive

-----------------------------------------------------------------------------
(* What is in hand.                                                        *)

LEMMA ListedById ==
  ASSUME IInv, NEW c \in Catalog, Listed(c)
  PROVE  c.slug \in ById(mgr, c.id) /\ c.slug \in ByIdOrSlug(mgr, c.id)
  BY ChannelFacts DEF Listed, ById, ByIdOrSlug

\* The lookup by id finds the channel itself, or says that it is not listed.
LEMMA FoundIsListed ==
  ASSUME UniqueIds, SlugsFindOwn, IInv, NEW p \in Subs, GetChannel(p)
  PROVE  \/ ~Listed(job[p].ch) /\ GoTo(p, "error")
         \/ /\ Listed(job[p].ch) /\ job'[p].ch = job[p].ch
            /\ pc' = [pc EXCEPT ![p] = AfterLookup(p)] /\ reply' = None
  <1>0. job[p] \in Jobs /\ job[p].ch \in Catalog
    BY OwnSlug DEF GetChannel
  <1>1. CASE ById(mgr, job[p].ch.id) = {} /\ GoTo(p, "error")
    BY <1>0, <1>1, ListedById
  <1>2. ASSUME NEW s \in ById(mgr, job[p].ch.id),
               job' = [job EXCEPT ![p].ch = mgr[s].ch],
               pc' = [pc EXCEPT ![p] = AfterLookup(p)], reply' = None
        PROVE  /\ Listed(job[p].ch) /\ job'[p].ch = job[p].ch
               /\ pc' = [pc EXCEPT ![p] = AfterLookup(p)] /\ reply' = None
    <2>1. s = job[p].ch.slug /\ mgr[s].ch = job[p].ch /\ mgr[s] # None
      BY <1>0, LookupIsOwn DEF ById
    <2>2. job'[p].ch = mgr[s].ch
      BY <1>0, <1>2 DEF IInv, TypeOK, Jobs
    <2> QED
      BY <1>2, <2>1, <2>2 DEF Listed
  <1> QED
    BY <1>1, <1>2 DEF GetChannel

\* The scan of a pause or a resume finds the channel itself.
LEMMA ScanIsOwn ==
  ASSUME UniqueIds, SlugsFindOwn, IInv, InHand, NEW p \in Subs, ScanChannels(p)
  PROVE  /\ p \in Pauses \cup Resumes /\ Listed(job[p].ch)
         /\ mgr' = [mgr EXCEPT ![job[p].ch.slug] =
                      [ch |-> job[p].ch, status |-> NewStatus(p)]]
         /\ held' = [held EXCEPT ![p] =
                      [slug |-> job[p].ch.slug,
                       entry |-> [ch |-> job[p].ch, status |-> NewStatus(p)]]]
         /\ GoTo(p, "writeback")
  <1>0. job[p].ch \in Catalog
    BY OwnSlug DEF ScanChannels
  <1>1. p \in Pauses \cup Resumes
    BY DEF ScanChannels, IInv, RouteInv, OnRoute
  <1>2. Listed(job[p].ch)
    BY <1>1 DEF ScanChannels, InHand, InHandOf, Pauses, Resumes, Updates
  <1>3. /\ job[p].ch.slug \in ByIdOrSlug(mgr, job[p].ch.id)
        /\ \A s \in ByIdOrSlug(mgr, job[p].ch.id) : s = job[p].ch.slug
    BY <1>0, <1>2, ListedById, LookupIsOwn
  <1>4. mgr[job[p].ch.slug].ch = job[p].ch
    BY <1>2 DEF Listed
  <1>5. PICK s \in ByIdOrSlug(mgr, job[p].ch.id) :
          /\ mgr' = [mgr EXCEPT ![s] = [ch |-> mgr[s].ch, status |-> NewStatus(p)]]
          /\ held' = [held EXCEPT ![p] =
                       [slug |-> s, entry |-> [ch |-> mgr[s].ch, status |-> NewStatus(p)]]]
          /\ GoTo(p, "writeback")
    BY <1>3 DEF ScanChannels
  <1>6. s = job[p].ch.slug
    BY <1>3
  <1> QED
    BY <1>1, <1>2, <1>4, <1>5, <1>6

\* The loop of a destroy finds the channel itself.
LEMMA MatchIsOwn ==
  ASSUME UniqueIds, SlugsFindOwn, IInv, InHand, NEW p \in Subs, MatchChannel(p)
  PROVE  /\ p \in Destroys /\ Listed(job[p].ch)
         /\ held' = [held EXCEPT ![p] =
                      [slug |-> job[p].ch.slug, entry |-> mgr[job[p].ch.slug]]]
         /\ GoTo(p, "drop")
  <1>0. job[p].ch \in Catalog
    BY OwnSlug DEF MatchChannel
  <1>1. p \in Destroys
    BY DEF MatchChannel, IInv, RouteInv, OnRoute
  <1>2. Listed(job[p].ch)
    BY <1>1 DEF MatchChannel, InHand, InHandOf, Destroys, Updates
  <1>3. /\ job[p].ch.slug \in ByIdOrSlug(mgr, job[p].ch.id)
        /\ \A s \in ByIdOrSlug(mgr, job[p].ch.id) : s = job[p].ch.slug
    BY <1>0, <1>2, ListedById, LookupIsOwn
  <1> QED
    BY <1>1, <1>2, <1>3 DEF MatchChannel

\* Entries are records.
\* Entries are records.
LEMMA EntryFacts ==
  ASSUME NEW c \in Catalog, NEW status \in Statuses
  PROVE  [ch |-> c, status |-> status] \in Entries /\ [ch |-> c, status |-> status] # None
  BY SubsAssumption DEF Entries

LEMMA HandleInHand ==
  ASSUME UniqueIds, SlugsFindOwn, IInv, InHand, NEW p \in Subs, Handle(p)
  PROVE  InHandOf(p)'
  <1>1. pc[p] # "idle" /\ job[p] \in Jobs /\ job[p].ch \in Catalog /\ job[p].ch.slug \in Slugs
    BY HandleMoves, OwnSlug
  <1>2. SUFFICES /\ pc'[p] \in {"delete", "wxdelete", "remove", "pausegw", "scan"} /\ p \notin Updates
                      => Listed(job[p].ch)'
                 /\ pc'[p] = "writeback" =>
                      /\ Listed(job[p].ch)' /\ held'[p].slug = job'[p].ch.slug
                      /\ mgr'[held'[p].slug] = held'[p].entry
                 /\ pc'[p] = "drop" => Listed(job[p].ch)' /\ held'[p].slug = job'[p].ch.slug
    BY DEF InHandOf
  <1> USE DEF Listed, IInv, TypeOK
  <1>3. CASE InstallChannel(p) \/ FileChannel(p) \/ RemoveChannel(p) \/ WriteBack(p)
             \/ Respond(p)
    <2>1. pc'[p] \in {"idle", "file", "ok", "error"}
      BY <1>3 DEF InstallChannel, FileChannel, RemoveChannel, WriteBack, Respond, GoTo
    <2> QED
      BY <2>1
  <1>4. CASE GetChannel(p)
    <2>1. mgr' = mgr
      BY <1>4 DEF GetChannel, tables
    <2>2. CASE GoTo(p, "error")
      BY <2>2 DEF GoTo
    <2>3. CASE /\ Listed(job[p].ch) /\ job'[p].ch = job[p].ch
               /\ pc' = [pc EXCEPT ![p] = AfterLookup(p)]
      <3>1. AfterLookup(p) \notin {"writeback", "drop"}
        BY <1>4 DEF AfterLookup, GetChannel, RouteInv, OnRoute
      <3> QED
        BY <2>1, <2>3, <3>1
    <2> QED
      BY <1>4, <2>2, <2>3, FoundIsListed
  <1>5. CASE FeishuDeleteChannel(p) \/ QQDeleteChannel(p) \/ WxLock(p) \/ WxDeleteChannel(p)
             \/ PauseHandler(p)
    <2>1. pc[p] \in {"delete", "wxdelete", "pausegw"} /\ mgr' = mgr
      BY <1>5 DEF FeishuDeleteChannel, QQDeleteChannel, DeleteFrom, WxLock, WxDeleteChannel,
         PauseHandler, tables
    <2>2. /\ pc'[p] \in {"wxdelete", "remove", "init", "scan", "error"} /\ job' = job
      BY <1>5 DEF FeishuDeleteChannel, QQDeleteChannel, DeleteFrom, WxLock, WxDeleteChannel,
         PauseHandler, AfterDelete, GoTo
    <2> QED
      BY <2>1, <2>2 DEF InHand, InHandOf
  <1>6. CASE ScanChannels(p)
    <2>1. NewStatus(p) \in Statuses
      BY DEF NewStatus, Statuses
    <2>2. [ch |-> job[p].ch, status |-> NewStatus(p)] # None
      BY <1>1, <2>1, EntryFacts
    <2> DEFINE e == [ch |-> job[p].ch, status |-> NewStatus(p)]
    <2>3. /\ mgr' = [mgr EXCEPT ![job[p].ch.slug] = e] /\ job' = job
          /\ held' = [held EXCEPT ![p] = [slug |-> job[p].ch.slug, entry |-> e]]
          /\ pc' = [pc EXCEPT ![p] = "writeback"]
      BY <1>6, ScanIsOwn DEF GoTo
    <2>4. mgr'[job[p].ch.slug] = e /\ e # None /\ e.ch = job[p].ch
      BY <1>1, <2>2, <2>3
    <2>5. held'[p].slug = job[p].ch.slug /\ held'[p].entry = e
      BY <2>3
    <2>6. pc'[p] = "writeback"
      BY <2>3
    <2> QED
      BY <2>3, <2>4, <2>5, <2>6
  <1>7. CASE MatchChannel(p)
    <2>1. /\ Listed(job[p].ch) /\ job' = job /\ mgr' = mgr /\ pc' = [pc EXCEPT ![p] = "drop"]
          /\ held' = [held EXCEPT ![p] =
                       [slug |-> job[p].ch.slug, entry |-> mgr[job[p].ch.slug]]]
      BY <1>7, MatchIsOwn DEF MatchChannel, GoTo, tables
    <2>2. pc'[p] = "drop" /\ held'[p].slug = job[p].ch.slug
      BY <2>1
    <2> QED
      BY <2>1, <2>2
  <1> QED
    BY <1>3, <1>4, <1>5, <1>6, <1>7 DEF Handle

LEMMA UntouchedInHand ==
  ASSUME InHand, NEW q \in Subs, Untouched(q)
  PROVE  InHandOf(q)'
  BY DEF InHand, InHandOf, Untouched, SlotChanges, Listed

LEMMA IdleInHand ==
  ASSUME NEW q \in Subs, pc'[q] = "idle"
  PROVE  InHandOf(q)'
  BY DEF InHandOf

LEMMA InHandStep ==
  ASSUME UniqueIds, SlugsFindOwn, IInv, Apart, InHand, [Next]_vars
  PROVE  InHand'
  <1>1. CASE Receive
    <2>1. PICK p \in Subs :
            \/ Reject(p)
            \/ \E c \in Catalog, cfg \in Configs, l \in {"init", "delete", "lookup"} :
                 Accept(p, c, cfg, l) /\ (l = "delete" => p \in Updates)
      BY <1>1, ReceiveStarts
    <2>2. CASE Reject(p)
      BY <2>2 DEF Reject, tables, InHand, InHandOf, Listed
    <2>3. ASSUME NEW c \in Catalog, NEW cfg \in Configs, NEW l \in {"init", "delete", "lookup"},
                 Accept(p, c, cfg, l), l = "delete" => p \in Updates
          PROVE  InHand'
      <3>1. InHandOf(p)'
        BY <2>3 DEF Accept, InHandOf, IInv, TypeOK
      <3>2. ASSUME NEW q \in Subs, q # p
            PROVE  InHandOf(q)'
        BY <2>3, <3>2 DEF Accept, tables, InHand, InHandOf, Listed, IInv, TypeOK
      <3> QED
        BY <3>1, <3>2 DEF InHand
    <2> QED
      BY <2>1, <2>2, <2>3
  <1>2. ASSUME NEW p \in Subs, Handle(p)
        PROVE  InHand'
    <2>1. ASSUME NEW q \in Busy, q # p
          PROVE  InHandOf(q)'
      <3>1. q \in Subs /\ Untouched(q)
        BY <1>2, <2>1, HandleLeavesOthers DEF Busy
      <3> QED
        BY <3>1, UntouchedInHand
    <2>2. ASSUME NEW q \in Subs \ Busy
          PROVE  InHandOf(q)'
      <3>1. pc'[q] = "idle"
        BY <1>2, HandleMoves DEF Busy, IInv, TypeOK
      <3> QED
        BY <3>1, IdleInHand
    <2> QED
      BY <1>2, <2>1, <2>2, HandleInHand DEF InHand
  <1>3. CASE Boot
    <2>1. ASSUME NEW q \in Busy
          PROVE  InHandOf(q)'
      <3>1. q \in Subs /\ Untouched(q)
        BY <1>3, BootLeavesAll DEF Busy
      <3> QED
        BY <3>1, UntouchedInHand
    <2>2. ASSUME NEW q \in Subs \ Busy
          PROVE  InHandOf(q)'
      <3>1. pc'[q] = "idle"
        BY <1>3 DEF Boot, SubscribeChannelEvents, SubscribePeerSyncEvents, SubscribeNext,
           SubscribeMigrationEvents, ListChannels, InitNext, FileNext, Serve, Busy
      <3> QED
        BY <3>1, IdleInHand
    <2> QED
      BY <2>1, <2>2 DEF InHand
  <1>4. CASE Throw \/ StartFails
    BY <1>4, IdleInHand DEF Throw, StartFails, Crash, InHand
  <1>5. CASE Restart \/ UNCHANGED vars
    BY <1>5 DEF Restart, vars, tables, procs, InHand, InHandOf, Listed
  <1> QED
    BY <1>1, <1>2, <1>3, <1>4, <1>5 DEF Next

-----------------------------------------------------------------------------
(* The refinement mapping.                                                 *)

\* The requests and the answers of the other goroutines.
Others(p) == {[sub |-> q, ch |-> job[q].ch] : q \in {x \in Busy : ~Committed(x)} \ {p}}

\* What a request that is done will be answered.
AnswerOf(p) == [sub |-> p, ch |-> job[p].ch, code |-> IF pc[p] = "error" THEN "error" ELSE "ok"]

Ripe(p) == {AnswerOf(q) : q \in {x \in Busy : Committed(x)} \ {p}}

\* What the state maps to, split at a goroutine.
LEMMA Split ==
  ASSUME NEW p \in Subs
  PROVE  /\ Pending = Others(p) \cup
              (IF p \in Busy /\ ~Committed(p) THEN {[sub |-> p, ch |-> job[p].ch]} ELSE {})
         /\ Answers = ({reply} \ {None}) \cup Ripe(p) \cup
              (IF Committed(p) THEN {AnswerOf(p)} ELSE {})
         /\ [sub |-> p, ch |-> job[p].ch] \notin Others(p)
  <1>1. Answers = ({reply} \ {None}) \cup {AnswerOf(q) : q \in {x \in Busy : Committed(x)}}
    BY DEF Answers, AnswerOf
  <1>2. Committed(p) => p \in Busy
    BY DEF Committed, Busy
  <1> QED
    BY <1>1, <1>2 DEF Pending, Others, Ripe

LEMMA SplitNext ==
  ASSUME NEW p \in Subs
  PROVE  /\ Pending' = Others(p)' \cup
              (IF p \in Busy' /\ ~Committed(p)' THEN {[sub |-> p, ch |-> job'[p].ch]} ELSE {})
         /\ Answers' = ({reply'} \ {None}) \cup Ripe(p)' \cup
              (IF Committed(p)' THEN {AnswerOf(p)'} ELSE {})
  <1>1. Answers' = ({reply'} \ {None}) \cup {AnswerOf(q)' : q \in {x \in Busy' : Committed(x)'}}
    BY DEF Answers, AnswerOf, Committed
  <1>2. Committed(p)' => p \in Busy'
    BY DEF Committed, Busy
  <1> QED
    BY <1>1, <1>2 DEF Pending, Others, Ripe

\* The answers when a goroutine's own is on no way, or just sent.
LEMMA SplitAnswers ==
  ASSUME NEW p \in Subs
  PROVE  /\ Ripe(p) \subseteq Answers
         /\ ~Committed(p)' /\ reply' = None => Answers' = Ripe(p)'
         /\ ~Committed(p)' /\ reply' # None => Answers' = Ripe(p)' \cup {reply'}
  <1>1. Ripe(p) \subseteq Answers
    BY Split
  <1>2. ASSUME ~Committed(p)' PROVE Answers' = ({reply'} \ {None}) \cup Ripe(p)'
    BY <1>2, SplitNext
  <1> QED
    BY <1>1, <1>2

\* A step of one goroutine leaves those of the others.
LEMMA OthersStay ==
  ASSUME NEW p \in Subs, \A q \in Subs \ {p} : pc'[q] = pc[q] /\ job'[q] = job[q]
  PROVE  Others(p)' = Others(p) /\ Ripe(p)' = Ripe(p)
  <1>1. /\ {x \in Busy : ~Committed(x)}' \ {p} = {x \in Busy : ~Committed(x)} \ {p}
        /\ {x \in Busy : Committed(x)}' \ {p} = {x \in Busy : Committed(x)} \ {p}
    BY DEF Busy, Committed
  <1>2. \A q \in {x \in Busy : ~Committed(x)} \ {p} : job'[q] = job[q]
    BY DEF Busy
  <1>3. \A q \in {x \in Busy : Committed(x)} \ {p} : AnswerOf(q)' = AnswerOf(q)
    BY DEF Busy, AnswerOf
  <1> QED
    BY <1>1, <1>2, <1>3 DEF Others, Ripe

LEMMA HandleSplits ==
  ASSUME IInv, NEW p \in Subs, Handle(p)
  PROVE  Others(p)' = Others(p) /\ Ripe(p)' = Ripe(p) /\ p \in Busy
  <1>1. \A q \in Subs \ {p} : pc'[q] = pc[q] /\ job'[q] = job[q]
    BY HandleMoves DEF IInv, TypeOK
  <1> QED
    BY <1>1, OthersStay, HandleMoves DEF Busy

\* A step of a request that is not done does not show.
LEMMA StepIsQuiet ==
  ASSUME IInv, NEW p \in Subs, Handle(p), ~Committed(p),
         pc'[p] \notin {"idle", "writeback", "ok", "error"}, job'[p].ch = job[p].ch,
         mgr' = mgr, reply' = None
  PROVE  Directory!Quiet
  <1>1. p \in Busy' /\ ~Committed(p)'
    BY DEF Busy, Committed
  <1>2. Pending' = Pending
    BY <1>1, Split, SplitNext, HandleSplits
  <1>3. Answers' = Ripe(p)'
    BY <1>1, SplitAnswers
  <1>4. Answers' \subseteq Answers
    BY <1>3, SplitAnswers, HandleSplits
  <1> QED
    BY <1>2, <1>4 DEF Directory!Quiet, Directory!Arrive

\* With the step that settles it, a request is answered.
LEMMA CommitResponds ==
  ASSUME IInv, NEW p \in Subs, Handle(p), ~Committed(p),
         NEW l \in {"writeback", "ok", "error"}, GoTo(p, l),
         NEW code, code = IF l = "error" THEN "error" ELSE "ok"
  PROVE  /\ [sub |-> p, ch |-> job[p].ch] \in Pending
         /\ Directory!Respond([sub |-> p, ch |-> job[p].ch], code)
  <1> DEFINE r == [sub |-> p, ch |-> job[p].ch]
             answer == [sub |-> p, ch |-> job[p].ch, code |-> code]
  <1>1. pc'[p] = l /\ job' = job /\ reply' = None /\ p \in Busy
    BY HandleMoves DEF GoTo, Busy, IInv, TypeOK
  <1>2. Committed(p)' /\ AnswerOf(p)' = answer
    BY <1>1 DEF Committed, AnswerOf
  <1>3. r \in Pending /\ Pending' = Pending \ {r}
    BY <1>1, <1>2, Split, SplitNext, HandleSplits
  <1>4. Answers' = Ripe(p)' \cup {answer}
    BY <1>1, <1>2, SplitNext
  <1>5. answer \in Answers' /\ Answers' \subseteq Answers \cup {answer}
    BY <1>4, SplitAnswers, HandleSplits
  <1>6. r.sub = p /\ r.ch = job[p].ch
    OBVIOUS
  <1> QED
    BY <1>3, <1>5, <1>6 DEF Directory!Respond, Directory!Send

\* What is left to be done of a request does not show, and neither does its answer.
LEMMA RestIsQuiet ==
  ASSUME RequestsOnly, IInv, NEW p \in Subs, Handle(p), Committed(p), mgr' = mgr,
         (GoTo(p, "ok") /\ pc[p] = "writeback") \/ Respond(p)
  PROVE  Directory!Quiet
  <1>1. Pending' = Pending
    <2>1. Committed(p)' \/ p \notin Busy'
      BY DEF GoTo, Respond, Committed, Busy, IInv, TypeOK
    <2> QED
      BY <2>1, Split, SplitNext, HandleSplits
  <1>2. Answers = ({reply} \ {None}) \cup Ripe(p) \cup {AnswerOf(p)}
    BY Split
  <1>3. Answers' \subseteq {AnswerOf(p)} \cup Ripe(p)'
    <2>1. CASE GoTo(p, "ok") /\ pc[p] = "writeback"
      <3>1. AnswerOf(p)' = AnswerOf(p) /\ reply' = None
        BY <2>1 DEF GoTo, AnswerOf, IInv, TypeOK
      <3> QED
        BY <3>1, SplitNext
    <2>2. CASE Respond(p)
      <3>1. ~Committed(p)'
        BY <2>2 DEF Respond, Committed, IInv, TypeOK
      <3>2. reply' = AnswerOf(p)
        BY <2>2 DEF Respond, Reply, AnswerOf, RequestsOnly, Directory!Requests, Syncs
      <3> QED
        BY <3>1, <3>2, SplitNext
    <2> QED
      BY <2>1, <2>2
  <1>4. Answers' \subseteq Answers
    BY <1>2, <1>3, HandleSplits
  <1> QED
    BY <1>1, <1>4 DEF Directory!Quiet, Directory!Arrive

\* The subjects, by what they ask for.
LEMMA SubjectsAre ==
  ASSUME RequestsOnly, NEW p \in Subs
  PROVE  /\ p \in Creates <=> p = "create"
         /\ p \in Updates <=> p = "update"
         /\ p \in Destroys <=> p = "destroy"
         /\ p \in Pauses <=> p = "pause"
         /\ p \in Resumes <=> p = "resume"
  BY DEF RequestsOnly, Directory!Requests, Creates, Updates, Destroys, Pauses, Resumes

LEMMA HandleImplements ==
  ASSUME RequestsOnly, UniqueIds, SlugsFindOwn, IInv, InHand, NEW p \in Subs, Handle(p)
  PROVE  Directory!Next
  <1> DEFINE r == [sub |-> p, ch |-> job[p].ch]
  <1>0. /\ job[p] \in Jobs /\ job[p].ch \in Catalog /\ job[p].ch.slug \in Slugs
        /\ job[p].cfg \in Configs
    BY HandleMoves, OwnSlug DEF Jobs
  <1>1. r.sub = p /\ r.ch = job[p].ch
    OBVIOUS
  <1>q. Directory!Quiet => Directory!Next
    BY DEF Directory!Next
  <1>r. r \in Pending /\ (Directory!Create(r) \/ Directory!Update(r) \/ Directory!Pause(r)
            \/ Directory!Resume(r) \/ Directory!Destroy(r) \/ Directory!Fail(r))
          => Directory!Next
    BY DEF Directory!Next
  <1>c. Committed(p) <=> pc[p] \in {"writeback", "ok", "error"}
    BY DEF Committed
  <1>2. CASE InstallChannel(p)
    <2>1. p \in {"create", "update"} /\ pc[p] = "init" /\ mgr' = mgr
      BY <1>2, SubjectsAre DEF InstallChannel, IInv, RouteInv, OnRoute
    <2>2. CASE GoTo(p, "error")
      BY <1>r, <1>1, <2>1, <2>2, CommitResponds, <1>c DEF Directory!Fail
    <2>3. CASE GoTo(p, "ok") /\ p \notin Creates
      BY <1>r, <1>1, <2>1, <2>3, CommitResponds, <1>c, SubjectsAre DEF Directory!Update
    <2>4. CASE GoTo(p, "file")
      BY <1>q, <1>c, <2>1, <2>4, StepIsQuiet DEF GoTo, IInv, TypeOK
    <2> QED
      BY <1>2, <2>2, <2>3, <2>4 DEF InstallChannel
  <1>3. CASE FileChannel(p)
    <2>1. p = "create" /\ pc[p] = "file" /\ GoTo(p, "ok")
      BY <1>3, SubjectsAre DEF FileChannel, IInv, RouteInv, OnRoute
    <2> QED
      BY <1>r, <1>1, <1>3, <2>1, CommitResponds, <1>c
      DEF FileChannel, Directory!Create, Directory!Put
  <1>4. CASE GetChannel(p)
    <2>1. pc[p] = "lookup" /\ mgr' = mgr /\ p \in Destroys \cup Pauses \cup Resumes
      BY <1>4 DEF GetChannel, tables, IInv, RouteInv, OnRoute
    <2>2. CASE ~Listed(job[p].ch) /\ GoTo(p, "error")
      BY <1>r, <1>1, <2>1, <2>2, CommitResponds, <1>c
      DEF Directory!Fail, Directory!IsListed, Listed
    <2>3. CASE /\ job'[p].ch = job[p].ch
               /\ pc' = [pc EXCEPT ![p] = AfterLookup(p)] /\ reply' = None
      <3>1. AfterLookup(p) \notin {"idle", "writeback", "ok", "error"}
        BY <2>1 DEF AfterLookup
      <3> QED
        BY <1>q, <1>c, <2>1, <2>3, <3>1, StepIsQuiet DEF IInv, TypeOK
    <2> QED
      BY <1>4, <2>2, <2>3, FoundIsListed
  <1>5. CASE FeishuDeleteChannel(p) \/ QQDeleteChannel(p) \/ WxLock(p) \/ PauseHandler(p)
    <2>1. PICK l \in Labels : GoTo(p, l) /\ l \notin {"idle", "writeback", "ok", "error"}
      BY <1>5 DEF FeishuDeleteChannel, QQDeleteChannel, DeleteFrom, WxLock, PauseHandler,
         AfterDelete, Labels
    <2>2. mgr' = mgr /\ ~Committed(p)
      BY <1>5, <1>c DEF FeishuDeleteChannel, QQDeleteChannel, DeleteFrom, WxLock, PauseHandler,
         tables
    <2> QED
      BY <1>q, <2>1, <2>2, StepIsQuiet DEF GoTo, IInv, TypeOK
  <1>6. CASE WxDeleteChannel(p)
    <2>1. pc[p] = "wxdelete" /\ mgr' = mgr
      BY <1>6 DEF WxDeleteChannel
    <2>2. CASE GoTo(p, "error") /\ p \in Destroys
      BY <1>r, <1>1, <2>1, <2>2, CommitResponds, <1>c, SubjectsAre DEF Directory!Fail
    <2>3. ASSUME NEW l \in {"init", "remove"}, GoTo(p, l)
          PROVE  Directory!Next
      BY <1>q, <1>c, <2>1, <2>3, StepIsQuiet DEF GoTo, IInv, TypeOK
    <2> QED
      BY <1>6, <2>2, <2>3 DEF WxDeleteChannel, AfterDelete
  <1>7. CASE MatchChannel(p)
    <2>1. pc[p] = "remove" /\ mgr' = mgr /\ GoTo(p, "drop")
      BY <1>7, MatchIsOwn DEF MatchChannel, tables
    <2> QED
      BY <1>q, <1>c, <2>1, StepIsQuiet DEF GoTo, IInv, TypeOK
  <1>8. CASE RemoveChannel(p)
    <2>1. p = "destroy" /\ pc[p] = "drop" /\ GoTo(p, "ok")
      BY <1>8, SubjectsAre DEF RemoveChannel, IInv, RouteInv, OnRoute
    <2>2. Listed(job[p].ch) /\ held[p].slug = job[p].ch.slug
      BY <2>1 DEF InHand, InHandOf
    <2>3. mgr' = [mgr EXCEPT ![job[p].ch.slug] = None]
      BY <1>8, <2>2 DEF RemoveChannel
    <2> QED
      BY <1>r, <1>c, <1>1, <2>1, <2>2, <2>3, CommitResponds
      DEF Directory!Destroy, Directory!IsListed, Listed
  <1>9. CASE ScanChannels(p)
    <2>1. /\ p \in Pauses \cup Resumes /\ Listed(job[p].ch) /\ GoTo(p, "writeback")
          /\ mgr' = [mgr EXCEPT ![job[p].ch.slug] =
                       [ch |-> job[p].ch, status |-> NewStatus(p)]]
      BY <1>9, ScanIsOwn
    <2>2. pc[p] = "scan"
      BY <1>9 DEF ScanChannels
    <2>3. r \in Pending /\ Directory!Respond(r, "ok")
      BY <1>c, <2>1, <2>2, CommitResponds
    <2>4. CASE p = "pause"
      BY <1>r, <1>1, <2>1, <2>3, <2>4
      DEF NewStatus, Pauses, Directory!Pause, Directory!IsListed, Directory!Put, Listed
    <2>5. CASE p = "resume"
      BY <1>r, <1>1, <2>1, <2>3, <2>5
      DEF NewStatus, Pauses, Directory!Resume, Directory!IsListed, Directory!Put, Listed
    <2> QED
      BY <2>1, <2>4, <2>5, SubjectsAre
  <1>10. CASE WriteBack(p)
    <2>1. pc[p] = "writeback" /\ GoTo(p, "ok")
      BY <1>10 DEF WriteBack
    <2>2. mgr' = mgr
      BY <1>10, <2>1 DEF WriteBack, InHand, InHandOf, IInv, TypeOK
    <2> QED
      BY <1>q, <1>c, <2>1, <2>2, RestIsQuiet
  <1>11. CASE Respond(p)
    <2>1. Committed(p) /\ mgr' = mgr
      BY <1>11, <1>c DEF Respond, tables
    <2> QED
      BY <1>q, <1>11, <2>1, RestIsQuiet
  <1> QED
    BY <1>2, <1>3, <1>4, <1>5, <1>6, <1>7, <1>8, <1>9, <1>10, <1>11 DEF Handle

LEMMA ReceiveImplements ==
  ASSUME RequestsOnly, IInv, Receive
  PROVE  Directory!Next
  <1>1. ASSUME NEW p \in Subs, Reject(p)
        PROVE  Directory!Next
    <2> DEFINE answer == [sub |-> p, ch |-> None, code |-> "error"]
    <2>1. UNCHANGED <<mgr, pc, job>>
      BY <1>1 DEF Reject, tables
    <2>2. p \in Directory!Requests /\ reply' = answer
      BY <1>1 DEF Reject, Reply, RequestsOnly, Directory!Requests, Syncs
    <2>3. answer # None
      BY SubsAssumption DEF Replies
    <2>4. Pending' = Pending
      BY <2>1 DEF Pending, Busy, Committed
    <2>5. Ripe(p)' = Ripe(p) /\ ~Committed(p)'
      BY <1>1, <2>1, OthersStay DEF Reject, Ready, Committed
    <2>6. Answers' = Ripe(p)' \cup {answer}
      BY <2>2, <2>3, <2>5, SplitAnswers
    <2>7. answer \in Answers' /\ Answers' \subseteq Answers \cup {answer}
      BY <2>5, <2>6, SplitAnswers
    <2> QED
      BY <2>1, <2>2, <2>4, <2>7 DEF Directory!Next, Directory!Refuse, Directory!Send
  <1>2. ASSUME NEW p \in Subs, NEW c \in Catalog, NEW cfg \in Configs,
               NEW l \in {"init", "delete", "lookup"}, Accept(p, c, cfg, l)
        PROVE  Directory!Next
    <2>1. pc[p] = "idle" /\ pc'[p] = l /\ job'[p].ch = c /\ reply' = None /\ mgr' = mgr
      BY <1>2 DEF Accept, Ready, tables, IInv, TypeOK
    <2>2. p \in Busy' /\ p \notin Busy /\ ~Committed(p) /\ ~Committed(p)'
      BY <2>1 DEF Busy, Committed
    <2>3. \A q \in Subs \ {p} : pc'[q] = pc[q] /\ job'[q] = job[q]
      BY <1>2 DEF Accept, IInv, TypeOK
    <2>4. Others(p)' = Others(p) /\ Ripe(p)' = Ripe(p)
      BY <2>3, OthersStay
    <2>5. Pending' = Pending \cup {[sub |-> p, ch |-> c]}
      <3>1. Pending = Others(p)
        BY <2>2, Split
      <3>2. Pending' = Others(p)' \cup {[sub |-> p, ch |-> c]}
        BY <2>1, <2>2, SplitNext
      <3> QED
        BY <2>4, <3>1, <3>2
    <2>6. Answers' = Ripe(p)'
      BY <2>1, <2>2, SplitAnswers
    <2>7. Answers' \subseteq Answers
      BY <2>4, <2>6, SplitAnswers
    <2> QED
      BY <2>1, <2>5, <2>7
      DEF Directory!Next, Directory!Ask, Directory!Arrive, RequestsOnly
  <1> QED
    BY <1>1, <1>2, ReceiveStarts

LEMMA BootImplements ==
  ASSUME IInv, Boot
  PROVE  Directory!Next
  <1>1. UNCHANGED <<pc, job>> /\ reply' = None
    BY DEF Boot, SubscribeChannelEvents, SubscribePeerSyncEvents, SubscribeNext,
       SubscribeMigrationEvents, ListChannels, InitNext, FileNext, Serve
  <1>2. Pending' = Pending
    BY <1>1 DEF Pending, Busy, Committed
  <1>3. Answers' \subseteq Answers
    BY <1>1 DEF Answers, Busy, Committed
  <1>4. CASE FileNext
    <2>1. /\ filing \in Entries
          /\ mgr' = [mgr EXCEPT ![filing.ch.slug] = filing]
      BY <1>4 DEF FileNext, IInv, TypeOK
    <2>2. filing = [ch |-> filing.ch, status |-> filing.status]
      BY <2>1 DEF Entries
    <2> QED
      BY <1>2, <1>3, <2>1, <2>2
      DEF Directory!Next, Directory!Install, Directory!Arrive, Directory!Put,
          Directory!Entries, Entries, Directory!Statuses, Statuses
  <1>5. CASE mgr' = mgr
    BY <1>2, <1>3, <1>5 DEF Directory!Next, Directory!Quiet, Directory!Arrive
  <1> QED
    BY <1>4, <1>5 DEF Boot, SubscribeChannelEvents, SubscribePeerSyncEvents, SubscribeNext,
       SubscribeMigrationEvents, ListChannels, InitNext, Serve, tables

LEMMA CrashImplements ==
  ASSUME Crash
  PROVE  Directory!Next
  <1>1. mgr' = [s \in Slugs |-> None] /\ reply' = None /\ Busy' = {}
    BY DEF Crash, Busy
  <1>2. Pending' = {} /\ Answers' = {}
    BY <1>1 DEF Pending, Answers
  <1> QED
    BY <1>1, <1>2 DEF Directory!Next, Directory!Forget, Directory!Arrive,
       Directory!Slugs, Slugs

LEMMA StepImplements ==
  ASSUME RequestsOnly, UniqueIds, SlugsFindOwn, IInv, InHand, [Next]_vars
  PROVE  [Directory!Next]_(Directory!vars)
  <1>1. CASE Throw \/ StartFails
    BY <1>1, CrashImplements DEF Throw, StartFails
  <1>2. CASE Restart \/ UNCHANGED vars
    <2>1. UNCHANGED <<mgr, pc, job, reply>>
      BY <1>2 DEF Restart, vars, tables, procs
    <2> QED
      BY <2>1 DEF Directory!vars, Pending, Answers, Busy, Committed
  <1> QED
    BY <1>1, <1>2, ReceiveImplements, HandleImplements, BootImplements DEF Next

\* In the initial state the goroutines have nothing in hand, and the tenants are
\* apart; from there on the admin keeps them apart.
LEMMA StaysApart ==
  ApartSpec => Spec /\ []Apart
  <1>1. Init => Apart
    BY DEF Init, Apart, Busy
  <1>2. Apart /\ [Next /\ Apart']_vars => Apart'
    BY DEF vars, bootVars, procs, Apart, Busy
  <1>3. [Next /\ Apart']_vars => [Next]_vars
    OBVIOUS
  <1> QED
    BY <1>1, <1>2, <1>3, PTL DEF ApartSpec, Spec

\* When the admin asks for one thing at a time per tenant, and its ids are unique
\* and nobody else's slugs, the requests for the other tenants, the handlers'
\* tables, the locks and the ways from an id to a slug do not show: the gateway is
\* the directory of channels that the admin service takes it for, whatever is
\* interleaved, and also when the process dies of a race.
THEOREM AdminImplementsDirectory ==
  ASSUME RequestsOnly, UniqueIds, SlugsFindOwn
  PROVE  ApartSpec => ImplementsDirectory
  <1>1. Init => InHand /\ Directory!Init
    <2>1. Init => InHand
      BY DEF Init, InHand, InHandOf
    <2>2. Init => Pending = {} /\ Answers = {}
      BY DEF Init, Pending, Answers, Busy
    <2> QED
      BY <2>1, <2>2 DEF Init, Directory!Init, Directory!Slugs, Slugs
  <1>2. IInv /\ Apart /\ InHand /\ [Next]_vars => InHand'
    BY InHandStep
  <1>3. IInv /\ InHand /\ [Next]_vars => [Directory!Next]_(Directory!vars)
    BY StepImplements
  <1> QED
    BY <1>1, <1>2, <1>3, StaysApart, Invariance, PTL
    DEF Spec, ImplementsDirectory, Directory!Spec

-----------------------------------------------------------------------------
(* A destroyed channel is gone from its handler.                           *)

\* A destroy that is through with the handler has left it without the channel until
\* it is answered, and WxGateway's DeleteChannel is only called for channels of its type.
RidOf(p) ==
  /\ pc[p] \in {"remove", "drop"} \/ (pc[p] = "ok" /\ p \in Destroys)
       => gw[job[p].ch.type][job[p].ch.slug] = None
  /\ pc[p] = "wxdelete" => job[p].ch.type = "weixin"

\* QQBotGateway keeps no state for an empty slug.
HandlerIsRid ==
  /\ NoSlug \in Slugs => gw["qqbot"][NoSlug] = None
  /\ \A p \in Subs : RidOf(p)

LEMMA InstallsKeepsNoSlug ==
  ASSUME IInv, NEW c \in Catalog, NEW cfg, Installs(c, cfg), NoSlug \in Slugs,
         gw["qqbot"][NoSlug] = None
  PROVE  gw'["qqbot"][NoSlug] = None
  <1>1. c.type \in Types /\ gw' = [gw EXCEPT ![c.type] = InitTable(gw[c.type], c, cfg)]
    BY ChannelFacts DEF Installs
  <1>2. CASE c.type = "qqbot"
    BY <1>1, <1>2 DEF InitTable, QQInit, Types, IInv, TypeOK
  <1>3. CASE c.type # "qqbot"
    BY <1>1, <1>3 DEF IInv, TypeOK
  <1> QED
    BY <1>2, <1>3

\* FeishuGateway and QQBotGateway find what they serve of the channel.
LEMMA DeleteFromRids ==
  ASSUME UniqueIds, SlugsFindOwn, IdsFindOwn, IInv, HandlerIsRid, NEW p \in Subs,
         FeishuDeleteChannel(p) \/ QQDeleteChannel(p)
  PROVE  gw'[job[p].ch.type][job[p].ch.slug] = None
  <1> DEFINE c == job[p].ch
  <1>0. c \in Catalog /\ c.slug \in Slugs /\ c.type \in Types
    BY OwnSlug, ChannelFacts DEF FeishuDeleteChannel, QQDeleteChannel
  <1>1. ASSUME NEW targets \in SUBSET Slugs,
               targets \subseteq {c.slug}, gw[c.type][c.slug] # None => c.slug \in targets,
               DeleteFrom(p, targets)
        PROVE  gw'[c.type][c.slug] = None
    <2>1. CASE targets = {} /\ UNCHANGED gw
      BY <1>1, <2>1
    <2>2. CASE gw' = [gw EXCEPT ![c.type][c.slug] = None]
      BY <1>0, <2>2 DEF IInv, TypeOK
    <2> QED
      BY <1>1, <2>1, <2>2 DEF DeleteFrom
  <1>2. CASE FeishuDeleteChannel(p)
    <2>1. gw["feishu"][c.slug] # None => c.slug \in FeishuTargets(gw["feishu"], c.id)
      BY <1>0, <1>2 DEF IdsFindOwn, FeishuDeleteChannel, FeishuTargets, Served
    <2>2. FeishuTargets(gw["feishu"], c.id) \subseteq {c.slug}
      BY <1>0, LookupIsOwn
    <2>3. c.type = "feishu" /\ DeleteFrom(p, FeishuTargets(gw["feishu"], c.id))
      BY <1>2 DEF FeishuDeleteChannel
    <2> QED
      BY <1>0, <1>1, <2>1, <2>2, <2>3
  <1>3. CASE QQDeleteChannel(p)
    <2>1. gw["qqbot"][c.slug] # None => c.slug \in QQTargets(gw["qqbot"], c.id)
      BY <1>0, <1>3 DEF IdsFindOwn, QQDeleteChannel, QQTargets, Served, HandlerIsRid
    <2>2. QQTargets(gw["qqbot"], c.id) \subseteq {c.slug}
      BY <1>0, LookupIsOwn
    <2>3. c.type = "qqbot" /\ DeleteFrom(p, QQTargets(gw["qqbot"], c.id))
      BY <1>3 DEF QQDeleteChannel
    <2> QED
      BY <1>0, <1>1, <2>1, <2>2, <2>3
  <1> QED
    BY <1>2, <1>3

\* WxGateway finds it through the manager, where a destroy has just found it, or
\* fails.
LEMMA WxDeleteRids ==
  ASSUME UniqueIds, SlugsFindOwn, IInv, InHand, NEW p \in Subs, p \in Destroys,
         WxDeleteChannel(p), ~GoTo(p, "error")
  PROVE  gw'["weixin"][job[p].ch.slug] = None
  <1> DEFINE c == job[p].ch
  <1>0. c \in Catalog /\ c.slug \in Slugs
    BY OwnSlug DEF WxDeleteChannel
  <1>1. PICK s \in WxTried(gw["weixin"], mgr, c.id) :
          s \in Served(gw["weixin"]) /\ gw' = [gw EXCEPT !["weixin"][s] = None]
    BY DEF WxDeleteChannel
  <1>2. s = c.slug
    BY <1>0, <1>1, LookupIsOwn
  <1> QED
    BY <1>0, <1>1, <1>2 DEF IInv, TypeOK, Types

\* A deletion leaves nothing where there was nothing.
LEMMA HandleKeepsNoSlug ==
  ASSUME IInv, HandlerIsRid, NEW p \in Subs, Handle(p), NoSlug \in Slugs
  PROVE  gw'["qqbot"][NoSlug] = None
  <1>0. gw["qqbot"][NoSlug] = None /\ "qqbot" \in Types
    BY DEF HandlerIsRid, Types
  <1>1. CASE InstallChannel(p)
    <2>1. job[p].ch \in Catalog
      BY <1>1, OwnSlug DEF InstallChannel
    <2> QED
      BY <1>0, <1>1, <2>1, InstallsKeepsNoSlug DEF InstallChannel
  <1>2. CASE UNCHANGED gw
    BY <1>0, <1>2
  <1>3. ASSUME NEW t, NEW s, gw' = [gw EXCEPT ![t][s] = None]
        PROVE  gw'["qqbot"][NoSlug] = None
    BY <1>0, <1>3 DEF IInv, TypeOK
  <1>4. CASE FeishuDeleteChannel(p) \/ QQDeleteChannel(p)
    BY <1>2, <1>3, <1>4 DEF FeishuDeleteChannel, QQDeleteChannel, DeleteFrom
  <1>5. CASE WxDeleteChannel(p)
    BY <1>2, <1>3, <1>5 DEF WxDeleteChannel
  <1> QED
    BY <1>1, <1>2, <1>4, <1>5 DEF Handle, FileChannel, GetChannel, WxLock, MatchChannel,
       RemoveChannel, PauseHandler, ScanChannels, WriteBack, Respond, tables

\* WxGateway's DeleteChannel begins with its lock.
LEMMA OnlyLockLeads ==
  ASSUME IInv, NEW p \in Subs, Handle(p), ~WxLock(p)
  PROVE  pc'[p] # "wxdelete"
  <1>1. GetChannel(p) => pc'[p] # "wxdelete"
    BY DEF GetChannel, AfterLookup, GoTo, IInv, TypeOK, RouteInv, OnRoute
  <1>2. FeishuDeleteChannel(p) \/ QQDeleteChannel(p) \/ WxDeleteChannel(p)
          => pc'[p] # "wxdelete"
    BY DEF FeishuDeleteChannel, QQDeleteChannel, DeleteFrom, WxDeleteChannel,
       AfterDelete, GoTo, IInv, TypeOK
  <1>3. InstallChannel(p) \/ FileChannel(p) \/ MatchChannel(p) \/ RemoveChannel(p)
          => pc'[p] # "wxdelete"
    BY DEF InstallChannel, FileChannel, MatchChannel, RemoveChannel, GoTo, IInv, TypeOK
  <1>4. PauseHandler(p) \/ ScanChannels(p) \/ WriteBack(p) \/ Respond(p)
          => pc'[p] # "wxdelete"
    BY DEF PauseHandler, ScanChannels, WriteBack, Respond, GoTo, IInv, TypeOK
  <1> QED
    BY <1>1, <1>2, <1>3, <1>4 DEF Handle

\* A destroy that is through with the handler leaves it without the channel.
LEMMA HandleRids ==
  ASSUME UniqueIds, SlugsFindOwn, IdsFindOwn, IInv, InHand, HandlerIsRid,
         NEW p \in Subs, Handle(p)
  PROVE  RidOf(p)'
  <1>1. ASSUME pc'[p] \in {"remove", "drop"} \/ (pc'[p] = "ok" /\ p \in Destroys)
        PROVE  gw'[job'[p].ch.type][job'[p].ch.slug] = None
    <2>0. pc[p] \in {"lookup", "delete", "wxdelete", "remove", "drop"} => p \notin Creates
      BY DEF IInv, RouteInv, OnRoute, Creates, Updates, Destroys, Pauses, Resumes
    <2>1. CASE FeishuDeleteChannel(p) \/ QQDeleteChannel(p)
      <3>1. job' = job
        BY <2>1 DEF FeishuDeleteChannel, QQDeleteChannel, DeleteFrom, GoTo
      <3> QED
        BY <2>1, <3>1, DeleteFromRids
    <2>2. CASE WxDeleteChannel(p)
      <3>1. ~GoTo(p, "error") /\ ~GoTo(p, "init")
        BY <1>1 DEF GoTo, IInv, TypeOK
      <3>2. p \in Destroys
        BY <2>2, <3>1 DEF WxDeleteChannel, AfterDelete
      <3>3. job' = job
        BY <2>2, <3>1 DEF WxDeleteChannel, GoTo
      <3>4. job[p].ch.type = "weixin"
        BY <2>2 DEF WxDeleteChannel, HandlerIsRid, RidOf
      <3> QED
        BY <2>2, <3>1, <3>2, <3>3, <3>4, WxDeleteRids
    <2>3. CASE MatchChannel(p) \/ RemoveChannel(p)
      <3>1. pc[p] \in {"remove", "drop"} /\ job' = job /\ gw' = gw
        BY <2>3 DEF MatchChannel, RemoveChannel, GoTo, tables
      <3> QED
        BY <3>1 DEF HandlerIsRid, RidOf
    <2>4. CASE GetChannel(p)
      BY <1>1, <2>4 DEF GetChannel, AfterLookup, GoTo, IInv, TypeOK, RouteInv, OnRoute
    <2>5. CASE InstallChannel(p) \/ FileChannel(p) \/ ScanChannels(p) \/ WriteBack(p)
      <3>1. p \in Creates \cup Updates \cup Pauses \cup Resumes
        BY <2>5 DEF InstallChannel, FileChannel, ScanChannels, WriteBack, IInv, RouteInv, OnRoute
      <3>2. p \notin Destroys
        BY <3>1 DEF Creates, Updates, Destroys, Pauses, Resumes
      <3> QED
        BY <1>1, <2>5, <3>2 DEF InstallChannel, FileChannel, ScanChannels, WriteBack, GoTo,
           IInv, TypeOK
    <2>6. CASE WxLock(p) \/ PauseHandler(p) \/ Respond(p)
      BY <1>1, <2>6 DEF WxLock, PauseHandler, Respond, GoTo, IInv, TypeOK
    <2> QED
      BY <2>1, <2>2, <2>3, <2>4, <2>5, <2>6 DEF Handle
  <1>2. ASSUME pc'[p] = "wxdelete"
        PROVE  job'[p].ch.type = "weixin"
    <2>1. CASE WxLock(p)
      BY <2>1 DEF WxLock, GoTo
    <2>2. ~WxLock(p) => pc'[p] # "wxdelete"
      BY OnlyLockLeads
    <2> QED
      BY <1>2, <2>1, <2>2
  <1> QED
    BY <1>1, <1>2 DEF RidOf

LEMMA UntouchedRid ==
  ASSUME IInv, HandlerIsRid, NEW q \in Busy, Untouched(q)
  PROVE  RidOf(q)'
  <1>1. q \in Subs /\ job[q].ch.type \in Types
    BY OwnSlug DEF Busy
  <1> QED
    BY <1>1 DEF HandlerIsRid, RidOf, Untouched, SlotChanges

LEMMA HandlerIsRidStep ==
  ASSUME UniqueIds, SlugsFindOwn, IdsFindOwn,
         IInv, Apart, InHand, HandlerIsRid, [Next]_vars
  PROVE  HandlerIsRid'
  <1>0. ASSUME NoSlug \in Slugs => gw'["qqbot"][NoSlug] = None,
               \A q \in Subs : RidOf(q)'
        PROVE  HandlerIsRid'
    BY <1>0 DEF HandlerIsRid
  <1>1. CASE Receive
    <2>1. UNCHANGED gw
      BY <1>1, ReceiveStarts DEF Accept, Reject, tables
    <2>2. \A q \in Subs : \/ pc'[q] = pc[q] /\ job'[q] = job[q]
                          \/ pc'[q] \in {"init", "delete", "lookup"}
      BY <1>1, ReceiveStarts DEF Accept, Reject, IInv, TypeOK
    <2> QED
      BY <1>0, <2>1, <2>2 DEF HandlerIsRid, RidOf
  <1>2. ASSUME NEW p \in Subs, Handle(p)
        PROVE  HandlerIsRid'
    <2>1. NoSlug \in Slugs => gw'["qqbot"][NoSlug] = None
      BY <1>2, HandleKeepsNoSlug
    <2>2. ASSUME NEW q \in Busy, q # p
          PROVE  RidOf(q)'
      BY <1>2, <2>2, HandleLeavesOthers, UntouchedRid
    <2>3. ASSUME NEW q \in Subs \ Busy
          PROVE  RidOf(q)'
      BY <1>2, HandleMoves DEF RidOf, Busy, IInv, TypeOK
    <2>4. RidOf(p)'
      BY <1>2, HandleRids
    <2> QED
      BY <1>0, <2>1, <2>2, <2>3, <2>4
  <1>3. CASE Boot
    <2>1. ASSUME NEW q \in Busy
          PROVE  RidOf(q)'
      BY <1>3, BootLeavesAll, UntouchedRid
    <2>2. UNCHANGED pc
      BY <1>3 DEF Boot, SubscribeChannelEvents, SubscribePeerSyncEvents, SubscribeNext,
         SubscribeMigrationEvents, ListChannels, InitNext, FileNext, Serve
    <2>3. ASSUME NEW q \in Subs \ Busy
          PROVE  RidOf(q)'
      BY <2>2 DEF RidOf, Busy
    <2>4. CASE InitNext
      <3>1. PICK e \in todo, cfg \in Configs : Installs(e.ch, cfg)
        BY <2>4 DEF InitNext
      <3>2. e.ch \in Catalog
        BY DEF IInv, TypeOK, Entries
      <3>3. NoSlug \in Slugs => gw'["qqbot"][NoSlug] = None
        BY <3>1, <3>2, InstallsKeepsNoSlug DEF HandlerIsRid
      <3> QED
        BY <1>0, <2>1, <2>3, <3>3
    <2>5. CASE UNCHANGED gw
      BY <1>0, <2>1, <2>3, <2>5 DEF HandlerIsRid
    <2> QED
      BY <1>3, <2>4, <2>5 DEF Boot, SubscribeChannelEvents, SubscribePeerSyncEvents,
         SubscribeNext, SubscribeMigrationEvents, ListChannels, FileNext, Serve, tables
  <1>4. CASE Throw \/ StartFails
    BY <1>4 DEF Throw, StartFails, Crash, HandlerIsRid, RidOf, Types
  <1>5. CASE Restart \/ UNCHANGED vars
    BY <1>5 DEF Restart, vars, tables, procs, HandlerIsRid, RidOf
  <1> QED
    BY <1>1, <1>2, <1>3, <1>4, <1>5 DEF Next

\* The answer is a step of its own.
LEMMA HandleReplies ==
  ASSUME NEW p \in Subs, Handle(p), reply' # None
  PROVE  Respond(p)
  <1>1. CASE InstallChannel(p) \/ FileChannel(p) \/ GetChannel(p)
    BY <1>1 DEF InstallChannel, FileChannel, GetChannel, GoTo
  <1>2. CASE FeishuDeleteChannel(p) \/ QQDeleteChannel(p) \/ WxLock(p) \/ PauseHandler(p)
    BY <1>2 DEF FeishuDeleteChannel, QQDeleteChannel, DeleteFrom, WxLock, PauseHandler, GoTo
  <1>3. CASE WxDeleteChannel(p) \/ MatchChannel(p) \/ RemoveChannel(p)
    BY <1>3 DEF WxDeleteChannel, MatchChannel, RemoveChannel, GoTo
  <1>4. CASE ScanChannels(p) \/ WriteBack(p)
    BY <1>4 DEF ScanChannels, WriteBack, GoTo
  <1> QED
    BY <1>1, <1>2, <1>3, <1>4 DEF Handle

\* What is answered has been deleted, and the tenant left alone since.
LEMMA GoneStep ==
  ASSUME IInv, HandlerIsRid, EveryDestroyGone, [Next]_vars
  PROVE  EveryDestroyGone'
  <1> SUFFICES ASSUME reply' # None, reply'.code = "ok", reply'.sub \in Destroys
               PROVE  gw'[reply'.ch.type][reply'.ch.slug] = None
    BY DEF EveryDestroyGone
  <1>1. CASE Restart \/ UNCHANGED vars
    BY <1>1 DEF Restart, vars, tables, procs, EveryDestroyGone
  <1>2. CASE Receive
    BY <1>2 DEF Receive, OnChannelCreate, OnChannelUpdate, OnChannelDestroy,
       OnChannelPause, OnChannelResume, OnSyncCreate, OnSyncUpdate, OnSyncDestroy,
       OnSyncPause, OnSyncResume, Accept, Reject, Reply
  <1>3. CASE Boot \/ Throw \/ StartFails
    BY <1>3 DEF Boot, SubscribeChannelEvents, SubscribePeerSyncEvents, SubscribeNext,
       SubscribeMigrationEvents, ListChannels, InitNext, FileNext, Serve,
       Throw, StartFails, Crash
  <1>4. ASSUME NEW p \in Subs, Handle(p)
        PROVE  gw'[reply'.ch.type][reply'.ch.slug] = None
    <2>1. Respond(p)
      BY <1>4, HandleReplies
    <2>2. reply'.sub = p /\ reply'.ch = job[p].ch /\ reply'.code = pc[p] /\ gw' = gw
      BY <2>1 DEF Respond, Reply, tables
    <2> QED
      BY <2>2 DEF HandlerIsRid, RidOf
  <1> QED
    BY <1>1, <1>2, <1>3, <1>4 DEF Next

\* When the admin asks for one thing at a time per tenant, and each handler's
\* DeleteChannel finds its own slug by the admin's ids, a channel whose destroy was
\* answered "ok" is not served.
THEOREM DestroyedIsGone ==
  ASSUME UniqueIds, SlugsFindOwn, IdsFindOwn
  PROVE  ApartSpec => []EveryDestroyGone
  <1>1. Init => InHand /\ HandlerIsRid /\ EveryDestroyGone
    BY DEF Init, InHand, InHandOf, HandlerIsRid, RidOf, EveryDestroyGone, Types
  <1>2. IInv /\ Apart /\ InHand /\ HandlerIsRid /\ EveryDestroyGone /\ [Next]_vars
          => (InHand /\ HandlerIsRid /\ EveryDestroyGone)'
    BY InHandStep, HandlerIsRidStep, GoneStep
  <1> QED
    BY <1>1, <1>2, StaysApart, Invariance, PTL DEF Spec

-----------------------------------------------------------------------------
(* An admin service that asks for one thing at a time.                     *)

\* The admin service waits for an answer before it asks for something else.
OneAtATime == MaxInFlight = 1 /\ RequestsOnly

\* No two goroutines are at work.
OneInFlight ==
  /\ \A p, q \in Busy : p = q
  /\ boot # "serving" => Busy = {}
  /\ filing # None \/ todo # {} => boot = "installing"

LEMMA SubsFinite == OneAtATime => IsFiniteSet(Busy)
  <1> SUFFICES ASSUME OneAtATime PROVE IsFiniteSet(Busy)
    OBVIOUS
  <1>1. IsFiniteSet({"create"})
    BY FS_Singleton
  <1>2. IsFiniteSet({"create"} \cup {"update"})
    BY <1>1, FS_AddElement
  <1>3. IsFiniteSet({"create"} \cup {"update"} \cup {"destroy"})
    BY <1>2, FS_AddElement
  <1>4. IsFiniteSet({"create"} \cup {"update"} \cup {"destroy"} \cup {"pause"})
    BY <1>3, FS_AddElement
  <1>5. IsFiniteSet({"create"} \cup {"update"} \cup {"destroy"} \cup {"pause"} \cup {"resume"})
    BY <1>4, FS_AddElement
  <1>6. Busy \in SUBSET ({"create"} \cup {"update"} \cup {"destroy"} \cup {"pause"} \cup {"resume"})
    BY DEF OneAtATime, RequestsOnly, Busy, Directory!Requests
  <1> QED
    BY <1>5, <1>6, FS_Subset

\* A request is taken only when nothing else is in progress.
LEMMA ReadyAlone ==
  ASSUME OneAtATime, NEW p \in Subs, Ready(p)
  PROVE  Busy = {} /\ boot = "serving"
  <1>1. IsFiniteSet(Busy) /\ Cardinality(Busy) \in Nat
    BY SubsFinite, FS_CardinalityType
  <1>2. Cardinality(Busy) = 0 /\ boot = "serving"
    BY <1>1 DEF OneAtATime, Ready
  <1> QED
    BY <1>1, <1>2, FS_EmptySet

LEMMA OneInFlightStep ==
  ASSUME OneAtATime, IInv, OneInFlight, [Next]_vars
  PROVE  OneInFlight'
  <1>1. CASE Receive
    <2> PICK p \in Subs : /\ Ready(p) /\ UNCHANGED bootVars
                          /\ (UNCHANGED pc \/ \E l \in Labels : pc' = [pc EXCEPT ![p] = l])
      BY <1>1, ReceiveStarts DEF Accept, Reject, Labels
    <2> QED
      BY ReadyAlone DEF OneInFlight, Busy, IInv, TypeOK, bootVars
  <1>2. ASSUME NEW p \in Subs, Handle(p)
        PROVE  OneInFlight'
    <2>1. Busy = {p} /\ Busy' \subseteq {p} /\ UNCHANGED bootVars
      BY <1>2, HandleMoves DEF OneInFlight, Busy, IInv, TypeOK
    <2> QED
      BY <2>1 DEF OneInFlight, bootVars
  <1>3. CASE Boot
    <2>1. /\ boot # "serving" /\ UNCHANGED pc
          /\ filing' # None \/ todo' # {} => boot' = "installing"
      BY <1>3 DEF Boot, SubscribeChannelEvents, SubscribePeerSyncEvents, SubscribeNext,
         SubscribeMigrationEvents, ListChannels, InitNext, FileNext, Serve, OneInFlight
    <2> QED
      BY <2>1 DEF OneInFlight, Busy
  <1>4. CASE Throw \/ StartFails
    BY <1>4 DEF Throw, StartFails, Crash, OneInFlight, Busy
  <1>5. CASE Restart \/ UNCHANGED vars
    BY <1>5 DEF Restart, vars, bootVars, procs, OneInFlight, Busy
  <1> QED
    BY <1>1, <1>2, <1>3, <1>4, <1>5 DEF Next

\* Then the tenants are apart in any case.
LEMMA SerialIsApart ==
  ASSUME OneAtATime
  PROVE  Spec => ApartSpec
  <1>1. Init => OneInFlight
    BY DEF Init, OneInFlight, Busy
  <1>2. IInv /\ OneInFlight /\ [Next]_vars => OneInFlight'
    BY OneInFlightStep
  <1>3. OneInFlight => Apart
    BY DEF OneInFlight, Apart
  <1>4. OneInFlight' => Apart'
    BY <1>3, PTL
  <1> QED
    BY <1>1, <1>2, <1>4, Invariance, PTL DEF Spec, ApartSpec

\* The same without a word about tenants: who never asks for two things at a time
\* finds the directory, and what it has destroyed gone.
THEOREM SerialIsDirectory ==
  ASSUME OneAtATime, UniqueIds, SlugsFindOwn
  PROVE  Spec => ImplementsDirectory
  BY SerialIsApart, AdminImplementsDirectory, PTL DEF OneAtATime

THEOREM SerialDestroysAreGone ==
  ASSUME OneAtATime, UniqueIds, SlugsFindOwn, IdsFindOwn
  PROVE  Spec => []EveryDestroyGone
  BY SerialIsApart, DestroyedIsGone, PTL

-----------------------------------------------------------------------------
(* Requests that overlap.                                                  *)

\* WxGateway deletes channels of its type.
WxDeletesOwn == \A p \in Subs : pc[p] = "wxdelete" => job[p].ch.type = "weixin"

LEMMA WxDeletesOwnStep ==
  ASSUME IInv, WxDeletesOwn, [Next]_vars
  PROVE  WxDeletesOwn'
  <1>1. CASE Receive
    BY <1>1, ReceiveStarts DEF Accept, Reject, WxDeletesOwn, IInv, TypeOK
  <1>2. ASSUME NEW p \in Subs, Handle(p)
        PROVE  WxDeletesOwn'
    <2>1. \A q \in Subs \ {p} : pc'[q] = pc[q] /\ job'[q] = job[q]
      BY <1>2, HandleMoves DEF IInv, TypeOK
    <2>2. pc'[p] = "wxdelete" => WxLock(p)
      BY <1>2, OnlyLockLeads
    <2>3. WxLock(p) => job'[p].ch.type = "weixin"
      BY DEF WxLock, GoTo
    <2> QED
      BY <2>1, <2>2, <2>3 DEF WxDeletesOwn
  <1>3. CASE Boot
    BY <1>3 DEF Boot, SubscribeChannelEvents, SubscribePeerSyncEvents, SubscribeNext,
       SubscribeMigrationEvents, ListChannels, InitNext, FileNext, Serve, WxDeletesOwn
  <1>4. CASE Throw \/ StartFails
    BY <1>4 DEF Throw, StartFails, Crash, WxDeletesOwn
  <1>5. CASE Restart \/ UNCHANGED vars
    BY <1>5 DEF Restart, vars, procs, WxDeletesOwn
  <1> QED
    BY <1>1, <1>2, <1>3, <1>4, <1>5 DEF Next

\* The loops over the manager's map find the channel itself, or it is not listed.
LEMMA FindsItself ==
  ASSUME UniqueIds, SlugsAreNotIds, IInv, NEW c \in Catalog
  PROVE  /\ \A s \in ByIdOrSlug(mgr, c.id) : s = c.slug /\ mgr[s].ch = c
         /\ ByIdOrSlug(mgr, c.id) = {} <=> ~Listed(c)
  <1>1. c.id \notin Slugs
    BY ChannelFacts DEF SlugsAreNotIds
  <1>2. ByIdOrSlug(mgr, c.id) = ById(mgr, c.id)
    BY <1>1 DEF ByIdOrSlug, ById
  <1>3. \A s \in ById(mgr, c.id) : s = c.slug /\ mgr[s].ch = c
    BY NoIdsIsOwn, LookupIsOwn
  <1>4. ById(mgr, c.id) = {} <=> ~Listed(c)
    BY <1>3, ListedById DEF ById, Listed
  <1> QED
    BY <1>2, <1>3, <1>4

\* What has been found is the request's own channel.
LEMMA HoldsItself ==
  ASSUME UniqueIds, SlugsAreNotIds, IInv, NEW p \in Subs, pc[p] \in {"writeback", "drop"}
  PROVE  /\ held[p].slug = job[p].ch.slug
         /\ p \notin Destroys =>
              held[p].entry = [ch |-> job[p].ch, status |-> NewStatus(p)]
  <1>1. held[p] # None /\ held[p] \in Kept /\ job[p].ch \in Catalog
    BY OwnSlug DEF IInv, TypeOK, OwnershipInv
  <1>2. held[p].slug \in Slugs /\ held[p].entry \in Entries /\ held[p].entry.ch \in Catalog
    BY <1>1 DEF Kept, Entries
  <1>3. held[p].entry.ch = job[p].ch
    BY <1>1, <1>2, ChannelFacts DEF IInv, HeldMatches, UniqueIds, SlugsAreNotIds
  <1>4. held[p].entry = [ch |-> held[p].entry.ch, status |-> held[p].entry.status]
    BY <1>2 DEF Entries
  <1> QED
    BY <1>1, <1>3, <1>4 DEF IInv, HeldMatches, KeyedBySlug

\* The instance speaks of the same subjects and channels.
LEMMA SameNames ==
  /\ Listing!Creates = Creates /\ Listing!Updates = Updates
  /\ Listing!Destroys = Destroys /\ Listing!Pauses = Pauses /\ Listing!Resumes = Resumes
  /\ Listing!Syncs = Syncs /\ \A p : Listing!NewStatus(p) = NewStatus(p)
  /\ Listing!Slugs = Slugs /\ Listing!Entries = Entries
  BY DEF Listing!Creates, Creates, Listing!Updates, Updates, Listing!Destroys, Destroys,
     Listing!Pauses, Pauses, Listing!Resumes, Resumes, Listing!Syncs, Syncs,
     Listing!NewStatus, NewStatus, Listing!Slugs, Slugs, Listing!Entries, Entries,
     Listing!Statuses, Statuses

LEMMA KindsApart ==
  /\ Creates \cap Updates = {} /\ Creates \cap Destroys = {} /\ Creates \cap Pauses = {}
  /\ Creates \cap Resumes = {} /\ Updates \cap Destroys = {} /\ Updates \cap Pauses = {}
  /\ Updates \cap Resumes = {} /\ Destroys \cap Pauses = {} /\ Destroys \cap Resumes = {}
  /\ Pauses \cap Resumes = {}
  BY DEF Creates, Updates, Destroys, Pauses, Resumes

\* A step of one goroutine shows at its own subject.
LEMMA ShowsAtOwn ==
  ASSUME NEW p \in Subs, \A q \in Subs \ {p} : pc'[q] = pc[q] /\ job'[q] = job[q]
  PROVE  /\ [q \in Subs |-> Stage(q)]' = [[q \in Subs |-> Stage(q)] EXCEPT ![p] = Stage(p)']
         /\ [q \in Subs |-> Named(q)]' = [[q \in Subs |-> Named(q)] EXCEPT ![p] = Named(p)']
  <1>1. \A q \in Subs \ {p} : Stage(q)' = Stage(q) /\ Named(q)' = Named(q)
    BY DEF Stage, Named
  <1> QED
    BY <1>1

LEMMA HandleShows ==
  ASSUME IInv, NEW p \in Subs, Handle(p)
  PROVE  /\ [q \in Subs |-> Stage(q)]' = [[q \in Subs |-> Stage(q)] EXCEPT ![p] = Stage(p)']
         /\ [q \in Subs |-> Named(q)]' = [[q \in Subs |-> Named(q)] EXCEPT ![p] = Named(p)']
         /\ Named(p) = job[p].ch
  <1>1. \A q \in Subs \ {p} : pc'[q] = pc[q] /\ job'[q] = job[q]
    BY HandleMoves DEF IInv, TypeOK
  <1>2. Named(p) = job[p].ch
    BY HandleMoves, OwnSlug DEF Named
  <1> QED
    BY <1>1, <1>2, ShowsAtOwn

\* A request goes on from stage to stage.
LEMMA GoesOn ==
  ASSUME IInv, NEW p \in Subs, Handle(p), NEW l \in Labels \ {"idle"}, GoTo(p, l)
  PROVE  Listing!Move(p, Stage(p)')
  <1>1. Named(p)' = Named(p)
    BY DEF GoTo, Named
  <1>2. [q \in Subs |-> Named(q)]' = [q \in Subs |-> Named(q)]
    BY <1>1, HandleShows
  <1> QED
    BY <1>2, HandleShows DEF Listing!Move, GoTo

\* The stage a step leads to.
LEMMA StageAfter ==
  ASSUME IInv, NEW p \in Subs, NEW l \in Labels, GoTo(p, l)
  PROVE  /\ l \in {"ok", "error"} => Stage(p)' = l
         /\ l = "file" => Stage(p)' = "asked"
         /\ l = "drop" => Stage(p)' = "matched"
         /\ l = "writeback" => Stage(p)' = "set"
  BY DEF GoTo, Stage, IInv, TypeOK

\* A step within a stage of the request does not show.
LEMMA WithinStage ==
  ASSUME IInv, NEW p \in Subs, Handle(p), Stage(p)' = Stage(p), job' = job,
         mgr' = mgr, reply' = None
  PROVE  Listing!Quiet
  <1>1. Named(p)' = Named(p)
    BY DEF Named
  <1>2. /\ [q \in Subs |-> Stage(q)]' = [q \in Subs |-> Stage(q)]
        /\ [q \in Subs |-> Named(q)]' = [q \in Subs |-> Named(q)]
    BY <1>1, HandleShows
  <1> QED
    BY <1>2 DEF Listing!Quiet

LEMMA HandleLists ==
  ASSUME UniqueIds, SlugsAreNotIds, IInv, WxDeletesOwn, NEW p \in Subs, Handle(p)
  PROVE  Listing!Quiet \/ Listing!Request(p)
  <1>0. /\ job[p].ch \in Catalog /\ job[p].ch.slug \in Slugs /\ job[p].cfg \in Configs
        /\ Named(p) = job[p].ch
    BY HandleMoves, OwnSlug, HandleShows DEF Jobs
  <1>1. Listing!IsListed(job[p].ch) <=> Listed(job[p].ch)
    BY DEF Listing!IsListed, Listed
  <1>m. \A l \in Labels \ {"idle"} :
          GoTo(p, l) => /\ Listing!Move(p, Stage(p)')
                        /\ l \in {"ok", "error"} => Stage(p)' = l
                        /\ l = "file" => Stage(p)' = "asked"
                        /\ l = "drop" => Stage(p)' = "matched"
                        /\ l = "writeback" => Stage(p)' = "set"
    BY GoesOn, StageAfter
  <1>l. {"ok", "error", "file", "drop", "writeback"} \subseteq Labels \ {"idle"}
    BY DEF Labels
  <1> USE SameNames, KindsApart
  <1>2. CASE InstallChannel(p)
    <2>1. p \in Creates \cup Updates /\ pc[p] = "init" /\ mgr' = mgr /\ Stage(p) = "asked"
      BY <1>2 DEF InstallChannel, IInv, RouteInv, OnRoute, Stage
    <2>2. CASE GoTo(p, "error")
      BY <1>m, <1>l, <2>1, <2>2 DEF Listing!Fail, Listing!Request
    <2>3. CASE GoTo(p, "ok") /\ p \notin Creates
      BY <1>m, <1>l, <2>1, <2>3 DEF Listing!Update, Listing!Request
    <2>4. CASE GoTo(p, "file")
      BY <1>m, <1>l, <2>1, <2>4, WithinStage DEF GoTo
    <2> QED
      BY <1>2, <2>2, <2>3, <2>4 DEF InstallChannel
  <1>3. CASE FileChannel(p)
    <2>1. p \in Creates /\ pc[p] = "file" /\ GoTo(p, "ok") /\ Stage(p) = "asked"
      BY <1>3 DEF FileChannel, IInv, RouteInv, OnRoute, Stage
    <2> QED
      BY <1>0, <1>m, <1>l, <1>3, <2>1
      DEF FileChannel, Listing!Create, Listing!Put, Listing!Request
  <1>4. CASE GetChannel(p)
    <2>1. /\ pc[p] = "lookup" /\ mgr' = mgr /\ p \in Destroys \cup Pauses \cup Resumes
          /\ Stage(p) = "asked"
      BY <1>4 DEF GetChannel, tables, IInv, RouteInv, OnRoute, Stage
    <2>2. CASE ~Listed(job[p].ch) /\ GoTo(p, "error")
      BY <1>0, <1>1, <1>m, <1>l, <2>1, <2>2 DEF Listing!Fail, Listing!Request
    <2>3. CASE /\ Listed(job[p].ch) /\ job'[p].ch = job[p].ch
               /\ pc' = [pc EXCEPT ![p] = AfterLookup(p)] /\ reply' = None
      <3>1. AfterLookup(p) \in {"delete", "pausegw", "scan"}
        BY <2>1 DEF AfterLookup
      <3>2. Stage(p)' = "found"
        BY <2>1, <2>3, <3>1 DEF Stage, IInv, TypeOK
      <3>3. job'[p] # None
        BY <1>4, <2>3, <3>1, HandleMoves, NextInv DEF Next, IInv, OwnershipInv, TypeOK
      <3>4. Named(p)' = Named(p)
        BY <1>0, <2>3, <3>3 DEF Named
      <3>5. [q \in Subs |-> Named(q)]' = [q \in Subs |-> Named(q)]
        BY <3>4, HandleShows
      <3> QED
        BY <1>0, <1>1, <2>1, <2>3, <3>2, <3>5, HandleShows
        DEF Listing!Find, Listing!Move, Listing!Request
    <2> QED
      BY <1>4, <2>2, <2>3, NoIdsIsOwn, FoundIsListed
  <1>5. CASE FeishuDeleteChannel(p) \/ QQDeleteChannel(p) \/ WxLock(p)
    <2>1. /\ pc[p] = "delete" /\ mgr' = mgr /\ p \in Updates \cup Destroys
          /\ \E l \in {"wxdelete", AfterDelete(p)} : GoTo(p, l)
      BY <1>5 DEF FeishuDeleteChannel, QQDeleteChannel, DeleteFrom, WxLock, tables,
         IInv, RouteInv, OnRoute
    <2>2. Stage(p)' = Stage(p)
      BY <2>1 DEF GoTo, AfterDelete, Stage, IInv, TypeOK
    <2> QED
      BY <2>1, <2>2, WithinStage DEF GoTo
  <1>6. CASE WxDeleteChannel(p)
    <2>1. /\ pc[p] = "wxdelete" /\ mgr' = mgr /\ p \in Updates \cup Destroys
          /\ job[p].ch.type = "weixin"
      BY <1>6 DEF WxDeleteChannel, WxDeletesOwn, IInv, RouteInv, OnRoute
    <2>2. CASE GoTo(p, "error") /\ p \in Destroys
      <3>1. Stage(p) = "found"
        BY <2>1, <2>2 DEF Stage
      <3> QED
        BY <1>0, <1>m, <1>l, <2>1, <2>2, <3>1 DEF Listing!Fail, Listing!Request
    <2>3. CASE GoTo(p, AfterDelete(p))
      <3>1. Stage(p)' = Stage(p)
        BY <2>1, <2>3 DEF GoTo, AfterDelete, Stage, IInv, TypeOK
      <3> QED
        BY <2>1, <2>3, <3>1, WithinStage DEF GoTo
    <2> QED
      BY <1>6, <2>2, <2>3 DEF WxDeleteChannel, AfterDelete
  <1>7. CASE MatchChannel(p)
    <2>1. p \in Destroys /\ Stage(p) = "found" /\ mgr' = mgr
      BY <1>7 DEF MatchChannel, IInv, RouteInv, OnRoute, Stage, tables
    <2>2. CASE ~Listed(job[p].ch) /\ GoTo(p, "ok")
      BY <1>0, <1>1, <1>m, <1>l, <2>1, <2>2 DEF Listing!Overtaken, Listing!Request
    <2>3. CASE Listed(job[p].ch) /\ GoTo(p, "drop")
      BY <1>0, <1>1, <1>m, <1>l, <2>1, <2>3 DEF Listing!Match, Listing!Request
    <2> QED
      BY <1>0, <1>7, <2>2, <2>3, FindsItself DEF MatchChannel
  <1>8. CASE RemoveChannel(p)
    <2>1. pc[p] = "drop" /\ GoTo(p, "ok") /\ Stage(p) = "matched"
      BY <1>8 DEF RemoveChannel, Stage
    <2>2. mgr' = [mgr EXCEPT ![job[p].ch.slug] = None]
      BY <1>8, <2>1, HoldsItself DEF RemoveChannel
    <2> QED
      BY <1>0, <1>m, <1>l, <2>1, <2>2 DEF Listing!Remove, Listing!Request
  <1>9. CASE PauseHandler(p)
    <2>1. GoTo(p, "scan") /\ mgr' = mgr /\ Stage(p) = "found"
      BY <1>9 DEF PauseHandler, IInv, RouteInv, OnRoute, Stage
    <2>2. Stage(p)' = "found"
      BY <1>9, <2>1 DEF PauseHandler, GoTo, Stage, IInv, TypeOK, RouteInv, OnRoute
    <2> QED
      BY <2>1, <2>2, WithinStage DEF GoTo
  <1>10. CASE ScanChannels(p)
    <2>1. /\ p \in Pauses \cup Resumes /\ Stage(p) = "found"
          /\ \A q \in Subs : Stage(q) # "set"
      BY <1>10, SubsAssumption DEF ScanChannels, IInv, RouteInv, OnRoute, OwnershipInv,
         Stage
    <2>2. CASE ByIdOrSlug(mgr, job[p].ch.id) = {}
      <3>1. ~Listed(job[p].ch) /\ mgr' = mgr
        BY <1>0, <1>10, <2>2, FindsItself DEF ScanChannels
      <3>2. CASE p \in Pauses /\ GoTo(p, "ok")
        BY <1>0, <1>1, <1>m, <1>l, <2>1, <3>1, <3>2 DEF Listing!Overtaken, Listing!Request
      <3>3. CASE p \in Resumes /\ GoTo(p, "error")
        BY <1>0, <1>1, <1>m, <1>l, <2>1, <3>1, <3>3 DEF Listing!Fail, Listing!Request
      <3> QED
        BY <1>10, <2>1, <2>2, <3>2, <3>3 DEF ScanChannels
    <2>3. CASE ByIdOrSlug(mgr, job[p].ch.id) # {}
      <3>1. Listed(job[p].ch)
        BY <1>0, <2>3, FindsItself
      <3>2. /\ mgr' = [mgr EXCEPT ![job[p].ch.slug] =
                         [ch |-> job[p].ch, status |-> NewStatus(p)]]
            /\ GoTo(p, "writeback")
        BY <1>0, <1>10, <2>3, FindsItself DEF ScanChannels
      <3> QED
        BY <1>0, <1>1, <1>m, <1>l, <2>1, <3>1, <3>2
        DEF Listing!Set, Listing!Put, Listing!Request
    <2> QED
      BY <2>2, <2>3
  <1>11. CASE WriteBack(p)
    <2>1. pc[p] = "writeback" /\ GoTo(p, "ok") /\ Stage(p) = "set" /\ p \notin Destroys
      BY <1>11 DEF WriteBack, IInv, RouteInv, OnRoute, Stage
    <2>2. mgr' = [mgr EXCEPT ![job[p].ch.slug] =
                    [ch |-> job[p].ch, status |-> NewStatus(p)]]
      BY <1>11, <2>1, HoldsItself DEF WriteBack
    <2> QED
      BY <1>0, <1>m, <1>l, <2>1, <2>2 DEF Listing!PutBack, Listing!Put, Listing!Request
  <1>12. CASE Respond(p)
    <2>1. Stage(p) = pc[p] /\ Stage(p)' = "idle" /\ Named(p)' = None /\ mgr' = mgr
      BY <1>12 DEF Respond, Stage, Named, IInv, TypeOK, tables
    <2> QED
      BY <1>0, <1>12, <2>1, HandleShows DEF Respond, Reply, Listing!Respond, Listing!Request
  <1> QED
    BY <1>2, <1>3, <1>4, <1>5, <1>6, <1>7, <1>8, <1>9, <1>10, <1>11, <1>12 DEF Handle

LEMMA ReceiveLists ==
  ASSUME IInv, Receive
  PROVE  \E p \in Subs : Listing!Request(p)
  <1> USE SameNames
  <1>1. PICK p \in Subs :
          /\ Ready(p)
          /\ \/ Reject(p) /\ p \notin Syncs
             \/ \E c \in Catalog, cfg \in Configs, l \in {"init", "delete", "lookup"} :
                  Accept(p, c, cfg, l) /\ (l = "delete" => p \in Updates)
    BY ReceiveStarts
  <1>2. Stage(p) = "idle"
    BY <1>1 DEF Ready, Stage
  <1>3. CASE Reject(p) /\ p \notin Syncs
    <2>1. UNCHANGED <<mgr, pc, job>>
      BY <1>3 DEF Reject, tables
    <2>2. /\ [q \in Subs |-> Stage(q)]' = [q \in Subs |-> Stage(q)]
          /\ [q \in Subs |-> Named(q)]' = [q \in Subs |-> Named(q)]
      BY <2>1 DEF Stage, Named
    <2> QED
      BY <1>2, <1>3, <2>1, <2>2 DEF Reject, Reply, Listing!Refuse, Listing!Request
  <1>4. ASSUME NEW c \in Catalog, NEW cfg \in Configs, NEW l \in {"init", "delete", "lookup"},
               Accept(p, c, cfg, l), l = "delete" => p \in Updates
        PROVE  \E q \in Subs : Listing!Request(q)
    <2>1. /\ pc'[p] = l /\ job'[p] = [ch |-> c, cfg |-> cfg] /\ reply' = None /\ mgr' = mgr
          /\ \A q \in Subs \ {p} : pc'[q] = pc[q] /\ job'[q] = job[q]
      BY <1>4 DEF Accept, tables, IInv, TypeOK
    <2>2. job'[p] # None
      BY <2>1, SubsAssumption DEF Jobs
    <2>3. Stage(p)' = "asked" /\ Named(p)' = c
      BY <1>4, <2>1, <2>2 DEF Stage, Named
    <2> QED
      BY <1>2, <2>1, <2>3, ShowsAtOwn DEF Listing!Ask, Listing!Request
  <1> QED
    BY <1>1, <1>3, <1>4

LEMMA BootLists ==
  ASSUME IInv, Boot
  PROVE  Listing!Install \/ Listing!Quiet
  <1>1. UNCHANGED <<pc, job>> /\ reply' = None
    BY DEF Boot, SubscribeChannelEvents, SubscribePeerSyncEvents, SubscribeNext,
       SubscribeMigrationEvents, ListChannels, InitNext, FileNext, Serve
  <1>2. /\ [q \in Subs |-> Stage(q)]' = [q \in Subs |-> Stage(q)]
        /\ [q \in Subs |-> Named(q)]' = [q \in Subs |-> Named(q)]
    BY <1>1 DEF Stage, Named
  <1>3. CASE FileNext
    <2>1. filing \in Entries /\ mgr' = [mgr EXCEPT ![filing.ch.slug] = filing]
      BY <1>3 DEF FileNext, IInv, TypeOK
    <2>2. filing = [ch |-> filing.ch, status |-> filing.status]
      BY <2>1 DEF Entries
    <2> QED
      BY <1>1, <1>2, <2>1, <2>2, SameNames DEF Listing!Install, Listing!Put
  <1>4. CASE mgr' = mgr
    BY <1>1, <1>2, <1>4 DEF Listing!Quiet
  <1> QED
    BY <1>3, <1>4 DEF Boot, SubscribeChannelEvents, SubscribePeerSyncEvents, SubscribeNext,
       SubscribeMigrationEvents, ListChannels, InitNext, Serve, tables

LEMMA CrashLists ==
  ASSUME Crash
  PROVE  Listing!Forget
  <1>1. \A q \in Subs : Stage(q)' = "idle" /\ Named(q)' = None
    BY DEF Crash, Stage, Named
  <1>2. /\ [q \in Subs |-> Stage(q)]' = [q \in Subs |-> "idle"]
        /\ [q \in Subs |-> Named(q)]' = [q \in Subs |-> None]
    BY <1>1
  <1> QED
    BY <1>2, SameNames DEF Crash, Listing!Forget

LEMMA StepLists ==
  ASSUME UniqueIds, SlugsAreNotIds, IInv, WxDeletesOwn, [Next]_vars
  PROVE  [Listing!Next]_(Listing!vars)
  <1>1. CASE Throw \/ StartFails
    BY <1>1, CrashLists DEF Throw, StartFails, Listing!Next
  <1>2. CASE Restart \/ UNCHANGED vars
    <2>1. UNCHANGED <<mgr, pc, job, reply>>
      BY <1>2 DEF Restart, vars, tables, procs
    <2>2. /\ [q \in Subs |-> Stage(q)]' = [q \in Subs |-> Stage(q)]
          /\ [q \in Subs |-> Named(q)]' = [q \in Subs |-> Named(q)]
      BY <2>1 DEF Stage, Named
    <2> QED
      BY <2>1, <2>2 DEF Listing!vars
  <1>3. CASE Boot
    BY <1>3, BootLists DEF Listing!Next
  <1>4. CASE Receive
    BY <1>4, ReceiveLists DEF Listing!Next
  <1>5. ASSUME NEW p \in Subs, Handle(p)
        PROVE  Listing!Next
    BY <1>5, HandleLists DEF Listing!Next
  <1> QED
    BY <1>1, <1>2, <1>3, <1>4, <1>5 DEF Next

\* Whatever overlaps, of one tenant or of several, on the request subjects and on
\* the sync subjects, with the boot, the races and restarts: as long as the admin's
\* ids are unique and no slugs, the gateway is the list of channels on which a
\* destroy, a pause and a resume act in three steps, the last of which takes the
\* tenant's place on the list as it finds it, and whose answers come later.
THEOREM AdminImplementsListing ==
  ASSUME UniqueIds, SlugsAreNotIds
  PROVE  Spec => ImplementsListing
  <1>1. Init => WxDeletesOwn /\ Listing!Init
    <2>1. Init => \A q \in Subs : Stage(q) = "idle" /\ Named(q) = None
      BY DEF Init, Stage, Named
    <2>2. Init => /\ [q \in Subs |-> Stage(q)] = [q \in Subs |-> "idle"]
                  /\ [q \in Subs |-> Named(q)] = [q \in Subs |-> None]
      BY <2>1
    <2> QED
      BY <2>2, SameNames DEF Init, WxDeletesOwn, Listing!Init
  <1>2. IInv /\ WxDeletesOwn /\ [Next]_vars => WxDeletesOwn'
    BY WxDeletesOwnStep
  <1>3. IInv /\ WxDeletesOwn /\ [Next]_vars => [Listing!Next]_(Listing!vars)
    BY StepLists
  <1> QED
    BY <1>1, <1>2, <1>3, Invariance, PTL DEF Spec, ImplementsListing, Listing!Spec
=============================================================================
