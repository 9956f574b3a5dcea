--------------------------- MODULE WebhooksProofs ---------------------------
(***************************************************************************)
(* The proofs about Webhooks, for any number of calls, channels, subjects  *)
(* and requests in progress: more than any run can put side by side.       *)
(*                                                                         *)
(* The calls only read what ChannelAdmin writes, so its invariant comes    *)
(* along.  What is added relates a call to the tables it read before and   *)
(* reads again: a paused slug keeps its paused entry until something that  *)
(* undoes it takes a step, and an undisturbed call keeps its client.       *)
(***************************************************************************)
EXTENDS Webhooks, ChannelDirectoryProofs

\* A paused slug has a paused entry.
SilentIsPaused == \A s \in silent : mgr[s] # None /\ mgr[s].status = "paused"

\* A call that nothing disturbed has the client it came in through.
HasClient ==
  \A h \in Calls :
    at[h] # "idle" /\ h \notin disturbed => gw[message[h].type][message[h].slug] # None

CallsInv == IInv /\ CallsTypeOK

-----------------------------------------------------------------------------
(* The composition is its component, as far as the tables go.              *)

LEMMA CallIsStutter ==
  \A h \in Calls :
    Call(h) \/ (\E t \in Types, s \in Slugs : Arrive(h, t, s)) => UNCHANGED vars
  BY DEF Call, Inside, Gate, Ask, Tell, Answer, Send, Drop, Over, Proceed, Arrive

LEMMA AllStepIsStep == [AllNext]_allVars => [Next]_vars
  <1> SUFFICES ASSUME [AllNext]_allVars PROVE [Next]_vars
    OBVIOUS
  <1>1. CASE Beside(Receive) \/ (\E p \in Subs : Beside(Handle(p)))
             \/ Beside(Boot) \/ Beside(Restart)
    BY <1>1 DEF Beside, Next
  <1>2. CASE End
    BY <1>2 DEF End, Next
  <1>3. CASE \E h \in Calls : Call(h) \/ \E t \in Types, s \in Slugs : Arrive(h, t, s)
    BY <1>3, CallIsStutter
  <1>4. CASE UNCHANGED allVars
    BY <1>4 DEF allVars
  <1> QED
    BY <1>1, <1>2, <1>3, <1>4 DEF AllNext

\* The calls take nothing away from the administration: each behaviour of both
\* is one of ChannelAdmin, and has all the properties proved of it.
THEOREM CallsOnlyRead == AllSpec => Spec
  <1>1. AllInit => Init
    BY DEF AllInit
  <1> QED
    BY <1>1, AllStepIsStep, PTL DEF AllSpec, Spec

-----------------------------------------------------------------------------
(* Types.                                                                  *)

LEMMA InitCallsInv == AllInit => CallsInv
  <1> SUFFICES ASSUME AllInit PROVE CallsInv
    OBVIOUS
  <1>1. IInv
    BY InitInv DEF AllInit
  <1>2. CallsTypeOK
    BY DEF AllInit, CallsTypeOK, Stages
  <1> QED
    BY <1>1, <1>2 DEF CallsInv

LEMMA BesideTypes ==
  ASSUME CallsTypeOK, UNCHANGED calls, sent' = None, Watch
  PROVE  CallsTypeOK'
  <1>1. at' = at /\ message' = message
    BY DEF calls
  <1>2. disturbed' \subseteq {h \in Calls : at'[h] # "idle"}
    BY <1>1 DEF CallsTypeOK, Watch, Disturbs
  <1>3. silent' \subseteq Slugs
    BY DEF CallsTypeOK, Watch
  <1> QED
    BY <1>1, <1>2, <1>3 DEF CallsTypeOK

\* A call at work has a message, with a type and a slug.
LEMMA AtWork ==
  ASSUME CallsTypeOK, NEW h \in Calls, at[h] # "idle"
  PROVE  message[h] \in Messages /\ message[h].type \in Types /\ message[h].slug \in Slugs
  BY DEF CallsTypeOK, Messages

LEMMA ProceedTypes ==
  ASSUME CallsTypeOK, NEW h \in Calls, at[h] # "idle",
         NEW stage \in Stages \ {"idle"}, Proceed(h, stage)
  PROVE  CallsTypeOK'
  BY DEF CallsTypeOK, Proceed, history

\* What a call ends with: nothing, or a word through one of the clients.
LEMMA OverTypes ==
  ASSUME CallsTypeOK, NEW h \in Calls, Over(h),
         sent' \in Sendings \cup {None}
  PROVE  CallsTypeOK'
  BY CallsAssumption DEF CallsTypeOK, Over, Stages

LEMMA SendTypes ==
  ASSUME CallsTypeOK, NEW h \in Calls, at[h] # "idle",
         NEW clients \in SUBSET Slugs, Send(h, clients)
  PROVE  CallsTypeOK'
  <1>1. message[h].type \in Types /\ message[h].slug \in Slugs
    BY AtWork
  <1>2. sent' \in Sendings \cup {None}
    <2>1. ASSUME NEW via \in clients
          PROVE  [type |-> message[h].type, slug |-> message[h].slug, via |-> via,
                  disturbed |-> h \in disturbed] \in Sendings
      BY <1>1, <2>1 DEF Sendings
    <2> QED
      BY <2>1 DEF Send
  <1> QED
    BY <1>2, OverTypes DEF Send

LEMMA ClientsAreSlugs ==
  ASSUME NEW tab, NEW s \in Slugs
  PROVE  OwnOrAny(tab, s) \subseteq Slugs /\ OwnOnly(tab, s) \subseteq Slugs
  BY DEF OwnOrAny, OwnOnly, Served

LEMMA CallTypes ==
  ASSUME CallsTypeOK, NEW h \in Calls, Call(h)
  PROVE  CallsTypeOK'
  <1>0. at[h] # "idle" /\ message[h].slug \in Slugs
    <2>1. at[h] # "idle"
      BY DEF Call, Inside, Gate, Ask, Tell, Answer
    <2> QED
      BY <2>1, AtWork
  <1>1. ASSUME Drop(h) PROVE CallsTypeOK'
    BY <1>1, OverTypes DEF Drop
  <1>2. ASSUME NEW stage \in {"ask", "tell", "reply"}, Proceed(h, stage) PROVE CallsTypeOK'
    BY <1>0, <1>2, ProceedTypes DEF Stages
  <1>3. CASE Gate(h)
    BY <1>1, <1>2, <1>3 DEF Gate
  <1>4. CASE Ask(h)
    BY <1>1, <1>2, <1>4 DEF Ask
  <1>5. CASE Tell(h)
    BY <1>0, <1>5, SendTypes, ClientsAreSlugs DEF Tell
  <1>6. CASE Answer(h)
    BY <1>0, <1>6, SendTypes, ClientsAreSlugs DEF Answer
  <1> QED
    BY <1>3, <1>4, <1>5, <1>6 DEF Call, Inside

LEMMA ArriveTypes ==
  ASSUME CallsTypeOK, NEW h \in Calls, NEW t \in Types, NEW s \in Slugs, Arrive(h, t, s)
  PROVE  CallsTypeOK'
  <1>1. [type |-> t, slug |-> s] \in Messages /\ [type |-> t, slug |-> s] # None
    BY CallsAssumption DEF Messages
  <1> QED
    BY <1>1 DEF CallsTypeOK, Arrive, Stages, history

LEMMA EndTypes ==
  ASSUME CallsTypeOK, End
  PROVE  CallsTypeOK'
  <1> PICK queued \in SUBSET {h \in Calls : at[h] = "ask" /\ message[h].type = "feishu"} :
        /\ at' = [h \in Calls |-> IF h \in queued THEN "ask" ELSE "idle"]
        /\ message' = [h \in Calls |-> IF h \in queued THEN message[h] ELSE None]
        /\ disturbed' = queued
    BY DEF End
  <1>1. sent' = None /\ silent' = {}
    BY DEF End
  <1> QED
    BY <1>1 DEF CallsTypeOK, Stages

LEMMA StepCallsInv == CallsInv /\ [AllNext]_allVars => CallsInv'
  <1> SUFFICES ASSUME CallsInv, [AllNext]_allVars PROVE CallsInv'
    OBVIOUS
  <1> USE DEF CallsInv
  <1>1. IInv'
    BY AllStepIsStep, NextInv
  <1>2. CallsTypeOK'
    <2>1. CASE Beside(Receive) \/ (\E p \in Subs : Beside(Handle(p)))
               \/ Beside(Boot) \/ Beside(Restart)
      BY <2>1, BesideTypes DEF Beside
    <2>2. CASE End
      BY <2>2, EndTypes
    <2>3. CASE \E h \in Calls : Call(h) \/ \E t \in Types, s \in Slugs : Arrive(h, t, s)
      BY <2>3, CallTypes, ArriveTypes
    <2>4. CASE UNCHANGED allVars
      BY <2>4 DEF CallsTypeOK, allVars, calls, history
    <2> QED
      BY <2>1, <2>2, <2>3, <2>4 DEF AllNext
  <1> QED
    BY <1>1, <1>2

LEMMA CallsInvariance == AllSpec => []CallsInv
  BY InitCallsInv, StepCallsInv, PTL DEF AllSpec

\* The types of the calls and of what they send.
THEOREM CallsTypes == AllSpec => []CallsTypeOK
  BY CallsInvariance, PTL DEF CallsInv

-----------------------------------------------------------------------------
(* A paused channel is silent.                                             *)

LEMMA RoutesApart ==
  Pauses \cap (Updates \cup Destroys) = {} /\ Updates \cap Destroys = {}
  BY DEF Pauses, Updates, Destroys

\* The end of a pause leaves the entry it wrote back.
LEMMA SilencesPauses ==
  ASSUME IInv, NEW p \in Subs, Handle(p), NEW s \in Slugs, Silences(s)
  PROVE  mgr'[s] # None /\ mgr'[s].status = "paused"
  <1> PICK q \in Subs \cap Pauses :
        held[q] # None /\ held[q].slug = s /\ pc[q] = "writeback" /\ pc'[q] = "ok"
    BY DEF Silences
  <1>1. q = p
    BY DEF Handle, InstallChannel, FileChannel, GetChannel, FeishuDeleteChannel,
           QQDeleteChannel, DeleteFrom, WxLock, WxDeleteChannel, MatchChannel,
           RemoveChannel, PauseHandler, ScanChannels, WriteBack, Respond, GoTo, IInv, TypeOK
  <1>2. WriteBack(p)
    BY <1>1 DEF Handle, InstallChannel, FileChannel, GetChannel, FeishuDeleteChannel,
           QQDeleteChannel, WxLock, WxDeleteChannel, MatchChannel, RemoveChannel,
           PauseHandler, ScanChannels, Respond
  <1>3. held[p] \in Kept /\ held[p].entry.status = "paused"
    BY <1>1, RoutesApart DEF IInv, TypeOK, HeldMatches, NewStatus
  <1>4. mgr'[s] = held[p].entry /\ held[p].entry \in Entries
    BY <1>1, <1>2, <1>3 DEF WriteBack, Kept, IInv, TypeOK
  <1> QED
    BY <1>3, <1>4, SubsAssumption

\* Only a destroy takes an entry out of the manager's map.
LEMMA HandleRemoves ==
  ASSUME IInv, NEW p \in Subs, Handle(p), NEW s \in Slugs,
         mgr[s] # None, mgr'[s] = None
  PROVE  p \in Destroys
  <1>1. CASE RemoveChannel(p)
    BY <1>1 DEF RemoveChannel, IInv, RouteInv, OnRoute
  <1>2. CASE FileChannel(p)
    <2>1. job[p] \in Jobs
      BY <1>2 DEF FileChannel, IInv, TypeOK, OwnershipInv
    <2>2. [ch |-> job[p].ch, status |-> "active"] \in Entries
      BY <2>1 DEF Jobs, Entries, Statuses
    <2> QED
      BY <1>2, <2>2, SubsAssumption DEF FileChannel, IInv, TypeOK
  <1>3. CASE ScanChannels(p)
    <2>1. PICK r \in ByIdOrSlug(mgr, job[p].ch.id) :
            mgr' = [mgr EXCEPT ![r] = [ch |-> mgr[r].ch, status |-> NewStatus(p)]]
      BY <1>3 DEF ScanChannels
    <2>2. [ch |-> mgr[r].ch, status |-> NewStatus(p)] \in Entries
      BY DEF ByIdOrSlug, IInv, TypeOK, Entries, NewStatus, Statuses
    <2> QED
      BY <2>1, <2>2, SubsAssumption DEF IInv, TypeOK
  <1>4. CASE WriteBack(p)
    <2>1. held[p] \in Kept
      BY <1>4 DEF WriteBack, IInv, TypeOK, OwnershipInv
    <2> QED
      BY <1>4, <2>1, SubsAssumption DEF WriteBack, Kept, IInv, TypeOK
  <1>5. mgr' # mgr
    OBVIOUS
  <1> QED
    BY <1>1, <1>2, <1>3, <1>4, <1>5
    DEF Handle, InstallChannel, GetChannel, FeishuDeleteChannel, QQDeleteChannel,
        DeleteFrom, WxLock, WxDeleteChannel, MatchChannel, PauseHandler, Respond, tables

\* A handler's step that does not undo the pause of s leaves its entry paused.
LEMMA HandleKeepsSilent ==
  ASSUME UniqueIds, SlugsFindOwn, IInv, NEW p \in Subs, Handle(p),
         NEW s \in Slugs, mgr[s] # None, mgr[s].status = "paused", ~Unsilences(s)
  PROVE  mgr'[s] # None /\ mgr'[s].status = "paused"
  <1>1. CASE mgr'[s] = mgr[s]
    BY <1>1
  <1>2. CASE mgr'[s] # mgr[s]
    <2>1. Acts(p, s)
      BY <1>2, HandleIsolated DEF SlotChanges
    <2>2. p \in Pauses \cup Updates
      BY <2>1 DEF Unsilences
    <2>3. mgr'[s] # None
      BY <2>2, HandleRemoves, RoutesApart
    <2> QED
      BY <2>2, <2>3, HandleKeepsPaused
  <1> QED
    BY <1>1, <1>2

LEMMA SilentStep ==
  ASSUME UniqueIds, SlugsFindOwn, CallsInv, SilentIsPaused, [AllNext]_allVars
  PROVE  SilentIsPaused'
  <1> USE DEF CallsInv
  <1>0. silent \subseteq Slugs
    BY DEF CallsTypeOK
  <1>1. ASSUME NEW p \in Subs, Beside(Handle(p)) PROVE SilentIsPaused'
    <2>1. \A s \in silent : ~Unsilences(s) => mgr'[s] # None /\ mgr'[s].status = "paused"
      BY <1>0, <1>1, HandleKeepsSilent DEF Beside, SilentIsPaused
    <2>2. \A s \in Slugs : Silences(s) => mgr'[s] # None /\ mgr'[s].status = "paused"
      BY <1>1, SilencesPauses DEF Beside
    <2> QED
      BY <1>1, <2>1, <2>2 DEF Beside, Watch, SilentIsPaused
  <1>2. CASE Beside(Boot)
    <2>1. UNCHANGED pc
      BY <1>2 DEF Beside, Boot, SubscribeChannelEvents, SubscribePeerSyncEvents,
         SubscribeNext, SubscribeMigrationEvents, ListChannels, InitNext, FileNext, Serve
    <2>2. \A s \in Slugs : ~Silences(s)
      BY <2>1 DEF Silences
    <2>3. \A s \in silent : ~Unsilences(s) => mgr'[s] = mgr[s]
      BY <1>0, <1>2, BootIsolated DEF Beside, Unsilences, SlotChanges
    <2> QED
      BY <1>2, <2>2, <2>3 DEF Beside, Watch, SilentIsPaused
  <1>3. CASE Beside(Receive)
    <2>1. UNCHANGED mgr /\ \A p \in Subs : pc[p] # "idle" => pc'[p] = pc[p]
      BY <1>3 DEF Beside, Receive, OnChannelCreate, OnChannelUpdate, OnChannelDestroy,
         OnChannelPause, OnChannelResume, OnSyncCreate, OnSyncUpdate, OnSyncDestroy,
         OnSyncPause, OnSyncResume, Accept, Reject, Ready, tables, IInv, TypeOK
    <2>2. \A s \in Slugs : ~Silences(s)
      BY <2>1 DEF Silences
    <2> QED
      BY <1>3, <2>1, <2>2 DEF Beside, Watch, SilentIsPaused
  <1>4. CASE Beside(Restart)
    BY <1>4 DEF Beside, Restart, Watch, Silences, SilentIsPaused, tables, procs
  <1>5. CASE End
    BY <1>5 DEF End, SilentIsPaused
  <1>6. CASE \E h \in Calls : Call(h) \/ \E t \in Types, s \in Slugs : Arrive(h, t, s)
    <2>1. silent' = silent
      BY <1>6 DEF Call, Inside, Gate, Ask, Tell, Answer, Send, Drop, Over, Proceed, Arrive, history
    <2>2. mgr' = mgr
      BY <1>6, CallIsStutter DEF vars, tables
    <2> QED
      BY <2>1, <2>2 DEF SilentIsPaused
  <1>7. CASE UNCHANGED allVars
    BY <1>7 DEF allVars, vars, tables, history, SilentIsPaused
  <1> QED
    BY <1>1, <1>2, <1>3, <1>4, <1>5, <1>6, <1>7 DEF AllNext

\* Only Gate sends a message to the agent.
LEMMA AskStep ==
  ASSUME CallsInv, SilentIsPaused, [AllNext]_allVars,
         NEW h \in Calls, at[h] = "gate", at'[h] = "ask"
  PROVE  message[h].slug \notin silent
  <1>1. CASE Beside(Receive) \/ (\E p \in Subs : Beside(Handle(p)))
             \/ Beside(Boot) \/ Beside(Restart) \/ UNCHANGED allVars
    BY <1>1 DEF Beside, calls, allVars
  <1>2. CASE End
    BY <1>2 DEF End
  <1>3. ASSUME NEW g \in Calls, NEW t \in Types, NEW s \in Slugs, Arrive(g, t, s)
        PROVE  FALSE
    BY <1>3 DEF Arrive, CallsInv, CallsTypeOK
  <1>4. ASSUME NEW g \in Calls, Call(g) PROVE message[h].slug \notin silent
    <2>1. g = h
      BY <1>4 DEF Call, Inside, Gate, Ask, Tell, Answer, Send, Drop, Over, Proceed,
                  CallsInv, CallsTypeOK
    <2>2. Gate(h)
      BY <1>4, <2>1 DEF Call, Inside, Ask, Tell, Answer
    <2>3. ~Held(message[h].slug)
      BY <2>2 DEF Gate, Drop, Over, Proceed, CallsInv, CallsTypeOK
    <2> QED
      BY <2>3 DEF Held, SilentIsPaused
  <1> QED
    BY <1>1, <1>2, <1>3, <1>4 DEF AllNext

\* When the admin's ids are unique and nobody else's slugs, a paused channel
\* lets no message through to an agent until a create, a resume or a destroy of
\* that tenant's channel, or the end of the process.
THEOREM PausesAreSilent ==
  ASSUME UniqueIds, SlugsFindOwn
  PROVE  AllSpec => PausedIsSilent
  <1>1. AllInit => SilentIsPaused
    BY DEF AllInit, SilentIsPaused
  <1>2. CallsInv /\ SilentIsPaused /\ [AllNext]_allVars => SilentIsPaused'
    BY SilentStep
  <1>3. CallsInv /\ SilentIsPaused /\ [AllNext]_allVars =>
          [\A h \in Calls : at[h] = "gate" /\ at'[h] = "ask" => message[h].slug \notin silent]_allVars
    BY AskStep
  <1> QED
    BY <1>1, <1>2, <1>3, CallsInvariance, PTL DEF AllSpec, PausedIsSilent

-----------------------------------------------------------------------------
(* Whose client answers.                                                   *)

\* A client leaves a table only in an update's or a destroy's step for its slug.
LEMMA ClientLeaves ==
  ASSUME UniqueIds, SlugsFindOwn, IInv, NEW p \in Subs, Handle(p),
         NEW t \in Types, NEW s \in Slugs, gw[t][s] # None, gw'[t][s] = None
  PROVE  p \in Updates \cup Destroys /\ Acts(p, s)
  <1>1. Acts(p, s)
    BY HandleIsolated DEF SlotChanges
  <1>2. CASE InstallChannel(p)
    <2>1. /\ job[p].ch \in Catalog /\ job[p].cfg \in Configs
          /\ Installs(job[p].ch, job[p].cfg)
      BY <1>2 DEF InstallChannel, IInv, TypeOK, OwnershipInv, Jobs
    <2> QED
      BY <2>1, InstallsType, CatalogAssumption DEF IInv
  <1>3. CASE FeishuDeleteChannel(p) \/ QQDeleteChannel(p) \/ WxDeleteChannel(p)
    BY <1>1, <1>3 DEF FeishuDeleteChannel, QQDeleteChannel, WxDeleteChannel,
                      IInv, RouteInv, OnRoute
  <1> QED
    BY <1>1, <1>2, <1>3
    DEF Handle, FileChannel, GetChannel, WxLock, MatchChannel, RemoveChannel,
        PauseHandler, ScanChannels, WriteBack, Respond, tables

LEMMA BootInstalls ==
  ASSUME IInv, Boot, NEW t \in Types, NEW s \in Slugs, gw[t][s] # None
  PROVE  gw'[t][s] # None
  <1>1. CASE InitNext
    <2> PICK e \in todo, cfg \in Configs : Installs(e.ch, cfg)
      BY <1>1 DEF InitNext
    <2>1. e.ch \in Catalog
      BY DEF IInv, TypeOK, Entries
    <2> QED
      BY <2>1, InstallsType, CatalogAssumption DEF IInv
  <1> QED
    BY <1>1 DEF Boot, SubscribeChannelEvents, SubscribePeerSyncEvents, SubscribeNext,
       SubscribeMigrationEvents, ListChannels, FileNext, Serve, tables

LEMMA HasClientStep ==
  ASSUME UniqueIds, SlugsFindOwn, CallsInv, HasClient, [AllNext]_allVars
  PROVE  HasClient'
  <1> USE DEF CallsInv
  <1>0. \A h \in Calls : at[h] # "idle" =>
          message[h] # None /\ message[h].type \in Types /\ message[h].slug \in Slugs
    BY AtWork DEF CallsTypeOK
  <1>1. ASSUME NEW p \in Subs, Beside(Handle(p)) PROVE HasClient'
    <2> SUFFICES ASSUME NEW h \in Calls, at'[h] # "idle", h \notin disturbed'
                 PROVE  gw'[message'[h].type][message'[h].slug] # None
      BY DEF HasClient
    <2> DEFINE t == message[h].type
               s == message[h].slug
    <2>1. at[h] # "idle" /\ message'[h] = message[h] /\ h \notin disturbed /\ ~Disturbs(h)
      BY <1>1 DEF Beside, calls, Watch
    <2>2. gw[t][s] # None
      BY <2>1 DEF HasClient
    <2>3. ~(p \in Updates \cup Destroys /\ Acts(p, s))
      BY <1>0, <2>1 DEF Disturbs
    <2>4. gw'[t][s] # None
      BY <1>0, <1>1, <2>1, <2>2, <2>3, ClientLeaves DEF Beside
    <2> QED
      BY <2>1, <2>4
  <1>2. CASE Beside(Boot)
    BY <1>0, <1>2, BootInstalls DEF Beside, calls, Watch, HasClient
  <1>3. CASE Beside(Receive) \/ Beside(Restart)
    <2>1. UNCHANGED gw
      BY <1>3 DEF Beside, Restart, Receive, OnChannelCreate, OnChannelUpdate, OnChannelDestroy,
         OnChannelPause, OnChannelResume, OnSyncCreate, OnSyncUpdate, OnSyncDestroy,
         OnSyncPause, OnSyncResume, Accept, Reject, tables
    <2> QED
      BY <1>3, <2>1 DEF Beside, calls, Watch, HasClient
  <1>4. CASE End
    BY <1>4 DEF End, HasClient
  <1>5. ASSUME NEW h \in Calls, NEW t \in Types, NEW s \in Slugs, Arrive(h, t, s)
        PROVE  HasClient'
    BY <1>5 DEF Arrive, HasClient, CallsTypeOK, vars, tables, history
  <1>6. ASSUME NEW h \in Calls, Call(h) PROVE HasClient'
    <2>1. \A g \in Calls : at'[g] # "idle" => at[g] # "idle" /\ message'[g] = message[g]
      BY <1>6 DEF Call, Inside, Gate, Ask, Tell, Answer, Send, Drop, Over, Proceed, CallsTypeOK
    <2>2. \A g \in Calls : at'[g] # "idle" /\ g \notin disturbed' => g \notin disturbed
      BY <1>6 DEF Call, Inside, Gate, Ask, Tell, Answer, Send, Drop, Over, Proceed, CallsTypeOK, history
    <2>3. gw' = gw
      BY <1>6, CallIsStutter DEF vars, tables
    <2> QED
      BY <2>1, <2>2, <2>3 DEF HasClient
  <1>7. CASE UNCHANGED allVars
    BY <1>7 DEF allVars, vars, tables, calls, history, HasClient
  <1> QED
    BY <1>1, <1>2, <1>3, <1>4, <1>5, <1>6, <1>7 DEF AllNext

\* A sending takes a foreign client only when the own one is gone, and a qqbot's
\* never does.
LEMMA SendIsOwn ==
  ASSUME CallsInv, HasClient, NEW h \in Calls, Tell(h) \/ Answer(h)
  PROVE  ForeignOnlyWhenDisturbed'
  <1> DEFINE t == message[h].type
             s == message[h].slug
             Own == h \notin disturbed \/ t = "qqbot"
  <1>1. t \in Types /\ s \in Slugs /\ at[h] # "idle"
    BY AtWork DEF Tell, Answer, CallsInv
  <1>2. h \notin disturbed => gw[t][s] # None
    BY <1>1 DEF HasClient
  <1>3. PICK clients :
          /\ Send(h, clients)
          /\ clients = OwnOnly(gw[t], s) \/ (clients = OwnOrAny(gw[t], s) /\ t # "qqbot")
    <2>1. CASE Tell(h)
      BY <2>1 DEF Tell
    <2>2. CASE Answer(h)
      BY <2>2 DEF Answer
    <2> QED
      BY <2>1, <2>2
  <1>4. Own => clients \subseteq {s}
    BY <1>1, <1>2, <1>3 DEF OwnOnly, OwnOrAny
  <1>5. sent' = None \/ \E via \in clients :
          sent' = [type |-> t, slug |-> s, via |-> via, disturbed |-> h \in disturbed]
    BY <1>3 DEF Send
  <1>6. CASE sent' = None
    BY <1>6 DEF ForeignOnlyWhenDisturbed
  <1>7. ASSUME NEW via \in clients,
               sent' = [type |-> t, slug |-> s, via |-> via, disturbed |-> h \in disturbed]
        PROVE  ForeignOnlyWhenDisturbed'
    <2>1. sent'.via = via /\ sent'.slug = s /\ sent'.type = t
      BY <1>7
    <2>2. sent'.disturbed = (h \in disturbed)
      BY <1>7
    <2>3. CASE via = s
      BY <2>1, <2>3 DEF ForeignOnlyWhenDisturbed
    <2>4. CASE via # s
      <3>1. h \in disturbed /\ t # "qqbot"
        BY <1>4, <1>7, <2>4
      <3> QED
        BY <2>1, <2>2, <3>1 DEF ForeignOnlyWhenDisturbed
    <2> QED
      BY <2>3, <2>4
  <1> QED
    BY <1>5, <1>6, <1>7

LEMMA ForeignStep ==
  ASSUME CallsInv, HasClient, ForeignOnlyWhenDisturbed, [AllNext]_allVars
  PROVE  ForeignOnlyWhenDisturbed'
  <1>1. CASE sent' = None
    BY <1>1 DEF ForeignOnlyWhenDisturbed
  <1>2. ASSUME NEW h \in Calls, Call(h) PROVE ForeignOnlyWhenDisturbed'
    <2>1. CASE Tell(h) \/ Answer(h)
      BY <2>1, SendIsOwn
    <2>2. CASE Gate(h) \/ Ask(h)
      BY <1>1, <2>2 DEF Gate, Ask, Drop, Proceed
    <2> QED
      BY <1>2, <2>1, <2>2 DEF Call, Inside
  <1>3. CASE UNCHANGED allVars
    BY <1>3 DEF allVars, ForeignOnlyWhenDisturbed
  <1> QED
    BY <1>1, <1>2, <1>3 DEF AllNext, Beside, End, Arrive

\* When the admin's ids are unique and nobody else's slugs, a user is only ever
\* answered through another tenant's client when his own channel was updated or
\* destroyed, or the process died, under his call; through qqbot never.
THEOREM ForeignAnswers ==
  ASSUME UniqueIds, SlugsFindOwn
  PROVE  AllSpec => []ForeignOnlyWhenDisturbed
  <1>1. AllInit => HasClient /\ ForeignOnlyWhenDisturbed
    BY DEF AllInit, HasClient, ForeignOnlyWhenDisturbed
  <1>2. CallsInv /\ HasClient /\ [AllNext]_allVars => HasClient'
    BY HasClientStep
  <1>3. CallsInv /\ HasClient /\ ForeignOnlyWhenDisturbed /\ [AllNext]_allVars
          => ForeignOnlyWhenDisturbed'
    BY ForeignStep
  <1> QED
    BY <1>1, <1>2, <1>3, CallsInvariance, PTL DEF AllSpec

-----------------------------------------------------------------------------
(* The two together.                                                       *)

\* Whose lock a call waits for.
CallWaitsFor(h) ==
  {q \in Subs :
     \/ at[h] = "gate" /\ mgrLock = q
     \/ at[h] \in {"tell", "reply"} /\ ~TableFree(message[h].type) /\ wxLock = q}

\* A call only waits for a request that is at work, and that waits for nobody, or
\* for one that is at work and waits for nobody.
CallsGoOn ==
  \A h \in Calls : \A q \in CallWaitsFor(h) :
    q \in Busy /\ \A r \in WaitsFor(q) : r \in Busy /\ WaitsFor(r) = {}

\* The part of CallsFinish that does without fairness: no call waits for a lock that
\* nobody will give back.
THEOREM CallsWaitForTheBusy == AllSpec => []CallsGoOn
  <1>1. NoDeadlock => CallsGoOn
    BY SubsAssumption DEF NoDeadlock, CallsGoOn, CallWaitsFor
  <1> QED
    BY <1>1, CallsOnlyRead, NoCircle, PTL

\* With the webhooks' traffic beside it the administration keeps its promise: the
\* calls take their three looks at the tables without a trace in what the admin
\* service is told.
THEOREM ListingBesideCalls ==
  ASSUME UniqueIds, SlugsAreNotIds
  PROVE  AllSpec => ImplementsListing
  BY CallsOnlyRead, AdminImplementsListing
=============================================================================
