----------------------------- MODULE FeishuQueue -----------------------------
(***************************************************************************)
(* The life of a Feishu message: from the webhook, through the check for   *)
(* duplicates and the Redis queue, to a worker, the agent and the reply.   *)
(*                                                                         *)
(* The platform sends a message again until a webhook call for it was      *)
(* answered well, and does not wait for one call to end before the next.   *)
(* Each call runs handleMessageReceive on a goroutine of its own.  The     *)
(* marks of processed messages and the queue are in Redis: they outlive    *)
(* the process, and any command may fail, with or without its effect.      *)
(* The workers start in the gateway's constructor: before its collaborators *)
(* are set, before the channels are installed and before HTTP is served.   *)
(* There is one channel, installed once its process serves; what installs  *)
(* and removes channels is ChannelAdmin.                                   *)
(***************************************************************************)
EXTENDS Naturals, Sequences, FiniteSets

CONSTANTS
  Msgs,           \* the messages users send
  Anonymous,      \* those without a sender's open id
  NoMsgId,        \* those without a message id
  Calls,          \* goroutines that serve webhook calls
  Workers,        \* gateway workers
  MaxDeliveries,  \* bound: webhook calls per message
  MaxFaults,      \* bound: Redis commands that fail
  MaxCrashes,     \* bound: crashes of the process
  None

ASSUME FeishuAssumption ==
  /\ Anonymous \subseteq Msgs /\ NoMsgId \subseteq Msgs
  /\ Calls \cap Workers = {}
  /\ MaxDeliveries \in Nat /\ MaxFaults \in Nat /\ MaxCrashes \in Nat
  /\ None \notin Msgs

Actors == Calls \cup Workers

VARIABLES
  stage,      \* how far the process is
  hasRedis,   \* Redis answered the constructor's ping
  status,     \* the channel's status in the manager
  marked,     \* Redis: the messages marked as processed
  queue,      \* Redis: the queued tasks, the oldest first
  pc,         \* per actor, what it does next
  msg,        \* per actor, the message it has in hand, or None
  delivered,  \* platform: per message, how often it was sent
  acked,      \* platform: the messages a call was answered well for
  runs,       \* per message, how often the agent was asked
  ended,      \* the messages a worker came to an end with
  lost,       \* the messages a crash or a fault took from a worker
  excused,    \* the messages the check for duplicates could not protect
  backlog,    \* the messages some process found in the queue
  wasted,     \* those that ended before the process was ready for them
  faults, crashes

process  == <<stage, hasRedis>>
redis    == <<marked, queue>>
platform == <<delivered, acked>>
actors   == <<pc, msg>>
history  == <<runs, ended, lost, excused, backlog, wasted>>
boots    == <<backlog, wasted>>
bounds   == <<faults, crashes>>
vars     == <<process, status, redis, platform, actors, history, bounds>>

(* idle -> check -> gate -> mark -> push [-> bind -> reply]   a call       *)
(* idle -> bind -> reply                                       a worker    *)
(* stage: down, built by the constructor, wired by fx, serving             *)
Labels == {"idle", "check", "gate", "mark", "push", "bind", "reply"}

Init ==
  /\ stage = "down" /\ hasRedis = FALSE /\ status = "active"
  /\ marked = {} /\ queue = <<>>
  /\ pc = [a \in Actors |-> "idle"] /\ msg = [a \in Actors |-> None]
  /\ delivered = [m \in Msgs |-> 0] /\ acked = {}
  /\ runs = [m \in Msgs |-> 0] /\ ended = {} /\ lost = {} /\ excused = {}
  /\ backlog = {} /\ wasted = {}
  /\ faults = 0 /\ crashes = 0

-----------------------------------------------------------------------------
GoTo(a, l) == pc' = [pc EXCEPT ![a] = l] /\ UNCHANGED msg

\* The actor is through with its message.  A call answers the platform: nil
\* becomes a 200, an error a 500 that makes the platform send the message again.
Finish(a, err) ==
  /\ pc' = [pc EXCEPT ![a] = "idle"]
  /\ msg' = [msg EXCEPT ![a] = None]
  /\ acked' = IF a \in Calls /\ ~err THEN acked \cup {msg[a]} ELSE acked
  /\ ended' = IF a \in Workers THEN ended \cup {msg[a]} ELSE ended

\* A Redis command fails, which is what may defeat the check for duplicates.
Fault(m) ==
  /\ faults < MaxFaults
  /\ faults' = faults + 1
  /\ excused' = excused \cup {m}

NoFault == UNCHANGED <<faults, excused>>

-----------------------------------------------------------------------------
(* The webhook.                                                            *)

\* Mutant: HTTP is served before the channels are installed.
DeliverEarly(h, m) ==
  /\ stage \in {"wired", "serving"} /\ pc[h] = "idle"
  /\ m \notin acked /\ delivered[m] < MaxDeliveries
  /\ delivered' = [delivered EXCEPT ![m] = @ + 1]
  /\ pc' = [pc EXCEPT ![h] = "check"]
  /\ msg' = [msg EXCEPT ![h] = m]
  /\ UNCHANGED <<process, status, redis, acked, history, bounds>>

\* A call for message m reaches handleMessageReceive.
Deliver(h, m) ==
  /\ stage = "serving" /\ pc[h] = "idle"
  /\ m \notin acked /\ delivered[m] < MaxDeliveries
  /\ delivered' = [delivered EXCEPT ![m] = @ + 1]
  /\ pc' = [pc EXCEPT ![h] = "check"]
  /\ msg' = [msg EXCEPT ![h] = m]
  /\ UNCHANGED <<process, status, redis, acked, history, bounds>>

\* Another call has passed the check with m and has not marked it yet.
Overlaps(h, m) ==
  \E g \in Calls \ {h} : msg[g] = m /\ pc[g] \in {"gate", "mark"}

\* Mutant: the message is marked by the check, before the gate.
CheckPassesMarks(h) ==
  /\ pc[h] = "check" /\ hasRedis
  /\ msg[h] \notin marked \cup NoMsgId
  /\ marked' = marked \cup {msg[h]}
  /\ GoTo(h, "gate")
  /\ UNCHANGED <<process, status, queue, platform, history, bounds>>

\* isDuplicateMessage finds no mark: there is none, or nobody to ask.
CheckPasses(h) ==
  /\ pc[h] = "check"
  /\ LET m == msg[h] IN
       /\ m \notin marked \/ m \in NoMsgId \/ ~hasRedis
       /\ excused' = IF Overlaps(h, m) \/ m \in NoMsgId \/ ~hasRedis
                     THEN excused \cup {m} ELSE excused
  /\ GoTo(h, "gate")
  /\ UNCHANGED <<process, status, redis, platform, runs, ended, lost, bounds, boots>>

\* Exists failed: the message is taken for a new one.
CheckFails(h) ==
  /\ pc[h] = "check" /\ hasRedis /\ msg[h] \notin NoMsgId
  /\ Fault(msg[h])
  /\ GoTo(h, "gate")
  /\ UNCHANGED <<process, status, redis, platform, runs, ended, lost, crashes, boots>>

\* "The message was processed, skip the duplicate."
Skip(h) ==
  /\ pc[h] = "check" /\ hasRedis
  /\ msg[h] \in marked \ NoMsgId
  /\ Finish(h, FALSE)
  /\ NoFault
  /\ UNCHANGED <<process, status, redis, delivered, runs, lost, crashes, boots>>

\* Mutant: a message is taken in whoever sent it.
GateTakesAll(h) ==
  /\ pc[h] = "gate"
  /\ \/ /\ status # "active"
        /\ \E err \in BOOLEAN : Finish(h, err)
     \/ /\ status = "active"
        /\ GoTo(h, "mark")
        /\ UNCHANGED <<acked, ended>>
  /\ UNCHANGED <<process, status, redis, delivered, runs, lost, excused, bounds, boots>>

\* A channel that is not active tells the user so; a message without a sender
\* is ignored.  Neither is marked.
Gate(h) ==
  /\ pc[h] = "gate"
  /\ \/ /\ status # "active"
        /\ \E err \in BOOLEAN : Finish(h, err)
     \/ /\ status = "active" /\ msg[h] \in Anonymous
        /\ Finish(h, FALSE)
     \/ /\ status = "active" /\ msg[h] \notin Anonymous
        /\ GoTo(h, "mark")
        /\ UNCHANGED <<acked, ended>>
  /\ UNCHANGED <<process, status, redis, delivered, runs, lost, excused, bounds, boots>>

\* Mutant: the call is forgotten.
MarkNothing(h) ==
  /\ pc[h] = "mark"
  /\ GoTo(h, "push")
  /\ UNCHANGED <<process, status, redis, platform, history, bounds>>

\* Mutant: a message without an id is marked like any other.
MarkAny(h) ==
  /\ pc[h] = "mark"
  /\ marked' = IF hasRedis THEN marked \cup {msg[h]} ELSE marked
  /\ GoTo(h, "push")
  /\ UNCHANGED <<process, status, queue, platform, history, bounds>>

\* markMessageProcessed: before anything is processed.  A failure is logged.
Mark(h) ==
  /\ pc[h] = "mark"
  /\ \/ /\ marked' = IF hasRedis THEN marked \cup ({msg[h]} \ NoMsgId) ELSE marked
        /\ NoFault
     \/ /\ hasRedis /\ msg[h] \notin NoMsgId
        /\ Fault(msg[h])
        /\ marked' \in {marked, marked \cup {msg[h]}}
  /\ GoTo(h, "push")
  /\ UNCHANGED <<process, status, queue, platform, runs, ended, lost, crashes, boots>>

\* LPush: the call is done, and the message is a worker's.
Push(h) ==
  /\ pc[h] = "push" /\ hasRedis
  /\ queue' = Append(queue, msg[h])
  /\ Finish(h, FALSE)
  /\ NoFault
  /\ UNCHANGED <<process, status, marked, delivered, runs, lost, crashes, boots>>

\* LPush failed, and may have had its effect all the same, or there is no
\* Redis: the call processes the message itself.
PushFails(h) ==
  /\ pc[h] = "push"
  /\ \/ /\ hasRedis
        /\ Fault(msg[h])
        /\ queue' \in {queue, Append(queue, msg[h])}
     \/ /\ ~hasRedis
        /\ NoFault
        /\ UNCHANGED queue
  /\ GoTo(h, "bind")
  /\ UNCHANGED <<process, status, marked, platform, runs, ended, lost, crashes, boots>>

-----------------------------------------------------------------------------
(* The workers.                                                            *)

\* Mutant: a task stays in Redis while a worker has it.
PopPeeks(w) ==
  /\ stage # "down" /\ pc[w] = "idle" /\ hasRedis /\ queue # <<>>
  /\ msg' = [msg EXCEPT ![w] = Head(queue)]
  /\ pc' = [pc EXCEPT ![w] = "bind"]
  /\ UNCHANGED <<process, status, redis, platform, history, bounds>>

\* BRPop: the oldest task is gone from Redis when the worker has it.
Pop(w) ==
  /\ stage # "down" /\ pc[w] = "idle" /\ hasRedis /\ queue # <<>>
  /\ queue' = Tail(queue)
  /\ msg' = [msg EXCEPT ![w] = Head(queue)]
  /\ pc' = [pc EXCEPT ![w] = "bind"]
  /\ UNCHANGED <<process, status, marked, platform, history, bounds>>

\* Mutant: a worker returns when BRPop fails.
PopFailsReturn(w) ==
  /\ stage # "down" /\ pc[w] = "idle" /\ hasRedis
  /\ faults < MaxFaults
  /\ faults' = faults + 1
  /\ pc' = [pc EXCEPT ![w] = "gone"]
  /\ UNCHANGED <<process, status, redis, platform, msg, history, crashes>>

\* BRPop failed: the worker logs it and tries again.  The answer may have been
\* lost on the way, and the task with it.
PopFails(w) ==
  /\ stage # "down" /\ pc[w] = "idle" /\ hasRedis
  /\ faults < MaxFaults
  /\ faults' = faults + 1
  /\ \/ UNCHANGED <<queue, lost>>
     \/ /\ queue # <<>>
        /\ queue' = Tail(queue)
        /\ lost' = lost \cup {Head(queue)}
  /\ UNCHANGED <<process, status, marked, platform, actors, runs, ended, excused, crashes, boots>>

-----------------------------------------------------------------------------
(* processMessageTask (a worker) and processMessageSync (a call).          *)

\* As long as no channel is installed there is no client to send a word with:
\* what an actor has to say is dropped.
Dropped(a) == wasted' = IF stage = "wired" THEN wasted \cup {msg[a]} ELSE wasted

\* Who the user is; a bound user's message goes to the agent.  An error ends
\* the message: a call returns it, a worker logs it.  An unbound user is told.
Bind(a) ==
  /\ stage \in {"wired", "serving"} /\ pc[a] = "bind"
  /\ \/ /\ \E err \in BOOLEAN : Finish(a, err)
        /\ Dropped(a)
        /\ UNCHANGED runs
     \/ /\ runs' = [runs EXCEPT ![msg[a]] = @ + 1]
        /\ GoTo(a, "reply")
        /\ UNCHANGED <<acked, ended, wasted>>
  /\ UNCHANGED <<process, status, redis, delivered, lost, excused, backlog, bounds>>

\* The agent's answer, or a worker's word that it failed, goes to the user;
\* what fails on the way a call returns and a worker logs.
ReplyUser(a) ==
  /\ pc[a] = "reply"
  /\ \E err \in BOOLEAN : Finish(a, err)
  /\ Dropped(a)
  /\ UNCHANGED <<process, status, redis, delivered, runs, lost, excused, backlog, bounds>>

-----------------------------------------------------------------------------
(* The environment.                                                        *)

\* The admin pauses and resumes the channel.
SetStatus ==
  /\ stage = "serving"
  /\ status' \in {"active", "paused"} \ {status}
  /\ UNCHANGED <<process, redis, platform, actors, history, bounds>>

\* A mark's five minutes are over.
Expire(m) ==
  /\ m \in marked
  /\ marked' = marked \ {m}
  /\ excused' = excused \cup {m}
  /\ UNCHANGED <<process, status, queue, platform, actors, runs, ended, lost, bounds, boots>>

\* The process is gone with all its goroutines; Redis keeps what it has.
Die ==
  /\ stage' = "down"
  /\ lost' = lost \cup {msg[w] : w \in {x \in Workers : pc[x] # "idle"}}
  /\ pc' = [a \in Actors |-> "idle"] /\ msg' = [a \in Actors |-> None]
  /\ UNCHANGED <<hasRedis, status, redis, platform, runs, ended, excused, backlog, faults>>

\* Killed, or stopped: nothing calls the gateway's Stop, which waits for workers.
Crash ==
  /\ stage # "down" /\ crashes < MaxCrashes
  /\ crashes' = crashes + 1
  /\ Die
  /\ UNCHANGED wasted

\* A worker asks the nil aibotClient who the user is.
Panic(w) ==
  /\ stage = "built" /\ pc[w] = "bind"
  /\ Die
  /\ wasted' = wasted \cup {msg[w]}
  /\ UNCHANGED crashes

\* NewFeishuGateway: without an answer to the ping there is no Redis client
\* for as long as the process runs.
Construct ==
  /\ stage = "down" /\ stage' = "built"
  /\ \/ hasRedis' = TRUE /\ UNCHANGED faults
     \/ hasRedis' = FALSE /\ faults < MaxFaults /\ faults' = faults + 1
  /\ backlog' = backlog \cup {queue[i] : i \in DOMAIN queue}
  /\ UNCHANGED <<status, redis, platform, actors, runs, ended, lost, excused, wasted, crashes>>

\* The module's Invoke sets the client and the registry; then GatewayServer's
\* OnStart installs the channels, and main's, which is the last, serves HTTP.
Start ==
  /\ \/ stage = "built" /\ stage' = "wired"
     \/ stage = "wired" /\ stage' = "serving"
  /\ UNCHANGED <<hasRedis, status, redis, platform, actors, history, bounds>>

Call(h) ==
  \/ CheckPasses(h) \/ CheckFails(h) \/ Skip(h) \/ Gate(h) \/ Mark(h)
  \/ Push(h) \/ PushFails(h) \/ Bind(h) \/ ReplyUser(h)

Work(w) == Pop(w) \/ Bind(w) \/ ReplyUser(w) \/ Panic(w)

Environment == SetStatus \/ Crash \/ \E m \in Msgs : Expire(m)

Next ==
  \/ \E h \in Calls : Call(h) \/ \E m \in Msgs : Deliver(h, m)
  \/ \E w \in Workers : Work(w) \/ PopFails(w)
  \/ Construct \/ Start \/ Environment

Spec == Init /\ [][Next]_vars

\* The workers are scheduled, and what they do for a task has a deadline; a process
\* that died is started again.  Nothing makes the platform send, a command fail, a
\* mark expire, the admin act, or a call, whose context has no deadline, go on.
Fairness ==
  /\ \A w \in Workers : WF_vars(Work(w))
  /\ WF_vars(Construct) /\ WF_vars(Start)

FairSpec == Spec /\ Fairness

-----------------------------------------------------------------------------
(* Properties.                                                             *)

TypeOK ==
  /\ stage \in {"down", "built", "wired", "serving"} /\ hasRedis \in BOOLEAN
  /\ status \in {"active", "paused"}
  /\ marked \subseteq Msgs \ NoMsgId /\ queue \in Seq(Msgs)
  /\ pc \in [Actors -> Labels] /\ msg \in [Actors -> Msgs \cup {None}]
  /\ \A a \in Actors : pc[a] = "idle" <=> msg[a] = None
  /\ \A w \in Workers : pc[w] \in {"idle", "bind", "reply"}
  /\ delivered \in [Msgs -> 0..MaxDeliveries] /\ acked \subseteq Msgs
  /\ runs \in [Msgs -> Nat]
  /\ ended \subseteq Msgs /\ lost \subseteq Msgs /\ excused \subseteq Msgs
  /\ backlog \subseteq Msgs /\ wasted \subseteq Msgs
  /\ faults \in 0..MaxFaults /\ crashes \in 0..MaxCrashes

\* The agent is asked at most once for a message, however often the platform
\* sends it and whatever crashes come in between, unless the check could not
\* work: Redis failed at it, its mark expired, the message has no id, or a
\* second call passed the check before the first had marked the message.
AskedOnce == \A m \in Msgs : runs[m] > 1 => m \in excused

InQueue(m) == \E i \in DOMAIN queue : queue[i] = m

Taken(m) ==
  \/ runs[m] > 0 \/ InQueue(m)
  \/ \E a \in Actors : msg[a] = m /\ pc[a] \in {"push", "bind", "reply"}

\* A message without a sender is never queued and never reaches the agent, in
\* a call or in a worker, and whatever is queued or was asked bears its mark as
\* long as Redis keeps it: no crash and no error takes the mark away.
OnlyMarkedRun ==
  \A m \in Msgs : Taken(m) => m \notin Anonymous /\ m \in marked \cup excused

\* As long as no process was killed, a mark does not outlive the message it
\* stands for: who skips a marked message can rely on somebody having it, or
\* having had it.  Marking before queueing loses nothing by itself; it takes a
\* crash, or Redis failing, in between.
MarkedIsHandled ==
  \A m \in marked \ excused :
    \/ Taken(m) \/ m \in ended \cup lost
    \/ crashes > 0

\* Only what an earlier process left in the queue can fall to a worker before
\* its process is ready: a message this process took in has its channel.
OnlyBacklogWasted == wasted \subseteq backlog

\* Every queued message is taken by a worker that comes to an end with it, also
\* when the process dies before that; or it was lost with the process or with
\* Redis's answer; or the process runs without Redis.
QueueDrains ==
  \A m \in Msgs :
    InQueue(m) ~> (m \in ended \cup lost \/ (stage = "serving" /\ ~hasRedis))

InHand(m) == \E a \in Actors : msg[a] = m /\ pc[a] \in {"bind", "reply"}

\* A message's fate.  Where it is now goes before what became of it once: a
\* message that came back to life would show.
Fate ==
  [m \in Msgs |->
     IF m \in excused THEN "exposed"
     ELSE IF InQueue(m) \/ InHand(m) THEN IF runs[m] = 0 THEN "taken" ELSE "asked"
     ELSE IF m \in ended THEN "closed"
     ELSE IF m \in lost THEN "gone"
     ELSE "new"]

Delivery == INSTANCE MessageDelivery WITH fate <- Fate, asks <- runs

\* Calls that overlap, two workers, crashes and restarts: a message the check
\* protects still has one life.
ImplementsDelivery == Delivery!Spec

\* "The message was processed, skip the duplicate": what a call skips was
\* asked, is queued, or is or was in some other actor's hands.
SkippedWasHandled ==
  [][\A h \in Calls :
       pc[h] = "check" /\ pc'[h] = "idle" /\ stage' # "down"
       => \/ runs[msg[h]] > 0 \/ InQueue(msg[h]) \/ msg[h] \in ended \cup lost
          \/ \E a \in Actors \ {h} : msg[a] = msg[h]]_vars
=============================================================================
