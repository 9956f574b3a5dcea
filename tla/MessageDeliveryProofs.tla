------------------------ MODULE MessageDeliveryProofs ------------------------
(***************************************************************************)
(* FeishuQueue implements MessageDelivery: a message the check protects    *)
(* has one life.  The invariant of FeishuQueueProofs says where such a     *)
(* message may be as long as the agent was not asked for it; what is added *)
(* here is where it may be afterwards, and that the lives that ended are   *)
(* over: their mark is still there, and nobody has the message in hand.    *)
(***************************************************************************)
EXTENDS FeishuQueueProofs

Beyond == {"push", "bind", "reply"}

\* An ended life left its mark behind, and nothing else.  Where the agent was
\* asked for a message, one actor is about to tell the user.
Settled ==
  /\ \A m \in (ended \cup lost) \ excused :
       /\ m \in marked /\ ~Occurs(queue, m)
       /\ \A a \in Actors : msg[a] = m => pc[a] \notin Beyond
  /\ \A a \in Actors :
       pc[a] = "reply" /\ msg[a] \notin excused =>
         /\ runs[msg[a]] > 0
         /\ \A b \in Actors : pc[b] = "reply" /\ msg[b] = msg[a] => a = b

\* A call processes no message the check protects: it queues it.
OnlyWorkers ==
  \A h \in Calls :
    msg[h] \notin excused =>
      pc[h] \notin {"bind", "reply"} /\ (pc[h] = "push" => hasRedis)

DInv == IInv /\ Settled /\ OnlyWorkers /\ MarkedIsHandled

LEMMA InQueueIs ==
  /\ \A m : InQueue(m) <=> Occurs(queue, m)
  /\ \A m : InQueue(m)' <=> Occurs(queue', m)
  BY DEF InQueue, Occurs

LEMMA TailKeeps ==
  ASSUME NEW q \in Seq(Msgs), q # <<>>
  PROVE  \A m : Occurs(q, m) => Occurs(Tail(q), m) \/ m = Head(q)
  <1>1. /\ DOMAIN q = 1..Len(q) /\ Len(q) \in Nat \ {0}
        /\ DOMAIN Tail(q) = 1..(Len(q) - 1)
        /\ \A i \in 1..(Len(q) - 1) : Tail(q)[i] = q[i + 1]
        /\ Head(q) = q[1]
    OBVIOUS
  <1>2. ASSUME NEW m, NEW i \in DOMAIN q, q[i] = m, m # Head(q) PROVE Occurs(Tail(q), m)
    <2>1. i - 1 \in DOMAIN Tail(q) /\ Tail(q)[i - 1] = m
      BY <1>1, <1>2
    <2> QED
      BY <2>1 DEF Occurs
  <1> QED
    BY <1>2 DEF Occurs

\* An actor beyond the mark is the only place of the message it has in hand.
LEMMA Alone ==
  ASSUME IInv, Settled, NEW a \in Actors, pc[a] \in Beyond, msg[a] \notin excused
  PROVE  /\ msg[a] \in Msgs /\ msg[a] \in marked /\ msg[a] \notin Anonymous
         /\ ~Occurs(queue, msg[a]) /\ msg[a] \notin ended \cup lost
         /\ \A b \in Actors : pc[b] \in Beyond /\ msg[b] = msg[a] => a = b
         /\ pc[a] \in Pending => runs[msg[a]] = 0
         /\ pc[a] = "reply" => runs[msg[a]] > 0
  <1>1. msg[a] \in Msgs \ excused
    BY AtWork DEF IInv, Beyond
  <1>2. msg[a] \in marked /\ msg[a] \notin Anonymous
    BY DEF IInv, MarkedFirst, Beyond
  <1>3. msg[a] \notin ended \cup lost
    BY DEF Settled
  <1>4. /\ pc[a] \in Pending => runs[msg[a]] = 0 /\ ~Occurs(queue, msg[a])
        /\ \A b \in Actors : pc[b] \in Pending /\ msg[b] = msg[a] => runs[msg[a]] = 0
        /\ Occurs(queue, msg[a]) => runs[msg[a]] = 0
        /\ \A b \in Actors : pc[a] \in Pending /\ pc[b] \in Pending /\ msg[b] = msg[a] => a = b
    BY <1>1 DEF IInv, OnePlace
  <1>5. \A b \in Actors : pc[b] = "reply" /\ msg[b] = msg[a] => runs[msg[a]] > 0
    BY DEF Settled
  <1>6. /\ runs[msg[a]] \in Nat
        /\ \A b \in Actors : pc[b] \in Beyond <=> pc[b] \in Pending \/ pc[b] = "reply"
    BY <1>1 DEF IInv, TypeOK, Beyond, Pending
  <1>7. \A b \in Actors : pc[b] \in Beyond /\ msg[b] = msg[a] => a = b
    BY <1>4, <1>5, <1>6 DEF Settled
  <1> QED
    BY <1>1, <1>2, <1>3, <1>4, <1>5, <1>6, <1>7

\* So is the queue for a message that is in it.
LEMMA Queued ==
  ASSUME IInv, Settled, NEW m \in Msgs \ excused, Occurs(queue, m)
  PROVE  /\ m \in marked /\ m \notin ended \cup lost
         /\ runs[m] = 0
         /\ \A a \in Actors : msg[a] = m => pc[a] \notin Beyond
  <1>1. m \in marked
    BY DEF IInv, MarkedFirst
  <1>2. m \notin ended \cup lost
    BY DEF Settled
  <1>3. runs[m] = 0
    BY DEF IInv, OnePlace
  <1>4. \A a \in Actors : msg[a] = m => pc[a] \notin Beyond
    BY Alone
  <1> QED
    BY <1>1, <1>2, <1>3, <1>4

LEMMA InitDInv == Init => DInv
  <1> SUFFICES ASSUME Init PROVE DInv
    OBVIOUS
  <1>1. Settled /\ OnlyWorkers /\ MarkedIsHandled
    BY FeishuAssumption DEF Init, Settled, OnlyWorkers, MarkedIsHandled, Actors
  <1> QED
    BY <1>1, InitIInv DEF DInv

-----------------------------------------------------------------------------
(* The steps that leave every message where it is.                         *)

\* What the three added parts are about, except who is beyond the mark.
StaysPut ==
  /\ UNCHANGED <<marked, queue, runs, ended, lost, hasRedis>>
  /\ excused \subseteq excused' /\ (crashes > 0 => crashes' > 0)
  /\ \A a \in Actors :
       (pc[a] \in Beyond \/ pc'[a] \in Beyond) => pc'[a] = pc[a] /\ msg'[a] = msg[a]

LEMMA StaysPutKeeps ==
  ASSUME DInv, StaysPut PROVE (Settled /\ OnlyWorkers /\ MarkedIsHandled)'
  <1> USE DEF StaysPut, DInv
  <1>1. Settled'
    BY DEF Settled, Beyond
  <1>2. OnlyWorkers'
    BY DEF OnlyWorkers, Actors, Beyond
  <1>3. MarkedIsHandled'
    <2>1. \A m : Taken(m) => Taken(m)'
      BY InQueueIs DEF Taken, Beyond
    <2> QED
      BY <2>1 DEF MarkedIsHandled
  <1> QED
    BY <1>1, <1>2, <1>3

LEMMA QuietStaysPut ==
  ASSUME DInv,
         \/ \E h \in Calls : \/ CheckPasses(h) \/ CheckFails(h) \/ Skip(h) \/ Gate(h)
                             \/ \E m \in Msgs : Deliver(h, m)
         \/ SetStatus \/ Start \/ UNCHANGED vars
  PROVE  StaysPut
  <1> USE DEF StaysPut, process, redis, platform, actors, history, boots, bounds
  <1>0. /\ \A a \in Actors, l \in Labels : pc' = [pc EXCEPT ![a] = l] =>
             /\ pc'[a] = l
             /\ \A b \in Actors \ {a} : pc'[b] = pc[b]
        /\ \A a \in Actors : \A v : msg' = [msg EXCEPT ![a] = v] =>
             \A b \in Actors \ {a} : msg'[b] = msg[b]
        /\ {"idle", "check", "gate", "mark"} \subseteq Labels \ Beyond
        /\ Calls \subseteq Actors
    BY DEF DInv, IInv, TypeOK, Labels, Beyond, Actors
  <1>1. ASSUME NEW h \in Calls, CheckPasses(h) PROVE StaysPut
    BY <1>0, <1>1 DEF CheckPasses, GoTo
  <1>2. ASSUME NEW h \in Calls, CheckFails(h) PROVE StaysPut
    BY <1>0, <1>2 DEF CheckFails, Fault, GoTo
  <1>3. ASSUME NEW h \in Calls, Skip(h) PROVE StaysPut
    BY <1>0, <1>3, FeishuAssumption DEF Skip, Finish, NoFault
  <1>4. ASSUME NEW h \in Calls, Gate(h) PROVE StaysPut
    BY <1>0, <1>4, FeishuAssumption DEF Gate, Finish, GoTo
  <1>5. ASSUME NEW h \in Calls, NEW m \in Msgs, Deliver(h, m) PROVE StaysPut
    BY <1>0, <1>5 DEF Deliver
  <1>6. ASSUME SetStatus PROVE StaysPut
    BY <1>6 DEF SetStatus
  <1>7. ASSUME Start PROVE StaysPut
    BY <1>7 DEF Start
  <1>8. ASSUME UNCHANGED vars PROVE StaysPut
    BY <1>8 DEF vars
  <1> QED
    BY <1>1, <1>2, <1>3, <1>4, <1>5, <1>6, <1>7, <1>8

\* A process that starts has no calls whose Redis could go away.
LEMMA ConstructSettled ==
  ASSUME DInv, Construct PROVE (Settled /\ OnlyWorkers /\ MarkedIsHandled)'
  <1> USE DEF Construct, DInv, redis, platform, actors
  <1>1. Settled'
    BY DEF Settled
  <1>2. OnlyWorkers'
    BY DEF OnlyWorkers, IInv, Quiet, Actors
  <1>3. MarkedIsHandled'
    <2>1. \A m : Taken(m) => Taken(m)'
      BY InQueueIs DEF Taken
    <2> QED
      BY <2>1 DEF MarkedIsHandled
  <1> QED
    BY <1>1, <1>2, <1>3

-----------------------------------------------------------------------------
(* The steps that move a message.                                          *)

LEMMA MarkSettled ==
  ASSUME NEW h \in Calls, DInv, Mark(h)
  PROVE  (Settled /\ OnlyWorkers /\ MarkedIsHandled)'
  <1> USE DEF DInv
  <1>0. msg[h] \in Msgs /\ h \in Actors
    BY AtWork DEF Mark, IInv, Actors
  <1>a. /\ pc[h] = "mark" /\ pc'[h] = "push" /\ msg' = msg
        /\ \A b \in Actors \ {h} : pc'[b] = pc[b]
        /\ marked \subseteq marked' /\ marked' \subseteq marked \cup {msg[h]}
        /\ excused \subseteq excused'
        /\ UNCHANGED <<hasRedis, queue, runs, ended, lost, crashes>>
    BY <1>0 DEF Mark, Fault, NoFault, GoTo, IInv, TypeOK, redis, process, platform
  <1>b. msg[h] \notin excused => hasRedis /\ msg[h] \notin marked
    BY <1>a DEF IInv, PassedAlone, Passed
  <1>1. Settled'
    <2>1. \A m \in (ended \cup lost) \ excused : m # msg[h]
      BY <1>b DEF Settled
    <2> QED
      BY <1>0, <1>a, <2>1 DEF Settled, Beyond
  <1>2. OnlyWorkers'
    BY <1>0, <1>a, <1>b DEF OnlyWorkers, Actors
  <1>3. MarkedIsHandled'
    <2>1. Taken(msg[h])'
      BY <1>0, <1>a DEF Taken
    <2>2. \A m : Taken(m) => Taken(m)'
      BY <1>0, <1>a, InQueueIs DEF Taken
    <2> QED
      BY <1>a, <2>1, <2>2 DEF MarkedIsHandled
  <1> QED
    BY <1>1, <1>2, <1>3

LEMMA PushSettled ==
  ASSUME NEW h \in Calls, DInv, Push(h)
  PROVE  (Settled /\ OnlyWorkers /\ MarkedIsHandled)'
  <1> USE DEF DInv
  <1>0. msg[h] \in Msgs /\ h \in Actors /\ h \notin Workers /\ queue \in Seq(Msgs)
    BY AtWork, FeishuAssumption DEF Push, IInv, TypeOK, Actors
  <1>a. /\ pc[h] = "push" /\ pc'[h] = "idle"
        /\ \A b \in Actors \ {h} : pc'[b] = pc[b] /\ msg'[b] = msg[b]
        /\ queue' = Append(queue, msg[h])
        /\ UNCHANGED <<hasRedis, marked, excused, runs, ended, lost, crashes>>
    BY <1>0 DEF Push, Finish, NoFault, IInv, TypeOK, process
  <1>b. \A m : Occurs(queue', m) <=> Occurs(queue, m) \/ m = msg[h]
    BY <1>0, <1>a, AppendFacts
  <1>1. Settled'
    <2>1. \A m \in (ended \cup lost) \ excused : m # msg[h]
      BY <1>0, <1>a DEF Settled, Beyond
    <2> QED
      BY <1>0, <1>a, <1>b, <2>1 DEF Settled, Beyond
  <1>2. OnlyWorkers'
    BY <1>0, <1>a DEF OnlyWorkers, Actors
  <1>3. MarkedIsHandled'
    <2>1. \A m : Taken(m) => Taken(m)'
      BY <1>0, <1>a, <1>b, InQueueIs DEF Taken
    <2> QED
      BY <1>a, <2>1 DEF MarkedIsHandled
  <1> QED
    BY <1>1, <1>2, <1>3

LEMMA PushFailsSettled ==
  ASSUME NEW h \in Calls, DInv, PushFails(h)
  PROVE  (Settled /\ OnlyWorkers /\ MarkedIsHandled)'
  <1> USE DEF DInv
  <1>0. msg[h] \in Msgs /\ h \in Actors /\ queue \in Seq(Msgs)
    BY AtWork DEF PushFails, IInv, TypeOK, Actors
  <1>a. /\ pc[h] = "push" /\ pc'[h] = "bind" /\ msg' = msg
        /\ \A b \in Actors \ {h} : pc'[b] = pc[b]
        /\ excused \subseteq excused' /\ msg[h] \in excused'
        /\ queue' \in {queue, Append(queue, msg[h])}
        /\ UNCHANGED <<hasRedis, marked, runs, ended, lost, crashes>>
    BY <1>0 DEF PushFails, Fault, NoFault, GoTo, OnlyWorkers, IInv, TypeOK, process, platform
  <1>b. \A m : /\ Occurs(queue, m) => Occurs(queue', m)
               /\ Occurs(queue', m) => Occurs(queue, m) \/ m = msg[h]
    <2>1. CASE queue' = queue
      BY <2>1
    <2>2. CASE queue' = Append(queue, msg[h])
      BY <1>0, <2>2, AppendFacts
    <2> QED
      BY <1>a, <2>1, <2>2
  <1>1. Settled'
    BY <1>0, <1>a, <1>b DEF Settled, Beyond
  <1>2. OnlyWorkers'
    BY <1>0, <1>a DEF OnlyWorkers, Actors
  <1>3. MarkedIsHandled'
    <2>1. \A m : Taken(m) => Taken(m)'
      BY <1>0, <1>a, <1>b, InQueueIs DEF Taken
    <2> QED
      BY <1>a, <2>1 DEF MarkedIsHandled
  <1> QED
    BY <1>1, <1>2, <1>3

LEMMA PopSettled ==
  ASSUME NEW w \in Workers, DInv, Pop(w)
  PROVE  (Settled /\ OnlyWorkers /\ MarkedIsHandled)'
  <1> USE DEF DInv
  <1>0. w \in Actors /\ w \notin Calls /\ queue \in Seq(Msgs) /\ queue # <<>>
    BY FeishuAssumption DEF Pop, IInv, TypeOK, Actors
  <1>1. /\ pc[w] = "idle" /\ pc'[w] = "bind" /\ msg'[w] = Head(queue)
        /\ \A b \in Actors \ {w} : pc'[b] = pc[b] /\ msg'[b] = msg[b]
        /\ UNCHANGED <<hasRedis, marked, excused, runs, ended, lost, crashes>>
    BY <1>0 DEF Pop, IInv, TypeOK, process, platform, history, bounds
  <1>2. /\ Head(queue) \in Msgs /\ Occurs(queue, Head(queue))
        /\ \A m : Occurs(queue', m) => Occurs(queue, m)
        /\ \A m : Occurs(queue, m) => Occurs(queue', m) \/ m = Head(queue)
    <2>1. queue' = Tail(queue)
      BY DEF Pop
    <2>2. \A m : Occurs(queue, m) => Occurs(queue', m) \/ m = Head(queue)
      BY <1>0, <2>1, TailKeeps
    <2> QED
      BY <1>0, <2>1, <2>2, TailFacts
  <1>3. Settled'
    BY <1>0, <1>1, <1>2 DEF Settled, Beyond
  <1>4. OnlyWorkers'
    BY <1>0, <1>1 DEF OnlyWorkers, Actors
  <1>5. MarkedIsHandled'
    <2>1. \A m : m = Head(queue) => Taken(m)'
      BY <1>0, <1>1 DEF Taken
    <2>2. \A m : Taken(m) => Taken(m)'
      BY <1>0, <1>1, <1>2, <2>1, InQueueIs DEF Taken
    <2> QED
      BY <1>1, <2>2 DEF MarkedIsHandled
  <1> QED
    BY <1>3, <1>4, <1>5

\* The task that an answer of Redis's takes with it was nowhere else.
LEMMA PopFailsSettled ==
  ASSUME NEW w \in Workers, DInv, PopFails(w)
  PROVE  (Settled /\ OnlyWorkers /\ MarkedIsHandled)'
  <1> USE DEF DInv
  <1>1. /\ queue \in Seq(Msgs)
        /\ \/ queue' = queue /\ lost' = lost
           \/ queue # <<>> /\ queue' = Tail(queue) /\ lost' = lost \cup {Head(queue)}
        /\ UNCHANGED <<hasRedis, marked, excused, pc, msg, runs, ended, crashes>>
    BY DEF PopFails, IInv, TypeOK, process, platform, actors
  <1>2. CASE queue' = queue /\ lost' = lost
    BY <1>1, <1>2, StaysPutKeeps DEF StaysPut
  <1>3. CASE queue # <<>> /\ queue' = Tail(queue) /\ lost' = lost \cup {Head(queue)}
    <2> DEFINE x == Head(queue)
    <2>1. /\ x \in Msgs /\ Occurs(queue, x)
          /\ \A m : Occurs(queue', m) => Occurs(queue, m)
          /\ \A m : Occurs(queue, m) => Occurs(queue', m) \/ m = x
          /\ Single(queue, x) => ~Occurs(queue', x)
      BY <1>1, <1>3, TailFacts, TailKeeps
    <2>2. x \notin excused =>
            /\ x \in marked /\ ~Occurs(queue', x)
            /\ \A a \in Actors : msg[a] = x => pc[a] \notin Beyond
      <3>1. x \notin excused => Single(queue, x)
        BY <2>1 DEF IInv, OnePlace
      <3> QED
        BY <2>1, <3>1, Queued
    <2> HIDE DEF x
    <2>3. lost' = lost \cup {x}
      BY <1>3 DEF x
    <2>4. Settled'
      BY <1>1, <2>1, <2>2, <2>3 DEF Settled
    <2>5. OnlyWorkers'
      BY <1>1 DEF OnlyWorkers
    <2>6. MarkedIsHandled'
      <3>1. \A m : Taken(m) => Taken(m)' \/ m = x
        BY <1>1, <2>1, InQueueIs DEF Taken
      <3> QED
        BY <1>1, <2>3, <3>1 DEF MarkedIsHandled
    <2> QED
      BY <2>4, <2>5, <2>6
  <1> QED
    BY <1>1, <1>2, <1>3

\* An actor that is through with a message, or asks the agent, was alone with it.
LEMMA BindSettled ==
  ASSUME NEW a \in Actors, DInv, Bind(a)
  PROVE  (Settled /\ OnlyWorkers /\ MarkedIsHandled)'
  <1> USE DEF DInv
  <1>0. msg[a] \in Msgs /\ pc[a] = "bind" /\ pc[a] \in Beyond /\ pc[a] \in Pending
    BY AtWork DEF Bind, IInv, Beyond, Pending
  <1>1. /\ \A b \in Actors \ {a} : pc'[b] = pc[b] /\ msg'[b] = msg[b]
        /\ UNCHANGED <<hasRedis, marked, queue, excused, lost, crashes>>
    BY DEF Bind, Finish, GoTo, IInv, TypeOK, process, redis, bounds
  <1>2. msg[a] \notin excused =>
          /\ a \in Workers
          /\ msg[a] \in marked /\ ~Occurs(queue, msg[a]) /\ runs[msg[a]] = 0
          /\ \A b \in Actors : pc[b] \in Beyond /\ msg[b] = msg[a] => a = b
    BY <1>0, Alone DEF OnlyWorkers, Actors
  <1>3. /\ \/ /\ pc'[a] = "idle" /\ runs' = runs
              /\ ended' = IF a \in Workers THEN ended \cup {msg[a]} ELSE ended
           \/ /\ pc'[a] = "reply" /\ msg'[a] = msg[a] /\ ended' = ended
              /\ runs' = [runs EXCEPT ![msg[a]] = @ + 1]
    BY DEF Bind, Finish, GoTo, IInv, TypeOK
  <1>4. CASE /\ pc'[a] = "idle" /\ runs' = runs
             /\ ended' = IF a \in Workers THEN ended \cup {msg[a]} ELSE ended
    <2>1. Settled'
      BY <1>0, <1>1, <1>2, <1>4 DEF Settled, Beyond
    <2>2. OnlyWorkers'
      BY <1>1, <1>4 DEF OnlyWorkers, Actors
    <2>3. MarkedIsHandled'
      <3>1. \A m : Taken(m) => Taken(m)' \/ m = msg[a]
        BY <1>1, <1>4, InQueueIs DEF Taken
      <3> QED
        BY <1>1, <1>2, <1>4, <3>1 DEF MarkedIsHandled
    <2> QED
      BY <2>1, <2>2, <2>3
  <1>5. CASE /\ pc'[a] = "reply" /\ msg'[a] = msg[a] /\ ended' = ended
             /\ runs' = [runs EXCEPT ![msg[a]] = @ + 1]
    <2>0. /\ runs \in [Msgs -> Nat] /\ runs'[msg[a]] > 0
          /\ \A m : runs[m] > 0 => runs'[m] > 0
          /\ \A b \in Actors : pc[b] = "reply" /\ msg[b] \notin excused => runs'[msg[b]] > 0
      <3>1. runs \in [Msgs -> Nat]
        BY DEF IInv, TypeOK
      <3>2. \A b \in Actors : pc[b] = "reply" => msg[b] \in Msgs
        BY AtWork DEF IInv
      <3>3. runs'[msg[a]] > 0
        BY <1>0, <1>5, <3>1
      <3>4. \A m : runs[m] > 0 => runs'[m] > 0
        BY <1>0, <1>5, <3>1, <3>3
      <3> QED
        BY <3>1, <3>2, <3>3, <3>4 DEF Settled
    <2>1. Settled'
      BY <1>0, <1>1, <1>2, <1>5, <2>0 DEF Settled, Beyond
    <2>2. OnlyWorkers'
      BY <1>0, <1>1, <1>2, <1>5, FeishuAssumption DEF OnlyWorkers, Actors
    <2>3. MarkedIsHandled'
      <3>1. \A m : Taken(m) => Taken(m)'
        BY <1>0, <1>1, <1>5, <2>0, InQueueIs DEF Taken
      <3> QED
        BY <1>1, <1>5, <3>1 DEF MarkedIsHandled
    <2> QED
      BY <2>1, <2>2, <2>3
  <1> QED
    BY <1>3, <1>4, <1>5

LEMMA ReplyUserSettled ==
  ASSUME NEW a \in Actors, DInv, ReplyUser(a)
  PROVE  (Settled /\ OnlyWorkers /\ MarkedIsHandled)'
  <1> USE DEF DInv
  <1>0. msg[a] \in Msgs /\ pc[a] = "reply" /\ pc[a] \in Beyond
    BY AtWork DEF ReplyUser, IInv, Beyond
  <1>1. /\ pc'[a] = "idle"
        /\ \A b \in Actors \ {a} : pc'[b] = pc[b] /\ msg'[b] = msg[b]
        /\ ended' = IF a \in Workers THEN ended \cup {msg[a]} ELSE ended
        /\ UNCHANGED <<hasRedis, marked, queue, runs, excused, lost, crashes>>
    BY DEF ReplyUser, Finish, IInv, TypeOK, process, redis, bounds
  <1>2. msg[a] \notin excused =>
          /\ a \in Workers
          /\ msg[a] \in marked /\ ~Occurs(queue, msg[a])
          /\ \A b \in Actors : pc[b] \in Beyond /\ msg[b] = msg[a] => a = b
    BY <1>0, Alone DEF OnlyWorkers, Actors
  <1>3. Settled'
    BY <1>0, <1>1, <1>2 DEF Settled, Beyond
  <1>4. OnlyWorkers'
    BY <1>1 DEF OnlyWorkers, Actors
  <1>5. MarkedIsHandled'
    <2>1. \A m : Taken(m) => Taken(m)' \/ m = msg[a]
      BY <1>1, InQueueIs DEF Taken
    <2> QED
      BY <1>1, <1>2, <2>1 DEF MarkedIsHandled
  <1> QED
    BY <1>3, <1>4, <1>5

-----------------------------------------------------------------------------
(* The environment's steps.                                                *)

LEMMA ExpireSettled ==
  ASSUME NEW m \in Msgs, DInv, Expire(m)
  PROVE  (Settled /\ OnlyWorkers /\ MarkedIsHandled)'
  <1> USE DEF DInv, Expire, process, platform, actors, bounds, boots
  <1>1. Settled'
    BY DEF Settled
  <1>2. OnlyWorkers'
    BY DEF OnlyWorkers
  <1>3. MarkedIsHandled'
    <2>1. \A x : Taken(x) => Taken(x)'
      BY InQueueIs DEF Taken
    <2> QED
      BY <2>1 DEF MarkedIsHandled
  <1> QED
    BY <1>1, <1>2, <1>3

\* What a dying process takes with it: what its workers had in hand.
AtHand == {msg[w] : w \in {x \in Workers : pc[x] # "idle"}}

LEMMA DieSettled ==
  ASSUME DInv, Die, crashes \in Nat, crashes' \in Nat,
         crashes' > 0 \/ (crashes' = crashes /\ \A h \in Calls : pc[h] = "idle")
  PROVE  (Settled /\ OnlyWorkers /\ MarkedIsHandled)'
  <1> USE DEF DInv, Die, redis, platform
  <1>1. \A a \in Actors : pc'[a] \notin Beyond
    BY DEF Beyond
  <1>2. \A m \in AtHand \ excused : m \in marked /\ ~Occurs(queue, m)
    <2> SUFFICES ASSUME NEW w \in Workers, pc[w] # "idle", msg[w] \notin excused
                 PROVE  msg[w] \in marked /\ ~Occurs(queue, msg[w])
      BY DEF AtHand
    <2>1. w \in Actors /\ pc[w] \in Beyond
      BY DEF IInv, TypeOK, Actors, Beyond
    <2> QED
      BY <2>1, Alone
  <1>3. Settled'
    <2>1. \A m \in (ended' \cup lost') \ excused' : m \in marked' /\ ~Occurs(queue', m)
      BY <1>2 DEF Settled, AtHand
    <2> QED
      BY <1>1, <2>1 DEF Settled, Beyond
  <1>4. OnlyWorkers'
    BY <1>1 DEF OnlyWorkers, Beyond, Actors
  <1>5. MarkedIsHandled'
    <2>1. CASE crashes' > 0
      BY <2>1 DEF MarkedIsHandled
    <2>2. CASE crashes' = crashes /\ \A h \in Calls : pc[h] = "idle"
      <3>1. \A m : Taken(m) => Taken(m)' \/ m \in lost'
        BY <2>2, InQueueIs DEF Taken, Actors
      <3> QED
        BY <2>2, <3>1 DEF MarkedIsHandled
    <2> QED
      BY <2>1, <2>2
  <1> QED
    BY <1>3, <1>4, <1>5

LEMMA NextSettles == DInv /\ [Next]_vars => DInv'
  <1> SUFFICES ASSUME DInv, [Next]_vars PROVE DInv'
    OBVIOUS
  <1> DEFINE G == (Settled /\ OnlyWorkers /\ MarkedIsHandled)'
  <1>1. ASSUME NEW h \in Calls, Call(h) \/ \E m \in Msgs : Deliver(h, m) PROVE G
    BY <1>1, QuietStaysPut, StaysPutKeeps, MarkSettled, PushSettled,
       PushFailsSettled, BindSettled, ReplyUserSettled DEF Call, Actors
  <1>2. ASSUME NEW w \in Workers, Pop(w) \/ Bind(w) \/ ReplyUser(w) \/ PopFails(w) PROVE G
    BY <1>2, PopSettled, BindSettled, ReplyUserSettled, PopFailsSettled DEF Actors
  <1>3. /\ crashes \in Nat
        /\ crashes' = crashes + 1 => crashes' \in Nat /\ crashes' > 0
        /\ stage = "built" => \A h \in Calls : pc[h] = "idle"
    BY FeishuAssumption DEF DInv, IInv, TypeOK, Quiet
  <1>4. ASSUME NEW w \in Workers, Panic(w) PROVE G
    BY <1>3, <1>4, DieSettled DEF Panic
  <1>5. ASSUME Crash PROVE G
    BY <1>3, <1>5, DieSettled DEF Crash
  <1>6. ASSUME Construct \/ Start \/ SetStatus \/ UNCHANGED vars PROVE G
    BY <1>6, ConstructSettled, QuietStaysPut, StaysPutKeeps
  <1>7. ASSUME NEW m \in Msgs, Expire(m) PROVE G
    BY <1>7, ExpireSettled
  <1>8. G
    BY <1>1, <1>2, <1>4, <1>5, <1>6, <1>7 DEF Next, Work, Environment
  <1> QED
    BY <1>8, NextKeeps DEF DInv

\* The invariant, with what becomes of a message after the agent was asked,
\* holds in every reachable state.
THEOREM SpecDInv == Spec => []DInv
  BY InitDInv, NextSettles, PTL DEF Spec

\* As long as no process was killed and Redis did not fail, who skips a marked
\* message can rely on somebody having it, or having had it.
THEOREM MarksAreHandled == Spec => []MarkedIsHandled
  <1>1. DInv => MarkedIsHandled
    BY DEF DInv
  <1> QED
    BY SpecDInv, <1>1, PTL

-----------------------------------------------------------------------------
(* The fate of a message.                                                  *)

Delivers == [Delivery!Next]_(Delivery!vars)

Live(m) == InQueue(m) \/ InHand(m)

LEMMA FateIs ==
  ASSUME NEW m \in Msgs
  PROVE  /\ m \in excused => Fate[m] = "exposed"
         /\ m \notin excused /\ Live(m) =>
              Fate[m] = IF runs[m] = 0 THEN "taken" ELSE "asked"
         /\ m \notin excused /\ ~Live(m) =>
              Fate[m] = IF m \in ended THEN "closed"
                        ELSE IF m \in lost THEN "gone" ELSE "new"
  BY DEF Fate, Live

LEMMA NextFateIs ==
  ASSUME NEW m \in Msgs
  PROVE  /\ m \in excused' => Fate'[m] = "exposed"
         /\ m \notin excused' /\ Live(m)' =>
              Fate'[m] = IF runs'[m] = 0 THEN "taken" ELSE "asked"
         /\ m \notin excused' /\ ~Live(m)' =>
              Fate'[m] = IF m \in ended' THEN "closed"
                         ELSE IF m \in lost' THEN "gone" ELSE "new"
  BY DEF Fate, Live

LEMMA SameFate ==
  ASSUME NEW m \in Msgs,
         \/ m \in excused /\ m \in excused'
         \/ /\ m \in excused' <=> m \in excused
            /\ Live(m)' <=> Live(m)
            /\ runs'[m] = runs[m]
            /\ m \in ended' <=> m \in ended
            /\ m \in lost' <=> m \in lost
  PROVE  Fate'[m] = Fate[m]
  BY FateIs, NextFateIs

LEMMA FateUnchanged ==
  ASSUME \A x \in Msgs : Fate'[x] = Fate[x]
  PROVE  Fate' = Fate
  <1>1. Fate = [x \in Msgs |-> Fate[x]] /\ Fate' = [x \in Msgs |-> Fate'[x]]
    BY DEF Fate
  <1> QED
    BY <1>1

LEMMA OneTurns ==
  ASSUME NEW m \in Msgs, \A x \in Msgs \ {m} : Fate'[x] = Fate[x]
  PROVE  Fate' = [Fate EXCEPT ![m] = Fate'[m]]
  <1>1. Fate = [x \in Msgs |-> Fate[x]] /\ Fate' = [x \in Msgs |-> Fate'[x]]
    BY DEF Fate
  <1> QED
    BY <1>1

\* A step that shows at most in that a message is excused.
LEMMA Unseen ==
  ASSUME UNCHANGED <<runs, ended, lost>>, \A m \in Msgs : Live(m)' <=> Live(m),
         excused' = excused \/ \E m \in Msgs : excused' = excused \cup {m}
  PROVE  Delivers
  <1>1. CASE excused' = excused
    <2>1. Fate' = Fate
      BY <1>1, SameFate, FateUnchanged
    <2> QED
      BY <2>1 DEF Delivers, Delivery!vars
  <1>2. ASSUME NEW m \in Msgs, excused' = excused \cup {m} PROVE Delivers
    <2>1. \A x \in Msgs \ {m} : Fate'[x] = Fate[x]
      BY <1>2, SameFate
    <2>2. Fate'[m] = "exposed"
      BY <1>2, NextFateIs
    <2>3. Delivery!Expose(m)
      BY <2>1, <2>2, OneTurns DEF Delivery!Expose
    <2> QED
      BY <2>3 DEF Delivers, Delivery!Next
  <1> QED
    BY <1>1, <1>2

LEMMA StaysPutDelivers ==
  ASSUME StaysPut, excused' = excused \/ \E m \in Msgs : excused' = excused \cup {m}
  PROVE  Delivers
  <1>1. \A m \in Msgs : Live(m)' <=> Live(m)
    BY InQueueIs DEF StaysPut, Live, InHand, Beyond
  <1> QED
    BY <1>1, Unseen DEF StaysPut

-----------------------------------------------------------------------------
(* Every step is one of MessageDelivery's, or does not show.               *)

LEMMA BeforePushDelivers ==
  ASSUME DInv,
         \/ \E h \in Calls : \/ CheckPasses(h) \/ CheckFails(h) \/ Skip(h) \/ Gate(h)
                             \/ \E m \in Msgs : Deliver(h, m)
         \/ SetStatus \/ Start \/ UNCHANGED vars
  PROVE  Delivers
  <1>1. \A h \in Calls : pc[h] # "idle" => msg[h] \in Msgs
    BY AtWork DEF DInv, IInv, Actors
  <1>2. excused' = excused \/ \E m \in Msgs : excused' = excused \cup {m}
    <2>1. ASSUME NEW h \in Calls, CheckPasses(h) \/ CheckFails(h)
          PROVE  excused' = excused \/ \E m \in Msgs : excused' = excused \cup {m}
      BY <1>1, <2>1 DEF CheckPasses, CheckFails, Fault
    <2> QED
      BY <2>1 DEF Skip, Gate, Deliver, SetStatus, Start, NoFault, history, vars
  <1> QED
    BY <1>2, QuietStaysPut, StaysPutDelivers

LEMMA MarkDelivers ==
  ASSUME NEW h \in Calls, DInv, Mark(h) PROVE Delivers
  <1>0. msg[h] \in Msgs /\ h \in Actors
    BY AtWork DEF Mark, DInv, IInv, Actors
  <1>1. /\ pc[h] = "mark" /\ pc'[h] = "push" /\ msg' = msg
        /\ \A b \in Actors \ {h} : pc'[b] = pc[b]
        /\ excused' = excused \/ excused' = excused \cup {msg[h]}
        /\ UNCHANGED <<queue, runs, ended, lost>>
    BY <1>0 DEF Mark, Fault, NoFault, GoTo, DInv, IInv, TypeOK
  <1>2. \A m \in Msgs : Live(m)' <=> Live(m)
    BY <1>0, <1>1, InQueueIs DEF Live, InHand
  <1> QED
    BY <1>0, <1>1, <1>2, Unseen

\* Who queues a message the check protects takes it over.
LEMMA PushDelivers ==
  ASSUME NEW h \in Calls, DInv, Push(h) PROVE Delivers
  <1> DEFINE m == msg[h]
  <1>0. m \in Msgs /\ h \in Actors /\ h \notin Workers /\ queue \in Seq(Msgs)
    BY AtWork, FeishuAssumption DEF Push, DInv, IInv, TypeOK, Actors
  <1>1. /\ pc[h] = "push" /\ pc'[h] = "idle"
        /\ \A b \in Actors \ {h} : pc'[b] = pc[b] /\ msg'[b] = msg[b]
        /\ queue' = Append(queue, m)
        /\ UNCHANGED <<excused, runs, ended, lost>>
    BY <1>0 DEF Push, Finish, NoFault, DInv, IInv, TypeOK
  <1>2. \A x \in Msgs : /\ x # m => (Live(x)' <=> Live(x))
                        /\ x = m => Live(x)'
    BY <1>0, <1>1, InQueueIs, AppendFacts DEF Live, InHand
  <1>3. \A x \in Msgs \ {m} : Fate'[x] = Fate[x]
    BY <1>1, <1>2, SameFate
  <1>4. CASE m \in excused
    <2>1. Fate'[m] = Fate[m]
      BY <1>0, <1>1, <1>4, SameFate
    <2> QED
      BY <1>1, <1>3, <2>1, FateUnchanged DEF Delivers, Delivery!vars
  <1>5. CASE m \notin excused
    <2>1. /\ ~Occurs(queue, m) /\ m \notin ended \cup lost /\ runs[m] = 0
          /\ \A b \in Actors : pc[b] \in Beyond /\ msg[b] = m => h = b
      BY <1>0, <1>1, <1>5, Alone DEF DInv, Beyond, Pending
    <2>2. ~Live(m)
      BY <1>1, <2>1, InQueueIs DEF Live, InHand, Beyond
    <2>3. Fate[m] = "new"
      BY <1>0, <1>5, <2>1, <2>2, FateIs
    <2>4. Fate'[m] = "taken"
      <3>1. \A x \in Msgs : x = m => Fate'[x] = "taken"
        BY <1>1, <1>2, <1>5, <2>1, NextFateIs
      <3> QED
        BY <1>0, <3>1
    <2>5. Delivery!TakeOver(m)
      BY <1>0, <1>1, <1>3, <2>3, <2>4, OneTurns DEF Delivery!TakeOver, Delivery!Turn
    <2> QED
      BY <1>0, <2>5 DEF Delivers, Delivery!Next
  <1> QED
    BY <1>4, <1>5

LEMMA PushFailsDelivers ==
  ASSUME NEW h \in Calls, DInv, PushFails(h) PROVE Delivers
  <1> DEFINE m == msg[h]
  <1>0. m \in Msgs /\ h \in Actors /\ queue \in Seq(Msgs)
    BY AtWork DEF PushFails, DInv, IInv, TypeOK, Actors
  <1>1. /\ pc[h] = "push" /\ pc'[h] = "bind" /\ msg' = msg
        /\ \A b \in Actors \ {h} : pc'[b] = pc[b]
        /\ queue' \in {queue, Append(queue, m)}
        /\ excused' = excused \cup {m}
        /\ UNCHANGED <<runs, ended, lost>>
    BY <1>0 DEF PushFails, Fault, NoFault, GoTo, OnlyWorkers, DInv, IInv, TypeOK
  <1>2. \A x \in Msgs \ {m} : Live(x)' <=> Live(x)
    <2>1. CASE queue' = queue
      BY <1>0, <1>1, <2>1, InQueueIs DEF Live, InHand
    <2>2. CASE queue' = Append(queue, m)
      BY <1>0, <1>1, <2>2, InQueueIs, AppendFacts DEF Live, InHand
    <2> QED
      BY <1>1, <2>1, <2>2
  <1>3. \A x \in Msgs \ {m} : Fate'[x] = Fate[x]
    BY <1>1, <1>2, SameFate
  <1>4. Fate'[m] = "exposed"
    BY <1>0, <1>1, NextFateIs
  <1>5. Delivery!Expose(m)
    BY <1>0, <1>1, <1>3, <1>4, OneTurns DEF Delivery!Expose
  <1> QED
    BY <1>0, <1>5 DEF Delivers, Delivery!Next

\* From the queue into a worker's hands: the message is taken over already.
LEMMA PopDelivers ==
  ASSUME NEW w \in Workers, DInv, Pop(w) PROVE Delivers
  <1>0. w \in Actors /\ queue \in Seq(Msgs) /\ queue # <<>>
    BY DEF Pop, DInv, IInv, TypeOK, Actors
  <1>1. /\ pc[w] = "idle" /\ pc'[w] = "bind" /\ msg'[w] = Head(queue)
        /\ \A b \in Actors \ {w} : pc'[b] = pc[b] /\ msg'[b] = msg[b]
        /\ queue' = Tail(queue)
        /\ UNCHANGED <<excused, runs, ended, lost>>
    BY <1>0 DEF Pop, DInv, IInv, TypeOK, history
  <1>2. \A m \in Msgs : Live(m)' <=> Live(m)
    <2>1. \A m : /\ Occurs(queue, m) <=> Occurs(queue', m) \/ m = Head(queue)
                 /\ InHand(m)' <=> InHand(m) \/ m = Head(queue)
      <3>1. \A m : InHand(m)' <=> InHand(m) \/ m = Head(queue)
        BY <1>0, <1>1 DEF InHand
      <3> QED
        BY <1>0, <1>1, <3>1, TailFacts, TailKeeps
    <2> QED
      BY <2>1, InQueueIs DEF Live
  <1> QED
    BY <1>1, <1>2, Unseen

LEMMA PopFailsDelivers ==
  ASSUME NEW w \in Workers, DInv, PopFails(w) PROVE Delivers
  <1>0. /\ queue \in Seq(Msgs)
        /\ UNCHANGED <<excused, pc, msg, runs, ended>>
    BY DEF PopFails, actors, DInv, IInv, TypeOK
  <1>1. CASE UNCHANGED <<queue, lost>>
    <2>1. \A m \in Msgs : Live(m)' <=> Live(m)
      BY <1>0, <1>1, InQueueIs DEF Live, InHand
    <2> QED
      BY <1>0, <1>1, <2>1, Unseen
  <1>2. CASE queue # <<>> /\ queue' = Tail(queue) /\ lost' = lost \cup {Head(queue)}
    <2>1. PICK m \in Msgs : m = Head(queue)
      BY <1>0, <1>2, TailFacts
    <2>2. /\ Occurs(queue, m) /\ (Single(queue, m) => ~Occurs(queue', m))
          /\ \A x : x # m => (Occurs(queue', x) <=> Occurs(queue, x))
          /\ lost' = lost \cup {m}
      BY <1>0, <1>2, <2>1, TailFacts, TailKeeps
    <2>3. \A x \in Msgs \ {m} : Fate'[x] = Fate[x]
      <3>1. \A x \in Msgs \ {m} : Live(x)' <=> Live(x)
        BY <1>0, <2>2, InQueueIs DEF Live, InHand
      <3> QED
        BY <1>0, <2>2, <3>1, SameFate
    <2>4. CASE m \in excused
      <3>1. Fate'[m] = Fate[m]
        BY <1>0, <2>4, SameFate
      <3> QED
        BY <1>0, <2>3, <3>1, FateUnchanged DEF Delivers, Delivery!vars
    <2>5. CASE m \notin excused
      <3>1. /\ m \notin ended /\ runs[m] = 0 /\ Single(queue, m)
            /\ \A a \in Actors : msg[a] = m => pc[a] \notin Beyond
        BY <2>2, <2>5, Queued DEF DInv, IInv, OnePlace
      <3>2. Live(m) /\ ~Live(m)'
        BY <1>0, <2>2, <3>1, InQueueIs DEF Live, InHand, Beyond
      <3>3. Fate[m] = "taken" /\ Fate'[m] = "gone"
        BY <1>0, <2>2, <2>5, <3>1, <3>2, FateIs, NextFateIs
      <3>4. Fate' = [x \in Msgs |-> IF x \in {m} THEN "gone" ELSE Fate[x]]
        BY <2>3, <3>3 DEF Fate
      <3>5. Delivery!Lose({m})
        BY <1>0, <3>3, <3>4 DEF Delivery!Lose
      <3> QED
        BY <3>5 DEF Delivers, Delivery!Next
    <2> QED
      BY <2>4, <2>5
  <1> QED
    BY <1>1, <1>2 DEF PopFails

\* An actor that is through with a message, which may be an excused one, and
\* then, unless it is, the actor is a worker and was alone with the message.
LEMMA FinishDelivers ==
  ASSUME NEW a \in Actors, DInv, pc[a] \in {"bind", "reply"},
         pc' = [pc EXCEPT ![a] = "idle"], msg' = [msg EXCEPT ![a] = None],
         ended' = IF a \in Workers THEN ended \cup {msg[a]} ELSE ended,
         UNCHANGED <<queue, excused, runs, lost>>
  PROVE  Delivers
  <1> DEFINE m == msg[a]
  <1>0. m \in Msgs /\ pc[a] \in Beyond
    BY AtWork DEF DInv, IInv, Beyond
  <1>1. /\ pc'[a] = "idle"
        /\ \A b \in Actors \ {a} : pc'[b] = pc[b] /\ msg'[b] = msg[b]
    BY DEF DInv, IInv, TypeOK
  <1>2. \A x \in Msgs \ {m} : Fate'[x] = Fate[x]
    <2>1. \A x \in Msgs \ {m} : Live(x)' <=> Live(x)
      BY <1>1, InQueueIs DEF Live, InHand
    <2> QED
      BY <2>1, SameFate
  <1>3. CASE m \in excused
    <2>1. Fate'[m] = Fate[m]
      BY <1>0, <1>3, SameFate
    <2> QED
      BY <1>2, <2>1, FateUnchanged DEF Delivers, Delivery!vars
  <1>4. CASE m \notin excused
    <2>1. /\ a \in Workers /\ ~Occurs(queue, m)
          /\ \A b \in Actors : pc[b] \in Beyond /\ msg[b] = m => a = b
      BY <1>0, <1>4, Alone DEF DInv, OnlyWorkers, Actors
    <2>2. Live(m)
      BY DEF Live, InHand
    <2>3. \A x : x = m => ~Live(x)'
      BY <1>1, <2>1, InQueueIs DEF Live, InHand, Beyond
    <2>4. Fate[m] \in {"taken", "asked"}
      BY <1>0, <1>4, <2>2, FateIs
    <2>5. Fate'[m] = "closed"
      <3>1. \A x \in Msgs : x = m => Fate'[x] = "closed"
        BY <1>4, <2>1, <2>3, NextFateIs
      <3> QED
        BY <1>0, <3>1
    <2>6. Delivery!Close(m)
      BY <1>0, <1>2, <2>4, <2>5, OneTurns DEF Delivery!Close, Delivery!Turn
    <2> QED
      BY <1>0, <2>6 DEF Delivers, Delivery!Next
  <1> QED
    BY <1>3, <1>4

LEMMA BindDelivers ==
  ASSUME NEW a \in Actors, DInv, Bind(a) PROVE Delivers
  <1> DEFINE m == msg[a]
  <1>0. m \in Msgs /\ pc[a] = "bind"
    BY AtWork DEF Bind, DInv, IInv
  <1>1. CASE \E err \in BOOLEAN : Finish(a, err) /\ UNCHANGED runs
    BY <1>0, <1>1, FinishDelivers DEF Bind, Finish, redis
  <1>2. CASE runs' = [runs EXCEPT ![m] = @ + 1] /\ GoTo(a, "reply") /\ UNCHANGED ended
    <2>1. /\ runs \in [Msgs -> Nat]
          /\ pc'[a] = "reply" /\ msg' = msg
          /\ \A b \in Actors \ {a} : pc'[b] = pc[b]
          /\ UNCHANGED <<queue, excused, ended, lost>>
      BY <1>2 DEF Bind, GoTo, redis, DInv, IInv, TypeOK
    <2>2. \A x \in Msgs : Live(x)' <=> Live(x)
      BY <1>0, <2>1, InQueueIs DEF Live, InHand
    <2>3. \A x \in Msgs \ {m} : Fate'[x] = Fate[x]
      BY <1>2, <2>1, <2>2, SameFate
    <2>4. CASE m \in excused
      <3>1. Fate'[m] = Fate[m] /\ Fate[m] = "exposed"
        BY <1>0, <2>1, <2>4, SameFate, FateIs
      <3>2. Delivery!Ask(m)
        BY <1>2, <2>3, <3>1, FateUnchanged DEF Delivery!Ask
      <3> QED
        BY <1>0, <3>2 DEF Delivers, Delivery!Next
    <2>5. CASE m \notin excused
      <3>1. runs[m] = 0
        BY <1>0, <2>5, Alone DEF DInv, Beyond, Pending
      <3>2. Fate[m] = "taken"
        BY <1>0, <2>5, <3>1, FateIs DEF Live, InHand
      <3>3. Fate'[m] = "asked"
        <4>1. \A x \in Msgs : x = m => Live(x)' /\ runs'[x] # 0
          BY <1>0, <1>2, <2>1, <2>2, <3>1 DEF Live, InHand
        <4>2. \A x \in Msgs : x = m => Fate'[x] = "asked"
          BY <2>1, <2>5, <4>1, NextFateIs
        <4> QED
          BY <1>0, <4>2
      <3>4. Delivery!Ask(m)
        BY <1>0, <1>2, <2>3, <3>2, <3>3, OneTurns DEF Delivery!Ask, Delivery!Turn
      <3> QED
        BY <1>0, <3>4 DEF Delivers, Delivery!Next
    <2> QED
      BY <2>4, <2>5
  <1> QED
    BY <1>1, <1>2 DEF Bind

LEMMA ReplyUserDelivers ==
  ASSUME NEW a \in Actors, DInv, ReplyUser(a) PROVE Delivers
  BY FinishDelivers DEF ReplyUser, Finish, redis

LEMMA RestDelivers ==
  ASSUME DInv, Construct \/ \E m \in Msgs : Expire(m) PROVE Delivers
  <1>1. UNCHANGED <<queue, pc, msg, runs, ended, lost>>
    BY DEF Construct, Expire, redis, actors
  <1>2. \A m \in Msgs : Live(m)' <=> Live(m)
    BY <1>1, InQueueIs DEF Live, InHand
  <1>3. excused' = excused \/ \E m \in Msgs : excused' = excused \cup {m}
    BY DEF Construct, Expire
  <1> QED
    BY <1>1, <1>2, <1>3, Unseen

\* What dies with the process were lives, each in the hands of a worker.
LEMMA DieDelivers ==
  ASSUME DInv, Die PROVE Delivers
  <1> DEFINE S == AtHand \ excused
  <1>0. /\ \A a \in Actors : pc'[a] = "idle" /\ msg'[a] = None
        /\ lost' = lost \cup AtHand
        /\ UNCHANGED <<queue, runs, ended, excused>>
    BY DEF Die, AtHand, redis
  <1>1. /\ S \subseteq Msgs
        /\ \A m \in S : /\ Live(m) /\ ~Occurs(queue, m)
                        /\ m \notin ended
    <2> SUFFICES ASSUME NEW w \in Workers, pc[w] # "idle", msg[w] \notin excused
                 PROVE  /\ msg[w] \in Msgs /\ InHand(msg[w])
                        /\ ~Occurs(queue, msg[w]) /\ msg[w] \notin ended
      BY DEF AtHand, Live
    <2>1. w \in Actors /\ pc[w] \in {"bind", "reply"}
      BY DEF DInv, IInv, TypeOK, Actors
    <2> QED
      BY <2>1, Alone DEF DInv, InHand, Beyond
  <1>2. \A m \in S : Fate[m] \in {"taken", "asked"}
    BY <1>1, FateIs
  <1>3. \A m \in S : ~Live(m)'
    BY <1>0, <1>1, InQueueIs, FeishuAssumption DEF Live, InHand
  <1>4. \A m \in S : Fate'[m] = "gone"
    BY <1>0, <1>1, <1>3, NextFateIs
  <1>5. \A x \in Msgs \ S : Fate'[x] = Fate[x]
    <2> SUFFICES ASSUME NEW x \in Msgs \ S, x \notin excused PROVE Fate'[x] = Fate[x]
      BY <1>0, SameFate
    <2>1. ~InHand(x)
      <3> SUFFICES ASSUME NEW h \in Calls, pc[h] \in {"bind", "reply"}, msg[h] = x
                   PROVE  FALSE
        BY DEF InHand, AtHand, Actors
      <3> QED
        BY DEF DInv, OnlyWorkers
    <2>2. Live(x)' <=> Live(x)
      BY <1>0, <2>1, InQueueIs DEF Live, InHand
    <2> QED
      BY <1>0, <2>2, SameFate
  <1> HIDE DEF S
  <1>6. Fate' = [x \in Msgs |-> IF x \in S THEN "gone" ELSE Fate[x]]
    <2>1. Fate' = [x \in Msgs |-> Fate'[x]]
      BY DEF Fate
    <2> QED
      BY <1>4, <1>5, <2>1
  <1>7. Delivery!Lose(S)
    BY <1>0, <1>2, <1>6 DEF Delivery!Lose
  <1>8. S \in SUBSET Msgs
    BY <1>1 DEF S
  <1> QED
    BY <1>7, <1>8 DEF Delivers, Delivery!Next

LEMMA StepDelivers == DInv /\ [Next]_vars => Delivers
  <1> SUFFICES ASSUME DInv, [Next]_vars PROVE Delivers
    OBVIOUS
  <1>1. ASSUME NEW h \in Calls, Call(h) \/ \E m \in Msgs : Deliver(h, m) PROVE Delivers
    BY <1>1, BeforePushDelivers, MarkDelivers, PushDelivers, PushFailsDelivers,
       BindDelivers, ReplyUserDelivers DEF Call, Actors
  <1>2. ASSUME NEW w \in Workers, Work(w) \/ PopFails(w) PROVE Delivers
    BY <1>2, PopDelivers, BindDelivers, ReplyUserDelivers, DieDelivers,
       PopFailsDelivers DEF Work, Panic, Actors
  <1>3. ASSUME Construct \/ Start \/ Environment \/ UNCHANGED vars PROVE Delivers
    BY <1>3, RestDelivers, BeforePushDelivers, DieDelivers DEF Environment, Crash
  <1> QED
    BY <1>1, <1>2, <1>3 DEF Next

\* Whatever the platform sends again, whatever fails and whenever the process
\* dies: a message the check for duplicates protects is taken over once, is
\* asked about once at most, and does not come back from its end or its loss.
THEOREM OneLife == Spec => ImplementsDelivery
  <1>1. Init => Delivery!Init
    <2> SUFFICES ASSUME Init PROVE Delivery!Init
      OBVIOUS
    <2>1. \A m \in Msgs : ~InQueue(m) /\ ~InHand(m)
      BY DEF Init, InQueue, InHand
    <2> QED
      BY <2>1 DEF Init, Fate, Delivery!Init
  <1>2. DInv /\ [Next]_vars => [Delivery!Next]_(Delivery!vars)
    BY StepDelivers DEF Delivers
  <1> QED
    BY SpecDInv, <1>1, <1>2, PTL DEF Spec, ImplementsDelivery, Delivery!Spec
=============================================================================
