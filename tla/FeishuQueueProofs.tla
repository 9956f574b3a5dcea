-------------------------- MODULE FeishuQueueProofs --------------------------
(***************************************************************************)
(* The proofs about FeishuQueue, for any messages, calls and workers and   *)
(* any number of deliveries, faults and crashes.                           *)
(*                                                                         *)
(* AskedOnce is about a counter; why it holds is where a message may be.   *)
(* A message the check protects is in one place at a time: with the one    *)
(* call that has passed the check and has not marked it, or, from its mark *)
(* on, in the queue or with one actor that has not asked the agent yet, or *)
(* it was asked.  Its mark, which no crash takes away, keeps later calls   *)
(* from passing the check.                                                 *)
(***************************************************************************)
EXTENDS FeishuQueue, TLAPS

Passed == {"gate", "mark"}
Pending == {"push", "bind"}

\* The message is in the queue; it is there once at most.
Occurs(q, m) == \E i \in DOMAIN q : q[i] = m
Single(q, m) == \A i, j \in DOMAIN q : q[i] = m /\ q[j] = m => i = j

\* A dead process does nothing, and no call is served before HTTP is.
Quiet ==
  /\ stage = "down" => \A a \in Actors : pc[a] = "idle"
  /\ stage # "serving" => \A h \in Calls : pc[h] = "idle"

\* What a process that is not ready has in hand, an earlier one left behind.
Backlogged ==
  /\ stage \in {"built", "wired"} =>
       /\ \A m \in Msgs : Occurs(queue, m) => m \in backlog
       /\ \A w \in Workers : pc[w] # "idle" => msg[w] \in backlog
  /\ wasted \subseteq backlog

\* What was marked or is about to be has a sender; what came after it is marked.
MarkedFirst ==
  /\ \A h \in Calls : pc[h] = "mark" => msg[h] \notin Anonymous
  /\ \A a \in Actors :
       pc[a] \in {"push", "bind", "reply"} =>
         msg[a] \notin Anonymous /\ msg[a] \in marked \cup excused
  /\ \A m \in Msgs :
       Occurs(queue, m) \/ runs[m] > 0 => m \notin Anonymous /\ m \in marked \cup excused

\* A call that passed the check with a message it protects is alone with it.
PassedAlone ==
  \A h \in Calls :
    pc[h] \in Passed /\ msg[h] \notin excused =>
      /\ hasRedis /\ msg[h] \notin NoMsgId /\ msg[h] \notin marked
      /\ \A g \in Calls : pc[g] \in Passed /\ msg[g] = msg[h] => g = h

\* A message the check protects is in one place, or was asked.
OnePlace ==
  \A m \in Msgs \ excused :
    /\ runs[m] <= 1 /\ Single(queue, m)
    /\ Occurs(queue, m) => runs[m] = 0
    /\ \A a \in Actors :
         pc[a] \in Pending /\ msg[a] = m =>
           /\ runs[m] = 0 /\ ~Occurs(queue, m)
           /\ \A b \in Actors : pc[b] \in Pending /\ msg[b] = m => a = b

IInv == TypeOK /\ Quiet /\ Backlogged /\ MarkedFirst /\ PassedAlone /\ OnePlace

-----------------------------------------------------------------------------
(* The queue.                                                              *)

LEMMA AppendFacts ==
  ASSUME NEW q \in Seq(Msgs), NEW x \in Msgs
  PROVE  /\ Append(q, x) \in Seq(Msgs)
         /\ \A m : Occurs(Append(q, x), m) <=> Occurs(q, m) \/ m = x
         /\ \A m : Single(q, m) /\ ~(m = x /\ Occurs(q, m)) => Single(Append(q, x), m)
  <1>1. /\ Append(q, x) \in Seq(Msgs) /\ DOMAIN q = 1..Len(q) /\ Len(q) \in Nat
        /\ DOMAIN Append(q, x) = 1..(Len(q) + 1)
        /\ \A i \in 1..Len(q) : Append(q, x)[i] = q[i]
        /\ Append(q, x)[Len(q) + 1] = x
    OBVIOUS
  <1>2. \A m : Occurs(Append(q, x), m) <=> Occurs(q, m) \/ m = x
    BY <1>1 DEF Occurs
  <1>3. \A m : Single(q, m) /\ ~(m = x /\ Occurs(q, m)) => Single(Append(q, x), m)
    BY <1>1 DEF Occurs, Single
  <1> QED
    BY <1>1, <1>2, <1>3

LEMMA TailFacts ==
  ASSUME NEW q \in Seq(Msgs), q # <<>>
  PROVE  /\ Tail(q) \in Seq(Msgs) /\ Head(q) \in Msgs /\ Occurs(q, Head(q))
         /\ \A m : Occurs(Tail(q), m) => Occurs(q, m)
         /\ \A m : Single(q, m) => Single(Tail(q), m)
         /\ Single(q, Head(q)) => ~Occurs(Tail(q), Head(q))
  <1>1. /\ Tail(q) \in Seq(Msgs) /\ DOMAIN q = 1..Len(q) /\ Len(q) \in Nat \ {0}
        /\ DOMAIN Tail(q) = 1..(Len(q) - 1)
        /\ \A i \in 1..(Len(q) - 1) : Tail(q)[i] = q[i + 1]
        /\ Head(q) = q[1] /\ Head(q) \in Msgs
    OBVIOUS
  <1>2. Occurs(q, Head(q))
    BY <1>1 DEF Occurs
  <1>3. \A m : Occurs(Tail(q), m) => Occurs(q, m)
    BY <1>1 DEF Occurs
  <1>4. \A m : Single(q, m) => Single(Tail(q), m)
    BY <1>1 DEF Single
  <1>5. Single(q, Head(q)) => ~Occurs(Tail(q), Head(q))
    BY <1>1 DEF Occurs, Single
  <1> QED
    BY <1>1, <1>2, <1>3, <1>4, <1>5

LEMMA InitIInv == Init => IInv
  <1> SUFFICES ASSUME Init PROVE IInv
    OBVIOUS
  <1> USE FeishuAssumption DEF Init
  <1>1. TypeOK
    <2>1. pc \in [Actors -> Labels] /\ msg \in [Actors -> Msgs \cup {None}]
      BY DEF Labels
    <2>2. /\ \A a \in Actors : pc[a] = "idle" <=> msg[a] = None
          /\ \A w \in Workers : pc[w] \in {"idle", "bind", "reply"}
      BY DEF Actors
    <2>3. delivered \in [Msgs -> 0..MaxDeliveries] /\ runs \in [Msgs -> Nat]
      OBVIOUS
    <2>4. queue \in Seq(Msgs) /\ faults \in 0..MaxFaults /\ crashes \in 0..MaxCrashes
      OBVIOUS
    <2> QED
      BY <2>1, <2>2, <2>3, <2>4 DEF TypeOK
  <1>2. \A m : ~Occurs(queue, m) /\ Single(queue, m)
    BY DEF Occurs, Single
  <1>3. Quiet /\ Backlogged /\ MarkedFirst /\ PassedAlone /\ OnePlace
    BY <1>2 DEF Quiet, Backlogged, MarkedFirst, PassedAlone, OnePlace, Passed, Pending, Actors
  <1> QED
    BY <1>1, <1>3 DEF IInv

\* An actor at work has a message in hand.
LEMMA AtWork ==
  ASSUME TypeOK, NEW a \in Actors, pc[a] # "idle"
  PROVE  msg[a] \in Msgs
  BY DEF TypeOK
-----------------------------------------------------------------------------
(* The webhook's steps.                                                    *)

LEMMA DeliverKeeps ==
  ASSUME NEW h \in Calls, NEW m \in Msgs, IInv, Deliver(h, m) PROVE IInv'
  <1> USE FeishuAssumption
        DEF IInv, Deliver, process, redis, platform, history, bounds, boots
  <1>1. TypeOK'
    BY DEF TypeOK, Actors, Labels
  <1>2. Quiet'
    BY DEF TypeOK, Quiet, Actors
  <1>3. Backlogged'
    BY DEF TypeOK, Quiet, Backlogged, Actors
  <1>4. MarkedFirst'
    BY DEF TypeOK, MarkedFirst, PassedAlone, Passed, Actors
  <1>5. PassedAlone'
    BY DEF TypeOK, MarkedFirst, PassedAlone, Passed, Actors
  <1>6. OnePlace'
    BY DEF TypeOK, MarkedFirst, PassedAlone, OnePlace, Passed, Pending, Actors
  <1> QED
    BY <1>1, <1>2, <1>3, <1>4, <1>5, <1>6

\* What passes has no mark, and no other call has it, or it is excused.
LEMMA CheckPassesKeeps ==
  ASSUME NEW h \in Calls, IInv, CheckPasses(h) PROVE IInv'
  <1> USE FeishuAssumption
        DEF IInv, CheckPasses, Overlaps, GoTo, process, redis, platform, history, bounds, boots
  <1>0. msg[h] \in Msgs
    BY AtWork DEF Actors
  <1>1. TypeOK'
    BY <1>0 DEF TypeOK, Actors, Labels
  <1>2. Quiet'
    BY <1>0 DEF TypeOK, Quiet, Actors
  <1>3. Backlogged'
    BY <1>0 DEF TypeOK, Quiet, Backlogged, Actors
  <1>4. MarkedFirst'
    BY <1>0 DEF TypeOK, MarkedFirst, PassedAlone, Passed, Actors
  <1>5. PassedAlone'
    BY <1>0 DEF TypeOK, MarkedFirst, PassedAlone, Passed, Actors
  <1>6. OnePlace'
    BY <1>0 DEF TypeOK, MarkedFirst, PassedAlone, OnePlace, Passed, Pending, Actors
  <1> QED
    BY <1>1, <1>2, <1>3, <1>4, <1>5, <1>6

LEMMA CheckFailsKeeps ==
  ASSUME NEW h \in Calls, IInv, CheckFails(h) PROVE IInv'
  <1> USE FeishuAssumption
        DEF IInv, CheckFails, Fault, GoTo, process, redis, platform, history, bounds, boots
  <1>0. msg[h] \in Msgs
    BY AtWork DEF Actors
  <1>1. TypeOK'
    BY <1>0 DEF TypeOK, Actors, Labels
  <1>2. Quiet'
    BY <1>0 DEF TypeOK, Quiet, Actors
  <1>3. Backlogged'
    BY <1>0 DEF TypeOK, Quiet, Backlogged, Actors
  <1>4. MarkedFirst'
    BY <1>0 DEF TypeOK, MarkedFirst, PassedAlone, Passed, Actors
  <1>5. PassedAlone'
    BY <1>0 DEF TypeOK, MarkedFirst, PassedAlone, Passed, Actors
  <1>6. OnePlace'
    BY <1>0 DEF TypeOK, MarkedFirst, PassedAlone, OnePlace, Passed, Pending, Actors
  <1> QED
    BY <1>1, <1>2, <1>3, <1>4, <1>5, <1>6

LEMMA SkipKeeps ==
  ASSUME NEW h \in Calls, IInv, Skip(h) PROVE IInv'
  <1> USE FeishuAssumption
        DEF IInv, Skip, Finish, NoFault, process, redis, platform, history, bounds, boots
  <1>0. msg[h] \in Msgs
    BY AtWork DEF Actors
  <1>1. TypeOK'
    BY <1>0 DEF TypeOK, Actors, Labels
  <1>2. Quiet'
    BY <1>0 DEF TypeOK, Quiet, Actors
  <1>3. Backlogged'
    BY <1>0 DEF TypeOK, Quiet, Backlogged, Actors
  <1>4. MarkedFirst'
    BY <1>0 DEF TypeOK, MarkedFirst, PassedAlone, Passed, Actors
  <1>5. PassedAlone'
    BY <1>0 DEF TypeOK, MarkedFirst, PassedAlone, Passed, Actors
  <1>6. OnePlace'
    BY <1>0 DEF TypeOK, MarkedFirst, PassedAlone, OnePlace, Passed, Pending, Actors
  <1> QED
    BY <1>1, <1>2, <1>3, <1>4, <1>5, <1>6

LEMMA GateKeeps ==
  ASSUME NEW h \in Calls, IInv, Gate(h) PROVE IInv'
  <1> USE FeishuAssumption DEF IInv, process, redis, bounds, boots
  <1>0. msg[h] \in Msgs
    BY AtWork DEF Actors, Gate
  <1>a. /\ pc[h] = "gate"
        /\ \/ pc' = [pc EXCEPT ![h] = "idle"] /\ msg' = [msg EXCEPT ![h] = None]
           \/ pc' = [pc EXCEPT ![h] = "mark"] /\ msg' = msg
        /\ UNCHANGED <<hasRedis, marked, queue, runs, excused>>
    BY DEF Gate, Finish, GoTo
  <1>1. TypeOK'
    BY <1>0 DEF TypeOK, Actors, Labels, Gate, Finish, GoTo
  <1>2. Quiet'
    BY <1>0 DEF TypeOK, Quiet, Actors, Gate, Finish, GoTo
  <1>3. Backlogged'
    BY <1>0 DEF TypeOK, Quiet, Backlogged, Actors, Gate, Finish, GoTo
  <1>4. MarkedFirst'
    BY <1>0 DEF TypeOK, MarkedFirst, Actors, Gate, Finish, GoTo
  <1>5. PassedAlone'
    <2>1. CASE pc' = [pc EXCEPT ![h] = "idle"] /\ msg' = [msg EXCEPT ![h] = None]
      BY <1>0, <1>a, <2>1 DEF TypeOK, PassedAlone, Passed, Actors
    <2>2. CASE pc' = [pc EXCEPT ![h] = "mark"] /\ msg' = msg
      BY <1>0, <1>a, <2>2 DEF TypeOK, PassedAlone, Passed, Actors
    <2> QED
      BY <1>a, <2>1, <2>2
  <1>6. OnePlace'
    <2>1. \A a \in Actors : pc'[a] \in Pending => pc[a] \in Pending /\ msg'[a] = msg[a]
      BY <1>a DEF TypeOK, Pending, Actors
    <2> QED
      BY <1>a, <2>1 DEF OnePlace
  <1> QED
    BY <1>1, <1>2, <1>3, <1>4, <1>5, <1>6

\* The call was alone with the message, and leaves it marked or excused.
LEMMA MarkKeeps ==
  ASSUME NEW h \in Calls, IInv, Mark(h) PROVE IInv'
  <1> USE FeishuAssumption
        DEF IInv, Mark, Fault, NoFault, GoTo, process, redis, platform, history, bounds, boots
  <1>0. msg[h] \in Msgs
    BY AtWork DEF Actors
  <1>1. TypeOK'
    BY <1>0 DEF TypeOK, Actors, Labels
  <1>2. Quiet'
    BY <1>0 DEF TypeOK, Quiet, Actors
  <1>3. Backlogged'
    BY <1>0 DEF TypeOK, Quiet, Backlogged, Actors
  <1>4. MarkedFirst'
    BY <1>0 DEF TypeOK, MarkedFirst, PassedAlone, Passed, Actors
  <1>5. PassedAlone'
    BY <1>0 DEF TypeOK, MarkedFirst, PassedAlone, Passed, Actors
  <1>6. OnePlace'
    BY <1>0 DEF TypeOK, MarkedFirst, PassedAlone, OnePlace, Passed, Pending, Actors
  <1> QED
    BY <1>1, <1>2, <1>3, <1>4, <1>5, <1>6

\* The message changes hands: it is in the queue, and the call is through.
LEMMA PushKeeps ==
  ASSUME NEW h \in Calls, IInv, Push(h) PROVE IInv'
  <1> USE FeishuAssumption
        DEF IInv, Push, Finish, NoFault, process, redis, platform, history, bounds, boots
  <1>0. msg[h] \in Msgs
    BY AtWork DEF Actors
  <1>a. queue \in Seq(Msgs)
    BY DEF TypeOK
  <1>1. TypeOK'
    BY <1>0, <1>a, AppendFacts DEF TypeOK, Actors, Labels
  <1>2. Quiet'
    BY <1>0, <1>a, AppendFacts DEF TypeOK, Quiet, Actors
  <1>3. Backlogged'
    BY <1>0, <1>a, AppendFacts DEF TypeOK, Quiet, Backlogged, Actors
  <1>4. MarkedFirst'
    BY <1>0, <1>a, AppendFacts DEF TypeOK, MarkedFirst, PassedAlone, Passed, Actors
  <1>5. PassedAlone'
    BY <1>0, <1>a, AppendFacts DEF TypeOK, MarkedFirst, PassedAlone, Passed, Actors
  <1>6. OnePlace'
    BY <1>0, <1>a, AppendFacts DEF TypeOK, MarkedFirst, PassedAlone, OnePlace, Passed, Pending, Actors
  <1> QED
    BY <1>1, <1>2, <1>3, <1>4, <1>5, <1>6

\* With Redis, the message is excused; without, the queue is left alone.
LEMMA PushFailsKeeps ==
  ASSUME NEW h \in Calls, IInv, PushFails(h) PROVE IInv'
  <1> USE FeishuAssumption DEF IInv, process, redis, platform, bounds, boots
  <1>0. msg[h] \in Msgs /\ queue \in Seq(Msgs)
    BY AtWork DEF Actors, PushFails, TypeOK
  <1>a. /\ pc[h] = "push" /\ pc' = [pc EXCEPT ![h] = "bind"] /\ msg' = msg
        /\ queue' \in {queue, Append(queue, msg[h])}
        /\ \/ excused' = excused /\ queue' = queue
           \/ excused' = excused \cup {msg[h]}
        /\ UNCHANGED <<stage, hasRedis, marked, runs, backlog, wasted>>
    BY DEF PushFails, Fault, NoFault, GoTo
  <1>b. /\ queue' \in Seq(Msgs)
        /\ \A m : Occurs(queue', m) <=> Occurs(queue, m) \/ (queue' # queue /\ m = msg[h])
        /\ \A m : m # msg[h] /\ Single(queue, m) => Single(queue', m)
    <2>1. CASE queue' = queue
      BY <1>0, <2>1
    <2>2. CASE queue' # queue
      <3>1. queue' = Append(queue, msg[h])
        BY <1>a, <2>2
      <3> QED
        BY <1>0, <2>2, <3>1, AppendFacts
    <2> QED
      BY <2>1, <2>2
  <1>1. TypeOK'
    <2>1. faults' \in 0..MaxFaults /\ excused' \subseteq Msgs
      BY <1>0 DEF TypeOK, PushFails, Fault, NoFault
    <2> QED
      BY <1>0, <1>a, <1>b, <2>1 DEF TypeOK, Actors, Labels, PushFails
  <1>2. Quiet'
    BY <1>0, <1>a DEF TypeOK, Quiet, Actors
  <1>3. Backlogged'
    BY <1>0, <1>a DEF TypeOK, Quiet, Backlogged, Actors
  <1>4. MarkedFirst'
    BY <1>0, <1>a, <1>b DEF TypeOK, MarkedFirst, Actors
  <1>5. PassedAlone'
    BY <1>0, <1>a DEF TypeOK, PassedAlone, Passed, Actors
  <1>6. OnePlace'
    <2>1. \A a \in Actors : pc'[a] \in Pending => pc[a] \in Pending /\ msg'[a] = msg[a]
      BY <1>a DEF TypeOK, Pending, Actors
    <2>2. CASE queue' = queue
      BY <1>a, <2>1, <2>2 DEF OnePlace
    <2>3. CASE excused' = excused \cup {msg[h]}
      BY <1>a, <1>b, <2>1, <2>3 DEF OnePlace
    <2> QED
      BY <1>a, <2>2, <2>3
  <1> QED
    BY <1>1, <1>2, <1>3, <1>4, <1>5, <1>6

-----------------------------------------------------------------------------
(* The workers' steps, and those of both.                                  *)

\* The other way round.
LEMMA PopKeeps ==
  ASSUME NEW w \in Workers, IInv, Pop(w) PROVE IInv'
  <1> USE FeishuAssumption
        DEF IInv, Pop, process, redis, platform, history, bounds, boots
  <1>a. queue \in Seq(Msgs)
    BY DEF TypeOK
  <1>1. TypeOK'
    BY <1>a, TailFacts DEF TypeOK, Actors, Labels
  <1>2. Quiet'
    BY <1>a, TailFacts DEF TypeOK, Quiet, Actors
  <1>3. Backlogged'
    BY <1>a, TailFacts DEF TypeOK, Quiet, Backlogged, Actors
  <1>4. MarkedFirst'
    BY <1>a, TailFacts DEF TypeOK, MarkedFirst, PassedAlone, Passed, Actors
  <1>5. PassedAlone'
    BY <1>a, TailFacts DEF TypeOK, MarkedFirst, PassedAlone, Passed, Actors
  <1>6. OnePlace'
    BY <1>a, TailFacts DEF TypeOK, MarkedFirst, PassedAlone, OnePlace, Passed, Pending, Actors
  <1> QED
    BY <1>1, <1>2, <1>3, <1>4, <1>5, <1>6

LEMMA PopFailsKeeps ==
  ASSUME NEW w \in Workers, IInv, PopFails(w) PROVE IInv'
  <1> USE FeishuAssumption DEF IInv, process, platform, actors, boots
  <1>a. /\ queue \in Seq(Msgs)
        /\ \/ queue' = queue /\ lost' = lost
           \/ queue # <<>> /\ queue' = Tail(queue) /\ lost' = lost \cup {Head(queue)}
        /\ UNCHANGED <<stage, hasRedis, marked, pc, msg, runs, excused, backlog, wasted>>
    BY DEF PopFails, TypeOK
  <1>b. /\ queue' \in Seq(Msgs) /\ lost' \subseteq Msgs
        /\ \A m : Occurs(queue', m) => Occurs(queue, m)
        /\ \A m : Single(queue, m) => Single(queue', m)
    <2>0. lost \subseteq Msgs
      BY DEF TypeOK
    <2>1. CASE queue' = queue /\ lost' = lost
      BY <1>a, <2>0, <2>1
    <2>2. CASE queue # <<>> /\ queue' = Tail(queue) /\ lost' = lost \cup {Head(queue)}
      BY <1>a, <2>0, <2>2, TailFacts
    <2> QED
      BY <1>a, <2>1, <2>2
  <1>1. TypeOK'
    BY <1>a, <1>b DEF TypeOK, Actors, Labels, PopFails
  <1>2. Quiet'
    BY <1>a DEF Quiet
  <1>3. Backlogged'
    BY <1>a, <1>b DEF Backlogged
  <1>4. MarkedFirst'
    BY <1>a, <1>b DEF MarkedFirst
  <1>5. PassedAlone'
    BY <1>a DEF PassedAlone
  <1>6. OnePlace'
    BY <1>a, <1>b DEF OnePlace
  <1> QED
    BY <1>1, <1>2, <1>3, <1>4, <1>5, <1>6

\* The message was in one place, and is asked there.
LEMMA BindKeeps ==
  ASSUME NEW a \in Actors, IInv, Bind(a) PROVE IInv'
  <1> USE FeishuAssumption DEF IInv, process, redis, bounds
  <1>0. msg[a] \in Msgs
    BY AtWork DEF Bind
  <1>a. /\ pc[a] = "bind" /\ stage # "down"
        /\ \/ /\ pc' = [pc EXCEPT ![a] = "idle"] /\ msg' = [msg EXCEPT ![a] = None]
              /\ runs' = runs
           \/ /\ pc' = [pc EXCEPT ![a] = "reply"] /\ msg' = msg
              /\ runs' = [runs EXCEPT ![msg[a]] = @ + 1]
        /\ UNCHANGED <<stage, hasRedis, marked, queue, excused, backlog>>
    BY DEF Bind, Finish, GoTo
  <1>b. /\ acked' \subseteq Msgs /\ ended' \subseteq Msgs /\ wasted' \subseteq Msgs
        /\ UNCHANGED <<status, delivered, lost, faults, crashes>>
    BY <1>0 DEF Bind, Finish, Dropped, TypeOK
  <1>c. \A m \in Msgs : runs'[m] = runs[m] \/ (runs'[m] = runs[m] + 1 /\ m = msg[a])
    BY <1>0, <1>a DEF TypeOK
  <1>d. \A x \in Actors : pc'[x] \in {"mark", "gate", "push", "bind"} =>
                            x # a /\ pc'[x] = pc[x] /\ msg'[x] = msg[x]
    BY <1>a DEF TypeOK
  <1>1. TypeOK'
    <2>1. runs' \in [Msgs -> Nat]
      BY <1>0, <1>a DEF TypeOK
    <2>2. /\ pc' \in [Actors -> Labels] /\ msg' \in [Actors -> Msgs \cup {None}]
          /\ \A x \in Actors : pc'[x] = "idle" <=> msg'[x] = None
      BY <1>0, <1>a DEF TypeOK, Labels
    <2>3. \A w \in Workers : pc'[w] \in {"idle", "bind", "reply"}
      BY <1>0, <1>a DEF TypeOK, Actors
    <2> QED
      BY <1>a, <1>b, <2>1, <2>2, <2>3 DEF TypeOK
  <1>2. Quiet'
    BY <1>0, <1>a DEF TypeOK, Quiet, Actors
  <1>3. Backlogged'
    BY <1>0 DEF TypeOK, Quiet, Backlogged, Actors, Bind, Finish, Dropped, GoTo
  <1>4. MarkedFirst'
    <2>1. msg[a] \notin Anonymous /\ msg[a] \in marked \cup excused
      BY <1>a DEF MarkedFirst
    <2>2. \A h \in Calls : pc'[h] = "mark" => msg'[h] \notin Anonymous
      BY <1>d DEF MarkedFirst, Actors
    <2>3. \A x \in Actors : pc'[x] = "reply" =>
                              msg'[x] = msg[x] /\ (x = a \/ pc[x] = "reply")
      BY <1>a DEF TypeOK
    <2> QED
      BY <1>a, <1>c, <1>d, <2>1, <2>2, <2>3 DEF MarkedFirst
  <1>5. PassedAlone'
    BY <1>a, <1>d DEF PassedAlone, Passed, Actors
  <1>6. OnePlace'
    <2> SUFFICES ASSUME NEW m \in Msgs \ excused
                 PROVE  /\ runs'[m] <= 1 /\ Single(queue, m)
                        /\ Occurs(queue, m) => runs'[m] = 0
                        /\ \A x \in Actors :
                             pc'[x] \in Pending /\ msg'[x] = m =>
                               /\ runs'[m] = 0 /\ ~Occurs(queue, m)
                               /\ \A b \in Actors :
                                    pc'[b] \in Pending /\ msg'[b] = m => x = b
      BY <1>a DEF OnePlace
    <2>1. CASE m # msg[a]
      BY <1>c, <1>d, <2>1 DEF OnePlace, Pending
    <2>2. CASE m = msg[a]
      <3>1. /\ runs[m] = 0 /\ Single(queue, m) /\ ~Occurs(queue, m)
            /\ \A b \in Actors : pc[b] \in Pending /\ msg[b] = m => a = b
        BY <1>a, <2>2 DEF OnePlace, Pending
      <3>2. \A x \in Actors : ~(pc'[x] \in Pending /\ msg'[x] = m)
        BY <1>d, <3>1 DEF Pending
      <3> QED
        BY <1>c, <3>1, <3>2
    <2> QED
      BY <2>1, <2>2
  <1> QED
    BY <1>1, <1>2, <1>3, <1>4, <1>5, <1>6

LEMMA ReplyUserKeeps ==
  ASSUME NEW a \in Actors, IInv, ReplyUser(a) PROVE IInv'
  <1> USE FeishuAssumption
        DEF IInv, ReplyUser, Finish, Dropped, process, redis, platform, history, bounds, boots
  <1>0. msg[a] \in Msgs
    BY AtWork DEF Actors
  <1>1. TypeOK'
    BY <1>0 DEF TypeOK, Actors, Labels
  <1>2. Quiet'
    BY <1>0 DEF TypeOK, Quiet, Actors
  <1>3. Backlogged'
    BY <1>0 DEF TypeOK, Quiet, Backlogged, Actors
  <1>4. MarkedFirst'
    BY <1>0 DEF TypeOK, MarkedFirst, PassedAlone, Passed, Actors
  <1>5. PassedAlone'
    BY <1>0 DEF TypeOK, MarkedFirst, PassedAlone, Passed, Actors
  <1>6. OnePlace'
    BY <1>0 DEF TypeOK, MarkedFirst, PassedAlone, OnePlace, Passed, Pending, Actors
  <1> QED
    BY <1>1, <1>2, <1>3, <1>4, <1>5, <1>6

-----------------------------------------------------------------------------
(* The environment's steps.                                                *)

LEMMA SetStatusKeeps ==
  ASSUME IInv, SetStatus PROVE IInv'
  <1> USE FeishuAssumption
        DEF IInv, SetStatus, actors, process, redis, platform, history, bounds, boots
  <1>1. TypeOK'
    BY DEF TypeOK, Actors, Labels
  <1>2. Quiet'
    BY DEF TypeOK, Quiet, Actors
  <1>3. Backlogged'
    BY DEF TypeOK, Quiet, Backlogged, Actors
  <1>4. MarkedFirst'
    BY DEF TypeOK, MarkedFirst, PassedAlone, Passed, Actors
  <1>5. PassedAlone'
    BY DEF TypeOK, MarkedFirst, PassedAlone, Passed, Actors
  <1>6. OnePlace'
    BY DEF TypeOK, MarkedFirst, PassedAlone, OnePlace, Passed, Pending, Actors
  <1> QED
    BY <1>1, <1>2, <1>3, <1>4, <1>5, <1>6

LEMMA ExpireKeeps ==
  ASSUME NEW m \in Msgs, IInv, Expire(m) PROVE IInv'
  <1> USE FeishuAssumption
        DEF IInv, Expire, actors, process, redis, platform, history, bounds, boots
  <1>1. TypeOK'
    BY DEF TypeOK, Actors, Labels
  <1>2. Quiet'
    BY DEF TypeOK, Quiet, Actors
  <1>3. Backlogged'
    BY DEF TypeOK, Quiet, Backlogged, Actors
  <1>4. MarkedFirst'
    BY DEF TypeOK, MarkedFirst, PassedAlone, Passed, Actors
  <1>5. PassedAlone'
    BY DEF TypeOK, MarkedFirst, PassedAlone, Passed, Actors
  <1>6. OnePlace'
    BY DEF TypeOK, MarkedFirst, PassedAlone, OnePlace, Passed, Pending, Actors
  <1> QED
    BY <1>1, <1>2, <1>3, <1>4, <1>5, <1>6

LEMMA CrashKeeps ==
  ASSUME IInv, Crash PROVE IInv'
  <1> USE FeishuAssumption
        DEF IInv, Crash, Die, process, redis, platform, history, bounds, boots
  <1>1. TypeOK'
    BY DEF TypeOK, Actors, Labels
  <1>2. Quiet'
    BY DEF TypeOK, Quiet, Actors
  <1>3. Backlogged'
    BY DEF TypeOK, Quiet, Backlogged, Actors
  <1>4. MarkedFirst'
    BY DEF TypeOK, MarkedFirst, PassedAlone, Passed, Actors
  <1>5. PassedAlone'
    BY DEF TypeOK, MarkedFirst, PassedAlone, Passed, Actors
  <1>6. OnePlace'
    BY DEF TypeOK, MarkedFirst, PassedAlone, OnePlace, Passed, Pending, Actors
  <1> QED
    BY <1>1, <1>2, <1>3, <1>4, <1>5, <1>6

LEMMA PanicKeeps ==
  ASSUME NEW w \in Workers, IInv, Panic(w) PROVE IInv'
  <1> USE FeishuAssumption
        DEF IInv, Panic, Die, process, redis, platform, history, bounds, boots
  <1>0. msg[w] \in Msgs
    BY AtWork DEF Actors
  <1>1. TypeOK'
    BY <1>0 DEF TypeOK, Actors, Labels
  <1>2. Quiet'
    BY <1>0 DEF TypeOK, Quiet, Actors
  <1>3. Backlogged'
    BY <1>0 DEF TypeOK, Quiet, Backlogged, Actors
  <1>4. MarkedFirst'
    BY <1>0 DEF TypeOK, MarkedFirst, PassedAlone, Passed, Actors
  <1>5. PassedAlone'
    BY <1>0 DEF TypeOK, MarkedFirst, PassedAlone, Passed, Actors
  <1>6. OnePlace'
    BY <1>0 DEF TypeOK, MarkedFirst, PassedAlone, OnePlace, Passed, Pending, Actors
  <1> QED
    BY <1>1, <1>2, <1>3, <1>4, <1>5, <1>6

\* Nobody is at work, and what is in the queue becomes backlog.
LEMMA ConstructKeeps ==
  ASSUME IInv, Construct PROVE IInv'
  <1> USE FeishuAssumption DEF IInv, redis, platform, actors
  <1>a. /\ stage = "down" /\ stage' = "built" /\ hasRedis' \in BOOLEAN
        /\ backlog' = backlog \cup {queue[i] : i \in DOMAIN queue}
        /\ UNCHANGED <<status, marked, queue, delivered, acked, pc, msg, runs,
                       ended, lost, excused, wasted, crashes>>
    BY DEF Construct
  <1>b. \A x \in Actors : pc[x] = "idle"
    BY <1>a DEF Quiet
  <1>1. TypeOK'
    <2>1. faults' \in 0..MaxFaults
      BY DEF Construct, TypeOK
    <2>2. queue \in Seq(Msgs) /\ backlog \subseteq Msgs
      BY DEF TypeOK
    <2>3. {queue[i] : i \in DOMAIN queue} \subseteq Msgs
      BY <2>2
    <2> QED
      BY <1>a, <2>1, <2>2, <2>3 DEF TypeOK
  <1>2. Quiet'
    BY <1>a, <1>b DEF Quiet, Actors
  <1>3. Backlogged'
    BY <1>a, <1>b DEF Backlogged, Occurs, Actors
  <1>4. MarkedFirst'
    BY <1>a DEF MarkedFirst
  <1>5. PassedAlone'
    BY <1>a, <1>b DEF PassedAlone, Passed, Actors
  <1>6. OnePlace'
    BY <1>a DEF OnePlace
  <1> QED
    BY <1>1, <1>2, <1>3, <1>4, <1>5, <1>6

LEMMA StartKeeps ==
  ASSUME IInv, Start PROVE IInv'
  <1> USE FeishuAssumption
        DEF IInv, Start, actors, process, redis, platform, history, bounds, boots
  <1>1. TypeOK'
    BY DEF TypeOK, Actors, Labels
  <1>2. Quiet'
    BY DEF TypeOK, Quiet, Actors
  <1>3. Backlogged'
    BY DEF TypeOK, Quiet, Backlogged, Actors
  <1>4. MarkedFirst'
    BY DEF TypeOK, MarkedFirst, PassedAlone, Passed, Actors
  <1>5. PassedAlone'
    BY DEF TypeOK, MarkedFirst, PassedAlone, Passed, Actors
  <1>6. OnePlace'
    BY DEF TypeOK, MarkedFirst, PassedAlone, OnePlace, Passed, Pending, Actors
  <1> QED
    BY <1>1, <1>2, <1>3, <1>4, <1>5, <1>6

LEMMA NextKeeps == IInv /\ [Next]_vars => IInv'
  <1> SUFFICES ASSUME IInv, [Next]_vars PROVE IInv'
    OBVIOUS
  <1>1. ASSUME NEW h \in Calls, Call(h) PROVE IInv'
    BY <1>1, CheckPassesKeeps, CheckFailsKeeps, SkipKeeps, GateKeeps, MarkKeeps,
       PushKeeps, PushFailsKeeps, BindKeeps, ReplyUserKeeps DEF Call, Actors
  <1>2. ASSUME NEW h \in Calls, NEW m \in Msgs, Deliver(h, m) PROVE IInv'
    BY <1>2, DeliverKeeps
  <1>3. ASSUME NEW w \in Workers, Work(w) \/ PopFails(w) PROVE IInv'
    BY <1>3, PopKeeps, BindKeeps, ReplyUserKeeps, PanicKeeps, PopFailsKeeps DEF Work, Actors
  <1>4. CASE Construct \/ Start
    BY <1>4, ConstructKeeps, StartKeeps
  <1>5. CASE Environment
    BY <1>5, SetStatusKeeps, CrashKeeps, ExpireKeeps DEF Environment
  <1>6. CASE UNCHANGED vars
    BY <1>6 DEF IInv, TypeOK, Quiet, Backlogged, MarkedFirst, PassedAlone, OnePlace,
                vars, process, redis, platform, actors, history, bounds
  <1> QED
    BY <1>1, <1>2, <1>3, <1>4, <1>5, <1>6 DEF Next

\* The invariant holds in every state the calls, the workers, the faults and the
\* crashes can reach.
THEOREM SpecIInv == Spec => []IInv
  BY InitIInv, NextKeeps, PTL DEF Spec

-----------------------------------------------------------------------------
\* The types of the process, of Redis and of the actors, in every reachable
\* state; a worker never takes a step of handleMessageReceive's.
THEOREM QueueTypes == Spec => []TypeOK
  <1>1. IInv => TypeOK
    BY DEF IInv
  <1> QED
    BY SpecIInv, <1>1, PTL

\* However often the platform sends a message, and whatever dies in between, the
\* agent is asked once for it unless the check for duplicates could not work.
THEOREM AskedAtMostOnce == Spec => []AskedOnce
  <1>1. IInv => AskedOnce
    BY DEF IInv, TypeOK, OnePlace, AskedOnce
  <1> QED
    BY SpecIInv, <1>1, PTL

\* What reaches the queue or the agent has a sender and was marked first, and no
\* crash or error takes that mark away.
THEOREM MarkedBeforeRun == Spec => []OnlyMarkedRun
  <1>1. IInv => OnlyMarkedRun
    BY DEF IInv, MarkedFirst, OnlyMarkedRun, Taken, InQueue, Occurs
  <1> QED
    BY SpecIInv, <1>1, PTL

\* The workers that start before their process is ready waste no message that
\* this process took in.
THEOREM BacklogOnly == Spec => []OnlyBacklogWasted
  <1>1. IInv => OnlyBacklogWasted
    BY DEF IInv, Backlogged, OnlyBacklogWasted
  <1> QED
    BY SpecIInv, <1>1, PTL
=============================================================================
