--------------------------- MODULE QQTokenProofs ---------------------------
(***************************************************************************)
(* The proofs about QQToken, for any number of senders, objects and tokens *)
(* and any clock.                                                          *)
(*                                                                         *)
(* What is to be shown is about the moment a message is sent; what makes   *)
(* it true happened two requests and a store before.  The invariant hands  *)
(* the platform's end of a token along: from the answer, which a sender    *)
(* reads at most Deadline too late, into the cache, which therefore errs   *)
(* by at most Deadline, to the next sender, who gives up after Deadline.   *)
(***************************************************************************)
EXTENDS QQToken, TLAPS

\* A sender at work has not run out of time, and has at most Deadline of it.
OnTime ==
  \A p \in Senders :
    pc[p] # "idle" => now <= deadline[p] /\ deadline[p] <= now + Deadline

\* The platform gave the token for object s.
GivenFor(k, s) == k \in minted /\ owner[k] = s

\* A cached token is its object's, and the cache errs by at most Deadline.
CacheSound ==
  \A s \in States :
    cache[s].token # None =>
      /\ GivenFor(cache[s].token, s)
      /\ cache[s].expire <= ends[cache[s].token] + Deadline

\* An answer is for the object the sender works with; what it says is left was
\* left when the sender had already begun.
AnswerSound ==
  \A p \in Senders :
    /\ pc[p] \in {"idle", "read", "fetch"} => answer[p].token = None
    /\ answer[p].token # None =>
         /\ GivenFor(answer[p].token, state[p])
         /\ deadline[p] + answer[p].left <= ends[answer[p].token] + Deadline

\* The token a sender sends with outlives the sender.
TokenSound ==
  \A p \in Senders :
    pc[p] = "send" /\ token[p] # None =>
      /\ GivenFor(token[p], state[p])
      /\ cached[p] \/ answer[p].left > Deadline => deadline[p] < ends[token[p]]

IInv == TypeOK /\ OnTime /\ CacheSound /\ AnswerSound /\ TokenSound

-----------------------------------------------------------------------------
LEMMA InitIInv == Init => IInv
  <1> SUFFICES ASSUME Init PROVE IInv
    OBVIOUS
  <1> USE TimeAssumption, NoneAssumption
  <1>1. TypeOK
    BY DEF Init, TypeOK, Empty, NoAnswer
  <1>2. OnTime /\ CacheSound /\ AnswerSound /\ TokenSound
    BY DEF Init, OnTime, CacheSound, AnswerSound, TokenSound, Empty, NoAnswer
  <1> QED
    BY <1>1, <1>2 DEF IInv

\* A sender at work holds an object.
LEMMA AtWorkHoldsState ==
  ASSUME TypeOK, NEW p \in Senders, pc[p] # "idle"
  PROVE  state[p] \in States
  BY DEF TypeOK

-----------------------------------------------------------------------------
(* The channel's steps leave the senders and the platform alone.           *)

LEMMA InitChannelKeeps == IInv /\ InitChannel => IInv'
  BY TimeAssumption, NoneAssumption
  DEF IInv, InitChannel, TypeOK, OnTime, CacheSound, AnswerSound, TokenSound,
      GivenFor, clock, platform, senders

LEMMA DeleteChannelKeeps == IInv /\ DeleteChannel => IInv'
  BY TimeAssumption, NoneAssumption
  DEF IInv, DeleteChannel, TypeOK, OnTime, CacheSound, AnswerSound, TokenSound,
      GivenFor, clock, platform, senders

LEMMA PauseChannelKeeps == IInv /\ PauseChannel => IInv'
  <1> SUFFICES ASSUME IInv, PauseChannel PROVE IInv'
    OBVIOUS
  <1> USE TimeAssumption, NoneAssumption
        DEF IInv, PauseChannel, clock, platform, senders
  <1>1. TypeOK'
    BY DEF TypeOK, Empty
  <1>2. OnTime' /\ AnswerSound' /\ TokenSound'
    BY DEF OnTime, AnswerSound, TokenSound, GivenFor
  <1>3. CacheSound'
    BY DEF TypeOK, CacheSound, GivenFor, Empty
  <1> QED
    BY <1>1, <1>2, <1>3

-----------------------------------------------------------------------------
(* A sender's steps.                                                       *)

LEMMA LookupKeeps ==
  ASSUME NEW p \in Senders, IInv, Lookup(p) PROVE IInv'
  <1> USE TimeAssumption, NoneAssumption
        DEF IInv, Lookup, GoTo, clock, channel, platform
  <1>1. TypeOK'
    BY DEF TypeOK
  <1>2. OnTime'
    BY DEF TypeOK, OnTime
  <1>3. CacheSound'
    BY DEF CacheSound, GivenFor
  <1>4. AnswerSound'
    BY DEF TypeOK, AnswerSound, GivenFor
  <1>5. TokenSound'
    BY DEF TypeOK, TokenSound, GivenFor
  <1> QED
    BY <1>1, <1>2, <1>3, <1>4, <1>5

\* What is taken from the cache has Margin less Deadline to live at least.
LEMMA ReadKeeps ==
  ASSUME NEW p \in Senders, IInv, Read(p) PROVE IInv'
  <1> USE TimeAssumption, NoneAssumption
        DEF IInv, Read, GoTo, clock, channel, platform
  <1>0. state[p] \in States
    BY AtWorkHoldsState
  <1> DEFINE c == cache[state[p]]
  <1>1. TypeOK'
    <2>1. c.token \in Tokens \cup {None}
      BY <1>0 DEF TypeOK
    <2>2. CASE ~Fresh(c)
      BY <2>2 DEF TypeOK
    <2>3. CASE Fresh(c)
      <3>1. /\ pc' = [pc EXCEPT ![p] = "send"]
            /\ token' = [token EXCEPT ![p] = c.token]
            /\ cached' = [cached EXCEPT ![p] = TRUE]
        BY <2>3
      <3> QED
        BY <2>1, <3>1 DEF TypeOK
    <2> QED
      BY <2>2, <2>3
  <1>2. OnTime'
    BY DEF TypeOK, OnTime
  <1>3. CacheSound'
    BY DEF CacheSound, GivenFor
  <1>4. AnswerSound'
    BY DEF TypeOK, AnswerSound, GivenFor
  <1>5. TokenSound'
    <2>1. CASE ~Fresh(c)
      BY <2>1 DEF TypeOK, TokenSound, GivenFor
    <2>2. CASE Fresh(c)
      <3>1. /\ c.token # None /\ c.token \in Tokens /\ c.expire \in Nat
            /\ now + Margin < c.expire
        BY <2>2, <1>0 DEF Fresh, TypeOK
      <3>2. GivenFor(c.token, state[p]) /\ c.expire <= ends[c.token] + Deadline
        BY <1>0, <3>1 DEF CacheSound
      <3>3. deadline[p] <= now + Deadline
        BY DEF OnTime
      <3>4. deadline[p] \in Nat /\ now \in Nat /\ ends[c.token] \in Nat
        BY <3>1 DEF TypeOK
      <3>5. deadline[p] < ends[c.token]
        BY <3>1, <3>2, <3>3, <3>4
      <3>6. /\ token' = [token EXCEPT ![p] = c.token]
            /\ cached' = [cached EXCEPT ![p] = TRUE]
        BY <2>2
      <3> QED
        BY <3>2, <3>5, <3>6 DEF TypeOK, TokenSound, GivenFor
    <2> QED
      BY <2>1, <2>2
  <1> QED
    BY <1>1, <1>2, <1>3, <1>4, <1>5

\* The store is at most Deadline later than the answer.
LEMMA StoreKeeps ==
  ASSUME NEW p \in Senders, IInv, Store(p) PROVE IInv'
  <1> USE TimeAssumption, NoneAssumption
        DEF IInv, Store, GoTo, clock, platform
  <1>0. state[p] \in States
    BY AtWorkHoldsState
  <1> DEFINE a == answer[p]
  <1>a. /\ a.token \in Tokens \cup {None} /\ a.left \in Nat
        /\ now \in Nat /\ deadline[p] \in Nat /\ now <= deadline[p]
    BY DEF TypeOK, OnTime
  <1>b. a.token # None =>
          /\ GivenFor(a.token, state[p])
          /\ ends[a.token] \in Nat
          /\ deadline[p] + a.left <= ends[a.token] + Deadline
    BY <1>a DEF TypeOK, AnswerSound
  <1>1. TypeOK'
    BY <1>0, <1>a DEF TypeOK
  <1>2. OnTime'
    BY DEF TypeOK, OnTime
  <1>3. CacheSound'
    <2>1. a.token # None => now + a.left <= ends[a.token] + Deadline
      BY <1>a, <1>b
    <2> QED
      BY <1>0, <1>b, <2>1 DEF TypeOK, CacheSound, GivenFor
  <1>4. AnswerSound'
    BY DEF TypeOK, AnswerSound, GivenFor
  <1>5. TokenSound'
    <2>1. a.token # None /\ a.left > Deadline => deadline[p] < ends[a.token]
      BY <1>a, <1>b
    <2> QED
      BY <1>b, <2>1 DEF TypeOK, TokenSound, GivenFor
  <1> QED
    BY <1>1, <1>2, <1>3, <1>4, <1>5

LEMMA FinishKeeps ==
  ASSUME NEW p \in Senders, IInv, Finish(p) PROVE IInv'
  <1> USE TimeAssumption, NoneAssumption
        DEF IInv, Finish, GoTo, clock, channel, platform
  <1>1. TypeOK'
    BY DEF TypeOK, NoAnswer
  <1>2. OnTime'
    BY DEF TypeOK, OnTime
  <1>3. CacheSound'
    BY DEF CacheSound, GivenFor
  <1>4. AnswerSound'
    BY DEF TypeOK, AnswerSound, GivenFor, NoAnswer
  <1>5. TokenSound'
    BY DEF TypeOK, TokenSound, GivenFor
  <1> QED
    BY <1>1, <1>2, <1>3, <1>4, <1>5

-----------------------------------------------------------------------------
(* The platform and the clock.                                             *)

\* A new token changes nothing about the ones that are there.
LEMMA AnswerNewKeeps ==
  ASSUME NEW p \in Senders, IInv, AnswerNew(p) PROVE IInv'
  <1> USE TimeAssumption, NoneAssumption DEF IInv
  <1>0. state[p] \in States /\ pc[p] = "fetch"
    BY AtWorkHoldsState DEF AnswerNew
  <1> PICK k \in Tokens \ minted :
        /\ minted' = minted \cup {k}
        /\ owner' = [owner EXCEPT ![k] = state[p]]
        /\ ends' = [ends EXCEPT ![k] = now + Life]
        /\ Answers(p, k, Life)
    BY DEF AnswerNew
  <1> USE DEF Answers, GoTo, clock, channel
  <1>1. TypeOK'
    BY <1>0 DEF TypeOK
  <1>2. OnTime'
    <2>1. /\ now' = now /\ deadline' = deadline
          /\ \A q \in Senders : pc'[q] # "idle" => pc[q] # "idle"
      BY <1>0 DEF TypeOK
    <2> QED
      BY <2>1 DEF OnTime
  <1>a. \A x, s : GivenFor(x, s) => GivenFor(x, s)' /\ ends'[x] = ends[x]
    BY DEF TypeOK, GivenFor
  <1>3. CacheSound'
    BY <1>a DEF TypeOK, CacheSound
  <1>4. AnswerSound'
    <2>1. k \in Tokens /\ GivenFor(k, state[p])' /\ ends'[k] = now + Life
      BY DEF TypeOK, GivenFor
    <2>2. deadline[p] + Life <= (now + Life) + Deadline
      BY <1>0 DEF TypeOK, OnTime
    <2> QED
      BY <1>a, <2>1, <2>2 DEF TypeOK, AnswerSound
  <1>5. TokenSound'
    BY <1>0, <1>a DEF TypeOK, TokenSound
  <1> QED
    BY <1>1, <1>2, <1>3, <1>4, <1>5

LEMMA AnswerOldKeeps ==
  ASSUME NEW p \in Senders, IInv, AnswerOld(p) PROVE IInv'
  <1> USE TimeAssumption, NoneAssumption DEF IInv
  <1>0. pc[p] = "fetch" /\ UNCHANGED platform
    BY DEF AnswerOld
  <1> PICK k \in minted :
        /\ owner[k] = state[p] /\ now < ends[k]
        /\ Answers(p, k, ends[k] - now)
    BY DEF AnswerOld
  <1> USE <1>0 DEF Answers, GoTo, clock, channel, platform
  <1>a. k \in Tokens /\ ends[k] \in Nat /\ ends[k] - now \in Nat
    BY DEF TypeOK
  <1>1. TypeOK'
    BY <1>a DEF TypeOK
  <1>2. OnTime'
    BY DEF TypeOK, OnTime
  <1>3. CacheSound'
    BY DEF CacheSound, GivenFor
  <1>4. AnswerSound'
    <2>1. deadline[p] + (ends[k] - now) <= ends[k] + Deadline
      BY <1>a DEF TypeOK, OnTime
    <2> QED
      BY <1>a, <2>1 DEF TypeOK, AnswerSound, GivenFor
  <1>5. TokenSound'
    BY DEF TypeOK, TokenSound, GivenFor
  <1> QED
    BY <1>1, <1>2, <1>3, <1>4, <1>5

LEMMA AnswerErrorKeeps ==
  ASSUME NEW p \in Senders, IInv, AnswerError(p) PROVE IInv'
  <1> USE TimeAssumption, NoneAssumption DEF IInv
  <1> PICK left \in {0, Life} : Answers(p, None, left)
    BY DEF AnswerError
  <1>0. UNCHANGED platform /\ pc[p] = "fetch" /\ left \in Nat
    BY DEF AnswerError
  <1> USE <1>0 DEF Answers, GoTo, clock, channel, platform
  <1>1. TypeOK'
    BY DEF TypeOK
  <1>2. OnTime'
    BY DEF TypeOK, OnTime
  <1>3. CacheSound'
    BY DEF CacheSound, GivenFor
  <1>4. AnswerSound'
    BY DEF TypeOK, AnswerSound, GivenFor
  <1>5. TokenSound'
    BY DEF TypeOK, TokenSound, GivenFor
  <1> QED
    BY <1>1, <1>2, <1>3, <1>4, <1>5

LEMMA TickKeeps == IInv /\ Tick => IInv'
  <1> SUFFICES ASSUME IInv, Tick PROVE IInv'
    OBVIOUS
  <1> USE TimeAssumption, NoneAssumption
        DEF IInv, Tick, channel, platform, senders
  <1>1. TypeOK'
    BY DEF TypeOK
  <1>2. OnTime'
    BY DEF TypeOK, OnTime
  <1>3. CacheSound' /\ AnswerSound' /\ TokenSound'
    BY DEF CacheSound, AnswerSound, TokenSound, GivenFor
  <1> QED
    BY <1>1, <1>2, <1>3

LEMMA NextKeeps == IInv /\ [Next]_vars => IInv'
  <1> SUFFICES ASSUME IInv, [Next]_vars PROVE IInv'
    OBVIOUS
  <1>1. CASE InitChannel
    BY <1>1, InitChannelKeeps
  <1>2. CASE DeleteChannel
    BY <1>2, DeleteChannelKeeps
  <1>3. CASE PauseChannel
    BY <1>3, PauseChannelKeeps
  <1>4. ASSUME NEW p \in Senders, Sender(p) PROVE IInv'
    BY <1>4, LookupKeeps, ReadKeeps, StoreKeeps, FinishKeeps DEF Sender
  <1>5. ASSUME NEW p \in Senders, Platform(p) PROVE IInv'
    BY <1>5, AnswerNewKeeps, AnswerOldKeeps, AnswerErrorKeeps DEF Platform
  <1>6. CASE Tick
    BY <1>6, TickKeeps
  <1>7. CASE UNCHANGED vars
    BY <1>7 DEF IInv, TypeOK, OnTime, CacheSound, AnswerSound, TokenSound, GivenFor,
                vars, clock, channel, platform, senders
  <1> QED
    BY <1>1, <1>2, <1>3, <1>4, <1>5, <1>6, <1>7 DEF Next

\* The invariant holds in every state the senders, the channel, the platform
\* and the clock can reach.
THEOREM SpecIInv == Spec => []IInv
  BY InitIInv, NextKeeps, PTL DEF Spec

-----------------------------------------------------------------------------
\* The types of the token cache and of its senders, in every reachable state.
THEOREM TokenTypes == Spec => []TypeOK
  <1>1. IInv => TypeOK
    BY DEF IInv
  <1> QED
    BY SpecIInv, <1>1, PTL

\* qqbot sends every message with a token that is alive on the platform, as
\* long as the margin getAccessToken keeps is twice what one sending may take.
THEOREM LiveTokens == Spec => []LiveTokenUsed
  <1>1. IInv => LiveTokenUsed
    <2> SUFFICES ASSUME IInv, NEW p \in Senders, pc[p] = "send", token[p] # None,
                        cached[p] \/ answer[p].left > Deadline
                 PROVE  now < ends[token[p]]
      BY DEF LiveTokenUsed
    <2>1. deadline[p] < ends[token[p]] /\ now <= deadline[p]
      BY DEF IInv, TokenSound, OnTime
    <2>2. now \in Nat /\ deadline[p] \in Nat /\ token[p] \in Tokens /\ ends[token[p]] \in Nat
      BY DEF IInv, TypeOK
    <2> QED
      BY <2>1, <2>2
  <1> QED
    BY SpecIInv, <1>1, PTL

\* qqbot sends every message with a token for the credentials its sender found,
\* whatever becomes of the channel meanwhile.
THEOREM OwnTokens == Spec => []OwnToken
  <1>1. IInv => OwnToken
    BY DEF IInv, TokenSound, OwnToken, GivenFor
  <1> QED
    BY SpecIInv, <1>1, PTL

\* An answer of the platform concerns the sender it answers.
LEMMA PlatformStaysOwn ==
  ASSUME TypeOK, ErrorStaysOwn, NEW p \in Senders, Platform(p)
  PROVE  ErrorStaysOwn'
  <1>1. /\ pc' = [pc EXCEPT ![p] = "answered"]
        /\ \A q \in Senders \ {p} : answer'[q] = answer[q]
        /\ UNCHANGED <<token, cached>>
    BY DEF Platform, AnswerNew, AnswerOld, AnswerError, Answers, GoTo, TypeOK
  <1> QED
    BY <1>1 DEF ErrorStaysOwn, TypeOK

LEMMA SenderStaysOwn ==
  ASSUME TypeOK, ErrorStaysOwn, NEW p \in Senders, Sender(p)
  PROVE  ErrorStaysOwn'
  <1> SUFFICES ASSUME NEW q \in Senders, pc'[q] = "send", token'[q] = None
               PROVE  ~cached'[q] /\ answer'[q].token = None
    BY DEF ErrorStaysOwn
  <1>1. CASE q # p
    <2>1. /\ pc'[q] = pc[q] /\ token'[q] = token[q] /\ cached'[q] = cached[q]
          /\ answer'[q] = answer[q]
      BY <1>1 DEF Sender, Lookup, Read, Store, Finish, GoTo, TypeOK
    <2> QED
      BY <2>1 DEF ErrorStaysOwn
  <1>2. CASE q = p
    <2>1. ~Lookup(p) /\ ~Finish(p)
      BY <1>2 DEF Lookup, Finish, GoTo, TypeOK
    <2>2. ~Read(p)
      BY <1>2 DEF Read, Fresh, GoTo, TypeOK
    <2>3. CASE Store(p)
      BY <1>2, <2>3 DEF Store, TypeOK
    <2> QED
      BY <2>1, <2>2, <2>3 DEF Sender
  <1> QED
    BY <1>1, <1>2

\* An error of the platform, stored where every sender of the channel reads it,
\* leaves without a token only the message of the sender it was for: an empty
\* token is never taken from the cache, whatever its end is said to be.
THEOREM ErrorsStayOwn == Spec => []ErrorStaysOwn
  <1>1. Init => ErrorStaysOwn
    BY DEF Init, ErrorStaysOwn
  <1>2. TypeOK /\ ErrorStaysOwn /\ [Next]_vars => ErrorStaysOwn'
    <2> SUFFICES ASSUME TypeOK, ErrorStaysOwn, [Next]_vars PROVE ErrorStaysOwn'
      OBVIOUS
    <2>1. CASE InitChannel \/ DeleteChannel \/ PauseChannel \/ Tick \/ UNCHANGED vars
      BY <2>1 DEF InitChannel, DeleteChannel, PauseChannel, Tick, vars, senders, ErrorStaysOwn
    <2> QED
      BY <2>1, SenderStaysOwn, PlatformStaysOwn DEF Next
  <1> QED
    BY <1>1, <1>2, TokenTypes, PTL DEF Spec
=============================================================================
