------------------------------ MODULE QQToken ------------------------------
(***************************************************************************)
(* The access token of a qqbot channel.  Every message the gateway sends   *)
(* needs one; it is fetched from the platform, kept in the channel's state *)
(* object and taken from there for as long as it looks fresh.              *)
(*                                                                         *)
(* Nothing serialises the senders: each reads the cache, and all that find *)
(* it stale fetch, and store what they got in the order the answers come.  *)
(* An update of the channel makes a new object, while senders still hold   *)
(* the old one.  Time counts: the cache believes a token to live from the  *)
(* moment the answer is read, the platform from the moment it answers.     *)
(***************************************************************************)
EXTENDS Naturals

CONSTANTS
  Senders,   \* goroutines that send a message
  States,    \* the state objects InitChannel makes, one after the other
  Tokens,    \* the tokens the platform gives out
  Life,      \* how long a new token lives
  Margin,    \* how long before its end a cached token is not taken any more
  Deadline,  \* how long a sender has for everything it does (its context)
  MaxTime,   \* bound: the clock
  None

ASSUME TimeAssumption ==
  /\ Life \in Nat /\ Margin \in Nat /\ Deadline \in Nat /\ MaxTime \in Nat
  /\ 2 * Deadline <= Margin

ASSUME NoneAssumption == None \notin Tokens /\ None \notin States

VARIABLES
  now,
  current,   \* the channel's state object, or None when it has none
  made,      \* the objects made so far
  cache,     \* per object: accessToken (None: the empty string), tokenExpire
  minted,    \* platform: the tokens given out
  owner,     \* platform: per token, the object whose credentials it is for
  ends,      \* platform: per token, when it ends
  pc,        \* per sender: idle, read, fetch, answered, send
  state,     \* per sender, the object it works with
  deadline,  \* per sender, the end of its context
  answer,    \* per sender, what the platform answered: token and expires_in
  token,     \* per sender, the token it sends with
  cached     \* per sender, whether that came from the cache

clock    == <<now>>
channel  == <<current, made, cache>>
platform == <<minted, owner, ends>>
senders  == <<pc, state, deadline, answer, token, cached>>
vars     == <<clock, channel, platform, senders>>

Empty == [token |-> None, expire |-> 0]
NoAnswer == [token |-> None, left |-> 0]

Init ==
  /\ now = 0
  /\ current = None /\ made = {} /\ cache = [s \in States |-> Empty]
  /\ minted = {} /\ owner = [k \in Tokens |-> None] /\ ends = [k \in Tokens |-> 0]
  /\ pc = [p \in Senders |-> "idle"] /\ state = [p \in Senders |-> None]
  /\ deadline = [p \in Senders |-> 0] /\ answer = [p \in Senders |-> NoAnswer]
  /\ token = [p \in Senders |-> None] /\ cached = [p \in Senders |-> FALSE]

GoTo(p, l) == pc' = [pc EXCEPT ![p] = l]

-----------------------------------------------------------------------------
(* The channel.                                                            *)

\* A good config: a new object without a token, whatever was there.
InitChannel ==
  /\ \E s \in States \ made : made' = made \cup {s} /\ current' = s
  /\ UNCHANGED <<clock, cache, platform, senders>>

DeleteChannel ==
  /\ current # None /\ current' = None
  /\ UNCHANGED <<clock, made, cache, platform, senders>>

PauseChannel ==
  /\ current # None
  /\ cache' = [cache EXCEPT ![current] = Empty]
  /\ UNCHANGED <<clock, current, made, platform, senders>>

-----------------------------------------------------------------------------
(* A sender: sendTextMessage, and getAccessToken within it.                *)

Lookup(p) ==
  /\ pc[p] = "idle" /\ current # None
  /\ GoTo(p, "read")
  /\ state' = [state EXCEPT ![p] = current]
  /\ deadline' = [deadline EXCEPT ![p] = now + Deadline]
  /\ UNCHANGED <<clock, channel, platform, answer, token, cached>>

\* Mutant: a token is taken until it ends.
FreshToTheEnd(c) == c.token # None /\ now < c.expire

\* Mutant: only the time is looked at.
FreshByTime(c) == now + Margin < c.expire

\* now < expire - margin.
Fresh(c) == c.token # None /\ now + Margin < c.expire

\* Both fields are read under the object's lock.
Read(p) ==
  /\ pc[p] = "read"
  /\ LET c == cache[state[p]] IN
       \/ /\ Fresh(c)
          /\ GoTo(p, "send")
          /\ token' = [token EXCEPT ![p] = c.token]
          /\ cached' = [cached EXCEPT ![p] = TRUE]
       \/ ~Fresh(c) /\ GoTo(p, "fetch") /\ UNCHANGED <<token, cached>>
  /\ UNCHANGED <<clock, channel, platform, state, deadline, answer>>

\* Mutant: the channel's object is looked up again.
StoreInCurrent(p) ==
  /\ pc[p] = "answered" /\ current # None
  /\ cache' = [cache EXCEPT ![current] =
                 [token |-> answer[p].token, expire |-> now + answer[p].left]]
  /\ token' = [token EXCEPT ![p] = answer[p].token]
  /\ cached' = [cached EXCEPT ![p] = FALSE]
  /\ GoTo(p, "send")
  /\ UNCHANGED <<clock, current, made, platform, state, deadline, answer>>

\* Mutant: the margin is taken off when the token is stored.
StoreShortened(p) ==
  /\ pc[p] = "answered"
  /\ cache' = [cache EXCEPT ![state[p]] =
                 [token |-> answer[p].token, expire |-> (now + answer[p].left) - Margin]]
  /\ token' = [token EXCEPT ![p] = answer[p].token]
  /\ cached' = [cached EXCEPT ![p] = FALSE]
  /\ GoTo(p, "send")
  /\ UNCHANGED <<clock, current, made, platform, state, deadline, answer>>

\* The answer is stored over whatever the object has, and taken as it is: the
\* status is not looked at, and a body without a token has an empty one.
Store(p) ==
  /\ pc[p] = "answered"
  /\ cache' = [cache EXCEPT ![state[p]] =
                 [token |-> answer[p].token, expire |-> now + answer[p].left]]
  /\ token' = [token EXCEPT ![p] = answer[p].token]
  /\ cached' = [cached EXCEPT ![p] = FALSE]
  /\ GoTo(p, "send")
  /\ UNCHANGED <<clock, current, made, platform, state, deadline, answer>>

\* The message is sent, well or not; or the request for a token failed: it had
\* no answer, or none in time, or one that is not JSON.
Finish(p) ==
  /\ pc[p] \in {"fetch", "answered", "send"}
  /\ GoTo(p, "idle")
  /\ state' = [state EXCEPT ![p] = None]
  /\ deadline' = [deadline EXCEPT ![p] = 0]
  /\ answer' = [answer EXCEPT ![p] = NoAnswer]
  /\ token' = [token EXCEPT ![p] = None]
  /\ cached' = [cached EXCEPT ![p] = FALSE]
  /\ UNCHANGED <<clock, channel, platform>>

-----------------------------------------------------------------------------
(* The platform and the clock.                                             *)

Answers(p, k, left) ==
  /\ GoTo(p, "answered")
  /\ answer' = [answer EXCEPT ![p] = [token |-> k, left |-> left]]
  /\ UNCHANGED <<clock, channel, state, deadline, token, cached>>

\* A new token.  The others live on.
AnswerNew(p) ==
  /\ pc[p] = "fetch"
  /\ \E k \in Tokens \ minted :
       /\ minted' = minted \cup {k}
       /\ owner' = [owner EXCEPT ![k] = state[p]]
       /\ ends' = [ends EXCEPT ![k] = now + Life]
       /\ Answers(p, k, Life)

\* One that is there already, and what is left of its life.
AnswerOld(p) ==
  /\ pc[p] = "fetch"
  /\ \E k \in minted :
       /\ owner[k] = state[p] /\ now < ends[k]
       /\ Answers(p, k, ends[k] - now)
  /\ UNCHANGED platform

\* An error, as JSON: no token, whatever it says of a life.
AnswerError(p) ==
  /\ pc[p] = "fetch"
  /\ \E left \in {0, Life} : Answers(p, None, left)
  /\ UNCHANGED platform

\* A sender that is not through by its deadline fails.
Tick ==
  /\ now < MaxTime
  /\ \A p \in Senders : pc[p] # "idle" => now < deadline[p]
  /\ now' = now + 1
  /\ UNCHANGED <<channel, platform, senders>>

Sender(p) == Lookup(p) \/ Read(p) \/ Store(p) \/ Finish(p)

Platform(p) == AnswerNew(p) \/ AnswerOld(p) \/ AnswerError(p)

Next ==
  \/ InitChannel \/ DeleteChannel \/ PauseChannel
  \/ \E p \in Senders : Sender(p) \/ Platform(p)
  \/ Tick

Spec == Init /\ [][Next]_vars

-----------------------------------------------------------------------------
(* Properties.                                                             *)

TypeOK ==
  /\ now \in Nat
  /\ current \in States \cup {None} /\ made \subseteq States
  /\ cache \in [States -> [token : Tokens \cup {None}, expire : Nat]]
  /\ minted \subseteq Tokens
  /\ owner \in [Tokens -> States \cup {None}] /\ ends \in [Tokens -> Nat]
  /\ pc \in [Senders -> {"idle", "read", "fetch", "answered", "send"}]
  /\ state \in [Senders -> States \cup {None}]
  /\ \A p \in Senders : pc[p] = "idle" <=> state[p] = None
  /\ deadline \in [Senders -> Nat]
  /\ answer \in [Senders -> [token : Tokens \cup {None}, left : Nat]]
  /\ token \in [Senders -> Tokens \cup {None}] /\ cached \in [Senders -> BOOLEAN]

\* The token a message is sent with is alive on the platform when it gets
\* there, up to the last moment the sender's context allows: although the cache
\* counts a token's life from too late a moment, slower answers overwrite newer
\* ones and the sender takes its time.  A token the sender has fetched itself
\* has to have more life left than the sender.
LiveTokenUsed ==
  \A p \in Senders :
    /\ pc[p] = "send" /\ token[p] # None
    /\ cached[p] \/ answer[p].left > Deadline
    => now < ends[token[p]]

\* The token a message is sent with was given for the credentials of the config
\* that the sender found, although the channel may have been updated, deleted
\* and created again while the token was under way.
OwnToken ==
  \A p \in Senders :
    pc[p] = "send" /\ token[p] # None => owner[token[p]] = state[p]

\* An error of the platform harms the sender it answers and nobody else: although
\* it is stored as a token over a good one, for every sender to read, a message
\* goes out without a token only when its own sender's request was answered
\* without one.
ErrorStaysOwn ==
  \A p \in Senders :
    pc[p] = "send" /\ token[p] = None => ~cached[p] /\ answer[p].token = None
=============================================================================
