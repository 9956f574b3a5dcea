----------------------------- MODULE GoclawChat -----------------------------
(***************************************************************************)
(* One question to a GoClaw agent: GoclawAgent.Process dials a WebSocket,  *)
(* shakes hands (Dial), sends chat.send and collects the streamed answer   *)
(* until something ends it (ChatSendSync).                                 *)
(*                                                                         *)
(* The server is not part of the repository.  It streams what it likes of  *)
(* the answer's chunks, in order: none, some or all, as the request leaves *)
(* Stream unset.  It is through with run.completed, with the response to   *)
(* chat.send or with both, whenever it likes; it may refuse, fail, mix in  *)
(* other frames, go silent or go away at any time.                         *)
(***************************************************************************)
EXTENDS Naturals, Sequences

CONSTANTS
  AnswerLen,  \* chunks of the whole answer
  MaxNoise    \* bound: frames that are none of the client's business

ASSUME ChatAssumption == AnswerLen \in Nat \ {0} /\ MaxNoise \in Nat

Chunks == 1..AnswerLen
Answer == [i \in Chunks |-> i]

\* Events the client knows are chunk and run.completed.  A response has the id
\* of the connect or of the chat.send request, or another one.  Garbage is not JSON.
Frames ==
  [kind : {"chunk"}, part : Chunks]
  \cup [kind : {"completed", "event", "garbage"}]
  \cup [kind : {"res"}, to : {"connect", "chat", "other"},
        body : {"content", "empty", "malformed", "error"}]

Failed == [ok |-> FALSE, content |-> <<>>]
Replied(content) == [ok |-> TRUE, content |-> content]

VARIABLES
  pc,      \* the client: dialing, connecting, sending, reading, done
  full,    \* fullContent
  result,  \* what Process returns, once it is done
  server,  \* awaiting, ready, running, finishing, over
  sent,    \* chunks the server has streamed
  wire,    \* frames on the way to the client, the oldest first
  open,    \* the connection is up
  cut,     \* it broke, or fell silent until the read deadline
  noise

client  == <<pc, full, result>>
serving == <<server, sent>>
link    == <<wire, open, cut>>
vars    == <<client, serving, link, noise>>

Init ==
  /\ pc = "dialing" /\ full = <<>> /\ result = Failed
  /\ server = "awaiting" /\ sent = 0
  /\ wire = <<>> /\ open = FALSE /\ cut = FALSE
  /\ noise = 0

-----------------------------------------------------------------------------
(* The client.                                                             *)

\* Process closes the connection, and drops the content that comes with an error.
Return(r) ==
  /\ pc' = "done"
  /\ result' = r
  /\ open' = FALSE

\* DialContext, and the connect frame.  Either may fail.
Dial ==
  /\ pc = "dialing"
  /\ \/ pc' = "connecting" /\ open' = TRUE /\ UNCHANGED result
     \/ Return(Failed)
  /\ UNCHANGED <<full, serving, wire, cut, noise>>

\* The first frame is taken for the connect response, whatever it is.
Handshake ==
  /\ pc = "connecting" /\ wire # <<>>
  /\ wire' = Tail(wire)
  /\ LET f == Head(wire) IN
       \/ /\ f.kind = "res" /\ f.body # "error"
          /\ pc' = "sending" /\ UNCHANGED <<result, open>>
       \/ /\ f.kind = "res" => f.body = "error"
          /\ Return(Failed)
  /\ UNCHANGED <<full, serving, cut, noise>>

\* chat.send.  The write deadline Dial has set is over when the handshake took
\* ten seconds: then this write fails, as it does when the connection is gone.
Send ==
  /\ pc = "sending"
  /\ \/ /\ open /\ pc' = "reading"
        /\ server' = IF server = "ready" THEN "running" ELSE server
        /\ UNCHANGED <<result, open>>
     \/ Return(Failed) /\ UNCHANGED server
  /\ UNCHANGED <<full, sent, wire, cut, noise>>

\* Mutant: the response's content comes after what was streamed.
ReplyOfTwice(f) ==
  CASE f.kind = "completed" -> Replied(full)
    [] f.body = "content"   -> Replied(full \o Answer)
    [] f.body = "empty"     -> Replied(full)
    [] OTHER                -> Failed

\* Mutant: the content comes with the error.
ReplyOfWithError(f) ==
  CASE f.kind = "completed" -> Replied(full)
    [] f.body = "content"   -> Replied(Answer)
    [] f.body = "empty"     -> Replied(full)
    [] OTHER                -> [ok |-> FALSE, content |-> full]

\* What ends the loop, and what the call then returns.  The response's content
\* replaces the streamed one.
ReplyOf(f) ==
  CASE f.kind = "completed" -> Replied(full)
    [] f.body = "content"   -> Replied(Answer)
    [] f.body = "empty"     -> Replied(full)
    [] OTHER                -> Failed

\* Mutant: whichever response comes ends the loop.
EndsOnAnyResponse(f) == f.kind \in {"completed", "res"}

Ends(f) == f.kind = "completed" \/ (f.kind = "res" /\ f.to = "chat")

\* One turn of ChatSendSync's loop: what is not a chunk and does not end it is
\* skipped, events named "error" and responses to other requests included.
ReadFrame ==
  /\ pc = "reading" /\ wire # <<>>
  /\ wire' = Tail(wire)
  /\ LET f == Head(wire) IN
       \/ Ends(f) /\ Return(ReplyOf(f)) /\ UNCHANGED full
       \/ /\ ~Ends(f)
          /\ full' = IF f.kind = "chunk" THEN Append(full, f.part) ELSE full
          /\ UNCHANGED <<pc, result, open>>
  /\ UNCHANGED <<serving, cut, noise>>

\* Mutant: an error of the connection is skipped like a bad frame.
ReadSkipsFailure ==
  /\ pc = "connecting" /\ wire = <<>> /\ cut
  /\ Return(Failed)
  /\ UNCHANGED <<full, serving, wire, cut, noise>>

\* A read fails.  What has been streamed so far passes for the answer.
ReadFails ==
  /\ pc \in {"connecting", "reading"} /\ wire = <<>> /\ cut
  /\ Return(IF full = <<>> THEN Failed ELSE Replied(full))
  /\ UNCHANGED <<full, serving, wire, cut, noise>>

-----------------------------------------------------------------------------
(* The server and the network.                                             *)

Put(f) == wire' = Append(wire, f)

ServerConnect ==
  /\ pc = "connecting" /\ open /\ server = "awaiting"
  /\ \E b \in {"empty", "error"} :
       /\ Put([kind |-> "res", to |-> "connect", body |-> b])
       /\ server' = IF b = "error" THEN "over" ELSE "ready"
  /\ UNCHANGED <<client, sent, open, cut, noise>>

ServerChunk ==
  /\ open /\ server = "running" /\ sent < AnswerLen
  /\ Put([kind |-> "chunk", part |-> sent + 1])
  /\ sent' = sent + 1
  /\ UNCHANGED <<client, server, open, cut, noise>>

ServerCompletes ==
  /\ open /\ server = "running"
  /\ Put([kind |-> "completed"])
  /\ server' \in {"finishing", "over"}
  /\ UNCHANGED <<client, sent, open, cut, noise>>

\* With the whole answer or with none of it, or with an error.
ServerResponds ==
  /\ open /\ server \in {"running", "finishing"}
  /\ \E b \in {"content", "empty", "malformed", "error"} :
       Put([kind |-> "res", to |-> "chat", body |-> b])
  /\ server' = "over"
  /\ UNCHANGED <<client, sent, open, cut, noise>>

ServerNoise ==
  /\ open /\ pc # "dialing" /\ noise < MaxNoise
  /\ \E f \in {[kind |-> "event"], [kind |-> "garbage"],
               [kind |-> "res", to |-> "other", body |-> "empty"]} : Put(f)
  /\ noise' = noise + 1
  /\ UNCHANGED <<client, serving, open, cut>>

\* The connection breaks, with some of the frames on the way, or nothing comes
\* for as long as the read deadline.
Break ==
  /\ open /\ ~cut
  /\ cut' = TRUE /\ server' = "over"
  /\ \E n \in 0..Len(wire) : wire' = SubSeq(wire, 1, n)
  /\ UNCHANGED <<client, sent, open, noise>>

\* Nothing more comes, for as long as the read deadline.
Silence == wire = <<>> /\ Break

Server ==
  /\ ~cut
  /\ \/ ServerConnect \/ ServerChunk \/ ServerCompletes \/ ServerResponds
     \/ ServerNoise

Next ==
  \/ Dial \/ Handshake \/ Send \/ ReadFrame \/ ReadFails
  \/ Server \/ Break

Spec == Init /\ [][Next]_vars

-----------------------------------------------------------------------------
(* Properties.                                                             *)

Prefixes == {SubSeq(Answer, 1, n) : n \in 0..AnswerLen}

TypeOK ==
  /\ pc \in {"dialing", "connecting", "sending", "reading", "done"}
  /\ full \in Seq(Chunks)
  /\ \/ result = Failed
     \/ result.ok /\ pc = "done" /\ result.content \in Seq(Chunks)
  /\ server \in {"awaiting", "ready", "running", "finishing", "over"}
  /\ sent \in 0..AnswerLen
  /\ wire \in Seq(Frames) /\ open \in BOOLEAN /\ cut \in BOOLEAN
  /\ noise \in 0..MaxNoise

\* What Process returns as the answer is the beginning of it: no chunk is
\* missing in between, none comes twice, and the response's content is not
\* added to what was streamed.
AnswerInOrder == result.ok => result.content \in Prefixes

\* As long as the connection holds, the client loses nothing: what it returns is
\* all that the server had streamed when it was through (which may be nothing), or
\* the content of its response; no other frame ends it before.
CutOnlyByLink ==
  result.ok /\ ~cut => result.content \in {Answer, SubSeq(Answer, 1, sent)}

\* ChatSendSync "blocks until the full response": an answer the server has sent to
\* its end is returned to its end.
WholeAnswer == result.ok /\ sent = AnswerLen => result.content = Answer
=============================================================================
