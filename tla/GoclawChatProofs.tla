-------------------------- MODULE GoclawChatProofs --------------------------
(***************************************************************************)
(* The proofs about GoclawChat, for an answer of any length and any number *)
(* of other frames.                                                        *)
(*                                                                         *)
(* The client only sees the head of the wire.  What makes it right is what *)
(* all of the wire is like: Stream says it of a sequence of frames, for a  *)
(* client that has n chunks and a server that has sent s, and the lemmas   *)
(* say what taking the head, adding a frame and losing the tail do to it.  *)
(***************************************************************************)
EXTENDS GoclawChat, SequenceTheorems, TLAPS

\* Position j of w holds chunk k.
ChunkAt(w, j, k) == w[j].kind = "chunk" /\ w[j].part = k

\* A frame that ends the call well.
Good(f) ==
  \/ f.kind = "completed"
  \/ f.kind = "res" /\ f.to = "chat" /\ f.body \in {"content", "empty"}

\* The chunks on the wire are new ones, in order and without a gap; a good end
\* comes after all that were streamed.
Ordered(w, n, s) ==
  /\ \A i \in DOMAIN w : w[i].kind = "chunk" => n < w[i].part /\ w[i].part <= s
  /\ \A i, j \in DOMAIN w :
       i < j /\ w[i].kind = "chunk" /\ w[j].kind = "chunk" => w[i].part < w[j].part

Gapless(w, n) ==
  \A i \in DOMAIN w : w[i].kind = "chunk" =>
    \A k \in Nat : n < k /\ k <= w[i].part => \E j \in 1..i : ChunkAt(w, j, k)

Ended(w, n, s) ==
  \A i \in DOMAIN w : Good(w[i]) =>
    \A k \in Nat : n < k /\ k <= s => \E j \in 1..(i - 1) : ChunkAt(w, j, k)

Stream(w, n, s) == Ordered(w, n, s) /\ Gapless(w, n) /\ Ended(w, n, s)

\* Nothing was lost.
Complete(w, n, s) ==
  \A k \in Nat : n < k /\ k <= s => \E j \in DOMAIN w : ChunkAt(w, j, k)

-----------------------------------------------------------------------------
LEMMA FrameFacts ==
  ASSUME NEW f \in Frames
  PROVE  /\ f.kind \in {"chunk", "completed", "event", "garbage", "res"}
         /\ f.kind = "chunk" => f.part \in Chunks
  BY DEF Frames

\* The head of the wire and what comes after it.
LEMMA TailFacts ==
  ASSUME NEW w \in Seq(Frames), w # <<>>
  PROVE  /\ Tail(w) \in Seq(Frames) /\ Head(w) \in Frames /\ Head(w) = w[1]
         /\ Len(w) \in Nat \ {0} /\ DOMAIN w = 1..Len(w)
         /\ DOMAIN Tail(w) = 1..(Len(w) - 1)
         /\ \A i \in 1..(Len(w) - 1) : Tail(w)[i] = w[i + 1]
  OBVIOUS

LEMMA AppendFacts ==
  ASSUME NEW w \in Seq(Frames), NEW f \in Frames
  PROVE  /\ Append(w, f) \in Seq(Frames)
         /\ Len(w) \in Nat /\ DOMAIN w = 1..Len(w)
         /\ DOMAIN Append(w, f) = 1..(Len(w) + 1)
         /\ \A i \in 1..Len(w) : Append(w, f)[i] = w[i]
         /\ Append(w, f)[Len(w) + 1] = f
  OBVIOUS

\* What is not a chunk can be taken off the wire.
LEMMA TakeOther ==
  ASSUME NEW w \in Seq(Frames), w # <<>>, Head(w).kind # "chunk",
         NEW n \in Nat, NEW s \in Nat, Stream(w, n, s)
  PROVE  /\ Stream(Tail(w), n, s)
         /\ Complete(w, n, s) => Complete(Tail(w), n, s)
  <1> DEFINE t == Tail(w)
  <1>1. /\ w[1].kind # "chunk" /\ Len(w) \in Nat \ {0} /\ DOMAIN w = 1..Len(w)
        /\ DOMAIN t = 1..(Len(w) - 1) /\ \A i \in 1..(Len(w) - 1) : t[i] = w[i + 1]
    BY TailFacts
  <1>2. \A k \in Nat, i \in 1..Len(w) :
          (\E j \in 1..i : ChunkAt(w, j, k)) => \E j \in 1..(i - 1) : ChunkAt(t, j, k)
    <2> SUFFICES ASSUME NEW k \in Nat, NEW i \in 1..Len(w), NEW j \in 1..i, ChunkAt(w, j, k)
                 PROVE  \E l \in 1..(i - 1) : ChunkAt(t, l, k)
      OBVIOUS
    <2>1. j # 1
      BY <1>1 DEF ChunkAt
    <2>2. j - 1 \in 1..(i - 1) /\ ChunkAt(t, j - 1, k)
      BY <1>1, <2>1 DEF ChunkAt
    <2> QED
      BY <2>2
  <1> HIDE DEF t
  <1>3. Ordered(t, n, s)
    <2>1. \A i \in DOMAIN t : i + 1 \in DOMAIN w /\ t[i] = w[i + 1]
      BY <1>1
    <2>2. \A i, j \in DOMAIN t : i < j => i + 1 < j + 1
      BY <1>1
    <2> QED
      BY <2>1, <2>2 DEF Stream, Ordered
  <1>4. Gapless(t, n)
    <2> SUFFICES ASSUME NEW i \in DOMAIN t, t[i].kind = "chunk",
                        NEW k \in Nat, n < k, k <= t[i].part
                 PROVE  \E j \in 1..i : ChunkAt(t, j, k)
      BY DEF Gapless
    <2>1. i + 1 \in 1..Len(w) /\ t[i] = w[i + 1]
      BY <1>1
    <2>2. \E j \in 1..(i + 1) : ChunkAt(w, j, k)
      BY <1>1, <2>1 DEF Stream, Gapless
    <2> QED
      BY <1>1, <1>2, <2>1, <2>2
  <1>5. Ended(t, n, s)
    <2> SUFFICES ASSUME NEW i \in DOMAIN t, Good(t[i])
                 PROVE  \A k \in Nat : n < k /\ k <= s => \E j \in 1..(i - 1) : ChunkAt(t, j, k)
      BY DEF Ended
    <2>1. i + 1 \in 1..Len(w) /\ t[i] = w[i + 1] /\ i \in 1..Len(w) /\ (i + 1) - 1 = i
      BY <1>1
    <2>2. \A k \in Nat : n < k /\ k <= s => \E j \in 1..i : ChunkAt(w, j, k)
      BY <1>1, <2>1 DEF Stream, Ended
    <2> QED
      BY <1>2, <2>1, <2>2
  <1>6. Complete(w, n, s) => Complete(t, n, s)
    <2>1. Len(w) \in 1..Len(w) /\ DOMAIN t = 1..(Len(w) - 1)
      BY <1>1
    <2> QED
      BY <1>1, <1>2, <2>1 DEF Complete
  <1> QED
    BY <1>3, <1>4, <1>5, <1>6 DEF Stream, t

\* The first chunk on the wire is the one the client lacks.
LEMMA TakeChunk ==
  ASSUME NEW w \in Seq(Frames), w # <<>>, Head(w).kind = "chunk",
         NEW n \in Nat, NEW s \in Nat, Stream(w, n, s)
  PROVE  /\ Head(w).part = n + 1 /\ n + 1 <= s
         /\ Stream(Tail(w), n + 1, s)
         /\ Complete(w, n, s) => Complete(Tail(w), n + 1, s)
  <1> DEFINE t == Tail(w)
  <1>1. /\ w[1].kind = "chunk" /\ Head(w) = w[1] /\ w[1].part \in Nat
        /\ Len(w) \in Nat \ {0} /\ DOMAIN w = 1..Len(w)
        /\ DOMAIN t = 1..(Len(w) - 1) /\ \A i \in 1..(Len(w) - 1) : t[i] = w[i + 1]
    BY TailFacts, FrameFacts, ChatAssumption DEF Chunks
  <1>2. w[1].part = n + 1 /\ n + 1 <= s
    <2>1. n < w[1].part /\ w[1].part <= s
      BY <1>1 DEF Stream, Ordered
    <2>2. \E j \in 1..1 : ChunkAt(w, j, n + 1)
      BY <1>1, <2>1 DEF Stream, Gapless
    <2> QED
      BY <1>1, <2>1, <2>2 DEF ChunkAt
  <1>3. \A k \in Nat, i \in 1..Len(w) :
          n + 1 < k /\ (\E j \in 1..i : ChunkAt(w, j, k))
            => \E j \in 1..(i - 1) : ChunkAt(t, j, k)
    <2> SUFFICES ASSUME NEW k \in Nat, NEW i \in 1..Len(w), n + 1 < k,
                        NEW j \in 1..i, ChunkAt(w, j, k)
                 PROVE  \E l \in 1..(i - 1) : ChunkAt(t, l, k)
      OBVIOUS
    <2>1. j # 1
      BY <1>2 DEF ChunkAt
    <2>2. j - 1 \in 1..(i - 1) /\ ChunkAt(t, j - 1, k)
      BY <1>1, <2>1 DEF ChunkAt
    <2> QED
      BY <2>2
  <1> HIDE DEF t
  <1>4. Ordered(t, n + 1, s)
    <2> SUFFICES ASSUME NEW i \in DOMAIN t, t[i].kind = "chunk"
                 PROVE  /\ n + 1 < t[i].part /\ t[i].part <= s
                        /\ \A j \in DOMAIN t :
                             i < j /\ t[j].kind = "chunk" => t[i].part < t[j].part
      BY DEF Ordered
    <2>1. i + 1 \in 1..Len(w) /\ t[i] = w[i + 1] /\ 1 < i + 1
      BY <1>1
    <2>2. n + 1 < t[i].part /\ t[i].part <= s
      BY <1>1, <1>2, <2>1 DEF Stream, Ordered
    <2>3. \A j \in DOMAIN t : i < j =>
            j + 1 \in 1..Len(w) /\ t[j] = w[j + 1] /\ i + 1 < j + 1
      BY <1>1
    <2>4. \A j \in DOMAIN t : i < j /\ t[j].kind = "chunk" => t[i].part < t[j].part
      BY <1>1, <2>1, <2>3 DEF Stream, Ordered
    <2> QED
      BY <2>2, <2>4
  <1>5. Gapless(t, n + 1)
    <2> SUFFICES ASSUME NEW i \in DOMAIN t, t[i].kind = "chunk",
                        NEW k \in Nat, n + 1 < k, k <= t[i].part
                 PROVE  \E j \in 1..i : ChunkAt(t, j, k)
      BY DEF Gapless
    <2>1. i + 1 \in 1..Len(w) /\ t[i] = w[i + 1] /\ n < k /\ (i + 1) - 1 = i
      BY <1>1
    <2>2. \E j \in 1..(i + 1) : ChunkAt(w, j, k)
      BY <1>1, <2>1 DEF Stream, Gapless
    <2> QED
      BY <1>3, <2>1, <2>2
  <1>6. Ended(t, n + 1, s)
    <2> SUFFICES ASSUME NEW i \in DOMAIN t, Good(t[i])
                 PROVE  \A k \in Nat : n + 1 < k /\ k <= s => \E j \in 1..(i - 1) : ChunkAt(t, j, k)
      BY DEF Ended
    <2>1. i + 1 \in 1..Len(w) /\ t[i] = w[i + 1] /\ i \in 1..Len(w) /\ (i + 1) - 1 = i
      BY <1>1
    <2>2. \A k \in Nat : n < k /\ k <= s => \E j \in 1..i : ChunkAt(w, j, k)
      BY <1>1, <2>1 DEF Stream, Ended
    <2>3. \A k \in Nat : n + 1 < k => n < k
      OBVIOUS
    <2> QED
      BY <1>3, <2>1, <2>2, <2>3
  <1>7. Complete(w, n, s) => Complete(t, n + 1, s)
    <2>1. Len(w) \in 1..Len(w) /\ \A k \in Nat : n + 1 < k => n < k
      BY <1>1
    <2> QED
      BY <1>1, <1>3, <2>1 DEF Complete
  <1> QED
    BY <1>1, <1>2, <1>4, <1>5, <1>6, <1>7 DEF Stream, t

\* When the head of the wire ends the call well, the client has every chunk that
\* was streamed.
LEMMA TakeEnd ==
  ASSUME NEW w \in Seq(Frames), w # <<>>, Good(Head(w)),
         NEW n \in Nat, NEW s \in Nat, n <= s, Stream(w, n, s)
  PROVE  n = s
  <1>1. 1 \in DOMAIN w /\ Good(w[1])
    BY TailFacts
  <1>2. n + 1 <= s => \E j \in 1..(1 - 1) : ChunkAt(w, j, n + 1)
    BY <1>1 DEF Stream, Ended
  <1> QED
    BY <1>2

\* A frame that is no chunk can follow what is on the wire, and if it ends the
\* call well, the wire has to be complete.
LEMMA PutOther ==
  ASSUME NEW w \in Seq(Frames), NEW f \in Frames, f.kind # "chunk",
         NEW n \in Nat, NEW s \in Nat, Stream(w, n, s),
         Good(f) => Complete(w, n, s)
  PROVE  /\ Stream(Append(w, f), n, s)
         /\ Complete(w, n, s) => Complete(Append(w, f), n, s)
  <1> DEFINE v == Append(w, f)
  <1>1. /\ Len(w) \in Nat /\ DOMAIN w = 1..Len(w) /\ DOMAIN v = 1..(Len(w) + 1)
        /\ \A i \in 1..Len(w) : v[i] = w[i]
        /\ v[Len(w) + 1] = f
    BY AppendFacts
  <1> HIDE DEF v
  <1>2. Ordered(v, n, s)
    BY <1>1 DEF Stream, Ordered
  <1>3. Gapless(v, n)
    BY <1>1 DEF Stream, Gapless, ChunkAt
  <1>4. Ended(v, n, s)
    <2> SUFFICES ASSUME NEW i \in DOMAIN v, Good(v[i])
                 PROVE  \A k \in Nat : n < k /\ k <= s => \E j \in 1..(i - 1) : ChunkAt(v, j, k)
      BY DEF Ended
    <2>1. \A j \in 1..Len(w) : \A k \in Nat : ChunkAt(w, j, k) => ChunkAt(v, j, k)
      BY <1>1 DEF ChunkAt
    <2>2. CASE i \in 1..Len(w)
      <3>1. Good(w[i]) /\ i \in DOMAIN w /\ 1..(i - 1) \subseteq 1..Len(w)
        BY <1>1, <2>2
      <3> QED
        BY <2>1, <3>1 DEF Stream, Ended
    <2>3. CASE i = Len(w) + 1
      <3>1. Complete(w, n, s) /\ i - 1 = Len(w)
        BY <1>1, <2>3
      <3> QED
        BY <1>1, <2>1, <3>1 DEF Complete
    <2> QED
      BY <1>1, <2>2, <2>3
  <1>5. Complete(w, n, s) => Complete(v, n, s)
    BY <1>1 DEF Complete, ChunkAt
  <1> QED
    BY <1>2, <1>3, <1>4, <1>5 DEF Stream, v

\* The next chunk can follow, as long as no good end is on its way.
LEMMA PutChunk ==
  ASSUME NEW w \in Seq(Frames), NEW f \in Frames, f.kind = "chunk",
         NEW n \in Nat, NEW s \in Nat, n <= s, Stream(w, n, s), Complete(w, n, s),
         f.part = s + 1, \A i \in DOMAIN w : ~Good(w[i])
  PROVE  /\ Stream(Append(w, f), n, s + 1)
         /\ Complete(Append(w, f), n, s + 1)
  <1> DEFINE v == Append(w, f)
  <1>1. /\ Len(w) \in Nat /\ DOMAIN w = 1..Len(w) /\ DOMAIN v = 1..(Len(w) + 1)
        /\ \A i \in 1..Len(w) : v[i] = w[i] /\ (w[i].kind = "chunk" => w[i].part \in Nat)
        /\ v[Len(w) + 1] = f /\ ChunkAt(v, Len(w) + 1, s + 1)
    <2>1. /\ Len(w) \in Nat /\ DOMAIN w = 1..Len(w) /\ DOMAIN v = 1..(Len(w) + 1)
          /\ \A i \in 1..Len(w) : v[i] = w[i]
          /\ v[Len(w) + 1] = f
      BY AppendFacts
    <2> HIDE DEF v
    <2>2. \A i \in 1..Len(w) : w[i].kind = "chunk" => w[i].part \in Nat
      <3> SUFFICES ASSUME NEW i \in 1..Len(w), w[i].kind = "chunk" PROVE w[i].part \in Nat
        OBVIOUS
      <3>1. w[i] \in Frames
        BY <2>1
      <3>2. w[i].part \in 1..AnswerLen
        BY <3>1, FrameFacts DEF Chunks
      <3> QED
        BY <3>2, ChatAssumption
    <2>3. ChunkAt(v, Len(w) + 1, s + 1)
      BY <2>1 DEF ChunkAt
    <2> QED
      BY <2>1, <2>2, <2>3
  <1> HIDE DEF v
  <1>2. Ordered(v, n, s + 1)
    <2>1. \A i \in 1..Len(w) : v[i].kind = "chunk" =>
            v[i].part \in Nat /\ n < v[i].part /\ v[i].part <= s
      BY <1>1 DEF Stream, Ordered
    <2>2. \A i, j \in 1..Len(w) :
            i < j /\ v[i].kind = "chunk" /\ v[j].kind = "chunk" => v[i].part < v[j].part
      BY <1>1 DEF Stream, Ordered
    <2>3. v[Len(w) + 1].part = s + 1
      BY <1>1
    <2>4. \A i \in 1..(Len(w) + 1) : i \in 1..Len(w) \/ i = Len(w) + 1
      BY <1>1
    <2>5. \A i \in DOMAIN v : v[i].kind = "chunk" => n < v[i].part /\ v[i].part <= s + 1
      <3> SUFFICES ASSUME NEW i \in 1..(Len(w) + 1), v[i].kind = "chunk"
                   PROVE  n < v[i].part /\ v[i].part <= s + 1
        BY <1>1
      <3> QED
        BY <2>1, <2>3, <2>4
    <2>6. ASSUME NEW i \in 1..(Len(w) + 1), NEW j \in 1..(Len(w) + 1), i < j,
                 v[i].kind = "chunk", v[j].kind = "chunk"
          PROVE  v[i].part < v[j].part
      <3>1. i \in 1..Len(w)
        BY <1>1, <2>6
      <3>2. CASE j \in 1..Len(w)
        BY <2>2, <2>6, <3>1, <3>2
      <3>3. CASE j = Len(w) + 1
        BY <2>1, <2>3, <2>6, <3>1, <3>3
      <3> QED
        BY <2>4, <3>2, <3>3
    <2>7. \A i, j \in DOMAIN v :
            i < j /\ v[i].kind = "chunk" /\ v[j].kind = "chunk" => v[i].part < v[j].part
      <3> DOMAIN v = 1..(Len(w) + 1)
        BY <1>1
      <3> QED
        BY <2>6
    <2> QED
      BY <2>5, <2>7 DEF Ordered
  <1>3. Complete(v, n, s + 1)
    BY <1>1 DEF Complete, ChunkAt
  <1>4. Gapless(v, n)
    <2> SUFFICES ASSUME NEW i \in 1..(Len(w) + 1), v[i].kind = "chunk",
                        NEW k \in Nat, n < k, k <= v[i].part
                 PROVE  \E j \in 1..i : ChunkAt(v, j, k)
      BY <1>1 DEF Gapless
    <2>1. CASE i = Len(w) + 1
      BY <1>1, <1>3, <2>1 DEF Complete
    <2>2. CASE i \in 1..Len(w)
      <3>1. v[i] = w[i] /\ i \in DOMAIN w
        BY <1>1, <2>2
      <3>2. PICK j \in 1..i : ChunkAt(w, j, k)
        BY <3>1 DEF Stream, Gapless
      <3>3. v[j] = w[j]
        BY <1>1, <2>2
      <3> QED
        BY <3>2, <3>3 DEF ChunkAt
    <2> QED
      BY <2>1, <2>2
  <1>5. Ended(v, n, s + 1)
    BY <1>1 DEF Ended, Good
  <1> QED
    BY <1>2, <1>3, <1>4, <1>5 DEF Stream, v

\* What is lost from the end of the wire on leaves a stream.
LEMMA LoseTail ==
  ASSUME NEW w \in Seq(Frames), NEW m \in 0..Len(w),
         NEW n \in Nat, NEW s \in Nat, Stream(w, n, s)
  PROVE  SubSeq(w, 1, m) \in Seq(Frames) /\ Stream(SubSeq(w, 1, m), n, s)
  <1> DEFINE v == SubSeq(w, 1, m)
  <1>1. /\ v \in Seq(Frames) /\ Len(w) \in Nat /\ DOMAIN w = 1..Len(w)
        /\ DOMAIN v = 1..m /\ \A i \in 1..m : v[i] = w[i]
    <2>1. \A i \in 1..m : w[i] \in Frames
      OBVIOUS
    <2>2. v \in Seq(Frames) /\ Len(v) = (IF 1 <= m THEN m - 1 + 1 ELSE 0)
          /\ \A i \in 1..(m - 1 + 1) : v[i] = w[1 + i - 1]
      BY <2>1, SubSeqProperties
    <2> QED
      BY <2>2
  <1> HIDE DEF v
  <1>2. \A i \in DOMAIN v : i \in DOMAIN w /\ v[i] = w[i]
    BY <1>1
  <1>3. \A i \in DOMAIN v, k \in Nat :
          /\ (\E j \in 1..i : ChunkAt(w, j, k)) => \E j \in 1..i : ChunkAt(v, j, k)
          /\ (\E j \in 1..(i - 1) : ChunkAt(w, j, k)) => \E j \in 1..(i - 1) : ChunkAt(v, j, k)
    BY <1>1 DEF ChunkAt
  <1>4. Ordered(v, n, s)
    BY <1>2 DEF Stream, Ordered
  <1>5. Gapless(v, n)
    BY <1>2, <1>3 DEF Stream, Gapless
  <1>6. Ended(v, n, s)
    BY <1>2, <1>3 DEF Stream, Ended
  <1> QED
    BY <1>1, <1>4, <1>5, <1>6 DEF Stream, v

-----------------------------------------------------------------------------
(* The invariant.                                                          *)

\* Before it has sent the question, the client is owed nothing.
Early ==
  pc \in {"dialing", "connecting", "sending"} =>
    full = <<>> /\ sent = 0 /\ server \notin {"running", "finishing"}

\* What the client has is the beginning of the answer.
Collected == Len(full) <= sent /\ \A i \in DOMAIN full : full[i] = i

Streaming ==
  /\ Stream(wire, Len(full), sent)
  /\ ~cut => Complete(wire, Len(full), sent)
  /\ server \notin {"finishing", "over"} => \A i \in DOMAIN wire : ~Good(wire[i])

\* The beginnings of the answer that say something.
Parts == {SubSeq(Answer, 1, n) : n \in 1..AnswerLen}

Honest(r) ==
  \/ r = Failed
  \/ r = Replied(Answer)
  \/ r = Replied(SubSeq(Answer, 1, sent))
  \/ cut /\ \E part \in Parts : r = Replied(part)

Outcome == Honest(result) /\ (pc = "done" => ~open)

IInv == TypeOK /\ Early /\ Collected /\ Streaming /\ Outcome

LEMMA AnswerType == Answer \in Seq(Chunks) /\ Len(Answer) = AnswerLen
  BY ChatAssumption DEF Answer, Chunks

\* Chunks collected in order are a beginning of the answer.
LEMMA CollectedIsPart ==
  ASSUME NEW f \in Seq(Chunks), \A i \in DOMAIN f : f[i] = i
  PROVE  /\ f = SubSeq(Answer, 1, Len(f)) /\ Len(f) \in 0..AnswerLen
         /\ Len(f) = AnswerLen => f = Answer
         /\ f # <<>> => f \in Parts
  <1>1. Len(f) \in Nat /\ DOMAIN f = 1..Len(f) /\ \A i \in 1..Len(f) : f[i] = i /\ i \in Chunks
    OBVIOUS
  <1>2. Len(f) \in 0..AnswerLen
    BY <1>1, ChatAssumption DEF Chunks
  <1>3. /\ SubSeq(Answer, 1, Len(f)) \in Seq(Chunks)
        /\ Len(SubSeq(Answer, 1, Len(f))) = Len(f)
        /\ \A i \in 1..Len(f) : SubSeq(Answer, 1, Len(f))[i] = f[i]
    <2>1. \A i \in 1..Len(f) : Answer[i] \in Chunks /\ Answer[i] = i
      BY <1>1 DEF Answer
    <2>2. /\ SubSeq(Answer, 1, Len(f)) \in Seq(Chunks)
          /\ Len(SubSeq(Answer, 1, Len(f))) = (IF 1 <= Len(f) THEN Len(f) - 1 + 1 ELSE 0)
          /\ \A i \in 1..(Len(f) - 1 + 1) : SubSeq(Answer, 1, Len(f))[i] = Answer[1 + i - 1]
      BY <1>1, <2>1, SubSeqProperties
    <2> QED
      BY <1>1, <2>1, <2>2
  <1>4. f = SubSeq(Answer, 1, Len(f))
    BY <1>1, <1>3, SeqEqual
  <1>5. Len(f) = AnswerLen => f = Answer
    <2>1. \A i \in 1..Len(f) : f[i] = i
      BY <1>1
    <2> QED
      BY <2>1, <1>1, AnswerType, SeqEqual DEF Answer, Chunks
  <1>6. f # <<>> => Len(f) \in 1..AnswerLen
    BY <1>1, <1>2
  <1> QED
    BY <1>2, <1>4, <1>5, <1>6 DEF Parts

LEMMA PartType ==
  /\ \A part \in Parts : part \in Seq(Chunks)
  /\ \A n \in 0..AnswerLen : SubSeq(Answer, 1, n) \in Seq(Chunks)
  <1> SUFFICES ASSUME NEW n \in 0..AnswerLen PROVE SubSeq(Answer, 1, n) \in Seq(Chunks)
    BY ChatAssumption DEF Parts
  <1>1. \A i \in 1..n : Answer[i] \in Chunks
    BY ChatAssumption DEF Answer, Chunks
  <1> QED
    BY <1>1, SubSeqProperties, ChatAssumption

LEMMA InitIInv == Init => IInv
  <1> SUFFICES ASSUME Init PROVE IInv
    OBVIOUS
  <1>1. <<>> \in Seq(Chunks) /\ <<>> \in Seq(Frames) /\ 0 \in 0..AnswerLen /\ 0 \in 0..MaxNoise
    BY ChatAssumption
  <1>2. /\ pc = "dialing" /\ full = <<>> /\ result = Failed /\ server = "awaiting"
        /\ sent = 0 /\ wire = <<>> /\ open = FALSE /\ cut = FALSE /\ noise = 0
    BY DEF Init
  <1>4. TypeOK
    BY <1>1, <1>2 DEF TypeOK
  <1>5. Early /\ Collected /\ Outcome
    BY <1>2 DEF Early, Collected, Outcome, Honest
  <1>3. Streaming
    BY ChatAssumption DEF Init, Streaming, Stream, Ordered, Gapless, Ended, Complete
  <1> QED
    BY <1>3, <1>4, <1>5 DEF IInv

-----------------------------------------------------------------------------
(* The client's steps.                                                     *)

\* Returning an error, or an honest answer, keeps the types and the promise.
LEMMA ReturnKeeps ==
  ASSUME NEW r, TypeOK, Honest(r), Return(r), UNCHANGED <<cut, sent>>
  PROVE  /\ Outcome'
         /\ result' = Failed \/ (result'.ok /\ pc' = "done" /\ result'.content \in Seq(Chunks))
  <1>1. r = Failed \/ (r.ok /\ r.content \in Seq(Chunks))
    <2>1. SubSeq(Answer, 1, sent) \in Seq(Chunks)
      BY PartType DEF TypeOK
    <2>2. \A content \in Seq(Chunks) :
            Replied(content).ok /\ Replied(content).content \in Seq(Chunks)
      BY DEF Replied
    <2>3. r = Failed \/ \E content \in Seq(Chunks) : r = Replied(content)
      BY <2>1, PartType, AnswerType DEF Honest
    <2> QED
      BY <2>2, <2>3
  <1> QED
    BY <1>1 DEF Return, Outcome, Honest

LEMMA DialKeeps == IInv /\ Dial => IInv'
  <1> SUFFICES ASSUME IInv, Dial PROVE IInv'
    OBVIOUS
  <1> USE DEF IInv, Dial, serving
  <1>1. TypeOK'
    BY DEF TypeOK, Return
  <1>2. Early' /\ Collected' /\ Streaming'
    BY DEF Early, Collected, Streaming, Return
  <1>3. Outcome'
    BY DEF TypeOK, Outcome, Return, Honest
  <1> QED
    BY <1>1, <1>2, <1>3

\* Nothing the client could miss is on the wire yet.
LEMMA HandshakeKeeps == IInv /\ Handshake => IInv'
  <1> SUFFICES ASSUME IInv, Handshake PROVE IInv'
    OBVIOUS
  <1> USE DEF IInv
  <1>1. /\ wire \in Seq(Frames) /\ wire # <<>> /\ wire' = Tail(wire)
        /\ pc = "connecting" /\ full = <<>> /\ sent = 0
        /\ UNCHANGED <<full, server, sent, cut, noise>>
    BY DEF Handshake, serving, TypeOK, Early
  <1>2. \/ pc' = "sending" /\ UNCHANGED <<result, open>>
        \/ Return(Failed)
    BY DEF Handshake
  <1>3. wire' \in Seq(Frames) /\ Head(wire).kind # "chunk"
    <2>1. Head(wire).kind = "chunk" => 0 < Head(wire).part /\ Head(wire).part <= 0
      BY <1>1, TailFacts DEF Streaming, Stream, Ordered
    <2>2. Head(wire).kind = "chunk" => Head(wire).part \in Nat
      BY <1>1, TailFacts, FrameFacts, ChatAssumption DEF Chunks
    <2> QED
      BY <1>1, <2>1, <2>2, TailFacts
  <1>4. TypeOK'
    BY <1>1, <1>2, <1>3 DEF TypeOK, Return
  <1>5. Early' /\ Collected'
    BY <1>1, <1>2 DEF Early, Collected, Return
  <1>6. Streaming'
    BY <1>1, <1>3, TakeOther DEF Streaming
  <1>7. Outcome'
    BY <1>1, <1>2 DEF TypeOK, Outcome, Return, Honest
  <1> QED
    BY <1>4, <1>5, <1>6, <1>7

LEMMA SendKeeps == IInv /\ Send => IInv'
  <1> SUFFICES ASSUME IInv, Send PROVE IInv'
    OBVIOUS
  <1> USE DEF IInv, Send
  <1>1. TypeOK'
    BY DEF TypeOK, Return
  <1>2. Early' /\ Collected' /\ Streaming'
    BY DEF Early, Collected, Streaming, Return
  <1>3. Outcome'
    BY DEF TypeOK, Outcome, Return, Honest
  <1> QED
    BY <1>1, <1>2, <1>3

\* A chunk is the next one; a good end comes after the last.
LEMMA ReadFrameKeeps == IInv /\ ReadFrame => IInv'
  <1> SUFFICES ASSUME IInv, ReadFrame PROVE IInv'
    OBVIOUS
  <1> USE DEF IInv
  <1> DEFINE f == Head(wire)
  <1>1. /\ wire \in Seq(Frames) /\ wire # <<>> /\ wire' = Tail(wire) /\ pc = "reading"
        /\ UNCHANGED <<server, sent, cut, noise>>
        /\ full \in Seq(Chunks) /\ Len(full) \in Nat /\ sent \in Nat /\ Len(full) <= sent
        /\ Stream(wire, Len(full), sent)
        /\ wire' \in Seq(Frames) /\ f \in Frames
    BY TailFacts, ChatAssumption DEF ReadFrame, serving, TypeOK, Collected, Streaming
  <1>2. CASE Ends(f)
    <2>1. Return(ReplyOf(f)) /\ full' = full /\ f.kind # "chunk"
      BY <1>2 DEF ReadFrame, Ends
    <2>2. Honest(ReplyOf(f))
      <3>1. CASE Good(f)
        <4>1. Len(full) = sent
          BY <1>1, <3>1, TakeEnd
        <4>2. full = SubSeq(Answer, 1, sent)
          BY <1>1, <4>1, CollectedIsPart DEF Collected
        <4> QED
          BY <3>1, <4>2 DEF Good, ReplyOf, Honest
      <3>2. CASE ~Good(f)
        BY <1>2, <3>2 DEF Good, Ends, ReplyOf, Honest
      <3> QED
        BY <3>1, <3>2
    <2>3. /\ Outcome'
          /\ result' = Failed \/ (result'.ok /\ pc' = "done" /\ result'.content \in Seq(Chunks))
      BY <1>1, <2>1, <2>2, ReturnKeeps
    <2>4. TypeOK'
      BY <1>1, <2>1, <2>3 DEF TypeOK, Return
    <2>5. Early' /\ Collected'
      BY <1>1, <2>1 DEF Early, Collected, Return
    <2>6. Streaming'
      BY <1>1, <2>1, TakeOther DEF Streaming
    <2> QED
      BY <2>3, <2>4, <2>5, <2>6
  <1>3. CASE ~Ends(f)
    <2>1. /\ full' = IF f.kind = "chunk" THEN Append(full, f.part) ELSE full
          /\ UNCHANGED <<pc, result, open>>
      BY <1>3 DEF ReadFrame
    <2>2. Early' /\ Outcome'
      BY <1>1, <2>1 DEF Early, Outcome, Honest
    <2>3. CASE f.kind = "chunk"
      <3>1. /\ f.part = Len(full) + 1 /\ Len(full) + 1 <= sent
            /\ Stream(wire', Len(full) + 1, sent)
            /\ Complete(wire, Len(full), sent) => Complete(wire', Len(full) + 1, sent)
        BY <1>1, <2>3, TakeChunk
      <3>2. /\ full' \in Seq(Chunks) /\ Len(full') = Len(full) + 1
            /\ \A i \in DOMAIN full' :
                 \/ i \in DOMAIN full /\ full'[i] = full[i]
                 \/ i = Len(full) + 1 /\ full'[i] = f.part
        <4>1. f.part \in Chunks /\ full' = Append(full, f.part)
          BY <1>1, <2>1, <2>3, FrameFacts
        <4>2. /\ Append(full, f.part) \in Seq(Chunks)
              /\ Len(Append(full, f.part)) = Len(full) + 1
              /\ DOMAIN Append(full, f.part) = 1..(Len(full) + 1)
              /\ \A i \in 1..Len(full) : Append(full, f.part)[i] = full[i]
              /\ Append(full, f.part)[Len(full) + 1] = f.part
              /\ DOMAIN full = 1..Len(full)
          BY <1>1, <4>1
        <4>3. \A i \in 1..(Len(full) + 1) : i \in 1..Len(full) \/ i = Len(full) + 1
          BY <1>1
        <4> HIDE DEF f
        <4> QED
          BY <4>1, <4>2, <4>3
      <3>3. TypeOK'
        BY <1>1, <2>1, <3>2 DEF TypeOK
      <3>4. Collected'
        BY <1>1, <3>1, <3>2 DEF Collected
      <3>5. Streaming'
        BY <1>1, <3>1, <3>2 DEF Streaming
      <3> QED
        BY <2>2, <3>3, <3>4, <3>5
    <2>4. CASE f.kind # "chunk"
      <3>1. TypeOK' /\ Collected'
        BY <1>1, <2>1, <2>4 DEF TypeOK, Collected
      <3>2. Streaming'
        BY <1>1, <2>1, <2>4, TakeOther DEF Streaming
      <3> QED
        BY <2>2, <3>1, <3>2
    <2> QED
      BY <2>3, <2>4
  <1> QED
    BY <1>2, <1>3

\* What was streamed before the link broke is a part of the answer.
LEMMA ReadFailsKeeps == IInv /\ ReadFails => IInv'
  <1> SUFFICES ASSUME IInv, ReadFails PROVE IInv'
    OBVIOUS
  <1> USE DEF IInv
  <1> DEFINE r == IF full = <<>> THEN Failed ELSE Replied(full)
  <1>1. /\ cut /\ Return(r)
        /\ UNCHANGED <<full, server, sent, wire, cut, noise>>
    BY DEF ReadFails, serving
  <1>2. Honest(r)
    BY <1>1, CollectedIsPart DEF Honest, TypeOK, Collected
  <1>3. /\ Outcome'
        /\ result' = Failed \/ (result'.ok /\ pc' = "done" /\ result'.content \in Seq(Chunks))
    BY <1>1, <1>2, ReturnKeeps
  <1>4. TypeOK'
    BY <1>1, <1>3 DEF TypeOK, Return
  <1>5. Early' /\ Collected' /\ Streaming'
    BY <1>1 DEF Early, Collected, Streaming, Return
  <1> QED
    BY <1>3, <1>4, <1>5

-----------------------------------------------------------------------------
(* The server's and the link's steps.                                      *)

\* What a step that only puts a frame on the wire has to be like.
LEMMA PutKeeps ==
  ASSUME IInv, NEW f \in Frames, f.kind # "chunk", Put(f), ~cut,
         UNCHANGED <<pc, full, result, sent, open, cut>>,
         Good(f) => server' \in {"finishing", "over"},
         \/ server' \in {"ready", "over"} /\ server = "awaiting"
         \/ server' \in {"finishing", "over"} /\ server \in {"running", "finishing"}
         \/ server' = server,
         noise' \in 0..MaxNoise
  PROVE  IInv'
  <1> USE DEF IInv
  <1>1. /\ wire \in Seq(Frames) /\ Len(full) \in Nat /\ sent \in Nat
        /\ Stream(wire, Len(full), sent) /\ Complete(wire, Len(full), sent)
        /\ wire' = Append(wire, f) /\ wire' \in Seq(Frames)
    BY ChatAssumption DEF TypeOK, Streaming, Put
  <1>2. TypeOK'
    BY <1>1 DEF TypeOK
  <1>3. Early' /\ Collected' /\ Outcome'
    BY <1>1 DEF Early, Collected, Outcome, Honest
  <1>4. server' \notin {"finishing", "over"} => \A i \in DOMAIN wire' : ~Good(wire'[i])
    <2> SUFFICES ASSUME server' \notin {"finishing", "over"}, NEW i \in DOMAIN wire'
                 PROVE  ~Good(wire'[i])
      OBVIOUS
    <2>1. ~Good(f) /\ \A j \in DOMAIN wire : ~Good(wire[j])
      BY DEF Streaming
    <2> QED
      BY <1>1, <2>1, AppendFacts
  <1>5. Stream(wire', Len(full'), sent') /\ Complete(wire', Len(full'), sent')
    BY <1>1, PutOther
  <1>6. Streaming'
    BY <1>4, <1>5 DEF Streaming
  <1> QED
    BY <1>2, <1>3, <1>6

LEMMA ServerConnectKeeps == IInv /\ ~cut /\ ServerConnect => IInv'
  <1> SUFFICES ASSUME IInv, ~cut, ServerConnect PROVE IInv'
    OBVIOUS
  <1> PICK b \in {"empty", "error"} : Put([kind |-> "res", to |-> "connect", body |-> b])
    BY DEF ServerConnect
  <1> DEFINE f == [kind |-> "res", to |-> "connect", body |-> b]
  <1>1. f \in Frames /\ f.kind # "chunk" /\ ~Good(f)
    BY DEF Frames, Good
  <1>2. /\ server' \in {"ready", "over"} /\ server = "awaiting"
        /\ UNCHANGED <<pc, full, result, sent, open, cut, noise>>
    BY DEF ServerConnect, client
  <1>3. noise' \in 0..MaxNoise
    BY <1>2 DEF IInv, TypeOK
  <1> QED
    BY <1>1, <1>2, <1>3, PutKeeps

LEMMA ServerChunkKeeps == IInv /\ ~cut /\ ServerChunk => IInv'
  <1> SUFFICES ASSUME IInv, ~cut, ServerChunk PROVE IInv'
    OBVIOUS
  <1> USE DEF IInv
  <1> DEFINE f == [kind |-> "chunk", part |-> sent + 1]
  <1>1. /\ wire \in Seq(Frames) /\ Len(full) \in Nat /\ sent \in Nat
        /\ Len(full) <= sent /\ sent < AnswerLen /\ server = "running" /\ open
        /\ Stream(wire, Len(full), sent) /\ Complete(wire, Len(full), sent)
        /\ \A i \in DOMAIN wire : ~Good(wire[i])
        /\ wire' = Append(wire, f) /\ sent' = sent + 1
        /\ UNCHANGED <<pc, full, result, server, open, cut, noise>>
    BY ChatAssumption DEF ServerChunk, client, TypeOK, Collected, Streaming, Put
  <1>2. f \in Frames /\ f.kind = "chunk" /\ f.part = sent + 1
    BY <1>1, ChatAssumption DEF Frames, Chunks
  <1>3. wire' \in Seq(Frames)
    BY <1>1, <1>2
  <1>4. TypeOK'
    BY <1>1, <1>3, ChatAssumption DEF TypeOK
  <1>5. Early' /\ Collected'
    BY <1>1 DEF Early, Collected
  <1>7. Outcome'
    BY <1>1 DEF Outcome, Honest, TypeOK
  <1>8. \A i \in DOMAIN wire' : ~Good(wire'[i])
    BY <1>1, <1>2, AppendFacts DEF Good
  <1>9. Stream(wire', Len(full'), sent') /\ Complete(wire', Len(full'), sent')
    BY <1>1, <1>2, PutChunk
  <1>6. Streaming'
    BY <1>8, <1>9 DEF Streaming
  <1> QED
    BY <1>4, <1>5, <1>6, <1>7

LEMMA ServerCompletesKeeps == IInv /\ ~cut /\ ServerCompletes => IInv'
  <1> SUFFICES ASSUME IInv, ~cut, ServerCompletes PROVE IInv'
    OBVIOUS
  <1>1. [kind |-> "completed"] \in Frames /\ Good([kind |-> "completed"])
    BY DEF Frames, Good
  <1>2. /\ Put([kind |-> "completed"]) /\ server = "running"
        /\ server' \in {"finishing", "over"}
        /\ UNCHANGED <<pc, full, result, sent, open, cut, noise>>
    BY DEF ServerCompletes, client
  <1>3. noise' \in 0..MaxNoise
    BY <1>2 DEF IInv, TypeOK
  <1> QED
    BY <1>1, <1>2, <1>3, PutKeeps

LEMMA ServerRespondsKeeps == IInv /\ ~cut /\ ServerResponds => IInv'
  <1> SUFFICES ASSUME IInv, ~cut, ServerResponds PROVE IInv'
    OBVIOUS
  <1> PICK b \in {"content", "empty", "malformed", "error"} :
        Put([kind |-> "res", to |-> "chat", body |-> b])
    BY DEF ServerResponds
  <1> DEFINE f == [kind |-> "res", to |-> "chat", body |-> b]
  <1>1. f \in Frames /\ f.kind # "chunk"
    BY DEF Frames
  <1>2. /\ server' = "over" /\ server \in {"running", "finishing"}
        /\ UNCHANGED <<pc, full, result, sent, open, cut, noise>>
    BY DEF ServerResponds, client
  <1>3. noise' \in 0..MaxNoise
    BY <1>2 DEF IInv, TypeOK
  <1> QED
    BY <1>1, <1>2, <1>3, PutKeeps

LEMMA ServerNoiseKeeps == IInv /\ ~cut /\ ServerNoise => IInv'
  <1> SUFFICES ASSUME IInv, ~cut, ServerNoise PROVE IInv'
    OBVIOUS
  <1> DEFINE Others == {[kind |-> "event"], [kind |-> "garbage"],
                        [kind |-> "res", to |-> "other", body |-> "empty"]}
  <1> PICK f \in Others : Put(f)
    BY DEF ServerNoise
  <1>1. f \in Frames /\ f.kind # "chunk" /\ ~Good(f)
    BY DEF Frames, Good
  <1>2. UNCHANGED <<pc, full, result, server, sent, open, cut>>
    BY DEF ServerNoise, client, serving
  <1>3. noise' \in 0..MaxNoise
    BY ChatAssumption DEF ServerNoise, IInv, TypeOK
  <1> QED
    BY <1>1, <1>2, <1>3, PutKeeps

LEMMA BreakKeeps == IInv /\ Break => IInv'
  <1> SUFFICES ASSUME IInv, Break PROVE IInv'
    OBVIOUS
  <1> USE DEF IInv
  <1> PICK m \in 0..Len(wire) : wire' = SubSeq(wire, 1, m)
    BY DEF Break
  <1>1. /\ wire \in Seq(Frames) /\ Len(full) \in Nat /\ sent \in Nat
        /\ Stream(wire, Len(full), sent)
        /\ ~cut /\ cut' = TRUE /\ server' = "over"
        /\ UNCHANGED <<pc, full, result, sent, open, noise>>
    BY ChatAssumption DEF Break, client, TypeOK, Streaming
  <1>2. wire' \in Seq(Frames) /\ Stream(wire', Len(full), sent)
    BY <1>1, LoseTail
  <1>3. TypeOK'
    BY <1>1, <1>2 DEF TypeOK
  <1>4. Early' /\ Collected' /\ Outcome'
    BY <1>1 DEF Early, Collected, Outcome, Honest
  <1>5. Streaming'
    BY <1>1, <1>2 DEF Streaming
  <1> QED
    BY <1>3, <1>4, <1>5

LEMMA NextKeeps == IInv /\ [Next]_vars => IInv'
  <1> SUFFICES ASSUME IInv, [Next]_vars PROVE IInv'
    OBVIOUS
  <1>1. CASE Dial \/ Handshake \/ Send \/ ReadFrame \/ ReadFails
    BY <1>1, DialKeeps, HandshakeKeeps, SendKeeps, ReadFrameKeeps, ReadFailsKeeps
  <1>2. CASE Server
    BY <1>2, ServerConnectKeeps, ServerChunkKeeps, ServerCompletesKeeps,
       ServerRespondsKeeps, ServerNoiseKeeps DEF Server
  <1>3. CASE Break
    BY <1>3, BreakKeeps
  <1>4. CASE UNCHANGED vars
    BY <1>4 DEF IInv, TypeOK, Early, Collected, Streaming, Outcome, Honest,
                vars, client, serving, link
  <1> QED
    BY <1>1, <1>2, <1>3, <1>4 DEF Next

\* The invariant holds in every state the client, the server and the link reach.
THEOREM SpecIInv == Spec => []IInv
  BY InitIInv, NextKeeps, PTL DEF Spec

-----------------------------------------------------------------------------
\* The types of the client, the server and the frames between them.
THEOREM ChatTypes == Spec => []TypeOK
  <1>1. IInv => TypeOK
    BY DEF IInv
  <1> QED
    BY SpecIInv, <1>1, PTL

\* ChatSendSync returns the chunks in the order they were streamed, without a
\* gap and none twice, however the server ends and the link breaks.
THEOREM InOrder == Spec => []AnswerInOrder
  <1>1. IInv => AnswerInOrder
    <2> SUFFICES ASSUME IInv, result.ok PROVE result.content \in Prefixes
      BY DEF AnswerInOrder
    <2>1. Parts \subseteq Prefixes
      BY ChatAssumption DEF Parts, Prefixes
    <2>2. Answer \in Parts
      <3>1. Answer # <<>> /\ \A i \in DOMAIN Answer : Answer[i] = i
        BY AnswerType, ChatAssumption DEF Answer, Chunks
      <3> QED
        BY <3>1, AnswerType, CollectedIsPart
    <2>3. result # Failed
      BY DEF Failed
    <2>4. SubSeq(Answer, 1, sent) \in Prefixes
      BY DEF IInv, TypeOK, Prefixes
    <2>5. Honest(result)
      BY DEF IInv, Outcome
    <2>6. \/ result.content \in Parts
          \/ result.content = Answer
          \/ result.content = SubSeq(Answer, 1, sent)
      BY <2>3, <2>5 DEF Honest, Replied
    <2> QED
      BY <2>1, <2>2, <2>4, <2>6
  <1> QED
    BY SpecIInv, <1>1, PTL

\* ChatSendSync returns less than the server has streamed, or put in its response,
\* only when the link broke.
THEOREM ShortOnlyByLink == Spec => []CutOnlyByLink
  <1>1. IInv => CutOnlyByLink
    BY DEF IInv, Outcome, Honest, CutOnlyByLink, Failed, Replied
  <1> QED
    BY SpecIInv, <1>1, PTL
=============================================================================
