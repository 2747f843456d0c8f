--------------------------- MODULE NodeConnProofs ---------------------------
(***************************************************************************)
(* Proofs about NodeConn, for any number of requests, any channel capacity *)
(* and streams of any length.  The invariant has four parts: the order and *)
(* completeness of the chunks in each channel, what a done message in a    *)
(* channel tells, that whoever receives is in the pending map or has been  *)
(* sent the error of Close, and who holds which lock.                      *)
(***************************************************************************)
EXTENDS NodeConn, TLAPS

-----------------------------------------------------------------------------
(* What a channel with the messages q holds for a request that has passed  *)
(* on g chunks of the d delivered ones.                                    *)

HasChunk(q, n) == \E i \in 1..Len(q) : q[i].type = "chunk" /\ q[i].n = n
HasGone(q)     == \E i \in 1..Len(q) : q[i].type = "gone"
HasDone(q)     == \E i \in 1..Len(q) : q[i].type = "done"

\* The chunks are later than what was passed on, and in order.
Ordered(q, g, d) ==
    /\ g <= d
    /\ \A i \in 1..Len(q) : q[i].type = "chunk" => g < q[i].n /\ q[i].n <= d
    /\ \A i, j \in 1..Len(q) :
          q[i].type = "chunk" /\ q[j].type = "chunk" /\ i < j => q[i].n < q[j].n

\* None is missing.
Complete(q, g, d) == \A n \in (g + 1)..d : HasChunk(q, n)

\* No chunk comes after a done message.
DoneLast(q) ==
    \A i, j \in 1..Len(q) : q[i].type = "done" /\ q[j].type = "chunk" => j < i

\* The error of Close comes before any done message.
GoneFirst(q) ==
    \A i \in 1..Len(q) : q[i].type = "done" =>
        \E j \in 1..Len(q) : j < i /\ q[j].type = "gone"

-----------------------------------------------------------------------------
(* The invariant.                                                          *)

\* SendInference is between its entry in the map and its return; the request
\* has not been written yet.
Receiving(r) == pc[r] \in {"write", "select", "sink"}
Early(r)     == pc[r] \in {"idle", "register", "write"}

\* Chunks are in order in every channel, and complete in those that are still
\* in the pending map; before a request is written its node sends nothing.
StreamOf(r) ==
    /\ Ordered(ch[r], got[r], Delivered(r))
    /\ r \in pending => Complete(ch[r], got[r], Delivered(r))
    /\ Carrying(r) => IF handler.msg.type = "chunk"
                      THEN r \notin nodeFin /\ handler.msg.n = nodeSent[r]
                      ELSE r \in nodeFin /\ handler.msg.type \in {"done", "error"}
    /\ Early(r) => /\ got[r] = 0 /\ nodeSent[r] = 0 /\ res[r] = "none"
                   /\ ~Carrying(r) /\ r \notin nodeFin

\* A done message is the last of its stream; unless the error of Close comes
\* first, all chunks of the stream are in front of it.
DoneOf(r) ==
    /\ HasDone(ch[r]) => r \in nodeFin /\ ~Carrying(r)
    /\ DoneLast(ch[r])
    /\ Receiving(r) => Complete(ch[r], got[r], Delivered(r)) \/ GoneFirst(ch[r])
    /\ res[r] = "nil" => got[r] = nodeSent[r] /\ r \in nodeFin /\ ~Receiving(r)

\* Nobody receives without a pending entry or the error of Close, not even in
\* the middle of Close.
WakeOf(r) ==
    /\ Receiving(r) => r \in pending \/ HasGone(ch[r])
    /\ mu # Free /\ r \in pending \ todo /\ Receiving(r) => HasGone(ch[r])

StreamOK == \A r \in Requests : StreamOf(r) /\ DoneOf(r)
WakeOK   == \A r \in Requests : WakeOf(r)

\* Who holds the two locks, and what the handler has achieved on its way out.
LockOK ==
    /\ \A a \in Closers : mu = a <=> closing[a] = "notify"
    /\ mu = Free => todo = {}
    /\ regMu = "handler" <=> handler.at = "removing"
    /\ regMu = "admin" <=> closing["admin"] # "none"
    /\ closing["handler"] # "none" <=> handler.at \in {"removing", "closing"}
    /\ ~replaced =>
          /\ ~inReg => ~open
          /\ handler.at \in {"exit", "closing", "gone"} => ~open
          /\ \/ handler.at = "gone"
             \/ handler.at = "closing" /\ closing["handler"] = "socket"
             => \A r \in pending : pc[r] \notin {"select", "sink"}

\* The inductive invariant.
ConnInv == TypeOK /\ StreamOK /\ WakeOK /\ LockOK

-----------------------------------------------------------------------------
(* Sending to and receiving from a channel.                                *)

\* ch <- m of something else than a chunk.
LEMMA SendOther ==
    ASSUME NEW q \in Seq(Messages), NEW m \in Messages, m.type # "chunk",
           NEW g \in Int, NEW d \in Int
    PROVE  LET p == Append(q, m)
           IN  /\ p \in Seq(Messages) /\ Len(p) = Len(q) + 1
               /\ Ordered(q, g, d) => Ordered(p, g, d)
               /\ Complete(q, g, d) => Complete(p, g, d)
               /\ DoneLast(q) => DoneLast(p)
               /\ HasDone(p) => HasDone(q) \/ m.type = "done"
               /\ GoneFirst(q) /\ (m.type # "done" \/ HasGone(q)) => GoneFirst(p)
<1> DEFINE p == Append(q, m)
<1>1. /\ p \in Seq(Messages) /\ Len(p) = Len(q) + 1 /\ Len(q) \in Nat
      /\ \A i \in 1..Len(q) : p[i] = q[i]
      /\ p[Len(q) + 1] = m
  OBVIOUS
<1>2. \A i \in 1..Len(p) : i \in 1..Len(q) \/ i = Len(q) + 1
  BY <1>1
<1>3. \A i \in 1..Len(q) : i \in 1..Len(p)
  BY <1>1
<1> HIDE DEF p
<1>4. Ordered(q, g, d) => Ordered(p, g, d)
  BY <1>1, <1>2 DEF Ordered
<1>5. Complete(q, g, d) => Complete(p, g, d)
  BY <1>1, <1>3 DEF Complete, HasChunk
<1>6. DoneLast(q) => DoneLast(p)
  BY <1>1, <1>2 DEF DoneLast
<1>7. HasDone(p) => HasDone(q) \/ m.type = "done"
  BY <1>1, <1>2 DEF HasDone
<1>8. GoneFirst(q) /\ (m.type # "done" \/ HasGone(q)) => GoneFirst(p)
  BY <1>1, <1>2, <1>3 DEF GoneFirst, HasGone
<1> QED
  BY <1>1, <1>4, <1>5, <1>6, <1>7, <1>8 DEF p

\* ch <- m of the next chunk.
LEMMA SendChunk ==
    ASSUME NEW q \in Seq(Messages), NEW m \in Messages, m.type = "chunk",
           NEW g \in Int, NEW d \in Int, m.n = d + 1
    PROVE  LET p == Append(q, m)
           IN  /\ p \in Seq(Messages) /\ Len(p) = Len(q) + 1
               /\ Ordered(q, g, d) => Ordered(p, g, d + 1)
               /\ Complete(q, g, d) => Complete(p, g, d + 1)
               /\ ~HasDone(q) => DoneLast(p) /\ ~HasDone(p) /\ GoneFirst(p)
<1> DEFINE p == Append(q, m)
<1>1. /\ p \in Seq(Messages) /\ Len(p) = Len(q) + 1 /\ Len(q) \in Nat
      /\ \A i \in 1..Len(q) : p[i] = q[i]
      /\ p[Len(q) + 1] = m
  OBVIOUS
<1>2. \A i \in 1..Len(p) : i \in 1..Len(q) \/ i = Len(q) + 1
  BY <1>1
<1>3. \A i \in 1..Len(q) : i \in 1..Len(p)
  BY <1>1
<1>4. Len(q) + 1 \in 1..Len(p)
  BY <1>1
<1>5. \A i \in 1..Len(q) : q[i].type = "chunk" => q[i].n \in Int
  BY DEF Messages, Chunk, Done, Error, Gone
<1> HIDE DEF p
<1>6. Ordered(q, g, d) => Ordered(p, g, d + 1)
  <2> SUFFICES ASSUME Ordered(q, g, d) PROVE Ordered(p, g, d + 1)
    OBVIOUS
  <2>1. \A i \in 1..Len(p) : p[i].type = "chunk" => g < p[i].n /\ p[i].n <= d + 1
    BY <1>1, <1>2, <1>5 DEF Ordered
  <2>2. ASSUME NEW i \in 1..Len(p), NEW j \in 1..Len(p), p[i].type = "chunk",
               p[j].type = "chunk", i < j
        PROVE  p[i].n < p[j].n
    <3>1. i \in 1..Len(q)
      BY <1>1, <2>2
    <3>2. CASE j \in 1..Len(q)
      BY <1>1, <2>2, <3>1, <3>2 DEF Ordered
    <3>3. CASE j = Len(q) + 1
      BY <1>1, <1>5, <2>2, <3>1, <3>3 DEF Ordered
    <3> QED
      BY <1>2, <3>2, <3>3
  <2> QED
    BY <2>1, <2>2 DEF Ordered
<1>7. Complete(q, g, d) => Complete(p, g, d + 1)
  <2> SUFFICES ASSUME Complete(q, g, d), NEW n \in (g + 1)..(d + 1)
               PROVE  HasChunk(p, n)
    BY DEF Complete
  <2>1. CASE n = d + 1
    BY <1>1, <1>4, <2>1 DEF HasChunk
  <2>2. CASE n \in (g + 1)..d
    BY <1>1, <1>3, <2>2 DEF HasChunk, Complete
  <2> QED
    BY <2>1, <2>2
<1>8. ~HasDone(q) => DoneLast(p) /\ ~HasDone(p) /\ GoneFirst(p)
  <2> SUFFICES ASSUME ~HasDone(q) PROVE DoneLast(p) /\ ~HasDone(p) /\ GoneFirst(p)
    OBVIOUS
  <2>1. \A i \in 1..Len(p) : p[i].type # "done"
    BY <1>1, <1>2 DEF HasDone
  <2> QED
    BY <2>1 DEF DoneLast, HasDone, GoneFirst
<1> QED
  BY <1>1, <1>6, <1>7, <1>8 DEF p

\* Whatever is sent, the error of Close stays in the channel.
LEMMA SendGone ==
    ASSUME NEW q \in Seq(Messages), NEW m \in Messages
    PROVE  HasGone(q) \/ m.type = "gone" => HasGone(Append(q, m))
<1> DEFINE p == Append(q, m)
<1>1. /\ Len(p) = Len(q) + 1 /\ Len(q) \in Nat /\ p[Len(q) + 1] = m
      /\ \A i \in 1..Len(q) : p[i] = q[i] /\ i \in 1..Len(p)
      /\ Len(q) + 1 \in 1..Len(p)
  OBVIOUS
<1> HIDE DEF p
<1>2. HasGone(q) \/ m.type = "gone" => HasGone(p)
  BY <1>1 DEF HasGone
<1> QED
  BY <1>2 DEF p

\* m := <-ch.
LEMMA Taken ==
    ASSUME NEW q \in Seq(Messages), q # <<>>, NEW g \in Int, NEW d \in Int
    PROVE  LET p == Tail(q)
               m == Head(q)
           IN  /\ p \in Seq(Messages) /\ Len(p) = Len(q) - 1 /\ m \in Messages
               /\ m.type # "chunk" =>
                     /\ Ordered(q, g, d) => Ordered(p, g, d)
                     /\ Complete(q, g, d) => Complete(p, g, d)
               /\ m.type = "chunk" /\ Ordered(q, g, d) =>
                     /\ g + 1 <= d
                     /\ Ordered(p, g + 1, d)
                     /\ Complete(q, g, d) => Complete(p, g + 1, d)
               /\ DoneLast(q) => DoneLast(p)
               /\ HasDone(p) => HasDone(q)
               /\ m.type # "gone" => /\ HasGone(q) => HasGone(p)
                                     /\ GoneFirst(q) => GoneFirst(p)
               /\ m.type = "done" =>
                     /\ HasDone(q) /\ ~GoneFirst(q)
                     /\ DoneLast(q) /\ Ordered(q, g, d) /\ Complete(q, g, d) => g = d
<1> DEFINE p == Tail(q)
           m == Head(q)
<1>1. /\ p \in Seq(Messages) /\ Len(p) = Len(q) - 1 /\ Len(q) \in Nat /\ Len(q) > 0
      /\ \A i \in 1..Len(p) : p[i] = q[i + 1]
      /\ q[1] = m /\ m \in Messages
  OBVIOUS
<1>2. \A i \in 1..Len(p) : i + 1 \in 1..Len(q)
  BY <1>1
<1>3. \A i \in 1..Len(q) : i = 1 \/ (i - 1 \in 1..Len(p) /\ p[i - 1] = q[i])
  BY <1>1
<1>4. 1 \in 1..Len(q)
  BY <1>1
<1>5. \A i \in 1..Len(q) : q[i].type = "chunk" => q[i].n \in Int
  BY DEF Messages, Chunk, Done, Error, Gone
<1> HIDE DEF p, m
<1>6. ASSUME m.type # "chunk" PROVE /\ Ordered(q, g, d) => Ordered(p, g, d)
                                    /\ Complete(q, g, d) => Complete(p, g, d)
  <2>1. ASSUME Ordered(q, g, d) PROVE Ordered(p, g, d)
    <3>1. \A i \in 1..Len(p) : p[i].type = "chunk" => g < p[i].n /\ p[i].n <= d
      BY <1>1, <1>2, <2>1 DEF Ordered
    <3>2. ASSUME NEW i \in 1..Len(p), NEW j \in 1..Len(p), p[i].type = "chunk",
                 p[j].type = "chunk", i < j
          PROVE  p[i].n < p[j].n
      <4>1. /\ i + 1 \in 1..Len(q) /\ j + 1 \in 1..Len(q) /\ i + 1 < j + 1
            /\ p[i] = q[i + 1] /\ p[j] = q[j + 1]
        BY <1>1, <1>2, <3>2
      <4> QED
        BY <2>1, <3>2, <4>1 DEF Ordered
    <3> QED
      BY <2>1, <3>1, <3>2 DEF Ordered
  <2>2. ASSUME Complete(q, g, d), NEW n \in (g + 1)..d PROVE HasChunk(p, n)
    <3>1. PICK i \in 1..Len(q) : q[i].type = "chunk" /\ q[i].n = n
      BY <2>2 DEF Complete, HasChunk
    <3>2. i # 1
      BY <1>1, <1>6, <3>1
    <3> QED
      BY <1>3, <3>1, <3>2 DEF HasChunk
  <2> QED
    BY <2>1, <2>2 DEF Complete
<1>7. ASSUME m.type = "chunk", Ordered(q, g, d)
      PROVE  /\ g + 1 <= d
             /\ Ordered(p, g + 1, d)
             /\ Complete(q, g, d) => Complete(p, g + 1, d)
  <2>1. g < q[1].n /\ q[1].n <= d /\ q[1].n \in Int
    BY <1>1, <1>4, <1>5, <1>7 DEF Ordered
  <2>2. \A i \in 1..Len(p) : p[i].type = "chunk" => q[1].n < p[i].n /\ p[i].n <= d
    BY <1>1, <1>2, <1>4, <1>7 DEF Ordered
  <2>3. Ordered(p, g + 1, d)
    <3>1. \A i \in 1..Len(p) : p[i].type = "chunk" => p[i].n \in Int
      BY <1>1, <1>2, <1>5
    <3>2. \A i \in 1..Len(p) : p[i].type = "chunk" => g + 1 < p[i].n /\ p[i].n <= d
      BY <2>1, <2>2, <3>1
    <3>3. ASSUME NEW i \in 1..Len(p), NEW j \in 1..Len(p), p[i].type = "chunk",
                 p[j].type = "chunk", i < j
          PROVE  p[i].n < p[j].n
      <4>1. /\ i + 1 \in 1..Len(q) /\ j + 1 \in 1..Len(q) /\ i + 1 < j + 1
            /\ p[i] = q[i + 1] /\ p[j] = q[j + 1]
        BY <1>1, <1>2, <3>3
      <4> QED
        BY <1>7, <3>3, <4>1 DEF Ordered
    <3> QED
      BY <2>1, <3>2, <3>3 DEF Ordered
  <2>4. ASSUME Complete(q, g, d), NEW n \in (g + 2)..d PROVE HasChunk(p, n)
    <3>1. HasChunk(q, g + 1)
      BY <2>1, <2>4 DEF Complete
    <3>2. q[1].n = g + 1
      <4>1. PICK i \in 1..Len(q) : q[i].type = "chunk" /\ q[i].n = g + 1
        BY <3>1 DEF HasChunk
      <4>2. CASE i = 1
        BY <4>1, <4>2
      <4>3. CASE i > 1
        BY <1>1, <1>4, <1>7, <2>1, <4>1, <4>3 DEF Ordered
      <4> QED
        BY <4>2, <4>3
    <3>3. PICK i \in 1..Len(q) : q[i].type = "chunk" /\ q[i].n = n
      BY <2>4 DEF Complete, HasChunk
    <3>4. i # 1
      BY <3>2, <3>3
    <3> QED
      BY <1>3, <3>3, <3>4 DEF HasChunk
  <2>5. (g + 1) + 1 = g + 2
    OBVIOUS
  <2> QED
    BY <2>1, <2>3, <2>4, <2>5 DEF Complete
<1>8. DoneLast(q) => DoneLast(p)
  BY <1>1, <1>2 DEF DoneLast
<1>9. HasDone(p) => HasDone(q)
  BY <1>1, <1>2 DEF HasDone
<1>10. ASSUME m.type # "gone" PROVE /\ HasGone(q) => HasGone(p)
                                    /\ GoneFirst(q) => GoneFirst(p)
  <2>1. HasGone(q) => HasGone(p)
    BY <1>1, <1>3, <1>10 DEF HasGone
  <2>2. ASSUME GoneFirst(q), NEW i \in 1..Len(p), p[i].type = "done"
        PROVE  \E j \in 1..Len(p) : j < i /\ p[j].type = "gone"
    <3>1. PICK j \in 1..Len(q) : j < i + 1 /\ q[j].type = "gone"
      BY <1>1, <1>2, <2>2 DEF GoneFirst
    <3>2. j # 1
      BY <1>1, <1>10, <3>1
    <3>3. j - 1 \in 1..Len(p) /\ p[j - 1].type = "gone" /\ j - 1 < i
      BY <1>3, <3>1, <3>2
    <3> QED
      BY <3>3
  <2> QED
    BY <2>1, <2>2 DEF GoneFirst
<1>11. ASSUME m.type = "done"
       PROVE  /\ HasDone(q) /\ ~GoneFirst(q)
              /\ DoneLast(q) /\ Ordered(q, g, d) /\ Complete(q, g, d) => g = d
  <2>1. HasDone(q) /\ ~GoneFirst(q)
    BY <1>1, <1>4, <1>11 DEF HasDone, GoneFirst
  <2>2. ASSUME DoneLast(q), Ordered(q, g, d), Complete(q, g, d), g # d PROVE FALSE
    <3>1. HasChunk(q, g + 1)
      BY <2>2 DEF Ordered, Complete
    <3> QED
      BY <1>1, <1>4, <1>11, <2>2, <3>1 DEF HasChunk, DoneLast
  <2> QED
    BY <2>1, <2>2
<1> QED
  BY <1>1, <1>6, <1>7, <1>8, <1>9, <1>10, <1>11 DEF p, m

\* A new channel is empty.
LEMMA EmptyChannel ==
    /\ <<>> \in Seq(Messages) /\ Len(<<>>) = 0
    /\ Ordered(<<>>, 0, 0) /\ Complete(<<>>, 0, 0)
    /\ DoneLast(<<>>) /\ ~HasDone(<<>>) /\ GoneFirst(<<>>)
  BY DEF Ordered, Complete, DoneLast, HasDone, GoneFirst


-----------------------------------------------------------------------------
(* Steps that leave the stream of a request alone.                         *)

\* The handler has a message in its hands in two places only.
LEMMA HandlerFacts ==
    ASSUME TypeOK
    PROVE  /\ handler.at \in {"lookup", "push"} =>
                 /\ handler.to \in Requests /\ handler.msg \in Messages
                 /\ handler = [at |-> handler.at, to |-> handler.to, msg |-> handler.msg]
           /\ \A r \in Requests : Delivered(r) \in Int /\ Delivered(r) <= nodeSent[r]
<1>1. handler \in Handlers
  BY DEF TypeOK
<1>2. handler.at \in {"lookup", "push"} =>
         /\ handler.to \in Requests /\ handler.msg \in Messages
         /\ handler = [at |-> handler.at, to |-> handler.to, msg |-> handler.msg]
  BY <1>1 DEF Handlers, At
<1>3. ASSUME NEW r \in Requests
      PROVE  Delivered(r) \in Int /\ Delivered(r) <= nodeSent[r]
  <2>1. nodeSent[r] \in Int
    BY NodeConnAssumption DEF TypeOK
  <2>2. CASE Carrying(r) /\ handler.msg.type = "chunk"
    <3>1. Delivered(r) = nodeSent[r] - 1
      BY <2>2 DEF Delivered
    <3> QED
      BY <2>1, <3>1
  <2>3. CASE ~(Carrying(r) /\ handler.msg.type = "chunk")
    <3>1. Delivered(r) = nodeSent[r] - 0
      BY <2>3 DEF Delivered
    <3> QED
      BY <2>1, <3>1
  <2> QED
    BY <2>2, <2>3
<1> QED
  BY <1>2, <1>3

\* The handler goes from one place without a message to another, or keeps
\* the message it has.
SameCarried(r) ==
    /\ Carrying(r)' <=> Carrying(r)
    /\ Carrying(r) => handler'.msg = handler.msg

\* The stream of r is as it was when nothing of it changes and r does not
\* begin to receive.
LEMMA QuietStream ==
    ASSUME NEW r \in Requests, StreamOf(r), DoneOf(r), SameCarried(r),
           ch'[r] = ch[r], got'[r] = got[r], nodeSent'[r] = nodeSent[r],
           r \in nodeFin' <=> r \in nodeFin,
           r \in pending' => r \in pending,
           Receiving(r)' => Receiving(r),
           Early(r)' => Early(r) /\ res'[r] = res[r],
           res'[r] = "nil" => res[r] = "nil"
    PROVE  StreamOf(r)' /\ DoneOf(r)'
<1>1. Delivered(r)' = Delivered(r)
  BY DEF Delivered, SameCarried
<1>2. StreamOf(r)'
  BY <1>1 DEF StreamOf, SameCarried
<1>3. DoneOf(r)'
  BY <1>1 DEF DoneOf, SameCarried
<1> QED
  BY <1>2, <1>3

-----------------------------------------------------------------------------
(* The stream of each request, action by action.                           *)

\* A request enters the map with an empty channel.
LEMMA RegisterStream ==
    ASSUME ConnInv, NEW r \in Requests, RegisterPending(r)
    PROVE  StreamOK'
<1>1. ASSUME NEW q \in Requests, q # r PROVE StreamOf(q)' /\ DoneOf(q)'
  <2>1. /\ ch'[q] = ch[q] /\ got'[q] = got[q] /\ nodeSent'[q] = nodeSent[q]
        /\ nodeFin' = nodeFin /\ res' = res /\ pc'[q] = pc[q] /\ handler' = handler
        /\ (q \in pending' => q \in pending)
    BY <1>1 DEF ConnInv, TypeOK, RegisterPending, Goto, nodeVars
  <2>2. SameCarried(q) /\ (Receiving(q)' => Receiving(q)) /\ (Early(q)' => Early(q))
    BY <2>1 DEF SameCarried, Carrying, Receiving, Early
  <2> QED
    BY <2>1, <2>2, QuietStream DEF ConnInv, StreamOK
<1>2. StreamOf(r)' /\ DoneOf(r)'
  <2>1. /\ ch'[r] = <<>> /\ got'[r] = 0 /\ nodeSent'[r] = 0 /\ ~Carrying(r)'
        /\ r \notin nodeFin' /\ res'[r] = "none"
    BY DEF ConnInv, TypeOK, StreamOK, StreamOf, Early, RegisterPending, Carrying,
           nodeVars
  <2>2. Delivered(r)' = 0 - 0
    BY <2>1 DEF Delivered, Carrying
  <2> QED
    BY <2>1, <2>2, EmptyChannel DEF StreamOf, DoneOf
<1> QED
  BY <1>1, <1>2 DEF StreamOK

\* A message is taken: one chunk more is passed on, or the request leaves,
\* with success only if it has all chunks.
LEMMA ReceiveStream ==
    ASSUME ConnInv, NEW r \in Requests, Receive(r)
    PROVE  StreamOK' /\ got'[r] \in 0..MaxChunks
<1> USE NodeConnAssumption
<1>1. ASSUME NEW q \in Requests, q # r PROVE StreamOf(q)' /\ DoneOf(q)'
  <2>1. /\ ch'[q] = ch[q] /\ got'[q] = got[q] /\ nodeSent' = nodeSent
        /\ nodeFin' = nodeFin /\ res'[q] = res[q] /\ pc'[q] = pc[q]
        /\ handler' = handler /\ pending' = pending
    BY <1>1 DEF ConnInv, TypeOK, Receive, Goto, Leave, nodeVars
  <2>2. SameCarried(q) /\ (Receiving(q)' => Receiving(q)) /\ (Early(q)' => Early(q))
    BY <2>1 DEF SameCarried, Carrying, Receiving, Early
  <2> QED
    BY <2>1, <2>2, QuietStream DEF ConnInv, StreamOK
<1> DEFINE m == Head(ch[r])
           d == Delivered(r)
<1>2. /\ ch[r] \in Seq(Messages) /\ ch[r] # <<>> /\ pc[r] = "select"
      /\ got[r] \in 0..MaxChunks /\ nodeSent[r] \in 0..MaxChunks
      /\ d \in Int /\ d <= nodeSent[r] /\ got[r] \in Int
  BY HandlerFacts DEF ConnInv, TypeOK, Receive
<1>3. /\ ch'[r] = Tail(ch[r]) /\ nodeSent' = nodeSent /\ nodeFin' = nodeFin
      /\ handler' = handler /\ pending' = pending
  BY DEF ConnInv, TypeOK, Receive, nodeVars
<1>4. (Carrying(r)' <=> Carrying(r)) /\ d' = d
  BY <1>3 DEF Carrying, Delivered
<1>5. StreamOf(r) /\ DoneOf(r) /\ Receiving(r) /\ res[r] # "nil"
  BY <1>2 DEF ConnInv, StreamOK, DoneOf, Receiving
<1> HIDE DEF d
<1>6. CASE m.type = "chunk"
  <2>1. got'[r] = got[r] + 1 /\ pc'[r] = "sink" /\ res' = res
    BY <1>6 DEF ConnInv, TypeOK, Receive, Goto
  <2>2. /\ got[r] + 1 <= d /\ Ordered(ch'[r], got'[r], d)
        /\ Complete(ch[r], got[r], d) => Complete(ch'[r], got'[r], d)
        /\ DoneLast(ch[r]) => DoneLast(ch'[r])
        /\ HasDone(ch'[r]) => HasDone(ch[r])
        /\ GoneFirst(ch[r]) => GoneFirst(ch'[r])
    <3>1. Ordered(ch[r], got[r], d)
      BY <1>5 DEF StreamOf, d
    <3> QED
      BY <1>2, <1>3, <1>6, <2>1, <3>1, Taken
  <2>3. got'[r] \in 0..MaxChunks
    BY <1>2, <2>1, <2>2
  <2>4. StreamOf(r)'
    BY <1>3, <1>4, <1>5, <2>1, <2>2 DEF StreamOf, Early, d
  <2>5. DoneOf(r)'
    BY <1>3, <1>4, <1>5, <2>1, <2>2 DEF DoneOf, d
  <2> QED
    BY <1>1, <2>3, <2>4, <2>5 DEF StreamOK
<1>7. CASE m.type # "chunk"
  <2>1. /\ got' = got /\ pc'[r] = "unregister"
        /\ res'[r] = IF m.type = "done" THEN "nil" ELSE "err"
    BY <1>7 DEF ConnInv, TypeOK, Receive, Goto, Leave
  <2>2. /\ Ordered(ch[r], got[r], d) => Ordered(ch'[r], got[r], d)
        /\ Complete(ch[r], got[r], d) => Complete(ch'[r], got[r], d)
        /\ DoneLast(ch[r]) => DoneLast(ch'[r])
        /\ HasDone(ch'[r]) => HasDone(ch[r])
    BY <1>2, <1>3, <1>7, Taken, SMTT(30)
  <2>3. StreamOf(r)'
    BY <1>3, <1>4, <1>5, <2>1, <2>2 DEF StreamOf, Early, d
  <2>4. ASSUME m.type = "done" PROVE got[r] = nodeSent[r] /\ r \in nodeFin
    <3>1. /\ HasDone(ch[r]) /\ ~GoneFirst(ch[r])
          /\ (DoneLast(ch[r]) /\ Ordered(ch[r], got[r], d)
                /\ Complete(ch[r], got[r], d)) => got[r] = d
      BY <1>2, <2>4, Taken
    <3>2. r \in nodeFin /\ ~Carrying(r) /\ got[r] = d
      BY <1>5, <3>1 DEF StreamOf, DoneOf, d
    <3>3. d = nodeSent[r]
      BY <1>2, <3>2 DEF d, Delivered
    <3> QED
      BY <3>2, <3>3
  <2>5. DoneOf(r)'
    BY <1>3, <1>4, <1>5, <2>1, <2>2, <2>4 DEF DoneOf, Receiving, d
  <2> QED
    BY <1>1, <1>2, <2>1, <2>3, <2>5 DEF StreamOK
<1> QED
  BY <1>6, <1>7

\* The read loop takes the next message of a request off the socket.
LEMMA ReadStream ==
    ASSUME ConnInv, NEW r \in Requests, ReadMessage(r)
    PROVE  StreamOK'
<1>1. /\ ch' = ch /\ got' = got /\ res' = res /\ pc' = pc /\ pending' = pending
      /\ handler'.at = "lookup" /\ handler'.to = r /\ handler.at = "read"
  BY DEF ReadMessage, requestVars
<1>2. ASSUME NEW q \in Requests, q # r PROVE StreamOf(q)' /\ DoneOf(q)'
  <2>1. nodeSent'[q] = nodeSent[q] /\ (q \in nodeFin' <=> q \in nodeFin)
    BY <1>2 DEF ConnInv, TypeOK, ReadMessage
  <2>2. SameCarried(q) /\ (Receiving(q)' <=> Receiving(q)) /\ (Early(q)' <=> Early(q))
    BY <1>1, <1>2 DEF SameCarried, Carrying, Receiving, Early
  <2> QED
    BY <1>1, <2>1, <2>2, QuietStream DEF ConnInv, StreamOK
<1>3. /\ ~Carrying(r) /\ Carrying(r)' /\ r \notin nodeFin
      /\ (Receiving(r)' <=> Receiving(r)) /\ ~Early(r) /\ ~Early(r)'
  BY <1>1 DEF Carrying, ReadMessage, Early, Receiving
<1>4. /\ \/ /\ handler'.msg.type = "chunk" /\ handler'.msg.n = nodeSent'[r]
            /\ nodeSent'[r] = nodeSent[r] + 1 /\ nodeFin' = nodeFin
         \/ /\ handler'.msg.type \in {"done", "error"}
            /\ nodeSent' = nodeSent /\ r \in nodeFin'
      /\ nodeSent[r] \in Int
  BY DEF ConnInv, TypeOK, ReadMessage, Chunk, Done, Error
<1>5. Delivered(r)' = Delivered(r)
  BY <1>3, <1>4 DEF Delivered
<1>6. StreamOf(r) /\ DoneOf(r)
  BY DEF ConnInv, StreamOK
<1>7. StreamOf(r)'
  BY <1>1, <1>3, <1>4, <1>5, <1>6 DEF StreamOf
<1>8. DoneOf(r)'
  BY <1>1, <1>3, <1>5, <1>6 DEF DoneOf
<1> QED
  BY <1>2, <1>7, <1>8 DEF StreamOK

\* deliver drops a message only when its request has no pending entry.
LEMMA LookupStream ==
    ASSUME ConnInv, DeliverLookup
    PROVE  StreamOK'
<1>1. /\ ch' = ch /\ got' = got /\ res' = res /\ pc' = pc /\ pending' = pending
      /\ nodeSent' = nodeSent /\ nodeFin' = nodeFin /\ handler.at = "lookup"
  BY DEF DeliverLookup, requestVars, nodeVars
<1>2. handler.to \in Requests
  BY <1>1, HandlerFacts DEF ConnInv
<1> SUFFICES ASSUME NEW r \in Requests PROVE StreamOf(r)' /\ DoneOf(r)'
  BY DEF StreamOK
<1>3. StreamOf(r) /\ DoneOf(r) /\ WakeOf(r)
  BY DEF ConnInv, StreamOK, WakeOK
<1>4. (Receiving(r)' <=> Receiving(r)) /\ (Early(r)' <=> Early(r))
  BY <1>1 DEF Receiving, Early
<1>5. CASE handler.to \in pending \/ handler.to # r
  <2>1. SameCarried(r)
    <3>1. CASE handler.to \in pending
      <4>1. handler' = [handler EXCEPT !.at = "push"]
        BY <3>1 DEF DeliverLookup
      <4>2. handler'.at = "push" /\ handler'.to = handler.to /\ handler'.msg = handler.msg
        BY <1>1, <4>1, HandlerFacts DEF ConnInv
      <4> QED
        BY <1>1, <4>2 DEF SameCarried, Carrying
    <3>2. CASE handler.to \notin pending
      BY <1>1, <1>5, <3>2 DEF SameCarried, Carrying, DeliverLookup, At
    <3> QED
      BY <3>1, <3>2
  <2> QED
    BY <1>1, <1>3, <1>4, <2>1, QuietStream
<1>6. CASE handler.to \notin pending /\ handler.to = r
  <2>1. Carrying(r) /\ ~Carrying(r)' /\ r \notin pending'
    BY <1>1, <1>6 DEF Carrying, DeliverLookup, At
  <2>2. ~HasDone(ch[r]) /\ ~Early(r)
    BY <1>3, <2>1 DEF StreamOf, DoneOf
  <2>3. GoneFirst(ch[r])
    BY <2>2 DEF GoneFirst, HasDone
  <2>4. /\ Delivered(r)' = nodeSent[r] - 0 /\ nodeSent[r] \in Int
        /\ Delivered(r) \in Int /\ Delivered(r) <= nodeSent[r]
    BY <1>1, <2>1, HandlerFacts, NodeConnAssumption DEF ConnInv, TypeOK, Delivered
  <2>5. Ordered(ch[r], got[r], Delivered(r)')
    <3>1. \A i \in 1..Len(ch[r]) : ch[r][i].type = "chunk" => ch[r][i].n \in Int
      <4>1. ch[r] \in Seq(Messages)
        BY DEF ConnInv, TypeOK
      <4> QED
        BY <4>1 DEF Messages, Chunk, Done, Error, Gone
    <3>2. got[r] \in Int
      BY NodeConnAssumption DEF ConnInv, TypeOK
    <3>3. Ordered(ch[r], got[r], Delivered(r))
      BY <1>3 DEF StreamOf
    <3> QED
      BY <2>4, <3>1, <3>2, <3>3 DEF Ordered
  <2>6. StreamOf(r)'
    BY <1>1, <1>4, <2>1, <2>2, <2>5 DEF StreamOf
  <2>7. DoneOf(r)'
    BY <1>1, <1>3, <1>4, <2>1, <2>2, <2>3 DEF DoneOf
  <2> QED
    BY <2>6, <2>7
<1> QED
  BY <1>5, <1>6

\* The message in the hands of the handler enters the channel.
LEMMA PushStream ==
    ASSUME ConnInv, DeliverPush
    PROVE  StreamOK'
<1>1. /\ got' = got /\ res' = res /\ pc' = pc /\ pending' = pending
      /\ nodeSent' = nodeSent /\ nodeFin' = nodeFin /\ handler.at = "push"
      /\ handler'.at = "read"
  BY DEF DeliverPush, requestVars, nodeVars, At
<1>2. \A q \in Requests : ~Carrying(q)'
  BY <1>1 DEF Carrying
<1>3. ASSUME NEW q \in Requests, q # handler.to PROVE StreamOf(q)' /\ DoneOf(q)'
  <2>1. ch'[q] = ch[q]
    BY <1>3 DEF ConnInv, TypeOK, DeliverPush
  <2>2. SameCarried(q) /\ (Receiving(q)' <=> Receiving(q)) /\ (Early(q)' <=> Early(q))
    BY <1>1, <1>2, <1>3 DEF SameCarried, Carrying, Receiving, Early
  <2> QED
    BY <1>1, <2>1, <2>2, QuietStream DEF ConnInv, StreamOK
<1>4. PICK r \in Requests : r = handler.to
  BY <1>1, HandlerFacts DEF ConnInv
<1> DEFINE m == handler.msg
           d == Delivered(r)
<1>5. /\ m \in Messages /\ ch[r] \in Seq(Messages) /\ ch'[r] = Append(ch[r], m)
      /\ got[r] \in Int /\ nodeSent[r] \in Int /\ d \in Int
  BY <1>1, <1>4, HandlerFacts, NodeConnAssumption DEF ConnInv, TypeOK, DeliverPush
<1>6. Carrying(r) /\ ~Carrying(r)' /\ (Receiving(r)' <=> Receiving(r))
  BY <1>1, <1>4 DEF Carrying, Receiving
<1>7. StreamOf(r) /\ DoneOf(r) /\ WakeOf(r)
  BY DEF ConnInv, StreamOK, WakeOK
<1>8. ~HasDone(ch[r]) /\ ~Early(r) /\ ~Early(r)'
  BY <1>1, <1>6, <1>7 DEF StreamOf, DoneOf, Early
<1>9. Delivered(r)' = nodeSent[r] - 0
  BY <1>1, <1>6 DEF Delivered
<1>10. CASE m.type = "chunk"
  <2>1. d = nodeSent[r] - 1
    BY <1>6, <1>10 DEF Delivered
  <2>2. m.n = nodeSent[r]
    BY <1>6, <1>7, <1>10 DEF StreamOf
  <2>3. m.n = d + 1 /\ Delivered(r)' = d + 1
    BY <1>5, <1>9, <2>1, <2>2
  <2> HIDE DEF d, m
  <2>4. /\ Ordered(ch[r], got[r], d) => Ordered(ch'[r], got[r], d + 1)
        /\ Complete(ch[r], got[r], d) => Complete(ch'[r], got[r], d + 1)
        /\ DoneLast(ch'[r]) /\ ~HasDone(ch'[r]) /\ GoneFirst(ch'[r])
    BY <1>5, <1>8, <1>10, <2>3, SendChunk
  <2>5. StreamOf(r)'
    BY <1>1, <1>6, <1>7, <1>8, <2>3, <2>4 DEF StreamOf, d
  <2>6. DoneOf(r)'
    BY <1>1, <1>6, <1>7, <2>3, <2>4 DEF DoneOf
  <2> QED
    BY <1>3, <1>4, <2>5, <2>6 DEF StreamOK
<1>11. CASE m.type # "chunk"
  <2>1. d = nodeSent[r] - 0
    BY <1>11 DEF Delivered
  <2>2. r \in nodeFin /\ m.type \in {"done", "error"} /\ Delivered(r)' = d
    BY <1>6, <1>7, <1>9, <1>11, <2>1 DEF StreamOf
  <2> HIDE DEF d, m
  <2>3. /\ Ordered(ch[r], got[r], d) => Ordered(ch'[r], got[r], d)
        /\ Complete(ch[r], got[r], d) => Complete(ch'[r], got[r], d)
        /\ DoneLast(ch[r]) => DoneLast(ch'[r])
        /\ (GoneFirst(ch[r]) /\ HasGone(ch[r])) => GoneFirst(ch'[r])
    BY <1>5, <1>11, SendOther
  <2>4. StreamOf(r)'
    BY <1>1, <1>6, <1>7, <1>8, <2>2, <2>3 DEF StreamOf, d
  <2>5. Receiving(r) => Complete(ch[r], got[r], d) \/ (GoneFirst(ch[r]) /\ HasGone(ch[r]))
    BY <1>7 DEF StreamOf, DoneOf, WakeOf, d
  <2>6. DoneOf(r)'
    BY <1>1, <1>6, <1>7, <2>2, <2>3, <2>5 DEF DoneOf
  <2> QED
    BY <1>3, <1>4, <2>4, <2>6 DEF StreamOK
<1> QED
  BY <1>10, <1>11

\* Close sends its error.
LEMMA NotifyStream ==
    ASSUME ConnInv, NEW a \in Closers, CloseNotify(a)
    PROVE  StreamOK'
<1>1. PICK r \in todo : ch' = [ch EXCEPT ![r] = Append(@, Gone)]
  BY DEF CloseNotify
<1>2. /\ got' = got /\ res' = res /\ pc' = pc /\ pending' = pending
      /\ nodeSent' = nodeSent /\ nodeFin' = nodeFin /\ handler' = handler
  BY DEF CloseNotify, requestVars, nodeVars
<1>3. \A q \in Requests : /\ SameCarried(q) /\ Delivered(q)' = Delivered(q)
                          /\ (Receiving(q)' <=> Receiving(q)) /\ (Early(q)' <=> Early(q))
  BY <1>2 DEF SameCarried, Carrying, Delivered, Receiving, Early
<1>4. ASSUME NEW q \in Requests, q # r PROVE StreamOf(q)' /\ DoneOf(q)'
  <2>1. ch'[q] = ch[q]
    BY <1>1, <1>4 DEF ConnInv, TypeOK
  <2> QED
    BY <1>2, <1>3, <2>1, QuietStream DEF ConnInv, StreamOK
<1>5. r \in Requests
  BY DEF ConnInv, TypeOK
<1> DEFINE d == Delivered(r)
<1>6. /\ ch[r] \in Seq(Messages) /\ ch'[r] = Append(ch[r], Gone)
      /\ got[r] \in Int /\ d \in Int
  BY <1>1, <1>5, HandlerFacts, NodeConnAssumption DEF ConnInv, TypeOK
<1>7. Gone \in Messages /\ Gone.type # "chunk" /\ Gone.type # "done"
  BY DEF Messages, Gone
<1> HIDE DEF d
<1>8. /\ Ordered(ch[r], got[r], d) => Ordered(ch'[r], got[r], d)
      /\ Complete(ch[r], got[r], d) => Complete(ch'[r], got[r], d)
      /\ DoneLast(ch[r]) => DoneLast(ch'[r])
      /\ HasDone(ch'[r]) => HasDone(ch[r])
      /\ GoneFirst(ch[r]) => GoneFirst(ch'[r])
  BY <1>6, <1>7, SendOther, SMTT(20)
<1>9. StreamOf(r) /\ DoneOf(r)
  BY <1>5 DEF ConnInv, StreamOK
<1>10. StreamOf(r)'
  BY <1>2, <1>3, <1>5, <1>8, <1>9 DEF StreamOf, SameCarried, d
<1>11. DoneOf(r)'
  BY <1>2, <1>3, <1>5, <1>8, <1>9 DEF DoneOf, SameCarried, d
<1> QED
  BY <1>4, <1>10, <1>11 DEF StreamOK

\* All other steps leave what was sent and received alone.
LEMMA QuietStep ==
    ASSUME ConnInv, ch' = ch, got' = got, nodeSent' = nodeSent, nodeFin' = nodeFin,
           pending' \subseteq pending,
           \A r \in Requests :
              /\ SameCarried(r)
              /\ pc'[r] = pc[r] \/ (pc[r] = "idle" /\ pc'[r] = "register")
                 \/ (pc[r] = "write" /\ pc'[r] = "select")
                 \/ (pc[r] = "sink" /\ pc'[r] = "select")
                 \/ pc'[r] \in {"unregister", "release", "returned"}
              /\ res'[r] = res[r] \/ (res'[r] = "err" /\ pc'[r] = "unregister")
    PROVE  StreamOK'
<1> SUFFICES ASSUME NEW r \in Requests PROVE StreamOf(r)' /\ DoneOf(r)'
  BY DEF StreamOK
<1>1. /\ Receiving(r)' => Receiving(r)
      /\ Early(r)' => Early(r) /\ res'[r] = res[r]
      /\ res'[r] = "nil" => res[r] = "nil"
  BY DEF Receiving, Early
<1> QED
  BY <1>1, QuietStream DEF ConnInv, StreamOK

\* Every step keeps the streams in order.
LEMMA StreamStep ==
    ASSUME ConnInv, [Next]_vars
    PROVE  StreamOK'
<1>1. ASSUME handler' = handler PROVE \A r \in Requests : SameCarried(r)
  BY <1>1 DEF SameCarried, Carrying
<1>2. ASSUME handler.at \notin {"lookup", "push"}, handler'.at \notin {"lookup", "push"}
      PROVE  \A r \in Requests : SameCarried(r)
  BY <1>2 DEF SameCarried, Carrying
<1>3. ASSUME NEW r \in Requests,
             \/ Reserve(r) \/ Write(r) \/ WriteFails(r) \/ SinkReturns(r)
             \/ ContextDone(r) \/ Unregister(r) \/ Release(r) \/ Expire(r)
      PROVE  StreamOK'
  <2>1. /\ ch' = ch /\ got' = got /\ nodeSent' = nodeSent /\ nodeFin' = nodeFin
        /\ pending' \subseteq pending /\ handler' = handler
    BY <1>3 DEF Reserve, Write, WriteFails, SinkReturns, ContextDone, Unregister,
                Release, Expire, requestVars, nodeVars
  <2>2. ASSUME NEW q \in Requests
        PROVE  /\ pc'[q] = pc[q] \/ (pc[q] = "idle" /\ pc'[q] = "register")
                  \/ (pc[q] = "write" /\ pc'[q] = "select")
                  \/ (pc[q] = "sink" /\ pc'[q] = "select")
                  \/ pc'[q] \in {"unregister", "release", "returned"}
               /\ res'[q] = res[q] \/ (res'[q] = "err" /\ pc'[q] = "unregister")
    <3>1. pc \in [Requests -> {"idle", "register", "write", "select", "sink",
                               "unregister", "release", "returned"}]
          /\ res \in [Requests -> {"none", "nil", "err"}]
      BY DEF ConnInv, TypeOK
    <3> QED
      BY <1>3, <3>1 DEF Reserve, Write, WriteFails, SinkReturns, ContextDone,
                        Unregister, Release, Expire, Goto, Leave, requestVars
  <2> QED
    BY <1>1, <2>1, <2>2, QuietStep
<1>4. CASE \/ ReadHeartbeat \/ Heartbeat \/ ReadFails \/ Remove \/ DeferredClose
  <2>1. /\ ch' = ch /\ got' = got /\ nodeSent' = nodeSent /\ nodeFin' = nodeFin
        /\ pending' = pending /\ pc' = pc /\ res' = res
        /\ handler.at \notin {"lookup", "push"} /\ handler'.at \notin {"lookup", "push"}
    BY <1>4 DEF ReadHeartbeat, Heartbeat, ReadFails, Remove, DeferredClose,
                requestVars, nodeVars, At
  <2> QED
    BY <1>2, <2>1, QuietStep
<1>5. ASSUME NEW a \in Closers, CloseLock(a) \/ CloseUnlock(a) PROVE StreamOK'
  <2>1. /\ ch' = ch /\ got' = got /\ nodeSent' = nodeSent /\ nodeFin' = nodeFin
        /\ pending' \subseteq pending /\ pc' = pc /\ res' = res /\ handler' = handler
    BY <1>5 DEF CloseLock, CloseUnlock, requestVars, nodeVars
  <2> QED
    BY <1>1, <2>1, QuietStep
<1>6. ASSUME NEW a \in Closers, CloseSocket(a) PROVE StreamOK'
  <2>1. /\ ch' = ch /\ got' = got /\ nodeSent' = nodeSent /\ nodeFin' = nodeFin
        /\ pending' = pending /\ pc' = pc /\ res' = res
    BY <1>6 DEF CloseSocket, requestVars, nodeVars
  <2>2. CASE a # "handler"
    <3>1. handler' = handler
      BY <1>6, <2>2 DEF CloseSocket
    <3> QED
      BY <1>1, <2>1, <3>1, QuietStep
  <2>3. CASE a = "handler"
    <3>1. handler.at \in {"removing", "closing"}
      BY <1>6, <2>3 DEF CloseSocket, ConnInv, LockOK
    <3>2. handler'.at \in {"exit", "gone"}
      BY <1>6, <2>3 DEF CloseSocket, At
    <3> QED
      BY <1>2, <2>1, <3>1, <3>2, QuietStep
  <2> QED
    BY <2>2, <2>3
<1>7. CASE RemoveProvider \/ Break \/ Reregister \/ UNCHANGED vars
  <2>1. /\ ch' = ch /\ got' = got /\ nodeSent' = nodeSent /\ nodeFin' = nodeFin
        /\ pending' = pending /\ pc' = pc /\ res' = res /\ handler' = handler
    BY <1>7 DEF RemoveProvider, Break, Reregister, vars, requestVars, nodeVars
  <2> QED
    BY <1>1, <2>1, QuietStep
<1> QED
  BY <1>3, <1>4, <1>5, <1>6, <1>7, RegisterStream, ReceiveStream, ReadStream,
     LookupStream, PushStream, NotifyStream
     DEF Next, RequestStep, HandlerStep, CloseStep

-----------------------------------------------------------------------------
(* The types and the capacity of the channels.                             *)

\* Every step keeps the types; no channel holds more than its capacity.
LEMMA TypeStep ==
    ASSUME ConnInv, [Next]_vars
    PROVE  TypeOK'
<1> USE NodeConnAssumption
<1>0. TypeOK
  BY DEF ConnInv
<1>1. ASSUME NEW r \in Requests,
             \/ Reserve(r) \/ Write(r) \/ WriteFails(r) \/ SinkReturns(r)
             \/ ContextDone(r) \/ Release(r) \/ Expire(r)
      PROVE  TypeOK'
  BY <1>0, <1>1 DEF TypeOK, Reserve, Write, WriteFails, SinkReturns, ContextDone,
                    Release, Expire, Goto, Leave, requestVars, lockVars, linkVars,
                    nodeVars
<1>2. ASSUME NEW r \in Requests, RegisterPending(r) PROVE TypeOK'
  <2>1. ch' \in [Requests -> Seq(Messages)] /\ \A q \in Requests : Len(ch'[q]) <= Cap
    BY <1>0, <1>2, EmptyChannel DEF TypeOK, RegisterPending
  <2> QED
    BY <1>0, <1>2, <2>1 DEF TypeOK, RegisterPending, Goto, lockVars, linkVars, nodeVars
<1>3. ASSUME NEW r \in Requests, Receive(r) PROVE TypeOK'
  <2>1. ch[r] \in Seq(Messages) /\ ch[r] # <<>> /\ ch' = [ch EXCEPT ![r] = Tail(ch[r])]
    BY <1>0, <1>3 DEF TypeOK, Receive
  <2>2. Tail(ch[r]) \in Seq(Messages) /\ Len(Tail(ch[r])) = Len(ch[r]) - 1
    BY <2>1
  <2>3. ch' \in [Requests -> Seq(Messages)] /\ \A q \in Requests : Len(ch'[q]) <= Cap
    BY <1>0, <2>1, <2>2 DEF TypeOK
  <2>4. got' \in [Requests -> 0..MaxChunks]
    <3>1. got'[r] \in 0..MaxChunks
      BY <1>3, ReceiveStream
    <3>2. got' = got \/ got' = [got EXCEPT ![r] = @ + 1]
      BY <1>3 DEF Receive
    <3> QED
      BY <1>0, <3>1, <3>2 DEF TypeOK
  <2>5. /\ pc' \in [Requests -> {"idle", "register", "write", "select", "sink",
                                "unregister", "release", "returned"}]
        /\ res' \in [Requests -> {"none", "nil", "err"}]
    BY <1>0, <1>3 DEF TypeOK, Receive, Goto, Leave
  <2> QED
    BY <1>0, <1>3, <2>3, <2>4, <2>5 DEF TypeOK, Receive, lockVars, linkVars, nodeVars
<1>4. ASSUME NEW r \in Requests, Unregister(r) PROVE TypeOK'
  <2>1. todo' = {} /\ pending' \subseteq Requests
    BY <1>0, <1>4 DEF ConnInv, LockOK, TypeOK, Unregister, lockVars
  <2> QED
    BY <1>0, <1>4, <2>1 DEF TypeOK, Unregister, Goto, lockVars, linkVars, nodeVars
<1>5. ASSUME NEW r \in Requests, ReadMessage(r) PROVE TypeOK'
  <2>1. nodeSent' \in [Requests -> 0..MaxChunks] /\ nodeFin' \subseteq Requests
    BY <1>0, <1>5 DEF TypeOK, ReadMessage
  <2>2. \E m \in Messages : handler' = [at |-> "lookup", to |-> r, msg |-> m]
    <3>1. CASE nodeSent[r] < MaxChunks /\ nodeSent' = [nodeSent EXCEPT ![r] = @ + 1]
               /\ handler' = [at |-> "lookup", to |-> r, msg |-> Chunk(nodeSent'[r])]
      <4>1. nodeSent'[r] \in 1..MaxChunks
        BY <1>0, <3>1 DEF TypeOK
      <4>2. Chunk(nodeSent'[r]) \in Messages
        BY <4>1 DEF Messages
      <4> QED
        BY <3>1, <4>2
    <3>2. CASE \E m \in {Done, Error} : handler' = [at |-> "lookup", to |-> r, msg |-> m]
      BY <3>2 DEF Messages
    <3> QED
      BY <1>5, <3>1, <3>2 DEF ReadMessage
  <2>3. handler' \in Handlers
    BY <2>2 DEF Handlers
  <2> QED
    BY <1>0, <1>5, <2>1, <2>3 DEF TypeOK, ReadMessage, requestVars, lockVars, linkVars
<1>6. CASE DeliverLookup
  <2>1. handler.to \in Requests /\ handler.msg \in Messages
        /\ handler = [at |-> "lookup", to |-> handler.to, msg |-> handler.msg]
    BY <1>0, <1>6, HandlerFacts DEF DeliverLookup
  <2>2. handler' = [at |-> "push", to |-> handler.to, msg |-> handler.msg]
        \/ handler' = At("read")
    BY <1>6, <2>1 DEF DeliverLookup
  <2>3. handler' \in Handlers
    BY <2>1, <2>2 DEF Handlers
  <2> QED
    BY <1>0, <1>6, <2>3 DEF TypeOK, DeliverLookup, requestVars, lockVars, linkVars,
                            nodeVars
<1>7. CASE DeliverPush
  <2>1. handler.to \in Requests /\ handler.msg \in Messages
    BY <1>0, <1>7, HandlerFacts DEF DeliverPush
  <2>2. ch' \in [Requests -> Seq(Messages)] /\ \A q \in Requests : Len(ch'[q]) <= Cap
    BY <1>0, <1>7, <2>1 DEF TypeOK, DeliverPush
  <2>3. handler' \in Handlers
    BY <1>7 DEF DeliverPush, Handlers
  <2> QED
    BY <1>0, <1>7, <2>2, <2>3 DEF TypeOK, DeliverPush, requestVars, lockVars, linkVars,
                                  nodeVars
<1>8. CASE \/ ReadHeartbeat \/ Heartbeat \/ ReadFails \/ Remove \/ DeferredClose
  <2>1. handler' \in Handlers
    BY <1>8 DEF ReadHeartbeat, Heartbeat, ReadFails, Remove, DeferredClose, Handlers
  <2>2. /\ closing' \in [Closers -> {"none", "lock", "notify", "socket"}]
        /\ regMu' \in Closers \cup {Free}
    BY <1>0, <1>8 DEF TypeOK, ReadHeartbeat, Heartbeat, ReadFails, Remove,
                      DeferredClose, Closers, lockVars
  <2> QED
    BY <1>0, <1>8, <2>1, <2>2 DEF TypeOK, ReadHeartbeat, Heartbeat, ReadFails, Remove,
                      DeferredClose, requestVars, lockVars, linkVars, nodeVars
<1>9. ASSUME NEW a \in Closers, CloseNotify(a) PROVE TypeOK'
  <2>1. PICK r \in todo : /\ Len(ch[r]) < Cap /\ ch' = [ch EXCEPT ![r] = Append(@, Gone)]
                          /\ todo' = todo \ {r}
    BY <1>9 DEF CloseNotify
  <2>2. ch' \in [Requests -> Seq(Messages)] /\ \A q \in Requests : Len(ch'[q]) <= Cap
    <3>1. Gone \in Messages /\ r \in Requests
      BY <1>0 DEF Messages, TypeOK
    <3> QED
      BY <1>0, <2>1, <3>1 DEF TypeOK
  <2> QED
    BY <1>0, <1>9, <2>1, <2>2 DEF TypeOK, CloseNotify, requestVars, linkVars, nodeVars
<1>10. ASSUME NEW a \in Closers, CloseLock(a) \/ CloseUnlock(a) \/ CloseSocket(a)
       PROVE  TypeOK'
  <2>1. handler' \in Handlers
    BY <1>0, <1>10 DEF TypeOK, CloseLock, CloseUnlock, CloseSocket, Handlers
  <2> QED
    BY <1>0, <1>10, <2>1 DEF TypeOK, CloseLock, CloseUnlock, CloseSocket, requestVars,
                             linkVars, nodeVars
<1>11. CASE RemoveProvider \/ Break \/ Reregister \/ UNCHANGED vars
  BY <1>0, <1>11 DEF TypeOK, RemoveProvider, Break, Reregister, Closers, vars,
                     requestVars, lockVars, linkVars, nodeVars
<1> QED
  BY <1>1, <1>2, <1>3, <1>4, <1>5, <1>6, <1>7, <1>8, <1>9, <1>10, <1>11
     DEF Next, RequestStep, HandlerStep, CloseStep

-----------------------------------------------------------------------------
(* Whoever receives will be woken up.                                      *)

\* An error that has been sent stays until it is received.
LEMMA QuietWake ==
    ASSUME NEW r \in Requests, WakeOf(r),
           HasGone(ch[r]) => HasGone(ch'[r]),
           Receiving(r)' => Receiving(r),
           pending' = pending, todo' = todo, mu' = mu
    PROVE  WakeOf(r)'
  BY DEF WakeOf

\* Every step leaves a receiver its entry or the error of Close.
LEMMA WakeStep ==
    ASSUME ConnInv, [Next]_vars
    PROVE  WakeOK'
<1> SUFFICES ASSUME NEW q \in Requests PROVE WakeOf(q)'
  BY DEF WakeOK
<1>0. /\ WakeOf(q)
      /\ pc \in [Requests -> {"idle", "register", "write", "select", "sink",
                              "unregister", "release", "returned"}]
      /\ ch \in [Requests -> Seq(Messages)]
  BY DEF ConnInv, WakeOK, TypeOK
<1>1. ASSUME NEW r \in Requests,
             \/ Reserve(r) \/ Write(r) \/ WriteFails(r) \/ SinkReturns(r)
             \/ ContextDone(r) \/ Release(r) \/ Expire(r)
      PROVE  WakeOf(q)'
  <2>1. ch' = ch /\ pending' = pending /\ todo' = todo /\ mu' = mu
    BY <1>1 DEF Reserve, Write, WriteFails, SinkReturns, ContextDone, Release,
                Expire, lockVars
  <2>2. Receiving(q)' => Receiving(q)
    BY <1>0, <1>1 DEF Reserve, Write, WriteFails, SinkReturns, ContextDone, Release,
                      Expire, Goto, Leave, Receiving, requestVars
  <2> QED
    BY <1>0, <2>1, <2>2, QuietWake
<1>2. ASSUME NEW r \in Requests, RegisterPending(r) PROVE WakeOf(q)'
  <2>1. /\ pending' = pending \cup {r} /\ mu' = Free
        /\ q # r => ch'[q] = ch[q] /\ pc'[q] = pc[q]
    BY <1>0, <1>2 DEF RegisterPending, Goto, lockVars
  <2> QED
    BY <1>0, <2>1 DEF WakeOf, Receiving
<1>3. ASSUME NEW r \in Requests, Receive(r) PROVE WakeOf(q)'
  <2>1. pending' = pending /\ todo' = todo /\ mu' = mu
    BY <1>3 DEF Receive, lockVars
  <2>2. CASE q # r
    <3>1. ch'[q] = ch[q] /\ pc'[q] = pc[q]
      BY <1>0, <1>3, <2>2 DEF Receive, Goto, Leave
    <3> QED
      BY <1>0, <2>1, <3>1, QuietWake DEF Receiving
  <2>3. CASE q = r
    <3>1. ch[q] \in Seq(Messages) /\ ch[q] # <<>> /\ ch'[q] = Tail(ch[q]) /\ Receiving(q)
      BY <1>0, <1>3, <2>3 DEF Receive, Receiving
    <3>2. CASE Head(ch[q]).type = "chunk"
      <4>1. HasGone(ch[q]) => HasGone(ch'[q])
        BY <3>1, <3>2, Taken
      <4> QED
        BY <1>0, <2>1, <3>1, <4>1, QuietWake
    <3>3. CASE Head(ch[q]).type # "chunk"
      <4>1. pc'[q] = "unregister"
        BY <1>0, <1>3, <2>3, <3>3 DEF Receive, Leave, Goto
      <4> QED
        BY <4>1 DEF WakeOf, Receiving
    <3> QED
      BY <3>2, <3>3
  <2> QED
    BY <2>2, <2>3
<1>4. ASSUME NEW r \in Requests, Unregister(r) PROVE WakeOf(q)'
  <2>1. /\ pending' = pending \ {r} /\ mu' = Free /\ ch' = ch
        /\ (q = r => pc'[q] = "release") /\ (q # r => pc'[q] = pc[q])
    BY <1>0, <1>4 DEF Unregister, Goto, lockVars
  <2> QED
    BY <1>0, <2>1 DEF WakeOf, Receiving
<1>5. ASSUME NEW r \in Requests, ReadMessage(r) PROVE WakeOf(q)'
  BY <1>0, <1>5, QuietWake DEF ReadMessage, requestVars, lockVars, Receiving
<1>6. CASE DeliverPush
  <2>1. pending' = pending /\ todo' = todo /\ mu' = mu /\ pc' = pc
    BY <1>6 DEF DeliverPush, requestVars, lockVars
  <2>2. HasGone(ch[q]) => HasGone(ch'[q])
    <3>1. CASE q # handler.to
      BY <1>0, <1>6, <3>1 DEF DeliverPush
    <3>2. CASE q = handler.to
      <4>1. /\ handler.msg \in Messages /\ ch[q] \in Seq(Messages)
            /\ ch'[q] = Append(ch[q], handler.msg)
        BY <1>0, <1>6, <3>2, HandlerFacts DEF DeliverPush, ConnInv
      <4> QED
        BY <4>1, SendGone
    <3> QED
      BY <3>1, <3>2
  <2> QED
    BY <1>0, <2>1, <2>2, QuietWake DEF Receiving
<1>7. CASE \/ DeliverLookup \/ ReadHeartbeat \/ Heartbeat \/ ReadFails \/ Remove
           \/ DeferredClose \/ RemoveProvider \/ Break \/ Reregister \/ UNCHANGED vars
  <2>1. pending' = pending /\ todo' = todo /\ mu' = mu /\ pc' = pc /\ ch' = ch
    BY <1>7 DEF DeliverLookup, ReadHeartbeat, Heartbeat, ReadFails, Remove,
                DeferredClose, RemoveProvider, Break, Reregister, vars, requestVars,
                lockVars
  <2> QED
    BY <1>0, <2>1, QuietWake DEF Receiving
<1>8. ASSUME NEW a \in Closers, CloseLock(a) PROVE WakeOf(q)'
  <2>1. pending' = pending /\ todo' = pending /\ pc' = pc /\ ch' = ch
    BY <1>8 DEF CloseLock, requestVars
  <2> QED
    BY <1>0, <2>1 DEF WakeOf, Receiving
<1>9. ASSUME NEW a \in Closers, CloseNotify(a) PROVE WakeOf(q)'
  <2>1. PICK r \in todo : /\ ch' = [ch EXCEPT ![r] = Append(@, Gone)]
                          /\ todo' = todo \ {r}
    BY <1>9 DEF CloseNotify
  <2>2. pending' = pending /\ mu' = mu /\ pc' = pc
    BY <1>9 DEF CloseNotify, requestVars
  <2>3. CASE q # r
    <3>1. ch'[q] = ch[q] /\ (q \in todo' <=> q \in todo)
      BY <1>0, <2>1, <2>3
    <3> QED
      BY <1>0, <2>2, <3>1 DEF WakeOf, Receiving
  <2>4. CASE q = r
    <3>1. Gone \in Messages /\ Gone.type = "gone"
      BY DEF Messages, Gone
    <3>2. ch[q] \in Seq(Messages) /\ ch'[q] = Append(ch[q], Gone)
      BY <1>0, <2>1, <2>4
    <3>3. HasGone(ch'[q])
      BY <3>1, <3>2, SendGone
    <3> QED
      BY <3>3 DEF WakeOf
  <2> QED
    BY <2>3, <2>4
<1>10. ASSUME NEW a \in Closers, CloseUnlock(a) PROVE WakeOf(q)'
  <2>1. mu # Free
    BY <1>10 DEF CloseUnlock, ConnInv, LockOK, Closers, Free
  <2>2. pending' = {} /\ todo = {} /\ pc' = pc /\ ch' = ch
    BY <1>10 DEF CloseUnlock, requestVars
  <2> QED
    BY <1>0, <2>1, <2>2 DEF WakeOf, Receiving
<1>11. ASSUME NEW a \in Closers, CloseSocket(a) PROVE WakeOf(q)'
  BY <1>0, <1>11, QuietWake DEF CloseSocket, requestVars, Receiving
<1> QED
  BY <1>1, <1>2, <1>3, <1>4, <1>5, <1>6, <1>7, <1>8, <1>9, <1>10, <1>11
     DEF Next, RequestStep, HandlerStep, CloseStep

-----------------------------------------------------------------------------
(* The locks and the way out of the handler.                               *)

\* Steps that take no lock and do not move the handler out of its loop.
LEMMA QuietLocks ==
    ASSUME ConnInv, mu' = mu, todo' = todo, closing' = closing, regMu' = regMu,
           handler'.at = handler.at
             \/ (handler.at \in {"read", "lookup", "push", "heartbeat"}
              /\ handler'.at \in {"read", "lookup", "push", "heartbeat", "remove"}),
           replaced' = replaced, inReg' = inReg, open' = open,
           \A r \in pending' : pc'[r] \notin {"select", "sink"} \/ open
                                 \/ (r \in pending /\ pc[r] \in {"select", "sink"})
    PROVE  LockOK'
  BY DEF ConnInv, LockOK

\* Every step keeps the locks with those who took them.
LEMMA LockStep ==
    ASSUME ConnInv, [Next]_vars
    PROVE  LockOK'
<1>0. /\ pc \in [Requests -> {"idle", "register", "write", "select", "sink",
                              "unregister", "release", "returned"}]
      /\ closing \in [Closers -> {"none", "lock", "notify", "socket"}]
      /\ mu \in Closers \cup {Free} /\ regMu \in Closers \cup {Free}
      /\ pending \subseteq Requests /\ todo \subseteq pending
  BY DEF ConnInv, TypeOK
<1>1. ASSUME NEW r \in Requests,
             \/ Reserve(r) \/ RegisterPending(r) \/ Write(r) \/ WriteFails(r)
             \/ Receive(r) \/ SinkReturns(r) \/ ContextDone(r) \/ Unregister(r)
             \/ Release(r) \/ Expire(r)
      PROVE  LockOK'
  <2>1. /\ mu' = mu /\ todo' = todo /\ closing' = closing /\ regMu' = regMu
        /\ handler' = handler /\ replaced' = replaced /\ inReg' = inReg /\ open' = open
    BY <1>1 DEF Reserve, RegisterPending, Write, WriteFails, Receive, SinkReturns,
                ContextDone, Unregister, Release, Expire, lockVars, linkVars
  <2>2. ASSUME NEW q \in pending', pc'[q] \in {"select", "sink"}, ~open
        PROVE  q \in pending /\ pc[q] \in {"select", "sink"}
    BY <1>0, <1>1, <2>2 DEF Reserve, RegisterPending, Write, WriteFails, Receive,
                SinkReturns, ContextDone, Unregister, Release, Expire, Goto, Leave,
                requestVars
  <2> QED
    BY <2>1, <2>2, QuietLocks
<1>2. ASSUME NEW r \in Requests, ReadMessage(r) PROVE LockOK'
  BY <1>2, QuietLocks DEF ReadMessage, requestVars, lockVars, linkVars
<1>3. CASE DeliverLookup \/ DeliverPush \/ ReadHeartbeat \/ Heartbeat \/ ReadFails
  <2>1. /\ mu' = mu /\ todo' = todo /\ closing' = closing /\ regMu' = regMu
        /\ replaced' = replaced /\ inReg' = inReg /\ open' = open
        /\ pending' = pending /\ pc' = pc
    BY <1>3 DEF DeliverLookup, DeliverPush, ReadHeartbeat, Heartbeat, ReadFails,
                requestVars, lockVars, linkVars
  <2>2. /\ handler.at \in {"read", "lookup", "push", "heartbeat"}
        /\ handler'.at \in {"read", "lookup", "push", "heartbeat", "remove"}
    <3>1. CASE DeliverLookup
      <4>1. handler = [at |-> "lookup", to |-> handler.to, msg |-> handler.msg]
        BY <3>1, HandlerFacts DEF DeliverLookup, ConnInv
      <4> QED
        BY <3>1, <4>1 DEF DeliverLookup, At
    <3> QED
      BY <1>3, <3>1 DEF DeliverPush, ReadHeartbeat, Heartbeat, ReadFails, At
  <2> QED
    BY <2>1, <2>2, QuietLocks
<1>4. CASE Remove
  <2>1. /\ mu' = mu /\ todo' = todo /\ replaced' = replaced /\ inReg' = inReg
        /\ open' = open /\ pending' = pending /\ pc' = pc /\ handler.at = "remove"
        /\ regMu = Free
    BY <1>4 DEF Remove, requestVars, linkVars
  <2>2. CASE inReg
    <3>1. /\ regMu' = "handler" /\ closing' = [closing EXCEPT !["handler"] = "lock"]
          /\ handler'.at = "removing"
      BY <1>4, <2>2 DEF Remove, At
    <3> QED
      BY <1>0, <2>1, <2>2, <3>1 DEF ConnInv, LockOK, Closers, Free
  <2>3. CASE ~inReg
    <3>1. regMu' = regMu /\ closing' = closing /\ handler'.at = "exit"
      BY <1>4, <2>3 DEF Remove, At
    <3> QED
      BY <1>0, <2>1, <2>3, <3>1 DEF ConnInv, LockOK
  <2> QED
    BY <2>2, <2>3
<1>5. CASE DeferredClose
  <2>1. /\ mu' = mu /\ todo' = todo /\ replaced' = replaced /\ inReg' = inReg
        /\ open' = open /\ pending' = pending /\ pc' = pc /\ handler.at = "exit"
        /\ regMu' = regMu /\ closing' = [closing EXCEPT !["handler"] = "lock"]
        /\ handler'.at = "closing"
    BY <1>5 DEF DeferredClose, requestVars, linkVars, At
  <2> QED
    BY <1>0, <2>1 DEF ConnInv, LockOK, Closers
<1>6. CASE RemoveProvider
  <2>1. /\ mu' = mu /\ todo' = todo /\ replaced' = replaced /\ inReg' = inReg
        /\ open' = open /\ pending' = pending /\ pc' = pc /\ handler' = handler
        /\ regMu = Free /\ regMu' = "admin" /\ closing["admin"] = "none"
        /\ closing' = [closing EXCEPT !["admin"] = "lock"]
    BY <1>6 DEF RemoveProvider, requestVars, linkVars
  <2> QED
    BY <1>0, <2>1 DEF ConnInv, LockOK, Closers, Free
<1>7. ASSUME NEW a \in Closers, CloseLock(a) PROVE LockOK'
  <2>1. /\ closing[a] = "lock" /\ mu = Free /\ mu' = a
        /\ closing' = [closing EXCEPT ![a] = "notify"]
        /\ regMu' = regMu /\ replaced' = replaced /\ inReg' = inReg
        /\ open' = open /\ pending' = pending /\ pc' = pc /\ handler' = handler
    BY <1>7 DEF CloseLock, requestVars, linkVars
  <2> QED
    BY <1>0, <2>1 DEF ConnInv, LockOK, Closers, Free
<1>8. ASSUME NEW a \in Closers, CloseNotify(a) PROVE LockOK'
  <2>1. /\ closing[a] = "notify" /\ mu' = mu /\ closing' = closing
        /\ regMu' = regMu /\ replaced' = replaced /\ inReg' = inReg
        /\ open' = open /\ pending' = pending /\ pc' = pc /\ handler' = handler
    BY <1>8 DEF CloseNotify, requestVars, linkVars
  <2> QED
    BY <1>0, <2>1 DEF ConnInv, LockOK, Closers, Free
<1>9. ASSUME NEW a \in Closers, CloseUnlock(a) PROVE LockOK'
  <2>1. /\ closing[a] = "notify" /\ mu' = Free /\ todo = {} /\ todo' = {}
        /\ closing' = [closing EXCEPT ![a] = "socket"]
        /\ regMu' = regMu /\ replaced' = replaced /\ inReg' = inReg
        /\ open' = open /\ pending' = {} /\ pc' = pc /\ handler' = handler
    BY <1>9 DEF CloseUnlock, requestVars, linkVars
  <2> QED
    BY <1>0, <2>1 DEF ConnInv, LockOK, Closers, Free
<1>10. ASSUME NEW a \in Closers, CloseSocket(a) PROVE LockOK'
  <2>1. /\ closing[a] = "socket" /\ mu' = mu /\ todo' = todo /\ open' = FALSE
        /\ closing' = [closing EXCEPT ![a] = "none"]
        /\ replaced' = replaced /\ pending' = pending /\ pc' = pc
    BY <1>10 DEF CloseSocket, requestVars
  <2>2. regMu' = (IF regMu = a THEN Free ELSE regMu)
    BY <1>10 DEF CloseSocket
  <2>3. CASE a = "handler"
    <3>1. handler'.at = IF handler.at = "removing" THEN "exit" ELSE "gone"
      BY <1>10, <2>3 DEF CloseSocket, At
    <3> QED
      BY <1>0, <2>1, <2>2, <2>3, <3>1 DEF ConnInv, LockOK, Closers, Free
  <2>4. CASE a = "admin"
    <3>1. handler' = handler
      BY <1>10, <2>4 DEF CloseSocket
    <3> QED
      BY <1>0, <2>1, <2>2, <2>4, <3>1 DEF ConnInv, LockOK, Closers, Free
  <2> QED
    BY <2>3, <2>4 DEF Closers
<1>11. CASE Break \/ UNCHANGED vars
  BY <1>11, QuietLocks DEF Break, vars, requestVars, lockVars, linkVars
<1>12. CASE Reregister
  <2>1. /\ mu' = mu /\ todo' = todo /\ closing' = closing /\ regMu' = regMu
        /\ handler' = handler /\ replaced' = TRUE
    BY <1>12 DEF Reregister, lockVars
  <2> QED
    BY <2>1 DEF ConnInv, LockOK
<1> QED
  BY <1>1, <1>2, <1>3, <1>4, <1>5, <1>6, <1>7, <1>8, <1>9, <1>10, <1>11, <1>12
     DEF Next, RequestStep, HandlerStep, CloseStep

-----------------------------------------------------------------------------
(* The theorems.                                                           *)

\* Nothing has been sent at first.
LEMMA InitConn == Init => ConnInv
<1> SUFFICES ASSUME Init PROVE ConnInv
  OBVIOUS
<1> USE NodeConnAssumption
<1>1. handler.at = "read" /\ handler = At("read")
  BY DEF Init, At
<1>2. TypeOK
  <2>1. handler \in Handlers
    BY <1>1 DEF Handlers
  <2>2. /\ pc \in [Requests -> {"idle", "register", "write", "select", "sink",
                                "unregister", "release", "returned"}]
        /\ res \in [Requests -> {"none", "nil", "err"}]
        /\ got \in [Requests -> 0..MaxChunks]
        /\ nodeSent \in [Requests -> 0..MaxChunks]
    BY DEF Init
  <2>3. ch \in [Requests -> Seq(Messages)] /\ \A r \in Requests : Len(ch[r]) <= Cap
    BY EmptyChannel DEF Init
  <2>4. /\ ctxDone \subseteq Requests /\ pending \subseteq Requests
        /\ todo \subseteq pending /\ nodeFin \subseteq Requests
        /\ mu \in Closers \cup {Free} /\ regMu \in Closers \cup {Free}
        /\ closing \in [Closers -> {"none", "lock", "notify", "socket"}]
    BY DEF Init
  <2>5. /\ inReg \in BOOLEAN /\ replaced \in BOOLEAN
        /\ open \in BOOLEAN /\ broken \in BOOLEAN
    BY DEF Init
  <2> QED
    BY <2>1, <2>2, <2>3, <2>4, <2>5 DEF TypeOK
<1>3. StreamOK
  <2> SUFFICES ASSUME NEW r \in Requests PROVE StreamOf(r) /\ DoneOf(r)
    BY DEF StreamOK
  <2>1. /\ ch[r] = <<>> /\ got[r] = 0 /\ nodeSent[r] = 0 /\ res[r] = "none"
        /\ r \notin nodeFin /\ r \notin pending /\ ~Carrying(r)
    BY <1>1 DEF Init, Carrying
  <2>2. Delivered(r) = 0 - 0
    BY <2>1 DEF Delivered
  <2> QED
    BY <2>1, <2>2, EmptyChannel DEF StreamOf, DoneOf
<1>4. WakeOK
  BY DEF Init, WakeOK, WakeOf, Receiving
<1>5. LockOK
  BY <1>1 DEF Init, LockOK, Closers, Free
<1> QED
  BY <1>2, <1>3, <1>4, <1>5 DEF ConnInv

\* ConnInv is inductive: SendInference, the read loop and the two callers of
\* Close keep it in every interleaving.
THEOREM ConnInvariant == Spec => []ConnInv
<1>1. ConnInv /\ [Next]_vars => ConnInv'
  BY TypeStep, StreamStep, WakeStep, LockStep DEF ConnInv
<1> QED
  BY InitConn, <1>1, PTL DEF Spec

\* deliver loses, repeats and overtakes nothing for a request that has its
\* pending entry.
THEOREM StreamsAreInOrder == Spec => []StreamInOrder
<1>1. ConnInv => StreamInOrder
  <2> SUFFICES ASSUME ConnInv, NEW r \in pending
               PROVE  /\ got[r] <= Delivered(r)
                      /\ {ch[r][i].n : i \in Chunks(r)} = (got[r] + 1)..Delivered(r)
                      /\ \A i, j \in Chunks(r) : i < j => ch[r][i].n < ch[r][j].n
    BY DEF StreamInOrder
  <2>1. /\ r \in Requests /\ got[r] \in Int /\ Delivered(r) \in Int
        /\ ch[r] \in Seq(Messages)
    BY HandlerFacts, NodeConnAssumption DEF ConnInv, TypeOK
  <2>2. /\ Ordered(ch[r], got[r], Delivered(r))
        /\ Complete(ch[r], got[r], Delivered(r))
    BY <2>1 DEF ConnInv, StreamOK, StreamOf
  <2>3. \A i \in Chunks(r) : ch[r][i].n \in (got[r] + 1)..Delivered(r)
    <3>1. \A i \in Chunks(r) : ch[r][i].n \in Int
      BY <2>1 DEF Chunks, Messages, Chunk, Done, Error, Gone
    <3> QED
      BY <2>1, <2>2, <3>1 DEF Ordered, Chunks
  <2>4. \A n \in (got[r] + 1)..Delivered(r) : \E i \in Chunks(r) : ch[r][i].n = n
    BY <2>2 DEF Complete, HasChunk, Chunks
  <2>5. {ch[r][i].n : i \in Chunks(r)} = (got[r] + 1)..Delivered(r)
    BY <2>3, <2>4
  <2>6. \A i, j \in Chunks(r) : i < j => ch[r][i].n < ch[r][j].n
    BY <2>2 DEF Ordered, Chunks
  <2> QED
    BY <2>2, <2>5, <2>6 DEF Ordered
<1> QED
  BY <1>1, ConnInvariant, PTL

\* A nil error from SendInference means that the client has every chunk the
\* node sent, however Close and the node's last messages race.
THEOREM NoTruncatedSuccess == Spec => []SuccessIsComplete
<1>1. ConnInv => SuccessIsComplete
  BY DEF ConnInv, StreamOK, DoneOf, SuccessIsComplete
<1> QED
  BY <1>1, ConnInvariant, PTL

\* Once nodeWebSocket has returned, everyone it leaves in SendInference has a
\* message to read or a closed socket to write to.
THEOREM NobodyIsStranded == Spec => []NobodyStranded
<1>1. ConnInv => NobodyStranded
  <2> SUFFICES ASSUME ConnInv, handler.at = "gone", ~replaced, NEW r \in Requests
               PROVE  /\ pc[r] = "select" => ch[r] # <<>>
                      /\ pc[r] = "write" => ~open
    BY DEF NobodyStranded
  <2>1. ~open /\ \A q \in pending : pc[q] \notin {"select", "sink"}
    BY DEF ConnInv, LockOK
  <2>2. ASSUME pc[r] = "select" PROVE ch[r] # <<>>
    <3>1. HasGone(ch[r])
      BY <2>1, <2>2 DEF ConnInv, WakeOK, WakeOf, Receiving
    <3> QED
      BY <3>1 DEF HasGone
  <2> QED
    BY <2>1, <2>2
<1> QED
  BY <1>1, ConnInvariant, PTL

-----------------------------------------------------------------------------
(* The connection implements Answers.                                      *)

\* A call that has not left its loop has no result.
OutcomeOK ==
    \A r \in Requests :
        pc[r] \in {"idle", "register", "write", "select", "sink"} => res[r] = "none"

\* A result is set on the way out of the loop, and nobody goes back.
LEMMA OutcomeStep ==
    ASSUME TypeOK, OutcomeOK, [Next]_vars
    PROVE  OutcomeOK'
<1> USE DEF TypeOK, OutcomeOK, Goto
<1>1. ASSUME NEW r \in Requests, Reserve(r) PROVE OutcomeOK'
  BY <1>1 DEF Reserve
<1>2. ASSUME NEW r \in Requests, RegisterPending(r) PROVE OutcomeOK'
  BY <1>2 DEF RegisterPending
<1>3. ASSUME NEW r \in Requests, Write(r) \/ SinkReturns(r) PROVE OutcomeOK'
  BY <1>3 DEF Write, SinkReturns
<1>4. ASSUME NEW r \in Requests, WriteFails(r) \/ ContextDone(r) PROVE OutcomeOK'
  BY <1>4 DEF WriteFails, ContextDone, Leave
<1>5. ASSUME NEW r \in Requests, Receive(r) PROVE OutcomeOK'
  BY <1>5 DEF Receive, Leave
<1>6. ASSUME NEW r \in Requests, Unregister(r) \/ Release(r) PROVE OutcomeOK'
  BY <1>6 DEF Unregister, Release
<1>7. CASE UNCHANGED <<pc, res>>
  BY <1>7
<1>8. ASSUME NEW r \in Requests, ReadMessage(r) \/ Expire(r) PROVE UNCHANGED <<pc, res>>
  BY <1>8 DEF ReadMessage, Expire, requestVars
<1>9. ASSUME HandlerStep \/ ReadHeartbeat PROVE UNCHANGED <<pc, res>>
  BY <1>9 DEF HandlerStep, DeliverLookup, DeliverPush, Heartbeat, ReadFails, Remove,
              DeferredClose, ReadHeartbeat, requestVars
<1>10. ASSUME NEW a \in Closers, CloseStep(a) PROVE UNCHANGED <<pc, res>>
  BY <1>10 DEF CloseStep, CloseLock, CloseNotify, CloseUnlock, CloseSocket, requestVars
<1>11. ASSUME RemoveProvider \/ Break \/ Reregister PROVE UNCHANGED <<pc, res>>
  BY <1>11 DEF RemoveProvider, Break, Reregister, requestVars
<1>12. ASSUME UNCHANGED vars PROVE UNCHANGED <<pc, res>>
  BY <1>12 DEF vars, requestVars
<1> QED
  BY <1>1, <1>2, <1>3, <1>4, <1>5, <1>6, <1>7, <1>8, <1>9, <1>10, <1>11, <1>12
     DEF Next, RequestStep

\* Nothing is passed on that was not sent, and nothing is missing after a
\* success.
CallerOK ==
    \A r \in Requests :
        /\ got[r] \in Int /\ nodeSent[r] \in Int /\ got[r] <= nodeSent[r]
        /\ res[r] = "nil" => got[r] = nodeSent[r] /\ r \in nodeFin

\* The invariant of the channels implies it.
LEMMA CallerFacts == ConnInv => CallerOK
<1> SUFFICES ASSUME ConnInv, NEW r \in Requests
             PROVE  /\ got[r] \in Int /\ nodeSent[r] \in Int /\ got[r] <= nodeSent[r]
                    /\ res[r] = "nil" => got[r] = nodeSent[r] /\ r \in nodeFin
  BY Zenon DEF CallerOK
<1>1. got[r] \in Int /\ nodeSent[r] \in Int
  BY NodeConnAssumption DEF ConnInv, TypeOK
<1>2. got[r] <= Delivered(r)
  BY DEF ConnInv, StreamOK, StreamOf, Ordered
<1>3. Delivered(r) <= nodeSent[r] /\ Delivered(r) \in Int
  BY <1>1 DEF Delivered
<1>4. res[r] = "nil" => got[r] = nodeSent[r] /\ r \in nodeFin
  BY DEF ConnInv, StreamOK, DoneOf
<1> QED
  BY <1>1, <1>2, <1>3, <1>4

\* A step of the connection is a step of a caller or its node, or none.  That
\* a chunk taken from a channel had been sent, and that nothing is missing at
\* a done message, is what the invariant says of the state after the step.
LEMMA CallerStep ==
    ConnInv /\ OutcomeOK /\ CallerOK' /\ [Next]_vars => [Caller!Next]_Caller!vars
<1> SUFFICES ASSUME ConnInv, OutcomeOK, CallerOK', [Next]_vars
             PROVE  Caller!Next \/ UNCHANGED <<nodeSent, nodeFin, got, res>>
  BY DEF Caller!vars
<1> USE DEF Goto
<1>1. /\ got \in [Requests -> 0..MaxChunks] /\ nodeSent \in [Requests -> 0..MaxChunks]
      /\ res \in [Requests -> {"none", "nil", "err"}]
  BY DEF ConnInv, TypeOK
<1>2. ASSUME NEW r \in Requests, ReadMessage(r) PROVE Caller!Next
  <2>1. Caller!Send(r) \/ Caller!Finish(r)
    BY <1>2 DEF ReadMessage, requestVars, Caller!Send, Caller!Finish
  <2> QED
    BY <2>1 DEF Caller!Next
<1>3. ASSUME NEW r \in Requests, WriteFails(r) \/ ContextDone(r) PROVE Caller!Next
  <2>1. res[r] = "none"
    BY <1>3 DEF WriteFails, ContextDone, OutcomeOK
  <2>2. Caller!Fail(r)
    BY <1>3, <2>1 DEF WriteFails, ContextDone, Leave, nodeVars, Caller!Fail
  <2> QED
    BY <2>2 DEF Caller!Next
<1>4. ASSUME NEW r \in Requests, Receive(r) PROVE Caller!Next
  <2>1. res[r] = "none" /\ UNCHANGED <<nodeSent, nodeFin>>
    BY <1>4 DEF Receive, OutcomeOK, nodeVars
  <2>2. \/ got' = [got EXCEPT ![r] = @ + 1] /\ UNCHANGED res
        \/ UNCHANGED got /\ res' = [res EXCEPT ![r] = "nil"]
        \/ UNCHANGED got /\ res' = [res EXCEPT ![r] = "err"]
    BY <1>4 DEF Receive, Leave
  <2>3. /\ got'[r] \in Int /\ nodeSent'[r] \in Int /\ got'[r] <= nodeSent'[r]
        /\ res'[r] = "nil" => got'[r] = nodeSent'[r] /\ r \in nodeFin'
    BY DEF CallerOK
  <2>4. CASE got' = [got EXCEPT ![r] = @ + 1] /\ UNCHANGED res
    <3>1. got'[r] = got[r] + 1 /\ got[r] \in Int
      BY <1>1, <2>4
    <3>2. Caller!Pass(r)
      BY <2>1, <2>3, <2>4, <3>1 DEF Caller!Pass
    <3> QED
      BY <3>2 DEF Caller!Next
  <2>5. CASE UNCHANGED got /\ res' = [res EXCEPT ![r] = "nil"]
    <3>1. res'[r] = "nil"
      BY <1>1, <2>5
    <3>2. Caller!Succeed(r)
      BY <2>1, <2>3, <2>5, <3>1 DEF Caller!Succeed
    <3> QED
      BY <3>2 DEF Caller!Next
  <2>6. CASE UNCHANGED got /\ res' = [res EXCEPT ![r] = "err"]
    <3>1. Caller!Fail(r)
      BY <2>1, <2>6 DEF Caller!Fail
    <3> QED
      BY <3>1 DEF Caller!Next
  <2> QED
    BY <2>2, <2>4, <2>5, <2>6
<1> DEFINE Same == UNCHANGED <<nodeSent, nodeFin, got, res>>
<1>5. ASSUME NEW r \in Requests, Reserve(r) \/ RegisterPending(r) \/ Write(r) PROVE Same
  BY <1>5 DEF Reserve, RegisterPending, Write, nodeVars
<1>6. ASSUME NEW r \in Requests, SinkReturns(r) \/ Unregister(r) \/ Release(r) PROVE Same
  BY <1>6 DEF SinkReturns, Unregister, Release, nodeVars
<1>7. ASSUME NEW r \in Requests, Expire(r) PROVE Same
  BY <1>7 DEF Expire, requestVars, nodeVars
<1>8. ASSUME HandlerStep \/ ReadHeartbeat PROVE Same
  BY <1>8 DEF HandlerStep, DeliverLookup, DeliverPush, Heartbeat, ReadFails, Remove,
              DeferredClose, ReadHeartbeat, requestVars, nodeVars
<1>9. ASSUME NEW a \in Closers, CloseStep(a) PROVE Same
  BY <1>9 DEF CloseStep, CloseLock, CloseNotify, CloseUnlock, CloseSocket, requestVars, nodeVars
<1>10. ASSUME RemoveProvider \/ Break \/ Reregister PROVE Same
  BY <1>10 DEF RemoveProvider, Break, Reregister, requestVars, nodeVars
<1>11. ASSUME UNCHANGED vars PROVE Same
  BY <1>11 DEF vars, requestVars, nodeVars
<1> QED
  BY <1>2, <1>3, <1>4, <1>5, <1>6, <1>7, <1>8, <1>9, <1>10, <1>11 DEF Next, RequestStep

\* nodeConn implements Answers for any number of requests, channel capacity
\* and length of streams: for its callers it is a connection without channels
\* and locks that never truncates an answer and calls it a success.
THEOREM ConnectionImplementsAnswers == Spec => ImplementsAnswers
<1>1. Init => Caller!Init
  BY DEF Init, Caller!Init
<1>2. Init => OutcomeOK
  BY DEF Init, OutcomeOK
<1>3. ConnInv => TypeOK
  BY DEF ConnInv
<1>4. TypeOK /\ OutcomeOK /\ [Next]_vars => OutcomeOK'
  BY OutcomeStep
<1>5. Spec => []OutcomeOK
  BY <1>2, <1>3, <1>4, ConnInvariant, PTL DEF Spec
<1> QED
  BY <1>1, <1>5, CallerFacts, CallerStep, ConnInvariant, PTL DEF Spec, ImplementsAnswers, Caller!Spec

=============================================================================
