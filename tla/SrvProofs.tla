----------------------------- MODULE SrvProofs -----------------------------
(***************************************************************************)
(* Proofs about Srv, for any clients, any number of buffers, any length of *)
(* the kernel's queues and any range of sequence numbers: no buffer is     *)
(* lost, replies come in order, and, where the range of sequence numbers   *)
(* is wider than what may be under way, an answer is the answer to the     *)
(* request just sent.                                                      *)
(***************************************************************************)
EXTENDS Srv, SequenceTheorems, FiniteSetTheorems, TLAPS

(* The three invariants need one another: that a free buffer may be taken   *)
(* or given back is a matter of type.                                       *)
SrvIInv == SrvTypeOK /\ NoBufferLeak /\ WatchMeansBusy

(* A server just opened has all its buffers and nothing to send             *)
(* (tinit_srv_open()).                                                      *)
LEMMA InitIInv == SrvInit => SrvIInv
<1> SUFFICES ASSUME SrvInit PROVE SrvIInv
  OBVIOUS
<1>1. [st |-> "idle", seqno |-> FirstSeqNo, sent |-> 0] \in ClientRecord
  BY SrvAssumption DEF ClientRecord
<1>2. clnt \in [Clients -> ClientRecord] /\ box \in [Clients -> Seq(Message)]
  BY <1>1 DEF SrvInit
<1>3. Len(busy) = 0
  BY DEF SrvInit
<1>4. NoBufferLeak
  BY <1>3, SrvAssumption DEF SrvInit, NoBufferLeak
<1>5. SrvTypeOK
  <2>1. inbox \in Seq(Message) /\ busy \in Seq(Message)
    BY DEF SrvInit
  <2>2. free \in 0 .. BuffNr
    BY SrvAssumption DEF SrvInit
  <2>3. pc = "poll" /\ watch = FALSE /\ fails = FALSE
    BY DEF SrvInit
  <2> QED
    BY <1>2, <2>1, <2>2, <2>3 DEF SrvTypeOK
<1>6. WatchMeansBusy
  BY DEF SrvInit, WatchMeansBusy
<1> QED
  BY <1>4, <1>5, <1>6 DEF SrvIInv

(* A request sent, a reply read, an exchange given up and a socket closed   *)
(* touch no buffer (lib.c).                                                 *)
LEMMA RequestIInv ==
  ASSUME SrvIInv, NEW c \in Clients, Request(c)
  PROVE  SrvIInv'
<1> DEFINE m == [clnt |-> c, seq |-> clnt[c].seqno, id |-> clnt[c].sent]
<1>1. clnt[c] \in ClientRecord
  BY DEF SrvIInv, SrvTypeOK
<1>2. m \in Message
  BY <1>1 DEF Message, ClientRecord
<1>3. inbox' \in Seq(Message)
  BY <1>2 DEF SrvIInv, SrvTypeOK, Request
<1>4. NextSeq(clnt[c].seqno) \in 0 .. SeqNr - 1
  BY <1>1, SrvAssumption DEF ClientRecord, NextSeq
<1>5. clnt' \in [Clients -> ClientRecord]
  <2> DEFINE r == [st |-> "wait", seqno |-> NextSeq(clnt[c].seqno), sent |-> clnt[c].sent + 1]
  <2>1. r \in ClientRecord
    BY <1>1, <1>4 DEF ClientRecord
  <2>2. clnt \in [Clients -> ClientRecord]
    BY DEF SrvIInv, SrvTypeOK
  <2>3. clnt' = [clnt EXCEPT ![c] = r]
    BY <1>1, <2>2 DEF Request, ClientRecord
  <2> QED
    BY <2>1, <2>2, <2>3
<1> QED
  BY <1>3, <1>5 DEF SrvIInv, SrvTypeOK, NoBufferLeak, WatchMeansBusy, Request

(* What a client does, and nothing else of it, changes.                     *)
LEMMA ClientStateTyped ==
  ASSUME SrvTypeOK, NEW c \in Clients, NEW st \in {"idle", "wait", "closed"},
         clnt' = [clnt EXCEPT ![c].st = st]
  PROVE  clnt' \in [Clients -> ClientRecord]
<1>1. clnt \in [Clients -> ClientRecord] /\ clnt[c] \in ClientRecord
  BY DEF SrvTypeOK
<1>2. [clnt[c] EXCEPT !.st = st] \in ClientRecord
  BY <1>1 DEF ClientRecord
<1>3. clnt' = [clnt EXCEPT ![c] = [clnt[c] EXCEPT !.st = st]]
  BY <1>1
<1> QED
  BY <1>1, <1>2, <1>3

LEMMA GetReplyIInv ==
  ASSUME SrvIInv, NEW c \in Clients, GetReply(c)
  PROVE  SrvIInv'
<1>1. clnt[c] \in ClientRecord /\ box[c] \in Seq(Message)
  BY DEF SrvIInv, SrvTypeOK
<1>2. Tail(box[c]) \in Seq(Message)
  BY <1>1 DEF GetReply
<1>3. clnt' \in [Clients -> ClientRecord]
  BY ClientStateTyped DEF SrvIInv, GetReply
<1>4. box' \in [Clients -> Seq(Message)]
  BY <1>2 DEF SrvIInv, SrvTypeOK, GetReply
<1> QED
  BY <1>3, <1>4
  DEF SrvIInv, SrvTypeOK, NoBufferLeak, WatchMeansBusy, GetReply, server

LEMMA LeaveIInv ==
  ASSUME SrvIInv, NEW c \in Clients, GiveUp(c) \/ Close(c)
  PROVE  SrvIInv'
<1>1. clnt' \in [Clients -> ClientRecord]
  <2>1. CASE GiveUp(c)
    BY <2>1, ClientStateTyped DEF SrvIInv, GiveUp
  <2>2. CASE Close(c)
    BY <2>2, ClientStateTyped DEF SrvIInv, Close
  <2> QED
    BY <2>1, <2>2
<1>2. box' \in [Clients -> Seq(Message)]
  <2>1. box \in [Clients -> Seq(Message)] /\ <<>> \in Seq(Message)
    BY DEF SrvIInv, SrvTypeOK
  <2>2. box' = box \/ box' = [box EXCEPT ![c] = <<>>]
    BY DEF GiveUp, Close
  <2> QED
    BY <2>1, <2>2
<1> QED
  BY <1>1, <1>2
  DEF SrvIInv, SrvTypeOK, NoBufferLeak, WatchMeansBusy, GiveUp, Close, server

(* The paths of tinit_srv_handle_requests() (srv.c).                        *)
LEMMA ReceptionIInv ==
  ASSUME SrvIInv, Poll \/ Receive \/ Reject \/ RequestsDone \/ ReceiveFails
  PROVE  SrvIInv'
<1>1. CASE Poll
  BY <1>1 DEF SrvIInv, SrvTypeOK, NoBufferLeak, WatchMeansBusy, Poll
<1>2. CASE Receive
  <2>1. inbox \in Seq(Message) /\ inbox # <<>> /\ busy \in Seq(Message)
    BY <1>2 DEF SrvIInv, SrvTypeOK, Receive
  <2>2. Head(inbox) \in Message /\ Tail(inbox) \in Seq(Message)
    BY <2>1
  <2>3. /\ Append(busy, Head(inbox)) \in Seq(Message)
        /\ Len(Append(busy, Head(inbox))) = Len(busy) + 1
    BY <2>1, <2>2
  <2>4. Len(busy) \in Nat /\ pc # "closed" /\ pc # "poll"
    BY <1>2, <2>1 DEF Receive, Receiving
  <2>5. free' \in 0 .. BuffNr /\ free' + Len(busy') = BuffNr
    <3>1. free \in Nat /\ free > 0 /\ BuffNr \in Nat /\ free + Len(busy) = BuffNr
      BY <1>2, <2>4, SrvAssumption
      DEF SrvIInv, SrvTypeOK, NoBufferLeak, Receive, Receiving
    <3>2. free' = free - 1 /\ Len(busy') = Len(busy) + 1
      BY <1>2, <2>3 DEF Receive
    <3> QED
      BY <2>4, <3>1, <3>2
  <2>6. SrvTypeOK'
    BY <1>2, <2>2, <2>3, <2>5 DEF SrvIInv, SrvTypeOK, Receive
  <2> QED
    BY <1>2, <2>4, <2>5, <2>6
    DEF SrvIInv, NoBufferLeak, WatchMeansBusy, Receive
<1>3. CASE Reject
  <2>1. Tail(inbox) \in Seq(Message)
    BY <1>3 DEF SrvIInv, SrvTypeOK, Reject
  <2> QED
    BY <1>3, <2>1
    DEF SrvIInv, SrvTypeOK, NoBufferLeak, WatchMeansBusy, Reject, Receiving
<1>4. CASE RequestsDone
  BY <1>4 DEF SrvIInv, SrvTypeOK, NoBufferLeak, WatchMeansBusy, RequestsDone
<1>5. CASE ReceiveFails
  BY <1>5
  DEF SrvIInv, SrvTypeOK, NoBufferLeak, WatchMeansBusy, ReceiveFails, Receiving
<1> QED
  BY <1>1, <1>2, <1>3, <1>4, <1>5

(* A buffer that is released goes from one queue to the other: what all the *)
(* paths that end the life of a reply share.                                *)
LEMMA ReleaseKeepsBuffers ==
  ASSUME SrvIInv, Sending, Release
  PROVE  /\ busy' \in Seq(Message)
         /\ free' \in 0 .. BuffNr
         /\ free' + Len(busy') = BuffNr
<1>1. busy \in Seq(Message) /\ busy # <<>> /\ pc # "closed"
  BY DEF SrvIInv, SrvTypeOK, Sending
<1>2. Tail(busy) \in Seq(Message) /\ Len(Tail(busy)) = Len(busy) - 1
  BY <1>1
<1>3. Len(busy) \in Nat /\ Len(Tail(busy)) \in Nat
  BY <1>1, <1>2
<1>4. free \in Nat /\ BuffNr \in Nat /\ free + Len(busy) = BuffNr
  BY <1>1, SrvAssumption DEF SrvIInv, SrvTypeOK, NoBufferLeak
<1>5. busy' = Tail(busy) /\ free' = free + 1
  BY DEF Release
<1> QED
  BY <1>1, <1>2, <1>3, <1>4, <1>5

(* The paths of tinit_srv_handle_replies() (srv.c) that release a buffer.   *)
LEMMA EmissionIInv ==
  ASSUME SrvIInv, Send \/ SendRefused \/ (SendFails /\ Release)
  PROVE  SrvIInv'
<1>1. Sending /\ Release
  BY DEF Send, SendRefused, SendFails
<1>2. /\ busy' \in Seq(Message)
      /\ free' \in 0 .. BuffNr
      /\ free' + Len(busy') = BuffNr
  BY <1>1, ReleaseKeepsBuffers
<1>3. box' \in [Clients -> Seq(Message)]
  <2>1. CASE Send
    <3>1. Head(busy) \in Message
      BY <1>1 DEF SrvIInv, SrvTypeOK, Sending
    <3>2. Head(busy).clnt \in Clients
      BY <3>1 DEF Message
    <3>3. Append(box[Head(busy).clnt], Head(busy)) \in Seq(Message)
      BY <3>1, <3>2 DEF SrvIInv, SrvTypeOK
    <3> QED
      BY <2>1, <3>3 DEF SrvIInv, SrvTypeOK, Send
  <2>2. CASE SendRefused \/ SendFails
    BY <2>2 DEF SrvIInv, SrvTypeOK, SendRefused, SendFails
  <2> QED
    BY <2>1, <2>2
<1>4. CASE Send
  BY <1>2, <1>3, <1>4
  DEF SrvIInv, SrvTypeOK, NoBufferLeak, WatchMeansBusy, Send, Sending
<1>5. CASE SendRefused
  BY <1>2, <1>3, <1>5
  DEF SrvIInv, SrvTypeOK, NoBufferLeak, WatchMeansBusy, SendRefused, Sending
<1>6. CASE SendFails
  BY <1>2, <1>3, <1>6
  DEF SrvIInv, SrvTypeOK, NoBufferLeak, WatchMeansBusy, SendFails, Sending
<1> QED
  BY <1>4, <1>5, <1>6

(* The paths that keep every buffer, and tinit_srv_close() (srv.c).         *)
LEMMA PauseIInv ==
  ASSUME SrvIInv,
         \/ SendAgain
         \/ SendFails /\ UNCHANGED <<busy, free>>
         \/ RepliesDone
         \/ SrvClose
  PROVE  SrvIInv'
<1>1. CASE SendAgain
  BY <1>1 DEF SrvIInv, SrvTypeOK, NoBufferLeak, WatchMeansBusy, SendAgain, Sending
<1>2. CASE SendFails /\ UNCHANGED <<busy, free>>
  BY <1>2 DEF SrvIInv, SrvTypeOK, NoBufferLeak, WatchMeansBusy, SendFails, Sending
<1>3. CASE RepliesDone
  BY <1>3 DEF SrvIInv, SrvTypeOK, NoBufferLeak, WatchMeansBusy, RepliesDone
<1>4. CASE SrvClose
  <2>1. <<>> \in Seq(Message) /\ 0 \in 0 .. BuffNr
    BY SrvAssumption
  <2>2. SrvTypeOK'
    BY <1>4, <2>1 DEF SrvIInv, SrvTypeOK, SrvClose
  <2> QED
    BY <1>4, <2>2 DEF SrvIInv, NoBufferLeak, WatchMeansBusy, SrvClose
<1> QED
  BY <1>1, <1>2, <1>3, <1>4

(* Every step of the server and of its clients keeps the invariant.         *)
LEMMA NextIInv == SrvIInv /\ [SrvNext]_svars => SrvIInv'
<1> SUFFICES ASSUME SrvIInv, [SrvNext]_svars PROVE SrvIInv'
  OBVIOUS
<1>1. CASE Serve
  BY <1>1, ReceptionIInv, EmissionIInv, PauseIInv DEF Serve
<1>2. CASE ReceiveFails
  BY <1>2, ReceptionIInv
<1>3. CASE SendFails
  <2>1. Release \/ UNCHANGED <<busy, free>>
    BY <1>3 DEF SendFails
  <2> QED
    BY <1>3, <2>1, EmissionIInv, PauseIInv
<1>4. CASE SrvClose
  BY <1>4, PauseIInv
<1>5. ASSUME NEW c \in Clients, Request(c) \/ GetReply(c) \/ GiveUp(c) \/ Close(c)
      PROVE  SrvIInv'
  BY <1>5, RequestIInv, GetReplyIInv, LeaveIInv
<1>6. CASE UNCHANGED svars
  BY <1>6 DEF SrvIInv, SrvTypeOK, NoBufferLeak, WatchMeansBusy, svars, server
<1> QED
  BY <1>1, <1>2, <1>3, <1>4, <1>5, <1>6 DEF SrvNext

LEMMA InductiveIInv == SrvSpec => []SrvIInv
  BY InitIInv, NextIInv, PTL DEF SrvSpec

(* Buffers, queues and clients keep their types: in particular the number   *)
(* of free buffers never exceeds TINIT_SRV_SEND_BUFF_NR.                    *)
THEOREM SrvTypeCorrect == SrvSpec => []SrvTypeOK
<1>1. SrvIInv => SrvTypeOK
  BY DEF SrvIInv
<1> QED
  BY <1>1, InductiveIInv, PTL

(* No path of srv.c loses a buffer, for any number of buffers.              *)
THEOREM BuffersKept == SrvSpec => []NoBufferLeak
<1>1. SrvIInv => NoBufferLeak
  BY DEF SrvIInv
<1> QED
  BY <1>1, InductiveIInv, PTL

(* As long as no system call fails, EPOLLOUT is watched between dispatches  *)
(* exactly while replies wait (srv.c), for any clients and queues.          *)
THEOREM WatchFollowsReplies == SrvSpec => []WatchMeansBusy
<1>1. SrvIInv => WatchMeansBusy
  BY DEF SrvIInv
<1> QED
  BY <1>1, InductiveIInv, PTL

-----------------------------------------------------------------------------
(* The order of replies and the answers of requests.                        *)
(*                                                                          *)
(* Line(c), what is under way for c, changes in few ways: a request is      *)
(* appended, messages leave it, and in most steps a message moves from one  *)
(* queue to the next without the line changing at all.                      *)

(* Sequences.                                                               *)

(* Each message of two queues in a row is at its place in one of them.      *)
LEMMA Joined ==
  ASSUME NEW a \in Seq(Message), NEW b \in Seq(Message)
  PROVE  /\ a \o b \in Seq(Message)
         /\ Len(a \o b) = Len(a) + Len(b)
         /\ \A i \in 1 .. Len(a) : (a \o b)[i] = a[i]
         /\ \A i \in 1 .. Len(b) : (a \o b)[Len(a) + i] = b[i]
         /\ \A i \in 1 .. Len(a \o b) :
              i \in 1 .. Len(a) \/ \E j \in 1 .. Len(b) : i = Len(a) + j
<1> DEFINE q == a \o b
<1>1. /\ q \in Seq(Message)
      /\ Len(q) = Len(a) + Len(b)
      /\ \A i \in 1 .. Len(a) + Len(b) : q[i] = IF i <= Len(a) THEN a[i] ELSE b[i - Len(a)]
  BY ConcatProperties
<1> HIDE DEF q
<1>2. Len(a) \in Nat /\ Len(b) \in Nat
  OBVIOUS
<1>3. \A i \in 1 .. Len(a) : q[i] = a[i]
  BY <1>1, <1>2
<1>4. ASSUME NEW i \in 1 .. Len(b)
      PROVE  q[Len(a) + i] = b[i]
  <2>1. Len(a) + i \in 1 .. Len(a) + Len(b) /\ ~(Len(a) + i <= Len(a)) /\ Len(a) + i - Len(a) = i
    BY <1>2
  <2> QED
    BY <1>1, <2>1
<1>5. ASSUME NEW i \in 1 .. Len(q), i \notin 1 .. Len(a)
      PROVE  \E j \in 1 .. Len(b) : i = Len(a) + j
  <2>1. i - Len(a) \in 1 .. Len(b) /\ i = Len(a) + (i - Len(a))
    BY <1>1, <1>2, <1>5
  <2> QED
    BY <2>1
<1> QED
  BY <1>1, <1>3, <1>4, <1>5 DEF q

(* r is q without its k-th message.                                         *)
Cut(q, r, k) ==
  /\ k \in 1 .. Len(q)
  /\ Len(r) = Len(q) - 1
  /\ \A i \in 1 .. Len(r) : r[i] = IF i < k THEN q[i] ELSE q[i + 1]

(* Taking the first message of a queue cuts it.                             *)
LEMMA CutHead ==
  ASSUME NEW q \in Seq(Message), q # <<>>
  PROVE  Cut(q, Tail(q), 1) /\ q[1] = Head(q) /\ Tail(q) \in Seq(Message)
<1>1. /\ Tail(q) \in Seq(Message) /\ Len(Tail(q)) = Len(q) - 1
      /\ \A i \in 1 .. Len(Tail(q)) : Tail(q)[i] = q[i + 1]
  BY HeadTailProperties
<1>2. Len(q) \in Nat /\ Len(q) > 0 /\ Head(q) = q[1]
  OBVIOUS
<1> QED
  BY <1>1, <1>2 DEF Cut

(* Where the message is cut does not depend on what comes before or after.  *)
LEMMA CutBehind ==
  ASSUME NEW q \in Seq(Message), NEW r \in Seq(Message), NEW k \in 1 .. Len(q), Cut(q, r, k),
         NEW a \in Seq(Message)
  PROVE  Cut(a \o q, a \o r, Len(a) + k) /\ (a \o q)[Len(a) + k] = q[k]
<1> DEFINE l == a \o q
           m == a \o r
<1>0. /\ Len(a) \in Nat /\ Len(q) \in Nat /\ Len(r) \in Nat
      /\ k \in 1 .. Len(q) /\ Len(r) = Len(q) - 1
  BY DEF Cut
<1>1. /\ Len(l) = Len(a) + Len(q)
      /\ \A i \in 1 .. Len(a) : l[i] = a[i]
      /\ \A i \in 1 .. Len(q) : l[Len(a) + i] = q[i]
  BY Joined
<1>2. /\ Len(m) = Len(a) + Len(r)
      /\ \A i \in 1 .. Len(a) : m[i] = a[i]
      /\ \A i \in 1 .. Len(r) : m[Len(a) + i] = r[i]
      /\ \A i \in 1 .. Len(m) : i \in 1 .. Len(a) \/ \E j \in 1 .. Len(r) : i = Len(a) + j
  BY Joined
<1> HIDE DEF l, m
<1>3. ASSUME NEW i \in 1 .. Len(m)
      PROVE  m[i] = IF i < Len(a) + k THEN l[i] ELSE l[i + 1]
  <2>1. CASE i \in 1 .. Len(a)
    BY <1>0, <1>1, <1>2, <2>1
  <2>2. ASSUME NEW j \in 1 .. Len(r), i = Len(a) + j
        PROVE  m[i] = IF i < Len(a) + k THEN l[i] ELSE l[i + 1]
    <3>1. m[i] = IF j < k THEN q[j] ELSE q[j + 1]
      BY <1>2, <2>2 DEF Cut
    <3>2. j \in 1 .. Len(q) /\ j + 1 \in 1 .. Len(q) /\ i + 1 = Len(a) + (j + 1)
      BY <1>0, <2>2
    <3>3. l[i] = q[j] /\ l[i + 1] = q[j + 1]
      BY <1>1, <2>2, <3>2
    <3>4. i < Len(a) + k <=> j < k
      BY <1>0, <2>2
    <3> QED
      BY <3>1, <3>3, <3>4
  <2> QED
    BY <1>2, <2>1, <2>2
<1>4. Len(m) = Len(l) - 1 /\ Len(a) + k \in 1 .. Len(l)
  BY <1>0, <1>1, <1>2
<1>5. Cut(l, m, Len(a) + k)
  BY <1>3, <1>4 DEF Cut
<1> QED
  BY <1>0, <1>1, <1>5 DEF l, m

LEMMA CutBefore ==
  ASSUME NEW q \in Seq(Message), NEW r \in Seq(Message), NEW k \in 1 .. Len(q), Cut(q, r, k),
         NEW a \in Seq(Message)
  PROVE  Cut(q \o a, r \o a, k) /\ (q \o a)[k] = q[k]
<1> DEFINE l == q \o a
           m == r \o a
<1>0. /\ Len(a) \in Nat /\ Len(q) \in Nat /\ Len(r) \in Nat
      /\ k \in 1 .. Len(q) /\ Len(r) = Len(q) - 1
  BY DEF Cut
<1>1. /\ Len(l) = Len(q) + Len(a)
      /\ \A i \in 1 .. Len(q) : l[i] = q[i]
      /\ \A i \in 1 .. Len(a) : l[Len(q) + i] = a[i]
  BY Joined
<1>2. /\ Len(m) = Len(r) + Len(a)
      /\ \A i \in 1 .. Len(r) : m[i] = r[i]
      /\ \A i \in 1 .. Len(a) : m[Len(r) + i] = a[i]
      /\ \A i \in 1 .. Len(m) : i \in 1 .. Len(r) \/ \E j \in 1 .. Len(a) : i = Len(r) + j
  BY Joined
<1> HIDE DEF l, m
<1>3. ASSUME NEW i \in 1 .. Len(m)
      PROVE  m[i] = IF i < k THEN l[i] ELSE l[i + 1]
  <2>1. CASE i \in 1 .. Len(r)
    <3>1. m[i] = IF i < k THEN q[i] ELSE q[i + 1]
      BY <1>2, <2>1 DEF Cut
    <3>2. i \in 1 .. Len(q) /\ i + 1 \in 1 .. Len(q)
      BY <1>0, <2>1
    <3> QED
      BY <1>1, <3>1, <3>2
  <2>2. ASSUME NEW j \in 1 .. Len(a), i = Len(r) + j
        PROVE  m[i] = IF i < k THEN l[i] ELSE l[i + 1]
    <3>1. ~(i < k) /\ i + 1 = Len(q) + j
      BY <1>0, <2>2
    <3> QED
      BY <1>1, <1>2, <2>2, <3>1
  <2> QED
    BY <1>2, <2>1, <2>2
<1>4. Len(m) = Len(l) - 1 /\ k \in 1 .. Len(l)
  BY <1>0, <1>1, <1>2
<1>5. Cut(l, m, k)
  BY <1>3, <1>4 DEF Cut
<1> QED
  BY <1>0, <1>1, <1>5 DEF l, m

(* A message moves from the beginning of a queue to the end of the next.    *)
LEMMA MoveKeeps ==
  ASSUME NEW a \in Seq(Message), NEW b \in Seq(Message), b # <<>>
  PROVE  Append(a, Head(b)) \o Tail(b) = a \o b
<1>1. Head(b) \in Message /\ Tail(b) \in Seq(Message)
  BY HeadTailProperties
<1>2. <<Head(b)>> \in Seq(Message)
  BY <1>1
<1>3. Append(a, Head(b)) = a \o <<Head(b)>>
  BY <1>1, AppendIsConcat
<1>4. (a \o <<Head(b)>>) \o Tail(b) = a \o (<<Head(b)>> \o Tail(b))
  BY <1>1, <1>2, ConcatAssociative
<1>5. <<Head(b)>> \o Tail(b) = b
  <2>1. Len(b) \in Nat /\ Len(b) >= 1 /\ 1 \in 1 .. Len(b) /\ Len(b) \in 1 .. Len(b)
    OBVIOUS
  <2>2. SubSeq(b, 1, Len(b)) = <<b[1]>> \o SubSeq(b, 1 + 1, Len(b))
    BY <2>1, SubSeqRecursiveFirst
  <2>3. SubSeq(b, 1, Len(b)) = b
    BY SubSeqFull
  <2>4. Tail(b) = SubSeq(b, 2, Len(b)) /\ Head(b) = b[1] /\ 1 + 1 = 2
    BY TailIsSubSeq
  <2> QED
    BY <2>2, <2>3, <2>4
<1> QED
  BY <1>3, <1>4, <1>5

(* How the three queues of a line are grouped does not matter.              *)
LEMMA Regroup ==
  \A a, b, d \in Seq(Message) : (a \o b) \o d = a \o (b \o d)
  BY ConcatAssociative

(* ... so the oldest message being served can be cut out of a whole line.   *)
LEMMA CutBetween ==
  ASSUME NEW q \in Seq(Message), NEW r \in Seq(Message), NEW k \in 1 .. Len(q), Cut(q, r, k),
         NEW a \in Seq(Message), NEW b \in Seq(Message)
  PROVE  /\ Cut((a \o q) \o b, (a \o r) \o b, Len(a) + k)
         /\ ((a \o q) \o b)[Len(a) + k] = q[k]
<1> DEFINE x == a \o q
           y == a \o r
           l == Len(a) + k
<1>1. x \in Seq(Message) /\ y \in Seq(Message)
  BY ConcatProperties
<1>2. Cut(x, y, l) /\ x[l] = q[k]
  BY CutBehind, SMTT(30)
<1> HIDE DEF x, y, l
<1>3. l \in 1 .. Len(x)
  BY <1>2 DEF Cut
<1>4. Cut(x \o b, y \o b, l)
  BY <1>1, <1>2, <1>3, CutBefore
<1>5. (x \o b)[l] = x[l]
  BY <1>1, <1>2, <1>3, CutBefore
<1> QED
  BY <1>2, <1>4, <1>5 DEF x, y, l

-----------------------------------------------------------------------------
(* What is left when messages leave a line.                                 *)

Rest(q, r) ==
  \E e \in [1 .. Len(r) -> 1 .. Len(q)] :
    /\ \A i \in 1 .. Len(r) : r[i] = q[e[i]]
    /\ \A i, j \in 1 .. Len(r) : i < j => e[i] < e[j]

(* All but one message are left.                                            *)
LEMMA CutIsRest ==
  ASSUME NEW q \in Seq(Message), NEW r \in Seq(Message), NEW k \in 1 .. Len(q), Cut(q, r, k)
  PROVE  Rest(q, r)
<1> DEFINE e == [i \in 1 .. Len(r) |-> IF i < k THEN i ELSE i + 1]
<1>0. Len(q) \in Nat /\ Len(r) \in Nat /\ Len(r) = Len(q) - 1 /\ k \in 1 .. Len(q)
  BY DEF Cut
<1>1. e \in [1 .. Len(r) -> 1 .. Len(q)]
  BY <1>0
<1>2. \A i \in 1 .. Len(r) : r[i] = q[e[i]]
  BY DEF Cut
<1>3. \A i, j \in 1 .. Len(r) : i < j => e[i] < e[j]
  BY <1>0
<1> HIDE DEF e
<1> QED
  BY <1>1, <1>2, <1>3 DEF Rest

(* A queue is lost at one end or the other.                                 *)
LEMMA EndsAreRest ==
  ASSUME NEW a \in Seq(Message), NEW b \in Seq(Message)
  PROVE  Rest(a \o b, a) /\ Rest(a \o b, b)
<1> DEFINE q == a \o b
           e == [i \in 1 .. Len(a) |-> i]
           f == [i \in 1 .. Len(b) |-> Len(a) + i]
<1>0. Len(a) \in Nat /\ Len(b) \in Nat
  OBVIOUS
<1>1. /\ Len(q) = Len(a) + Len(b)
      /\ \A i \in 1 .. Len(a) : q[i] = a[i]
      /\ \A i \in 1 .. Len(b) : q[Len(a) + i] = b[i]
  BY Joined
<1> HIDE DEF q
<1>2. Rest(q, a)
  <2>1. e \in [1 .. Len(a) -> 1 .. Len(q)]
    BY <1>0, <1>1
  <2>2. \A i \in 1 .. Len(a) : a[i] = q[e[i]]
    BY <1>1
  <2>3. \A i, j \in 1 .. Len(a) : i < j => e[i] < e[j]
    OBVIOUS
  <2> HIDE DEF e
  <2> QED
    BY <2>1, <2>2, <2>3 DEF Rest
<1>3. Rest(q, b)
  <2>1. f \in [1 .. Len(b) -> 1 .. Len(q)]
    BY <1>0, <1>1
  <2>2. \A i \in 1 .. Len(b) : b[i] = q[f[i]]
    BY <1>1
  <2>3. \A i, j \in 1 .. Len(b) : i < j => f[i] < f[j]
    BY <1>0
  <2> HIDE DEF f
  <2> QED
    BY <2>1, <2>2, <2>3 DEF Rest
<1> QED
  BY <1>2, <1>3 DEF q

(* None is lost.                                                            *)
LEMMA AllIsRest ==
  ASSUME NEW q \in Seq(Message)
  PROVE  Rest(q, q)
<1>1. q \o <<>> = q /\ <<>> \in Seq(Message)
  BY ConcatEmptySeq
<1> QED
  BY <1>1, EndsAreRest

-----------------------------------------------------------------------------
(* The messages of one client in a line.                                    *)

(* Where they are.                                                          *)
OwnAt(c, q) == {i \in 1 .. Len(q) : q[i].clnt = c}

(* They are in the order of the requests.                                   *)
Sorted(c, q) == \A i, j \in OwnAt(c, q) : i < j => q[i].id < q[j].id

(* n is the number of requests c has sent.                                  *)
Numbered(c, q, n) == \A i \in OwnAt(c, q) : q[i].id < n

(* Nothing c has sent after a message has been lost.                        *)
Whole(c, q, n) ==
  \A i \in OwnAt(c, q) : \A k \in q[i].id .. n - 1 : \E j \in OwnAt(c, q) : q[j].id = k

(* s is the next sequence number of c: it is as far from that of a message  *)
(* as there are requests in between, less the turn it may have made, and no *)
(* message is old enough for it to have made two.                           *)
Near(c, q, n, s) ==
  \A i \in OwnAt(c, q) :
    /\ n - q[i].id <= InFlightMax
    /\ \/ s = q[i].seq + (n - q[i].id)
       \/ s = q[i].seq + (n - q[i].id) - SeqNr

(* Order, numbers and distances survive the loss of messages.               *)
LEMMA RestKeeps ==
  ASSUME NEW q, NEW r, Rest(q, r), NEW c, NEW n, NEW s
  PROVE  /\ Sorted(c, q) => Sorted(c, r)
         /\ Numbered(c, q, n) => Numbered(c, r, n)
         /\ Near(c, q, n, s) => Near(c, r, n, s)
<1>1. PICK e \in [1 .. Len(r) -> 1 .. Len(q)] :
        /\ \A i \in 1 .. Len(r) : r[i] = q[e[i]]
        /\ \A i, j \in 1 .. Len(r) : i < j => e[i] < e[j]
  BY DEF Rest
<1>2. \A i \in OwnAt(c, r) : i \in 1 .. Len(r) /\ e[i] \in OwnAt(c, q) /\ r[i] = q[e[i]]
  BY <1>1 DEF OwnAt
<1>3. Sorted(c, q) => Sorted(c, r)
  BY <1>1, <1>2 DEF Sorted
<1>4. Numbered(c, q, n) => Numbered(c, r, n)
  BY <1>2 DEF Numbered
<1>5. Near(c, q, n, s) => Near(c, r, n, s)
  BY <1>2 DEF Near
<1> QED
  BY <1>3, <1>4, <1>5

(* Nothing in between is missing after a message of another client, or the  *)
(* oldest of all, has gone.                                                 *)
LEMMA CutKeepsWhole ==
  ASSUME NEW q \in Seq(Message), NEW r \in Seq(Message), NEW k \in 1 .. Len(q), Cut(q, r, k),
         NEW c \in Clients, NEW n \in Nat, Whole(c, q, n), Sorted(c, q),
         q[k].clnt # c \/ k = 1
  PROVE  Whole(c, r, n)
<1> SUFFICES ASSUME NEW i \in OwnAt(c, r), NEW m \in r[i].id .. n - 1
             PROVE  \E j \in OwnAt(c, r) : r[j].id = m
  BY DEF Whole
<1>0. /\ Len(q) \in Nat /\ Len(r) \in Nat /\ Len(r) = Len(q) - 1
      /\ i \in 1 .. Len(r) /\ k \in 1 .. Len(q)
  BY DEF Cut, OwnAt
<1> DEFINE b == IF i < k THEN i ELSE i + 1
<1>1. b \in 1 .. Len(q) /\ b # k /\ r[i] = q[b]
  BY <1>0 DEF Cut
<1>2. b \in OwnAt(c, q) /\ r[i].id = q[b].id
  BY <1>1 DEF OwnAt
<1>3. PICK j \in OwnAt(c, q) : q[j].id = m
  BY <1>2 DEF Whole
<1>4. j \in 1 .. Len(q) /\ q[j].clnt = c
  BY DEF OwnAt
<1>5. j # k
  <2>1. CASE q[k].clnt # c
    BY <1>4, <2>1
  <2>2. CASE k = 1
    <3> SUFFICES ASSUME j = k PROVE FALSE
      OBVIOUS
    <3>1. q[j].id < q[b].id
      BY <1>0, <1>1, <1>2, <2>2 DEF Sorted
    <3>2. q[b] \in Message
      BY <1>1
    <3>3. q[b].id \in Nat /\ m \in Int /\ q[b].id <= m
      BY <1>2, <3>2 DEF Message
    <3> QED
      BY <1>3, <3>1, <3>3
  <2> QED
    BY <2>1, <2>2
<1> DEFINE l == IF j < k THEN j ELSE j - 1
<1>6. l \in 1 .. Len(r) /\ r[l] = q[j]
  <2>1. CASE j < k
    BY <1>0, <1>4, <2>1 DEF Cut
  <2>2. CASE j > k
    <3>1. j - 1 \in 1 .. Len(r) /\ ~(j - 1 < k) /\ j - 1 + 1 = j
      BY <1>0, <1>4, <2>2
    <3>2. r[j - 1] = q[j - 1 + 1]
      BY <3>1 DEF Cut
    <3> QED
      BY <1>0, <1>4, <2>2, <3>1, <3>2
  <2> QED
    BY <1>0, <1>4, <1>5, <2>1, <2>2
<1> QED
  BY <1>3, <1>4, <1>6 DEF OwnAt

(* As many messages are under way as c has sent since any of them.          *)
LEMMA WholeBounds ==
  ASSUME NEW q \in Seq(Message), NEW c \in Clients, NEW n \in Nat, Whole(c, q, n),
         NEW i \in OwnAt(c, q)
  PROVE  n - q[i].id <= Len(q)
<1>0. i \in 1 .. Len(q) /\ Len(q) \in Nat
  BY DEF OwnAt
<1>1. q[i] \in Message
  BY <1>0
<1>2. q[i].id \in Nat
  BY <1>1 DEF Message
<1> DEFINE lo == q[i].id
           at(k) == CHOOSE j \in OwnAt(c, q) : q[j].id = k
           f == [k \in lo .. n - 1 |-> at(k)]
<1>3. \A k \in lo .. n - 1 : f[k] \in OwnAt(c, q) /\ q[f[k]].id = k
  BY DEF Whole
<1>4. f \in [lo .. n - 1 -> 1 .. Len(q)]
  BY <1>3 DEF OwnAt
<1> HIDE DEF f
<1>5. f \in Injection(lo .. n - 1, 1 .. Len(q))
  BY <1>3, <1>4 DEF Injection, IsInjective
<1>6. /\ IsFiniteSet(1 .. Len(q)) /\ Cardinality(1 .. Len(q)) = Len(q)
      /\ Cardinality(lo .. n - 1) = IF lo > n - 1 THEN 0 ELSE (n - 1) - lo + 1
  <2>1. /\ Cardinality(1 .. Len(q)) = IF 1 > Len(q) THEN 0 ELSE Len(q) - 1 + 1
        /\ IsFiniteSet(1 .. Len(q))
    BY <1>0, FS_Interval
  <2>2. lo \in Int /\ n - 1 \in Int
    BY <1>2
  <2> HIDE DEF lo
  <2>3. Cardinality(lo .. n - 1) = IF lo > n - 1 THEN 0 ELSE (n - 1) - lo + 1
    BY <2>2, FS_Interval
  <2> QED
    BY <1>0, <2>1, <2>3
<1>7. Cardinality(lo .. n - 1) <= Cardinality(1 .. Len(q))
  BY <1>5, <1>6, FS_Injection
<1> QED
  BY <1>0, <1>2, <1>6, <1>7

(* A request of another client changes nothing to the messages of c.        *)
LEMMA OthersAppend ==
  ASSUME NEW q \in Seq(Message), NEW m \in Message, NEW c \in Clients, m.clnt # c,
         NEW n, NEW s
  PROVE  LET r == Append(q, m)
         IN  /\ Sorted(c, q) => Sorted(c, r)
             /\ Numbered(c, q, n) => Numbered(c, r, n)
             /\ Whole(c, q, n) => Whole(c, r, n)
             /\ Near(c, q, n, s) => Near(c, r, n, s)
<1> DEFINE r == Append(q, m)
<1>1. /\ Len(r) = Len(q) + 1 /\ r[Len(q) + 1] = m
      /\ \A i \in 1 .. Len(q) : r[i] = q[i]
  BY AppendProperties
<1>2. Len(q) \in Nat
  OBVIOUS
<1> HIDE DEF r
<1>3. OwnAt(c, r) = OwnAt(c, q) /\ \A i \in OwnAt(c, q) : r[i] = q[i]
  BY <1>1, <1>2 DEF OwnAt
<1>4. Sorted(c, q) => Sorted(c, r)
  BY <1>3 DEF Sorted
<1>5. Numbered(c, q, n) => Numbered(c, r, n)
  BY <1>3 DEF Numbered
<1>6. Whole(c, q, n) => Whole(c, r, n)
  BY <1>3 DEF Whole
<1>7. Near(c, q, n, s) => Near(c, r, n, s)
  BY <1>3 DEF Near
<1> QED
  BY <1>4, <1>5, <1>6, <1>7 DEF r

(* A sequence number starts again from 0 after SeqNr - 1 (lib.c).           *)
LEMMA NextSeqIs ==
  ASSUME NEW w \in 0 .. SeqNr - 1
  PROVE  NextSeq(w) = IF w + 1 < SeqNr THEN w + 1 ELSE 0
<1>1. ASSUME NEW x \in Nat, NEW y \in Nat, x < y
      PROVE  x % y = x
  BY <1>1
<1>2. ASSUME NEW y \in Nat \ {0}
      PROVE  y % y = 0
  OBVIOUS
<1>3. SeqNr \in Nat \ {0} /\ w + 1 \in Nat /\ w + 1 <= SeqNr
  BY SrvAssumption
<1>4. CASE w + 1 < SeqNr
  BY <1>1, <1>3, <1>4 DEF NextSeq
<1>5. CASE w + 1 = SeqNr
  BY <1>2, <1>3, <1>5 DEF NextSeq
<1> QED
  BY <1>3, <1>4, <1>5

(* A request of c is the newest of its messages.                            *)
LEMMA OwnAppend ==
  ASSUME NEW q \in Seq(Message), NEW m \in Message, NEW c \in Clients, m.clnt = c,
         NEW n \in Nat, m.id = n, Sorted(c, q), Numbered(c, q, n)
  PROVE  LET r == Append(q, m)
         IN  /\ Sorted(c, r)
             /\ Numbered(c, r, n + 1)
             /\ Whole(c, q, n) => Whole(c, r, n + 1)
             /\ (Near(c, q, n, m.seq) /\ Whole(c, q, n) /\ Len(q) < InFlightMax) =>
                  Near(c, r, n + 1, NextSeq(m.seq))
<1> DEFINE r == Append(q, m)
           z == Len(q) + 1
<1>1. /\ Len(r) = Len(q) + 1 /\ r[Len(q) + 1] = m
      /\ \A i \in 1 .. Len(q) : r[i] = q[i]
      /\ r \in Seq(Message)
  BY AppendProperties
<1>2. Len(q) \in Nat /\ m.seq \in 0 .. SeqNr - 1
  BY DEF Message
<1> HIDE DEF r
<1>3. /\ OwnAt(c, r) = OwnAt(c, q) \cup {z}
      /\ \A i \in OwnAt(c, q) : r[i] = q[i] /\ i < z /\ i \in 1 .. Len(q)
      /\ r[z] = m
  BY <1>1, <1>2 DEF OwnAt
<1>4. \A i \in OwnAt(c, q) : q[i].id \in Nat /\ q[i].seq \in 0 .. SeqNr - 1
  <2> TAKE i \in OwnAt(c, q)
  <2>1. q[i] \in Message
    BY <1>3
  <2> QED
    BY <2>1 DEF Message
<1> HIDE DEF z
<1>5. Sorted(c, r)
  <2> SUFFICES ASSUME NEW i \in OwnAt(c, r), NEW j \in OwnAt(c, r), i < j
               PROVE  r[i].id < r[j].id
    BY DEF Sorted
  <2>1. i \in OwnAt(c, q)
    BY <1>1, <1>2, <1>3 DEF OwnAt, z
  <2> QED
    BY <1>3, <2>1 DEF Sorted, Numbered
<1>6. Numbered(c, r, n + 1)
  BY <1>3, <1>4 DEF Numbered
<1>7. ASSUME Whole(c, q, n)
      PROVE  Whole(c, r, n + 1)
  <2> SUFFICES ASSUME NEW i \in OwnAt(c, r), NEW k \in r[i].id .. n + 1 - 1
               PROVE  \E j \in OwnAt(c, r) : r[j].id = k
    BY DEF Whole
  <2>1. CASE k = n
    BY <1>3, <2>1
  <2>2. CASE k # n
    <3>1. i \in OwnAt(c, q) /\ k \in q[i].id .. n - 1
      BY <1>3, <1>4, <2>2
    <3>2. PICK j \in OwnAt(c, q) : q[j].id = k
      BY <1>7, <3>1 DEF Whole
    <3> QED
      BY <1>3, <3>2
  <2> QED
    BY <2>1, <2>2
<1>8. ASSUME Near(c, q, n, m.seq), Whole(c, q, n), Len(q) < InFlightMax
      PROVE  Near(c, r, n + 1, NextSeq(m.seq))
  <2>0. /\ InFlightMax \in Nat /\ SeqNr \in Nat /\ InFlightMax < SeqNr /\ InFlightMax >= 3
    BY SrvAssumption, SeqAssumption DEF InFlightMax
  <2>1. NextSeq(m.seq) = IF m.seq + 1 < SeqNr THEN m.seq + 1 ELSE 0
    BY <1>2, NextSeqIs
  <2> DEFINE n1 == n + 1
             s1 == NextSeq(m.seq)
  <2> HIDE DEF n1, s1
  <2> SUFFICES ASSUME NEW i \in OwnAt(c, r)
               PROVE  /\ n1 - r[i].id <= InFlightMax
                      /\ \/ s1 = r[i].seq + (n1 - r[i].id)
                         \/ s1 = r[i].seq + (n1 - r[i].id) - SeqNr
    BY DEF Near, n1, s1
  <2> USE DEF n1, s1
  <2>3. CASE i = z
    BY <1>2, <1>3, <2>0, <2>1, <2>3, SMTT(30)
  <2>4. CASE i \in OwnAt(c, q)
    <3>1. n - q[i].id <= Len(q)
      BY <1>8, <2>4, WholeBounds
    <3>2. /\ q[i].id \in Nat /\ q[i].seq \in 0 .. SeqNr - 1 /\ q[i].id < n
          /\ r[i] = q[i]
      BY <1>3, <1>4, <2>4 DEF Numbered
    <3>3. \/ m.seq = q[i].seq + (n - q[i].id)
          \/ m.seq = q[i].seq + (n - q[i].id) - SeqNr
      BY <1>8, <2>4 DEF Near
    <3>4. n + 1 - q[i].id <= InFlightMax
      BY <1>2, <1>8, <2>0, <3>1, <3>2
    <3> DEFINE x == q[i].id
               y == q[i].seq
               w == m.seq
    <3>5. /\ x \in Nat /\ y \in 0 .. SeqNr - 1 /\ w \in 0 .. SeqNr - 1
          /\ x < n /\ n + 1 - x < SeqNr
          /\ w = y + (n - x) \/ w = y + (n - x) - SeqNr
      BY <1>2, <2>0, <3>2, <3>3, <3>4
    <3>6. NextSeq(w) = IF w + 1 < SeqNr THEN w + 1 ELSE 0
      BY <2>1
    <3> HIDE DEF x, y, w
    <3>7. NextSeq(w) = y + (n + 1 - x) \/ NextSeq(w) = y + (n + 1 - x) - SeqNr
      BY <2>0, <3>5, <3>6
    <3> QED
      BY <3>2, <3>4, <3>7 DEF x, y, w
  <2> QED
    BY <1>3, <2>3, <2>4
<1> QED
  BY <1>5, <1>6, <1>7, <1>8 DEF r

-----------------------------------------------------------------------------
(* The invariant.                                                           *)

(* Only requests of accepted clients are served, and replies go to the      *)
(* client whose request they are in the buffer of.                          *)
QueuesOK ==
  /\ \A i \in 1 .. Len(busy) : busy[i].clnt \in Accepted
  /\ \A c \in Clients : Len(box[c]) <= QueueLen
  /\ \A c \in Clients : \A i \in 1 .. Len(box[c]) : box[c][i].clnt = c /\ c \in Accepted

(* What RestKeeps, CutKeepsWhole and the two Append lemmas keep of a line.   *)
LineOK(c) ==
  /\ Sorted(c, Line(c))
  /\ Numbered(c, Line(c), clnt[c].sent)
  /\ (~fails /\ c \in Accepted) => Near(c, Line(c), clnt[c].sent, clnt[c].seqno)
  /\ (~fails /\ c \in Accepted /\ pc # "closed" /\ clnt[c].st # "closed") =>
       Whole(c, Line(c), clnt[c].sent)

OrderInv == SrvIInv /\ QueuesOK /\ \A c \in Clients : LineOK(c)

(* A line is made of the three queues, which are typed.                     *)
LEMMA LineTyped ==
  ASSUME SrvTypeOK, NEW c \in Clients
  PROVE  /\ box[c] \in Seq(Message) /\ busy \in Seq(Message) /\ inbox \in Seq(Message)
         /\ box[c] \o busy \in Seq(Message) /\ Line(c) \in Seq(Message)
<1>1. box[c] \in Seq(Message) /\ busy \in Seq(Message) /\ inbox \in Seq(Message)
  BY DEF SrvTypeOK
<1>2. box[c] \o busy \in Seq(Message)
  BY <1>1, ConcatProperties
<1>3. (box[c] \o busy) \o inbox \in Seq(Message)
  BY <1>1, <1>2, ConcatProperties
<1> QED
  BY <1>1, <1>2, <1>3 DEF Line

(* What c has asked for does not change, and nothing is taken back.         *)
Steady(c) ==
  /\ clnt'[c].sent = clnt[c].sent /\ clnt'[c].seqno = clnt[c].seqno
  /\ fails => fails'
  /\ pc = "closed" => pc' = "closed"
  /\ clnt[c].st = "closed" => clnt'[c].st = "closed"

(* The steps in which c sends nothing.                                      *)
LEMMA LineKept ==
  ASSUME OrderInv, NEW c \in Clients, Steady(c), NEW r \in Seq(Message), Line(c)' = r,
         \/ r = Line(c)
         \/ \E k \in 1 .. Len(Line(c)) :
              /\ Cut(Line(c), r, k)
              /\ \/ Line(c)[k].clnt # c \/ k = 1
                 \/ fails' \/ c \notin Accepted \/ clnt'[c].st = "closed"
         \/ Rest(Line(c), r) /\ (pc' = "closed" \/ clnt'[c].st = "closed")
  PROVE  LineOK(c)'
<1> DEFINE q == Line(c)
           n == clnt[c].sent
           s == clnt[c].seqno
<1>0. q \in Seq(Message) /\ n \in Nat
  BY LineTyped DEF OrderInv, SrvIInv, SrvTypeOK, ClientRecord
<1>1. /\ Sorted(c, q) /\ Numbered(c, q, n)
      /\ (~fails /\ c \in Accepted) => Near(c, q, n, s)
      /\ (~fails /\ c \in Accepted /\ pc # "closed" /\ clnt[c].st # "closed") => Whole(c, q, n)
  BY DEF OrderInv, LineOK
<1> HIDE DEF q, n, s
<1>2. Rest(q, r)
  BY <1>0, CutIsRest, AllIsRest DEF q
<1>3. Sorted(c, r) /\ Numbered(c, r, n) /\ (Near(c, q, n, s) => Near(c, r, n, s))
  BY <1>1, <1>2, RestKeeps
<1>4. ASSUME ~fails', c \in Accepted, pc' # "closed", clnt'[c].st # "closed"
      PROVE  Whole(c, r, n)
  <2>1. Whole(c, q, n)
    BY <1>1, <1>4 DEF Steady
  <2>2. r = q \/ \E k \in 1 .. Len(q) : Cut(q, r, k) /\ (q[k].clnt # c \/ k = 1)
    BY <1>4 DEF q
  <2> QED
    BY <1>0, <1>1, <2>1, <2>2, CutKeepsWhole
<1>5. (~fails' /\ c \in Accepted) => Near(c, r, n, s)
  BY <1>1, <1>3 DEF Steady
<1>6. clnt'[c].sent = n /\ clnt'[c].seqno = s
  BY DEF Steady, n, s
<1>7. /\ Sorted(c, Line(c))' <=> Sorted(c, r)
      /\ Numbered(c, Line(c), clnt[c].sent)' <=> Numbered(c, r, n)
      /\ Near(c, Line(c), clnt[c].sent, clnt[c].seqno)' <=> Near(c, r, n, s)
      /\ Whole(c, Line(c), clnt[c].sent)' <=> Whole(c, r, n)
  BY <1>6 DEF Sorted, Numbered, Near, Whole, OwnAt
<1> QED
  BY <1>3, <1>4, <1>5, <1>7 DEF LineOK

(* The steps that leave the messages where they are.                        *)
LEMMA NoMove ==
  ASSUME OrderInv, UNCHANGED <<inbox, busy, box>>, \A c \in Clients : Steady(c)
  PROVE  QueuesOK' /\ \A c \in Clients : LineOK(c)'
<1>1. QueuesOK'
  BY DEF OrderInv, QueuesOK
<1>2. ASSUME NEW c \in Clients
      PROVE  LineOK(c)'
  <2>1. Line(c)' = Line(c)
    BY DEF Line
  <2>2. Line(c) \in Seq(Message)
    BY LineTyped DEF OrderInv, SrvIInv
  <2> QED
    BY <2>1, <2>2, LineKept
<1> QED
  BY <1>1, <1>2

(* A buffer is let go of and nothing sent.                                  *)
LEMMA ReleaseOrder ==
  ASSUME OrderInv, Sending, Release, UNCHANGED <<inbox, box>>,
         \A c \in Clients : Steady(c),
         fails' \/ clnt'[Head(busy).clnt].st = "closed"
  PROVE  QueuesOK' /\ \A c \in Clients : LineOK(c)'
<1>1. busy \in Seq(Message) /\ busy # <<>> /\ busy' = Tail(busy)
  BY DEF OrderInv, SrvIInv, SrvTypeOK, Sending, Release
<1>2. /\ Cut(busy, busy', 1) /\ busy[1] = Head(busy) /\ busy' \in Seq(Message)
      /\ 1 \in 1 .. Len(busy)
  BY <1>1, CutHead DEF Cut
<1>3. QueuesOK'
  <2>1. \A i \in 1 .. Len(busy') : i + 1 \in 1 .. Len(busy) /\ busy'[i] = busy[i + 1]
    BY <1>1, <1>2 DEF Cut
  <2> QED
    BY <2>1 DEF OrderInv, QueuesOK
<1>4. ASSUME NEW c \in Clients
      PROVE  LineOK(c)'
  <2> DEFINE a == box[c]
             t == busy'
             r == (a \o t) \o inbox
             k == Len(a) + 1
  <2>1. /\ a \in Seq(Message) /\ inbox \in Seq(Message) /\ a \o busy \in Seq(Message)
        /\ t \in Seq(Message) /\ Cut(busy, t, 1)
    BY <1>2, LineTyped DEF OrderInv, SrvIInv
  <2> HIDE DEF a, t
  <2>2. a \o t \in Seq(Message)
    BY <2>1, ConcatProperties
  <2>3. /\ Cut((a \o busy) \o inbox, r, k)
        /\ ((a \o busy) \o inbox)[k] = Head(busy)
    BY <1>1, <1>2, <2>1, CutBetween
  <2>4. r \in Seq(Message)
    BY <2>1, <2>2, ConcatProperties
  <2>5. Cut(Line(c), r, k) /\ Line(c)[k] = Head(busy) /\ Line(c)' = r
    BY <2>3 DEF Line, a, t
  <2>6. /\ k \in 1 .. Len(Line(c))
        /\ Line(c)[k].clnt # c \/ fails' \/ clnt'[c].st = "closed"
    BY <2>5 DEF Cut
  <2> HIDE DEF r, k
  <2> QED
    BY <2>4, <2>5, <2>6, LineKept
<1> QED
  BY <1>3, <1>4

(* A request that is not taken leaves the queue of the server.              *)
LEMMA RejectOrder ==
  ASSUME OrderInv, Reject
  PROVE  QueuesOK' /\ \A c \in Clients : LineOK(c)'
<1>1. /\ inbox \in Seq(Message) /\ inbox # <<>> /\ inbox' = Tail(inbox)
      /\ UNCHANGED <<busy, box, clnt, fails, pc>> /\ Head(inbox).clnt \notin Accepted
  BY DEF OrderInv, SrvIInv, SrvTypeOK, Reject, Acceptable
<1>2. /\ Cut(inbox, inbox', 1) /\ inbox[1] = Head(inbox) /\ inbox' \in Seq(Message)
      /\ 1 \in 1 .. Len(inbox)
  BY <1>1, CutHead DEF Cut
<1>3. QueuesOK'
  BY <1>1 DEF OrderInv, QueuesOK
<1>4. ASSUME NEW c \in Clients
      PROVE  LineOK(c)'
  <2> DEFINE a == box[c] \o busy
             t == inbox'
             r == a \o t
             k == Len(a) + 1
  <2>1. a \in Seq(Message) /\ t \in Seq(Message) /\ Cut(inbox, t, 1)
    BY <1>2, LineTyped DEF OrderInv, SrvIInv
  <2> HIDE DEF a, t
  <2>2. Cut(a \o inbox, r, k) /\ (a \o inbox)[k] = Head(inbox)
    BY <1>1, <1>2, <2>1, CutBehind
  <2>3. r \in Seq(Message)
    BY <2>1, ConcatProperties
  <2>4. Cut(Line(c), r, k) /\ Line(c)[k] = Head(inbox) /\ Line(c)' = r
    BY <1>1, <2>2 DEF Line, a, t
  <2>5. /\ k \in 1 .. Len(Line(c))
        /\ Line(c)[k].clnt # c \/ c \notin Accepted
    BY <1>1, <2>4 DEF Cut
  <2>6. Steady(c)
    BY <1>1 DEF Steady
  <2> HIDE DEF r, k
  <2> QED
    BY <2>3, <2>4, <2>5, <2>6, LineKept
<1> QED
  BY <1>3, <1>4

(* A request that is taken only changes queues.                             *)
LEMMA ReceiveOrder ==
  ASSUME OrderInv, Receive
  PROVE  QueuesOK' /\ \A c \in Clients : LineOK(c)'
<1>1. /\ inbox \in Seq(Message) /\ busy \in Seq(Message) /\ inbox # <<>>
      /\ inbox' = Tail(inbox) /\ busy' = Append(busy, Head(inbox))
      /\ UNCHANGED <<box, clnt, fails, pc>> /\ Head(inbox).clnt \in Accepted
  BY DEF OrderInv, SrvIInv, SrvTypeOK, Receive, Acceptable
<1>2. Head(inbox) \in Message /\ inbox' \in Seq(Message)
  BY <1>1, HeadTailProperties
<1>3. /\ busy' \in Seq(Message) /\ Len(busy') = Len(busy) + 1
      /\ \A i \in 1 .. Len(busy) : busy'[i] = busy[i]
      /\ busy'[Len(busy) + 1] = Head(inbox)
  BY <1>1, <1>2, AppendProperties
<1>4. QueuesOK'
  <2>1. \A i \in 1 .. Len(busy') : i \in 1 .. Len(busy) \/ i = Len(busy) + 1
    BY <1>1, <1>3
  <2>2. \A i \in 1 .. Len(busy') : busy'[i].clnt \in Accepted
    BY <1>1, <1>3, <2>1 DEF OrderInv, QueuesOK
  <2> QED
    BY <1>1, <2>2 DEF OrderInv, QueuesOK
<1>5. busy' \o inbox' = busy \o inbox
  BY <1>1, MoveKeeps
<1>6. ASSUME NEW c \in Clients
      PROVE  LineOK(c)'
  <2>1. box[c] \in Seq(Message) /\ Line(c) \in Seq(Message)
    BY LineTyped DEF OrderInv, SrvIInv
  <2>2. (box[c] \o busy') \o inbox' = box[c] \o (busy' \o inbox')
    BY <1>2, <1>3, <2>1, Regroup
  <2>3. (box[c] \o busy) \o inbox = box[c] \o (busy \o inbox)
    BY <1>1, <2>1, Regroup
  <2>4. Line(c)' = Line(c)
    BY <1>1, <1>5, <2>2, <2>3 DEF Line
  <2>5. Steady(c)
    BY <1>1 DEF Steady
  <2> QED
    BY <2>1, <2>4, <2>5, LineKept
<1> QED
  BY <1>4, <1>6

(* A reply moves to the queue of its client, and out of sight of others.    *)
LEMMA SendOrder ==
  ASSUME OrderInv, Send
  PROVE  QueuesOK' /\ \A c \in Clients : LineOK(c)'
<1> DEFINE d == Head(busy).clnt
<1>1. /\ busy \in Seq(Message) /\ busy # <<>> /\ busy' = Tail(busy)
      /\ box \in [Clients -> Seq(Message)]
      /\ box' = [box EXCEPT ![d] = Append(@, Head(busy))]
      /\ Len(box[d]) < QueueLen
      /\ UNCHANGED <<inbox, clnt, fails, pc>>
  BY DEF OrderInv, SrvIInv, SrvTypeOK, Send, Sending, Release
<1>2. /\ Cut(busy, busy', 1) /\ busy[1] = Head(busy) /\ busy' \in Seq(Message)
      /\ 1 \in 1 .. Len(busy)
  BY <1>1, CutHead DEF Cut
<1>3. Head(busy) \in Message /\ d \in Clients /\ d \in Accepted
  <2>1. Head(busy) \in Message
    BY <1>1, HeadTailProperties
  <2>2. busy[1].clnt \in Accepted
    BY <1>2 DEF OrderInv, QueuesOK
  <2> QED
    BY <1>2, <2>1, <2>2 DEF Message
<1>4. box'[d] = Append(box[d], Head(busy)) /\ \A c \in Clients \ {d} : box'[c] = box[c]
  BY <1>1, <1>3
<1>5. /\ Len(box'[d]) = Len(box[d]) + 1
      /\ \A i \in 1 .. Len(box[d]) : box'[d][i] = box[d][i]
      /\ box'[d][Len(box[d]) + 1] = Head(busy)
      /\ box[d] \in Seq(Message)
  BY <1>1, <1>3, <1>4, AppendProperties
<1>6. QueuesOK'
  <2>1. \A i \in 1 .. Len(busy') : busy'[i].clnt \in Accepted
    <3>1. \A i \in 1 .. Len(busy') : i + 1 \in 1 .. Len(busy) /\ busy'[i] = busy[i + 1]
      BY <1>1, <1>2 DEF Cut
    <3> QED
      BY <3>1 DEF OrderInv, QueuesOK
  <2>2. Len(box'[d]) <= QueueLen
    BY <1>1, <1>5, SrvAssumption
  <2>3. ASSUME NEW i \in 1 .. Len(box'[d])
        PROVE  box'[d][i].clnt = d
    <3>1. i \in 1 .. Len(box[d]) \/ i = Len(box[d]) + 1
      BY <1>5
    <3> QED
      BY <1>3, <1>5, <3>1 DEF OrderInv, QueuesOK
  <2> HIDE DEF d
  <2> QED
    BY <1>3, <1>4, <2>1, <2>2, <2>3 DEF OrderInv, QueuesOK
<1>7. ASSUME NEW c \in Clients
      PROVE  LineOK(c)'
  <2> DEFINE t == busy'
             a == box[c]
             k == Len(a) + 1
  <2>0. Steady(c)
    BY <1>1 DEF Steady
  <2>1. /\ a \in Seq(Message) /\ inbox \in Seq(Message) /\ a \o busy \in Seq(Message)
        /\ t \in Seq(Message) /\ Cut(busy, t, 1) /\ Line(c) \in Seq(Message)
    BY <1>2, LineTyped DEF OrderInv, SrvIInv
  <2>2. CASE c = d
    <3>1. Append(box[c], Head(busy)) \o Tail(busy) = box[c] \o busy
      BY <1>1, <2>1, MoveKeeps
    <3>2. Line(c)' = Line(c)
      BY <1>1, <1>4, <2>2, <3>1 DEF Line
    <3> QED
      BY <2>0, <2>1, <3>2, LineKept
  <2>3. CASE c # d
    <3> DEFINE r == (a \o t) \o inbox
    <3>1. box'[c] = a
      BY <1>4, <2>3
    <3> HIDE DEF a, t
    <3>2. a \o t \in Seq(Message)
      BY <2>1, ConcatProperties
    <3>3. Cut((a \o busy) \o inbox, r, k) /\ ((a \o busy) \o inbox)[k] = Head(busy)
      BY <1>1, <1>2, <2>1, CutBetween
    <3>4. r \in Seq(Message)
      BY <2>1, <3>2, ConcatProperties
    <3>5. Cut(Line(c), r, k) /\ Line(c)[k] = Head(busy)
      BY <3>3 DEF Line, a
    <3>6. Line(c)' = r
      BY <1>1, <3>1 DEF Line, t
    <3>7. k \in 1 .. Len(Line(c)) /\ Line(c)[k].clnt # c
      BY <2>3, <3>5 DEF Cut
    <3> HIDE DEF r, k
    <3> QED
      BY <2>0, <3>4, <3>5, <3>6, <3>7, LineKept
  <2> QED
    BY <2>2, <2>3
<1> QED
  BY <1>6, <1>7

(* The server is gone with what it has not sent.                            *)
LEMMA SrvCloseOrder ==
  ASSUME OrderInv, SrvClose
  PROVE  QueuesOK' /\ \A c \in Clients : LineOK(c)'
<1>1. /\ inbox' = <<>> /\ busy' = <<>> /\ pc' = "closed"
      /\ UNCHANGED <<box, clnt, fails>>
  BY DEF SrvClose
<1>2. QueuesOK'
  <2>1. 1 .. Len(busy') = {}
    BY <1>1
  <2> QED
    BY <1>1, <2>1 DEF OrderInv, QueuesOK
<1>3. ASSUME NEW c \in Clients
      PROVE  LineOK(c)'
  <2> DEFINE a == box[c]
             b == busy
             d == inbox
  <2>1. /\ a \in Seq(Message) /\ b \in Seq(Message) /\ d \in Seq(Message)
        /\ b \o d \in Seq(Message)
    BY LineTyped, ConcatProperties DEF OrderInv, SrvIInv
  <2> HIDE DEF a, b, d
  <2>2. (a \o b) \o d = a \o (b \o d)
    BY <2>1, Regroup
  <2>3. Rest((a \o b) \o d, a)
    BY <2>1, <2>2, EndsAreRest
  <2>4. (a \o <<>>) \o <<>> = a
    BY <2>1, ConcatEmptySeq
  <2>5. Line(c)' = a
    BY <1>1, <2>4 DEF Line, a
  <2>6. Rest(Line(c), a)
    BY <2>3 DEF Line, a, b, d
  <2>7. Steady(c)
    BY <1>1 DEF Steady
  <2> QED
    BY <1>1, <2>1, <2>5, <2>6, <2>7, LineKept
<1> QED
  BY <1>2, <1>3

(* A client reads its oldest reply ...                                      *)
LEMMA GetReplyOrder ==
  ASSUME OrderInv, NEW d \in Clients, GetReply(d)
  PROVE  QueuesOK' /\ \A c \in Clients : LineOK(c)'
<1>1. /\ box \in [Clients -> Seq(Message)] /\ box[d] \in Seq(Message) /\ box[d] # <<>>
      /\ box'[d] = Tail(box[d]) /\ \A c \in Clients \ {d} : box'[c] = box[c]
      /\ UNCHANGED <<inbox, busy, fails, pc>>
  BY DEF OrderInv, SrvIInv, SrvTypeOK, GetReply, server
<1>2. /\ Cut(box[d], box'[d], 1) /\ box[d][1] = Head(box[d]) /\ box'[d] \in Seq(Message)
      /\ 1 \in 1 .. Len(box[d])
  BY <1>1, CutHead DEF Cut
<1>3. \A c \in Clients : Steady(c)
  <2>1. clnt \in [Clients -> ClientRecord] /\ clnt' = [clnt EXCEPT ![d].st = "idle"]
        /\ clnt[d].st = "wait"
    BY DEF OrderInv, SrvIInv, SrvTypeOK, GetReply
  <2> QED
    BY <1>1, <2>1 DEF Steady, ClientRecord
<1>4. QueuesOK'
  <2>1. /\ Len(box'[d]) = Len(box[d]) - 1 /\ Len(box[d]) \in Nat
        /\ \A i \in 1 .. Len(box'[d]) : i + 1 \in 1 .. Len(box[d]) /\ box'[d][i] = box[d][i + 1]
    BY <1>1, <1>2 DEF Cut
  <2>2. \A i \in 1 .. Len(box'[d]) : box'[d][i].clnt = d /\ d \in Accepted
    <3>1. \A i \in 1 .. Len(box[d]) : box[d][i].clnt = d /\ d \in Accepted
      BY DEF OrderInv, QueuesOK
    <3> DEFINE p == box[d]
               t == box'[d]
    <3> HIDE DEF p, t
    <3>2. \A i \in 1 .. Len(t) : t[i].clnt = d /\ d \in Accepted
      BY <2>1, <3>1 DEF p, t
    <3> QED
      BY <3>2 DEF t
  <2>3. Len(box'[d]) <= QueueLen
    BY <2>1, SrvAssumption DEF OrderInv, QueuesOK
  <2> QED
    BY <1>1, <2>2, <2>3 DEF OrderInv, QueuesOK
<1>5. ASSUME NEW c \in Clients
      PROVE  LineOK(c)'
  <2> DEFINE a == box[c]
             t == box'[c]
             b == busy
             x == inbox
             r == t \o (b \o x)
  <2>1. /\ a \in Seq(Message) /\ b \in Seq(Message) /\ x \in Seq(Message)
        /\ b \o x \in Seq(Message) /\ Line(c) \in Seq(Message)
    BY LineTyped, ConcatProperties DEF OrderInv, SrvIInv
  <2>2. CASE c = d
    <3>1. /\ t \in Seq(Message) /\ Cut(a, t, 1) /\ 1 \in 1 .. Len(a)
      BY <1>2, <2>2
    <3>2. Line(c) = (a \o b) \o x /\ Line(c)' = (t \o b) \o x
      BY <1>1 DEF Line
    <3> HIDE DEF a, t, b, x
    <3>a. a \in Seq(Message) /\ b \in Seq(Message) /\ x \in Seq(Message)
      BY <2>1
    <3>b. (a \o b) \o x = a \o (b \o x)
      BY ONLY <3>a, Regroup
    <3>c. (t \o b) \o x = t \o (b \o x)
      BY ONLY <3>a, <3>1, Regroup
    <3>3. Line(c) = a \o (b \o x) /\ Line(c)' = r
      BY <3>2, <3>b, <3>c, Zenon
    <3>4. Cut(a \o (b \o x), t \o (b \o x), 1)
      BY <2>1, <3>1, CutBefore
    <3>5. Cut(Line(c), r, 1) /\ 1 \in 1 .. Len(Line(c))
      BY <3>3, <3>4 DEF Cut
    <3>6. r \in Seq(Message)
      BY <2>1, <3>1, ConcatProperties
    <3> HIDE DEF r
    <3> QED
      BY <1>3, <3>3, <3>5, <3>6, LineKept
  <2>3. CASE c # d
    <3>1. Line(c)' = Line(c)
      BY <1>1, <2>3 DEF Line
    <3> QED
      BY <1>3, <2>1, <3>1, LineKept
  <2> QED
    BY <2>2, <2>3
<1> QED
  BY <1>4, <1>5

(* ... or goes away with all those it has not read.                         *)
LEMMA CloseOrder ==
  ASSUME OrderInv, NEW d \in Clients, Close(d)
  PROVE  QueuesOK' /\ \A c \in Clients : LineOK(c)'
<1>1. /\ box \in [Clients -> Seq(Message)]
      /\ box'[d] = <<>> /\ \A c \in Clients \ {d} : box'[c] = box[c]
      /\ UNCHANGED <<inbox, busy, fails, pc>>
  BY DEF OrderInv, SrvIInv, SrvTypeOK, Close, server
<1>2. clnt'[d].st = "closed" /\ \A c \in Clients : Steady(c)
  <2>1. clnt \in [Clients -> ClientRecord] /\ clnt' = [clnt EXCEPT ![d].st = "closed"]
    BY DEF OrderInv, SrvIInv, SrvTypeOK, Close
  <2> QED
    BY <1>1, <2>1 DEF Steady, ClientRecord
<1>3. QueuesOK'
  <2>1. Len(box'[d]) = 0 /\ 1 .. Len(box'[d]) = {}
    BY <1>1
  <2>2. Len(box'[d]) <= QueueLen
    BY <2>1, SrvAssumption
  <2> QED
    BY <1>1, <2>1, <2>2 DEF OrderInv, QueuesOK
<1>4. ASSUME NEW c \in Clients
      PROVE  LineOK(c)'
  <2> DEFINE a == box[c]
             b == busy
             x == inbox
             r == b \o x
  <2>1. /\ a \in Seq(Message) /\ b \in Seq(Message) /\ x \in Seq(Message)
        /\ r \in Seq(Message) /\ Line(c) \in Seq(Message)
    BY LineTyped, ConcatProperties DEF OrderInv, SrvIInv
  <2>2. CASE c = d
    <3>1. Line(c) = (a \o b) \o x /\ Line(c)' = (<<>> \o b) \o x
      BY <1>1, <2>2 DEF Line
    <3> HIDE DEF a, b, x
    <3>a. a \in Seq(Message) /\ b \in Seq(Message) /\ x \in Seq(Message)
      BY <2>1
    <3>b. (a \o b) \o x = a \o (b \o x)
      BY ONLY <3>a, Regroup
    <3>2. (a \o b) \o x = a \o r
      BY <3>b
    <3>3. <<>> \o b = b
      BY <2>1, ConcatEmptySeq
    <3>4. Line(c)' = r
      BY <3>1, <3>3
    <3> HIDE DEF r
    <3>5. Rest(a \o r, r)
      BY <2>1, EndsAreRest
    <3>6. Rest(Line(c), r)
      BY <3>1, <3>2, <3>5
    <3> QED
      BY <1>2, <2>1, <2>2, <3>4, <3>6, LineKept
  <2>3. CASE c # d
    <3>1. Line(c)' = Line(c)
      BY <1>1, <2>3 DEF Line
    <3> QED
      BY <1>2, <2>1, <3>1, LineKept
  <2> QED
    BY <2>2, <2>3
<1> QED
  BY <1>3, <1>4

(* A client sends a request: it is the newest of what is under way.         *)
LEMMA RequestOrder ==
  ASSUME OrderInv, NEW d \in Clients, Request(d)
  PROVE  QueuesOK' /\ \A c \in Clients : LineOK(c)'
<1> DEFINE m == [clnt |-> d, seq |-> clnt[d].seqno, id |-> clnt[d].sent]
           n == clnt[d].sent
           s == clnt[d].seqno
<1>1. /\ clnt \in [Clients -> ClientRecord] /\ clnt[d] \in ClientRecord
      /\ inbox \in Seq(Message)
  BY DEF OrderInv, SrvIInv, SrvTypeOK
<1>2. m \in Message /\ n \in Nat /\ m.clnt = d /\ m.id = n /\ m.seq = s
  BY <1>1 DEF Message, ClientRecord
<1>3. /\ inbox' = Append(inbox, m) /\ Len(inbox) < QueueLen
      /\ UNCHANGED <<busy, box, fails, pc>> /\ pc # "closed" /\ clnt[d].st = "idle"
  BY DEF Request
<1>4. /\ clnt'[d].sent = n + 1 /\ clnt'[d].seqno = NextSeq(s)
      /\ \A c \in Clients \ {d} : clnt'[c] = clnt[c]
  BY <1>1 DEF Request, ClientRecord
<1> HIDE DEF m, n, s
<1>5. QueuesOK'
  BY <1>3 DEF OrderInv, QueuesOK
<1>6. ASSUME NEW c \in Clients
      PROVE  /\ Line(c)' = Append(Line(c), m)
             /\ Line(c) \in Seq(Message) /\ Len(Line(c)) < InFlightMax
  <2> DEFINE a == box[c] \o busy
  <2>1. /\ a \in Seq(Message) /\ inbox \in Seq(Message) /\ Line(c) \in Seq(Message)
        /\ box[c] \in Seq(Message) /\ busy \in Seq(Message)
    BY LineTyped DEF OrderInv, SrvIInv
  <2>2. Len(a) = Len(box[c]) + Len(busy)
    BY <2>1, ConcatProperties
  <2>3. Line(c) = a \o inbox /\ Line(c)' = a \o Append(inbox, m)
    BY <1>3 DEF Line
  <2> HIDE DEF a
  <2>4. <<m>> \in Seq(Message) /\ a \o inbox \in Seq(Message)
    BY <1>2, <2>1, <2>3
  <2>5. Append(inbox, m) = inbox \o <<m>> /\ Append(a \o inbox, m) = (a \o inbox) \o <<m>>
    BY <1>2, <2>1, <2>4, AppendIsConcat
  <2>6. (a \o inbox) \o <<m>> = a \o (inbox \o <<m>>)
    BY <2>1, <2>4, Regroup
  <2>7. Len(Line(c)) = Len(a) + Len(inbox)
    BY <2>1, <2>3, ConcatProperties
  <2>8. /\ Len(box[c]) <= QueueLen /\ Len(busy) <= BuffNr /\ Len(inbox) < QueueLen
        /\ QueueLen \in Nat /\ BuffNr \in Nat
    <3>1. free \in Nat /\ free + Len(busy) = BuffNr /\ Len(busy) \in Nat
      BY <1>3, <2>1, SrvAssumption DEF OrderInv, SrvIInv, SrvTypeOK, NoBufferLeak
    <3>2. Len(busy) <= BuffNr
      BY <3>1, SrvAssumption
    <3> QED
      BY <1>3, <3>2, SrvAssumption DEF OrderInv, QueuesOK
  <2>9. Len(Line(c)) < InFlightMax
    <3>1. Len(box[c]) \in Nat /\ Len(busy) \in Nat /\ Len(inbox) \in Nat
      BY <2>1
    <3> QED
      BY <2>2, <2>7, <2>8, <3>1 DEF InFlightMax
  <2> QED
    BY <2>1, <2>3, <2>5, <2>6, <2>9
<1>7. ASSUME NEW c \in Clients
      PROVE  LineOK(c)'
  <2> DEFINE q == Line(c)
             r == Append(q, m)
  <2>1. q \in Seq(Message) /\ Len(q) < InFlightMax /\ Line(c)' = r
    BY <1>6
  <2>2. /\ Sorted(c, q) /\ Numbered(c, q, clnt[c].sent)
        /\ (~fails /\ c \in Accepted) => Near(c, q, clnt[c].sent, clnt[c].seqno)
        /\ (~fails /\ c \in Accepted /\ pc # "closed" /\ clnt[c].st # "closed") =>
             Whole(c, q, clnt[c].sent)
    BY DEF OrderInv, LineOK
  <2> HIDE DEF q
  <2>3. CASE c = d
    <3>1. /\ Sorted(c, r) /\ Numbered(c, r, n + 1)
          /\ Whole(c, q, n) => Whole(c, r, n + 1)
          /\ (Near(c, q, n, s) /\ Whole(c, q, n)) => Near(c, r, n + 1, NextSeq(s))
      BY <1>2, <2>1, <2>2, <2>3, OwnAppend DEF n
    <3>2. ~fails /\ c \in Accepted => Whole(c, q, n) /\ Near(c, q, n, s)
      BY <1>3, <2>2, <2>3 DEF n, s
    <3>3. clnt'[c].sent = n + 1 /\ clnt'[c].seqno = NextSeq(s)
      BY <1>4, <2>3
    <3> HIDE DEF r
    <3>4. /\ Sorted(c, Line(c))' <=> Sorted(c, r)
          /\ Numbered(c, Line(c), clnt[c].sent)' <=> Numbered(c, r, n + 1)
          /\ Near(c, Line(c), clnt[c].sent, clnt[c].seqno)' <=> Near(c, r, n + 1, NextSeq(s))
          /\ Whole(c, Line(c), clnt[c].sent)' <=> Whole(c, r, n + 1)
      BY <2>1, <3>3 DEF Sorted, Numbered, Near, Whole, OwnAt
    <3> QED
      BY <1>3, <3>1, <3>2, <3>4 DEF LineOK
  <2>4. CASE c # d
    <3> DEFINE k == clnt[c].sent
               u == clnt[c].seqno
    <3>1. clnt'[c] = clnt[c] /\ m.clnt # c
      BY <1>2, <1>4, <2>4
    <3>2. /\ Sorted(c, r) /\ Numbered(c, r, k)
          /\ Whole(c, q, k) => Whole(c, r, k)
          /\ Near(c, q, k, u) => Near(c, r, k, u)
      BY <1>2, <2>1, <2>2, <3>1, OthersAppend
    <3> HIDE DEF r
    <3>3. /\ Sorted(c, Line(c))' <=> Sorted(c, r)
          /\ Numbered(c, Line(c), clnt[c].sent)' <=> Numbered(c, r, k)
          /\ Near(c, Line(c), clnt[c].sent, clnt[c].seqno)' <=> Near(c, r, k, u)
          /\ Whole(c, Line(c), clnt[c].sent)' <=> Whole(c, r, k)
      BY <2>1, <3>1 DEF Sorted, Numbered, Near, Whole, OwnAt
    <3> QED
      BY <1>3, <2>2, <3>1, <3>2, <3>3 DEF LineOK
  <2> QED
    BY <2>3, <2>4
<1> QED
  BY <1>5, <1>7

(* Nothing is under way in the beginning.                                   *)
LEMMA InitOrder == SrvInit => OrderInv
<1> SUFFICES ASSUME SrvInit PROVE OrderInv
  OBVIOUS
<1>1. Len(busy) = 0 /\ \A c \in Clients : Len(box[c]) = 0
  BY DEF SrvInit
<1>2. QueuesOK
  BY <1>1, SrvAssumption DEF QueuesOK
<1>3. ASSUME NEW c \in Clients
      PROVE  LineOK(c)
  <2>1. Line(c) = <<>>
    <3>1. box[c] = <<>> /\ busy = <<>> /\ inbox = <<>>
      BY DEF SrvInit
    <3> QED
      BY <3>1 DEF Line
  <2>2. OwnAt(c, Line(c)) = {}
    BY <2>1 DEF OwnAt
  <2> QED
    BY <2>2 DEF LineOK, Sorted, Numbered, Near, Whole
<1> QED
  BY <1>2, <1>3, InitIInv DEF OrderInv

(* Every step of the server and of its clients keeps them in order.         *)
LEMMA NextOrder == OrderInv /\ [SrvNext]_svars => OrderInv'
<1> SUFFICES ASSUME OrderInv, [SrvNext]_svars
             PROVE  QueuesOK' /\ \A c \in Clients : LineOK(c)'
  BY NextIInv DEF OrderInv
<1>1. CASE Receive
  BY <1>1, ReceiveOrder
<1>2. CASE Reject
  BY <1>2, RejectOrder
<1>3. CASE Send
  BY <1>3, SendOrder
<1>4. CASE SendRefused \/ (SendFails /\ Release)
  <2>1. /\ Sending /\ Release /\ UNCHANGED <<inbox, box>>
        /\ \A c \in Clients : Steady(c)
        /\ fails' \/ clnt'[Head(busy).clnt].st = "closed"
    BY <1>4 DEF SendRefused, SendFails, Sending, Steady
  <2> QED
    BY <2>1, ReleaseOrder
<1>5. CASE SrvClose
  BY <1>5, SrvCloseOrder
<1>6. ASSUME NEW d \in Clients, Request(d) \/ GetReply(d) \/ Close(d)
      PROVE  QueuesOK' /\ \A c \in Clients : LineOK(c)'
  BY <1>6, RequestOrder, GetReplyOrder, CloseOrder
<1>7. CASE \/ Poll \/ RequestsDone \/ ReceiveFails \/ SendAgain \/ RepliesDone
           \/ SendFails /\ UNCHANGED <<busy, free>>
           \/ UNCHANGED svars
  <2>1. UNCHANGED <<inbox, busy, box, clnt>> /\ (fails => fails')
          /\ (pc = "closed" => pc' = "closed")
    BY <1>7
    DEF Poll, RequestsDone, ReceiveFails, SendAgain, RepliesDone, SendFails, svars, server,
        Receiving, Sending
  <2>2. \A c \in Clients : Steady(c)
    BY <2>1 DEF Steady
  <2> QED
    BY <2>1, <2>2, NoMove
<1>8. ASSUME NEW d \in Clients, GiveUp(d)
      PROVE  QueuesOK' /\ \A c \in Clients : LineOK(c)'
  <2>1. clnt \in [Clients -> ClientRecord]
    BY DEF OrderInv, SrvIInv, SrvTypeOK
  <2>2. /\ UNCHANGED <<inbox, busy, box, fails, pc>>
        /\ clnt' = [clnt EXCEPT ![d].st = "idle"] /\ clnt[d].st = "wait"
    BY <1>8 DEF GiveUp, server
  <2>3. \A c \in Clients : Steady(c)
    BY <2>1, <2>2 DEF Steady, ClientRecord
  <2> QED
    BY <2>2, <2>3, NoMove
<1>9. SendFails => Release \/ UNCHANGED <<busy, free>>
  BY DEF SendFails
<1> QED
  BY <1>1, <1>2, <1>3, <1>4, <1>5, <1>6, <1>7, <1>8, <1>9 DEF SrvNext, Serve

LEMMA InductiveOrder == SrvSpec => []OrderInv
  BY InitOrder, NextOrder, PTL DEF SrvSpec

-----------------------------------------------------------------------------
(* A client gets the replies to its requests in the order of the requests   *)
(* and at most one for each, whatever is refused, put back, dropped or      *)
(* interrupted on the way (srv.c).                                          *)
THEOREM RepliesAreInOrder == SrvSpec => []RepliesInOrder
<1>1. OrderInv => RepliesInOrder
  <2> SUFFICES ASSUME OrderInv, NEW c \in Clients,
                      NEW i \in DOMAIN Line(c), NEW j \in DOMAIN Line(c), i < j,
                      Line(c)[i].clnt = c, Line(c)[j].clnt = c
               PROVE  Line(c)[i].id < Line(c)[j].id
    BY DEF RepliesInOrder
  <2>1. Line(c) \in Seq(Message)
    BY LineTyped DEF OrderInv, SrvIInv
  <2>2. i \in OwnAt(c, Line(c)) /\ j \in OwnAt(c, Line(c))
    BY <2>1 DEF OwnAt
  <2> QED
    BY <2>2 DEF OrderInv, LineOK, Sorted
<1> QED
  BY <1>1, InductiveOrder, PTL

(* As long as no system call fails, the 16 bits of a sequence number are    *)
(* enough for a client to tell the reply to its request from those to       *)
(* exchanges it has given up (tinit_named_chat(), lib.c).                   *)
THEOREM AnswersMatch == SrvSpec => []AnswerMatches
<1>1. OrderInv => AnswerMatches
  <2> SUFFICES ASSUME OrderInv, ~fails, NEW c \in Clients,
                      box[c] # <<>>, Matches(c, Head(box[c]))
               PROVE  Head(box[c]).id = clnt[c].sent - 1
    BY DEF AnswerMatches
  <2> DEFINE m == Head(box[c])
             n == clnt[c].sent
  <2>1. /\ box[c] \in Seq(Message) /\ busy \in Seq(Message) /\ inbox \in Seq(Message)
        /\ box[c] \o busy \in Seq(Message) /\ clnt[c] \in ClientRecord
    BY LineTyped DEF OrderInv, SrvIInv, SrvTypeOK
  <2>2. /\ 1 \in 1 .. Len(box[c]) /\ m = box[c][1] /\ m \in Message
        /\ m.clnt = c /\ c \in Accepted
    <3>1. 1 \in 1 .. Len(box[c]) /\ m = box[c][1] /\ m \in Message
      BY <2>1, HeadTailProperties
    <3> QED
      BY <3>1 DEF OrderInv, QueuesOK
  <2>3. 1 \in OwnAt(c, Line(c)) /\ Line(c)[1] = m
    <3> DEFINE a == box[c] \o busy
    <3>1. 1 \in 1 .. Len(a) /\ a[1] = m
      BY <2>1, <2>2, Joined
    <3> HIDE DEF a
    <3>2. a \in Seq(Message) /\ Line(c) = a \o inbox
      BY <2>1 DEF a, Line
    <3>3. 1 \in 1 .. Len(a \o inbox) /\ (a \o inbox)[1] = m
      BY <2>1, <3>1, <3>2, Joined
    <3> QED
      BY <2>2, <3>2, <3>3 DEF OwnAt
  <2>4. /\ m.id < n /\ n - m.id <= InFlightMax
        /\ \/ clnt[c].seqno = m.seq + (n - m.id)
           \/ clnt[c].seqno = m.seq + (n - m.id) - SeqNr
    BY <2>2, <2>3 DEF OrderInv, LineOK, Numbered, Near
  <2>5. /\ m.id \in Nat /\ m.seq \in 0 .. SeqNr - 1 /\ n \in Nat
        /\ InFlightMax \in Nat /\ SeqNr \in Nat /\ InFlightMax < SeqNr /\ InFlightMax >= 3
    <3>1. m.id \in Nat /\ m.seq \in 0 .. SeqNr - 1
      BY <2>2 DEF Message
    <3>2. n \in Nat
      BY <2>1 DEF ClientRecord
    <3>3. InFlightMax \in Nat /\ SeqNr \in Nat /\ InFlightMax < SeqNr /\ InFlightMax >= 3
      BY SrvAssumption, SeqAssumption DEF InFlightMax
    <3> QED
      BY <3>1, <3>2, <3>3
  <2>6. clnt[c].seqno = IF m.seq + 1 < SeqNr THEN m.seq + 1 ELSE 0
    BY <2>5, NextSeqIs DEF Matches
  <2> DEFINE x == m.id
             y == m.seq
             w == clnt[c].seqno
  <2>7. /\ x \in Nat /\ y \in 0 .. SeqNr - 1 /\ n \in Nat /\ x < n /\ n - x < SeqNr
        /\ w = y + (n - x) \/ w = y + (n - x) - SeqNr
        /\ w = IF y + 1 < SeqNr THEN y + 1 ELSE 0
    BY <2>4, <2>5, <2>6
  <2> HIDE DEF m, n, x, y, w
  <2>8. x = n - 1
    BY <2>5, <2>7
  <2> QED
    BY <2>8 DEF x, n, m
<1> QED
  BY <1>1, InductiveOrder, PTL
=============================================================================
