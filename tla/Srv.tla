-------------------------------- MODULE Srv --------------------------------
(***************************************************************************)
(* The transport of the control server (srv.c) and of the client library   *)
(* (lib.c): requests and replies are datagrams on UNIX sockets, the server *)
(* keeps them in a fixed number of buffers, one buffer from the reception  *)
(* of a request to the emission of its reply.  What a request does to the  *)
(* services is in Tinit.                                                   *)
(***************************************************************************)
EXTENDS Integers, Sequences

CONSTANTS
  Clients,     \* client sockets
  Accepted,    \* clients with valid credentials whose requests are well formed
  BuffNr,      \* TINIT_SRV_SEND_BUFF_NR
  QueueLen,    \* datagrams the kernel keeps for a socket
  SeqNr,       \* 2^16, the number of values of a sequence number
  FirstSeqNo,  \* the random() number a client is opened with
  MaxRequests  \* [Clients -> Nat]: bound on the requests of each client

ASSUME SrvAssumption ==
  /\ Accepted \subseteq Clients
  /\ BuffNr \in Nat \ {0}
  /\ QueueLen \in Nat \ {0}
  /\ SeqNr \in Nat \ {0}
  /\ FirstSeqNo \in 0 .. SeqNr - 1
  /\ MaxRequests \in [Clients -> Nat]

(* Datagrams of one client that may be somewhere between its sending a      *)
(* request and its reading the reply.                                       *)
InFlightMax == QueueLen + BuffNr + QueueLen

ASSUME SeqAssumption == SeqNr > InFlightMax

VARIABLES
  pc,     \* the server: "poll", "recv", "send" or "closed"
  inbox,  \* requests the kernel keeps for the server
  free,   \* number of free buffers
  busy,   \* busy buffers, the next to send first
  watch,  \* is EPOLLOUT watched?
  clnt,   \* struct tinit_sock of each client, what it does, requests it sent
  box,    \* replies the kernel keeps for each client
  fails   \* history: an EINTR or ENOMEM has been met

server == <<pc, inbox, free, busy, watch, fails>>
svars  == <<server, clnt, box>>

(* The server replies in the buffer of the request, whose head, with the    *)
(* sequence number, is left alone.  `id' is history: it tells two requests  *)
(* of a client with the same sequence number apart.                         *)
Message == [clnt : Clients, seq : 0 .. SeqNr - 1, id : Nat]

ClientRecord ==
  [st : {"idle", "wait", "closed"}, seqno : 0 .. SeqNr - 1, sent : Nat]

(* Forgets that the number has 16 bits.                                     *)
NextSeq_slip(seq) == seq + 1

NextSeq(seq) == (seq + 1) % SeqNr

-----------------------------------------------------------------------------
(* Clients.  Definitions named ..._slip are faulty variants used by no      *)
(* action.                                                                  *)

(* tinit_named_chat(), tinit_load_status(): send() waits for room.          *)
Request(c) ==
  /\ pc # "closed"
  /\ clnt[c].st = "idle"
  /\ clnt[c].sent < MaxRequests[c]
  /\ Len(inbox) < QueueLen
  /\ inbox' = Append(inbox, [clnt |-> c, seq |-> clnt[c].seqno, id |-> clnt[c].sent])
  /\ clnt' = [clnt EXCEPT ![c].st = "wait", ![c].seqno = NextSeq(@), ![c].sent = @ + 1]
  /\ UNCHANGED <<pc, free, busy, watch, fails, box>>

(* The exchange is over, whatever the reply: one that does not match is     *)
(* -EPROTO.                                                                 *)
GetReply(c) ==
  /\ clnt[c].st = "wait"
  /\ box[c] # <<>>
  /\ box' = [box EXCEPT ![c] = Tail(@)]
  /\ clnt' = [clnt EXCEPT ![c].st = "idle"]
  /\ UNCHANGED server

(* Takes any reply.                                                         *)
Matches_slip(c, m) == TRUE

Matches(c, m) == NextSeq(m.seq) = clnt[c].seqno

(* recv() fails, of a signal for instance.                                  *)
GiveUp(c) ==
  /\ clnt[c].st = "wait"
  /\ clnt' = [clnt EXCEPT ![c].st = "idle"]
  /\ UNCHANGED <<server, box>>

(* tinit_close_sock(), or the end of the process.                           *)
Close(c) ==
  /\ clnt[c].st # "closed"
  /\ clnt' = [clnt EXCEPT ![c].st = "closed"]
  /\ box' = [box EXCEPT ![c] = <<>>]
  /\ UNCHANGED server

-----------------------------------------------------------------------------
(* The server: one dispatch receives requests while it has free buffers and *)
(* then sends the replies.                                                  *)

(* EPOLLIN is level triggered; EPOLLOUT is ready at any time on a socket    *)
(* that is not connected.                                                   *)
Poll ==
  /\ pc = "poll"
  /\ \/ inbox # <<>> /\ pc' = "recv"
     \/ inbox = <<>> /\ watch /\ pc' = "send"
  /\ UNCHANGED <<inbox, free, busy, watch, fails, clnt, box>>

Receiving == pc = "recv" /\ free > 0

(* Credentials and form are right.                                          *)
Acceptable(m) == m.clnt \in Accepted

Receive ==
  /\ Receiving
  /\ inbox # <<>>
  /\ Acceptable(Head(inbox))
  /\ inbox' = Tail(inbox)
  /\ free' = free - 1
  /\ busy' = Append(busy, Head(inbox))
  /\ UNCHANGED <<pc, watch, fails, clnt, box>>

(* The buffer is released and nothing replied.                              *)
Reject ==
  /\ Receiving
  /\ inbox # <<>>
  /\ ~Acceptable(Head(inbox))
  /\ inbox' = Tail(inbox)
  /\ UNCHANGED <<pc, free, busy, watch, fails, clnt, box>>

(* Goes back to poll when there is no buffer left.                          *)
RequestsDone_slip ==
  /\ pc = "recv"
  /\ inbox = <<>> \/ free = 0
  /\ pc' = IF free = 0 THEN "poll" ELSE "send"
  /\ UNCHANGED <<inbox, free, busy, watch, fails, clnt, box>>

RequestsDone ==
  /\ pc = "recv"
  /\ inbox = <<>> \/ free = 0
  /\ pc' = "send"
  /\ UNCHANGED <<inbox, free, busy, watch, fails, clnt, box>>

(* EINTR or ENOMEM: the dispatch ends, the replies and the watch are left   *)
(* as they are.                                                             *)
ReceiveFails ==
  /\ Receiving
  /\ pc' = "poll"
  /\ fails' = TRUE
  /\ UNCHANGED <<inbox, free, busy, watch, clnt, box>>

Sending == pc = "send" /\ busy # <<>>

(* tinit_srv_handle_replies() releases the buffer.                          *)
Release == busy' = Tail(busy) /\ free' = free + 1

Send ==
  /\ Sending
  /\ LET m == Head(busy)
     IN  /\ clnt[m.clnt].st # "closed"
         /\ Len(box[m.clnt]) < QueueLen
         /\ box' = [box EXCEPT ![m.clnt] = Append(@, m)]
  /\ Release
  /\ UNCHANGED <<pc, inbox, watch, fails, clnt>>

(* Loses the buffer of a client that is gone.                               *)
SendRefused_slip ==
  /\ Sending
  /\ clnt[Head(busy).clnt].st = "closed"
  /\ busy' = Tail(busy)
  /\ UNCHANGED <<pc, inbox, free, watch, fails, clnt, box>>

(* ECONNREFUSED: the client is gone.                                        *)
SendRefused ==
  /\ Sending
  /\ clnt[Head(busy).clnt].st = "closed"
  /\ Release
  /\ UNCHANGED <<pc, inbox, watch, fails, clnt, box>>

(* Waits for nothing, or puts the reply behind the others.                  *)
SendAgain_watch_slip ==
  /\ Sending
  /\ clnt[Head(busy).clnt].st # "closed"
  /\ Len(box[Head(busy).clnt]) >= QueueLen
  /\ pc' = "poll"
  /\ UNCHANGED <<inbox, free, busy, watch, fails, clnt, box>>

SendAgain_order_slip ==
  /\ Sending
  /\ clnt[Head(busy).clnt].st # "closed"
  /\ Len(box[Head(busy).clnt]) >= QueueLen
  /\ pc' = "poll"
  /\ busy' = Append(Tail(busy), Head(busy))
  /\ watch' = TRUE
  /\ UNCHANGED <<inbox, free, fails, clnt, box>>

(* EAGAIN: the reply is put back in front, and the others wait behind it.   *)
SendAgain ==
  /\ Sending
  /\ clnt[Head(busy).clnt].st # "closed"
  /\ Len(box[Head(busy).clnt]) >= QueueLen
  /\ pc' = "poll"
  /\ watch' = TRUE
  /\ UNCHANGED <<inbox, free, busy, fails, clnt, box>>

(* EINTR keeps the reply, ENOMEM drops it; the watch is left as it is.      *)
SendFails ==
  /\ Sending
  /\ pc' = "poll"
  /\ fails' = TRUE
  /\ \/ UNCHANGED <<busy, free>>
     \/ Release
  /\ UNCHANGED <<inbox, watch, clnt, box>>

RepliesDone ==
  /\ pc = "send"
  /\ busy = <<>>
  /\ watch' = FALSE
  /\ pc' = "poll"
  /\ UNCHANGED <<inbox, free, busy, fails, clnt, box>>

(* A shutdown begins: the requests not received and the replies not sent    *)
(* are lost.                                                                *)
SrvClose ==
  /\ pc = "poll"
  /\ pc' = "closed"
  /\ inbox' = <<>>
  /\ busy' = <<>>
  /\ free' = 0
  /\ watch' = FALSE
  /\ UNCHANGED <<fails, clnt, box>>

-----------------------------------------------------------------------------
SrvInit ==
  /\ pc = "poll"
  /\ inbox = <<>>
  /\ free = BuffNr
  /\ busy = <<>>
  /\ watch = FALSE
  /\ clnt = [c \in Clients |-> [st |-> "idle", seqno |-> FirstSeqNo, sent |-> 0]]
  /\ box = [c \in Clients |-> <<>>]
  /\ fails = FALSE

(* What the server does as long as no system call fails.                    *)
Serve ==
  \/ Poll
  \/ Receive
  \/ Reject
  \/ RequestsDone
  \/ Send
  \/ SendRefused
  \/ SendAgain
  \/ RepliesDone

SrvNext ==
  \/ Serve
  \/ ReceiveFails
  \/ SendFails
  \/ SrvClose
  \/ \E c \in Clients : Request(c)
  \/ \E c \in Clients : GetReply(c)
  \/ \E c \in Clients : GiveUp(c)
  \/ \E c \in Clients : Close(c)

SrvSpec == SrvInit /\ [][SrvNext]_svars

(* The poller goes on serving, and a client blocked in recv() reads what    *)
(* comes.                                                                   *)
SrvFairSpec ==
  /\ SrvSpec
  /\ WF_svars(Serve)
  /\ \A c \in Clients : WF_svars(GetReply(c))

-----------------------------------------------------------------------------
(* Invariants.                                                              *)

(* Buffers, queues and clients have values of their types.                  *)
SrvTypeOK ==
  /\ pc \in {"poll", "recv", "send", "closed"}
  /\ inbox \in Seq(Message)
  /\ free \in 0 .. BuffNr
  /\ busy \in Seq(Message)
  /\ watch \in BOOLEAN
  /\ clnt \in [Clients -> ClientRecord]
  /\ box \in [Clients -> Seq(Message)]
  /\ fails \in BOOLEAN

(* Every path of tinit_srv_handle_requests() and tinit_srv_handle_replies() *)
(* gives its buffer back or queues it: none of the 16 is ever lost.         *)
NoBufferLeak == pc # "closed" => free + Len(busy) = BuffNr

(* Between two dispatches EPOLLOUT is watched when, and only when, a reply  *)
(* is waiting: without it a reply would stay until some client happens to   *)
(* send a request, and with it for nothing the poller would spin.           *)
WatchMeansBusy == (pc = "poll" /\ ~fails) => (watch <=> busy # <<>>)

(* What is under way, from the oldest reply to c to the newest request.     *)
Line(c) == box[c] \o busy \o inbox

(* A client gets the replies to its requests in their order, and at most    *)
(* one for each, through blocked and interrupted sends.                     *)
RepliesInOrder ==
  \A c \in Clients : \A i, j \in DOMAIN Line(c) :
    (i < j /\ Line(c)[i].clnt = c /\ Line(c)[j].clnt = c) =>
      Line(c)[i].id < Line(c)[j].id

(* A reply a client takes for that of its request is that of its request,   *)
(* although replies to exchanges it has given up come before, and although  *)
(* sequence numbers wrap.  (A reply dropped for ENOMEM lets numbers wrap    *)
(* while an old reply stays in the client's queue.)                         *)
AnswerMatches ==
  ~fails => \A c \in Clients :
    (clnt[c].st = "wait" /\ box[c] # <<>> /\ Matches(c, Head(box[c]))) =>
      Head(box[c]).id = clnt[c].sent - 1

-----------------------------------------------------------------------------
(* Liveness.                                                                *)

(* No system call fails, and no client keeps a queue of replies full that   *)
(* it does not read.                                                        *)
Healthy ==
  /\ ~fails
  /\ \A c \in Clients : clnt[c].st = "idle" => Len(box[c]) < QueueLen

(* Every client that waits gets a reply, whatever the others do and however *)
(* few buffers there are.                                                   *)
Answered ==
  \A c \in Accepted :
    (clnt[c].st = "wait" /\ []Healthy) ~> (clnt[c].st # "wait" \/ pc = "closed")
=============================================================================
