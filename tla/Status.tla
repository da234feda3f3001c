------------------------------- MODULE Status ------------------------------
(***************************************************************************)
(* The status request: the reply that tinit_srv_request_status() (srv.c)   *)
(* builds from the services as they stand, and what the client library     *)
(* (lib.c) makes of it.  A request changes no state and is served by the   *)
(* thread between two handlers, so all of it is a function of the state    *)
(* that Svc describes.                                                     *)
(*                                                                         *)
(* A message is its length in bytes and what has been written at which     *)
(* offset.  Client and server compute the offsets of the variable sized    *)
(* entries each on their own.                                              *)
(***************************************************************************)
EXTENDS Svc

CONSTANTS
  Listed,     \* the services in repository order
  PathLen,    \* length of the path of each service's file
  NameMax,    \* NAME_MAX
  MsgSizes    \* values of TINIT_MSG_SIZE_MAX

(* What pid 0 stands for: tinit_parse_status_data() hides the process of a  *)
(* service that is not ready.                                               *)
Hidden == "0"

ASSUME StatusAssumption ==
  /\ Listed \in Seq(Services)
  /\ PathLen \in [Services -> 1 .. NameMax - 1]
  /\ NameMax \in Nat /\ MsgSizes \subseteq Nat
  /\ Hidden \notin Pids \cup {NoPid}

HeadSize   == 6   \* sizeof(struct tinit_reply_head)
ReplySize  == 8   \* sizeof(struct tinit_status_reply), aligned for its entries
DataSize   == 8   \* sizeof(struct tinit_status_data), padded
PathOffset == 6   \* of conf_path in it

RoundUpper(n, size) == ((n + size - 1) \div size) * size

-----------------------------------------------------------------------------
(* The server.                                                              *)

ErrorReply(errno) == [ret |-> errno, bytes |-> HeadSize, data |-> <<>>]

EmptyReply == [ret |-> "0", bytes |-> ReplySize, data |-> <<>>]

(* struct tinit_status_data, as svc stands, and its copy into the message.  *)
Entry(s) == [path      |-> s,
             pid       |-> svc[s].child,
             adm_state |-> svc[s].on,
             run_state |-> svc[s].state]

Written(data, at, entry) ==
  [o \in DOMAIN data \cup {at} |-> IF o = at THEN entry ELSE data[o]]

(* Appends right behind the previous entry.                                 *)
tinit_srv_append_status_reply_slip(max, msg, s) ==
  LET sz == msg.bytes + DataSize + PathLen[s] + 1
  IN  IF msg.ret # "0" THEN msg
      ELSE IF sz > max THEN ErrorReply("ENOSPC")
      ELSE [ret |-> "0", bytes |-> sz, data |-> Written(msg.data, msg.bytes, Entry(s))]

(* Once a service does not fit the reply is an error and the loop is left.  *)
tinit_srv_append_status_reply(max, msg, s) ==
  LET at == RoundUpper(msg.bytes, DataSize)
      sz == at + DataSize + PathLen[s] + 1
  IN  IF msg.ret # "0" THEN msg
      ELSE IF sz > max THEN ErrorReply("ENOSPC")
      ELSE [ret |-> "0", bytes |-> sz, data |-> Written(msg.data, at, Entry(s))]

(* The services whose name the client's pattern matches.                    *)
Matching(matched) ==
  LET Found[i \in 0 .. Len(Listed)] ==
        IF i = 0 THEN <<>>
        ELSE IF Listed[i] \in matched THEN Append(Found[i - 1], Listed[i])
        ELSE Found[i - 1]
  IN  Found[Len(Listed)]

(* The message after each of the services asked for.                        *)
Replies(max, asked) ==
  LET Reply[i \in 0 .. Len(asked)] ==
        IF i = 0 THEN EmptyReply
        ELSE tinit_srv_append_status_reply(max, Reply[i - 1], asked[i])
  IN  Reply

tinit_srv_request_status(max, matched) ==
  LET asked == Matching(matched)
  IN  IF asked = <<>> THEN ErrorReply("ENOENT") ELSE Replies(max, asked)[Len(asked)]

-----------------------------------------------------------------------------
(* The client.                                                              *)

Refused(errno) == [ret |-> errno]

(* An entry is believed only if its two states agree.                       *)
tinit_parse_status_data(msg, at) ==
  LET entry == msg.data[at]
      len   == PathLen[entry.path]
      agree == entry.run_state \in IF entry.adm_state THEN {"STARTING", "READY"}
                                   ELSE {"STOPPED", "STOPPING"}
  IN  IF at + PathOffset >= msg.bytes THEN Refused("ENOENT")
      ELSE IF at \notin DOMAIN msg.data THEN Refused("EPROTO")
      ELSE IF len >= msg.bytes - (at + PathOffset) \/ len >= NameMax
             THEN Refused("EPROTO")
      ELSE IF ~agree \/ (entry.run_state = "READY" /\ entry.pid = Hidden)
             THEN Refused("EPROTO")
      ELSE [ret |-> "0", len |-> len,
            status |-> [entry EXCEPT !.pid = IF entry.run_state = "READY" THEN @ ELSE Hidden]]

(* struct tinit_status_iter, and what its user has seen through it.         *)
Iter(ret, at, len, seen) == [ret |-> ret, at |-> at, len |-> len, seen |-> seen]

tinit_load_status(msg) ==
  LET parsed == tinit_parse_status_data(msg, ReplySize)
  IN  IF msg.ret # "0" THEN Iter(msg.ret, 0, 0, <<>>)
      ELSE IF parsed.ret # "0" THEN Iter("EPROTO", 0, 0, <<>>)
      ELSE Iter("0", ReplySize, parsed.len, <<parsed.status>>)

(* Nobody steps on after an error.                                          *)
tinit_step_status(msg, iter) ==
  LET nxt    == iter.at + RoundUpper(DataSize + iter.len + 1, DataSize)
      parsed == tinit_parse_status_data(msg, nxt)
  IN  IF iter.ret # "0" THEN iter
      ELSE IF parsed.ret # "0" THEN [iter EXCEPT !.ret = parsed.ret]
      ELSE Iter("0", nxt, parsed.len, Append(iter.seen, parsed.status))

(* The iterator after each step; a message has room for no more entries.    *)
MaxSteps(msg) == msg.bytes \div DataSize

Steps(msg) ==
  LET Step[k \in 0 .. MaxSteps(msg)] ==
        IF k = 0 THEN tinit_load_status(msg)
        ELSE tinit_step_status(msg, Step[k - 1])
  IN  Step

-----------------------------------------------------------------------------
(* What a client should see of s.                                           *)
View(s) ==
  [path      |-> s,
   pid       |-> IF svc[s].state = "READY" THEN svc[s].child ELSE Hidden,
   adm_state |-> svc[s].state \in {"STARTING", "READY"},
   run_state |-> svc[s].state]

(* What the first entries of seq take up before they are aligned.           *)
Sizes(seq) ==
  LET Size[i \in 0 .. Len(seq)] ==
        IF i = 0 THEN ReplySize ELSE Size[i - 1] + DataSize + PathLen[seq[i]] + 1
  IN  Size

(* Whenever a request can be served, the client reads exactly the services  *)
(* it asked for, in repository order, each as it is; or, if they might not  *)
(* fit into a message once aligned, it is told so and sees none of them.    *)
(* No state the services can get into, and no path, makes the client refuse *)
(* the reply.                                                               *)
StatusFaithful ==
  calls = <<>> =>
    \A max \in MsgSizes, matched \in SUBSET Services :
      LET asked == Matching(matched)
          msg   == tinit_srv_request_status(max, matched)
          got   == Steps(msg)[MaxSteps(msg)]
      IN  \/ /\ got.ret = "ENOENT"
             /\ got.seen = [i \in DOMAIN asked |-> View(asked[i])]
          \/ /\ got.ret = "ENOSPC" /\ got.seen = <<>>
             /\ Sizes(asked)[Len(asked)] + (DataSize - 1) * (Len(asked) - 1) > max
=============================================================================
