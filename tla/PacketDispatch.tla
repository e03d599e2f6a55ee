---------------------------- MODULE PacketDispatch ----------------------------
(***************************************************************************)
(* The way of a packet through two or more nodes: UDPSender and UDPReceiver *)
(* of src/NetworkWorker.cpp, the queues of src/Queue.h, the RequestHandler *)
(* and its IO service of src/PacketHandler.cpp, and parseCommPacket () of  *)
(* src/Packet.h.  Datagrams are lost, duplicated and reordered; foreign    *)
(* programs send what they like.                                           *)
(*                                                                         *)
(* Of a packet there are its type, version, the kind of its body and its   *)
(* correlation id: the number of the request that it is or answers, or 0.  *)
(* One type stands for all the DHT requests, which are treated alike here. *)
(***************************************************************************)
EXTENDS Naturals, Sequences, FiniteSets, Bags

CONSTANTS
  Nodes,      \* nodes that run pboted
  Nobody,     \* the empty destination
  MaxSent,    \* bound of the requests that the workers send
  MaxForeign, \* bound of the packets of foreign programs
  MaxDups     \* bound of the datagrams that the network doubles

ASSUME DispatchAssumption ==
  /\ IsFiniteSet(Nodes) /\ Nobody \notin Nodes
  /\ MaxSent \in Nat /\ MaxForeign \in Nat /\ MaxDups \in Nat

VARIABLES
  net,       \* the datagrams under way, a bag
  recvQueue, \* m_recvQueue of each node
  sendQueue, \* m_sendQueue of each node
  hand,      \* the packet that the handler thread has: at most one
  posts,     \* handlers that were posted to the IO service
  running,   \* the ids of the requests of the running batches
  up,        \* the process lives
  sent, foreign, dups  \* how many there were (bounds)

node == <<recvQueue, sendQueue, hand, posts, running, up>>
bounds == <<sent, foreign, dups>>
dispatchVars == <<net, node, bounds>>

\* Packets.  "junk" does not pass parseCommPacket (): too short, a wrong prefix, an
\* unknown type or version.  "C" passes it, but no handler is set for it.
\* Of the responses "other" has data that receiveResponsePkt () does not know, as a
\* deletion record is, and "hollow" a length and no data, since its status is an error.
Ids == 0 .. MaxSent
Requests == {"A", "Q"}
Responses == [type : {"N"}, ver : {4}, cid : Ids,
              body : {"short", "empty", "data", "other", "hollow"}]
Others == [type : {"junk", "R", "C"}, ver : {4}, cid : {0}, body : {"none"}]
            \cup [type : Requests, ver : {3, 4}, cid : Ids, body : {"none"}]
Contents == Responses \cup Others

Packet == [from : Nodes, to : Nodes \cup {Nobody}, c : Contents]

\* The response of RequestHandler::run () to what it cannot handle: INVALID_PACKET.
Invalid == [type |-> "N", ver |-> 4, cid |-> 0, body |-> "empty"]

DispatchInit ==
  /\ net = EmptyBag
  /\ recvQueue = [n \in Nodes |-> << >>] /\ sendQueue = [n \in Nodes |-> << >>]
  /\ hand = [n \in Nodes |-> << >>] /\ posts = [n \in Nodes |-> << >>]
  /\ running = [n \in Nodes |-> {}] /\ up = [n \in Nodes |-> TRUE]
  /\ sent = 0 /\ foreign = 0 /\ dups = 0

-----------------------------------------------------------------------------
(* The queues and the two network threads *)

\* Queue::Put ()
Put(queue, n, p) == [queue EXCEPT ![n] = Append(@, p)]

\* context.send () of a batch with one request to another node.
SendRequest(n, m, t, v) ==
  /\ up[n] /\ n # m /\ sent < MaxSent
  /\ sent' = sent + 1
  /\ running' = [running EXCEPT ![n] = @ \cup {sent'}]
  /\ sendQueue' = Put(sendQueue, n,
       [from |-> n, to |-> m,
        c |-> [type |-> t, ver |-> v, cid |-> sent', body |-> "none"]])
  /\ UNCHANGED <<net, recvQueue, hand, posts, up, foreign, dups>>

\* UDPSender::send (): the router has no way to an empty destination.
send(n) ==
  /\ sendQueue[n] # << >>
  /\ LET p == Head(sendQueue[n])
     IN  net' = IF p.to = Nobody THEN net ELSE net (+) SetToBag({p})
  /\ sendQueue' = [sendQueue EXCEPT ![n] = Tail(@)]
  /\ UNCHANGED <<recvQueue, hand, posts, running, up, bounds>>

\* UDPReceiver::handle_receive (); a process that is gone receives nothing.
handle_receive(p) ==
  /\ p \in BagToSet(net)
  /\ net' = net (-) SetToBag({p})
  /\ recvQueue' = IF up[p.to] THEN Put(recvQueue, p.to, p) ELSE recvQueue
  /\ UNCHANGED <<sendQueue, hand, posts, running, up, bounds>>

Lose(p) ==
  /\ p \in BagToSet(net)
  /\ net' = net (-) SetToBag({p})
  /\ UNCHANGED <<node, bounds>>

Duplicate(p) ==
  /\ p \in BagToSet(net) /\ dups < MaxDups
  /\ net' = net (+) SetToBag({p}) /\ dups' = dups + 1
  /\ UNCHANGED <<node, sent, foreign>>

\* A foreign program at the place of a node sends anything, also an answer of its own
\* kind to a request.
SendForeign(p) ==
  /\ p.to \in Nodes /\ p.from # p.to /\ p.c.cid <= sent /\ foreign < MaxForeign
  /\ net' = net (+) SetToBag({p}) /\ foreign' = foreign + 1
  /\ UNCHANGED <<node, sent, dups>>

-----------------------------------------------------------------------------
(* The handler thread *)

\* RequestHandler::run () takes the next packet.
GetNext(n) ==
  /\ up[n] /\ hand[n] = << >> /\ recvQueue[n] # << >>
  /\ hand' = [hand EXCEPT ![n] = <<Head(recvQueue[n])>>]
  /\ recvQueue' = [recvQueue EXCEPT ![n] = Tail(@)]
  /\ UNCHANGED <<net, sendQueue, posts, running, up, bounds>>

\* Mutant: a response without data is too short.
parseCommPacketLong(c) == c.type # "junk" /\ c.body # "empty"

\* parseCommPacket () finds a packet.
parseCommPacket(c) == c.type # "junk"

\* context.receive (): the response has the id of a request of a running batch.  The
\* request stays in the batch, which takes a second response to it as well.
receive(n, c) == c.type = "N" /\ c.cid \in running[n]

\* The handlers of IncomingRequest: requests go to the IO service.
posted(c) == c.type \in Requests /\ c.ver >= 4

\* receiveResponsePkt () of a response nobody waits for, and the requests that
\* are not implemented.
ignored(c) == c.type = "R" \/ (c.type = "N" /\ c.body \in {"empty", "data"})

\* The handler is done with its packet.
Done(n) == hand' = [hand EXCEPT ![n] = << >>]

\* handleNewPacket () finds a place for the packet.
Accept(n) ==
  /\ up[n] /\ hand[n] # << >>
  /\ LET p == hand[n][1]
     IN  /\ parseCommPacket(p.c)
         /\ \/ receive(n, p.c) /\ UNCHANGED posts
            \/ ~receive(n, p.c) /\ posted(p.c) /\ posts' = Put(posts, n, p)
            \/ ~receive(n, p.c) /\ ignored(p.c) /\ UNCHANGED posts
  /\ Done(n)
  /\ UNCHANGED <<net, recvQueue, sendQueue, running, up, bounds>>

\* It finds none: run () answers INVALID_PACKET to packet->destination, which
\* parseCommPacket () has moved away if it came to its end.
Refuse(n) ==
  /\ up[n] /\ hand[n] # << >>
  /\ LET p == hand[n][1]
     IN  /\ ~(parseCommPacket(p.c) /\ (receive(n, p.c) \/ posted(p.c) \/ ignored(p.c)))
         /\ p.c.body # "hollow"
         /\ sendQueue' = Put(sendQueue, n,
              [from |-> n, to |-> IF parseCommPacket(p.c) THEN Nobody ELSE p.from,
               c |-> Invalid])
  /\ Done(n)
  /\ UNCHANGED <<net, recvQueue, posts, running, up, bounds>>

\* i_handlers_ is not initialised: the entry of a type without a handler is a null
\* pointer, which Refuse is about, or ends the process.  receiveResponsePkt () ends it
\* when it reads the first byte of data that is not there.
Unsafe(n, c) == c.type = "C" \/ (c.body = "hollow" /\ ~receive(n, c))

EndProcess(n) ==
  /\ up[n] /\ hand[n] # << >> /\ Unsafe(n, hand[n][1].c)
  /\ up' = [up EXCEPT ![n] = FALSE]
  /\ recvQueue' = [recvQueue EXCEPT ![n] = << >>] /\ sendQueue' = [sendQueue EXCEPT ![n] = << >>]
  /\ posts' = [posts EXCEPT ![n] = << >>] /\ running' = [running EXCEPT ![n] = {}]
  /\ Done(n)
  /\ UNCHANGED <<net, bounds>>

\* What the handlers answer with: a list of peers; no data; a packet of the store; or
\* a deletion record.
Answers(type) == IF type = "A" THEN {"data"} ELSE {"empty", "data", "other"}

\* run_IO_service () runs the next handler: it answers the request with its id,
\* sends nothing, or throws, which is caught.
RunPosted(n) ==
  /\ up[n] /\ posts[n] # << >>
  /\ posts' = [posts EXCEPT ![n] = Tail(@)]
  /\ LET p == Head(posts[n])
     IN  \/ UNCHANGED sendQueue
         \/ \E b \in Answers(p.c.type) :
              sendQueue' = Put(sendQueue, n,
                [from |-> n, to |-> p.from,
                 c |-> [type |-> "N", ver |-> 4, cid |-> p.c.cid, body |-> b]])
  /\ UNCHANGED <<net, recvQueue, hand, running, up, bounds>>

\* removeBatch () of an operation that has what it wants or has waited long enough.
RemoveBatch(n, id) ==
  /\ id \in running[n]
  /\ running' = [running EXCEPT ![n] = @ \ {id}]
  /\ UNCHANGED <<net, recvQueue, sendQueue, hand, posts, up, bounds>>

-----------------------------------------------------------------------------
ThreadStep(n) ==
  \/ send(n) \/ GetNext(n) \/ Accept(n) \/ Refuse(n) \/ EndProcess(n) \/ RunPosted(n)

Network == \E p \in BagToSet(net) : handle_receive(p) \/ Lose(p) \/ Duplicate(p)

DispatchNext ==
  \/ \E n \in Nodes : ThreadStep(n) \/ \E id \in Ids : RemoveBatch(n, id)
  \/ \E n, m \in Nodes, t \in Requests, v \in {3, 4} : SendRequest(n, m, t, v)
  \/ Network
  \/ \E p \in Packet : SendForeign(p)

\* The threads of a node run, and a datagram arrives or is lost.
Fairness ==
  /\ \A n \in Nodes : /\ WF_dispatchVars(send(n)) /\ WF_dispatchVars(RunPosted(n))
                      /\ WF_dispatchVars(GetNext(n) \/ Accept(n) \/ Refuse(n) \/ EndProcess(n))
  /\ WF_dispatchVars(\E p \in BagToSet(net) : handle_receive(p) \/ Lose(p))

DispatchSpec == DispatchInit /\ [][DispatchNext]_dispatchVars /\ Fairness

-----------------------------------------------------------------------------
\* The state keeps its types; batches have requests only that were sent.
DispatchTypeOK ==
  /\ BagToSet(net) \subseteq Packet
  /\ \A n \in Nodes :
       /\ recvQueue[n] \in Seq(Packet) /\ sendQueue[n] \in Seq(Packet)
       /\ posts[n] \in Seq(Packet)
       /\ Len(hand[n]) <= 1 /\ running[n] \subseteq 1 .. sent /\ up[n] \in BOOLEAN

\* Nodes that run this code do not upset each other.  As long as no foreign program
\* sends, no INVALID_PACKET is under way to a node and no node ends in a handler,
\* whatever datagrams are lost, doubled or late and whatever operations have given up.
\* What a node refuses all the same, a request of an older version or a deletion record
\* that comes when its batch is gone, it refuses to nobody.
Understood ==
  foreign = 0 => /\ \A n \in Nodes : up[n]
                 /\ \A p \in BagToSet(net) : p.c # Invalid
                 /\ \A n \in Nodes : \A i \in DOMAIN sendQueue[n] :
                      sendQueue[n][i].c = Invalid => sendQueue[n][i].to = Nobody

\* Traffic dies down.  Nodes that only answer never keep each other busy: a refusal
\* is not refused, a late or doubled response starts nothing, and every request
\* that arrived has been run or refused.
Quiet ==
  <>[](/\ net = EmptyBag
       /\ \A n \in Nodes : /\ recvQueue[n] = << >> /\ sendQueue[n] = << >>
                           /\ hand[n] = << >> /\ posts[n] = << >>)
===============================================================================
