----------------------------- MODULE RequestBatch -----------------------------
(***************************************************************************)
(* How pboted asks other nodes: find, store, deleteEmail,                  *)
(* deleteIndexEntries and deletion_query of src/DHTworker.cpp and          *)
(* check_peers of src/RelayWorker.cpp all put their requests in a          *)
(* PacketBatch (src/Packet.h), register it with BoteContext and send it,   *)
(* wait, and register and send the whole batch again while too few answers *)
(* came.                                                                   *)
(*                                                                         *)
(* The operations run on the threads of their callers.  The packet handler *)
(* thread takes one response after another, looks for the batch that       *)
(* contains its correlation id (cid) and adds it there.  The list of       *)
(* running batches is a std::vector: removeBatch () holds a mutex,         *)
(* send () and receive () do not.  The vector is modelled by its memory,   *)
(* the slots, and its end, so that what the other threads see between the  *)
(* two writes of a push_back, and what an iterator points to after an      *)
(* erase, is what the build leaves there.                                  *)
(*                                                                         *)
(* A request or a response that stays in flight for ever is a lost one.    *)
(* The network may double them, and a peer may answer twice.               *)
(***************************************************************************)
EXTENDS Integers, Sequences, FiniteSets

CONSTANTS
  Batches,    \* the operations, one batch each
  Cids,       \* correlation ids of requests
  Packets,    \* Packets[b]: the cids of the requests of b
  Need,       \* Need[b]: responses below which b is sent again
  Resends,    \* Resends[b]: how often
  Node,       \* Node[c]: the node that request c goes to
  Accepted,   \* requests answered with a status the operation takes for success
  MaxSlots,   \* bound of the vector
  Doublable,  \* requests that the network or the peer may double
  MaxDoubled, \* bound of the copies that it makes of each
  Null        \* a null pointer

ASSUME RequestsAssumption ==
  /\ IsFiniteSet(Cids)
  /\ Packets \in [Batches -> SUBSET Cids]
  /\ \A a, b \in Batches : a # b => Packets[a] \cap Packets[b] = {}
  /\ Need \in [Batches -> Nat]
  /\ Resends \in [Batches -> Nat]
  /\ Accepted \subseteq Cids
  /\ MaxSlots \in Nat \ {0}
  /\ Doublable \subseteq Cids
  /\ MaxDoubled \in Nat
  /\ Null \notin Batches

VARIABLES
  pc,          \* where each operation is
  counter,     \* how often it has sent its batch again
  incoming,    \* PacketBatch::incomingPackets, the cids of the responses
  result,      \* the positions in incoming of the responses returned
  slots,       \* memory of BoteContext::runningBatches
  finish,      \* its size
  slot,        \* slot[b]: where the push_back of b under way constructed it
  flight,      \* flight[c]: copies of request c, or of its answer, in flight
  doubled,     \* doubled[c]: how many of them the network or the peer has added
  recv,        \* the packet handler thread
  m_started,   \* DHTworker::m_started (of a check_peers (): started_)
  crashed      \* the daemon has dereferenced a null pointer

list == <<slots, finish>>
network == <<flight, doubled>>
vars == <<pc, counter, incoming, result, list, slot, network, recv, m_started, crashed>>

Idle == [phase |-> "idle"]

-----------------------------------------------------------------------------
(* BoteContext::runningBatches *)

\* The vector without the elements at the positions of R: the others move
\* down.  A slot that an element was moved out of is null; the last element,
\* when it is the one erased, stays in memory behind the new end.
Compact(R) ==
  LET kept == (1 .. finish) \ R
      n == Cardinality(kept)
      nth(j) == {k \in kept : Cardinality({i \in kept : i <= k}) = j}
  IN  /\ finish' = n
      /\ slots' = [j \in 1 .. MaxSlots |->
                     IF nth(j) # {} THEN slots[CHOOSE k \in nth(j) : TRUE]
                     ELSE IF j > finish THEN slots[j]
                     ELSE IF j = n + 1 /\ finish \in R THEN slots[finish]
                     ELSE Null]

\* removeBatch (): null elements are erased on the way to the first b.
removeBatch(b) ==
  LET before(i) == \A j \in 1 .. i - 1 : slots[j] # b
  IN  Compact({i \in 1 .. finish : before(i) /\ slots[i] \in {b, Null}})

\* push_back writes the element behind the end ...
Construct(b) ==
  /\ finish < MaxSlots
  /\ slots' = [slots EXCEPT ![finish + 1] = b]
  /\ slot' = [slot EXCEPT ![b] = finish + 1]
  /\ UNCHANGED finish

\* ... and then moves the end, either from where it is now or from where it was.
MoveEnd(b) ==
  /\ finish' \in {slot[b]} \cup ({finish + 1} \cap 1 .. MaxSlots)
  /\ slot' = [slot EXCEPT ![b] = 1]
  /\ UNCHANGED slots

-----------------------------------------------------------------------------
(* An operation *)

Goto(b, label) == pc' = [pc EXCEPT ![b] = label]

\* An operation that finds the worker stopped returns nothing.
Skip(b) ==
  /\ pc[b] = "start"
  /\ ~m_started
  /\ Goto(b, "skipped")
  /\ UNCHANGED <<counter, incoming, result, list, slot, network, recv, m_started, crashed>>

\* BoteContext::send (), first part: push_back.
Register(b) ==
  /\ pc[b] = "resend" \/ (pc[b] = "start" /\ m_started)
  /\ Construct(b)
  /\ Goto(b, "push")
  /\ UNCHANGED <<counter, incoming, result, network, recv, m_started, crashed>>

\* BoteContext::send (), second part: every request of the batch is queued.
Send(b) ==
  /\ pc[b] = "push"
  /\ MoveEnd(b)
  /\ flight' = [c \in Cids |-> IF c \in Packets[b] THEN flight[c] + 1 ELSE flight[c]]
  /\ Goto(b, "sent")
  /\ UNCHANGED <<counter, incoming, result, doubled, recv, m_started, crashed>>

\* waitLast (): wait_for on the condition, with no predicate; a notification
\* that came before is lost.  (waitFist () is used by findOne () only, which is
\* never called.)
Wait(b) ==
  /\ pc[b] = "sent"
  /\ Goto(b, "wait")
  /\ UNCHANGED <<counter, incoming, result, list, slot, network, recv, m_started, crashed>>

TimeoutNever(b) == FALSE

\* The wait times out, or wakes up for no reason.
Timeout(b) ==
  /\ pc[b] = "wait"
  /\ Goto(b, "check")
  /\ UNCHANGED <<counter, incoming, result, list, slot, network, recv, m_started, crashed>>

MoreToSendOneLess(b) ==
  Len(incoming[b]) < Need[b] /\ counter[b] + 1 < Resends[b] /\ m_started
MoreToSendOneMore(b) ==
  Len(incoming[b]) < Need[b] /\ counter[b] <= Resends[b] /\ m_started

\* The condition of the resend loop.
MoreToSend(b) == Len(incoming[b]) < Need[b] /\ counter[b] < Resends[b] /\ m_started

Check(b) ==
  /\ pc[b] = "check"
  /\ Goto(b, IF MoreToSend(b) THEN "remove" ELSE "finish")
  /\ UNCHANGED <<counter, incoming, result, list, slot, network, recv, m_started, crashed>>

\* A round of the loop starts with removeBatch ().
Remove(b) ==
  /\ pc[b] = "remove"
  /\ removeBatch(b)
  /\ counter' = [counter EXCEPT ![b] = counter[b] + 1]
  /\ Goto(b, "resend")
  /\ UNCHANGED <<incoming, result, slot, network, recv, m_started, crashed>>

Finish(b) ==
  /\ pc[b] = "finish"
  /\ removeBatch(b)
  /\ Goto(b, "collect")
  /\ UNCHANGED <<counter, incoming, result, slot, network, recv, m_started, crashed>>

\* getResponses () and the choice of the valid ones.
Collect(b) ==
  /\ pc[b] = "collect"
  /\ result' = [result EXCEPT ![b] = {i \in 1 .. Len(incoming[b]) : incoming[b][i] \in Accepted}]
  /\ Goto(b, "done")
  /\ UNCHANGED <<counter, incoming, list, slot, network, recv, m_started, crashed>>

-----------------------------------------------------------------------------
(* The packet handler thread *)

\* A datagram is doubled on its way, or the peer answers once more.
Double(c) ==
  /\ c \in Doublable /\ flight[c] > 0
  /\ doubled[c] < MaxDoubled
  /\ flight' = [flight EXCEPT ![c] = @ + 1]
  /\ doubled' = [doubled EXCEPT ![c] = @ + 1]
  /\ UNCHANGED <<pc, counter, incoming, result, list, slot, recv, m_started, crashed>>

\* A response arrives.
Deliver(c) ==
  /\ recv = Idle
  /\ flight[c] > 0
  /\ flight' = [flight EXCEPT ![c] = @ - 1]
  /\ recv' = [phase |-> "scan", cid |-> c, pos |-> 1]
  /\ UNCHANGED <<pc, counter, incoming, result, list, slot, doubled, m_started, crashed>>

\* One round of the loop of receive ().  A response that no batch contains is
\* logged as unexpected and dropped.  After a null element has been erased the
\* iterator skips the one that took its place.
Scan ==
  /\ recv.phase = "scan"
  /\ \/ /\ recv.pos > finish
        /\ recv' = Idle
        /\ UNCHANGED list
     \/ /\ recv.pos <= finish
        /\ slots[recv.pos] = Null
        /\ Compact({recv.pos})
        /\ recv' = [recv EXCEPT !.pos = @ + 1]
     \/ /\ recv.pos <= finish
        /\ slots[recv.pos] # Null
        /\ recv' = IF recv.cid \in Packets[slots[recv.pos]]
                   THEN [recv EXCEPT !.phase = "add"]
                   ELSE [recv EXCEPT !.pos = @ + 1]
        /\ UNCHANGED list
  /\ UNCHANGED <<pc, counter, incoming, result, slot, network, m_started, crashed>>

\* PacketBatch::addResponse () notifies who waits for the last response.
\* remain () is unsigned: with more responses than requests it is not 0 again.
Notified(b) == Len(incoming[b]) + 1 = Cardinality(Packets[b])

\* What receive () leaves of the response it added.
AfterAddScansOn == [recv EXCEPT !.phase = "scan", !.pos = @ + 1]
AfterAdd == Idle

\* receive () dereferences its iterator again to add the response.
AddResponse ==
  /\ recv.phase = "add"
  /\ \/ /\ slots[recv.pos] = Null
        /\ crashed' = TRUE
        /\ UNCHANGED <<pc, incoming, recv>>
     \/ \E b \in Batches :
          /\ slots[recv.pos] = b
          /\ incoming' = [incoming EXCEPT ![b] = Append(@, recv.cid)]
          /\ pc' = IF pc[b] = "wait" /\ Notified(b) THEN [pc EXCEPT ![b] = "check"] ELSE pc
          /\ recv' = AfterAdd
          /\ UNCHANGED crashed
  /\ UNCHANGED <<counter, result, list, slot, network, m_started>>

\* DHTworker::stop ().
Stop ==
  /\ m_started
  /\ m_started' = FALSE
  /\ UNCHANGED <<pc, counter, incoming, result, list, slot, network, recv, crashed>>

-----------------------------------------------------------------------------

Init ==
  /\ pc = [b \in Batches |-> "start"]
  /\ counter = [b \in Batches |-> 0]
  /\ incoming = [b \in Batches |-> <<>>]
  /\ result = [b \in Batches |-> {}]
  /\ slots = [i \in 1 .. MaxSlots |-> Null]
  /\ finish = 0
  /\ slot = [b \in Batches |-> 1]
  /\ flight = [c \in Cids |-> 0]
  /\ doubled = [c \in Cids |-> 0]
  /\ recv = Idle
  /\ m_started = TRUE
  /\ crashed = FALSE

Step(b) ==
  \/ Skip(b)
  \/ Register(b)
  \/ Send(b)
  \/ Wait(b)
  \/ Timeout(b)
  \/ Check(b)
  \/ Remove(b)
  \/ Finish(b)
  \/ Collect(b)

Running(b) == ~crashed /\ Step(b)

Next ==
  \/ \E b \in Batches : Running(b)
  \/ ~crashed /\ \E c \in Cids : Deliver(c) \/ Double(c)
  \/ ~crashed /\ Scan
  \/ ~crashed /\ AddResponse
  \/ ~crashed /\ Stop

Spec == Init /\ [][Next]_vars

\* The threads of the operations are scheduled, and every wait ends after its
\* timeout.  Nothing is assumed of the network and of the packet handler.
FairSpec == Spec /\ \A b \in Batches : WF_vars(Running(b))

-----------------------------------------------------------------------------
(* Properties *)

Labels ==
  {"start", "push", "sent", "wait", "check", "remove", "resend", "finish", "collect",
   "done", "skipped"}

Receiver ==
  {Idle}
    \cup [phase : {"scan"}, cid : Cids, pos : 1 .. MaxSlots + 1]
    \cup [phase : {"add"}, cid : Cids, pos : 1 .. MaxSlots]

\* Types; the size of the vector stays within its memory.
TypeOK ==
  /\ pc \in [Batches -> Labels]
  /\ counter \in [Batches -> Nat]
  /\ \A b \in Batches : counter[b] <= Resends[b]
  /\ incoming \in [Batches -> Seq(Cids)]
  /\ result \in [Batches -> SUBSET Nat]
  /\ slots \in [1 .. MaxSlots -> Batches \cup {Null}]
  /\ finish \in 0 .. MaxSlots
  /\ slot \in [Batches -> 1 .. MaxSlots]
  /\ flight \in [Cids -> Nat]
  /\ doubled \in [Cids -> Nat]
  /\ recv \in Receiver
  /\ m_started \in BOOLEAN
  /\ crashed \in BOOLEAN

\* How often the requests of b were sent so far.
Sends(b) ==
  IF pc[b] \in {"start", "push", "resend", "skipped"} THEN counter[b] ELSE counter[b] + 1

\* Where the responses to request c are: added to some batch, held by the packet
\* handler, or in flight.
Added(c) ==
  UNION {{b} \X {i \in 1 .. Len(incoming[b]) : incoming[b][i] = c} : b \in Batches}

Held(c) == IF recv.phase # "idle" /\ recv.cid = c THEN 1 ELSE 0

\* No datagram is counted twice.  However the list of running batches is torn by the
\* threads, the responses to a request that all the batches together count are never
\* more than the copies of the request that were sent and those that the network or the
\* peer added: a batch that is in the list twice, or a list that moves under the
\* iterator of receive (), does not make one answer count for two.  (Copies that the
\* network added are counted: addResponse () does not look whether it has the answer.)
CountedOnce ==
  \A b \in Batches : \A c \in Packets[b] :
    Cardinality(Added(c)) + flight[c] + Held(c) <= Sends(b) + doubled[c]

\* An operation that returns with fewer responses than it needs, while the
\* worker runs, has used up its retries: no wake-up, early response or lost
\* registration makes it give up sooner.
GivesUpLate ==
  \A b \in Batches :
    pc[b] = "done" /\ m_started /\ Len(incoming[b]) < Need[b] => counter[b] = Resends[b]

\* Every operation returns, whatever is lost on the network, whoever answers
\* when, and also when its batch is lost from the list of running batches or the
\* notification comes before the wait.
Returns == \A b \in Batches : <>(pc[b] \in {"done", "skipped"} \/ crashed)

-----------------------------------------------------------------------------
(* What the log messages of the code say of it *)

\* The nodes an operation returns are so many nodes, none of them twice.
ReturnsNodes ==
  \A b \in Batches : \A i, j \in result[b] :
    Node[incoming[b][i]] = Node[incoming[b][j]] => i = j

=============================================================================
