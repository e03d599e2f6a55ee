------------------------------ MODULE NodeTable ------------------------------
(***************************************************************************)
(* The table of known DHT nodes of src/DHTworker.cpp and its file          *)
(* nodes.txt.  Nodes enter the table from the file, from the bootstrap     *)
(* list, as senders of FindClosePeers requests and from the peer lists     *)
(* that other nodes send.  closestNodesLookupTask () runs on the threads   *)
(* of its callers, several at a time: it asks the nodes that are not       *)
(* locked, locks every node of the table that did not answer, unlocks      *)
(* those that an answer listed, drops the nodes that stay silent, and      *)
(* returns the nodes closest to its key.                                   *)
(*                                                                         *)
(* A node is the number of its identity hash, which orders the map         *)
(* m_nodes.  Time is counted in ticks; it does not pass in the code that   *)
(* follows the wait of a lookup.                                           *)
(***************************************************************************)
EXTENDS Integers, FiniteSets, Sequences

CONSTANTS
  Nodes,         \* identities
  Self,          \* the local destination
  Junk,          \* what a line of nodes.txt that is cut off is read as
  Bootstrap,     \* option bootstrap.address
  Saved,         \* contents of nodes.txt at the first start
  Keys,          \* keys that are looked up
  Metric,        \* Metric[k][n]: k XOR the hash of n
  Senders,       \* nodes whose FindClosePeers requests arrive
  PeerLists,     \* the nodes that a peer list may name
  Num,           \* how many close nodes a lookup returns (20)
  Lookups,       \* threads that look up
  LookupTime,    \* CLOSEST_NODES_LOOKUP_TIMEOUT
  LockTime,      \* ten minutes
  SilentTime,    \* option cleaninterval
  MaxTimeouts,   \* bound of consecutive_timeouts
  MaxNow,        \* bound of the clock
  MaxRestarts    \* bound of the number of restarts

ASSUME NodesAssumption ==
  /\ Nodes \subseteq Nat /\ IsFiniteSet(Nodes)
  /\ Self \in Nodes /\ Junk \in Nodes /\ Junk # Self
  /\ Bootstrap \subseteq Nodes \ {Junk}
  /\ Bootstrap \ {Self} # {}
  /\ Saved \subseteq SUBSET (Nodes \ {Self, Junk})
  /\ Senders \subseteq Nodes \ {Junk}
  /\ PeerLists \subseteq SUBSET (Nodes \ {Junk})
  /\ Metric \in [Keys -> [Nodes -> Nat]]
  /\ \A k \in Keys : \A m, n \in Nodes : Metric[k][m] = Metric[k][n] => m = n
  /\ {Num, LookupTime, LockTime, SilentTime, MaxTimeouts, MaxNow, MaxRestarts} \subseteq Nat
  /\ Num > 0 /\ LockTime > 0 /\ MaxTimeouts > 0

VARIABLES
  m_nodes,     \* the table: a function from the known nodes to their state
  file,        \* nodes.txt: the nodes of its lines
  m_started,   \* the worker runs
  lookup,      \* lookup[t]: the call of closestNodesLookupTask on thread t
  now,         \* ts_now ()
  restarts,    \* how often the daemon was started again
  torn,        \* a crash has cut nodes.txt off (history)
  orphaned     \* since the last start a lookup found none of the nodes that
               \* answered it in the table (history)

vars == <<m_nodes, file, m_started, lookup, now, restarts, torn, orphaned>>

Known == DOMAIN m_nodes

NodeState == [last_seen : 0 .. MaxNow, timeouts : 0 .. MaxTimeouts,
              locked_until : 0 .. MaxNow + LockTime * MaxTimeouts]

Idle == [pc |-> "idle"]

-----------------------------------------------------------------------------
(* struct Node *)

\* Mutant: the lock ends before it begins.
noResponseSign(s) ==
  [s EXCEPT !.timeouts = IF @ < MaxTimeouts THEN @ + 1 ELSE @,
            !.locked_until = now - LockTime]

\* Node::noResponse (): the lock grows with every timeout.
noResponse(s) ==
  LET t == IF s.timeouts < MaxTimeouts THEN s.timeouts + 1 ELSE s.timeouts
  IN  [s EXCEPT !.timeouts = t, !.locked_until = now + t * LockTime]

\* Mutant: an answer unlocks the node and does not renew last_seen.
gotResponseNotSeen(s) == [s EXCEPT !.timeouts = 0, !.locked_until = 0]

\* Node::gotResponse ()
gotResponse(s) == [last_seen |-> now, timeouts |-> 0, locked_until |-> 0]

\* Node::locked ()
locked(s) == now < s.locked_until

NewNode == [last_seen |-> now, timeouts |-> 0, locked_until |-> 0]

-----------------------------------------------------------------------------
(* The table *)

\* Mutant: the local destination is not compared.
addNodesSelf(table, S) ==
  [n \in DOMAIN table \cup S |-> IF n \in DOMAIN table THEN table[n] ELSE NewNode]

\* addNode () for each of S: known nodes and the local one are left alone.
addNodes(table, S) ==
  [n \in DOMAIN table \cup (S \ {Self}) |->
     IF n \in DOMAIN table THEN table[n] ELSE NewNode]

\* getAllNodes ()
getAllNodes == Known

\* getUnlockedNodes ()
getUnlockedNodes == {n \in Known : ~locked(m_nodes[n])}

Closer(k, m, n) == Metric[k][m] < Metric[k][n]
Farthest(k, S) == CHOOSE n \in S : \A m \in S : m = n \/ Closer(k, m, n)

\* Mutant: once the set is full a closer node no longer replaces the last one.
InsertFull(k, C, n, num) == IF Cardinality(C) < num THEN C \cup {n} ELSE C

\* The body of the loop of getClosestNodes (): C holds the closest nodes so far.
Insert(k, C, n, num) ==
  IF Cardinality(C) < num THEN C \cup {n}
  ELSE IF Closer(k, n, Farthest(k, C))
       THEN LET D == C \cup {n} IN D \ {Farthest(k, D)}
       ELSE C

\* The nodes of the table that may be returned.
Candidate(table, k, to_us, n) == ~locked(table[n]) /\ ~(to_us /\ Closer(k, Self, n))

\* The map is walked in the order of the hashes.
Last(R) == CHOOSE n \in R : \A m \in R : m <= n

\* getClosestNodes (): walk[R] is what is kept when the nodes of R were looked at.
getClosestNodes(table, k, num, to_us) ==
  LET keep(C, n) == IF Candidate(table, k, to_us, n) THEN Insert(k, C, n, num) ELSE C
      walk[R \in SUBSET DOMAIN table] ==
        IF R = {} THEN {} ELSE keep(walk[R \ {Last(R)}], Last(R))
  IN  walk[DOMAIN table]

\* Mutant: the answers do not unlock.
calc_locksAll(table, R) == [n \in DOMAIN table |-> noResponse(table[n])]

\* calc_locks (): every node of the table that is not among the responders is
\* locked, whether this lookup asked it or not.
calc_locks(table, R) ==
  [n \in DOMAIN table |-> IF n \in R THEN gotResponse(noResponse(table[n]))
                          ELSE noResponse(table[n])]

-----------------------------------------------------------------------------
(* start (), stop (), run (), nodes.txt *)

\* Mutant: no bootstrap.
loadNodesOnlyFile ==
  [n \in file |-> noResponse([NewNode EXCEPT !.last_seen = now])]

\* loadNodes () after readNodes (): every line becomes a node, parsable or not,
\* and every node starts locked; the bootstrap list serves an empty file.
loadNodes ==
  LET read == [n \in file |-> [NewNode EXCEPT !.last_seen = 0]]
      table == IF file # {} THEN read ELSE addNodes(read, Bootstrap)
  IN  [n \in DOMAIN table |-> noResponse([table[n] EXCEPT !.last_seen = now])]

\* DHTworker::start () of a new process: the threads of the last one are gone.
Start ==
  /\ ~m_started
  /\ \A t \in Lookups : lookup[t] = Idle
  /\ restarts < MaxRestarts
  /\ m_nodes' = loadNodes
  /\ m_started' = TRUE
  /\ restarts' = restarts + 1
  /\ orphaned' = FALSE
  /\ UNCHANGED <<file, lookup, now, torn>>

\* DHTworker::stop () clears the flag and leaves nodes.txt as run () wrote it
\* last; the lookups see the flag (Abandon).
Stop ==
  /\ m_started
  /\ m_started' = FALSE
  /\ UNCHANGED <<m_nodes, file, lookup, now, restarts, torn, orphaned>>

\* run (), writeNodes (): the file is truncated and the table written.
writeNodes ==
  /\ m_started
  /\ file' = Known
  /\ UNCHANGED <<m_nodes, m_started, lookup, now, restarts, torn, orphaned>>

\* The process ends, by itself once it is stopped.  If it was writing nodes.txt,
\* the first lines are there, and possibly a part of the next one.
Crash ==
  /\ m_started
  /\ m_started' = FALSE
  /\ lookup' = [t \in Lookups |-> Idle]
  /\ \/ UNCHANGED <<file, torn>>
     \/ /\ \E S \in SUBSET Known : \E J \in SUBSET {Junk} :
              /\ \A n \in S : \A m \in Known : m < n => m \in S
              /\ file' = S \cup J
        /\ torn' = TRUE
  /\ UNCHANGED <<m_nodes, now, restarts, orphaned>>

-----------------------------------------------------------------------------
(* Requests of other nodes *)

\* receiveFindClosePeers () of sender n: it is added to the table; the answer is
\* the nodes closest to the key of the request, or GENERAL_ERROR if there are
\* none.  A request from the local destination is skipped.
receiveFindClosePeers(n) ==
  /\ m_started
  /\ n # Self
  /\ m_nodes' = addNodes(m_nodes, {n})
  /\ UNCHANGED <<file, m_started, lookup, now, restarts, torn, orphaned>>

-----------------------------------------------------------------------------
(* closestNodesLookupTask *)

\* The nodes that are not locked are asked, all nodes if there are none.
Ask(t, k) ==
  /\ m_started
  /\ lookup[t] = Idle
  /\ now + LookupTime <= MaxNow
  /\ LET asked == IF getUnlockedNodes # {} THEN getUnlockedNodes ELSE getAllNodes
     IN  lookup' = [lookup EXCEPT ![t] =
                      [pc |-> "wait", key |-> k, start |-> now, active |-> asked,
                       from |-> {}, listed |-> {}]]
  /\ UNCHANGED <<m_nodes, file, m_started, now, restarts, torn, orphaned>>

\* The answer of n with the peer list L reaches the batch of the lookup.  L is
\* empty for an error status and for a response or peer list that does not parse.
Answer(t, n, L) ==
  /\ lookup[t].pc = "wait"
  /\ n \in lookup[t].active \ {Junk}
  /\ lookup' = [lookup EXCEPT ![t].active = @ \ {n}, ![t].from = @ \cup {n},
                              ![t].listed = @ \cup L]
  /\ UNCHANGED <<m_nodes, file, m_started, now, restarts, torn, orphaned>>

\* The loop ends: every request was answered, or its time is over.  The answers
\* are parsed and the nodes that they list are added.  Without any answer the
\* lookup returns getClosestNodes () of the table as it is.
ParseResponses(t) ==
  /\ m_started
  /\ lookup[t].pc = "wait"
  /\ lookup[t].active = {} \/ now - lookup[t].start >= LookupTime
  /\ m_nodes' = addNodes(m_nodes, lookup[t].listed)
  /\ lookup' = IF lookup[t].from = {}
               THEN [lookup EXCEPT ![t] = Idle]
               ELSE [lookup EXCEPT ![t].pc = "locks", ![t].active = {}, ![t].start = 0]
  /\ UNCHANGED <<file, m_started, now, restarts, torn, orphaned>>

\* calc_locks, without the lock of the table.
CalcLocks(t) ==
  /\ lookup[t].pc = "locks"
  /\ m_nodes' = calc_locks(m_nodes, lookup[t].from)
  /\ lookup' = [lookup EXCEPT ![t].pc = "unlock"]
  /\ orphaned' = (orphaned \/ lookup[t].from \cap Known = {})
  /\ UNCHANGED <<file, m_started, now, restarts, torn>>

\* A node that an answer listed is not locked for the node that answered.
UnlockListed(t) ==
  /\ lookup[t].pc = "unlock"
  /\ m_nodes' = [n \in Known |-> IF n \in lookup[t].listed /\ locked(m_nodes[n])
                                 THEN gotResponse(m_nodes[n]) ELSE m_nodes[n]]
  /\ lookup' = [lookup EXCEPT ![t].pc = "clean"]
  /\ UNCHANGED <<file, m_started, now, restarts, torn, orphaned>>

\* Locked nodes that were not heard of for SilentTime are erased.
Silent(s) == now - s.last_seen > SilentTime /\ locked(s)

RemoveSilent(t) ==
  /\ lookup[t].pc = "clean"
  /\ m_nodes' = [n \in {m \in Known : ~Silent(m_nodes[m])} |-> m_nodes[n]]
  /\ lookup' = [lookup EXCEPT ![t].pc = "finish"]
  /\ UNCHANGED <<file, m_started, now, restarts, torn, orphaned>>

\* The listed nodes are added again; what is returned is getClosestNodes () of
\* the key in this table.
Finish(t) ==
  /\ lookup[t].pc = "finish"
  /\ m_nodes' = addNodes(m_nodes, lookup[t].listed)
  /\ lookup' = [lookup EXCEPT ![t] = Idle]
  /\ UNCHANGED <<file, m_started, now, restarts, torn, orphaned>>

\* Mutant: a lookup that waits does not look at the flag.
AbandonNever(t) == FALSE /\ lookup' = lookup /\ UNCHANGED <<m_nodes, file, m_started, now, restarts, torn, orphaned>>

\* A lookup that waits returns nothing once the worker is stopped.
Abandon(t) ==
  /\ ~m_started
  /\ lookup[t].pc = "wait"
  /\ lookup' = [lookup EXCEPT ![t] = Idle]
  /\ UNCHANGED <<m_nodes, file, m_started, now, restarts, torn, orphaned>>

Tick ==
  /\ now < MaxNow
  /\ \A t \in Lookups : lookup[t].pc \in {"idle", "wait"}
  /\ now' = now + 1
  /\ UNCHANGED <<m_nodes, file, m_started, lookup, restarts, torn, orphaned>>

-----------------------------------------------------------------------------
Init ==
  /\ m_nodes = << >>
  /\ file \in Saved
  /\ m_started = FALSE
  /\ lookup = [t \in Lookups |-> Idle]
  /\ now = 0
  /\ restarts = 0
  /\ torn = FALSE /\ orphaned = FALSE

Continue(t) ==
  \/ ParseResponses(t) \/ CalcLocks(t) \/ UnlockListed(t) \/ RemoveSilent(t)
  \/ Finish(t) \/ Abandon(t)

Next ==
  \/ Start \/ Stop \/ writeNodes \/ Crash \/ Tick
  \/ \E n \in Senders : receiveFindClosePeers(n)
  \/ \E t \in Lookups :
       \/ \E k \in Keys : Ask(t, k)
       \/ \E n \in Nodes : \E L \in PeerLists : Answer(t, n, L)
       \/ Continue(t)

\* The clock goes on, and a lookup that need not wait goes on.
Fairness == SF_now(Tick) /\ \A t \in Lookups : WF_vars(Continue(t))

Spec == Init /\ [][Next]_vars /\ Fairness

-----------------------------------------------------------------------------
(* Properties *)

LookupState ==
  [pc : {"wait", "locks", "unlock", "clean", "finish"}, key : Keys,
   start : 0 .. MaxNow, active : SUBSET Nodes, from : SUBSET Nodes,
   listed : SUBSET Nodes]
  \cup {Idle}

\* The variables have their types.
TypeOK ==
  /\ Known \subseteq Nodes
  /\ \A n \in Known : m_nodes[n] \in NodeState
  /\ file \subseteq Nodes
  /\ m_started \in BOOLEAN /\ torn \in BOOLEAN /\ orphaned \in BOOLEAN
  /\ lookup \in [Lookups -> LookupState]
  /\ now \in 0 .. MaxNow /\ restarts \in 0 .. MaxRestarts

\* A daemon that runs knows a node that it can ask, whatever its lookups drop
\* and however often it was started again, unless a crash has cut nodes.txt off
\* (a line that is cut off counts as a node and keeps the bootstrap list unused)
\* or every node that answered a lookup was dropped by another one meanwhile.
NeverIsolated ==
  m_started /\ ~torn /\ ~orphaned => Known \ {Self, Junk} # {}

\* The local destination is not in the table, nor in nodes.txt, and no lookup
\* asks it: no request is sent to the daemon itself.
SelfUnknown ==
  /\ Self \notin Known \cup file
  /\ \A t \in Lookups : lookup[t].pc = "wait" => Self \notin lookup[t].active

\* What getClosestNodes () keeps while it walks the table are the closest
\* unlocked nodes: as many as there are, up to Num, and none that is left out is
\* closer than one that is returned.
ClosestReturned ==
  m_started =>
  \A k \in Keys : \A to_us \in BOOLEAN :
    LET C == getClosestNodes(m_nodes, k, Num, to_us)
        U == {n \in getUnlockedNodes : to_us => Closer(k, n, Self)}
    IN  /\ C \subseteq U
        /\ Cardinality(C) < Num => C = U
        /\ Cardinality(C) <= Num
        /\ \A m \in C, n \in U \ C : Closer(k, m, n)

\* No lookup drops a node that answered, or that an answer listed, to a lookup
\* which has marked it, this one or another: the locks that a lookup sets on the
\* nodes that answered to others do not cost them their place in the table.
RespondersKept ==
  [][\A t \in Lookups : lookup[t].pc \in {"clean", "finish"} =>
       (lookup[t].from \cup lookup[t].listed) \cap Known \subseteq DOMAIN m_nodes']_vars

\* Every lookup ends: when all have answered, when its time is over or when the
\* worker is stopped.
LookupEnds == \A t \in Lookups : lookup[t] # Idle ~> lookup[t] = Idle
=============================================================================
