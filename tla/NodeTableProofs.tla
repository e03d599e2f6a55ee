---------------------------- MODULE NodeTableProofs ----------------------------
(***************************************************************************)
(* Theorems about NodeTable, for any nodes, metric, keys, number of        *)
(* lookups and time limits.                                                *)
(***************************************************************************)
EXTENDS NodeTable, FiniteSetTheorems, TLAPS

USE NodesAssumption

-----------------------------------------------------------------------------
(* The inductive invariant *)

\* The table and nodes.txt hold nodes, and never the local destination.
TableOK ==
  /\ m_nodes \in [Known -> NodeState]
  /\ Known \subseteq Nodes \ {Self}
  /\ file \subseteq Nodes \ {Self}

\* A lookup asks no one but other nodes, and learns of nodes that exist.
LookupOK ==
  /\ lookup \in [Lookups -> LookupState]
  /\ \A t \in Lookups : lookup[t].pc # "idle" =>
       Self \notin lookup[t].active /\ Junk \notin lookup[t].listed

FlagsOK == m_started \in BOOLEAN /\ torn \in BOOLEAN /\ orphaned \in BOOLEAN

ClockOK == now \in 0 .. MaxNow /\ restarts \in 0 .. MaxRestarts

\* Without a torn file no broken line is in the table.
JunkOK == ~torn => Junk \notin Known \cup file

\* From calc_locks () on, time stands still.  The nodes that answered were seen now;
\* of the others, those that were listed, once the lookup has unlocked them: before,
\* a node is locked unless it was seen now.
Marked(t) ==
  /\ lookup[t].pc \in {"unlock", "clean", "finish"} =>
       \A n \in lookup[t].from \cap Known : m_nodes[n].last_seen = now
  /\ lookup[t].pc = "unlock" =>
       \A n \in Known : locked(m_nodes[n]) \/ m_nodes[n].last_seen = now
  /\ lookup[t].pc \in {"clean", "finish"} =>
       \A n \in lookup[t].listed \cap Known : m_nodes[n].last_seen = now

MarkedOK == \A t \in Lookups : Marked(t)

\* Of the nodes that answered a lookup one is known.
Reached(t) ==
  lookup[t].pc \in {"unlock", "clean", "finish"} /\ ~orphaned =>
    lookup[t].from \cap Known # {}

\* A daemon that runs knows a node.
ReachOK ==
  /\ m_started /\ ~torn /\ ~orphaned => Known # {}
  /\ \A t \in Lookups : Reached(t)

Inv == TableOK /\ LookupOK /\ FlagsOK /\ ClockOK /\ JunkOK /\ MarkedOK /\ ReachOK

-----------------------------------------------------------------------------
(* Nodes and tables *)

\* The product of the timeouts and the lock time stays below its bound.
LEMMA LockBound ==
  ASSUME NEW t \in 1 .. MaxTimeouts
  PROVE  t * LockTime \in 1 .. LockTime * MaxTimeouts
<1>1. PICK d \in Nat : MaxTimeouts = t + d
  <2>1. MaxTimeouts - t \in Nat /\ MaxTimeouts = t + (MaxTimeouts - t)
    OBVIOUS
  <2> QED
    BY <2>1
<1>2. PICK e \in Nat : t = 1 + e
  <2>1. t - 1 \in Nat /\ t = 1 + (t - 1)
    OBVIOUS
  <2> QED
    BY <2>1
<1>3. d * LockTime \in Nat /\ e * LockTime \in Nat
  OBVIOUS
<1>4. LockTime * MaxTimeouts = t * LockTime + d * LockTime
  BY <1>1
<1>5. t * LockTime = LockTime + e * LockTime
  BY <1>2
<1> QED
  BY <1>3, <1>4, <1>5

\* A node that did not respond is locked, and was seen when it was seen before.
LEMMA NoResponse ==
  ASSUME NEW s \in NodeState, now \in 0 .. MaxNow
  PROVE  /\ noResponse(s) \in NodeState
         /\ noResponse(s).last_seen = s.last_seen
         /\ locked(noResponse(s))
<1> DEFINE t == IF s.timeouts < MaxTimeouts THEN s.timeouts + 1 ELSE s.timeouts
<1>1. t \in 1 .. MaxTimeouts
  BY DEF NodeState
<1>2. t * LockTime \in 1 .. LockTime * MaxTimeouts
  BY <1>1, LockBound
<1>3. noResponse(s) = [s EXCEPT !.timeouts = t, !.locked_until = now + t * LockTime]
  BY DEF noResponse
<1> HIDE DEF t
<1>4. LockTime * MaxTimeouts \in Nat
  OBVIOUS
<1> DEFINE b == t * LockTime
           c == LockTime * MaxTimeouts
<1>5. b \in 1 .. c /\ c \in Nat
  BY <1>2, <1>4
<1>6. noResponse(s) = [s EXCEPT !.timeouts = t, !.locked_until = now + b]
  BY <1>3
<1>7. NodeState = [last_seen : 0 .. MaxNow, timeouts : 0 .. MaxTimeouts,
                   locked_until : 0 .. MaxNow + c]
  BY DEF NodeState
<1> HIDE DEF b, c
<1>8. s.last_seen \in 0 .. MaxNow
  BY <1>7
<1>9. s = [last_seen |-> s.last_seen, timeouts |-> s.timeouts, locked_until |-> s.locked_until]
  BY <1>7
<1>10. noResponse(s) = [last_seen |-> s.last_seen, timeouts |-> t, locked_until |-> now + b]
  BY <1>6, <1>9
<1>11. now + b \in 0 .. MaxNow + c /\ now < now + b
  BY <1>5
<1> QED
  BY <1>1, <1>7, <1>8, <1>10, <1>11 DEF locked

\* A node that responded, and a new one, were seen now.
LEMMA GotResponse ==
  ASSUME now \in 0 .. MaxNow
  PROVE  /\ NewNode \in NodeState /\ NewNode.last_seen = now
         /\ \A s : gotResponse(s) \in NodeState /\ gotResponse(s).last_seen = now
<1>1. LockTime * MaxTimeouts \in Nat
  OBVIOUS
<1> DEFINE c == LockTime * MaxTimeouts
<1>2. NodeState = [last_seen : 0 .. MaxNow, timeouts : 0 .. MaxTimeouts,
                   locked_until : 0 .. MaxNow + c] /\ c \in Nat
  BY <1>1 DEF NodeState
<1> HIDE DEF c
<1> QED
  BY <1>2 DEF NewNode, gotResponse

\* A node may have been seen at any time.
LEMMA SeenType ==
  ASSUME NEW s \in NodeState, NEW seen \in 0 .. MaxNow
  PROVE  [s EXCEPT !.last_seen = seen] \in NodeState
<1> DEFINE U == 0 .. MaxNow + LockTime * MaxTimeouts
<1>1. NodeState = [last_seen : 0 .. MaxNow, timeouts : 0 .. MaxTimeouts, locked_until : U]
  BY DEF NodeState
<1> HIDE DEF U
<1> QED
  BY <1>1

\* addNodes () keeps the nodes that are known; the others were seen now.
LEMMA AddNodes ==
  ASSUME NEW table, table \in [DOMAIN table -> NodeState],
         NEW S, now \in 0 .. MaxNow
  PROVE  /\ DOMAIN addNodes(table, S) = DOMAIN table \cup (S \ {Self})
         /\ addNodes(table, S) \in [DOMAIN table \cup (S \ {Self}) -> NodeState]
         /\ \A n \in DOMAIN table : addNodes(table, S)[n] = table[n]
         /\ \A n \in S \ (DOMAIN table \cup {Self}) :
              addNodes(table, S)[n].last_seen = now
BY GotResponse DEF addNodes

\* What start () reads: the nodes of the file, or the bootstrap nodes.
LEMMA LoadNodes ==
  ASSUME now \in 0 .. MaxNow
  PROVE  /\ DOMAIN loadNodes = IF file # {} THEN file ELSE Bootstrap \ {Self}
         /\ loadNodes \in [DOMAIN loadNodes -> NodeState]
<1> DEFINE read == [n \in file |-> [NewNode EXCEPT !.last_seen = 0]]
           table == IF file # {} THEN read ELSE addNodes(read, Bootstrap)
<1>1. read \in [file -> NodeState]
  BY GotResponse, SeenType
<1>2. DOMAIN read = file
  OBVIOUS
<1> HIDE DEF read
<1>3. /\ DOMAIN table = IF file # {} THEN file ELSE Bootstrap \ {Self}
      /\ table \in [DOMAIN table -> NodeState]
  <2>1. /\ DOMAIN addNodes(read, Bootstrap) = file \cup (Bootstrap \ {Self})
        /\ addNodes(read, Bootstrap) \in [file \cup (Bootstrap \ {Self}) -> NodeState]
    BY <1>1, <1>2, AddNodes
  <2>2. CASE file # {}
    BY <1>1, <1>2, <2>2
  <2>3. CASE file = {}
    BY <2>1, <2>3
  <2> QED
    BY <2>2, <2>3
<1>4. loadNodes = [n \in DOMAIN table |-> noResponse([table[n] EXCEPT !.last_seen = now])]
  BY DEF loadNodes, read
<1> HIDE DEF table
<1>5. \A n \in DOMAIN table : [table[n] EXCEPT !.last_seen = now] \in NodeState
  BY <1>3, SeenType
<1>6. \A n \in DOMAIN table : noResponse([table[n] EXCEPT !.last_seen = now]) \in NodeState
  BY <1>5, NoResponse
<1> QED
  BY <1>3, <1>4, <1>6

\* calc_locks () keeps the nodes; those that responded were seen now, and all others
\* are locked.
LEMMA CalcLocksTable ==
  ASSUME NEW table, table \in [DOMAIN table -> NodeState], NEW R, now \in 0 .. MaxNow
  PROVE  /\ DOMAIN calc_locks(table, R) = DOMAIN table
         /\ calc_locks(table, R) \in [DOMAIN table -> NodeState]
         /\ \A n \in DOMAIN table \cap R : calc_locks(table, R)[n].last_seen = now
         /\ \A n \in DOMAIN table \ R :
              /\ calc_locks(table, R)[n].last_seen = table[n].last_seen
              /\ locked(calc_locks(table, R)[n])
BY NoResponse, GotResponse DEF calc_locks

-----------------------------------------------------------------------------
(* The initial states *)

LEMMA InvInit == Init => Inv
<1> SUFFICES ASSUME Init PROVE Inv
  OBVIOUS
<1>1. Known = {} /\ m_nodes \in [Known -> NodeState]
  <2>1. DOMAIN << >> = {}
    OBVIOUS
  <2> QED
    BY <2>1 DEF Init, Known
<1>2. TableOK /\ JunkOK
  BY <1>1 DEF Init, TableOK, JunkOK
<1>3. lookup \in [Lookups -> LookupState] /\ \A t \in Lookups : lookup[t].pc = "idle"
  BY DEF Init, LookupState, Idle
<1>4. LookupOK /\ MarkedOK /\ ReachOK
  BY <1>3 DEF Init, LookupOK, MarkedOK, Marked, ReachOK, Reached
<1>5. FlagsOK
  BY DEF Init, FlagsOK
<1>6. ClockOK
  BY DEF Init, ClockOK
<1> QED
  BY <1>2, <1>4, <1>5, <1>6 DEF Inv

-----------------------------------------------------------------------------
(* The steps of a lookup *)

ActiveState == [pc : {"wait", "locks", "unlock", "clean", "finish"}, key : Keys,
                start : 0 .. MaxNow, active : SUBSET Nodes, from : SUBSET Nodes,
                listed : SUBSET Nodes]

\* A lookup that is not idle has all its fields.
LEMMA ActiveLookup ==
  ASSUME LookupOK, NEW t \in Lookups, lookup[t].pc # "idle"
  PROVE  /\ lookup[t] \in ActiveState
         /\ Self \notin lookup[t].active /\ Junk \notin lookup[t].listed
BY DEF LookupOK, LookupState, ActiveState, Idle

\* The lookups stay lookups.
LEMMA LookupStep == Inv /\ [Next]_vars => LookupOK'
<1> SUFFICES ASSUME Inv, [Next]_vars PROVE LookupOK'
  OBVIOUS
<1>1. LookupOK /\ TableOK /\ ClockOK
  BY DEF Inv
<1>2. CASE UNCHANGED lookup
  BY <1>1, <1>2 DEF LookupOK
<1>3. CASE Crash
  BY <1>3 DEF Crash, LookupOK, LookupState, Idle
<1>4. ASSUME NEW t \in Lookups, lookup' = [lookup EXCEPT ![t] = Idle]
      PROVE  LookupOK'
  BY <1>1, <1>4 DEF LookupOK, LookupState, Idle
<1>5. ASSUME NEW t \in Lookups, NEW s \in ActiveState,
             Self \notin s.active, Junk \notin s.listed,
             lookup' = [lookup EXCEPT ![t] = s]
      PROVE  LookupOK'
  <2>1. s \in LookupState
    BY DEF LookupState, ActiveState
  <2> QED
    BY <1>1, <1>5, <2>1 DEF LookupOK
<1>6. ASSUME NEW t \in Lookups, NEW k \in Keys, Ask(t, k) PROVE LookupOK'
  <2> DEFINE asked == IF getUnlockedNodes # {} THEN getUnlockedNodes ELSE getAllNodes
             s == [pc |-> "wait", key |-> k, start |-> now, active |-> asked,
                   from |-> {}, listed |-> {}]
  <2>1. asked \subseteq Nodes \ {Self}
    BY <1>1 DEF TableOK, getUnlockedNodes, getAllNodes
  <2>2. lookup' = [lookup EXCEPT ![t] = s]
    BY <1>6 DEF Ask
  <2> HIDE DEF asked
  <2>3. s \in ActiveState /\ Self \notin s.active /\ Junk \notin s.listed
    BY <1>1, <2>1 DEF ActiveState, ClockOK
  <2> HIDE DEF s
  <2> QED
    BY <1>5, <2>2, <2>3
<1>7. ASSUME NEW t \in Lookups, NEW n \in Nodes, NEW L \in PeerLists, Answer(t, n, L)
      PROVE  LookupOK'
  <2>1. /\ lookup[t] \in ActiveState
        /\ Self \notin lookup[t].active /\ Junk \notin lookup[t].listed
    BY <1>1, <1>7, ActiveLookup DEF Answer
  <2> DEFINE s == [lookup[t] EXCEPT !.active = @ \ {n}, !.from = @ \cup {n}, !.listed = @ \cup L]
  <2>2. lookup' = [lookup EXCEPT ![t] = s]
    BY <1>1, <1>7, <2>1 DEF Answer, LookupOK, ActiveState
  <2>3. s \in ActiveState /\ Self \notin s.active /\ Junk \notin s.listed
    BY <2>1 DEF ActiveState
  <2> HIDE DEF s
  <2> QED
    BY <1>5, <2>2, <2>3
<1>8. ASSUME NEW t \in Lookups, Continue(t) PROVE LookupOK'
  <2>1. CASE lookup' = [lookup EXCEPT ![t] = Idle]
    BY <1>4, <2>1
  <2>2. ASSUME NEW pc \in {"locks", "unlock", "clean", "finish"},
               lookup' = [lookup EXCEPT ![t].pc = pc], lookup[t].pc # "idle"
        PROVE  LookupOK'
    <3> DEFINE s == [lookup[t] EXCEPT !.pc = pc]
    <3>1. s \in ActiveState /\ Self \notin s.active /\ Junk \notin s.listed
      BY <1>1, <2>2, ActiveLookup DEF ActiveState
    <3>2. lookup' = [lookup EXCEPT ![t] = s]
      BY <1>1, <2>2 DEF LookupOK
    <3> HIDE DEF s
    <3> QED
      BY <1>5, <3>1, <3>2
  <2>3. CASE ParseResponses(t) /\ lookup' # [lookup EXCEPT ![t] = Idle]
    <3> DEFINE s == [lookup[t] EXCEPT !.pc = "locks", !.active = {}, !.start = 0]
    <3>1. lookup[t] \in ActiveState /\ Junk \notin lookup[t].listed
      BY <1>1, <2>3, ActiveLookup DEF ParseResponses
    <3>2. lookup' = [lookup EXCEPT ![t] = s]
      BY <1>1, <2>3, <3>1 DEF ParseResponses, LookupOK, ActiveState
    <3>3. 0 \in 0 .. MaxNow
      BY <1>1 DEF ClockOK
    <3>4. s \in ActiveState /\ Self \notin s.active /\ Junk \notin s.listed
      BY <3>1, <3>3 DEF ActiveState
    <3> HIDE DEF s
    <3> QED
      BY <1>5, <3>2, <3>4
  <2>4. CASE CalcLocks(t)
    BY <2>2, <2>4 DEF CalcLocks
  <2>5. CASE UnlockListed(t)
    BY <2>2, <2>5 DEF UnlockListed
  <2>6. CASE RemoveSilent(t)
    BY <2>2, <2>6 DEF RemoveSilent
  <2>7. CASE Finish(t) \/ Abandon(t)
    BY <2>1, <2>7 DEF Finish, Abandon
  <2> QED
    BY <1>8, <2>1, <2>3, <2>4, <2>5, <2>6, <2>7 DEF Continue
<1>9. CASE Start \/ Stop \/ writeNodes \/ Tick \/ \E n \in Senders : receiveFindClosePeers(n)
  <2>1. UNCHANGED lookup
    BY <1>9 DEF Start, Stop, writeNodes, Tick, receiveFindClosePeers
  <2> QED
    BY <1>2, <2>1
<1>10. CASE UNCHANGED vars
  BY <1>2, <1>10 DEF vars
<1> QED
  BY <1>3, <1>6, <1>7, <1>8, <1>9, <1>10 DEF Next

\* The flags stay Boolean.
LEMMA FlagsStep == FlagsOK /\ [Next]_vars => FlagsOK'
<1> SUFFICES ASSUME FlagsOK, [Next]_vars PROVE FlagsOK'
  OBVIOUS
<1> USE DEF FlagsOK
<1>1. CASE Start
  BY <1>1 DEF Start
<1>2. CASE Stop
  BY <1>2 DEF Stop
<1>3. CASE Crash
  BY <1>3 DEF Crash
<1>4. ASSUME NEW t \in Lookups, CalcLocks(t) PROVE FlagsOK'
  BY <1>4 DEF CalcLocks
<1>5. CASE UNCHANGED <<m_started, torn, orphaned>>
  BY <1>5
<1>6. CASE writeNodes \/ Tick \/ \E n \in Senders : receiveFindClosePeers(n)
  BY <1>5, <1>6 DEF writeNodes, Tick, receiveFindClosePeers
<1>7. ASSUME NEW t \in Lookups, NEW k \in Keys, Ask(t, k) PROVE FlagsOK'
  BY <1>5, <1>7 DEF Ask
<1>8. ASSUME NEW t \in Lookups, NEW n \in Nodes, NEW L \in PeerLists, Answer(t, n, L)
      PROVE  FlagsOK'
  BY <1>5, <1>8 DEF Answer
<1>9. ASSUME NEW t \in Lookups, Continue(t), ~CalcLocks(t) PROVE FlagsOK'
  BY <1>5, <1>9 DEF Continue, ParseResponses, UnlockListed, RemoveSilent, Finish, Abandon
<1>10. CASE UNCHANGED vars
  BY <1>5, <1>10 DEF vars
<1> QED
  BY <1>1, <1>2, <1>3, <1>4, <1>6, <1>7, <1>8, <1>9, <1>10 DEF Next

\* The clock and the count of the starts stay within their bounds.
LEMMA ClockStep == ClockOK /\ [Next]_vars => ClockOK'
<1> SUFFICES ASSUME ClockOK, [Next]_vars PROVE ClockOK'
  OBVIOUS
<1> USE DEF ClockOK
<1>1. CASE Start
  BY <1>1 DEF Start
<1>2. CASE Tick
  BY <1>2 DEF Tick
<1>3. CASE UNCHANGED <<now, restarts>>
  BY <1>3
<1>4. CASE Stop \/ writeNodes \/ Crash \/ \E n \in Senders : receiveFindClosePeers(n)
  BY <1>3, <1>4 DEF Stop, writeNodes, Crash, receiveFindClosePeers
<1>5. ASSUME NEW t \in Lookups, NEW k \in Keys, Ask(t, k) PROVE ClockOK'
  BY <1>3, <1>5 DEF Ask
<1>6. ASSUME NEW t \in Lookups, NEW n \in Nodes, NEW L \in PeerLists, Answer(t, n, L)
      PROVE  ClockOK'
  BY <1>3, <1>6 DEF Answer
<1>7. ASSUME NEW t \in Lookups, Continue(t) PROVE ClockOK'
  <2>1. UNCHANGED <<now, restarts>>
    BY <1>7 DEF Continue, ParseResponses, CalcLocks, UnlockListed, RemoveSilent, Finish, Abandon
  <2> QED
    BY <1>3, <2>1
<1>8. CASE UNCHANGED vars
  BY <1>3, <1>8 DEF vars
<1> QED
  BY <1>1, <1>2, <1>4, <1>5, <1>6, <1>7, <1>8 DEF Next

-----------------------------------------------------------------------------
(* The steps of the table *)

\* A step other than a start or a tick of the clock: a node that was seen now stays
\* in the table, and a node of the next table was seen now, or it is the node of
\* this table and no step has unlocked it.
TableKept ==
  /\ now' = now
  /\ \A n \in Known \ Known' : m_nodes[n].last_seen # now
  /\ \A n \in Known' :
       \/ m_nodes'[n].last_seen = now
       \/ /\ n \in Known
          /\ m_nodes'[n].last_seen = m_nodes[n].last_seen
          /\ locked(m_nodes[n]) => locked(m_nodes'[n])

\* What a step of the table adds are the nodes of S.
Grows(S) ==
  /\ m_nodes' \in [Known' -> NodeState]
  /\ Known' \subseteq Known \cup (S \ {Self})

\* Adding nodes.
LEMMA AddNodesStep ==
  ASSUME Inv, NEW S, m_nodes' = addNodes(m_nodes, S), now' = now
  PROVE  TableKept /\ Grows(S) /\ Known \subseteq Known'
<1>1. m_nodes \in [DOMAIN m_nodes -> NodeState] /\ now \in 0 .. MaxNow
  BY DEF Inv, TableOK, ClockOK, Known
<1>2. /\ DOMAIN m_nodes' = DOMAIN m_nodes \cup (S \ {Self})
      /\ m_nodes' \in [DOMAIN m_nodes \cup (S \ {Self}) -> NodeState]
      /\ \A n \in DOMAIN m_nodes : m_nodes'[n] = m_nodes[n]
      /\ \A n \in S \ (DOMAIN m_nodes \cup {Self}) : m_nodes'[n].last_seen = now
  BY <1>1, GotResponse DEF addNodes
<1> QED
  BY <1>2 DEF TableKept, Grows, Known

\* Setting the locks.
LEMMA CalcLocksStep ==
  ASSUME Inv, NEW t \in Lookups, CalcLocks(t)
  PROVE  /\ TableKept /\ Grows({}) /\ Known' = Known
         /\ \A n \in Known \cap lookup[t].from : m_nodes'[n].last_seen = now
         /\ \A n \in Known : m_nodes'[n].last_seen = now \/ locked(m_nodes'[n])
<1>1. m_nodes \in [DOMAIN m_nodes -> NodeState] /\ now \in 0 .. MaxNow
  BY DEF Inv, TableOK, ClockOK, Known
<1>2. m_nodes' = calc_locks(m_nodes, lookup[t].from) /\ now' = now
  BY DEF CalcLocks
<1> DEFINE R == lookup[t].from
<1>3. /\ DOMAIN m_nodes' = DOMAIN m_nodes
      /\ m_nodes' \in [DOMAIN m_nodes -> NodeState]
      /\ \A n \in DOMAIN m_nodes \cap R : m_nodes'[n].last_seen = now
      /\ \A n \in DOMAIN m_nodes \ R : /\ m_nodes'[n].last_seen = m_nodes[n].last_seen
                                      /\ locked(m_nodes'[n])
  BY <1>1, <1>2, CalcLocksTable
<1> HIDE DEF R
<1>4. /\ \A n \in Known \cap R : m_nodes'[n].last_seen = now
      /\ \A n \in Known : m_nodes'[n].last_seen = now \/ locked(m_nodes'[n])
  BY <1>3 DEF Known
<1>5. TableKept /\ Grows({}) /\ Known' = Known
  BY <1>2, <1>3 DEF TableKept, Grows, Known
<1> QED
  BY <1>4, <1>5 DEF R

\* Unlocking the nodes that the answers list.
LEMMA UnlockStep ==
  ASSUME Inv, NEW t \in Lookups, UnlockListed(t)
  PROVE  /\ TableKept /\ Grows({}) /\ Known' = Known
         /\ \A n \in Known \cap lookup[t].listed :
              m_nodes'[n].last_seen = now \/ (~locked(m_nodes[n]) /\ m_nodes'[n] = m_nodes[n])
<1>1. m_nodes \in [Known -> NodeState] /\ now \in 0 .. MaxNow
  BY DEF Inv, TableOK, ClockOK
<1>2. /\ m_nodes' = [n \in Known |-> IF n \in lookup[t].listed /\ locked(m_nodes[n])
                                    THEN gotResponse(m_nodes[n]) ELSE m_nodes[n]]
      /\ now' = now
  BY DEF UnlockListed
<1>3. /\ Known' = Known
      /\ \A n \in Known : m_nodes'[n] = IF n \in lookup[t].listed /\ locked(m_nodes[n])
                                       THEN gotResponse(m_nodes[n]) ELSE m_nodes[n]
  BY <1>2 DEF Known
<1>4. \A n \in Known : m_nodes'[n] \in NodeState
  BY <1>1, <1>3, GotResponse
<1>5. Grows({})
  BY <1>2, <1>3, <1>4 DEF Grows
<1>6. \A n \in Known : m_nodes'[n].last_seen = now \/ m_nodes'[n] = m_nodes[n]
  BY <1>1, <1>3, GotResponse
<1>7. TableKept
  BY <1>2, <1>3, <1>6 DEF TableKept
<1>8. \A n \in Known \cap lookup[t].listed :
              m_nodes'[n].last_seen = now \/ (~locked(m_nodes[n]) /\ m_nodes'[n] = m_nodes[n])
  BY <1>1, <1>3, GotResponse
<1> QED
  BY <1>3, <1>5, <1>7, <1>8

\* Dropping the nodes that are silent.
LEMMA RemoveStep ==
  ASSUME Inv, NEW t \in Lookups, RemoveSilent(t)
  PROVE  TableKept /\ Grows({})
<1>1. m_nodes \in [Known -> NodeState] /\ now \in 0 .. MaxNow
  BY DEF Inv, TableOK, ClockOK
<1>2. m_nodes' = [n \in {m \in Known : ~Silent(m_nodes[m])} |-> m_nodes[n]] /\ now' = now
  BY DEF RemoveSilent
<1>3. /\ Known' = {m \in Known : ~Silent(m_nodes[m])}
      /\ \A n \in Known' : m_nodes'[n] = m_nodes[n]
  BY <1>2 DEF Known
<1>4. \A n \in Known : Silent(m_nodes[n]) => m_nodes[n].last_seen # now
  BY <1>1 DEF Silent, NodeState
<1>5. TableKept
  BY <1>2, <1>3, <1>4 DEF TableKept
<1>6. m_nodes' \in [Known' -> NodeState]
  BY <1>1, <1>2, <1>3
<1> QED
  BY <1>3, <1>5, <1>6 DEF Grows

\* Every step of a lookup keeps the table; what it adds are the listed nodes.
LEMMA ContinueStep ==
  ASSUME Inv, NEW t \in Lookups, Continue(t)
  PROVE  TableKept /\ (\E S \in SUBSET (Nodes \ {Junk}) : Grows(S))
<1>1. {} \in SUBSET (Nodes \ {Junk})
  OBVIOUS
<1>2. CASE CalcLocks(t) \/ UnlockListed(t) \/ RemoveSilent(t)
  BY <1>1, <1>2, CalcLocksStep, UnlockStep, RemoveStep
<1>3. CASE ParseResponses(t) \/ Finish(t)
  <2>1. m_nodes' = addNodes(m_nodes, lookup[t].listed) /\ now' = now /\ lookup[t].pc # "idle"
    BY <1>3 DEF ParseResponses, Finish
  <2>2. lookup[t].listed \in SUBSET (Nodes \ {Junk})
    BY <2>1, ActiveLookup DEF ActiveState, Inv
  <2> QED
    BY <2>1, <2>2, AddNodesStep
<1>4. CASE Abandon(t)
  BY <1>4 DEF Abandon, TableKept, Grows, Known, Inv, TableOK
<1> QED
  BY <1>2, <1>3, <1>4 DEF Continue

-----------------------------------------------------------------------------
(* The parts of the invariant that speak of the table *)

\* The table and nodes.txt keep their types.
LEMMA TableStep == Inv /\ [Next]_vars => TableOK'
<1> SUFFICES ASSUME Inv, [Next]_vars PROVE TableOK'
  OBVIOUS
<1>1. TableOK /\ now \in 0 .. MaxNow
  BY DEF Inv, ClockOK
<1>2. ASSUME NEW S \in SUBSET Nodes, Grows(S), UNCHANGED file PROVE TableOK'
  BY <1>1, <1>2 DEF Grows, TableOK
<1>3. ASSUME UNCHANGED m_nodes, file' \subseteq Nodes \ {Self} PROVE TableOK'
  BY <1>1, <1>3 DEF TableOK, Known
<1>4. CASE Start
  <2>1. file' = file /\ file \subseteq Nodes \ {Self}
    BY <1>1, <1>4 DEF Start, TableOK
  <2>2. m_nodes' \in [DOMAIN m_nodes' -> NodeState] /\ DOMAIN m_nodes' \subseteq Nodes \ {Self}
    BY <1>1, <1>4, <2>1, LoadNodes DEF Start
  <2> QED
    BY <2>1, <2>2 DEF TableOK, Known
<1>5. CASE Stop \/ Tick
  BY <1>1, <1>3, <1>5 DEF Stop, Tick, TableOK
<1>6. CASE writeNodes
  BY <1>1, <1>3, <1>6 DEF writeNodes, TableOK
<1>7. CASE Crash
  <2>1. UNCHANGED m_nodes
    BY <1>7 DEF Crash
  <2>2. file' \subseteq Nodes \ {Self}
    BY <1>1, <1>7 DEF Crash, TableOK
  <2> QED
    BY <1>3, <2>1, <2>2
<1>8. ASSUME NEW n \in Senders, receiveFindClosePeers(n) PROVE TableOK'
  BY <1>2, <1>8, AddNodesStep DEF receiveFindClosePeers
<1>9. ASSUME NEW t \in Lookups, NEW k \in Keys, Ask(t, k) PROVE TableOK'
  BY <1>1, <1>3, <1>9 DEF Ask, TableOK
<1>10. ASSUME NEW t \in Lookups, NEW n \in Nodes, NEW L \in PeerLists, Answer(t, n, L)
       PROVE  TableOK'
  BY <1>1, <1>3, <1>10 DEF Answer, TableOK
<1>11. ASSUME NEW t \in Lookups, Continue(t) PROVE TableOK'
  <2>1. UNCHANGED file
    BY <1>11 DEF Continue, ParseResponses, CalcLocks, UnlockListed, RemoveSilent, Finish, Abandon
  <2> QED
    BY <1>2, <1>11, <2>1, ContinueStep
<1>12. CASE UNCHANGED vars
  BY <1>1, <1>3, <1>12 DEF vars, TableOK
<1> QED
  BY <1>4, <1>5, <1>6, <1>7, <1>8, <1>9, <1>10, <1>11, <1>12 DEF Next

\* Only a torn file brings a broken line into the table.
LEMMA JunkStep == Inv /\ [Next]_vars => JunkOK'
<1> SUFFICES ASSUME Inv, [Next]_vars, ~torn' PROVE Junk \notin Known' \cup file'
  BY DEF JunkOK
<1>1. JunkOK /\ FlagsOK /\ now \in 0 .. MaxNow
  BY DEF Inv, ClockOK
<1>2. ASSUME NEW S \in SUBSET (Nodes \ {Junk}), Grows(S), UNCHANGED <<file, torn>>
      PROVE  Junk \notin Known' \cup file'
  BY <1>1, <1>2 DEF Grows, JunkOK
<1>3. ASSUME UNCHANGED <<m_nodes, torn>>, file' = file \/ file' = Known
      PROVE  Junk \notin Known' \cup file'
  BY <1>1, <1>3 DEF JunkOK, Known
<1>4. CASE Start
  <2>1. file' = file /\ torn' = torn /\ Junk \notin file
    BY <1>1, <1>4 DEF Start, JunkOK
  <2>2. Junk \notin DOMAIN m_nodes'
    BY <1>1, <1>4, <2>1, LoadNodes DEF Start
  <2> QED
    BY <2>1, <2>2 DEF Known
<1>5. CASE Stop \/ Tick
  BY <1>3, <1>5 DEF Stop, Tick
<1>6. CASE writeNodes
  BY <1>3, <1>6 DEF writeNodes
<1>7. CASE Crash
  <2>1. UNCHANGED <<m_nodes, file, torn>>
    BY <1>7 DEF Crash
  <2> QED
    BY <1>3, <2>1
<1>8. ASSUME NEW n \in Senders, receiveFindClosePeers(n)
      PROVE  Junk \notin Known' \cup file'
  BY <1>2, <1>8, AddNodesStep DEF receiveFindClosePeers
<1>9. ASSUME NEW t \in Lookups, NEW k \in Keys, Ask(t, k)
      PROVE  Junk \notin Known' \cup file'
  BY <1>3, <1>9 DEF Ask
<1>10. ASSUME NEW t \in Lookups, NEW n \in Nodes, NEW L \in PeerLists, Answer(t, n, L)
       PROVE  Junk \notin Known' \cup file'
  BY <1>3, <1>10 DEF Answer
<1>11. ASSUME NEW t \in Lookups, Continue(t) PROVE Junk \notin Known' \cup file'
  <2>1. UNCHANGED <<file, torn>>
    BY <1>11 DEF Continue, ParseResponses, CalcLocks, UnlockListed, RemoveSilent, Finish, Abandon
  <2> QED
    BY <1>2, <1>11, <2>1, ContinueStep
<1>12. CASE UNCHANGED vars
  BY <1>3, <1>12 DEF vars
<1> QED
  BY <1>4, <1>5, <1>6, <1>7, <1>8, <1>9, <1>10, <1>11, <1>12 DEF Next

-----------------------------------------------------------------------------
(* The nodes that answered *)

\* A step of one lookup leaves the others alone.
LEMMA OtherLookups ==
  ASSUME Inv, NEW t \in Lookups,
         \/ \E k \in Keys : Ask(t, k)
         \/ \E n \in Nodes : \E L \in PeerLists : Answer(t, n, L)
         \/ Continue(t)
  PROVE  \A u \in Lookups \ {t} : lookup'[u] = lookup[u]
<1>1. lookup \in [Lookups -> LookupState]
  BY DEF Inv, LookupOK
<1>2. ASSUME NEW k \in Keys, Ask(t, k) PROVE \A u \in Lookups \ {t} : lookup'[u] = lookup[u]
  BY <1>1, <1>2 DEF Ask
<1>3. ASSUME NEW n \in Nodes, NEW L \in PeerLists, Answer(t, n, L)
      PROVE  \A u \in Lookups \ {t} : lookup'[u] = lookup[u]
  BY <1>1, <1>3 DEF Answer
<1>4. CASE ParseResponses(t)
  BY <1>1, <1>4 DEF ParseResponses
<1>5. CASE CalcLocks(t)
  BY <1>1, <1>5 DEF CalcLocks
<1>6. CASE UnlockListed(t)
  BY <1>1, <1>6 DEF UnlockListed
<1>7. CASE RemoveSilent(t)
  BY <1>1, <1>7 DEF RemoveSilent
<1>8. CASE Finish(t) \/ Abandon(t)
  BY <1>1, <1>8 DEF Finish, Abandon
<1> QED
  BY <1>2, <1>3, <1>4, <1>5, <1>6, <1>7, <1>8 DEF Continue

\* A step that keeps the table keeps the marks of a lookup that does not step.
LEMMA MarkedKept ==
  ASSUME MarkedOK, TableKept, NEW u \in Lookups, lookup'[u] = lookup[u]
  PROVE  Marked(u)'
<1>1. now' = now /\ \A n \in Known' : m_nodes'[n].last_seen = now
                      \/ /\ n \in Known
                         /\ m_nodes'[n].last_seen = m_nodes[n].last_seen
                         /\ locked(m_nodes[n]) => locked(m_nodes'[n])
  BY DEF TableKept
<1>2. \A n : locked(m_nodes[n])' <=> locked(m_nodes'[n])
  BY <1>1 DEF locked
<1>3. Marked(u)
  BY DEF MarkedOK
<1> QED
  BY <1>1, <1>2, <1>3 DEF Marked

\* A lookup that has not set the locks has marked nothing.
LEMMA NotMarked ==
  ASSUME NEW u \in Lookups, lookup'[u].pc \in {"idle", "wait", "locks"}
  PROVE  Marked(u)' /\ Reached(u)'
BY DEF Marked, Reached

\* Where a step takes the lookup that makes it.
LEMMA OwnLookup ==
  ASSUME Inv, NEW t \in Lookups
  PROVE  /\ \A k \in Keys : Ask(t, k) => lookup'[t].pc = "wait"
         /\ \A n \in Nodes : \A L \in PeerLists : Answer(t, n, L) => lookup'[t].pc = "wait"
         /\ ParseResponses(t) => lookup'[t].pc \in {"idle", "locks"}
         /\ CalcLocks(t) => lookup'[t].pc = "unlock"
         /\ UnlockListed(t) => lookup'[t].pc = "clean"
         /\ RemoveSilent(t) => lookup'[t].pc = "finish"
         /\ Finish(t) \/ Abandon(t) => lookup'[t].pc = "idle"
         /\ CalcLocks(t) \/ UnlockListed(t) \/ RemoveSilent(t) =>
              lookup'[t].from = lookup[t].from /\ lookup'[t].listed = lookup[t].listed
<1>1. lookup \in [Lookups -> LookupState]
  BY DEF Inv, LookupOK
<1>2. \A k \in Keys : Ask(t, k) => lookup'[t].pc = "wait"
  BY <1>1 DEF Ask
<1>3. lookup[t].pc # "idle" => lookup[t] \in ActiveState
  BY ActiveLookup DEF Inv
<1>4. \A n \in Nodes : \A L \in PeerLists : Answer(t, n, L) => lookup'[t].pc = "wait"
  BY <1>1, <1>3 DEF Answer, ActiveState
<1>5. ParseResponses(t) => lookup'[t].pc \in {"idle", "locks"}
  BY <1>1, <1>3 DEF ParseResponses, ActiveState, Idle
<1>6. Finish(t) \/ Abandon(t) => lookup'[t].pc = "idle"
  BY <1>1 DEF Finish, Abandon, Idle
<1>7. CalcLocks(t) => lookup'[t] = [lookup[t] EXCEPT !.pc = "unlock"] /\ lookup[t] \in ActiveState
  BY <1>1, <1>3 DEF CalcLocks
<1>8. UnlockListed(t) => lookup'[t] = [lookup[t] EXCEPT !.pc = "clean"] /\ lookup[t] \in ActiveState
  BY <1>1, <1>3 DEF UnlockListed
<1>9. RemoveSilent(t) => lookup'[t] = [lookup[t] EXCEPT !.pc = "finish"] /\ lookup[t] \in ActiveState
  BY <1>1, <1>3 DEF RemoveSilent
<1> QED
  BY <1>2, <1>4, <1>5, <1>6, <1>7, <1>8, <1>9 DEF ActiveState

\* The nodes that answered a lookup, and the nodes that it unlocked, were seen now.
LEMMA MarkedStep == Inv /\ [Next]_vars => MarkedOK'
<1> SUFFICES ASSUME Inv, [Next]_vars, NEW u \in Lookups PROVE Marked(u)'
  BY DEF MarkedOK
<1>1. MarkedOK /\ Marked(u)
  BY DEF Inv, MarkedOK
<1>2. CASE Start \/ Tick \/ Crash
  <2>1. lookup'[u].pc \in {"idle", "wait"}
    BY <1>2 DEF Start, Tick, Crash, Idle
  <2> QED
    BY <2>1, NotMarked
<1>3. CASE Stop \/ writeNodes \/ UNCHANGED vars
  <2>1. UNCHANGED <<m_nodes, lookup, now>>
    BY <1>3 DEF Stop, writeNodes, vars
  <2>2. TableKept
    BY <2>1 DEF TableKept, Known
  <2> QED
    BY <1>1, <2>1, <2>2, MarkedKept
<1>4. ASSUME NEW n \in Senders, receiveFindClosePeers(n) PROVE Marked(u)'
  BY <1>1, <1>4, AddNodesStep, MarkedKept DEF receiveFindClosePeers
<1>5. ASSUME NEW t \in Lookups,
             \/ \E k \in Keys : Ask(t, k)
             \/ \E n \in Nodes : \E L \in PeerLists : Answer(t, n, L)
      PROVE  Marked(u)'
  <2>1. UNCHANGED <<m_nodes, now>>
    BY <1>5 DEF Ask, Answer
  <2>2. TableKept
    BY <2>1 DEF TableKept, Known
  <2>3. CASE u = t
    BY <1>5, <2>3, OwnLookup, NotMarked
  <2>4. CASE u # t
    BY <1>1, <1>5, <2>2, <2>4, OtherLookups, MarkedKept
  <2> QED
    BY <2>3, <2>4
<1>6. ASSUME NEW t \in Lookups, Continue(t), u # t PROVE Marked(u)'
  BY <1>1, <1>6, ContinueStep, OtherLookups, MarkedKept
<1>7. ASSUME Continue(u) PROVE Marked(u)'
  <2>1. CASE ParseResponses(u) \/ Finish(u) \/ Abandon(u)
    BY <2>1, OwnLookup, NotMarked
  <2>2. CASE CalcLocks(u)
    <3>1. /\ lookup'[u].pc = "unlock" /\ lookup'[u].from = lookup[u].from
          /\ Known' = Known /\ now' = now
          /\ \A n \in Known \cap lookup[u].from : m_nodes'[n].last_seen = now
          /\ \A n \in Known : m_nodes'[n].last_seen = now \/ locked(m_nodes'[n])
      BY <2>2, OwnLookup, CalcLocksStep DEF TableKept
    <3>2. \A n : locked(m_nodes[n])' <=> locked(m_nodes'[n])
      BY <3>1 DEF locked
    <3> QED
      BY <3>1, <3>2 DEF Marked
  <2>3. CASE UnlockListed(u)
    <3>1. /\ lookup'[u].pc = "clean" /\ lookup'[u].from = lookup[u].from
          /\ lookup'[u].listed = lookup[u].listed /\ lookup[u].pc = "unlock"
      BY <2>3, OwnLookup DEF UnlockListed
    <3>2. /\ TableKept /\ Known' = Known /\ now' = now
          /\ \A n \in Known \cap lookup[u].listed :
               m_nodes'[n].last_seen = now \/ (~locked(m_nodes[n]) /\ m_nodes'[n] = m_nodes[n])
      BY <2>3, UnlockStep DEF TableKept
    <3>3. \A n \in lookup[u].listed \cap Known : m_nodes'[n].last_seen = now
      BY <1>1, <3>1, <3>2 DEF Marked
    <3>4. \A n \in lookup[u].from \cap Known : m_nodes'[n].last_seen = now
      BY <1>1, <3>1, <3>2 DEF Marked, TableKept
    <3> QED
      BY <3>1, <3>2, <3>3, <3>4 DEF Marked
  <2>4. CASE RemoveSilent(u)
    <3>1. /\ lookup'[u].pc = "finish" /\ lookup'[u].from = lookup[u].from
          /\ lookup'[u].listed = lookup[u].listed /\ lookup[u].pc = "clean"
      BY <2>4, OwnLookup DEF RemoveSilent
    <3>2. TableKept
      BY <2>4, RemoveStep
    <3> QED
      BY <1>1, <3>1, <3>2 DEF Marked, TableKept
  <2> QED
    BY <1>7, <2>1, <2>2, <2>3, <2>4 DEF Continue
<1> QED
  BY <1>2, <1>3, <1>4, <1>5, <1>6, <1>7 DEF Next

\* A step that keeps the table keeps a node that answered a lookup that does not step.
LEMMA ReachedKept ==
  ASSUME Inv, TableKept, NEW u \in Lookups, orphaned' = orphaned,
         lookup'[u].pc \in {"unlock", "clean", "finish"} =>
           /\ lookup[u].pc \in {"unlock", "clean", "finish"}
           /\ lookup'[u].from = lookup[u].from
  PROVE  Reached(u)'
<1> SUFFICES ASSUME lookup'[u].pc \in {"unlock", "clean", "finish"}, ~orphaned'
             PROVE  lookup'[u].from \cap Known' # {}
  BY DEF Reached
<1>1. Reached(u) /\ Marked(u)
  BY DEF Inv, ReachOK, MarkedOK
<1>2. PICK n \in lookup[u].from \cap Known : TRUE
  BY <1>1 DEF Reached
<1>3. m_nodes[n].last_seen = now
  BY <1>1, <1>2 DEF Marked
<1>4. n \in Known'
  BY <1>2, <1>3 DEF TableKept
<1> QED
  BY <1>2, <1>4

\* A daemon that runs knows a node, and every lookup one of the nodes that answered.
LEMMA ReachStep == Inv /\ [Next]_vars => ReachOK'
<1> SUFFICES ASSUME Inv, [Next]_vars PROVE ReachOK'
  OBVIOUS
<1>1. ReachOK /\ FlagsOK /\ now \in 0 .. MaxNow
  BY DEF Inv, ClockOK
<1>2. CASE Start
  <2>1. \A u \in Lookups : lookup'[u].pc = "idle"
    BY <1>2 DEF Start, Idle
  <2>2. DOMAIN m_nodes' # {}
    BY <1>1, <1>2, LoadNodes DEF Start
  <2> QED
    BY <2>1, <2>2, NotMarked DEF ReachOK, Known
<1>3. CASE Crash
  <2>1. \A u \in Lookups : lookup'[u].pc = "idle"
    BY <1>3 DEF Crash, Idle
  <2>2. ~m_started'
    BY <1>3 DEF Crash
  <2> QED
    BY <2>1, <2>2, NotMarked DEF ReachOK
<1>4. CASE Tick \/ writeNodes \/ Stop \/ UNCHANGED vars
  <2>1. UNCHANGED <<m_nodes, lookup, orphaned, torn>> /\ (m_started' => m_started)
    BY <1>4 DEF Tick, writeNodes, Stop, vars
  <2> QED
    BY <1>1, <2>1 DEF ReachOK, Reached, Known
<1>5. ASSUME NEW n \in Senders, receiveFindClosePeers(n) PROVE ReachOK'
  <2>1. UNCHANGED <<m_started, lookup, orphaned, torn>> /\ Known \subseteq Known'
    BY <1>5, AddNodesStep DEF receiveFindClosePeers
  <2> QED
    BY <1>1, <2>1 DEF ReachOK, Reached
<1>6. ASSUME NEW t \in Lookups,
             \/ \E k \in Keys : Ask(t, k)
             \/ \E n \in Nodes : \E L \in PeerLists : Answer(t, n, L)
      PROVE  ReachOK'
  <2>1. UNCHANGED <<m_nodes, m_started, orphaned, torn>>
    BY <1>6 DEF Ask, Answer
  <2>2. lookup'[t].pc = "wait"
    BY <1>6, OwnLookup
  <2>3. \A u \in Lookups \ {t} : lookup'[u] = lookup[u]
    BY <1>6, OtherLookups
  <2> QED
    BY <1>1, <2>1, <2>2, <2>3 DEF ReachOK, Reached, Known
<1>7. ASSUME NEW t \in Lookups, Continue(t) PROVE ReachOK'
  <2>1. TableKept
    BY <1>7, ContinueStep
  <2>2. \A u \in Lookups \ {t} : lookup'[u] = lookup[u]
    BY <1>7, OtherLookups
  <2>3. UNCHANGED <<m_started, torn>>
    BY <1>7 DEF Continue, ParseResponses, CalcLocks, UnlockListed, RemoveSilent, Finish, Abandon
  <2>4. CASE CalcLocks(t)
    <3>1. /\ Known' = Known /\ orphaned' = (orphaned \/ lookup[t].from \cap Known = {})
          /\ lookup'[t].from = lookup[t].from
      BY <2>4, CalcLocksStep, OwnLookup DEF CalcLocks
    <3>2. \A u \in Lookups \ {t} : Reached(u)'
      BY <1>1, <2>2, <3>1 DEF ReachOK, Reached
    <3>3. Reached(t)'
      BY <3>1 DEF Reached
    <3>4. m_started' /\ ~torn' /\ ~orphaned' => Known' # {}
      BY <1>1, <2>3, <3>1 DEF ReachOK
    <3> QED
      BY <3>2, <3>3, <3>4 DEF ReachOK
  <2>5. CASE RemoveSilent(t)
    <3>1. /\ lookup[t].pc = "clean" /\ lookup'[t].from = lookup[t].from
          /\ lookup'[t].pc = "finish" /\ orphaned' = orphaned
      BY <2>5, OwnLookup DEF RemoveSilent
    <3>2. \A u \in Lookups : Reached(u)'
      BY <2>1, <2>2, <3>1, ReachedKept
    <3>3. ~orphaned' => Known' # {}
      BY <3>1, <3>2 DEF Reached
    <3> QED
      BY <3>2, <3>3 DEF ReachOK
  <2>6. CASE UnlockListed(t)
    <3>1. /\ lookup[t].pc = "unlock" /\ lookup'[t].from = lookup[t].from
          /\ Known' = Known /\ orphaned' = orphaned
      BY <2>6, OwnLookup, UnlockStep DEF UnlockListed
    <3>2. \A u \in Lookups : Reached(u)'
      BY <2>1, <2>2, <3>1, ReachedKept
    <3> QED
      BY <1>1, <2>3, <3>1, <3>2 DEF ReachOK
  <2>7. CASE ParseResponses(t) \/ Finish(t) \/ Abandon(t)
    <3>1. lookup'[t].pc \in {"idle", "locks"} /\ orphaned' = orphaned
      BY <2>7, OwnLookup DEF ParseResponses, Finish, Abandon
    <3>2. Known \subseteq Known'
      <4>1. CASE Abandon(t)
        BY <4>1 DEF Abandon, Known
      <4>2. CASE ParseResponses(t) \/ Finish(t)
        BY <4>2, AddNodesStep DEF ParseResponses, Finish
      <4> QED
        BY <2>7, <4>1, <4>2
    <3>3. \A u \in Lookups \ {t} : Reached(u)'
      BY <2>1, <2>2, <3>1, ReachedKept
    <3> QED
      BY <1>1, <2>3, <3>1, <3>2, <3>3, NotMarked DEF ReachOK
  <2> QED
    BY <1>7, <2>4, <2>5, <2>6, <2>7 DEF Continue
<1> QED
  BY <1>2, <1>3, <1>4, <1>5, <1>6, <1>7 DEF Next

-----------------------------------------------------------------------------
(* The theorems *)

\* The parts above hold in every state.
THEOREM NodeTableInvariant == Spec => []Inv
<1>1. Inv /\ [Next]_vars => Inv'
  <2> SUFFICES ASSUME Inv, [Next]_vars PROVE Inv'
    OBVIOUS
  <2>1. FlagsOK' /\ ClockOK'
    BY FlagsStep, ClockStep DEF Inv
  <2> QED
    BY <2>1, TableStep, LookupStep, JunkStep, MarkedStep, ReachStep DEF Inv
<1> QED
  BY <1>1, InvInit, PTL DEF Spec

\* The variables have their types.
THEOREM NodeTableTypes == Spec => []TypeOK
<1>1. Inv => TypeOK
  <2> SUFFICES ASSUME Inv PROVE TypeOK
    OBVIOUS
  <2>1. Known \subseteq Nodes /\ file \subseteq Nodes /\ \A n \in Known : m_nodes[n] \in NodeState
    BY DEF Inv, TableOK
  <2>2. m_started \in BOOLEAN /\ torn \in BOOLEAN /\ orphaned \in BOOLEAN
    BY DEF Inv, FlagsOK
  <2>3. lookup \in [Lookups -> LookupState] /\ now \in 0 .. MaxNow /\ restarts \in 0 .. MaxRestarts
    BY DEF Inv, LookupOK, ClockOK
  <2> QED
    BY <2>1, <2>2, <2>3 DEF TypeOK
<1> QED
  BY <1>1, NodeTableInvariant, PTL

\* A daemon that runs knows a node other than itself and other than a broken line,
\* unless its file was torn or a lookup found all nodes that answered it dropped.
THEOREM KnowsANode == Spec => []NeverIsolated
<1>1. Inv => NeverIsolated
  <2> SUFFICES ASSUME Inv, m_started, ~torn, ~orphaned PROVE Known \ {Self, Junk} # {}
    BY DEF NeverIsolated
  <2>1. Known # {} /\ Junk \notin Known /\ Self \notin Known
    BY DEF Inv, ReachOK, JunkOK, TableOK
  <2> QED
    BY <2>1
<1> QED
  BY <1>1, NodeTableInvariant, PTL

\* The local destination is neither in the table nor in nodes.txt, and no lookup asks it.
THEOREM NeverAsksItself == Spec => []SelfUnknown
<1>1. Inv => SelfUnknown
  <2> SUFFICES ASSUME Inv PROVE SelfUnknown
    OBVIOUS
  <2>1. Self \notin Known \cup file
    BY DEF Inv, TableOK
  <2>2. \A t \in Lookups : lookup[t].pc = "wait" => Self \notin lookup[t].active
    BY DEF Inv, LookupOK
  <2> QED
    BY <2>1, <2>2 DEF SelfUnknown
<1> QED
  BY <1>1, NodeTableInvariant, PTL

\* No step drops a node that answered, or that an answer listed, while a lookup that
\* has marked it goes on: not the lookup itself, and no other one.
THEOREM RespondersStay == Spec => RespondersKept
<1> DEFINE Keeps == \A t \in Lookups : lookup[t].pc \in {"clean", "finish"} =>
                       (lookup[t].from \cup lookup[t].listed) \cap Known \subseteq DOMAIN m_nodes'
<1>1. Inv /\ [Next]_vars => [Keeps]_vars
  <2> SUFFICES ASSUME Inv, Next PROVE Keeps
    OBVIOUS
  <2>1. CASE TableKept
    <3>1. \A t \in Lookups : Marked(t)
      BY DEF Inv, MarkedOK
    <3> QED
      BY <2>1, <3>1 DEF Marked, TableKept, Known
  <2>2. CASE Start
    BY <2>2 DEF Start, Idle
  <2>3. CASE UNCHANGED m_nodes
    BY <2>3 DEF Known
  <2>4. CASE Stop \/ writeNodes \/ Crash \/ Tick
    BY <2>3, <2>4 DEF Stop, writeNodes, Crash, Tick
  <2>5. ASSUME NEW n \in Senders, receiveFindClosePeers(n) PROVE Keeps
    BY <2>1, <2>5, AddNodesStep DEF receiveFindClosePeers
  <2>6. ASSUME NEW t \in Lookups, NEW k \in Keys, Ask(t, k) PROVE Keeps
    BY <2>3, <2>6 DEF Ask
  <2>7. ASSUME NEW t \in Lookups, NEW n \in Nodes, NEW L \in PeerLists, Answer(t, n, L)
        PROVE  Keeps
    BY <2>3, <2>7 DEF Answer
  <2>8. ASSUME NEW t \in Lookups, Continue(t) PROVE Keeps
    BY <2>1, <2>8, ContinueStep
  <2> QED
    BY <2>2, <2>4, <2>5, <2>6, <2>7, <2>8 DEF Next
<1> QED
  BY <1>1, NodeTableInvariant, PTL DEF Spec, RespondersKept

-----------------------------------------------------------------------------
(* The closest nodes: the walk over the table by induction over finite sets *)

\* What the walk keeps of the nodes U: the num closest ones.
Best(k, num, U, C) ==
  /\ C \subseteq U
  /\ Cardinality(C) < num => C = U
  /\ Cardinality(C) <= num
  /\ \A m \in C, n \in U \ C : Closer(k, m, n)

\* Among sets of subsets of a finite set there is a smallest one: what the inductions
\* over the nodes the walk has looked at rest on.
LEMMA SmallestSubset ==
  ASSUME NEW S, IsFiniteSet(S), NEW B \in SUBSET SUBSET S, B # {}
  PROVE  \E X \in B : \A Y \in B : ~(Y \subseteq X /\ Y # X)
<1>1. IsWellFoundedOn(StrictSubsetOrdering(S), SUBSET S)
  <2>1. IsWellFoundedOn(StrictSubsetOrdering(S), FiniteSubsetsOf(S))
    BY FS_StrictSubsetOrderingWellFounded, Zenon
  <2>2. FiniteSubsetsOf(S) = SUBSET S
    BY FS_FiniteSubsetsOfFinite, Zenon
  <2> QED
    BY <2>1, <2>2, Zenon
<1>2. PICK X \in B : \A Y \in B : ~(<<Y, X>> \in StrictSubsetOrdering(S))
  BY <1>1, WFMin
<1> QED
  BY <1>2 DEF StrictSubsetOrdering

\* A function on a finite set that is not empty has a largest value.
LEMMA FiniteMax ==
  ASSUME NEW S, IsFiniteSet(S), S # {}, NEW f \in [S -> Nat]
  PROVE  \E n \in S : \A m \in S : f[m] <= f[n]
<1> DEFINE Has(X) == \E n \in X : \A m \in X : f[m] <= f[n]
           B == {X \in SUBSET S : X # {} /\ ~Has(X)}
<1> SUFFICES ASSUME B # {} PROVE FALSE
  OBVIOUS
<1>1. PICK X \in B : \A Y \in B : ~(Y \subseteq X /\ Y # X)
  <2> HIDE DEF B
  <2>1. B \in SUBSET SUBSET S
    BY DEF B
  <2> QED
    BY <2>1, SmallestSubset
<1>2. PICK x \in X : TRUE
  OBVIOUS
<1>3. X \ {x} # {}
  <2> SUFFICES ASSUME X = {x} PROVE FALSE
    OBVIOUS
  <2>1. f[x] \in Nat
    OBVIOUS
  <2> QED
    BY <2>1
<1>4. Has(X \ {x})
  <2>1. X \ {x} \in SUBSET S /\ X \ {x} \subseteq X /\ X \ {x} # X
    BY <1>2
  <2>2. X \ {x} \notin B
    <3> HIDE DEF B
    <3> QED
      BY <1>1, <2>1
  <2> HIDE DEF Has
  <2> QED
    BY <1>3, <2>1, <2>2
<1>5. PICK n \in X \ {x} : \A m \in X \ {x} : f[m] <= f[n]
  BY <1>4
<1>6. f \in [S -> Nat] /\ X \in SUBSET S
  OBVIOUS
<1>7. CASE f[x] <= f[n]
  <2>1. \A m \in X : f[m] <= f[n]
    BY <1>5, <1>7
  <2> QED
    BY <2>1
<1>8. CASE ~(f[x] <= f[n])
  <2>1. f[x] \in Nat /\ f[n] \in Nat
    BY <1>6
  <2>2. \A m \in X : f[m] <= f[x]
    <3> SUFFICES ASSUME NEW m \in X PROVE f[m] <= f[x]
      OBVIOUS
    <3>1. f[m] \in Nat
      BY <1>6
    <3> QED
      BY <1>5, <1>8, <2>1, <3>1
  <2> QED
    BY <2>2
<1> QED
  BY <1>7, <1>8

\* The walk has a last node as long as there are nodes.
LEMMA LastOf ==
  ASSUME NEW R \in SUBSET Nodes, R # {}
  PROVE  Last(R) \in R
<1>1. IsFiniteSet(R)
  BY FS_Subset
<1> DEFINE f == [n \in R |-> n]
<1>2. f \in [R -> Nat]
  OBVIOUS
<1>3. \E n \in R : \A m \in R : f[m] <= f[n]
  <2> HIDE DEF f
  <2> QED
    BY <1>1, <1>2, FiniteMax
<1>4. \E n \in R : \A m \in R : m <= n
  BY <1>3
<1> QED
  BY <1>4 DEF Last

\* The last element of the std::set of distances is the farthest node kept.
LEMMA FarthestOf ==
  ASSUME NEW k \in Keys, NEW S \in SUBSET Nodes, S # {}
  PROVE  /\ Farthest(k, S) \in S
         /\ \A m \in S : m = Farthest(k, S) \/ Closer(k, m, Farthest(k, S))
<1>1. IsFiniteSet(S)
  BY FS_Subset
<1> DEFINE f == [n \in S |-> Metric[k][n]]
<1>2. f \in [S -> Nat]
  OBVIOUS
<1>3. \E n \in S : \A m \in S : f[m] <= f[n]
  <2> HIDE DEF f
  <2> QED
    BY <1>1, <1>2, FiniteMax
<1>4. PICK n \in S : \A m \in S : Metric[k][m] <= Metric[k][n]
  BY <1>3
<1>5. \A m \in S : m = n \/ Closer(k, m, n)
  <2> SUFFICES ASSUME NEW m \in S, m # n PROVE Metric[k][m] < Metric[k][n]
    BY DEF Closer
  <2>1. Metric[k][m] \in Nat /\ Metric[k][n] \in Nat /\ Metric[k][m] # Metric[k][n]
    OBVIOUS
  <2> QED
    BY <1>4, <2>1
<1> QED
  BY <1>5 DEF Farthest

\* The distances order the nodes: no two nodes have the same distance to a key.
LEMMA CloserOrder ==
  ASSUME NEW k \in Keys, NEW a \in Nodes, NEW b \in Nodes
  PROVE  /\ ~(Closer(k, a, b) /\ Closer(k, b, a))
         /\ a = b \/ Closer(k, a, b) \/ Closer(k, b, a)
         /\ \A c \in Nodes : Closer(k, a, b) /\ Closer(k, b, c) => Closer(k, a, c)
<1>1. \A n \in Nodes : Metric[k][n] \in Nat
  <2>1. Metric[k] \in [Nodes -> Nat]
    OBVIOUS
  <2> QED
    BY <2>1
<1>2. Metric[k][a] = Metric[k][b] => a = b
  OBVIOUS
<1> QED
  BY <1>1, <1>2 DEF Closer

\* There is one set of the num closest nodes.
LEMMA BestUnique ==
  ASSUME NEW k \in Keys, NEW num \in Nat, NEW U \in SUBSET Nodes, NEW C, NEW D,
         Best(k, num, U, C), Best(k, num, U, D)
  PROVE  C = D
<1>1. ASSUME NEW X, NEW Y, Best(k, num, U, X), Best(k, num, U, Y), X \subseteq Y, X # Y
      PROVE  FALSE
  <2>1. IsFiniteSet(U) /\ IsFiniteSet(Y)
    BY <1>1, FS_Subset DEF Best
  <2>2. Cardinality(X) <= Cardinality(Y) /\ (Cardinality(X) = Cardinality(Y) => X = Y)
    BY <1>1, <2>1, FS_Subset
  <2>3. Cardinality(X) \in Nat /\ Cardinality(Y) \in Nat
    BY <1>1, <2>1, FS_Subset, FS_CardinalityType
  <2>4. ~(Cardinality(X) < num)
    BY <1>1 DEF Best
  <2> QED
    BY <1>1, <2>2, <2>3, <2>4 DEF Best
<1> SUFFICES ASSUME C # D PROVE FALSE
  OBVIOUS
<1>2. PICK c \in C : c \notin D
  BY <1>1
<1>3. PICK d \in D : d \notin C
  BY <1>1
<1> QED
  BY <1>2, <1>3, CloserOrder DEF Best

\* The body of the loop turns the closest of U into the closest of U and the next node.
LEMMA InsertBest ==
  ASSUME NEW k \in Keys, NEW num \in Nat \ {0}, NEW U \in SUBSET Nodes, NEW n \in Nodes \ U,
         NEW C, Best(k, num, U, C)
  PROVE  Best(k, num, U \cup {n}, Insert(k, C, n, num))
<1>1. IsFiniteSet(C) /\ C \subseteq U /\ n \notin C
  BY FS_Subset DEF Best
<1>2. Cardinality(C) \in Nat
  BY <1>1, FS_CardinalityType
<1>3. Cardinality(C \cup {n}) = Cardinality(C) + 1 /\ IsFiniteSet(C \cup {n})
  BY <1>1, FS_AddElement
<1>4. CASE Cardinality(C) < num
  <2>1. Insert(k, C, n, num) = U \cup {n} /\ C = U
    BY <1>4 DEF Insert, Best
  <2> QED
    BY <1>2, <1>3, <1>4, <2>1 DEF Best
<1>5. CASE ~(Cardinality(C) < num)
  <2>1. Cardinality(C) = num
    BY <1>2, <1>5 DEF Best
  <2>2. C # {}
    BY <2>1, FS_EmptySet
  <2> DEFINE far == Farthest(k, C)
  <2>3. far \in C /\ \A m \in C : m = far \/ Closer(k, m, far)
    BY <1>1, <2>2, FarthestOf
  <2>4. \A m \in C, u \in U \ C : Closer(k, m, u)
    BY DEF Best
  <2> HIDE DEF far
  <2>5. CASE ~Closer(k, n, far)
    <3>1. Insert(k, C, n, num) = C
      BY <1>5, <2>5 DEF Insert, far
    <3>2. Closer(k, far, n)
      BY <1>1, <2>3, <2>5, CloserOrder
    <3>3. \A m \in C : Closer(k, m, n)
      BY <1>1, <2>3, <3>2, CloserOrder
    <3>4. \A m \in C, u \in (U \cup {n}) \ C : Closer(k, m, u)
      BY <2>4, <3>3
    <3>5. C \subseteq U \cup {n} /\ Cardinality(C) <= num /\ ~(Cardinality(C) < num)
      BY <1>1, <2>1
    <3>6. Best(k, num, U \cup {n}, C)
      BY <3>4, <3>5 DEF Best
    <3> QED
      BY <3>1, <3>6
  <2>6. CASE Closer(k, n, far)
    <3> DEFINE D == C \cup {n}
               out == Farthest(k, D)
    <3>1. Insert(k, C, n, num) = D \ {out}
      BY <1>5, <2>6 DEF Insert, far
    <3>2. D \in SUBSET Nodes /\ D # {}
      BY <1>1
    <3>3. out \in D /\ \A m \in D : m = out \/ Closer(k, m, out)
      <4> HIDE DEF D
      <4> QED
        BY <3>2, FarthestOf
    <3> HIDE DEF out
    <3>4. out = far
      <4>1. far \in D /\ far \in Nodes /\ out \in Nodes
        BY <1>1, <2>3, <3>2, <3>3
      <4>2. out # n
        BY <1>1, <2>6, <3>3, <4>1, CloserOrder
      <4>3. out \in C
        BY <3>3, <4>2
      <4> QED
        BY <2>3, <3>3, <4>1, <4>3, CloserOrder
    <3>5. Cardinality(D \ {out}) = num
      <4>1. Cardinality(D \ {out}) = Cardinality(D) - 1
        <5> HIDE DEF D
        <5>1. IsFiniteSet(D)
          BY <1>3 DEF D
        <5> QED
          BY <3>3, <5>1, FS_RemoveElement
      <4> QED
        BY <1>2, <1>3, <2>1, <4>1
    <3>6. ASSUME NEW m \in D \ {out}, NEW u \in (U \cup {n}) \ (D \ {out})
          PROVE  Closer(k, m, u)
      <4>1. Closer(k, m, far) /\ m \in Nodes /\ far \in Nodes /\ u \in Nodes
        BY <1>1, <2>3, <3>2, <3>3, <3>4, <3>6
      <4>2. u = far \/ u \in U \ C
        BY <3>4, <3>6
      <4>3. u \in U \ C => Closer(k, far, u)
        BY <2>3, <2>4
      <4> QED
        BY <4>1, <4>2, <4>3, CloserOrder
    <3>7. D \ {out} \subseteq U \cup {n}
      BY <1>1
    <3> HIDE DEF D
    <3> QED
      BY <3>1, <3>5, <3>6, <3>7 DEF Best
  <2> QED
    BY <2>5, <2>6
<1> QED
  BY <1>4, <1>5

\* The walk keeps the closest candidates among the nodes it has looked at.
LEMMA WalkBest ==
  ASSUME NEW table, DOMAIN table \in SUBSET Nodes, NEW k \in Keys, NEW num \in Nat \ {0},
         NEW to_us \in BOOLEAN
  PROVE  Best(k, num, {n \in DOMAIN table : Candidate(table, k, to_us, n)},
              getClosestNodes(table, k, num, to_us))
<1> DEFINE T == DOMAIN table
           U(R) == {n \in R : Candidate(table, k, to_us, n)}
           keep(C, n) == IF Candidate(table, k, to_us, n) THEN Insert(k, C, n, num) ELSE C
           F(w) == [R \in SUBSET T |->
                      IF R = {} THEN {} ELSE keep(w[R \ {Last(R)}], Last(R))]
           cw == CHOOSE w : w = F(w)
<1>1. IsFiniteSet(T)
  BY FS_Subset
<1>2. ASSUME NEW R \in SUBSET T, R # {}
      PROVE  /\ Last(R) \in R /\ R \ {Last(R)} \in SUBSET T /\ R \ {Last(R)} # R
             /\ U(R \ {Last(R)}) \in SUBSET Nodes
  BY <1>2, LastOf
<1>3. ASSUME NEW R \in SUBSET T, R # {}, NEW C, Best(k, num, U(R \ {Last(R)}), C)
      PROVE  Best(k, num, U(R), keep(C, Last(R)))
  <2> DEFINE l == Last(R)
             V == U(R \ {l})
  <2>1. l \in R /\ l \in Nodes /\ V \in SUBSET Nodes /\ l \notin V
    BY <1>2, <1>3
  <2>2. CASE Candidate(table, k, to_us, l)
    <3>1. U(R) = V \cup {l} /\ keep(C, l) = Insert(k, C, l, num)
      BY <2>1, <2>2
    <3>2. Best(k, num, V \cup {l}, Insert(k, C, l, num))
      <4> HIDE DEF V, l
      <4>1. Best(k, num, V, C)
        BY <1>3 DEF V, l
      <4> QED
        BY <2>1, <4>1, InsertBest
    <3> HIDE DEF V, l, U, keep
    <3> QED
      BY <3>1, <3>2 DEF l
  <2>3. CASE ~Candidate(table, k, to_us, l)
    <3>1. U(R) = V /\ keep(C, l) = C
      BY <2>1, <2>3
    <3> QED
      BY <1>3, <3>1
  <2> QED
    BY <2>2, <2>3
<1>4. Best(k, num, U({}), {})
  <2>1. U({}) = {} /\ Cardinality({}) = 0
    BY FS_EmptySet
  <2>2. Best(k, num, {}, {})
    BY <2>1 DEF Best
  <2> HIDE DEF U
  <2> QED
    BY <2>1, <2>2
<1> HIDE DEF keep, U, T
<1>5. \A R \in SUBSET T : \E C : Best(k, num, U(R), C)
  <2> DEFINE B == {R \in SUBSET T : ~\E C : Best(k, num, U(R), C)}
  <2> SUFFICES ASSUME B # {} PROVE FALSE
    OBVIOUS
  <2>1. PICK R \in B : \A Y \in B : ~(Y \subseteq R /\ Y # R)
    <3>1. B \in SUBSET SUBSET T
      OBVIOUS
    <3> HIDE DEF B
    <3> QED
      BY <1>1, <3>1, SmallestSubset
  <2>2. R # {} /\ R \in SUBSET T
    BY <1>4
  <2>3. R \ {Last(R)} \notin B
    <3> HIDE DEF B
    <3> QED
      BY <1>2, <2>1, <2>2
  <2>4. PICK C : Best(k, num, U(R \ {Last(R)}), C)
    BY <1>2, <2>2, <2>3
  <2> QED
    BY <1>3, <2>2, <2>4
<1>6. cw = F(cw)
  <2> DEFINE W == [R \in SUBSET T |-> CHOOSE C : Best(k, num, U(R), C)]
  <2>1. \A R \in SUBSET T : Best(k, num, U(R), W[R])
    BY <1>5
  <2>2. ASSUME NEW R \in SUBSET T PROVE W[R] = F(W)[R]
    <3> HIDE DEF W
    <3>1. U(R) \in SUBSET Nodes
      BY DEF U, T
    <3>2. CASE R = {}
      <4>1. F(W)[R] = {}
        BY <3>2
      <4>2. Best(k, num, U(R), W[R]) /\ Best(k, num, U(R), {})
        BY <1>4, <2>1, <3>2
      <4> HIDE DEF F
      <4>3. W[R] = {}
        BY <3>1, <4>2, BestUnique
      <4> QED
        BY <4>1, <4>3
    <3>3. CASE R # {}
      <4>1. F(W)[R] = keep(W[R \ {Last(R)}], Last(R))
        BY <3>3
      <4>2. Best(k, num, U(R \ {Last(R)}), W[R \ {Last(R)}])
        BY <1>2, <2>1, <3>3
      <4>3. Best(k, num, U(R), keep(W[R \ {Last(R)}], Last(R)))
        BY <1>3, <3>3, <4>2
      <4> HIDE DEF F
      <4>4. W[R] = keep(W[R \ {Last(R)}], Last(R))
        BY <2>1, <3>1, <4>3, BestUnique
      <4> QED
        BY <4>1, <4>4
    <3> QED
      BY <3>2, <3>3
  <2>3. W = F(W)
    <3> HIDE DEF U
    <3> QED
      BY <2>2
  <2>4. \E w : w = F(w)
    <3> HIDE DEF W, F
    <3> QED
      BY <2>3
  <2> HIDE DEF F, W
  <2> QED
    BY <2>4
<1>7. \A R \in SUBSET T : Best(k, num, U(R), cw[R])
  <2> HIDE DEF cw
  <2> DEFINE B == {R \in SUBSET T : ~Best(k, num, U(R), cw[R])}
  <2> SUFFICES ASSUME B # {} PROVE FALSE
    OBVIOUS
  <2>1. PICK R \in B : \A Y \in B : ~(Y \subseteq R /\ Y # R)
    <3>1. B \in SUBSET SUBSET T
      OBVIOUS
    <3> HIDE DEF B
    <3> QED
      BY <1>1, <3>1, SmallestSubset
  <2>2. \A X \in SUBSET T : cw[X] = IF X = {} THEN {} ELSE keep(cw[X \ {Last(X)}], Last(X))
    BY <1>6
  <2> HIDE DEF F
  <2>3. R # {} /\ R \in SUBSET T
    BY <1>4, <2>2
  <2>4. R \ {Last(R)} \notin B
    <3> HIDE DEF B
    <3> QED
      BY <1>2, <2>1, <2>3
  <2>5. Best(k, num, U(R \ {Last(R)}), cw[R \ {Last(R)}])
    BY <1>2, <2>3, <2>4
  <2>6. Best(k, num, U(R), keep(cw[R \ {Last(R)}], Last(R)))
    BY <1>3, <2>3, <2>5
  <2>7. cw[R] = keep(cw[R \ {Last(R)}], Last(R))
    BY <2>2, <2>3
  <2> QED
    BY <2>6, <2>7
<1>8. getClosestNodes(table, k, num, to_us) = cw[T]
  BY DEF getClosestNodes, keep, T
<1> HIDE DEF cw, F
<1>9. Best(k, num, U(T), getClosestNodes(table, k, num, to_us))
  BY <1>7, <1>8
<1> QED
  BY <1>9 DEF U, T

\* What getClosestNodes () returns are the closest unlocked nodes, as many as there are
\* up to Num, for any table and any distances.
THEOREM ClosestNodes == Spec => []ClosestReturned
<1>1. Inv => ClosestReturned
  <2> SUFFICES ASSUME Inv, NEW k \in Keys, NEW to_us \in BOOLEAN
               PROVE  Best(k, Num, {n \in getUnlockedNodes : to_us => Closer(k, n, Self)},
                           getClosestNodes(m_nodes, k, Num, to_us))
    BY DEF ClosestReturned, Best
  <2> DEFINE U == {n \in DOMAIN m_nodes : Candidate(m_nodes, k, to_us, n)}
  <2>1. DOMAIN m_nodes \in SUBSET Nodes /\ Self \notin DOMAIN m_nodes
    BY DEF Inv, TableOK, Known
  <2>2. Best(k, Num, U, getClosestNodes(m_nodes, k, Num, to_us))
    <3>1. Num \in Nat \ {0}
      OBVIOUS
    <3> QED
      BY <2>1, <3>1, WalkBest
  <2>3. \A n \in DOMAIN m_nodes : Closer(k, n, Self) <=> ~Closer(k, Self, n)
    BY <2>1, CloserOrder
  <2>4. U = {n \in getUnlockedNodes : to_us => Closer(k, n, Self)}
    BY <2>3 DEF Candidate, getUnlockedNodes, Known
  <2> QED
    BY <2>2, <2>4
<1> QED
  BY <1>1, NodeTableInvariant, PTL
=============================================================================
