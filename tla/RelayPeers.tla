------------------------------ MODULE RelayPeers -----------------------------
(***************************************************************************)
(* The relay peers of src/RelayWorker.cpp and their file peers.txt.  The   *)
(* worker thread goes round: it asks every peer for its peers, waits, and  *)
(* keeps for each a number of samples, which falls when the peer is asked  *)
(* and rises when it answers.  The packet handler thread adds the senders  *)
(* of peer list requests meanwhile.                                        *)
(*                                                                         *)
(* A peer is the number of its identity hash, which orders the map         *)
(* m_peers_.  Time is counted in ticks.                                    *)
(***************************************************************************)
EXTENDS Integers, FiniteSets

CONSTANTS
  Peers,           \* identities
  Self,            \* the local destination
  Bootstrap,       \* option bootstrap.address
  Saved,           \* contents of peers.txt at the first start
  PeerLists,       \* the peers that a peer list may name
  MinReachability, \* PEER_MIN_REACHABILITY (18)
  MaxReachability, \* PEER_MAX_REACHABILITY (24)
  CheckTime,       \* RELAY_CHECK_TIMEOUT
  IntervalLong,    \* UPDATE_INTERVAL_LONG
  IntervalShort,   \* UPDATE_INTERVAL_SHORT
  SilentTime,      \* option cleaninterval
  MaxNow,          \* bound of the clock
  MaxRestarts      \* bound of the number of starts

ASSUME PeersAssumption ==
  /\ Peers \subseteq Nat /\ IsFiniteSet(Peers) /\ Self \in Peers
  /\ Bootstrap \subseteq Peers
  /\ PeerLists \subseteq SUBSET Peers
  /\ \A f \in Saved : /\ DOMAIN f \subseteq Peers \ {Self}
                      /\ \A p \in DOMAIN f : f[p] \in 0 .. MaxReachability
  /\ {MinReachability, MaxReachability, CheckTime, IntervalLong, IntervalShort,
      SilentTime, MaxNow, MaxRestarts} \subseteq Nat
  /\ 1 < MinReachability /\ MinReachability < MaxReachability

VARIABLES
  m_peers,     \* m_peers_: a function from the known peers to their state
  file,        \* peers.txt: a function from the peers of its lines to the samples
  blank,       \* the last line of peers.txt ends behind the space
  started,     \* started_
  aborted,     \* start () has ended the process with an exception
  round,       \* the worker thread
  task_status, \* what the last check_peers () returned
  now,         \* ts_now ()
  starts       \* how often the daemon was started

files == <<file, blank>>
vars == <<m_peers, files, started, aborted, round, task_status, now, starts>>

Known == DOMAIN m_peers
Ended == [pc |-> "ended"]

-----------------------------------------------------------------------------
(* class RelayPeer *)

\* Mutant: the peer that is one short of the maximum gets two samples too.
reachableOverflow(s, result) ==
  IF result THEN [samples |-> IF s.samples < MaxReachability THEN s.samples + 2 ELSE s.samples,
                  last_seen |-> now]
  ELSE [s EXCEPT !.samples = IF @ > 0 THEN @ - 1 ELSE @]

\* Mutant: the unsigned counter is taken below zero.
reachableUnderflow(s, result) ==
  IF result THEN [samples |-> IF s.samples < MaxReachability THEN s.samples + 1 ELSE s.samples,
                  last_seen |-> now]
  ELSE [s EXCEPT !.samples = @ - 1]

\* RelayPeer::reachable (result)
reachable(s, result) ==
  IF result
  THEN [samples |-> IF s.samples < MaxReachability - 1 THEN s.samples + 2
                    ELSE IF s.samples < MaxReachability THEN s.samples + 1 ELSE s.samples,
        last_seen |-> now]
  ELSE [s EXCEPT !.samples = IF @ > 0 THEN @ - 1 ELSE @]

\* Mutant: an outage is made up for as if the peer had answered.
rollbackTwice(s) == [s EXCEPT !.samples = IF @ < MaxReachability - 1 THEN @ + 2 ELSE @]

\* RelayPeer::rollback ()
rollback(s) == [s EXCEPT !.samples = @ + 1]

\* RelayPeer::reachable ()
isReachable(s) == s.samples >= MinReachability

-----------------------------------------------------------------------------
(* The table *)

\* addPeer () for each of S, with the samples of a new peer: known peers and the
\* local destination are left alone.
addPeers(table, S, samples) ==
  [p \in DOMAIN table \cup (S \ {Self}) |->
     IF p \in DOMAIN table THEN table[p]
     ELSE [samples |-> samples[p], last_seen |-> now]]

AsNew == [p \in Peers |-> MinReachability]

\* getGoodPeers (): the peers that are offered to others.
getGoodPeers == {p \in Known : isReachable(m_peers[p])}

-----------------------------------------------------------------------------
(* start (), stop (), peers.txt *)

\* loadPeers () after readPeers (); the bootstrap list serves an empty file.
loadPeers ==
  IF DOMAIN file # {} THEN addPeers(<< >>, DOMAIN file, file)
  ELSE addPeers(<< >>, Bootstrap, AsNew)

\* start () of a new process.  A line without samples is not a number: stoi ()
\* throws and nothing catches it.
Start ==
  /\ ~started /\ round = Ended
  /\ starts < MaxRestarts
  /\ starts' = starts + 1
  /\ IF blank
     THEN aborted' = TRUE /\ UNCHANGED <<m_peers, started, round>>
     ELSE /\ m_peers' = loadPeers
          /\ started' = TRUE
          /\ round' = [pc |-> "loop"]
          /\ aborted' = FALSE
  /\ task_status' = FALSE
  /\ UNCHANGED <<files, now>>

\* stop () clears the flag, notifies, and joins the worker thread, which sees
\* the notification only if it waits for it.
Stop ==
  /\ started
  /\ started' = FALSE
  /\ round' = IF round.pc = "sleep" THEN [pc |-> "loop"] ELSE round
  /\ UNCHANGED <<m_peers, files, aborted, task_status, now, starts>>

\* The file as far as it was written: the lines of the peers of S are there, and of the
\* next one the destination, the space, and a part of the number (a part of the
\* destination alone is not read).
CutOff(table, S) ==
  LET rest == DOMAIN table \ S
  IN  /\ S \subseteq DOMAIN table
      /\ \A p \in S, q \in rest : p < q
      /\ \/ /\ file' = [p \in S |-> table[p].samples]
            /\ blank' = (rest # {}) \/ blank' = FALSE
         \/ \E p \in rest :
              /\ \A q \in rest : p <= q
              /\ file' = [q \in S \cup {p} |-> IF q = p THEN table[q].samples \div 10
                                               ELSE table[q].samples]
              /\ blank' = FALSE

\* writePeers (): nobody looks whether the file is written to its end (S = DOMAIN table),
\* and one that cannot be opened stays as it is.
writePeers(table) ==
  \/ \E S \in SUBSET Peers : CutOff(table, S)
  \/ UNCHANGED files

\* The process ends.
Crash ==
  /\ round # Ended
  /\ started' = FALSE
  /\ round' = Ended
  /\ UNCHANGED <<m_peers, files, aborted, task_status, now, starts>>

-----------------------------------------------------------------------------
(* Requests of other peers *)

\* peerListRequestV4 () and peerListRequestV5 () of sender p: it is added, and
\* the first MAX_PEERS_TO_SEND of getGoodPeers are sent back.
peerListRequest(p) ==
  /\ started
  /\ m_peers' = addPeers(m_peers, {p}, AsNew)
  /\ UNCHANGED <<files, started, aborted, round, task_status, now, starts>>

-----------------------------------------------------------------------------
(* run () and check_peers () *)

\* get_delay ()
get_delay(start, finish, status) ==
  LET interval == IF status THEN IntervalLong ELSE IntervalShort
      duration == finish - start
  IN  IF start < finish /\ duration < interval THEN interval - duration ELSE 1

Sleep(start, status) == [pc |-> "sleep", until |-> now + get_delay(start, now, status)]

\* The loop of run () without peers.
NoPeers ==
  /\ round.pc = "loop" /\ started /\ Known = {}
  /\ now < MaxNow
  /\ round' = Sleep(now, task_status)
  /\ UNCHANGED <<m_peers, files, started, aborted, task_status, now, starts>>

\* check_peers (), first part: every peer loses a sample and is asked.
AskPeers ==
  /\ round.pc = "loop" /\ started /\ Known # {}
  /\ now + CheckTime + IntervalLong <= MaxNow
  /\ round' = [pc |-> "wait", start |-> now, asked |-> Known, answers |-> {},
               before |-> [p \in Known |-> m_peers[p].samples]]
  /\ m_peers' = [p \in Known |-> reachable(m_peers[p], FALSE)]
  /\ UNCHANGED <<files, started, aborted, task_status, now, starts>>

\* The answer of p: valid unless it is no response packet or does not parse; a
\* valid one lists no peers if it has an error status.
Answer(p, valid, L) ==
  /\ round.pc = "wait"
  /\ p \in round.asked
  /\ \A a \in round.answers : a.from # p
  /\ valid \/ L = {}
  /\ round' = [round EXCEPT !.answers = @ \cup {[from |-> p, valid |-> valid, list |-> L]}]
  /\ UNCHANGED <<m_peers, files, started, aborted, task_status, now, starts>>

AllAnswered == \A p \in round.asked : \E a \in round.answers : a.from = p
Valid == {a \in round.answers : a.valid}

\* check_peers (), without responses: the samples are given back.
NoResponses ==
  /\ round.pc = "wait"
  /\ now - round.start >= CheckTime
  /\ round.answers = {}
  /\ m_peers' = [p \in Known |-> rollback(m_peers[p])]
  /\ task_status' = FALSE
  /\ round' = Sleep(round.start, FALSE)
  /\ UNCHANGED <<files, started, aborted, now, starts>>

\* The table after the responses: valid ones count for their senders, listed
\* peers are added, and peers without samples that were not seen are dropped.
AfterResponses ==
  LET heard == {a.from : a \in Valid}
      marked == [p \in Known |-> IF p \in heard THEN reachable(m_peers[p], TRUE)
                                 ELSE m_peers[p]]
      table == addPeers(marked, UNION {a.list : a \in Valid}, AsNew)
      silent == {p \in DOMAIN table : /\ now - table[p].last_seen > SilentTime
                                      /\ table[p].samples = 0}
  IN  [p \in DOMAIN table \ silent |-> table[p]]

RoundOver ==
  /\ round.pc = "wait"
  /\ round.answers # {}
  /\ AllAnswered \/ now - round.start >= CheckTime

\* check_peers (), with responses: the table is updated and written.
TakeResponses ==
  /\ RoundOver
  /\ m_peers' = AfterResponses
  /\ writePeers(AfterResponses)
  /\ task_status' = TRUE
  /\ round' = Sleep(round.start, TRUE)
  /\ UNCHANGED <<started, aborted, now, starts>>

\* The process ends while it writes peers.txt.
CrashInWrite(S) ==
  /\ RoundOver
  /\ CutOff(AfterResponses, S)
  /\ started' = FALSE
  /\ round' = Ended
  /\ UNCHANGED <<m_peers, aborted, task_status, now, starts>>

\* The wait between two rounds is over, and the loop looks at the flag.
Wake ==
  /\ round.pc = "sleep" /\ now >= round.until
  /\ round' = [pc |-> "loop"]
  /\ UNCHANGED <<m_peers, files, started, aborted, task_status, now, starts>>

\* Mutant: the loop does not end.
LeaveNever == FALSE /\ round' = round /\ UNCHANGED <<m_peers, files, started, aborted, task_status, now, starts>>

\* The loop ends, stop () has joined the thread, and the process ends.
Leave ==
  /\ round.pc = "loop" /\ ~started
  /\ round' = Ended
  /\ UNCHANGED <<m_peers, files, started, aborted, task_status, now, starts>>

\* Time passes while the worker thread waits.
Tick ==
  /\ now < MaxNow
  /\ round.pc = "wait" => now < round.start + CheckTime
  /\ round.pc = "sleep" => now < round.until
  /\ round.pc # "loop"
  /\ now' = now + 1
  /\ UNCHANGED <<m_peers, files, started, aborted, round, task_status, starts>>

-----------------------------------------------------------------------------
Init ==
  /\ m_peers = << >>
  /\ file \in Saved
  /\ blank = FALSE
  /\ started = FALSE /\ aborted = FALSE
  /\ round = Ended
  /\ task_status = FALSE
  /\ now = 0 /\ starts = 0

Worker == NoPeers \/ AskPeers \/ NoResponses \/ TakeResponses \/ Wake \/ Leave

Next ==
  \/ Start \/ Stop \/ Crash \/ Tick \/ Worker
  \/ \E S \in SUBSET Peers : CrashInWrite(S)
  \/ \E p \in Peers :
       \/ peerListRequest(p)
       \/ \E valid \in BOOLEAN : \E L \in PeerLists : Answer(p, valid, L)

\* The clock goes on and the worker thread runs.
Fairness == WF_vars(Tick) /\ WF_vars(Worker)

Spec == Init /\ [][Next]_vars /\ Fairness

-----------------------------------------------------------------------------
(* Properties *)

\* The variables have their types.
TypeOK ==
  /\ Known \subseteq Peers
  /\ \A p \in Known : m_peers[p].samples \in Nat /\ m_peers[p].last_seen \in 0 .. MaxNow
  /\ DOMAIN file \subseteq Peers
  /\ {blank, started, aborted, task_status} \subseteq BOOLEAN
  /\ round.pc \in {"ended", "loop", "wait", "sleep"}
  /\ now \in 0 .. MaxNow /\ starts \in 0 .. MaxRestarts

\* Samples stay between 0 and the maximum, as the header of peers.txt says, with
\* answers, outages, peers that join in the middle of a round, and lines that a
\* crash or a full disk has cut off.
SamplesInRange ==
  /\ \A p \in Known : m_peers[p].samples \in 0 .. MaxReachability
  /\ \A p \in DOMAIN file : file[p] \in 0 .. MaxReachability

\* A known peer becomes reachable only by answering: neither an outage nor the
\* rollback that follows it makes a peer good enough to be offered to others.
ReachableByAnswer ==
  [][\A p \in Known \cap (getGoodPeers' \ getGoodPeers) : round.pc = "wait" =>
       \/ \E a \in Valid : a.from = p
       \/ p \in round.asked /\ round.before[p] >= MinReachability]_vars

\* A round that gets no response costs no peer a sample, and gives none one that
\* it did not have (but for the peer that has none, which gets the first).
OutageNeutral ==
  [][round.pc = "wait" /\ round'.pc = "sleep" /\ round.answers = {} =>
       \A p \in round.asked :
         m_peers'[p].samples = IF round.before[p] = 0 THEN 1 ELSE round.before[p]]_vars

\* stop () returns: the worker thread leaves its loop, if need be after the wait
\* whose notification it missed.
StopReturns == ~started /\ round # Ended ~> round = Ended
=============================================================================
