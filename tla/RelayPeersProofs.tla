---------------------------- MODULE RelayPeersProofs ---------------------------
(***************************************************************************)
(* Theorems about RelayPeers, for any peers, limits, intervals and         *)
(* contents of peers.txt.                                                  *)
(***************************************************************************)
EXTENDS RelayPeers, TLAPS

USE PeersAssumption

-----------------------------------------------------------------------------
(* The inductive invariant *)

PeerState == [samples : 0 .. MaxReachability, last_seen : 0 .. MaxNow]

\* The table and the file hold peers with samples within the limits.
TableOK ==
  /\ m_peers \in [Known -> PeerState]
  /\ Known \subseteq Peers
  /\ DOMAIN file \subseteq Peers
  /\ \A p \in DOMAIN file : file[p] \in 0 .. MaxReachability

Response == [from : Peers, valid : BOOLEAN, list : SUBSET Peers]

\* While the worker waits, the peers that it asked are in the table with one sample
\* less than before, and the peers that joined since are as good as new ones.
Waiting(start, asked, answers, before) ==
  /\ round = [pc |-> "wait", start |-> start, asked |-> asked, answers |-> answers,
              before |-> before]
  /\ start \in 0 .. MaxNow
  /\ asked \subseteq Known
  /\ answers \subseteq Response
  /\ \A p \in asked : /\ before[p] \in 0 .. MaxReachability
                      /\ m_peers[p].samples = IF before[p] = 0 THEN 0 ELSE before[p] - 1
  /\ \A p \in Known \ asked : m_peers[p].samples = MinReachability

RoundOK ==
  \/ round = Ended \/ round = [pc |-> "loop"]
  \/ \E u \in Nat : round = [pc |-> "sleep", until |-> u]
  \/ \E start, asked, answers, before : Waiting(start, asked, answers, before)

FlagsOK ==
  /\ blank \in BOOLEAN /\ started \in BOOLEAN
  /\ aborted \in BOOLEAN /\ task_status \in BOOLEAN

ClockOK == now \in 0 .. MaxNow /\ starts \in 0 .. MaxRestarts

Inv == TableOK /\ RoundOK /\ FlagsOK /\ ClockOK

-----------------------------------------------------------------------------
(* Peers and tables *)

\* Counting keeps the samples of a peer within the limits.
LEMMA ReachableType ==
  ASSUME NEW s \in PeerState, NEW result \in BOOLEAN, now \in 0 .. MaxNow
  PROVE  reachable(s, result) \in PeerState
BY DEF PeerState, reachable

\* addPeers adds peers with the given samples and keeps the others.
LEMMA AddPeers ==
  ASSUME NEW table, DOMAIN table \subseteq Peers,
         \A p \in DOMAIN table : table[p] \in PeerState,
         NEW S \in SUBSET Peers, NEW samples,
         \A p \in S : samples[p] \in 0 .. MaxReachability,
         now \in 0 .. MaxNow
  PROVE  /\ DOMAIN addPeers(table, S, samples) = DOMAIN table \cup (S \ {Self})
         /\ \A p \in DOMAIN table : addPeers(table, S, samples)[p] = table[p]
         /\ \A p \in S \ (DOMAIN table \cup {Self}) :
              addPeers(table, S, samples)[p] = [samples |-> samples[p], last_seen |-> now]
         /\ addPeers(table, S, samples) \in [DOMAIN table \cup (S \ {Self}) -> PeerState]
BY DEF addPeers, PeerState

\* New peers get the smallest number of samples of a reachable peer.
LEMMA AsNewType == \A p \in Peers : AsNew[p] = MinReachability /\ AsNew[p] \in 0 .. MaxReachability
BY DEF AsNew

\* What start () reads is a table.
LEMMA LoadPeers ==
  ASSUME TableOK, now \in 0 .. MaxNow
  PROVE  /\ DOMAIN loadPeers \subseteq Peers
         /\ loadPeers \in [DOMAIN loadPeers -> PeerState]
<1>1. DOMAIN << >> = {}
  OBVIOUS
<1>2. CASE DOMAIN file # {}
  <2>1. addPeers(<< >>, DOMAIN file, file) \in [{} \cup (DOMAIN file \ {Self}) -> PeerState]
    BY <1>1, AddPeers DEF TableOK
  <2> QED
    BY <1>2, <2>1 DEF loadPeers, TableOK
<1>3. CASE DOMAIN file = {}
  <2>1. addPeers(<< >>, Bootstrap, AsNew) \in [{} \cup (Bootstrap \ {Self}) -> PeerState]
    BY <1>1, AddPeers, AsNewType
  <2> QED
    BY <1>3, <2>1 DEF loadPeers
<1> QED
  BY <1>2, <1>3

\* The table after the responses.
LEMMA AfterResponsesType ==
  ASSUME TableOK, now \in 0 .. MaxNow, round.answers \subseteq Response
  PROVE  /\ DOMAIN AfterResponses \subseteq Peers
         /\ AfterResponses \in [DOMAIN AfterResponses -> PeerState]
         /\ \A p \in Known \cap DOMAIN AfterResponses :
              (\A a \in Valid : a.from # p) => AfterResponses[p] = m_peers[p]
<1> DEFINE heard == {a.from : a \in Valid}
           marked == [p \in Known |-> IF p \in heard THEN reachable(m_peers[p], TRUE)
                                      ELSE m_peers[p]]
           listed == UNION {a.list : a \in Valid}
           table == addPeers(marked, listed, AsNew)
           silent == {p \in DOMAIN table : /\ now - table[p].last_seen > SilentTime
                                           /\ table[p].samples = 0}
<1>1. marked \in [Known -> PeerState]
  BY ReachableType DEF TableOK
<1>2. listed \subseteq Peers
  BY DEF Valid, Response
<1> HIDE DEF marked, listed
<1>3. /\ table \in [DOMAIN marked \cup (listed \ {Self}) -> PeerState]
      /\ \A p \in DOMAIN marked : table[p] = marked[p]
  <2>1. DOMAIN marked = Known /\ Known \subseteq Peers /\ \A p \in Known : marked[p] \in PeerState
    BY <1>1 DEF TableOK
  <2>2. listed \in SUBSET Peers /\ \A p \in listed : AsNew[p] \in 0 .. MaxReachability
    BY <1>2, AsNewType
  <2> QED
    BY <2>1, <2>2, AddPeers
<1>4. AfterResponses = [p \in DOMAIN table \ silent |-> table[p]]
  BY DEF AfterResponses, marked, listed
<1> HIDE DEF table, silent
<1>5. \A p \in Known : (\A a \in Valid : a.from # p) => marked[p] = m_peers[p]
  BY DEF marked
<1> QED
  BY <1>1, <1>2, <1>3, <1>4, <1>5 DEF TableOK

-----------------------------------------------------------------------------
(* The worker thread *)

\* A round that waits is what Waiting says.
LEMMA WaitFacts ==
  ASSUME RoundOK, round.pc = "wait"
  PROVE  Waiting(round.start, round.asked, round.answers, round.before)
<1>1. PICK start, asked, answers, before : Waiting(start, asked, answers, before)
  BY DEF RoundOK, Ended
<1>2. round.start = start /\ round.asked = asked /\ round.answers = answers /\ round.before = before
  BY <1>1 DEF Waiting
<1> QED
  BY <1>1, <1>2

\* The wait between two rounds ends.
LEMMA SleepType ==
  ASSUME NEW start \in 0 .. MaxNow, NEW status \in BOOLEAN, now \in 0 .. MaxNow
  PROVE  \E u \in Nat : Sleep(start, status) = [pc |-> "sleep", until |-> u]
<1>1. get_delay(start, now, status) \in Nat
  BY DEF get_delay
<1> QED
  BY <1>1 DEF Sleep

\* The first start of the daemon satisfies the invariant.
LEMMA InvInit == Init => Inv
<1> SUFFICES ASSUME Init PROVE Inv
  OBVIOUS
<1>1. DOMAIN m_peers = {} /\ m_peers \in [{} -> PeerState]
  BY DEF Init
<1>2. TableOK
  BY <1>1 DEF Init, TableOK, Known
<1>3. RoundOK
  BY DEF Init, RoundOK
<1>4. FlagsOK
  BY DEF Init, FlagsOK
<1>5. ClockOK
  BY DEF Init, ClockOK
<1> QED
  BY <1>2, <1>3, <1>4, <1>5 DEF Inv

\* Every step keeps the table and the file within the limits: the sample that
\* rollback () gives back was taken before.
LEMMA TableStep ==
  ASSUME Inv, Next
  PROVE  TableOK'
<1> USE DEF Inv
<1>0. now \in 0 .. MaxNow
  BY DEF ClockOK
<1>1. ASSUME UNCHANGED <<m_peers, file>>
      PROVE  TableOK'
  BY <1>1 DEF TableOK, Known
<1>2. CASE Start
  <2>1. CASE blank
    BY <1>1, <1>2, <2>1 DEF Start, files
  <2>2. CASE ~blank
    BY <1>0, <1>2, <2>2, LoadPeers DEF Start, files, TableOK, Known
  <2> QED
    BY <2>1, <2>2
<1>3. CASE Stop \/ Crash \/ Tick \/ NoPeers \/ Wake \/ Leave
  BY <1>1, <1>3 DEF Stop, Crash, Tick, NoPeers, Wake, Leave, files
<1>4. CASE AskPeers
  <2>1. \A p \in Known : reachable(m_peers[p], FALSE) \in PeerState
    BY <1>0, ReachableType DEF TableOK
  <2> QED
    BY <1>4, <2>1 DEF AskPeers, files, TableOK, Known
<1>5. CASE NoResponses
  <2>1. Waiting(round.start, round.asked, round.answers, round.before)
    BY <1>5, WaitFacts DEF NoResponses
  <2>2. \A p \in Known : m_peers[p].samples < MaxReachability
    BY <2>1 DEF Waiting
  <2>3. \A p \in Known : rollback(m_peers[p]) \in PeerState
    BY <2>2 DEF TableOK, PeerState, rollback
  <2> QED
    BY <1>5, <2>3 DEF NoResponses, files, TableOK, Known
<1>6. ASSUME round.pc = "wait"
      PROVE  /\ DOMAIN AfterResponses \subseteq Peers
             /\ AfterResponses \in [DOMAIN AfterResponses -> PeerState]
             /\ \A p \in DOMAIN AfterResponses : AfterResponses[p].samples \in 0 .. MaxReachability
  <2>1. round.answers \subseteq Response
    BY <1>6, WaitFacts DEF Waiting
  <2>2. /\ DOMAIN AfterResponses \subseteq Peers
        /\ AfterResponses \in [DOMAIN AfterResponses -> PeerState]
    BY <1>0, <2>1, AfterResponsesType
  <2> QED
    BY <2>2 DEF PeerState
<1>7. ASSUME NEW S \in SUBSET Peers, CutOff(AfterResponses, S), round.pc = "wait"
      PROVE  DOMAIN file' \subseteq Peers /\ \A p \in DOMAIN file' : file'[p] \in 0 .. MaxReachability
  <2>1. S \subseteq DOMAIN AfterResponses
    BY <1>7 DEF CutOff
  <2>2. CASE file' = [p \in S |-> AfterResponses[p].samples]
    BY <1>6, <1>7, <2>1, <2>2
  <2>3. ASSUME NEW p \in DOMAIN AfterResponses \ S,
               file' = [q \in S \cup {p} |-> IF q = p THEN AfterResponses[q].samples \div 10
                                             ELSE AfterResponses[q].samples]
        PROVE  DOMAIN file' \subseteq Peers /\ \A q \in DOMAIN file' : file'[q] \in 0 .. MaxReachability
    <3>1. \A n \in 0 .. MaxReachability : n \div 10 \in 0 .. MaxReachability
      OBVIOUS
    <3> QED
      BY <1>6, <1>7, <2>1, <2>3, <3>1
  <2> QED
    BY <1>7, <2>2, <2>3 DEF CutOff
<1>8. CASE TakeResponses
  <2>1. round.pc = "wait" /\ m_peers' = AfterResponses
    BY <1>8 DEF TakeResponses, RoundOver
  <2>2. DOMAIN file' \subseteq Peers /\ \A p \in DOMAIN file' : file'[p] \in 0 .. MaxReachability
    BY <1>7, <1>8, <2>1 DEF TakeResponses, writePeers, files, TableOK
  <2> QED
    BY <1>6, <2>1, <2>2 DEF TableOK, Known
<1>11. ASSUME NEW S \in SUBSET Peers, CrashInWrite(S)
       PROVE  TableOK'
  BY <1>7, <1>11 DEF CrashInWrite, RoundOver, TableOK, Known
<1>9. ASSUME NEW p \in Peers, peerListRequest(p)
      PROVE  TableOK'
  <2>1. /\ m_peers' \in [Known \cup ({p} \ {Self}) -> PeerState]
        /\ Known \subseteq Peers
    BY <1>0, <1>9, AddPeers, AsNewType DEF peerListRequest, TableOK, Known
  <2> QED
    BY <1>9, <2>1 DEF peerListRequest, files, TableOK, Known
<1>10. ASSUME NEW p \in Peers, NEW valid \in BOOLEAN, NEW L \in PeerLists, Answer(p, valid, L)
       PROVE  TableOK'
  BY <1>1, <1>10 DEF Answer, files
<1> QED
  BY <1>2, <1>3, <1>4, <1>5, <1>8, <1>9, <1>10, <1>11 DEF Next, Worker

\* Every step keeps what a waiting round knows of the table.
LEMMA RoundStep ==
  ASSUME Inv, Next
  PROVE  RoundOK'
<1> USE DEF Inv
<1>0. now \in 0 .. MaxNow /\ task_status \in BOOLEAN
  BY DEF ClockOK, FlagsOK
<1>1. ASSUME UNCHANGED <<m_peers, round>>
      PROVE  RoundOK'
  BY <1>1 DEF RoundOK, Waiting, Known, Ended
<1>2. ASSUME round' = Ended \/ round' = [pc |-> "loop"]
      PROVE  RoundOK'
  BY <1>2 DEF RoundOK, Ended
<1>3. CASE Start
  BY <1>1, <1>2, <1>3 DEF Start
<1>4. CASE Stop \/ Crash \/ Tick \/ Wake \/ Leave
  BY <1>1, <1>2, <1>4 DEF Stop, Crash, Tick, Wake, Leave
<1>5. CASE NoPeers
  <2>1. \E u \in Nat : round' = [pc |-> "sleep", until |-> u]
    BY <1>0, <1>5, SleepType DEF NoPeers
  <2> QED
    BY <2>1 DEF RoundOK
<1>6. ASSUME round.pc = "wait"
      PROVE  /\ Waiting(round.start, round.asked, round.answers, round.before)
             /\ \A status \in BOOLEAN :
                  \E u \in Nat : Sleep(round.start, status) = [pc |-> "sleep", until |-> u]
  BY <1>0, <1>6, WaitFacts, SleepType DEF Waiting
<1>7. CASE NoResponses \/ TakeResponses
  <2>1. \E u \in Nat : round' = [pc |-> "sleep", until |-> u]
    BY <1>6, <1>7 DEF NoResponses, TakeResponses, RoundOver
  <2> QED
    BY <2>1 DEF RoundOK
<1>8. CASE AskPeers
  <2> DEFINE before == [p \in Known |-> m_peers[p].samples]
  <2>1. \A p \in Known : m_peers[p].samples \in 0 .. MaxReachability
    BY DEF TableOK, PeerState
  <2>2. Known' = Known /\ \A p \in Known : m_peers'[p] = reachable(m_peers[p], FALSE)
    BY <1>8 DEF AskPeers, Known
  <2>3. \A p \in Known : m_peers'[p].samples = IF m_peers[p].samples = 0 THEN 0
                                               ELSE m_peers[p].samples - 1
    <3>1. \A s \in PeerState : reachable(s, FALSE).samples = IF s.samples = 0 THEN 0
                                                            ELSE s.samples - 1
      BY DEF reachable, PeerState
    <3> QED
      BY <2>2, <3>1 DEF TableOK
  <2>4. round' = [pc |-> "wait", start |-> now, asked |-> Known, answers |-> {}, before |-> before]
    BY <1>8 DEF AskPeers
  <2>5. \A p \in Known : before[p] = m_peers[p].samples
    OBVIOUS
  <2> HIDE DEF before
  <2>6. Waiting(round.start, round.asked, round.answers, round.before)'
    BY <1>0, <2>1, <2>2, <2>3, <2>4, <2>5 DEF Waiting
  <2> QED
    BY <2>6 DEF RoundOK
<1>9. ASSUME NEW p \in Peers, peerListRequest(p)
      PROVE  RoundOK'
  <2>1. CASE round.pc = "wait"
    <3>1. Waiting(round.start, round.asked, round.answers, round.before)
      BY <1>6, <2>1
    <3>2. /\ Known' = Known \cup ({p} \ {Self})
          /\ \A q \in Known : m_peers'[q] = m_peers[q]
          /\ p \notin Known /\ p # Self => m_peers'[p].samples = MinReachability
      BY <1>9 DEF peerListRequest, addPeers, AsNew, Known
    <3>3. Waiting(round.start, round.asked, round.answers, round.before)'
      BY <1>9, <3>1, <3>2 DEF peerListRequest, Waiting
    <3> QED
      BY <3>3 DEF RoundOK
  <2>2. CASE round.pc # "wait"
    BY <1>9, <2>2 DEF peerListRequest, RoundOK, Waiting, Ended
  <2> QED
    BY <2>1, <2>2
<1>10. ASSUME NEW p \in Peers, NEW valid \in BOOLEAN, NEW L \in PeerLists, Answer(p, valid, L)
       PROVE  RoundOK'
  <2> DEFINE a == [from |-> p, valid |-> valid, list |-> L]
  <2>1. Waiting(round.start, round.asked, round.answers, round.before)
    BY <1>6, <1>10 DEF Answer
  <2>2. a \in Response
    BY DEF Response
  <2>3. round' = [pc |-> "wait", start |-> round.start, asked |-> round.asked,
                  answers |-> round.answers \cup {a}, before |-> round.before]
    BY <1>10, <2>1 DEF Answer, Waiting
  <2>4. UNCHANGED m_peers
    BY <1>10 DEF Answer
  <2>5. Waiting(round.start, round.asked, round.answers, round.before)'
    BY <2>1, <2>2, <2>3, <2>4 DEF Waiting, Known
  <2> QED
    BY <2>5 DEF RoundOK
<1>11. ASSUME NEW S \in SUBSET Peers, CrashInWrite(S)
       PROVE  RoundOK'
  BY <1>2, <1>11 DEF CrashInWrite
<1> QED
  BY <1>3, <1>4, <1>5, <1>7, <1>8, <1>9, <1>10, <1>11 DEF Next, Worker

\* Every step keeps the flags.
LEMMA FlagsStep ==
  ASSUME Inv, Next
  PROVE  FlagsOK'
<1> USE DEF Inv, FlagsOK
<1>1. CASE Start
  BY <1>1 DEF Start, files
<1>2. CASE Stop \/ Crash
  <2>1. started' = FALSE /\ UNCHANGED <<blank, aborted, task_status>>
    BY <1>2 DEF Stop, Crash, files
  <2> QED
    BY <2>1
<1>3. CASE NoResponses
  BY <1>3 DEF NoResponses, files
<1>4. CASE Tick \/ NoPeers \/ Wake \/ Leave \/ AskPeers
  <2>1. UNCHANGED <<blank, started, aborted, task_status>>
    BY <1>4 DEF Tick, NoPeers, Wake, Leave, AskPeers, files
  <2> QED
    BY <2>1
<1>0. ASSUME NEW S, CutOff(AfterResponses, S)
      PROVE  blank' \in BOOLEAN
  BY <1>0, Zenon DEF CutOff
<1>5. CASE TakeResponses
  <2>1. blank' \in BOOLEAN
    BY <1>0, <1>5 DEF TakeResponses, writePeers, files
  <2> QED
    BY <1>5, <2>1 DEF TakeResponses
<1>6. ASSUME NEW S \in SUBSET Peers, CrashInWrite(S)
      PROVE  FlagsOK'
  <2>1. blank' \in BOOLEAN
    BY <1>0, <1>6 DEF CrashInWrite
  <2>2. started' = FALSE /\ UNCHANGED <<aborted, task_status>>
    BY <1>6 DEF CrashInWrite
  <2> QED
    BY <2>1, <2>2
<1>7. ASSUME NEW p \in Peers, peerListRequest(p)
      PROVE  FlagsOK'
  BY <1>7 DEF peerListRequest, files
<1>8. ASSUME NEW p \in Peers, NEW valid \in BOOLEAN, NEW L \in PeerLists, Answer(p, valid, L)
      PROVE  FlagsOK'
  BY <1>8 DEF Answer, files
<1> QED
  BY <1>1, <1>2, <1>3, <1>4, <1>5, <1>6, <1>7, <1>8 DEF Next, Worker

\* Every step keeps the clock and the number of starts within their bounds.
LEMMA ClockStep ==
  ASSUME Inv, Next
  PROVE  ClockOK'
<1> USE DEF Inv, ClockOK
<1>1. CASE Start \/ Tick
  BY <1>1 DEF Start, Tick
<1>2. CASE Stop \/ Crash \/ NoPeers \/ Wake \/ Leave \/ AskPeers \/ NoResponses \/ TakeResponses
  BY <1>2 DEF Stop, Crash, NoPeers, Wake, Leave, AskPeers, NoResponses, TakeResponses
<1>3. ASSUME NEW S \in SUBSET Peers, CrashInWrite(S)
      PROVE  ClockOK'
  BY <1>3 DEF CrashInWrite
<1>4. ASSUME NEW p \in Peers, peerListRequest(p)
      PROVE  ClockOK'
  BY <1>4 DEF peerListRequest
<1>5. ASSUME NEW p \in Peers, NEW valid \in BOOLEAN, NEW L \in PeerLists, Answer(p, valid, L)
      PROVE  ClockOK'
  BY <1>5 DEF Answer
<1> QED
  BY <1>1, <1>2, <1>3, <1>4, <1>5 DEF Next, Worker

\* The invariant holds in every state of the relay worker.
THEOREM RelayInvariant == Spec => []Inv
<1>1. ASSUME Inv, UNCHANGED vars
      PROVE  Inv'
  <2>1. UNCHANGED <<m_peers, file, blank, started, aborted, round, task_status, now, starts>>
    BY <1>1 DEF vars, files
  <2>2. TableOK' /\ RoundOK'
    BY <1>1, <2>1 DEF Inv, TableOK, RoundOK, Waiting, Known, Ended
  <2>3. FlagsOK'
    BY <1>1, <2>1 DEF Inv, FlagsOK
  <2>4. ClockOK'
    BY <1>1, <2>1 DEF Inv, ClockOK
  <2> QED
    BY <2>2, <2>3, <2>4 DEF Inv
<1>2. Inv /\ [Next]_vars => Inv'
  BY <1>1, TableStep, RoundStep, FlagsStep, ClockStep DEF Inv
<1> QED
  BY InvInit, <1>2, PTL DEF Spec

\* The state of the relay worker keeps its types.
THEOREM RelayTypes == Spec => []TypeOK
<1>1. Inv => TypeOK
  <2> SUFFICES ASSUME Inv PROVE TypeOK
    OBVIOUS
  <2>1. /\ Known \subseteq Peers /\ DOMAIN file \subseteq Peers
        /\ \A p \in Known : m_peers[p].samples \in Nat /\ m_peers[p].last_seen \in 0 .. MaxNow
    BY DEF Inv, TableOK, PeerState
  <2>2. round.pc \in {"ended", "loop", "wait", "sleep"}
    BY DEF Inv, RoundOK, Waiting, Ended
  <2>3. {blank, started, aborted, task_status} \subseteq BOOLEAN
    BY DEF Inv, FlagsOK
  <2> QED
    BY <2>1, <2>2, <2>3 DEF Inv, ClockOK, TypeOK
<1> QED
  BY <1>1, RelayInvariant, PTL

\* The samples of a peer, in the table and in peers.txt, never leave 0 to
\* MaxReachability, although rollback () adds one without looking at the limit.
THEOREM RelaySamples == Spec => []SamplesInRange
<1>1. Inv => SamplesInRange
  BY DEF Inv, TableOK, PeerState, SamplesInRange
<1> QED
  BY <1>1, RelayInvariant, PTL

-----------------------------------------------------------------------------
(* Action properties *)

\* A round without responses gives back exactly the sample that it took.
THEOREM RelayOutage == Spec => OutageNeutral
<1>1. ASSUME Inv, [Next]_vars, round.pc = "wait", round'.pc = "sleep", round.answers = {},
             NEW p \in round.asked
      PROVE  m_peers'[p].samples = IF round.before[p] = 0 THEN 1 ELSE round.before[p]
  <2>1. Waiting(round.start, round.asked, round.answers, round.before)
    BY <1>1, WaitFacts DEF Inv
  <2>2. round' # round /\ round' # Ended /\ round'.pc # "wait" /\ round' # [pc |-> "loop"]
    BY <1>1 DEF Ended
  <2>3. NoResponses
    BY <1>1, <2>1, <2>2 DEF Next, Worker, Start, Stop, Crash, Tick, NoPeers, AskPeers, Wake, Leave,
       TakeResponses, RoundOver, CrashInWrite, peerListRequest, Answer, vars, Waiting, Ended
  <2>4. p \in Known /\ m_peers[p] \in PeerState /\ m_peers'[p] = rollback(m_peers[p])
    BY <1>1, <2>1, <2>3 DEF NoResponses, Waiting, Inv, TableOK
  <2>5. m_peers'[p].samples = m_peers[p].samples + 1
    BY <2>4 DEF rollback, PeerState
  <2> QED
    BY <1>1, <2>1, <2>5 DEF Waiting
<1> QED
  <2>1. Inv /\ [Next]_vars =>
          [round.pc = "wait" /\ round'.pc = "sleep" /\ round.answers = {} =>
             \A p \in round.asked :
               m_peers'[p].samples = IF round.before[p] = 0 THEN 1 ELSE round.before[p]]_vars
    BY <1>1
  <2> QED
    BY <2>1, RelayInvariant, PTL DEF Spec, OutageNeutral

\* While a round waits, a known peer becomes reachable by its answer, or gets back
\* what the round took.
THEOREM RelayReachable == Spec => ReachableByAnswer
<1>1. ASSUME Inv, Next, round.pc = "wait",
             NEW p \in Known, p \in getGoodPeers', p \notin getGoodPeers
      PROVE  \/ \E a \in Valid : a.from = p
             \/ p \in round.asked /\ round.before[p] >= MinReachability
  <2>0. now \in 0 .. MaxNow /\ Waiting(round.start, round.asked, round.answers, round.before)
    BY <1>1, WaitFacts DEF Inv, ClockOK
  <2>1. /\ p \in DOMAIN m_peers' /\ m_peers'[p].samples >= MinReachability
        /\ ~(m_peers[p].samples >= MinReachability)
    BY <1>1 DEF getGoodPeers, isReachable, Known
  <2>2. m_peers[p] \in PeerState
    BY <1>1 DEF Inv, TableOK
  <2>3. m_peers' # m_peers
    BY <2>1
  <2>4. CASE NoResponses
    <3>1. m_peers'[p] = rollback(m_peers[p])
      BY <2>4 DEF NoResponses
    <3>2. m_peers'[p].samples = m_peers[p].samples + 1
      BY <2>2, <3>1 DEF rollback, PeerState
    <3>3. m_peers[p].samples + 1 >= MinReachability /\ m_peers[p].samples \in Nat
      BY <2>1, <2>2, <3>2 DEF PeerState
    <3> QED
      BY <2>0, <2>1, <3>3 DEF Waiting
  <2>5. CASE TakeResponses
    BY <1>1, <2>0, <2>1, <2>5, AfterResponsesType DEF TakeResponses, Inv, Waiting
  <2>6. ASSUME NEW q \in Peers, peerListRequest(q)
        PROVE  FALSE
    BY <2>1, <2>6 DEF peerListRequest, addPeers, Known
  <2> QED
    BY <1>1, <2>3, <2>4, <2>5, <2>6 DEF Next, Worker, Start, Stop, Crash, Tick, NoPeers, AskPeers,
       Wake, Leave, CrashInWrite, Answer, Ended
<1>2. ASSUME UNCHANGED vars
      PROVE  getGoodPeers' = getGoodPeers
  BY <1>2 DEF vars, getGoodPeers, isReachable, Known
<1> QED
  <2>1. Inv /\ [Next]_vars =>
          [\A p \in Known \cap (getGoodPeers' \ getGoodPeers) : round.pc = "wait" =>
             \/ \E a \in Valid : a.from = p
             \/ p \in round.asked /\ round.before[p] >= MinReachability]_vars
    BY <1>1, <1>2
  <2> QED
    BY <2>1, RelayInvariant, PTL DEF Spec, ReachableByAnswer
===============================================================================
