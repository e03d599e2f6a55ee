----------------------------- MODULE RequestProofs -----------------------------
(***************************************************************************)
(* Theorems about the requests of a node: about RequestBatch, for any      *)
(* operations, requests, retry limits and size of the list, and about      *)
(* PacketDispatch, for any nodes and any numbers of packets.               *)
(***************************************************************************)
EXTENDS RequestBatch, PacketDispatch, FiniteSetTheorems, SequenceTheorems, TLAPS

USE RequestsAssumption

-----------------------------------------------------------------------------
(* The list of running batches *)

ListOK ==
  /\ slots \in [1 .. MaxSlots -> Batches \cup {Null}]
  /\ finish \in 0 .. MaxSlots

\* Erasing elements leaves a list of batches that is not longer.
LEMMA CompactList ==
  ASSUME ListOK, NEW R, Compact(R)
  PROVE  ListOK' /\ finish' <= finish
<1> DEFINE kept == (1 .. finish) \ R
           nth(j) == {k \in kept : Cardinality({i \in kept : i <= k}) = j}
<1>1. finish \in Nat /\ MaxSlots \in Nat
  BY DEF ListOK
<1>2. finish' = Cardinality(kept)
  BY DEF Compact
<1>3. IsFiniteSet(1 .. finish) /\ Cardinality(1 .. finish) = finish
  BY <1>1, FS_Interval
<1>4. finish' \in Nat /\ finish' <= finish
  BY <1>2, <1>3, FS_Subset, FS_CardinalityType
<1>5. ASSUME NEW j \in 1 .. MaxSlots
      PROVE  slots'[j] \in Batches \cup {Null}
  <2>1. slots'[j] = IF nth(j) # {} THEN slots[CHOOSE k \in nth(j) : TRUE]
                    ELSE IF j > finish THEN slots[j]
                    ELSE IF j = Cardinality(kept) + 1 /\ finish \in R THEN slots[finish]
                    ELSE Null
    BY <1>5 DEF Compact
  <2>2. CASE nth(j) # {}
    <3>1. (CHOOSE k \in nth(j) : TRUE) \in nth(j)
      BY <2>2
    <3>2. (CHOOSE k \in nth(j) : TRUE) \in 1 .. MaxSlots
      BY <3>1 DEF ListOK
    <3> HIDE DEF nth
    <3> QED
      BY <2>1, <2>2, <3>2 DEF ListOK
  <2>3. CASE nth(j) = {} /\ j > finish
    <3> HIDE DEF nth, kept
    <3> QED
      BY <1>5, <2>1, <2>3 DEF ListOK
  <2>4. CASE nth(j) = {} /\ ~(j > finish)
    <3>1. finish \in 1 .. MaxSlots
      BY <1>1, <1>5, <2>4 DEF ListOK
    <3> HIDE DEF nth, kept
    <3> QED
      BY <2>1, <2>4, <3>1 DEF ListOK
  <2> QED
    BY <2>2, <2>3, <2>4
<1>6. slots' \in [1 .. MaxSlots -> Batches \cup {Null}]
  <2>1. slots' = [j \in 1 .. MaxSlots |-> slots'[j]]
    BY DEF Compact
  <2> QED
    BY <1>5, <2>1
<1> QED
  BY <1>1, <1>4, <1>6 DEF ListOK


\* removeBatch () leaves a list of batches within its memory.
LEMMA RemoveList ==
  ASSUME ListOK, NEW b, removeBatch(b)
  PROVE  ListOK'
BY CompactList DEF removeBatch

-----------------------------------------------------------------------------
(* Types *)

\* A round of the resend loop is entered below the limit only.
LoopOK == \A b \in Batches : pc[b] = "remove" => counter[b] < Resends[b]

TypeInv == TypeOK /\ LoopOK

\* The daemon starts with an empty list and well-typed operations.
LEMMA TypeInit == Init => TypeInv
<1> SUFFICES ASSUME Init PROVE TypeInv
  OBVIOUS
<1>1. incoming \in [Batches -> Seq(Cids)]
  BY DEF Init
<1>2. recv \in Receiver
  BY DEF Init, Receiver
<1>3. pc \in [Batches -> Labels] /\ LoopOK
  BY DEF Init, LoopOK, Labels
<1>4. counter \in [Batches -> Nat] /\ (\A b \in Batches : counter[b] <= Resends[b])
  BY DEF Init
<1>5. result \in [Batches -> SUBSET Nat]
  BY DEF Init
<1>6. /\ slots \in [1 .. MaxSlots -> Batches \cup {Null}]
      /\ finish \in 0 .. MaxSlots
      /\ slot \in [Batches -> 1 .. MaxSlots]
  BY DEF Init
<1>7. /\ flight \in [Cids -> Nat] /\ doubled \in [Cids -> Nat]
      /\ m_started \in BOOLEAN /\ crashed \in BOOLEAN
  BY DEF Init
<1> QED
  BY <1>1, <1>2, <1>3, <1>4, <1>5, <1>6, <1>7 DEF TypeInv, TypeOK

\* Every step of an operation, of the packet handler and of stop () keeps the
\* types and the bounds of the counters.
LEMMA TypeStep ==
  ASSUME TypeInv, Next
  PROVE  TypeInv'
<1> USE DEF TypeInv
<1>0. ListOK
  BY DEF TypeOK, ListOK
<1>1. ASSUME NEW b \in Batches, Skip(b) \/ Wait(b) \/ Timeout(b)
      PROVE  TypeInv'
  <2>1. pc' \in [Batches -> Labels] /\ LoopOK'
    BY <1>1 DEF Skip, Wait, Timeout, Goto, TypeOK, LoopOK, Labels
  <2> QED
    BY <1>1, <2>1 DEF Skip, Wait, Timeout, list, network, TypeOK
<1>2. ASSUME NEW b \in Batches, Register(b)
      PROVE  TypeInv'
  <2>1. finish + 1 \in 1 .. MaxSlots
    BY <1>2 DEF Register, Construct, TypeOK
  <2>2. slots' \in [1 .. MaxSlots -> Batches \cup {Null}]
    BY <1>2, <2>1 DEF Register, Construct, TypeOK
  <2>3. slot' \in [Batches -> 1 .. MaxSlots]
    BY <1>2, <2>1 DEF Register, Construct, TypeOK
  <2>4. pc' \in [Batches -> Labels] /\ LoopOK'
    BY <1>2 DEF Register, Goto, TypeOK, Labels, LoopOK
  <2> QED
    BY <1>2, <2>2, <2>3, <2>4 DEF Register, Construct, network, TypeOK
<1>3. ASSUME NEW b \in Batches, Send(b)
      PROVE  TypeInv'
  <2>1. flight' \in [Cids -> Nat]
    BY <1>3 DEF Send, TypeOK
  <2>2. slot' \in [Batches -> 1 .. MaxSlots] /\ finish' \in 0 .. MaxSlots /\ slots' = slots
    BY <1>3 DEF Send, MoveEnd, TypeOK
  <2>3. pc' \in [Batches -> Labels] /\ LoopOK'
    BY <1>3 DEF Send, Goto, TypeOK, Labels, LoopOK
  <2> QED
    BY <1>3, <2>1, <2>2, <2>3 DEF Send, TypeOK
<1>4. ASSUME NEW b \in Batches, Check(b)
      PROVE  TypeInv'
  BY <1>4 DEF Check, MoreToSend, Goto, list, network, TypeOK, LoopOK, Labels
<1>5. ASSUME NEW b \in Batches, Remove(b)
      PROVE  TypeInv'
  <2>1. ListOK'
    BY <1>0, <1>5, RemoveList DEF Remove
  <2>2. counter' \in [Batches -> Nat] /\ (\A a \in Batches : counter'[a] <= Resends[a])
    BY <1>5 DEF Remove, TypeOK, LoopOK
  <2>3. pc' \in [Batches -> Labels] /\ LoopOK'
    BY <1>5 DEF Remove, Goto, TypeOK, Labels, LoopOK
  <2> QED
    BY <1>5, <2>1, <2>2, <2>3 DEF Remove, network, TypeOK, ListOK
<1>6. ASSUME NEW b \in Batches, Finish(b)
      PROVE  TypeInv'
  <2>1. ListOK'
    BY <1>0, <1>6, RemoveList DEF Finish
  <2> QED
    BY <1>6, <2>1 DEF Finish, Goto, network, TypeOK, ListOK, LoopOK, Labels
<1>7. ASSUME NEW b \in Batches, Collect(b)
      PROVE  TypeInv'
  <2>1. result' \in [Batches -> SUBSET Nat]
    BY <1>7 DEF Collect, TypeOK
  <2> QED
    BY <1>7, <2>1 DEF Collect, Goto, list, network, TypeOK, LoopOK, Labels
<1>8. ASSUME NEW c \in Cids, Deliver(c)
      PROVE  TypeInv'
  <2>1. flight' \in [Cids -> Nat]
    BY <1>8 DEF Deliver, TypeOK
  <2>2. recv' \in Receiver
    BY <1>8 DEF Deliver, Receiver
  <2> QED
    BY <1>8, <2>1, <2>2 DEF Deliver, list, TypeOK, LoopOK
<1>9. ASSUME Scan
      PROVE  TypeInv'
  <2>1. /\ recv = [phase |-> "scan", cid |-> recv.cid, pos |-> recv.pos]
        /\ recv.cid \in Cids
        /\ recv.pos \in 1 .. MaxSlots + 1
    BY <1>9 DEF Scan, TypeOK, Receiver, Idle
  <2>2. ListOK'
    BY <1>0, <1>9, CompactList DEF Scan, list, ListOK
  <2>3. recv' \in Receiver
    <3>1. CASE recv' = Idle
      BY <3>1 DEF Receiver
    <3>2. CASE recv.pos <= finish /\ recv' = [recv EXCEPT !.pos = @ + 1]
      <4>1. recv' = [phase |-> "scan", cid |-> recv.cid, pos |-> recv.pos + 1]
        BY <2>1, <3>2
      <4>2. recv.pos + 1 \in 1 .. MaxSlots + 1
        BY <2>1, <3>2 DEF TypeOK
      <4> QED
        BY <2>1, <4>1, <4>2 DEF Receiver
    <3>3. CASE recv.pos <= finish /\ recv' = [recv EXCEPT !.phase = "add"]
      <4>1. recv' = [phase |-> "add", cid |-> recv.cid, pos |-> recv.pos]
        BY <2>1, <3>3
      <4>2. recv.pos \in 1 .. MaxSlots
        BY <2>1, <3>3 DEF TypeOK
      <4> QED
        BY <2>1, <4>1, <4>2 DEF Receiver
    <3> QED
      BY <1>9, <3>1, <3>2, <3>3 DEF Scan
  <2> QED
    BY <1>9, <2>2, <2>3 DEF Scan, network, ListOK, TypeOK, LoopOK
<1>10. ASSUME AddResponse
       PROVE  TypeInv'
  <2>1. recv.cid \in Cids
    BY <1>10 DEF AddResponse, TypeOK, Receiver, Idle
  <2>2. incoming' \in [Batches -> Seq(Cids)]
    <3>1. CASE incoming' = incoming
      BY <3>1 DEF TypeOK
    <3>2. ASSUME NEW b \in Batches,
                 incoming' = [incoming EXCEPT ![b] = Append(@, recv.cid)]
          PROVE  incoming' \in [Batches -> Seq(Cids)]
      <4>1. Append(incoming[b], recv.cid) \in Seq(Cids)
        BY <2>1 DEF TypeOK
      <4> QED
        BY <3>2, <4>1 DEF TypeOK
    <3> QED
      BY <1>10, <3>1, <3>2 DEF AddResponse
  <2>3. pc' \in [Batches -> Labels] /\ LoopOK'
    BY <1>10 DEF AddResponse, TypeOK, Labels, LoopOK
  <2>4. recv' \in Receiver /\ crashed' \in BOOLEAN
    BY <1>10 DEF AddResponse, AfterAdd, TypeOK, Receiver
  <2> QED
    BY <1>10, <2>2, <2>3, <2>4 DEF AddResponse, list, network, TypeOK
<1>11. ASSUME Stop
       PROVE  TypeInv'
  BY <1>11 DEF Stop, list, network, TypeOK, LoopOK
<1>12. ASSUME NEW c \in Cids, Double(c)
       PROVE  TypeInv'
  <2>1. flight' \in [Cids -> Nat] /\ doubled' \in [Cids -> Nat]
    BY <1>12 DEF Double, TypeOK
  <2> QED
    BY <1>12, <2>1 DEF Double, list, TypeOK, LoopOK
<1> QED
  BY <1>1, <1>2, <1>3, <1>4, <1>5, <1>6, <1>7, <1>8, <1>9, <1>10, <1>11, <1>12
  DEF Next, Running, Step

\* A step that changes nothing keeps them too.
LEMMA TypeStutter ==
  ASSUME TypeInv, UNCHANGED vars
  PROVE  TypeInv'
BY DEF vars, list, network, TypeInv, TypeOK, LoopOK

\* The types and the bounds of the resend loop always hold.
LEMMA TypeInvariant == Spec => []TypeInv
<1>1. TypeInv /\ [Next]_vars => TypeInv'
  BY TypeStep, TypeStutter
<1> QED
  BY <1>1, TypeInit, PTL DEF Spec

\* The operations, the list of running batches and the packet handler stay well
\* typed: no interleaving takes the end of the list out of its memory, or the
\* counter of retries past its limit.
THEOREM BatchTypes == Spec => []TypeOK
BY TypeInvariant, PTL DEF TypeInv


-----------------------------------------------------------------------------
(* Retries *)

\* From the end of the resend loop on: too few responses while the worker runs
\* means that the retries are used up.
LeftLoop ==
  \A b \in Batches :
    /\ pc[b] \in {"finish", "collect", "done"}
    /\ m_started
    /\ Len(incoming[b]) < Need[b]
    => counter[b] = Resends[b]

\* No step takes an operation out of its resend loop early while the worker runs.
LEMMA LeftLoopStep ==
  ASSUME TypeInv, LeftLoop, Next
  PROVE  LeftLoop'
<1>0. TypeOK
  BY DEF TypeInv
<1>1. ASSUME NEW b \in Batches,
             Skip(b) \/ Register(b) \/ Send(b) \/ Wait(b) \/ Timeout(b) \/ Finish(b) \/ Collect(b)
      PROVE  LeftLoop'
  <2>1. /\ UNCHANGED <<counter, incoming, m_started>>
        /\ \A a \in Batches \ {b} : pc'[a] = pc[a]
    BY <1>0, <1>1 DEF Skip, Register, Send, Wait, Timeout, Finish, Collect, Goto, TypeOK
  <2>2. \/ pc'[b] \notin {"finish", "collect", "done"}
        \/ pc[b] \in {"finish", "collect", "done"}
        \/ ~m_started
    BY <1>0, <1>1 DEF Skip, Register, Send, Wait, Timeout, Finish, Collect, Goto, TypeOK
  <2> QED
    BY <2>1, <2>2 DEF LeftLoop
<1>2. ASSUME NEW b \in Batches, Check(b)
      PROVE  LeftLoop'
  <2>1. /\ UNCHANGED <<counter, incoming, m_started>>
        /\ \A a \in Batches \ {b} : pc'[a] = pc[a]
    BY <1>0, <1>2 DEF Check, Goto, TypeOK
  <2>2. CASE MoreToSend(b)
    <3>1. pc'[b] = "remove"
      BY <1>0, <1>2, <2>2 DEF Check, Goto, TypeOK
    <3> QED
      BY <2>1, <3>1 DEF LeftLoop
  <2>3. CASE ~MoreToSend(b)
    <3>1. counter[b] \in Nat /\ Resends[b] \in Nat /\ counter[b] <= Resends[b]
      BY <1>0 DEF TypeOK
    <3>2. m_started /\ Len(incoming[b]) < Need[b] => counter[b] = Resends[b]
      BY <2>3, <3>1 DEF MoreToSend
    <3> QED
      BY <2>1, <3>2 DEF LeftLoop
  <2> QED
    BY <2>2, <2>3
<1>3. ASSUME NEW b \in Batches, Remove(b)
      PROVE  LeftLoop'
  <2>1. /\ UNCHANGED <<incoming, m_started>>
        /\ \A a \in Batches \ {b} : pc'[a] = pc[a] /\ counter'[a] = counter[a]
        /\ pc'[b] = "resend"
    BY <1>0, <1>3 DEF Remove, Goto, TypeOK
  <2> QED
    BY <2>1 DEF LeftLoop
<1>4. ASSUME (\E c \in Cids : Deliver(c) \/ Double(c)) \/ Scan
      PROVE  LeftLoop'
  BY <1>4 DEF Deliver, Double, Scan, LeftLoop
<1>5. ASSUME AddResponse
      PROVE  LeftLoop'
  <2>1. CASE UNCHANGED <<pc, incoming>>
    BY <1>5, <2>1 DEF AddResponse, LeftLoop
  <2>2. ASSUME NEW b \in Batches,
               incoming' = [incoming EXCEPT ![b] = Append(@, recv.cid)],
               pc' = IF pc[b] = "wait" /\ Notified(b) THEN [pc EXCEPT ![b] = "check"] ELSE pc
        PROVE  LeftLoop'
    <3>1. recv.cid \in Cids
      BY <1>0, <1>5 DEF AddResponse, TypeOK, Receiver, Idle
    <3>2. Len(Append(incoming[b], recv.cid)) = Len(incoming[b]) + 1 /\ Len(incoming[b]) \in Nat
      BY <1>0, <3>1 DEF TypeOK
    <3>3. \A a \in Batches : Len(incoming'[a]) < Need[a] => Len(incoming[a]) < Need[a]
      BY <1>0, <2>2, <3>2 DEF TypeOK
    <3>4. \A a \in Batches : pc'[a] \in {"finish", "collect", "done"} => pc[a] = pc'[a]
      BY <1>0, <2>2 DEF TypeOK
    <3>5. UNCHANGED <<counter, m_started>>
      BY <1>5 DEF AddResponse
    <3> QED
      BY <3>3, <3>4, <3>5 DEF LeftLoop
  <2> QED
    BY <1>5, <2>1, <2>2 DEF AddResponse
<1>6. ASSUME Stop
      PROVE  LeftLoop'
  BY <1>6 DEF Stop, LeftLoop
<1> QED
  BY <1>1, <1>2, <1>3, <1>4, <1>5, <1>6 DEF Next, Running, Step

\* An operation gives up early for no reason but the stop of the worker.
THEOREM OperationsGiveUpLate == Spec => []GivesUpLate
<1>1. Init => LeftLoop
  BY DEF Init, LeftLoop
<1>2. TypeInv /\ LeftLoop /\ [Next]_vars => LeftLoop'
  <2>1. ASSUME LeftLoop, UNCHANGED vars
        PROVE  LeftLoop'
    BY <2>1 DEF LeftLoop, vars
  <2> QED
    BY <2>1, LeftLoopStep
<1>3. LeftLoop => GivesUpLate
  BY DEF LeftLoop, GivesUpLate
<1> QED
  BY <1>1, <1>2, <1>3, TypeInvariant, PTL DEF Spec


-----------------------------------------------------------------------------
(* Counting responses *)

\* The responses to a request that are added, held or in flight are not more
\* than the copies sent or made on the way.  (That Added is finite is what lets it be
\* counted.)
Copies(b, c) == Sends(b) + doubled[c]

Counted(b, c) ==
  /\ IsFiniteSet(Added(c))
  /\ Cardinality(Added(c)) + flight[c] + Held(c) <= Copies(b, c)

Counting == \A b \in Batches : \A c \in Packets[b] : Counted(b, c)

\* A step that adds no response keeps the count if what is in flight or held
\* grows no more than the number of copies.
LEMMA NothingAdded ==
  ASSUME TypeOK, TypeOK', Counting, UNCHANGED incoming,
         \A b \in Batches : \A c \in Packets[b] :
           flight'[c] + Held(c)' - (flight[c] + Held(c)) <= Copies(b, c)' - Copies(b, c)
  PROVE  Counting'
<1> SUFFICES ASSUME NEW b \in Batches, NEW c \in Packets[b]
             PROVE  Counted(b, c)'
  BY DEF Counting
<1>1. Added(c)' = Added(c)
  BY DEF Added
<1>2. Counted(b, c)
  BY DEF Counting
<1>3. c \in Cids
  OBVIOUS
<1>4. flight[c] \in Nat /\ flight'[c] \in Nat
  BY <1>3 DEF TypeOK
<1>5. /\ Held(c) \in Nat /\ Held(c)' \in Nat
      /\ doubled[c] \in Nat /\ doubled'[c] \in Nat
      /\ Sends(b) \in Nat /\ Sends(b)' \in Nat
  BY <1>3 DEF Held, TypeOK, Sends
<1>6. Copies(b, c) \in Nat /\ Copies(b, c)' \in Nat
  BY <1>5 DEF Copies
<1>7. Cardinality(Added(c)) \in Nat
  BY <1>2, FS_CardinalityType DEF Counted
<1>8. flight'[c] + Held(c)' - (flight[c] + Held(c)) <= Copies(b, c)' - Copies(b, c)
  OBVIOUS
<1>9. Cardinality(Added(c)) + flight'[c] + Held(c)' <= Copies(b, c)'
  BY <1>2, <1>4, <1>5, <1>6, <1>7, <1>8 DEF Counted
<1> QED
  BY <1>1, <1>2, <1>9 DEF Counted

\* addResponse () adds one response, to the request it answers.
LEMMA OneMoreAdded ==
  ASSUME TypeOK, NEW b \in Batches, NEW c \in Cids, NEW d \in Cids,
         incoming' = [incoming EXCEPT ![b] = Append(@, c)]
  PROVE  Added(d)' = Added(d) \cup (IF d = c THEN {<<b, Len(incoming[b]) + 1>>} ELSE {})
<1> DEFINE At(a) == {i \in 1 .. Len(incoming[a]) : incoming[a][i] = d}
<1>1. \A a \in Batches : Len(incoming[a]) \in Nat /\ incoming[a] \in Seq(Cids)
  BY DEF TypeOK
<1>2. \A a \in Batches \ {b} : incoming'[a] = incoming[a]
  BY DEF TypeOK
<1>3. incoming'[b] = Append(incoming[b], c)
  BY DEF TypeOK
<1>4. /\ Len(incoming'[b]) = Len(incoming[b]) + 1
      /\ \A i \in 1 .. Len(incoming[b]) : incoming'[b][i] = incoming[b][i]
      /\ incoming'[b][Len(incoming[b]) + 1] = c
  BY <1>1, <1>3
<1>5. At(b)' = At(b) \cup (IF d = c THEN {Len(incoming[b]) + 1} ELSE {})
  BY <1>1, <1>4
<1>6. \A a \in Batches \ {b} : At(a)' = At(a)
  BY <1>2
<1>7. Added(d) = UNION {{a} \X At(a) : a \in Batches}
  BY DEF Added
<1>8. Added(d)' = UNION {{a} \X At(a)' : a \in Batches}
  BY DEF Added
<1> HIDE DEF At
<1> QED
  BY <1>5, <1>6, <1>7, <1>8


\* An element more is at most one more to count.
LEMMA AddingOne ==
  ASSUME NEW S, IsFiniteSet(S), NEW x
  PROVE  IsFiniteSet(S \cup {x}) /\ Cardinality(S \cup {x}) <= Cardinality(S) + 1
<1>1. Cardinality(S) \in Nat
  BY FS_CardinalityType
<1>2. /\ IsFiniteSet(S \cup {x})
      /\ Cardinality(S \cup {x}) = IF x \in S THEN Cardinality(S) ELSE Cardinality(S) + 1
  BY FS_AddElement
<1> QED
  BY <1>1, <1>2

\* Every step keeps the count of responses within the count of sends.
LEMMA CountingStep ==
  ASSUME TypeOK, TypeOK', Counting, Next
  PROVE  Counting'
<1>0. /\ \A b \in Batches : Sends(b) \in Nat /\ Sends(b)' \in Nat
      /\ \A c \in Cids : flight[c] \in Nat /\ flight'[c] \in Nat
      /\ \A c \in Cids : doubled[c] \in Nat /\ doubled'[c] \in Nat
      /\ \A c \in Cids : Held(c) \in Nat /\ Held(c)' \in Nat
      /\ \A b \in Batches : Packets[b] \subseteq Cids
  <2>1. \A b \in Batches : Sends(b) \in Nat /\ Sends(b)' \in Nat
    BY DEF TypeOK, Sends
  <2>2. \A c \in Cids : /\ flight[c] \in Nat /\ flight'[c] \in Nat
                       /\ doubled[c] \in Nat /\ doubled'[c] \in Nat
    BY DEF TypeOK
  <2>3. \A c \in Cids : Held(c) \in Nat /\ Held(c)' \in Nat
    BY DEF Held
  <2> QED
    BY <2>1, <2>2, <2>3
<1>1. ASSUME NEW b \in Batches,
             \/ Skip(b) \/ Register(b) \/ Wait(b) \/ Timeout(b) \/ Check(b)
             \/ Remove(b) \/ Finish(b) \/ Collect(b)
      PROVE  Counting'
  <2>1. UNCHANGED <<incoming, flight, doubled, recv>>
    BY <1>1 DEF Skip, Register, Wait, Timeout, Check, Remove, Finish, Collect, network
  <2>2. \A a \in Batches \ {b} : pc'[a] = pc[a] /\ counter'[a] = counter[a]
    BY <1>1 DEF Skip, Register, Wait, Timeout, Check, Remove, Finish, Collect, Goto, TypeOK
  <2>3. Sends(b)' = Sends(b)
    <3>1. CASE Remove(b)
      <4>1. pc[b] = "remove" /\ pc'[b] = "resend" /\ counter'[b] = counter[b] + 1
        BY <3>1 DEF Remove, Goto, TypeOK
      <4> QED
        BY <4>1 DEF Sends
    <3>2. CASE ~Remove(b)
      <4>1. counter'[b] = counter[b]
        BY <1>1, <3>2 DEF Skip, Register, Wait, Timeout, Check, Finish, Collect
      <4>2. pc[b] \in {"start", "push", "resend", "skipped"}
              <=> pc'[b] \in {"start", "push", "resend", "skipped"}
        BY <1>1, <3>2
        DEF Skip, Register, Wait, Timeout, Check, Finish, Collect, Goto, TypeOK
      <4> QED
        BY <4>1, <4>2 DEF Sends
    <3> QED
      BY <3>1, <3>2
  <2>4. \A a \in Batches : Sends(a)' = Sends(a)
    BY <2>2, <2>3 DEF Sends
  <2>5. \A c \in Cids : flight'[c] = flight[c] /\ Held(c)' = Held(c)
    BY <2>1 DEF Held
  <2>6. \A a \in Batches, c \in Cids : Copies(a, c)' = Copies(a, c)
    BY <2>1, <2>4 DEF Copies
  <2>7. \A a \in Batches, c \in Cids : Copies(a, c) \in Nat
    BY <1>0 DEF Copies
  <2> QED
    BY <1>0, <2>1, <2>5, <2>6, <2>7, NothingAdded
<1>2. ASSUME NEW b \in Batches, Send(b)
      PROVE  Counting'
  <2>1. UNCHANGED <<incoming, counter, recv, doubled>>
    BY <1>2 DEF Send
  <2>2. Sends(b)' = Sends(b) + 1
    BY <1>2 DEF Send, Goto, Sends, TypeOK
  <2>3. \A a \in Batches \ {b} : Sends(a)' = Sends(a)
    BY <1>2 DEF Send, Goto, Sends, TypeOK
  <2>4. \A c \in Cids : /\ Held(c)' = Held(c)
                       /\ flight'[c] = IF c \in Packets[b] THEN flight[c] + 1 ELSE flight[c]
    BY <1>2, <2>1 DEF Send, Held
  <2>5. \A a \in Batches \ {b} : Packets[a] \cap Packets[b] = {}
    OBVIOUS
  <2>6. ASSUME NEW a \in Batches, NEW c \in Packets[a]
        PROVE  flight'[c] + Held(c)' - (flight[c] + Held(c)) <= Copies(a, c)' - Copies(a, c)
    <3>1. CASE a = b
      BY <1>0, <2>1, <2>2, <2>4, <3>1 DEF Copies
    <3>2. CASE a # b
      <4>1. c \in Cids /\ c \notin Packets[b]
        BY <1>0, <2>5, <3>2
      <4> QED
        BY <1>0, <2>1, <2>3, <2>4, <3>2, <4>1 DEF Copies
    <3> QED
      BY <3>1, <3>2
  <2> QED
    BY <2>1, <2>6, NothingAdded
<1>3. ASSUME NEW d \in Cids, Deliver(d)
      PROVE  Counting'
  <2>1. UNCHANGED <<incoming, counter, pc, doubled>>
    BY <1>3 DEF Deliver
  <2>2. \A a \in Batches : Sends(a)' = Sends(a)
    BY <2>1 DEF Sends
  <2>3. \A c \in Cids : Held(c) = 0 /\ Held(c)' = IF c = d THEN 1 ELSE 0
    BY <1>3 DEF Deliver, Held, Idle
  <2>4. \A c \in Cids : flight'[c] = IF c = d THEN flight[c] - 1 ELSE flight[c]
    BY <1>3 DEF Deliver, TypeOK
  <2>5. ASSUME NEW a \in Batches, NEW c \in Packets[a]
        PROVE  flight'[c] + Held(c)' - (flight[c] + Held(c)) <= Copies(a, c)' - Copies(a, c)
    <3>1. c \in Cids
      BY <1>0
    <3> QED
      BY <1>0, <2>1, <2>2, <2>3, <2>4, <3>1 DEF Copies
  <2> QED
    BY <2>1, <2>5, NothingAdded
<1>4. ASSUME Scan
      PROVE  Counting'
  <2>1. UNCHANGED <<incoming, counter, pc, flight, doubled>>
    BY <1>4 DEF Scan, network
  <2>2. \A a \in Batches : Sends(a)' = Sends(a)
    BY <2>1 DEF Sends
  <2>3. /\ recv = [phase |-> "scan", cid |-> recv.cid, pos |-> recv.pos]
        /\ recv' = Idle \/ (recv'.phase # "idle" /\ recv'.cid = recv.cid)
    <3>1. recv \in Receiver /\ recv.phase = "scan"
      BY <1>4 DEF Scan, TypeOK
    <3>2. recv = [phase |-> "scan", cid |-> recv.cid, pos |-> recv.pos]
      BY <3>1 DEF Receiver, Idle
    <3>3. \/ recv' = Idle
          \/ recv' = [recv EXCEPT !.pos = @ + 1]
          \/ recv' = [recv EXCEPT !.phase = "add"]
      BY <1>4 DEF Scan
    <3> QED
      BY <3>2, <3>3
  <2>4. \A c \in Cids : Held(c)' <= Held(c)
    BY <2>3 DEF Held, Idle
  <2>5. ASSUME NEW a \in Batches, NEW c \in Packets[a]
        PROVE  flight'[c] + Held(c)' - (flight[c] + Held(c)) <= Copies(a, c)' - Copies(a, c)
    <3>1. c \in Cids
      BY <1>0
    <3> QED
      BY <1>0, <2>1, <2>2, <2>4, <3>1 DEF Copies
  <2> QED
    BY <2>1, <2>5, NothingAdded
<1>5. ASSUME AddResponse
      PROVE  Counting'
  <2>1. UNCHANGED <<flight, counter, doubled>>
    BY <1>5 DEF AddResponse, network
  <2>2. CASE UNCHANGED <<pc, incoming, recv>>
    <3>1. \A a \in Batches : Sends(a)' = Sends(a)
      BY <2>1, <2>2 DEF Sends
    <3>2. \A c \in Cids : flight'[c] = flight[c] /\ Held(c)' = Held(c)
      BY <2>1, <2>2 DEF Held
    <3> QED
      BY <1>0, <2>1, <2>2, <3>1, <3>2, NothingAdded DEF Copies
  <2>3. ASSUME NEW b \in Batches,
               incoming' = [incoming EXCEPT ![b] = Append(@, recv.cid)],
               pc' = IF pc[b] = "wait" /\ Notified(b) THEN [pc EXCEPT ![b] = "check"] ELSE pc,
               recv' = Idle
        PROVE  Counting'
    <3>1. recv.cid \in Cids /\ recv.phase = "add"
      <4>1. recv \in Receiver /\ recv.phase = "add"
        BY <1>5 DEF AddResponse, TypeOK
      <4>2. recv # Idle
        BY <4>1 DEF Idle
      <4> QED
        BY <4>1, <4>2 DEF Receiver
    <3>2. \A a \in Batches : Sends(a)' = Sends(a)
      <4> SUFFICES ASSUME NEW a \in Batches PROVE Sends(a)' = Sends(a)
        OBVIOUS
      <4>1. CASE pc' = pc
        BY <2>1, <4>1 DEF Sends
      <4>2. CASE pc[b] = "wait" /\ pc' = [pc EXCEPT ![b] = "check"]
        <5>1. \/ pc'[a] = pc[a]
              \/ pc[a] = "wait" /\ pc'[a] = "check"
          BY <4>2 DEF TypeOK
        <5> QED
          BY <2>1, <5>1 DEF Sends
      <4> QED
        BY <2>3, <4>1, <4>2
    <3>3. \A c \in Cids : Held(c)' = 0 /\ Held(c) = IF c = recv.cid THEN 1 ELSE 0
      BY <2>3, <3>1 DEF Held, Idle
    <3> SUFFICES ASSUME NEW a \in Batches, NEW c \in Packets[a]
                 PROVE  Counted(a, c)'
      BY DEF Counting
    <3>4. c \in Cids /\ Counted(a, c)
      BY <1>0 DEF Counting
    <3>5. Added(c)' = Added(c) \cup (IF c = recv.cid THEN {<<b, Len(incoming[b]) + 1>>} ELSE {})
      BY <2>3, <3>1, <3>4, OneMoreAdded
    <3>6. Cardinality(Added(c)) \in Nat
      BY <3>4, FS_CardinalityType DEF Counted
    <3>7. CASE c = recv.cid
      <4>1. /\ IsFiniteSet(Added(c)')
            /\ Cardinality(Added(c)') <= Cardinality(Added(c)) + 1
        <5>1. Added(c)' = Added(c) \cup {<<b, Len(incoming[b]) + 1>>}
          BY <3>5, <3>7
        <5>2. IsFiniteSet(Added(c))
          BY <3>4 DEF Counted
        <5>3. /\ IsFiniteSet(Added(c) \cup {<<b, Len(incoming[b]) + 1>>})
              /\ Cardinality(Added(c) \cup {<<b, Len(incoming[b]) + 1>>})
                   <= Cardinality(Added(c)) + 1
          BY <5>2, AddingOne
        <5> QED
          BY <5>1, <5>3
      <4>2. Cardinality(Added(c)') \in Nat
        BY <4>1, FS_CardinalityType
      <4> QED
        BY <1>0, <2>1, <3>2, <3>3, <3>4, <3>6, <3>7, <4>1, <4>2 DEF Counted, Copies
    <3>8. CASE c # recv.cid
      <4>1. Added(c)' = Added(c)
        BY <3>5, <3>8
      <4> QED
        BY <1>0, <2>1, <3>2, <3>3, <3>4, <3>8, <4>1 DEF Counted, Copies
    <3> QED
      BY <3>7, <3>8
  <2> QED
    BY <1>5, <2>2, <2>3 DEF AddResponse, AfterAdd
<1>6. ASSUME Stop
      PROVE  Counting'
  <2>1. UNCHANGED <<incoming, counter, pc, recv, flight, doubled>>
    BY <1>6 DEF Stop, network
  <2>2. \A a \in Batches, c \in Cids : Copies(a, c)' = Copies(a, c) /\ Copies(a, c) \in Nat
    BY <1>0, <2>1 DEF Copies, Sends
  <2>3. \A c \in Cids : flight'[c] = flight[c] /\ Held(c)' = Held(c)
    BY <2>1 DEF Held
  <2> QED
    BY <1>0, <2>1, <2>2, <2>3, NothingAdded
<1>7. ASSUME NEW d \in Cids, Double(d)
      PROVE  Counting'
  <2>1. UNCHANGED <<incoming, counter, pc, recv>>
    BY <1>7 DEF Double
  <2>2. \A a \in Batches : Sends(a)' = Sends(a)
    BY <2>1 DEF Sends
  <2>3. \A c \in Cids : Held(c)' = Held(c)
    BY <2>1 DEF Held
  <2>4. \A c \in Cids : /\ flight'[c] = IF c = d THEN flight[c] + 1 ELSE flight[c]
                       /\ doubled'[c] = IF c = d THEN doubled[c] + 1 ELSE doubled[c]
    BY <1>7 DEF Double, TypeOK
  <2>5. ASSUME NEW a \in Batches, NEW c \in Packets[a]
        PROVE  flight'[c] + Held(c)' - (flight[c] + Held(c)) <= Copies(a, c)' - Copies(a, c)
    <3>1. c \in Cids
      BY <1>0
    <3> QED
      BY <1>0, <2>2, <2>3, <2>4, <3>1 DEF Copies
  <2> QED
    BY <2>1, <2>5, NothingAdded
<1> QED
  BY <1>1, <1>2, <1>3, <1>4, <1>5, <1>6, <1>7 DEF Next, Running, Step

\* Nothing is sent, held or counted at the start.
LEMMA CountingInit == Init => Counting
<1> SUFFICES ASSUME Init, NEW b \in Batches, NEW c \in Packets[b]
             PROVE  Counted(b, c)
  BY DEF Counting
<1>1. Added(c) = {}
  BY DEF Init, Added
<1>2. IsFiniteSet(Added(c)) /\ Cardinality(Added(c)) = 0
  BY <1>1, FS_EmptySet
<1>3. Held(c) = 0 /\ flight[c] = 0 /\ Copies(b, c) = 0
  BY DEF Init, Held, Idle, Sends, Copies
<1> QED
  BY <1>2, <1>3 DEF Counted

\* Whatever the threads do to the list of running batches, one datagram is
\* never counted for two: all the batches together count no more responses than
\* requests were sent and copies of them were made on the way.
THEOREM ResponsesCountedOnce == Spec => []CountedOnce
<1>1. TypeInv /\ TypeInv' /\ Counting /\ [Next]_vars => Counting'
  <2>1. ASSUME Counting, UNCHANGED vars
        PROVE  Counting'
    <3>1. UNCHANGED <<incoming, counter, pc, recv, flight, doubled>>
      BY <2>1 DEF vars, network
    <3>2. \A b, c : Counted(b, c)' = Counted(b, c)
      BY <3>1 DEF Counted, Added, Held, Sends, Copies
    <3> QED
      BY <2>1, <3>2 DEF Counting
  <2> QED
    BY <2>1, CountingStep DEF TypeInv
<1>2. Counting => CountedOnce
  BY DEF Counting, Counted, Copies, CountedOnce
<1> QED
  BY <1>1, <1>2, CountingInit, TypeInvariant, PTL DEF Spec

-----------------------------------------------------------------------------
(* The way of packets between nodes (PacketDispatch) *)

USE DispatchAssumption

\* What is under way goes to a node.
Datagram == {p \in Packet : p.to \in Nodes}

Request(n, m, t, v, id) ==
  [from |-> n, to |-> m, c |-> [type |-> t, ver |-> v, cid |-> id, body |-> "none"]]
Answer(n, m, b, id) ==
  [from |-> n, to |-> m, c |-> [type |-> "N", ver |-> 4, cid |-> id, body |-> b]]
Refusal(n, m) == [from |-> n, to |-> m, c |-> Invalid]

Bodies == {"empty", "data", "other"}

\* What nodes send because of packets of D is of D again.
Closed(D) ==
  /\ D \subseteq Datagram
  /\ \A n, m \in Nodes, t \in Requests, v \in {3, 4}, id \in 1 .. MaxSent :
       Request(n, m, t, v, id) \in D
  /\ \A p \in D, n \in Nodes, b \in Bodies : Answer(n, p.from, b, p.c.cid) \in D
  /\ \A p \in D, n \in Nodes : ~parseCommPacket(p.c) => Refusal(n, p.from) \in D

\* Packets that wait to be sent may have lost their destination.
Queued(D) == D \cup {p \in Packet : p.to = Nobody}

\* All packets, on the network and in the nodes, are of D.
Circulates(D) ==
  /\ BagToSet(net) \subseteq D
  /\ recvQueue \in [Nodes -> Seq(D)]
  /\ sendQueue \in [Nodes -> Seq(Queued(D))]
  /\ hand \in [Nodes -> Seq(D)]
  /\ posts \in [Nodes -> Seq(D)]

\* Taking a datagram leaves a part of the others, adding one adds only this one.
LEMMA BagFacts ==
  ASSUME NEW B, NEW p
  PROVE  /\ BagToSet(B (+) SetToBag({p})) = BagToSet(B) \cup {p}
         /\ BagToSet(B (-) SetToBag({p})) \subseteq BagToSet(B)
         /\ BagToSet(EmptyBag) = {}
BY DEF BagToSet, SetToBag, EmptyBag, (+), (-)

\* Putting behind a queue and taking from its head keep what it is made of.
LEMMA QueueFacts ==
  ASSUME NEW S, NEW queue \in [Nodes -> Seq(S)], NEW n \in Nodes
  PROVE  /\ \A p \in S : Put(queue, n, p) \in [Nodes -> Seq(S)]
         /\ [queue EXCEPT ![n] = << >>] \in [Nodes -> Seq(S)]
         /\ \A p \in S : [queue EXCEPT ![n] = <<p>>] \in [Nodes -> Seq(S)]
         /\ queue[n] # << >> => /\ Head(queue[n]) \in S
                                /\ queue[n][1] \in S
                                /\ [queue EXCEPT ![n] = Tail(@)] \in [Nodes -> Seq(S)]
<1>1. queue[n] \in Seq(S) /\ << >> \in Seq(S) /\ \A p \in S : <<p>> \in Seq(S)
  OBVIOUS
<1>2. \A p \in S : Append(queue[n], p) \in Seq(S)
  BY <1>1
<1>3. queue[n] # << >> => Head(queue[n]) \in S /\ queue[n][1] \in S /\ Tail(queue[n]) \in Seq(S)
  BY <1>1
<1> QED
  BY <1>1, <1>2, <1>3 DEF Put

\* The batches have requests only that were sent, and a handler thread has one packet
\* at most.
CountsOK ==
  /\ running \in [Nodes -> SUBSET Nat] /\ \A n \in Nodes : running[n] \subseteq 1 .. sent
  /\ sent \in 0 .. MaxSent /\ foreign \in Nat
  /\ up \in [Nodes -> BOOLEAN]
  /\ \A n \in Nodes : Len(hand[n]) <= 1

\* The packets stay in a set that is closed, unless a foreign program sends one that
\* is not of it.
LEMMA CirculatesStep ==
  ASSUME NEW D, Closed(D), Circulates(D), CountsOK, [DispatchNext]_dispatchVars,
         \A p \in Packet : SendForeign(p) => p \in D
  PROVE  Circulates(D)'
<1> USE DEF Circulates
<1>0. D \subseteq Queued(D) /\ \A p \in Queued(D) : p.to # Nobody => p \in D
  BY DEF Queued
<1>1. CASE UNCHANGED dispatchVars
  BY <1>1 DEF dispatchVars, node, bounds
<1>2. ASSUME NEW n \in Nodes, send(n)
      PROVE  Circulates(D)'
  <2>1. Head(sendQueue[n]) \in Queued(D) /\ sendQueue' \in [Nodes -> Seq(Queued(D))]
    BY <1>2, QueueFacts DEF send
  <2> DEFINE p == Head(sendQueue[n])
  <2>2. net' = net \/ (p \in D /\ net' = net (+) SetToBag({p}))
    BY <1>0, <1>2, <2>1 DEF send
  <2>3. BagToSet(net (+) SetToBag({p})) = BagToSet(net) \cup {p}
    BY BagFacts
  <2> HIDE DEF p
  <2>4. BagToSet(net') \subseteq D
    BY <2>2, <2>3 DEF BagToSet
  <2> QED
    BY <1>2, <2>1, <2>4 DEF send
<1>3. ASSUME NEW n \in Nodes, GetNext(n)
      PROVE  Circulates(D)'
  <2>1. Head(recvQueue[n]) \in D /\ recvQueue' \in [Nodes -> Seq(D)]
    BY <1>3, QueueFacts DEF GetNext
  <2>2. hand' \in [Nodes -> Seq(D)]
    BY <1>3, <2>1, QueueFacts DEF GetNext
  <2> QED
    BY <1>3, <2>1, <2>2 DEF GetNext
<1>4. ASSUME NEW n \in Nodes, Accept(n)
      PROVE  Circulates(D)'
  <2>1. hand[n][1] \in D /\ hand' \in [Nodes -> Seq(D)]
    BY <1>4, QueueFacts DEF Accept, Done
  <2>2. posts' = posts \/ posts' = Put(posts, n, hand[n][1])
    BY <1>4 DEF Accept
  <2>3. Put(posts, n, hand[n][1]) \in [Nodes -> Seq(D)]
    BY <2>1, QueueFacts
  <2> QED
    BY <1>4, <2>1, <2>2, <2>3 DEF Accept
<1>5. ASSUME NEW n \in Nodes, Refuse(n)
      PROVE  Circulates(D)'
  <2>1. hand[n][1] \in D /\ hand' \in [Nodes -> Seq(D)]
    BY <1>5, QueueFacts DEF Refuse, Done
  <2> DEFINE p == hand[n][1]
             to == IF parseCommPacket(p.c) THEN Nobody ELSE p.from
  <2>2. sendQueue' = Put(sendQueue, n, Refusal(n, to))
    BY <1>5 DEF Refuse, Refusal
  <2>3. Refusal(n, to) \in Queued(D)
    <3>1. CASE parseCommPacket(p.c)
      <4>1. Refusal(n, Nobody) \in Packet
        BY DEF Refusal, Invalid, Packet, Contents, Responses, Ids
      <4> QED
        BY <3>1, <4>1 DEF Refusal, Queued
    <3>2. CASE ~parseCommPacket(p.c)
      BY <1>0, <2>1, <3>2 DEF Closed
    <3> QED
      BY <3>1, <3>2
  <2> HIDE DEF p, to
  <2>4. sendQueue' \in [Nodes -> Seq(Queued(D))]
    BY <2>2, <2>3, QueueFacts
  <2> QED
    BY <1>5, <2>1, <2>4 DEF Refuse
<1>6. ASSUME NEW n \in Nodes, EndProcess(n)
      PROVE  Circulates(D)'
  <2>1. /\ hand' \in [Nodes -> Seq(D)] /\ posts' \in [Nodes -> Seq(D)]
        /\ recvQueue' \in [Nodes -> Seq(D)] /\ sendQueue' \in [Nodes -> Seq(Queued(D))]
    BY <1>6, QueueFacts DEF EndProcess, Done
  <2> QED
    BY <1>6, <2>1 DEF EndProcess
<1>7. ASSUME NEW n \in Nodes, RunPosted(n)
      PROVE  Circulates(D)'
  <2> DEFINE p == Head(posts[n])
  <2>1. p \in D /\ posts' \in [Nodes -> Seq(D)]
    BY <1>7, QueueFacts DEF RunPosted
  <2>2. \A t : Answers(t) \subseteq Bodies
    BY DEF Answers, Bodies
  <2>3. \/ sendQueue' = sendQueue
        \/ \E b \in Bodies : sendQueue' = Put(sendQueue, n, Answer(n, p.from, b, p.c.cid))
    BY <1>7, <2>2 DEF RunPosted, Answer
  <2>4. \A b \in Bodies : Answer(n, p.from, b, p.c.cid) \in Queued(D)
    BY <1>0, <2>1 DEF Closed
  <2> HIDE DEF p
  <2>5. \A b \in Bodies :
          Put(sendQueue, n, Answer(n, p.from, b, p.c.cid)) \in [Nodes -> Seq(Queued(D))]
    BY <2>4, QueueFacts
  <2>6. sendQueue' \in [Nodes -> Seq(Queued(D))]
    BY <2>3, <2>5
  <2> QED
    BY <1>7, <2>1, <2>6 DEF RunPosted
<1>8. ASSUME NEW n \in Nodes, NEW id \in Ids, RemoveBatch(n, id)
      PROVE  Circulates(D)'
  BY <1>8 DEF RemoveBatch
<1>9. ASSUME NEW n \in Nodes, NEW m \in Nodes, NEW t \in Requests, NEW v \in {3, 4},
             SendRequest(n, m, t, v)
      PROVE  Circulates(D)'
  <2>1. sendQueue' = Put(sendQueue, n, Request(n, m, t, v, sent + 1))
    BY <1>9 DEF SendRequest, Request
  <2>2. sent + 1 \in 1 .. MaxSent
    BY <1>9 DEF SendRequest, CountsOK
  <2>3. Request(n, m, t, v, sent + 1) \in Queued(D)
    BY <1>0, <2>2 DEF Closed
  <2>4. sendQueue' \in [Nodes -> Seq(Queued(D))]
    BY <2>1, <2>3, QueueFacts
  <2> QED
    BY <1>9, <2>4 DEF SendRequest
<1>10. ASSUME NEW p \in BagToSet(net), handle_receive(p)
       PROVE  Circulates(D)'
  <2>1. p \in D /\ p.to \in Nodes
    BY DEF Closed, Datagram
  <2>2. recvQueue' \in [Nodes -> Seq(D)]
    BY <1>10, <2>1, QueueFacts DEF handle_receive
  <2>3. BagToSet(net') \subseteq D
    BY <1>10, BagFacts DEF handle_receive
  <2> QED
    BY <1>10, <2>2, <2>3 DEF handle_receive
<1>11. ASSUME NEW p \in BagToSet(net), Lose(p) \/ Duplicate(p)
       PROVE  Circulates(D)'
  <2>1. net' = net (-) SetToBag({p}) \/ net' = net (+) SetToBag({p})
    BY <1>11 DEF Lose, Duplicate
  <2>2. /\ BagToSet(net (-) SetToBag({p})) \subseteq BagToSet(net)
        /\ BagToSet(net (+) SetToBag({p})) = BagToSet(net) \cup {p}
    BY BagFacts
  <2>3. BagToSet(net') \subseteq D
    <3>1. CASE net' = net (-) SetToBag({p})
      BY <2>2, <3>1
    <3>2. CASE net' = net (+) SetToBag({p})
      BY <2>2, <3>2
    <3> QED
      BY <2>1, <3>1, <3>2
  <2> QED
    BY <1>11, <2>3 DEF Lose, Duplicate, node
<1>12. ASSUME NEW p \in Packet, SendForeign(p)
       PROVE  Circulates(D)'
  <2>1. p \in D /\ net' = net (+) SetToBag({p})
    BY <1>12 DEF SendForeign
  <2>2. BagToSet(net (+) SetToBag({p})) = BagToSet(net) \cup {p}
    BY BagFacts
  <2>3. BagToSet(net') \subseteq D
    BY <2>1, <2>2
  <2> QED
    BY <1>12, <2>3 DEF SendForeign, node
<1> HIDE DEF Circulates
<1> QED
  BY <1>1, <1>2, <1>3, <1>4, <1>5, <1>6, <1>7, <1>8, <1>9, <1>10, <1>11, <1>12
    DEF DispatchNext, ThreadStep, Network

LEMMA CountsStep ==
  ASSUME Circulates(Datagram), CountsOK, [DispatchNext]_dispatchVars
  PROVE  CountsOK'
<1> USE DEF CountsOK
<1>0. hand \in [Nodes -> Seq(Datagram)]
  BY DEF Circulates
<1>1. ASSUME NEW n \in Nodes, Done(n)
      PROVE  \A k \in Nodes : Len(hand'[k]) <= 1
  BY <1>0, <1>1 DEF Done
<1>2. ASSUME NEW n \in Nodes, ThreadStep(n)
      PROVE  CountsOK'
  <2>1. CASE send(n) \/ RunPosted(n)
    BY <2>1 DEF send, RunPosted, bounds
  <2>2. CASE GetNext(n)
    <3>1. \A k \in Nodes : Len(hand'[k]) <= 1
      BY <1>0, <2>2 DEF GetNext
    <3> QED
      BY <2>2, <3>1 DEF GetNext, bounds
  <2>3. CASE Accept(n)
    BY <1>1, <2>3 DEF Accept, bounds
  <2>4. CASE Refuse(n)
    BY <1>1, <2>4 DEF Refuse, bounds
  <2>5. CASE EndProcess(n)
    <3>1. running' \in [Nodes -> SUBSET Nat] /\ \A k \in Nodes : running'[k] \subseteq 1 .. sent
      BY <2>5 DEF EndProcess
    <3> QED
      BY <1>1, <2>5, <3>1 DEF EndProcess, bounds
  <2> QED
    BY <1>2, <2>1, <2>2, <2>3, <2>4, <2>5 DEF ThreadStep
<1>3. ASSUME NEW n \in Nodes, NEW id \in Ids, RemoveBatch(n, id)
      PROVE  CountsOK'
  <2>1. running' \in [Nodes -> SUBSET Nat] /\ \A k \in Nodes : running'[k] \subseteq 1 .. sent
    BY <1>3 DEF RemoveBatch
  <2> QED
    BY <1>3, <2>1 DEF RemoveBatch, bounds
<1>4. ASSUME NEW n \in Nodes, NEW m \in Nodes, NEW t \in Requests, NEW v \in {3, 4},
             SendRequest(n, m, t, v)
      PROVE  CountsOK'
  <2>1. sent' = sent + 1 /\ sent' \in 0 .. MaxSent
    BY <1>4 DEF SendRequest
  <2>2. running' = [running EXCEPT ![n] = @ \cup {sent + 1}]
    BY <1>4 DEF SendRequest
  <2>3. \A k \in Nodes : running'[k] = IF k = n THEN running[n] \cup {sent + 1} ELSE running[k]
    BY <2>2
  <2>4. running' \in [Nodes -> SUBSET Nat] /\ \A k \in Nodes : running'[k] \subseteq 1 .. sent'
    BY <2>1, <2>2, <2>3
  <2> QED
    BY <1>4, <2>1, <2>4 DEF SendRequest
<1>5. ASSUME NEW p, handle_receive(p) \/ Lose(p) \/ Duplicate(p) \/ SendForeign(p)
      PROVE  CountsOK'
  BY <1>5 DEF handle_receive, Lose, Duplicate, SendForeign, node, bounds
<1>6. CASE UNCHANGED dispatchVars
  BY <1>6 DEF dispatchVars, node, bounds
<1> HIDE DEF CountsOK
<1> QED
  BY <1>2, <1>3, <1>4, <1>5, <1>6 DEF DispatchNext, Network

\* Without foreign programs only requests and answers go round, and every node lives.
Own == {p \in Datagram : /\ p.c.cid \in 1 .. MaxSent
                         /\ \/ p.c.type \in Requests
                            \/ p.c.type = "N" /\ p.c.body \in Bodies}

OwnOK == foreign = 0 => Circulates(Own) /\ \A n \in Nodes : up[n]

LEMMA PacketSets ==
  /\ Closed(Datagram) /\ Closed(Own)
  /\ \A p \in Own : p.c.type # "C" /\ p.c.body # "hollow" /\ p.c # Invalid
<1>1. \A n, m \in Nodes, t \in Requests, v \in {3, 4}, id \in 1 .. MaxSent :
        Request(n, m, t, v, id) \in Own
  BY DEF Request, Own, Datagram, Packet, Contents, Others, Requests, Ids
<1>2. \A n, m \in Nodes, b \in Bodies, id \in Ids : Answer(n, m, b, id) \in Datagram
  BY DEF Answer, Datagram, Packet, Contents, Responses, Bodies
<1>3. \A n, m \in Nodes, b \in Bodies, id \in 1 .. MaxSent : Answer(n, m, b, id) \in Own
  <2> SUFFICES ASSUME NEW n \in Nodes, NEW m \in Nodes, NEW b \in Bodies, NEW id \in 1 .. MaxSent
               PROVE  Answer(n, m, b, id) \in Own
    OBVIOUS
  <2>1. id \in Ids
    BY DEF Ids
  <2>2. Answer(n, m, b, id) \in Datagram
    BY <1>2, <2>1
  <2> QED
    BY <2>2 DEF Answer, Own
<1>4. \A n, m \in Nodes : Refusal(n, m) \in Datagram
  BY DEF Refusal, Invalid, Datagram, Packet, Contents, Responses, Ids
<1>5. \A p \in Datagram : p.from \in Nodes /\ p.c \in Contents
  BY DEF Datagram, Packet
<1>6. \A c \in Contents : c.cid \in Ids /\ (c.type \in Requests => c.body = "none")
  BY DEF Contents, Responses, Others, Requests, Ids
<1>7. Own \subseteq Datagram /\ \A p \in Own : p.c.cid \in 1 .. MaxSent
  BY DEF Own
<1>8. \A p \in Own : /\ parseCommPacket(p.c)
                     /\ p.c.type # "C" /\ p.c.body # "hollow" /\ p.c # Invalid
  <2> SUFFICES ASSUME NEW p \in Own
               PROVE  /\ parseCommPacket(p.c)
                      /\ p.c.type # "C" /\ p.c.body # "hollow" /\ p.c # Invalid
    OBVIOUS
  <2>1. p.c # Invalid
    BY <1>7 DEF Invalid
  <2>2. p.c.type \in Requests \/ (p.c.type = "N" /\ p.c.body \in Bodies)
    BY DEF Own
  <2>3. p.c.type \in Requests => p.c.body = "none"
    BY <1>5, <1>6, <1>7
  <2> QED
    BY <2>1, <2>2, <2>3 DEF parseCommPacket, Requests, Bodies
<1>9. Closed(Datagram)
  BY <1>1, <1>2, <1>4, <1>5, <1>6, <1>7 DEF Closed
<1>10. Closed(Own)
  BY <1>1, <1>3, <1>5, <1>7, <1>8 DEF Closed
<1> QED
  BY <1>8, <1>9, <1>10

LEMMA OwnStep ==
  ASSUME CountsOK, OwnOK, [DispatchNext]_dispatchVars
  PROVE  OwnOK'
<1>1. CASE \E p \in Packet : SendForeign(p)
  BY <1>1 DEF SendForeign, OwnOK, CountsOK
<1>2. CASE ~\E p \in Packet : SendForeign(p)
  <2>1. foreign' = foreign
    BY <1>2 DEF DispatchNext, ThreadStep, Network, send, GetNext, Accept, Refuse, EndProcess,
      RunPosted, RemoveBatch, SendRequest, handle_receive, Lose, Duplicate, dispatchVars, bounds
  <2> SUFFICES ASSUME foreign = 0
               PROVE  Circulates(Own)' /\ \A n \in Nodes : up'[n]
    BY <2>1 DEF OwnOK
  <2>2. Circulates(Own) /\ \A n \in Nodes : up[n]
    BY DEF OwnOK
  <2>3. Circulates(Own)'
    BY <1>2, <2>2, PacketSets, CirculatesStep
  <2>4. ASSUME NEW n \in Nodes, EndProcess(n)
        PROVE  FALSE
    <3>1. hand[n][1] \in Own
      BY <2>2, <2>4, QueueFacts DEF EndProcess, Circulates
    <3> QED
      BY <2>4, <3>1, PacketSets DEF EndProcess, Unsafe
  <2>5. up' = up
    BY <1>2, <2>4 DEF DispatchNext, ThreadStep, Network, send, GetNext, Accept, Refuse,
      RunPosted, RemoveBatch, SendRequest, handle_receive, Lose, Duplicate, dispatchVars, node
  <2> QED
    BY <2>2, <2>3, <2>5
<1> QED
  BY <1>1, <1>2

DispatchInv == Circulates(Datagram) /\ CountsOK /\ OwnOK

\* Nothing is under way at the start.
LEMMA DispatchInvInit == DispatchInit => DispatchInv
<1> SUFFICES ASSUME DispatchInit PROVE DispatchInv
  OBVIOUS
<1>1. ASSUME NEW D PROVE Circulates(D)
  <2>1. BagToSet(net) \subseteq D
    BY BagFacts DEF DispatchInit
  <2>2. << >> \in Seq(D) /\ << >> \in Seq(Queued(D))
    OBVIOUS
  <2> QED
    BY <2>1, <2>2 DEF DispatchInit, Circulates
<1>2. CountsOK
  BY DEF DispatchInit, CountsOK
<1>3. OwnOK
  BY <1>1 DEF DispatchInit, OwnOK
<1> QED
  BY <1>1, <1>2, <1>3 DEF DispatchInv

THEOREM DispatchInvariant == DispatchSpec => []DispatchInv
<1>1. DispatchInv /\ [DispatchNext]_dispatchVars => DispatchInv'
  <2> SUFFICES ASSUME DispatchInv, [DispatchNext]_dispatchVars
               PROVE  DispatchInv'
    OBVIOUS
  <2>1. \A p \in Packet : SendForeign(p) => p \in Datagram
    BY DEF SendForeign, Datagram
  <2>2. Circulates(Datagram)'
    BY <2>1, PacketSets, CirculatesStep DEF DispatchInv
  <2> QED
    BY <2>2, CountsStep, OwnStep DEF DispatchInv
<1> QED
  BY <1>1, DispatchInvInit, PTL DEF DispatchSpec

\* Packets and counters keep their types, whatever is lost, doubled or foreign.
THEOREM DispatchTypes == DispatchSpec => []DispatchTypeOK
<1>1. ASSUME DispatchInv PROVE DispatchTypeOK
  <2>1. Queued(Datagram) \subseteq Packet /\ Datagram \subseteq Packet
    BY DEF Queued, Datagram
  <2>2. Seq(Queued(Datagram)) \subseteq Seq(Packet) /\ Seq(Datagram) \subseteq Seq(Packet)
    BY <2>1
  <2>3. BagToSet(net) \subseteq Packet
    BY <1>1, <2>1 DEF DispatchInv, Circulates
  <2>4. ASSUME NEW n \in Nodes
        PROVE  /\ recvQueue[n] \in Seq(Packet) /\ sendQueue[n] \in Seq(Packet)
               /\ posts[n] \in Seq(Packet)
    BY <1>1, <2>2 DEF DispatchInv, Circulates
  <2>5. ASSUME NEW n \in Nodes
        PROVE  Len(hand[n]) <= 1 /\ running[n] \subseteq 1 .. sent /\ up[n] \in BOOLEAN
    BY <1>1 DEF DispatchInv, CountsOK
  <2> QED
    BY <2>3, <2>4, <2>5 DEF DispatchTypeOK
<1> QED
  BY <1>1, DispatchInvariant, PTL

\* Without foreign programs no refusal is under way to a node and every node lives,
\* for any number of nodes and requests: what is refused all the same, as a deletion
\* record that is late, is refused to nobody.
THEOREM NodesUnderstand == DispatchSpec => []Understood
<1>1. ASSUME DispatchInv PROVE Understood
  <2> SUFFICES ASSUME foreign = 0
               PROVE  /\ \A n \in Nodes : up[n]
                      /\ \A p \in BagToSet(net) : p.c # Invalid
                      /\ \A n \in Nodes : \A i \in DOMAIN sendQueue[n] :
                           sendQueue[n][i].c = Invalid => sendQueue[n][i].to = Nobody
    BY DEF Understood
  <2>1. Circulates(Own) /\ \A n \in Nodes : up[n]
    BY <1>1 DEF DispatchInv, OwnOK
  <2>2. \A p \in BagToSet(net) : p.c # Invalid
    BY <2>1, PacketSets DEF Circulates
  <2>3. ASSUME NEW n \in Nodes, NEW i \in DOMAIN sendQueue[n], sendQueue[n][i].c = Invalid
        PROVE  sendQueue[n][i].to = Nobody
    <3>1. sendQueue[n] \in Seq(Queued(Own))
      BY <2>1 DEF Circulates
    <3>2. sendQueue[n][i] \in Queued(Own)
      BY <2>3, <3>1
    <3> QED
      BY <2>3, <3>2, PacketSets DEF Queued
  <2> QED
    BY <2>1, <2>2, <2>3
<1> QED
  BY <1>1, DispatchInvariant, PTL

=============================================================================
