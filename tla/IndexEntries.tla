----------------------------- MODULE IndexEntries -----------------------------
(***************************************************************************)
(* The entries of one index packet while a delete request goes through     *)
(* them: IndexPacket::erase_entry () and DeletionInfoPacket::item_exist () *)
(* of src/Packet.h, which walk a std::vector with a counter of 8 bits, and *)
(* the loop of DHTworker::receiveIndexPacketDeleteRequest () around them.  *)
(*                                                                         *)
(* DHTStorage has the same packets as sets and the loop as one step.  This *)
(* module keeps the order of the entries, entries that are there twice and *)
(* the width of the counter.  Names are prefixed where DHTStorage has its  *)
(* own, so that theorems can speak of both.                                *)
(***************************************************************************)
EXTENDS Integers, Sequences, FiniteSets, SequencesExt

CONSTANTS
  MailKeys,  \* DHT keys of mails
  Auths,     \* delete authorisations; a hash is named by the one it was made of
  Times,     \* the times of entries
  Width,     \* how many values the counter of the loops has (256)
  MaxLen,    \* bound of the entries of a packet
  MaxItems   \* bound of the items of a request

\* The number of items of a request is sent in one byte, which has the width of the
\* counter.  An index may have more entries: their number has four bytes.
EntriesBounds ==
  /\ Times \subseteq Int
  /\ Width \in Nat \ {0} /\ MaxLen \in Nat /\ MaxItems \in 0 .. Width - 1

VARIABLES
  data,      \* the entries of the packet
  nump,      \* their number, as it is written in front of them
  request,   \* the items of the request that the loop has still to look at
  deleted,   \* the items of the deletion record
  answer,    \* of the last search in the record (history)
  before,    \* the entries as they were read (history)
  asked      \* the items of the request (history)

eraseVars == <<data, nump, request, deleted, answer, before, asked>>

IndexEntry == [key : MailKeys, dv : Auths, time : Times]
RequestItem == [key : MailKeys, da : Auths]

NoAnswer == [item |-> << >>, exist |-> FALSE]

\* The handler has read a packet and a request that both parse.
EraseInit ==
  /\ data \in BoundedSeq(IndexEntry, MaxLen) /\ before = data
  /\ request \in BoundedSeq(RequestItem, MaxItems) /\ asked = request
  /\ nump = Len(data)
  /\ deleted = << >> /\ answer = NoAnswer

-----------------------------------------------------------------------------
(* The loops over entries and items *)

\* The places that a loop visits: up to the size of the vector, cut to 8 bits.
Looked(s) == 1 .. Len(s) % Width

Matches(entry, item) == entry.key = item.key /\ entry.dv = item.da

Hits(s, item) == {i \in Looked(s) : Matches(s[i], item)}
FirstHit(s, item) == CHOOSE i \in Hits(s, item) : \A j \in Hits(s, item) : i <= j

\* IndexPacket::erase_entry (): the entries that it leaves ...
erase_entry(s, item) ==
  IF Hits(s, item) = {} THEN s ELSE RemoveAt(s, FirstHit(s, item))

\* ... and what it returns: the time of the entry that has moved into the place of
\* the erased one.  Behind the last one the memory still holds that one itself.
erase_result(s, item) ==
  LET i == FirstHit(s, item)
  IN  IF Hits(s, item) = {} THEN 0
      ELSE IF i < Len(s) THEN s[i + 1].time ELSE s[i].time

\* DeletionInfoPacket::item_exist ()
item_exist(s, item) == \E i \in Looked(s) : s[i] = item

\* One round of the loop of receiveIndexPacketDeleteRequest ().
EraseItem ==
  /\ request # << >>
  /\ data' = erase_entry(data, Head(request))
  /\ nump' = IF Hits(data, Head(request)) = {} THEN nump ELSE Len(data')
  /\ deleted' = IF erase_result(data, Head(request)) > 0
                THEN Append(deleted, Head(request)) ELSE deleted
  /\ request' = Tail(request)
  /\ UNCHANGED <<answer, before, asked>>

\* Whoever has read the record later looks for an item in it.
Search(item) ==
  /\ request = << >>
  /\ answer' = [item |-> item, exist |-> item_exist(deleted, item)]
  /\ UNCHANGED <<data, nump, request, deleted, before, asked>>

EraseNext == EraseItem \/ \E item \in RequestItem : Search(item)

EraseSpec == EraseInit /\ [][EraseNext]_eraseVars

-----------------------------------------------------------------------------
(* Properties *)

\* The items that the loop has looked at.
Processed == SubSeq(asked, 1, Len(asked) - Len(request))

\* The item that names an entry: its mail, and what its hash was made of.
ItemFor(entry) == [key |-> entry.key, da |-> entry.dv]
Named(entry, items) == ItemFor(entry) \in Range(items)

\* The entries that are left are entries of the packet in their order, and their
\* number is the one in the packet, so that what is written can be read again.
EraseTypeOK ==
  /\ data \in Seq(IndexEntry) /\ nump = Len(data)
  /\ request \in Seq(RequestItem) /\ deleted \in Seq(RequestItem)

\* Only what a request names with its authorisation is erased: the entries that are
\* left stand at the places place[1] < place[2] < ... of the packet that was read, and
\* every other place had an entry that an item of the request names.  It holds for
\* packets of every size, also where the counter of erase_entry () wraps.
OthersKept ==
  \E place \in [DOMAIN data -> DOMAIN before] :
    /\ \A i, j \in DOMAIN data : i < j => place[i] < place[j]
    /\ \A i \in DOMAIN data : data[i] = before[place[i]]
    /\ \A k \in DOMAIN before \ Range(place) : Named(before[k], Processed)

\* What a request names is erased, if the packet has fewer entries than the counter
\* has values and none twice: the places that the loop visits are all places, also
\* while the packet becomes shorter under the requests.
Plain ==
  /\ Len(before) < Width
  /\ \A i, j \in DOMAIN before :
       before[i].key = before[j].key /\ before[i].dv = before[j].dv => i = j
NamedErased == Plain => \A i \in DOMAIN data : ~Named(data[i], Processed)

\* The record has no more items than entries were erased, and each names an entry that
\* was there; it has one for every erased entry if no entry of the packet has a time of 0, which
\* erase_entry () returns for an entry that it did not find.
ErasedRecorded ==
  /\ Len(deleted) + Len(data) <= Len(before)
  /\ (\A i \in DOMAIN before : before[i].time > 0) => Len(deleted) + Len(data) = Len(before)
  /\ \A i \in DOMAIN deleted : \E k \in DOMAIN before : deleted[i] = ItemFor(before[k])

\* A search in the record of a delete request finds exactly what is in it: the record
\* cannot grow to where the counter of item_exist () wraps, although its own number
\* has four bytes, because the request it is made from has fewer items.
RecordSearched ==
  answer # NoAnswer => (answer.exist <=> answer.item \in Range(deleted))
===============================================================================
