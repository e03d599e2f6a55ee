------------------------------ MODULE DHTStorage ------------------------------
(***************************************************************************)
(* The DHT packet store of pboted (src/DHTStorage.cpp) together with the   *)
(* request handlers of src/DHTworker.cpp that read and write it.           *)
(*                                                                         *)
(* The store is three directories of files named after DHT keys.  A packet *)
(* is in <key>.dat; the record of what was deleted under a key is in       *)
(* <key>.del.  A directory is a function whose domain is the set of keys   *)
(* that have the file.  `used' and the three local_* sets are the store's  *)
(* in-memory summary of the directories.                                   *)
(*                                                                         *)
(* Each handler and each call of the store is one action.  The handlers    *)
(* run one after another on the IO service thread.  The mail tasks and     *)
(* DHTworker::run () call the store from threads of their own: their calls *)
(* come in any order between the handlers, but the file operations inside  *)
(* one call are not interleaved with those of another.                     *)
(***************************************************************************)
EXTENDS Integers, FiniteSets

CONSTANTS
  IndexKeys,      \* DHT keys of index packets (one per mail destination)
  EmailKeys,      \* DHT keys of encrypted mail packets
  ContactKeys,    \* DHT keys of directory entries
  DelAuths,       \* delete authorisations (DA); a hash is named by the DA it is of
  NoDA,           \* none: what cannot be read from a file
  Size,           \* file sizes, see SizeKinds
  Limit,          \* configured storage limit ("storage" option)
  Margin,         \* free space under which the store is cleaned (10 MiB)
  StoreDuration,  \* how long a packet is kept (100 days)
  UpdatePeriod,   \* rounds of update() between two cleanings (20)
  MaxTime,        \* bound of the clock
  MaxEntries,     \* bound of the entries of an index packet received
  WriteResults    \* outcomes of opening a file for writing

\* The kinds of mail files: the packet as it came, one with more or less content than
\* the packet had, and a header without content.
FileKinds == {"email", "long", "cut", "stub"}
SizeKinds == FileKinds \cup {"index", "entry", "deletion", "item", "short", "contact"}

ASSUME KeysAssumption ==
  /\ IsFiniteSet(IndexKeys)
  /\ IsFiniteSet(EmailKeys)
  /\ IsFiniteSet(ContactKeys)
  /\ IsFiniteSet(DelAuths)
  /\ IndexKeys \cap EmailKeys = {}
  /\ NoDA \notin DelAuths

\* "short" is the smallest packet that is too short to hold a mail: the stub that is
\* made of it takes more.
ASSUME SizesAssumption ==
  /\ Size \in [SizeKinds -> Nat]
  /\ Size["short"] <= Size["stub"]
  /\ Size["stub"] <= Size["cut"]
  /\ Size["cut"] <= Size["email"]
  /\ Size["email"] <= Size["long"]
  /\ Limit \in Nat
  /\ Margin \in Nat

ASSUME BoundsAssumption ==
  /\ StoreDuration \in Nat \ {0}
  /\ UpdatePeriod \in Nat
  /\ MaxTime \in Nat
  /\ StoreDuration <= MaxTime
  /\ MaxEntries \in Nat
  /\ WriteResults \subseteq BOOLEAN
  /\ WriteResults # {}

VARIABLES
  idx,                    \* DHTindex/<key>.dat
  idxDel,                 \* DHTindex/<key>.del
  eml,                    \* DHTemail/<key>.dat
  emlDel,                 \* DHTemail/<key>.del: the DA of its one item; NoDA: empty
  contacts,               \* keys with a file in DHTdirectory
  used,                   \* bytes in use, as last counted
  local_index_packets,    \* key lists, as last loaded
  local_email_packets,
  local_contact_packets,
  update_counter,
  now,                    \* context.ts_now ()
  sent,                   \* the responses queued by the last step
  confirmed,              \* history: mail deletions answered OK so far
  carried                 \* history: under which key which item was brought here

files == <<idx, idxDel, eml, emlDel, contacts>>
summary == <<used, local_index_packets, local_email_packets, local_contact_packets>>
history == <<confirmed, carried>>
vars == <<files, summary, update_counter, now, sent, history>>

-----------------------------------------------------------------------------
(* Packets and files *)

Time == 0 .. MaxTime

\* An index entry: mail key, delete verification hash and store time.
Entry == [key : EmailKeys, dv : DelAuths, time : Time]

\* An index packet; ok says whether IndexPacket::fromBuffer accepts it.
IndexPacket == [ok : BOOLEAN, entries : SUBSET Entry]

\* A mail packet file.  EmailEncryptedPacket::fromBuffer () accepts only "email", but
\* it reads key, store time and delete hash before it compares the hash, and those who
\* call it on a file do not look at what it returns: only a stub, which is too short,
\* yields none of them.
EmailFile == [kind : FileKinds, dv : DelAuths \cup {NoDA}, stored : Time]

\* What an index delete request names and a deletion record holds.
Item == [key : EmailKeys, da : DelAuths]

\* The item that names an entry.
ItemOf(e) == [key |-> e.key, da |-> e.dv]
ItemsOf(entries) == {ItemOf(e) : e \in entries}

Directory(Keys, Content) == UNION {[S -> Content] : S \in SUBSET Keys}

\* Write a file, replacing the one that is there.
Write(dir, k, content) ==
  [x \in DOMAIN dir \cup {k} |-> IF x = k THEN content ELSE dir[x]]

\* Remove the files of a set of keys (those that are there).
Erase(dir, K) == [x \in DOMAIN dir \ K |-> dir[x]]

IndexSize(pkt) == Size["index"] + Size["entry"] * Cardinality(pkt.entries)

EntriesIn(dir) == UNION {{k} \X dir[k].entries : k \in DOMAIN dir}
ItemsIn(dir) == UNION {{k} \X dir[k] : k \in DOMAIN dir}
OfKind(dir, kind) == {k \in DOMAIN dir : dir[k].kind = kind}

\* The mail keys with a record; one that a kill has left empty is none.
Recorded(dir) == {k \in DOMAIN dir : dir[k] # NoDA}

EmailUsage(e) ==
  Size["email"] * Cardinality(OfKind(e, "email")) + Size["long"] * Cardinality(OfKind(e, "long"))
    + Size["cut"] * Cardinality(OfKind(e, "cut")) + Size["stub"] * Cardinality(OfKind(e, "stub"))

\* The bytes on disk: the sum over the three directories.
DiskUsage(x, xd, e, ed, c) ==
  Size["index"] * Cardinality(DOMAIN x) + Size["entry"] * Cardinality(EntriesIn(x))
    + Size["deletion"] * Cardinality(DOMAIN xd) + Size["item"] * Cardinality(ItemsIn(xd))
    + EmailUsage(e)
    + (Size["deletion"] + Size["item"]) * Cardinality(Recorded(ed))
    + Size["contact"] * Cardinality(c)

-----------------------------------------------------------------------------
(* The summary of the directories *)

\* update_storage_usage (): recount the files, reload the three key lists.
\* The index and mail lists hold the keys of the .del files.
update_storage_usage ==
  /\ used' = DiskUsage(idx', idxDel', eml', emlDel', contacts')
  /\ local_index_packets' = DOMAIN idxDel'
  /\ local_email_packets' = DOMAIN emlDel'
  /\ local_contact_packets' = contacts'

\* The summary is brought up to date by the calls that wrote or removed a file.
Account(touched) ==
  IF touched THEN update_storage_usage ELSE UNCHANGED summary

limit_reachedStrict(size) == Limit < used + size
limit_reached(size) == Limit <= used + size

-----------------------------------------------------------------------------
(* Storing packets *)

\* The packets a peer may offer.  An index packet of this model has no entry twice.
\* The key of a mail packet is the hash of its length field and its content, but for
\* "mismatch" and "short"; the delete hash is not part of what is hashed, so that any
\* may stand before it.  The length field of "over" and "under" says more or less than
\* there is.
ReceivedIndex ==
  {[ok |-> TRUE, entries |-> S] :
     S \in {T \in SUBSET Entry :
              /\ Cardinality(T) <= MaxEntries
              /\ \A a, b \in T : a.key = b.key /\ a.dv = b.dv => a = b}}
    \cup {[ok |-> FALSE, entries |-> {}]}

MailBodies == {"good", "over", "under", "mismatch", "short"}

Packet ==
  [type : {"I"}, key : IndexKeys, body : ReceivedIndex]
    \cup [type : {"E"}, key : EmailKeys, dv : DelAuths, body : MailBodies]
    \cup [type : {"C"}, key : ContactKeys]

PacketSize(p) ==
  CASE p.type = "I" -> IndexSize(p.body)
    [] p.type = "E" -> IF p.body = "short" THEN Size["short"] ELSE Size["email"]
    [] p.type = "C" -> Size["contact"]

\* update_index (): the old packet is removed, then the new one written.
update_index(k, pkt, w) ==
  IF w THEN Write(Erase(idx, {k}), k, pkt) ELSE Erase(idx, {k})

safeIndexCountsWrites(k, pkt, w) ==
  /\ idx' = IF k \in DOMAIN idx THEN update_index(k, pkt, w)
            ELSE IF w THEN Write(idx, k, pkt) ELSE idx
  /\ UNCHANGED <<idxDel, eml, emlDel, contacts>>
  /\ Account(w)

safeIndex(k, pkt, w) ==
  /\ idx' = IF k \in DOMAIN idx THEN update_index(k, pkt, w)
            ELSE IF w THEN Write(idx, k, pkt) ELSE idx
  /\ UNCHANGED <<idxDel, eml, emlDel, contacts>>
  /\ Account(w \/ k \in DOMAIN idx)

\* What toByte () makes of a packet: as much content as the length field says, which
\* fromBuffer () does not compare with what there is; none if it did not parse.
FileOf(body, dv) ==
  CASE body = "good"  -> [kind |-> "email", dv |-> dv, stored |-> now]
    [] body = "over"  -> [kind |-> "long", dv |-> dv, stored |-> now]
    [] body = "under" -> [kind |-> "cut", dv |-> dv, stored |-> now]
    [] OTHER          -> [kind |-> "stub", dv |-> NoDA, stored |-> 0]

safeEmail(k, file, w) ==
  /\ eml' = IF k \in DOMAIN eml \/ ~w THEN eml ELSE Write(eml, k, file)
  /\ UNCHANGED <<idx, idxDel, emlDel, contacts>>
  /\ Account(k \notin DOMAIN eml /\ w)

safeContact(k, w) ==
  /\ contacts' = IF w THEN contacts \cup {k} ELSE contacts
  /\ UNCHANGED <<idx, idxDel, eml, emlDel>>
  /\ Account(k \notin contacts /\ w)

safe(p, w) ==
  \/ p.type = "I" /\ safeIndex(p.key, p.body, w)
  \/ p.type = "E" /\ safeEmail(p.key, FileOf(p.body, p.dv), w)
  \/ p.type = "C" /\ safeContact(p.key, w)

\* The items that a packet brings under its key (history).
Brings(p) ==
  CASE p.type = "I" -> {<<p.key, ItemOf(e)>> : e \in p.body.entries}
    [] p.type = "E" -> {<<p.key, [key |-> p.key, da |-> p.dv]>>}
    [] p.type = "C" -> {}

\* What safe () returns.
safeResult(p, w) ==
  IF (p.type = "E" /\ p.key \in DOMAIN eml) \/ (p.type = "C" /\ p.key \in contacts)
  THEN "STORE_FILE_EXIST"
  ELSE IF w THEN "STORE_SUCCESS" ELSE "STORE_FILE_OPEN_ERROR"

-----------------------------------------------------------------------------
(* Recording deletions *)

\* safe_deleted_index () and update_deletion_info (): the value of the record
\* files once the record of k is written.  Removing the old record needs the
\* .dat file: Delete () looks for that one whatever extension it is given.
safe_deleted_index(k, items, w) ==
  IF w THEN Write(idxDel, k, items)
  ELSE IF k \in DOMAIN idx THEN Erase(idxDel, {k}) ELSE idxDel

safe_deleted_emailLost(k, da, w) == emlDel
safe_deleted_emailReplaces(k, da, w) ==
  IF w THEN Write(emlDel, k, da) ELSE Erase(emlDel, {k})

\* safe_deleted_email (): a record that is there is left as it is, also an empty one.
safe_deleted_email(k, da, w) ==
  IF k \in DOMAIN emlDel \/ ~w THEN emlDel ELSE Write(emlDel, k, da)

\* The index of k is there and parses.
Readable(k) == k \in DOMAIN idx /\ idx[k].ok

\* IndexPacket::erase_entry () on every item of a request: the entries erased.
Matched(entries, items) == {e \in entries : ItemOf(e) \in items}

\* erase_entry () returns the time of the entry that took the erased one's
\* place (its own when it was the last), and the callers count an entry as
\* erased when that is not 0.  The order of the entries is not modelled: any
\* entry of the packet may be the one behind.  These are the sets of entries
\* that a loop over the items may count.
Counted(entries, items) ==
  {C \in SUBSET Matched(entries, items) :
     /\ C # {} => \E e \in entries : e.time > 0
     /\ C # Matched(entries, items) => \E e \in entries : e.time = 0}

-----------------------------------------------------------------------------
(* Handlers of DHT requests (IO service thread) *)

Status ==
  {"OK", "NO_DATA_FOUND", "INVALID_PACKET", "NO_DISK_SPACE", "DUPLICATED_DATA",
   "GENERAL_ERROR"}
Requests == {"malformed", "store", "retrieve", "query", "delete_email", "delete_index"}
AnyKey == IndexKeys \cup EmailKeys \cup ContactKeys

\* Queue the response to a request.
Respond(req, k, items, status) ==
  sent' = {[req |-> req, key |-> k, items |-> items, status |-> status]}

Unchanged == UNCHANGED <<files, summary>>
Others == UNCHANGED <<update_counter, now>>

\* A payload that from_comm_packet does not accept is answered as it stands.
receiveMalformed(k) ==
  /\ Respond("malformed", k, {}, "INVALID_PACKET")
  /\ Unchanged
  /\ UNCHANGED history
  /\ Others

StoreStatus(result) ==
  CASE result = "STORE_SUCCESS" -> "OK"
    [] result = "STORE_FILE_EXIST" -> "DUPLICATED_DATA"
    [] OTHER -> "GENERAL_ERROR"

receiveStoreRequest(p) ==
  /\ \/ /\ limit_reached(PacketSize(p))
        /\ Respond("store", p.key, {}, "NO_DISK_SPACE")
        /\ Unchanged
        /\ UNCHANGED carried
     \/ /\ ~limit_reached(PacketSize(p))
        /\ \E w \in WriteResults :
             /\ safe(p, w)
             /\ Respond("store", p.key, {}, StoreStatus(safeResult(p, w)))
        /\ carried' = carried \cup Brings(p)
  /\ UNCHANGED confirmed
  /\ Others

\* getIndex (), getEmail () or getContact (), by the type of the request.
Stored(type) ==
  CASE type = "I" -> DOMAIN idx
    [] type = "E" -> DOMAIN eml
    [] type = "C" -> contacts

receiveRetrieveRequest(type, k) ==
  /\ Respond("retrieve", k, {}, IF k \in Stored(type) THEN "OK" ELSE "NO_DATA_FOUND")
  /\ Unchanged
  /\ UNCHANGED history
  /\ Others

\* The deletion record a query finds: the index record of the key if there is
\* one, else the mail record.
DeletionInfo(k) ==
  IF k \in DOMAIN idxDel THEN idxDel[k]
  ELSE IF k \in Recorded(emlDel) THEN {[key |-> k, da |-> emlDel[k]]} ELSE {}

receiveDeletionQuery(k) ==
  /\ Respond("query", k, DeletionInfo(k),
             IF k \in DOMAIN idxDel \cup Recorded(emlDel) THEN "OK" ELSE "NO_DATA_FOUND")
  /\ Unchanged
  /\ UNCHANGED history
  /\ Others

AlreadyRemoved(k, da) == k \in DOMAIN emlDel /\ emlDel[k] = da

EmailDeleteStatusAnyDA(k, da) ==
  IF AlreadyRemoved(k, da) THEN "OK"
  ELSE IF k \notin DOMAIN eml THEN "NO_DATA_FOUND"
  ELSE IF eml[k].kind # "stub" THEN "OK"
  ELSE "INVALID_PACKET"

\* The checks of receiveEmailPacketDeleteRequest, in their order.  da_valid () compares
\* with what was read of the file, whether it parsed or not.
EmailDeleteStatus(k, da) ==
  IF AlreadyRemoved(k, da) THEN "OK"
  ELSE IF k \notin DOMAIN eml THEN "NO_DATA_FOUND"
  ELSE IF eml[k].dv = da THEN "OK"
  ELSE "INVALID_PACKET"

receiveEmailPacketDeleteRequest(k, da) ==
  /\ Respond("delete_email", k, {[key |-> k, da |-> da]}, EmailDeleteStatus(k, da))
  /\ confirmed' = IF EmailDeleteStatus(k, da) = "OK" THEN confirmed \cup {<<k, da>>}
                  ELSE confirmed
  /\ \/ /\ AlreadyRemoved(k, da) \/ EmailDeleteStatus(k, da) # "OK"
        /\ Unchanged
     \/ /\ ~AlreadyRemoved(k, da)
        /\ EmailDeleteStatus(k, da) = "OK"
        /\ eml' = Erase(eml, {k})
        /\ \E w \in WriteResults : emlDel' = safe_deleted_email(k, da, w)
        /\ UNCHANGED <<idx, idxDel, contacts>>
        /\ update_storage_usage
  /\ UNCHANGED carried
  /\ Others

\* The record of the key is compared with itself, so that any record at all
\* makes the handler answer "already removed".
IndexAlreadyRemoved(k, items) ==
  k \in DOMAIN idxDel /\ \A item \in idxDel[k] : item \in idxDel[k]

\* The part of receiveIndexPacketDeleteRequest that changes the store: counted
\* is the set of entries erase_entry () reported, wd and wi the outcomes of
\* writing the record and the remaining entries.  The record is written in any
\* case; an index without entries left is removed.
EraseFromIndex(k, items, counted, wd, wi) ==
  LET rest == idx[k].entries \ Matched(idx[k].entries, items)
  IN  /\ idxDel' = safe_deleted_index(k, ItemsOf(counted), wd)
      /\ idx' = IF counted = {} THEN idx
                ELSE IF rest # {} /\ wi THEN Write(idx, k, [ok |-> TRUE, entries |-> rest])
                ELSE Erase(idx, {k})
      /\ UNCHANGED <<eml, emlDel, contacts>>
      /\ Account(wd \/ k \in DOMAIN idxDel \/ counted # {})
      /\ Respond("delete_index", k, items,
                 IF counted = {} THEN "INVALID_PACKET"
                 ELSE IF rest = {} \/ wi THEN "OK" ELSE "GENERAL_ERROR")

receiveIndexPacketDeleteRequest(k, items) ==
  /\ \/ /\ IndexAlreadyRemoved(k, items)
        /\ Respond("delete_index", k, items, "OK")
        /\ Unchanged
     \/ /\ ~IndexAlreadyRemoved(k, items)
        /\ k \notin DOMAIN idx
        /\ Respond("delete_index", k, items, "NO_DATA_FOUND")
        /\ Unchanged
     \/ /\ ~IndexAlreadyRemoved(k, items)
        /\ k \in DOMAIN idx
        /\ ~idx[k].ok
        /\ Respond("delete_index", k, items, "GENERAL_ERROR")
        /\ Unchanged
     \/ /\ ~IndexAlreadyRemoved(k, items)
        /\ Readable(k)
        /\ \E counted \in Counted(idx[k].entries, items) :
             \E wd, wi \in WriteResults : EraseFromIndex(k, items, counted, wd, wi)
  /\ UNCHANGED history
  /\ Others

-----------------------------------------------------------------------------
(* Calls of the mail tasks *)

\* DHT_worker.safe (): a packet sent or fetched by the mail tasks is kept
\* without a look at the storage limit.
LocalSafe(p) ==
  /\ \E w \in WriteResults : safe(p, w)
  /\ carried' = carried \cup Brings(p)
  /\ sent' = {}
  /\ UNCHANGED confirmed
  /\ Others

\* The local part of DHTworker::deleteEmail (), which the recipient's mail task
\* calls with the DA it decrypted.
deleteEmail(k, da) ==
  /\ eml' = Erase(eml, {k})
  /\ carried' = carried \cup {<<k, [key |-> k, da |-> da]>>}
  /\ \E w \in WriteResults :
       /\ emlDel' = safe_deleted_email(k, da, w)
       /\ UNCHANGED <<idx, idxDel, contacts>>
       /\ Account(k \in DOMAIN eml \/ (k \notin DOMAIN emlDel /\ w))
  /\ sent' = {}
  /\ UNCHANGED confirmed
  /\ Others

\* remove_index (), the step of remove_indices () for one item.  The record is
\* written first, and an index left without entries is written all the same.
remove_index(k, item) ==
  /\ \E wd, wi \in WriteResults :
       /\ idxDel' = safe_deleted_index(k, {item}, wd)
       /\ UNCHANGED <<eml, emlDel, contacts>>
       /\ \/ /\ ~Readable(k)
             /\ idx' = idx
             /\ Account(wd \/ (k \in DOMAIN idx /\ k \in DOMAIN idxDel))
          \/ /\ Readable(k)
             /\ \E counted \in Counted(idx[k].entries, {item}) :
                  /\ idx' = IF counted = {} THEN idx
                            ELSE IF wi
                            THEN Write(idx, k, [ok |-> TRUE,
                                                entries |-> idx[k].entries \ counted])
                            ELSE Erase(idx, {k})
                  /\ Account(wd \/ k \in DOMAIN idxDel \/ counted # {})
  /\ carried' = carried \cup {<<k, item>>}
  /\ sent' = {}
  /\ UNCHANGED confirmed
  /\ Others

-----------------------------------------------------------------------------
(* Cleaning, start and time *)

Expired(time) == time + StoreDuration <= now

\* The mail packets remove_old_packets () has to remove: it goes through the
\* keys of local_email_packets.
OldEmails == {k \in local_email_packets \cap DOMAIN eml : Expired(eml[k].stored)}

\* Delete () assigns local_email_packets while remove_old_packets () iterates
\* over it.  The packets up to the first expired one are visited; which of the
\* others the dangling iterator still visits is open.
remove_old_packets(removed) ==
  /\ removed \subseteq OldEmails
  /\ OldEmails # {} => removed # {}
  /\ eml' = Erase(eml, removed)

\* clean_index () for the keys of local_index_packets: an index without live
\* entries is removed, another is removed and written again.
CleanIndexEntries(k) == {e \in idx[k].entries : ~Expired(e.time)}

remove_old_entries(failed) ==
  LET listed == local_index_packets \cap DOMAIN idx
      gone == {k \in listed : CleanIndexEntries(k) = {} \/ k \in failed}
  IN  idx' = [k \in DOMAIN idx \ gone |->
                IF k \in listed THEN [ok |-> TRUE, entries |-> CleanIndexEntries(k)]
                ELSE idx[k]]

CleaningDue == update_counter > UpdatePeriod /\ limit_reached(Margin)

NextCounterNoReset == update_counter + 1
NextCounter == 1 + IF update_counter > UpdatePeriod THEN 0 ELSE update_counter

\* A round of DHTworker::run ().
update ==
  /\ \/ /\ CleaningDue
        /\ \E removed \in SUBSET EmailKeys : remove_old_packets(removed)
        /\ \E failed \in SUBSET IndexKeys :
             /\ \A k \in IndexKeys : (k \notin failed) \in WriteResults
             /\ remove_old_entries(failed)
     \/ /\ ~CleaningDue
        /\ UNCHANGED <<idx, eml>>
  /\ UNCHANGED <<idxDel, emlDel, contacts>>
  /\ update_storage_usage
  /\ update_counter' = NextCounter
  /\ sent' = {}
  /\ UNCHANGED <<now, history>>

\* The daemon stops or crashes and starts again: DHTworker::start () sets the
\* limit and calls update () with the counter at 0.
restart ==
  /\ UNCHANGED files
  /\ update_storage_usage
  /\ update_counter' = 1
  /\ sent' = {}
  /\ UNCHANGED <<now, history>>

\* The daemon is killed while a handler or a mail task deletes mail k, and starts again:
\* the mail is gone and its record is not written, or is empty.
KillInDeletion(k) ==
  /\ eml' = Erase(eml, {k})
  /\ emlDel' \in {emlDel, safe_deleted_email(k, NoDA, TRUE)}
  /\ UNCHANGED <<idx, idxDel, contacts>>
  /\ update_storage_usage
  /\ update_counter' = 1
  /\ sent' = {}
  /\ UNCHANGED <<now, history>>

Tick ==
  /\ now < MaxTime
  /\ now' = now + 1
  /\ sent' = {}
  /\ UNCHANGED <<files, summary, update_counter, history>>

\* A store that holds nothing, after the first update (); the clock is past the
\* time at which a packet dated 0 expires.
Init ==
  /\ idx = [k \in {} |-> {}]
  /\ idxDel = [k \in {} |-> {}]
  /\ eml = [k \in {} |-> {}]
  /\ emlDel = [k \in {} |-> {}]
  /\ contacts = {}
  /\ used = 0
  /\ local_index_packets = {}
  /\ local_email_packets = {}
  /\ local_contact_packets = {}
  /\ update_counter = 1
  /\ now = StoreDuration
  /\ sent = {}
  /\ confirmed = {}
  /\ carried = {}

Next ==
  \/ \E k \in AnyKey : receiveMalformed(k)
  \/ \E p \in Packet : receiveStoreRequest(p)
  \/ \E type \in {"I", "E", "C"} : \E k \in AnyKey : receiveRetrieveRequest(type, k)
  \/ \E k \in IndexKeys \cup EmailKeys : receiveDeletionQuery(k)
  \/ \E k \in EmailKeys : \E da \in DelAuths : receiveEmailPacketDeleteRequest(k, da)
  \/ \E k \in IndexKeys : \E items \in SUBSET Item : receiveIndexPacketDeleteRequest(k, items)
  \/ \E p \in Packet : LocalSafe(p)
  \/ \E k \in EmailKeys : \E da \in DelAuths : deleteEmail(k, da)
  \/ \E k \in IndexKeys : \E item \in Item : remove_index(k, item)
  \/ update
  \/ restart
  \/ \E k \in EmailKeys : KillInDeletion(k)
  \/ Tick

Spec == Init /\ [][Next]_vars

-----------------------------------------------------------------------------
(* Properties *)

\* The contents of the directories.
FilesOK ==
  /\ idx \in Directory(IndexKeys, IndexPacket)
  /\ idxDel \in Directory(IndexKeys, SUBSET Item)
  /\ eml \in Directory(EmailKeys, EmailFile)
  /\ emlDel \in Directory(EmailKeys, DelAuths \cup {NoDA})
  /\ contacts \subseteq ContactKeys

SummaryOK ==
  /\ used \in Nat
  /\ local_index_packets \subseteq IndexKeys
  /\ local_email_packets \subseteq EmailKeys
  /\ local_contact_packets \subseteq ContactKeys

Response == [req : Requests, key : AnyKey, items : SUBSET Item, status : Status]

\* Types of the store, of its summary and of the responses; the counter of
\* update () never runs past the round after which it starts again.
TypeOK ==
  /\ FilesOK
  /\ SummaryOK
  /\ update_counter \in 1 .. UpdatePeriod + 1
  /\ now \in StoreDuration .. MaxTime
  /\ sent \subseteq Response
  /\ confirmed \subseteq EmailKeys \X DelAuths
  /\ carried \subseteq AnyKey \X Item

\* Between two operations the summary is exact: the bytes counted are the bytes
\* on disk, and the key lists are the keys of the .del files and the contacts.
\* Every path of every operation that wrote or removed a file, the failing ones
\* too, has to end in update_storage_usage ().
SummaryExact ==
  /\ used = DiskUsage(idx, idxDel, eml, emlDel, contacts)
  /\ local_index_packets = DOMAIN idxDel
  /\ local_email_packets = DOMAIN emlDel
  /\ local_contact_packets = contacts

\* Another authorisation than da was brought for mail k: the mail was stored with
\* another delete hash, or the mail task deleted another packet of that key.
Disputed(k, da) ==
  \E other \in DelAuths \ {da} : <<k, [key |-> k, da |-> other]>> \in carried

\* A mail deletion that a peer was told is done stays done for that peer: the
\* same request, repeated because the answer was lost, is answered OK again,
\* and a deletion query finds the record, whatever was stored, deleted, cleaned,
\* killed or restarted in between (receiveEmailPacketDeleteRequest,
\* receiveDeletionQuery).  There are two exceptions.  The one record of a key holds the
\* first authorisation, so that of two packets with the same key and different delete
\* hashes the second deletion leaves no trace; a record that a kill left empty is never
\* filled.  Even then a record file stays.  It needs every record to be written.
ConfirmedDeletions ==
  \A c \in confirmed :
    /\ c[1] \in DOMAIN emlDel
    /\ c[1] \in Recorded(emlDel) /\ ~Disputed(c[1], c[2]) =>
         /\ EmailDeleteStatus(c[1], c[2]) = "OK"
         /\ [key |-> c[1], da |-> c[2]] \in DeletionInfo(c[1])

\* A mail packet leaves the store only if a record file for it stays, which is what
\* the sender's delivery check asks for: a deletion writes the record, and cleaning only
\* goes through keys that have one.  Only a kill between the removal of the mail and
\* the writing of its record loses both, and it loses the one mail that was deleted.
LeavesRecord ==
  \A k \in EmailKeys :
    k \in DOMAIN eml /\ k \notin DOMAIN eml' => k \in DOMAIN emlDel' \/ KillInDeletion(k)
NoSilentLoss == [][LeavesRecord]_vars

\* The record of a mail deletion is never removed and never replaced, not even
\* when the mail is stored and deleted again, and not when writing fails.
KeepsRecords ==
  \A k \in DOMAIN emlDel : k \in DOMAIN emlDel' /\ emlDel'[k] = emlDel[k]
RecordsPermanent == [][KeepsRecords]_vars

\* By how much the file of mail k may exceed the packet that it was made of.
Excess(k) ==
  IF k \in OfKind(eml, "long") THEN Size["long"] - Size["email"]
  ELSE IF k \in OfKind(eml, "stub") THEN Size["stub"] - Size["short"] ELSE 0

\* A store request that is answered OK leaves the store below its limit, but for what
\* the file of this one packet exceeds the packet: the size receiveStoreRequest checks
\* is that of the packet, while the file has as much content as the length field of the
\* packet says, and a stub its whole header.  Replaced indices and failed writes are
\* counted in, and no excess adds up over requests.
StaysBelow ==
  \A r \in sent' : r.req = "store" /\ r.status = "OK" => used' < Limit + Excess(r.key)'
StoresWithinLimit == [][StaysBelow]_vars

\* A deletion record holds no authorisation that a peer made up: each one is that of the
\* delete hash of a mail packet of that key, or of an entry of that index, that was
\* brought here before, or it is the one that the local mail task has decrypted,
\* on whatever path the record was written.  (It is not bound to the content of the
\* mail: the key does not hash the delete hash.)
RecordsAuthentic ==
  /\ \A k \in Recorded(emlDel) : <<k, [key |-> k, da |-> emlDel[k]]>> \in carried
  /\ \A k \in DOMAIN idxDel : \A item \in idxDel[k] : <<k, item>> \in carried

-----------------------------------------------------------------------------
(* What the log messages and comments of the code say of it *)

\* An index delete request that is answered OK ("Already removed", "Packet
\* replaced", "Delete empty packet") leaves none of the entries it names.
IndexEntriesGone ==
  \A r \in sent' :
    r.req = "delete_index" /\ r.status = "OK" /\ r.key \in DOMAIN idx' =>
      Matched(idx'[r.key].entries, r.items) = {}
IndexDeleteEffective == [][IndexEntriesGone]_vars

\* A mail delete request that is answered OK leaves no mail under its key.
EmailGone ==
  \A r \in sent' :
    r.req = "delete_email" /\ r.status = "OK" => r.key \notin OfKind(eml', "email")
EmailDeleteEffective == [][EmailGone]_vars

\* An index packet stored over another adds its entries to it.
KeysOf(entries) == {e.key : e \in entries}
EntriesKept ==
  \A r \in sent' :
    r.req = "store" /\ r.status = "OK" /\ r.key \in DOMAIN idx /\ idx'[r.key].ok =>
      KeysOf(idx[r.key].entries) \subseteq KeysOf(idx'[r.key].entries)
IndexMerged == [][EntriesKept]_vars

\* Cleaning a store that is short of space removes expired mail packets.
CleansEmails ==
  update /\ CleaningDue /\ (\E k \in OfKind(eml, "email") : Expired(eml[k].stored))
    => eml' # eml
ExpiredEmailsCleaned == [][CleansEmails]_vars

=============================================================================
