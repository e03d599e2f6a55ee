----------------------------- MODULE MailFormat -----------------------------
(***************************************************************************)
(* What becomes of the bytes of one mail on its way (src/Email.cpp,        *)
(* src/EmailWorker.cpp, src/BoteIdentity.cpp, src/Cryptography.cpp,        *)
(* src/AddressBook.cpp): the sender and the recipient are looked up, the   *)
(* text is compressed, split, encrypted, and saved with its metadata; the  *)
(* parts are decrypted and put together by another daemon, and the         *)
(* metadata is read back to find out which parts were deleted, that is,    *)
(* received.  EmailDelivery is about the tasks that do this, here it is    *)
(* the data that they pass on.                                             *)
(*                                                                         *)
(* A mail is a sequence of bytes, of which the first stands for the first  *)
(* header.  Encryption is symbolic.                                        *)
(***************************************************************************)
EXTENDS Integers, Sequences, FiniteSets, FiniteSetsExt, SequencesExt

CONSTANTS
  None,
  PartSize,     \* MAX_DATAGRAM_LEN - PACKET_MAX_OVERHEAD
  Mails,        \* the mails that may be handed in
  Contacts,     \* the lines of the address book
  OwnFile,      \* the identities file of the sending daemon
  PeerFile,     \* the identities file of the receiving daemon
  MaxStarts     \* starts of the sending daemon

\* A mail has a size, a first header, a sender's name and a recipient; whole
\* addresses and keys are read from a text of one of the formats.
ASSUME FormatAssumption ==
  /\ PartSize \in Nat \ {0} /\ MaxStarts \in Nat \ {0}
  /\ None \notin Nat \X Nat
  /\ \A m \in Mails : m.size \in Nat \ {0} /\ m.fromFirst \in BOOLEAN

VARIABLES
  mail,        \* the mail handed in
  file,        \* its bytes in outbox (those in sent are never read)
  folder,      \* "outbox", "sent", or "parted": the metadata was left in outbox
  email,       \* the Email that send_email_task holds, or None
  texts,       \* texts[a]: the text that attempt a was made of (history)
  saved,       \* the parts in the metadata file
  cut,         \* a kill has cut the metadata file (history)
  meta,        \* the metadata that check_delivery_task holds, or None
  dht,         \* packets that nodes hold and the index names
  records,     \* keys of packets that nodes have deletion records of
  incomplete,  \* decrypted packets of the recipient
  inbox,       \* the bytes in the inbox, or None
  starts       \* number of starts of the sending daemon

outgoing == <<file, folder, email, texts, saved, cut>>
incoming == <<incomplete, inbox>>
vars == <<mail, outgoing, meta, dht, records, incoming, starts>>

UNCOMPRESSED == 0
ZLIB == 2

\* A text starts with a letter; a header whose value was removed is Blank.
Text(n) == [i \in 1 .. n |-> ZLIB + i]
Blank == 255

-----------------------------------------------------------------------------
(* Identities and addresses *)

KeyTypes == {"P256", "P521", "X25519"}

\* A public key that no private one belongs to, and a private key that belongs to
\* no public one: bytes read as a key of a type that they are not of.
Nobody == 0
Garbled == -1

\* Keys without a prefix are told by their length, and there are two lengths.
parse_address_v0(a) ==
  IF a.type \in {"P256", "P521"} THEN [type |-> a.type, key |-> a.key] ELSE None

\* Keys after "b32." or "b64." name their type.  Those of an unknown type are
\* read as if they were P256 keys.
parse_address_v1(a) ==
  CASE a.type \in KeyTypes -> [type |-> a.type, key |-> a.key]
    [] a.type = "malformed" -> None
    [] OTHER -> [type |-> "P256", key |-> Nobody]

\* set_recipient_identity ()
recipient_identity(a) == IF a.format = "v1" THEN parse_address_v1(a) ELSE parse_address_v0(a)

\* The complete keys of the identities file, in the same two formats.
parse_identity_v0(s) ==
  IF s.type \in {"P256", "P521"} THEN [type |-> s.type, key |-> s.key] ELSE None
parse_identity_v1(s) ==
  CASE s.type \in KeyTypes -> [type |-> s.type, key |-> s.key]
    [] s.type = "malformed" -> None
    [] OTHER -> [type |-> "P256", key |-> Garbled]

parse_identity(s) == IF s.format = "v1" THEN parse_identity_v1(s) ELSE parse_identity_v0(s)

\* Identities that cannot be read are left out.
loadIdentities(f) == SelectSeq(f, LAMBDA s : parse_identity(s) # None)

\* The first identity of that name.
identityByName(name) ==
  LET ids == loadIdentities(OwnFile)
      found == {i \in DOMAIN ids : ids[i].name = name}
  IN  IF found = {} THEN None ELSE parse_identity(ids[Min(found)])

\* Lines without an alias and comments are left out.
contacts == SelectSeq(Contacts, LAMBDA c : c.alias # "")

name_exist(name) == \E i \in DOMAIN contacts : contacts[i].name = name
alias_exist(alias) == \E i \in DOMAIN contacts : contacts[i].alias = alias

\* The test is the wrong way round: a name is never found.
address_for_name(name) ==
  IF name_exist(name) THEN None
  ELSE LET found == {i \in DOMAIN contacts : contacts[i].name = name}
       IN  IF found = {} THEN None ELSE contacts[Min(found)].dest

address_for_alias(alias) ==
  IF ~alias_exist(alias) THEN None
  ELSE contacts[Min({i \in DOMAIN contacts : contacts[i].alias = alias})].dest

\* The address in the book, or what stands before the @.
destination(to) ==
  IF address_for_name(to.label) # None THEN address_for_name(to.label)
  ELSE IF address_for_alias(to.alias) # None THEN address_for_alias(to.alias)
  ELSE to.mailbox

-----------------------------------------------------------------------------
(* Encryption *)

\* The encryptor is the one of the SENDER's type, whatever type the recipient's
\* key has.  A key of another type is hardly ever a point of the curve: nothing
\* is encrypted, or it is encrypted for nobody.
ECDHP256Encryptor(to) == IF to.type = "P256" THEN {to.key} ELSE {None, Nobody}
ECDHP521Encryptor(to) == IF to.type = "P521" THEN {to.key} ELSE {None, Nobody}

\* Any 32 bytes are a key of X25519.
X25519Encryptor(to) == {IF to.type = "X25519" THEN to.key ELSE Nobody}

CreateEncryptor(type, to) ==
  CASE type = "P256" -> ECDHP256Encryptor(to)
    [] type = "P521" -> ECDHP521Encryptor(to)
    [] type = "X25519" -> X25519Encryptor(to)

\* Without the secret of the two keys the padding is wrong.
aes_decrypt(key, c) == IF c.key = key THEN c.plain ELSE None

ECDHP256Decrypt(key, c) == IF c.type = "P256" THEN aes_decrypt(key, c) ELSE None
ECDHP521Decrypt(key, c) == IF c.type = "P521" THEN aes_decrypt(key, c) ELSE None
X25519Decrypt(key, c) == IF c.type = "X25519" THEN aes_decrypt(key, c) ELSE None

\* The decryptor is the one of the recipient's type.
Decrypt(id, c) ==
  CASE id.type = "P256" -> ECDHP256Decrypt(id.key, c)
    [] id.type = "P521" -> ECDHP521Decrypt(id.key, c)
    [] id.type = "X25519" -> X25519Decrypt(id.key, c)

-----------------------------------------------------------------------------
(* Bytes *)

\* fromMIME () and compose (): in a file that begins with bytes of a compression
\* the first header has another name, one that is not on HEADER_WHITELIST, and its
\* value is removed.
fromMIME(b) ==
  IF b[1] # UNCOMPRESSED THEN b
  ELSE [b EXCEPT ![Min({i \in DOMAIN b : b[i] # UNCOMPRESSED})] = Blank]

\* zlibCompress () inflates, into a buffer of no bytes.
zlibCompress(b) == <<>>
zlibDecompress(b) == <<>>

\* ZLIB is written after the text, and not instead of it.
compress(to, b) ==
  IF to.type = "X25519" THEN b \o <<ZLIB>> \o zlibCompress(b) ELSE <<UNCOMPRESSED>> \o b

\* Bytes of no known algorithm are treated as uncompressed.  LZMA is for mails of
\* other programs.
decompress(b) == IF b[1] = ZLIB THEN zlibDecompress(Tail(b)) ELSE Tail(b)

UINT16 == 65536

\* Parts of PartSize bytes and one with the remainder, which is there also when
\* nothing remains: then their number is not fr_count, of 16 bits, and the mail is
\* skipped.
split(b) ==
  LET full == Len(b) \div PartSize
      rest == Len(b) % PartSize
      plain == [i \in 1 .. full + 1 |->
                  IF i <= full THEN SubSeq(b, (i - 1) * PartSize + 1, i * PartSize)
                  ELSE SubSeq(b, full * PartSize + 1, full * PartSize + rest)]
  IN  IF Len(plain) = (full + (IF rest > 0 THEN 1 ELSE 0)) % UINT16 THEN plain ELSE <<>>

\* EmailUnencryptedPacket: one part, and what fromBuffer () asks of it.
Plain(a, i, parts) ==
  [attempt |-> a, fr_id |-> i, fr_count |-> Len(parts), data |-> parts[i + 1]]
Parsed(p) == p.fr_id < p.fr_count

\* encrypt () and fill_storable (), with the key that the encryptor made of the
\* recipient's: the packets, none if it made none or the mail is skipped already.
encrypt(type, key, to, a, parts) ==
  IF key = None THEN {}
  ELSE {[type |-> type, key |-> key, to |-> to, plain |-> Plain(a, i, parts)] :
          i \in 0 .. Len(parts) - 1}

\* The hash of an encrypted packet, which names it: every attempt makes new ones.
Key(p) == <<p.attempt, p.fr_id>>

\* Metadata: the parts of a mail.
Part(i, key) == [id |-> i, key |-> key, delivered |-> FALSE]
Parts(a, packets, n) ==
  [i \in 0 .. n - 1 |-> Part(i, IF packets = {} THEN None ELSE <<a, i>>)]

\* What a round of requests may miss: here nothing or one.
Missed(S) == {{}} \cup {{x} : x \in S}

-----------------------------------------------------------------------------
(* The sending daemon *)

Recipient == recipient_identity(destination(mail.to))

\* check_outbox (): an outbox file that is not loaded is read.  It is passed over
\* without From, sender or recipient.
Readable ==
  /\ folder = "outbox" /\ email = None
  /\ \E i \in DOMAIN file : file[i] # UNCOMPRESSED
  /\ ~(mail.fromFirst /\ file[1] = UNCOMPRESSED)
  /\ identityByName(mail.from) # None
  /\ Recipient # None

\* What it is made into: bytes, and the packets for each key that may result.
Bytes == compress(Recipient, fromMIME(file))
Encrypted ==
  LET type == identityByName(mail.from).type
  IN  {encrypt(type, key, Recipient, Len(texts) + 1, split(Bytes)) :
         key \in CreateEncryptor(type, Recipient)}
NewParts(packets) == Parts(Len(texts) + 1, packets, Len(split(Bytes)))

\* The mail is prepared and saved, bytes and metadata.
LoadMail ==
  /\ Readable
  /\ \E packets \in Encrypted :
       /\ email' = [packets |-> packets, skip |-> packets = {}]
       /\ saved' = NewParts(packets)
  /\ file' = Bytes
  /\ texts' = Append(texts, fromMIME(file))
  /\ cut' = FALSE
  /\ UNCHANGED <<mail, folder, meta, dht, records, incoming, starts>>

\* check_outbox (): a mail that is loaded is tried again, as it is.
Retry ==
  /\ email # None /\ email.skip
  /\ email' = [email EXCEPT !.skip = FALSE]
  /\ UNCHANGED <<mail, file, folder, texts, saved, cut, meta, dht, records, incoming, starts>>

\* send_email_task: a part or the index is not confirmed by any node.  The index is
\* stored last; one without entries never is.
SendFails ==
  /\ email # None /\ ~email.skip
  /\ \E S \in {{}, email.packets} : dht' = dht \cup S
  /\ email' = [email EXCEPT !.skip = TRUE]
  /\ UNCHANGED <<mail, file, folder, texts, saved, cut, meta, records, incoming, starts>>

\* ... or all are, and the mail is saved as it is and moved to sent.
SendMail ==
  /\ email # None /\ ~email.skip /\ email.packets # {}
  /\ dht' = dht \cup email.packets
  /\ folder' = "sent"
  /\ email' = None
  /\ UNCHANGED <<mail, file, texts, saved, cut, meta, records, incoming, starts>>

\* The lines of part j are taken for lines of part i when "part<i>" is in them: the
\* digits of j, at most five, start with those of i.
Covers(i, j) == i = j \/ (i > 0 /\ \E d \in {10, 100, 1000, 10000} : j \div d = i)

\* The lines are sorted by name: by the digits, a number before its extensions.
Digits(j) == Max({j * d : d \in {e \in {1, 10, 100, 1000, 10000} : j * e < 100000}})
NotAfter(i, j) == Digits(i) < Digits(j) \/ (Digits(i) = Digits(j) /\ i <= j)
LastByName(S) == CHOOSE j \in S : \A i \in S : NotAfter(i, j)

\* EmailMetadata::load (): of the lines taken for those of a part the last ones
\* count.  A part whose id is there already is dropped.
load(f) ==
  LET Read(i) == f[LastByName({j \in DOMAIN f : Covers(i, j)})]
  IN  [id \in {Read(i).id : i \in DOMAIN f} |->
         Read(Min({i \in DOMAIN f : Read(i).id = id}))]

\* EmailMetadata::fill (): it counts up to the number of parts, and asking the map
\* for a part that is not there adds an empty one.
fill(parts, keys) ==
  [id \in 0 .. Max(DOMAIN parts) |->
     LET part == IF id \in DOMAIN parts THEN parts[id] ELSE Part(0, None)
     IN  [part EXCEPT !.delivered = @ \/ part.key \in keys]]

\* Mutant: one part that is marked is enough.
deliveredSome(parts) == \E id \in DOMAIN parts : parts[id].delivered

\* EmailMetadata::delivered ()
delivered(parts) == \A id \in DOMAIN parts : parts[id].delivered

\* check_sentbox (): metadata that is not loaded is read.
CheckSentbox ==
  /\ folder = "sent" /\ meta = None
  /\ meta' = load(saved)
  /\ UNCHANGED <<mail, outgoing, dht, records, incoming, starts>>

\* deletion_query (): the records that nodes answer of parts that are not delivered.
Answered ==
  LET asked == {meta[id].key : id \in {id \in DOMAIN meta : ~meta[id].delivered}}
  IN  {(records \cap asked) \ lost : lost \in Missed(records)} \ {{}}

\* check_delivery_task: the parts are marked that some nodes answer a deletion
\* record of, and the metadata is saved.
CheckDelivery ==
  /\ meta # None /\ ~delivered(meta)
  /\ \E found \in Answered : meta' = fill(meta, found)
  /\ saved' = meta'
  /\ UNCHANGED <<mail, file, folder, email, texts, cut, dht, records, incoming, starts>>

\* The sending daemon is killed and starts again, with the files.
Killed ==
  /\ starts < MaxStarts
  /\ starts' = starts + 1
  /\ email' = None
  /\ meta' = None
  /\ UNCHANGED <<mail, records, incoming>>

\* It is killed between two writes.
Restart == Killed /\ UNCHANGED <<file, folder, texts, saved, cut, dht>>

\* Files are truncated and written in place, so that a kill leaves the first lines of
\* metadata: the parts before n, and of part n what comes before its mark, or before
\* its key, and then the id may have lost digits.
LastLines(f, n) ==
  LET id == f[n].id
  IN  {Part(id, f[n].key)} \cup {Part(k, None) : k \in {k \in 0 .. id : Covers(k, id)}}
FirstLines(f) ==
  UNION {{[i \in {i \in DOMAIN f : i < n} |-> f[i]]}
         \cup {[i \in {i \in DOMAIN f : i <= n} |-> IF i < n THEN f[i] ELSE p] :
                  p \in LastLines(f, n)} : n \in DOMAIN f}

\* It is killed in the save of LoadMail: in Email::save (), or in
\* EmailMetadata::save (), which comes after it.
LoadKilled ==
  /\ Readable
  /\ \/ file' \in Prefixes(Bytes) /\ UNCHANGED <<saved, cut>>
     \/ /\ file' = Bytes
        /\ \E packets \in Encrypted : saved' \in FirstLines(NewParts(packets))
        /\ cut' = TRUE
  /\ texts' = Append(texts, fromMIME(file))
  /\ Killed
  /\ UNCHANGED <<folder, dht>>

\* It is killed in SendMail: in the save, in Email::move () before or after the file
\* is removed from outbox, or in EmailMetadata::move ().
SendKilled ==
  /\ email # None /\ ~email.skip /\ email.packets # {}
  /\ dht' = dht \cup email.packets
  /\ \/ file' \in Prefixes(file) /\ UNCHANGED <<folder, saved, cut>>
     \/ saved' \in FirstLines(saved) /\ cut' = TRUE /\ UNCHANGED <<file, folder>>
     \/ folder' = "parted" /\ UNCHANGED <<file, saved, cut>>
     \/ saved' \in FirstLines(saved) /\ cut' = TRUE /\ folder' = "sent" /\ UNCHANGED file
  /\ Killed
  /\ UNCHANGED texts

\* It is killed in the save of CheckDelivery.
DeliveryKilled ==
  /\ meta # None /\ ~delivered(meta)
  /\ \E found \in Answered : saved' \in FirstLines(fill(meta, found))
  /\ cut' = TRUE
  /\ Killed
  /\ UNCHANGED <<file, folder, texts, dht>>

-----------------------------------------------------------------------------
(* The receiving daemon *)

\* The identities that can be read.
peers == {parse_identity(PeerFile[i]) : i \in DOMAIN PeerFile} \ {None}

\* check_email_task: an identity retrieves packets that the index of its hash
\* names, and process_emails () writes those that it can decrypt.
Retrieve(id, lost) ==
  /\ LET plain == {Decrypt(id, p) : p \in {p \in dht \ lost : p.to = id}} \ {None}
     IN  incomplete' = incomplete \cup {p \in plain : Parsed(p)}
  /\ UNCHANGED <<mail, outgoing, meta, dht, records, inbox, starts>>

\* Mutant: the last part comes first.
restoreBackwards(P) ==
  IF \A n \in 0 .. Cardinality(P) - 1 : \E p \in P : p.fr_id = n
  THEN decompress(FlattenSeq([i \in 1 .. Cardinality(P) |->
                               (CHOOSE p \in P : p.fr_id = Cardinality(P) - i).data]))
  ELSE None

\* Email::restore (): the data of the parts 0, 1, ... in this order.
restore(P) ==
  IF \A n \in 0 .. Cardinality(P) - 1 : \E p \in P : p.fr_id = n
  THEN decompress(FlattenSeq([i \in 1 .. Cardinality(P) |->
                               (CHOOSE p \in P : p.fr_id = i - 1).data]))
  ELSE None

\* get_incomplete (): of the packets for one part of a mail the first counts that
\* the directory has.  All attempts at a mail have its message id.
get_incomplete ==
  LET ids == {p.fr_id : p \in incomplete}
      first == {a \in [ids -> DOMAIN texts] :
                  \A i \in ids : \E p \in incomplete : p.fr_id = i /\ p.attempt = a[i]}
  IN  {{p \in incomplete : p.attempt = a[p.fr_id]} : a \in first}

\* incomplete_email_task: a mail of which there are all parts is written to the
\* inbox, unless it is there already; its packets are removed, and deleted in the
\* DHT if nodes are found that do so.
Assemble(P, lost) ==
  /\ inbox = None
  /\ \E p \in incomplete : Cardinality(P) = p.fr_count
  /\ restore(P) # None
  /\ inbox' = restore(P)
  /\ incomplete' = incomplete \ P
  /\ LET D == {Key(p) : p \in P \ lost}
     IN  /\ dht' = {p \in dht : Key(p.plain) \notin D}
         /\ records' = records \cup D
  /\ UNCHANGED <<mail, outgoing, meta, starts>>

-----------------------------------------------------------------------------

Init ==
  /\ mail \in Mails
  /\ file = Text(mail.size)
  /\ folder = "outbox"
  /\ email = None
  /\ texts = <<>>
  /\ saved = <<>>
  /\ cut = FALSE
  /\ meta = None
  /\ dht = {}
  /\ records = {}
  /\ incomplete = {}
  /\ inbox = None
  /\ starts = 1

Next ==
  \/ LoadMail
  \/ Retry
  \/ SendFails
  \/ SendMail
  \/ CheckSentbox
  \/ CheckDelivery
  \/ Restart
  \/ LoadKilled
  \/ SendKilled
  \/ DeliveryKilled
  \/ \E id \in peers, lost \in Missed(dht) : Retrieve(id, lost)
  \/ \E P \in get_incomplete : \E lost \in Missed(P) : Assemble(P, lost)

Spec == Init /\ [][Next]_vars

-----------------------------------------------------------------------------
(* Properties *)

\* What the recipient of a text gets: itself, except that a text for an X25519 key
\* loses its first byte and ends in the byte of the compression.
Received(type, text) == IF type = "X25519" THEN Tail(text) \o <<ZLIB>> ELSE text

\* What is in the inbox is the text of the mail, byte for byte (but for X25519), if
\* the mail was prepared once: whatever its length, the types of the keys, the form
\* of the address and the way the parts come in, compress (), split (), encrypt (),
\* Decrypt (), restore () and decompress () fit together.  (A sender that starts
\* again makes parts of another text with the same message id.)
ContentRestored ==
  inbox # None /\ Len(texts) = 1 =>
    inbox = Received(Recipient.type, texts[1])

\* A part is marked in the metadata only when there is a deletion record of its
\* packet, and a mail is taken for delivered only when there are records of the parts
\* that were stored: of all of them, but for those that load () misses in a mail of
\* more than ten (part 1 when there is a part 10), over any restarts, saves and
\* loads of the metadata and answers that come in pieces.  The exception is metadata
\* that a kill has cut, which EmailMetadata::save () and move () let happen: parts
\* that are not in the file any more are not asked for, and without any part the
\* mail counts as delivered.
ConfirmedDeleted ==
  meta # None =>
    /\ \A id \in DOMAIN meta : meta[id].delivered => meta[id].key \in records
    /\ ~cut /\ delivered(meta) =>
         LET ids == 0 .. Len(split(compress(Recipient, texts[Len(texts)]))) - 1
         IN  \A i \in ids :
               <<Len(texts), i>> \in records \/ \E j \in ids \ {i} : Covers(i, j)

=============================================================================
