---------------------------- MODULE EmailDelivery ----------------------------
(***************************************************************************)
(* How a mail gets from the outbox of one daemon to the inbox of another   *)
(* (src/EmailWorker.cpp, src/Email.cpp).                                   *)
(*                                                                         *)
(* On the sending side send_email_task reads the outbox, splits, encrypts  *)
(* and saves each mail, stores its parts and then its index in the DHT and *)
(* moves it to the folder sent; check_delivery_task asks the DHT for       *)
(* deletion records of the parts.  On the receiving side check_email_task  *)
(* retrieves the parts that the index names and writes them to the folder  *)
(* incomplete; incomplete_email_task puts mails together, writes them to   *)
(* the inbox and deletes their parts in incomplete and in the DHT.  The    *)
(* tasks are threads; either daemon may be killed and start again between  *)
(* any two of their steps, and in the middle of writing a file: files are  *)
(* written in place, so that one is then cut short.                        *)
(*                                                                         *)
(* The mails are to one recipient.  The DHT is what some of its nodes      *)
(* hold.  A request may fail, and one that fails may have been carried     *)
(* out.  A node keeps the last index that was stored for the recipient.    *)
(***************************************************************************)
EXTENDS Integers, FiniteSets

CONSTANTS
  Mails,        \* message ids
  Parts,        \* Parts[m]: the number of parts of m
  MaxCrashes    \* bound of the number of crashes

ASSUME MailsAssumption ==
  /\ Parts \in [Mails -> Nat \ {0}]
  /\ MaxCrashes \in Nat

VARIABLES
  submitted,   \* mails handed in (history)
  fromFirst,   \* mails whose first header is From
  outbox,      \* mails with a file in the folder outbox
  attempts,    \* attempts[m]: how often m was read from there, split and saved
  cut,         \* mails whose file in outbox was cut short by a kill
  stage,       \* stage[m]: where send_email_task is with m
  sent,        \* mails with their metadata in the folder sent
  short,       \* mails whose metadata in sent was cut short by a kill
  confirmed,   \* mails that the metadata of sent says were delivered
  dht,         \* packets that nodes of the DHT hold
  index,       \* indexes that nodes hold of the recipient
  published,   \* indexes whose storage a node has confirmed (history)
  records,     \* packets that nodes have deletion records of
  incomplete,  \* packets in the folder incomplete
  inbox,       \* mails with their file in the inbox
  blank,       \* mails whose file in the inbox was cut short by a kill
  done,        \* packets that incomplete_email_task still has to delete
  received,    \* mails that have been in the inbox (history)
  crashes      \* number of crashes

folders == <<outbox, cut, sent, short, confirmed>>
sender == <<submitted, fromFirst, attempts, stage, folders>>
network == <<dht, index, published, records>>
recipient == <<incomplete, inbox, blank, done, received>>
vars == <<sender, network, recipient, crashes>>

\* A mail is read once more after a crash.
MaxAttempts == MaxCrashes + 1

\* An encrypted part.  Every attempt makes new keys and delete authorisations.
Packet == [mail : Mails, attempt : 1 .. MaxAttempts, part : Nat]
PacketsOf(m, a) == {[mail |-> m, attempt |-> a, part |-> i] : i \in 0 .. Parts[m] - 1}
Packets == UNION {PacketsOf(m, a) : m \in Mails, a \in 1 .. MaxAttempts}

\* The packets of the attempt under way, or of the one that was sent.
Current(m) == PacketsOf(m, attempts[m])

\* The index packet that send_email_task makes of a mail has the entries of its parts.
IndexOf(m) == [mail |-> m, attempt |-> attempts[m]]
Indexes == [mail : Mails, attempt : 1 .. MaxAttempts]

\* The packets of Mails that the indexes of I name.  That of another sender's mail
\* names none of them.
Foreign == [mail |-> "another sender's", attempt |-> 0]
Named(I) == UNION {PacketsOf(i.mail, i.attempt) : i \in I \ {Foreign}}

-----------------------------------------------------------------------------
(* The sending daemon *)

\* The SMTP session writes a mail to the outbox.
Submit(m) ==
  /\ m \notin submitted
  /\ submitted' = submitted \cup {m}
  /\ outbox' = outbox \cup {m}
  /\ UNCHANGED <<fromFirst, attempts, cut, stage, sent, short, confirmed, network,
                 recipient, crashes>>

\* Saving the mail in the outbox puts the byte of the compression in front of
\* it.  When it is read again, its first header has lost its name, and a mail
\* without From is passed over.
Usable(m) == m \notin fromFirst \/ attempts[m] = 0

\* send_email_task is one thread: a round stores the parts of all mails, then their
\* indexes, then it moves them.  No mail is further in the round than the stages of S.
UpTo(S) == \A n \in Mails : stage[n] \in S \cup {"none", "skipped"}

\* Mutant: a mail that is loaded is read again.
LoadAgain(m) ==
  /\ m \in outbox /\ stage[m] \in {"none", "skipped"} /\ UpTo({"loaded"})
  /\ Usable(m)
  /\ attempts' = [attempts EXCEPT ![m] = @ + 1]
  /\ stage' = [stage EXCEPT ![m] = "loaded"]
  /\ UNCHANGED <<submitted, fromFirst, folders, network, recipient, crashes>>

\* check_outbox (): a mail that is not loaded is read, split, encrypted and saved
\* with its metadata.  A file that was cut is sent as far as it goes, or is passed
\* over for want of a header.
Load(m) ==
  /\ m \in outbox /\ stage[m] = "none" /\ UpTo({"loaded"})
  /\ Usable(m)
  /\ attempts' = [attempts EXCEPT ![m] = @ + 1]
  /\ stage' = [stage EXCEPT ![m] = "loaded"]
  /\ UNCHANGED <<submitted, fromFirst, folders, network, recipient, crashes>>

\* Mutant: the mark stays, and the mail is never tried again.
RetryNever(m) == stage[m] = "skipped" /\ UNCHANGED vars

\* check_outbox (): a mail that was skipped is tried again.
Retry(m) ==
  /\ stage[m] = "skipped" /\ UpTo({"loaded"})
  /\ stage' = [stage EXCEPT ![m] = "loaded"]
  /\ UNCHANGED <<submitted, fromFirst, attempts, folders, network, recipient, crashes>>

\* The parts are stored ...
StoreParts(m) ==
  /\ stage[m] = "loaded"
  /\ dht' = dht \cup Current(m)
  /\ stage' = [stage EXCEPT ![m] = "stored"]
  /\ UNCHANGED <<submitted, fromFirst, attempts, folders, index, published, records, recipient,
                 crashes>>

\* ... or the first one that no node confirms makes the mail be skipped.
StorePartsFails(m) ==
  /\ stage[m] = "loaded"
  /\ \E j \in 0 .. Parts[m] : dht' = dht \cup {p \in Current(m) : p.part < j}
  /\ stage' = [stage EXCEPT ![m] = "skipped"]
  /\ UNCHANGED <<submitted, fromFirst, attempts, folders, index, published, records, recipient,
                 crashes>>

\* The nodes that a store request for the index reaches have this index instead of
\* theirs (update_index ()); the others keep the one they have.
Replaced(i) == {kept \cup {i} : kept \in SUBSET index}

\* The index is stored, and confirmed or not.
StoreIndex(m) ==
  /\ stage[m] = "stored" /\ UpTo({"stored", "indexed"})
  /\ index' \in Replaced(IndexOf(m))
  /\ published' = published \cup {IndexOf(m)}
  /\ stage' = [stage EXCEPT ![m] = "indexed"]
  /\ UNCHANGED <<submitted, fromFirst, attempts, folders, dht, records, recipient, crashes>>

StoreIndexFails(m) ==
  /\ stage[m] = "stored" /\ UpTo({"stored", "indexed"})
  /\ index' \in {index} \cup Replaced(IndexOf(m))
  /\ stage' = [stage EXCEPT ![m] = "skipped"]
  /\ UNCHANGED <<submitted, fromFirst, attempts, folders, dht, published, records, recipient,
                 crashes>>

\* Another sender stores the index of a mail to the recipient.
StoreForeignIndex ==
  /\ index' \in Replaced(Foreign)
  /\ UNCHANGED <<sender, dht, published, records, recipient, crashes>>

\* Mutant: the mail is moved before its index is stored.
MoveMailEarly(m) ==
  /\ stage[m] \in {"stored", "indexed"}
  /\ outbox' = outbox \ {m}
  /\ stage' = [stage EXCEPT ![m] = "moved"]
  /\ UNCHANGED <<submitted, fromFirst, attempts, cut, sent, short, confirmed, network, recipient,
                 crashes>>

\* The mail is saved once more and Email::move () moves it.  What is in the copy
\* that it makes in sent, which a kill may cut short, is never read ...
MoveMail(m) ==
  /\ stage[m] = "indexed" /\ UpTo({"indexed"})
  /\ outbox' = outbox \ {m}
  /\ stage' = [stage EXCEPT ![m] = "moved"]
  /\ UNCHANGED <<submitted, fromFirst, attempts, cut, sent, short, confirmed, network, recipient,
                 crashes>>

\* ... and EmailMetadata::move () moves its metadata.
MoveMetadata(m) ==
  /\ stage[m] = "moved"
  /\ sent' = sent \cup {m}
  /\ stage' = [stage EXCEPT ![m] = "none"]
  /\ UNCHANGED <<submitted, fromFirst, attempts, outbox, cut, short, confirmed, network, recipient,
                 crashes>>

\* Mutant: the mail counts as delivered while no part is marked.
DeliveredInverted(m, D) == Current(m) \cap D = {}

\* EmailMetadata::delivered (), with the parts of D marked.
Delivered(m, D) == Current(m) \subseteq D

\* check_delivery_task: deletion_query () for the parts, and fill () with the
\* records of the nodes that answer.  The metadata keeps what it was filled with,
\* so that some round finds the last record that there is.  Metadata without parts
\* counts as delivered.
CheckDelivery(m) ==
  /\ m \in sent \ confirmed
  /\ m \in short \/ Delivered(m, records)
  /\ confirmed' = confirmed \cup {m}
  /\ UNCHANGED <<submitted, fromFirst, attempts, stage, outbox, cut, sent, short, network,
                 recipient, crashes>>

\* The sending daemon is killed: what was loaded is read again after the next start.
SenderKilled ==
  /\ crashes < MaxCrashes
  /\ crashes' = crashes + 1
  /\ stage' = [m \in Mails |-> "none"]
  /\ UNCHANGED <<submitted, fromFirst, confirmed, network, recipient>>

\* It is killed between two steps.
SenderCrash == SenderKilled /\ UNCHANGED <<attempts, outbox, cut, sent, short>>

\* It is killed in Email::save (), which has cut the file in outbox: the one of Load,
\* or the one of MoveMail.
SaveKilled(m) ==
  /\ \/ /\ m \in outbox /\ stage[m] = "none" /\ UpTo({"loaded"}) /\ Usable(m)
        /\ attempts' = [attempts EXCEPT ![m] = @ + 1]
     \/ stage[m] = "indexed" /\ UpTo({"indexed"}) /\ UNCHANGED attempts
  /\ cut' = cut \cup {m}
  /\ SenderKilled
  /\ UNCHANGED <<outbox, sent, short>>

\* It is killed in EmailMetadata::move (), which has made the file in sent and not
\* yet written it, or in EmailMetadata::save () of the delivery check, which has found
\* a record.
MetadataKilled(m) ==
  /\ \/ stage[m] = "moved"
     \/ m \in sent \ confirmed /\ Current(m) \cap records # {}
  /\ sent' = sent \cup {m}
  /\ short' = short \cup {m}
  /\ SenderKilled
  /\ UNCHANGED <<attempts, outbox, cut>>

-----------------------------------------------------------------------------
(* The receiving daemon *)

\* What retrieve_email () may find for the entries of the indexes of I.
Found(I) == Named(I) \cap dht

\* The recipient is a node too: an index that it gets takes the place of the one it had.
Kept == {I \in {index} \cup {index \ {i} : i \in index} : index # {} => I # {}}

\* A round of check_email_task: retrieve_index (), retrieve_email () of some of the
\* packets, and process_emails (), which writes them decrypted.  A packet that is
\* deleted while the round is under way is written like one that some node has kept.
CheckEmail(S) ==
  /\ \E I \in Kept : index' = I /\ S \subseteq Found(I)
  /\ incomplete' = incomplete \cup S
  /\ UNCHANGED <<sender, dht, published, records, inbox, blank, done, received, crashes>>

\* get_incomplete (): of the packets of a mail the first one met for every part is
\* taken, whichever attempt it is of; the mail is complete with all parts.
Complete(m, S) ==
  /\ S \subseteq {p \in incomplete : p.mail = m}
  /\ \A i \in 0 .. Parts[m] - 1 : Cardinality({p \in S : p.part = i}) = 1

\* The mail is complete, and the inbox has no file of its name.
Restorable(m, S) == done = {} /\ m \notin inbox \cup blank /\ Complete(m, S)

\* Mutant: packets of a mail that is not complete are deleted too.
AssembleAny(m, S) ==
  /\ done = {}
  /\ m \notin inbox
  /\ S # {} /\ S \subseteq {p \in incomplete : p.mail = m}
  /\ IF Complete(m, S)
     THEN inbox' = inbox \cup {m} /\ received' = received \cup {m}
     ELSE UNCHANGED <<inbox, received>>
  /\ done' = S
  /\ UNCHANGED <<sender, network, incomplete, blank, crashes>>

\* incomplete_email_task, first loop: a complete mail is restored and saved.
Assemble(m, S) ==
  /\ Restorable(m, S)
  /\ inbox' = inbox \cup {m}
  /\ received' = received \cup {m}
  /\ done' = S
  /\ UNCHANGED <<sender, network, incomplete, blank, crashes>>

\* The key of the index in the metadata that get_incomplete () makes: it is not set.
metadata_dht == "zero"

\* Second loop: the packet is removed, and deleteEmail () deletes it in the DHT,
\* or at some of the nodes only; the recipient itself is one of those that keep
\* the record.  The request for the index entries (deleteIndexEntries ()) goes to
\* the key that the metadata has, which no node has an index of.
DeletePart(p) ==
  /\ p \in done /\ \A q \in done : p.part <= q.part
  /\ done' = done \ {p}
  /\ incomplete' = incomplete \ {p}
  /\ dht' \in {dht, dht \ {p}}
  /\ records' = records \cup {p}
  /\ index' = IF metadata_dht = "recipient" THEN {i \in index : i.mail # p.mail} ELSE index
  /\ UNCHANGED <<sender, published, inbox, blank, received, crashes>>

\* The POP3 session removes a mail, or what a kill has left of it.
UserDelete(m) ==
  /\ m \in inbox \cup blank
  /\ inbox' = inbox \ {m}
  /\ blank' = blank \ {m}
  /\ UNCHANGED <<sender, network, incomplete, done, received, crashes>>

\* The receiving daemon is killed.
RecipientKilled ==
  /\ crashes < MaxCrashes
  /\ crashes' = crashes + 1
  /\ done' = {}
  /\ UNCHANGED <<sender, network, inbox, received>>

\* It is killed between two steps.
RecipientCrash == RecipientKilled /\ UNCHANGED <<incomplete, blank>>

\* It is killed in process_emails () after the packets of W are written; the next
\* file is cut, and a packet that is not whole is not read.
CheckEmailKilled(W) ==
  /\ W \subseteq Found(index)
  /\ \E q \in Found(index) \ W : incomplete' = (incomplete \cup W) \ {q}
  /\ RecipientKilled
  /\ UNCHANGED blank

\* It is killed in Email::save (), and the file in the inbox is cut.
AssembleKilled(m, S) ==
  /\ Restorable(m, S)
  /\ blank' = blank \cup {m}
  /\ RecipientKilled
  /\ UNCHANGED incomplete

-----------------------------------------------------------------------------
Init ==
  /\ submitted = {} /\ outbox = {} /\ cut = {} /\ sent = {} /\ short = {} /\ confirmed = {}
  /\ fromFirst \in SUBSET Mails
  /\ attempts = [m \in Mails |-> 0]
  /\ stage = [m \in Mails |-> "none"]
  /\ dht = {} /\ index = {} /\ published = {} /\ records = {}
  /\ incomplete = {} /\ inbox = {} /\ blank = {} /\ done = {} /\ received = {}
  /\ crashes = 0

SendTask(m) ==
  \/ Load(m) \/ Retry(m) \/ StoreParts(m) \/ StorePartsFails(m)
  \/ StoreIndex(m) \/ StoreIndexFails(m) \/ MoveMail(m) \/ MoveMetadata(m)

Next ==
  \/ \E m \in Mails : \/ Submit(m) \/ SendTask(m) \/ CheckDelivery(m) \/ UserDelete(m)
                      \/ SaveKilled(m) \/ MetadataKilled(m)
                      \/ \E S \in SUBSET incomplete : Assemble(m, S) \/ AssembleKilled(m, S)
  \/ \E S \in SUBSET Found(index) : CheckEmail(S) \/ CheckEmailKilled(S)
  \/ \E p \in Packets : DeletePart(p)
  \/ StoreForeignIndex \/ SenderCrash \/ RecipientCrash

\* Every task goes on, and the DHT does not fail for ever: a request that is
\* made again and again is carried out and confirmed at some time.
Fairness ==
  /\ \A m \in Mails :
       /\ WF_vars(m \notin cut /\ SendTask(m))
       /\ SF_vars(StoreParts(m)) /\ SF_vars(StoreIndex(m))
       /\ SF_vars(\E S \in SUBSET incomplete : Assemble(m, S))
       /\ SF_vars(CheckEmail(Current(m)))
  /\ WF_vars(\E p \in Packets : DeletePart(p))

Spec == Init /\ [][Next]_vars /\ Fairness

-----------------------------------------------------------------------------
(* Properties *)

\* The variables have their types.
TypeOK ==
  /\ {submitted, fromFirst, outbox, cut, sent, short, confirmed, inbox, blank, received}
       \subseteq SUBSET Mails
  /\ attempts \in [Mails -> 0 .. MaxAttempts]
  /\ stage \in [Mails -> {"none", "loaded", "skipped", "stored", "indexed", "moved"}]
  /\ {dht, records, incomplete, done} \subseteq SUBSET Packets
  /\ index \subseteq Indexes \cup {Foreign} /\ published \subseteq Indexes
  /\ crashes \in 0 .. MaxCrashes

\* The mail worker implements the mail channel: mails appear in the inbox only
\* after they were handed in, and the sender is told of a delivery only after it,
\* or after a kill has cut the metadata of the mail.
Channel == INSTANCE MailChannel WITH spoiled <- short
ImplementsChannel == Channel!Spec

\* The index of a mail was stored, and then replaced at every node that had it: nodes
\* hold the one of another mail to the recipient, or of an attempt before, instead.
Overwritten(m) == IndexOf(m) \in published \ index /\ index # {}

\* A mail that was handed in and has not been received is not lost, whatever crashes
\* and whichever request fails: it is in the outbox, or each of its parts is in the DHT
\* together with the index that names them.  Two things may still keep it from being
\* received, and nothing else: a kill that cut its file in the outbox, and another index
\* that took the place of the one that was stored.
NoMailLost ==
  \A m \in submitted \ received :
    \/ m \in outbox
    \/ Current(m) \subseteq dht /\ (IndexOf(m) \in index \/ Overwritten(m))

\* Parts are deleted, in the folder and in the DHT, only of mails that were received.
DeletedAfterReceived == \A p \in done \cup records : p.mail \in received

\* A mail that was handed in is received at last, unless the sender was killed
\* while it was sending it and can no longer read it, another index took the place of
\* its own, or the recipient was killed while it wrote the mail to the inbox.
EventuallyReceived ==
  \A m \in Mails :
    m \in submitted ~> \/ m \in received
                       \/ m \in outbox /\ (m \in cut \/ ~Usable(m))
                       \/ m \notin outbox /\ Overwritten(m)
                       \/ m \in blank
=============================================================================
