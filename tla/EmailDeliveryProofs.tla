-------------------------- MODULE EmailDeliveryProofs --------------------------
(***************************************************************************)
(* Theorems about EmailDelivery, for any mails, numbers of parts and       *)
(* number of crashes: no mail is lost, parts are deleted only of mails     *)
(* that were received, and the mail worker implements MailChannel.         *)
(***************************************************************************)
EXTENDS EmailDelivery, FiniteSetTheorems, TLAPS

USE MailsAssumption

-----------------------------------------------------------------------------
(* Packets *)

\* The packets of an attempt carry its mail; there is at least one, and they are
\* packets of the model.
LEMMA PacketsOfFacts ==
  ASSUME NEW m \in Mails, NEW a
  PROVE  /\ \A p \in PacketsOf(m, a) : p.mail = m
         /\ PacketsOf(m, a) # {}
         /\ a \in 1 .. MaxAttempts => PacketsOf(m, a) \subseteq Packets
<1>1. \A p \in PacketsOf(m, a) : p.mail = m
  BY DEF PacketsOf
<1>2. PacketsOf(m, a) # {}
  <2>1. 0 \in 0 .. Parts[m] - 1
    OBVIOUS
  <2> QED
    BY <2>1 DEF PacketsOf
<1>3. ASSUME a \in 1 .. MaxAttempts
      PROVE  PacketsOf(m, a) \subseteq Packets
  BY <1>3 DEF Packets
<1> QED
  BY <1>1, <1>2, <1>3

\* Every packet is of a mail.
LEMMA PacketMail == \A p \in Packets : p.mail \in Mails
<1> SUFFICES ASSUME NEW p \in Packets PROVE p.mail \in Mails
  OBVIOUS
<1>1. PICK m \in Mails, a \in 1 .. MaxAttempts : p \in PacketsOf(m, a)
  BY DEF Packets
<1> QED
  BY <1>1, PacketsOfFacts

\* A mail that is complete has a packet.
LEMMA CompleteNonempty ==
  ASSUME NEW m \in Mails, NEW S, Complete(m, S)
  PROVE  S # {} /\ S \subseteq incomplete /\ \A p \in S : p.mail = m
<1>1. 0 \in 0 .. Parts[m] - 1
  OBVIOUS
<1>2. Cardinality({p \in S : p.part = 0}) = 1
  BY <1>1 DEF Complete
<1>3. S # {}
  <2> SUFFICES ASSUME S = {} PROVE FALSE
    OBVIOUS
  <2>1. {p \in S : p.part = 0} = {}
    OBVIOUS
  <2> QED
    BY <1>2, <2>1, FS_EmptySet
<1> QED
  BY <1>3 DEF Complete

-----------------------------------------------------------------------------
(* The inductive invariant *)

\* Where a mail is with send_email_task says where its file is, and a mail is read
\* at most once per start of the daemon.
SendOK ==
  \A m \in Mails :
    /\ m \notin submitted => m \notin outbox /\ attempts[m] = 0 /\ stage[m] = "none"
    /\ stage[m] \in {"loaded", "skipped", "stored", "indexed"} => m \in outbox
    /\ stage[m] = "moved" => m \in submitted \ outbox
    /\ stage[m] # "none" \/ m \in submitted \ outbox => attempts[m] >= 1
    /\ attempts[m] <= crashes + 1
    /\ m \in outbox /\ stage[m] = "none" => attempts[m] <= crashes

\* Packets are of mails that were handed in; packets to be deleted, and mails in
\* the inbox, of mails that were received; deliveries are confirmed of these, or of
\* mails whose metadata was cut.
MailsOK ==
  /\ \A p \in dht \cup incomplete : p.mail \in submitted
  /\ \A p \in done \cup records : p.mail \in received
  /\ received \subseteq submitted
  /\ confirmed \subseteq received \cup short

\* The nodes hold every part of a mail that was stored and not received.  Its index was
\* confirmed before it left the outbox, and since then there is one for the recipient.
Held ==
  \A m \in Mails \ received :
    /\ stage[m] \in {"stored", "indexed"} \/ m \in submitted \ outbox => Current(m) \subseteq dht
    /\ stage[m] = "indexed" \/ m \in submitted \ outbox =>
         IndexOf(m) \in published /\ index # {}

Inv == TypeOK /\ SendOK /\ MailsOK /\ Held

\* A daemon without mails satisfies the invariant.
LEMMA InvInit == Init => Inv
<1> SUFFICES ASSUME Init PROVE Inv
  OBVIOUS
<1>1. TypeOK
  BY DEF Init, TypeOK, MaxAttempts
<1>2. SendOK /\ MailsOK /\ Held
  BY DEF Init, SendOK, MailsOK, Held
<1> QED
  BY <1>1, <1>2 DEF Inv

-----------------------------------------------------------------------------
(* Steps *)

\* The packets of the attempt under way are packets of the model.
LEMMA CurrentPackets ==
  ASSUME Inv, NEW m \in Mails, attempts[m] >= 1
  PROVE  Current(m) \subseteq Packets
<1>1. attempts[m] \in 1 .. MaxAttempts
  BY DEF Inv, TypeOK, MaxAttempts
<1> QED
  BY <1>1, PacketsOfFacts DEF Current

\* An index that is stored, or that the recipient gets, leaves one there.
LEMMA IndexFacts ==
  /\ \A i : \A I \in Replaced(i) : I # {} /\ I \subseteq index \cup {i}
  /\ \A I \in Kept : I \subseteq index /\ (index # {} => I # {})
BY DEF Replaced, Kept

\* What a round of check_email_task finds is in the DHT.
LEMMA FoundFacts ==
  ASSUME NEW S, CheckEmail(S)
  PROVE  S \subseteq dht /\ index' \subseteq index /\ (index # {} => index' # {})
BY IndexFacts DEF CheckEmail, Found

\* Every step keeps the types; a mail is read at most once more than there were
\* crashes.
LEMMA TypeStep ==
  ASSUME Inv, Next
  PROVE  TypeOK'
<1> USE DEF folders, sender, network, recipient
<1>1. ASSUME NEW m \in Mails, Submit(m) \/ CheckDelivery(m) \/ UserDelete(m)
      PROVE  TypeOK'
  BY <1>1 DEF Submit, CheckDelivery, UserDelete, Inv, TypeOK
<1>2. ASSUME NEW m \in Mails, Load(m)
      PROVE  TypeOK'
  <2>1. attempts[m] + 1 \in 0 .. MaxAttempts
    BY <1>2 DEF Load, Inv, TypeOK, SendOK, MaxAttempts
  <2> QED
    BY <1>2, <2>1 DEF Load, Inv, TypeOK
<1>3. ASSUME NEW m \in Mails, Retry(m) \/ MoveMail(m) \/ MoveMetadata(m)
      PROVE  TypeOK'
  BY <1>3 DEF Retry, MoveMail, MoveMetadata, Inv, TypeOK
<1>4. ASSUME NEW m \in Mails, StoreParts(m) \/ StorePartsFails(m)
      PROVE  TypeOK'
  <2>1. Current(m) \subseteq Packets
    BY <1>4, CurrentPackets DEF StoreParts, StorePartsFails, Inv, SendOK
  <2>2. dht' \subseteq Packets
    BY <1>4, <2>1 DEF StoreParts, StorePartsFails, Inv, TypeOK
  <2> QED
    BY <1>4, <2>2 DEF StoreParts, StorePartsFails, Inv, TypeOK
<1>5. ASSUME NEW m \in Mails, StoreIndex(m) \/ StoreIndexFails(m)
      PROVE  TypeOK'
  <2>1. IndexOf(m) \in Indexes
    BY <1>5 DEF StoreIndex, StoreIndexFails, Inv, SendOK, TypeOK, IndexOf, Indexes, MaxAttempts
  <2>2. index' \subseteq Indexes \cup {Foreign} /\ published' \subseteq Indexes
    BY <1>5, <2>1, IndexFacts DEF StoreIndex, StoreIndexFails, Inv, TypeOK
  <2> QED
    BY <1>5, <2>2 DEF StoreIndex, StoreIndexFails, Inv, TypeOK
<1>6. CASE StoreForeignIndex
  BY <1>6, IndexFacts DEF StoreForeignIndex, Inv, TypeOK
<1>7. ASSUME NEW m \in Mails, NEW S \in SUBSET incomplete, Assemble(m, S) \/ AssembleKilled(m, S)
      PROVE  TypeOK'
  BY <1>7 DEF Assemble, AssembleKilled, RecipientKilled, Inv, TypeOK
<1>8. ASSUME NEW S, CheckEmail(S)
      PROVE  TypeOK'
  BY <1>8, FoundFacts DEF CheckEmail, Inv, TypeOK
<1>9. ASSUME NEW W \in SUBSET Found(index), CheckEmailKilled(W)
      PROVE  TypeOK'
  <2>1. incomplete' \subseteq Packets
    BY <1>9 DEF CheckEmailKilled, Found, Inv, TypeOK
  <2> QED
    BY <1>9, <2>1 DEF CheckEmailKilled, RecipientKilled, Inv, TypeOK
<1>10. ASSUME NEW p \in Packets, DeletePart(p)
       PROVE  TypeOK'
  <2>1. dht' \subseteq Packets /\ index' \subseteq index
    BY <1>10 DEF DeletePart, Inv, TypeOK
  <2> QED
    BY <1>10, <2>1 DEF DeletePart, Inv, TypeOK
<1>11. CASE SenderCrash \/ RecipientCrash
  BY <1>11 DEF SenderCrash, SenderKilled, RecipientCrash, RecipientKilled, Inv, TypeOK
<1>12. ASSUME NEW m \in Mails, SaveKilled(m)
       PROVE  TypeOK'
  <2>1. attempts' \in [Mails -> 0 .. MaxAttempts]
    BY <1>12 DEF SaveKilled, Inv, TypeOK, SendOK, MaxAttempts
  <2> QED
    BY <1>12, <2>1 DEF SaveKilled, SenderKilled, Inv, TypeOK
<1>13. ASSUME NEW m \in Mails, MetadataKilled(m)
       PROVE  TypeOK'
  BY <1>13 DEF MetadataKilled, SenderKilled, Inv, TypeOK
<1> QED
  BY <1>1, <1>2, <1>3, <1>4, <1>5, <1>6, <1>7, <1>8, <1>9, <1>10, <1>11, <1>12, <1>13
  DEF Next, SendTask

\* Every step keeps the places of the mails: a crash takes a mail that is being
\* sent back to the outbox, where it is read again.
LEMMA SendStep ==
  ASSUME Inv, Next
  PROVE  SendOK'
<1> USE DEF Inv, TypeOK
<1>1. ASSUME NEW m \in Mails, Submit(m)
      PROVE  SendOK'
  BY <1>1 DEF Submit, SendOK
<1>2. ASSUME NEW m \in Mails, Load(m)
      PROVE  SendOK'
  BY <1>2 DEF Load, folders, SendOK
<1>3. ASSUME NEW m \in Mails, Retry(m)
      PROVE  SendOK'
  BY <1>3 DEF Retry, folders, SendOK
<1>4. ASSUME NEW m \in Mails, MoveMail(m)
      PROVE  SendOK'
  BY <1>4 DEF MoveMail, SendOK
<1>5. ASSUME NEW m \in Mails, MoveMetadata(m)
      PROVE  SendOK'
  BY <1>5 DEF MoveMetadata, SendOK
<1>6. ASSUME NEW m \in Mails, StoreParts(m) \/ StorePartsFails(m)
      PROVE  SendOK'
  BY <1>6 DEF StoreParts, StorePartsFails, folders, SendOK
<1>7. ASSUME NEW m \in Mails, StoreIndex(m) \/ StoreIndexFails(m)
      PROVE  SendOK'
  BY <1>7 DEF StoreIndex, StoreIndexFails, folders, SendOK
<1>8. CASE SenderCrash
  BY <1>8 DEF SenderCrash, SenderKilled, SendOK
<1>9. ASSUME NEW m \in Mails, SaveKilled(m)
      PROVE  SendOK'
  BY <1>9 DEF SaveKilled, SenderKilled, SendOK
<1>10. ASSUME NEW m \in Mails, MetadataKilled(m)
       PROVE  SendOK'
  BY <1>10 DEF MetadataKilled, SenderKilled, SendOK
<1>11. ASSUME UNCHANGED <<submitted, outbox, attempts, stage>>, crashes' \in {crashes, crashes + 1}
       PROVE  SendOK'
  BY <1>11 DEF SendOK
<1>12. ASSUME NEW m \in Mails, CheckDelivery(m) \/ UserDelete(m)
       PROVE  SendOK'
  BY <1>11, <1>12 DEF CheckDelivery, UserDelete, sender, folders
<1>13. ASSUME NEW m \in Mails, NEW S \in SUBSET incomplete, Assemble(m, S) \/ AssembleKilled(m, S)
       PROVE  SendOK'
  BY <1>11, <1>13 DEF Assemble, AssembleKilled, RecipientKilled, sender, folders
<1>14. ASSUME NEW S, CheckEmail(S) \/ CheckEmailKilled(S)
       PROVE  SendOK'
  BY <1>11, <1>14 DEF CheckEmail, CheckEmailKilled, RecipientKilled, sender, folders
<1>15. ASSUME NEW p \in Packets, DeletePart(p)
       PROVE  SendOK'
  BY <1>11, <1>15 DEF DeletePart, sender, folders
<1>16. CASE StoreForeignIndex \/ RecipientCrash
  BY <1>11, <1>16 DEF StoreForeignIndex, RecipientCrash, RecipientKilled, sender, folders
<1> QED
  BY <1>1, <1>2, <1>3, <1>4, <1>5, <1>6, <1>7, <1>8, <1>9, <1>10, <1>12, <1>13, <1>14, <1>15, <1>16
  DEF Next, SendTask

\* Every step keeps whose packets there are: what is deleted is of a mail that was
\* put together, and a delivery is confirmed by the records of all its parts, or by
\* metadata that was cut.
LEMMA MailsStep ==
  ASSUME Inv, Next
  PROVE  MailsOK'
<1> USE DEF Inv
<1>1. ASSUME NEW m \in Mails, Submit(m)
      PROVE  MailsOK'
  BY <1>1 DEF Submit, network, recipient, MailsOK
<1>2. ASSUME NEW m \in Mails, CheckDelivery(m)
      PROVE  MailsOK'
  <2>1. m \in received \cup short
    <3>1. PICK p : p \in Current(m)
      BY PacketsOfFacts DEF Current
    <3>2. m \in short \/ (p.mail = m /\ p \in records)
      BY <1>2, <3>1, PacketsOfFacts DEF Current, CheckDelivery, Delivered
    <3> QED
      BY <3>2 DEF MailsOK
  <2> QED
    BY <1>2, <2>1 DEF CheckDelivery, network, recipient, MailsOK
<1>3. ASSUME NEW m \in Mails, StoreParts(m) \/ StorePartsFails(m)
      PROVE  MailsOK'
  <2>1. \A p \in Current(m) : p.mail \in submitted
    BY <1>3, PacketsOfFacts DEF Current, StoreParts, StorePartsFails, SendOK
  <2>2. \A p \in dht' : p.mail \in submitted
    BY <1>3, <2>1 DEF StoreParts, StorePartsFails, MailsOK
  <2> QED
    BY <1>3, <2>2 DEF StoreParts, StorePartsFails, folders, recipient, MailsOK
<1>4. ASSUME NEW m \in Mails, StoreIndex(m) \/ StoreIndexFails(m)
      PROVE  MailsOK'
  BY <1>4 DEF StoreIndex, StoreIndexFails, folders, recipient, MailsOK
<1>5. ASSUME NEW m \in Mails, Load(m) \/ Retry(m) \/ MoveMail(m) \/ MoveMetadata(m)
      PROVE  MailsOK'
  BY <1>5 DEF Load, Retry, MoveMail, MoveMetadata, folders, network, recipient, MailsOK
<1>6. ASSUME NEW m \in Mails, NEW S \in SUBSET incomplete, Assemble(m, S)
      PROVE  MailsOK'
  <2>1. S # {} /\ S \subseteq incomplete /\ \A p \in S : p.mail = m
    BY <1>6, CompleteNonempty DEF Assemble, Restorable
  <2>2. m \in submitted
    BY <2>1 DEF MailsOK
  <2> QED
    BY <1>6, <2>1, <2>2 DEF Assemble, sender, folders, network, MailsOK
<1>7. ASSUME NEW S, CheckEmail(S)
      PROVE  MailsOK'
  BY <1>7, FoundFacts DEF CheckEmail, sender, folders, MailsOK
<1>8. ASSUME NEW p \in Packets, DeletePart(p)
      PROVE  MailsOK'
  <2>1. dht' \subseteq dht
    BY <1>8 DEF DeletePart
  <2> QED
    BY <1>8, <2>1 DEF DeletePart, sender, folders, MailsOK
<1>9. CASE SenderCrash \/ StoreForeignIndex
  BY <1>9 DEF SenderCrash, SenderKilled, StoreForeignIndex, sender, folders, network, recipient,
              MailsOK
<1>10. ASSUME NEW m \in Mails, SaveKilled(m) \/ MetadataKilled(m)
       PROVE  MailsOK'
  BY <1>10 DEF SaveKilled, MetadataKilled, SenderKilled, network, recipient, MailsOK
<1>11. ASSUME NEW m \in Mails, UserDelete(m)
       PROVE  MailsOK'
  BY <1>11 DEF UserDelete, sender, folders, network, MailsOK
<1>12. ASSUME RecipientKilled, \A p \in incomplete' : p \in incomplete \cup dht
       PROVE  MailsOK'
  BY <1>12 DEF RecipientKilled, sender, folders, network, MailsOK
<1>13. CASE RecipientCrash
  BY <1>12, <1>13 DEF RecipientCrash
<1>14. ASSUME NEW W \in SUBSET Found(index), CheckEmailKilled(W)
       PROVE  MailsOK'
  BY <1>12, <1>14 DEF CheckEmailKilled, Found
<1>15. ASSUME NEW m \in Mails, NEW S \in SUBSET incomplete, AssembleKilled(m, S)
       PROVE  MailsOK'
  BY <1>12, <1>15 DEF AssembleKilled
<1> QED
  BY <1>1, <1>2, <1>3, <1>4, <1>5, <1>6, <1>7, <1>8, <1>9, <1>10, <1>11, <1>13, <1>14, <1>15
  DEF Next, SendTask

\* Every step keeps the parts of a mail that was not received: only what was put
\* together is deleted, and a mail leaves the outbox after its index is stored, which
\* only another index replaces.
LEMMA HeldStep ==
  ASSUME Inv, Next
  PROVE  Held'
<1> USE DEF Inv
<1>1. ASSUME NEW m \in Mails, Submit(m)
      PROVE  Held'
  BY <1>1 DEF Submit, network, recipient, Held, Current, IndexOf
<1>2. ASSUME NEW m \in Mails, Load(m)
      PROVE  Held'
  <2> SUFFICES ASSUME NEW n \in Mails \ received',
                      stage'[n] \in {"stored", "indexed"} \/ n \in submitted' \ outbox'
               PROVE  n # m
    BY <1>2 DEF Load, folders, network, recipient, Held, Current, IndexOf, TypeOK
  <2> QED
    BY <1>2 DEF Load, folders, TypeOK
<1>3. ASSUME NEW m \in Mails, Retry(m) \/ MoveMetadata(m)
      PROVE  Held'
  BY <1>3 DEF Retry, MoveMetadata, folders, network, recipient, Held, Current, IndexOf, TypeOK
<1>4. ASSUME NEW m \in Mails, MoveMail(m)
      PROVE  Held'
  BY <1>4 DEF MoveMail, network, recipient, Held, Current, IndexOf, TypeOK
<1>5. ASSUME NEW m \in Mails, StoreParts(m)
      PROVE  Held'
  BY <1>5 DEF StoreParts, folders, recipient, Held, Current, IndexOf, TypeOK
<1>6. ASSUME NEW m \in Mails, StorePartsFails(m)
      PROVE  Held'
  <2>1. dht \subseteq dht'
    BY <1>6 DEF StorePartsFails
  <2> QED
    BY <1>6, <2>1 DEF StorePartsFails, folders, recipient, Held, Current, IndexOf, TypeOK
<1>7. ASSUME NEW m \in Mails, StoreIndex(m)
      PROVE  Held'
  <2>1. index' # {} /\ IndexOf(m) \in published'
    BY <1>7, IndexFacts DEF StoreIndex
  <2> QED
    BY <1>7, <2>1 DEF StoreIndex, folders, recipient, Held, Current, IndexOf, TypeOK
<1>8. ASSUME NEW m \in Mails, StoreIndexFails(m)
      PROVE  Held'
  <2>1. index # {} => index' # {}
    BY <1>8, IndexFacts DEF StoreIndexFails
  <2> QED
    BY <1>8, <2>1 DEF StoreIndexFails, folders, recipient, Held, Current, IndexOf, TypeOK
<1>9. ASSUME NEW p \in Packets, DeletePart(p)
      PROVE  Held'
  <2>1. p.mail \in received
    BY <1>9 DEF DeletePart, MailsOK
  <2>2. \A n \in Mails \ received : p \notin Current(n)
    BY <2>1, PacketsOfFacts DEF Current
  <2>3. index' = index /\ dht \ {p} \subseteq dht'
    BY <1>9 DEF DeletePart, metadata_dht
  <2>4. /\ UNCHANGED <<sender, published, received>>
        /\ \A n \in Mails : Current(n)' = Current(n) /\ IndexOf(n)' = IndexOf(n)
    BY <1>9 DEF DeletePart, sender, Current, IndexOf
  <2> QED
    BY <2>2, <2>3, <2>4 DEF sender, folders, Held
<1>10. CASE SenderCrash
  BY <1>10 DEF SenderCrash, SenderKilled, network, recipient, Held, Current, IndexOf
<1>11. ASSUME UNCHANGED <<submitted, outbox, attempts, stage, dht, published>>,
              received \subseteq received', index # {} => index' # {}
       PROVE  Held'
  BY <1>11 DEF Held, Current, IndexOf
<1>12. ASSUME NEW m \in Mails, NEW S \in SUBSET incomplete, Assemble(m, S) \/ AssembleKilled(m, S)
       PROVE  Held'
  BY <1>11, <1>12 DEF Assemble, AssembleKilled, RecipientKilled, sender, folders, network
<1>13. ASSUME NEW S, CheckEmail(S)
       PROVE  Held'
  BY <1>11, <1>13, FoundFacts DEF CheckEmail, sender, folders
<1>14. ASSUME NEW W, RecipientCrash \/ CheckEmailKilled(W)
       PROVE  Held'
  BY <1>11, <1>14 DEF CheckEmailKilled, RecipientCrash, RecipientKilled, sender, folders, network
<1>15. ASSUME NEW m \in Mails, UserDelete(m) \/ CheckDelivery(m)
       PROVE  Held'
  BY <1>11, <1>15 DEF UserDelete, CheckDelivery, sender, folders, network, recipient
<1>16. CASE StoreForeignIndex
  <2>1. index' # {}
    BY <1>16, IndexFacts DEF StoreForeignIndex
  <2> QED
    BY <1>11, <1>16, <2>1 DEF StoreForeignIndex, sender, folders, recipient
<1>17. ASSUME NEW m \in Mails, SaveKilled(m)
       PROVE  Held'
  <2> SUFFICES ASSUME NEW n \in Mails \ received', n \in submitted' \ outbox'
               PROVE  attempts'[n] = attempts[n]
    BY <1>17 DEF SaveKilled, SenderKilled, network, recipient, Held, Current, IndexOf
  <2> QED
    BY <1>17 DEF SaveKilled, SenderKilled, SendOK, TypeOK
<1>18. ASSUME NEW m \in Mails, MetadataKilled(m)
       PROVE  Held'
  BY <1>18 DEF MetadataKilled, SenderKilled, network, recipient, Held, Current, IndexOf
<1> QED
  BY <1>1, <1>2, <1>3, <1>4, <1>5, <1>6, <1>7, <1>8, <1>9, <1>10, <1>12, <1>13, <1>14, <1>15,
     <1>16, <1>17, <1>18 DEF Next, SendTask

\* A step that changes nothing keeps the invariant.
LEMMA InvStutter ==
  ASSUME Inv, UNCHANGED vars
  PROVE  Inv'
<1>1. UNCHANGED <<sender, folders, network, recipient, crashes>>
  BY DEF vars, sender
<1>2. TypeOK'
  BY <1>1 DEF Inv, TypeOK, sender, folders, network, recipient
<1>3. SendOK'
  BY <1>1 DEF Inv, SendOK, sender, folders
<1>4. MailsOK'
  BY <1>1 DEF Inv, MailsOK, sender, folders, network, recipient
<1>5. Held'
  BY <1>1 DEF Inv, Held, Current, IndexOf, sender, folders, network, recipient
<1> QED
  BY <1>2, <1>3, <1>4, <1>5 DEF Inv

\* The invariant holds in every state of the mail worker.
THEOREM DeliveryInvariant == Spec => []Inv
<1>1. Inv /\ [Next]_vars => Inv'
  BY TypeStep, SendStep, MailsStep, HeldStep, InvStutter DEF Inv
<1> QED
  BY InvInit, <1>1, PTL DEF Spec

\* The state of both daemons and of the DHT keeps its types; in particular a mail
\* is read, split and encrypted at most once more than there are crashes.
THEOREM DeliveryTypes == Spec => []TypeOK
<1>1. Inv => TypeOK
  BY DEF Inv
<1> QED
  BY <1>1, DeliveryInvariant, PTL

\* Whatever crashes, and whichever request fails, a mail that was handed in and not
\* received is in the outbox, or completely in the DHT with its index, unless another
\* index has taken the place of that one.
THEOREM MailNotLost == Spec => []NoMailLost
<1>1. Inv => NoMailLost
  BY DEF Inv, TypeOK, Held, NoMailLost, Overwritten
<1> QED
  BY <1>1, DeliveryInvariant, PTL

\* Only parts of mails that have been in the inbox are deleted.
THEOREM DeletesOnlyReceived == Spec => []DeletedAfterReceived
<1>1. Inv => DeletedAfterReceived
  BY DEF Inv, MailsOK, DeletedAfterReceived
<1> QED
  BY <1>1, DeliveryInvariant, PTL

-----------------------------------------------------------------------------
(* The mail worker implements the mail channel. *)

\* A daemon without mails is an empty channel.
LEMMA ChannelInit == Init => Channel!Init
BY DEF Init, Channel!Init

\* Submit, Assemble, UserDelete and CheckDelivery are the steps of the channel, and a kill
\* that cuts metadata spoils what the sender knows; all others, the other kills included,
\* are not seen by its users.
LEMMA ChannelStep ==
  ASSUME Inv, Next
  PROVE  Channel!Next \/ UNCHANGED Channel!vars
<1>1. ASSUME NEW m \in Mails, Submit(m)
      PROVE  Channel!Submit(m)
  BY <1>1 DEF Submit, recipient, Channel!Submit
<1>2. ASSUME NEW m \in Mails, NEW S \in SUBSET incomplete, Assemble(m, S)
      PROVE  Channel!Deliver(m)
  <2>1. S # {} /\ S \subseteq incomplete /\ \A p \in S : p.mail = m
    BY <1>2, CompleteNonempty DEF Assemble, Restorable
  <2>2. m \in submitted
    BY <2>1 DEF Inv, MailsOK
  <2> QED
    BY <1>2, <2>2 DEF Assemble, Restorable, sender, folders, Channel!Deliver
<1>3. ASSUME UNCHANGED <<submitted, inbox, received, confirmed, short>>
      PROVE  UNCHANGED Channel!vars
  BY <1>3 DEF Channel!vars
<1>4. ASSUME NEW m \in Mails, UserDelete(m)
      PROVE  Channel!Remove(m) \/ UNCHANGED Channel!vars
  <2>1. CASE m \in inbox
    BY <1>4, <2>1 DEF UserDelete, sender, folders, Channel!Remove
  <2>2. CASE m \notin inbox
    BY <1>3, <1>4, <2>2 DEF UserDelete, sender, folders
  <2> QED
    BY <2>1, <2>2
<1>5. ASSUME NEW m \in Mails, CheckDelivery(m)
      PROVE  Channel!Confirm(m)
  <2>1. PICK p : p \in Current(m)
    BY PacketsOfFacts DEF Current
  <2>2. m \in short \/ (p.mail = m /\ p \in records)
    BY <1>5, <2>1, PacketsOfFacts DEF Current, CheckDelivery, Delivered
  <2>3. m \in (received \cup short) \ confirmed
    BY <1>5, <2>2 DEF CheckDelivery, Inv, MailsOK
  <2> QED
    BY <1>5, <2>3 DEF CheckDelivery, recipient, Channel!Confirm
<1>6. ASSUME NEW m \in Mails, MetadataKilled(m)
      PROVE  Channel!Spoil(m)
  <2>1. m \in submitted
    <3>1. CASE stage[m] = "moved"
      BY <3>1 DEF Inv, SendOK
    <3>2. CASE Current(m) \cap records # {}
      <4>1. PICK p \in Current(m) : p \in records
        BY <3>2
      <4>2. p.mail = m
        BY <4>1, PacketsOfFacts DEF Current
      <4> QED
        BY <4>1, <4>2 DEF Inv, MailsOK
    <3> QED
      BY <1>6, <3>1, <3>2 DEF MetadataKilled
  <2> QED
    BY <1>6, <2>1 DEF MetadataKilled, SenderKilled, recipient, Channel!Spoil
<1>7. ASSUME NEW m \in Mails, SendTask(m)
      PROVE  UNCHANGED <<submitted, inbox, received, confirmed, short>>
  BY <1>7 DEF SendTask, Load, Retry, StoreParts, StorePartsFails, StoreIndex,
              StoreIndexFails, MoveMail, MoveMetadata, folders, recipient
<1>8. ASSUME NEW S, CheckEmail(S) \/ CheckEmailKilled(S)
      PROVE  UNCHANGED <<submitted, inbox, received, confirmed, short>>
  BY <1>8 DEF CheckEmail, CheckEmailKilled, RecipientKilled, sender, folders
<1>9. ASSUME NEW p \in Packets, DeletePart(p)
      PROVE  UNCHANGED <<submitted, inbox, received, confirmed, short>>
  BY <1>9 DEF DeletePart, sender, folders
<1>10. ASSUME NEW m \in Mails, NEW S, SaveKilled(m) \/ AssembleKilled(m, S)
       PROVE  UNCHANGED <<submitted, inbox, received, confirmed, short>>
  BY <1>10 DEF SaveKilled, SenderKilled, AssembleKilled, RecipientKilled, sender, folders, recipient
<1>11. CASE StoreForeignIndex \/ SenderCrash \/ RecipientCrash
  BY <1>3, <1>11 DEF StoreForeignIndex, SenderCrash, SenderKilled, RecipientCrash, RecipientKilled,
                     sender, folders, recipient
<1> QED
  BY <1>1, <1>2, <1>3, <1>4, <1>5, <1>6, <1>7, <1>8, <1>9, <1>10, <1>11 DEF Next, Channel!Next

\* The mail worker implements the mail channel: a mail appears in the inbox only
\* after it was handed in, and a delivery is confirmed only after that, or after a kill
\* has cut the metadata of the mail.
THEOREM DeliveryImplementsChannel == Spec => ImplementsChannel
<1>1. Inv /\ [Next]_vars => [Channel!Next]_(Channel!vars)
  <2>1. ASSUME UNCHANGED vars
        PROVE  UNCHANGED Channel!vars
    BY <2>1 DEF vars, sender, folders, recipient, Channel!vars
  <2> QED
    BY <2>1, ChannelStep
<1> QED
  BY <1>1, ChannelInit, DeliveryInvariant, PTL DEF Spec, ImplementsChannel, Channel!Spec
===============================================================================
