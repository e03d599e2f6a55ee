--------------------------- MODULE DHTStorageProofs ---------------------------
(***************************************************************************)
(* Proofs about DHTStorage, for every set of keys, every size, limit and   *)
(* bound; and about IndexEntries, for every length of an index and every   *)
(* width of the counter, with the theorem that the loops of IndexEntries   *)
(* do what the one step of DHTStorage says.                                *)
(***************************************************************************)
EXTENDS DHTStorage, IndexEntries, FiniteSetTheorems, SequenceTheorems, NaturalsInduction,
        WellFoundedInduction, TLAPS

-----------------------------------------------------------------------------
(* Directories *)

\* A directory is a function on some of the keys into the contents.
LEMMA DirectoryIs ==
  ASSUME NEW Keys, NEW Content, NEW dir
  PROVE  dir \in Directory(Keys, Content)
           <=> dir \in [DOMAIN dir -> Content] /\ DOMAIN dir \subseteq Keys
BY DEF Directory

\* Writing a file of the directory gives a directory with that file.
LEMMA WriteIs ==
  ASSUME NEW Keys, NEW Content, NEW dir \in Directory(Keys, Content),
         NEW k \in Keys, NEW content \in Content
  PROVE  /\ Write(dir, k, content) \in Directory(Keys, Content)
         /\ DOMAIN Write(dir, k, content) = DOMAIN dir \cup {k}
         /\ Write(dir, k, content)[k] = content
         /\ \A x \in DOMAIN dir \ {k} : Write(dir, k, content)[x] = dir[x]
<1>1. dir \in [DOMAIN dir -> Content] /\ DOMAIN dir \subseteq Keys
  BY DirectoryIs
<1>2. Write(dir, k, content) \in [DOMAIN dir \cup {k} -> Content]
  BY <1>1 DEF Write
<1>3. DOMAIN dir \cup {k} \subseteq Keys
  BY <1>1
<1>4. Write(dir, k, content) \in Directory(Keys, Content)
  BY <1>2, <1>3, DirectoryIs
<1>5. QED
  BY <1>4 DEF Write

\* Erasing files gives a directory without them; the others stay as they are.
LEMMA EraseIs ==
  ASSUME NEW Keys, NEW Content, NEW dir \in Directory(Keys, Content), NEW K
  PROVE  /\ Erase(dir, K) \in Directory(Keys, Content)
         /\ DOMAIN Erase(dir, K) = DOMAIN dir \ K
         /\ \A x \in DOMAIN dir \ K : Erase(dir, K)[x] = dir[x]
<1>1. dir \in [DOMAIN dir -> Content] /\ DOMAIN dir \subseteq Keys
  BY DirectoryIs
<1>2. Erase(dir, K) \in [DOMAIN dir \ K -> Content]
  BY <1>1 DEF Erase
<1>3. Erase(dir, K) \in Directory(Keys, Content)
  BY <1>1, <1>2, DirectoryIs
<1>4. QED
  BY <1>3 DEF Erase

\* Erasing what is not there changes nothing.
LEMMA EraseNothing ==
  ASSUME NEW Keys, NEW Content, NEW dir \in Directory(Keys, Content), NEW k,
         k \notin DOMAIN dir
  PROVE  Erase(dir, {k}) = dir
<1>1. dir \in [DOMAIN dir -> Content]
  BY DirectoryIs
<1>2. DOMAIN dir \ {k} = DOMAIN dir
  OBVIOUS
<1>3. Erase(dir, {k}) = [x \in DOMAIN dir |-> dir[x]]
  BY <1>2 DEF Erase
<1>4. QED
  BY <1>1, <1>3

-----------------------------------------------------------------------------
(* The bytes on disk *)

\* There are finitely many index entries and finitely many items.
LEMMA FiniteContents == IsFiniteSet(Entry) /\ IsFiniteSet(Item)
<1>1. IsFiniteSet(Time)
  BY BoundsAssumption, FS_Interval DEF Time
<1>2. IsFiniteSet(Entry)
  <2> DEFINE D == (EmailKeys \X DelAuths) \X Time
             f == [p \in D |-> [key |-> p[1][1], dv |-> p[1][2], time |-> p[2]]]
  <2>1. IsFiniteSet(EmailKeys \X DelAuths)
    BY KeysAssumption, FS_Product
  <2>2. IsFiniteSet(D)
    BY <1>1, <2>1, FS_Product
  <2>3. f \in [D -> Entry]
    BY DEF Entry
  <2>4. ASSUME NEW e \in Entry PROVE \E p \in D : f[p] = e
    <3>1. /\ <<<<e.key, e.dv>>, e.time>> \in D
          /\ e = [key |-> e.key, dv |-> e.dv, time |-> e.time]
      BY DEF Entry
    <3>2. f[<<<<e.key, e.dv>>, e.time>>] = e
      BY <3>1
    <3>3. QED
      BY <3>1, <3>2
  <2>5. f \in Surjection(D, Entry)
    BY <2>3, <2>4 DEF Surjection
  <2>6. QED
    BY <2>2, <2>5, FS_Surjection
<1>3. IsFiniteSet(Item)
  <2> DEFINE g == [p \in EmailKeys \X DelAuths |-> [key |-> p[1], da |-> p[2]]]
  <2>1. IsFiniteSet(EmailKeys \X DelAuths)
    BY KeysAssumption, FS_Product
  <2>2. g \in [EmailKeys \X DelAuths -> Item]
    BY DEF Item
  <2>3. ASSUME NEW i \in Item PROVE \E p \in EmailKeys \X DelAuths : g[p] = i
    <3>1. <<i.key, i.da>> \in EmailKeys \X DelAuths /\ i = [key |-> i.key, da |-> i.da]
      BY DEF Item
    <3>2. g[<<i.key, i.da>>] = i
      BY <3>1
    <3>3. QED
      BY <3>1, <3>2
  <2>4. g \in Surjection(EmailKeys \X DelAuths, Item)
    BY <2>2, <2>3 DEF Surjection
  <2>5. QED
    BY <2>1, <2>4, FS_Surjection
<1>4. QED
  BY <1>2, <1>3

\* The sets that are counted are finite in every store.
LEMMA CountedSetsFinite ==
  ASSUME NEW x \in Directory(IndexKeys, IndexPacket),
         NEW xd \in Directory(IndexKeys, SUBSET Item),
         NEW e \in Directory(EmailKeys, EmailFile),
         NEW ed \in Directory(EmailKeys, DelAuths \cup {NoDA}),
         NEW c \in SUBSET ContactKeys
  PROVE  /\ IsFiniteSet(DOMAIN x) /\ IsFiniteSet(EntriesIn(x))
         /\ IsFiniteSet(DOMAIN xd) /\ IsFiniteSet(ItemsIn(xd))
         /\ \A kind \in FileKinds : IsFiniteSet(OfKind(e, kind))
         /\ IsFiniteSet(Recorded(ed))
         /\ IsFiniteSet(c)
<1>1. /\ x \in [DOMAIN x -> IndexPacket] /\ DOMAIN x \subseteq IndexKeys
      /\ xd \in [DOMAIN xd -> SUBSET Item] /\ DOMAIN xd \subseteq IndexKeys
      /\ DOMAIN e \subseteq EmailKeys
      /\ DOMAIN ed \subseteq EmailKeys
  BY DirectoryIs
<1>2. IsFiniteSet(IndexKeys \X Entry) /\ IsFiniteSet(IndexKeys \X Item)
  BY FiniteContents, KeysAssumption, FS_Product
<1>3. EntriesIn(x) \subseteq IndexKeys \X Entry
  BY <1>1 DEF EntriesIn, IndexPacket
<1>4. ItemsIn(xd) \subseteq IndexKeys \X Item
  BY <1>1 DEF ItemsIn
<1>5. IsFiniteSet(EntriesIn(x)) /\ IsFiniteSet(ItemsIn(xd))
  BY <1>2, <1>3, <1>4, FS_Subset
<1>6. IsFiniteSet(DOMAIN x) /\ IsFiniteSet(DOMAIN xd) /\ IsFiniteSet(c)
  BY <1>1, KeysAssumption, FS_Subset
<1>7. (\A kind \in FileKinds : OfKind(e, kind) \subseteq EmailKeys) /\ Recorded(ed) \subseteq EmailKeys
  BY <1>1 DEF OfKind, Recorded
<1>8. (\A kind \in FileKinds : IsFiniteSet(OfKind(e, kind))) /\ IsFiniteSet(Recorded(ed))
  BY <1>1, <1>7, KeysAssumption, FS_Subset
<1>9. QED
  BY <1>5, <1>6, <1>8

LEMMA ProductNat ==
  ASSUME NEW a \in Nat, NEW b \in Nat
  PROVE  a * b \in Nat
OBVIOUS

\* Every size is a natural number.
LEMMA SizesNat ==
  /\ Size["index"] \in Nat
  /\ Size["entry"] \in Nat
  /\ Size["deletion"] \in Nat
  /\ Size["item"] \in Nat
  /\ Size["email"] \in Nat
  /\ Size["long"] \in Nat
  /\ Size["cut"] \in Nat
  /\ Size["stub"] \in Nat
  /\ Size["short"] \in Nat
  /\ Size["contact"] \in Nat
BY SizesAssumption DEF SizeKinds, FileKinds

\* The bytes of the mail files are a natural number.
LEMMA EmailUsageNat ==
  ASSUME NEW e \in Directory(EmailKeys, EmailFile)
  PROVE  /\ \A kind \in FileKinds : Size[kind] * Cardinality(OfKind(e, kind)) \in Nat
         /\ EmailUsage(e) \in Nat
<1>1. ASSUME NEW kind \in FileKinds PROVE IsFiniteSet(OfKind(e, kind))
  <2>1. OfKind(e, kind) \subseteq EmailKeys
    BY DirectoryIs DEF OfKind
  <2>2. QED
    BY <2>1, KeysAssumption, FS_Subset
<1>2. ASSUME NEW kind \in FileKinds PROVE Size[kind] * Cardinality(OfKind(e, kind)) \in Nat
  <2>1. Cardinality(OfKind(e, kind)) \in Nat
    BY <1>1, FS_CardinalityType
  <2>2. Size[kind] \in Nat
    BY SizesNat DEF FileKinds
  <2>3. QED
    BY <2>1, <2>2, ProductNat
<1>3. /\ Size["email"] * Cardinality(OfKind(e, "email")) \in Nat
      /\ Size["long"] * Cardinality(OfKind(e, "long")) \in Nat
      /\ Size["cut"] * Cardinality(OfKind(e, "cut")) \in Nat
      /\ Size["stub"] * Cardinality(OfKind(e, "stub")) \in Nat
  BY <1>2 DEF FileKinds
<1>4. EmailUsage(e) \in Nat
  BY <1>3 DEF EmailUsage
<1>5. QED
  BY <1>2, <1>4

\* The bytes on disk are a natural number.
LEMMA DiskUsageNat ==
  ASSUME NEW x \in Directory(IndexKeys, IndexPacket),
         NEW xd \in Directory(IndexKeys, SUBSET Item),
         NEW e \in Directory(EmailKeys, EmailFile),
         NEW ed \in Directory(EmailKeys, DelAuths \cup {NoDA}),
         NEW c \in SUBSET ContactKeys
  PROVE  DiskUsage(x, xd, e, ed, c) \in Nat
<1>1. /\ Cardinality(DOMAIN x) \in Nat /\ Cardinality(EntriesIn(x)) \in Nat
      /\ Cardinality(DOMAIN xd) \in Nat /\ Cardinality(ItemsIn(xd)) \in Nat
      /\ Cardinality(Recorded(ed)) \in Nat
      /\ Cardinality(c) \in Nat
  BY CountedSetsFinite, FS_CardinalityType
<1>2. /\ Size["index"] * Cardinality(DOMAIN x) \in Nat
      /\ Size["entry"] * Cardinality(EntriesIn(x)) \in Nat
      /\ Size["deletion"] * Cardinality(DOMAIN xd) \in Nat
      /\ Size["item"] * Cardinality(ItemsIn(xd)) \in Nat
      /\ Size["contact"] * Cardinality(c) \in Nat
  BY <1>1, SizesNat, ProductNat
<1>3. Size["deletion"] + Size["item"] \in Nat
  BY SizesNat
<1>4. (Size["deletion"] + Size["item"]) * Cardinality(Recorded(ed)) \in Nat
  BY <1>1, <1>3, ProductNat
<1>5. EmailUsage(e) \in Nat
  BY EmailUsageNat
<1>6. QED
  BY <1>2, <1>4, <1>5 DEF DiskUsage

-----------------------------------------------------------------------------
(* What the operations do to the files and to their summary *)

\* A step either brings the summary up to date or changes neither the files nor
\* the summary.
Accounted == update_storage_usage \/ UNCHANGED <<files, summary>>

\* A step that leaves proper files leaves a proper summary.
LEMMA AccountedSummary ==
  ASSUME FilesOK', Accounted, SummaryOK
  PROVE  SummaryOK'
<1>1. CASE update_storage_usage
  <2>1. used' \in Nat
    <3>1. /\ idx' \in Directory(IndexKeys, IndexPacket)
          /\ idxDel' \in Directory(IndexKeys, SUBSET Item)
          /\ eml' \in Directory(EmailKeys, EmailFile)
          /\ emlDel' \in Directory(EmailKeys, DelAuths \cup {NoDA})
          /\ contacts' \in SUBSET ContactKeys
      BY DEF FilesOK
    <3>2. DiskUsage(idx', idxDel', eml', emlDel', contacts') \in Nat
      BY <3>1, DiskUsageNat
    <3>3. QED
      BY <1>1, <3>2 DEF update_storage_usage
  <2>2. DOMAIN idxDel' \subseteq IndexKeys /\ DOMAIN emlDel' \subseteq EmailKeys
    BY DirectoryIs DEF FilesOK
  <2>3. QED
    BY <1>1, <2>1, <2>2 DEF update_storage_usage, SummaryOK, FilesOK
<1>2. CASE UNCHANGED <<files, summary>>
  BY <1>2 DEF SummaryOK, summary
<1>3. QED
  BY <1>1, <1>2 DEF Accounted

\* A step that changes nothing keeps the files.
LEMMA UnchangedFiles ==
  ASSUME FilesOK, Unchanged
  PROVE  FilesOK' /\ Accounted
BY DEF FilesOK, Unchanged, files, Accounted

\* The packets by type.
LEMMA PacketTypes ==
  ASSUME NEW p \in Packet
  PROVE  /\ p.type = "I" => p.key \in IndexKeys /\ p.body \in IndexPacket
         /\ p.type = "E" => p.key \in EmailKeys /\ p.dv \in DelAuths
         /\ p.type = "C" => p.key \in ContactKeys
         /\ p.key \in AnyKey
<1>1. ASSUME NEW b \in ReceivedIndex PROVE b \in IndexPacket
  <2>1. CASE b = [ok |-> FALSE, entries |-> {}]
    BY <2>1 DEF IndexPacket
  <2>2. CASE \E S \in SUBSET Entry : b = [ok |-> TRUE, entries |-> S]
    BY <2>2 DEF IndexPacket
  <2>3. QED
    BY <2>1, <2>2, Zenon DEF ReceivedIndex
<1>2. QED
  BY <1>1 DEF Packet, AnyKey

\* safe () on any packet, whether or not the file can be written.
LEMMA SafeIndexFiles ==
  ASSUME FilesOK, NEW k \in IndexKeys, NEW pkt \in IndexPacket, NEW w \in BOOLEAN,
         safeIndex(k, pkt, w)
  PROVE  FilesOK' /\ Accounted
<1>1. Erase(idx, {k}) \in Directory(IndexKeys, IndexPacket)
  BY EraseIs DEF FilesOK
<1>2. update_index(k, pkt, w) \in Directory(IndexKeys, IndexPacket)
  BY <1>1, WriteIs DEF update_index
<1>3. idx' \in Directory(IndexKeys, IndexPacket)
  BY <1>2, WriteIs DEF safeIndex, FilesOK
<1>4. CASE w \/ k \in DOMAIN idx
  BY <1>3, <1>4 DEF safeIndex, FilesOK, Accounted, Account
<1>5. CASE ~(w \/ k \in DOMAIN idx)
  BY <1>3, <1>5 DEF safeIndex, FilesOK, Accounted, Account, files
<1>6. QED
  BY <1>4, <1>5

\* What is written of a mail packet is a mail file.
LEMMA FileOfType ==
  ASSUME now \in Time, NEW body, NEW dv \in DelAuths
  PROVE  FileOf(body, dv) \in EmailFile
<1>1. 0 \in Time
  BY BoundsAssumption DEF Time
<1>2. QED
  BY <1>1 DEF FileOf, EmailFile, FileKinds

LEMMA SafeEmailFiles ==
  ASSUME FilesOK, NEW k \in EmailKeys, NEW file \in EmailFile,
         NEW w \in BOOLEAN, safeEmail(k, file, w)
  PROVE  FilesOK' /\ Accounted
<1>2. eml' \in Directory(EmailKeys, EmailFile)
  BY WriteIs DEF safeEmail, FilesOK
<1>3. CASE k \notin DOMAIN eml /\ w
  BY <1>2, <1>3 DEF safeEmail, FilesOK, Accounted, Account
<1>4. CASE ~(k \notin DOMAIN eml /\ w)
  BY <1>2, <1>4 DEF safeEmail, FilesOK, Accounted, Account, files
<1>5. QED
  BY <1>3, <1>4

LEMMA SafeFiles ==
  ASSUME FilesOK, now \in Time, NEW p \in Packet, NEW w \in BOOLEAN, safe(p, w)
  PROVE  FilesOK' /\ Accounted
<1>1. CASE p.type = "I" /\ safeIndex(p.key, p.body, w)
  BY <1>1, PacketTypes, SafeIndexFiles
<1>2. CASE p.type = "E" /\ safeEmail(p.key, FileOf(p.body, p.dv), w)
  BY <1>2, PacketTypes, FileOfType, SafeEmailFiles
<1>3. CASE p.type = "C" /\ safeContact(p.key, w)
  <2>1. p.key \in ContactKeys
    BY <1>3, PacketTypes
  <2>2. CASE p.key \notin contacts /\ w
    BY <1>3, <2>1, <2>2 DEF safeContact, FilesOK, Accounted, Account
  <2>3. CASE ~(p.key \notin contacts /\ w)
    <3>1. contacts' = contacts
      BY <1>3, <2>3 DEF safeContact
    <3>2. QED
      BY <1>3, <2>3, <3>1 DEF safeContact, FilesOK, Accounted, Account, files
  <2>4. QED
    BY <2>2, <2>3
<1>4. QED
  BY <1>1, <1>2, <1>3 DEF safe

\* Both kinds of deletion record stay well formed.
LEMMA DeletedIndexIs ==
  ASSUME FilesOK, NEW k \in IndexKeys, NEW items \in SUBSET Item, NEW w \in BOOLEAN
  PROVE  /\ safe_deleted_index(k, items, w) \in Directory(IndexKeys, SUBSET Item)
         /\ ~w /\ ~(k \in DOMAIN idx /\ k \in DOMAIN idxDel)
              => safe_deleted_index(k, items, w) = idxDel
<1>1. /\ Write(idxDel, k, items) \in Directory(IndexKeys, SUBSET Item)
      /\ Erase(idxDel, {k}) \in Directory(IndexKeys, SUBSET Item)
      /\ k \notin DOMAIN idxDel => Erase(idxDel, {k}) = idxDel
  BY WriteIs, EraseIs, EraseNothing DEF FilesOK
<1>2. QED
  BY <1>1 DEF safe_deleted_index, FilesOK

LEMMA DeletedEmailIs ==
  ASSUME FilesOK, NEW k \in EmailKeys, NEW da \in DelAuths \cup {NoDA}, NEW w \in BOOLEAN
  PROVE  safe_deleted_email(k, da, w) \in Directory(EmailKeys, DelAuths \cup {NoDA})
BY WriteIs DEF safe_deleted_email, FilesOK

\* A mail leaves by either deletion path.
LEMMA EmailDeleteFiles ==
  ASSUME TypeOK, NEW k \in EmailKeys, NEW da \in DelAuths,
         receiveEmailPacketDeleteRequest(k, da)
  PROVE  FilesOK' /\ Accounted
<1>1. CASE Unchanged
  BY <1>1, UnchangedFiles DEF TypeOK
<1>2. CASE /\ eml' = Erase(eml, {k})
           /\ \E w \in WriteResults : emlDel' = safe_deleted_email(k, da, w)
           /\ UNCHANGED <<idx, idxDel, contacts>>
           /\ update_storage_usage
  <2>1. eml' \in Directory(EmailKeys, EmailFile)
    BY <1>2, EraseIs DEF TypeOK, FilesOK
  <2>2. emlDel' \in Directory(EmailKeys, DelAuths \cup {NoDA})
    BY <1>2, DeletedEmailIs, BoundsAssumption DEF TypeOK
  <2>3. QED
    BY <1>2, <2>1, <2>2 DEF TypeOK, FilesOK, Accounted
<1>3. QED
  BY <1>1, <1>2 DEF receiveEmailPacketDeleteRequest

LEMMA DeleteEmailFiles ==
  ASSUME TypeOK, NEW k \in EmailKeys, NEW da \in DelAuths, deleteEmail(k, da)
  PROVE  FilesOK' /\ Accounted
<1>1. PICK w \in WriteResults :
        /\ emlDel' = safe_deleted_email(k, da, w)
        /\ UNCHANGED <<idx, idxDel, contacts>>
        /\ Account(k \in DOMAIN eml \/ (k \notin DOMAIN emlDel /\ w))
  BY DEF deleteEmail
<1>2. w \in BOOLEAN
  BY BoundsAssumption
<1>3. eml' = Erase(eml, {k}) /\ eml' \in Directory(EmailKeys, EmailFile)
  BY EraseIs DEF deleteEmail, TypeOK, FilesOK
<1>4. emlDel' \in Directory(EmailKeys, DelAuths \cup {NoDA})
  BY <1>1, <1>2, DeletedEmailIs DEF TypeOK
<1>5. FilesOK'
  BY <1>1, <1>3, <1>4 DEF TypeOK, FilesOK
<1>6. CASE k \in DOMAIN eml \/ (k \notin DOMAIN emlDel /\ w)
  BY <1>1, <1>5, <1>6 DEF Account, Accounted
<1>7. CASE ~(k \in DOMAIN eml \/ (k \notin DOMAIN emlDel /\ w))
  <2>1. eml' = eml
    BY <1>3, <1>7, EraseNothing DEF TypeOK, FilesOK
  <2>2. emlDel' = emlDel
    BY <1>1, <1>7 DEF safe_deleted_email
  <2>3. QED
    BY <1>1, <1>5, <1>7, <2>1, <2>2 DEF Account, Accounted, files
<1>8. QED
  BY <1>6, <1>7

LEMMA KillInDeletionFiles ==
  ASSUME TypeOK, NEW k \in EmailKeys, KillInDeletion(k)
  PROVE  FilesOK' /\ Accounted
<1>1. eml' \in Directory(EmailKeys, EmailFile)
  BY EraseIs DEF KillInDeletion, TypeOK, FilesOK
<1>2. emlDel' \in Directory(EmailKeys, DelAuths \cup {NoDA})
  BY DeletedEmailIs DEF KillInDeletion, TypeOK, FilesOK
<1>3. QED
  BY <1>1, <1>2 DEF KillInDeletion, TypeOK, FilesOK, Accounted

\* An index without some of its entries is an index.
LEMMA IndexWithout ==
  ASSUME FilesOK, NEW k \in DOMAIN idx, NEW gone
  PROVE  /\ k \in IndexKeys
         /\ idx[k] \in IndexPacket
         /\ idx[k].entries \subseteq Entry
         /\ [ok |-> TRUE, entries |-> idx[k].entries \ gone] \in IndexPacket
<1>1. k \in IndexKeys /\ idx[k] \in IndexPacket
  BY DirectoryIs DEF FilesOK
<1>2. QED
  BY <1>1 DEF IndexPacket

\* Entries have items.
LEMMA ItemsOfType ==
  ASSUME NEW entries \in SUBSET Entry
  PROVE  ItemsOf(entries) \in SUBSET Item
BY DEF ItemsOf, ItemOf, Entry, Item

LEMMA IndexDeleteFiles ==
  ASSUME TypeOK, NEW k \in IndexKeys, NEW items \in SUBSET Item,
         receiveIndexPacketDeleteRequest(k, items)
  PROVE  FilesOK' /\ Accounted
<1>1. CASE Unchanged
  BY <1>1, UnchangedFiles DEF TypeOK
<1>2. CASE Readable(k) /\ \E counted \in Counted(idx[k].entries, items) :
             \E wd, wi \in WriteResults : EraseFromIndex(k, items, counted, wd, wi)
  <2>1. PICK counted \in Counted(idx[k].entries, items), wd \in WriteResults,
             wi \in WriteResults : EraseFromIndex(k, items, counted, wd, wi)
    BY <1>2
  <2> DEFINE rest == idx[k].entries \ Matched(idx[k].entries, items)
  <2>2. wd \in BOOLEAN /\ wi \in BOOLEAN
    BY BoundsAssumption
  <2>3. k \in DOMAIN idx
    BY <1>2 DEF Readable
  <2>4. /\ idx[k].entries \subseteq Entry
        /\ [ok |-> TRUE, entries |-> rest] \in IndexPacket
    BY <2>3, IndexWithout DEF TypeOK
  <2>5. counted \subseteq Entry
    BY <2>1, <2>4 DEF Counted, Matched
  <2>6. /\ idxDel' = safe_deleted_index(k, ItemsOf(counted), wd)
        /\ idx' = IF counted = {} THEN idx
                  ELSE IF rest # {} /\ wi THEN Write(idx, k, [ok |-> TRUE, entries |-> rest])
                  ELSE Erase(idx, {k})
        /\ UNCHANGED <<eml, emlDel, contacts>>
        /\ Account(wd \/ k \in DOMAIN idxDel \/ counted # {})
    BY <2>1 DEF EraseFromIndex
  <2>7. /\ idxDel' \in Directory(IndexKeys, SUBSET Item)
        /\ ~(wd \/ k \in DOMAIN idxDel) => idxDel' = idxDel
    BY <2>2, <2>5, <2>6, ItemsOfType, DeletedIndexIs DEF TypeOK
  <2>8. idx' \in Directory(IndexKeys, IndexPacket)
    BY <2>4, <2>6, WriteIs, EraseIs DEF TypeOK, FilesOK
  <2>9. FilesOK'
    BY <2>6, <2>7, <2>8 DEF TypeOK, FilesOK
  <2>10. CASE wd \/ k \in DOMAIN idxDel \/ counted # {}
    BY <2>6, <2>9, <2>10 DEF Account, Accounted
  <2>11. CASE ~(wd \/ k \in DOMAIN idxDel \/ counted # {})
    BY <2>6, <2>7, <2>9, <2>11 DEF Account, Accounted, files
  <2>12. QED
    BY <2>10, <2>11
<1>3. QED
  BY <1>1, <1>2, Zenon DEF receiveIndexPacketDeleteRequest

LEMMA RemoveIndexFiles ==
  ASSUME TypeOK, NEW k \in IndexKeys, NEW item \in Item, remove_index(k, item)
  PROVE  FilesOK' /\ Accounted
<1>1. PICK wd \in WriteResults, wi \in WriteResults :
       /\ idxDel' = safe_deleted_index(k, {item}, wd)
       /\ UNCHANGED <<eml, emlDel, contacts>>
       /\ \/ /\ ~Readable(k)
             /\ idx' = idx
             /\ Account(wd \/ (k \in DOMAIN idx /\ k \in DOMAIN idxDel))
          \/ /\ Readable(k)
             /\ \E counted \in Counted(idx[k].entries, {item}) :
                  /\ idx' = IF counted = {} THEN idx
                            ELSE IF wi
                            THEN Write(idx, k, [ok |-> TRUE,
                                                entries |-> idx[k].entries \ counted])
                            ELSE Erase(idx, {k})
                  /\ Account(wd \/ k \in DOMAIN idxDel \/ counted # {})
  BY DEF remove_index
<1>2. wd \in BOOLEAN /\ wi \in BOOLEAN
  BY BoundsAssumption
<1>3. /\ idxDel' \in Directory(IndexKeys, SUBSET Item)
      /\ ~wd /\ ~(k \in DOMAIN idx /\ k \in DOMAIN idxDel) => idxDel' = idxDel
  BY <1>1, <1>2, DeletedIndexIs DEF TypeOK
<1>4. CASE /\ idx' = idx
           /\ Account(wd \/ (k \in DOMAIN idx /\ k \in DOMAIN idxDel))
  <2>1. FilesOK'
    BY <1>1, <1>3, <1>4 DEF TypeOK, FilesOK
  <2>2. CASE wd \/ (k \in DOMAIN idx /\ k \in DOMAIN idxDel)
    BY <1>4, <2>1, <2>2 DEF Account, Accounted
  <2>3. CASE ~(wd \/ (k \in DOMAIN idx /\ k \in DOMAIN idxDel))
    BY <1>1, <1>3, <1>4, <2>1, <2>3 DEF Account, Accounted, files
  <2>4. QED
    BY <2>2, <2>3
<1>5. CASE Readable(k) /\ \E counted \in Counted(idx[k].entries, {item}) :
                  /\ idx' = IF counted = {} THEN idx
                            ELSE IF wi
                            THEN Write(idx, k, [ok |-> TRUE,
                                                entries |-> idx[k].entries \ counted])
                            ELSE Erase(idx, {k})
                  /\ Account(wd \/ k \in DOMAIN idxDel \/ counted # {})
  <2>1. PICK counted \in Counted(idx[k].entries, {item}) :
                  /\ idx' = IF counted = {} THEN idx
                            ELSE IF wi
                            THEN Write(idx, k, [ok |-> TRUE,
                                                entries |-> idx[k].entries \ counted])
                            ELSE Erase(idx, {k})
                  /\ Account(wd \/ k \in DOMAIN idxDel \/ counted # {})
    BY <1>5
  <2>2. [ok |-> TRUE, entries |-> idx[k].entries \ counted] \in IndexPacket
    BY <1>5, IndexWithout DEF TypeOK, Readable
  <2>3. idx' \in Directory(IndexKeys, IndexPacket)
    BY <2>1, <2>2, WriteIs, EraseIs DEF TypeOK, FilesOK
  <2>4. FilesOK'
    BY <1>1, <1>3, <2>3 DEF TypeOK, FilesOK
  <2>5. CASE wd \/ k \in DOMAIN idxDel \/ counted # {}
    BY <2>1, <2>4, <2>5 DEF Account, Accounted
  <2>6. CASE ~(wd \/ k \in DOMAIN idxDel \/ counted # {})
    BY <1>1, <1>3, <2>1, <2>4, <2>6 DEF Account, Accounted, files
  <2>7. QED
    BY <2>5, <2>6
<1>6. QED
  BY <1>1, <1>4, <1>5

\* Cleaning leaves a directory of indices.
LEMMA OldEntriesFiles ==
  ASSUME FilesOK, NEW failed, remove_old_entries(failed)
  PROVE  idx' \in Directory(IndexKeys, IndexPacket)
<1> DEFINE listed == local_index_packets \cap DOMAIN idx
           gone == {k \in listed : CleanIndexEntries(k) = {} \/ k \in failed}
           new == [k \in DOMAIN idx \ gone |->
                     IF k \in listed THEN [ok |-> TRUE, entries |-> CleanIndexEntries(k)]
                     ELSE idx[k]]
<1>1. idx' = new
  BY DEF remove_old_entries
<1>2. idx \in [DOMAIN idx -> IndexPacket] /\ DOMAIN idx \subseteq IndexKeys
  BY DirectoryIs DEF FilesOK
<1>3. ASSUME NEW k \in DOMAIN idx
      PROVE  [ok |-> TRUE, entries |-> CleanIndexEntries(k)] \in IndexPacket
  BY <1>2 DEF IndexPacket, CleanIndexEntries
<1>4. new \in [DOMAIN idx \ gone -> IndexPacket]
  BY <1>2, <1>3
<1>5. DOMAIN idx \ gone \subseteq IndexKeys
  BY <1>2
<1> HIDE DEF new, gone
<1>6. new \in Directory(IndexKeys, IndexPacket)
  BY <1>4, <1>5, DirectoryIs
<1>7. QED
  BY <1>1, <1>6

LEMMA UpdateFiles ==
  ASSUME TypeOK, update
  PROVE  FilesOK' /\ Accounted
<1>1. UNCHANGED <<idxDel, emlDel, contacts>> /\ update_storage_usage
  BY DEF update
<1>2. CASE CleaningDue
  <2>1. PICK removed : eml' = Erase(eml, removed)
    BY <1>2 DEF update, remove_old_packets
  <2>2. eml' \in Directory(EmailKeys, EmailFile)
    BY <2>1, EraseIs DEF TypeOK, FilesOK
  <2>3. idx' \in Directory(IndexKeys, IndexPacket)
    BY <1>2, OldEntriesFiles DEF update, TypeOK
  <2>4. QED
    BY <1>1, <2>2, <2>3 DEF TypeOK, FilesOK, Accounted
<1>3. CASE ~CleaningDue
  BY <1>1, <1>3 DEF update, TypeOK, FilesOK, Accounted
<1>4. QED
  BY <1>2, <1>3

-----------------------------------------------------------------------------
(* Every step *)

\* Whatever the step, the files stay well formed and the summary is accounted
\* for.
LEMMA StepFiles ==
  ASSUME TypeOK, [Next]_vars
  PROVE  FilesOK' /\ Accounted
<1> now \in Time
  BY BoundsAssumption DEF TypeOK, Time
<1> FilesOK
  BY DEF TypeOK
<1> WriteResults \subseteq BOOLEAN
  BY BoundsAssumption
<1>1. CASE \E k \in AnyKey : receiveMalformed(k)
  BY <1>1, UnchangedFiles DEF receiveMalformed
<1>2. CASE \E p \in Packet : receiveStoreRequest(p)
  BY <1>2, UnchangedFiles, SafeFiles DEF receiveStoreRequest
<1>3. CASE \E type \in {"I", "E", "C"} : \E k \in AnyKey : receiveRetrieveRequest(type, k)
  BY <1>3, UnchangedFiles DEF receiveRetrieveRequest
<1>4. CASE \E k \in IndexKeys \cup EmailKeys : receiveDeletionQuery(k)
  BY <1>4, UnchangedFiles DEF receiveDeletionQuery
<1>5. CASE \E k \in EmailKeys : \E da \in DelAuths : receiveEmailPacketDeleteRequest(k, da)
  BY <1>5, EmailDeleteFiles
<1>6. CASE \E k \in IndexKeys : \E items \in SUBSET Item :
             receiveIndexPacketDeleteRequest(k, items)
  BY <1>6, IndexDeleteFiles
<1>7. CASE \E p \in Packet : LocalSafe(p)
  BY <1>7, SafeFiles DEF LocalSafe
<1>8. CASE \E k \in EmailKeys : \E da \in DelAuths : deleteEmail(k, da)
  BY <1>8, DeleteEmailFiles
<1>9. CASE \E k \in IndexKeys : \E item \in Item : remove_index(k, item)
  BY <1>9, RemoveIndexFiles
<1>10. CASE update
  BY <1>10, UpdateFiles
<1>11. CASE restart
  BY <1>11 DEF restart, FilesOK, files, Accounted
<1>12. CASE Tick
  BY <1>12 DEF Tick, FilesOK, files, summary, Accounted
<1>13. CASE UNCHANGED vars
  BY <1>13 DEF vars, FilesOK, files, summary, Accounted
<1>14. CASE \E k \in EmailKeys : KillInDeletion(k)
  BY <1>14, KillInDeletionFiles
<1>15. QED
  BY <1>1, <1>2, <1>3, <1>4, <1>5, <1>6, <1>7, <1>8, <1>9, <1>10, <1>11, <1>12, <1>13, <1>14
     DEF Next

\* The counter, the clock, the responses and the history.
BookkeepingOK ==
  /\ update_counter \in 1 .. UpdatePeriod + 1
  /\ now \in StoreDuration .. MaxTime
  /\ sent \subseteq Response
  /\ confirmed \subseteq EmailKeys \X DelAuths
  /\ carried \subseteq AnyKey \X Item

\* A response is well typed when its parts are.
LEMMA RespondIs ==
  ASSUME NEW req \in Requests, NEW k \in AnyKey, NEW items \in SUBSET Item,
         NEW status \in Status, Respond(req, k, items, status)
  PROVE  sent' \subseteq Response
BY DEF Respond, Response

\* What a deletion query answers with.
LEMMA DeletionInfoType ==
  ASSUME FilesOK, NEW k \in IndexKeys \cup EmailKeys
  PROVE  DeletionInfo(k) \in SUBSET Item
<1>1. CASE k \in DOMAIN idxDel
  BY <1>1, DirectoryIs DEF FilesOK, DeletionInfo
<1>2. CASE k \notin DOMAIN idxDel /\ k \in Recorded(emlDel)
  <2>1. k \in EmailKeys /\ emlDel[k] \in DelAuths
    BY <1>2, DirectoryIs DEF FilesOK, Recorded
  <2>2. QED
    BY <1>2, <2>1 DEF DeletionInfo, Item
<1>3. QED
  BY <1>1, <1>2 DEF DeletionInfo

\* What a packet brings is an item under a key.
LEMMA BringsType ==
  ASSUME NEW p \in Packet
  PROVE  Brings(p) \subseteq AnyKey \X Item
<1>1. CASE p.type = "I"
  <2>1. p.key \in AnyKey /\ p.body.entries \subseteq Entry
    BY <1>1, PacketTypes DEF IndexPacket
  <2>2. QED
    BY <1>1, <2>1 DEF Brings, ItemOf, Entry, Item
<1>2. CASE p.type = "E"
  BY <1>2, PacketTypes DEF Brings, Item
<1>3. CASE p.type = "C"
  BY <1>3 DEF Brings
<1>4. p.type \in {"I", "E", "C"}
  BY DEF Packet
<1>5. QED
  BY <1>1, <1>2, <1>3, <1>4

LEMMA StepBookkeeping ==
  ASSUME TypeOK, [Next]_vars
  PROVE  BookkeepingOK'
<1> USE DEF BookkeepingOK
<1> DEFINE Old == UNCHANGED <<update_counter, now, confirmed>>
           CarriedOK == carried' \subseteq AnyKey \X Item
<1>0. ASSUME Old, sent' \subseteq Response, UNCHANGED carried \/ CarriedOK PROVE BookkeepingOK'
  BY <1>0 DEF TypeOK
<1>1. CASE \E k \in AnyKey : receiveMalformed(k)
  BY <1>0, <1>1, RespondIs DEF receiveMalformed, Others, history, Requests, Status
<1>2. ASSUME NEW p \in Packet, receiveStoreRequest(p) PROVE BookkeepingOK'
  <2>1. ASSUME NEW r PROVE StoreStatus(r) \in Status
    BY DEF StoreStatus, Status
  <2>2. "NO_DISK_SPACE" \in Status /\ "store" \in Requests /\ p.key \in AnyKey
    BY PacketTypes DEF Status, Requests
  <2>3. sent' \subseteq Response
    BY <1>2, <2>1, <2>2, RespondIs DEF receiveStoreRequest
  <2>4. UNCHANGED carried \/ CarriedOK
    BY <1>2, BringsType DEF receiveStoreRequest, TypeOK
  <2>5. QED
    BY <1>0, <1>2, <2>3, <2>4 DEF receiveStoreRequest, Others
<1>3. CASE \E type \in {"I", "E", "C"} : \E k \in AnyKey : receiveRetrieveRequest(type, k)
  BY <1>0, <1>3, RespondIs DEF receiveRetrieveRequest, Others, history, Requests, Status
<1>4. ASSUME NEW k \in IndexKeys \cup EmailKeys, receiveDeletionQuery(k)
      PROVE  BookkeepingOK'
  <2>1. k \in AnyKey /\ DeletionInfo(k) \in SUBSET Item
    BY DeletionInfoType DEF AnyKey, TypeOK
  <2>2. sent' \subseteq Response
    BY <1>4, <2>1, RespondIs DEF receiveDeletionQuery, Requests, Status
  <2>3. QED
    BY <1>0, <1>4, <2>2 DEF receiveDeletionQuery, Others, history
<1>5. ASSUME NEW k \in EmailKeys, NEW da \in DelAuths,
             receiveEmailPacketDeleteRequest(k, da)
      PROVE  BookkeepingOK'
  <2>1. EmailDeleteStatus(k, da) \in Status
    BY DEF EmailDeleteStatus, Status
  <2>2. k \in AnyKey /\ {[key |-> k, da |-> da]} \in SUBSET Item /\ "delete_email" \in Requests
    BY DEF AnyKey, Item, Requests
  <2>3. sent' \subseteq Response
    BY <1>5, <2>1, <2>2, RespondIs DEF receiveEmailPacketDeleteRequest
  <2>4. confirmed' \subseteq EmailKeys \X DelAuths
    BY <1>5 DEF receiveEmailPacketDeleteRequest, TypeOK
  <2>5. QED
    BY <1>5, <2>3, <2>4 DEF receiveEmailPacketDeleteRequest, Others, TypeOK
<1>6. ASSUME NEW k \in IndexKeys, NEW items \in SUBSET Item,
             receiveIndexPacketDeleteRequest(k, items)
      PROVE  BookkeepingOK'
  <2>1. PICK status \in Status : Respond("delete_index", k, items, status)
    BY <1>6 DEF receiveIndexPacketDeleteRequest, EraseFromIndex, Status
  <2>2. sent' \subseteq Response
    BY <2>1, RespondIs DEF AnyKey, Requests
  <2>3. QED
    BY <1>0, <1>6, <2>2 DEF receiveIndexPacketDeleteRequest, Others, history
<1>7. CASE \E p \in Packet : LocalSafe(p)
  <2>1. CarriedOK
    BY <1>7, BringsType DEF LocalSafe, TypeOK
  <2>2. QED
    BY <1>0, <1>7, <2>1 DEF LocalSafe, Others
<1>8. CASE \E k \in EmailKeys : \E da \in DelAuths : deleteEmail(k, da)
  <2>1. CarriedOK
    BY <1>8 DEF deleteEmail, TypeOK, AnyKey, Item
  <2>2. QED
    BY <1>0, <1>8, <2>1 DEF deleteEmail, Others
<1>9. CASE \E k \in IndexKeys : \E item \in Item : remove_index(k, item)
  <2>1. CarriedOK
    BY <1>9 DEF remove_index, TypeOK, AnyKey
  <2>2. QED
    BY <1>0, <1>9, <2>1 DEF remove_index, Others
<1>10. CASE update
  <2>1. update_counter' \in 1 .. UpdatePeriod + 1
    BY <1>10, BoundsAssumption DEF update, NextCounter, TypeOK
  <2>2. QED
    BY <1>10, <2>1 DEF update, history, TypeOK
<1>11. CASE restart
  BY <1>11, BoundsAssumption DEF restart, history, TypeOK
<1>12. CASE Tick
  BY <1>12, BoundsAssumption DEF Tick, history, TypeOK
<1>13. CASE UNCHANGED vars
  BY <1>13 DEF vars, history, TypeOK
<1>14. CASE \E k \in EmailKeys : KillInDeletion(k)
  BY <1>14, BoundsAssumption DEF KillInDeletion, history, TypeOK
<1>15. QED
  BY <1>1, <1>2, <1>3, <1>4, <1>5, <1>6, <1>7, <1>8, <1>9, <1>10, <1>11, <1>12, <1>13, <1>14
     DEF Next

-----------------------------------------------------------------------------
(* Type correctness and the summary *)

LEMMA EmptyDirectory ==
  ASSUME NEW Keys, NEW Content
  PROVE  [k \in {} |-> {}] \in Directory(Keys, Content)
<1>1. /\ [k \in {} |-> {}] \in [{} -> Content]
      /\ DOMAIN [k \in {} |-> {}] = {}
  OBVIOUS
<1>2. QED
  BY <1>1, DirectoryIs

LEMMA InitTypeOK == Init => TypeOK
<1> SUFFICES ASSUME Init PROVE TypeOK
  OBVIOUS
<1>1. FilesOK
  BY EmptyDirectory DEF Init, FilesOK
<1>2. SummaryOK
  BY DEF Init, SummaryOK
<1>3. BookkeepingOK
  BY BoundsAssumption DEF Init, BookkeepingOK
<1>4. QED
  BY <1>1, <1>2, <1>3 DEF TypeOK, BookkeepingOK

LEMMA StepTypeOK == TypeOK /\ [Next]_vars => TypeOK'
<1> SUFFICES ASSUME TypeOK, [Next]_vars PROVE TypeOK'
  OBVIOUS
<1>1. FilesOK' /\ Accounted
  BY StepFiles
<1>2. SummaryOK'
  BY <1>1, AccountedSummary DEF TypeOK
<1>3. BookkeepingOK'
  BY StepBookkeeping
<1>4. QED
  BY <1>1, <1>2, <1>3 DEF TypeOK, BookkeepingOK

\* The store, its summary and the responses keep their types, for every set of
\* keys, every size and every outcome of the writes (DHTStorage.cpp and the
\* handlers of DHTworker.cpp); the counter of update () stays in its range.
THEOREM TypeCorrect == Spec => []TypeOK
<1>1. Init => TypeOK
  BY InitTypeOK
<1>2. TypeOK /\ [Next]_vars => TypeOK'
  BY StepTypeOK
<1>3. QED
  BY <1>1, <1>2, PTL DEF Spec

\* The store starts with nothing on disk.
LEMMA InitSummaryExact == Init => SummaryExact
<1> SUFFICES ASSUME Init PROVE SummaryExact
  OBVIOUS
<1>1. /\ DOMAIN idx = {} /\ DOMAIN idxDel = {} /\ DOMAIN eml = {} /\ DOMAIN emlDel = {}
      /\ contacts = {}
  BY DEF Init
<1>2. /\ EntriesIn(idx) = {} /\ ItemsIn(idxDel) = {}
      /\ \A kind \in FileKinds : OfKind(eml, kind) = {}
      /\ Recorded(emlDel) = {}
  BY <1>1 DEF EntriesIn, ItemsIn, OfKind, Recorded
<1>3. Cardinality({}) = 0
  BY FS_EmptySet
<1>4. /\ Cardinality(DOMAIN idx) = 0 /\ Cardinality(EntriesIn(idx)) = 0
      /\ Cardinality(DOMAIN idxDel) = 0 /\ Cardinality(ItemsIn(idxDel)) = 0
      /\ Cardinality(OfKind(eml, "email")) = 0 /\ Cardinality(OfKind(eml, "long")) = 0
      /\ Cardinality(OfKind(eml, "cut")) = 0 /\ Cardinality(OfKind(eml, "stub")) = 0
      /\ Cardinality(Recorded(emlDel)) = 0 /\ Cardinality(contacts) = 0
  BY <1>1, <1>2, <1>3 DEF FileKinds
<1>5. ASSUME NEW n \in Nat PROVE n * 0 = 0
  OBVIOUS
<1>6. Size["deletion"] + Size["item"] \in Nat
  BY SizesNat
<1>7. DiskUsage(idx, idxDel, eml, emlDel, contacts) = 0
  BY <1>4, <1>5, <1>6, SizesNat DEF DiskUsage, EmailUsage
<1>8. QED
  BY <1>1, <1>7 DEF Init, SummaryExact

\* After every operation the bytes counted and the key lists are those of the
\* files on disk, also after an operation that failed half-way: the argument is
\* that a step which does not end in update_storage_usage () changed no file
\* (StepFiles).
THEOREM SummaryCorrect == Spec => []SummaryExact
<1>1. Init => SummaryExact
  BY InitSummaryExact
<1>2. TypeOK /\ SummaryExact /\ [Next]_vars => SummaryExact'
  <2> SUFFICES ASSUME TypeOK, SummaryExact, [Next]_vars PROVE SummaryExact'
    OBVIOUS
  <2>1. Accounted
    BY StepFiles
  <2>2. CASE update_storage_usage
    BY <2>2 DEF update_storage_usage, SummaryExact
  <2>3. CASE UNCHANGED <<files, summary>>
    BY <2>3 DEF files, summary, SummaryExact
  <2>4. QED
    BY <2>1, <2>2, <2>3 DEF Accounted
<1>3. QED
  BY <1>1, <1>2, TypeCorrect, PTL DEF Spec

-----------------------------------------------------------------------------
(* Deletion records *)

\* The mail records change in two actions only.
LEMMA MailRecordSteps ==
  ASSUME TypeOK, [Next]_vars
  PROVE  \/ emlDel' = emlDel
         \/ \E k \in EmailKeys, da \in DelAuths \cup {NoDA}, w \in BOOLEAN :
              /\ emlDel' = safe_deleted_email(k, da, w)
              /\ \/ da = NoDA
                 \/ k \in DOMAIN eml /\ da = eml[k].dv
                 \/ <<k, [key |-> k, da |-> da]>> \in carried'
<1>1. CASE \E k \in AnyKey : receiveMalformed(k)
  BY <1>1 DEF receiveMalformed, Unchanged, files
<1>2. CASE \E p \in Packet : receiveStoreRequest(p)
  BY <1>2 DEF receiveStoreRequest, Unchanged, files, safe, safeIndex, safeEmail, safeContact
<1>3. CASE \E type \in {"I", "E", "C"} : \E k \in AnyKey : receiveRetrieveRequest(type, k)
  BY <1>3 DEF receiveRetrieveRequest, Unchanged, files
<1>4. CASE \E k \in IndexKeys \cup EmailKeys : receiveDeletionQuery(k)
  BY <1>4 DEF receiveDeletionQuery, Unchanged, files
<1>5. ASSUME NEW k \in EmailKeys, NEW da \in DelAuths,
             receiveEmailPacketDeleteRequest(k, da)
      PROVE  \/ emlDel' = emlDel
             \/ \E w \in WriteResults :
                  /\ emlDel' = safe_deleted_email(k, da, w)
                  /\ k \in DOMAIN eml /\ da = eml[k].dv
  <2>1. CASE Unchanged
    BY <2>1 DEF Unchanged, files
  <2>2. CASE /\ ~AlreadyRemoved(k, da)
             /\ EmailDeleteStatus(k, da) = "OK"
             /\ \E w \in WriteResults : emlDel' = safe_deleted_email(k, da, w)
    <3>1. k \in DOMAIN eml /\ eml[k].dv = da
      BY <2>2 DEF EmailDeleteStatus
    <3>2. QED
      BY <2>2, <3>1
  <2>3. QED
    BY <1>5, <2>1, <2>2 DEF receiveEmailPacketDeleteRequest
<1>6. CASE \E k \in IndexKeys : \E items \in SUBSET Item :
             receiveIndexPacketDeleteRequest(k, items)
  BY <1>6 DEF receiveIndexPacketDeleteRequest, EraseFromIndex, Unchanged, files
<1>7. CASE \E p \in Packet : LocalSafe(p)
  BY <1>7 DEF LocalSafe, safe, safeIndex, safeEmail, safeContact
<1>8. CASE \E k \in EmailKeys : \E da \in DelAuths : deleteEmail(k, da)
  BY <1>8, BoundsAssumption DEF deleteEmail
<1>9. CASE \E k \in IndexKeys : \E item \in Item : remove_index(k, item)
  BY <1>9 DEF remove_index
<1>10. CASE update
  BY <1>10 DEF update
<1>11. CASE restart
  BY <1>11 DEF restart, files
<1>12. CASE Tick
  BY <1>12 DEF Tick, files
<1>13. CASE UNCHANGED vars
  BY <1>13 DEF vars, files
<1>14. CASE \E k \in EmailKeys : KillInDeletion(k)
  BY <1>14 DEF KillInDeletion
<1>15. QED
  BY <1>1, <1>2, <1>3, <1>4, <1>5, <1>6, <1>7, <1>8, <1>9, <1>10, <1>11, <1>12, <1>13, <1>14,
     BoundsAssumption
     DEF Next

LEMMA StepKeepsRecords == TypeOK /\ [Next]_vars => KeepsRecords
<1> SUFFICES ASSUME TypeOK, [Next]_vars PROVE KeepsRecords
  OBVIOUS
<1>1. CASE emlDel' = emlDel
  BY <1>1 DEF KeepsRecords
<1>2. ASSUME NEW k \in EmailKeys, NEW da, NEW w \in BOOLEAN,
             emlDel' = safe_deleted_email(k, da, w)
      PROVE  KeepsRecords
  <2>1. CASE k \in DOMAIN emlDel \/ ~w
    BY <1>2, <2>1 DEF safe_deleted_email, KeepsRecords
  <2>2. CASE ~(k \in DOMAIN emlDel \/ ~w)
    <3>1. emlDel' = Write(emlDel, k, da)
      BY <1>2, <2>2 DEF safe_deleted_email
    <3>2. /\ DOMAIN emlDel' = DOMAIN emlDel \cup {k}
          /\ \A x \in DOMAIN emlDel \ {k} : emlDel'[x] = emlDel[x]
      BY <3>1 DEF Write
    <3>3. QED
      BY <2>2, <3>2 DEF KeepsRecords
  <2>3. QED
    BY <2>1, <2>2
<1>3. QED
  BY <1>1, <1>2, MailRecordSteps

\* The record of a mail deletion is never removed and never replaced, whatever
\* is stored, deleted, cleaned or restarted and whichever writes fail.
THEOREM RecordsStay == Spec => RecordsPermanent
<1>1. TypeOK /\ [Next]_vars => [KeepsRecords]_vars
  BY StepKeepsRecords
<1>2. QED
  BY <1>1, TypeCorrect, PTL DEF Spec, RecordsPermanent

-----------------------------------------------------------------------------
(* Where the authorisations of the records come from *)

\* What was brought stays brought.
LEMMA CarriedGrows ==
  ASSUME [Next]_vars
  PROVE  carried \subseteq carried'
BY DEF Next, vars, history, receiveMalformed, receiveStoreRequest, receiveRetrieveRequest,
       receiveDeletionQuery, receiveEmailPacketDeleteRequest, receiveIndexPacketDeleteRequest,
       LocalSafe, deleteEmail, remove_index, update, restart, KillInDeletion, Tick

\* The delete hashes in the mail files and in the index entries were brought here with
\* them: this is what makes RecordsAuthentic inductive, since a record takes its
\* authorisation from a file.
MailFilesCarried ==
  \A k \in DOMAIN eml :
    eml[k].dv # NoDA => <<k, [key |-> k, da |-> eml[k].dv]>> \in carried
IndexFilesCarried ==
  \A k \in DOMAIN idx : \A e \in idx[k].entries : <<k, ItemOf(e)>> \in carried

\* Mail files are written from packets only.
LEMMA MailFileSteps ==
  ASSUME [Next]_vars
  PROVE  \/ eml' = eml
         \/ \E K : eml' = Erase(eml, K)
         \/ \E p \in Packet : /\ p.type = "E"
                              /\ eml' = Write(eml, p.key, FileOf(p.body, p.dv))
                              /\ Brings(p) \subseteq carried'
<1> DEFINE Goal == \/ eml' = eml
                   \/ \E K : eml' = Erase(eml, K)
                   \/ \E p \in Packet : /\ p.type = "E"
                                        /\ eml' = Write(eml, p.key, FileOf(p.body, p.dv))
                                        /\ Brings(p) \subseteq carried'
<1>1. ASSUME NEW p \in Packet, NEW w, safe(p, w), Brings(p) \subseteq carried'
      PROVE  Goal
  <2>1. CASE p.type = "E" /\ safeEmail(p.key, FileOf(p.body, p.dv), w)
    BY <1>1, <2>1 DEF safeEmail
  <2>2. CASE safeIndex(p.key, p.body, w) \/ safeContact(p.key, w)
    BY <2>2 DEF safeIndex, safeContact
  <2>3. QED
    BY <1>1, <2>1, <2>2 DEF safe
<1>2. CASE \E p \in Packet : receiveStoreRequest(p)
  BY <1>1, <1>2 DEF receiveStoreRequest, Unchanged, files
<1>3. CASE \E p \in Packet : LocalSafe(p)
  BY <1>1, <1>3 DEF LocalSafe
<1>4. CASE \/ \E k \in AnyKey : receiveMalformed(k)
           \/ \E type \in {"I", "E", "C"} : \E k \in AnyKey : receiveRetrieveRequest(type, k)
           \/ \E k \in IndexKeys \cup EmailKeys : receiveDeletionQuery(k)
  <2>1. Unchanged
    BY <1>4 DEF receiveMalformed, receiveRetrieveRequest, receiveDeletionQuery
  <2>2. QED
    BY <2>1 DEF Unchanged, files
<1>5. CASE \E k \in EmailKeys : \E da \in DelAuths : receiveEmailPacketDeleteRequest(k, da)
  BY <1>5 DEF receiveEmailPacketDeleteRequest, Unchanged, files
<1>6. CASE \E k \in IndexKeys : \E items \in SUBSET Item :
             receiveIndexPacketDeleteRequest(k, items)
  <2>1. PICK k \in IndexKeys, items \in SUBSET Item : receiveIndexPacketDeleteRequest(k, items)
    BY <1>6
  <2>2. CASE Unchanged
    BY <2>2 DEF Unchanged, files
  <2>3. CASE \E counted, wd, wi : EraseFromIndex(k, items, counted, wd, wi)
    BY <2>3 DEF EraseFromIndex
  <2>4. QED
    BY <2>1, <2>2, <2>3, Zenon DEF receiveIndexPacketDeleteRequest
<1>7. CASE \E k \in EmailKeys : \E da \in DelAuths : deleteEmail(k, da)
  BY <1>7 DEF deleteEmail
<1>8. CASE \E k \in IndexKeys : \E item \in Item : remove_index(k, item)
  <2>1. eml' = eml
    BY <1>8 DEF remove_index
  <2>2. QED
    BY <2>1
<1>9. CASE update
  BY <1>9 DEF update, remove_old_packets
<1>10. CASE \E k \in EmailKeys : KillInDeletion(k)
  BY <1>10 DEF KillInDeletion
<1>11. CASE restart \/ Tick \/ UNCHANGED vars
  BY <1>11 DEF restart, Tick, vars, files
<1>12. QED
  BY <1>2, <1>3, <1>4, <1>5, <1>6, <1>7, <1>8, <1>9, <1>10, <1>11 DEF Next

LEMMA StepMailFilesCarried ==
  ASSUME TypeOK, MailFilesCarried, [Next]_vars
  PROVE  MailFilesCarried'
<1>0. carried \subseteq carried'
  BY CarriedGrows
<1>1. CASE eml' = eml
  BY <1>0, <1>1 DEF MailFilesCarried
<1>2. CASE \E K : eml' = Erase(eml, K)
  BY <1>0, <1>2 DEF MailFilesCarried, Erase
<1>3. ASSUME NEW p \in Packet, p.type = "E",
             eml' = Write(eml, p.key, FileOf(p.body, p.dv)), Brings(p) \subseteq carried'
      PROVE  MailFilesCarried'
  <2>1. <<p.key, [key |-> p.key, da |-> p.dv]>> \in carried'
    BY <1>3 DEF Brings
  <2>2. FileOf(p.body, p.dv).dv \in {p.dv, NoDA}
    BY DEF FileOf
  <2>3. /\ DOMAIN eml' = DOMAIN eml \cup {p.key}
        /\ eml'[p.key].dv \in {p.dv, NoDA}
        /\ \A x \in DOMAIN eml \ {p.key} : eml'[x] = eml[x]
    BY <1>3, <2>2 DEF Write
  <2>4. ASSUME NEW x \in DOMAIN eml', eml'[x].dv # NoDA
        PROVE  <<x, [key |-> x, da |-> eml'[x].dv]>> \in carried'
    BY <1>0, <2>1, <2>3, <2>4 DEF MailFilesCarried
  <2>5. QED
    BY <2>4 DEF MailFilesCarried
<1>4. QED
  BY <1>1, <1>2, <1>3, MailFileSteps

\* An index has entries of the one that was there, or those of a packet.
LEMMA IndexFileSteps ==
  ASSUME TypeOK, [Next]_vars, NEW k \in DOMAIN idx'
  PROVE  \/ k \in DOMAIN idx /\ idx'[k].entries \subseteq idx[k].entries
         \/ \A e \in idx'[k].entries : <<k, ItemOf(e)>> \in carried'
<1> DEFINE Kept == k \in DOMAIN idx /\ idx'[k].entries \subseteq idx[k].entries
           Came == \A e \in idx'[k].entries : <<k, ItemOf(e)>> \in carried'
<1>0. CASE idx' = idx
  BY <1>0
<1>1. ASSUME NEW p \in Packet, NEW w, safe(p, w), Brings(p) \subseteq carried'
      PROVE  Kept \/ Came
  <2>1. CASE p.type = "I" /\ safeIndex(p.key, p.body, w)
    <3>1. \/ idx' = idx
          \/ idx' = Write(idx, p.key, p.body)
          \/ idx' = Erase(idx, {p.key})
          \/ idx' = Write(Erase(idx, {p.key}), p.key, p.body)
      BY <2>1 DEF safeIndex, update_index
    <3>2. \A e \in p.body.entries : <<p.key, ItemOf(e)>> \in carried'
      BY <1>1, <2>1 DEF Brings
    <3>3. (k \in DOMAIN idx /\ idx'[k] = idx[k]) \/ (k = p.key /\ idx'[k] = p.body)
      <4>1. CASE idx' = idx
        BY <4>1
      <4>2. CASE idx' = Erase(idx, {p.key})
        BY <4>2 DEF Erase
      <4>3. CASE idx' = Write(idx, p.key, p.body)
        BY <4>3 DEF Write
      <4>4. CASE idx' = Write(Erase(idx, {p.key}), p.key, p.body)
        BY <4>4 DEF Write, Erase
      <4>5. QED
        BY <3>1, <4>1, <4>2, <4>3, <4>4
    <3>4. QED
      BY <3>2, <3>3
  <2>2. CASE safeEmail(p.key, FileOf(p.body, p.dv), w) \/ safeContact(p.key, w)
    BY <1>0, <2>2 DEF safeEmail, safeContact
  <2>3. QED
    BY <1>1, <2>1, <2>2 DEF safe
<1>2. CASE \E p \in Packet : receiveStoreRequest(p)
  BY <1>0, <1>1, <1>2 DEF receiveStoreRequest, Unchanged, files
<1>3. CASE \E p \in Packet : LocalSafe(p)
  BY <1>1, <1>3 DEF LocalSafe
<1>4. CASE \/ \E x \in AnyKey : receiveMalformed(x)
           \/ \E type \in {"I", "E", "C"} : \E x \in AnyKey : receiveRetrieveRequest(type, x)
           \/ \E x \in IndexKeys \cup EmailKeys : receiveDeletionQuery(x)
  <2>1. Unchanged
    BY <1>4 DEF receiveMalformed, receiveRetrieveRequest, receiveDeletionQuery
  <2>2. QED
    BY <1>0, <2>1 DEF Unchanged, files
<1>5. CASE \E x \in EmailKeys : \E da \in DelAuths : receiveEmailPacketDeleteRequest(x, da)
  <2>1. idx' = idx
    BY <1>5 DEF receiveEmailPacketDeleteRequest, Unchanged, files
  <2>2. QED
    BY <1>0, <2>1
<1>6. CASE \E x \in IndexKeys : \E items \in SUBSET Item :
             receiveIndexPacketDeleteRequest(x, items)
  <2>1. PICK x \in IndexKeys, items \in SUBSET Item : receiveIndexPacketDeleteRequest(x, items)
    BY <1>6
  <2>2. CASE Unchanged
    BY <1>0, <2>2 DEF Unchanged, files
  <2>3. CASE Readable(x) /\ \E counted, wd, wi : EraseFromIndex(x, items, counted, wd, wi)
    <3> DEFINE rest == idx[x].entries \ Matched(idx[x].entries, items)
    <3>1. \/ idx' = idx
          \/ idx' = Write(idx, x, [ok |-> TRUE, entries |-> rest])
          \/ idx' = Erase(idx, {x})
      BY <2>3 DEF EraseFromIndex
    <3>2. x \in DOMAIN idx /\ rest \subseteq idx[x].entries
      BY <2>3 DEF Readable
    <3> HIDE DEF rest
    <3>3. QED
      BY <3>1, <3>2 DEF Write, Erase
  <2>4. QED
    BY <2>1, <2>2, <2>3, Zenon DEF receiveIndexPacketDeleteRequest
<1>7. CASE \E x \in EmailKeys : \E da \in DelAuths : deleteEmail(x, da)
  BY <1>0, <1>7 DEF deleteEmail
<1>8. ASSUME NEW x \in IndexKeys, NEW item \in Item, remove_index(x, item)
      PROVE  Kept \/ Came
  <2>1. \/ idx' = idx
        \/ /\ Readable(x)
           /\ \E counted : \/ idx' = Write(idx, x, [ok |-> TRUE, entries |-> idx[x].entries \ counted])
                           \/ idx' = Erase(idx, {x})
    BY <1>8 DEF remove_index
  <2>2. QED
    BY <2>1 DEF Readable, Write, Erase
<1>9. CASE update
  <2>1. CASE CleaningDue
    <3>1. PICK failed : remove_old_entries(failed)
      BY <1>9, <2>1 DEF update
    <3>2. k \in DOMAIN idx /\ (idx'[k] = idx[k] \/ idx'[k].entries = CleanIndexEntries(k))
      BY <3>1 DEF remove_old_entries
    <3>3. QED
      BY <3>2 DEF CleanIndexEntries
  <2>2. CASE ~CleaningDue
    BY <1>0, <1>9, <2>2 DEF update
  <2>3. QED
    BY <2>1, <2>2
<1>10. CASE \E x \in EmailKeys : KillInDeletion(x)
  BY <1>0, <1>10 DEF KillInDeletion
<1>11. CASE restart \/ Tick \/ UNCHANGED vars
  BY <1>0, <1>11 DEF restart, Tick, vars, files
<1>12. QED
  BY <1>2, <1>3, <1>4, <1>5, <1>6, <1>7, <1>8, <1>9, <1>10, <1>11 DEF Next

LEMMA StepIndexFilesCarried ==
  ASSUME TypeOK, IndexFilesCarried, [Next]_vars
  PROVE  IndexFilesCarried'
<1>1. carried \subseteq carried'
  BY CarriedGrows
<1>2. ASSUME NEW k \in DOMAIN idx', NEW e \in idx'[k].entries
      PROVE  <<k, ItemOf(e)>> \in carried'
  BY <1>1, IndexFileSteps DEF IndexFilesCarried
<1>3. QED
  BY <1>2 DEF IndexFilesCarried

\* The mail half of RecordsAuthentic.
MailRecordsAuthentic ==
  \A k \in Recorded(emlDel) : <<k, [key |-> k, da |-> emlDel[k]]>> \in carried

LEMMA StepMailAuthentic ==
  ASSUME TypeOK, MailFilesCarried, MailRecordsAuthentic, [Next]_vars
  PROVE  MailRecordsAuthentic'
<1>0. carried \subseteq carried'
  BY CarriedGrows
<1>1. CASE emlDel' = emlDel
  BY <1>0, <1>1 DEF MailRecordsAuthentic, Recorded
<1>2. ASSUME NEW k \in EmailKeys, NEW da \in DelAuths \cup {NoDA}, NEW w \in BOOLEAN,
             emlDel' = safe_deleted_email(k, da, w),
             \/ da = NoDA
             \/ k \in DOMAIN eml /\ da = eml[k].dv
             \/ <<k, [key |-> k, da |-> da]>> \in carried'
      PROVE  MailRecordsAuthentic'
  <2>1. CASE emlDel' = Write(emlDel, k, da)
    <3>1. /\ DOMAIN emlDel' = DOMAIN emlDel \cup {k}
          /\ emlDel'[k] = da
          /\ \A x \in DOMAIN emlDel \ {k} : emlDel'[x] = emlDel[x]
      BY <2>1 DEF Write
    <3>2. da # NoDA => <<k, [key |-> k, da |-> da]>> \in carried'
      BY <1>0, <1>2 DEF MailFilesCarried
    <3>3. ASSUME NEW x \in DOMAIN emlDel', emlDel'[x] # NoDA
          PROVE  <<x, [key |-> x, da |-> emlDel'[x]]>> \in carried'
      <4>1. CASE x = k
        BY <3>1, <3>2, <3>3, <4>1
      <4>2. CASE x # k
        BY <1>0, <3>1, <3>3, <4>2 DEF MailRecordsAuthentic, Recorded
      <4>3. QED
        BY <4>1, <4>2
    <3>4. QED
      BY <3>3 DEF MailRecordsAuthentic, Recorded
  <2>2. QED
    BY <1>1, <1>2, <2>1 DEF safe_deleted_email
<1>3. QED
  BY <1>1, <1>2, MailRecordSteps

\* The items of the record of index k were brought under that key.
Authentic(k, items) == \A item \in items : <<k, item>> \in carried'

\* Writing or removing an index record keeps the records authentic.
LEMMA DeletedIndexAuthentic ==
  ASSUME FilesOK, NEW k \in IndexKeys, NEW items \in SUBSET Item, NEW w \in BOOLEAN,
         Authentic(k, items), \A x \in DOMAIN idxDel : Authentic(x, idxDel[x]),
         idxDel' = safe_deleted_index(k, items, w)
  PROVE  \A x \in DOMAIN idxDel' : Authentic(x, idxDel'[x])
<1>1. CASE idxDel' = Write(idxDel, k, items)
  <2>1. /\ DOMAIN idxDel' = DOMAIN idxDel \cup {k}
        /\ idxDel'[k] = items
        /\ \A x \in DOMAIN idxDel \ {k} : idxDel'[x] = idxDel[x]
    BY <1>1 DEF Write
  <2>2. QED
    BY <2>1
<1>2. CASE idxDel' = Erase(idxDel, {k})
  <2>1. /\ DOMAIN idxDel' = DOMAIN idxDel \ {k}
        /\ \A x \in DOMAIN idxDel \ {k} : idxDel'[x] = idxDel[x]
    BY <1>2 DEF Erase
  <2>2. QED
    BY <2>1
<1>3. CASE idxDel' = idxDel
  BY <1>3
<1>4. QED
  BY <1>1, <1>2, <1>3 DEF safe_deleted_index

LEMMA StepIndexAuthentic ==
  ASSUME TypeOK, IndexFilesCarried, [Next]_vars,
         \A k \in DOMAIN idxDel : \A item \in idxDel[k] : <<k, item>> \in carried
  PROVE  \A k \in DOMAIN idxDel' : Authentic(k, idxDel'[k])
<1> WriteResults \subseteq BOOLEAN
  BY BoundsAssumption
<1>0. carried \subseteq carried'
  BY CarriedGrows
<1> \A x \in DOMAIN idxDel : Authentic(x, idxDel[x])
  BY <1>0 DEF Authentic
<1>1. CASE idxDel' = idxDel
  BY <1>1
<1>2. ASSUME NEW k \in IndexKeys, NEW items \in SUBSET Item,
             receiveIndexPacketDeleteRequest(k, items)
      PROVE  \A x \in DOMAIN idxDel' : Authentic(x, idxDel'[x])
  <2>1. CASE Unchanged
    BY <1>1, <2>1 DEF Unchanged, files
  <2>2. CASE Readable(k) /\ \E counted \in Counted(idx[k].entries, items) :
               \E wd, wi \in WriteResults : EraseFromIndex(k, items, counted, wd, wi)
    <3>1. PICK counted \in Counted(idx[k].entries, items), wd \in WriteResults,
               wi \in WriteResults : EraseFromIndex(k, items, counted, wd, wi)
      BY <2>2
    <3>2. idx[k].entries \subseteq Entry
      BY <2>2, IndexWithout DEF Readable, TypeOK
    <3>3. counted \subseteq Entry
      BY <3>2 DEF Counted, Matched
    <3>4. ItemsOf(counted) \in SUBSET Item
      BY <3>3, ItemsOfType
    <3>5. Authentic(k, ItemsOf(counted))
      BY <1>0, <2>2 DEF ItemsOf, Authentic, IndexFilesCarried, Readable, Counted, Matched
    <3>6. idxDel' = safe_deleted_index(k, ItemsOf(counted), wd)
      BY <3>1 DEF EraseFromIndex
    <3>7. QED
      BY <3>4, <3>5, <3>6, DeletedIndexAuthentic DEF TypeOK
  <2>3. QED
    BY <1>2, <2>1, <2>2, Zenon DEF receiveIndexPacketDeleteRequest
<1>3. ASSUME NEW k \in IndexKeys, NEW item \in Item, remove_index(k, item)
      PROVE  \A x \in DOMAIN idxDel' : Authentic(x, idxDel'[x])
  <2>1. PICK wd \in WriteResults : idxDel' = safe_deleted_index(k, {item}, wd)
    BY <1>3 DEF remove_index
  <2>2. Authentic(k, {item})
    BY <1>3 DEF Authentic, remove_index
  <2>3. QED
    BY <2>1, <2>2, DeletedIndexAuthentic DEF TypeOK
<1>4. CASE \E p \in Packet : receiveStoreRequest(p) \/ LocalSafe(p)
  <2>1. idxDel' = idxDel
    BY <1>4 DEF receiveStoreRequest, LocalSafe, Unchanged, files, safe, safeIndex, safeEmail,
                safeContact
  <2>2. QED
    BY <1>1, <2>1
<1>5. CASE \/ \E k \in AnyKey : receiveMalformed(k)
           \/ \E type \in {"I", "E", "C"} : \E k \in AnyKey : receiveRetrieveRequest(type, k)
           \/ \E k \in IndexKeys \cup EmailKeys : receiveDeletionQuery(k)
  <2>1. Unchanged
    BY <1>5 DEF receiveMalformed, receiveRetrieveRequest, receiveDeletionQuery
  <2>2. QED
    BY <1>1, <2>1 DEF Unchanged, files
<1>6. CASE \E k \in EmailKeys : \E da \in DelAuths : receiveEmailPacketDeleteRequest(k, da)
  <2>1. idxDel' = idxDel
    BY <1>6 DEF receiveEmailPacketDeleteRequest, Unchanged, files
  <2>2. QED
    BY <1>1, <2>1
<1>7. CASE \E k \in EmailKeys : \E da \in DelAuths : deleteEmail(k, da)
  BY <1>1, <1>7 DEF deleteEmail
<1>8. CASE update \/ restart \/ (\E k \in EmailKeys : KillInDeletion(k)) \/ Tick \/ UNCHANGED vars
  BY <1>1, <1>8 DEF update, restart, KillInDeletion, Tick, vars, files
<1>9. QED
  BY <1>2, <1>3, <1>4, <1>5, <1>6, <1>7, <1>8 DEF Next

\* The authorisation in every deletion record, of mails and of index entries, came
\* with a packet of that key or from the local mail task: no sequence of requests gets
\* one into a record that a peer made up (EmailDeleteStatus, EraseFromIndex).  The
\* argument is that the same holds of the files the records are made from.
THEOREM RecordsAreAuthentic == Spec => []RecordsAuthentic
<1> DEFINE IInv == MailFilesCarried /\ IndexFilesCarried /\ RecordsAuthentic
<1>1. Init => IInv
  BY DEF Init, RecordsAuthentic, Recorded, MailFilesCarried, IndexFilesCarried
<1>2. TypeOK /\ IInv /\ [Next]_vars => IInv'
  <2> SUFFICES ASSUME TypeOK, IInv, [Next]_vars PROVE IInv'
    OBVIOUS
  <2>1. MailFilesCarried' /\ IndexFilesCarried'
    BY StepMailFilesCarried, StepIndexFilesCarried
  <2>2. MailRecordsAuthentic'
    BY StepMailAuthentic DEF RecordsAuthentic, MailRecordsAuthentic
  <2>3. \A k \in DOMAIN idxDel' : Authentic(k, idxDel'[k])
    BY StepIndexAuthentic DEF RecordsAuthentic
  <2>4. RecordsAuthentic'
    BY <2>2, <2>3 DEF RecordsAuthentic, MailRecordsAuthentic, Authentic
  <2>5. QED
    BY <2>1, <2>4
<1>3. QED
  BY <1>1, <1>2, TypeCorrect, PTL DEF Spec

-----------------------------------------------------------------------------
(* A store whose writes succeed *)

\* A mail disappears in four actions only; in each but the kill its record stays.
LEMMA StepLeavesRecord ==
  ASSUME WriteResults = {TRUE}, TypeOK, SummaryExact, [Next]_vars
  PROVE  LeavesRecord
<1> SUFFICES ASSUME NEW k \in EmailKeys, k \in DOMAIN eml, k \notin DOMAIN eml'
             PROVE  k \in DOMAIN emlDel' \/ KillInDeletion(k)
  BY DEF LeavesRecord
<1>0. ASSUME NEW x \in EmailKeys, NEW da \in DelAuths
      PROVE  x \in DOMAIN safe_deleted_email(x, da, TRUE)
  BY DEF safe_deleted_email, Write
<1>1. ASSUME NEW x \in EmailKeys, NEW da \in DelAuths, receiveEmailPacketDeleteRequest(x, da)
      PROVE  k \in DOMAIN emlDel'
  <2>1. CASE Unchanged
    BY <2>1 DEF Unchanged, files
  <2>2. CASE /\ eml' = Erase(eml, {x})
             /\ \E w \in WriteResults : emlDel' = safe_deleted_email(x, da, w)
    <3>1. k = x
      BY <2>2 DEF Erase
    <3>2. QED
      BY <1>0, <2>2, <3>1
  <2>3. QED
    BY <1>1, <2>1, <2>2 DEF receiveEmailPacketDeleteRequest
<1>2. ASSUME NEW x \in EmailKeys, NEW da \in DelAuths, deleteEmail(x, da)
      PROVE  k \in DOMAIN emlDel'
  <2>1. eml' = Erase(eml, {x}) /\ emlDel' = safe_deleted_email(x, da, TRUE)
    BY <1>2 DEF deleteEmail
  <2>2. k = x
    BY <2>1 DEF Erase
  <2>3. QED
    BY <1>0, <2>1, <2>2
<1>3. CASE update
  <2>1. emlDel' = emlDel /\ eml' # eml
    BY <1>3 DEF update
  <2>2. PICK removed \in SUBSET EmailKeys : remove_old_packets(removed)
    BY <1>3, <2>1 DEF update
  <2>3. k \in OldEmails
    BY <2>2 DEF remove_old_packets, Erase
  <2>4. k \in DOMAIN emlDel
    BY <2>3 DEF OldEmails, SummaryExact
  <2>5. QED
    BY <2>1, <2>4
<1>4. CASE \E p \in Packet : receiveStoreRequest(p) \/ LocalSafe(p)
  <2>1. PICK p \in Packet, w \in WriteResults : Unchanged \/ safe(p, w)
    BY <1>4 DEF receiveStoreRequest, LocalSafe
  <2>2. CASE safeEmail(p.key, FileOf(p.body, p.dv), w)
    BY <2>2 DEF safeEmail, Write
  <2>3. CASE eml' = eml
    BY <2>3
  <2>4. QED
    BY <2>1, <2>2, <2>3 DEF safe, safeIndex, safeContact, Unchanged, files
<1>5. CASE \/ \E x \in AnyKey : receiveMalformed(x)
           \/ \E type \in {"I", "E", "C"} : \E x \in AnyKey : receiveRetrieveRequest(type, x)
           \/ \E x \in IndexKeys \cup EmailKeys : receiveDeletionQuery(x)
  <2>1. Unchanged
    BY <1>5 DEF receiveMalformed, receiveRetrieveRequest, receiveDeletionQuery
  <2>2. QED
    BY <2>1 DEF Unchanged, files
<1>6. CASE \E x \in IndexKeys : \E items \in SUBSET Item :
             receiveIndexPacketDeleteRequest(x, items)
  <2>1. PICK x \in IndexKeys, items \in SUBSET Item : receiveIndexPacketDeleteRequest(x, items)
    BY <1>6
  <2>2. CASE Unchanged
    BY <2>2 DEF Unchanged, files
  <2>3. CASE \E counted, wd, wi : EraseFromIndex(x, items, counted, wd, wi)
    BY <2>3 DEF EraseFromIndex
  <2>4. QED
    BY <2>1, <2>2, <2>3, Zenon DEF receiveIndexPacketDeleteRequest
<1>7. CASE \E x \in IndexKeys : \E item \in Item : remove_index(x, item)
  <2>1. eml' = eml
    BY <1>7 DEF remove_index
  <2>2. QED
    BY <2>1
<1>8. CASE restart \/ Tick \/ UNCHANGED vars
  BY <1>8 DEF restart, Tick, vars, files
<1>9. ASSUME NEW x \in EmailKeys, KillInDeletion(x)
      PROVE  KillInDeletion(k)
  <2>1. k = x
    BY <1>9 DEF KillInDeletion, Erase
  <2>2. QED
    BY <1>9, <2>1
<1>10. QED
  BY <1>1, <1>2, <1>3, <1>4, <1>5, <1>6, <1>7, <1>8, <1>9 DEF Next

\* In a store whose writes succeed no mail packet disappears without leaving a
\* deletion record, but for the one a kill met in its deletion.  SummaryExact is needed: cleaning goes through the key list
\* local_email_packets, which has to be the list of the records.
THEOREM NoMailLostSilently ==
  ASSUME WriteResults = {TRUE}
  PROVE  Spec => NoSilentLoss
<1>1. TypeOK /\ SummaryExact /\ [Next]_vars => [LeavesRecord]_vars
  BY StepLeavesRecord
<1>2. QED
  BY <1>1, TypeCorrect, SummaryCorrect, PTL DEF Spec, NoSilentLoss

\* ConfirmedDeletions is about what the handlers answer; what is inductive is
\* that a record of a confirmed deletion is there, and which it may be.
ConfirmedRecorded ==
  \A c \in confirmed :
    /\ c[1] \in DOMAIN emlDel
    /\ emlDel[c[1]] \in {NoDA, c[2]} \/ Disputed(c[1], c[2])

\* What is disputed stays disputed.
LEMMA DisputedStays ==
  ASSUME [Next]_vars, NEW k, NEW da, Disputed(k, da)
  PROVE  Disputed(k, da)'
BY CarriedGrows DEF Disputed

LEMMA StepConfirmedRecorded ==
  ASSUME WriteResults = {TRUE}, TypeOK, RecordsAuthentic, ConfirmedRecorded, [Next]_vars
  PROVE  ConfirmedRecorded'
<1>0. KeepsRecords
  BY StepKeepsRecords
<1>1. ASSUME NEW c \in confirmed
      PROVE  /\ c[1] \in DOMAIN emlDel'
             /\ emlDel'[c[1]] \in {NoDA, c[2]} \/ Disputed(c[1], c[2])'
  BY <1>0, DisputedStays DEF ConfirmedRecorded, KeepsRecords
<1>2. ASSUME NEW k \in EmailKeys, NEW da \in DelAuths,
             receiveEmailPacketDeleteRequest(k, da), confirmed' # confirmed
      PROVE  ConfirmedRecorded'
  <2>1. confirmed' = confirmed \cup {<<k, da>>} /\ EmailDeleteStatus(k, da) = "OK"
    BY <1>2 DEF receiveEmailPacketDeleteRequest
  <2>2. k \in DOMAIN emlDel' /\ (emlDel'[k] \in {NoDA, da} \/ Disputed(k, da)')
    <3>1. CASE AlreadyRemoved(k, da)
      BY <1>0, <3>1 DEF AlreadyRemoved, KeepsRecords
    <3>2. CASE ~AlreadyRemoved(k, da) /\ k \in DOMAIN emlDel
      <4>1. k \in DOMAIN emlDel' /\ emlDel'[k] = emlDel[k]
        BY <1>0, <3>2 DEF KeepsRecords
      <4>2. CASE emlDel[k] = NoDA
        BY <4>1, <4>2
      <4>3. CASE emlDel[k] # NoDA
        <5>1. emlDel[k] \in DelAuths \ {da}
          BY <3>2, <4>3, DirectoryIs DEF AlreadyRemoved, TypeOK, FilesOK
        <5>2. <<k, [key |-> k, da |-> emlDel[k]]>> \in carried
          BY <3>2, <4>3 DEF RecordsAuthentic, Recorded
        <5>3. Disputed(k, da)
          BY <5>1, <5>2 DEF Disputed
        <5>4. QED
          BY <4>1, <5>3, DisputedStays
      <4>4. QED
        BY <4>2, <4>3
    <3>3. CASE ~AlreadyRemoved(k, da) /\ k \notin DOMAIN emlDel
      <4>1. emlDel' = safe_deleted_email(k, da, TRUE)
        BY <1>2, <2>1, <3>3 DEF receiveEmailPacketDeleteRequest
      <4>2. emlDel' = Write(emlDel, k, da)
        BY <3>3, <4>1 DEF safe_deleted_email
      <4>3. QED
        BY <4>2 DEF Write
    <3>4. QED
      BY <3>1, <3>2, <3>3
  <2>3. QED
    BY <1>1, <2>1, <2>2 DEF ConfirmedRecorded
<1>3. CASE \E k \in EmailKeys : \E da \in DelAuths : receiveEmailPacketDeleteRequest(k, da)
  BY <1>1, <1>2, <1>3 DEF ConfirmedRecorded
<1>4. CASE ~\E k \in EmailKeys : \E da \in DelAuths : receiveEmailPacketDeleteRequest(k, da)
  <2>1. confirmed' = confirmed
    BY <1>4 DEF Next, receiveMalformed, receiveStoreRequest, receiveRetrieveRequest,
                receiveDeletionQuery, receiveIndexPacketDeleteRequest, LocalSafe, deleteEmail,
                remove_index, update, restart, KillInDeletion, Tick, vars, history
  <2>2. QED
    BY <1>1, <2>1 DEF ConfirmedRecorded
<1>5. QED
  BY <1>3, <1>4

\* In a store whose writes succeed a mail deletion that was answered OK is
\* answered OK again and found by a deletion query for ever after, unless packets with
\* the same key and other delete hashes came or a kill left the record empty; and even
\* then a record file is there.  The argument is ConfirmedRecorded; it needs
\* RecordsAuthentic, by which a record with another DA means that such a packet came,
\* and disjoint index and mail keys, since a query looks for an index record first.
THEOREM DeletionsStayConfirmed ==
  ASSUME WriteResults = {TRUE}
  PROVE  Spec => []ConfirmedDeletions
<1>1. Init => ConfirmedRecorded
  BY DEF Init, ConfirmedRecorded
<1>2. TypeOK /\ RecordsAuthentic /\ ConfirmedRecorded /\ [Next]_vars => ConfirmedRecorded'
  BY StepConfirmedRecorded
<1>3. TypeOK /\ ConfirmedRecorded => ConfirmedDeletions
  <2> SUFFICES ASSUME TypeOK, ConfirmedRecorded, NEW c \in confirmed
               PROVE  /\ c[1] \in DOMAIN emlDel
                      /\ c[1] \in Recorded(emlDel) /\ ~Disputed(c[1], c[2]) =>
                           /\ EmailDeleteStatus(c[1], c[2]) = "OK"
                           /\ [key |-> c[1], da |-> c[2]] \in DeletionInfo(c[1])
    BY DEF ConfirmedDeletions
  <2>1. c[1] \in EmailKeys /\ c[1] \in DOMAIN emlDel
    BY DEF TypeOK, ConfirmedRecorded
  <2>2. c[1] \notin DOMAIN idxDel
    BY <2>1, KeysAssumption, DirectoryIs DEF TypeOK, FilesOK
  <2>3. ASSUME c[1] \in Recorded(emlDel), ~Disputed(c[1], c[2])
        PROVE  emlDel[c[1]] = c[2]
    BY <2>3 DEF ConfirmedRecorded, Recorded
  <2>4. QED
    BY <2>1, <2>2, <2>3 DEF EmailDeleteStatus, AlreadyRemoved, DeletionInfo
<1>4. QED
  BY <1>1, <1>2, <1>3, TypeCorrect, RecordsAreAuthentic, PTL DEF Spec

-----------------------------------------------------------------------------
(* The storage limit *)

LEMMA ProductMonotone ==
  ASSUME NEW a \in Nat, NEW b \in Nat, NEW c \in Nat, NEW d \in Nat, b <= c + d
  PROVE  a * b <= a * c + a * d
<1>1. a * (c + d) = a * c + a * d
  OBVIOUS
<1>2. a * b <= a * (c + d)
  OBVIOUS
<1>3. QED
  BY <1>1, <1>2

\* An index packet adds at most its own size, whether or not there was one.
LEMMA IndexGrowth ==
  ASSUME NEW x \in Directory(IndexKeys, IndexPacket), NEW k \in IndexKeys,
         NEW pkt \in IndexPacket, NEW y \in Directory(IndexKeys, IndexPacket),
         y = Write(x, k, pkt) \/ y = Write(Erase(x, {k}), k, pkt)
  PROVE  Size["index"] * Cardinality(DOMAIN y) + Size["entry"] * Cardinality(EntriesIn(y))
           <= Size["index"] * Cardinality(DOMAIN x) + Size["entry"] * Cardinality(EntriesIn(x))
                + IndexSize(pkt)
<1>1. /\ IsFiniteSet(DOMAIN x) /\ IsFiniteSet(EntriesIn(x))
      /\ IsFiniteSet(DOMAIN y) /\ IsFiniteSet(EntriesIn(y))
  <2>1. /\ [j \in {} |-> {}] \in Directory(IndexKeys, SUBSET Item)
        /\ [j \in {} |-> {}] \in Directory(EmailKeys, EmailFile)
        /\ [j \in {} |-> {}] \in Directory(EmailKeys, DelAuths \cup {NoDA})
        /\ {} \in SUBSET ContactKeys
    BY EmptyDirectory
  <2>2. QED
    BY <2>1, CountedSetsFinite
<1>2. IsFiniteSet(pkt.entries) /\ IsFiniteSet({k})
  BY FiniteContents, FS_Subset, FS_Singleton DEF IndexPacket
<1>3. IsFiniteSet({k} \X pkt.entries)
      /\ Cardinality({k} \X pkt.entries) = Cardinality({k}) * Cardinality(pkt.entries)
  BY <1>2, FS_Product
<1>4. Cardinality(pkt.entries) \in Nat /\ Cardinality({k}) = 1
  BY <1>2, FS_CardinalityType, FS_Singleton
<1>5. Cardinality({k} \X pkt.entries) = Cardinality(pkt.entries)
  BY <1>3, <1>4
<1>6. DOMAIN y = DOMAIN x \cup {k}
  BY DEF Write, Erase
<1>7. Cardinality(DOMAIN y) <= Cardinality(DOMAIN x) + 1
  BY <1>1, <1>6, FS_AddElement, FS_CardinalityType
<1>8. EntriesIn(y) \subseteq EntriesIn(x) \cup ({k} \X pkt.entries)
  <2>1. y[k] = pkt /\ \A j \in DOMAIN y \ {k} : j \in DOMAIN x /\ y[j] = x[j]
    BY DEF Write, Erase
  <2>2. ASSUME NEW z \in EntriesIn(y) PROVE z \in EntriesIn(x) \cup ({k} \X pkt.entries)
    <3>1. PICK j \in DOMAIN y : z \in {j} \X y[j].entries
      BY DEF EntriesIn
    <3>2. CASE j = k
      BY <2>1, <3>1, <3>2
    <3>3. CASE j # k
      <4>1. j \in DOMAIN x /\ z \in {j} \X x[j].entries
        BY <2>1, <3>1, <3>3
      <4>2. z \in EntriesIn(x)
        BY <4>1 DEF EntriesIn
      <4>3. QED
        BY <4>2
    <3>4. QED
      BY <3>2, <3>3
  <2>3. QED
    BY <2>2
<1>9. Cardinality(EntriesIn(y)) <= Cardinality(EntriesIn(x)) + Cardinality(pkt.entries)
  <2> DEFINE A == EntriesIn(x)
             B == {k} \X pkt.entries
  <2>1. IsFiniteSet(A \cup B) /\ Cardinality(A \cup B) = Cardinality(A) + Cardinality(B) - Cardinality(A \cap B)
    BY <1>1, <1>3, FS_Union
  <2>2. Cardinality(EntriesIn(y)) <= Cardinality(A \cup B)
    BY <1>8, <2>1, FS_Subset
  <2>3. IsFiniteSet(A \cap B)
    BY <1>1, FS_Intersection
  <2>4. /\ Cardinality(A) \in Nat /\ Cardinality(B) \in Nat /\ Cardinality(A \cap B) \in Nat
        /\ Cardinality(A \cup B) \in Nat /\ Cardinality(EntriesIn(y)) \in Nat
    BY <1>1, <1>3, <2>1, <2>3, FS_CardinalityType
  <2> HIDE DEF A, B
  <2>5. Cardinality(EntriesIn(y)) <= Cardinality(A) + Cardinality(B)
    BY <2>1, <2>2, <2>4
  <2>6. QED
    BY <1>5, <2>5 DEF A, B
<1>10. /\ Cardinality(DOMAIN x) \in Nat /\ Cardinality(EntriesIn(x)) \in Nat
       /\ Cardinality(DOMAIN y) \in Nat /\ Cardinality(EntriesIn(y)) \in Nat
  BY <1>1, FS_CardinalityType
<1>11. Size["index"] * Cardinality(DOMAIN y) <= Size["index"] * Cardinality(DOMAIN x) + Size["index"]
  <2>1. Size["index"] * 1 = Size["index"]
    BY SizesNat
  <2>2. QED
    BY <1>7, <1>10, <2>1, SizesNat, ProductMonotone
<1>12. Size["entry"] * Cardinality(EntriesIn(y))
         <= Size["entry"] * Cardinality(EntriesIn(x)) + Size["entry"] * Cardinality(pkt.entries)
  BY <1>4, <1>9, <1>10, SizesNat, ProductMonotone
<1>13. /\ Size["index"] * Cardinality(DOMAIN x) \in Nat
       /\ Size["index"] * Cardinality(DOMAIN y) \in Nat
       /\ Size["entry"] * Cardinality(EntriesIn(x)) \in Nat
       /\ Size["entry"] * Cardinality(EntriesIn(y)) \in Nat
       /\ Size["entry"] * Cardinality(pkt.entries) \in Nat
  BY <1>4, <1>10, SizesNat, ProductNat
<1>14. QED
  BY <1>11, <1>12, <1>13, SizesNat DEF IndexSize

\* A new mail file adds the size of its kind.
LEMMA EmailGrowth ==
  ASSUME NEW x \in Directory(EmailKeys, EmailFile), NEW k \in EmailKeys, k \notin DOMAIN x,
         NEW file \in EmailFile, NEW y, y = Write(x, k, file)
  PROVE  EmailUsage(y) = EmailUsage(x) + Size[file.kind]
<1> DEFINE n(kind) == Cardinality(OfKind(x, kind))
           m(kind) == Cardinality(OfKind(y, kind))
<1>1. ASSUME NEW kind \in FileKinds PROVE IsFiniteSet(OfKind(x, kind)) /\ n(kind) \in Nat
  <2>1. OfKind(x, kind) \subseteq EmailKeys
    BY DirectoryIs DEF OfKind
  <2>2. QED
    BY <2>1, KeysAssumption, FS_Subset, FS_CardinalityType
<1>2. /\ DOMAIN y = DOMAIN x \cup {k} /\ y[k] = file
      /\ \A j \in DOMAIN x : y[j] = x[j]
  BY DEF Write
<1>3. file.kind \in FileKinds
  BY DEF EmailFile
<1>4. m(file.kind) = n(file.kind) + 1
  <2>1. OfKind(y, file.kind) = OfKind(x, file.kind) \cup {k}
    BY <1>2 DEF OfKind
  <2>2. k \notin OfKind(x, file.kind)
    BY DEF OfKind
  <2>3. QED
    BY <1>1, <1>3, <2>1, <2>2, FS_AddElement
<1>5. ASSUME NEW kind \in FileKinds, kind # file.kind PROVE m(kind) = n(kind)
  <2>1. OfKind(y, kind) = OfKind(x, kind)
    BY <1>2, <1>5 DEF OfKind
  <2>2. QED
    BY <2>1
<1>6. ASSUME NEW kind \in FileKinds
      PROVE  /\ Size[kind] \in Nat /\ Size[kind] * n(kind) \in Nat
             /\ Size[kind] * (n(kind) + 1) = Size[kind] * n(kind) + Size[kind]
  <2>1. Size[kind] \in Nat
    BY SizesNat DEF FileKinds
  <2>2. ASSUME NEW i \in Nat, NEW j \in Nat PROVE i * j \in Nat /\ i * (j + 1) = i * j + i
    OBVIOUS
  <2>3. QED
    BY <1>1, <2>1, <2>2
<1>7. /\ EmailUsage(x) = Size["email"] * n("email") + Size["long"] * n("long")
                           + Size["cut"] * n("cut") + Size["stub"] * n("stub")
      /\ EmailUsage(y) = Size["email"] * m("email") + Size["long"] * m("long")
                           + Size["cut"] * m("cut") + Size["stub"] * m("stub")
  BY DEF EmailUsage
<1> HIDE DEF n, m
<1>8. CASE file.kind = "email"
  BY <1>4, <1>5, <1>6, <1>7, <1>8 DEF FileKinds
<1>9. CASE file.kind = "long"
  BY <1>4, <1>5, <1>6, <1>7, <1>9 DEF FileKinds
<1>10. CASE file.kind = "cut"
  BY <1>4, <1>5, <1>6, <1>7, <1>10 DEF FileKinds
<1>11. CASE file.kind = "stub"
  BY <1>4, <1>5, <1>6, <1>7, <1>11 DEF FileKinds
<1>12. QED
  BY <1>3, <1>8, <1>9, <1>10, <1>11 DEF FileKinds

\* The size a store request is checked with is a number.
LEMMA PacketSizeInt ==
  ASSUME NEW p \in Packet
  PROVE  PacketSize(p) \in Int
<1>1. CASE p.type = "I"
  <2>1. IsFiniteSet(p.body.entries)
    BY <1>1, PacketTypes, FiniteContents, FS_Subset DEF IndexPacket
  <2>2. Size["entry"] * Cardinality(p.body.entries) \in Nat
    BY <2>1, FS_CardinalityType, SizesNat, ProductNat
  <2>3. QED
    BY <1>1, <2>2, SizesNat DEF PacketSize, IndexSize
<1>2. CASE p.type = "E"
  BY <1>2, SizesNat DEF PacketSize
<1>3. CASE p.type = "C"
  BY <1>3, SizesNat DEF PacketSize
<1>4. QED
  BY <1>1, <1>2, <1>3 DEF Packet

\* A packet that is stored adds at most the size it was checked with, and what its
\* file exceeds it.
LEMMA StoreGrowth ==
  ASSUME TypeOK, SummaryExact, NEW p \in Packet, safe(p, TRUE),
         safeResult(p, TRUE) = "STORE_SUCCESS"
  PROVE  used' <= used + PacketSize(p) + Excess(p.key)'
<1> DEFINE ix(f) == Size["index"] * Cardinality(DOMAIN f) + Size["entry"] * Cardinality(EntriesIn(f))
           xd(f) == Size["deletion"] * Cardinality(DOMAIN f) + Size["item"] * Cardinality(ItemsIn(f))
           em(f) == EmailUsage(f)
           ed(f) == (Size["deletion"] + Size["item"]) * Cardinality(Recorded(f))
           co(f) == Size["contact"] * Cardinality(f)
<1> FilesOK
  BY DEF TypeOK
<1>1. FilesOK'
  <2>1. now \in Time
    BY BoundsAssumption DEF TypeOK, Time
  <2>2. QED
    BY <2>1, SafeFiles
<1>2. ASSUME NEW a \in Directory(IndexKeys, IndexPacket),
             NEW b \in Directory(IndexKeys, SUBSET Item),
             NEW c \in Directory(EmailKeys, EmailFile),
             NEW d \in Directory(EmailKeys, DelAuths \cup {NoDA}),
             NEW e \in SUBSET ContactKeys
      PROVE  /\ ix(a) \in Nat /\ xd(b) \in Nat /\ em(c) \in Nat /\ ed(d) \in Nat /\ co(e) \in Nat
             /\ DiskUsage(a, b, c, d, e) = ix(a) + xd(b) + em(c) + ed(d) + co(e)
  <2>1. /\ Cardinality(DOMAIN a) \in Nat /\ Cardinality(EntriesIn(a)) \in Nat
        /\ Cardinality(DOMAIN b) \in Nat /\ Cardinality(ItemsIn(b)) \in Nat
        /\ Cardinality(Recorded(d)) \in Nat /\ Cardinality(e) \in Nat
    BY CountedSetsFinite, FS_CardinalityType
  <2>2. /\ Size["index"] * Cardinality(DOMAIN a) \in Nat
        /\ Size["entry"] * Cardinality(EntriesIn(a)) \in Nat
        /\ Size["deletion"] * Cardinality(DOMAIN b) \in Nat
        /\ Size["item"] * Cardinality(ItemsIn(b)) \in Nat
        /\ Size["contact"] * Cardinality(e) \in Nat
    BY <2>1, SizesNat, ProductNat
  <2>3. Size["deletion"] + Size["item"] \in Nat
    BY SizesNat
  <2>4. (Size["deletion"] + Size["item"]) * Cardinality(Recorded(d)) \in Nat
    BY <2>1, <2>3, ProductNat
  <2>5. EmailUsage(c) \in Nat
    BY EmailUsageNat
  <2>6. QED
    BY <2>2, <2>4, <2>5 DEF DiskUsage
<1> HIDE DEF ix, xd, em, ed, co
<1>3. /\ used = ix(idx) + xd(idxDel) + em(eml) + ed(emlDel) + co(contacts)
      /\ ix(idx) \in Nat /\ xd(idxDel) \in Nat /\ em(eml) \in Nat /\ ed(emlDel) \in Nat
      /\ co(contacts) \in Nat
  BY <1>2 DEF FilesOK, SummaryExact
<1>4. /\ DiskUsage(idx', idxDel', eml', emlDel', contacts')
           = ix(idx') + xd(idxDel') + em(eml') + ed(emlDel') + co(contacts')
      /\ ix(idx') \in Nat /\ em(eml') \in Nat /\ co(contacts') \in Nat
  <2>1. /\ idx' \in Directory(IndexKeys, IndexPacket)
        /\ idxDel' \in Directory(IndexKeys, SUBSET Item)
        /\ eml' \in Directory(EmailKeys, EmailFile)
        /\ emlDel' \in Directory(EmailKeys, DelAuths \cup {NoDA})
        /\ contacts' \in SUBSET ContactKeys
    BY <1>1 DEF FilesOK
  <2>2. QED
    BY <1>2, <2>1
<1> Excess(p.key)' \in Nat
  BY SizesNat, SizesAssumption DEF Excess
<1>5. CASE p.type = "I" /\ safeIndex(p.key, p.body, TRUE)
  <2>1. p.key \in IndexKeys /\ p.body \in IndexPacket
    BY <1>5, PacketTypes
  <2>2. idx' = Write(idx, p.key, p.body) \/ idx' = Write(Erase(idx, {p.key}), p.key, p.body)
    BY <1>5 DEF safeIndex, update_index
  <2>3. ix(idx') <= ix(idx) + IndexSize(p.body)
    BY <1>1, <2>1, <2>2, IndexGrowth DEF FilesOK, ix
  <2>4. /\ used' = DiskUsage(idx', idxDel', eml', emlDel', contacts')
        /\ UNCHANGED <<idxDel, eml, emlDel, contacts>>
    BY <1>5 DEF safeIndex, Account, update_storage_usage
  <2>5. PacketSize(p) = IndexSize(p.body) /\ IndexSize(p.body) \in Nat
    <3>1. IsFiniteSet(p.body.entries)
      BY <2>1, FiniteContents, FS_Subset DEF IndexPacket
    <3>2. Size["entry"] * Cardinality(p.body.entries) \in Nat
      BY <3>1, FS_CardinalityType, SizesNat, ProductNat
    <3>3. QED
      BY <1>5, <3>2, SizesNat DEF PacketSize, IndexSize
  <2>6. QED
    BY <1>3, <1>4, <2>3, <2>4, <2>5, SizesNat, SizesAssumption
<1>6. CASE p.type = "E" /\ safeEmail(p.key, FileOf(p.body, p.dv), TRUE)
  <2>1. p.key \in EmailKeys /\ p.dv \in DelAuths
    BY <1>6, PacketTypes
  <2>2. p.key \notin DOMAIN eml
    BY <1>6 DEF safeResult
  <2>3. PICK file : file = FileOf(p.body, p.dv)
    OBVIOUS
  <2>4. file \in EmailFile
    <3>1. now \in Time
      BY BoundsAssumption DEF TypeOK, Time
    <3>2. QED
      BY <2>1, <2>3, <3>1, FileOfType
  <2>5. eml' = Write(eml, p.key, file)
    BY <1>6, <2>2, <2>3 DEF safeEmail
  <2>6. em(eml') = em(eml) + Size[file.kind]
    BY <2>1, <2>2, <2>4, <2>5, EmailGrowth DEF em, FilesOK
  <2>7. /\ used' = DiskUsage(idx', idxDel', eml', emlDel', contacts')
        /\ UNCHANGED <<idx, idxDel, emlDel, contacts>>
    BY <1>6, <2>2 DEF safeEmail, Account, update_storage_usage
  <2>8. PacketSize(p) = IF p.body = "short" THEN Size["short"] ELSE Size["email"]
    BY <1>6 DEF PacketSize
  <2>9. Size[file.kind] <= PacketSize(p) + Excess(p.key)'
    <3>1. p.key \in DOMAIN eml' /\ eml'[p.key] = file
      BY <2>5 DEF Write
    <3>2. Excess(p.key)' = IF file.kind = "long" THEN Size["long"] - Size["email"]
                           ELSE IF file.kind = "stub" THEN Size["stub"] - Size["short"] ELSE 0
      BY <3>1 DEF Excess, OfKind
    <3>3. /\ p.body = "short" => file.kind = "stub"
          /\ file.kind \in FileKinds
      BY <2>3 DEF FileOf, FileKinds
    <3>4. QED
      BY <2>8, <3>2, <3>3, SizesNat, SizesAssumption DEF FileKinds
  <2>10. PacketSize(p) \in Int /\ Size[file.kind] \in Nat
    BY <2>4, PacketSizeInt, SizesNat DEF EmailFile, FileKinds
  <2>11. QED
    BY <1>3, <1>4, <2>6, <2>7, <2>9, <2>10
<1>7. CASE p.type = "C" /\ safeContact(p.key, TRUE)
  <2>1. p.key \notin contacts
    BY <1>7 DEF safeResult
  <2>2. contacts' = contacts \cup {p.key}
    BY <1>7 DEF safeContact
  <2>3. IsFiniteSet(contacts)
    BY KeysAssumption, FS_Subset DEF FilesOK
  <2>4. Cardinality(contacts') = Cardinality(contacts) + 1 /\ Cardinality(contacts) \in Nat
    BY <2>1, <2>2, <2>3, FS_AddElement, FS_CardinalityType
  <2>5. co(contacts') = co(contacts) + Size["contact"]
    <3>1. ASSUME NEW m \in Nat, NEW n \in Nat PROVE m * (n + 1) = m * n + m
      OBVIOUS
    <3>2. QED
      BY <2>4, <3>1, SizesNat DEF co
  <2>6. /\ used' = DiskUsage(idx', idxDel', eml', emlDel', contacts')
        /\ UNCHANGED <<idx, idxDel, eml, emlDel>>
    BY <1>7, <2>1 DEF safeContact, Account, update_storage_usage
  <2>7. PacketSize(p) = Size["contact"]
    BY <1>7 DEF PacketSize
  <2>8. QED
    BY <1>3, <1>4, <2>5, <2>6, <2>7, SizesNat, SizesAssumption
<1>8. QED
  BY <1>5, <1>6, <1>7 DEF safe

\* A store request answered OK keeps the store below its limit, but for what the file
\* of this packet exceeds the packet, for every limit and all sizes.  receiveStoreRequest
\* compares the size of the packet with `used'; the argument needs that `used' is exact
\* (SummaryExact) and what a packet adds to the store (StoreGrowth).
THEOREM StoresStayWithinLimit == Spec => StoresWithinLimit
<1>1. TypeOK /\ SummaryExact /\ [Next]_vars => [StaysBelow]_vars
  <2> SUFFICES ASSUME TypeOK, SummaryExact, Next,
                      NEW r \in sent', r.req = "store", r.status = "OK"
               PROVE  used' < Limit + Excess(r.key)'
    BY DEF StaysBelow
  <2>1. TypeOK'
    BY StepTypeOK
  <2>2. ASSUME NEW p \in Packet, receiveStoreRequest(p)
        PROVE  used' < Limit + Excess(r.key)'
    <3>1. r.status # "NO_DISK_SPACE"
      OBVIOUS
    <3>2. PICK w \in WriteResults : /\ ~limit_reached(PacketSize(p))
                                    /\ safe(p, w)
                                    /\ r.status = StoreStatus(safeResult(p, w))
                                    /\ r.key = p.key
      BY <2>2, <3>1 DEF receiveStoreRequest, Respond
    <3>3. safeResult(p, w) = "STORE_SUCCESS" /\ w
      BY <3>2 DEF StoreStatus, safeResult
    <3>4. w = TRUE
      BY <3>3, BoundsAssumption
    <3>5. used' <= used + PacketSize(p) + Excess(r.key)'
      BY <3>2, <3>3, <3>4, StoreGrowth
    <3>6. PacketSize(p) \in Int /\ Excess(r.key)' \in Nat
      BY PacketSizeInt, SizesNat, SizesAssumption DEF Excess
    <3>7. QED
      BY <2>1, <3>2, <3>5, <3>6, SizesNat, SizesAssumption DEF limit_reached, TypeOK, SummaryOK
  <2>3. CASE \E p \in Packet : receiveStoreRequest(p)
    BY <2>2, <2>3
  <2>4. CASE ~\E p \in Packet : receiveStoreRequest(p)
    <3>1. CASE sent' = {}
      BY <3>1
    <3>2. CASE \E req, k, items, status : req # "store" /\ Respond(req, k, items, status)
      BY <3>2 DEF Respond
    <3>3. CASE \E k \in EmailKeys : \E da \in DelAuths : receiveEmailPacketDeleteRequest(k, da)
      BY <3>2, <3>3 DEF receiveEmailPacketDeleteRequest
    <3>4. ASSUME NEW k \in IndexKeys, NEW items \in SUBSET Item,
                 receiveIndexPacketDeleteRequest(k, items)
          PROVE  used' < Limit + Excess(r.key)'
      <4>1. \E status : Respond("delete_index", k, items, status)
        BY <3>4 DEF receiveIndexPacketDeleteRequest, EraseFromIndex
      <4>2. QED
        BY <3>2, <4>1
    <3>5. CASE \/ \E k \in AnyKey : receiveMalformed(k)
               \/ \E type \in {"I", "E", "C"} : \E k \in AnyKey : receiveRetrieveRequest(type, k)
               \/ \E k \in IndexKeys \cup EmailKeys : receiveDeletionQuery(k)
      BY <3>2, <3>5 DEF receiveMalformed, receiveRetrieveRequest, receiveDeletionQuery
    <3>6. CASE \/ \E p \in Packet : LocalSafe(p)
               \/ \E k \in EmailKeys : \E da \in DelAuths : deleteEmail(k, da)
               \/ \E k \in IndexKeys : \E item \in Item : remove_index(k, item)
               \/ \E k \in EmailKeys : KillInDeletion(k)
               \/ update \/ restart \/ Tick
      BY <3>1, <3>6 DEF LocalSafe, deleteEmail, remove_index, KillInDeletion, update, restart,
                        Tick
    <3>7. QED
      BY <2>4, <3>3, <3>4, <3>5, <3>6 DEF Next
  <2>5. QED
    BY <2>3, <2>4
<1>2. QED
  BY <1>1, TypeCorrect, SummaryCorrect, PTL DEF Spec, StoresWithinLimit

-----------------------------------------------------------------------------
(* The loops over the entries of an index *)

\* A loop visits places of the vector only, and all of them as long as the counter
\* has more values than the vector has elements.
LEMMA LookedIs ==
  ASSUME EntriesBounds, NEW S, NEW s \in Seq(S)
  PROVE  /\ Looked(s) \subseteq 1 .. Len(s)
         /\ Len(s) < Width => Looked(s) = 1 .. Len(s)
<1>1. Width \in Nat /\ Width > 0 /\ Len(s) \in Nat
  BY DEF EntriesBounds
<1>2. Len(s) % Width \in Int /\ Len(s) % Width <= Len(s)
  BY <1>1
<1>3. Len(s) < Width => Len(s) % Width = Len(s)
  BY <1>1
<1> QED
  BY <1>1, <1>2, <1>3 DEF Looked

\* A set of numbers that is not empty has a least one.
LEMMA LeastPlace ==
  ASSUME NEW S \in SUBSET Nat, S # {}
  PROVE  \E x \in S : \A y \in S : x <= y
<1>1. PICK x \in S : \A y \in S : ~(<<y, x>> \in OpToRel(<, Nat))
  BY NatLessThanWellFounded, WFMin
<1>2. \A y \in S : ~(y < x)
  BY <1>1 DEF OpToRel
<1> QED
  BY <1>2

\* The first place that matches is one that matches.
LEMMA FirstHitIs ==
  ASSUME EntriesBounds, NEW S, NEW s \in Seq(S), NEW item, Hits(s, item) # {}
  PROVE  FirstHit(s, item) \in 1 .. Len(s) /\ Matches(s[FirstHit(s, item)], item)
<1>1. Hits(s, item) \subseteq 1 .. Len(s)
  BY LookedIs DEF Hits
<1>2. Hits(s, item) \in SUBSET Nat
  BY <1>1
<1>3. \E x \in Hits(s, item) : \A y \in Hits(s, item) : x <= y
  BY <1>2, LeastPlace
<1>4. FirstHit(s, item) \in Hits(s, item)
  BY <1>3 DEF FirstHit
<1> QED
  BY <1>1, <1>4 DEF Hits

\* Erasing the element at a place moves those behind it one place forward.
Skip(i, j) == IF j < i THEN j ELSE j + 1

LEMMA RemoveAtIs ==
  ASSUME NEW S, NEW s \in Seq(S), NEW i \in 1 .. Len(s)
  PROVE  /\ RemoveAt(s, i) \in Seq(S)
         /\ Len(RemoveAt(s, i)) = Len(s) - 1
         /\ \A j \in 1 .. Len(s) - 1 : RemoveAt(s, i)[j] = s[Skip(i, j)]
<1> DEFINE a == SubSeq(s, 1, i - 1)
           b == SubSeq(s, i + 1, Len(s))
<1>0. Len(s) \in Nat /\ i \in Int /\ i - 1 \in Int /\ i + 1 \in Int
  OBVIOUS
<1>1. \A j \in 1 .. Len(s) : s[j] \in S
  OBVIOUS
<1>2. /\ a \in Seq(S) /\ Len(a) = i - 1
      /\ \A j \in 1 .. i - 1 : a[j] = s[j]
  BY <1>0, <1>1, SubSeqProperties
<1>3. /\ b \in Seq(S) /\ Len(b) = Len(s) - i
      /\ \A j \in 1 .. Len(s) - i : b[j] = s[i + j]
  <2>1. \A j \in i + 1 .. Len(s) : s[j] \in S
    BY <1>0, <1>1
  <2>2. /\ b \in Seq(S)
        /\ Len(b) = IF i + 1 <= Len(s) THEN Len(s) - (i + 1) + 1 ELSE 0
        /\ \A j \in 1 .. Len(s) - (i + 1) + 1 : b[j] = s[(i + 1) + j - 1]
    BY <1>0, <2>1, SubSeqProperties
  <2> HIDE DEF b
  <2>3. ASSUME NEW j \in 1 .. Len(s) - i PROVE b[j] = s[i + j]
    <3>1. j \in 1 .. Len(s) - (i + 1) + 1 /\ (i + 1) + j - 1 = i + j
      BY <1>0
    <3> QED
      BY <2>2, <3>1
  <2>4. Len(b) = Len(s) - i
    BY <1>0, <2>2
  <2> QED
    BY <2>2, <2>3, <2>4
<1>4. RemoveAt(s, i) = a \o b
  BY DEF RemoveAt
<1> HIDE DEF a, b
<1>5. /\ a \o b \in Seq(S) /\ Len(a \o b) = Len(s) - 1
      /\ \A j \in 1 .. Len(s) - 1 : (a \o b)[j] = IF j <= i - 1 THEN a[j] ELSE b[j - (i - 1)]
  <2>1. /\ a \o b \in Seq(S) /\ Len(a \o b) = Len(a) + Len(b)
        /\ \A j \in 1 .. Len(a) + Len(b) : (a \o b)[j] = IF j <= Len(a) THEN a[j] ELSE b[j - Len(a)]
    BY <1>2, <1>3, ConcatProperties
  <2>2. Len(a) + Len(b) = Len(s) - 1
    BY <1>0, <1>2, <1>3
  <2> QED
    BY <1>2, <2>1, <2>2
<1>6. ASSUME NEW j \in 1 .. Len(s) - 1 PROVE (a \o b)[j] = s[Skip(i, j)]
  <2>1. CASE j < i
    <3>1. j <= i - 1 /\ j \in 1 .. i - 1
      BY <1>0, <2>1
    <3> QED
      BY <1>2, <1>5, <2>1, <3>1 DEF Skip
  <2>2. CASE ~(j < i)
    <3>1. ~(j <= i - 1) /\ j - (i - 1) \in 1 .. Len(s) - i /\ i + (j - (i - 1)) = j + 1
      BY <1>0, <2>2
    <3> QED
      BY <1>3, <1>5, <2>2, <3>1 DEF Skip
  <2> QED
    BY <2>1, <2>2
<1> QED
  BY <1>4, <1>5, <1>6

-----------------------------------------------------------------------------
(* The invariant of the loop *)

\* The number of items that the loop has looked at; the request is what follows.
Done == Len(asked) - Len(request)
RequestOK ==
  /\ before \in Seq(IndexEntry) /\ asked \in Seq(RequestItem) /\ Len(asked) < Width
  /\ Done \in 0 .. Len(asked)
  /\ \A n \in 1 .. Len(request) : request[n] = asked[Done + n]
  /\ request # << >> => answer = NoAnswer

\* The record has at most one item for every item looked at, and only such items;
\* there is one only if an entry has a time, and one that erased an entry is missing
\* only if an entry has none.
RecordOK ==
  /\ Len(deleted) <= Done
  /\ \A i \in DOMAIN deleted : \E n \in 1 .. Done : deleted[i] = asked[n]
  /\ deleted # << >> => \E k \in DOMAIN before : before[k].time > 0
  /\ Plain => \A k \in DOMAIN before : Named(before[k], Processed) =>
       \/ \E i \in DOMAIN deleted : Matches(before[k], deleted[i])
       \/ \E m \in DOMAIN before : before[m].time <= 0

EraseInv ==
  /\ EraseTypeOK /\ RequestOK
  /\ OthersKept /\ NamedErased /\ ErasedRecorded /\ RecordOK /\ RecordSearched

\* The loop compares what makes an item the one that names the entry.
LEMMA MatchesIs ==
  ASSUME NEW entry, NEW item \in RequestItem
  PROVE  Matches(entry, item) <=> item = ItemFor(entry)
<1>1. item = [key |-> item.key, da |-> item.da]
  BY DEF RequestItem
<1> QED
  BY <1>1 DEF Matches, ItemFor

\* Being named by a part of the request, place by place.
LEMMA NamedBy ==
  ASSUME NEW items \in Seq(RequestItem), NEW n \in 0 .. Len(items), NEW entry
  PROVE  Named(entry, SubSeq(items, 1, n)) <=> \E m \in 1 .. n : Matches(entry, items[m])
<1> DEFINE part == SubSeq(items, 1, n)
<1>1. n \in Int /\ 0 <= n /\ \A m \in 1 .. n : items[m] \in RequestItem
  OBVIOUS
<1>2. /\ part \in Seq(RequestItem)
      /\ Len(part) = IF 1 <= n THEN n - 1 + 1 ELSE 0
      /\ \A m \in 1 .. n - 1 + 1 : part[m] = items[1 + m - 1]
  BY <1>1, SubSeqProperties
<1> HIDE DEF part
<1>3. n - 1 + 1 = n /\ \A m \in 1 .. n : 1 + m - 1 = m
  BY <1>1
<1>4. Len(part) = n
  BY <1>1, <1>2
<1>5. DOMAIN part = 1 .. n /\ \A m \in 1 .. n : part[m] = items[m]
  BY <1>2, <1>3, <1>4
<1>6. Named(entry, part) <=> \E m \in 1 .. n : items[m] = ItemFor(entry)
  BY <1>5 DEF Named, Range
<1>7. \A m \in 1 .. n : items[m] = ItemFor(entry) <=> Matches(entry, items[m])
  BY <1>1, MatchesIs
<1> QED
  BY <1>6, <1>7 DEF part

LEMMA NamedIs ==
  ASSUME RequestOK, NEW entry
  PROVE  Named(entry, Processed) <=> \E n \in 1 .. Done : Matches(entry, asked[n])
<1>1. Processed = SubSeq(asked, 1, Done)
  BY DEF Processed, Done
<1> QED
  BY <1>1, NamedBy DEF RequestOK

\* One round of the loop looks at one more item, and at nothing else.
LEMMA RequestStep ==
  ASSUME EraseTypeOK, RequestOK, EraseItem
  PROVE  /\ RequestOK'
         /\ Head(request) \in RequestItem
         /\ Done' = Done + 1 /\ asked' = asked /\ before' = before
         /\ asked[Done + 1] = Head(request)
<1>1. /\ request \in Seq(RequestItem) /\ request # << >> /\ request' = Tail(request)
      /\ answer' = answer /\ before' = before /\ asked' = asked
  BY DEF EraseTypeOK, EraseItem
<1>2. /\ Head(request) \in RequestItem /\ Tail(request) \in Seq(RequestItem)
      /\ Len(Tail(request)) = Len(request) - 1
      /\ \A n \in 1 .. Len(Tail(request)) : Tail(request)[n] = request[n + 1]
  BY <1>1, HeadTailProperties
<1>3. Len(request) \in Nat /\ Len(asked) \in Nat /\ Len(request) >= 1
  BY <1>1 DEF RequestOK
<1>4. Done' = Done + 1 /\ Done \in Int
  BY <1>1, <1>2, <1>3 DEF Done
<1>5. Done + 1 <= Len(asked) /\ 0 <= Done
  BY <1>3 DEF RequestOK, Done
<1>6. Head(request) = asked[Done + 1]
  <2>1. Head(request) = request[1] /\ 1 \in 1 .. Len(request)
    BY <1>1, <1>3
  <2> QED
    BY <2>1 DEF RequestOK
<1>7. ASSUME NEW n \in 1 .. Len(request')
      PROVE  request'[n] = asked'[Done' + n]
  <2>1. n \in 1 .. Len(Tail(request)) /\ n + 1 \in 1 .. Len(request)
    BY <1>1, <1>2, <1>3
  <2>2. request'[n] = request[n + 1]
    BY <1>1, <1>2, <2>1
  <2>3. request[n + 1] = asked[Done + (n + 1)]
    BY <2>1 DEF RequestOK
  <2>4. Done + (n + 1) = Done' + n
    BY <1>4
  <2> QED
    BY <1>1, <2>2, <2>3, <2>4
<1>8. Done' \in 0 .. Len(asked')
  BY <1>1, <1>3, <1>4, <1>5
<1>9. RequestOK'
  BY <1>1, <1>7, <1>8 DEF RequestOK
<1> QED
  BY <1>1, <1>2, <1>4, <1>6, <1>9

LEMMA NamedStep ==
  ASSUME EraseTypeOK, RequestOK, EraseItem, NEW entry
  PROVE  Named(entry, Processed') <=> Named(entry, Processed) \/ Matches(entry, Head(request))
<1>1. /\ RequestOK' /\ Done' = Done + 1 /\ asked' = asked
      /\ asked[Done + 1] = Head(request)
  BY RequestStep
<1>2. Done \in Nat
  BY DEF RequestOK
<1>3. Named(entry, Processed) <=> \E n \in 1 .. Done : Matches(entry, asked[n])
  BY NamedIs
<1>4. Named(entry, Processed') <=> \E n \in 1 .. Done' : Matches(entry, asked'[n])
  <2>1. Processed' = SubSeq(asked', 1, Done')
    BY DEF Processed, Done
  <2>2. asked' \in Seq(RequestItem) /\ Done' \in 0 .. Len(asked')
    BY <1>1 DEF RequestOK
  <2> QED
    BY <2>1, <2>2, NamedBy
<1>5. 1 .. Done + 1 = (1 .. Done) \cup {Done + 1}
  BY <1>2
<1> QED
  BY <1>1, <1>3, <1>4, <1>5

\* A round finds no entry, or erases the one at a place i that the item names and
\* reports the time of the entry at a place k.
Missed ==
  Hits(data, Head(request)) = {} /\ data' = data /\ nump' = nump /\ deleted' = deleted

ErasedAt(i, k) ==
  /\ Matches(data[i], Head(request))
  /\ data' \in Seq(IndexEntry) /\ Len(data') = Len(data) - 1 /\ nump' = Len(data')
  /\ \A j \in 1 .. Len(data) - 1 : data'[j] = data[Skip(i, j)]
  /\ deleted' = IF data[k].time > 0 THEN Append(deleted, Head(request)) ELSE deleted

LEMMA RoundIs ==
  ASSUME EntriesBounds, EraseTypeOK, EraseItem
  PROVE  Missed \/ \E i, k \in 1 .. Len(data) : ErasedAt(i, k)
<1> DEFINE item == Head(request)
           i == FirstHit(data, item)
<1>1. CASE Hits(data, item) = {}
  <2>1. data' = data /\ nump' = nump
    BY <1>1 DEF EraseItem, erase_entry
  <2>2. deleted' = deleted
    BY <1>1 DEF EraseItem, erase_result
  <2> QED
    BY <1>1, <2>1, <2>2 DEF Missed
<1>2. CASE Hits(data, item) # {}
  <2>1. data \in Seq(IndexEntry) /\ Len(data) \in Nat
    BY DEF EraseTypeOK
  <2>2. i \in 1 .. Len(data) /\ Matches(data[i], item)
    BY <1>2, <2>1, FirstHitIs
  <2>3. data' = RemoveAt(data, i) /\ nump' = Len(data')
    BY <1>2 DEF EraseItem, erase_entry
  <2>4. PICK k \in 1 .. Len(data) : erase_result(data, item) = data[k].time
    <3>1. CASE i < Len(data)
      BY <1>2, <2>1, <2>2, <3>1 DEF erase_result
    <3>2. CASE ~(i < Len(data))
      BY <1>2, <2>2, <3>2 DEF erase_result
    <3> QED
      BY <3>1, <3>2
  <2>5. deleted' = IF data[k].time > 0 THEN Append(deleted, Head(request)) ELSE deleted
    BY <2>4 DEF EraseItem
  <2> HIDE DEF i
  <2>6. /\ data' \in Seq(IndexEntry) /\ Len(data') = Len(data) - 1
        /\ \A j \in 1 .. Len(data) - 1 : data'[j] = data[Skip(i, j)]
    BY <2>1, <2>2, <2>3, RemoveAtIs
  <2>7. ErasedAt(i, k)
    BY <2>2, <2>3, <2>5, <2>6 DEF ErasedAt
  <2> QED
    BY <2>2, <2>7
<1> QED
  BY <1>1, <1>2

LEMMA EraseTypeStep ==
  ASSUME EntriesBounds, EraseTypeOK, EraseItem
  PROVE  EraseTypeOK'
<1>1. request' \in Seq(RequestItem) /\ Head(request) \in RequestItem
  BY HeadTailProperties DEF EraseTypeOK, EraseItem
<1>2. CASE Missed
  BY <1>1, <1>2 DEF EraseTypeOK, Missed
<1>3. ASSUME NEW i \in 1 .. Len(data), NEW k \in 1 .. Len(data), ErasedAt(i, k)
      PROVE  EraseTypeOK'
  <2>1. Append(deleted, Head(request)) \in Seq(RequestItem) /\ deleted \in Seq(RequestItem)
    BY <1>1 DEF EraseTypeOK
  <2>2. deleted' \in Seq(RequestItem)
    BY <1>3, <2>1 DEF ErasedAt
  <2> QED
    BY <1>1, <1>3, <2>2 DEF EraseTypeOK, ErasedAt
<1> QED
  BY <1>2, <1>3, RoundIs

\* The places of the entries that are left are those of the entries that were left
\* before the round but for one, whose entry the item names.
LEMMA OthersKeptStep ==
  ASSUME EntriesBounds, EraseTypeOK, RequestOK, OthersKept, EraseItem
  PROVE  OthersKept'
<1>1. before' = before
  BY RequestStep
<1>2. PICK place \in [DOMAIN data -> DOMAIN before] :
        /\ \A i, j \in DOMAIN data : i < j => place[i] < place[j]
        /\ \A i \in DOMAIN data : data[i] = before[place[i]]
        /\ \A k \in DOMAIN before \ Range(place) : Named(before[k], Processed)
  BY DEF OthersKept
<1>3. ASSUME NEW entry
      PROVE  Named(entry, Processed') <=> Named(entry, Processed) \/ Matches(entry, Head(request))
  BY NamedStep
<1>4. CASE Missed
  <2>1. data' = data
    BY <1>4 DEF Missed
  <2>2. \A k \in DOMAIN before \ Range(place) : Named(before[k], Processed')
    BY <1>2, <1>3
  <2> QED
    BY <1>1, <1>2, <2>1, <2>2 DEF OthersKept
<1>5. ASSUME NEW i \in 1 .. Len(data), NEW k \in 1 .. Len(data), ErasedAt(i, k)
      PROVE  OthersKept'
  <2> DEFINE new == [j \in DOMAIN data' |-> place[Skip(i, j)]]
  <2>1. /\ data \in Seq(IndexEntry) /\ Len(data) \in Nat /\ DOMAIN data = 1 .. Len(data)
        /\ before \in Seq(IndexEntry) /\ DOMAIN before = 1 .. Len(before)
    BY DEF EraseTypeOK, RequestOK
  <2>2. DOMAIN data' = 1 .. Len(data) - 1
    BY <1>5, <2>1 DEF ErasedAt
  <2>3. \A j \in DOMAIN data' : Skip(i, j) \in DOMAIN data \ {i}
    BY <2>1, <2>2 DEF Skip
  <2>4. \A j, m \in DOMAIN data' : j < m => Skip(i, j) < Skip(i, m)
    BY <2>1, <2>2 DEF Skip
  <2>5. new \in [DOMAIN data' -> DOMAIN before]
    BY <2>3
  <2>6. \A j, m \in DOMAIN data' : j < m => new[j] < new[m]
    BY <1>2, <2>3, <2>4
  <2>7. \A j \in DOMAIN data' : data'[j] = before[new[j]]
    BY <1>2, <1>5, <2>2, <2>3 DEF ErasedAt
  <2>8. ASSUME NEW m \in DOMAIN data, m # i
        PROVE  \E j \in DOMAIN data' : Skip(i, j) = m
    <3>1. CASE m < i
      BY <2>1, <2>2, <3>1 DEF Skip
    <3>2. CASE ~(m < i)
      <4>1. m - 1 \in DOMAIN data' /\ Skip(i, m - 1) = m
        BY <2>1, <2>2, <2>8, <3>2 DEF Skip
      <4> QED
        BY <4>1
    <3> QED
      BY <3>1, <3>2
  <2>9. ASSUME NEW h \in DOMAIN before \ Range(new)
        PROVE  Named(before[h], Processed')
    <3>1. CASE h \notin Range(place)
      BY <1>2, <1>3, <3>1
    <3>2. CASE h \in Range(place)
      <4>1. PICK m \in DOMAIN data : h = place[m]
        BY <1>2, <3>2 DEF Range
      <4>2. m = i
        <5>1. SUFFICES ASSUME m # i PROVE FALSE
          OBVIOUS
        <5>2. PICK j \in DOMAIN data' : Skip(i, j) = m
          BY <2>8, <5>1
        <5>3. new[j] = h /\ j \in DOMAIN new
          BY <4>1, <5>2
        <5> QED
          BY <2>9, <5>3 DEF Range
      <4>3. Matches(before[h], Head(request))
        BY <1>2, <1>5, <4>1, <4>2 DEF ErasedAt
      <4> QED
        BY <1>3, <4>3
    <3> QED
      BY <3>1, <3>2
  <2> HIDE DEF new
  <2> QED
    BY <1>1, <2>5, <2>6, <2>7, <2>9 DEF OthersKept
<1> QED
  BY <1>4, <1>5, RoundIs

\* What is left is of the packet, what no item names is left, and no entry is there
\* twice if none was.
LEMMA KeptIs ==
  ASSUME EraseTypeOK, RequestOK, OthersKept
  PROVE  /\ \A i \in DOMAIN data : \E k \in DOMAIN before : data[i] = before[k]
         /\ \A k \in DOMAIN before : ~Named(before[k], Processed) =>
              \E i \in DOMAIN data : data[i] = before[k]
         /\ Plain => \A i, j \in DOMAIN data :
              data[i].key = data[j].key /\ data[i].dv = data[j].dv => i = j
<1>1. PICK place \in [DOMAIN data -> DOMAIN before] :
        /\ \A i, j \in DOMAIN data : i < j => place[i] < place[j]
        /\ \A i \in DOMAIN data : data[i] = before[place[i]]
        /\ \A k \in DOMAIN before \ Range(place) : Named(before[k], Processed)
  BY DEF OthersKept
<1>2. DOMAIN data \subseteq Int /\ DOMAIN before \subseteq Int
  BY DEF EraseTypeOK, RequestOK
<1>3. ASSUME NEW k \in DOMAIN before, ~Named(before[k], Processed)
      PROVE  \E i \in DOMAIN data : data[i] = before[k]
  <2>1. k \in Range(place)
    BY <1>1, <1>3
  <2>2. PICK i \in DOMAIN data : k = place[i]
    BY <1>1, <2>1 DEF Range
  <2> QED
    BY <1>1, <2>2
<1>4. ASSUME Plain, NEW i \in DOMAIN data, NEW j \in DOMAIN data,
             data[i].key = data[j].key, data[i].dv = data[j].dv
      PROVE  i = j
  <2>1. place[i] = place[j] /\ place[i] \in Int
    BY <1>1, <1>2, <1>4 DEF Plain
  <2> QED
    BY <1>1, <1>2, <2>1
<1> QED
  BY <1>1, <1>3, <1>4

\* With fewer entries than values of the counter a round that finds nothing has
\* looked at all of them.
LEMMA LookedAtAll ==
  ASSUME EntriesBounds, EraseTypeOK, RequestOK, ErasedRecorded, Plain
  PROVE  Looked(data) = 1 .. Len(data) /\ DOMAIN data = 1 .. Len(data)
<1>1. /\ data \in Seq(IndexEntry) /\ Len(data) \in Nat
      /\ Len(deleted) \in Nat /\ Len(before) \in Nat /\ Width \in Nat
  BY DEF EntriesBounds, EraseTypeOK, RequestOK
<1>2. Len(data) < Width
  BY <1>1 DEF ErasedRecorded, Plain
<1> QED
  BY <1>1, <1>2, LookedIs

LEMMA NamedErasedStep ==
  ASSUME EntriesBounds, EraseTypeOK, RequestOK, OthersKept, ErasedRecorded, NamedErased, EraseItem
  PROVE  NamedErased'
<1> SUFFICES ASSUME Plain', NEW j \in DOMAIN data', Named(data'[j], Processed')
             PROVE  FALSE
  BY DEF NamedErased
<1>1. Plain
  BY RequestStep DEF Plain
<1>2. \A i \in DOMAIN data : ~Named(data[i], Processed)
  BY <1>1 DEF NamedErased
<1>3. ASSUME NEW entry
      PROVE  Named(entry, Processed') <=> Named(entry, Processed) \/ Matches(entry, Head(request))
  BY NamedStep
<1>4. CASE Missed
  <2>1. j \in Looked(data) /\ j \in DOMAIN data /\ data' = data
    BY <1>1, <1>4, LookedAtAll DEF Missed
  <2>2. Matches(data[j], Head(request))
    BY <1>2, <1>3, <2>1
  <2> QED
    BY <1>4, <2>1, <2>2 DEF Missed, Hits
<1>5. ASSUME NEW i \in 1 .. Len(data), NEW k \in 1 .. Len(data), ErasedAt(i, k)
      PROVE  FALSE
  <2>1. data \in Seq(IndexEntry) /\ Len(data) \in Nat /\ DOMAIN data = 1 .. Len(data)
    BY DEF EraseTypeOK
  <2>2. j \in 1 .. Len(data) - 1
    BY <1>5, <2>1 DEF ErasedAt
  <2>3. Skip(i, j) \in DOMAIN data /\ Skip(i, j) # i
    BY <2>1, <2>2 DEF Skip
  <2>4. data'[j] = data[Skip(i, j)]
    BY <1>5, <2>2 DEF ErasedAt
  <2>5. Matches(data[Skip(i, j)], Head(request))
    BY <1>2, <1>3, <2>3, <2>4
  <2>6. Matches(data[i], Head(request)) /\ i \in DOMAIN data
    BY <1>5, <2>1 DEF ErasedAt
  <2>7. data[i].key = data[Skip(i, j)].key /\ data[i].dv = data[Skip(i, j)].dv
    BY <2>5, <2>6 DEF Matches
  <2> QED
    BY <1>1, <2>3, <2>6, <2>7, KeptIs
<1> QED
  BY <1>4, <1>5, RoundIs

\* Every round that makes the packet shorter makes the record longer by one item at
\* the most, and by one if the entry it reports has a time.
LEMMA ErasedRecordedStep ==
  ASSUME EntriesBounds, EraseTypeOK, RequestOK, OthersKept, ErasedRecorded, EraseItem
  PROVE  ErasedRecorded'
<1>1. before' = before /\ Head(request) \in RequestItem
  BY RequestStep
<1>2. CASE Missed
  BY <1>1, <1>2 DEF Missed, ErasedRecorded
<1>3. ASSUME NEW i \in 1 .. Len(data), NEW k \in 1 .. Len(data), ErasedAt(i, k)
      PROVE  ErasedRecorded'
  <2>1. /\ data \in Seq(IndexEntry) /\ Len(data) \in Nat /\ DOMAIN data = 1 .. Len(data)
        /\ deleted \in Seq(RequestItem) /\ Len(deleted) \in Nat
        /\ DOMAIN deleted = 1 .. Len(deleted)
        /\ Len(before) \in Nat
    BY DEF EraseTypeOK, RequestOK
  <2>2. Len(data') = Len(data) - 1
    BY <1>3 DEF ErasedAt
  <2>3. PICK b \in DOMAIN before : data[k] = before[b]
    BY <2>1, KeptIs
  <2>4. PICK c \in DOMAIN before : data[i] = before[c]
    BY <2>1, KeptIs
  <2>5. CASE data[k].time > 0
    <3>1. deleted' = Append(deleted, Head(request))
      BY <1>3, <2>5 DEF ErasedAt
    <3>2. /\ Len(deleted') = Len(deleted) + 1 /\ DOMAIN deleted' = 1 .. Len(deleted) + 1
          /\ \A m \in 1 .. Len(deleted) : deleted'[m] = deleted[m]
          /\ deleted'[Len(deleted) + 1] = Head(request)
      BY <1>1, <2>1, <3>1
    <3>3. ASSUME NEW m \in DOMAIN deleted'
          PROVE  \E h \in DOMAIN before : deleted'[m] = ItemFor(before[h])
      <4>1. CASE m \in 1 .. Len(deleted)
        BY <2>1, <3>2, <4>1 DEF ErasedRecorded
      <4>2. CASE m = Len(deleted) + 1
        BY <1>1, <1>3, <2>4, <3>2, <4>2, MatchesIs DEF ErasedAt
      <4> QED
        BY <2>1, <3>2, <4>1, <4>2
    <3>4. Len(deleted') + Len(data') = Len(deleted) + Len(data)
      BY <2>1, <2>2, <3>2
    <3> QED
      BY <1>1, <3>3, <3>4 DEF ErasedRecorded
  <2>6. CASE ~(data[k].time > 0)
    <3>1. deleted' = deleted
      BY <1>3, <2>6 DEF ErasedAt
    <3>2. Len(deleted') + Len(data') <= Len(before')
      BY <1>1, <2>1, <2>2, <3>1 DEF ErasedRecorded
    <3>3. ~\A h \in DOMAIN before : before[h].time > 0
      BY <2>3, <2>6
    <3> QED
      BY <1>1, <3>1, <3>2, <3>3 DEF ErasedRecorded
  <2> QED
    BY <2>5, <2>6
<1> QED
  BY <1>2, <1>3, RoundIs

LEMMA RecordStep ==
  ASSUME EntriesBounds, EraseTypeOK, RequestOK, OthersKept, ErasedRecorded, RecordOK, EraseItem
  PROVE  RecordOK'
<1>1. /\ before' = before /\ asked' = asked /\ Done' = Done + 1
      /\ Head(request) \in RequestItem /\ asked[Done + 1] = Head(request)
  BY RequestStep
<1>2. Done \in Nat
  BY DEF RequestOK
<1>3. ASSUME NEW entry
      PROVE  Named(entry, Processed') <=> Named(entry, Processed) \/ Matches(entry, Head(request))
  BY NamedStep
<1>4. 1 .. Done \subseteq 1 .. Done' /\ Done + 1 \in 1 .. Done'
  BY <1>1, <1>2
<1>5. \A m \in DOMAIN deleted : \E n \in 1 .. Done' : deleted[m] = asked'[n]
  BY <1>1, <1>4 DEF RecordOK
<1>6. Len(deleted) <= Done'
  BY <1>1, <1>2 DEF RecordOK, EraseTypeOK
<1>7. CASE Missed
  <2>1. deleted' = deleted
    BY <1>7 DEF Missed
  <2>2. ASSUME Plain, NEW h \in DOMAIN before, Matches(before[h], Head(request))
        PROVE  Named(before[h], Processed)
    <3>1. SUFFICES ASSUME ~Named(before[h], Processed) PROVE FALSE
      OBVIOUS
    <3>2. PICK m \in DOMAIN data : data[m] = before[h]
      BY <3>1, KeptIs
    <3>3. m \in Looked(data)
      BY <2>2, LookedAtAll
    <3> QED
      BY <1>7, <2>2, <3>2, <3>3 DEF Missed, Hits
  <2>3. Plain' => Plain
    BY <1>1 DEF Plain
  <2>4. ASSUME Plain, NEW h \in DOMAIN before, Named(before[h], Processed')
        PROVE  \/ \E m \in DOMAIN deleted : Matches(before[h], deleted[m])
               \/ \E m \in DOMAIN before : before[m].time <= 0
    BY <1>3, <2>2, <2>4 DEF RecordOK
  <2>5. deleted' # << >> => \E h \in DOMAIN before' : before'[h].time > 0
    BY <1>1, <2>1 DEF RecordOK
  <2> QED
    BY <1>1, <1>5, <1>6, <2>1, <2>3, <2>4, <2>5 DEF RecordOK
<1>8. ASSUME NEW i \in 1 .. Len(data), NEW k \in 1 .. Len(data), ErasedAt(i, k)
      PROVE  RecordOK'
  <2>1. /\ data \in Seq(IndexEntry) /\ DOMAIN data = 1 .. Len(data)
        /\ deleted \in Seq(RequestItem) /\ Len(deleted) \in Nat
        /\ DOMAIN deleted = 1 .. Len(deleted)
    BY DEF EraseTypeOK
  <2>2. PICK b \in DOMAIN before : data[k] = before[b]
    BY <2>1, KeptIs
  <2>3. CASE data[k].time > 0
    <3>1. deleted' = Append(deleted, Head(request))
      BY <1>8, <2>3 DEF ErasedAt
    <3>2. /\ DOMAIN deleted' = (DOMAIN deleted) \cup {Len(deleted) + 1}
          /\ \A m \in DOMAIN deleted : deleted'[m] = deleted[m]
          /\ deleted'[Len(deleted) + 1] = Head(request)
      BY <1>1, <2>1, <3>1
    <3>3. \A m \in DOMAIN deleted' : \E n \in 1 .. Done' : deleted'[m] = asked'[n]
      BY <1>1, <1>4, <1>5, <3>2
    <3>4. Len(deleted') <= Done'
      <4>1. Len(deleted') = Len(deleted) + 1
        BY <1>1, <2>1, <3>1
      <4> QED
        BY <1>1, <1>2, <2>1, <4>1 DEF RecordOK
    <3>5. \E h \in DOMAIN before' : before'[h].time > 0
      BY <1>1, <2>2, <2>3
    <3>6. ASSUME Plain, NEW h \in DOMAIN before, Named(before[h], Processed')
          PROVE  \/ \E m \in DOMAIN deleted' : Matches(before[h], deleted'[m])
                 \/ \E m \in DOMAIN before : before[m].time <= 0
      <4>1. CASE Named(before[h], Processed)
        BY <3>2, <3>6, <4>1 DEF RecordOK
      <4>2. CASE Matches(before[h], Head(request))
        BY <3>2, <4>2
      <4> QED
        BY <1>3, <3>6, <4>1, <4>2
    <3>7. Plain' => Plain
      BY <1>1 DEF Plain
    <3> QED
      BY <1>1, <3>3, <3>5, <3>6, <3>7, <3>4 DEF RecordOK
  <2>4. CASE ~(data[k].time > 0)
    <3>1. deleted' = deleted
      BY <1>8, <2>4 DEF ErasedAt
    <3>2. before[b].time <= 0
      <4>1. data[k] \in IndexEntry
        BY <2>1
      <4>2. data[k].time \in Int
        BY <4>1 DEF EntriesBounds, IndexEntry
      <4> QED
        BY <2>2, <2>4, <4>2
    <3>3. deleted' # << >> => \E h \in DOMAIN before' : before'[h].time > 0
      BY <1>1, <3>1 DEF RecordOK
    <3> QED
      BY <1>1, <1>5, <1>6, <3>1, <3>2, <3>3 DEF RecordOK
  <2> QED
    BY <2>3, <2>4
<1> QED
  BY <1>7, <1>8, RoundIs

\* A search answers what the loop over the record finds.
LEMMA SearchStep ==
  ASSUME EntriesBounds, EraseTypeOK, RequestOK, RecordOK, NEW item \in RequestItem, Search(item)
  PROVE  RecordSearched'
<1>1. deleted' = deleted /\ answer' = [item |-> item, exist |-> item_exist(deleted, item)]
  BY DEF Search
<1>2. deleted \in Seq(RequestItem) /\ DOMAIN deleted = 1 .. Len(deleted)
  BY DEF EraseTypeOK
<1>3. Len(deleted) < Width
  <2>1. Len(deleted) \in Nat /\ Done \in Int /\ Len(asked) \in Nat /\ Width \in Nat
    BY <1>2 DEF EntriesBounds, RequestOK
  <2>2. Len(deleted) <= Done /\ Done <= Len(asked) /\ Len(asked) < Width
    BY DEF RecordOK, RequestOK
  <2> QED
    BY <2>1, <2>2
<1>4. Looked(deleted) = DOMAIN deleted
  BY <1>2, <1>3, LookedIs
<1>5. item_exist(deleted, item) <=> item \in Range(deleted)
  BY <1>4 DEF item_exist, Range
<1>6. answer'.item = item /\ answer'.exist = item_exist(deleted, item)
  BY <1>1
<1> QED
  BY <1>1, <1>5, <1>6 DEF RecordSearched

LEMMA EraseInvInit ==
  ASSUME EntriesBounds
  PROVE  EraseInit => EraseInv
<1> SUFFICES ASSUME EraseInit PROVE EraseInv
  OBVIOUS
<1>1. /\ data \in Seq(IndexEntry) /\ before = data
      /\ request \in Seq(RequestItem) /\ asked = request /\ Len(request) <= MaxItems
  <2>1. ASSUME NEW S, NEW n \in Nat, NEW s \in BoundedSeq(S, n)
        PROVE  s \in Seq(S) /\ Len(s) <= n
    <3>1. PICK m \in 0 .. n : s \in [1 .. m -> S]
      BY DEF BoundedSeq, SeqOf
    <3>2. s \in Seq(S) /\ Len(s) = m
      BY <3>1
    <3> QED
      BY <3>2
  <2>2. MaxLen \in Nat /\ MaxItems \in Nat
    BY DEF EntriesBounds
  <2> QED
    BY <2>1, <2>2 DEF EraseInit
<1>2. nump = Len(data) /\ deleted = << >> /\ answer = NoAnswer
  BY DEF EraseInit
<1>3. EraseTypeOK
  BY <1>1, <1>2 DEF EraseTypeOK
<1>4. Done = 0 /\ Len(asked) \in Nat /\ Len(asked) < Width
  BY <1>1 DEF EntriesBounds, Done
<1>5. RequestOK
  BY <1>1, <1>2, <1>4 DEF RequestOK
<1>6. \A entry : ~Named(entry, Processed)
  BY <1>4, <1>5, NamedIs
<1>7. OthersKept
  <2> DEFINE place == [i \in DOMAIN data |-> i]
  <2>1. place \in [DOMAIN data -> DOMAIN before] /\ Range(place) = DOMAIN before
    BY <1>1 DEF Range
  <2>2. \A i, j \in DOMAIN data : i < j => place[i] < place[j]
    OBVIOUS
  <2>3. \A i \in DOMAIN data : data[i] = before[place[i]]
    BY <1>1
  <2> HIDE DEF place
  <2> QED
    BY <2>1, <2>2, <2>3 DEF OthersKept
<1>8. NamedErased
  BY <1>6 DEF NamedErased
<1>9. ErasedRecorded
  BY <1>1, <1>2 DEF ErasedRecorded
<1>10. RecordOK
  BY <1>2, <1>4, <1>6 DEF RecordOK
<1>11. RecordSearched
  BY <1>2 DEF RecordSearched
<1> QED
  BY <1>3, <1>5, <1>7, <1>8, <1>9, <1>10, <1>11 DEF EraseInv

LEMMA EraseInvStep ==
  ASSUME EntriesBounds
  PROVE  EraseInv /\ [EraseNext]_eraseVars => EraseInv'
<1> SUFFICES ASSUME EraseInv, [EraseNext]_eraseVars PROVE EraseInv'
  OBVIOUS
<1>1. /\ EraseTypeOK /\ RequestOK
      /\ OthersKept /\ NamedErased /\ ErasedRecorded /\ RecordOK /\ RecordSearched
  BY DEF EraseInv
<1>2. CASE EraseItem
  <2>1. answer' = NoAnswer
    BY <1>1, <1>2 DEF RequestOK, EraseItem
  <2>2. RecordSearched'
    BY <2>1 DEF RecordSearched, NoAnswer
  <2> QED
    BY <1>1, <1>2, <2>2, EraseTypeStep, RequestStep, OthersKeptStep, NamedErasedStep,
       ErasedRecordedStep, RecordStep DEF EraseInv
<1>3. ASSUME NEW item \in RequestItem, Search(item)
      PROVE  EraseInv'
  <2>1. /\ request = << >>
        /\ data' = data /\ nump' = nump /\ request' = request /\ deleted' = deleted
        /\ before' = before /\ asked' = asked
    BY <1>3 DEF Search
  <2>2. Plain' = Plain /\ Done' = Done /\ Processed' = Processed
    BY <2>1 DEF Plain, Done, Processed
  <2>3. EraseTypeOK'
    BY <1>1, <2>1 DEF EraseTypeOK
  <2>4. RequestOK'
    BY <1>1, <2>1, <2>2 DEF RequestOK
  <2>5. OthersKept'
    BY <1>1, <2>1, <2>2 DEF OthersKept
  <2>6. NamedErased'
    BY <1>1, <2>1, <2>2 DEF NamedErased
  <2>7. ErasedRecorded'
    BY <1>1, <2>1 DEF ErasedRecorded
  <2>8. RecordOK'
    BY <1>1, <2>1, <2>2 DEF RecordOK
  <2> QED
    BY <1>1, <1>3, <2>3, <2>4, <2>5, <2>6, <2>7, <2>8, SearchStep DEF EraseInv
<1>4. CASE UNCHANGED eraseVars
  BY <1>1, <1>4 DEF EraseInv, eraseVars, EraseTypeOK, RequestOK, OthersKept, NamedErased,
     ErasedRecorded, RecordOK, RecordSearched, Done, Processed, Plain
<1> QED
  BY <1>2, <1>3, <1>4 DEF EraseNext

\* The loop over the items of a delete request keeps all of it, for packets and
\* requests of any length and a counter of any width.
THEOREM EraseInvariant ==
  ASSUME EntriesBounds
  PROVE  EraseSpec => []EraseInv
<1>1. EraseInit => EraseInv
  BY EraseInvInit
<1>2. EraseInv /\ [EraseNext]_eraseVars => EraseInv'
  BY EraseInvStep
<1> QED
  BY <1>1, <1>2, PTL DEF EraseSpec

\* The number in front of the entries is theirs after every round.
THEOREM EraseTypes ==
  ASSUME EntriesBounds
  PROVE  EraseSpec => []EraseTypeOK
<1>1. EraseInv => EraseTypeOK
  BY DEF EraseInv
<1> QED
  BY <1>1, EraseInvariant, PTL

\* Only what a request names is erased, whatever the size of the packet.
THEOREM OthersAreKept ==
  ASSUME EntriesBounds
  PROVE  EraseSpec => []OthersKept
<1>1. EraseInv => OthersKept
  BY DEF EraseInv
<1> QED
  BY <1>1, EraseInvariant, PTL

\* All that a request names is erased from a packet without entries that are there
\* twice and with fewer than the counter has values.
THEOREM NamedAreErased ==
  ASSUME EntriesBounds
  PROVE  EraseSpec => []NamedErased
<1>1. EraseInv => NamedErased
  BY DEF EraseInv
<1> QED
  BY <1>1, EraseInvariant, PTL

\* The record has an item for every erased entry, if all entries have a time.
THEOREM ErasedAreRecorded ==
  ASSUME EntriesBounds
  PROVE  EraseSpec => []ErasedRecorded
<1>1. EraseInv => ErasedRecorded
  BY DEF EraseInv
<1> QED
  BY <1>1, EraseInvariant, PTL

\* A search in the record of a delete request finds exactly what is there.
THEOREM RecordIsSearched ==
  ASSUME EntriesBounds
  PROVE  EraseSpec => []RecordSearched
<1>1. EraseInv => RecordSearched
  BY DEF EraseInv
<1> QED
  BY <1>1, EraseInvariant, PTL

-----------------------------------------------------------------------------
(* The loop over sequences and the step over sets *)

\* A packet as DHTStorage has it: its entries as a set.
SetOf(s) == {s[i] : i \in DOMAIN s}

\* The packets of DHTStorage: times are no less than 0, and no entry is there twice.
OfStore ==
  /\ Plain
  /\ \A i \in DOMAIN before : before[i].time >= 0

\* After every round the packet and the record are, as sets, what EraseFromIndex of
\* DHTStorage makes of the items looked at so far: the entries that match are gone,
\* and the record has the items of one of the sets of entries that it may count.
\* After the last round these are all items of the request.
LoopIsStep ==
  OfStore =>
    /\ SetOf(data) = SetOf(before) \ Matched(SetOf(before), Range(Processed))
    /\ \E C \in Counted(SetOf(before), Range(Processed)) : Range(deleted) = ItemsOf(C)
    /\ request = << >> => Processed = asked

LEMMA ProcessedIs ==
  ASSUME RequestOK
  PROVE  \A item : item \in Range(Processed) <=> \E n \in 1 .. Done : item = asked[n]
<1>1. Done \in Int /\ 0 <= Done /\ \A n \in 1 .. Done : asked[n] \in RequestItem
  BY DEF RequestOK
<1>2. Processed = SubSeq(asked, 1, Done)
  BY DEF Processed, Done
<1>3. /\ Processed \in Seq(RequestItem)
      /\ Len(Processed) = IF 1 <= Done THEN Done - 1 + 1 ELSE 0
      /\ \A n \in 1 .. Done - 1 + 1 : Processed[n] = asked[1 + n - 1]
  BY <1>1, <1>2, SubSeqProperties
<1>4. Done - 1 + 1 = Done /\ \A n \in 1 .. Done : 1 + n - 1 = n
  BY <1>1
<1>5. Len(Processed) = Done
  BY <1>1, <1>3
<1>6. DOMAIN Processed = 1 .. Done /\ \A n \in 1 .. Done : Processed[n] = asked[n]
  BY <1>3, <1>4, <1>5
<1> QED
  BY <1>6 DEF Range

\* An entry is matched as a member of the set if an item names it in the sequence.
LEMMA MatchedIs ==
  ASSUME RequestOK, OfStore, NEW k \in DOMAIN before
  PROVE  /\ before[k] \in SetOf(before)
         /\ before[k] \in Matched(SetOf(before), Range(Processed))
              <=> Named(before[k], Processed)
BY DEF SetOf, Matched, Named, ItemOf, ItemFor

LEMMA LoopMakesStep ==
  ASSUME EntriesBounds, EraseInv, OfStore
  PROVE  /\ SetOf(data) = SetOf(before) \ Matched(SetOf(before), Range(Processed))
         /\ \E C \in Counted(SetOf(before), Range(Processed)) : Range(deleted) = ItemsOf(C)
         /\ request = << >> => Processed = asked
<1> DEFINE E == SetOf(before)
           M == Matched(E, Range(Processed))
           C == {e \in M : ItemOf(e) \in Range(deleted)}
<1>1. /\ EraseTypeOK /\ RequestOK /\ OthersKept /\ Plain
      /\ \A i \in DOMAIN data : ~Named(data[i], Processed)
      /\ ErasedRecorded /\ RecordOK
  BY DEF EraseInv, OfStore, NamedErased
<1>2. /\ \A i \in DOMAIN data : \E k \in DOMAIN before : data[i] = before[k]
      /\ \A k \in DOMAIN before : ~Named(before[k], Processed) =>
           \E i \in DOMAIN data : data[i] = before[k]
  BY <1>1, KeptIs
<1>3. ASSUME NEW k \in DOMAIN before
      PROVE  before[k] \in E /\ (before[k] \in M <=> Named(before[k], Processed))
  BY <1>1, MatchedIs
<1>4. SetOf(data) = E \ M
  <2>1. ASSUME NEW i \in DOMAIN data PROVE data[i] \in E \ M
    BY <1>1, <1>2, <1>3
  <2>2. ASSUME NEW k \in DOMAIN before, before[k] \notin M
        PROVE  \E i \in DOMAIN data : before[k] = data[i]
    BY <1>2, <1>3, <2>2
  <2> HIDE DEF E, M
  <2>3. SetOf(data) \subseteq E \ M
    BY <2>1 DEF SetOf
  <2>4. E \ M \subseteq SetOf(data)
    BY <2>2 DEF SetOf, E
  <2> QED
    BY <2>3, <2>4
<1>5. M \subseteq E
  BY DEF Matched
<1>6. ASSUME NEW k \in DOMAIN before, NEW i \in DOMAIN deleted, Matches(before[k], deleted[i])
      PROVE  ItemOf(before[k]) = deleted[i]
  <2>1. deleted[i] \in RequestItem
    BY <1>1 DEF EraseTypeOK
  <2>2. deleted[i] = [key |-> deleted[i].key, da |-> deleted[i].da]
    BY <2>1 DEF RequestItem
  <2> QED
    BY <1>6, <2>2 DEF Matches, ItemOf
<1>7. ASSUME NEW i \in DOMAIN deleted
      PROVE  \E e \in M : ItemOf(e) = deleted[i]
  <2>1. PICK k \in DOMAIN before : Matches(before[k], deleted[i])
    <3>1. deleted[i] \in RequestItem
      BY <1>1 DEF EraseTypeOK
    <3> QED
      BY <1>1, <3>1, MatchesIs DEF ErasedRecorded
  <2>2. PICK n \in 1 .. Done : deleted[i] = asked[n]
    BY <1>1 DEF RecordOK
  <2>3. Named(before[k], Processed)
    BY <1>1, <2>1, <2>2, NamedIs
  <2>4. before[k] \in M
    BY <1>3, <2>3
  <2> QED
    BY <1>6, <2>1, <2>4
<1>8. Range(deleted) = ItemsOf(C)
  <2> HIDE DEF M
  <2>1. Range(deleted) \subseteq ItemsOf(C)
    BY <1>7 DEF Range, ItemsOf
  <2>2. ItemsOf(C) \subseteq Range(deleted)
    BY DEF ItemsOf
  <2> QED
    BY <2>1, <2>2
<1>9. C # {} => \E e \in E : e.time > 0
  <2>1. SUFFICES ASSUME C # {} PROVE \E e \in E : e.time > 0
    OBVIOUS
  <2>2. deleted # << >>
    <3>1. PICK item : item \in Range(deleted)
      BY <2>1
    <3>2. PICK i \in DOMAIN deleted : item = deleted[i]
      BY <3>1 DEF Range
    <3> QED
      BY <3>2
  <2>3. PICK k \in DOMAIN before : before[k].time > 0
    BY <1>1, <2>2 DEF RecordOK
  <2>4. before[k] \in E
    BY <1>3
  <2> QED
    BY <2>3, <2>4
<1>10. C # M => \E e \in E : e.time = 0
  <2>1. SUFFICES ASSUME NEW e \in M, ItemOf(e) \notin Range(deleted)
                 PROVE  \E f \in E : f.time = 0
    OBVIOUS
  <2>2. PICK k \in DOMAIN before : e = before[k]
    BY <1>5 DEF SetOf
  <2>3. Named(before[k], Processed)
    BY <1>3, <2>2
  <2>4. ~\E i \in DOMAIN deleted : Matches(before[k], deleted[i])
    BY <1>6, <2>1, <2>2 DEF Range
  <2>5. PICK m \in DOMAIN before : before[m].time <= 0
    BY <1>1, <2>3, <2>4 DEF RecordOK
  <2>6. before[m].time = 0
    <3>1. before[m] \in IndexEntry
      BY <1>1 DEF RequestOK
    <3>2. before[m].time \in Int
      BY <3>1 DEF EntriesBounds, IndexEntry
    <3> QED
      BY <2>5, <3>2 DEF OfStore
  <2>7. before[m] \in E /\ before[m].time = 0
    BY <1>3, <2>6
  <2> QED
    BY <2>7
<1>11. C \in Counted(E, Range(Processed))
  BY <1>9, <1>10 DEF Counted
<1>12. request = << >> => Processed = asked
  <2>1. SUFFICES ASSUME request = << >> PROVE Processed = asked
    OBVIOUS
  <2>2. asked \in Seq(RequestItem) /\ Len(request) = 0 /\ Len(asked) \in Nat
    BY <1>1, <2>1 DEF RequestOK
  <2>3. Len(asked) - Len(request) = Len(asked)
    BY <2>2
  <2> QED
    BY <2>2, <2>3, SubSeqFull DEF Processed
<1> HIDE DEF C
<1> QED
  BY <1>4, <1>8, <1>11, <1>12

\* The loop of receiveIndexPacketDeleteRequest () over sequences does what the one
\* step of DHTStorage over sets says.
THEOREM LoopMakesOneStep ==
  ASSUME EntriesBounds
  PROVE  EraseSpec => []LoopIsStep
<1>1. EraseInv => LoopIsStep
  BY LoopMakesStep DEF LoopIsStep
<1> QED
  BY <1>1, EraseInvariant, PTL

=============================================================================
