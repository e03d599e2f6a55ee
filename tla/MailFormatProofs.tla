--------------------------- MODULE MailFormatProofs ---------------------------
(***************************************************************************)
(* Theorems about MailFormat, for mails of any size, parts of any size,    *)
(* any address book and identities and any number of starts.               *)
(***************************************************************************)
EXTENDS MailFormat, FiniteSetTheorems, SequenceTheorems, NaturalsInduction, TLAPS

USE FormatAssumption

-----------------------------------------------------------------------------
(* Numbers *)

\* A set of natural numbers that is not empty has a least element.
LEMMA LeastNat ==
  ASSUME NEW S \in SUBSET Nat, S # {}
  PROVE  Min(S) \in S /\ \A x \in S : Min(S) <= x
<1>1. PICK m \in S : \A x \in S : ~(<<x, m>> \in OpToRel(<, Nat))
  BY NatLessThanWellFounded, WFMin
<1>2. \A x \in S : ~(x < m)
  BY <1>1 DEF OpToRel
<1>3. \A x \in S : m <= x
  BY <1>2
<1> QED
  BY <1>3 DEF Min

\* One with an upper bound has a greatest element.
LEMMA GreatestNat ==
  ASSUME NEW n \in Nat, NEW S \in SUBSET (0 .. n), S # {}
  PROVE  Max(S) \in S /\ \A x \in S : x <= Max(S)
<1> DEFINE D == {d \in 0 .. n : n - d \in S}
<1>1. D \in SUBSET Nat /\ D # {}
  <2>1. PICK s \in S : TRUE
    OBVIOUS
  <2>2. n - s \in 0 .. n /\ n - (n - s) = s
    OBVIOUS
  <2>3. n - s \in D
    BY <2>2
  <2>4. D \in SUBSET Nat
    OBVIOUS
  <2> HIDE DEF D
  <2> QED
    BY <2>3, <2>4
<1>2. Min(D) \in D /\ \A d \in D : Min(D) <= d
  <2> HIDE DEF D
  <2> QED
    BY <1>1, LeastNat
<1> DEFINE m == n - Min(D)
<1>3. m \in S /\ \A x \in S : x <= m
  <2>1. m \in S /\ Min(D) \in 0 .. n
    BY <1>2
  <2>2. ASSUME NEW x \in S PROVE x <= m
    <3>1. n - x \in 0 .. n /\ n - (n - x) = x
      OBVIOUS
    <3>2. Min(D) <= n - x
      BY <1>2, <3>1 DEF D
    <3> HIDE DEF D
    <3> QED
      BY <2>1, <3>2
  <2> QED
    BY <2>1, <2>2
<1> QED
  BY <1>3 DEF Max

-----------------------------------------------------------------------------
(* Bytes: what is split is put together again *)

\* The parts that are there, one behind the other, are a text if each continues the
\* text before it: cut[i] is where part i ends.
LEMMA FlattenCuts ==
  ASSUME NEW b \in Seq(Nat), NEW n \in Nat \ {0}, NEW at \in [0 .. n -> 0 .. Len(b)],
         at[0] = 0, \A i \in 1 .. n : at[i - 1] <= at[i],
         NEW parts, Len(parts) = n,
         \A i \in 1 .. n : parts[i] = SubSeq(b, at[i - 1] + 1, at[i])
  PROVE  FlattenSeq(parts) = SubSeq(b, 1, at[n])
<1> DEFINE F(w) == [i \in 1 .. n |-> IF i = 1 THEN parts[i] ELSE w[i - 1] \o parts[i]]
           cw == CHOOSE w : w = F(w)
           W == [i \in 1 .. n |-> SubSeq(b, 1, at[i])]
<1>1. ASSUME NEW i \in 1 .. n, i # 1
      PROVE  SubSeq(b, 1, at[i]) = SubSeq(b, 1, at[i - 1]) \o parts[i]
  <2>1. i - 1 \in 0 .. n /\ i \in 0 .. n
    BY <1>1
  <2>2. at[i - 1] \in 0 .. Len(b) /\ at[i] \in 0 .. Len(b) /\ at[i - 1] <= at[i]
    BY <2>1
  <2>3. ASSUME NEW p \in 0 .. Len(b), NEW q \in p .. Len(b)
        PROVE  SubSeq(b, 1, p) \o SubSeq(b, p + 1, q) = SubSeq(b, 1, q)
    <3>1. 1 \in 1 .. Len(b) + 1 /\ p \in 1 - 1 .. Len(b)
      OBVIOUS
    <3>2. \A m \in 1 .. Len(b) + 1 : \A k \in m - 1 .. Len(b) : \A l \in k .. Len(b) :
            SubSeq(b, m, k) \o SubSeq(b, k + 1, l) = SubSeq(b, m, l)
      BY ConcatAdjacentSubSeq
    <3> QED
      BY <3>1, <3>2, Zenon
  <2>4. SubSeq(b, 1, at[i - 1]) \o SubSeq(b, at[i - 1] + 1, at[i]) = SubSeq(b, 1, at[i])
    <3>1. at[i] \in at[i - 1] .. Len(b)
      BY <2>2
    <3> QED
      BY <2>2, <2>3, <3>1, Zenon
  <2> QED
    BY <2>4
<1>2. SubSeq(b, 1, at[1]) = parts[1]
  <2>1. 1 \in 1 .. n /\ at[1 - 1] + 1 = 1
    OBVIOUS
  <2>2. parts[1] = SubSeq(b, at[1 - 1] + 1, at[1])
    BY <2>1, Zenon
  <2> QED
    BY <2>1, <2>2, Zenon
<1>3. W = F(W)
  <2>1. ASSUME NEW i \in 1 .. n PROVE W[i] = F(W)[i]
    <3>1. CASE i = 1
      BY <1>2, <3>1
    <3>2. CASE i # 1
      <4>1. i - 1 \in 1 .. n
        BY <3>2
      <4> QED
        BY <1>1, <3>2, <4>1
    <3> QED
      BY <3>1, <3>2
  <2> QED
    BY <2>1
<1>4. cw = F(cw)
  <2>1. \E w : w = F(w)
    <3> HIDE DEF W, F
    <3> QED
      BY <1>3
  <2> HIDE DEF F
  <2> QED
    BY <2>1
<1>5. \A i \in 1 .. n : cw[i] = SubSeq(b, 1, at[i])
  <2> HIDE DEF cw
  <2> DEFINE B == {i \in 1 .. n : cw[i] # SubSeq(b, 1, at[i])}
  <2> SUFFICES ASSUME B # {} PROVE FALSE
    OBVIOUS
  <2>1. Min(B) \in B /\ \A x \in B : Min(B) <= x
    <3>1. B \in SUBSET Nat
      OBVIOUS
    <3> HIDE DEF B
    <3> QED
      BY <3>1, LeastNat
  <2> DEFINE i == Min(B)
  <2> HIDE DEF i
  <2>2. i \in 1 .. n /\ i \in B
    BY <2>1 DEF i
  <2>3. cw[i] = IF i = 1 THEN parts[i] ELSE cw[i - 1] \o parts[i]
    BY <1>4, <2>2
  <2>4. i # 1
    BY <1>2, <2>2, <2>3
  <2>5. i - 1 \in 1 .. n /\ i - 1 \notin B
    <3>1. i - 1 \in 1 .. n /\ ~(i <= i - 1)
      BY <2>2, <2>4
    <3> HIDE DEF B
    <3> QED
      BY <2>1, <3>1 DEF i
  <2>6. cw[i - 1] = SubSeq(b, 1, at[i - 1])
    BY <2>5
  <2> QED
    BY <1>1, <2>2, <2>3, <2>4, <2>6
<1>6. FlattenSeq(parts) = cw[n]
  BY DEF FlattenSeq
<1> HIDE DEF cw, F
<1> QED
  BY <1>5, <1>6

\* Quotient and remainder.
LEMMA Division ==
  ASSUME NEW n \in Nat, NEW d \in Nat \ {0}
  PROVE  /\ n \div d \in Nat /\ n % d \in 0 .. d - 1
         /\ n = (n \div d) * d + (n % d)
  OBVIOUS

\* What split () makes of some bytes is nothing or parts whose data are the bytes.
LEMMA SplitRestored ==
  ASSUME NEW b \in Seq(Nat)
  PROVE  /\ Len(split(b)) \in 0 .. UINT16 - 1
         /\ split(b) = [i \in 1 .. Len(split(b)) |-> split(b)[i]]
         /\ Len(split(b)) > 0 => FlattenSeq(split(b)) = b
<1> DEFINE full == Len(b) \div PartSize
           rest == Len(b) % PartSize
           plain == [i \in 1 .. full + 1 |->
                       IF i <= full THEN SubSeq(b, (i - 1) * PartSize + 1, i * PartSize)
                       ELSE SubSeq(b, full * PartSize + 1, full * PartSize + rest)]
           at == [i \in 0 .. full + 1 |-> IF i <= full THEN i * PartSize ELSE Len(b)]
<1>1. Len(b) \in Nat
  BY LenProperties
<1>2. full \in Nat /\ rest \in Nat /\ Len(b) = full * PartSize + rest
  <2>1. /\ Len(b) \div PartSize \in Nat /\ Len(b) % PartSize \in 0 .. PartSize - 1
        /\ Len(b) = (Len(b) \div PartSize) * PartSize + (Len(b) % PartSize)
    BY <1>1, Division, Zenon
  <2> HIDE DEF full, rest
  <2>2. full \in Nat /\ rest \in 0 .. PartSize - 1 /\ Len(b) = full * PartSize + rest
    BY <2>1, Zenon DEF full, rest
  <2> QED
    BY <2>2
<1> HIDE DEF full, rest
<1>3. Len(plain) = full + 1 /\ plain = [i \in 1 .. full + 1 |-> plain[i]]
  BY <1>2
<1>4. split(b) = plain \/ split(b) = << >>
  BY DEF split, full, rest
<1>5. FlattenSeq(plain) = b
  <2>1. ASSUME NEW i \in 0 .. full
        PROVE  i * PartSize \in Nat /\ i * PartSize <= full * PartSize
    BY <1>2
  <2>2. full * PartSize \in Nat /\ full * PartSize <= Len(b)
    BY <1>2
  <2>3. at \in [0 .. full + 1 -> 0 .. Len(b)]
    <3>1. ASSUME NEW i \in 0 .. full + 1 PROVE at[i] \in 0 .. Len(b)
      <4>1. CASE i <= full
        BY <1>1, <1>2, <2>1, <2>2, <4>1
      <4>2. CASE ~(i <= full)
        BY <1>1, <4>2
      <4> QED
        BY <4>1, <4>2
    <3> QED
      BY <3>1
  <2>4. at[0] = 0 /\ at[full + 1] = Len(b)
    BY <1>2
  <2>5. ASSUME NEW i \in 1 .. full + 1
        PROVE  at[i - 1] <= at[i] /\ plain[i] = SubSeq(b, at[i - 1] + 1, at[i])
    <3>1. i - 1 \in 0 .. full /\ at[i - 1] = (i - 1) * PartSize
      BY <1>2
    <3>2. CASE i <= full
      <4>1. at[i] = i * PartSize /\ plain[i] = SubSeq(b, (i - 1) * PartSize + 1, i * PartSize)
        BY <1>2, <3>2
      <4>2. (i - 1) * PartSize <= i * PartSize
        <5>1. i \in Nat /\ i * PartSize = (i - 1) * PartSize + PartSize
          BY <1>2
        <5>2. (i - 1) * PartSize \in Nat
          BY <2>1, <3>1
        <5> QED
          BY <5>1, <5>2
      <4> HIDE DEF at, plain
      <4> QED
        BY <3>1, <4>1, <4>2
    <3>3. CASE ~(i <= full)
      <4>1. i = full + 1 /\ at[i] = Len(b)
        BY <1>2, <3>3
      <4>2. plain[i] = SubSeq(b, full * PartSize + 1, Len(b))
        BY <1>2, <3>3
      <4>3. at[i - 1] = full * PartSize
        BY <1>2, <3>1, <4>1
      <4> HIDE DEF at, plain
      <4> QED
        BY <2>2, <4>1, <4>2, <4>3
    <3> QED
      BY <3>2, <3>3
  <2>6. FlattenSeq(plain) = SubSeq(b, 1, at[full + 1])
    <3> DEFINE n == full + 1
    <3>1. n \in Nat \ {0}
      BY <1>2
    <3>2. Len(plain) = n
      BY <1>3
    <3>3. at \in [0 .. n -> 0 .. Len(b)] /\ at[0] = 0
      BY <2>3, <2>4
    <3>4. \A i \in 1 .. n : at[i - 1] <= at[i]
      BY <2>5
    <3>5. \A i \in 1 .. n : plain[i] = SubSeq(b, at[i - 1] + 1, at[i])
      BY <2>5
    <3> HIDE DEF at, plain
    <3>6. n = full + 1
      OBVIOUS
    <3> HIDE DEF n
    <3>7. FlattenSeq(plain) = SubSeq(b, 1, at[n])
      BY <3>1, <3>2, <3>3, <3>4, <3>5, FlattenCuts
    <3> QED
      BY <3>6, <3>7
  <2> QED
    BY <2>4, <2>6, SubSeqFull
<1>6. CASE split(b) = plain /\ split(b) # << >>
  <2> DEFINE count == full + (IF rest > 0 THEN 1 ELSE 0)
  <2>1. count \in Nat
    BY <1>2
  <2>2. Len(plain) = count % UINT16
    <3>1. split(b) = IF Len(plain) = count % UINT16 THEN plain ELSE << >>
      BY DEF split, full, rest
    <3> HIDE DEF plain, count
    <3> QED
      BY <1>6, <3>1
  <2> HIDE DEF plain, count
  <2>3. count % UINT16 \in 0 .. UINT16 - 1
    <3>1. UINT16 \in Nat \ {0}
      BY SMT DEF UINT16
    <3> QED
      BY <2>1, <3>1, Division, Zenon
  <2>4. Len(split(b)) \in 0 .. UINT16 - 1
    BY <1>6, <2>2, <2>3, Zenon
  <2>5. split(b) = [i \in 1 .. Len(split(b)) |-> split(b)[i]]
    BY <1>3, <1>6, Zenon
  <2> QED
    BY <1>5, <1>6, <2>4, <2>5, Zenon
<1>7. CASE split(b) = << >>
  <2>1. Len(split(b)) = 0
    BY <1>7
  <2>2. << >> = [i \in 1 .. 0 |-> (<< >>)[i]]
    OBVIOUS
  <2>3. 0 \in 0 .. UINT16 - 1 /\ ~(0 > 0)
    BY SMT DEF UINT16
  <2> QED
    BY <1>7, <2>1, <2>2, <2>3, Zenon
<1> HIDE DEF plain
<1> QED
  BY <1>4, <1>6, <1>7, Zenon

\* A file without bytes has no parts.
LEMMA EmptyUnsplit == ~(Len(split(<< >>)) > 0)
<1>1. Len(<< >>) = 0 /\ 0 \div PartSize = 0 /\ 0 % PartSize = 0
  OBVIOUS
<1>2. (0 + 0) % UINT16 = 0 /\ 0 + 1 = 1
  BY DEF UINT16
<1> QED
  BY <1>1, <1>2 DEF split

\* A text is a sequence of letters, and its first one is none of the marks of a compression.
LEMMA TextIsSeq ==
  ASSUME NEW n \in Nat \ {0}
  PROVE  /\ Text(n) \in Seq(Nat) /\ Len(Text(n)) = n /\ Text(n) # << >>
         /\ Text(n)[1] # UNCOMPRESSED /\ Text(n)[1] # ZLIB
<1>1. Text(n) = [i \in 1 .. n |-> 2 + i]
  BY DEF Text, ZLIB
<1>2. Text(n) \in Seq(Nat) /\ Len(Text(n)) = n
  BY <1>1
<1> QED
  BY <1>1, <1>2 DEF UNCOMPRESSED, ZLIB

\* The file keeps bytes: fromMIME () changes one, compress () adds one.
LEMMA FromMIMEIsSeq ==
  ASSUME NEW b \in Seq(Nat)
  PROVE  fromMIME(b) \in Seq(Nat)
<1> DEFINE x == Min({i \in DOMAIN b : b[i] # UNCOMPRESSED})
<1> HIDE DEF x
<1>1. [b EXCEPT ![x] = Blank] \in Seq(Nat)
  <2>1. CASE x \in 1 .. Len(b)
    <3>1. 255 \in Nat
      OBVIOUS
    <3> QED
      BY <2>1, <3>1, ExceptSeq DEF Blank
  <2>2. CASE x \notin 1 .. Len(b)
    <3>1. [b EXCEPT ![x] = Blank] = b
      BY <2>2, LenProperties
    <3> QED
      BY <3>1
  <2> QED
    BY <2>1, <2>2
<1> QED
  BY <1>1 DEF fromMIME, x

LEMMA CompressIsSeq ==
  ASSUME NEW to, NEW b \in Seq(Nat)
  PROVE  compress(to, b) \in Seq(Nat) /\ compress(to, b) # << >>
<1>1. <<0>> \in Seq(Nat) /\ <<2>> \in Seq(Nat) /\ Len(<<0>>) = 1 /\ Len(<<2>>) = 1
  OBVIOUS
<1>2. b \o <<2>> \in Seq(Nat) /\ Len(b \o <<2>>) = Len(b) + 1
  BY <1>1, ConcatProperties
<1>3. <<0>> \o b \in Seq(Nat) /\ Len(<<0>> \o b) = 1 + Len(b)
  BY <1>1, ConcatProperties
<1>4. b \o <<2>> \o << >> = b \o <<2>>
  BY <1>2, ConcatEmptySeq
<1>5. Len(b) \in Nat /\ Len(<< >>) = 0
  BY LenProperties
<1>6. b \o <<2>> # << >> /\ <<0>> \o b # << >>
  BY <1>2, <1>3, <1>5
<1> QED
  BY <1>2, <1>3, <1>4, <1>6 DEF compress, zlibCompress, ZLIB, UNCOMPRESSED

\* What is decompressed is the text, but for X25519.
LEMMA TextDecompressed ==
  ASSUME NEW to, NEW n \in Nat \ {0}
  PROVE  decompress(compress(to, Text(n))) = Received(to.type, Text(n))
<1> DEFINE t == Text(n)
<1>1. t \in Seq(Nat) /\ Len(t) \in Nat \ {0} /\ t # << >> /\ t[1] # 2
  BY TextIsSeq DEF ZLIB
<1> HIDE DEF t
<1>2. <<0>> \in Seq(Nat) /\ <<2>> \in Seq(Nat) /\ Len(<<0>>) = 1 /\ Len(<<2>>) = 1
  OBVIOUS
<1>3. CASE to.type = "X25519"
  <2> DEFINE c == t \o <<2>>
  <2>1. c \in Seq(Nat) /\ Len(c) = Len(t) + 1
    BY <1>1, <1>2, ConcatProperties
  <2>2. \A i \in 1 .. Len(t) : c[i] = t[i]
    BY <1>1, <1>2
  <2>3. c[Len(t) + 1] = 2
    BY <1>1, <1>2
  <2>4. compress(to, t) = c
    <3>1. compress(to, t) = c \o << >>
      BY <1>3 DEF compress, zlibCompress, ZLIB
    <3> HIDE DEF c
    <3> QED
      BY <2>1, <3>1, ConcatEmptySeq
  <2>5. Tail(c) = Tail(t) \o <<2>>
    <3>1. Tail(t) \in Seq(Nat) /\ Len(Tail(t)) = Len(t) - 1
          /\ \A i \in 1 .. Len(t) - 1 : Tail(t)[i] = t[i + 1]
      BY <1>1, HeadTailProperties
    <3>2. Tail(t) \o <<2>> \in Seq(Nat) /\ Len(Tail(t) \o <<2>>) = Len(t)
      BY <1>1, <1>2, <3>1, ConcatProperties
    <3>3. \A i \in 1 .. Len(t) - 1 : (Tail(t) \o <<2>>)[i] = t[i + 1]
      BY <1>1, <1>2, <3>1
    <3>4. (Tail(t) \o <<2>>)[Len(t)] = 2
      BY <1>1, <1>2, <3>1
    <3> HIDE DEF c
    <3>5. c # << >>
      BY <1>1, <2>1
    <3>6. Tail(c) \in Seq(Nat) /\ Len(Tail(c)) = Len(t)
          /\ \A i \in 1 .. Len(t) : Tail(c)[i] = c[i + 1]
      BY <1>1, <2>1, <3>5, HeadTailProperties
    <3>7. \A i \in 1 .. Len(t) : Tail(c)[i] = (Tail(t) \o <<2>>)[i]
      <4> SUFFICES ASSUME NEW i \in 1 .. Len(t) PROVE c[i + 1] = (Tail(t) \o <<2>>)[i]
        BY <3>6
      <4>1. CASE i = Len(t)
        BY <2>3, <3>4, <4>1
      <4>2. CASE i # Len(t)
        <5>1. i \in 1 .. Len(t) - 1 /\ i + 1 \in 1 .. Len(t)
          BY <1>1, <4>2
        <5> QED
          BY <2>2, <3>3, <5>1
      <4> QED
        BY <4>1, <4>2
    <3> DEFINE d == Tail(t) \o <<2>>
               e == Tail(c)
    <3> HIDE DEF d, e
    <3>8. d \in Seq(Nat) /\ e \in Seq(Nat) /\ Len(e) = Len(d) /\ \A i \in 1 .. Len(e) : e[i] = d[i]
      BY <3>2, <3>6, <3>7 DEF d, e
    <3>9. e = d
      BY <3>8, SeqEqual
    <3> QED
      BY <3>9 DEF d, e
  <2>6. c[1] # ZLIB
    BY <1>1, <2>2 DEF ZLIB
  <2> HIDE DEF c
  <2>7. decompress(c) = Tail(t) \o <<2>>
    BY <2>5, <2>6 DEF decompress
  <2> QED
    BY <1>3, <2>4, <2>7 DEF t, Received, ZLIB
<1>4. CASE to.type # "X25519"
  <2> DEFINE c == <<0>> \o t
  <2>1. c \in Seq(Nat) /\ Len(c) = 1 + Len(t)
    BY <1>1, <1>2, ConcatProperties
  <2>2. c[1] = 0 /\ \A i \in 1 .. Len(t) : c[i + 1] = t[i]
    BY <1>1, <1>2
  <2> HIDE DEF c
  <2>3. c # << >>
    BY <1>1, <2>1
  <2>4. Tail(c) \in Seq(Nat) /\ Len(Tail(c)) = Len(t)
        /\ \A i \in 1 .. Len(t) : Tail(c)[i] = c[i + 1]
    BY <1>1, <2>1, <2>3, HeadTailProperties
  <2>5. Tail(c) = t
    <3> DEFINE e == Tail(c)
    <3> HIDE DEF e
    <3>1. e \in Seq(Nat) /\ Len(e) = Len(t) /\ \A i \in 1 .. Len(e) : e[i] = t[i]
      BY <2>2, <2>4 DEF e
    <3>2. e = t
      BY <1>1, <3>1, SeqEqual
    <3> QED
      BY <3>2 DEF e
  <2>6. decompress(c) = t
    BY <2>2, <2>5 DEF decompress, ZLIB
  <2>7. compress(to, t) = c
    BY <1>4 DEF compress, c, UNCOMPRESSED
  <2> QED
    BY <1>4, <2>6, <2>7 DEF t, Received
<1> QED
  BY <1>3, <1>4

-----------------------------------------------------------------------------
(* The metadata file *)

\* A number of 16 bits has at most five digits.
SixDigits == 100000
Powers == {1, 10, 100, 1000, 10000}

LEMMA SixDigitsBound ==
  /\ SixDigits \in Nat /\ UINT16 \in Nat
  /\ \A j \in 0 .. UINT16 - 1 : j \in Nat /\ j < SixDigits
  BY SMT DEF SixDigits, UINT16

LEMMA PowersNat ==
  1 \in Powers /\ \A d \in Powers : d \in Nat
  BY SMT DEF Powers

LEMMA DigitsNat ==
  ASSUME NEW j \in 0 .. UINT16 - 1
  PROVE  Digits(j) \in Nat /\ Digits(j) < SixDigits
<1> DEFINE S == {j * d : d \in {e \in Powers : j * e < SixDigits}}
<1>1. j \in Nat /\ j < SixDigits /\ SixDigits \in Nat
  BY SixDigitsBound, Zenon
<1>2. j * 1 = j
  BY <1>1, SMT
<1>3. \A d \in Powers : j * d \in Nat
  BY <1>1, PowersNat, SMT
<1>4. \A x \in S : x \in Nat /\ x < SixDigits
  BY <1>3, Zenon
<1>5. j * 1 \in S
  <2>1. 1 \in Powers /\ j * 1 < SixDigits
    BY <1>1, <1>2, PowersNat
  <2> QED
    BY <2>1, Zenon
<1>6. Digits(j) = Max(S)
  BY SMT DEF Digits, Powers, SixDigits
<1> HIDE DEF S
<1>7. S \in SUBSET (0 .. SixDigits)
  BY <1>1, <1>4, SMT
<1>8. Max(S) \in S
  BY <1>1, <1>5, <1>7, GreatestNat
<1> QED
  BY <1>4, <1>6, <1>8, Zenon

\* Of some names one is the last.
LEMMA LastByNameIn ==
  ASSUME NEW S \in SUBSET (0 .. UINT16 - 1), S # {}
  PROVE  LastByName(S) \in S
<1> DEFINE V(j) == Digits(j) * SixDigits + j
           T == {V(j) : j \in S}
           bound == SixDigits * SixDigits
<1>1. ASSUME NEW j \in S
      PROVE  Digits(j) \in Nat /\ Digits(j) < SixDigits /\ j \in Nat /\ j < SixDigits
  BY DigitsNat, SixDigitsBound, Zenon
<1>2. ASSUME NEW d \in Nat, NEW j \in Nat, d < SixDigits, j < SixDigits
      PROVE  d * SixDigits + j \in 0 .. bound
  <2>1. d * SixDigits + j \in Nat
    BY SixDigitsBound, SMT
  <2>2. d + 1 <= SixDigits
    BY <1>2, SixDigitsBound, SMT
  <2>3. ASSUME NEW x \in Nat, d + 1 <= x, j < x PROVE d * x + j <= x * x
    <3>1. (d + 1) * x <= x * x
      BY <2>3, SMT
    <3>2. (d + 1) * x = d * x + x /\ d * x \in Nat
      BY SMT
    <3>3. x * x \in Nat
      BY SMT
    <3> QED
      BY <2>3, <3>1, <3>2, <3>3, SMT
  <2>4. d * SixDigits + j <= bound
    BY <1>2, <2>2, <2>3, SixDigitsBound, Zenon
  <2>5. bound \in Nat
    BY SixDigitsBound, SMT
  <2> HIDE DEF bound
  <2> QED
    BY <2>1, <2>4, <2>5, SMT
<1>3. ASSUME NEW d \in Nat, NEW j \in Nat, d < SixDigits, j < SixDigits,
             NEW c \in Nat, NEW i \in Nat, c < SixDigits, i < SixDigits,
             c * SixDigits + i <= d * SixDigits + j
      PROVE  c < d \/ (c = d /\ i <= j)
  BY <1>3, SMT DEF SixDigits
<1>4. bound \in Nat
  BY SixDigitsBound, SMT
<1>5. ASSUME NEW i \in S, NEW j \in S, V(i) <= V(j) PROVE NotAfter(i, j)
  BY <1>1, <1>3, <1>5, Zenon DEF NotAfter
<1>6. ASSUME NEW j \in S PROVE V(j) \in 0 .. bound
  BY <1>1, <1>2, Zenon
<1> HIDE DEF V, bound
<1>7. T \in SUBSET (0 .. bound) /\ T # {}
  BY <1>6, Zenon
<1>8. Max(T) \in T /\ \A x \in T : x <= Max(T)
  <2> HIDE DEF T
  <2> QED
    BY <1>4, <1>7, GreatestNat
<1>9. PICK j \in S : V(j) = Max(T)
  BY <1>8, Zenon
<1>10. \A i \in S : V(i) <= V(j)
  BY <1>8, <1>9, Zenon
<1>11. \A i \in S : NotAfter(i, j)
  BY <1>5, <1>10, Zenon
<1> QED
  BY <1>11, Zenon DEF LastByName

\* What the metadata f, loaded or in the file, says of attempt a at a mail of n parts,
\* when R are the records and c tells whether the file was cut:
\* a part is named by its packet, or it is one that fill () made up or that was cut; it
\* is marked only if there is a record of its packet; and parts that no other part's
\* lines are taken for are there, unless the file was cut.
Uncovered(n, i) == \A j \in (0 .. n - 1) \ {i} : ~Covers(i, j)
Truthful(f, a, n, R, c) ==
  /\ DOMAIN f \subseteq 0 .. n - 1
  /\ \A j \in DOMAIN f :
       /\ f[j] \in [id : 0 .. n - 1, key : (Nat \X Nat) \cup {None}, delivered : BOOLEAN]
       /\ f[j].key = <<a, f[j].id>> \/ ((c \/ f[j].id = 0) /\ f[j].key = None)
       /\ f[j].delivered => f[j].key \in R
  /\ ~c => \A i \in 0 .. n - 1 : Uncovered(n, i) =>
       i \in DOMAIN f /\ f[i].id = i /\ f[i].key = <<a, i>>

\* The metadata that is saved when the packets are made.
LEMMA PartsTruthful ==
  ASSUME NEW a \in Nat, NEW n \in Nat \ {0}, NEW packets, packets # {}, NEW R, NEW c
  PROVE  Truthful(Parts(a, packets, n), a, n, R, c)
<1> DEFINE f == Parts(a, packets, n)
<1>1. DOMAIN f = 0 .. n - 1 /\ \A i \in 0 .. n - 1 : f[i] = [id |-> i, key |-> <<a, i>>, delivered |-> FALSE]
  BY DEF Parts, Part
<1> HIDE DEF f
<1>2. ASSUME NEW j \in DOMAIN f
      PROVE  /\ f[j] \in [id : 0 .. n - 1, key : (Nat \X Nat) \cup {None}, delivered : BOOLEAN]
             /\ f[j].key = <<a, f[j].id>> /\ f[j].delivered = FALSE /\ f[j].id = j
  <2>1. j \in 0 .. n - 1 /\ <<a, j>> \in (Nat \X Nat) \cup {None} /\ FALSE \in BOOLEAN
    BY <1>1
  <2>2. f[j] = [id |-> j, key |-> <<a, j>>, delivered |-> FALSE]
    BY <1>1, <2>1
  <2> QED
    BY <2>1, <2>2
<1>3. Truthful(f, a, n, R, c)
  BY <1>1, <1>2 DEF Truthful
<1> QED
  BY <1>3 DEF f

\* load () keeps the parts whose lines are not mistaken.
LEMMA LoadTruthful ==
  ASSUME NEW f, NEW a \in Nat, NEW n \in 1 .. UINT16 - 1, NEW R, NEW c,
         Truthful(f, a, n, R, c)
  PROVE  Truthful(load(f), a, n, R, c)
<1> DEFINE src(i) == LastByName({j \in DOMAIN f : Covers(i, j)})
           first(id) == Min({i \in DOMAIN f : f[src(i)].id = id})
           g == load(f)
<1>1. n \in Nat /\ DOMAIN f \in SUBSET Nat /\ DOMAIN f \in SUBSET (0 .. UINT16 - 1)
  <2>1. UINT16 \in Nat
    BY SixDigitsBound
  <2>2. DOMAIN f \subseteq 0 .. n - 1
    BY DEF Truthful
  <2> QED
    BY <2>1, <2>2, SMT
<1>2. ASSUME NEW i \in DOMAIN f PROVE src(i) \in DOMAIN f /\ Covers(i, src(i))
  <2> DEFINE S == {j \in DOMAIN f : Covers(i, j)}
  <2>1. S \in SUBSET (0 .. UINT16 - 1) /\ S # {}
    BY <1>1 DEF Covers
  <2>2. LastByName(S) \in S
    <3> HIDE DEF S
    <3> QED
      BY <2>1, LastByNameIn
  <2> QED
    BY <2>2
<1>3. DOMAIN g = {f[src(i)].id : i \in DOMAIN f} /\ \A id \in DOMAIN g : g[id] = f[src(first(id))]
  BY DEF load
<1> HIDE DEF src
<1>4. ASSUME NEW id \in DOMAIN g
      PROVE  /\ first(id) \in DOMAIN f /\ f[src(first(id))].id = id
             /\ \A i \in DOMAIN f : f[src(i)].id = id => first(id) <= i
  <2> DEFINE S == {i \in DOMAIN f : f[src(i)].id = id}
  <2>1. S \in SUBSET Nat /\ S # {}
    BY <1>1, <1>3
  <2>2. Min(S) \in S /\ \A x \in S : Min(S) <= x
    <3> HIDE DEF S
    <3> QED
      BY <2>1, LeastNat
  <2> QED
    BY <2>2
<1> HIDE DEF first, g
<1>5. ASSUME NEW id \in DOMAIN g
      PROVE  src(first(id)) \in DOMAIN f /\ g[id] = f[src(first(id))] /\ g[id].id = id
  BY <1>2, <1>3, <1>4
<1>6. \A j \in DOMAIN g :
         /\ g[j] \in [id : 0 .. n - 1, key : (Nat \X Nat) \cup {None}, delivered : BOOLEAN]
         /\ g[j].key = <<a, g[j].id>> \/ ((c \/ g[j].id = 0) /\ g[j].key = None)
         /\ g[j].delivered => g[j].key \in R
  BY <1>5 DEF Truthful
<1>7. DOMAIN g \subseteq 0 .. n - 1
  BY <1>5, <1>6
<1>8. ASSUME ~c, NEW i \in 0 .. n - 1, Uncovered(n, i)
      PROVE  i \in DOMAIN g /\ g[i].id = i /\ g[i].key = <<a, i>>
  <2>1. i \in DOMAIN f /\ f[i].id = i /\ f[i].key = <<a, i>>
    BY <1>8 DEF Truthful
  <2>2. src(i) = i
    BY <1>2, <1>8, <2>1 DEF Truthful, Uncovered
  <2>3. i \in DOMAIN g /\ g[i].id = i
    BY <1>3, <1>5, <2>1, <2>2
  <2>4. CASE i = 0
    <3>1. first(i) <= 0 /\ first(i) \in Nat
      BY <1>1, <1>4, <2>1, <2>2, <2>3, <2>4
    <3>2. first(i) = i
      BY <2>4, <3>1
    <3> QED
      BY <1>5, <2>1, <2>2, <2>3, <3>2
  <2>5. CASE i # 0
    BY <1>6, <1>8, <2>3, <2>5
  <2> QED
    BY <2>3, <2>4, <2>5
<1> QED
  BY <1>6, <1>7, <1>8 DEF Truthful, g

\* fill () marks parts whose packets there are records of, and the parts that it
\* makes up stay unmarked.
LEMMA FillTruthful ==
  ASSUME NEW f, NEW a \in Nat, NEW n \in Nat \ {0}, NEW R, NEW c, Truthful(f, a, n, R, c),
         DOMAIN f # {}, NEW K \in SUBSET R, None \notin R
  PROVE  Truthful(fill(f, K), a, n, R, c)
<1> DEFINE g == fill(f, K)
           part(id) == IF id \in DOMAIN f THEN f[id] ELSE Part(0, None)
<1>2. Max(DOMAIN f) \in DOMAIN f /\ \A x \in DOMAIN f : x <= Max(DOMAIN f)
  <2>1. n - 1 \in Nat /\ DOMAIN f \in SUBSET (0 .. n - 1) /\ DOMAIN f # {}
    BY DEF Truthful
  <2> DEFINE m == n - 1
             D == DOMAIN f
  <2> HIDE DEF m, D
  <2>2. m \in Nat /\ D \in SUBSET (0 .. m) /\ D # {}
    BY <2>1 DEF m, D
  <2>3. Max(D) \in D /\ \A x \in D : x <= Max(D)
    BY <2>2, GreatestNat
  <2> QED
    BY <2>3 DEF D
<1>3. DOMAIN g \subseteq 0 .. n - 1 /\ DOMAIN f \subseteq DOMAIN g
  <2>1. DOMAIN g = 0 .. Max(DOMAIN f)
    BY DEF fill
  <2>2. DOMAIN f \subseteq 0 .. n - 1
    BY DEF Truthful
  <2> HIDE DEF g
  <2> QED
    BY <1>2, <2>1, <2>2
<1>4. ASSUME NEW j \in DOMAIN g
      PROVE  /\ part(j) \in [id : 0 .. n - 1, key : (Nat \X Nat) \cup {None}, delivered : BOOLEAN]
             /\ part(j).key = <<a, part(j).id>> \/ ((c \/ part(j).id = 0) /\ part(j).key = None)
             /\ part(j).delivered => part(j).key \in R
  BY DEF Truthful, Part
<1>5. ASSUME NEW j \in DOMAIN g
      PROVE  g[j] = [part(j) EXCEPT !.delivered = @ \/ part(j).key \in K]
  BY DEF fill
<1> HIDE DEF part, g
<1>6. ASSUME NEW j \in DOMAIN g
      PROVE  /\ g[j] \in [id : 0 .. n - 1, key : (Nat \X Nat) \cup {None}, delivered : BOOLEAN]
             /\ g[j].id = part(j).id /\ g[j].key = part(j).key
             /\ g[j].delivered => part(j).delivered \/ part(j).key \in K
  <2>1. part(j) \in [id : 0 .. n - 1, key : (Nat \X Nat) \cup {None}, delivered : BOOLEAN]
    BY <1>4
  <2>2. g[j] = [part(j) EXCEPT !.delivered = @ \/ part(j).key \in K]
    BY <1>5
  <2> QED
    BY <2>1, <2>2
<1>7. \A j \in DOMAIN g :
         /\ g[j].key = <<a, g[j].id>> \/ ((c \/ g[j].id = 0) /\ g[j].key = None)
         /\ g[j].delivered => g[j].key \in R
  BY <1>4, <1>6
<1>8. ~c => \A i \in 0 .. n - 1 : Uncovered(n, i) =>
        i \in DOMAIN g /\ g[i].id = i /\ g[i].key = <<a, i>>
  BY <1>3, <1>6 DEF Truthful, part
<1> QED
  BY <1>3, <1>6, <1>7, <1>8 DEF Truthful, g

\* What a kill leaves of truthful metadata is no less truthful, with the exception of
\* what is missing.
LEMMA CutTruthful ==
  ASSUME NEW f, NEW a \in Nat, NEW n \in Nat, NEW R, NEW c, Truthful(f, a, n, R, c),
         NEW g \in FirstLines(f)
  PROVE  Truthful(g, a, n, R, TRUE)
<1> DEFINE Rec == [id : 0 .. n - 1, key : (Nat \X Nat) \cup {None}, delivered : BOOLEAN]
<1>1. DOMAIN f \subseteq 0 .. n - 1
  BY DEF Truthful
<1> DEFINE Whole(m) == [i \in {i \in DOMAIN f : i < m} |-> f[i]]
           Ended(m, p) == [i \in {i \in DOMAIN f : i <= m} |-> IF i < m THEN f[i] ELSE p]
<1>2. PICK m \in DOMAIN f :
        g = Whole(m) \/ \E p \in LastLines(f, m) : g = Ended(m, p)
  <2>1. g \in UNION {{Whole(m)} \cup {Ended(m, p) : p \in LastLines(f, m)} : m \in DOMAIN f}
    BY DEF FirstLines
  <2> HIDE DEF Whole, Ended
  <2> QED
    BY <2>1
<1>3. ASSUME NEW p \in LastLines(f, m)
      PROVE  p \in Rec /\ (p.key = <<a, p.id>> \/ p.key = None) /\ p.delivered = FALSE
  <2>1. f[m] \in Rec /\ (f[m].key = <<a, f[m].id>> \/ f[m].key = None)
    BY DEF Truthful
  <2>2. f[m].id \in 0 .. n - 1 /\ f[m].key \in (Nat \X Nat) \cup {None}
    BY <2>1
  <2>3. \/ p = [id |-> f[m].id, key |-> f[m].key, delivered |-> FALSE]
        \/ \E k \in 0 .. f[m].id : p = [id |-> k, key |-> None, delivered |-> FALSE]
    BY <1>3 DEF LastLines, Part
  <2>4. CASE p = [id |-> f[m].id, key |-> f[m].key, delivered |-> FALSE]
    BY <2>1, <2>2, <2>4
  <2>5. ASSUME NEW k \in 0 .. f[m].id, p = [id |-> k, key |-> None, delivered |-> FALSE]
        PROVE  p \in Rec /\ p.key = None /\ p.delivered = FALSE
    <3>1. k \in 0 .. n - 1 /\ None \in (Nat \X Nat) \cup {None} /\ FALSE \in BOOLEAN
      BY <2>2
    <3> QED
      BY <2>5, <3>1
  <2> QED
    BY <2>3, <2>4, <2>5
<1>4. DOMAIN g \subseteq DOMAIN f
  BY <1>2
<1>5. ASSUME NEW j \in DOMAIN g PROVE g[j] = f[j] \/ g[j] \in LastLines(f, m)
  BY <1>2
<1>6. ASSUME NEW j \in DOMAIN g
      PROVE  /\ g[j] \in Rec /\ (g[j].key = <<a, g[j].id>> \/ g[j].key = None)
             /\ g[j].delivered => g[j].key \in R
  BY <1>3, <1>4, <1>5 DEF Truthful
<1> QED
  BY <1>1, <1>4, <1>6 DEF Truthful

-----------------------------------------------------------------------------
(* The inductive invariant *)

\* The bytes that the last attempt was made of, and the number of its parts.
LastBytes == IF texts = << >> THEN << >> ELSE compress(Recipient, texts[Len(texts)])
PartCount == Len(split(LastBytes))

\* The first attempt is made of the mail itself.
FileOK ==
  /\ mail \in Mails /\ file \in Seq(Nat) /\ texts \in Seq(Seq(Nat))
  /\ texts = << >> => file = Text(mail.size) /\ inbox = None
  /\ Len(texts) = 1 => texts[1] = Text(mail.size)

\* A packet is a part of an attempt; while there is one attempt it is a part of its bytes.
Made(q) ==
  /\ q.attempt \in 1 .. Len(texts) /\ q.fr_id \in Nat
  /\ Len(texts) = 1 => \E i \in 0 .. PartCount - 1 : q = Plain(1, i, split(LastBytes))

PacketsOK ==
  /\ \A p \in dht : Made(p.plain)
  /\ \A q \in incomplete : Made(q)
  /\ records \subseteq Nat \X Nat

\* A mail that is loaded has the packets that its metadata names.
EmailOK ==
  email # None =>
    /\ folder = "outbox" /\ texts # << >>
    /\ saved = Parts(Len(texts), email.packets, PartCount)
    /\ email.packets # {} => PartCount > 0
    /\ \A p \in email.packets : Made(p.plain)

\* The metadata of a mail that was sent is truthful, in the file and in memory.
SentOK ==
  /\ folder = "sent" => PartCount > 0 /\ Truthful(saved, Len(texts), PartCount, records, cut)
  /\ meta # None => folder = "sent" /\ Truthful(meta, Len(texts), PartCount, records, cut)

Inv == FileOK /\ PacketsOK /\ EmailOK /\ SentOK /\ ContentRestored

\* What the steps after LoadMail leave alone: the mail and the texts, and the file unless
\* a kill cuts it.
TextKept ==
  /\ UNCHANGED <<mail, texts>>
  /\ file' = file \/ (texts # << >> /\ file' \in Seq(Nat))

LEMMA BytesKept ==
  ASSUME UNCHANGED <<mail, texts>>
  PROVE  LastBytes' = LastBytes /\ PartCount' = PartCount
<1>1. LastBytes' = LastBytes
  BY DEF LastBytes, Recipient
<1> QED
  BY <1>1 DEF PartCount

LEMMA MadeKept ==
  ASSUME TextKept, NEW q, Made(q)
  PROVE  Made(q)'
  BY BytesKept DEF TextKept, Made

LEMMA PrefixIsSeq ==
  ASSUME NEW b \in Seq(Nat), NEW p \in Prefixes(b)
  PROVE  p \in Seq(Nat)
<1>1. PICK l \in 0 .. Len(b) : p = SubSeq(b, 1, l)
  BY DEF Prefixes
<1>2. Len(b) \in Nat /\ l \in Nat
  BY LenProperties
<1>3. \A i \in 1 .. l : b[i] \in Nat
  BY <1>2, ElementOfSeq
<1> QED
  BY <1>1, <1>2, <1>3, SubSeqProperties

\* The numbers that the parts of an attempt are counted with.
LEMMA FileNumbers ==
  ASSUME FileOK
  PROVE  /\ PartCount \in Nat /\ PartCount \in 0 .. UINT16 - 1 /\ Len(texts) \in Nat
         /\ LastBytes \in Seq(Nat)
<1>1. Len(texts) \in Nat /\ texts \in Seq(Seq(Nat))
  BY LenProperties DEF FileOK
<1>2. LastBytes \in Seq(Nat)
  <2>1. CASE texts = << >>
    BY <2>1 DEF LastBytes
  <2>2. CASE texts # << >>
    <3>1. texts[Len(texts)] \in Seq(Nat)
      BY <1>1, <2>2, ElementOfSeq, EmptySeq
    <3> QED
      BY <2>2, <3>1, CompressIsSeq DEF LastBytes
  <2> QED
    BY <2>1, <2>2
<1>3. PartCount \in 0 .. UINT16 - 1
  BY <1>2, SplitRestored, Zenon DEF PartCount
<1>4. PartCount \in Nat
  BY <1>3, SixDigitsBound, Zenon
<1> QED
  BY <1>1, <1>2, <1>3, <1>4

\* Init.
LEMMA InitInv == Init => Inv
<1> SUFFICES ASSUME Init PROVE Inv
  OBVIOUS
<1>1. mail.size \in Nat \ {0}
  BY DEF Init
<1>2. Text(mail.size) \in Seq(Nat) /\ << >> \in Seq(Seq(Nat)) /\ Len(<< >>) # 1
  BY <1>1, TextIsSeq
<1>3. FileOK
  BY <1>2 DEF Init, FileOK
<1>4. PacketsOK /\ EmailOK /\ SentOK
  BY DEF Init, PacketsOK, EmailOK, SentOK
<1>5. ContentRestored
  BY DEF Init, ContentRestored
<1> QED
  BY <1>3, <1>4, <1>5 DEF Inv

\* check_outbox () makes a new attempt of the file, and saves it or is killed in this.
LEMMA NewAttempt ==
  ASSUME Inv, Readable, texts' = Append(texts, fromMIME(file)),
         file' \in Prefixes(Bytes) \cup {Bytes}, meta' \in {meta, None},
         UNCHANGED <<mail, folder, dht, records, incomplete, inbox>>
  PROVE  /\ FileOK' /\ PacketsOK' /\ SentOK' /\ ContentRestored'
         /\ Len(texts') = Len(texts) + 1 /\ Len(texts) \in Nat /\ texts' # << >>
         /\ LastBytes' = Bytes
<1> DEFINE text == fromMIME(file)
           a == Len(texts) + 1
<1>1. file \in Seq(Nat) /\ texts \in Seq(Seq(Nat)) /\ mail \in Mails /\ Len(texts) \in Nat
  BY FileNumbers DEF Inv, FileOK
<1>2. text \in Seq(Nat) /\ Bytes \in Seq(Nat)
  BY <1>1, FromMIMEIsSeq, CompressIsSeq DEF Bytes
<1>3. file' \in Seq(Nat)
  BY <1>2, PrefixIsSeq
<1>4. texts' \in Seq(Seq(Nat)) /\ Len(texts') = a /\ texts'[a] = text /\ texts' # << >>
  <2> HIDE DEF text
  <2>1. /\ Append(texts, text) \in Seq(Seq(Nat)) /\ Len(Append(texts, text)) = Len(texts) + 1
        /\ Append(texts, text)[Len(texts) + 1] = text
    BY <1>1, <1>2, AppendProperties
  <2>2. texts' = Append(texts, text)
    BY DEF text
  <2>3. Len(texts') # 0
    BY <1>1, <2>1, <2>2
  <2>4. texts' # << >>
    BY <2>3
  <2> QED
    BY <2>1, <2>2, <2>4
<1>5. LastBytes' = Bytes
  BY <1>4 DEF LastBytes, Bytes, Recipient
<1>6. a = 1 => texts = << >>
  BY <1>1
<1>7. FileOK'
  <2>1. ASSUME a = 1 PROVE texts'[1] = Text(mail.size)
    <3>1. file = Text(mail.size)
      BY <1>6, <2>1 DEF Inv, FileOK
    <3>2. mail.size \in Nat \ {0}
      BY <1>1
    <3>3. text = file
      BY <3>1, <3>2, TextIsSeq DEF fromMIME
    <3> QED
      BY <1>4, <2>1, <3>1, <3>3
  <2> HIDE DEF text
  <2> QED
    BY <1>1, <1>3, <1>4, <2>1 DEF FileOK
<1> HIDE DEF text
<1>8. ASSUME NEW q, Made(q) PROVE Made(q)'
  <2>1. q.attempt \in 1 .. Len(texts) /\ q.fr_id \in Nat
    BY <1>8 DEF Made
  <2>2. q.attempt \in 1 .. a /\ a # 1
    BY <1>1, <2>1
  <2> QED
    BY <1>4, <2>1, <2>2 DEF Made
<1>9. PacketsOK'
  BY <1>8 DEF Inv, PacketsOK
<1>10. SentOK'
  BY DEF Inv, SentOK, Readable
<1>11. ContentRestored'
  BY <1>1, <1>4, <1>6 DEF Inv, FileOK, ContentRestored
<1> QED
  BY <1>1, <1>4, <1>5, <1>7, <1>9, <1>10, <1>11

LEMMA LoadMailStep ==
  ASSUME Inv, LoadMail
  PROVE  Inv'
<1> DEFINE to == Recipient
           type == identityByName(mail.from).type
           a == Len(texts) + 1
           parts == split(Bytes)
<1>1. PICK packets \in Encrypted :
        email' = [packets |-> packets, skip |-> packets = {}] /\ saved' = NewParts(packets)
  BY DEF LoadMail
<1>2. /\ FileOK' /\ PacketsOK' /\ SentOK' /\ ContentRestored'
      /\ Len(texts') = a /\ Len(texts) \in Nat /\ texts' # << >>
      /\ LastBytes' = Bytes
  BY NewAttempt DEF LoadMail, incoming
<1>3. PICK key \in CreateEncryptor(type, to) : packets = encrypt(type, key, to, a, parts)
  BY DEF Encrypted
<1>4. PartCount' = Len(parts) /\ PartCount' \in Nat
  <2>1. PartCount' = Len(parts)
    BY <1>2 DEF PartCount
  <2>2. Len(split(LastBytes')) \in 0 .. UINT16 - 1
    <3>1. Bytes \in Seq(Nat)
      BY FromMIMEIsSeq, CompressIsSeq DEF Inv, FileOK, Bytes
    <3> QED
      BY <1>2, <3>1, SplitRestored, Zenon
  <2> QED
    BY <1>2, <2>1, <2>2, SixDigitsBound, Zenon
<1>5. saved' = Parts(a, packets, Len(parts)) /\ folder' = "outbox"
  BY <1>1 DEF NewParts, LoadMail, Readable
<1> HIDE DEF to, type, parts
<1>6. ASSUME NEW p \in packets PROVE Made(p.plain)'
  <2>1. PICK i \in 0 .. Len(parts) - 1 : p.plain = Plain(a, i, parts)
    BY <1>3 DEF encrypt
  <2>2. p.plain.attempt = a /\ p.plain.fr_id = i
    BY <2>1 DEF Plain
  <2>3. i \in Nat /\ a \in 1 .. a
    BY <1>2, <1>4
  <2> QED
    BY <1>2, <1>4, <2>1, <2>2, <2>3 DEF Made, parts
<1>7. packets # {} => Len(parts) > 0
  BY <1>3, <1>4 DEF encrypt
<1>8. EmailOK'
  <2>1. email'.packets = packets
    BY <1>1
  <2> QED
    BY <1>2, <1>4, <1>5, <1>6, <1>7, <2>1 DEF EmailOK
<1> QED
  BY <1>2, <1>8 DEF Inv

LEMMA LoadKilledStep ==
  ASSUME Inv, LoadKilled
  PROVE  Inv'
<1>1. FileOK' /\ PacketsOK' /\ SentOK' /\ ContentRestored'
  BY NewAttempt DEF LoadKilled, Killed, incoming
<1>2. EmailOK'
  BY DEF LoadKilled, Killed, EmailOK
<1> QED
  BY <1>1, <1>2 DEF Inv

\* What the other steps of the sending daemon do to the invariant: the text is kept, and
\* so is the inbox.
LEMMA TextKeptStep ==
  ASSUME Inv, TextKept
  PROVE  /\ inbox' = inbox => FileOK' /\ ContentRestored'
         /\ PartCount' = PartCount
<1>1. PartCount' = PartCount
  BY BytesKept DEF TextKept
<1>2. ASSUME inbox' = inbox PROVE FileOK' /\ ContentRestored'
  BY <1>2 DEF Inv, FileOK, ContentRestored, TextKept, Recipient
<1> QED
  BY <1>1, <1>2

LEMMA SenderStep ==
  ASSUME Inv, Retry \/ SendFails \/ SendMail \/ Restart \/ SendKilled
  PROVE  Inv'
<1>1. /\ TextKept /\ UNCHANGED <<records, incomplete, inbox>>
      /\ UNCHANGED <<saved, cut>> \/ (SendKilled /\ saved' \in FirstLines(saved) /\ cut' = TRUE)
  <2>1. CASE Retry \/ SendFails \/ SendMail \/ Restart
    BY <2>1 DEF Retry, SendFails, SendMail, Restart, Killed, TextKept, incoming
  <2>2. CASE SendKilled
    <3>1. texts # << >> /\ file \in Seq(Nat)
      BY <2>2 DEF SendKilled, Inv, EmailOK, FileOK
    <3>2. file' = file \/ file' \in Seq(Nat)
      BY <2>2, <3>1, PrefixIsSeq DEF SendKilled
    <3> QED
      BY <2>2, <3>1, <3>2 DEF SendKilled, Killed, TextKept, incoming
  <2> QED
    BY <2>1, <2>2
<1>2. FileOK' /\ ContentRestored' /\ PartCount' = PartCount
  BY <1>1, TextKeptStep
<1>3. /\ meta' = meta \/ meta' = None
      /\ email' = None \/ (/\ email # None /\ email'.packets = email.packets
                             /\ UNCHANGED <<folder, saved>>)
  <2>1. CASE Retry
    BY <2>1 DEF Retry
  <2>2. CASE SendFails
    BY <2>2 DEF SendFails
  <2>3. CASE SendMail
    BY <2>3 DEF SendMail
  <2>4. CASE Restart
    BY <2>4 DEF Restart, Killed
  <2>5. CASE SendKilled
    BY <2>5 DEF SendKilled, Killed
  <2> QED
    BY <2>1, <2>2, <2>3, <2>4, <2>5
<1>4. \A p \in dht' : Made(p.plain)
  <2>1. dht' \subseteq dht \/ (email # None /\ dht' \subseteq dht \cup email.packets)
    BY DEF Retry, SendFails, SendMail, Restart, SendKilled
  <2> QED
    BY <2>1 DEF Inv, PacketsOK, EmailOK
<1>5. PacketsOK'
  BY <1>1, <1>4, MadeKept DEF Inv, PacketsOK
<1>6. EmailOK'
  <2> SUFFICES ASSUME email' # None PROVE EmailOK'
    BY DEF EmailOK
  <2>1. email # None /\ email'.packets = email.packets /\ UNCHANGED <<folder, saved>>
    BY <1>3
  <2>2. \A p \in email'.packets : Made(p.plain)'
    BY <1>1, <2>1, MadeKept DEF Inv, EmailOK
  <2> QED
    BY <1>1, <1>2, <2>1, <2>2 DEF Inv, EmailOK, TextKept
<1>7. SentOK'
  <2>1. PartCount \in Nat /\ Len(texts) \in Nat /\ Len(texts') = Len(texts)
    BY <1>1, FileNumbers DEF Inv, TextKept
  <2>3. CASE Retry \/ SendFails \/ Restart
    <3>1. UNCHANGED <<folder, saved, cut>>
      BY <2>3 DEF Retry, SendFails, Restart
    <3> QED
      BY <1>1, <1>2, <1>3, <2>1, <3>1 DEF Inv, SentOK
  <2>4. CASE SendMail \/ SendKilled
    <3>1. email # None /\ email.packets # {}
      BY <2>4 DEF SendMail, SendKilled
    <3>2. folder = "outbox" /\ PartCount > 0 /\ saved = Parts(Len(texts), email.packets, PartCount)
      BY <3>1 DEF Inv, EmailOK
    <3>3. Truthful(saved, Len(texts), PartCount, records, cut)
      BY <2>1, <3>1, <3>2, PartsTruthful
    <3>4. meta' = None
      BY <1>3, <3>2 DEF Inv, SentOK
    <3>5. Truthful(saved', Len(texts), PartCount, records, cut')
      <4>1. CASE UNCHANGED <<saved, cut>>
        BY <3>3, <4>1
      <4>2. CASE saved' \in FirstLines(saved) /\ cut' = TRUE
        BY <2>1, <3>3, <4>2, CutTruthful
      <4> QED
        BY <1>1, <4>1, <4>2
    <3> QED
      BY <1>1, <1>2, <2>1, <3>2, <3>4, <3>5 DEF SentOK
  <2> QED
    BY <2>3, <2>4
<1> QED
  BY <1>2, <1>5, <1>6, <1>7 DEF Inv

\* check_sentbox () and check_delivery_task, which may be killed in its save.
LEMMA DeliveryStep ==
  ASSUME Inv, CheckSentbox \/ CheckDelivery \/ DeliveryKilled
  PROVE  Inv'
<1>1. /\ TextKept /\ UNCHANGED <<folder, dht, records, incomplete, inbox>>
      /\ folder = "sent" /\ email' \in {email, None}
  BY DEF CheckSentbox, CheckDelivery, DeliveryKilled, Killed, TextKept, outgoing, incoming, Inv,
         SentOK
<1>2. FileOK' /\ ContentRestored' /\ PartCount' = PartCount
  BY <1>1, TextKeptStep
<1>3. PacketsOK'
  BY <1>1, MadeKept DEF Inv, PacketsOK
<1>4. EmailOK'
  BY <1>1 DEF Inv, EmailOK
<1>5. PartCount \in Nat \ {0} /\ PartCount \in 1 .. UINT16 - 1 /\ Len(texts) \in Nat
  <2>1. PartCount \in Nat /\ PartCount \in 0 .. UINT16 - 1 /\ Len(texts) \in Nat /\ PartCount > 0
    BY <1>1, FileNumbers DEF Inv, SentOK
  <2> QED
    BY <2>1, SixDigitsBound
<1>6. Len(texts') = Len(texts)
  BY <1>1 DEF TextKept
<1>8. Truthful(saved, Len(texts), PartCount, records, cut)
  BY <1>1 DEF Inv, SentOK
<1>9. CASE CheckSentbox
  <2>1. Truthful(load(saved), Len(texts), PartCount, records, cut)
    BY <1>5, <1>8, LoadTruthful
  <2>2. cut' = cut /\ saved' = saved /\ meta' = load(saved)
    BY <1>9 DEF CheckSentbox, outgoing
  <2>3. SentOK'
    BY <1>1, <1>2, <1>5, <1>6, <1>8, <2>1, <2>2 DEF SentOK
  <2> QED
    BY <1>2, <1>3, <1>4, <2>3 DEF Inv
<1>10. CASE CheckDelivery \/ DeliveryKilled
  <2>1. meta # None /\ ~delivered(meta)
    BY <1>10 DEF CheckDelivery, DeliveryKilled
  <2>2. Truthful(meta, Len(texts), PartCount, records, cut)
    BY <2>1 DEF Inv, SentOK
  <2>3. DOMAIN meta # {} /\ None \notin records
    BY <2>1 DEF delivered, Inv, PacketsOK
  <2>4. ASSUME NEW K \in Answered PROVE Truthful(fill(meta, K), Len(texts), PartCount, records, cut)
    <3>1. K \in SUBSET records
      BY DEF Answered
    <3> QED
      BY <1>5, <2>2, <2>3, <3>1, FillTruthful
  <2>5. CASE CheckDelivery
    <3>1. PICK K \in Answered : meta' = fill(meta, K) /\ saved' = meta' /\ cut' = cut
      BY <2>5 DEF CheckDelivery
    <3>2. SentOK'
      BY <1>1, <1>2, <1>5, <1>6, <2>4, <3>1 DEF SentOK
    <3> QED
      BY <1>2, <1>3, <1>4, <3>2 DEF Inv
  <2>6. CASE DeliveryKilled
    <3>1. PICK K \in Answered : saved' \in FirstLines(fill(meta, K))
      BY <2>6 DEF DeliveryKilled
    <3>2. cut' = TRUE /\ meta' = None
      BY <2>6 DEF DeliveryKilled, Killed
    <3>3. Truthful(saved', Len(texts), PartCount, records, cut')
      <4>1. Truthful(fill(meta, K), Len(texts), PartCount, records, cut)
        BY <2>4
      <4> QED
        BY <1>5, <3>1, <3>2, <4>1, CutTruthful
    <3>4. SentOK'
      BY <1>1, <1>2, <1>5, <1>6, <3>2, <3>3 DEF SentOK
    <3> QED
      BY <1>2, <1>3, <1>4, <3>4 DEF Inv
  <2> QED
    BY <1>10, <2>5, <2>6
<1> QED
  BY <1>9, <1>10

\* A key decrypts a packet to what was encrypted, or to nothing.
LEMMA DecryptPlain ==
  ASSUME NEW id \in peers, NEW c
  PROVE  Decrypt(id, c) \in {c.plain, None}
<1>1. id.type \in KeyTypes
  BY DEF peers, parse_identity, parse_identity_v0, parse_identity_v1, KeyTypes
<1> QED
  BY <1>1 DEF Decrypt, KeyTypes, ECDHP256Decrypt, ECDHP521Decrypt, X25519Decrypt, aes_decrypt

\* check_email_task.
LEMMA RetrieveStep ==
  ASSUME Inv, NEW id \in peers, NEW lost, Retrieve(id, lost)
  PROVE  Inv'
<1>1. TextKept /\ UNCHANGED <<email, folder, saved, cut, meta, dht, records, inbox>>
  BY DEF Retrieve, TextKept, outgoing
<1>2. FileOK' /\ ContentRestored' /\ PartCount' = PartCount
  BY <1>1, TextKeptStep
<1>3. \A q \in incomplete' : Made(q)
  <2> SUFFICES ASSUME NEW q \in incomplete', q \notin incomplete PROVE Made(q)
    BY DEF Inv, PacketsOK
  <2>1. PICK p \in dht : q = Decrypt(id, p) /\ q # None
    BY DEF Retrieve
  <2>2. q = p.plain
    BY <2>1, DecryptPlain
  <2> QED
    BY <2>2 DEF Inv, PacketsOK
<1>4. PacketsOK'
  BY <1>1, <1>3, MadeKept DEF Inv, PacketsOK
<1>5. EmailOK'
  BY <1>1, <1>2, MadeKept DEF Inv, EmailOK, TextKept
<1>6. SentOK'
  BY <1>1, <1>2 DEF Inv, SentOK, Truthful, TextKept
<1> QED
  BY <1>2, <1>4, <1>5, <1>6 DEF Inv

\* Email::restore () of all the parts of an attempt gives what they were made of.
LEMMA RestoredFile ==
  ASSUME Inv, Len(texts) = 1, NEW P \in SUBSET incomplete, NEW q \in incomplete,
         Cardinality(P) = q.fr_count, restore(P) # None
  PROVE  restore(P) = Received(Recipient.type, texts[1])
<1> DEFINE parts == split(LastBytes)
           n == Len(parts)
           data == [i \in 1 .. n |-> (CHOOSE p \in P : p.fr_id = i - 1).data]
<1>1. LastBytes \in Seq(Nat) /\ n \in Nat /\ n = PartCount
  BY FileNumbers DEF Inv, FileOK, PartCount
<1>2. parts = [i \in 1 .. n |-> parts[i]] /\ (n > 0 => FlattenSeq(parts) = LastBytes)
  BY <1>1, SplitRestored, Zenon
<1> HIDE DEF parts
<1>3. ASSUME NEW p \in incomplete
      PROVE  \E i \in 0 .. n - 1 : p = Plain(1, i, parts)
  BY <1>1 DEF Inv, PacketsOK, Made, parts
<1>4. ASSUME NEW p \in incomplete
      PROVE  /\ p.fr_id \in 0 .. n - 1 /\ p.data = parts[p.fr_id + 1] /\ p.fr_count = n
  BY <1>3 DEF Plain
<1>5. n > 0 /\ Cardinality(P) = n
  BY <1>1, <1>4
<1>6. /\ \A k \in 0 .. n - 1 : \E p \in P : p.fr_id = k
      /\ restore(P) = decompress(FlattenSeq(data))
  BY <1>5 DEF restore
<1>7. ASSUME NEW i \in 1 .. n PROVE data[i] = parts[i]
  <2> DEFINE p == CHOOSE p \in P : p.fr_id = i - 1
  <2>1. i - 1 \in 0 .. n - 1 /\ (i - 1) + 1 = i
    BY <1>1
  <2>2. p \in P /\ p.fr_id = i - 1
    BY <1>6, <2>1
  <2>3. data[i] = p.data
    OBVIOUS
  <2> HIDE DEF p, data
  <2> QED
    BY <1>4, <2>1, <2>2, <2>3
<1>8. data = parts
  <2>1. data = [i \in 1 .. n |-> data[i]]
    OBVIOUS
  <2> HIDE DEF data, n
  <2> QED
    BY <1>2, <1>7, <2>1
<1>9. restore(P) = decompress(LastBytes)
  BY <1>2, <1>5, <1>6, <1>8
<1>10. /\ LastBytes = compress(Recipient, Text(mail.size)) /\ texts[1] = Text(mail.size)
       /\ mail.size \in Nat \ {0}
  <2>1. texts # << >>
    OBVIOUS
  <2> QED
    BY <2>1 DEF Inv, FileOK, LastBytes
<1> QED
  BY <1>9, <1>10, TextDecompressed

\* incomplete_email_task.
LEMMA AssembleStep ==
  ASSUME Inv, NEW P \in get_incomplete, NEW lost, Assemble(P, lost)
  PROVE  Inv'
<1> DEFINE D == {Key(p) : p \in P \ lost}
<1>1. P \in SUBSET incomplete
  BY DEF get_incomplete
<1>2. /\ TextKept /\ UNCHANGED <<email, folder, saved, cut, meta>>
      /\ inbox = None /\ inbox' = restore(P) /\ restore(P) # None
      /\ incomplete' \subseteq incomplete /\ dht' \subseteq dht /\ records' = records \cup D
  BY DEF Assemble, TextKept, outgoing
<1>3. PICK q \in incomplete : Cardinality(P) = q.fr_count
  BY DEF Assemble
<1>4. PartCount' = PartCount /\ Recipient' = Recipient
  BY <1>2, BytesKept DEF TextKept, Recipient
<1>5. ContentRestored'
  BY <1>1, <1>2, <1>3, <1>4, RestoredFile DEF ContentRestored, TextKept, Recipient
<1>6. FileOK'
  <2>1. texts # << >>
    <3>1. q.attempt \in 1 .. Len(texts)
      BY <1>3 DEF Inv, PacketsOK, Made
    <3> QED
      BY <3>1
  <2> QED
    BY <1>2, <1>4, <2>1 DEF Inv, FileOK, TextKept
<1>7. PacketsOK'
  <2>1. D \subseteq Nat \X Nat
    <3>1. Len(texts) \in Nat
      BY FileNumbers DEF Inv
    <3>2. \A p \in incomplete : p.attempt \in Nat /\ p.fr_id \in Nat
      BY <3>1 DEF Inv, PacketsOK, Made
    <3> QED
      BY <1>1, <3>2 DEF Key
  <2> HIDE DEF D
  <2> QED
    BY <1>2, <2>1, MadeKept DEF Inv, PacketsOK
<1>8. EmailOK'
  BY <1>2, <1>4, MadeKept DEF Inv, EmailOK, TextKept
<1>9. SentOK'
  <2> HIDE DEF D
  <2> QED
    BY <1>2, <1>4 DEF Inv, SentOK, Truthful, TextKept
<1> QED
  BY <1>5, <1>6, <1>7, <1>8, <1>9 DEF Inv

\* A step that changes nothing.
LEMMA Stutter ==
  ASSUME Inv, UNCHANGED vars
  PROVE  Inv'
<1>1. TextKept /\ UNCHANGED <<email, folder, saved, cut, meta, dht, records, incomplete, inbox>>
  BY DEF vars, outgoing, incoming, TextKept
<1>2. FileOK' /\ ContentRestored' /\ PartCount' = PartCount
  BY <1>1, TextKeptStep
<1>3. PacketsOK'
  BY <1>1, MadeKept DEF Inv, PacketsOK
<1>4. EmailOK'
  BY <1>1, <1>2, MadeKept DEF Inv, EmailOK, TextKept
<1>5. SentOK'
  BY <1>1, <1>2 DEF Inv, SentOK, Truthful, TextKept
<1> QED
  BY <1>2, <1>3, <1>4, <1>5 DEF Inv

-----------------------------------------------------------------------------
(* Theorems *)

\* The packets are parts of what they were made of, and the metadata of a mail that was
\* sent says nothing that there are no deletion records for.
THEOREM FormatInvariant == Spec => []Inv
<1>1. Init => Inv
  BY InitInv
<1>2. Inv /\ [Next]_vars => Inv'
  <2> SUFFICES ASSUME Inv, [Next]_vars PROVE Inv'
    OBVIOUS
  <2>1. CASE LoadMail
    BY <2>1, LoadMailStep
  <2>2. CASE Retry \/ SendFails \/ SendMail \/ Restart \/ SendKilled
    BY <2>2, SenderStep
  <2>3. CASE CheckSentbox \/ CheckDelivery \/ DeliveryKilled
    BY <2>3, DeliveryStep
  <2>4. ASSUME NEW id \in peers, NEW lost \in Missed(dht), Retrieve(id, lost) PROVE Inv'
    BY <2>4, RetrieveStep
  <2>5. ASSUME NEW P \in get_incomplete, NEW lost \in Missed(P), Assemble(P, lost) PROVE Inv'
    BY <2>5, AssembleStep
  <2>6. CASE UNCHANGED vars
    BY <2>6, Stutter
  <2>7. CASE LoadKilled
    BY <2>7, LoadKilledStep
  <2> QED
    BY <2>1, <2>2, <2>3, <2>4, <2>5, <2>6, <2>7 DEF Next
<1> QED
  BY <1>1, <1>2, PTL DEF Spec

\* The recipient's inbox holds the text of the mail, byte for byte but for X25519, if it
\* was prepared once: compress (), split (), encrypt (), Decrypt (), restore () and
\* decompress () fit together for every length of the mail and of the parts.
THEOREM TextArrives == Spec => []ContentRestored
<1>1. Inv => ContentRestored
  BY DEF Inv
<1> QED
  BY <1>1, FormatInvariant, PTL

\* A part is marked only when there is a deletion record of its packet, and, unless a kill
\* has cut the metadata, a mail is taken for delivered only when there are records of all
\* its parts but those that load () mistakes for others.
THEOREM DeliveredWasDeleted == Spec => []ConfirmedDeleted
<1>1. Inv => ConfirmedDeleted
  <2> SUFFICES ASSUME Inv, meta # None PROVE ConfirmedDeleted
    BY DEF ConfirmedDeleted
  <2>1. Truthful(meta, Len(texts), PartCount, records, cut)
    BY DEF Inv, SentOK
  <2>2. \A id \in DOMAIN meta : meta[id].delivered => meta[id].key \in records
    BY <2>1 DEF Truthful
  <2>3. ASSUME ~cut, delivered(meta), NEW i \in 0 .. PartCount - 1, Uncovered(PartCount, i)
        PROVE  <<Len(texts), i>> \in records
    BY <2>1, <2>2, <2>3 DEF Truthful, delivered
  <2>4. PartCount = Len(split(compress(Recipient, texts[Len(texts)])))
    <3>1. PartCount > 0
      BY DEF Inv, SentOK
    <3>2. texts # << >>
      BY EmptyUnsplit, <3>1 DEF PartCount, LastBytes
    <3> QED
      BY <3>2 DEF PartCount, LastBytes
  <2> QED
    BY <2>2, <2>3, <2>4 DEF ConfirmedDeleted, Uncovered
<1> QED
  BY <1>1, FormatInvariant, PTL
=============================================================================
