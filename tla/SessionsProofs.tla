---------------------------- MODULE SessionsProofs -----------------------------
(***************************************************************************)
(* Theorems about Sessions, for any descriptors, mails, connections and    *)
(* limits.                                                                 *)
(***************************************************************************)
EXTENDS Sessions, FiniteSetTheorems, SequenceTheorems, WellFoundedInduction, TLAPS

USE SessionsAssumption

-----------------------------------------------------------------------------
(* The inductive invariant *)

\* The threads have the descriptors that they were given by accept ().
NetOK ==
  /\ sock \in [Fds -> Conns \cup {Closed}]
  /\ client \in [Conns -> [to : Servers, did : {"none", "queued", "open", "gone", "reset", "quit"}]]
  /\ fd \in [Servers -> Fds \cup {-1}]
  /\ pc \in [Servers -> {"accept", "loop", "wait", "data", "finish"}]
  /\ waits \in [Servers -> Conns \cup {Closed}]
  /\ \A s \in Servers : pc[s] = "wait" => waits[s] \in Conns
  /\ \A s \in Servers : pc[s] # "accept" => fd[s] \in Fds

\* An open descriptor belongs to a session, so that a server that accepts finds a free
\* one: the second close () of a session leaves nothing open.
OpenOK ==
  \A f \in Fds : sock[f] # Closed => \E s \in Servers : fd[s] = f /\ pc[s] # "accept"

SmtpOK ==
  /\ smtp_state \in {"QUIT", "INIT", "HELO", "MAIL", "RCPT", "DATA", "AUTH"}
  /\ rcpt_user_num \in 0 .. MaxRcpt
  /\ mail \in Messages \cup {Empty, "none", "overwritten"}
  /\ outbox \subseteq Messages \cup {Empty} /\ lost \subseteq Messages \cup {Empty}

\* The list names files that were in the inbox when it was read.
PopOK ==
  /\ pop_state \in {"QUIT", "USER", "PASS", "TRANSACTION"}
  /\ emails \in Seq([file : Files, deleted : BOOLEAN])
  /\ inbox \subseteq Files /\ seen \subseteq Files /\ unread \subseteq Files
  /\ \A i \in DOMAIN emails : emails[i].file \in seen

CountOK == commands \in 0 .. MaxCommands

CrashOK == crashed \in BOOLEAN

Inv == NetOK /\ OpenOK /\ SmtpOK /\ PopOK /\ CountOK /\ CrashOK

-----------------------------------------------------------------------------
(* Descriptors *)

\* A set of numbers that is not empty has a least one.
LEMMA LeastNat ==
  ASSUME NEW S \in SUBSET Nat, S # {}
  PROVE  \E x \in S : \A y \in S : x <= y
<1>1. PICK x \in S : \A y \in S : ~(<<y, x>> \in OpToRel(<, Nat))
  BY NatLessThanWellFounded, WFMin
<1>2. \A y \in S : ~(y < x)
  BY <1>1 DEF OpToRel
<1> QED
  BY <1>2

\* There is a second descriptor.
LEMMA AnotherFd ==
  ASSUME NEW f
  PROVE  \E g \in Fds : g # f
<1> SUFFICES ASSUME \A g \in Fds : g = f PROVE FALSE
  OBVIOUS
<1>1. Fds \in SUBSET {f}
  OBVIOUS
<1>2. IsFiniteSet({f}) /\ Cardinality({f}) = 1
  BY FS_Singleton
<1>3. Cardinality(Fds) <= 1 /\ IsFiniteSet(Fds)
  BY <1>1, <1>2, FS_Subset
<1>4. Cardinality(Fds) \in Nat
  BY <1>3, FS_CardinalityType
<1> QED
  BY <1>3, <1>4

freeFd == CHOOSE g \in Fds : sock[g] = Closed /\ \A h \in Fds : sock[h] = Closed => g <= h

\* A server that accepts gets a descriptor that is closed.
LEMMA FreeFd ==
  ASSUME NetOK, OpenOK, NEW s \in Servers, pc[s] = "accept"
  PROVE  freeFd \in Fds /\ sock[freeFd] = Closed
<1> DEFINE S == {g \in Fds : sock[g] = Closed}
<1>1. PICK u \in Servers : Servers = {s, u}
  BY DEF Servers
<1>2. PICK g \in Fds : g # fd[u]
  BY AnotherFd
<1>3. g \in S
  BY <1>1, <1>2 DEF OpenOK
<1>4. PICK x \in S : \A y \in S : x <= y
  BY <1>3, LeastNat
<1>5. \E f \in Fds : sock[f] = Closed /\ \A h \in Fds : sock[h] = Closed => f <= h
  BY <1>4
<1> QED
  BY <1>5 DEF freeFd

-----------------------------------------------------------------------------
(* The initial states *)

LEMMA InvInit == Init => Inv
<1> SUFFICES ASSUME Init PROVE Inv
  OBVIOUS
<1>1. NetOK /\ OpenOK
  BY DEF Init, NetOK, OpenOK, Servers
<1>2. SmtpOK
  BY DEF Init, SmtpOK
<1>3. PopOK
  BY DEF Init, PopOK
<1>4. CountOK
  BY DEF Init, CountOK
<1>5. CrashOK
  BY DEF Init, CrashOK
<1> QED
  BY <1>1, <1>2, <1>3, <1>4, <1>5 DEF Inv

-----------------------------------------------------------------------------
(* The connections and the threads *)

\* A thread of a session answers and goes back to its loop.
LEMMA RespondsStep ==
  ASSUME NetOK, OpenOK, NEW s \in Servers, pc[s] \in {"wait", "data"}, Responds(s)
  PROVE  NetOK' /\ OpenOK'
<1>1. NetOK'
  BY DEF NetOK, Responds, Closed
<1>2. OpenOK'
  BY DEF NetOK, OpenOK, Responds
<1> QED
  BY <1>1, <1>2

\* A command that is read and answered.
LEMMA CommandStep ==
  ASSUME NetOK, OpenOK, NEW s \in Servers, \E c \in Conns : Hears(s, c), Responds(s)
  PROVE  NetOK' /\ OpenOK'
BY RespondsStep DEF Hears

\* Descriptors, connections and threads keep their types, and what is open has an owner.
LEMMA NetStep == NetOK /\ OpenOK /\ [Next]_vars => NetOK' /\ OpenOK'
<1> SUFFICES ASSUME NetOK, OpenOK, [Next]_vars PROVE NetOK' /\ OpenOK'
  OBVIOUS
<1>1. CASE UNCHANGED net
  BY <1>1 DEF net, NetOK, OpenOK
<1>2. ASSUME NEW s \in Servers, Recv(s) PROVE NetOK' /\ OpenOK'
  <2>1. NetOK'
    BY <1>2 DEF Recv, NetOK
  <2>2. OpenOK'
    BY <1>2 DEF Recv, OpenOK, NetOK
  <2> QED
    BY <2>1, <2>2
<1>3. ASSUME NEW s \in Servers, RecvFails(s) PROVE NetOK' /\ OpenOK'
  <2>1. NetOK'
    BY <1>3 DEF RecvFails, NetOK
  <2>2. OpenOK'
    BY <1>3 DEF RecvFails, OpenOK, NetOK
  <2> QED
    BY <2>1, <2>2
<1>4. ASSUME NEW s \in Servers, Finish(s) PROVE NetOK' /\ OpenOK'
  <2>1. NetOK'
    BY <1>4 DEF Finish, NetOK, close
  <2>2. OpenOK'
    BY <1>4 DEF Finish, OpenOK, NetOK, close
  <2> QED
    BY <2>1, <2>2
<1>5. ASSUME NEW s \in Servers, NEW c \in Conns, Connect(c, s) PROVE NetOK' /\ OpenOK'
  <2>1. NetOK'
    BY <1>5 DEF Connect, NetOK
  <2>2. OpenOK'
    BY <1>5 DEF Connect, OpenOK
  <2> QED
    BY <2>1, <2>2
<1>6. ASSUME NEW c \in Conns, Disconnect(c) PROVE NetOK' /\ OpenOK'
  <2>1. NetOK'
    BY <1>6 DEF Disconnect, NetOK
  <2>2. OpenOK'
    BY <1>6 DEF Disconnect, OpenOK
  <2> QED
    BY <2>1, <2>2
<1>7. ASSUME NEW s \in Servers, NEW c \in Conns, Accept(s, c) PROVE NetOK' /\ OpenOK'
  <2>1. freeFd \in Fds /\ sock[freeFd] = Closed
    BY <1>7, FreeFd DEF Accept
  <2>2. /\ sock' = [sock EXCEPT ![freeFd] = c] /\ fd' = [fd EXCEPT ![s] = freeFd]
        /\ client' = [client EXCEPT ![c].did = "open"]
        /\ pc' = [pc EXCEPT ![s] = "loop"] /\ waits' = waits /\ pc[s] = "accept"
    BY <1>7 DEF Accept, freeFd
  <2>3. NetOK'
    BY <2>1, <2>2 DEF NetOK
  <2>4. OpenOK'
    BY <2>1, <2>2 DEF NetOK, OpenOK
  <2> QED
    BY <2>3, <2>4
<1>8. ASSUME NEW s \in Servers, NEW c \in Conns, QUIT(s, c) PROVE NetOK' /\ OpenOK'
  <2>1. /\ client' = [client EXCEPT ![c].did = "quit"] /\ sock' = [sock EXCEPT ![fd[s]] = Closed]
        /\ pc' = [pc EXCEPT ![s] = "finish"] /\ waits' = [waits EXCEPT ![s] = Closed]
        /\ fd' = fd /\ pc[s] = "wait"
    BY <1>8 DEF QUIT, Reads, Hears, close
  <2>2. NetOK'
    BY <2>1 DEF NetOK
  <2>3. OpenOK'
    BY <2>1 DEF NetOK, OpenOK
  <2> QED
    BY <2>2, <2>3
<1>9. CASE DATA
  <2>1. /\ pc' = [pc EXCEPT !["smtp"] = "data"] /\ waits' = [waits EXCEPT !["smtp"] = sock[fd["smtp"]]]
        /\ UNCHANGED <<sock, client, fd>> /\ pc["smtp"] = "wait" /\ "smtp" \in Servers
    BY <1>9 DEF DATA, SmtpReads, Reads, Hears, Servers
  <2>2. NetOK'
    BY <2>1 DEF NetOK
  <2>3. OpenOK'
    BY <2>1 DEF NetOK, OpenOK
  <2> QED
    BY <2>2, <2>3
<1>10. ASSUME NEW s \in Servers, Answers(s) PROVE NetOK' /\ OpenOK'
  BY <1>10, CommandStep DEF Answers
<1>11. "smtp" \in Servers /\ "pop3" \in Servers
  BY DEF Servers
<1>12. CASE HELO \/ MAIL \/ AUTH \/ RSET \/ \E known \in BOOLEAN : RCPT(known)
  <2>1. (\E c \in Conns : Hears("smtp", c)) /\ Responds("smtp")
    BY <1>12 DEF HELO, MAIL, AUTH, RSET, RCPT, SmtpReads, Reads
  <2> QED
    BY <1>11, <2>1, CommandStep
<1>13. CASE USER \/ APOP \/ (\E mark \in BOOLEAN : PASS(mark)) \/ \E n \in 1 .. Cardinality(Files) : DELE(n)
  <2>1. (\E c \in Conns : Hears("pop3", c)) /\ Responds("pop3")
    BY <1>13 DEF USER, APOP, PASS, DELE, PopReads, Reads
  <2> QED
    BY <1>11, <2>1, CommandStep
<1>14. CASE DATAFails \/ DATAUndefined \/ \E m \in Messages \cup {Empty} : DATAReceived(m)
  <2>1. pc["smtp"] = "data" /\ (Responds("smtp") \/ UNCHANGED net)
    BY <1>14 DEF DATAFails, DATAUndefined, DATAReceived
  <2> QED
    BY <1>1, <1>11, <2>1, RespondsStep
<1>15. CASE BadNumber \/ (\E m \in Messages \cup {Empty} : Send(m)) \/ (\E f \in Files : Arrive(f))
            \/ UNCHANGED vars
  <2>1. UNCHANGED net
    BY <1>15 DEF BadNumber, Send, Arrive, vars
  <2> QED
    BY <1>1, <2>1
<1> QED
  BY <1>2, <1>3, <1>4, <1>5, <1>6, <1>7, <1>8, <1>9, <1>10, <1>11, <1>12, <1>13, <1>14, <1>15
     DEF Next, ThreadStep, SmtpCommand, PopCommand, EHLO, VRFY, EXPN, STAT, PopRSET, UIDL

-----------------------------------------------------------------------------
(* The SMTP server and the outbox *)

\* The steps that leave the state of the SMTP server alone.
LEMMA NotSmtp ==
  ASSUME \/ UNCHANGED vars
         \/ \E s \in Servers : \/ Recv(s) \/ RecvFails(s) \/ Finish(s) \/ Answers(s)
                             \/ \E c \in Conns : Connect(c, s)
         \/ \E c \in Conns : Disconnect(c)
         \/ DATA \/ DATAFails \/ PopCommand
         \/ \E f \in Files : Arrive(f)
  PROVE  UNCHANGED smtp
<1>1. ASSUME NEW s \in Servers, Answers(s) PROVE UNCHANGED smtp
  BY <1>1 DEF Answers
<1>2. ASSUME NEW s \in Servers,
             Recv(s) \/ RecvFails(s) \/ Finish(s) \/ \E c \in Conns : Connect(c, s)
      PROVE  UNCHANGED smtp
  BY <1>2 DEF Recv, RecvFails, Finish, Connect
<1>3. CASE DATA \/ DATAFails \/ (\E c \in Conns : Disconnect(c)) \/ (\E f \in Files : Arrive(f))
  BY <1>3 DEF DATA, DATAFails, Disconnect, Arrive
<1>4. CASE PopCommand
  BY <1>1, <1>4
     DEF PopCommand, Answers, STAT, PopRSET, UIDL, USER, APOP, PASS, DELE, BadNumber
<1>5. CASE UNCHANGED vars
  BY <1>5 DEF vars
<1> QED
  BY <1>1, <1>2, <1>3, <1>4, <1>5

\* The steps of Next, those of the SMTP server one by one.
LEMMA SmtpCases ==
  ASSUME [Next]_vars
  PROVE  \/ UNCHANGED smtp
         \/ \E s \in Servers, c \in Conns : Accept(s, c) \/ QUIT(s, c)
         \/ HELO \/ MAIL \/ AUTH \/ RSET \/ DATAUndefined
         \/ \E known \in BOOLEAN : RCPT(known)
         \/ \E m \in Messages \cup {Empty} : DATAReceived(m) \/ Send(m)
<1>1. "smtp" \in Servers
  BY DEF Servers
<1> QED
  BY <1>1, NotSmtp DEF Next, ThreadStep, SmtpCommand, EHLO, VRFY, EXPN

\* The state of the SMTP server keeps its type.
LEMMA SmtpStep == SmtpOK /\ [Next]_vars => SmtpOK'
<1> SUFFICES ASSUME SmtpOK, [Next]_vars PROVE SmtpOK'
  OBVIOUS
<1> USE DEF SmtpOK
<1>1. CASE UNCHANGED smtp
  BY <1>1 DEF smtp
<1>2. ASSUME NEW s \in Servers, NEW c \in Conns, Accept(s, c) PROVE SmtpOK'
  BY <1>2 DEF Accept
<1>3. ASSUME NEW s \in Servers, NEW c \in Conns, QUIT(s, c) PROVE SmtpOK'
  BY <1>3 DEF QUIT
<1>4. CASE HELO
  BY <1>4 DEF HELO
<1>5. CASE MAIL \/ AUTH \/ RSET
  BY <1>5 DEF MAIL, AUTH, RSET
<1>6. CASE DATAUndefined
  BY <1>6 DEF DATAUndefined, smtp
<1>7. ASSUME NEW known \in BOOLEAN, RCPT(known) PROVE SmtpOK'
  <2>1. rcpt_user_num' \in 0 .. MaxRcpt
    BY <1>7 DEF RCPT
  <2>2. mail' \in {mail, "overwritten"}
    BY <1>7 DEF RCPT
  <2> QED
    BY <1>7, <2>1, <2>2 DEF RCPT
<1>8. ASSUME NEW m \in Messages \cup {Empty}, DATAReceived(m) PROVE SmtpOK'
  <2>1. compose(m) \in Messages \cup {Empty}
    BY <1>8 DEF compose, DATAReceived
  <2> QED
    BY <1>8, <2>1 DEF DATAReceived, save
<1>9. ASSUME NEW m \in Messages \cup {Empty}, Send(m) PROVE SmtpOK'
  BY <1>9 DEF Send
<1> QED
  BY <1>1, <1>2, <1>3, <1>4, <1>5, <1>6, <1>7, <1>8, <1>9, SmtpCases

-----------------------------------------------------------------------------
(* The POP3 server and the inbox *)

\* What the list of a login names is in the inbox.
LEMMA CheckInbox ==
  ASSUME PopOK, NEW mark \in BOOLEAN
  PROVE  /\ check_inbox(mark) \in Seq([file : Files, deleted : BOOLEAN])
         /\ \A i \in DOMAIN check_inbox(mark) : check_inbox(mark)[i].file \in inbox
<1>1. IsFiniteSet(inbox)
  <2>1. IsFiniteSet({"mail", "meta"})
    <3>1. IsFiniteSet({"mail"})
      BY FS_Singleton
    <3>2. IsFiniteSet({"mail"} \cup {"meta"})
      BY <3>1, FS_AddElement
    <3>3. {"mail"} \cup {"meta"} = {"mail", "meta"}
      OBVIOUS
    <3> QED
      BY <3>2, <3>3
  <2>2. IsFiniteSet(Files)
    BY <2>1, FS_Product DEF Files
  <2> QED
    BY <2>2, FS_Subset DEF PopOK
<1>2. Cardinality(inbox) \in Nat /\ ExistsBijection(1 .. Cardinality(inbox), inbox)
  BY <1>1, FS_CardinalityType
<1>3. \E f \in [1 .. Cardinality(inbox) -> inbox] : IsInjective(f)
  BY <1>2 DEF ExistsBijection, Bijection, Injection, IsInjective
<1>4. SetToSeq(inbox) \in [1 .. Cardinality(inbox) -> inbox]
  BY <1>3 DEF SetToSeq
<1> DEFINE n == Cardinality(inbox)
           q == SetToSeq(inbox)
<1>5. check_inbox(mark) = [i \in 1 .. n |-> [file |-> q[i], deleted |-> mark]]
  BY DEF check_inbox
<1>6. n \in Nat /\ q \in [1 .. n -> inbox] /\ inbox \subseteq Files
  BY <1>2, <1>4 DEF PopOK
<1> HIDE DEF n, q
<1> QED
  BY <1>5, <1>6

\* The steps that leave the state of the POP3 server alone.
LEMMA PopCases ==
  ASSUME [Next]_vars
  PROVE  \/ UNCHANGED pop3
         \/ \E s \in Servers, c \in Conns : Accept(s, c) \/ QUIT(s, c)
         \/ USER \/ APOP
         \/ \E mark \in BOOLEAN : PASS(mark)
         \/ \E n \in 1 .. Cardinality(Files) : DELE(n)
         \/ \E f \in Files : Arrive(f)
<1>1. ASSUME NEW s \in Servers,
             \/ ThreadStep(s) \/ Answers(s) \/ \E c \in Conns : Connect(c, s) \/ Disconnect(c)
      PROVE  UNCHANGED pop3
  BY <1>1 DEF ThreadStep, Recv, RecvFails, Finish, DATAFails, Answers, Connect, Disconnect
<1>2. ASSUME NEW c \in Conns, Disconnect(c) PROVE UNCHANGED pop3
  BY <1>2 DEF Disconnect
<1>3. CASE HELO \/ MAIL \/ DATA \/ RSET \/ AUTH \/ EHLO \/ VRFY \/ EXPN
  BY <1>3 DEF HELO, MAIL, DATA, RSET, AUTH, EHLO, VRFY, EXPN, Answers
<1>4. CASE DATAUndefined \/ (\E known \in BOOLEAN : RCPT(known))
            \/ \E m \in Messages \cup {Empty} : DATAReceived(m) \/ Send(m)
  BY <1>4 DEF DATAUndefined, RCPT, DATAReceived, Send
<1>5. CASE STAT \/ PopRSET \/ UIDL \/ BadNumber
  BY <1>5 DEF STAT, PopRSET, UIDL, BadNumber, Answers
<1>6. CASE UNCHANGED vars
  BY <1>6 DEF vars
<1> QED
  BY <1>1, <1>2, <1>3, <1>4, <1>5, <1>6 DEF Next, SmtpCommand, PopCommand

\* The state of the POP3 server keeps its type, and its list the files that it names.
LEMMA PopStep == PopOK /\ [Next]_vars => PopOK'
<1> SUFFICES ASSUME PopOK, [Next]_vars PROVE PopOK'
  OBVIOUS
<1> USE DEF PopOK
<1>1. CASE UNCHANGED pop3
  BY <1>1 DEF pop3
<1>2. ASSUME NEW s \in Servers, NEW c \in Conns, Accept(s, c) PROVE PopOK'
  BY <1>2 DEF Accept
<1>3. ASSUME NEW s \in Servers, NEW c \in Conns, QUIT(s, c) PROVE PopOK'
  BY <1>3 DEF QUIT
<1>4. CASE USER \/ APOP
  BY <1>4 DEF USER, APOP
<1>5. ASSUME NEW mark \in BOOLEAN, PASS(mark) PROVE PopOK'
  BY <1>5, CheckInbox DEF PASS
<1>6. ASSUME NEW n \in 1 .. Cardinality(Files), DELE(n) PROVE PopOK'
  <2>1. /\ n \in DOMAIN emails /\ emails' = [emails EXCEPT ![n].deleted = TRUE]
        /\ UNCHANGED <<pop_state, inbox, unread, seen>>
    BY <1>6 DEF DELE
  <2>2. emails' \in Seq([file : Files, deleted : BOOLEAN])
    <3> DEFINE T == [file : Files, deleted : BOOLEAN]
               e == [emails[n] EXCEPT !.deleted = TRUE]
    <3>1. emails \in Seq(T) /\ n \in 1 .. Len(emails)
      BY <2>1
    <3>2. emails[n] \in T
      BY <3>1, ElementOfSeq
    <3>3. e \in T
      BY <3>2
    <3>4. emails' = [emails EXCEPT ![n] = e]
      BY <2>1
    <3> HIDE DEF T, e
    <3>5. emails' \in Seq(T)
      BY <3>1, <3>3, <3>4, ExceptSeq
    <3> QED
      BY <3>5 DEF T
  <2>3. \A i \in DOMAIN emails : emails'[i].file = emails[i].file
    BY <2>1
  <2> QED
    BY <2>1, <2>2, <2>3
<1>7. ASSUME NEW f \in Files, Arrive(f) PROVE PopOK'
  BY <1>7 DEF Arrive
<1> QED
  BY <1>1, <1>2, <1>3, <1>4, <1>5, <1>6, <1>7, PopCases

-----------------------------------------------------------------------------
(* The bounds *)

LEMMA CountStep == CountOK /\ [Next]_vars => CountOK'
<1> SUFFICES ASSUME CountOK, [Next]_vars PROVE CountOK'
  OBVIOUS
<1>1. CASE UNCHANGED commands
  BY <1>1 DEF CountOK
<1>2. ASSUME NEW s \in Servers, NEW c \in Conns, Reads(s, c) PROVE CountOK'
  BY <1>2 DEF Reads, CountOK
<1>3. "smtp" \in Servers /\ "pop3" \in Servers
  BY DEF Servers
<1>4. ASSUME NEW s \in Servers, NEW c \in Conns, Connect(c, s) \/ Accept(s, c) \/ QUIT(s, c)
      PROVE  CountOK'
  BY <1>1, <1>2, <1>4 DEF Connect, Accept, QUIT
<1>5. ASSUME NEW s \in Servers, Recv(s) \/ RecvFails(s) \/ Finish(s) \/ Answers(s)
      PROVE  CountOK'
  BY <1>1, <1>5 DEF Recv, RecvFails, Finish, Answers
<1>6. CASE DATAFails \/ DATAUndefined \/ (\E m \in Messages \cup {Empty} : DATAReceived(m) \/ Send(m))
  BY <1>1, <1>6 DEF DATAFails, DATAUndefined, DATAReceived, Send
<1>7. CASE \/ HELO \/ MAIL \/ DATA \/ RSET \/ AUTH \/ \E known \in BOOLEAN : RCPT(known)
  BY <1>2, <1>3, <1>7 DEF HELO, MAIL, DATA, RSET, AUTH, RCPT, SmtpReads
<1>8. CASE \/ USER \/ APOP \/ BadNumber \/ (\E mark \in BOOLEAN : PASS(mark))
           \/ \E n \in 1 .. Cardinality(Files) : DELE(n)
  BY <1>2, <1>3, <1>8 DEF USER, APOP, BadNumber, PASS, DELE, PopReads
<1>9. CASE (\E c \in Conns : Disconnect(c)) \/ (\E f \in Files : Arrive(f)) \/ UNCHANGED vars
  BY <1>1, <1>9 DEF Disconnect, Arrive, vars
<1> QED
  BY <1>3, <1>4, <1>5, <1>6, <1>7, <1>8, <1>9
     DEF Next, ThreadStep, SmtpCommand, PopCommand, EHLO, VRFY, EXPN, STAT, PopRSET, UIDL

LEMMA CrashStep == CrashOK /\ [Next]_vars => CrashOK'
<1> SUFFICES ASSUME CrashOK, [Next]_vars PROVE CrashOK'
  OBVIOUS
<1>1. CASE UNCHANGED crashed
  BY <1>1 DEF CrashOK
<1>2. CASE crashed' = TRUE
  BY <1>2 DEF CrashOK
<1>3. "smtp" \in Servers /\ "pop3" \in Servers
  BY DEF Servers
<1>4. ASSUME NEW s \in Servers, NEW c \in Conns, Connect(c, s) \/ Accept(s, c) \/ QUIT(s, c)
      PROVE  CrashOK'
  BY <1>1, <1>4 DEF Connect, Accept, QUIT
<1>5. ASSUME NEW s \in Servers, Recv(s) \/ RecvFails(s) \/ Finish(s) \/ Answers(s)
      PROVE  CrashOK'
  BY <1>1, <1>5 DEF Recv, RecvFails, Finish, Answers, Responds
<1>6. CASE DATAFails \/ DATAUndefined \/ (\E m \in Messages \cup {Empty} : DATAReceived(m) \/ Send(m))
  BY <1>1, <1>2, <1>6 DEF DATAFails, DATAUndefined, DATAReceived, Send, Responds
<1>7. CASE \/ HELO \/ MAIL \/ DATA \/ RSET \/ AUTH \/ \E known \in BOOLEAN : RCPT(known)
  BY <1>1, <1>7 DEF HELO, MAIL, DATA, RSET, AUTH, RCPT, Responds
<1>8. CASE \/ USER \/ APOP \/ BadNumber \/ (\E mark \in BOOLEAN : PASS(mark))
           \/ \E n \in 1 .. Cardinality(Files) : DELE(n)
  BY <1>1, <1>2, <1>8 DEF USER, APOP, BadNumber, PASS, DELE, Responds
<1>9. CASE (\E c \in Conns : Disconnect(c)) \/ (\E f \in Files : Arrive(f)) \/ UNCHANGED vars
  BY <1>1, <1>9 DEF Disconnect, Arrive, vars
<1> QED
  BY <1>3, <1>4, <1>5, <1>6, <1>7, <1>8, <1>9
     DEF Next, ThreadStep, SmtpCommand, PopCommand, EHLO, VRFY, EXPN, STAT, PopRSET, UIDL

-----------------------------------------------------------------------------
(* The theorems *)

\* The parts above hold in every state: among them that every open descriptor has a
\* session, though each session that ends with QUIT closes its descriptor twice.
THEOREM SessionsInvariant == Spec => []Inv
<1>1. Inv /\ [Next]_vars => Inv'
  <2> SUFFICES ASSUME Inv, [Next]_vars PROVE Inv'
    OBVIOUS
  <2>1. NetOK' /\ OpenOK'
    BY NetStep DEF Inv
  <2>2. SmtpOK' /\ PopOK' /\ CountOK' /\ CrashOK'
    BY SmtpStep, PopStep, CountStep, CrashStep DEF Inv
  <2> QED
    BY <2>1, <2>2 DEF Inv
<1> QED
  BY <1>1, InvInit, PTL DEF Spec

\* The variables have their types.
THEOREM SessionsTypes == Spec => []TypeOK
<1>1. Inv => TypeOK
  <2> SUFFICES ASSUME Inv PROVE TypeOK
    OBVIOUS
  <2>1. /\ sock \in [Fds -> Conns \cup {Closed}]
        /\ client \in [Conns -> [to : Servers, did : {"none", "queued", "open", "gone", "reset", "quit"}]]
        /\ fd \in [Servers -> Fds \cup {-1}]
        /\ pc \in [Servers -> {"accept", "loop", "wait", "data", "finish"}]
        /\ waits \in [Servers -> Conns \cup {Closed}]
        /\ \A s \in Servers : pc[s] = "wait" => waits[s] \in Conns
    BY DEF Inv, NetOK
  <2>2. /\ smtp_state \in {"QUIT", "INIT", "HELO", "MAIL", "RCPT", "DATA", "AUTH"}
        /\ rcpt_user_num \in 0 .. MaxRcpt
        /\ mail \in Messages \cup {Empty, "none", "overwritten"}
        /\ outbox \cup lost \subseteq Messages \cup {Empty}
    BY DEF Inv, SmtpOK
  <2>3. /\ pop_state \in {"QUIT", "USER", "PASS", "TRANSACTION"}
        /\ emails \in Seq([file : Files, deleted : BOOLEAN])
        /\ inbox \cup seen \cup unread \subseteq Files
    BY DEF Inv, PopOK
  <2>4. commands \in 0 .. MaxCommands /\ crashed \in BOOLEAN
    BY DEF Inv, CountOK, CrashOK
  <2> QED
    BY <2>1, <2>2, <2>3, <2>4 DEF TypeOK
<1> QED
  BY <1>1, SessionsInvariant, PTL

\* No step but the one that answers 250 puts a mail into the outbox.
THEOREM OnlyAcceptedSent == Spec => RefusedNotSent
<1> DEFINE A == outbox' \subseteq outbox \/ smtp_state' = "DATA"
<1>1. [Next]_vars => [A]_vars
  <2> SUFFICES ASSUME Next PROVE A
    OBVIOUS
  <2>1. CASE outbox' = outbox
    BY <2>1
  <2>2. ASSUME NEW s \in Servers, NEW c \in Conns, Accept(s, c) \/ QUIT(s, c) PROVE A
    BY <2>1, <2>2 DEF Accept, QUIT
  <2>3. CASE HELO \/ MAIL \/ AUTH \/ RSET \/ \E known \in BOOLEAN : RCPT(known)
    BY <2>1, <2>3 DEF HELO, MAIL, AUTH, RSET, RCPT
  <2>4. CASE DATAUndefined
    BY <2>4 DEF DATAUndefined, smtp
  <2>5. ASSUME NEW m \in Messages \cup {Empty}, DATAReceived(m) PROVE A
    BY <2>5 DEF DATAReceived
  <2>6. ASSUME NEW m \in Messages \cup {Empty}, Send(m) PROVE A
    BY <2>6 DEF Send
  <2>7. CASE UNCHANGED smtp
    BY <2>1, <2>7 DEF smtp
  <2> QED
    BY <2>2, <2>3, <2>4, <2>5, <2>6, <2>7, SmtpCases
<1> QED
  BY <1>1, PTL DEF Spec, RefusedNotSent

\* What leaves the inbox was there when the list of the session was read, however
\* many mails arrive and logins come in between.
THEOREM RemovesWhatWasSeen == Spec => RemovesOnlySeen
<1> DEFINE A == inbox \ inbox' \subseteq seen
<1>1. Inv /\ [Next]_vars => [A]_vars
  <2> SUFFICES ASSUME PopOK, Next PROVE A
    BY DEF Inv
  <2>1. CASE inbox \subseteq inbox'
    BY <2>1
  <2>2. ASSUME NEW s \in Servers, NEW c \in Conns, Accept(s, c) PROVE A
    BY <2>1, <2>2 DEF Accept
  <2>3. ASSUME NEW s \in Servers, NEW c \in Conns, QUIT(s, c) PROVE A
    <3>1. Removed \subseteq seen
      BY DEF Removed, PopOK
    <3>2. inbox' = inbox \/ inbox' = inbox \ Removed
      BY <2>3 DEF QUIT
    <3> QED
      BY <3>1, <3>2
  <2>4. CASE \/ USER \/ APOP \/ (\E mark \in BOOLEAN : PASS(mark))
             \/ \E n \in 1 .. Cardinality(Files) : DELE(n)
    BY <2>1, <2>4 DEF USER, APOP, PASS, DELE
  <2>5. ASSUME NEW f \in Files, Arrive(f) PROVE A
    BY <2>1, <2>5 DEF Arrive
  <2>6. CASE UNCHANGED pop3
    BY <2>1, <2>6 DEF pop3
  <2> QED
    BY <2>2, <2>3, <2>4, <2>5, <2>6, PopCases
<1> QED
  BY <1>1, SessionsInvariant, PTL DEF Spec, RemovesOnlySeen
=============================================================================
