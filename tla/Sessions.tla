------------------------------ MODULE Sessions ------------------------------
(***************************************************************************)
(* The two servers for mail clients (src/SMTP.cpp, src/POP3.cpp).          *)
(*                                                                         *)
(* Each server is one thread that accepts a connection, serves it to its   *)
(* end and accepts the next.  The SMTP server has one mail object for all  *)
(* its sessions and writes it to the folder outbox; the POP3 server reads  *)
(* the folder inbox at the login and removes files at the end of a         *)
(* session.  The mail worker takes mails from the outbox and adds mails to *)
(* the inbox while sessions go on.  (The servers are stopped in Daemon.)   *)
(*                                                                         *)
(* The threads share the table of descriptors of the process.  A session   *)
(* that ends with QUIT closes its descriptor twice: between the two the    *)
(* number may have gone to the other server.                               *)
(***************************************************************************)
EXTENDS Integers, Sequences, FiniteSets, SequencesExt

CONSTANTS
  Fds,        \* descriptors for connections
  MaxConns,   \* bound of the number of connections
  Messages,   \* mails that clients hand in
  Empty,      \* the mail made of no bytes
  Mails,      \* mails that arrive in the inbox
  SaveResults, \* whether a file of the outbox can be opened
  MAX_RCPT_USR,
  MaxCommands, \* bound of the number of commands that clients give
  MaxRcpt     \* bound of the number of recipients between two HELO

ASSUME SessionsAssumption ==
  /\ Fds \subseteq Nat /\ Cardinality(Fds) >= 2
  /\ Empty \notin Messages /\ SaveResults \subseteq BOOLEAN /\ IsFiniteSet(Mails)
  /\ MAX_RCPT_USR \in Nat /\ MaxRcpt \in Nat /\ MaxCommands \in Nat

Servers == {"smtp", "pop3"}
Conns == 1 .. MaxConns
Closed == 0

VARIABLES
  sock,          \* sock[f]: the connection that is open under f
  client,        \* client[c]: the server c is for, and what its client did
  fd,            \* fd[s]: client_sockfd
  pc,            \* pc[s]: where the thread of s is
  waits,         \* waits[s]: the connection that recv () was called for
  smtp_state,    \* session_state of the SMTP server
  rcpt_user_num, \* recipients since HELO
  mail,          \* the mail that the object was composed with, or "none"
  outbox,        \* mails with a file in this folder
  lost,          \* mails answered "250 OK" that were not written there (history)
  pop_state,     \* session_state of the POP3 server
  emails,        \* the list of the POP3 server: files with their marks
  inbox,         \* files in the inbox
  unread,        \* files that have not arrived
  seen,          \* files that were in the inbox at the last login (history)
  commands,      \* the number of commands
  crashed        \* the process has died

net == <<sock, client, fd, pc, waits>>
smtp == <<smtp_state, rcpt_user_num, mail, outbox, lost>>
pop3 == <<pop_state, emails, inbox, unread, seen>>
vars == <<net, smtp, pop3, commands, crashed>>

\* A mail lies in the inbox with its metadata, in two files.
Files == Mails \X {"mail", "meta"}

close(f) == [sock EXCEPT ![f] = Closed]

InSession(s) == pc[s] \in {"loop", "wait", "data"}

-----------------------------------------------------------------------------
(* Connections *)

Connect(c, s) ==
  /\ client[c].did = "none" /\ \A d \in Conns : client[d].did = "none" => c <= d
  /\ client' = [client EXCEPT ![c] = [to |-> s, did |-> "queued"]]
  /\ UNCHANGED <<sock, fd, pc, waits, smtp, pop3, commands, crashed>>

\* A client goes away without QUIT: it closes the connection, or it is reset.
Disconnect(c) ==
  /\ client[c].did = "open"
  /\ \E d \in {"gone", "reset"} : client' = [client EXCEPT ![c].did = d]
  /\ UNCHANGED <<sock, fd, pc, waits, smtp, pop3, commands, crashed>>

\* run () and the beginning of process (): the connection gets the lowest free
\* descriptor.
Accept(s, c) ==
  /\ pc[s] = "accept"
  /\ client[c] = [to |-> s, did |-> "queued"]
  /\ LET f == CHOOSE g \in Fds : sock[g] = Closed /\ \A h \in Fds : sock[h] = Closed => g <= h
     IN sock' = [sock EXCEPT ![f] = c] /\ fd' = [fd EXCEPT ![s] = f]
  /\ client' = [client EXCEPT ![c].did = "open"]
  /\ pc' = [pc EXCEPT ![s] = "loop"]
  /\ smtp_state' = IF s = "smtp" THEN "INIT" ELSE smtp_state
  /\ pop_state' = IF s = "pop3" THEN "USER" ELSE pop_state
  /\ UNCHANGED <<waits, rcpt_user_num, mail, outbox, lost,
                 emails, inbox, unread, seen, commands, crashed>>

\* Mutant: the descriptor is taken for open.
RecvUnchecked(s) ==
  /\ pc[s] = "loop"
  /\ pc' = [pc EXCEPT ![s] = "wait"] /\ waits' = [waits EXCEPT ![s] = sock[fd[s]]]
  /\ UNCHANGED <<sock, client, fd, smtp, pop3, commands, crashed>>

\* process (): recv () is called; it fails if the descriptor is closed.
Recv(s) ==
  /\ pc[s] = "loop"
  /\ IF sock[fd[s]] = Closed
     THEN pc' = [pc EXCEPT ![s] = "finish"] /\ UNCHANGED waits
     ELSE pc' = [pc EXCEPT ![s] = "wait"] /\ waits' = [waits EXCEPT ![s] = sock[fd[s]]]
  /\ UNCHANGED <<sock, client, fd, smtp, pop3, commands, crashed>>

\* recv () fails, which ends the session, or finds the end of the stream, which
\* does not.
RecvFails(s) ==
  /\ pc[s] = "wait" /\ client[waits[s]].did \in {"gone", "quit", "reset"}
  /\ pc' = [pc EXCEPT ![s] = IF client[waits[s]].did = "reset" THEN "finish" ELSE "loop"]
  /\ waits' = [waits EXCEPT ![s] = Closed]
  /\ UNCHANGED <<sock, client, fd, smtp, pop3, commands, crashed>>

\* Mutant: the thread does not come back to accept ().
FinishStays(s) ==
  /\ pc[s] = "finish"
  /\ sock' = close(fd[s])
  /\ UNCHANGED <<client, fd, pc, waits, smtp, pop3, commands, crashed>>

\* finish () at the end of process (), also after the finish () of QUIT.
Finish(s) ==
  /\ pc[s] = "finish"
  /\ sock' = close(fd[s])
  /\ pc' = [pc EXCEPT ![s] = "accept"]
  /\ UNCHANGED <<client, fd, waits, smtp, pop3, commands, crashed>>

-----------------------------------------------------------------------------
(* SMTP.  A server reads what comes over the connection it waits for.      *)

Hears(s, c) == pc[s] = "wait" /\ waits[s] = c /\ client[c].did = "open"
Reads(s, c) ==
  /\ Hears(s, c)
  /\ commands < MaxCommands
  /\ commands' = commands + 1

\* respond () returns to the loop.
Responds(s) ==
  /\ pc' = [pc EXCEPT ![s] = "loop"]
  /\ waits' = [waits EXCEPT ![s] = Closed]
  /\ UNCHANGED <<sock, client, fd, crashed>>

SmtpReads == \E c \in Conns : Reads("smtp", c) /\ client[c].to = "smtp"

HELO ==
  /\ SmtpReads /\ smtp_state = "INIT"
  /\ rcpt_user_num' = 0
  /\ smtp_state' = "HELO"
  /\ Responds("smtp")
  /\ UNCHANGED <<mail, outbox, lost, pop3>>

\* MAIL FROM with the name of an identity of this daemon.
MAIL ==
  /\ SmtpReads /\ smtp_state \in {"HELO", "AUTH"}
  /\ smtp_state' = "MAIL"
  /\ Responds("smtp")
  /\ UNCHANGED <<rcpt_user_num, mail, outbox, lost, pop3>>

\* RCPT TO.  It is refused in a wrong state only when there are too many
\* recipients already, and it changes the state also for an unknown recipient.
\* A recipient beyond the array is written over the mail object.
RCPT(known) ==
  /\ SmtpReads
  /\ smtp_state \in {"MAIL", "RCPT"} \/ rcpt_user_num <= MAX_RCPT_USR
  /\ known => rcpt_user_num < MaxRcpt
  /\ rcpt_user_num' = IF known THEN rcpt_user_num + 1 ELSE rcpt_user_num
  /\ mail' = IF known /\ rcpt_user_num >= MAX_RCPT_USR THEN "overwritten" ELSE mail
  /\ smtp_state' = "RCPT"
  /\ Responds("smtp")
  /\ UNCHANGED <<outbox, lost, pop3>>

\* DATA: the server asks for the mail and calls recv () for it.
DATA ==
  /\ SmtpReads /\ smtp_state = "RCPT"
  /\ pc' = [pc EXCEPT !["smtp"] = "data"]
  /\ waits' = [waits EXCEPT !["smtp"] = sock[fd["smtp"]]]
  /\ UNCHANGED <<sock, client, fd, smtp, pop3, crashed>>

\* recv () cannot read the mail.
Unreadable == waits["smtp"] \in {Closed} \cup {c \in Conns : client[c].did = "reset"}

\* Email::fromMIME () and compose (): an object that was composed keeps its message
\* id and its bytes.
compose(m) == IF mail = "none" THEN m ELSE mail

\* Email::save (): a file that exists is kept.
save(m) == outbox \cup {compose(m)}

\* Mutant: a mail that could not be read is saved all the same.
DATAFailsSaves ==
  /\ pc["smtp"] = "data" /\ Unreadable
  /\ outbox' = outbox \cup {Empty}
  /\ Responds("smtp")
  /\ UNCHANGED <<smtp_state, rcpt_user_num, mail, lost, pop3, commands>>

\* The mail cannot be read: 451, and nothing is saved.
DATAFails ==
  /\ pc["smtp"] = "data" /\ Unreadable
  /\ Responds("smtp")
  /\ UNCHANGED <<smtp, pop3, commands>>

\* The mail comes in one piece, or the client has closed the connection and no
\* byte comes: the mail is saved and answered 250 in any case.  The file may not
\* be opened; the result of save () is not looked at.
DATAReceived(m) ==
  /\ pc["smtp"] = "data" /\ ~Unreadable
  /\ \/ m \in Messages /\ client[waits["smtp"]].did = "open"
     \/ m = Empty /\ client[waits["smtp"]].did \in {"gone", "quit"}
  /\ mail # "overwritten"
  /\ mail' = compose(m)
  /\ \E opened \in SaveResults : outbox' = IF opened THEN save(m) ELSE outbox
  /\ lost' = lost \cup ((Messages \cap {m}) \ outbox')
  /\ smtp_state' = "DATA"
  /\ Responds("smtp")
  /\ UNCHANGED <<rcpt_user_num, pop3, commands>>

\* What comes of an object that was written over is not defined: it counts as
\* composed and has no bytes, or its strings are broken and the process dies.
DATAUndefined ==
  /\ pc["smtp"] = "data" /\ ~Unreadable /\ mail = "overwritten"
  /\ \/ crashed' = TRUE /\ UNCHANGED <<net, smtp, pop3, commands>>
     \/ /\ outbox' = outbox \cup {Empty}
        /\ smtp_state' = "DATA"
        /\ Responds("smtp")
        /\ UNCHANGED <<rcpt_user_num, mail, lost, pop3, commands>>

AUTH ==
  /\ SmtpReads
  /\ smtp_state' = "AUTH"
  /\ Responds("smtp")
  /\ UNCHANGED <<rcpt_user_num, mail, outbox, lost, pop3>>

\* RSET is a command of both protocols; POP3::RSET changes nothing.
RSET ==
  /\ \E c \in Conns : Reads("smtp", c)
  /\ smtp_state' = "INIT"
  /\ Responds("smtp")
  /\ UNCHANGED <<rcpt_user_num, mail, outbox, lost, pop3>>

-----------------------------------------------------------------------------
(* POP3 *)

PopReads == \E c \in Conns : Reads("pop3", c) /\ client[c].to = "pop3"

\* USER with the name of an identity.
USER ==
  /\ PopReads /\ pop_state = "USER"
  /\ pop_state' = "PASS"
  /\ Responds("pop3")
  /\ UNCHANGED <<smtp, emails, inbox, unread, seen>>

\* check_inbox (): every file of the directory becomes a mail, the files of
\* metadata too.  Email::m_deleted is not initialised; the objects are made one
\* after the other in the same place, so that all have the same mark.
check_inbox(mark) ==
  [i \in 1 .. Cardinality(inbox) |-> [file |-> SetToSeq(inbox)[i], deleted |-> mark]]

\* PASS, with any password.
PASS(mark) ==
  /\ PopReads /\ pop_state = "PASS"
  /\ pop_state' = "TRANSACTION"
  /\ emails' = check_inbox(mark)
  /\ seen' = inbox
  /\ Responds("pop3")
  /\ UNCHANGED <<smtp, inbox, unread>>

\* APOP, in any state.
APOP ==
  /\ PopReads
  /\ pop_state' = "TRANSACTION"
  /\ Responds("pop3")
  /\ UNCHANGED <<smtp, emails, inbox, unread, seen>>

DELE(n) ==
  /\ PopReads /\ pop_state = "TRANSACTION"
  /\ n \in DOMAIN emails /\ ~emails[n].deleted
  /\ emails' = [emails EXCEPT ![n].deleted = TRUE]
  /\ Responds("pop3")
  /\ UNCHANGED <<smtp, pop_state, inbox, unread, seen>>

\* DELE of a number that is not in the list, RETR of 0, and an argument that is
\* not a number: the program dies or goes on.
BadNumber ==
  /\ PopReads /\ pop_state = "TRANSACTION"
  /\ crashed' = TRUE
  /\ UNCHANGED <<net, smtp, pop3>>

\* A command is answered and changes nothing: a command that is refused or unknown,
\* and what comes from the client of the other server.
Answers(s) ==
  /\ \E c \in Conns : Hears(s, c)
  /\ Responds(s)
  /\ UNCHANGED <<smtp, pop3, commands>>

\* EHLO is refused in every state.
EHLO == Answers("smtp")

\* VRFY and NOOP; EXPN and HELP.
VRFY == Answers("smtp")
EXPN == Answers("smtp")

\* STAT, LIST and RETR of a mail of the list.
STAT == Answers("pop3")

\* POP3::NOOP, and POP3::RSET, which leaves the marks of DELE.
PopRSET == Answers("pop3")

\* UIDL, CAPA and TOP.
UIDL == Answers("pop3")

\* Mutant: QUIT removes what the directory holds then.
RemovedDirectory == IF \E i \in DOMAIN emails : emails[i].deleted THEN inbox ELSE {}

\* The files that QUIT removes.
Removed == {emails[i].file : i \in {j \in DOMAIN emails : emails[j].deleted}}

\* QUIT, a command of both protocols: the first finish ().
QUIT(s, c) ==
  /\ Reads(s, c)
  /\ client' = [client EXCEPT ![c].did = "quit"]
  /\ sock' = close(fd[s])
  /\ pc' = [pc EXCEPT ![s] = "finish"]
  /\ waits' = [waits EXCEPT ![s] = Closed]
  /\ IF s = "smtp"
     THEN smtp_state' = "QUIT" /\ UNCHANGED <<pop_state, inbox>>
     ELSE /\ inbox' = IF pop_state = "TRANSACTION" THEN inbox \ Removed ELSE inbox
          /\ pop_state' = "QUIT"
          /\ UNCHANGED smtp_state
  /\ UNCHANGED <<fd, rcpt_user_num, mail, outbox, lost,
                 emails, unread, seen, crashed>>

-----------------------------------------------------------------------------
(* The mail worker *)

\* send_email_task moves a mail to the folder sent.
Send(m) ==
  /\ m \in outbox
  /\ outbox' = outbox \ {m}
  /\ UNCHANGED <<net, smtp_state, rcpt_user_num, mail, lost, pop3, commands, crashed>>

\* incomplete_email_task writes a mail to the inbox, and then its metadata.
Arrive(f) ==
  /\ f \in unread /\ (f[2] = "meta" => <<f[1], "mail">> \notin unread)
  /\ unread' = unread \ {f}
  /\ inbox' = inbox \cup {f}
  /\ UNCHANGED <<net, smtp, pop_state, emails, seen, commands, crashed>>

-----------------------------------------------------------------------------
Init ==
  /\ sock = [f \in Fds |-> Closed]
  /\ client = [c \in Conns |-> [to |-> "smtp", did |-> "none"]]
  /\ fd = [s \in Servers |-> -1] /\ pc = [s \in Servers |-> "accept"]
  /\ waits = [s \in Servers |-> Closed]
  /\ smtp_state = "QUIT" /\ rcpt_user_num = 0 /\ mail = "none"
  /\ outbox = {} /\ lost = {}
  /\ pop_state = "QUIT" /\ emails = <<>> /\ seen = {} /\ commands = 0
  /\ inbox = {} /\ unread = Files
  /\ crashed = FALSE

\* What a thread does without a client.
ThreadStep(s) == Recv(s) \/ RecvFails(s) \/ Finish(s) \/ (s = "smtp" /\ DATAFails)

SmtpCommand ==
  \/ HELO \/ EHLO \/ MAIL \/ DATA \/ RSET \/ VRFY \/ AUTH \/ EXPN \/ DATAUndefined
  \/ \E known \in BOOLEAN : RCPT(known)
  \/ \E m \in Messages \cup {Empty} : DATAReceived(m)

PopCommand ==
  \/ USER \/ APOP \/ STAT \/ PopRSET \/ UIDL \/ BadNumber
  \/ \E mark \in BOOLEAN : PASS(mark)
  \/ \E n \in 1 .. Cardinality(Files) : DELE(n)

Next ==
  /\ ~crashed
  /\ \/ \E s \in Servers :
          \/ ThreadStep(s) \/ Answers(s)
          \/ \E c \in Conns : Connect(c, s) \/ Accept(s, c) \/ QUIT(s, c)
     \/ \E c \in Conns : Disconnect(c)
     \/ SmtpCommand \/ PopCommand
     \/ \E m \in Messages \cup {Empty} : Send(m)
     \/ \E f \in Files : Arrive(f)

\* The threads go on.
Fairness ==
  /\ \A s \in Servers :
       /\ WF_vars(~crashed /\ ThreadStep(s))
       /\ WF_vars(~crashed /\ \E c \in Conns : Accept(s, c))

Spec == Init /\ [][Next]_vars /\ Fairness

-----------------------------------------------------------------------------
(* Properties *)

\* The variables have their types; a server waits for a connection of a client
\* only, and the recipients stay within what is counted.
TypeOK ==
  /\ sock \in [Fds -> Conns \cup {Closed}]
  /\ client \in [Conns -> [to : Servers, did : {"none", "queued", "open", "gone", "reset", "quit"}]]
  /\ fd \in [Servers -> Fds \cup {-1}]
  /\ pc \in [Servers -> {"accept", "loop", "wait", "data", "finish"}]
  /\ waits \in [Servers -> Conns \cup {Closed}]
  /\ \A s \in Servers : pc[s] = "wait" => waits[s] \in Conns
  /\ smtp_state \in {"QUIT", "INIT", "HELO", "MAIL", "RCPT", "DATA", "AUTH"}
  /\ rcpt_user_num \in 0 .. MaxRcpt
  /\ mail \in Messages \cup {Empty, "none", "overwritten"}
  /\ outbox \cup lost \subseteq Messages \cup {Empty}
  /\ pop_state \in {"QUIT", "USER", "PASS", "TRANSACTION"}
  /\ emails \in Seq([file : Files, deleted : BOOLEAN])
  /\ inbox \cup seen \cup unread \subseteq Files
  /\ commands \in 0 .. MaxCommands /\ crashed \in BOOLEAN

\* A mail is put into the outbox only by the step that answers 250: one that is
\* answered 451 will be handed in again and must not be sent as well.
RefusedNotSent == [][outbox' \subseteq outbox \/ smtp_state' = "DATA"]_vars

\* A session removes only mails that were in the inbox when the list was read: a
\* mail that arrives while a client is connected stays.
RemovesOnlySeen == [][inbox \ inbox' \subseteq seen]_vars

\* A session that has ended makes room for the next client, whatever descriptors
\* it closed: a client waits for ever only for a session that does not end.
ServedNext ==
  \A c \in Conns :
    client[c].did = "queued" ~>
      \/ client[c].did # "queued" \/ crashed
      \/ [](InSession(client[c].to))

\* A mail that is answered "250 OK" was written to the outbox.
AcceptedSaved == lost = {}
=============================================================================
