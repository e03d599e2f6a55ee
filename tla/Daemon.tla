-------------------------------- MODULE Daemon --------------------------------
(***************************************************************************)
(* The life of one pboted process and of the next ones with the same data  *)
(* directory: init, start, run and stop of src/BoteDaemon.cpp and          *)
(* src/UnixDaemon.cpp, and the threads that the parts start and join: the  *)
(* UDP receiver and sender (src/NetworkWorker.cpp), the packet handler and *)
(* its IO service (src/PacketHandler.cpp), the relay worker, the mail      *)
(* worker with its tasks (src/EmailWorker.cpp), the mail servers and the   *)
(* control socket.  Also the SAM session with the I2P router               *)
(* (lib/i2psam) and the file of the destination key (src/BoteContext.cpp). *)
(*                                                                         *)
(* The packets are left out: what the threads do with them is in           *)
(* PacketDispatch and in the modules of the components.                    *)
(***************************************************************************)
EXTENDS Naturals, FiniteSets

CONSTANTS
  None,        \* no destination
  Torn,        \* what is left of a key file whose writing was cut off
  Identities,  \* the mail identities of identities.txt
  Tasks,       \* the single tasks of the mail worker: send, delivery, incomplete
  Servers,     \* SMTP and POP3, as the options enable them
  CustomPath,  \* option sam.key names a file of its own
  isDaemon,    \* option daemon
  MaxStarts    \* bound of the number of processes

ASSUME DaemonAssumption ==
  /\ {None, Torn} \cap Nat = {} /\ None # Torn
  /\ IsFiniteSet(Identities) /\ IsFiniteSet(Tasks) /\ IsFiniteSet(Servers)
  /\ Tasks \cap Servers = {}
  /\ (Tasks \cup Servers) \cap
       {"receiver", "sender", "handler", "io", "relay", "mail", "control"} = {}
  /\ CustomPath \in BOOLEAN /\ isDaemon \in BOOLEAN
  /\ MaxStarts \in Nat

Paths == {"default", "custom"}

\* The destination that the router generates for the n-th process is n.
Dests == 1 .. MaxStarts

VARIABLES
  main,      \* where the main thread is
  running,   \* Daemon.running
  starts,    \* how many processes there were
  blank,     \* a line of peers.txt was cut off before its number
  provoked,  \* an input that is not checked has ended the process (history)
  router,    \* the I2P router takes connections
  keyfile,   \* the key files by path
  keys,      \* local_keys_: None, a destination, or Torn
  loaded,    \* keys_loaded_
  session,   \* the SAM session: "none", "open", or "lost" by the router
  sick,      \* isSick_ of router_session_
  known,     \* destinations under which a packet has left (history)
  unsaved,   \* a key file could not be opened for writing (history)
  queues,    \* m_recvQueue and m_sendQueue of the RequestHandler are set
  on,        \* the flags that the loops of the threads read
  thread,    \* where the threads are
  checks,    \* m_check_threads: the identities that have an entry
  check,     \* where the check tasks are
  visit      \* identities that startCheckEmailTasks () has still to look at

Threads == {"receiver", "sender", "handler", "io", "relay", "mail", "control"}
              \cup Tasks \cup Servers

past == <<starts, blank, provoked>>
flags == <<running, on>>
keysVars == <<keyfile, keys, loaded, unsaved>>
net == <<router, session, sick, known>>
mailVars == <<checks, check, visit>>
vars == <<main, past, flags, keysVars, net, queues, thread, mailVars>>

AllOff == [f \in {"receiver", "sender", "handler", "relay", "mail", "control"} \cup Servers
             |-> FALSE]
NoThreads == [t \in Threads |-> "none"]
NoChecks == [i \in Identities |-> "none"]

\* Nothing of a process is left when it has ended; files and router stay.
Ends(how) ==
  /\ main' = how
  /\ on' = AllOff /\ thread' = NoThreads /\ checks' = {} /\ check' = NoChecks /\ visit' = {}
  /\ session' = "none" /\ sick' = FALSE /\ keys' = None /\ loaded' = FALSE
  /\ queues' = FALSE

\* The process ends at once by std::terminate () or a null pointer.
Aborts ==
  /\ Ends("aborted")
  /\ UNCHANGED <<past, running, router, keyfile, unsaved, known>>

\* ... or by what a client or another node has sent.
IsProvoked ==
  /\ Ends("aborted")
  /\ provoked' = TRUE
  /\ UNCHANGED <<starts, blank, running, router, keyfile, unsaved, known>>

Alive == main \notin {"off", "exited", "aborted"}

Init ==
  /\ main = "off" /\ starts = 0 /\ blank = FALSE /\ provoked = FALSE
  /\ running = TRUE /\ on = AllOff /\ thread = NoThreads
  /\ router = FALSE /\ session = "none" /\ sick = FALSE /\ known = {}
  /\ keyfile = [p \in Paths |-> None] /\ keys = None /\ loaded = FALSE /\ unsaved = FALSE
  /\ queues = FALSE
  /\ checks = {} /\ check = NoChecks /\ visit = {}

\* The main thread goes on to another place and starts threads.
Goes(pc) == main' = pc
Begins(T) == thread' = [t \in Threads |-> IF t \in T THEN "loop" ELSE thread[t]]

-----------------------------------------------------------------------------
(* init () and start () *)

\* readLocalIdentity () of BoteContext::init (): a file that is not empty is
\* taken for a key.
keyPath == IF CustomPath THEN "custom" ELSE "default"

\* main () up to network_worker.init (), whose sockets are new in this process.  An
\* earlier one may have cut peers.txt off: a kill in writePeers (), or a full disk, as
\* nobody looks at its success.
InitDaemon ==
  /\ main \in {"off", "exited", "aborted"}
  /\ starts < MaxStarts
  /\ Goes("network")
  /\ starts' = starts + 1 /\ running' = TRUE /\ provoked' = FALSE
  /\ keys' = keyfile[keyPath] /\ loaded' = (keyfile[keyPath] # None)
  /\ blank' \in IF starts = 0 THEN {FALSE} ELSE BOOLEAN
  /\ UNCHANGED <<on, keyfile, unsaved, net, queues, thread, mailVars>>

\* NetworkWorker::start () starts the receiver first.
StartReceiver ==
  /\ main = "network"
  /\ Goes("sam")
  /\ on' = [on EXCEPT !["receiver"] = TRUE] /\ Begins({"receiver"})
  /\ UNCHANGED <<past, running, keysVars, net, queues, mailVars>>

\* DaemonLinux::start () before the threads: it cannot become a daemon, enter its
\* directory or write the pid file.
StartFails ==
  /\ main = "network"
  /\ Ends("exited")
  /\ UNCHANGED <<past, running, router, keyfile, unsaved, known>>

\* Message::sessionCreate (): the request has the key, or none: then the router is
\* asked to generate one.
sessionCreate == IF loaded THEN keys ELSE None

\* What the router makes of the request: a file that was cut off is no key.
Answer(key) == CASE key = None -> starts
                 [] key = Torn -> None
                 [] OTHER -> key

\* The socket of the SAM bridge: connect, HELLO and every request fail without a
\* router.
connected == router

\* The constructor of DatagramSession: a destination, or the session is sick.
createDatagramSession == IF connected THEN Answer(sessionCreate) ELSE None

\* Mutant: the destination of the answer is not looked at.
createSAMSessionUnchecked ==
  /\ main = "sam" /\ connected
  /\ keys' = (IF loaded THEN keys ELSE starts) /\ session' = "open" /\ sick' = FALSE
  /\ Goes("save")
  /\ UNCHANGED <<past, flags, keyfile, loaded, unsaved, router, known, queues,
                 thread, mailVars>>

\* createSAMSession () comes back with keys.
createSAMSession ==
  /\ main = "sam" /\ createDatagramSession # None
  /\ keys' = createDatagramSession /\ session' = "open" /\ sick' = FALSE
  /\ Goes("save")
  /\ UNCHANGED <<past, flags, keyfile, loaded, unsaved, router, known, queues,
                 thread, mailVars>>

\* It does not: the loop of NetworkWorker::start () sleeps 10 s and tries again.
createSAMSessionFails ==
  /\ main = "sam" /\ createDatagramSession = None
  /\ sick' = TRUE
  /\ UNCHANGED <<main, past, flags, keysVars, router, session, known, queues,
                 thread, mailVars>>

\* Mutant: the sender runs before the key is on the disk.
save_new_keysLater ==
  /\ main = "save"
  /\ Goes("sender")
  /\ UNCHANGED <<past, flags, keysVars, net, queues, thread, mailVars>>

\* save_new_keys (): saveLocalIdentity () writes to the default path.
save_new_keys ==
  /\ main = "save"
  /\ Goes("sender")
  /\ \/ /\ ~loaded
        /\ \/ keyfile' = [keyfile EXCEPT !["default"] = keys] /\ UNCHANGED unsaved
           \/ unsaved' = TRUE /\ UNCHANGED keyfile
     \/ loaded /\ UNCHANGED <<keyfile, unsaved>>
  /\ UNCHANGED <<past, flags, keys, loaded, net, queues, thread, mailVars>>

\* The last step of NetworkWorker::start ().
StartSender ==
  /\ main = "sender"
  /\ Goes("relay")
  /\ on' = [on EXCEPT !["sender"] = TRUE] /\ Begins({"sender"})
  /\ UNCHANGED <<past, running, keysVars, net, queues, mailVars>>

\* relay_worker.start (): loadPeers () reads the number of a line that has none, and
\* nobody catches the exception of std::stoi ().
StartRelayThrows == main = "relay" /\ blank /\ Aborts

\* ... or it reads the file, and DHT_worker.start () goes alike.
StartRelay ==
  /\ main = "relay" /\ ~blank
  /\ Goes("handler")
  /\ on' = [on EXCEPT !["relay"] = TRUE] /\ Begins({"relay"})
  /\ UNCHANGED <<past, running, keysVars, net, queues, mailVars>>

\* Mutant: the queues are taken when the threads run already.
StartHandlerLate ==
  /\ main = "handler"
  /\ Goes("mail")
  /\ on' = [on EXCEPT !["handler"] = TRUE] /\ Begins({"handler", "io"})
  /\ UNCHANGED <<past, running, keysVars, net, queues, mailVars>>

\* RequestHandler::start ()
StartHandler ==
  /\ main = "handler"
  /\ Goes("mail")
  /\ queues' = TRUE
  /\ on' = [on EXCEPT !["handler"] = TRUE] /\ Begins({"handler", "io"})
  /\ UNCHANGED <<past, running, keysVars, net, mailVars>>

\* EmailWorker::start (): its tasks test m_main_started, which is set behind
\* them, so that only run () starts them.
StartMail ==
  /\ main = "mail"
  /\ Goes("servers")
  /\ on' = [on EXCEPT !["mail"] = TRUE] /\ Begins({"mail"})
  /\ UNCHANGED <<past, running, keysVars, net, queues, mailVars>>

\* The control socket of a daemon, and the mail servers.
StartServers ==
  LET S == Servers \cup (IF isDaemon THEN {"control"} ELSE {})
  IN  /\ main = "servers"
      /\ Goes("run")
      /\ on' = [f \in DOMAIN on |-> on[f] \/ f \in S] /\ Begins(S)
      /\ UNCHANGED <<past, running, keysVars, net, queues, mailVars>>

-----------------------------------------------------------------------------
(* run () and stop () *)

\* handle_signal () with SIGTERM or SIGINT.
Signal ==
  /\ Alive /\ running
  /\ running' = FALSE
  /\ UNCHANGED <<main, past, on, keysVars, net, queues, thread, mailVars>>

\* DaemonLinux::run () looks at the session every 10 s.  network_worker.init ()
\* binds the UDP port while the old receiver still has it: the exception ends
\* the process.
Run ==
  /\ main = "run"
  /\ \/ running /\ sick /\ Aborts
     \/ /\ ~running /\ Goes("stopping")
        /\ UNCHANGED <<past, flags, keysVars, net, queues, thread, mailVars>>

\* The main thread clears a flag, closes sockets and waits for the thread.
Clear(pc, F, next) ==
  /\ main = pc
  /\ Goes(next)
  /\ on' = [f \in DOMAIN on |-> on[f] /\ f \notin F]
  /\ UNCHANGED <<past, running, keysVars, net, queues, thread, mailVars>>

Ended(t) == thread[t] \in {"none", "done"}

\* ... join () of a thread, if there is one.
Join(pc, T, next) ==
  /\ main = pc
  /\ \A t \in T : Ended(t)
  /\ Goes(next)
  /\ thread' = [t \in Threads |-> IF t \in T THEN "none" ELSE thread[t]]
  /\ UNCHANGED <<past, flags, keysVars, net, queues, mailVars>>

\* Mutant: the servers are joined before they are told to end.
StopServersFlagLast ==
  \/ Clear("stopping", {}, "join servers")
  \/ Join("join servers", Servers, "stop control")
  \/ Clear("stop control", Servers \cup {"control"}, "stop receiver")

\* The servers, then the control socket, whose thread is left alone for now.
StopServers ==
  \/ Clear("stopping", Servers, "join servers")
  \/ Join("join servers", Servers, "stop control")
  \/ Clear("stop control", {"control"}, "stop receiver")

\* NetworkWorker::stop ()
StopNetwork ==
  \/ Clear("stop receiver", {"receiver"}, "join receiver")
  \/ Join("join receiver", {"receiver"}, "stop sender")
  \/ Clear("stop sender", {"sender"}, "join sender")
  \/ Join("join sender", {"sender"}, "stop handler")

\* RequestHandler::stop () joins the IO service only, and lets the queues go.
StopHandler ==
  \/ Clear("stop handler", {"handler"}, "join io")
  \/ Join("join io", {"io"}, "drop queues")
  \/ /\ main = "drop queues"
     /\ Goes("stop relay")
     /\ queues' = FALSE
     /\ UNCHANGED <<past, flags, keysVars, net, thread,
                    mailVars>>

\* RelayWorker::stop ()
StopRelay ==
  \/ Clear("stop relay", {"relay"}, "join relay")
  \/ Join("join relay", {"relay"}, "stop mail")

\* EmailWorker::stop (): the tasks that are there now are joined, one check task
\* after the other.
StopMail ==
  \/ Clear("stop mail", {"mail"}, "join tasks")
  \/ Join("join tasks", Tasks, "join checks")
  \/ /\ main = "join checks" /\ checks = {}
     /\ Goes("static")
     /\ UNCHANGED <<past, flags, keysVars, net, queues, thread, mailVars>>

\* stopCheckEmailTasks () takes an entry out of the map, which the worker may be
\* changing at the same moment.
JoinCheck(i) ==
  /\ main = "join checks" /\ i \in checks
  /\ check[i] = "done"
  /\ \/ /\ checks' = checks \ {i} /\ check' = [check EXCEPT ![i] = "none"]
        /\ UNCHANGED <<visit, main, past, flags, keysVars, net, queues, thread>>
     \/ thread["mail"] = "insert" /\ Aborts

\* The destructors of the static objects: the packet handler, the control server
\* and the mail worker join their threads.  An entry of m_check_threads that
\* nobody joined ends the process with std::terminate ().
StaticDestructors ==
  /\ main = "static"
  /\ Ended("handler") /\ Ended("control") /\ Ended("mail")
  /\ \/ checks = {} /\ Ends("exited")
        /\ UNCHANGED <<past, running, router, keyfile, unsaved, known>>
     \/ checks # {} /\ Aborts

-----------------------------------------------------------------------------
(* The threads *)

\* A thread goes on; nothing else changes.
At(t, pc) == thread[t] = pc
Steps(t, pc) ==
  /\ thread' = [thread EXCEPT ![t] = pc]
  /\ UNCHANGED <<main, past, flags, keysVars, net, mailVars>>

\* while (flag): where the thread goes on.
Again(flag, pc) == IF on[flag] THEN pc ELSE "done"
Loops(t, flag, pc) ==
  /\ At(t, "loop")
  /\ Steps(t, Again(flag, pc))
  /\ UNCHANGED queues

\* UDPReceiver::run () and handle_receive (): recv () waits without a timeout.
Receiver == Loops("receiver", "receiver", "recv")

\* A datagram comes in, malformed or not.
Datagram ==
  /\ At("receiver", "recv") /\ session = "open"
  /\ Steps("receiver", Again("receiver", "recv"))
  /\ UNCHANGED queues

\* UDPSender::run () and send (): packets of the other threads leave under the
\* destination of the session; check_session () waits while it is sick.
Sender ==
  \/ /\ At("sender", "loop") /\ on["sender"] /\ session = "open" /\ ~sick
     /\ known' = known \cup {keys}
     /\ UNCHANGED <<main, past, flags, keysVars, router, session, sick, queues,
                    thread, mailVars>>
  \/ ~on["sender"] /\ Loops("sender", "sender", "loop")

\* RequestHandler::run (): the flag is read, then m_recvQueue is used for up to
\* 500 ms, and m_sendQueue if the packet is refused.
Handler ==
  \/ Loops("handler", "handler", "get")
  \/ At("handler", "get") /\ Steps("handler", "loop") /\ UNCHANGED queues

\* A queue that stop () has let go is a null pointer for a handler that has read
\* the flag before, unless it waits inside the queue and finds nothing.
HandlerNull == At("handler", "get") /\ ~queues /\ Aborts

\* A packet that the parts read without looking, as one whose type has no handler:
\* i_handlers_ is not initialised.
BadPacket == At("handler", "get") /\ session = "open" /\ IsProvoked

\* run_IO_service (): run () comes back when the service is stopped.
IOService ==
  \/ Loops("io", "handler", "run")
  \/ /\ At("io", "run") /\ ~on["handler"]
     /\ Steps("io", "done") /\ UNCHANGED queues

\* RelayWorker::run (); its rounds are in RelayPeers.
Relay == ~on["relay"] /\ Loops("relay", "relay", "loop")

\* EmailWorker::run (): startCheckEmailTasks () tests the flag again, then goes
\* through the identities.
Mail ==
  \/ Loops("mail", "mail", "start")
  \/ /\ At("mail", "start")
     /\ LET on_ == on["mail"] /\ Identities # {}
        IN  /\ thread' = [thread EXCEPT !["mail"] = IF on_ THEN "insert" ELSE "tasks"]
            /\ visit' = IF on_ THEN Identities ELSE {}
     /\ UNCHANGED <<main, past, flags, keysVars, net, queues, checks, check>>
  \/ /\ At("mail", "insert") /\ visit = {}
     /\ Steps("mail", "tasks") /\ UNCHANGED queues

\* A check task for an identity that has none.
InsertCheck(i) ==
  /\ At("mail", "insert") /\ i \in visit
  /\ visit' = visit \ {i}
  /\ checks' = checks \cup {i}
  /\ check' = IF i \in checks THEN check ELSE [check EXCEPT ![i] = "loop"]
  /\ UNCHANGED <<main, past, flags, keysVars, net, queues, thread>>

\* startSendEmailTask () and the others, for tasks that are not there.
StartTasks ==
  /\ At("mail", "tasks")
  /\ thread' = [t \in Threads |->
                  IF t = "mail" THEN "loop"
                  ELSE IF t \in Tasks /\ thread[t] = "none" /\ on["mail"] /\ Identities # {} THEN "loop"
                  ELSE thread[t]]
  /\ UNCHANGED <<main, past, flags, keysVars, net, queues, mailVars>>

\* The tasks end when the flag is down; their rounds are in EmailDelivery.
Task(t) == ~on["mail"] /\ Loops(t, "mail", "loop")
CheckTask(i) ==
  /\ check[i] = "loop" /\ ~on["mail"]
  /\ check' = [check EXCEPT ![i] = "done"]
  /\ UNCHANGED <<main, past, flags, keysVars, net, queues, thread, checks, visit>>

\* SMTP::run () and POP3::run (): accept () does not wait.
Server(s) == ~on[s] /\ Loops(s, s, "loop")
Connect(s) == At(s, "loop") /\ on[s] /\ Steps(s, "session") /\ UNCHANGED queues
\* QUIT, or a connection that breaks; a client that just closes leaves the thread
\* in recv (), which returns 0 for ever.
EndSession(s) == At(s, "session") /\ Steps(s, "loop") /\ UNCHANGED queues
CloseSession(s) == At(s, "session") /\ Steps(s, "closed") /\ UNCHANGED queues
\* A command whose argument is no number, or no number of a mail.
BadCommand(s) == At(s, "session") /\ IsProvoked

\* BoteControl::run (): accept () waits.  close () closes and unlinks the socket: that
\* lets a later accept () fail, and does not wake one that waits.
Control ==
  \/ Loops("control", "control", "accept")
  \/ /\ At("control", "accept")
     /\ Steps("control", IF on["control"] THEN "waiting" ELSE "loop") /\ UNCHANGED queues

\* A control client connects and sends a request, now or never.  The handlers only
\* read the state of the other parts.
ControlConnect ==
  At("control", "waiting") /\ on["control"] /\ Steps("control", "session") /\ UNCHANGED queues
handle_request ==
  At("control", "session") /\ Steps("control", Again("control", "accept")) /\ UNCHANGED queues

-----------------------------------------------------------------------------
(* The router, and crashes *)

RouterUp ==
  /\ ~router /\ router' = TRUE
  /\ UNCHANGED <<main, past, flags, keysVars, session, sick, known, queues, thread,
                 mailVars>>

\* The router stops: nobody reads the socket of the session, so nothing of it is
\* noticed here.
RouterDown ==
  /\ router /\ router' = FALSE
  /\ session' = IF session = "open" THEN "lost" ELSE session
  /\ UNCHANGED <<main, past, flags, keysVars, sick, known, queues, thread, mailVars>>

\* The process is killed; a key that was being written is cut off.
Crash ==
  /\ Alive /\ starts < MaxStarts
  /\ Ends("off")
  /\ keyfile' \in {keyfile} \cup
       IF main = "save" /\ ~loaded THEN {[keyfile EXCEPT !["default"] = Torn]} ELSE {}
  /\ UNCHANGED <<past, running, router, unsaved, known>>

-----------------------------------------------------------------------------
MainStep ==
  \/ InitDaemon \/ StartFails \/ StartReceiver \/ createSAMSession \/ createSAMSessionFails
  \/ save_new_keys \/ StartSender \/ StartRelay \/ StartRelayThrows \/ StartHandler
  \/ StartMail \/ StartServers
  \/ Run \/ StopServers \/ StopNetwork \/ StopHandler \/ StopRelay \/ StopMail
  \/ (\E i \in Identities : JoinCheck(i))
  \/ StaticDestructors

MailStep == Mail \/ StartTasks \/ (\E i \in Identities : InsertCheck(i))

HandlerStep == Handler \/ HandlerNull

Outside ==
  \/ Signal \/ Datagram \/ BadPacket \/ RouterUp \/ RouterDown \/ Crash
  \/ ControlConnect \/ handle_request
  \/ \E s \in Servers : Connect(s) \/ EndSession(s) \/ CloseSession(s) \/ BadCommand(s)

Next ==
  \/ MainStep \/ Receiver \/ Sender \/ HandlerStep \/ IOService \/ Relay \/ MailStep \/ Control
  \/ (\E t \in Tasks : Task(t)) \/ (\E i \in Identities : CheckTask(i))
  \/ (\E s \in Servers : Server(s))
  \/ Outside

\* Every thread runs; nothing is assumed of the router, the clients or the peers.
Fairness ==
  /\ WF_vars(MainStep) /\ WF_vars(Receiver) /\ WF_vars(Sender) /\ WF_vars(HandlerStep)
  /\ WF_vars(IOService) /\ WF_vars(Relay) /\ WF_vars(MailStep) /\ WF_vars(Control)
  /\ \A t \in Tasks : WF_vars(Task(t))
  /\ \A i \in Identities : WF_vars(CheckTask(i))
  /\ \A s \in Servers : WF_vars(Server(s))

Spec == Init /\ [][Next]_vars /\ Fairness

-----------------------------------------------------------------------------
Places == {"none", "loop", "done", "recv", "get", "run", "start", "insert",
           "tasks", "session", "closed", "accept", "waiting"}

\* The state keeps its types, and a thread runs only in a process.
TypeOK ==
  /\ running \in BOOLEAN /\ starts \in 0 .. MaxStarts
  /\ blank \in BOOLEAN /\ provoked \in BOOLEAN
  /\ router \in BOOLEAN /\ session \in {"none", "open", "lost"} /\ sick \in BOOLEAN
  /\ keyfile \in [Paths -> Dests \cup {None, Torn}] /\ keys \in Dests \cup {None, Torn}
  /\ loaded \in BOOLEAN /\ unsaved \in BOOLEAN /\ known \subseteq Dests
  /\ queues \in BOOLEAN /\ visit \subseteq Identities
  /\ thread \in [Threads -> Places] /\ checks \subseteq Identities
  /\ check \in [Identities -> {"none", "loop", "done"}]
  /\ ~Alive => thread = NoThreads

\* A node keeps its address: once a packet has left under a destination, every
\* later process uses the same one, whatever crashes come, unless the key file
\* could not be written, or is read from a file of its own: the key is written to
\* the default one.
DestinationKept == ~unsaved /\ ~CustomPath => Cardinality(known) <= 1

\* Before it is told to stop the process does not end by itself: no thread uses
\* what start () has not set up yet, and a lost router does not end it.  Only input
\* that is not checked ends it: a line of peers.txt that was cut off, which ends
\* start (), and what a mail client or another node sends.
NoAbortWhileRunning == main = "aborted" /\ running => blank \/ provoked

\* Stopping waits for something that the outside can still do: the next datagram, a
\* command of a mail client, the router during start (), a request on a control
\* connection.
WaitsOutside ==
  \/ main = "sam"
  \/ main = "join servers" /\ \E s \in Servers : At(s, "session")
  \/ main = "join receiver" /\ At("receiver", "recv")
  \/ main = "static" /\ At("control", "session")

\* Stopping hangs, and nothing outside can end it but a kill: a client has closed the
\* connection of a session, whose recv () returns 0 for ever, or the control thread
\* waits in accept () for a socket that was closed and unlinked.
HangsForGood ==
  \/ main = "join servers" /\ \E s \in Servers : At(s, "closed")
  \/ main = "static" /\ At("control", "waiting")

\* After SIGTERM the process ends, or the main thread waits for the outside for ever,
\* or it hangs in one of the two ways above, and in no other: no thread that is joined
\* waits for another one, and each sees its flag.
StopEnds ==
  [](Alive /\ ~running => (<>~Alive \/ <>[](WaitsOutside \/ HangsForGood)))
===============================================================================
