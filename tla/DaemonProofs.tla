------------------------------ MODULE DaemonProofs ------------------------------
(***************************************************************************)
(* Theorems about Daemon, for any identities, tasks, servers, options and  *)
(* number of processes.                                                    *)
(***************************************************************************)
EXTENDS Daemon, FiniteSetTheorems, TLAPS

USE DaemonAssumption

-----------------------------------------------------------------------------
(* The inductive invariant *)

Flags == {"receiver", "sender", "handler", "relay", "mail", "control"} \cup Servers

FlagsOK ==
  /\ running \in BOOLEAN /\ router \in BOOLEAN /\ sick \in BOOLEAN /\ loaded \in BOOLEAN
  /\ unsaved \in BOOLEAN /\ queues \in BOOLEAN /\ blank \in BOOLEAN /\ provoked \in BOOLEAN
  /\ on \in [Flags -> BOOLEAN]

ThreadsOK ==
  /\ thread \in [Threads -> Places]
  /\ check \in [Identities -> {"none", "loop", "done"}]
  /\ checks \subseteq Identities /\ visit \subseteq Identities

DataOK ==
  /\ starts \in 0 .. MaxStarts /\ session \in {"none", "open", "lost"}
  /\ keyfile \in [Paths -> Dests \cup {None, Torn}] /\ keys \in Dests \cup {None, Torn}

\* The main thread is on its way out.
StopPlaces ==
  {"stopping", "join servers", "stop control", "stop receiver", "join receiver", "stop sender",
   "join sender", "stop handler", "join io", "drop queues", "stop relay", "join relay",
   "stop mail", "join tasks", "join checks", "static"}

\* Where the main thread is tells what the others can meet: no thread outlives the
\* process, the session is sick only while start () tries, stop () runs after a signal
\* only, what aborts the process before is input that is not checked, a handler without
\* queues exists only in stop (), and the sender starts last.
PlaceOK ==
  /\ ~Alive => thread = NoThreads /\ on = AllOff
  /\ sick => main = "sam"
  /\ main \in StopPlaces => ~running
  /\ main = "aborted" => ~running \/ blank \/ provoked
  /\ thread["handler"] # "none" /\ ~queues => main \in StopPlaces
  /\ on["sender"] => main \notin {"network", "sam", "save", "sender"}

\* A session has the destination of the key file, or the new one of this process.
KeyOK ==
  /\ known \subseteq Dests
  /\ Alive => starts # 0
  /\ Alive /\ loaded => keys # None
  /\ Alive /\ main \notin {"network", "sam"} => keys \in Dests

\* With the default key file: what was read is what is there; a key that was not read
\* is not there until it is saved; from then on it is the key of the session; and no
\* packet has left under another one.
KeptOK ==
  ~CustomPath =>
    /\ Alive /\ loaded => keys = keyfile["default"]
    /\ main \in {"network", "sam", "save"} /\ ~loaded => keyfile["default"] = None
    /\ Alive /\ main \notin {"network", "sam", "save"} /\ ~unsaved => keys = keyfile["default"]
    /\ ~unsaved => known \subseteq {keyfile["default"]}

Inv == FlagsOK /\ ThreadsOK /\ DataOK /\ PlaceOK /\ KeyOK /\ KeptOK

-----------------------------------------------------------------------------
(* The kinds of steps *)

\* The process ends; only a crash while a key is written touches the key file.
EndStep ==
  /\ \E how \in {"off", "exited", "aborted"} : Ends(how)
  /\ main' = "aborted" => ~running \/ blank \/ provoked'
  /\ UNCHANGED <<starts, blank, running, router, unsaved, known>>
  /\ provoked' \in {provoked, TRUE}
  /\ \/ keyfile' = keyfile
     \/ main = "save" /\ ~loaded /\ keyfile' = [keyfile EXCEPT !["default"] = Torn]

\* start () goes on and starts threads.
BeginStep ==
  /\ \E T : Begins(T)
  /\ on' \in [Flags -> BOOLEAN]
  /\ <<main, main'>> \in {<<"network", "sam">>, <<"sender", "relay">>, <<"relay", "handler">>,
                         <<"handler", "mail">>, <<"mail", "servers">>, <<"servers", "run">>}
  /\ main # "sender" => on'["sender"] = on["sender"]
  /\ queues' \in BOOLEAN /\ (queues => queues')
  /\ thread'["handler"] # thread["handler"] => queues'
  /\ UNCHANGED <<past, running, keysVars, net, mailVars>>

\* stop () goes on.
StopStep ==
  /\ main \in StopPlaces \/ (main = "run" /\ ~running)
  /\ main' \in StopPlaces
  /\ on' \in [Flags -> BOOLEAN] /\ (on'["sender"] => on["sender"])
  /\ queues' \in BOOLEAN
  /\ ThreadsOK'
  /\ UNCHANGED <<past, running, keysVars, net>>

\* A thread goes on, and may start tasks.
ThreadStep ==
  /\ UNCHANGED <<main, past, flags, keysVars, net, queues>>
  /\ ThreadsOK'
  /\ thread["handler"] = "none" => thread'["handler"] = "none"
  /\ thread' # thread => thread # NoThreads

SendStep ==
  /\ on["sender"]
  /\ known' = known \cup {keys}
  /\ UNCHANGED <<main, past, flags, keysVars, router, session, sick, queues, thread, mailVars>>

\* The steps that end the process.
LEMMA EndCases ==
  ASSUME Inv, \/ StartFails \/ StartRelayThrows \/ (Run /\ main' # "stopping") \/ StaticDestructors
              \/ HandlerNull \/ BadPacket \/ Crash \/ (\E s \in Servers : BadCommand(s))
              \/ \E i \in Identities : JoinCheck(i) /\ main' # "join checks"
  PROVE  EndStep
<1>1. ASSUME Aborts, ~running \/ blank PROVE EndStep
  BY <1>1 DEF Aborts, EndStep, past
<1>2. ASSUME Ends("exited"), UNCHANGED <<past, running, router, keyfile, unsaved, known>>
      PROVE  EndStep
  BY <1>2 DEF EndStep, Ends, past
<1>p. ASSUME IsProvoked PROVE EndStep
  BY <1>p DEF IsProvoked, EndStep
<1>3. CASE StartFails
  BY <1>2, <1>3 DEF StartFails
<1>4. CASE Run /\ main' # "stopping"
  BY <1>4 DEF Run, Goes, Inv, PlaceOK
<1>5. CASE StaticDestructors
  <2>1. ~running
    BY <1>5 DEF StaticDestructors, Inv, PlaceOK, StopPlaces
  <2> QED
    BY <1>1, <1>2, <1>5, <2>1 DEF StaticDestructors
<1>6. CASE HandlerNull
  <2>1. ~running
    BY <1>6 DEF HandlerNull, At, Inv, PlaceOK
  <2> QED
    BY <1>1, <1>6, <2>1 DEF HandlerNull
<1>7. CASE Crash
  <2>1. main' = "off"
    BY <1>7 DEF Crash, Ends
  <2> QED
    BY <1>7, <2>1 DEF Crash, EndStep, past
<1>8. ASSUME NEW i \in Identities, JoinCheck(i), main' # "join checks" PROVE EndStep
  <2>1. ~running
    BY <1>8 DEF JoinCheck, Inv, PlaceOK, StopPlaces
  <2> QED
    BY <1>1, <1>8, <2>1 DEF JoinCheck
<1>9. CASE StartRelayThrows
  BY <1>1, <1>9 DEF StartRelayThrows
<1>10. CASE BadPacket \/ \E s \in Servers : BadCommand(s)
  BY <1>p, <1>10 DEF BadPacket, BadCommand
<1> QED
  BY <1>3, <1>4, <1>5, <1>6, <1>7, <1>8, <1>9, <1>10

\* The steps of start () that begin a thread.
LEMMA BeginCases ==
  ASSUME Inv, \/ StartReceiver \/ StartSender \/ StartRelay \/ StartHandler \/ StartMail \/ StartServers
  PROVE  BeginStep
<1>1. on \in [Flags -> BOOLEAN] /\ queues \in BOOLEAN
  BY DEF Inv, FlagsOK
<1>2. "handler" \in Threads /\ "sender" \in Flags
  BY DEF Threads, Flags
<1>3. ASSUME NEW f \in Flags, on' = [on EXCEPT ![f] = TRUE]
      PROVE  on' \in [Flags -> BOOLEAN] /\ (f # "sender" => on'["sender"] = on["sender"])
  BY <1>1, <1>2, <1>3
<1>4. ASSUME NEW T, Begins(T), "handler" \notin T
      PROVE  thread'["handler"] = thread["handler"]
  BY <1>2, <1>4 DEF Begins
<1>5. CASE StartReceiver
  <2>1. on' = [on EXCEPT !["receiver"] = TRUE] /\ Begins({"receiver"}) /\ "receiver" \in Flags
    BY <1>5 DEF StartReceiver, Flags
  <2> QED
    BY <1>1, <1>3, <1>4, <1>5, <2>1 DEF StartReceiver, Goes, BeginStep
<1>6. CASE StartSender
  <2>1. on' = [on EXCEPT !["sender"] = TRUE] /\ Begins({"sender"})
    BY <1>6 DEF StartSender
  <2> QED
    BY <1>1, <1>2, <1>3, <1>4, <1>6, <2>1 DEF StartSender, Goes, BeginStep
<1>7. CASE StartRelay
  <2>1. on' = [on EXCEPT !["relay"] = TRUE] /\ Begins({"relay"}) /\ "relay" \in Flags
    BY <1>7 DEF StartRelay, Flags
  <2> QED
    BY <1>1, <1>3, <1>4, <1>7, <2>1 DEF StartRelay, Goes, BeginStep
<1>8. CASE StartHandler
  <2>1. on' = [on EXCEPT !["handler"] = TRUE] /\ Begins({"handler", "io"}) /\ "handler" \in Flags
    BY <1>8 DEF StartHandler, Flags
  <2> QED
    BY <1>1, <1>3, <1>8, <2>1 DEF StartHandler, Goes, BeginStep
<1>9. CASE StartMail
  <2>1. on' = [on EXCEPT !["mail"] = TRUE] /\ Begins({"mail"}) /\ "mail" \in Flags
    BY <1>9 DEF StartMail, Flags
  <2> QED
    BY <1>1, <1>3, <1>4, <1>9, <2>1 DEF StartMail, Goes, BeginStep
<1>10. CASE StartServers
  <2> DEFINE S == Servers \cup (IF isDaemon THEN {"control"} ELSE {})
  <2>1. on' = [f \in DOMAIN on |-> on[f] \/ f \in S] /\ Begins(S)
    BY <1>10 DEF StartServers
  <2>2. "handler" \notin S /\ "sender" \notin S
    OBVIOUS
  <2> HIDE DEF S
  <2>3. on' \in [Flags -> BOOLEAN] /\ on'["sender"] = on["sender"]
    BY <1>1, <1>2, <2>1, <2>2
  <2> QED
    BY <1>1, <1>4, <1>10, <2>1, <2>2, <2>3 DEF StartServers, Goes, BeginStep
<1> QED
  BY <1>5, <1>6, <1>7, <1>8, <1>9, <1>10

\* The steps of stop ().
LEMMA StopCases ==
  ASSUME Inv, \/ (Run /\ main' = "stopping") \/ StopServers \/ StopNetwork \/ StopHandler \/ StopRelay
              \/ StopMail \/ \E i \in Identities : JoinCheck(i) /\ main' = "join checks"
  PROVE  StopStep
<1>1. on \in [Flags -> BOOLEAN] /\ queues \in BOOLEAN /\ ThreadsOK
  BY DEF Inv, FlagsOK
<1>2. "sender" \in Flags
  BY DEF Flags
<1>3. ASSUME NEW pc \in StopPlaces, NEW F, NEW next \in StopPlaces, Clear(pc, F, next) PROVE StopStep
  <2>1. on' \in [Flags -> BOOLEAN] /\ (on'["sender"] => on["sender"])
    BY <1>1, <1>2, <1>3 DEF Clear
  <2> QED
    BY <1>1, <1>3, <2>1 DEF Clear, Goes, StopStep, ThreadsOK, mailVars
<1>4. ASSUME NEW pc \in StopPlaces, NEW T, NEW next \in StopPlaces, Join(pc, T, next) PROVE StopStep
  <2>1. thread' \in [Threads -> Places]
    BY <1>1, <1>4 DEF Join, ThreadsOK, Places
  <2> QED
    BY <1>1, <1>4, <2>1 DEF Join, Goes, StopStep, ThreadsOK, mailVars, flags
<1>5. CASE Run /\ main' = "stopping"
  BY <1>1, <1>5 DEF Run, Aborts, Ends, Goes, StopStep, StopPlaces, ThreadsOK, mailVars, flags
<1>6. CASE StopServers
  BY <1>3, <1>4, <1>6 DEF StopServers, StopPlaces
<1>7. CASE StopNetwork
  BY <1>3, <1>4, <1>7 DEF StopNetwork, StopPlaces
<1>8. CASE StopHandler
  <2>1. CASE main = "drop queues" /\ Goes("stop relay") /\ queues' = FALSE
             /\ UNCHANGED <<past, flags, keysVars, net, thread, mailVars>>
    BY <1>1, <2>1 DEF Goes, StopStep, StopPlaces, ThreadsOK, mailVars, flags
  <2> QED
    BY <1>3, <1>4, <1>8, <2>1 DEF StopHandler, StopPlaces
<1>9. CASE StopRelay
  BY <1>3, <1>4, <1>9 DEF StopRelay, StopPlaces
<1>10. CASE StopMail
  <2>1. CASE main = "join checks" /\ Goes("static")
             /\ UNCHANGED <<past, flags, keysVars, net, queues, thread, mailVars>>
    BY <1>1, <2>1 DEF Goes, StopStep, StopPlaces, ThreadsOK, mailVars, flags
  <2> QED
    BY <1>3, <1>4, <1>10, <2>1 DEF StopMail, StopPlaces
<1>11. ASSUME NEW i \in Identities, JoinCheck(i), main' = "join checks" PROVE StopStep
  <2>1. /\ main = "join checks" /\ checks' = checks \ {i} /\ check' = [check EXCEPT ![i] = "none"]
        /\ UNCHANGED <<visit, main, past, flags, keysVars, net, queues, thread>>
    BY <1>11 DEF JoinCheck, Aborts, Ends
  <2>2. ThreadsOK'
    BY <1>1, <2>1 DEF ThreadsOK
  <2> QED
    BY <1>1, <2>1, <2>2 DEF StopStep, StopPlaces, flags
<1> QED
  BY <1>5, <1>6, <1>7, <1>8, <1>9, <1>10, <1>11

\* The steps of the threads.
LEMMA ThreadCases ==
  ASSUME Inv, \/ Receiver \/ Datagram \/ (Sender /\ UNCHANGED known) \/ Handler \/ IOService \/ Relay
              \/ MailStep \/ Control \/ ControlConnect \/ handle_request
              \/ \E t \in Tasks : Task(t)
              \/ \E i \in Identities : CheckTask(i)
              \/ \E s \in Servers : Server(s) \/ Connect(s) \/ EndSession(s) \/ CloseSession(s)
  PROVE  ThreadStep \/ SendStep
<1>1. /\ thread \in [Threads -> Places] /\ check \in [Identities -> {"none", "loop", "done"}]
      /\ checks \subseteq Identities /\ visit \subseteq Identities
  BY DEF Inv, ThreadsOK
<1>2. /\ {"receiver", "sender", "handler", "io", "relay", "mail", "control"} \subseteq Threads
      /\ Tasks \subseteq Threads /\ Servers \subseteq Threads
  BY DEF Threads
<1>3. ASSUME NEW t \in Threads, NEW p, NEW q \in Places, At(t, p), p # "none", Steps(t, q), UNCHANGED queues
      PROVE  ThreadStep
  <2>1. thread' = [thread EXCEPT ![t] = q] /\ thread[t] # "none"
    BY <1>3 DEF Steps, At
  <2>2. thread # NoThreads
    BY <2>1 DEF NoThreads
  <2>3. UNCHANGED <<main, past, flags, keysVars, net, queues, checks, check, visit>>
    BY <1>3 DEF Steps, mailVars
  <2>4. ThreadsOK'
    BY <1>1, <2>1, <2>3 DEF ThreadsOK
  <2>5. thread["handler"] = "none" => thread'["handler"] = "none"
    BY <1>1, <1>2, <2>1
  <2> QED
    BY <2>2, <2>3, <2>4, <2>5 DEF ThreadStep
<1>4. ASSUME NEW t \in Threads, NEW f, NEW q \in Places, Loops(t, f, q) PROVE ThreadStep
  <2>1. Again(f, q) \in Places
    BY DEF Again, Places
  <2> QED
    BY <1>3, <1>4, <2>1 DEF Loops
<1>5. CASE Receiver \/ Datagram
  <2>1. Again("receiver", "recv") \in Places /\ "recv" \in Places
    BY DEF Again, Places
  <2> QED
    BY <1>2, <1>3, <1>4, <1>5, <2>1 DEF Receiver, Datagram
<1>6. CASE Sender
  <2>1. "loop" \in Places
    BY DEF Places
  <2> QED
    BY <1>2, <1>4, <1>6, <2>1 DEF Sender, SendStep
<1>7. CASE Handler \/ IOService \/ Relay
  <2>1. {"get", "loop", "run", "done"} \subseteq Places
    BY DEF Places
  <2> QED
    BY <1>2, <1>3, <1>4, <1>7, <2>1 DEF Handler, IOService, Relay
<1>8. CASE Control \/ ControlConnect \/ handle_request
  <2>1. Again("control", "accept") \in Places /\ {"accept", "session", "waiting", "loop"} \subseteq Places
    BY DEF Again, Places
  <2> QED
    BY <1>2, <1>3, <1>4, <1>8, <2>1 DEF Control, ControlConnect, handle_request
<1>9. ASSUME NEW t \in Tasks, Task(t) PROVE ThreadStep
  <2>1. "loop" \in Places
    BY DEF Places
  <2> QED
    BY <1>2, <1>4, <1>9, <2>1 DEF Task
<1>10. ASSUME NEW s \in Servers, Server(s) \/ Connect(s) \/ EndSession(s) \/ CloseSession(s)
       PROVE  ThreadStep
  <2>1. {"loop", "session", "closed"} \subseteq Places
    BY DEF Places
  <2> QED
    BY <1>2, <1>3, <1>4, <1>10, <2>1 DEF Server, Connect, EndSession, CloseSession
<1>11. ASSUME NEW i \in Identities, CheckTask(i) PROVE ThreadStep
  <2>1. check' \in [Identities -> {"none", "loop", "done"}]
    BY <1>1, <1>11 DEF CheckTask
  <2> QED
    BY <1>1, <1>11, <2>1 DEF CheckTask, ThreadStep, ThreadsOK
<1>12. ASSUME NEW i \in Identities, InsertCheck(i) PROVE ThreadStep
  <2>1. check' \in [Identities -> {"none", "loop", "done"}]
    BY <1>1, <1>12 DEF InsertCheck
  <2> QED
    BY <1>1, <1>12, <2>1 DEF InsertCheck, ThreadStep, ThreadsOK
<1>13. CASE StartTasks
  <2>1. thread' \in [Threads -> Places]
    BY <1>1, <1>13 DEF StartTasks, Places
  <2>2. thread'["handler"] = thread["handler"]
    BY <1>2, <1>13 DEF StartTasks
  <2>3. thread # NoThreads
    BY <1>2, <1>13 DEF StartTasks, At, NoThreads
  <2> QED
    BY <1>1, <1>13, <2>1, <2>2, <2>3 DEF StartTasks, ThreadStep, ThreadsOK, mailVars
<1>14. CASE Mail
  <2>1. {"start", "insert", "tasks"} \subseteq Places
    BY DEF Places
  <2>2. CASE /\ At("mail", "start")
             /\ LET on_ == on["mail"] /\ Identities # {}
                IN  /\ thread' = [thread EXCEPT !["mail"] = IF on_ THEN "insert" ELSE "tasks"]
                    /\ visit' = IF on_ THEN Identities ELSE {}
             /\ UNCHANGED <<main, past, flags, keysVars, net, queues, checks, check>>
    <3>1. PICK q \in Places : thread' = [thread EXCEPT !["mail"] = q]
      BY <2>1, <2>2
    <3>2. visit' \subseteq Identities
      BY <2>2
    <3>3. thread # NoThreads
      BY <1>2, <2>2 DEF At, NoThreads
    <3>4. ThreadsOK'
      BY <1>1, <2>2, <3>1, <3>2 DEF ThreadsOK
    <3>5. thread'["handler"] = thread["handler"]
      BY <1>1, <1>2, <3>1
    <3> QED
      BY <2>2, <3>3, <3>4, <3>5 DEF ThreadStep
  <2> QED
    BY <1>2, <1>3, <1>4, <1>14, <2>1, <2>2 DEF Mail
<1> QED
  BY <1>5, <1>6, <1>7, <1>8, <1>9, <1>10, <1>11, <1>12, <1>13, <1>14 DEF MailStep

\* Every step is of one of the kinds.
LEMMA StepCases ==
  ASSUME Inv, [Next]_vars
  PROVE  \/ EndStep \/ BeginStep \/ StopStep \/ ThreadStep \/ SendStep
         \/ InitDaemon \/ createSAMSession \/ createSAMSessionFails \/ save_new_keys
         \/ Signal \/ RouterUp \/ RouterDown
<1>1. CASE UNCHANGED vars
  BY <1>1 DEF vars, mailVars, ThreadStep, ThreadsOK, Inv
<1>2. CASE Sender /\ ~UNCHANGED known
  BY <1>2 DEF Sender, SendStep, Loops, Steps, net
<1>3. ASSUME NEW i \in Identities, JoinCheck(i) PROVE EndStep \/ StopStep
  BY <1>3, EndCases, StopCases
<1>4. CASE Run
  BY <1>4, EndCases, StopCases
<1>5. CASE MainStep
  BY <1>3, <1>4, <1>5, EndCases, BeginCases, StopCases DEF MainStep
<1>6. CASE Outside
  BY <1>6, ThreadCases, EndCases DEF Outside
<1>7. CASE HandlerStep
  BY <1>7, ThreadCases, EndCases DEF HandlerStep
<1>8. CASE \/ Receiver \/ Sender \/ IOService \/ Relay \/ MailStep \/ Control
           \/ (\E t \in Tasks : Task(t)) \/ (\E i \in Identities : CheckTask(i))
           \/ (\E s \in Servers : Server(s))
  BY <1>2, <1>8, ThreadCases
<1> QED
  BY <1>1, <1>5, <1>6, <1>7, <1>8 DEF Next

-----------------------------------------------------------------------------
(* The invariant holds initially, and every step keeps it *)

LEMMA InvInit == Init => Inv
<1> SUFFICES ASSUME Init PROVE Inv
  OBVIOUS
<1>1. AllOff \in [Flags -> BOOLEAN] /\ ~AllOff["sender"]
  BY DEF AllOff, Flags
<1>2. FlagsOK
  BY <1>1 DEF Init, FlagsOK
<1>3. ThreadsOK
  BY DEF Init, ThreadsOK, NoThreads, NoChecks, Places
<1>4. DataOK
  BY DEF Init, DataOK, Paths
<1>5. thread["handler"] = "none"
  BY DEF Init, NoThreads, Threads
<1>6. PlaceOK
  BY <1>1, <1>5 DEF Init, PlaceOK, StopPlaces
<1>7. KeyOK /\ KeptOK
  BY DEF Init, KeyOK, KeptOK, Alive
<1> QED
  BY <1>2, <1>3, <1>4, <1>6, <1>7 DEF Inv

\* The flags stay Boolean.
LEMMA FlagsStep == Inv /\ [Next]_vars => FlagsOK'
<1> SUFFICES ASSUME Inv, [Next]_vars PROVE FlagsOK'
  OBVIOUS
<1>1. FlagsOK
  BY DEF Inv
<1> USE DEF FlagsOK
<1>2. AllOff \in [Flags -> BOOLEAN]
  BY DEF AllOff, Flags
<1>3. CASE EndStep
  BY <1>1, <1>2, <1>3 DEF EndStep, Ends
<1>4. CASE BeginStep
  BY <1>1, <1>4 DEF BeginStep, keysVars, net, past
<1>5. CASE StopStep
  BY <1>1, <1>5 DEF StopStep, keysVars, net, past
<1>6. CASE ThreadStep
  BY <1>1, <1>6 DEF ThreadStep, flags, keysVars, net, past
<1>7. CASE SendStep
  BY <1>1, <1>7 DEF SendStep, flags, keysVars, past
<1>8. CASE InitDaemon
  BY <1>1, <1>8 DEF InitDaemon, net
<1>9. CASE createSAMSession
  BY <1>1, <1>9 DEF createSAMSession, flags, past
<1>10. CASE createSAMSessionFails
  BY <1>1, <1>10 DEF createSAMSessionFails, flags, keysVars, past
<1>11. CASE save_new_keys
  BY <1>1, <1>11 DEF save_new_keys, flags, net, past
<1>12. CASE Signal
  BY <1>1, <1>12 DEF Signal, keysVars, net, past
<1>13. CASE RouterUp \/ RouterDown
  BY <1>1, <1>13 DEF RouterUp, RouterDown, flags, keysVars, past
<1> QED
  BY <1>3, <1>4, <1>5, <1>6, <1>7, <1>8, <1>9, <1>10, <1>11, <1>12, <1>13, StepCases

\* The threads stay at their places.
LEMMA ThreadsStep == Inv /\ [Next]_vars => ThreadsOK'
<1> SUFFICES ASSUME Inv, [Next]_vars PROVE ThreadsOK'
  OBVIOUS
<1>1. ThreadsOK
  BY DEF Inv
<1>2. CASE UNCHANGED <<thread, mailVars>>
  BY <1>1, <1>2 DEF ThreadsOK, mailVars
<1>3. CASE EndStep
  BY <1>3 DEF EndStep, Ends, ThreadsOK, NoThreads, NoChecks, Places
<1>4. CASE BeginStep
  <2>1. thread' \in [Threads -> Places]
    BY <1>1, <1>4 DEF BeginStep, Begins, ThreadsOK, Places
  <2> QED
    BY <1>1, <1>4, <2>1 DEF BeginStep, ThreadsOK, mailVars
<1>5. CASE StopStep \/ ThreadStep
  BY <1>5 DEF StopStep, ThreadStep
<1>6. CASE SendStep \/ InitDaemon \/ createSAMSession \/ createSAMSessionFails \/ save_new_keys
  BY <1>2, <1>6
     DEF SendStep, InitDaemon, createSAMSession, createSAMSessionFails, save_new_keys
<1>7. CASE Signal \/ RouterUp \/ RouterDown
  BY <1>2, <1>7 DEF Signal, RouterUp, RouterDown
<1> QED
  BY <1>3, <1>4, <1>5, <1>6, <1>7, StepCases

\* What the router answers is a destination.
LEMMA SessionDest ==
  ASSUME Inv, main = "sam", createDatagramSession # None
  PROVE  /\ createDatagramSession \in Dests
         /\ loaded => createDatagramSession = keys
<1>1. keys \in Dests \cup {None, Torn} /\ starts \in Dests
  BY DEF Inv, DataOK, KeyOK, Alive, Dests
<1>2. loaded => keys # None
  BY DEF Inv, KeyOK, Alive
<1>3. createDatagramSession = Answer(sessionCreate)
  BY DEF createDatagramSession
<1>4. CASE loaded
  BY <1>1, <1>2, <1>3, <1>4 DEF sessionCreate, Answer
<1>5. CASE ~loaded
  BY <1>1, <1>3, <1>5 DEF sessionCreate, Answer
<1> QED
  BY <1>4, <1>5

\* Keys and key files are destinations or the rest of one.
LEMMA DataStep == Inv /\ [Next]_vars => DataOK'
<1> SUFFICES ASSUME Inv, [Next]_vars PROVE DataOK'
  OBVIOUS
<1>1. DataOK
  BY DEF Inv
<1>2. CASE UNCHANGED <<starts, session, keyfile, keys>>
  BY <1>1, <1>2 DEF DataOK
<1>3. CASE EndStep
  BY <1>1, <1>3 DEF EndStep, Ends, DataOK
<1>4. CASE BeginStep \/ StopStep \/ ThreadStep
  BY <1>2, <1>4 DEF BeginStep, StopStep, ThreadStep, keysVars, net, past
<1>5. CASE SendStep \/ createSAMSessionFails \/ Signal \/ RouterUp
  BY <1>2, <1>5 DEF SendStep, createSAMSessionFails, Signal, RouterUp, keysVars, net, past
<1>6. CASE InitDaemon
  <2>1. keyfile[keyPath] \in Dests \cup {None, Torn}
    BY <1>1 DEF DataOK, keyPath, Paths
  <2> QED
    BY <1>1, <1>6, <2>1 DEF InitDaemon, DataOK, net
<1>7. CASE createSAMSession
  <2>1. createDatagramSession \in Dests
    BY <1>7, SessionDest DEF createSAMSession
  <2> QED
    BY <1>1, <1>7, <2>1 DEF createSAMSession, DataOK, past
<1>8. CASE save_new_keys
  BY <1>1, <1>8 DEF save_new_keys, DataOK, net, past
<1>9. CASE RouterDown
  BY <1>1, <1>9 DEF RouterDown, DataOK, keysVars, past
<1> QED
  BY <1>3, <1>4, <1>5, <1>6, <1>7, <1>8, <1>9, StepCases

\* What the place of the main thread tells of the others.
LEMMA PlaceStep == Inv /\ [Next]_vars => PlaceOK'
<1> SUFFICES ASSUME Inv, [Next]_vars PROVE PlaceOK'
  OBVIOUS
<1>1. PlaceOK
  BY DEF Inv
<1> USE DEF PlaceOK, Alive, StopPlaces
<1>2. ~AllOff["sender"] /\ NoThreads["handler"] = "none"
  BY DEF AllOff, NoThreads, Threads
<1>3. CASE EndStep
  <2>1. /\ main' \in {"off", "exited", "aborted"} /\ on' = AllOff /\ thread' = NoThreads
        /\ sick' = FALSE /\ running' = running /\ blank' = blank
        /\ main' = "aborted" => ~running \/ blank \/ provoked'
    BY <1>3 DEF EndStep, Ends
  <2> QED
    BY <1>2, <2>1
<1>4. CASE BeginStep
  <2>1. sick' = sick /\ running' = running
    BY <1>4 DEF BeginStep, net
  <2>2. /\ main' \in {"sam", "relay", "handler", "mail", "servers", "run"}
        /\ main \in {"network", "sender", "relay", "handler", "mail", "servers"}
    BY <1>4 DEF BeginStep
  <2>3. on'["sender"] => main' \notin {"network", "sam", "save", "sender"}
    BY <1>1, <1>4 DEF BeginStep
  <2>4. ~(thread'["handler"] # "none" /\ ~queues')
    BY <1>1, <1>4, <2>2 DEF BeginStep
  <2>5. ~sick'
    BY <1>1, <2>1, <2>2
  <2> QED
    BY <2>2, <2>3, <2>4, <2>5
<1>5. CASE StopStep
  <2>1. sick' = sick /\ running' = running
    BY <1>5 DEF StopStep, net
  <2>2. ~running /\ ~sick
    BY <1>1, <1>5 DEF StopStep
  <2>3. main' \in StopPlaces
    BY <1>5 DEF StopStep
  <2> QED
    BY <2>1, <2>2, <2>3
<1>6. CASE ThreadStep
  <2>1. UNCHANGED <<main, blank, provoked, running, on, sick, queues>>
    BY <1>6 DEF ThreadStep, flags, net, past
  <2>2. /\ thread["handler"] = "none" => thread'["handler"] = "none"
        /\ thread = NoThreads => thread' = NoThreads
    BY <1>6 DEF ThreadStep
  <2> QED
    BY <1>1, <2>1, <2>2
<1>7. CASE SendStep \/ RouterUp \/ RouterDown
  <2>1. UNCHANGED <<main, blank, provoked, running, on, sick, queues, thread>>
    BY <1>7 DEF SendStep, RouterUp, RouterDown, flags, past
  <2> QED
    BY <1>1, <2>1
<1>8. CASE InitDaemon
  <2>1. /\ main' = "network" /\ on' = on /\ sick' = sick /\ thread' = thread
        /\ main \in {"off", "exited", "aborted"}
    BY <1>8 DEF InitDaemon, Goes, net
  <2> QED
    BY <1>1, <1>2, <2>1
<1>9. CASE createSAMSession
  <2>1. /\ main' = "save" /\ main = "sam" /\ sick' = FALSE
        /\ UNCHANGED <<running, on, queues, thread>>
    BY <1>9 DEF createSAMSession, Goes, flags
  <2> QED
    BY <1>1, <2>1
<1>10. CASE createSAMSessionFails
  <2>1. main = "sam" /\ UNCHANGED <<main, running, on, queues, thread>>
    BY <1>10 DEF createSAMSessionFails, flags
  <2> QED
    BY <1>1, <2>1
<1>11. CASE save_new_keys
  <2>1. main = "save" /\ main' = "sender" /\ UNCHANGED <<running, on, queues, thread, sick>>
    BY <1>11 DEF save_new_keys, Goes, flags, net
  <2> QED
    BY <1>1, <2>1
<1>12. CASE Signal
  <2>1. running' = FALSE /\ UNCHANGED <<main, on, queues, thread, sick>>
    BY <1>12 DEF Signal, net
  <2> QED
    BY <1>1, <2>1
<1> QED
  BY <1>3, <1>4, <1>5, <1>6, <1>7, <1>8, <1>9, <1>10, <1>11, <1>12, StepCases

\* Where the keys come from.
LEMMA KeyStep == Inv /\ [Next]_vars => KeyOK'
<1> SUFFICES ASSUME Inv, [Next]_vars PROVE KeyOK'
  OBVIOUS
<1>1. KeyOK /\ PlaceOK /\ starts \in 0 .. MaxStarts
  BY DEF Inv, DataOK
<1> USE DEF KeyOK, Alive
<1>2. CASE UNCHANGED <<main, starts, loaded, keys, known>>
  BY <1>1, <1>2
<1>3. CASE EndStep
  BY <1>1, <1>3 DEF EndStep, Ends
<1>4. CASE BeginStep
  <2>1. UNCHANGED <<starts, loaded, keys, known>>
    BY <1>4 DEF BeginStep, keysVars, net, past
  <2>2. \/ main = "network" /\ main' = "sam"
        \/ /\ main \in {"sender", "relay", "handler", "mail", "servers"}
           /\ main' \in {"relay", "handler", "mail", "servers", "run"}
    BY <1>4 DEF BeginStep
  <2> QED
    BY <1>1, <2>1, <2>2
<1>5. CASE StopStep
  <2>1. UNCHANGED <<starts, loaded, keys, known>>
    BY <1>5 DEF StopStep, keysVars, net, past
  <2>2. main \in StopPlaces \cup {"run"} /\ main' \in StopPlaces
    BY <1>5 DEF StopStep
  <2> QED
    BY <1>1, <2>1, <2>2 DEF StopPlaces
<1>6. CASE ThreadStep \/ createSAMSessionFails \/ Signal \/ RouterUp \/ RouterDown
  BY <1>2, <1>6
     DEF ThreadStep, createSAMSessionFails, Signal, RouterUp, RouterDown, keysVars, net, past
<1>7. CASE SendStep
  <2>1. keys \in Dests
    <3>1. on["sender"]
      BY <1>7 DEF SendStep
    <3>2. Alive
      BY <1>1, <3>1 DEF PlaceOK, AllOff
    <3> QED
      BY <1>1, <3>1, <3>2 DEF PlaceOK
  <2>2. known' = known \cup {keys} /\ UNCHANGED <<main, starts, loaded, keys>>
    BY <1>7 DEF SendStep, keysVars, past
  <2> QED
    BY <1>1, <2>1, <2>2
<1>8. CASE InitDaemon
  <2>1. /\ main' = "network" /\ starts' = starts + 1 /\ known' = known
        /\ keys' = keyfile[keyPath] /\ loaded' = (keyfile[keyPath] # None)
    BY <1>8 DEF InitDaemon, Goes, net
  <2>2. starts' # 0
    BY <1>1, <2>1
  <2> QED
    BY <1>1, <2>1, <2>2
<1>9. CASE createSAMSession
  <2>1. /\ keys' = createDatagramSession /\ main' = "save" /\ main = "sam"
        /\ UNCHANGED <<starts, loaded, known>>
    BY <1>9 DEF createSAMSession, Goes, past
  <2>2. createDatagramSession \in Dests
    BY <1>9, SessionDest DEF createSAMSession
  <2>3. None \notin Dests
    BY DEF Dests
  <2> QED
    BY <1>1, <2>1, <2>2, <2>3
<1>10. CASE save_new_keys
  <2>1. main' = "sender" /\ main = "save" /\ UNCHANGED <<starts, loaded, known, keys>>
    BY <1>10 DEF save_new_keys, Goes, net, past
  <2> QED
    BY <1>1, <2>1
<1> QED
  BY <1>3, <1>4, <1>5, <1>6, <1>7, <1>8, <1>9, <1>10, StepCases

\* The default key file holds the destination under which packets have left.
LEMMA KeptStep == Inv /\ [Next]_vars => KeptOK'
<1> DEFINE Kept == /\ Alive /\ loaded => keys = keyfile["default"]
                   /\ main \in {"network", "sam", "save"} /\ ~loaded => keyfile["default"] = None
                   /\ Alive /\ main \notin {"network", "sam", "save"} /\ ~unsaved
                        => keys = keyfile["default"]
                   /\ ~unsaved => known \subseteq {keyfile["default"]}
<1> SUFFICES ASSUME Inv, [Next]_vars, ~CustomPath PROVE Kept'
  BY DEF KeptOK
<1>1. Kept /\ KeyOK /\ PlaceOK /\ keyfile \in [Paths -> Dests \cup {None, Torn}]
  BY DEF Inv, DataOK, KeptOK
<1>2. None \notin Dests /\ "default" \in Paths
  BY DEF Dests, Paths
<1>3. ~unsaved /\ main \in {"network", "sam", "save"} /\ ~loaded => known = {}
  BY <1>1, <1>2 DEF KeyOK
<1> USE DEF Alive
<1>4. CASE UNCHANGED <<main, loaded, keys, keyfile, unsaved, known>>
  BY <1>1, <1>4
<1>5. CASE EndStep
  <2>1. main' \in {"off", "exited", "aborted"} /\ UNCHANGED <<unsaved, known>>
    BY <1>5 DEF EndStep, Ends
  <2>2. CASE keyfile' = keyfile
    BY <1>1, <2>1, <2>2
  <2>3. CASE main = "save" /\ ~loaded
    BY <1>3, <2>1, <2>3
  <2> QED
    BY <1>5, <2>2, <2>3 DEF EndStep
<1>6. CASE BeginStep
  <2>1. UNCHANGED <<loaded, keys, keyfile, unsaved, known>>
    BY <1>6 DEF BeginStep, keysVars, net
  <2>2. \/ main = "network" /\ main' = "sam"
        \/ /\ main \in {"sender", "relay", "handler", "mail", "servers"}
           /\ main' \in {"relay", "handler", "mail", "servers", "run"}
    BY <1>6 DEF BeginStep
  <2> QED
    BY <1>1, <2>1, <2>2
<1>7. CASE StopStep
  <2>1. UNCHANGED <<loaded, keys, keyfile, unsaved, known>>
    BY <1>7 DEF StopStep, keysVars, net
  <2>2. main \in StopPlaces \cup {"run"} /\ main' \in StopPlaces
    BY <1>7 DEF StopStep
  <2> QED
    BY <1>1, <2>1, <2>2 DEF StopPlaces
<1>8. CASE ThreadStep \/ createSAMSessionFails \/ Signal \/ RouterUp \/ RouterDown
  BY <1>4, <1>8
     DEF ThreadStep, createSAMSessionFails, Signal, RouterUp, RouterDown, keysVars, net
<1>9. CASE SendStep
  <2>1. on["sender"]
    BY <1>9 DEF SendStep
  <2>2. Alive /\ main \notin {"network", "sam", "save"}
    BY <1>1, <2>1 DEF PlaceOK, AllOff
  <2>3. known' = known \cup {keys} /\ UNCHANGED <<main, loaded, keys, keyfile, unsaved>>
    BY <1>9 DEF SendStep, keysVars
  <2> QED
    BY <1>1, <2>2, <2>3
<1>10. CASE InitDaemon
  <2>1. /\ main' = "network" /\ keys' = keyfile["default"] /\ loaded' = (keyfile["default"] # None)
        /\ UNCHANGED <<keyfile, unsaved, known>>
    BY <1>10 DEF InitDaemon, Goes, keyPath, net
  <2> QED
    BY <1>1, <2>1
<1>11. CASE createSAMSession
  <2>1. /\ keys' = createDatagramSession /\ main' = "save" /\ main = "sam"
        /\ UNCHANGED <<loaded, keyfile, unsaved, known>>
    BY <1>11 DEF createSAMSession, Goes
  <2>2. loaded => createDatagramSession = keys
    BY <1>11, SessionDest DEF createSAMSession
  <2> QED
    BY <1>1, <2>1, <2>2
<1>12. CASE save_new_keys
  <2>1. main' = "sender" /\ main = "save" /\ UNCHANGED <<loaded, known, keys>>
    BY <1>12 DEF save_new_keys, Goes, net
  <2>2. \/ loaded /\ UNCHANGED <<keyfile, unsaved>>
        \/ ~loaded /\ keyfile' = [keyfile EXCEPT !["default"] = keys] /\ UNCHANGED unsaved
        \/ ~loaded /\ unsaved' = TRUE
    BY <1>12 DEF save_new_keys
  <2>3. CASE loaded /\ UNCHANGED <<keyfile, unsaved>>
    BY <1>1, <2>1, <2>3
  <2>4. CASE ~loaded /\ keyfile' = [keyfile EXCEPT !["default"] = keys] /\ UNCHANGED unsaved
    <3>1. keyfile'["default"] = keys
      BY <1>1, <1>2, <2>4
    <3> QED
      BY <1>3, <2>1, <2>4, <3>1
  <2>5. CASE ~loaded /\ unsaved' = TRUE
    BY <2>1, <2>5
  <2> QED
    BY <2>2, <2>3, <2>4, <2>5
<1> QED
  BY <1>5, <1>6, <1>7, <1>8, <1>9, <1>10, <1>11, <1>12, StepCases

-----------------------------------------------------------------------------
(* The theorems *)

\* The parts above hold in every state of every process.
THEOREM DaemonInvariant == Spec => []Inv
<1>1. Inv /\ [Next]_vars => Inv'
  BY FlagsStep, ThreadsStep, DataStep, PlaceStep, KeyStep, KeptStep DEF Inv
<1> QED
  BY <1>1, InvInit, PTL DEF Spec

\* The variables have their types, and no thread is left when the process has ended.
THEOREM DaemonTypes == Spec => []TypeOK
<1>1. Inv => TypeOK
  <2> SUFFICES ASSUME Inv PROVE TypeOK
    OBVIOUS
  <2>1. /\ running \in BOOLEAN /\ router \in BOOLEAN /\ sick \in BOOLEAN
        /\ loaded \in BOOLEAN /\ unsaved \in BOOLEAN /\ queues \in BOOLEAN
        /\ blank \in BOOLEAN /\ provoked \in BOOLEAN
    BY DEF Inv, FlagsOK
  <2>2. /\ starts \in 0 .. MaxStarts /\ session \in {"none", "open", "lost"}
        /\ keyfile \in [Paths -> Dests \cup {None, Torn}] /\ keys \in Dests \cup {None, Torn}
        /\ known \subseteq Dests
    BY DEF Inv, DataOK, KeyOK
  <2>3. /\ visit \subseteq Identities /\ checks \subseteq Identities
        /\ thread \in [Threads -> Places] /\ check \in [Identities -> {"none", "loop", "done"}]
    BY DEF Inv, ThreadsOK
  <2>4. ~Alive => thread = NoThreads
    BY DEF Inv, PlaceOK
  <2> QED
    BY <2>1, <2>2, <2>3, <2>4 DEF TypeOK
<1> QED
  BY <1>1, DaemonInvariant, PTL

\* However often it is started and killed, the daemon sends under one destination,
\* unless the key could not be written or option sam.key names another file.
THEOREM OneDestination == Spec => []DestinationKept
<1>1. Inv => DestinationKept
  <2> SUFFICES ASSUME Inv, ~unsaved, ~CustomPath PROVE Cardinality(known) <= 1
    BY DEF DestinationKept
  <2>1. known \in SUBSET {keyfile["default"]}
    BY DEF Inv, KeptOK
  <2>2. IsFiniteSet({keyfile["default"]}) /\ Cardinality({keyfile["default"]}) = 1
    BY FS_Singleton
  <2> QED
    BY <2>1, <2>2, FS_Subset
<1> QED
  BY <1>1, DaemonInvariant, PTL

\* A process aborts only after it was told to stop, or by input that the code does not
\* check (a cut line of peers.txt, a mail client's command, a packet): the session is
\* never sick once start () is through, and the handler has its queues until stop ()
\* lets them go.
THEOREM AbortsOnlyStopping == Spec => []NoAbortWhileRunning
<1>1. Inv => NoAbortWhileRunning
  BY DEF Inv, PlaceOK, NoAbortWhileRunning
<1> QED
  BY <1>1, DaemonInvariant, PTL
=============================================================================
