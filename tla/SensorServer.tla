---------------------------- MODULE SensorServer ----------------------------
(***************************************************************************)
(* Client/SocketServer.c: the process that samples two sensors in two      *)
(* threads and streams their readings to one client.                       *)
(*                                                                         *)
(* Threads: Main, which accepts the client, creates the sensor threads and *)
(* joins them, and one thread for each sensor.  A signal may interrupt any *)
(* of them; its handler then runs on that thread.                          *)
(*                                                                         *)
(* The socket of the connection is modelled by what send() meets on it:    *)
(*   "open"     the client reads                                           *)
(*   "fin"      the client closed, nothing was sent to it since            *)
(*   "rsting"   bytes were sent after that: a reset is on its way          *)
(*   "reset"    the client closed over unread bytes: ECONNRESET is pending *)
(*   "broken"   the next send fails with EPIPE and raises SIGPIPE          *)
(*   "shut"     shut down by handle_sig: the same                          *)
(***************************************************************************)
EXTENDS Wire

CONSTANTS
  Loggers,            \* the sensors whose loop calls syslog()
  ReentrantSyslog,    \* may syslog() be re-entered by the thread that is inside?
  Kinds,              \* bound: what a reading may be, some of {FALSE, TRUE}
  SndBuf,             \* how many cells the socket's send buffer holds
  MaxSignals,         \* bound: how many SIGINT, SIGTERM are delivered
  MaxClients,         \* bound: how many clients connect
  Faults              \* which calls may fail: "setup", "bind", "accept", "spawn"

ASSUME ServerAssumption ==
  /\ Loggers \subseteq Sensors
  /\ ReentrantSyslog \in BOOLEAN
  /\ Kinds \subseteq BOOLEAN
  /\ SndBuf \in Nat \ {0}
  /\ MaxSignals \in Nat
  /\ MaxClients \in Nat
  /\ Faults \subseteq {"setup", "bind", "accept", "spawn"}

Main == 0
Nobody == -1
Threads == Sensors \cup {Main}

VARIABLES
  proc,           \* "up", or how the process ended
  port,           \* where the process listens: "none", "service", "other"
  backlog,        \* connections that wait in listen()'s queue
  accepted,       \* how many connections accept() has returned
  conn,           \* the connection newfd names, "none" before the first
  sent,           \* what entered that connection
  taken,          \* how much of it the client has received
  main,           \* where main() is
  spawned,        \* the sensors whose thread is created
  pc,             \* where each sensor thread is
  sample,         \* k of each thread: its latest reading
  rdBuff,         \* the buffer the threads share
  socklock,       \* the owner of the mutex that protects it
  logOwner,       \* the thread inside syslog()
  signal_flag,    \* 1 until a handler runs
  signals,        \* how many signals were delivered
  hs              \* where the handler is on each thread, "none" when not running

sockVars == <<port, backlog, accepted>>
connVars == <<conn, sent, taken>>
threadVars == <<pc, sample, rdBuff, socklock>>
sigVars == <<signal_flag, signals, hs>>
vars == <<proc, sockVars, connVars, main, spawned, threadVars, logOwner, sigVars>>

MainPoints ==
  {"setup", "accept", "failed", "logging", "spawn", "join", "end", "stopping", "reporting"}
ThreadPoints ==
  {"none", "test", "log", "logging", "sample", "lock", "format", "send", "unlock",
   "done"}

TypeOK ==
  /\ proc \in {"up", "exited", "failed", "sigpipe"}
  /\ port \in {"none", "service", "other"}
  /\ backlog \in 0..MaxClients
  /\ accepted \in Nat
  /\ conn \in {"none", "open", "fin", "rsting", "reset", "broken", "shut"}
  /\ sent \in Seq(Cells)
  /\ taken \in 0..Len(sent)
  /\ main \in MainPoints
  /\ spawned \subseteq Sensors
  /\ pc \in [Sensors -> ThreadPoints]
  /\ sample \in [Sensors -> Readings]
  /\ \A t \in Sensors : sample[t].sensor = t
  /\ rdBuff \in Seq(Cells)
  /\ socklock \in Sensors \cup {Nobody}
  /\ logOwner \in Threads \cup {Nobody}
  /\ signal_flag \in {0, 1}
  /\ signals \in 0..MaxSignals
  /\ hs \in [Threads -> {"none", "log", "shutdown", "exit"}]

Init ==
  /\ proc = "up"
  /\ port = "none" /\ backlog = 0 /\ accepted = 0
  /\ conn = "none" /\ sent = <<>> /\ taken = 0
  /\ main = "setup" /\ spawned = {}
  /\ pc = [t \in Sensors |-> "none"]
  /\ sample = [t \in Sensors |-> [sensor |-> t, alert |-> FALSE, serial |-> 0]]
  /\ rdBuff = <<>>
  /\ socklock = Nobody /\ logOwner = Nobody
  /\ signal_flag = 1 /\ signals = 0
  /\ hs = [p \in Threads |-> "none"]
-----------------------------------------------------------------------------
(***************************************************************************)
(* main()                                                                  *)
(***************************************************************************)
MainAt(l) == proc = "up" /\ main = l /\ hs[Main] = "none"

\* Mutex, getaddrinfo, socket, bind, listen.  A bind() that fails is only
\* reported: listen() then gives the socket a port of the kernel's choice.
Setup ==
  /\ MainAt("setup")
  /\ \/ port' = "service"
     \/ "bind" \in Faults /\ port' = "other"
  /\ main' = "accept"
  /\ UNCHANGED <<proc, backlog, accepted, connVars, spawned, threadVars, logOwner, sigVars>>

\* mutex_init fails: return -1; getaddrinfo or listen fails: syslog(LOG_ERR) first.
SetupFails ==
  /\ MainAt("setup")
  /\ "setup" \in Faults
  /\ \/ proc' = "failed" /\ UNCHANGED main
     \/ main' = "stopping" /\ UNCHANGED proc
  /\ UNCHANGED <<sockVars, connVars, spawned, threadVars, logOwner, sigVars>>

\* newfd = accept(...), at the top of while(signal_flag).
Accept ==
  /\ MainAt("accept")
  /\ backlog > 0
  /\ backlog' = backlog - 1
  /\ accepted' = accepted + 1
  /\ conn' = "open" /\ sent' = <<>> /\ taken' = 0
  /\ main' = "spawn"
  /\ UNCHANGED <<proc, port, spawned, threadVars, logOwner, sigVars>>

AcceptFails ==
  /\ MainAt("accept")
  /\ "accept" \in Faults
  /\ main' = "failed"
  /\ UNCHANGED <<proc, sockVars, connVars, spawned, threadVars, logOwner, sigVars>>

\* syslog(LOG_ERR, "Socket accept failed.") is entered.
AcceptLog ==
  /\ MainAt("failed")
  /\ logOwner = Nobody
  /\ logOwner' = Main
  /\ main' = "logging"
  /\ UNCHANGED <<proc, sockVars, connVars, spawned, threadVars, sigVars>>

\* It returns; if(!signal_flag) break, else exit(EXIT_FAILURE).
AcceptExit ==
  /\ MainAt("logging")
  /\ logOwner' = Nobody
  /\ IF signal_flag = 0
     THEN main' = "end" /\ UNCHANGED proc
     ELSE proc' = "failed" /\ UNCHANGED main
  /\ UNCHANGED <<sockVars, connVars, spawned, threadVars, sigVars>>

\* A mutated form of Spawn: main() does not join, and accepts again.
SpawnWithoutJoin(t) ==
  /\ MainAt("spawn")
  /\ t \notin spawned
  /\ \A u \in Sensors \ spawned : t <= u
  /\ spawned' = spawned \cup {t}
  /\ pc' = [pc EXCEPT ![t] = "test"]
  /\ main' = IF spawned' = Sensors THEN "accept" ELSE "spawn"
  /\ UNCHANGED <<proc, sockVars, connVars, sample, rdBuff, socklock, logOwner, sigVars>>

\* pthread_create for the next sensor; after the last one, pthread_join.
Spawn(t) ==
  /\ MainAt("spawn")
  /\ t \notin spawned
  /\ \A u \in Sensors \ spawned : t <= u
  /\ spawned' = spawned \cup {t}
  /\ pc' = [pc EXCEPT ![t] = "test"]
  /\ main' = IF spawned' = Sensors THEN "join" ELSE "spawn"
  /\ UNCHANGED <<proc, sockVars, connVars, sample, rdBuff, socklock, logOwner, sigVars>>

\* pthread_create fails, while the thread that was already created runs.
SpawnFails ==
  /\ MainAt("spawn")
  /\ "spawn" \in Faults
  /\ main' = "stopping"
  /\ UNCHANGED <<proc, sockVars, connVars, spawned, threadVars, logOwner, sigVars>>

\* syslog(LOG_ERR, ...) about a call that failed is entered...
StopLog ==
  /\ MainAt("stopping")
  /\ logOwner = Nobody
  /\ logOwner' = Main
  /\ main' = "reporting"
  /\ UNCHANGED <<proc, sockVars, connVars, spawned, threadVars, sigVars>>

\* ... and returns; return -1 ends the process, and the thread with it.
StopExit ==
  /\ MainAt("reporting")
  /\ logOwner' = Nobody
  /\ proc' = "failed"
  /\ UNCHANGED <<sockVars, connVars, main, spawned, threadVars, sigVars>>
-----------------------------------------------------------------------------
(***************************************************************************)
(* threadhandler1(), threadhandler2()                                      *)
(***************************************************************************)
At(t, l) == proc = "up" /\ pc[t] = l /\ hs[t] = "none"

\* while(signal_flag)
Test(t) ==
  /\ At(t, "test")
  /\ signal_flag = 1
  /\ pc' = [pc EXCEPT ![t] = IF t \in Loggers THEN "log" ELSE "sample"]
  /\ UNCHANGED <<proc, sockVars, connVars, main, spawned, sample, rdBuff, socklock,
                 logOwner, sigVars>>

\* pthread_exit.  When it is the last thread main() was joining, and main() is
\* not inside the handler, both joins return and its loop ends.
ThreadExit(t) ==
  /\ At(t, "test")
  /\ signal_flag = 0
  /\ pc' = [pc EXCEPT ![t] = "done"]
  /\ main' = IF MainAt("join") /\ \A u \in Sensors : pc'[u] = "done" THEN "end" ELSE main
  /\ UNCHANGED <<proc, sockVars, connVars, spawned, sample, rdBuff, socklock,
                 logOwner, sigVars>>

\* syslog(LOG_INFO, "Accepted connection from %s\n", s)
EnterLog(t) ==
  /\ At(t, "log")
  /\ logOwner = Nobody
  /\ logOwner' = t
  /\ pc' = [pc EXCEPT ![t] = "logging"]
  /\ UNCHANGED <<proc, sockVars, connVars, main, spawned, sample, rdBuff, socklock, sigVars>>

LeaveLog(t) ==
  /\ At(t, "logging")
  /\ logOwner' = Nobody
  /\ pc' = [pc EXCEPT ![t] = "sample"]
  /\ UNCHANGED <<proc, sockVars, connVars, main, spawned, sample, rdBuff, socklock, sigVars>>

\* A mutated form of Sample: the second thread keeps the first one's number.
SampleCopied(t) ==
  /\ At(t, "sample")
  /\ sample[t].serial < MaxSerial
  /\ \E a \in Kinds :
       sample' = [sample EXCEPT ![t] = [sensor |-> 1, alert |-> a,
                                        serial |-> sample[t].serial + 1]]
  /\ pc' = [pc EXCEPT ![t] = "lock"]
  /\ UNCHANGED <<proc, sockVars, connVars, main, spawned, rdBuff, socklock, logOwner, sigVars>>

\* k = rand()%70: an alert when k > 60.
Sample(t) ==
  /\ At(t, "sample")
  /\ sample[t].serial < MaxSerial
  /\ \E a \in Kinds :
       sample' = [sample EXCEPT ![t] = [sensor |-> t, alert |-> a,
                                        serial |-> sample[t].serial + 1]]
  /\ pc' = [pc EXCEPT ![t] = "lock"]
  /\ UNCHANGED <<proc, sockVars, connVars, main, spawned, rdBuff, socklock, logOwner, sigVars>>

\* A mutated form of Lock: the mutex does not exclude.
LockShared(t) ==
  /\ At(t, "lock")
  /\ socklock' = t
  /\ pc' = [pc EXCEPT ![t] = "format"]
  /\ UNCHANGED <<proc, sockVars, connVars, main, spawned, sample, rdBuff, logOwner, sigVars>>

\* pthread_mutex_lock(&socklock)
Lock(t) ==
  /\ At(t, "lock")
  /\ socklock = Nobody
  /\ socklock' = t
  /\ pc' = [pc EXCEPT ![t] = "format"]
  /\ UNCHANGED <<proc, sockVars, connVars, main, spawned, sample, rdBuff, logOwner, sigVars>>

\* sprintf(rdBuff, ...)
FormatReading(t) ==
  /\ At(t, "format")
  /\ rdBuff' = Format(sample[t])
  /\ pc' = [pc EXCEPT ![t] = "send"]
  /\ UNCHANGED <<proc, sockVars, connVars, main, spawned, sample, socklock, logOwner, sigVars>>

\* How many cells of rdBuff the send buffer has room for.
Room == SndBuf - (Len(sent) - taken)
Accepted == IF Room < Len(rdBuff) THEN Room ELSE Len(rdBuff)

\* Mutated forms of Send: a short count sends the buffer again from its start...
SendAgain(t) ==
  /\ At(t, "send")
  /\ conn = "open"
  /\ sent' = sent \o Prefix(rdBuff, Accepted)
  /\ pc' = [pc EXCEPT ![t] = IF Accepted < Len(rdBuff) THEN "send" ELSE "unlock"]
  /\ UNCHANGED <<proc, sockVars, conn, taken, main, spawned, sample, rdBuff, socklock,
                 logOwner, sigVars>>

\* ... or the call blocks until there is room.
SendBlocking(t) ==
  /\ At(t, "send")
  /\ conn = "open"
  /\ Room >= Len(rdBuff)
  /\ sent' = sent \o rdBuff
  /\ pc' = [pc EXCEPT ![t] = "unlock"]
  /\ UNCHANGED <<proc, sockVars, conn, taken, main, spawned, sample, rdBuff, socklock,
                 logOwner, sigVars>>

\* rc = send(newfd, rdBuff, strlen(rdBuff), MSG_DONTWAIT), to a client that
\* reads.  A full buffer is EAGAIN, a nearly full one takes a part of the line;
\* rc is only tested for being negative, so either way the rest is lost.
Send(t) ==
  /\ At(t, "send")
  /\ conn = "open"
  /\ sent' = sent \o Prefix(rdBuff, Accepted)
  /\ pc' = [pc EXCEPT ![t] = "unlock"]
  /\ UNCHANGED <<proc, sockVars, conn, taken, main, spawned, sample, rdBuff, socklock,
                 logOwner, sigVars>>

\* The same call when the client is gone: the first send after a FIN succeeds
\* and provokes a reset, the one that meets ECONNRESET fails.
SendToGone(t) ==
  /\ At(t, "send")
  /\ conn \in {"fin", "rsting", "reset"}
  /\ conn' = IF conn = "reset" THEN "broken" ELSE "rsting"
  /\ pc' = [pc EXCEPT ![t] = "unlock"]
  /\ UNCHANGED <<proc, sockVars, sent, taken, main, spawned, sample, rdBuff, socklock,
                 logOwner, sigVars>>

\* The same call without MSG_NOSIGNAL on a connection that cannot send: the
\* default action of SIGPIPE ends the process.
SendRaisesSigpipe(t) ==
  /\ At(t, "send")
  /\ conn \in {"broken", "shut"}
  /\ proc' = "sigpipe"
  /\ UNCHANGED <<sockVars, connVars, main, spawned, threadVars, logOwner, sigVars>>

\* pthread_mutex_unlock(&socklock), and sleep(1), which ends at the loop's test.
Unlock(t) ==
  /\ At(t, "unlock")
  /\ socklock' = Nobody
  /\ pc' = [pc EXCEPT ![t] = "test"]
  /\ UNCHANGED <<proc, sockVars, connVars, main, spawned, sample, rdBuff, logOwner, sigVars>>

\* The loop around the sampling, which is the same for every kind of sensor.
Loop(t) ==
  \/ Test(t) \/ ThreadExit(t)
  \/ EnterLog(t) \/ LeaveLog(t)
  \/ Lock(t) \/ FormatReading(t)
  \/ Send(t) \/ SendToGone(t) \/ SendRaisesSigpipe(t)
  \/ Unlock(t)

Thread(t) == Sample(t) \/ Loop(t)
-----------------------------------------------------------------------------
(***************************************************************************)
(* handle_sig().  signal() blocks the signal that is being handled on the  *)
(* thread that handles it, and the kernel gives a signal to Main while     *)
(* Main can take it and to any other live thread otherwise.  Nested        *)
(* handlers on one thread are left out.                                    *)
(***************************************************************************)
CanTake(p) ==
  /\ hs[p] = "none"
  /\ p = Main \/ (hs[Main] # "none" /\ p \in spawned /\ pc[p] # "done")

\* The signal interrupts p; signal_flag=0 is the handler's first statement.
Catch(p) ==
  /\ proc = "up"
  /\ signals < MaxSignals
  /\ CanTake(p)
  /\ signals' = signals + 1
  /\ signal_flag' = 0
  /\ hs' = [hs EXCEPT ![p] = "log"]
  /\ UNCHANGED <<proc, sockVars, connVars, main, spawned, threadVars, logOwner>>

\* syslog(LOG_DEBUG, "Caught ...") goes through when nobody is inside syslog(),
\* or when the interrupted thread itself is and syslog() can be re-entered.
HandlerLog(p) ==
  /\ proc = "up" /\ hs[p] = "log"
  /\ logOwner = Nobody \/ (ReentrantSyslog /\ logOwner = p)
  /\ hs' = [hs EXCEPT ![p] = "shutdown"]
  /\ UNCHANGED <<proc, sockVars, connVars, main, spawned, threadVars, logOwner,
                 signal_flag, signals>>

\* shutdown(newfd, SHUT_RDWR): without effect on a connection that was reset.
HandlerShutdown(p) ==
  /\ proc = "up" /\ hs[p] = "shutdown"
  /\ conn' = IF conn \in {"open", "fin", "rsting"} THEN "shut" ELSE conn
  /\ hs' = [hs EXCEPT ![p] = "exit"]
  /\ UNCHANGED <<proc, sockVars, sent, taken, main, spawned, threadVars, logOwner,
                 signal_flag, signals>>

\* A mutated form of HandlerExit: it shuts the sockets down and returns.
HandlerReturns(p) ==
  /\ proc = "up" /\ hs[p] = "exit"
  /\ port' = "none" /\ backlog' = 0
  /\ hs' = [hs EXCEPT ![p] = "none"]
  /\ UNCHANGED <<proc, accepted, connVars, main, spawned, threadVars, logOwner,
                 signal_flag, signals>>

\* shutdown(sockfd, SHUT_RDWR); _exit(0)
HandlerExit(p) ==
  /\ proc = "up" /\ hs[p] = "exit"
  /\ port' = "none" /\ backlog' = 0
  /\ proc' = "exited"
  /\ UNCHANGED <<accepted, connVars, main, spawned, threadVars, logOwner, sigVars>>

Handler(p) == HandlerLog(p) \/ HandlerShutdown(p) \/ HandlerExit(p)
-----------------------------------------------------------------------------
(***************************************************************************)
(* The client's end of the connection.                                     *)
(***************************************************************************)
Connect ==
  /\ proc = "up" /\ port = "service"
  /\ backlog + accepted < MaxClients
  /\ backlog' = backlog + 1
  /\ UNCHANGED <<proc, port, accepted, connVars, main, spawned, threadVars, logOwner, sigVars>>

Take ==
  /\ proc = "up" /\ conn \in {"open", "shut"}
  /\ \E n \in 1..(Len(sent) - taken) : taken' = taken + n
  /\ UNCHANGED <<proc, sockVars, conn, sent, main, spawned, threadVars, logOwner, sigVars>>

\* The client's process ends: a FIN when it had received everything, a reset when
\* bytes were unread, a FIN and then a reset when they were still on their way.
PeerGone ==
  /\ proc = "up" /\ conn = "open"
  /\ conn' \in IF taken = Len(sent) THEN {"fin"} ELSE {"reset", "rsting"}
  /\ UNCHANGED <<proc, sockVars, sent, taken, main, spawned, threadVars, logOwner, sigVars>>

ResetArrives ==
  /\ proc = "up" /\ conn = "rsting"
  /\ conn' = "broken"
  /\ UNCHANGED <<proc, sockVars, sent, taken, main, spawned, threadVars, logOwner, sigVars>>

Peer == Connect \/ Take \/ PeerGone \/ ResetArrives
-----------------------------------------------------------------------------
MainStep ==
  \/ Setup \/ SetupFails
  \/ Accept \/ AcceptFails \/ AcceptLog \/ AcceptExit
  \/ (\E t \in Sensors : Spawn(t)) \/ SpawnFails
  \/ StopLog \/ StopExit

Next ==
  \/ MainStep
  \/ \E t \in Sensors : Thread(t)
  \/ \E p \in Threads : Catch(p) \/ Handler(p)
  \/ Peer

Spec == Init /\ [][Next]_vars

(***************************************************************************)
(* Fairness.  Every thread that can run is scheduled eventually.  The      *)
(* mutex is not a fair one, but its owner releases it for a second in      *)
(* every round (sleep(1)), so a thread that waits finds it free again and  *)
(* again: strong fairness of Lock, and likewise of EnterLog.  Nothing is   *)
(* assumed of the client, of signals or of the calls that may fail.        *)
(***************************************************************************)
Runs(t) ==
  \/ Test(t) \/ ThreadExit(t) \/ LeaveLog(t) \/ FormatReading(t)
  \/ Send(t) \/ SendToGone(t) \/ SendRaisesSigpipe(t) \/ Unlock(t)

LoopFairness ==
  /\ WF_vars(Setup \/ Accept \/ AcceptLog \/ AcceptExit \/ \E t \in Sensors : Spawn(t))
  /\ WF_vars(StopLog \/ StopExit)
  /\ \A t \in Sensors : WF_vars(Runs(t)) /\ SF_vars(Lock(t))
  /\ \A t \in Loggers : SF_vars(EnterLog(t))
  /\ \A p \in Threads : WF_vars(Handler(p))

Fairness == LoopFairness /\ \A t \in Sensors : WF_vars(Sample(t))

FairSpec == Spec /\ Fairness
-----------------------------------------------------------------------------
(***************************************************************************)
(* What makes the server correct.                                          *)
(***************************************************************************)
\* The two threads format into one global buffer.  When a thread calls send(),
\* the buffer holds the line of the reading that this thread just sampled.
BufferIsMine == \A t \in Sensors : pc[t] = "send" => rdBuff = Format(sample[t])

\* The connection carries what SensorStream promises: cuts of single readings,
\* each at most once and in order, whatever send() accepts, whoever is
\* interrupted and however the calls fail.
Stream == INSTANCE SensorStream WITH sent <- sent, Sensors <- Sensors, MaxSerial <- MaxSerial
StreamPromise == Stream!Spec

\* The threads read the global newfd at every send().  Once accept() has set it,
\* main() never sets it again, so no line goes to another client.
NewfdIsFixed == [][conn # "none" => accepted' = accepted]_vars

\* main() never gets past its joins: handle_sig ends the process while one
\* thread is still inside it, so the last printf is unreachable.
MainNeverReturns == main # "end"

\* A thread that wants to send gets through to its next round, whatever the client
\* does or fails to do, unless the process ends or is told to.
TurnComes ==
  \A t \in Sensors :
    pc[t] = "lock" ~> (pc[t] = "test" \/ proc # "up" \/ signal_flag = 0)

\* A signal ends the process, at whatever point it interrupts which thread.
SignalEndsServer == signals > 0 ~> proc # "up"

\* The comment on main(), "executes code until sigint or sigterm signal".
RunsUntilSignal == proc # "up" => signals > 0
=============================================================================
