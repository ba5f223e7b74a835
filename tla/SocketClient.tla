---------------------------- MODULE SocketClient ----------------------------
(***************************************************************************)
(* Client/SocketClient.c: one thread for each sensor server receives text, *)
(* appends it to the log file and forwards what holds a '!' to the message *)
(* queue "/aesd-server".                                                   *)
(*                                                                         *)
(* The queue is the kernel's: the module shares it with AlertDisplay, and  *)
(* the connections with the servers, in AlertPipeline.                     *)
(***************************************************************************)
EXTENDS AlertQueue

CONSTANTS
  ChunkCells,         \* how many cells rcv_cmd[80] holds
  ClientFaults,       \* what may fail: "resolve", "connect", "write"
  ShortWrites         \* bound: how many cells a write() may take of a longer text

ASSUME ClientAssumption ==
  /\ ChunkCells \in Nat \ {0}
  /\ ClientFaults \subseteq {"resolve", "connect", "write"}
  /\ ShortWrites \subseteq Nat

NoOwner == 0

VARIABLES
  \* the connections
  sent,           \* what entered the connection of each server
  taken,          \* how much of it recv() has returned
  link,           \* "none", "open", "closed" by the server, or "refused"
  \* the process
  cproc,          \* "down", "up", "failed" or "exited"
  next,           \* the server main() connects to next; past the last, it joins
  cpc,            \* where each thread is
  chunk,          \* rcv_cmd of each thread, up to its terminator
  filelock,       \* the owner of socklock, NoOwner when free
  \* what the log file tells
  logged,         \* the text that came from each server
  alerts          \* the chunks of it that hold a '!'

linkVars == <<sent, taken, link>>
ownVars == <<cproc, next, cpc, chunk, filelock, logged, alerts>>
clientVars == <<linkVars, queueVars, ownVars>>

HasBang(text) == \E i \in 1..Len(text) : Bang(text[i])

ClientTypeOK ==
  /\ sent \in [Servers -> Seq(Cells)]
  /\ \A c \in Servers : taken[c] \in 0..Len(sent[c])
  /\ taken \in [Servers -> Nat]
  /\ link \in [Servers -> {"none", "open", "closed", "refused"}]
  /\ cproc \in {"down", "up", "failed", "exited"}
  /\ next \in 1..(ServerCount + 1)
  /\ cpc \in [Servers -> {"none", "recv", "lock", "write", "written", "unwritten", "forward"}]
  /\ chunk \in [Servers -> Seq(Cells)]
  /\ filelock \in Servers \cup {NoOwner}
  /\ logged \in [Servers -> Seq(Cells)]
  /\ alerts \in [Servers -> Seq(Seq(Cells))]

ClientInit ==
  /\ sent = [c \in Servers |-> <<>>]
  /\ taken = [c \in Servers |-> 0]
  /\ link = [c \in Servers |-> "none"]
  /\ cproc = "down" /\ next = 1
  /\ cpc = [c \in Servers |-> "none"]
  /\ chunk = [c \in Servers |-> <<>>]
  /\ filelock = NoOwner
  /\ logged = [c \in Servers |-> <<>>]
  /\ alerts = [c \in Servers |-> <<>>]
-----------------------------------------------------------------------------
(***************************************************************************)
(* main()                                                                  *)
(***************************************************************************)
\* mq_open(SERVER_QUEUE_NAME, O_WRONLY) does not create the queue: without one
\* the client exits.
ClientStart ==
  /\ cproc = "down"
  /\ cproc' = IF queueOpen THEN "up" ELSE "failed"
  /\ UNCHANGED <<linkVars, queueVars, next, cpc, chunk, filelock, logged, alerts>>

\* connect() to one server after the other.  A failure is only reported: the
\* thread is created all the same.
Connect(c) ==
  /\ cproc = "up" /\ next = c
  /\ \/ link' = [link EXCEPT ![c] = "open"]
     \/ "connect" \in ClientFaults /\ link' = [link EXCEPT ![c] = "refused"]
  /\ cpc' = [cpc EXCEPT ![c] = "recv"]
  /\ next' = next + 1
  /\ UNCHANGED <<sent, taken, queueVars, cproc, chunk, filelock, logged, alerts>>

\* getaddrinfo() or pthread_create() fails: return -1, and with it every thread
\* that is already at work.
ConnectFails ==
  /\ cproc = "up" /\ next \in Servers
  /\ "resolve" \in ClientFaults
  /\ cproc' = "failed"
  /\ UNCHANGED <<linkVars, queueVars, next, cpc, chunk, filelock, logged, alerts>>

\* handle_sig(), from the signal to _exit(0): what it does in between, to
\* signal_flag and to descriptor 0, is gone with the process.
ClientSignal ==
  /\ cproc = "up"
  /\ cproc' = "exited"
  /\ UNCHANGED <<linkVars, queueVars, next, cpc, chunk, filelock, logged, alerts>>
-----------------------------------------------------------------------------
(***************************************************************************)
(* threadhandler()                                                         *)
(***************************************************************************)
CAt(c, l) == cproc = "up" /\ cpc[c] = l

\* The text of server c that recv() has not returned yet.
InFlight(c) == SubSeq(sent[c], taken[c] + 1, Len(sent[c]))

\* A mutated form of Recv: rcv_cmd is one buffer for all threads.
RecvShared(c) ==
  /\ CAt(c, "recv")
  /\ link[c] \in {"open", "closed"}
  /\ \E n \in 1..ChunkCells :
       /\ taken[c] + n <= Len(sent[c])
       /\ chunk' = [d \in Servers |-> Prefix(InFlight(c), n)]
       /\ taken' = [taken EXCEPT ![c] = @ + n]
  /\ cpc' = [cpc EXCEPT ![c] = "lock"]
  /\ UNCHANGED <<sent, link, queueVars, cproc, next, filelock, logged, alerts>>

\* recv(): any part of what is there, up to the size of rcv_cmd.
Recv(c) ==
  /\ CAt(c, "recv")
  /\ link[c] \in {"open", "closed"}
  /\ \E n \in 1..ChunkCells :
       /\ taken[c] + n <= Len(sent[c])
       /\ chunk' = [chunk EXCEPT ![c] = Prefix(InFlight(c), n)]
       /\ taken' = [taken EXCEPT ![c] = @ + n]
  /\ cpc' = [cpc EXCEPT ![c] = "lock"]
  /\ UNCHANGED <<sent, link, queueVars, cproc, next, filelock, logged, alerts>>

\* recv() returns 0 once the server closed, -1 when there never was a connection;
\* the loop goes on with an empty text in both cases.
RecvNothing(c) ==
  /\ CAt(c, "recv")
  /\ \/ link[c] = "closed" /\ taken[c] = Len(sent[c])
     \/ link[c] = "refused"
  /\ chunk' = [chunk EXCEPT ![c] = <<>>]
  /\ cpc' = [cpc EXCEPT ![c] = "lock"]
  /\ UNCHANGED <<linkVars, queueVars, cproc, next, filelock, logged, alerts>>

\* pthread_mutex_lock(&socklock), after open()
LockFile(c) ==
  /\ CAt(c, "lock")
  /\ filelock = NoOwner
  /\ filelock' = c
  /\ cpc' = [cpc EXCEPT ![c] = "write"]
  /\ UNCHANGED <<linkVars, queueVars, cproc, next, chunk, logged, alerts>>

\* write(), to a file opened with O_APPEND, puts a part of the text or all of it behind
\* what is there.  Either is taken for success: the text is not written again, and the
\* search for a '!' is that of the whole text.
WriteTakes(c, part) ==
  /\ CAt(c, "write")
  /\ logged' = [logged EXCEPT ![c] = @ \o part]
  /\ alerts' = IF HasBang(chunk[c])
               THEN [alerts EXCEPT ![c] = Append(@, chunk[c])] ELSE alerts
  /\ cpc' = [cpc EXCEPT ![c] = "written"]
  /\ UNCHANGED <<linkVars, queueVars, cproc, next, chunk, filelock>>

Write(c) == WriteTakes(c, chunk[c])

\* The disk is full: what was not taken is missing in the file.
WriteShort(c) ==
  \E n \in ShortWrites :
    /\ n < Len(chunk[c])
    /\ WriteTakes(c, Prefix(chunk[c], n))

\* open() failed, which leaves fd = -1, or write() does: rc < 0.
WriteFails(c) ==
  /\ CAt(c, "write")
  /\ "write" \in ClientFaults
  /\ cpc' = [cpc EXCEPT ![c] = "unwritten"]
  /\ UNCHANGED <<linkVars, queueVars, cproc, next, chunk, filelock, logged, alerts>>

\* A mutated form of UnlockFile: the mutex is kept while the alert is forwarded.
UnlockUnlessAlert(c) ==
  /\ CAt(c, "written") \/ CAt(c, "unwritten")
  /\ LET alert == cpc[c] = "written" /\ HasBang(chunk[c]) IN
     /\ filelock' = IF alert THEN c ELSE NoOwner
     /\ cpc' = [cpc EXCEPT ![c] = IF alert THEN "forward" ELSE "recv"]
  /\ UNCHANGED <<linkVars, queueVars, cproc, next, chunk, logged, alerts>>

\* pthread_mutex_unlock(&socklock), and the search for a '!' when rc >= 0
UnlockFile(c) ==
  /\ CAt(c, "written") \/ CAt(c, "unwritten")
  /\ filelock' = NoOwner
  /\ cpc' = [cpc EXCEPT ![c] =
               IF @ = "written" /\ HasBang(chunk[c]) THEN "forward" ELSE "recv"]
  /\ UNCHANGED <<linkVars, queueVars, cproc, next, chunk, logged, alerts>>

\* Mutated forms of Forward: with O_NONBLOCK, a full queue drops the alert...
ForwardOrDrop(c) ==
  /\ CAt(c, "forward")
  /\ IF Len(queue) < MaxMessages
     THEN MqSend([from |-> c, no |-> Len(alerts[c]), text |-> chunk[c]])
     ELSE UNCHANGED queueVars
  /\ cpc' = [cpc EXCEPT ![c] = "recv"]
  /\ UNCHANGED <<linkVars, cproc, next, chunk, filelock, logged, alerts>>

\* ... or an alert that was sent is sent again.
ForwardAgain(c) ==
  /\ CAt(c, "forward")
  /\ MqSend([from |-> c, no |-> Len(alerts[c]), text |-> chunk[c]])
  /\ \E l \in {"recv", "forward"} : cpc' = [cpc EXCEPT ![c] = l]
  /\ UNCHANGED <<linkVars, cproc, next, chunk, filelock, logged, alerts>>

\* mq_send(aesdqueue, rcv_cmd, ...): waits while the queue is full; close(fd)
Forward(c) ==
  /\ CAt(c, "forward")
  /\ MqSend([from |-> c, no |-> Len(alerts[c]), text |-> chunk[c]])
  /\ cpc' = [cpc EXCEPT ![c] = "recv"]
  /\ UNCHANGED <<linkVars, cproc, next, chunk, filelock, logged, alerts>>

ClientThread(c) ==
  \/ Recv(c) \/ RecvNothing(c)
  \/ LockFile(c) \/ Write(c) \/ WriteShort(c) \/ WriteFails(c) \/ UnlockFile(c)
  \/ Forward(c)

ClientNext ==
  \/ ClientStart \/ ConnectFails \/ ClientSignal
  \/ \E c \in Servers : Connect(c) \/ ClientThread(c)

\* Does the thread of another server spin?  Without a connection that can bring text
\* recv() returns at once, again and again.
OthersSpin(c) == \E d \in Servers \ {c} : link[d] \in {"closed", "refused"}

\* Every thread that can run does.  The mutex is not a fair one: a thread that waits
\* is sure to find it free only while the others block in recv() between their turns.
ClientFairness ==
  /\ WF_clientVars(ClientStart)
  /\ \A c \in Servers :
       /\ WF_clientVars(Connect(c))
       /\ WF_clientVars(Recv(c)) /\ WF_clientVars(RecvNothing(c))
       /\ SF_clientVars(LockFile(c) /\ ~ OthersSpin(c)) /\ WF_clientVars(LockFile(c))
       /\ WF_clientVars(Write(c))
       /\ WF_clientVars(UnlockFile(c))
       /\ SF_clientVars(Forward(c))
=============================================================================
