------------------------------ MODULE AlertQueue ------------------------------
(***************************************************************************)
(* The POSIX message queue "/aesd-server", the kernel's, as the client     *)
(* (O_WRONLY) and the display (O_RDONLY | O_CREAT) use it: first in first  *)
(* out, as all messages have priority 0, and it outlives both processes.   *)
(***************************************************************************)
EXTENDS Wire

CONSTANTS
  ServerCount,        \* how many servers the client reads
  MaxMessages         \* MAX_MESSAGES: what the queue holds before mq_send blocks

ASSUME QueueAssumption ==
  /\ ServerCount \in Nat
  /\ MaxMessages \in Nat \ {0}

Servers == 1..ServerCount

VARIABLES
  queueOpen,          \* does the queue exist?
  queue               \* its messages, oldest first

queueVars == <<queueOpen, queue>>

\* A message carries, besides its text, which chunk of which server it is.
Messages == [from: Servers, no: Nat, text: Seq(Cells)]

QueueTypeOK ==
  /\ queueOpen \in BOOLEAN
  /\ queue \in Seq(Messages)
  /\ Len(queue) <= MaxMessages

QueueInit == queueOpen = FALSE /\ queue = <<>>

\* Mutated forms of MqSend: there is no limit...
MqSendUnlimited(m) ==
  /\ queue' = Append(queue, m)
  /\ UNCHANGED queueOpen

\* ... or the message goes before the others, as with a higher priority.
MqSendUrgent(m) ==
  /\ Len(queue) < MaxMessages
  /\ queue' = <<m>> \o queue
  /\ UNCHANGED queueOpen

\* mq_send() on a descriptor without O_NONBLOCK waits for room.
MqSend(m) ==
  /\ Len(queue) < MaxMessages
  /\ queue' = Append(queue, m)
  /\ UNCHANGED queueOpen

\* mq_receive() waits for a message.
MqReceive ==
  /\ queue # <<>>
  /\ queue' = Tail(queue)
  /\ UNCHANGED queueOpen
=============================================================================
