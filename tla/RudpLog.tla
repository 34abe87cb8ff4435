------------------------------ MODULE RudpLog ------------------------------
(***************************************************************************)
(* Logging over acknowledged UDP: Trace (logger/Logger.cpp) in the threads *)
(* that log, CLoggerServer (logger/LoggerServer.cpp) with its single event *)
(* loop over an edge-triggered epoll instance, and what it does with       *)
(* LogWriter.  A message is a pair <<thread, number>>: a thread numbers    *)
(* its packets in the order of its calls (thread_local g_seq) and has a    *)
(* socket of its own, so the pair also identifies the acknowledgement.     *)
(*                                                                         *)
(* The network keeps the order of the datagrams of one thread (the default *)
(* address is the loopback) and may lose any; it makes no copies.  The     *)
(* service may be stopped, killed and started again.                       *)
(***************************************************************************)
EXTENDS Naturals, Sequences, FiniteSets, Functions

CONSTANTS
  Callers,      \* threads that call Trace
  MaxCalls,     \* calls each of them makes
  MAX_RETRIES,
  MaxSocket,    \* datagrams the receive buffer of the service holds
  MaxCrashes,   \* times the service is killed
  MaxStops,     \* times it is stopped
  Oversized,    \* messages that do not fit the 8192 bytes RecvFrom asks for
  NoMsg

Msgs == Callers \X (1 .. MaxCalls)

ASSUME RudpAssumption ==
  /\ Oversized \subseteq Msgs /\ NoMsg \notin Msgs
  /\ MaxCalls \in Nat /\ MAX_RETRIES \in Nat \ {0} /\ MaxSocket \in Nat \ {0}
  /\ MaxCrashes \in Nat /\ MaxStops \in Nat

VARIABLES
  \* Trace, one instance per thread
  cpc,        \* "idle", "send" or "recv"
  g_seq,      \* number of the message being logged, or of the last one
  attempt,
  outcome,    \* what Trace reported of each message
  ackq,       \* acknowledgements in the socket of each thread
  \* the network
  packets,    \* per thread, message numbers on their way to the service
  acks,       \* per thread, acknowledged numbers on their way back
  \* the service
  spc,        \* where EventLoop is
  m_running,
  edge,       \* the socket is in epoll's ready list
  sockq,      \* messages in the receive buffer
  hand,       \* the message HandleLogData works on
  open,       \* LogWriter's file is open
  log,        \* lines written
  synced,     \* how many of them have left the stream's buffer for certain
  dropped,    \* messages acknowledged whose line was never written
  crashes, stops

callerVars == <<cpc, g_seq, attempt, outcome, ackq>>
netVars == <<packets, acks>>
serviceVars == <<spc, m_running, edge, sockq, hand, open, log, synced, dropped>>
faultVars == <<crashes, stops>>
vars == <<callerVars, netVars, serviceVars, faultVars>>

Cur(c) == <<c, g_seq[c]>>

Init ==
  /\ cpc = [c \in Callers |-> "idle"]
  /\ g_seq = [c \in Callers |-> 0]
  /\ attempt = [c \in Callers |-> 0]
  /\ outcome = [m \in Msgs |-> "none"]
  /\ ackq = [c \in Callers |-> <<>>]
  /\ packets = [c \in Callers |-> <<>>]
  /\ acks = [c \in Callers |-> <<>>]
  /\ spc = "test" /\ m_running = TRUE
  /\ edge = FALSE /\ sockq = <<>> /\ hand = NoMsg
  /\ open = TRUE
  /\ log = <<>> /\ synced = 0 /\ dropped = {}
  /\ crashes = 0 /\ stops = 0

-----------------------------------------------------------------------------
(* Trace.  (When the socket of a thread cannot be created it reports the    *)
(* message on stderr without numbering it: nothing here changes.)           *)

Call(c) ==
  /\ cpc[c] = "idle"
  /\ g_seq[c] < MaxCalls
  /\ g_seq' = [g_seq EXCEPT ![c] = @ + 1]
  /\ attempt' = [attempt EXCEPT ![c] = 0]
  /\ cpc' = [cpc EXCEPT ![c] = "send"]
  /\ UNCHANGED <<outcome, ackq, netVars, serviceVars, faultVars>>

\* Fault: one attempt too many.
NextAttemptOffByOne(c, acked) ==
  /\ attempt' = [attempt EXCEPT ![c] = @ + 1]
  /\ IF acked \/ attempt[c] = MAX_RETRIES
       THEN /\ cpc' = [cpc EXCEPT ![c] = "idle"]
            /\ outcome' = [outcome EXCEPT ![Cur(c)] = IF acked THEN "acked" ELSE "fallback"]
       ELSE /\ cpc' = [cpc EXCEPT ![c] = "send"]
            /\ UNCHANGED outcome

\* The attempt is over: leave with the message acknowledged, try again, or
\* report the message on stderr.
NextAttempt(c, acked) ==
  /\ attempt' = [attempt EXCEPT ![c] = @ + 1]
  /\ IF acked \/ attempt[c] + 1 = MAX_RETRIES
       THEN /\ cpc' = [cpc EXCEPT ![c] = "idle"]
            /\ outcome' = [outcome EXCEPT ![Cur(c)] = IF acked THEN "acked" ELSE "fallback"]
       ELSE /\ cpc' = [cpc EXCEPT ![c] = "send"]
            /\ UNCHANGED outcome

Send(c) ==
  /\ cpc[c] = "send"
  /\ packets' = [packets EXCEPT ![c] = Append(@, g_seq[c])]
  /\ cpc' = [cpc EXCEPT ![c] = "recv"]
  /\ UNCHANGED <<g_seq, attempt, outcome, ackq, acks, serviceVars, faultVars>>

\* SendTo returned an error: "continue" without waiting.
SendFails(c) ==
  /\ cpc[c] = "send"
  /\ NextAttempt(c, FALSE)
  /\ UNCHANGED <<g_seq, ackq, netVars, serviceVars, faultVars>>

\* Fault: any acknowledgement will do.
RecvAckUnchecked(c) ==
  /\ cpc[c] = "recv" /\ ackq[c] # <<>>
  /\ ackq' = [ackq EXCEPT ![c] = Tail(@)]
  /\ NextAttempt(c, TRUE)
  /\ UNCHANGED <<g_seq, netVars, serviceVars, faultVars>>

\* An acknowledgement, perhaps a late one of an earlier message: that one
\* uses up the attempt as well.
RecvAck(c) ==
  /\ cpc[c] = "recv" /\ ackq[c] # <<>>
  /\ ackq' = [ackq EXCEPT ![c] = Tail(@)]
  /\ NextAttempt(c, Head(ackq[c]) = g_seq[c])
  /\ UNCHANGED <<g_seq, netVars, serviceVars, faultVars>>

\* Fault: SO_RCVTIMEO is not set.
NoTimeout(c) == FALSE /\ UNCHANGED vars

\* SO_RCVTIMEO: 100 ms with nothing to receive.
Timeout(c) ==
  /\ cpc[c] = "recv" /\ ackq[c] = <<>>
  /\ NextAttempt(c, FALSE)
  /\ UNCHANGED <<g_seq, ackq, netVars, serviceVars, faultVars>>

Trace(c) == Call(c) \/ Send(c) \/ SendFails(c) \/ RecvAck(c) \/ Timeout(c)

-----------------------------------------------------------------------------
(* The network and the sockets.                                             *)

\* Every arrival puts the socket back into epoll's ready list.  A full
\* buffer drops the datagram, and so does a host nobody listens on.
DeliverPacket(c) ==
  /\ packets[c] # <<>>
  /\ packets' = [packets EXCEPT ![c] = Tail(@)]
  /\ IF spc # "down" /\ Len(sockq) < MaxSocket
       THEN sockq' = Append(sockq, <<c, Head(packets[c])>>) /\ edge' = TRUE
       ELSE UNCHANGED <<sockq, edge>>
  /\ UNCHANGED <<callerVars, acks, spc, m_running, hand, open, log, synced, dropped, faultVars>>

LosePacket(c) ==
  /\ packets[c] # <<>>
  /\ packets' = [packets EXCEPT ![c] = Tail(@)]
  /\ UNCHANGED <<callerVars, acks, serviceVars, faultVars>>

DeliverAck(c) ==
  /\ acks[c] # <<>>
  /\ acks' = [acks EXCEPT ![c] = Tail(@)]
  /\ ackq' = [ackq EXCEPT ![c] = Append(@, Head(acks[c]))]
  /\ UNCHANGED <<cpc, g_seq, attempt, outcome, packets, serviceVars, faultVars>>

LoseAck(c) ==
  /\ acks[c] # <<>>
  /\ acks' = [acks EXCEPT ![c] = Tail(@)]
  /\ UNCHANGED <<callerVars, packets, serviceVars, faultVars>>

Network(c) == DeliverPacket(c) \/ LosePacket(c) \/ DeliverAck(c) \/ LoseAck(c)

-----------------------------------------------------------------------------
(* EventLoop and HandleLogData.                                             *)

Test ==
  /\ spc = "test"
  /\ spc' = IF m_running THEN "wait" ELSE "left"
  /\ UNCHANGED <<callerVars, netVars, m_running, edge, sockq, hand, open, log, synced, dropped, faultVars>>

\* EPOLLET: reporting the socket takes it off the ready list, however much
\* it holds; HandleLogData then reads one datagram.
WaitEvents ==
  /\ spc = "wait"
  /\ edge' = FALSE
  /\ spc' = IF edge /\ sockq # <<>> THEN "recv" ELSE "test"
  /\ UNCHANGED <<callerVars, netVars, m_running, sockq, hand, open, log, synced, dropped, faultVars>>

\* Fault: the buffer is served from its newest end.
RecvFromNewest ==
  /\ spc = "recv"
  /\ hand' = sockq[Len(sockq)]
  /\ sockq' = SubSeq(sockq, 1, Len(sockq) - 1)
  /\ spc' = "ack"
  /\ UNCHANGED <<callerVars, netVars, m_running, edge, open, log, synced, dropped, faultVars>>

RecvFrom ==
  /\ spc = "recv"
  /\ hand' = Head(sockq)
  /\ sockq' = Tail(sockq)
  /\ spc' = "ack"
  /\ UNCHANGED <<callerVars, netVars, m_running, edge, open, log, synced, dropped, faultVars>>

SendAck ==
  /\ spc = "ack"
  /\ acks' = [acks EXCEPT ![hand[1]] = Append(@, hand[2])]
  /\ spc' = "write"
  /\ UNCHANGED <<callerVars, packets, m_running, edge, sockq, hand, open, log, synced, dropped, faultVars>>

\* Deserialize and LogWriter::Write, errors of either ignored.  A Write that
\* finds the size or the age exceeded rotates: the old file is closed, the
\* new one may fail to open, and then stays closed.
WriteLine ==
  /\ spc = "write"
  /\ spc' = "test" /\ hand' = NoMsg
  /\ IF open /\ hand \notin Oversized
       THEN /\ log' = Append(log, hand)
            /\ \/ UNCHANGED <<open, synced>>
               \/ open' \in BOOLEAN /\ synced' = Len(log) + 1
            /\ UNCHANGED dropped
       ELSE /\ dropped' = dropped \cup {hand}
            /\ UNCHANGED <<log, open, synced>>
  /\ UNCHANGED <<callerVars, netVars, m_running, edge, sockq, faultVars>>

EventLoop == Test \/ WaitEvents \/ RecvFrom \/ SendAck \/ WriteLine

\* CLoggerServer::Stop: the flag; then, the loop having left and been joined,
\* the socket, the epoll instance and the writer go.
Stop ==
  /\ spc # "down" /\ m_running /\ stops < MaxStops
  /\ m_running' = FALSE
  /\ stops' = stops + 1
  /\ UNCHANGED <<callerVars, netVars, spc, edge, sockq, hand, open, log, synced, dropped, crashes>>

StopReturns ==
  /\ spc = "left"
  /\ spc' = "down"
  /\ edge' = FALSE /\ sockq' = <<>> /\ open' = FALSE
  /\ synced' = Len(log)
  /\ UNCHANGED <<callerVars, netVars, m_running, hand, log, dropped, faultVars>>

\* The constructor of LogWriter ignores a file that cannot be opened.
Start ==
  /\ spc = "down"
  /\ spc' = "test" /\ m_running' = TRUE
  /\ open' \in BOOLEAN
  /\ UNCHANGED <<callerVars, netVars, edge, sockq, hand, log, synced, dropped, faultVars>>

\* The process is killed: with the datagrams it held go the lines still in
\* the stream's buffer.
Crash ==
  /\ spc # "down" /\ crashes < MaxCrashes
  /\ crashes' = crashes + 1
  /\ \E n \in synced .. Len(log) :
       /\ log' = SubSeq(log, 1, n)
       /\ synced' = n
       /\ dropped' = dropped \cup {log[i] : i \in n + 1 .. Len(log)}
                             \cup (IF spc = "write" THEN {hand} ELSE {})
  /\ spc' = "down" /\ m_running' = FALSE
  /\ edge' = FALSE /\ sockq' = <<>> /\ hand' = NoMsg /\ open' = FALSE
  /\ UNCHANGED <<callerVars, netVars, stops>>

-----------------------------------------------------------------------------
Next ==
  \/ \E c \in Callers : Trace(c) \/ Network(c)
  \/ EventLoop
  \/ Stop \/ StopReturns \/ Start \/ Crash

Spec == Init /\ [][Next]_vars

(* Threads are scheduled and time passes; the network promises nothing.     *)
Fairness ==
  /\ \A c \in Callers : WF_vars(Send(c)) /\ WF_vars(RecvAck(c) \/ Timeout(c))
  /\ WF_vars(EventLoop)

FairSpec == Spec /\ Fairness

-----------------------------------------------------------------------------
(* Properties.                                                              *)

Numbers == 1 .. MaxCalls

\* Every variable has its type; a message is sent at most MAX_RETRIES times.
TypeOK ==
  /\ cpc \in [Callers -> {"idle", "send", "recv"}]
  /\ g_seq \in [Callers -> 0 .. MaxCalls]
  /\ attempt \in [Callers -> 0 .. MAX_RETRIES]
  /\ outcome \in [Msgs -> {"none", "acked", "fallback"}]
  /\ ackq \in [Callers -> Seq(Numbers)]
  /\ packets \in [Callers -> Seq(Numbers)]
  /\ acks \in [Callers -> Seq(Numbers)]
  /\ spc \in {"test", "wait", "recv", "ack", "write", "left", "down"}
  /\ m_running \in BOOLEAN /\ edge \in BOOLEAN /\ open \in BOOLEAN
  /\ sockq \in Seq(Msgs)
  /\ hand \in Msgs \cup {NoMsg}
  /\ log \in Seq(Msgs) /\ synced \in 0 .. Len(log)
  /\ dropped \subseteq Msgs
  /\ crashes \in 0 .. MaxCrashes /\ stops \in 0 .. MaxStops

\* What Trace takes for its acknowledgement never belongs to another message,
\* however late acknowledgements arrive: a message reported as delivered did
\* reach the service, which wrote it, is about to, or lost it afterwards.
AckedWasReceived ==
  \A m \in Msgs : outcome[m] = "acked" =>
    m \in Range(log) \cup dropped \/ (spc = "write" /\ hand = m)

\* The lines of one thread are in the order of its calls, whatever was lost,
\* retransmitted or stranded on the way, and across restarts.
PerThreadOrder ==
  \A p, q \in DOMAIN log :
    p < q /\ log[p][1] = log[q][1] => log[p][2] <= log[q][2]

\* There is no duplicate detection, but retransmission is the only source of
\* duplicates: one message makes at most MAX_RETRIES lines.
BoundedCopies ==
  \A m \in Msgs : Cardinality({p \in DOMAIN log : log[p] = m}) <= MAX_RETRIES

\* Trace returns, with the service stopped, killed or unreachable as well.
TraceReturns == \A c \in Callers : cpc[c] # "idle" ~> cpc[c] = "idle"

\* "Reliable UDP": a message reported as delivered is in the log, or about to
\* be written by a live service.
AckedIsLogged ==
  \A m \in Msgs : outcome[m] = "acked" =>
    m \in Range(log) \/ (spc = "write" /\ hand = m)
=============================================================================
