--------------------------- MODULE RudpLogProofs ---------------------------
(***************************************************************************)
(* For any number of threads, calls, attempts, losses, kills and stops:    *)
(* what Trace takes for its acknowledgement is one, the lines of a thread  *)
(* are in the order of its calls, and a message makes no more lines than   *)
(* attempts.                                                               *)
(***************************************************************************)
EXTENDS RudpLog, FiniteSetTheorems, TLAPS

\* Where EventLoop holds a message, and where it knows that there is one.
LoopInv ==
  /\ spc \in {"ack", "write"} <=> hand # NoMsg
  /\ spc = "recv" => sockq # <<>>

\* A call in progress has its number and an attempt left.
CallInv == \A c \in Callers : cpc[c] # "idle" => g_seq[c] \in Numbers /\ attempt[c] < MAX_RETRIES

\* Messages that the service has acknowledged.
Got == Range(log) \cup dropped \cup (IF spc = "write" THEN {hand} ELSE {})

\* Acknowledgements, on their way or read, are of such messages.
AckInv ==
  /\ \A m \in Msgs : outcome[m] = "acked" => m \in Got
  /\ \A c \in Callers : \A n \in Range(acks[c]) \cup Range(ackq[c]) : <<c, n>> \in Got

\* m is not a later message of the same thread than n.
Le(m, n) == m[1] = n[1] => m[2] <= n[2]
Sorted(s) == \A p, q \in DOMAIN s : p < q => Le(s[p], s[q])
Before(S, T) == \A m \in S, n \in T : Le(m, n)

Hand == {hand} \ {NoMsg}
Sent(c) == {<<c, n>> : n \in Range(packets[c])}

\* Read from the log over the hand and the socket to the network and the call,
\* the messages of a thread do not decrease.
OrderInv ==
  /\ Sorted(log) /\ Sorted(sockq)
  /\ Before(Range(log), Hand) /\ Before(Range(log) \cup Hand, Range(sockq))
  /\ \A c \in Callers :
       /\ \A p, q \in DOMAIN packets[c] : p < q => packets[c][p] <= packets[c][q]
       /\ Before(Range(log) \cup Hand \cup Range(sockq), Sent(c))
       /\ Before(Range(log) \cup Hand \cup Range(sockq) \cup Sent(c), {Cur(c)})

\* The inductive invariant.
IInv == TypeOK /\ LoopInv /\ CallInv /\ AckInv /\ OrderInv

-----------------------------------------------------------------------------
(* Sequences.                                                               *)

\* Append adds its element to the range, behind the others.
LEMMA AppendFacts ==
  ASSUME NEW S, NEW s \in Seq(S), NEW e \in S
  PROVE  /\ Append(s, e) \in Seq(S)
         /\ Range(Append(s, e)) = Range(s) \cup {e}
         /\ Sorted(s) /\ (\A x \in Range(s) : Le(x, e)) => Sorted(Append(s, e))
<1> DEFINE a == Append(s, e)
<1>1. /\ Len(s) \in Nat /\ DOMAIN s = 1 .. Len(s) /\ DOMAIN a = 1 .. Len(s) + 1 /\ a \in Seq(S)
      /\ a[Len(s) + 1] = e /\ \A i \in 1 .. Len(s) : a[i] = s[i]
  OBVIOUS
<1> HIDE DEF a
<1>2. \A x \in Range(a) : x \in Range(s) \cup {e}
  <2> TAKE x \in Range(a)
  <2>1. PICK i \in 1 .. Len(s) + 1 : x = a[i]
    BY <1>1 DEF Range
  <2> QED
    BY <1>1, <2>1 DEF Range
<1>3. \A x \in Range(s) \cup {e} : x \in Range(a)
  <2>1. ASSUME NEW x \in Range(s) PROVE x \in Range(a)
    <3>1. PICK i \in 1 .. Len(s) : x = s[i]
      BY <1>1 DEF Range
    <3>2. i \in DOMAIN a /\ a[i] = x
      BY <1>1, <3>1
    <3> QED
      BY <3>2 DEF Range
  <2>2. e \in Range(a)
    <3>1. Len(s) + 1 \in DOMAIN a
      BY <1>1
    <3> QED
      BY <1>1, <3>1 DEF Range
  <2> QED
    BY <2>1, <2>2
<1>4. ASSUME Sorted(s), \A x \in Range(s) : Le(x, e) PROVE Sorted(a)
  <2> SUFFICES ASSUME NEW p \in 1 .. Len(s) + 1, NEW q \in 1 .. Len(s) + 1, p < q PROVE Le(a[p], a[q])
    BY <1>1 DEF Sorted
  <2>1. p \in 1 .. Len(s) /\ a[p] = s[p] /\ s[p] \in Range(s)
    BY <1>1 DEF Range
  <2>2. CASE q \in 1 .. Len(s)
    BY <1>1, <1>4, <2>1, <2>2 DEF Sorted
  <2>3. CASE q = Len(s) + 1
    BY <1>1, <1>4, <2>1, <2>3
  <2> QED
    BY <1>1, <2>2, <2>3
<1> QED
  BY <1>1, <1>2, <1>3, <1>4 DEF a

\* The head comes before the tail.
LEMMA TailFacts ==
  ASSUME NEW S, NEW s \in Seq(S), s # <<>>
  PROVE  /\ Head(s) \in S /\ Tail(s) \in Seq(S)
         /\ Range(s) = Range(Tail(s)) \cup {Head(s)}
         /\ Sorted(s) => Sorted(Tail(s)) /\ \A x \in Range(Tail(s)) : Le(Head(s), x)
<1> DEFINE t == Tail(s)
<1>1. /\ Len(s) \in Nat /\ Len(s) > 0 /\ DOMAIN s = 1 .. Len(s) /\ DOMAIN t = 1 .. Len(s) - 1
      /\ t \in Seq(S) /\ Head(s) = s[1] /\ Head(s) \in S /\ \A i \in 1 .. Len(s) - 1 : t[i] = s[i + 1]
  OBVIOUS
<1> HIDE DEF t
<1>2. \A x \in Range(t) : \E i \in 1 .. Len(s) - 1 : x = t[i] /\ x = s[i + 1]
  BY <1>1 DEF Range
<1>3. \A x \in Range(t) \cup {Head(s)} : x \in Range(s)
  <2>1. \A i \in 1 .. Len(s) - 1 : i + 1 \in DOMAIN s
    BY <1>1
  <2>2. 1 \in DOMAIN s
    BY <1>1
  <2> QED
    BY <1>1, <1>2, <2>1, <2>2 DEF Range
<1>4. \A x \in Range(s) : x \in Range(t) \cup {Head(s)}
  <2> TAKE x \in Range(s)
  <2>1. PICK i \in 1 .. Len(s) : x = s[i]
    BY <1>1 DEF Range
  <2>2. i = 1 \/ (i - 1 \in DOMAIN t /\ t[i - 1] = s[i])
    BY <1>1
  <2> QED
    BY <1>1, <2>1, <2>2 DEF Range
<1>5. ASSUME Sorted(s) PROVE Sorted(t) /\ \A x \in Range(t) : Le(Head(s), x)
  <2>1. ASSUME NEW p \in 1 .. Len(s) - 1, NEW q \in 1 .. Len(s) - 1, p < q
        PROVE  Le(t[p], t[q])
    <3>1. p + 1 \in DOMAIN s /\ q + 1 \in DOMAIN s /\ p + 1 < q + 1
      BY <1>1, <2>1
    <3>2. Le(s[p + 1], s[q + 1])
      BY <1>5, <3>1 DEF Sorted
    <3> QED
      BY <1>1, <3>2
  <2>2. \A i \in 1 .. Len(s) - 1 : Le(s[1], s[i + 1])
    BY <1>1, <1>5 DEF Sorted
  <2> QED
    BY <1>1, <1>2, <2>1, <2>2 DEF Sorted
<1> QED
  BY <1>1, <1>3, <1>4, <1>5 DEF t

\* The same of numbers in increasing order.
LEMMA NumberFacts ==
  ASSUME NEW s \in Seq(Numbers), NEW k \in Numbers, \A p, q \in DOMAIN s : p < q => s[p] <= s[q]
  PROVE  /\ (\A n \in Range(s) : n <= k) =>
              \A p, q \in DOMAIN Append(s, k) : p < q => Append(s, k)[p] <= Append(s, k)[q]
         /\ s # <<>> => /\ \A p, q \in DOMAIN Tail(s) : p < q => Tail(s)[p] <= Tail(s)[q]
                        /\ \A n \in Range(Tail(s)) : Head(s) <= n
<1>1. ASSUME \A n \in Range(s) : n <= k
      PROVE  \A p, q \in DOMAIN Append(s, k) : p < q => Append(s, k)[p] <= Append(s, k)[q]
  <2>1. \A p \in DOMAIN s : s[p] <= k
    BY <1>1 DEF Range
  <2> QED
    BY <2>1
<1>2. ASSUME s # <<>>
      PROVE  /\ \A p, q \in DOMAIN Tail(s) : p < q => Tail(s)[p] <= Tail(s)[q]
             /\ \A n \in Range(Tail(s)) : Head(s) <= n
  <2>1. /\ Len(s) \in Nat /\ Len(s) > 0 /\ DOMAIN s = 1 .. Len(s) /\ DOMAIN Tail(s) = 1 .. Len(s) - 1
        /\ Head(s) = s[1] /\ \A i \in 1 .. Len(s) - 1 : Tail(s)[i] = s[i + 1]
    BY <1>2
  <2>2. \A i \in 1 .. Len(s) - 1 : s[1] <= s[i + 1]
    BY <2>1
  <2>3. \A p, q \in 1 .. Len(s) - 1 : p < q => s[p + 1] <= s[q + 1]
    BY <2>1
  <2> QED
    BY <2>1, <2>2, <2>3 DEF Range
<1> QED
  BY <1>1, <1>2

\* A log that is cut is a prefix of what it was.
LEMMA PrefixFacts ==
  ASSUME NEW S, NEW s \in Seq(S), NEW n \in 0 .. Len(s)
  PROVE  /\ SubSeq(s, 1, n) \in Seq(S) /\ Len(SubSeq(s, 1, n)) = n
         /\ Range(SubSeq(s, 1, n)) \subseteq Range(s)
         /\ Range(s) \subseteq Range(SubSeq(s, 1, n)) \cup {s[i] : i \in n + 1 .. Len(s)}
         /\ Sorted(s) => Sorted(SubSeq(s, 1, n))
<1> DEFINE t == SubSeq(s, 1, n)
<1>1. /\ Len(s) \in Nat /\ DOMAIN s = 1 .. Len(s) /\ n \in Nat /\ n <= Len(s)
      /\ t \in Seq(S) /\ Len(t) = n /\ DOMAIN t = 1 .. n /\ \A i \in 1 .. n : t[i] = s[i]
  OBVIOUS
<1> HIDE DEF t
<1>2. Range(t) \subseteq Range(s)
  <2>1. \A i \in 1 .. n : i \in DOMAIN s
    BY <1>1
  <2> QED
    BY <1>1, <2>1 DEF Range
<1>3. \A x \in Range(s) : x \in Range(t) \cup {s[i] : i \in n + 1 .. Len(s)}
  <2> TAKE x \in Range(s)
  <2>1. PICK i \in 1 .. Len(s) : x = s[i]
    BY <1>1 DEF Range
  <2>2. CASE i \in 1 .. n
    BY <1>1, <2>1, <2>2 DEF Range
  <2>3. CASE i \in n + 1 .. Len(s)
    BY <2>1, <2>3
  <2> QED
    BY <1>1, <2>2, <2>3
<1>4. Sorted(s) => Sorted(t)
  BY <1>1 DEF Sorted
<1> QED
  BY <1>1, <1>2, <1>3, <1>4 DEF t

-----------------------------------------------------------------------------
(* Types, the loop and the call.                                            *)

\* A message is a thread and a number.
LEMMA MsgFacts ==
  /\ \A c \in Callers, n \in Numbers : <<c, n>> \in Msgs
  /\ \A m \in Msgs : m[1] \in Callers /\ m[2] \in Numbers /\ m = <<m[1], m[2]>>
BY DEF Msgs, Numbers

\* Initially every variable has its type, and nothing has been sent.
LEMMA InitInv == Init => IInv
<1> SUFFICES ASSUME Init PROVE IInv
  OBVIOUS
<1>1. TypeOK
  <2>1. \A S : <<>> \in Seq(S) /\ Len(<<>>) = 0
    OBVIOUS
  <2>2. 0 \in 0 .. MaxCalls /\ 0 \in 0 .. MAX_RETRIES /\ 0 \in 0 .. MaxCrashes /\ 0 \in 0 .. MaxStops
    BY RudpAssumption
  <2>3. /\ cpc \in [Callers -> {"idle", "send", "recv"}]
        /\ g_seq \in [Callers -> 0 .. MaxCalls] /\ attempt \in [Callers -> 0 .. MAX_RETRIES]
        /\ outcome \in [Msgs -> {"none", "acked", "fallback"}]
    BY <2>2 DEF Init
  <2>4. /\ ackq \in [Callers -> Seq(Numbers)] /\ packets \in [Callers -> Seq(Numbers)]
        /\ acks \in [Callers -> Seq(Numbers)]
        /\ sockq \in Seq(Msgs) /\ log \in Seq(Msgs) /\ synced \in 0 .. Len(log)
    BY <2>1 DEF Init
  <2> QED
    BY <2>2, <2>3, <2>4 DEF Init, TypeOK
<1>2. LoopInv /\ CallInv
  BY DEF Init, LoopInv, CallInv
<1>3. \A s : s = <<>> => Range(s) = {} /\ Sorted(s)
  BY DEF Range, Sorted
<1>4. AckInv
  BY <1>3 DEF Init, AckInv
<1>5. OrderInv
  <2>1. Range(log) = {} /\ Hand = {} /\ Range(sockq) = {} /\ Sorted(log) /\ Sorted(sockq)
    BY <1>3 DEF Init, Hand
  <2>2. \A c \in Callers : packets[c] = <<>> /\ Sent(c) = {}
    BY <1>3 DEF Init, Sent
  <2> QED
    BY <2>1, <2>2 DEF OrderInv, Before
<1> QED
  BY <1>1, <1>2, <1>4, <1>5 DEF IInv

\* The end of an attempt keeps types, and leaves an attempt to whoever goes on.
LEMMA AttemptInv ==
  ASSUME TypeOK, CallInv, NEW c \in Callers, NEW acked \in BOOLEAN,
         cpc[c] # "idle", NextAttempt(c, acked), g_seq' = g_seq
  PROVE  /\ cpc' \in [Callers -> {"idle", "send", "recv"}]
         /\ attempt' \in [Callers -> 0 .. MAX_RETRIES]
         /\ outcome' \in [Msgs -> {"none", "acked", "fallback"}]
         /\ CallInv'
<1>1. g_seq[c] \in Numbers /\ attempt[c] \in 0 .. MAX_RETRIES /\ attempt[c] < MAX_RETRIES
  BY DEF TypeOK, CallInv
<1>2. attempt[c] + 1 \in 0 .. MAX_RETRIES
  BY <1>1, RudpAssumption
<1>3. attempt' \in [Callers -> 0 .. MAX_RETRIES] /\ attempt' = [attempt EXCEPT ![c] = attempt[c] + 1]
  BY <1>2 DEF NextAttempt, TypeOK
<1>4. cpc' \in [Callers -> {"idle", "send", "recv"}]
  BY DEF NextAttempt, TypeOK
<1>5. outcome' \in [Msgs -> {"none", "acked", "fallback"}]
  BY DEF NextAttempt, TypeOK
<1>6. CallInv'
  <2> SUFFICES ASSUME NEW d \in Callers, cpc'[d] # "idle"
               PROVE  g_seq[d] \in Numbers /\ attempt'[d] < MAX_RETRIES
    BY DEF CallInv
  <2>1. CASE d = c
    <3>1. attempt[c] + 1 # MAX_RETRIES
      BY <2>1 DEF NextAttempt, TypeOK
    <3> QED
      BY <1>1, <1>3, <2>1, <3>1, RudpAssumption DEF TypeOK
  <2>2. CASE d # c
    <3>1. cpc'[d] = cpc[d] /\ attempt'[d] = attempt[d]
      BY <1>3, <2>2 DEF NextAttempt, TypeOK
    <3> QED
      BY <3>1 DEF CallInv
  <2> QED
    BY <2>1, <2>2
<1> QED
  BY <1>3, <1>4, <1>5, <1>6

\* Every step keeps the types, and what loop and calls know.
LEMMA TypeStep ==
  TypeOK /\ LoopInv /\ CallInv /\ [Next]_vars => TypeOK' /\ LoopInv' /\ CallInv'
<1> SUFFICES ASSUME TypeOK, LoopInv, CallInv, [Next]_vars
             PROVE  TypeOK' /\ LoopInv' /\ CallInv'
  OBVIOUS
<1> USE RudpAssumption
<1>1. ASSUME NEW c \in Callers, Call(c) PROVE TypeOK' /\ LoopInv' /\ CallInv'
  <2>1. g_seq[c] \in 0 .. MaxCalls /\ g_seq[c] + 1 \in Numbers /\ g_seq[c] + 1 \in 0 .. MaxCalls
    BY <1>1 DEF Call, TypeOK, Numbers
  <2>2. TypeOK'
    BY <1>1, <2>1 DEF Call, TypeOK, netVars, serviceVars, faultVars
  <2>3. LoopInv' /\ CallInv'
    BY <1>1, <2>1 DEF Call, TypeOK, LoopInv, CallInv, netVars, serviceVars, faultVars
  <2> QED
    BY <2>2, <2>3
<1>2. ASSUME NEW c \in Callers, Send(c) PROVE TypeOK' /\ LoopInv' /\ CallInv'
  <2>1. g_seq[c] \in Numbers /\ Append(packets[c], g_seq[c]) \in Seq(Numbers)
    BY <1>2, AppendFacts DEF Send, TypeOK, CallInv
  <2>2. TypeOK'
    BY <1>2, <2>1 DEF Send, TypeOK, serviceVars, faultVars
  <2>3. LoopInv' /\ CallInv'
    BY <1>2 DEF Send, TypeOK, LoopInv, CallInv, serviceVars, faultVars
  <2> QED
    BY <2>2, <2>3
<1>3. ASSUME NEW c \in Callers, SendFails(c) \/ Timeout(c) PROVE TypeOK' /\ LoopInv' /\ CallInv'
  <2>1. cpc[c] # "idle" /\ NextAttempt(c, FALSE) /\ g_seq' = g_seq
    BY <1>3 DEF SendFails, Timeout
  <2>2. /\ cpc' \in [Callers -> {"idle", "send", "recv"}]
        /\ attempt' \in [Callers -> 0 .. MAX_RETRIES]
        /\ outcome' \in [Msgs -> {"none", "acked", "fallback"}]
        /\ CallInv'
    BY <2>1, AttemptInv
  <2>3. UNCHANGED <<g_seq, ackq, netVars, serviceVars, faultVars>>
    BY <1>3 DEF SendFails, Timeout
  <2> QED
    BY <2>2, <2>3 DEF TypeOK, LoopInv, netVars, serviceVars, faultVars
<1>4. ASSUME NEW c \in Callers, RecvAck(c) PROVE TypeOK' /\ LoopInv' /\ CallInv'
  <2>1. cpc[c] # "idle" /\ NextAttempt(c, Head(ackq[c]) = g_seq[c]) /\ g_seq' = g_seq
    BY <1>4 DEF RecvAck
  <2>2. Tail(ackq[c]) \in Seq(Numbers)
    BY <1>4, TailFacts DEF RecvAck, TypeOK
  <2>3. /\ cpc' \in [Callers -> {"idle", "send", "recv"}]
        /\ attempt' \in [Callers -> 0 .. MAX_RETRIES]
        /\ outcome' \in [Msgs -> {"none", "acked", "fallback"}]
        /\ CallInv'
    BY <2>1, AttemptInv
  <2> QED
    BY <1>4, <2>2, <2>3 DEF RecvAck, TypeOK, LoopInv, netVars, serviceVars, faultVars
<1>5. ASSUME NEW c \in Callers, DeliverPacket(c) PROVE TypeOK' /\ LoopInv' /\ CallInv'
  <2>1. Head(packets[c]) \in Numbers /\ Tail(packets[c]) \in Seq(Numbers)
    BY <1>5, TailFacts DEF DeliverPacket, TypeOK
  <2>2. <<c, Head(packets[c])>> \in Msgs
    BY <2>1, MsgFacts
  <2>3. Append(sockq, <<c, Head(packets[c])>>) \in Seq(Msgs)
    BY <2>2, AppendFacts DEF TypeOK
  <2>4. sockq' \in Seq(Msgs) /\ edge' \in BOOLEAN
    BY <1>5, <2>3 DEF DeliverPacket, TypeOK
  <2>5. sockq # <<>> => sockq' # <<>>
    BY <1>5, <2>2 DEF DeliverPacket, TypeOK
  <2> QED
    BY <1>5, <2>1, <2>4, <2>5 DEF DeliverPacket, TypeOK, LoopInv, CallInv, callerVars, faultVars
<1>6. ASSUME NEW c \in Callers, LosePacket(c) PROVE TypeOK' /\ LoopInv' /\ CallInv'
  <2>1. Tail(packets[c]) \in Seq(Numbers)
    BY <1>6, TailFacts DEF LosePacket, TypeOK
  <2> QED
    BY <1>6, <2>1 DEF LosePacket, TypeOK, LoopInv, CallInv, callerVars, serviceVars, faultVars
<1>7. ASSUME NEW c \in Callers, DeliverAck(c) PROVE TypeOK' /\ LoopInv' /\ CallInv'
  <2>1. Head(acks[c]) \in Numbers /\ Tail(acks[c]) \in Seq(Numbers)
    BY <1>7, TailFacts DEF DeliverAck, TypeOK
  <2>2. Append(ackq[c], Head(acks[c])) \in Seq(Numbers)
    BY <2>1, AppendFacts DEF TypeOK
  <2> QED
    BY <1>7, <2>1, <2>2 DEF DeliverAck, TypeOK, LoopInv, CallInv, serviceVars, faultVars
<1>8. ASSUME NEW c \in Callers, LoseAck(c) PROVE TypeOK' /\ LoopInv' /\ CallInv'
  <2>1. Tail(acks[c]) \in Seq(Numbers)
    BY <1>8, TailFacts DEF LoseAck, TypeOK
  <2> QED
    BY <1>8, <2>1 DEF LoseAck, TypeOK, LoopInv, CallInv, callerVars, serviceVars, faultVars
<1>9. ASSUME Test \/ WaitEvents PROVE TypeOK' /\ LoopInv' /\ CallInv'
  BY <1>9 DEF Test, WaitEvents, TypeOK, LoopInv, CallInv, callerVars, netVars, faultVars
<1>10. ASSUME RecvFrom PROVE TypeOK' /\ LoopInv' /\ CallInv'
  <2>1. Head(sockq) \in Msgs /\ Tail(sockq) \in Seq(Msgs)
    BY <1>10, TailFacts DEF RecvFrom, TypeOK, LoopInv
  <2> QED
    BY <1>10, <2>1 DEF RecvFrom, TypeOK, LoopInv, CallInv, callerVars, netVars, faultVars
<1>11. ASSUME SendAck PROVE TypeOK' /\ LoopInv' /\ CallInv'
  <2>1. hand \in Msgs /\ hand[1] \in Callers /\ hand[2] \in Numbers
    BY <1>11, MsgFacts DEF SendAck, TypeOK, LoopInv
  <2>2. Append(acks[hand[1]], hand[2]) \in Seq(Numbers)
    BY <2>1, AppendFacts DEF TypeOK
  <2> QED
    BY <1>11, <2>1, <2>2 DEF SendAck, TypeOK, LoopInv, CallInv, callerVars, faultVars
<1>12. ASSUME WriteLine PROVE TypeOK' /\ LoopInv' /\ CallInv'
  <2>1. hand \in Msgs
    BY <1>12 DEF WriteLine, TypeOK, LoopInv
  <2>2. Append(log, hand) \in Seq(Msgs) /\ Len(Append(log, hand)) = Len(log) + 1 /\ Len(log) \in Nat
    BY <2>1, AppendFacts DEF TypeOK
  <2>3. log' \in Seq(Msgs) /\ synced' \in 0 .. Len(log') /\ dropped' \subseteq Msgs
    <3>1. CASE open /\ hand \notin Oversized
      <4>1. /\ log' = Append(log, hand) /\ dropped' = dropped
            /\ synced' = synced \/ synced' = Len(log) + 1
        BY <1>12, <3>1 DEF WriteLine
      <4>2. synced \in 0 .. Len(log) + 1 /\ Len(log) + 1 \in 0 .. Len(log) + 1
        BY <2>2 DEF TypeOK
      <4> QED
        BY <2>2, <4>1, <4>2 DEF TypeOK
    <3>2. CASE ~(open /\ hand \notin Oversized)
      BY <1>12, <2>1, <3>2 DEF WriteLine, TypeOK
    <3> QED
      BY <3>1, <3>2
  <2>4. open' \in BOOLEAN
    BY <1>12, Zenon DEF WriteLine, TypeOK
  <2> QED
    BY <1>12, <2>3, <2>4 DEF WriteLine, TypeOK, LoopInv, CallInv, callerVars, netVars, faultVars
<1>13. ASSUME Stop \/ Start PROVE TypeOK' /\ LoopInv' /\ CallInv'
  <2>1. stops' \in 0 .. MaxStops /\ crashes' \in 0 .. MaxCrashes
    BY <1>13 DEF Stop, Start, TypeOK, faultVars
  <2>2. open' \in BOOLEAN
    BY <1>13, Zenon DEF Stop, Start, TypeOK
  <2>3. m_running' \in BOOLEAN /\ spc' \in {"test", "wait", "recv", "ack", "write", "left", "down"}
    BY <1>13 DEF Stop, Start, TypeOK
  <2>4. UNCHANGED <<callerVars, netVars, edge, sockq, hand, log, synced, dropped>>
    BY <1>13 DEF Stop, Start
  <2>5. LoopInv'
    BY <1>13 DEF Stop, Start, LoopInv
  <2> QED
    BY <2>1, <2>2, <2>3, <2>4, <2>5 DEF TypeOK, CallInv, callerVars, netVars
<1>14. ASSUME StopReturns PROVE TypeOK' /\ LoopInv' /\ CallInv'
  <2>1. <<>> \in Seq(Msgs) /\ Len(log) \in 0 .. Len(log)
    BY DEF TypeOK
  <2>2. sockq' \in Seq(Msgs) /\ synced' \in 0 .. Len(log')
    BY <1>14, <2>1 DEF StopReturns
  <2>3. LoopInv'
    BY <1>14 DEF StopReturns, LoopInv
  <2> QED
    BY <1>14, <2>2, <2>3 DEF StopReturns, TypeOK, CallInv, callerVars, netVars, faultVars
<1>15. ASSUME Crash PROVE TypeOK' /\ LoopInv' /\ CallInv'
  <2>1. PICK n \in synced .. Len(log) :
          /\ log' = SubSeq(log, 1, n) /\ synced' = n
          /\ dropped' = dropped \cup {log[i] : i \in n + 1 .. Len(log)}
                                \cup (IF spc = "write" THEN {hand} ELSE {})
    BY <1>15 DEF Crash
  <2>2. n \in 0 .. Len(log) /\ Len(log) \in Nat
    BY DEF TypeOK
  <2>3. log' \in Seq(Msgs) /\ synced' \in 0 .. Len(log')
    BY <2>1, <2>2, PrefixFacts DEF TypeOK
  <2>4. dropped' \subseteq Msgs
    <3>1. \A i \in n + 1 .. Len(log) : log[i] \in Msgs
      BY <2>2 DEF TypeOK
    <3>2. spc = "write" => hand \in Msgs
      BY DEF TypeOK, LoopInv
    <3> QED
      BY <2>1, <3>1, <3>2 DEF TypeOK
  <2>5. sockq' \in Seq(Msgs)
    BY <1>15 DEF Crash
  <2>6. LoopInv'
    BY <1>15 DEF Crash, LoopInv
  <2>7. crashes' \in 0 .. MaxCrashes /\ stops' \in 0 .. MaxStops
    BY <1>15 DEF Crash, TypeOK
  <2>8. /\ UNCHANGED <<callerVars, netVars>> /\ spc' = "down" /\ m_running' = FALSE
        /\ edge' = FALSE /\ hand' = NoMsg /\ open' = FALSE
    BY <1>15 DEF Crash
  <2> QED
    BY <2>3, <2>4, <2>5, <2>6, <2>7, <2>8 DEF TypeOK, CallInv, callerVars, netVars
<1>16. CASE UNCHANGED vars
  BY <1>16 DEF TypeOK, LoopInv, CallInv, vars, callerVars, netVars, serviceVars, faultVars
<1> QED
  BY <1>1, <1>2, <1>3, <1>4, <1>5, <1>6, <1>7, <1>8, <1>9, <1>10, <1>11, <1>12, <1>13,
     <1>14, <1>15, <1>16 DEF Next, Trace, Network, EventLoop

\* Every variable keeps its type, whatever is lost, killed or retried
\* (RudpLog, all actions).
THEOREM TypeCorrect == Spec => []TypeOK
<1>1. Init => TypeOK /\ LoopInv /\ CallInv
  BY InitInv DEF IInv
<1> QED
  BY <1>1, TypeStep, PTL DEF Spec

-----------------------------------------------------------------------------
(* Acknowledgements.                                                        *)

\* What the service has acknowledged stays so: a line that a kill takes out of
\* the log is accounted for.
LEMMA GotGrows == TypeOK /\ LoopInv /\ [Next]_vars => Got \subseteq Got'
<1> SUFFICES ASSUME TypeOK, LoopInv, [Next]_vars PROVE Got \subseteq Got'
  OBVIOUS
<1>1. CASE UNCHANGED <<spc, hand, log, dropped>>
  BY <1>1 DEF Got
<1>2. ASSUME Test \/ WaitEvents \/ RecvFrom \/ SendAck \/ StopReturns \/ Start
      PROVE  Got \subseteq Got'
  BY <1>2 DEF Test, WaitEvents, RecvFrom, SendAck, StopReturns, Start, Got
<1>3. ASSUME WriteLine PROVE Got \subseteq Got'
  <2>1. log \in Seq(Msgs) /\ hand \in Msgs
    BY <1>3 DEF WriteLine, TypeOK, LoopInv
  <2>2. CASE log' = Append(log, hand) /\ dropped' = dropped
    <3>1. Range(log') = Range(log) \cup {hand}
      BY <2>1, <2>2, AppendFacts
    <3> QED
      BY <1>3, <2>2, <3>1 DEF Got, WriteLine
  <2>3. CASE log' = log /\ dropped' = dropped \cup {hand}
    BY <1>3, <2>3 DEF Got
  <2> QED
    BY <1>3, <2>2, <2>3 DEF WriteLine
<1>4. ASSUME Crash PROVE Got \subseteq Got'
  <2>1. PICK n \in synced .. Len(log) :
          /\ log' = SubSeq(log, 1, n)
          /\ dropped' = dropped \cup {log[i] : i \in n + 1 .. Len(log)}
                                \cup (IF spc = "write" THEN {hand} ELSE {})
    BY <1>4 DEF Crash
  <2>2. n \in 0 .. Len(log) /\ log \in Seq(Msgs)
    BY DEF TypeOK
  <2>3. Range(log) \subseteq Range(log') \cup dropped'
    BY <2>1, <2>2, PrefixFacts
  <2> QED
    BY <2>1, <2>3 DEF Got
<1>5. ASSUME NEW c \in Callers, Trace(c) \/ Network(c) PROVE UNCHANGED <<spc, hand, log, dropped>>
  BY <1>5 DEF Trace, Network, Call, Send, SendFails, RecvAck, Timeout, DeliverPacket,
     LosePacket, DeliverAck, LoseAck, serviceVars
<1>6. ASSUME Stop PROVE UNCHANGED <<spc, hand, log, dropped>>
  BY <1>6 DEF Stop
<1>7. ASSUME UNCHANGED vars PROVE UNCHANGED <<spc, hand, log, dropped>>
  BY <1>7 DEF vars, serviceVars
<1> QED
  BY <1>1, <1>2, <1>3, <1>4, <1>5, <1>6, <1>7 DEF Next, EventLoop

\* A message is newly reported as delivered only with an acknowledgement for it.
LEMMA OutcomeStep ==
  ASSUME TypeOK, CallInv, [Next]_vars, NEW m \in Msgs, outcome'[m] = "acked", outcome[m] # "acked"
  PROVE  \E c \in Callers : \E n \in Range(ackq[c]) : m = <<c, n>>
<1>1. ASSUME NEW c \in Callers, SendFails(c) \/ Timeout(c) PROVE FALSE
  BY <1>1 DEF SendFails, Timeout, NextAttempt, TypeOK
<1>2. ASSUME NEW c \in Callers, RecvAck(c)
      PROVE  \E n \in Range(ackq[c]) : m = <<c, n>>
  <2>1. m = Cur(c) /\ Head(ackq[c]) = g_seq[c]
    BY <1>2 DEF RecvAck, NextAttempt, TypeOK
  <2>2. Head(ackq[c]) \in Range(ackq[c])
    BY <1>2, TailFacts DEF RecvAck, TypeOK
  <2> QED
    BY <2>1, <2>2 DEF Cur
<1>3. ASSUME NEW c \in Callers, Call(c) \/ Send(c) \/ Network(c) PROVE FALSE
  BY <1>3 DEF Call, Send, Network, DeliverPacket, LosePacket, DeliverAck, LoseAck, callerVars
<1>4. ASSUME EventLoop \/ Stop \/ StopReturns \/ Start \/ Crash \/ UNCHANGED vars PROVE FALSE
  BY <1>4 DEF EventLoop, Test, WaitEvents, RecvFrom, SendAck, WriteLine, Stop, StopReturns,
     Start, Crash, callerVars, vars
<1> QED
  BY <1>1, <1>2, <1>3, <1>4 DEF Next, Trace

\* The acknowledgements of thread c, on their way or arrived.
AcksOf(c) == Range(acks[c]) \cup Range(ackq[c])

\* Acknowledgements are made by SendAck only.
LEMMA AcksStep ==
  ASSUME TypeOK, LoopInv, [Next]_vars, NEW c \in Callers, NEW n \in AcksOf(c)'
  PROVE  n \in AcksOf(c) \/ (spc' = "write" /\ hand' = <<c, n>>)
<1>1. ASSUME NEW d \in Callers, RecvAck(d) PROVE n \in AcksOf(c)
  <2>1. Range(Tail(ackq[d])) \subseteq Range(ackq[d])
    BY <1>1, TailFacts DEF RecvAck, TypeOK
  <2> QED
    BY <1>1, <2>1 DEF RecvAck, AcksOf, TypeOK, netVars
<1>2. ASSUME NEW d \in Callers, DeliverAck(d) PROVE n \in AcksOf(c)
  <2>1. Head(acks[d]) \in Numbers /\ Range(acks[d]) = Range(Tail(acks[d])) \cup {Head(acks[d])}
    BY <1>2, TailFacts DEF DeliverAck, TypeOK
  <2>2. Range(Append(ackq[d], Head(acks[d]))) = Range(ackq[d]) \cup {Head(acks[d])}
    <3>1. ackq[d] \in Seq(Numbers)
      BY DEF TypeOK
    <3> QED
      BY <2>1, <3>1, AppendFacts
  <2> QED
    BY <1>2, <2>1, <2>2 DEF DeliverAck, AcksOf, TypeOK
<1>3. ASSUME NEW d \in Callers, LoseAck(d) PROVE n \in AcksOf(c)
  <2>1. Range(Tail(acks[d])) \subseteq Range(acks[d])
    BY <1>3, TailFacts DEF LoseAck, TypeOK
  <2> QED
    BY <1>3, <2>1 DEF LoseAck, AcksOf, TypeOK, callerVars
<1>4. ASSUME SendAck PROVE n \in AcksOf(c) \/ (spc' = "write" /\ hand' = <<c, n>>)
  <2>1. hand[1] \in Callers /\ hand[2] \in Numbers /\ hand = <<hand[1], hand[2]>>
    BY <1>4, MsgFacts DEF SendAck, TypeOK, LoopInv
  <2>2. Range(Append(acks[hand[1]], hand[2])) = Range(acks[hand[1]]) \cup {hand[2]}
    <3>1. acks[hand[1]] \in Seq(Numbers)
      BY <2>1 DEF TypeOK
    <3> QED
      BY <2>1, <3>1, AppendFacts
  <2>3. CASE c = hand[1]
    BY <1>4, <2>1, <2>2, <2>3 DEF SendAck, AcksOf, TypeOK, callerVars
  <2>4. CASE c # hand[1]
    BY <1>4, <2>1, <2>4 DEF SendAck, AcksOf, TypeOK, callerVars
  <2> QED
    BY <2>3, <2>4
<1>5. ASSUME UNCHANGED <<acks, ackq>> PROVE n \in AcksOf(c)
  BY <1>5 DEF AcksOf
<1>6. ASSUME NEW d \in Callers, Call(d) \/ Send(d) \/ SendFails(d) \/ Timeout(d)
                                 \/ DeliverPacket(d) \/ LosePacket(d)
      PROVE  UNCHANGED <<acks, ackq>>
  BY <1>6 DEF Call, Send, SendFails, Timeout, DeliverPacket, LosePacket, netVars, callerVars
<1>7. ASSUME Test \/ WaitEvents \/ RecvFrom \/ WriteLine \/ Stop \/ StopReturns \/ Start
               \/ Crash \/ UNCHANGED vars
      PROVE  UNCHANGED <<acks, ackq>>
  BY <1>7 DEF Test, WaitEvents, RecvFrom, WriteLine, Stop, StopReturns, Start, Crash,
     netVars, callerVars, vars
<1> QED
  BY <1>1, <1>2, <1>3, <1>4, <1>5, <1>6, <1>7 DEF Next, Trace, Network, EventLoop

\* Acknowledgements stay true.
LEMMA AckStep == TypeOK /\ LoopInv /\ CallInv /\ AckInv /\ [Next]_vars => AckInv'
<1> SUFFICES ASSUME TypeOK, LoopInv, CallInv, AckInv, [Next]_vars PROVE AckInv'
  OBVIOUS
<1>1. Got \subseteq Got'
  BY GotGrows
<1>2. ASSUME NEW m \in Msgs, outcome'[m] = "acked" PROVE m \in Got'
  <2>1. CASE outcome[m] = "acked"
    BY <1>1, <2>1 DEF AckInv
  <2>2. CASE outcome[m] # "acked"
    BY <1>1, <1>2, <2>2, OutcomeStep DEF AckInv
  <2> QED
    BY <2>1, <2>2
<1>3. ASSUME NEW c \in Callers, NEW n \in AcksOf(c)' PROVE <<c, n>> \in Got'
  <2>1. CASE n \in AcksOf(c)
    BY <1>1, <2>1 DEF AckInv, AcksOf
  <2>2. CASE spc' = "write" /\ hand' = <<c, n>>
    BY <2>2 DEF Got
  <2> QED
    BY <2>1, <2>2, AcksStep
<1> QED
  BY <1>2, <1>3 DEF AckInv, AcksOf

\* What Trace reports as delivered did reach the service (Logger.cpp: RecvAck
\* compares the number; LoggerServer.cpp: SendAck comes behind RecvFrom).
THEOREM AckedWasReceivedCorrect == Spec => []AckedWasReceived
<1> DEFINE Inv == TypeOK /\ LoopInv /\ CallInv /\ AckInv
<1>1. Init => Inv
  BY InitInv DEF IInv
<1>2. Inv /\ [Next]_vars => Inv'
  BY TypeStep, AckStep
<1>3. Inv => AckedWasReceived
  BY DEF AckInv, Got, AckedWasReceived
<1> QED
  BY <1>1, <1>2, <1>3, PTL DEF Spec

-----------------------------------------------------------------------------
(* Order.                                                                   *)

\* Messages on their way from c are messages of c.
LEMMA SentFacts == TypeOK => \A c \in Callers : \A m \in Sent(c) : m[1] = c /\ m \in Msgs
<1> SUFFICES ASSUME TypeOK, NEW c \in Callers PROVE \A m \in Sent(c) : m[1] = c /\ m \in Msgs
  OBVIOUS
<1>1. Range(packets[c]) \subseteq Numbers
  BY DEF TypeOK, Range
<1> QED
  BY <1>1, MsgFacts DEF Sent

\* What is in order stays in order when messages vanish.
LEMMA Vanish ==
  ASSUME OrderInv, Sorted(log'), Sorted(sockq'), g_seq' = g_seq,
         Range(log') \subseteq Range(log), Hand' \subseteq Hand, Range(sockq') \subseteq Range(sockq),
         \A c \in Callers :
           /\ Sent(c)' \subseteq Sent(c)
           /\ \A p, q \in DOMAIN packets'[c] : p < q => packets'[c][p] <= packets'[c][q]
  PROVE  OrderInv'
<1>1. \A S, T, U, V : Before(S, T) /\ U \subseteq S /\ V \subseteq T => Before(U, V)
  BY DEF Before
<1>2. Before(Range(log'), Hand')
  BY <1>1 DEF OrderInv
<1>3. Before(Range(log') \cup Hand', Range(sockq'))
  <2>1. Range(log') \cup Hand' \subseteq Range(log) \cup Hand
    OBVIOUS
  <2> QED
    BY <1>1, <2>1 DEF OrderInv
<1>4. ASSUME NEW c \in Callers
      PROVE  /\ Before(Range(log') \cup Hand' \cup Range(sockq'), Sent(c)')
             /\ Before(Range(log') \cup Hand' \cup Range(sockq') \cup Sent(c)', {Cur(c)'})
  <2>1. /\ Range(log') \cup Hand' \cup Range(sockq') \subseteq Range(log) \cup Hand \cup Range(sockq)
        /\ Range(log') \cup Hand' \cup Range(sockq') \cup Sent(c)'
             \subseteq Range(log) \cup Hand \cup Range(sockq) \cup Sent(c)
    OBVIOUS
  <2>2. Cur(c)' = Cur(c)
    BY DEF Cur
  <2>3. /\ Before(Range(log) \cup Hand \cup Range(sockq), Sent(c))
        /\ Before(Range(log) \cup Hand \cup Range(sockq) \cup Sent(c), {Cur(c)})
    BY DEF OrderInv
  <2> QED
    BY <1>1, <2>1, <2>2, <2>3
<1> QED
  BY <1>2, <1>3, <1>4 DEF OrderInv

\* A call takes a number above all that are on their way.
LEMMA CallKeepsOrder ==
  ASSUME TypeOK, OrderInv, NEW c \in Callers, Call(c)
  PROVE  OrderInv'
<1>1. /\ UNCHANGED <<packets, log, hand, sockq>> /\ \A d \in Callers : Sent(d)' = Sent(d)
      /\ Hand' = Hand
  BY DEF Call, netVars, serviceVars, Sent, Hand
<1>2. ASSUME NEW d \in Callers
      PROVE  Before(Range(log) \cup Hand \cup Range(sockq) \cup Sent(d), {Cur(d)'})
  <2>1. /\ Cur(d) = <<d, g_seq[d]>> /\ Cur(d)' = <<d, g_seq'[d]>>
        /\ g_seq[d] \in Nat /\ g_seq'[d] \in Nat /\ g_seq[d] <= g_seq'[d]
    BY RudpAssumption DEF Cur, Call, TypeOK
  <2>2. ASSUME NEW m \in Range(log) \cup Hand \cup Range(sockq) \cup Sent(d), m[1] = d
        PROVE  m[2] <= g_seq'[d]
    <3>1. Le(m, Cur(d))
      BY DEF OrderInv, Before
    <3>2. m \in Msgs
      BY SentFacts DEF TypeOK, Range, Hand
    <3>3. m[2] \in Nat /\ m[2] <= g_seq[d]
      BY <2>1, <2>2, <3>1, <3>2, MsgFacts DEF Le, Numbers
    <3> QED
      BY <2>1, <3>3
  <2> QED
    BY <2>1, <2>2 DEF Before, Le
<1> QED
  BY <1>1, <1>2 DEF OrderInv

\* Send puts the current message behind those on their way.
LEMMA SendKeepsOrder ==
  ASSUME TypeOK, CallInv, OrderInv, NEW c \in Callers, Send(c)
  PROVE  OrderInv'
<1>1. /\ UNCHANGED <<g_seq, log, hand, sockq>> /\ Hand' = Hand
      /\ packets' = [packets EXCEPT ![c] = Append(packets[c], g_seq[c])]
      /\ g_seq[c] \in Numbers /\ packets[c] \in Seq(Numbers)
  BY DEF Send, serviceVars, Hand, CallInv, TypeOK
<1>2. \A d \in Callers : Cur(d)' = Cur(d)
  BY <1>1 DEF Cur
<1>3. /\ Range(packets'[c]) = Range(packets[c]) \cup {g_seq[c]}
      /\ \A d \in Callers : d # c => packets'[d] = packets[d]
      /\ packets'[c] = Append(packets[c], g_seq[c])
  <2>1. Range(Append(packets[c], g_seq[c])) = Range(packets[c]) \cup {g_seq[c]}
    BY <1>1, AppendFacts
  <2> QED
    BY <1>1, <2>1 DEF TypeOK
<1>4. Sent(c)' = Sent(c) \cup {Cur(c)} /\ \A d \in Callers : d # c => Sent(d)' = Sent(d)
  BY <1>3 DEF Sent, Cur
<1>5. \A p, q \in DOMAIN packets'[c] : p < q => packets'[c][p] <= packets'[c][q]
  <2>1. \A n \in Range(packets[c]) : n <= g_seq[c]
    <3> SUFFICES ASSUME NEW n \in Range(packets[c]) PROVE n <= g_seq[c]
      OBVIOUS
    <3>1. <<c, n>> \in Sent(c)
      BY DEF Sent
    <3>2. Le(<<c, n>>, Cur(c))
      BY <3>1 DEF OrderInv, Before
    <3> QED
      BY <3>2 DEF Le, Cur
  <2>2. \A p, q \in DOMAIN packets[c] : p < q => packets[c][p] <= packets[c][q]
    BY DEF OrderInv
  <2> QED
    BY <1>1, <1>3, <2>1, <2>2, NumberFacts
<1>6. Le(Cur(c), Cur(c))
  BY <1>1 DEF Le, Cur, Numbers
<1>7. /\ Before(Range(log) \cup Hand \cup Range(sockq), Sent(c)')
      /\ Before(Range(log) \cup Hand \cup Range(sockq) \cup Sent(c)', {Cur(c)})
  BY <1>4, <1>6 DEF OrderInv, Before
<1> QED
  BY <1>1, <1>2, <1>3, <1>4, <1>5, <1>7 DEF OrderInv

\* The oldest message on its way becomes the newest in the socket, or is lost.
LEMMA DeliverKeepsOrder ==
  ASSUME TypeOK, OrderInv, NEW c \in Callers, DeliverPacket(c)
  PROVE  OrderInv'
<1> DEFINE m == <<c, Head(packets[c])>>
<1>1. /\ UNCHANGED <<g_seq, log, hand>> /\ Hand' = Hand
      /\ packets[c] # <<>> /\ packets[c] \in Seq(Numbers)
      /\ packets' = [packets EXCEPT ![c] = Tail(packets[c])]
      /\ sockq' = sockq \/ sockq' = Append(sockq, m)
  BY DEF DeliverPacket, callerVars, Hand, TypeOK
<1>2. /\ Head(packets[c]) \in Numbers
      /\ Range(packets[c]) = Range(Tail(packets[c])) \cup {Head(packets[c])}
      /\ packets'[c] = Tail(packets[c]) /\ \A d \in Callers : d # c => packets'[d] = packets[d]
  BY <1>1, TailFacts DEF TypeOK
<1>3. m \in Msgs /\ m \in Sent(c)
  BY <1>2, MsgFacts DEF Sent
<1>4. Sent(c) = Sent(c)' \cup {m} /\ \A d \in Callers : d # c => Sent(d)' = Sent(d)
  BY <1>2 DEF Sent
<1>5. /\ \A p, q \in DOMAIN packets'[c] : p < q => packets'[c][p] <= packets'[c][q]
      /\ \A n \in Range(packets'[c]) : Head(packets[c]) <= n
  <2>1. \A p, q \in DOMAIN packets[c] : p < q => packets[c][p] <= packets[c][q]
    BY DEF OrderInv
  <2> QED
    BY <1>1, <1>2, <2>1, NumberFacts
<1>6. \A d \in Callers : Sent(d)' \subseteq Sent(d)
  BY <1>4
<1>7. CASE sockq' = sockq
  <2>1. \A d \in Callers :
          \A p, q \in DOMAIN packets'[d] : p < q => packets'[d][p] <= packets'[d][q]
    BY <1>2, <1>5 DEF OrderInv
  <2>2. Sorted(log') /\ Sorted(sockq')
    BY <1>1, <1>7 DEF OrderInv
  <2> QED
    BY <1>1, <1>6, <1>7, <2>1, <2>2, Vanish
<1>8. CASE sockq' = Append(sockq, m)
  <2>1. Before(Range(log) \cup Hand \cup Range(sockq), {m})
    BY <1>3 DEF OrderInv, Before
  <2>2. Range(sockq') = Range(sockq) \cup {m} /\ Sorted(sockq')
    <3>1. sockq \in Seq(Msgs) /\ Sorted(sockq) /\ \A x \in Range(sockq) : Le(x, m)
      BY <2>1 DEF TypeOK, OrderInv, Before
    <3> QED
      BY <1>3, <1>8, <3>1, AppendFacts
  <2>3. Before(Range(log) \cup Hand, Range(sockq'))
    BY <2>1, <2>2 DEF OrderInv, Before
  <2>4. \A d \in Callers : Before({m}, Sent(d)')
    <3> SUFFICES ASSUME NEW d \in Callers, NEW x \in Sent(d)' PROVE Le(m, x)
      BY DEF Before
    <3>1. CASE d = c
      <4>1. PICK n \in Range(packets'[c]) : x = <<c, n>>
        BY <3>1 DEF Sent
      <4> QED
        BY <1>5, <4>1 DEF Le
    <3>2. CASE d # c
      <4>1. x[1] = d
        BY <1>4, <3>2, SentFacts
      <4> QED
        BY <3>2, <4>1 DEF Le
    <3> QED
      BY <3>1, <3>2
  <2>5. \A d \in Callers : Le(m, Cur(d))
    <3> SUFFICES ASSUME NEW d \in Callers PROVE Le(m, Cur(d))
      OBVIOUS
    <3>1. CASE d = c
      BY <1>3, <3>1 DEF OrderInv, Before
    <3>2. CASE d # c
      BY <3>2 DEF Le, Cur
    <3> QED
      BY <3>1, <3>2
  <2>6. ASSUME NEW d \in Callers
        PROVE  /\ Before(Range(log) \cup Hand \cup Range(sockq'), Sent(d)')
               /\ Before(Range(log) \cup Hand \cup Range(sockq') \cup Sent(d)', {Cur(d)})
    BY <1>6, <2>2, <2>4, <2>5 DEF OrderInv, Before
  <2>7. \A d \in Callers :
          \A p, q \in DOMAIN packets'[d] : p < q => packets'[d][p] <= packets'[d][q]
    BY <1>2, <1>5 DEF OrderInv
  <2>8. \A d \in Callers : Cur(d)' = Cur(d)
    BY <1>1 DEF Cur
  <2> QED
    BY <1>1, <2>2, <2>3, <2>6, <2>7, <2>8 DEF OrderInv
<1> QED
  BY <1>1, <1>7, <1>8

\* RecvFrom takes the oldest message of the socket in hand.
LEMMA RecvKeepsOrder ==
  ASSUME TypeOK, LoopInv, OrderInv, RecvFrom
  PROVE  OrderInv'
<1>1. /\ UNCHANGED <<g_seq, packets, log>> /\ hand = NoMsg /\ Hand = {}
      /\ sockq # <<>> /\ sockq \in Seq(Msgs) /\ hand' = Head(sockq) /\ sockq' = Tail(sockq)
  BY DEF RecvFrom, callerVars, netVars, LoopInv, TypeOK, Hand
<1>2. /\ Hand' = {Head(sockq)}
      /\ Range(sockq) = Range(sockq') \cup {Head(sockq)}
      /\ Sorted(sockq') /\ \A x \in Range(sockq') : Le(Head(sockq), x)
  <2>1. Sorted(sockq)
    BY DEF OrderInv
  <2>2. Head(sockq) \in Msgs
    BY <1>1, TailFacts
  <2> QED
    BY <1>1, <2>1, <2>2, TailFacts, RudpAssumption DEF Hand
<1>3. Before(Range(log), Range(sockq))
  BY DEF OrderInv, Before
<1>4. /\ Before(Range(log), Hand') /\ Before(Range(log) \cup Hand', Range(sockq'))
  BY <1>2, <1>3 DEF Before
<1>5. Range(log) \cup Hand' \cup Range(sockq') = Range(log) \cup Hand \cup Range(sockq)
  BY <1>1, <1>2
<1>6. \A c \in Callers : Sent(c)' = Sent(c) /\ Cur(c)' = Cur(c)
  BY <1>1 DEF Sent, Cur
<1> QED
  BY <1>1, <1>2, <1>4, <1>5, <1>6 DEF OrderInv

\* WriteLine puts the message in hand behind the log, or drops it.
LEMMA WriteKeepsOrder ==
  ASSUME TypeOK, LoopInv, OrderInv, WriteLine
  PROVE  OrderInv'
<1>1. /\ UNCHANGED <<g_seq, packets, sockq>> /\ hand \in Msgs /\ Hand = {hand} /\ Hand' = {}
      /\ log \in Seq(Msgs) /\ (log' = Append(log, hand) \/ log' = log)
  <2>1. hand # NoMsg /\ hand' = NoMsg
    BY DEF WriteLine, LoopInv
  <2> QED
    BY <2>1 DEF WriteLine, callerVars, netVars, TypeOK, Hand
<1>2. Sorted(log') /\ Range(log') \subseteq Range(log) \cup Hand
  <2>1. Sorted(log) /\ \A x \in Range(log) : Le(x, hand)
    BY <1>1 DEF OrderInv, Before
  <2>2. /\ Range(Append(log, hand)) = Range(log) \cup {hand}
        /\ Sorted(Append(log, hand))
    BY <1>1, <2>1, AppendFacts
  <2> QED
    BY <1>1, <2>1, <2>2
<1>3. Range(log') \cup Hand' \subseteq Range(log) \cup Hand
  BY <1>1, <1>2
<1>4. \A c \in Callers : Sent(c)' = Sent(c) /\ Cur(c)' = Cur(c)
  BY <1>1 DEF Sent, Cur
<1>5. Before(Range(log'), Hand') /\ Before(Range(log') \cup Hand', Range(sockq'))
  BY <1>1, <1>3 DEF OrderInv, Before
<1>6. ASSUME NEW c \in Callers
      PROVE  /\ Before(Range(log') \cup Hand' \cup Range(sockq'), Sent(c))
             /\ Before(Range(log') \cup Hand' \cup Range(sockq') \cup Sent(c), {Cur(c)})
  BY <1>1, <1>3 DEF OrderInv, Before
<1> QED
  BY <1>1, <1>2, <1>4, <1>5, <1>6 DEF OrderInv

\* The way of a thread's messages stays in order.
LEMMA OrderStep == TypeOK /\ LoopInv /\ CallInv /\ OrderInv /\ [Next]_vars => OrderInv'
<1> SUFFICES ASSUME TypeOK, LoopInv, CallInv, OrderInv, [Next]_vars PROVE OrderInv'
  OBVIOUS
<1>1. ASSUME UNCHANGED <<g_seq, packets, log, hand, sockq>> PROVE OrderInv'
  <2>1. Hand' = Hand /\ \A c \in Callers : Sent(c)' = Sent(c) /\ Cur(c)' = Cur(c)
    BY <1>1 DEF Hand, Sent, Cur
  <2> QED
    BY <1>1, <2>1 DEF OrderInv
<1>2. ASSUME NEW c \in Callers, LosePacket(c) PROVE OrderInv'
  <2>1. /\ UNCHANGED <<g_seq, log, hand, sockq>> /\ Hand' = Hand
        /\ packets[c] # <<>> /\ packets[c] \in Seq(Numbers)
        /\ packets' = [packets EXCEPT ![c] = Tail(packets[c])]
    BY <1>2 DEF LosePacket, callerVars, serviceVars, Hand, TypeOK
  <2>2. /\ packets'[c] = Tail(packets[c]) /\ \A d \in Callers : d # c => packets'[d] = packets[d]
        /\ Range(packets'[c]) \subseteq Range(packets[c])
    BY <2>1, TailFacts DEF TypeOK
  <2>3. \A p, q \in DOMAIN packets'[c] : p < q => packets'[c][p] <= packets'[c][q]
    <3>1. /\ \A p, q \in DOMAIN packets[c] : p < q => packets[c][p] <= packets[c][q]
          /\ Head(packets[c]) \in Numbers
      BY <2>1, TailFacts DEF OrderInv
    <3> QED
      BY <2>1, <2>2, <3>1, NumberFacts
  <2>4. \A d \in Callers :
          /\ Sent(d)' \subseteq Sent(d)
          /\ \A p, q \in DOMAIN packets'[d] : p < q => packets'[d][p] <= packets'[d][q]
    BY <2>2, <2>3 DEF Sent, OrderInv
  <2>5. Sorted(log') /\ Sorted(sockq')
    BY <2>1 DEF OrderInv
  <2> QED
    BY <2>1, <2>4, <2>5, Vanish
<1>3. ASSUME StopReturns \/ Crash PROVE OrderInv'
  <2>1. Sorted(log') /\ Range(log') \subseteq Range(log)
    <3>1. CASE StopReturns
      BY <3>1 DEF StopReturns, OrderInv
    <3>2. CASE Crash
      <4>1. PICK n \in synced .. Len(log) : log' = SubSeq(log, 1, n)
        BY <3>2 DEF Crash
      <4>2. n \in 0 .. Len(log) /\ log \in Seq(Msgs) /\ Sorted(log)
        BY DEF TypeOK, OrderInv
      <4> QED
        BY <4>1, <4>2, PrefixFacts
    <3> QED
      BY <1>3, <3>1, <3>2
  <2>2. sockq' = <<>> /\ Hand' \subseteq Hand /\ UNCHANGED <<g_seq, packets>>
    BY <1>3 DEF StopReturns, Crash, Hand, callerVars, netVars
  <2>3. Sorted(sockq') /\ Range(sockq') = {}
    BY <2>2 DEF Sorted, Range
  <2>4. \A d \in Callers :
          /\ Sent(d)' \subseteq Sent(d)
          /\ \A p, q \in DOMAIN packets'[d] : p < q => packets'[d][p] <= packets'[d][q]
    BY <2>2 DEF Sent, OrderInv
  <2> QED
    BY <2>1, <2>2, <2>3, <2>4, Vanish
<1>4. ASSUME NEW c \in Callers,
             SendFails(c) \/ RecvAck(c) \/ Timeout(c) \/ DeliverAck(c) \/ LoseAck(c)
      PROVE  UNCHANGED <<g_seq, packets, log, hand, sockq>>
  BY <1>4 DEF SendFails, RecvAck, Timeout, DeliverAck, LoseAck, callerVars, netVars, serviceVars
<1>5. ASSUME Test \/ WaitEvents \/ SendAck \/ Stop \/ Start \/ UNCHANGED vars
      PROVE  UNCHANGED <<g_seq, packets, log, hand, sockq>>
  BY <1>5 DEF Test, WaitEvents, SendAck, Stop, Start, callerVars, netVars, serviceVars, vars
<1> QED
  BY <1>1, <1>2, <1>3, <1>4, <1>5, CallKeepsOrder, SendKeepsOrder, DeliverKeepsOrder,
     RecvKeepsOrder, WriteKeepsOrder DEF Next, Trace, Network, EventLoop

\* The lines of one thread are in the order of its calls, for any number of
\* threads, calls, attempts and kills (LoggerServer.cpp: one loop that reads the
\* socket in order; Logger.cpp: one message at a time in a thread).
THEOREM PerThreadOrderCorrect == Spec => []PerThreadOrder
<1>1. Init => IInv
  BY InitInv
<1>2. IInv /\ [Next]_vars => IInv'
  BY TypeStep, AckStep, OrderStep DEF IInv
<1>3. IInv => PerThreadOrder
  BY DEF IInv, OrderInv, Sorted, Le, PerThreadOrder
<1> QED
  BY <1>1, <1>2, <1>3, PTL DEF Spec

-----------------------------------------------------------------------------
(* Copies.                                                                  *)

\* Where x occurs in a sequence, and how often.
Occ(s, x) == {p \in DOMAIN s : s[p] = x}
Count(s, x) == Cardinality(Occ(s, x))

\* A sequence is finite.
LEMMA CountIsNat ==
  ASSUME NEW S, NEW s \in Seq(S)
  PROVE  \A x : IsFiniteSet(Occ(s, x)) /\ Count(s, x) \in Nat
<1> TAKE x
<1>1. Len(s) \in Nat /\ DOMAIN s = 1 .. Len(s)
  OBVIOUS
<1>2. IsFiniteSet(DOMAIN s)
  BY <1>1, FS_Interval
<1>3. IsFiniteSet(Occ(s, x))
  BY <1>2, FS_Subset DEF Occ
<1> QED
  BY <1>3, FS_CardinalityType DEF Count

\* Nothing occurs in the empty sequence.
LEMMA CountEmpty == \A x : Count(<<>>, x) = 0
<1> TAKE x
<1>1. Occ(<<>>, x) = {}
  BY DEF Occ
<1> QED
  BY <1>1, FS_EmptySet DEF Count

\* A push adds one occurrence.
LEMMA CountAppend ==
  ASSUME NEW S, NEW s \in Seq(S), NEW e \in S, NEW x
  PROVE  Count(Append(s, e), x) = Count(s, x) + (IF x = e THEN 1 ELSE 0)
<1> DEFINE a == Append(s, e)
<1>1. /\ Len(s) \in Nat /\ DOMAIN s = 1 .. Len(s) /\ DOMAIN a = 1 .. Len(s) + 1
      /\ a[Len(s) + 1] = e /\ \A i \in 1 .. Len(s) : a[i] = s[i]
  OBVIOUS
<1> HIDE DEF a
<1>2. IsFiniteSet(Occ(s, x)) /\ Count(s, x) \in Nat
  BY CountIsNat
<1>3. CASE x = e
  <2>1. Occ(a, x) = Occ(s, x) \cup {Len(s) + 1} /\ Len(s) + 1 \notin Occ(s, x)
    BY <1>1, <1>3 DEF Occ
  <2> QED
    BY <1>2, <1>3, <2>1, FS_AddElement DEF Count, a
<1>4. CASE x # e
  <2>1. Occ(a, x) = Occ(s, x)
    BY <1>1, <1>4 DEF Occ
  <2> QED
    BY <1>2, <1>4, <2>1 DEF Count, a
<1> QED
  BY <1>3, <1>4

\* A pop takes one away.
LEMMA CountTail ==
  ASSUME NEW S, NEW s \in Seq(S), s # <<>>, NEW x
  PROVE  Count(s, x) = Count(Tail(s), x) + (IF x = Head(s) THEN 1 ELSE 0)
<1> DEFINE t == Tail(s)
<1>1. /\ Len(s) \in Nat /\ Len(s) > 0 /\ DOMAIN s = 1 .. Len(s) /\ DOMAIN t = 1 .. Len(s) - 1
      /\ t \in Seq(S) /\ Head(s) = s[1] /\ \A i \in 1 .. Len(s) - 1 : t[i] = s[i + 1]
  OBVIOUS
<1> HIDE DEF t
<1>2. IsFiniteSet(Occ(s, x)) /\ IsFiniteSet(Occ(t, x)) /\ Count(t, x) \in Nat
  BY <1>1, CountIsNat
<1>3. Cardinality(Occ(s, x) \ {1}) = Count(t, x)
  <2> DEFINE f == [p \in Occ(t, x) |-> p + 1]
  <2>1. \A p \in Occ(t, x) : f[p] \in Occ(s, x) \ {1}
    BY <1>1 DEF Occ
  <2>2. \A p, q \in Occ(t, x) : f[p] = f[q] => p = q
    BY <1>1 DEF Occ
  <2>3. \A q \in Occ(s, x) \ {1} : q - 1 \in Occ(t, x) /\ f[q - 1] = q
    BY <1>1 DEF Occ
  <2>4. f \in [Occ(t, x) -> Occ(s, x) \ {1}]
    BY <2>1
  <2> HIDE DEF f
  <2>5. f \in Bijection(Occ(t, x), Occ(s, x) \ {1})
    BY <2>2, <2>3, <2>4 DEF Bijection, Injection, Surjection, IsInjective
  <2>6. ExistsBijection(Occ(t, x), Occ(s, x) \ {1})
    BY <2>5 DEF ExistsBijection
  <2> QED
    BY <1>2, <2>6, FS_Bijection DEF Count
<1>4. 1 \in Occ(s, x) <=> x = Head(s)
  BY <1>1 DEF Occ
<1>5. Cardinality(Occ(s, x)) \in Nat
  BY <1>2, FS_CardinalityType
<1>6. CASE x = Head(s)
  <2>1. Cardinality(Occ(s, x) \ {1}) = Cardinality(Occ(s, x)) - 1
    BY <1>2, <1>4, <1>6, FS_RemoveElement
  <2> QED
    BY <1>2, <1>3, <1>5, <1>6, <2>1 DEF Count, t
<1>7. CASE x # Head(s)
  <2>1. Occ(s, x) \ {1} = Occ(s, x)
    BY <1>4, <1>7
  <2>2. Count(s, x) = Count(t, x)
    BY <1>3, <2>1 DEF Count
  <2> QED
    BY <1>2, <1>7, <2>2 DEF t
<1> QED
  BY <1>6, <1>7

\* A cut adds none.
LEMMA CountPrefix ==
  ASSUME NEW S, NEW s \in Seq(S), NEW n \in 0 .. Len(s), NEW x
  PROVE  Count(SubSeq(s, 1, n), x) <= Count(s, x)
<1> DEFINE t == SubSeq(s, 1, n)
<1>1. /\ Len(s) \in Nat /\ DOMAIN s = 1 .. Len(s) /\ n \in Nat /\ n <= Len(s)
      /\ DOMAIN t = 1 .. n /\ \A i \in 1 .. n : t[i] = s[i]
  OBVIOUS
<1> HIDE DEF t
<1>2. Occ(t, x) \subseteq Occ(s, x)
  BY <1>1 DEF Occ
<1> QED
  BY <1>2, CountIsNat, FS_Subset DEF Count, t

\* Copies of the n-th message of c that are in the log or may still get there.
Copies(c, n) ==
  Count(log, <<c, n>>) + (IF hand = <<c, n>> THEN 1 ELSE 0)
    + Count(sockq, <<c, n>>) + Count(packets[c], n)

\* How often c may have sent its n-th message.
Made(c, n) ==
  IF n > g_seq[c] THEN 0
  ELSE IF n < g_seq[c] \/ cpc[c] = "idle" THEN MAX_RETRIES
  ELSE IF cpc[c] = "recv" THEN attempt[c] + 1
  ELSE attempt[c]

\* There are no more copies than attempts.
CopiesInv == \A c \in Callers, n \in Numbers : Copies(c, n) <= Made(c, n)

\* Copies after a step.
LEMMA CopiesNext ==
  \A c, n : Copies(c, n)' = Count(log', <<c, n>>) + (IF hand' = <<c, n>> THEN 1 ELSE 0)
                              + Count(sockq', <<c, n>>) + Count(packets'[c], n)
BY DEF Copies, Count, Occ

\* Numbers of copies are numbers.
LEMMA CopiesFacts ==
  ASSUME TypeOK, NEW c \in Callers, NEW n \in Numbers
  PROVE  /\ Count(log, <<c, n>>) \in Nat /\ Count(sockq, <<c, n>>) \in Nat
         /\ Count(packets[c], n) \in Nat
<1>1. log \in Seq(Msgs) /\ sockq \in Seq(Msgs) /\ packets[c] \in Seq(Numbers)
  BY DEF TypeOK
<1> QED
  BY <1>1, CountIsNat

\* Attempts of a call are counted.
LEMMA MadeStep ==
  ASSUME TypeOK, CallInv, NEW d \in Callers, NEW acked \in BOOLEAN,
         NextAttempt(d, acked), cpc[d] # "idle", g_seq' = g_seq
  PROVE  \A c \in Callers, n \in Numbers : Made(c, n) <= Made(c, n)'
<1> USE RudpAssumption
<1>1. /\ attempt[d] \in Nat /\ attempt[d] < MAX_RETRIES /\ MAX_RETRIES \in Nat
      /\ attempt' = [attempt EXCEPT ![d] = attempt[d] + 1]
      /\ cpc[d] \in {"send", "recv"}
      /\ cpc' = [cpc EXCEPT ![d] = "idle"] \/ cpc' = [cpc EXCEPT ![d] = "send"]
  BY DEF NextAttempt, CallInv, TypeOK
<1>2. /\ attempt'[d] = attempt[d] + 1 /\ cpc'[d] \in {"idle", "send"}
      /\ \A c \in Callers \ {d} : attempt'[c] = attempt[c] /\ cpc'[c] = cpc[c] /\ attempt[c] \in Nat
  BY <1>1 DEF TypeOK
<1> TAKE c \in Callers, n \in Numbers
<1>3. n \in Nat /\ g_seq[c] \in Nat
  BY DEF TypeOK, Numbers
<1>4. CASE c = d
  BY <1>1, <1>2, <1>3, <1>4 DEF Made
<1>5. CASE c # d
  BY <1>1, <1>2, <1>3, <1>5 DEF Made
<1> QED
  BY <1>4, <1>5

\* Every step leaves no more copies than attempts.
LEMMA CopiesStep == TypeOK /\ LoopInv /\ CallInv /\ CopiesInv /\ [Next]_vars => CopiesInv'
<1> SUFFICES ASSUME TypeOK, LoopInv, CallInv, CopiesInv, [Next]_vars PROVE CopiesInv'
  OBVIOUS
<1> USE RudpAssumption
<1>1. TypeOK'
  BY TypeStep
<1>2. \A c \in Callers, n \in Numbers :
        /\ Copies(c, n) \in Nat /\ Copies(c, n)' \in Nat /\ Made(c, n) \in Nat /\ Made(c, n)' \in Nat
  <2> TAKE c \in Callers, n \in Numbers
  <2>1. Copies(c, n) \in Nat
    BY CopiesFacts DEF Copies
  <2>2. Copies(c, n)' \in Nat
    <3>1. /\ Count(log', <<c, n>>) \in Nat /\ Count(sockq', <<c, n>>) \in Nat
          /\ Count(packets'[c], n) \in Nat
      <4>1. log' \in Seq(Msgs) /\ sockq' \in Seq(Msgs) /\ packets'[c] \in Seq(Numbers)
        BY <1>1 DEF TypeOK
      <4> QED
        BY <4>1, CountIsNat
    <3> QED
      BY <3>1, CopiesNext
  <2>3. attempt[c] \in Nat /\ attempt'[c] \in Nat
    BY <1>1 DEF TypeOK
  <2> QED
    BY <2>1, <2>2, <2>3 DEF Made
\* A step that neither sends nor counts.
<1>3. ASSUME UNCHANGED <<cpc, g_seq, attempt>>,
             \A c \in Callers, n \in Numbers : Copies(c, n)' <= Copies(c, n)
      PROVE  CopiesInv'
  BY <1>2, <1>3 DEF CopiesInv, Made
<1>4. ASSUME UNCHANGED <<packets, sockq, hand, log>>,
             \A c \in Callers, n \in Numbers : Copies(c, n) <= Made(c, n) => Copies(c, n) <= Made(c, n)'
      PROVE  CopiesInv'
  BY <1>4 DEF CopiesInv, Copies, Count, Occ
<1>5. ASSUME NEW d \in Callers, Call(d) PROVE CopiesInv'
  <2>1. /\ UNCHANGED <<packets, sockq, hand, log>> /\ cpc[d] = "idle"
        /\ g_seq' = [g_seq EXCEPT ![d] = g_seq[d] + 1]
        /\ attempt' = [attempt EXCEPT ![d] = 0] /\ cpc' = [cpc EXCEPT ![d] = "send"]
    BY <1>5 DEF Call, netVars, serviceVars
  <2>2. /\ g_seq'[d] = g_seq[d] + 1 /\ attempt'[d] = 0 /\ cpc'[d] = "send"
        /\ \A c \in Callers \ {d} : g_seq'[c] = g_seq[c] /\ attempt'[c] = attempt[c] /\ cpc'[c] = cpc[c]
    BY <2>1 DEF TypeOK
  <2>3. ASSUME NEW c \in Callers, NEW n \in Numbers, Copies(c, n) <= Made(c, n)
        PROVE  Copies(c, n) <= Made(c, n)'
    <3>1. n \in Nat /\ g_seq[c] \in Nat /\ Copies(c, n) \in Nat
      BY <1>2 DEF TypeOK, Numbers
    <3>2. CASE c = d
      BY <2>1, <2>2, <2>3, <3>1, <3>2 DEF Made
    <3>3. CASE c # d
      BY <2>2, <2>3, <3>3 DEF Made
    <3> QED
      BY <3>2, <3>3
  <2> QED
    BY <1>4, <2>1, <2>3
<1>6. ASSUME NEW d \in Callers, SendFails(d) \/ RecvAck(d) \/ Timeout(d) PROVE CopiesInv'
  <2>1. /\ UNCHANGED <<packets, sockq, hand, log, g_seq>> /\ cpc[d] # "idle"
        /\ \E acked \in BOOLEAN : NextAttempt(d, acked)
    BY <1>6 DEF SendFails, RecvAck, Timeout, netVars, serviceVars
  <2>2. \A c \in Callers, n \in Numbers : Made(c, n) <= Made(c, n)'
    BY <2>1, MadeStep
  <2> QED
    BY <1>2, <1>4, <2>1, <2>2
<1>7. ASSUME NEW d \in Callers, Send(d) PROVE CopiesInv'
  <2>1. /\ UNCHANGED <<g_seq, attempt, sockq, hand, log>> /\ cpc[d] = "send"
        /\ packets' = [packets EXCEPT ![d] = Append(packets[d], g_seq[d])]
        /\ cpc' = [cpc EXCEPT ![d] = "recv"]
        /\ g_seq[d] \in Numbers /\ packets[d] \in Seq(Numbers)
    BY <1>7 DEF Send, serviceVars, CallInv, TypeOK
  <2>2. cpc'[d] = "recv" /\ packets'[d] = Append(packets[d], g_seq[d])
        /\ \A c \in Callers \ {d} : cpc'[c] = cpc[c] /\ packets'[c] = packets[c]
    BY <2>1 DEF TypeOK
  <2>3. ASSUME NEW c \in Callers, NEW n \in Numbers PROVE Copies(c, n)' <= Made(c, n)'
    <3>1. /\ n \in Nat /\ g_seq[c] \in Nat /\ attempt[c] \in Nat /\ Copies(c, n) <= Made(c, n)
          /\ Count(log, <<c, n>>) \in Nat /\ Count(sockq, <<c, n>>) \in Nat
          /\ Count(packets[c], n) \in Nat
      <4>1. n \in Nat /\ g_seq[c] \in Nat /\ attempt[c] \in Nat
        BY DEF TypeOK, Numbers
      <4> QED
        BY <4>1, CopiesFacts DEF CopiesInv
    <3>2. CASE c = d
      <4>1. Count(packets'[c], n) = Count(packets[c], n) + (IF n = g_seq[c] THEN 1 ELSE 0)
        BY <2>1, <2>2, <3>2, CountAppend
      <4>2. Copies(c, n)' = Copies(c, n) + (IF n = g_seq[c] THEN 1 ELSE 0)
        <5>1. Copies(c, n) = Count(log, <<c, n>>) + (IF hand = <<c, n>> THEN 1 ELSE 0)
                               + Count(sockq, <<c, n>>) + Count(packets[c], n)
          BY DEF Copies
        <5>2. Copies(c, n)' = Count(log, <<c, n>>) + (IF hand = <<c, n>> THEN 1 ELSE 0)
                                + Count(sockq, <<c, n>>) + Count(packets'[c], n)
          BY <2>1, CopiesNext
        <5> QED
          BY <3>1, <4>1, <5>1, <5>2
      <4>3. Made(c, n)' = Made(c, n) + (IF n = g_seq[c] THEN 1 ELSE 0)
        BY <2>1, <2>2, <3>1, <3>2 DEF Made
      <4> QED
        BY <1>2, <3>1, <4>2, <4>3
    <3>3. CASE c # d
      <4>1. Copies(c, n)' = Copies(c, n)
        BY <2>1, <2>2, <3>3, CopiesNext DEF Copies
      <4>2. Made(c, n)' = Made(c, n)
        BY <2>1, <2>2, <3>3 DEF Made
      <4> QED
        BY <3>1, <4>1, <4>2
    <3> QED
      BY <3>2, <3>3
  <2> QED
    BY <2>3 DEF CopiesInv
<1>8. ASSUME NEW d \in Callers, DeliverPacket(d) \/ LosePacket(d) PROVE CopiesInv'
  <2>1. /\ UNCHANGED <<cpc, g_seq, attempt, hand, log>>
        /\ packets[d] # <<>> /\ packets[d] \in Seq(Numbers)
        /\ packets' = [packets EXCEPT ![d] = Tail(packets[d])]
        /\ sockq' = sockq \/ sockq' = Append(sockq, <<d, Head(packets[d])>>)
    BY <1>8 DEF DeliverPacket, LosePacket, callerVars, serviceVars, TypeOK
  <2>2. packets'[d] = Tail(packets[d]) /\ \A c \in Callers \ {d} : packets'[c] = packets[c]
    BY <2>1 DEF TypeOK
  <2>3. Head(packets[d]) \in Numbers /\ <<d, Head(packets[d])>> \in Msgs /\ sockq \in Seq(Msgs)
    BY <2>1, TailFacts, MsgFacts DEF TypeOK
  <2>4. ASSUME NEW c \in Callers, NEW n \in Numbers PROVE Copies(c, n)' <= Copies(c, n)
    <3>1. /\ Count(log, <<c, n>>) \in Nat /\ Count(sockq, <<c, n>>) \in Nat
          /\ Count(packets[c], n) \in Nat
      BY CopiesFacts
    <3> DEFINE one == IF <<c, n>> = <<d, Head(packets[d])>> THEN 1 ELSE 0
    <3>2. Count(sockq', <<c, n>>) \in {Count(sockq, <<c, n>>), Count(sockq, <<c, n>>) + one}
      <4>1. Count(Append(sockq, <<d, Head(packets[d])>>), <<c, n>>) = Count(sockq, <<c, n>>) + one
        BY <2>3, CountAppend
      <4> QED
        BY <2>1, <4>1
    <3>3. Count(packets[c], n) = Count(packets'[c], n) + one /\ Count(packets'[c], n) \in Nat
      <4>1. packets'[c] \in Seq(Numbers)
        BY <1>1 DEF TypeOK
      <4>2. Count(packets'[c], n) \in Nat
        BY <4>1, CountIsNat
      <4>3. CASE c = d
        BY <2>1, <2>2, <4>2, <4>3, CountTail
      <4>4. CASE c # d
        BY <2>2, <4>2, <4>4
      <4> QED
        BY <4>2, <4>3, <4>4
    <3> QED
      BY <2>1, <3>1, <3>2, <3>3, CopiesNext DEF Copies
  <2> QED
    BY <1>3, <2>1, <2>4
<1>9. ASSUME RecvFrom PROVE CopiesInv'
  <2>1. /\ UNCHANGED <<cpc, g_seq, attempt, packets, log>>
        /\ hand = NoMsg /\ hand' = Head(sockq) /\ sockq' = Tail(sockq)
        /\ sockq \in Seq(Msgs) /\ sockq # <<>>
    BY <1>9 DEF RecvFrom, callerVars, netVars, LoopInv, TypeOK
  <2>2. ASSUME NEW c \in Callers, NEW n \in Numbers PROVE Copies(c, n)' <= Copies(c, n)
    <3>1. /\ Count(log, <<c, n>>) \in Nat /\ Count(sockq, <<c, n>>) \in Nat
          /\ Count(packets[c], n) \in Nat
      BY CopiesFacts
    <3>2. Count(sockq, <<c, n>>) = Count(sockq', <<c, n>>) + (IF <<c, n>> = hand' THEN 1 ELSE 0)
      BY <2>1, CountTail
    <3>3. sockq' \in Seq(Msgs)
      BY <1>1 DEF TypeOK
    <3>4. Count(sockq', <<c, n>>) \in Nat
      BY <3>3, CountIsNat
    <3>5. hand # <<c, n>>
      BY <2>1, MsgFacts
    <3> QED
      <4>1. Copies(c, n) = Count(log, <<c, n>>) + Count(sockq, <<c, n>>) + Count(packets[c], n)
        BY <3>1, <3>5 DEF Copies
      <4>2. Copies(c, n)' = Count(log, <<c, n>>) + (IF hand' = <<c, n>> THEN 1 ELSE 0)
                              + Count(sockq', <<c, n>>) + Count(packets[c], n)
        BY <2>1, CopiesNext
      <4> QED
        BY <3>1, <3>2, <3>4, <4>1, <4>2
  <2> QED
    BY <1>3, <2>1, <2>2
<1>10. ASSUME WriteLine PROVE CopiesInv'
  <2>1. /\ UNCHANGED <<cpc, g_seq, attempt, packets, sockq>>
        /\ hand' = NoMsg /\ hand \in Msgs /\ log \in Seq(Msgs)
        /\ log' = log \/ log' = Append(log, hand)
    BY <1>10 DEF WriteLine, callerVars, netVars, LoopInv, TypeOK
  <2>2. ASSUME NEW c \in Callers, NEW n \in Numbers PROVE Copies(c, n)' <= Copies(c, n)
    <3>1. /\ Count(log, <<c, n>>) \in Nat /\ Count(sockq, <<c, n>>) \in Nat
          /\ Count(packets[c], n) \in Nat
      BY CopiesFacts
    <3> DEFINE one == IF <<c, n>> = hand THEN 1 ELSE 0
    <3>2. Count(log', <<c, n>>) \in {Count(log, <<c, n>>), Count(log, <<c, n>>) + one}
      <4>1. Count(Append(log, hand), <<c, n>>) = Count(log, <<c, n>>) + one
        BY <2>1, CountAppend
      <4> QED
        BY <2>1, <4>1
    <3>3. hand' # <<c, n>>
      BY <2>1, MsgFacts
    <3> QED
      BY <2>1, <3>1, <3>2, <3>3, CopiesNext DEF Copies
  <2> QED
    BY <1>3, <2>1, <2>2
<1>11. ASSUME StopReturns \/ Crash PROVE CopiesInv'
  <2>1. /\ UNCHANGED <<cpc, g_seq, attempt, packets>> /\ sockq' = <<>>
        /\ hand' \in {hand, NoMsg} /\ log \in Seq(Msgs)
        /\ log' = log \/ \E n \in 0 .. Len(log) : log' = SubSeq(log, 1, n)
    <3>1. synced \in 0 .. Len(log) /\ Len(log) \in Nat /\ log \in Seq(Msgs)
      BY DEF TypeOK
    <3>2. synced .. Len(log) \subseteq 0 .. Len(log)
      BY <3>1
    <3> QED
      BY <1>11, <3>1, <3>2 DEF StopReturns, Crash, callerVars, netVars
  <2>2. ASSUME NEW c \in Callers, NEW n \in Numbers PROVE Copies(c, n)' <= Copies(c, n)
    <3>1. /\ Count(log, <<c, n>>) \in Nat /\ Count(sockq, <<c, n>>) \in Nat
          /\ Count(packets[c], n) \in Nat
      BY CopiesFacts
    <3>2. Count(log', <<c, n>>) <= Count(log, <<c, n>>)
      <4>1. \A k \in 0 .. Len(log) : Count(SubSeq(log, 1, k), <<c, n>>) <= Count(log, <<c, n>>)
        BY <2>1, CountPrefix
      <4>2. CASE log' = log
        BY <3>1, <4>2
      <4>3. CASE \E k \in 0 .. Len(log) : log' = SubSeq(log, 1, k)
        BY <4>1, <4>3
      <4> QED
        BY <2>1, <4>2, <4>3
    <3>3. log' \in Seq(Msgs)
      BY <1>1 DEF TypeOK
    <3>4. Count(log', <<c, n>>) \in Nat
      BY <3>3, CountIsNat
    <3>5. Count(sockq', <<c, n>>) = 0
      BY <2>1, CountEmpty
    <3>6. hand' = <<c, n>> => hand = <<c, n>>
      BY <2>1, MsgFacts
    <3> QED
      BY <2>1, <3>1, <3>2, <3>4, <3>5, <3>6, CopiesNext DEF Copies
  <2> QED
    BY <1>3, <2>1, <2>2
<1>12. ASSUME UNCHANGED <<cpc, g_seq, attempt, packets, sockq, hand, log>> PROVE CopiesInv'
  BY <1>12 DEF CopiesInv, Copies, Made, Count, Occ
<1>13. ASSUME NEW d \in Callers, DeliverAck(d) \/ LoseAck(d)
       PROVE  UNCHANGED <<cpc, g_seq, attempt, packets, sockq, hand, log>>
  BY <1>13 DEF DeliverAck, LoseAck, callerVars, serviceVars
<1>14. ASSUME Test \/ WaitEvents \/ SendAck \/ Stop \/ Start \/ UNCHANGED vars
       PROVE  UNCHANGED <<cpc, g_seq, attempt, packets, sockq, hand, log>>
  BY <1>14 DEF Test, WaitEvents, SendAck, Stop, Start, callerVars, netVars, serviceVars, vars
<1> QED
  BY <1>5, <1>6, <1>7, <1>8, <1>9, <1>10, <1>11, <1>12, <1>13, <1>14
  DEF Next, Trace, Network, EventLoop

\* Retransmission is the only source of duplicates (LoggerServer.cpp: no
\* detection of them; Logger.cpp: MAX_RETRIES attempts): a message makes at most
\* MAX_RETRIES lines.
THEOREM BoundedCopiesCorrect == Spec => []BoundedCopies
<1> DEFINE Inv == TypeOK /\ LoopInv /\ CallInv /\ CopiesInv
<1>1. Init => Inv
  <2> SUFFICES ASSUME Init PROVE CopiesInv
    BY InitInv DEF IInv
  <2>1. \A c \in Callers, n \in Numbers : hand # <<c, n>>
    BY RudpAssumption, MsgFacts DEF Init
  <2>2. \A c \in Callers, n \in Numbers : Copies(c, n) = 0
    BY <2>1, CountEmpty DEF Init, Copies
  <2>3. \A c \in Callers, n \in Numbers : Made(c, n) = 0
    BY DEF Init, Made, Numbers
  <2> QED
    BY <2>2, <2>3 DEF CopiesInv
<1>2. Inv /\ [Next]_vars => Inv'
  BY TypeStep, CopiesStep
<1>3. Inv => BoundedCopies
  <2> SUFFICES ASSUME Inv, NEW m \in Msgs PROVE Count(log, m) <= MAX_RETRIES
    BY DEF BoundedCopies, Count, Occ
  <2>1. PICK c \in Callers, n \in Numbers : m = <<c, n>>
    BY MsgFacts
  <2>2. /\ Count(log, <<c, n>>) \in Nat /\ Count(sockq, <<c, n>>) \in Nat
        /\ Count(packets[c], n) \in Nat
    BY CopiesFacts
  <2>3. Made(c, n) \in Nat /\ Made(c, n) <= MAX_RETRIES
    <3>1. attempt[c] \in 0 .. MAX_RETRIES /\ (cpc[c] # "idle" => attempt[c] < MAX_RETRIES)
      BY DEF TypeOK, CallInv
    <3>2. cpc[c] \in {"idle", "send", "recv"}
      BY DEF TypeOK
    <3> QED
      BY <3>1, <3>2, RudpAssumption DEF Made
  <2>4. Copies(c, n) <= Made(c, n) /\ Copies(c, n) \in Nat /\ Count(log, <<c, n>>) <= Copies(c, n)
    BY <2>2 DEF CopiesInv, Copies
  <2> QED
    BY <2>1, <2>2, <2>3, <2>4, RudpAssumption
<1> QED
  BY <1>1, <1>2, <1>3, PTL DEF Spec
=============================================================================
