------------------------------ MODULE LogWriter ------------------------------
(***************************************************************************)
(* What becomes of a record between the thread that traces it and the log  *)
(* directory: Trace's packet, HandleLogData of the service (LoggerServer)  *)
(* and LogWriter with its stream buffer, files named by the second they    *)
(* are opened in, rotation by size and by age, a rotation that fails, and  *)
(* a service that is stopped, killed and started again.                    *)
(*                                                                         *)
(* The packets reach the service one by one and in order here; losses and  *)
(* retries are RudpLog's.  The disk does not fill up.                      *)
(***************************************************************************)
EXTENDS LogInfo, FiniteSetsExt, SequencesExt

CONSTANTS
  Infos,      \* records that are traced
  Room,       \* bytes RecvFrom has room for: 8192
  SizeLimit,  \* bytes after which a file is left: 100 MB
  AgeLimit,   \* seconds after which a file is left: 24 hours
  MaxTime,    \* bound on the clock
  MaxTraced,  \* bound on the records traced
  MaxStarts   \* bound on the starts of the service

ASSUME LogWriterAssumption ==
  /\ Infos \subseteq Record
  /\ {Room, SizeLimit, AgeLimit, MaxTime, MaxTraced, MaxStarts} \subseteq Nat

VARIABLES
  now,      \* the clock, in seconds; it is not set back
  up,       \* the service runs
  files,    \* lines stored in each file of the log directory, by name
  open,     \* m_current_file, while m_file is open
  buffered, \* lines in the buffer of m_file
  size,     \* m_current_size
  rotated,  \* m_last_rotation
  seq,      \* g_seq
  starts,   \* starts of the service so far
  due,      \* records the service received whole while a file was open
  killed    \* the service has been killed at least once

writer == <<files, open, buffered, size, rotated>>
vars == <<now, up, writer, seq, starts, due, killed>>

FATAL == 4

NoFile == MaxTime + 1

Times == 0 .. MaxTime

Init ==
  /\ now = 0 /\ up = FALSE
  /\ files = [t \in Times |-> <<>>]
  /\ open = NoFile /\ buffered = <<>> /\ size = 0 /\ rotated = 0
  /\ seq = 0 /\ starts = 0
  /\ due = <<>> /\ killed = FALSE

-----------------------------------------------------------------------------
(* LogWriter.                                                               *)

\* A line of the log: a record, or the beginning of one.
Whole(info) == [info |-> info, whole |-> TRUE]
Torn(info) == [info |-> info, whole |-> FALSE]

\* FormatLog: the length of what is written grows with content and dump.
LineLength(info) == 1 + Len(info.content) + Len(FlattenSeq(info.dump))

\* The files once the lines have left the buffer.
Stored(lines) == IF open = NoFile THEN files ELSE [files EXCEPT ![open] = @ \o lines]

\* Fault: the file is opened without std::ios::app.
RotateTruncating(lines, total) ==
  /\ buffered' = <<>>
  /\ \/ /\ open' = now /\ size' = 0 /\ rotated' = now
        /\ files' = [Stored(lines) EXCEPT ![now] = <<>>]
     \/ open' = NoFile /\ files' = Stored(lines) /\ size' = total /\ UNCHANGED rotated

\* Fault: the count of the old file goes on.
RotateCounting(lines, total) ==
  /\ files' = Stored(lines) /\ buffered' = <<>> /\ size' = total
  /\ \/ open' = now /\ rotated' = now
     \/ open' = NoFile /\ UNCHANGED rotated

\* The file is closed, and one with the name of this second opened for
\* appending; open may fail.  The total is m_current_size so far.
Rotate(lines, total) ==
  /\ files' = Stored(lines) /\ buffered' = <<>>
  /\ \/ open' = now /\ size' = 0 /\ rotated' = now
     \/ open' = NoFile /\ size' = total /\ UNCHANGED rotated

\* Fault: the flush comes before the line.
FlushFirst(info) == [store |-> buffered, keep |-> <<Whole(info)>>]

\* The lines the stream hands on when a line has been put into it, and those
\* it keeps.
Put(info) ==
  LET lines == Append(buffered, Whole(info))
  IN  IF info.level = FATAL THEN [store |-> lines, keep |-> <<>>]
      ELSE [store |-> <<>>, keep |-> lines]

\* A line goes into the open file; the one that exceeds a limit is its last.
Write(info) ==
  LET total == size + LineLength(info)
      put   == Put(info)
  IN  IF open = NoFile THEN UNCHANGED writer
      ELSE IF total > SizeLimit \/ now - rotated > AgeLimit
        THEN Rotate(Append(buffered, Whole(info)), total)
        ELSE /\ files' = Stored(put.store) /\ buffered' = put.keep
             /\ size' = total
             /\ UNCHANGED <<open, rotated>>

-----------------------------------------------------------------------------
(* The service.                                                             *)

Packet(info) == WriteVal(seq, 4) \o Serialize(info)

\* HandleLogData.  What does not fit is cut off and lost; the acknowledgement
\* is sent before the record is looked at.
HandleLogData(data) ==
  LET buffer == SubSeq(data, 1, Min({Room, Len(data)}))
      parsed == Deserialize(SubSeq(buffer, 5, Len(buffer)))
  IN  IF Len(buffer) >= 4 /\ parsed.ok THEN Write(parsed.info) ELSE UNCHANGED writer

Trace ==
  /\ up /\ seq < MaxTraced
  /\ \E info \in Infos :
       /\ HandleLogData(Packet(info))
       /\ due' = IF open # NoFile /\ Len(Packet(info)) <= Room THEN Append(due, info) ELSE due
  /\ seq' = seq + 1
  /\ UNCHANGED <<now, up, starts, killed>>

\* The constructor of LogWriter ignores a rotation that fails.
Start ==
  /\ ~up /\ starts < MaxStarts
  /\ up' = TRUE /\ starts' = starts + 1
  /\ files' = files /\ buffered' = <<>> /\ size' = 0
  /\ rotated' = now /\ open' \in {now, NoFile}
  /\ UNCHANGED <<now, seq, due, killed>>

\* The destructor closes the file.
Stop ==
  /\ up /\ up' = FALSE
  /\ files' = Stored(buffered) /\ buffered' = <<>> /\ open' = NoFile
  /\ UNCHANGED <<now, size, rotated, seq, starts, due, killed>>

\* The buffer holds a few lines at most: it has been handed on up to some line,
\* or into the middle of one.
Kill ==
  /\ up /\ up' = FALSE /\ killed' = TRUE
  /\ \E n \in 0 .. Len(buffered) :
       \/ files' = Stored(SubSeq(buffered, 1, n))
       \/ /\ n > 0
          /\ files' = Stored(Append(SubSeq(buffered, 1, n - 1), Torn(buffered[n].info)))
  /\ buffered' = <<>> /\ open' = NoFile
  /\ UNCHANGED <<now, size, rotated, seq, starts, due>>

Tick ==
  /\ now < MaxTime /\ now' = now + 1
  /\ UNCHANGED <<up, writer, seq, starts, due, killed>>

Next == Trace \/ Start \/ Stop \/ Kill \/ Tick

Spec == Init /\ [][Next]_vars

-----------------------------------------------------------------------------
(* Properties.                                                              *)

\* Lines of all files in the order of their names; and those on their way.
StoredLines == FlattenSeq([i \in 1 .. MaxTime + 1 |-> files[i - 1]])
AllLines == StoredLines \o buffered

\* Lines are of records that were traced; no file is ahead of the clock, none
\* is open while the service is down, and an open one is within its limit.
TypeOK ==
  /\ now \in Times /\ up \in BOOLEAN /\ killed \in BOOLEAN
  /\ \A t \in Times : t > now => files[t] = <<>>
  /\ open \in 0 .. now \cup {NoFile} /\ (~up => open = NoFile)
  /\ open # NoFile => size <= SizeLimit /\ rotated = open
  /\ open = NoFile => buffered = <<>>
  /\ seq \in 0 .. MaxTraced /\ starts \in 0 .. MaxStarts

\* What a record has become in the log is what was traced: a record that was
\* cut in the buffer of RecvFrom is left out, never logged in part.
NothingInvented == \A i \in DOMAIN AllLines : AllLines[i].info \in Infos

\* Unless the service is killed, the files hold every record it received whole
\* while a file was open, once and in order, whatever was rotated when.
Complete == ~killed => AllLines = [i \in DOMAIN due |-> Whole(due[i])]

\* A FATAL record that was received is in a file, and stays there: as often as
\* it came, killed or not.
Count(lines, line) == Cardinality({i \in DOMAIN lines : lines[i] = line})

FatalIsStored ==
  \A info \in Infos :
    info.level = FATAL => Count(due, info) = Count(StoredLines, Whole(info))
=============================================================================
