---------------------------- MODULE MCLogWriter ----------------------------
(* An instance of LogWriter for TLC: bytes of six values, and a buffer that *)
(* holds all of the records but the last.                                   *)
EXTENDS LogWriter

Info(level, content, dump) ==
  [level |-> level, timestamp |-> 1, file |-> <<3>>, line |-> 7, function |-> <<>>,
   content |-> content, dump |-> dump]

Fits == Info(0, <<5>>, <<>>)
Fatal == Info(FATAL, <<5>>, <<>>)
Dumped == Info(1, <<>>, <<<<0, 1>>>>)
TooLong == Info(3, <<5, 1>>, <<<<0, 1>>>>)

MCInfos == {Fits, Fatal, Dumped, TooLong}

MCRoom == Len(Serialize(Dumped)) + 4
=============================================================================
