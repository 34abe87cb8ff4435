------------------------------- MODULE LogInfo -------------------------------
(***************************************************************************)
(* The wire format of a log record (logger/LogInfo.cpp) as operators on    *)
(* sequences of bytes.  Offsets are size_t and the lengths at most 4 bytes *)
(* wide: their sum does not overflow.                                      *)
(***************************************************************************)
EXTENDS Naturals, Sequences

CONSTANT Base   \* values of a byte: 256

ASSUME LogInfoAssumption == Base \in Nat \ {0, 1}

Byte == 0 .. Base - 1

\* The values of n bytes.
Shift[n \in Nat] == IF n = 0 THEN 1 ELSE Shift[n - 1] * Base

\* Big-endian, the low bytes of a value that is too large.
WriteVal(val, width) == [i \in 1 .. width |-> (val \div Shift[width - i]) % Base]

WriteStr(str) == WriteVal(Len(str), 4) \o str

\* Reads return whether they succeeded, the value, and the offset behind it.
Short == [ok |-> FALSE, val |-> 0, at |-> 0]

ReadVal(data, at, width) ==
  LET uval[i \in 0 .. width] == IF i = 0 THEN 0 ELSE uval[i - 1] * Base + data[at + i]
  IN  IF at + width > Len(data) THEN Short
      ELSE [ok |-> TRUE, val |-> uval[width], at |-> at + width]

\* Fault: substr alone, which stops at the end of the data.
ReadStrClamped(data, at) ==
  LET len == ReadVal(data, at, 4)
      end == IF len.at + len.val > Len(data) THEN Len(data) ELSE len.at + len.val
  IN  IF ~len.ok THEN Short
      ELSE [ok |-> TRUE, val |-> SubSeq(data, len.at + 1, end), at |-> end]

ReadStr(data, at) ==
  LET len == ReadVal(data, at, 4)
  IN  IF ~len.ok \/ len.at + len.val > Len(data) THEN Short
      ELSE [ok  |-> TRUE,
            val |-> SubSeq(data, len.at + 1, len.at + len.val),
            at  |-> len.at + len.val]

\* Records whose fields have their C++ types; a dump is a sequence of at most
\* one text.
Text == {s \in Seq(Byte) : Len(s) < Shift[4]}

Record ==
  [level : Byte, timestamp : 0 .. Shift[8] - 1, file : Text, line : 0 .. Shift[4] - 1,
   function : Text, content : Text, dump : {d \in Seq(Text) : Len(d) <= 1}]

Serialize(info) ==
  WriteVal(info.level, 1) \o WriteVal(info.timestamp, 8)
    \o WriteStr(info.file) \o WriteVal(info.line, 4)
    \o WriteStr(info.function) \o WriteStr(info.content)
    \o (IF info.dump = <<>> THEN <<0>> ELSE <<1>> \o WriteStr(Head(info.dump)))

\* The first read that fails ends it.
Deserialize(data) ==
  LET level     == ReadVal(data, 0, 1)
      timestamp == ReadVal(data, level.at, 8)
      file      == ReadStr(data, timestamp.at)
      line      == ReadVal(data, file.at, 4)
      function  == ReadStr(data, line.at)
      content   == ReadStr(data, function.at)
      hasDump   == ReadVal(data, content.at, 1)
      dump      == ReadStr(data, hasDump.at)
      head      == <<level, timestamp, file, line, function, content, hasDump>>
  IN  IF (\E i \in DOMAIN head : ~head[i].ok) \/ (hasDump.val # 0 /\ ~dump.ok)
        THEN [ok |-> FALSE]
        ELSE [ok   |-> TRUE,
              info |-> [level    |-> level.val,    timestamp |-> timestamp.val,
                        file     |-> file.val,     line      |-> line.val,
                        function |-> function.val, content   |-> content.val,
                        dump     |-> IF hasDump.val = 0 THEN <<>> ELSE <<dump.val>>]]
=============================================================================
