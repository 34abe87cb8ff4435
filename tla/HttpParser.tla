----------------------------- MODULE HttpParser -----------------------------
(***************************************************************************)
(* CHttpParser (http/CHttpParser.cpp) on a fresh object, as the server     *)
(* always uses it, and UrlParser (http/UrlParser.cpp), as operators on     *)
(* texts.  A text is a sequence of symbols: the separators the parsers     *)
(* look for, digits, and words none of them takes apart, each of length 1. *)
(***************************************************************************)
EXTENDS Naturals, Sequences, FiniteSetsExt, SequencesExt

CONSTANT SizeT   \* values of size_t: 2^64

ASSUME HttpParserAssumption == SizeT \in Nat /\ SizeT > 9

CRLF == "\r\n"
SP == " "
Methods == {"GET", "POST", "PUT", "DELETE", "HEAD", "OPTIONS"}
Digits == <<"0", "1", "2", "3", "4", "5", "6", "7", "8", "9">>

\* find: the first position of a symbol from a position on, or 0 for npos.
Find(text, symbol, from) ==
  LET hits == {i \in from .. Len(text) : text[i] = symbol}
  IN  IF hits = {} THEN 0 ELSE Min(hits)

Err == [ok |-> FALSE]

-----------------------------------------------------------------------------
(* CHttpParser.                                                             *)

\* Everything up to the first space is the method, known or not; the URL
\* ends at the second, and the rest of the line is the version.
ParseRequestLine(data) ==
  LET eol    == Find(data, CRLF, 1)
      line   == SubSeq(data, 1, eol - 1)
      first  == Find(line, SP, 1)
      second == Find(line, SP, first + 1)
      word   == SubSeq(line, 1, first - 1)
  IN  IF 0 \in {eol, first, second} THEN Err
      ELSE [ok      |-> TRUE,
            method  |-> IF \E m \in Methods : word = <<m>> THEN Head(word) ELSE "UNKNOWN",
            url     |-> SubSeq(line, first + 1, second - 1),
            version |-> SubSeq(line, second + 1, Len(line)),
            next    |-> eol + 1]

\* White space off both ends.
Trim(text) ==
  LET solid == {i \in DOMAIN text : text[i] # SP}
  IN  IF solid = {} THEN <<>> ELSE SubSeq(text, Min(solid), Max(solid))

\* Lines up to the first empty one, each with a colon; of two lines with the
\* same key the later one counts.
ParseHeaders(data, from) ==
  LET begins(i) == i = from \/ data[i - 1] = CRLF
      blank     == {i \in from .. Len(data) : data[i] = CRLF /\ begins(i)}
      lines     == {i \in from .. Min(blank) - 1 : begins(i)}
      line(i)   == SubSeq(data, i, Find(data, CRLF, i) - 1)
      colon(i)  == Find(line(i), ":", 1)
      key(i)    == SubSeq(line(i), 1, colon(i) - 1)
      value(i)  == Trim(SubSeq(line(i), colon(i) + 1, Len(line(i))))
  IN  IF blank = {} \/ \E i \in lines : colon(i) = 0 THEN Err
      ELSE [ok      |-> TRUE,
            headers |-> [k \in {key(i) : i \in lines} |-> value(Max({i \in lines : key(i) = k}))],
            next    |-> Min(blank) + 1]

Header(headers, key) == IF key \in DOMAIN headers THEN headers[key] ELSE <<>>

IsNumber(text) == \A i \in DOMAIN text : \E d \in DOMAIN Digits : Digits[d] = text[i]

\* The accumulation in size_t, without a test for overflow.
Number(text) ==
  LET digit(i) == (CHOOSE d \in DOMAIN Digits : Digits[d] = text[i]) - 1
      value[i \in 0 .. Len(text)] ==
        IF i = 0 THEN 0 ELSE (value[i - 1] * 10 + digit(i)) % SizeT
  IN  value[Len(text)]

\* Fault: the body is whatever follows the headers.
ParseBodyToEnd(data, from, declared) ==
  IF ~IsNumber(declared) \/ from - 1 + Number(declared) > Len(data) THEN Err
  ELSE [ok |-> TRUE, body |-> SubSeq(data, from, Len(data)), next |-> Len(data) + 1]

\* Fault: a body that has not arrived yet is cut instead of refused.
ParseBodyCut(data, from, declared) ==
  IF ~IsNumber(declared) THEN Err
  ELSE [ok   |-> TRUE,
        body |-> SubSeq(data, from, Min({Len(data), from - 1 + Number(declared)})),
        next |-> from + Number(declared)]

ParseBody(data, from, declared) ==
  IF ~IsNumber(declared) \/ Len(data) - (from - 1) < Number(declared) THEN Err
  ELSE [ok   |-> TRUE,
        body |-> SubSeq(data, from, from - 1 + Number(declared)),
        next |-> from + Number(declared)]

\* The states RequestLine, Headers, Body and Complete in turn; any error ends
\* the parse.  Without a Content-Length, or with an empty one, there is no body.
Parser(data) ==
  LET request  == ParseRequestLine(data)
      head     == ParseHeaders(data, request.next)
      declared == Header(head.headers, <<"Content-Length">>)
      rest     == IF declared = <<>>
                    THEN [ok |-> TRUE, body |-> <<>>, next |-> head.next]
                    ELSE ParseBody(data, head.next, declared)
  IN  IF ~request.ok THEN Err
      ELSE IF ~head.ok THEN Err
      ELSE IF ~rest.ok THEN Err
      ELSE [ok       |-> TRUE,
            method   |-> request.method,
            url      |-> request.url,
            version  |-> request.version,
            headers  |-> head.headers,
            body     |-> rest.body,
            consumed |-> rest.next - 1]

-----------------------------------------------------------------------------
(* UrlParser.                                                               *)

Path(url) ==
  LET mark == Find(url, "?", 1)
  IN  IF mark = 0 THEN url ELSE SubSeq(url, 1, mark - 1)

Query(url) ==
  LET mark == Find(url, "?", 1)
  IN  IF mark = 0 THEN <<>> ELSE SubSeq(url, mark + 1, Len(url))

\* The parameters between ampersands; one without "=" is skipped, and of two
\* with the same key the later one counts.
ParseQuery(url) ==
  LET query     == Query(url)
      begins(i) == i = 1 \/ query[i - 1] = "&"
      stop(i)   == LET amp == Find(query, "&", i) IN IF amp = 0 THEN Len(query) + 1 ELSE amp
      param(i)  == SubSeq(query, i, stop(i) - 1)
      eq(i)     == Find(param(i), "=", 1)
      params    == {i \in DOMAIN query : begins(i) /\ eq(i) # 0}
      key(i)    == SubSeq(param(i), 1, eq(i) - 1)
      value(i)  == SubSeq(param(i), eq(i) + 1, Len(param(i)))
  IN  [k \in {key(i) : i \in params} |-> value(Max({i \in params : key(i) = k}))]

\* operator[]: a missing parameter reads like an empty one.
UrlParam(url, key) == Header(ParseQuery(url), key)
=============================================================================
