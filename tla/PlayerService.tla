--------------------------- MODULE PlayerService ---------------------------
(***************************************************************************)
(* CEdoyunPlayerServer (business/EdoyunPlayerServer.cpp) behind one        *)
(* connection.  A peer writes well-formed requests into a stream; TCP does *)
(* not keep their boundaries, so one Recv of the server returns any part   *)
(* of what has been written and not been read; Received parses that part   *)
(* alone, with a parser of its own, and sends one response if it can.      *)
(***************************************************************************)
EXTENDS HttpParser

CONSTANTS
  Sessions,    \* sequences of requests (as structures) a peer may write
  Users,       \* the users table: a function to passwords, or to NoPassword
  NotUtf8,     \* words that are not valid UTF-8
  Quoted,      \* words with an apostrophe in them: O'Brien
  Escapes      \* what m_db is: CMysqlClient escapes texts, CSqlite3Client does not

\* A column that is not a string.
NoPassword == "NULL"

\* No row: an empty result and an error of Exec get the same answer.
NoUser == "no row"

\* How the database takes a query: NoUser if it does not answer, otherwise what it
\* selects if the query is not the one that was meant.  "pw" is the password that
\* is known to who signs logins, "other" stands for any other text.
Db == {NoUser, NoPassword, "pw", "other"}

\* What a request is made of: words are not empty and have no separators in them,
\* and nobody sends a digest that has not been computed.
Word == STRING \ {"", CRLF, SP, "?", "&", "=", ":", "other"}

Request ==
  [method : Methods, path : Word, params : Seq(Word \X Word),
   body : {text \in Seq(STRING) : Len(text) < Len(Digits)}]

Routes == {"/login", "/api/login", "/register", "/api/register", "/health", "/api/health"}

ASSUME PlayerServiceAssumption ==
  /\ Sessions \subseteq Seq(Request)
  /\ NotUtf8 \cap Routes = {}
  /\ Escapes \in BOOLEAN

VARIABLES
  sent,     \* requests written so far
  received, \* number of symbols the server has read
  answer    \* the last Recv, as positions in the stream, and its response

vars == <<sent, received, answer>>

-----------------------------------------------------------------------------
(* The peer.                                                                *)

\* k1=v1&k2=v2...
RenderParams(params) ==
  FlattenSeq([i \in DOMAIN params |->
    (IF i = 1 THEN <<"?">> ELSE <<"&">>) \o <<params[i][1], "=", params[i][2]>>])

\* A body is at most nine symbols long: one digit.
Render(r) ==
  <<r.method, SP, r.path>> \o RenderParams(r.params) \o <<SP, "HTTP/1.1", CRLF>>
    \o <<"Host", ":", "h", CRLF>>
    \o (IF r.body = <<>> THEN <<>>
        ELSE <<"Content-Length", ":", SP, Digits[Len(r.body) + 1], CRLF>>)
    \o <<CRLF>> \o r.body

Stream == FlattenSeq([i \in DOMAIN sent |-> Render(sent[i])])

NoAnswer == [from |-> 0, to |-> 0, db |-> NoUser, status |-> 0]

Init ==
  /\ sent = <<>> /\ received = 0
  /\ answer = NoAnswer

\* Peers need not wait for the response to the previous request.
PeerSend ==
  /\ \E session \in Sessions :
       /\ IsStrictPrefix(sent, session)
       /\ sent' = SubSeq(session, 1, Len(sent) + 1)
  /\ UNCHANGED <<received, answer>>

-----------------------------------------------------------------------------
(* The handlers: the status of the response each of them sends.             *)

NoResponse == 0

\* json::dump throws if the text is not UTF-8.  The exception leaves Received
\* before Send and ends in the packaged_task of the pool.
MakeResponse(status, text) ==
  IF \E i \in DOMAIN text : text[i] \in NotUtf8 THEN NoResponse ELSE status

\* The names somebody signs logins with.
Signers == {"ann"} \cup Quoted

\* The digests somebody has computed: of that password, with a time and a salt.
MD5(text) ==
  IF \E name \in Signers, time \in {"t"} \cup NotUtf8 : text = <<name, time, "pw", "s">>
    THEN "md5" ELSE "other"

\* The password column of the first row.  The name is pasted between apostrophes;
\* one with an apostrophe in it, unless it is escaped, makes another query, of
\* which nothing is said here.
Selected(name, db) ==
  IF db = NoUser \/ (name \in Quoted /\ ~Escapes) THEN db
  ELSE IF name \in DOMAIN Users THEN Users[name] ELSE NoUser

HandleLogin(url, db) ==
  LET user == UrlParam(url, <<"user">>)
      time == UrlParam(url, <<"time">>)
      salt == UrlParam(url, <<"salt">>)
      sign == UrlParam(url, <<"sign">>)
      password == Selected(Head(user), db)
  IN  IF <<>> \in {user, time, salt, sign} THEN 400
      ELSE IF password = NoUser THEN 404
      ELSE IF password = NoPassword THEN 500
      ELSE IF <<MD5(user \o time \o <<password>> \o salt)>> # sign THEN 403
      ELSE MakeResponse(200, user \o time)

HandleRegister(url) ==
  IF <<>> \in {UrlParam(url, <<"user">>), UrlParam(url, <<"password">>)} THEN 400 ELSE 501

HandleNotFound(path) == MakeResponse(404, path)

\* Fault: the whole URL is compared, query included.
RouteByUrl(url, db) ==
  IF url \in {<<"/login">>, <<"/api/login">>} THEN HandleLogin(url, db)
  ELSE IF url \in {<<"/register">>, <<"/api/register">>} THEN HandleRegister(url)
  ELSE IF url \in {<<"/health">>, <<"/api/health">>} THEN 200
  ELSE HandleNotFound(Path(url))

\* HandleHealth is 200.
Route(url, db) ==
  IF Path(url) \in {<<"/login">>, <<"/api/login">>} THEN HandleLogin(url, db)
  ELSE IF Path(url) \in {<<"/register">>, <<"/api/register">>} THEN HandleRegister(url)
  ELSE IF Path(url) \in {<<"/health">>, <<"/api/health">>} THEN 200
  ELSE HandleNotFound(Path(url))

\* Whatever follows the first request is dropped.
Received(data, db) ==
  LET parsed == Parser(data) IN IF parsed.ok THEN Route(parsed.url, db) ELSE 400

\* The query of a login goes as the database will have it.
RecvAndAnswer ==
  \E to \in received + 1 .. Len(Stream), db \in Db :
    /\ received' = to
    /\ answer' = [from |-> received + 1, to |-> to, db |-> db,
                  status |-> Received(SubSeq(Stream, received + 1, to), db)]
    /\ UNCHANGED sent

Next == PeerSend \/ RecvAndAnswer

Spec == Init /\ [][Next]_vars

-----------------------------------------------------------------------------
(* Properties.                                                              *)

\* Where the requests begin in the stream.
StartOf(i) == 1 + Len(FlattenSeq([j \in 1 .. i - 1 |-> Render(sent[j])]))
EndOf(i) == StartOf(i) + Len(Render(sent[i])) - 1

\* What the last Recv returned.
Part == SubSeq(Stream, answer.from, answer.to)

\* What a request asks for, read off its structure.
Given(r, key) == \E i \in DOMAIN r.params : r.params[i][1] = key
Value(r, key) == r.params[Max({i \in DOMAIN r.params : r.params[i][1] = key})][2]

LoginKeys == {"user", "time", "salt", "sign"}

IsHealth(r) == r.path \in {"/health", "/api/health"}

IsLogin(r) == r.path \in {"/login", "/api/login"}

IsGoodLogin(r) ==
  /\ IsLogin(r)
  /\ \A key \in LoginKeys : Given(r, key)
  /\ Value(r, "user") \in Signers \cap DOMAIN Users /\ Users[Value(r, "user")] = "pw"
  /\ Value(r, "salt") = "s" /\ Value(r, "sign") = "md5"
  /\ Value(r, "time") \in {"t"} \cup NotUtf8

\* A login under a name that reaches the database as it is meant.
IsLookedUp(r) ==
  IsLogin(r) /\ Given(r, "user") => Escapes \/ Value(r, "user") \notin Quoted

\* A request received in one piece is parsed into what the peer meant by it,
\* whatever has been received after it in the same Recv.
WholeIsParsed ==
  \A i \in DOMAIN sent :
    answer.from = StartOf(i) /\ answer.to >= EndOf(i) =>
      LET parsed == Parser(Part) IN
        /\ parsed.ok
        /\ parsed.method = sent[i].method /\ Path(parsed.url) = <<sent[i].path>>
        /\ parsed.body = sent[i].body
        /\ parsed.consumed = Len(Render(sent[i]))

\* A request received in part is never taken for a whole one.
PartIsRefused ==
  \A i \in DOMAIN sent :
    answer.from = StartOf(i) /\ answer.to < EndOf(i) => answer.status = 400

\* A request received in one piece succeeds exactly if it asks for the health
\* of the server, or logs a known user in with the right signature while the
\* database answers.  It gets no response at all only if the response would
\* repeat what is not UTF-8: the name or the time of a login that has succeeded,
\* or a path nobody serves (EdoyunPlayerServer.cpp:198).  A login under a name
\* with an apostrophe in it is excepted where m_db does not escape it (SQLite):
\* that one is not promised anything.
AnswerIsEarned ==
  \A i \in DOMAIN sent :
    answer.from = StartOf(i) /\ answer.to >= EndOf(i) /\ IsLookedUp(sent[i]) =>
      LET r      == sent[i]
          earned == IsHealth(r) \/ (answer.db # NoUser /\ IsGoodLogin(r))
          silent == \/ r.path \in NotUtf8
                    \/ /\ ~IsHealth(r) /\ earned
                       /\ Value(r, "user") \in NotUtf8 \/ Value(r, "time") \in NotUtf8
      IN  /\ answer.status = 200 <=> earned /\ ~silent
          /\ answer.status = NoResponse <=> silent
=============================================================================
