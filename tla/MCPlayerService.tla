-------------------------- MODULE MCPlayerService --------------------------
(* An instance of PlayerService for TLC: requests that differ in everything *)
(* the parsers and the handlers look at.                                    *)
EXTENDS PlayerService

Table == [ann |-> "pw", nul |-> NoPassword]

Req(method, path, params, body) ==
  [method |-> method, path |-> path, params |-> params, body |-> body]

\* Parameters of a login, one of them twice or missing for some.
LoginAt(time, user, sign) ==
  <<<<"user", user>>, <<"time", time>>, <<"salt", "s">>, <<"sign", sign>>>>

Login(user, sign) == LoginAt("t", user, sign)

First ==
  {Req("GET", "/health", <<<<"user", "ann">>>>, <<"x">>),
   Req("POST", "/api/login", Login("ann", "md5"), <<"x">>),
   Req("GET", "/login", Login("ann", "md5") \o <<<<"sign", "bad">>>>, <<>>),
   Req("GET", "/login", Login("nul", "md5"), <<>>),
   Req("PUT", "/login", SubSeq(Login("ann", "md5"), 2, 4), <<"x">>),
   Req("POST", "/register", <<<<"user", "bob">>, <<"password", "pw">>>>, <<>>),
   Req("GET", "/login", LoginAt("latin1", "ann", "md5"), <<>>),
   Req("GET", "/login", Login("o'brien", "md5"), <<>>),
   Req("GET", "/other", <<>>, <<"x">>),
   Req("GET", "/latin1", <<>>, <<>>)}

\* What is written next begins with what a request begins with.
MCSessions ==
  {<<r, Req("GET", "/health", <<>>, <<>>)>> : r \in First}
    \cup {<<r, Req("POST", "/api/login", Login("ann", "md5"), <<"x">>)>>
            : r \in {q \in First : q.body # <<>>}}
=============================================================================
