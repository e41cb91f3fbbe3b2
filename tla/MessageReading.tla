---------------------------- MODULE MessageReading ----------------------------
(***************************************************************************)
(* The parsers at work.  SingleHostServer::readClientRequest               *)
(* (singlehostserver.cpp) receives a request in as many pieces as the      *)
(* network makes of it and, after each, passes everything received so far  *)
(* to the same parser, whose state is that of the last call.  A response,  *)
(* a URL and the value of a Host header are parsed in one call.            *)
(*                                                                         *)
(* A message is a record: its kind, the symbols of its text, and what its  *)
(* writer meant by it, which the properties compare with what is read.  A  *)
(* request or a response has an outcome and an extent, too: what parse has *)
(* to return, and how many symbols belong to the message for the parser.   *)
(* That is all of them, except for the LF of a request line without a      *)
(* version, which is complete with its CR, and for the body of a request   *)
(* that is neither a POST nor a PUT.                                       *)
(***************************************************************************)
EXTENDS Integers, Sequences

CONSTANTS Messages,   \* the messages that are sent
          MaxRecv     \* bound: the number of calls of recv

VARIABLES message,    \* the message of this behaviour
          received,   \* how many of its symbols have been received
          gone,       \* the client has closed its side
          at,         \* where in the data the parser is
          parser,     \* the parser, its message and its result
          reads,      \* calls of recv so far
          pc          \* "recv", "parse", "done"

vars == <<message, received, gone, at, parser, reads, pc>>

Requests  == INSTANCE HttpRequestParser
Responses == INSTANCE HttpResponseParser
Urls      == INSTANCE UrlParser

-----------------------------------------------------------------------------
(* What a client writes when it writes a GET.                              *)

Space == " "

\* The URI ends at the first space or CR behind its first byte.
UriEnds(t, u) ==
    /\ u \in 4..Len(t)
    /\ t[u] \in {Space, "CR"}
    /\ \A i \in 3..(u - 1) : t[i] \notin Requests!Controls
    /\ \A i \in 4..(u - 1) : t[i] # Space

EmptyLineEnds(t, k) ==
    /\ k \in 4..Len(t)
    /\ t[k - 3] = "CR" /\ t[k - 2] = "LF"
    /\ t[k - 1] = "CR" /\ t[k] = "LF"

\* Its writer means the URI that the text has, which does not read like a
\* version, and what it writes extends to the empty line, or, without a
\* version, to the CR behind the URI.
WritesOneGet(m) ==
    LET t == m.text
    IN  /\ ~(Len(t) > 6 /\ t[3] = "H" /\ t[4] = "T" /\ t[5] = "T" /\ t[6] = "P"
                 /\ t[7] = "/")
        /\ \A u \in 4..Len(t) : UriEnds(t, u) =>
              /\ m.meaning.uri = SubSeq(t, 3, u - 1)
              /\ t[u] = "CR" => u = m.extent
        /\ m.extent \in 0..Len(t)
        /\ \A k \in 4..Len(t) : EmptyLineEnds(t, k) => k >= m.extent

ASSUME MessagesAssumption ==
    \A m \in Messages : m.kind = "request" =>
        /\ m.text \in Seq(Requests!Symbols)
        /\ (Len(m.text) > 1 /\ m.text[1] = "GET" /\ m.text[2] = Space)
              => WritesOneGet(m)

-----------------------------------------------------------------------------
(* What is written as a URL and as the value of a Host header.             *)

Alnum      == Urls!AlphaWords \cup Urls!Digits
Unreserved == Alnum \cup {".", "-"}
PathBytes  == Urls!Symbols \ {"?", "#"}

\* A part that is not there has no mark either.
Marked(mark, part) == IF part = <<>> THEN <<>> ELSE <<mark>> \o part

\* user[:password]@
UserText(u) ==
    IF u.username = <<>> THEN <<>>
    ELSE u.username \o Marked(":", u.password) \o <<"@">>

\* scheme://[user[:password]@]host[:port][/path[?query][#fragment]]
UrlText(u) ==
    u.scheme \o <<":", "/", "/">> \o UserText(u) \o u.hostname \o Marked(":", u.port)
        \o u.path \o Marked("?", u.query) \o Marked("#", u.fragment)

\* 0 stands for "no port".
PortNumber(digits) == IF digits = <<>> THEN 0 ELSE Urls!NumberOf(digits, 10)

\* A host between "[" and "]", and a password of digits only.
Bracketed(host)   == host # <<>> /\ host[1] = "["
Numeric(password) == password # <<>> /\ \A i \in DOMAIN password : password[i] \in Urls!Digits

\* What the parts may be; a port fits 16 bits.
UrlParts(u) ==
    /\ u \in [scheme : Seq(Unreserved), username : Seq(Unreserved),
              password : Seq(Alnum), hostname : Seq(Urls!Symbols),
              port : Seq(Urls!Digits), path : Seq(PathBytes),
              query : Seq(PathBytes), fragment : Seq(Urls!Symbols)]
    /\ u.username = <<>> => u.password = <<>>
    /\ u.hostname \in Seq(Unreserved) \/ (Bracketed(u.hostname) /\ Len(u.hostname) > 1)
    /\ PortNumber(u.port) \in 0..(Urls!PortValues - 1)
    /\ u.path # <<>> => u.path[1] = "/"

\* The program aborts with digits left that are neither a port nor the start of
\* a password, because they are all of the password or because no "/" is behind
\* the port, and within a host in brackets behind a user.
UrlAborts(u) ==
    \/ Numeric(u.password)
    \/ u.username # <<>> /\ Bracketed(u.hostname)
    \/ ~Bracketed(u.hostname) /\ u.port # <<>> /\ u.path = <<>>

\* A host in brackets is refused without a user, and so is what is behind a
\* host without a path.
UrlIsRefused(u) ==
    \/ Bracketed(u.hostname)
    \/ u.path = <<>> /\ (u.query # <<>> \/ u.fragment # <<>>)

UrlMeaning(u) ==
    CASE UrlAborts(u) -> [result |-> "aborted"]
      [] ~UrlAborts(u) /\ UrlIsRefused(u) -> [result |-> "invalid"]
      [] OTHER ->
            [result |-> "valid", scheme |-> u.scheme, username |-> u.username,
             password |-> u.password, hostname |-> u.hostname, port |-> u.port,
             path |-> IF u.path = <<>> THEN <<"/">> ELSE u.path,
             query |-> u.query, fragment |-> u.fragment,
             integerPort |-> PortNumber(u.port)]

WritesUrl(m) ==
    /\ UrlParts(m.parts)
    /\ m.text = UrlText(m.parts)
    /\ m.meaning = UrlMeaning(m.parts)
    /\ m.httpPort = CASE m.parts.port # <<>> -> PortNumber(m.parts.port)
                      [] m.parts.port = <<>> /\ m.parts.scheme = <<"https">> -> 443
                      [] OTHER -> 80

\* The host, and the digits of the port behind a ":", if there are any; what
\* ends in a ":" and digits is not written without a port.
WritesHost(m) ==
    LET h == m.meaning.host
    IN  /\ m.meaning = [host |-> h, port |-> PortNumber(m.digits)]
        /\ h \in Seq(Urls!Symbols)
        /\ m.digits \in Seq(Urls!Digits)
        /\ m.text = h \o Marked(":", m.digits)
        /\ m.digits = <<>> =>
              \E k \in 1..Len(h) :
                  /\ h[k] \notin Urls!Digits
                  /\ \A i \in (k + 1)..Len(h) : h[i] \in Urls!Digits
                  /\ h[k] = ":" => k = Len(h)

\* Every address but a string that is no URL and has no parts.
ASSUME AddressesAssumption ==
    \A m \in Messages :
        /\ m.kind = "url" /\ "parts" \in DOMAIN m => WritesUrl(m)
        /\ m.kind = "host" => WritesHost(m)

-----------------------------------------------------------------------------
Length == Len(message.text)

Init ==
    /\ message \in Messages
    /\ received = 0
    /\ gone = FALSE
    /\ at = 0
    /\ reads = 0
    /\ pc = "recv"
    /\ parser = CASE message.kind = "request"  -> Requests!NewRequestParser
                  [] message.kind = "response" -> Responses!NewResponseParser
                  [] message.kind = "url"      -> Urls!NewUrl
                  [] message.kind = "host"     -> [result |-> "unread"]

\* The client closes its connection, with or without the rest of the request.
ClientCloses ==
    /\ message.kind = "request"
    /\ pc = "recv"
    /\ ~gone
    /\ gone' = TRUE
    /\ UNCHANGED <<message, received, at, parser, reads, pc>>

\* recv returns what has come, or 0 once the client is gone; the data is
\* parsed again from its first byte.
RecvRequest ==
    /\ message.kind = "request"
    /\ pc = "recv"
    /\ reads < MaxRecv
    /\ \E n \in received..Length :
          /\ (n = received) <=> gone
          /\ received' = n
    /\ reads' = reads + 1
    /\ at' = 0
    /\ pc' = "parse"
    /\ UNCHANGED <<message, gone, parser>>

\* The callers of the other parsers have the whole text.
PassText ==
    /\ message.kind \in {"response", "url"}
    /\ pc = "recv"
    /\ received' = Length
    /\ pc' = "parse"
    /\ UNCHANGED <<message, gone, at, parser, reads>>

SplitHost ==
    /\ message.kind = "host"
    /\ pc = "recv"
    /\ parser' = Urls!splitHostAndPort(message.text)
    /\ pc' = "done"
    /\ UNCHANGED <<message, received, gone, at, reads>>

\* One byte; a result other than ParsingIncompleted ends the call.
ParseHttp ==
    /\ pc = "parse"
    /\ message.kind \in {"request", "response"}
    /\ at < received
    /\ at' = at + 1
    /\ parser' = IF message.kind = "request"
                 THEN Requests!RequestStep(parser, message.text[at + 1])
                 ELSE Responses!ResponseStep(parser, message.text[at + 1])
    /\ pc' = IF parser'.result = "ParsingIncompleted" THEN "parse" ELSE "done"
    /\ UNCHANGED <<message, received, gone, reads>>

\* An incomplete request is waited for.
ParseEnds ==
    /\ pc = "parse"
    /\ message.kind \in {"request", "response"}
    /\ at = received
    /\ pc' = IF message.kind = "request" THEN "recv" ELSE "done"
    /\ UNCHANGED <<message, received, gone, at, parser, reads>>

ParseUrl ==
    /\ pc = "parse"
    /\ message.kind = "url"
    /\ IF at < received /\ parser.result = "valid"
       THEN /\ at' = at + 1
            /\ parser' = Urls!UrlStep(parser, message.text[at + 1])
            /\ pc' = pc
       ELSE /\ at' = at
            /\ parser' = Urls!UrlEnd(parser)
            /\ pc' = "done"
    /\ UNCHANGED <<message, received, gone, reads>>

Next ==
    \/ ClientCloses
    \/ RecvRequest
    \/ PassText
    \/ SplitHost
    \/ ParseHttp
    \/ ParseEnds
    \/ ParseUrl

Spec == Init /\ [][Next]_vars

-----------------------------------------------------------------------------
\* What the parser has made of a request or of a response.
Understood ==
    LET m == message.meaning
    IN  /\ parser.result = "ParsingCompleted"
        /\ at = message.extent
        /\ \A f \in DOMAIN m : parser[f] = m[f]

\* A request that comes in one piece is read to the last byte of its extent,
\* neither less nor more, and its fields, headers, body and keep-alive flag are
\* those the client wrote (HttpRequestParser::consume).  One with a byte that
\* may not be in its head is refused, wherever in the head it is, except in the
\* place of the head's last LF, which is not looked at before a body.  Only a
\* body of impossible size terminates the program.
RequestUnderstood ==
    (message.kind = "request" /\ pc = "done" /\ reads = 1)
        => IF message.outcome = "ParsingCompleted" THEN Understood
           ELSE parser.result = message.outcome

\* However a request is cut into pieces, what the server takes for a GET,
\* and uses whole as the key of the cache and as its request to the origin
\* server, has all of the request line and the headers that the client sent
\* (without a version: the line up to its CR), and its URI is the client's
\* (readClientRequest passes the first pieces to the parser again).
GetIsReadWhole ==
    (message.kind = "request" /\ parser.result = "ParsingCompleted"
        /\ parser.method = <<"GET">>)
        => received >= message.extent /\ parser.uri = message.meaning.uri

\* A response is read to its last byte with the fields that the server wrote
\* (HttpResponseParser::consume), and one whose status code is not between 100
\* and 999, or whose body is not complete, never is.  (The proxy passes no
\* response to this parser, which comes with the request's.)
ResponseUnderstood ==
    (message.kind = "response" /\ pc = "done")
        => IF message.outcome = "ParsingCompleted" THEN Understood
           ELSE parser.result = message.outcome

\* Every part of a URL is found: the name before a ":" is the user's or the
\* host's, and the digits after it are a port or begin a password, as what
\* follows decides (UrlParser::parse_), and without a port it is that of the
\* scheme (httpPort).  The program aborts for the URLs of UrlAborts and for no
\* other, and the rest is refused.  And a Host value is split at the ":" of its
\* port (splitHostAndPort).
AddressUnderstood ==
    (message.kind \in {"url", "host"} /\ pc = "done")
        => /\ \A f \in DOMAIN message.meaning : parser[f] = message.meaning[f]
           /\ (parser.result = "valid") => Urls!httpPort(parser) = message.httpPort
=============================================================================
