------------------------------ MODULE MCParsers ------------------------------
(***************************************************************************)
(* The messages of the run: what a writer means, and the text it writes    *)
(* for it by the grammar of HTTP/1.1 and of URLs.                          *)
(***************************************************************************)
EXTENDS MessageReading, SequencesExt, FiniteSetsExt

CRLF == <<"CR", "LF">>
Sp == <<" ">>

NoText == <<>>

\* A header with a second line has its value in two parts.
Header(name, value) == [name |-> name, value |-> value, more |-> NoText]

HeaderText(h) ==
    h.name \o <<":", " ">> \o h.value
        \o (IF h.more = NoText THEN NoText ELSE CRLF \o Sp \o h.more) \o CRLF

VersionText(v) == <<"H", "T", "T", "P", "/">> \o v

Number(n) == CASE n = 0 -> <<"0">> [] n = 1 -> <<"1">> [] n = 2 -> <<"2">>

Host == Header(<<"Host">>, <<"word", ".", "word">>)
Connections == {Header(<<"Connection">>, <<"Keep-Alive">>),
                Header(<<"Connection">>, <<"Close">>)}
Folded == [name |-> <<"word">>, value |-> <<"word">>, more |-> <<"high", " ", "word">>]

HeaderLists == {<<>>, <<Host>>, <<Folded, Host>>} \cup {<<Host, c>> : c \in Connections}

-----------------------------------------------------------------------------
\* Bodies: none, one of a length, chunks, or what goes on until the connection
\* is closed; each with its headers, its text, what the parser has to find in it
\* and with what outcome.
Contents == {<<"word">>, <<"CR", "LF">>, <<"high", ":">>}

Body(headers, text, content, outcome) ==
    [headers |-> headers, text |-> text, content |-> content, outcome |-> outcome]

None == Body(<<>>, NoText, NoText, "ParsingCompleted")

UntilClose(c) == Body(<<>>, c, NoText, "ParsingCompleted")

\* `before` is in front of the number: blanks.
LengthHeader(before, n) == <<Header(<<"Content-Length">>, before \o Number(n))>>

OfLength(c) == Body(LengthHeader(NoText, Len(c)), c, c, "ParsingCompleted")

ChunkText(c, extension) == Number(Len(c)) \o extension \o CRLF \o c \o CRLF

ChunkedHeader == <<Header(<<"Transfer-Encoding">>, <<"chunked">>)>>

Chunked(chunks, extension, trailer) ==
    Body(ChunkedHeader,
         FlattenSeq([i \in DOMAIN chunks |-> ChunkText(chunks[i], extension)])
            \o <<"0">> \o CRLF \o trailer \o CRLF,
         FlattenSeq(chunks), "ParsingCompleted")

\* A negative length, and a chunk that no string can hold.
Impossible ==
    {Body(LengthHeader(<<"-">>, 1), NoText, NoText, "terminated"),
     Body(ChunkedHeader, <<"2", "2", "2", "2">> \o CRLF, NoText, "terminated")}

Bodies ==
    {OfLength(c) : c \in Contents}
    \cup {Body(LengthHeader(<<" ", " ">>, 1), <<"word">>, <<"word">>, "ParsingCompleted")}
    \cup {Chunked(cs, NoText, NoText) :
            cs \in {<<>>} \cup {<<c>> : c \in Contents} \cup {<<c, <<"word">>>> : c \in Contents}}
    \cup {Chunked(<<<<"word">>>>, <<";", "word">> \o e, t) :
            e \in {NoText, <<"=", "word">>},
            t \in {NoText, <<"word", ":", " ", "word">> \o CRLF}}

KeptAlive(headers, version) ==
    LET said == {h.value : h \in {x \in Range(headers) : x.name = <<"Connection">>}}
    IN  IF said = {} THEN version = <<"1", ".", "1">> ELSE said = {<<"Keep-Alive">>}

Meant(headers) ==
    [i \in DOMAIN headers |-> [name  |-> headers[i].name,
                               value |-> headers[i].value \o headers[i].more]]

-----------------------------------------------------------------------------
\* A request, with a NUL in the place of the symbol `bad` of its head, if there
\* is one.  The last LF of the head is not looked at before a body.
HeadText(method, uri, version, headers) ==
    <<method>> \o Sp \o uri \o Sp \o VersionText(version) \o CRLF
        \o FlattenSeq([i \in DOMAIN headers |-> HeaderText(headers[i])]) \o CRLF

Request(method, uri, version, headers, body, bad) ==
    LET all   == headers \o body.headers
        head  == HeadText(method, uri, version, all)
        spoilt == IF bad \in DOMAIN head THEN [head EXCEPT ![bad] = "NUL"] ELSE head
        looked == bad < Len(head) \/ body = None
        hasBody == method \in {"POST", "PUT"}
    IN  [kind |-> "request",
         text |-> spoilt \o body.text,
         extent |-> Len(head) + (IF hasBody THEN Len(body.text) ELSE 0),
         outcome |-> CASE bad \in DOMAIN head /\ looked -> "ParsingError"
                       [] hasBody -> body.outcome
                       [] OTHER -> "ParsingCompleted",
         meaning |-> [method |-> <<method>>, uri |-> uri,
                      versionMajor |-> 1,
                      versionMinor |-> IF version[3] = "1" THEN 1 ELSE 0,
                      headers |-> Meant(all),
                      content |-> IF hasBody THEN body.content ELSE NoText,
                      keepAlive |-> KeptAlive(headers, version)]]

Versions == {<<"1", ".", "0">>, <<"1", ".", "1">>}

\* A request with a NUL in every place of its head.
Spoilt(method, headers, body) ==
    {Request(method, <<"/">>, <<"1", ".", "1">>, headers, body, bad) :
        bad \in DOMAIN HeadText(method, <<"/">>, <<"1", ".", "1">>, headers \o body.headers)}

\* HTTP/0.9: neither version nor headers, and the line may lack its LF.
SimpleRequest(newline) ==
    [kind |-> "request", text |-> <<"GET", " ", "/">> \o newline, extent |-> 4,
     outcome |-> "ParsingCompleted",
     meaning |-> [method |-> <<"GET">>, uri |-> <<"/">>, versionMajor |-> 0,
                  versionMinor |-> 9, headers |-> <<>>, content |-> <<>>,
                  keepAlive |-> FALSE]]

MCRequests ==
    {Request("GET", <<"/">>, v, hs, None, 0) : v \in Versions, hs \in HeaderLists}
    \cup {Request(m, <<"/", "word", "?", "high">>, <<"1", ".", "1">>, <<Host>>, b, 0) :
            m \in {"POST", "PUT", "GET", "word"}, b \in Bodies \cup Impossible}
    \cup Spoilt("GET", <<Folded, Host>>, None)
    \cup Spoilt("POST", <<Folded, Host>>, OfLength(<<"word">>))
    \cup {SimpleRequest(newline) : newline \in {<<"CR">>, CRLF}}

-----------------------------------------------------------------------------
\* A response without its last `cut` symbols.  A body that only the close of the
\* connection ends does not belong to it, for the parser.
Response(code, headers, body, cut) ==
    LET all   == headers \o body.headers
        head  == VersionText(<<"1", ".", "1">>) \o Sp \o code \o Sp \o <<"OK", " ", "word">>
                    \o CRLF \o FlattenSeq([i \in DOMAIN all |-> HeaderText(all[i])]) \o CRLF
        whole == head \o body.text
    IN  [kind |-> "response",
         text |-> SubSeq(whole, 1, Len(whole) - cut),
         extent |-> IF body.headers = <<>> THEN Len(head) ELSE Len(whole),
         outcome |-> CASE Len(code) # 3 -> "ParsingError"
                       [] cut > 0 -> "ParsingIncompleted"
                       [] OTHER -> body.outcome,
         meaning |-> [versionMajor |-> 1, versionMinor |-> 1, statusCode |-> 200,
                      status |-> <<"OK", " ", "word">>, headers |-> Meant(all),
                      content |-> body.content,
                      keepAlive |-> KeptAlive(headers, <<"1", ".", "1">>)]]

MCResponses ==
    {Response(<<"2", "0", "0">>, hs, b, 0) :
        hs \in HeaderLists, b \in Bodies \cup Impossible \cup {None, UntilClose(<<"word">>)}}
    \cup {Response(<<"2", "0", "0">>, <<Host>>, b, cut) : b \in Bodies, cut \in 1..9}
    \cup {Response(code, <<Host>>, None, 0) : code \in {<<"2", "0">>, <<"2", "0", "0", "0">>}}

-----------------------------------------------------------------------------
Url(scheme, user, password, host, port, path, query, fragment) ==
    LET parts == [scheme |-> scheme, username |-> user, password |-> password,
                  hostname |-> host, port |-> port, path |-> path,
                  query |-> query, fragment |-> fragment]
    IN  [kind |-> "url", text |-> UrlText(parts), parts |-> parts,
         httpPort |-> CASE port # NoText -> 102
                        [] port = NoText /\ scheme = <<"http">> -> 80
                        [] OTHER -> 443,
         meaning |-> UrlMeaning(parts)]

\* A string that is no URL.
NoUrl(t) == [kind |-> "url", text |-> t, meaning |-> [result |-> "invalid"]]

Passwords == {NoText, <<"word">>, <<"1", "word">>, <<"word", "2">>, <<"1", "2">>}

MCUrls ==
    {Url(s, u[1], u[2], h, port, path, NoText, NoText) :
        s \in {<<"http">>, <<"https">>},
        u \in {<<NoText, NoText>>} \cup {<<<<"word">>, p>> : p \in Passwords},
        h \in {<<"word">>, <<"1", ".", "2">>, <<"[", ":", "1", "@">>}, port \in {NoText, <<"1", "0", "2">>},
        path \in {NoText, <<"/">>, <<"/", "word", ":", "@">>}}
    \cup {Url(<<"http">>, user, NoText, <<"word">>, port, path, q, f) :
        user \in {NoText, <<"word">>}, port \in {NoText, <<"1", "0", "2">>},
        path \in {NoText, <<"/">>},
        q \in {NoText, <<"word", "/">>}, f \in {NoText, <<"word", "?", "#">>}}
    \cup {NoUrl(t) : t \in {<<"http", "/">>, <<"http", ":", " ">>, <<"http", ":", "/", "word">>,
               <<"http", ":", "/", "/", "word", " ">>,
               <<"http", ":", "/", "/", "word", ":", ":">>,
               <<"http", ":", "/", "/", "word", ":", "word", "/">>,
               <<"http", ":", "/", "/", "word", "@", "word", ":", "word">>,
               <<"http", ":", "/", "/", "word", "@", "word", "@">>}}

MCHosts ==
    {[kind |-> "host", text |-> h \o <<":">> \o p, digits |-> p,
      meaning |-> [host |-> h, port |-> IF p = <<"2">> THEN 2 ELSE 102]] :
        h \in {<<"word">>, <<"word", "1">>, <<"1", ".", "2">>},
        p \in {<<"2">>, <<"1", "0", "2">>}}
    \cup {[kind |-> "host", text |-> h, digits |-> NoText,
           meaning |-> [host |-> h, port |-> 0]] :
        h \in {<<"word">>, <<"word", "1">>, <<"1", ".", "2">>, <<"word", ":">>}}

MCMessages == MCRequests \cup MCResponses \cup MCUrls \cup MCHosts
=============================================================================
