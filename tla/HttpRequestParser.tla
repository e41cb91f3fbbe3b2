-------------------------- MODULE HttpRequestParser --------------------------
(***************************************************************************)
(* HttpRequestParser::consume (httpparser/httprequestparser.h) for one     *)
(* byte: the request line, then the header lines and the body.             *)
(***************************************************************************)
EXTENDS HttpParser

NewRequestParser == NewParser("RequestMethodStart")

PushMethod(p, c) == [p EXCEPT !.method = Append(@, c)]
PushUri(p, c)    == [p EXCEPT !.uri = Append(@, c)]

RequestMethodStart(p, c) ==
    IF isToken(c) THEN PushMethod(Move(p, "RequestMethod"), c) ELSE Error(p)

RequestMethod(p, c) ==
    CASE c = " " -> Move(p, "RequestUriStart")
      [] isToken(c) -> PushMethod(p, c)
      [] OTHER -> Error(p)

RequestUriStart(p, c) ==
    IF isControl(c) THEN Error(p) ELSE PushUri(Move(p, "RequestUri"), c)

\* A line without a version is a whole request of HTTP/0.9.
RequestUri(p, c) ==
    CASE c = " " -> Move(p, "RequestHttpVersion_h")
      [] c = "CR" -> Completed([p EXCEPT !.versionMajor = 0, !.versionMinor = 9])
      [] isControl(c) /\ c # "CR" -> Error(p)
      [] OTHER -> PushUri(p, c)

\* "HTTP/", byte by byte.
HttpName(p, c) ==
    CASE p.state = "RequestHttpVersion_h" ->
            Expect(p, c, "H", "RequestHttpVersion_ht")
      [] p.state = "RequestHttpVersion_ht" ->
            Expect(p, c, "T", "RequestHttpVersion_htt")
      [] p.state = "RequestHttpVersion_htt" ->
            Expect(p, c, "T", "RequestHttpVersion_http")
      [] p.state = "RequestHttpVersion_http" ->
            Expect(p, c, "P", "RequestHttpVersion_slash")
      [] p.state = "RequestHttpVersion_slash" /\ c = "/" ->
            [Move(p, "RequestHttpVersion_majorStart") EXCEPT
                !.versionMajor = 0, !.versionMinor = 0]
      [] OTHER -> Error(p)

\* The two numbers of the version.
HttpVersion(p, c) ==
    CASE p.state = "RequestHttpVersion_majorStart" /\ isDigit(c) ->
            [Move(p, "RequestHttpVersion_major") EXCEPT
                !.versionMajor = DigitValue[c]]
      [] p.state = "RequestHttpVersion_major" /\ c = "." ->
            Move(p, "RequestHttpVersion_minorStart")
      [] p.state = "RequestHttpVersion_major" /\ isDigit(c) ->
            [p EXCEPT !.versionMajor = 10 * @ + DigitValue[c]]
      [] p.state = "RequestHttpVersion_minorStart" /\ isDigit(c) ->
            [Move(p, "RequestHttpVersion_minor") EXCEPT
                !.versionMinor = DigitValue[c]]
      [] p.state = "RequestHttpVersion_minor" /\ c = "CR" ->
            Move(p, "ResponseHttpVersion_newLine")
      [] p.state = "RequestHttpVersion_minor" /\ isDigit(c) ->
            [p EXCEPT !.versionMinor = 10 * @ + DigitValue[c]]
      [] OTHER -> Error(p)

HttpNameStates ==
    {"RequestHttpVersion_h", "RequestHttpVersion_ht", "RequestHttpVersion_htt",
     "RequestHttpVersion_http", "RequestHttpVersion_slash"}

\* Only a POST or a PUT has a body.
HasBody(p) == p.method \in {<<"POST">>, <<"PUT">>}

\* One byte.  An error leaves the state as it is.
RequestStep(p, c) ==
    CASE p.state = "RequestMethodStart" -> RequestMethodStart(p, c)
      [] p.state = "RequestMethod"      -> RequestMethod(p, c)
      [] p.state = "RequestUriStart"    -> RequestUriStart(p, c)
      [] p.state = "RequestUri"         -> RequestUri(p, c)
      [] p.state \in HttpNameStates     -> HttpName(p, c)
      [] p.state = "ResponseHttpVersion_newLine" ->
            Expect(p, c, "LF", "HeaderLineStart")
      [] p.state \in HeaderStates       -> HeaderStep(p, c, HasBody(p))
      [] p.state \in BodyStates         -> BodyStep(p, c)
      [] OTHER                          -> HttpVersion(p, c)
=============================================================================
