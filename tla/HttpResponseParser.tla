-------------------------- MODULE HttpResponseParser -------------------------
(***************************************************************************)
(* HttpResponseParser::consume (httpparser/httpresponseparser.h) for one   *)
(* byte: the status line, then the header lines and the body, which are    *)
(* those of a request (any response may have a body).                      *)
(***************************************************************************)
EXTENDS HttpParser

NewResponseParser == NewParser("ResponseStatusStart")

\* "HTTP/", byte by byte.
StatusName(p, c) ==
    CASE p.state = "ResponseStatusStart" ->
            Expect(p, c, "H", "ResponseHttpVersion_ht")
      [] p.state = "ResponseHttpVersion_ht" ->
            Expect(p, c, "T", "ResponseHttpVersion_htt")
      [] p.state = "ResponseHttpVersion_htt" ->
            Expect(p, c, "T", "ResponseHttpVersion_http")
      [] p.state = "ResponseHttpVersion_http" ->
            Expect(p, c, "P", "ResponseHttpVersion_slash")
      [] p.state = "ResponseHttpVersion_slash" /\ c = "/" ->
            [Move(p, "ResponseHttpVersion_majorStart") EXCEPT
                !.versionMajor = 0, !.versionMinor = 0]
      [] OTHER -> Error(p)

\* The two numbers of the version.
StatusVersion(p, c) ==
    CASE p.state = "ResponseHttpVersion_majorStart" /\ isDigit(c) ->
            [Move(p, "ResponseHttpVersion_major") EXCEPT
                !.versionMajor = DigitValue[c]]
      [] p.state = "ResponseHttpVersion_major" /\ c = "." ->
            Move(p, "ResponseHttpVersion_minorStart")
      [] p.state = "ResponseHttpVersion_major" /\ isDigit(c) ->
            [p EXCEPT !.versionMajor = 10 * @ + DigitValue[c]]
      [] p.state = "ResponseHttpVersion_minorStart" /\ isDigit(c) ->
            [Move(p, "ResponseHttpVersion_minor") EXCEPT
                !.versionMinor = DigitValue[c]]
      [] p.state = "ResponseHttpVersion_minor" /\ c = " " ->
            [Move(p, "ResponseHttpVersion_statusCodeStart") EXCEPT
                !.statusCode = 0]
      [] p.state = "ResponseHttpVersion_minor" /\ isDigit(c) ->
            [p EXCEPT !.versionMinor = 10 * @ + DigitValue[c]]
      [] OTHER -> Error(p)

\* Mutant: the code is at least 100, and may have more than three digits.
StatusCodeUnbounded(p, c) ==
    CASE p.state = "ResponseHttpVersion_statusCodeStart" /\ isDigit(c) ->
            [Move(p, "ResponseHttpVersion_statusCode") EXCEPT
                !.statusCode = DigitValue[c]]
      [] p.state = "ResponseHttpVersion_statusCode" /\ isDigit(c) ->
            [p EXCEPT !.statusCode = 10 * @ + DigitValue[c]]
      [] p.state = "ResponseHttpVersion_statusCode" /\ c = " "
            /\ p.statusCode >= 100 ->
            Move(p, "ResponseHttpVersion_statusTextStart")
      [] OTHER -> Error(p)

\* The code is looked at when its digits have ended.
StatusCode(p, c) ==
    CASE p.state = "ResponseHttpVersion_statusCodeStart" /\ isDigit(c) ->
            [Move(p, "ResponseHttpVersion_statusCode") EXCEPT
                !.statusCode = DigitValue[c]]
      [] p.state = "ResponseHttpVersion_statusCode" /\ isDigit(c) ->
            [p EXCEPT !.statusCode = 10 * @ + DigitValue[c]]
      [] p.state = "ResponseHttpVersion_statusCode" /\ c = " "
            /\ p.statusCode \in 100..999 ->
            Move(p, "ResponseHttpVersion_statusTextStart")
      [] OTHER -> Error(p)

StatusText(p, c) ==
    CASE ~isChar(c) -> Error(p)
      [] p.state = "ResponseHttpVersion_statusText" /\ c = "CR" ->
            Move(p, "ResponseHttpVersion_newLine")
      [] OTHER -> [Move(p, "ResponseHttpVersion_statusText") EXCEPT
                      !.status = Append(@, c)]

ResponseHeaderStep(p, c) == HeaderStep(p, c, TRUE)
ResponseBodyStep(p, c)   == BodyStep(p, c)

StatusNameStates ==
    {"ResponseStatusStart", "ResponseHttpVersion_ht", "ResponseHttpVersion_htt",
     "ResponseHttpVersion_http", "ResponseHttpVersion_slash"}

StatusCodeStates ==
    {"ResponseHttpVersion_statusCodeStart", "ResponseHttpVersion_statusCode"}

StatusTextStates ==
    {"ResponseHttpVersion_statusTextStart", "ResponseHttpVersion_statusText"}

\* One byte.  An error leaves the state as it is.
ResponseStep(p, c) ==
    CASE p.state \in StatusNameStates -> StatusName(p, c)
      [] p.state \in StatusCodeStates -> StatusCode(p, c)
      [] p.state \in StatusTextStates -> StatusText(p, c)
      [] p.state = "ResponseHttpVersion_newLine" ->
            Expect(p, c, "LF", "HeaderLineStart")
      [] p.state \in HeaderStates     -> ResponseHeaderStep(p, c)
      [] p.state \in BodyStates       -> ResponseBodyStep(p, c)
      [] OTHER                        -> StatusVersion(p, c)
=============================================================================
