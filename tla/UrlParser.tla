------------------------------- MODULE UrlParser ------------------------------
(***************************************************************************)
(* UrlParser::parse_ (httpparser/urlparser.h) for one byte, and what it    *)
(* does at the end of the string; splitHostAndPort of singlehostserver.cpp *)
(* for the value of a Host header.                                         *)
(***************************************************************************)
EXTENDS HttpParser

\* uint16_t integerPort.
PortValues == 65536

\* `result` is "valid" until a byte is refused, or the program has aborted.
NewUrl ==
    [state |-> "Scheme", result |-> "valid", scheme |-> <<>>, username |-> <<>>,
     password |-> <<>>, hostname |-> <<>>, port |-> <<>>, path |-> <<"/">>,
     query |-> <<>>, fragment |-> <<>>, integerPort |-> 0,
     usernameOrHostname |-> <<>>, portOrPassword |-> <<>>]

\* valid = false; url = Url(): nothing reads what is left of the url.
Refused(u)  == [u EXCEPT !.result = "invalid"]
Aborted(u)  == [u EXCEPT !.result = "aborted"]

isUnreserved(c) == isalnum(c) \/ c \in {".", "-"}

Scheme(u, c) ==
    CASE isalnum(c) \/ c \in {".", "-"} -> [u EXCEPT !.scheme = Append(@, c)]
      [] c = ":" -> Move(u, "SlashAfterScheme1")
      [] OTHER -> Refused(u)

SlashAfterScheme(u, c) ==
    CASE u.state = "SlashAfterScheme1" /\ c = "/" -> Move(u, "SlashAfterScheme2")
      [] u.state = "SlashAfterScheme1" /\ isalnum(c) ->
            [Move(u, "UsernameOrHostname") EXCEPT !.usernameOrHostname = <<c>>]
      [] u.state = "SlashAfterScheme2" /\ c = "/" -> Move(u, "UsernameOrHostname")
      [] OTHER -> Refused(u)

\* The name before a ":" or a "/" may turn out to be either.
UsernameOrHostname(u, c) ==
    CASE isUnreserved(c) -> [u EXCEPT !.usernameOrHostname = Append(@, c)]
      [] c = ":" -> Move(u, "PortOrPassword")
      [] c = "@" -> [Move(u, "Hostname") EXCEPT !.username = u.usernameOrHostname,
                                                !.usernameOrHostname = u.username]
      [] c = "/" -> [Move(u, "Path") EXCEPT !.hostname = u.usernameOrHostname,
                                            !.usernameOrHostname = u.hostname]
      [] OTHER -> Refused(u)

Password(u, c) ==
    CASE isalnum(c) -> [u EXCEPT !.password = Append(@, c)]
      [] c = "@" -> Move(u, "Hostname")
      [] OTHER -> Refused(u)

\* Behind a "[" the next byte, whatever it is, aborts: IPV6Hostname is not
\* written yet.
Hostname(u, c) ==
    CASE c = "[" /\ u.hostname = <<>> -> Move(u, "IPV6Hostname")
      [] isUnreserved(c) -> [u EXCEPT !.hostname = Append(@, c)]
      [] c = ":" -> Move(u, "Port")
      [] c = "/" -> Move(u, "Path")
      [] OTHER -> Refused(u)

\* Mutant: the digits stay where the next part is read.
PortOrPasswordCopied(u, c) ==
    CASE isDigit(c) -> [u EXCEPT !.portOrPassword = Append(@, c)]
      [] c = "/" -> [Move(u, "Path") EXCEPT
                        !.hostname = u.usernameOrHostname,
                        !.usernameOrHostname = u.hostname,
                        !.port = u.portOrPassword,
                        !.integerPort = NumberOf(u.portOrPassword, 10) % PortValues]
      [] isalnum(c) /\ ~isDigit(c) ->
            [Move(u, "Password") EXCEPT
                !.username = u.usernameOrHostname,
                !.usernameOrHostname = u.username,
                !.password = Append(u.portOrPassword, c)]
      [] OTHER -> Refused(u)

\* Digits are a port or the start of a password, until a "/" or a letter
\* decides.
PortOrPassword(u, c) ==
    CASE isDigit(c) -> [u EXCEPT !.portOrPassword = Append(@, c)]
      [] c = "/" -> [Move(u, "Path") EXCEPT
                        !.hostname = u.usernameOrHostname,
                        !.usernameOrHostname = u.hostname,
                        !.port = u.portOrPassword, !.portOrPassword = u.port,
                        !.integerPort = NumberOf(u.portOrPassword, 10) % PortValues]
      [] isalnum(c) /\ ~isDigit(c) ->
            [Move(u, "Password") EXCEPT
                !.username = u.usernameOrHostname,
                !.usernameOrHostname = u.username,
                !.password = Append(u.portOrPassword, c),
                !.portOrPassword = u.password]
      [] OTHER -> Refused(u)

Port(u, c) ==
    CASE isDigit(c) -> [u EXCEPT !.portOrPassword = Append(@, c)]
      [] c = "/" -> [Move(u, "Path") EXCEPT
                        !.port = u.portOrPassword, !.portOrPassword = u.port,
                        !.integerPort = NumberOf(u.portOrPassword, 10) % PortValues]
      [] OTHER -> Refused(u)

PathQueryFragment(u, c) ==
    CASE c = "#" /\ u.state # "Fragment" -> Move(u, "Fragment")
      [] c = "?" /\ u.state # "Fragment" -> Move(u, "Query")
      [] u.state = "Fragment" -> [u EXCEPT !.fragment = Append(@, c)]
      [] c \notin {"#", "?"} /\ u.state = "Path" -> [u EXCEPT !.path = Append(@, c)]
      [] c \notin {"#", "?"} /\ u.state = "Query" -> [u EXCEPT !.query = Append(@, c)]

UrlStep(u, c) ==
    CASE u.state = "Scheme"             -> Scheme(u, c)
      [] u.state \in {"SlashAfterScheme1", "SlashAfterScheme2"}
                                        -> SlashAfterScheme(u, c)
      [] u.state = "UsernameOrHostname" -> UsernameOrHostname(u, c)
      [] u.state = "Password"           -> Password(u, c)
      [] u.state = "Hostname"           -> Hostname(u, c)
      [] u.state = "IPV6Hostname"       -> Aborted(u)
      [] u.state = "PortOrPassword"     -> PortOrPassword(u, c)
      [] u.state = "Port"               -> Port(u, c)
      [] OTHER                          -> PathQueryFragment(u, c)

\* After the loop, for a refused string too, whose local variables are kept: the
\* assertion that no digits are left over, and a host that nothing has followed.
UrlEnd(u) ==
    CASE u.portOrPassword # <<>> -> Aborted(u)
      [] u.portOrPassword = <<>> /\ u.usernameOrHostname # <<>> ->
            [u EXCEPT !.hostname = u.usernameOrHostname]
      [] OTHER -> u

\* The port to connect to.
httpPort(u) ==
    CASE u.port # <<>> -> u.integerPort
      [] u.port = <<>> /\ u.scheme = <<"https">> -> 443
      [] OTHER -> 80

-----------------------------------------------------------------------------
\* The digits at the end of a Host value are the port if a ":" is before them
\* and there is one digit at least; 0 stands for "no port".  A value of
\* digits only leaves the caller's empty host and port 0.
splitHostAndPort(address) ==
    LET n == Len(address)
        others == {k \in 1..n : ~isDigit(address[k])}
        last == Max(others \cup {0})
    IN  CASE others = {} -> [result |-> "split", host |-> <<>>, port |-> 0]
          [] others # {} /\ address[last] = ":" /\ last < n ->
                [result |-> "split", host |-> SubSeq(address, 1, last - 1),
                 port |-> NumberOf(SubSeq(address, last + 1, n), 10)]
          [] OTHER -> [result |-> "split", host |-> address, port |-> 0]
=============================================================================
