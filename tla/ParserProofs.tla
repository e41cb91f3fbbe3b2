---------------------------- MODULE ParserProofs -----------------------------
(***************************************************************************)
(* Proofs about MessageReading, for any messages that satisfy              *)
(* MessagesAssumption and AddressesAssumption, however the network cuts    *)
(* them and however often the client is heard:                             *)
(*   GetsAreReadWhole         Spec => []GetIsReadWhole                     *)
(*   AddressesAreUnderstood   Spec => []AddressUnderstood, of every        *)
(*                            address but a string that is no URL          *)
(*                                                                         *)
(* A request that comes in pieces is parsed again from its first byte by   *)
(* a parser whose state is that of the last call, so that what the parser  *)
(* has read is in general no prefix of the text.  For a GET it nearly is:  *)
(* the method is the one byte GET, so that a parser in the middle of it    *)
(* is at the first byte or past the space, and one that begins again in a  *)
(* later state meets the URI and the "GET" in places where it refuses      *)
(* them, or where it passes over them without taking them into the URI.    *)
(* Reading says so of every state: MethodRead and UriRead what has been    *)
(* stored and the byte that did it, Trail what the last bytes were where   *)
(* lines end, NoBody that no GET has a body, Whole what a completed one    *)
(* has ended at.                                                           *)
(*                                                                         *)
(* Of a URL the symbols that have been read are a prefix, so that what the *)
(* parser has stored is known from their number: UrlLayout and UrlSymbols  *)
(* find the parts in the text, UrlAt says where the parser is, one lemma   *)
(* for each part that it stays true or that the parser gives up where it   *)
(* may (UrlIsRead, GivesUp), and UrlIsUnderstood and UrlIsGivenUp what is  *)
(* known at the end.                                                       *)
(***************************************************************************)
EXTENDS MessageReading, SequenceTheorems, TLAPS

\* The fields of the parser's record, and its states.
Fields == {"state", "contentSize", "chunkSizeStr", "chunkSize", "chunked", "result",
           "method", "uri", "versionMajor", "versionMinor", "statusCode", "status",
           "headers", "content", "keepAlive"}

VersionStates == {"RequestHttpVersion_majorStart", "RequestHttpVersion_major",
                  "RequestHttpVersion_minorStart", "RequestHttpVersion_minor"}

States == {"RequestMethodStart", "RequestMethod", "RequestUriStart", "RequestUri",
           "ResponseHttpVersion_newLine"} \cup VersionStates
          \cup Requests!HttpNameStates \cup Requests!HeaderStates
          \cup Requests!BodyStates

\* An invariant of EXCEPT: no field is added.
IsParser(p) == p = [f \in Fields |-> p[f]]

Types(p) ==
    /\ IsParser(p)
    /\ p.state \in States
    /\ p.result \in {"ParsingIncompleted", "ParsingCompleted", "ParsingError", "terminated"}
    /\ p.method \in Seq(Requests!Symbols)
    /\ p.uri \in Seq(Requests!Symbols)

IsGet(p) == p.method = <<"GET">>

\* The parser of t stands behind its k-th byte.  The first byte of the text
\* begins the method: it is GET for a GET.
MethodRead(p, t, k) ==
    IF p.state = "RequestMethodStart"
    THEN p.method = <<>> /\ p.uri = <<>> /\ (p.result = "ParsingIncompleted" => k = 0)
    ELSE p.method # <<>> /\ p.method[1] = t[1]

\* The URI of t has been read, and the parser is past it.
UriKnown(p, t) == \E u \in 4..Len(t) : UriEnds(t, u) /\ p.uri = SubSeq(t, 3, u - 1)

\* The parser has gone back to the first byte in the middle of the URI: where it
\* is within "HTTP/", the URI has begun with that much of it.
Spoiled(p, t, k) ==
    \/ k = 0
    \/ p.state = "RequestHttpVersion_h" /\ k = 2
    \/ p.state = "RequestHttpVersion_ht" /\ k = 3 /\ t[3] = "H"
    \/ p.state = "RequestHttpVersion_htt" /\ k = 4 /\ t[3] = "H" /\ t[4] = "T"
    \/ p.state = "RequestHttpVersion_http" /\ k = 5 /\ t[3] = "H" /\ t[4] = "T"
          /\ t[5] = "T"
    \/ p.state = "RequestHttpVersion_slash" /\ k = 6 /\ t[3] = "H" /\ t[4] = "T"
          /\ t[5] = "T" /\ t[6] = "P"

\* What the URI of a GET is in each state.  A parser that went back in the middle
\* of it reads GET (k < 2) and the space, which ends it too early.
UriRead(p, t, k) ==
    IsGet(p) /\ p.result = "ParsingIncompleted" =>
        /\ p.state = "RequestMethod" => k < 2
        /\ p.state \in {"RequestMethod", "RequestUriStart"} => p.uri = <<>>
        /\ p.state = "RequestUriStart" => k \in {0, 2}
        /\ p.state \notin {"RequestMethodStart", "RequestMethod"} =>
              Len(t) > 1 /\ t[2] = Space
        /\ p.state = "RequestUri" =>
              \/ k < 2
              \/ /\ k > 2
                 /\ p.uri = SubSeq(t, 3, k)
                 /\ \A i \in 3..k : t[i] \notin Requests!Controls
                 /\ \A i \in 4..k : t[i] # Space
        /\ p.state \in Requests!HttpNameStates => UriKnown(p, t) \/ Spoiled(p, t, k)
        /\ p.state \in VersionStates \cup Requests!HeaderStates
                          \cup {"ResponseHttpVersion_newLine"} => UriKnown(p, t)

\* Only a POST or a PUT has its body measured.
NoBody(p) ==
    IsGet(p) \/ p.state \in {"RequestMethodStart", "RequestMethod"} =>
        /\ p.contentSize = 0
        /\ p.chunked = FALSE
        /\ p.state \notin Requests!BodyStates

\* The last bytes where lines end.
Trail(p, t, k) ==
    IsGet(p) /\ p.result = "ParsingIncompleted" /\ k > 0 =>
        /\ p.state \in {"ExpectingNewline_2", "ResponseHttpVersion_newLine"} =>
              t[k] = "CR"
        /\ p.state = "HeaderLineStart" => k > 1 /\ t[k] = "LF" /\ t[k - 1] = "CR"
        /\ p.state = "ExpectingNewline_3" =>
              k > 2 /\ t[k] = "CR" /\ t[k - 1] = "LF" /\ t[k - 2] = "CR"

\* What a completed GET has ended at.
Whole(p, t, k) ==
    IsGet(p) /\ p.result = "ParsingCompleted" =>
        /\ Len(t) > 1 /\ t[1] = "GET" /\ t[2] = Space
        /\ UriKnown(p, t)
        /\ EmptyLineEnds(t, k) \/ (UriEnds(t, k) /\ t[k] = "CR")

\* The parser of the request t behind its k-th byte.
Reading(p, t, k) ==
    /\ Types(p)
    /\ MethodRead(p, t, k)
    /\ UriRead(p, t, k)
    /\ NoBody(p)
    /\ Trail(p, t, k)
    /\ Whole(p, t, k)

\* Where readClientRequest is.
Bounds ==
    /\ message \in Messages
    /\ received \in 0..Length
    /\ at \in 0..received
    /\ pc \in {"recv", "parse", "done"}

\* The inductive invariant.
RequestInv ==
    message.kind = "request" =>
        /\ Bounds
        /\ parser.result # "ParsingIncompleted" => pc = "done"
        /\ Reading(parser, message.text, at)

-----------------------------------------------------------------------------
(* What one byte does to the parser, state by state.                       *)

\* q is p but for the fields in F.
Changes(p, q, F) == IsParser(q) /\ \A f \in Fields \ F : q[f] = p[f]

Refuses(p, q)  == Changes(p, q, {"result"}) /\ q.result = "ParsingError"
Moves(p, q, s) == Changes(p, q, {"state"}) /\ q.state = s

\* An error changes the result only.
LEMMA ErrorRefuses ==
    ASSUME NEW p, IsParser(p)
    PROVE  Refuses(p, Requests!Error(p))
  BY DEF Refuses, IsParser, Changes, Requests!Error, Fields

\* A change of state changes nothing else.
LEMMA MoveMoves ==
    ASSUME NEW p, IsParser(p), NEW s
    PROVE  Moves(p, Requests!Move(p, s), s)
  BY DEF Moves, IsParser, Changes, Requests!Move, Fields

\* The one byte that is expected, or an error.
LEMMA ExpectDoes ==
    ASSUME NEW p, IsParser(p), NEW c, NEW byte, NEW s
    PROVE  LET q == Requests!Expect(p, c, byte, s)
           IN  Refuses(p, q) \/ (c = byte /\ Moves(p, q, s))
  BY ErrorRefuses, MoveMoves DEF Requests!Expect

\* The end of the message changes the result only.
LEMMA CompletedDoes ==
    ASSUME NEW p, IsParser(p)
    PROVE  /\ Changes(p, Requests!Completed(p), {"result"})
           /\ Requests!Completed(p).result = "ParsingCompleted"
  BY DEF IsParser, Changes, Requests!Completed, Fields

\* A byte of the method.
LEMMA PushMethodDoes ==
    ASSUME NEW p, IsParser(p), NEW c
    PROVE  /\ Changes(p, Requests!PushMethod(p, c), {"method"})
           /\ Requests!PushMethod(p, c).method = Append(p.method, c)
  BY DEF IsParser, Changes, Requests!PushMethod, Fields

\* A byte of the URI.
LEMMA PushUriDoes ==
    ASSUME NEW p, IsParser(p), NEW c
    PROVE  /\ Changes(p, Requests!PushUri(p, c), {"uri"})
           /\ Requests!PushUri(p, c).uri = Append(p.uri, c)
  BY DEF IsParser, Changes, Requests!PushUri, Fields

\* A byte of a header's name or value.
LEMMA PushHeaderDoes ==
    ASSUME NEW p, IsParser(p), NEW c
    PROVE  /\ Changes(p, Requests!PushName(p, c), {"headers"})
           /\ Changes(p, Requests!PushValue(p, c), {"headers"})
  BY DEF IsParser, Changes, Requests!PushName, Requests!PushValue, Fields

\* The first byte of the method.
LEMMA StepMethodStart ==
    ASSUME NEW p, IsParser(p), NEW c, p.state = "RequestMethodStart"
    PROVE  LET q == Requests!RequestStep(p, c)
           IN  \/ Refuses(p, q)
               \/ /\ Changes(p, q, {"state", "method"})
                  /\ q.state = "RequestMethod"
                  /\ q.method = Append(p.method, c)
<1>1. Requests!RequestStep(p, c) = Requests!RequestMethodStart(p, c)
  BY DEF Requests!RequestStep, Requests!HttpNameStates, Requests!HeaderStates,
         Requests!BodyStates
<1>2. CASE Requests!isToken(c)
  BY <1>1, <1>2, PushMethodDoes, MoveMoves
     DEF Requests!RequestMethodStart, Moves, Changes, Fields
<1>3. CASE ~Requests!isToken(c)
  BY <1>1, <1>3, ErrorRefuses DEF Requests!RequestMethodStart
<1> QED
  BY <1>2, <1>3

\* A space ends the method.
LEMMA StepMethod ==
    ASSUME NEW p, IsParser(p), NEW c, p.state = "RequestMethod"
    PROVE  LET q == Requests!RequestStep(p, c)
           IN  \/ Refuses(p, q)
               \/ c = Space /\ Moves(p, q, "RequestUriStart")
               \/ c # Space /\ Changes(p, q, {"method"})
                  /\ q.method = Append(p.method, c)
<1>1. Requests!RequestStep(p, c) = Requests!RequestMethod(p, c)
  BY DEF Requests!RequestStep, Requests!HttpNameStates, Requests!HeaderStates,
         Requests!BodyStates
<1>2. CASE c = Space
  BY <1>1, <1>2, MoveMoves
     DEF Requests!RequestMethod, Requests!isToken, Requests!isSpecial,
         Requests!Specials, Space
<1>3. CASE c # Space /\ Requests!isToken(c)
  BY <1>1, <1>3, PushMethodDoes DEF Requests!RequestMethod, Space
<1>4. CASE c # Space /\ ~Requests!isToken(c)
  BY <1>1, <1>4, ErrorRefuses DEF Requests!RequestMethod, Space
<1> QED
  BY <1>2, <1>3, <1>4

\* The first byte of the URI may be a space.
LEMMA StepUriStart ==
    ASSUME NEW p, IsParser(p), NEW c, p.state = "RequestUriStart"
    PROVE  LET q == Requests!RequestStep(p, c)
           IN  \/ Refuses(p, q)
               \/ /\ c \notin Requests!Controls
                  /\ Changes(p, q, {"state", "uri"})
                  /\ q.state = "RequestUri"
                  /\ q.uri = Append(p.uri, c)
<1>1. Requests!RequestStep(p, c) = Requests!RequestUriStart(p, c)
  BY DEF Requests!RequestStep, Requests!HttpNameStates, Requests!HeaderStates,
         Requests!BodyStates
<1>2. CASE Requests!isControl(c)
  BY <1>1, <1>2, ErrorRefuses DEF Requests!RequestUriStart
<1>3. CASE ~Requests!isControl(c)
  <2>1. Requests!RequestStep(p, c)
          = Requests!PushUri(Requests!Move(p, "RequestUri"), c)
    BY <1>1, <1>3 DEF Requests!RequestUriStart
  <2> QED
    BY <1>3, <2>1, PushUriDoes, MoveMoves
       DEF Moves, Changes, Fields, Requests!isControl
<1> QED
  BY <1>2, <1>3

\* A space ends the URI, and a CR the whole request.
LEMMA StepUri ==
    ASSUME NEW p, IsParser(p), NEW c, p.state = "RequestUri"
    PROVE  LET q == Requests!RequestStep(p, c)
           IN  \/ Refuses(p, q)
               \/ c = Space /\ Moves(p, q, "RequestHttpVersion_h")
               \/ /\ c = "CR"
                  /\ Changes(p, q, {"versionMajor", "versionMinor", "result"})
                  /\ q.result = "ParsingCompleted"
               \/ /\ c \notin {Space} \cup Requests!Controls
                  /\ Changes(p, q, {"uri"})
                  /\ q.uri = Append(p.uri, c)
<1>1. Requests!RequestStep(p, c) = Requests!RequestUri(p, c)
  BY DEF Requests!RequestStep, Requests!HttpNameStates, Requests!HeaderStates,
         Requests!BodyStates
<1>2. CASE c = Space
  BY <1>1, <1>2, MoveMoves
     DEF Requests!RequestUri, Requests!isControl, Requests!Controls, Space
<1>3. CASE c = "CR"
  <2> DEFINE v == [p EXCEPT !.versionMajor = 0, !.versionMinor = 9]
  <2>1. IsParser(v) /\ Changes(p, v, {"versionMajor", "versionMinor"})
    BY DEF IsParser, Changes, Fields
  <2>2. Requests!RequestStep(p, c) = Requests!Completed(v)
    BY <1>1, <1>3 DEF Requests!RequestUri, Space
  <2>3. /\ Changes(v, Requests!Completed(v), {"result"})
        /\ Requests!Completed(v).result = "ParsingCompleted"
    BY <2>1, CompletedDoes
  <2>4. Requests!RequestStep(p, c).result = "ParsingCompleted"
    BY <2>2, <2>3
  <2> HIDE DEF v
  <2>5. Changes(p, Requests!Completed(v), {"versionMajor", "versionMinor", "result"})
    BY <2>1, <2>3 DEF Changes, Fields
  <2> QED
    BY <1>3, <2>2, <2>4, <2>5
<1>4. CASE Requests!isControl(c) /\ c # "CR"
  BY <1>1, <1>4, ErrorRefuses
     DEF Requests!RequestUri, Requests!isControl, Requests!Controls, Space
<1>5. CASE c # Space /\ ~Requests!isControl(c)
  BY <1>1, <1>5, PushUriDoes
     DEF Requests!RequestUri, Requests!isControl, Requests!Controls, Space
<1> QED
  BY <1>2, <1>3, <1>4, <1>5

\* The bytes of "HTTP/".
LEMMA StepName ==
    ASSUME NEW p, IsParser(p), NEW c, p.state \in Requests!HttpNameStates
    PROVE  LET q == Requests!RequestStep(p, c)
           IN  \/ Refuses(p, q)
               \/ p.state = "RequestHttpVersion_h" /\ c = "H"
                  /\ Moves(p, q, "RequestHttpVersion_ht")
               \/ p.state = "RequestHttpVersion_ht" /\ c = "T"
                  /\ Moves(p, q, "RequestHttpVersion_htt")
               \/ p.state = "RequestHttpVersion_htt" /\ c = "T"
                  /\ Moves(p, q, "RequestHttpVersion_http")
               \/ p.state = "RequestHttpVersion_http" /\ c = "P"
                  /\ Moves(p, q, "RequestHttpVersion_slash")
               \/ /\ p.state = "RequestHttpVersion_slash" /\ c = "/"
                  /\ Changes(p, q, {"state", "versionMajor", "versionMinor"})
                  /\ q.state = "RequestHttpVersion_majorStart"
<1>1. Requests!RequestStep(p, c) = Requests!HttpName(p, c)
  BY DEF Requests!RequestStep, Requests!HttpNameStates, Requests!HeaderStates,
         Requests!BodyStates
<1>2. CASE p.state = "RequestHttpVersion_slash" /\ c = "/"
  <2> DEFINE v == Requests!Move(p, "RequestHttpVersion_majorStart")
             w == [v EXCEPT !.versionMajor = 0, !.versionMinor = 0]
  <2>1. Moves(p, v, "RequestHttpVersion_majorStart")
    BY MoveMoves
  <2>2. Requests!RequestStep(p, c) = w
    BY <1>1, <1>2 DEF Requests!HttpName
  <2> HIDE DEF v
  <2>3. Changes(p, w, {"state", "versionMajor", "versionMinor"})
          /\ w.state = "RequestHttpVersion_majorStart"
    BY <2>1 DEF Moves, Changes, IsParser, Fields
  <2> QED
    BY <1>2, <2>2, <2>3
<1>3. CASE ~(p.state = "RequestHttpVersion_slash" /\ c = "/")
  BY <1>1, <1>3, ExpectDoes, ErrorRefuses
     DEF Requests!HttpName, Requests!HttpNameStates
<1> QED
  BY <1>2, <1>3

\* The numbers of the version.
LEMMA StepVersion ==
    ASSUME NEW p, IsParser(p), NEW c, p.state \in VersionStates
    PROVE  LET q == Requests!RequestStep(p, c)
           IN  \/ Refuses(p, q)
               \/ /\ Changes(p, q, {"state", "versionMajor", "versionMinor"})
                  /\ q.state \in VersionStates
               \/ c = "CR" /\ Moves(p, q, "ResponseHttpVersion_newLine")
<1>1. Requests!RequestStep(p, c) = Requests!HttpVersion(p, c)
  BY DEF Requests!RequestStep, Requests!HttpNameStates, Requests!HeaderStates,
         Requests!BodyStates, VersionStates
<1>2. ASSUME NEW v, Changes(p, v, {"state"}), v.state \in VersionStates, NEW n,
               NEW r, r = [v EXCEPT !.versionMajor = n] \/ r = [v EXCEPT !.versionMinor = n]
      PROVE  /\ Changes(p, r, {"state", "versionMajor", "versionMinor"})
             /\ r.state \in VersionStates
  <2>1. v = [f \in Fields |-> v[f]] /\ \A f \in Fields \ {"state"} : v[f] = p[f]
    BY <1>2 DEF Changes, IsParser
  <2> DEFINE r1 == [v EXCEPT !.versionMajor = n]
             r2 == [v EXCEPT !.versionMinor = n]
  <2>2. /\ Changes(p, r1, {"state", "versionMajor", "versionMinor"})
        /\ r1.state = v.state
    BY <2>1 DEF Changes, IsParser, Fields
  <2>3. /\ Changes(p, r2, {"state", "versionMajor", "versionMinor"})
        /\ r2.state = v.state
    BY <2>1 DEF Changes, IsParser, Fields
  <2> QED
    BY <1>2, <2>2, <2>3
<1>3. ASSUME NEW s \in VersionStates
      PROVE  Changes(p, Requests!Move(p, s), {"state"})
               /\ Requests!Move(p, s).state = s
  BY MoveMoves DEF Moves
<1>4. Changes(p, p, {"state"})
  BY DEF Changes
<1>5. CASE Requests!isDigit(c)
  <2>1. c # "." /\ c # "CR"
    BY <1>5 DEF Requests!isDigit, Requests!Digits
  <2>2. CASE p.state = "RequestHttpVersion_majorStart"
    <3> DEFINE v == Requests!Move(p, "RequestHttpVersion_major")
    <3>1. Requests!RequestStep(p, c) = [v EXCEPT !.versionMajor = Requests!DigitValue[c]]
      BY <1>1, <1>5, <2>1, <2>2 DEF Requests!HttpVersion
    <3>2. Changes(p, v, {"state"}) /\ v.state \in VersionStates
      BY <1>3 DEF VersionStates
    <3> HIDE DEF v
    <3> QED
      BY <1>2, <3>1, <3>2
  <2>3. CASE p.state = "RequestHttpVersion_major"
    BY <1>1, <1>5, <2>1, <2>3, <1>2, <1>4 DEF Requests!HttpVersion, VersionStates
  <2>4. CASE p.state = "RequestHttpVersion_minorStart"
    <3> DEFINE v == Requests!Move(p, "RequestHttpVersion_minor")
    <3>1. Requests!RequestStep(p, c) = [v EXCEPT !.versionMinor = Requests!DigitValue[c]]
      BY <1>1, <1>5, <2>1, <2>4 DEF Requests!HttpVersion
    <3>2. Changes(p, v, {"state"}) /\ v.state \in VersionStates
      BY <1>3 DEF VersionStates
    <3> HIDE DEF v
    <3> QED
      BY <1>2, <3>1, <3>2
  <2>5. CASE p.state = "RequestHttpVersion_minor"
    BY <1>1, <1>5, <2>1, <2>5, <1>2, <1>4 DEF Requests!HttpVersion, VersionStates
  <2> QED
    BY <2>2, <2>3, <2>4, <2>5 DEF VersionStates
<1>6. CASE ~Requests!isDigit(c)
  <2>1. CASE p.state = "RequestHttpVersion_major" /\ c = "."
    <3>1. Requests!RequestStep(p, c) = Requests!Move(p, "RequestHttpVersion_minorStart")
      BY <1>1, <1>6, <2>1 DEF Requests!HttpVersion
    <3> QED
      BY <3>1, <1>3 DEF VersionStates, Changes
  <2>2. CASE p.state = "RequestHttpVersion_minor" /\ c = "CR"
    BY <1>1, <1>6, <2>2, MoveMoves DEF Requests!HttpVersion
  <2>3. CASE /\ ~(p.state = "RequestHttpVersion_major" /\ c = ".")
             /\ ~(p.state = "RequestHttpVersion_minor" /\ c = "CR")
    BY <1>1, <1>6, <2>3, ErrorRefuses DEF Requests!HttpVersion
  <2> QED
    BY <2>1, <2>2, <2>3
<1> QED
  BY <1>5, <1>6

\* The end of the request line.
LEMMA StepNewLine ==
    ASSUME NEW p, IsParser(p), NEW c, p.state = "ResponseHttpVersion_newLine"
    PROVE  LET q == Requests!RequestStep(p, c)
           IN  Refuses(p, q) \/ (c = "LF" /\ Moves(p, q, "HeaderLineStart"))
<1>1. Requests!RequestStep(p, c) = Requests!Expect(p, c, "LF", "HeaderLineStart")
  BY DEF Requests!RequestStep, Requests!HttpNameStates, Requests!HeaderStates,
         Requests!BodyStates
<1> QED
  BY <1>1, ExpectDoes

\* The header lines of a request that has no body.
LEMMA StepHeader ==
    ASSUME NEW p, IsParser(p), NEW c, ~Requests!HasBody(p), p.chunked = FALSE,
           p.contentSize = 0, p.state \in Requests!HeaderStates
    PROVE  LET q == Requests!RequestStep(p, c)
           IN  \/ Changes(p, q, {"keepAlive", "result"}) /\ q.result = "ParsingError"
               \/ p.state = "HeaderLineStart" /\ c = "CR"
                  /\ Moves(p, q, "ExpectingNewline_3")
               \/ p.state \in {"HeaderLws", "HeaderValue"} /\ c = "CR"
                  /\ Moves(p, q, "ExpectingNewline_2")
               \/ p.state = "ExpectingNewline_2" /\ c = "LF"
                  /\ Moves(p, q, "HeaderLineStart")
               \/ p.state = "ExpectingNewline_3" /\ c = "LF"
                  /\ Changes(p, q, {"keepAlive", "result"})
                  /\ q.result = "ParsingCompleted"
               \/ /\ Changes(p, q, {"state", "headers"})
                  /\ q.state \in {"HeaderLws", "HeaderName", "HeaderValue",
                                  "SpaceBeforeHeaderValue"}
<1> DEFINE q == Requests!RequestStep(p, c)
           InLine(r) == /\ Changes(p, r, {"state", "headers"})
                        /\ r.state \in {"HeaderLws", "HeaderName", "HeaderValue",
                                        "SpaceBeforeHeaderValue"}
<1>1. q = Requests!HeaderStep(p, c, Requests!HasBody(p))
  BY DEF Requests!RequestStep, Requests!HttpNameStates, Requests!HeaderStates,
         Requests!BodyStates
<1>2. Refuses(p, q) => Changes(p, q, {"keepAlive", "result"}) /\ q.result = "ParsingError"
  BY DEF Refuses, Changes
<1>3. ASSUME NEW s \in {"HeaderLws", "HeaderName", "HeaderValue",
                        "SpaceBeforeHeaderValue"}
      PROVE  /\ InLine(Requests!Move(p, s))
             /\ InLine(Requests!PushValue(Requests!Move(p, s), c))
             /\ \A h : InLine([Requests!Move(p, s) EXCEPT !.headers = Append(@, h)])
  <2> DEFINE v == Requests!Move(p, s)
  <2>1. Moves(p, v, s)
    BY MoveMoves
  <2> HIDE DEF v
  <2>2. InLine(v) /\ \A h : InLine([v EXCEPT !.headers = Append(@, h)])
    BY <2>1 DEF Moves, Changes, IsParser, Fields
  <2>3. Changes(v, Requests!PushValue(v, c), {"headers"})
    BY <2>1, PushHeaderDoes DEF Moves, Changes
  <2>4. InLine(Requests!PushValue(v, c))
    BY <2>1, <2>3 DEF Moves, Changes, Fields
  <2> QED
    BY <2>2, <2>4 DEF v
<1>4. CASE p.state = "HeaderLineStart"
  <2>1. q = Requests!HeaderLineStart(p, c)
    BY <1>1, <1>4 DEF Requests!HeaderStep
  <2>2. CASE c = "CR"
    BY <1>4, <2>1, <2>2, MoveMoves
       DEF Requests!HeaderLineStart, Requests!isToken, Requests!isControl,
           Requests!Controls
  <2>3. CASE c # "CR" /\ p.headers # <<>> /\ c \in {" ", "HT"}
    BY <1>3, <2>1, <2>3
       DEF Requests!HeaderLineStart, Requests!isToken, Requests!isSpecial,
           Requests!Specials
  <2>4. CASE c # "CR" /\ ~(p.headers # <<>> /\ c \in {" ", "HT"})
             /\ Requests!isToken(c)
    <3> DEFINE v == [Requests!Move(p, "HeaderName") EXCEPT
                       !.headers = Append(@, [name |-> <<c>>, value |-> <<>>])]
    <3>1. InLine(v)
      BY <1>3
    <3>2. q = v
      BY <2>1, <2>4 DEF Requests!HeaderLineStart
    <3>3. InLine(q)
      BY Zenon, <3>1, <3>2
    <3> HIDE DEF v
    <3> QED
      BY <3>3
  <2>5. CASE c # "CR" /\ ~(p.headers # <<>> /\ c \in {" ", "HT"})
             /\ ~Requests!isToken(c)
    BY <1>2, <2>1, <2>5, ErrorRefuses DEF Requests!HeaderLineStart
  <2> QED
    BY <2>2, <2>3, <2>4, <2>5
<1>5. CASE p.state = "HeaderLws"
  <2>1. q = Requests!HeaderLws(p, c)
    BY <1>1, <1>5 DEF Requests!HeaderStep
  <2> USE DEF Requests!HeaderLws, Requests!isControl, Requests!Controls
  <2>2. CASE c = "CR"
    BY <1>5, <2>1, <2>2, MoveMoves
  <2>3. CASE c \in {" ", "HT"}
    BY <1>5, <2>1, <2>3 DEF Changes
  <2>4. CASE Requests!isControl(c) /\ c \notin {"CR", " ", "HT"}
    BY <1>2, <2>1, <2>4, ErrorRefuses
  <2>5. CASE c # " " /\ ~Requests!isControl(c)
    BY <1>3, <2>1, <2>5
  <2> QED
    BY <2>2, <2>3, <2>4, <2>5
<1>6. CASE p.state = "HeaderName"
  <2>1. q = Requests!HeaderName(p, c)
    BY <1>1, <1>6 DEF Requests!HeaderStep
  <2>2. CASE c = ":"
    BY <1>3, <2>1, <2>2
       DEF Requests!HeaderName, Requests!isToken, Requests!isSpecial,
           Requests!Specials
  <2>3. CASE c # ":" /\ Requests!isToken(c)
    BY <1>6, <2>1, <2>3, PushHeaderDoes DEF Requests!HeaderName, Changes, Fields
  <2>4. CASE c # ":" /\ ~Requests!isToken(c)
    BY <1>2, <2>1, <2>4, ErrorRefuses DEF Requests!HeaderName
  <2> QED
    BY <2>2, <2>3, <2>4
<1>7. CASE p.state = "SpaceBeforeHeaderValue"
  <2>1. q = Requests!Expect(p, c, " ", "HeaderValue")
    BY <1>1, <1>7 DEF Requests!HeaderStep
  <2> QED
    BY <1>2, <1>3, <2>1, ErrorRefuses DEF Requests!Expect
<1>8. CASE p.state = "HeaderValue"
  <2>1. q = Requests!HeaderValue(p, c, Requests!HasBody(p))
    BY <1>1, <1>8 DEF Requests!HeaderStep
  <2> USE DEF Requests!HeaderValue, Requests!isControl, Requests!Controls
  <2>2. CASE c = "CR"
    BY <1>8, <2>1, <2>2, MoveMoves
  <2>3. CASE Requests!isControl(c) /\ c # "CR"
    BY <1>2, <2>1, <2>3, ErrorRefuses
  <2>4. CASE ~Requests!isControl(c)
    <3>1. q = Requests!PushValue(p, c)
      BY <2>1, <2>4
    <3> QED
      BY <1>8, <3>1, PushHeaderDoes DEF Changes, Fields
  <2> QED
    BY <2>2, <2>3, <2>4
<1>9. CASE p.state = "ExpectingNewline_2"
  <2>1. q = Requests!Expect(p, c, "LF", "HeaderLineStart")
    BY <1>1, <1>9 DEF Requests!HeaderStep
  <2> QED
    BY <1>2, <1>9, <2>1, ExpectDoes
<1>10. CASE p.state = "ExpectingNewline_3"
  <2> DEFINE v == [p EXCEPT !.keepAlive = Requests!KeepAlive(p)]
  <2>1. q = Requests!HeadEnds(p, c)
    BY <1>1, <1>10 DEF Requests!HeaderStep
  <2>2. q = IF c = "LF" THEN Requests!Completed(v) ELSE Requests!Error(v)
    BY <2>1 DEF Requests!HeadEnds
  <2>3. Changes(p, v, {"keepAlive"})
    BY DEF Changes, IsParser, Fields
  <2> HIDE DEF v
  <2>4. Refuses(v, Requests!Error(v))
    BY <2>3, ErrorRefuses DEF Changes
  <2>5. /\ Changes(v, Requests!Completed(v), {"result"})
        /\ Requests!Completed(v).result = "ParsingCompleted"
    BY <2>3, CompletedDoes DEF Changes
  <2> QED
    BY <1>10, <2>2, <2>3, <2>4, <2>5 DEF Refuses, Changes, Fields
<1> QED
  BY <1>4, <1>5, <1>6, <1>7, <1>8, <1>9, <1>10 DEF Requests!HeaderStates

\* The header lines and the body of any request: neither the method nor the URI
\* changes.
LateStates == Requests!HeaderStates \cup Requests!BodyStates
Results == {"ParsingIncompleted", "ParsingCompleted", "ParsingError", "terminated"}

Late(p) == IsParser(p) /\ p.state \in LateStates /\ p.result \in Results

Keeps(p, q) == Late(q) /\ q.method = p.method /\ q.uri = p.uri

\* A step that is made of two steps.
LEMMA KeepsTwice ==
    ASSUME NEW p, NEW q, NEW r, Keeps(p, q), Keeps(q, r) PROVE Keeps(p, r)
  BY DEF Keeps

\* Whatever leaves these four fields alone.
LEMMA ChangesKeep ==
    ASSUME NEW p, NEW q, Late(p),
           Changes(p, q, Fields \ {"method", "uri", "state", "result"})
    PROVE  Keeps(p, q)
  BY DEF Keeps, Changes, Late, Fields

\* The end of the work.
LEMMA ErrorKeeps ==
    ASSUME NEW p, Late(p)
    PROVE  /\ Keeps(p, Requests!Error(p)) /\ Keeps(p, Requests!Completed(p))
           /\ Keeps(p, Requests!Terminated(p))
<1>1. Refuses(p, Requests!Error(p))
  BY ErrorRefuses DEF Late
<1>2. /\ Changes(p, Requests!Completed(p), {"result"})
      /\ Requests!Completed(p).result = "ParsingCompleted"
  BY CompletedDoes DEF Late
<1>3. /\ Changes(p, Requests!Terminated(p), {"result"})
      /\ Requests!Terminated(p).result = "terminated"
  BY DEF Requests!Terminated, Late, IsParser, Changes, Fields
<1> QED
  BY <1>1, <1>2, <1>3 DEF Refuses, Changes, Keeps, Late, Fields, Results

\* Another state of the same kind.
LEMMA MoveKeeps ==
    ASSUME NEW p, Late(p), NEW s \in LateStates PROVE Keeps(p, Requests!Move(p, s))
<1>1. Moves(p, Requests!Move(p, s), s)
  BY MoveMoves DEF Late
<1> QED
  BY <1>1 DEF Moves, Changes, Keeps, Late, Fields

\* The one byte that is expected.
LEMMA ExpectKeeps ==
    ASSUME NEW p, Late(p), NEW s \in LateStates, NEW c, NEW byte
    PROVE  Keeps(p, Requests!Expect(p, c, byte, s))
  BY MoveKeeps, ErrorKeeps DEF Requests!Expect

\* A byte of a header or of the body.
LEMMA PushKeeps ==
    ASSUME NEW p, Late(p), NEW c
    PROVE  /\ Keeps(p, Requests!PushValue(p, c))
           /\ Keeps(p, Requests!PushName(p, c))
           /\ Keeps(p, Requests!PushContent(p, c))
<1>1. Changes(p, Requests!PushContent(p, c), {"content"})
  BY DEF Late, IsParser, Changes, Requests!PushContent, Fields
<1>2. /\ Changes(p, Requests!PushName(p, c), {"headers"})
      /\ Changes(p, Requests!PushValue(p, c), {"headers"})
  BY PushHeaderDoes DEF Late
<1> QED
  BY <1>1, <1>2, ChangesKeep DEF Changes, Fields

\* Any other field.
LEMMA SetKeeps ==
    ASSUME NEW p, Late(p), NEW v, NEW w, NEW q,
           \/ q = [p EXCEPT !.headers = v]
           \/ q = [p EXCEPT !.contentSize = v]
           \/ q = [p EXCEPT !.chunked = v]
           \/ q = [p EXCEPT !.keepAlive = v]
           \/ q = [p EXCEPT !.chunkSize = v]
           \/ q = [p EXCEPT !.chunkSizeStr = v]
           \/ q = [p EXCEPT !.chunkSize = v, !.chunkSizeStr = w]
    PROVE  Keeps(p, q)
  BY DEF Keeps, Late, IsParser, Fields

\* The header lines.
LEMMA HeaderKeeps ==
    ASSUME NEW p, Late(p), NEW c, p.state \in Requests!HeaderStates, NEW measured
    PROVE  Keeps(p, Requests!HeaderStep(p, c, measured))
<1> USE KeepsTwice, ErrorKeeps, MoveKeeps, PushKeeps
<1>0. Requests!HeaderStates \subseteq LateStates /\ Requests!BodyStates \subseteq LateStates
  BY DEF LateStates
<1>1. CASE p.state = "HeaderLineStart"
  <2> DEFINE v == Requests!Move(p, "HeaderName")
             h == [name |-> <<c>>, value |-> <<>>]
  <2>1. Keeps(p, v) /\ Keeps(p, Requests!Move(p, "HeaderLws"))
          /\ Keeps(p, Requests!Move(p, "ExpectingNewline_3"))
    BY <1>0 DEF Requests!HeaderStates
  <2>2. Keeps(v, [v EXCEPT !.headers = Append(@, h)])
    <3> HIDE DEF v, h
    <3>1. Late(v)
      BY <2>1 DEF Keeps
    <3> QED
      BY <3>1, SetKeeps
  <2>3. Keeps(p, [v EXCEPT !.headers = Append(@, h)])
    BY <2>1, <2>2
  <2>4. Requests!HeaderStep(p, c, measured) = Requests!HeaderLineStart(p, c)
    BY <1>1 DEF Requests!HeaderStep
  <2>5. \/ Requests!HeaderLineStart(p, c) = Requests!Move(p, "ExpectingNewline_3")
        \/ Requests!HeaderLineStart(p, c) = Requests!Move(p, "HeaderLws")
        \/ Requests!HeaderLineStart(p, c) = [v EXCEPT !.headers = Append(@, h)]
        \/ Requests!HeaderLineStart(p, c) = Requests!Error(p)
    BY DEF Requests!HeaderLineStart, Requests!isToken, Requests!isControl,
           Requests!Controls, Requests!isSpecial, Requests!Specials
  <2> QED
    BY <2>1, <2>3, <2>4, <2>5
<1>2. CASE p.state = "HeaderLws"
  <2> DEFINE v == Requests!Move(p, "HeaderValue")
  <2>1. Keeps(p, v) /\ Keeps(p, Requests!Move(p, "ExpectingNewline_2")) /\ Keeps(p, p)
    BY <1>0 DEF Requests!HeaderStates, Keeps
  <2>2. Keeps(p, Requests!PushValue(v, c))
    BY <2>1 DEF Keeps
  <2>3. Requests!HeaderStep(p, c, measured) = Requests!HeaderLws(p, c)
    BY <1>2 DEF Requests!HeaderStep
  <2>4. Requests!HeaderLws(p, c) \in
          {Requests!Move(p, "ExpectingNewline_2"), p, Requests!Error(p),
           Requests!PushValue(v, c)}
    BY DEF Requests!HeaderLws, Requests!isControl, Requests!Controls
  <2> QED
    BY <2>1, <2>2, <2>3, <2>4
<1>3. CASE p.state = "HeaderName"
  <2>1. Keeps(p, Requests!Move(p, "SpaceBeforeHeaderValue"))
    BY <1>0 DEF Requests!HeaderStates
  <2>2. Requests!HeaderStep(p, c, measured) = Requests!HeaderName(p, c)
    BY <1>3 DEF Requests!HeaderStep
  <2>3. Requests!HeaderName(p, c) \in
          {Requests!Move(p, "SpaceBeforeHeaderValue"), Requests!PushName(p, c),
           Requests!Error(p)}
    BY DEF Requests!HeaderName, Requests!isToken, Requests!isSpecial, Requests!Specials
  <2> QED
    BY <2>1, <2>2, <2>3
<1>4. CASE p.state = "SpaceBeforeHeaderValue"
  BY <1>0, <1>4, ExpectKeeps DEF Requests!HeaderStep, Requests!HeaderStates
<1>5. CASE p.state = "HeaderValue"
  <2> DEFINE v == IF measured THEN Requests!MeasureBody(p) ELSE p
  <2>1. Keeps(p, v)
    <3> DEFINE h == Requests!LastHeader(p)
               length == Requests!NumberOf(h.value, 10)
               ofLength == [p EXCEPT !.contentSize = length]
               inChunks == [p EXCEPT !.chunked = TRUE]
    <3>1. Requests!MeasureBody(p) \in {p, ofLength, inChunks, Requests!Terminated(p)}
      <4>1. CASE h.name = <<"Content-Length">> /\ length >= 0
        BY <4>1 DEF Requests!MeasureBody
      <4>4. CASE h.name = <<"Content-Length">> /\ ~(length >= 0) /\ length < 0
        BY <4>4 DEF Requests!MeasureBody
      <4>5. CASE h.name = <<"Content-Length">> /\ ~(length >= 0) /\ ~(length < 0)
        BY <4>5 DEF Requests!MeasureBody
      <4>2. CASE h.name = <<"Transfer-Encoding">> /\ h.value = <<"chunked">>
        BY <4>2 DEF Requests!MeasureBody
      <4>3. CASE /\ h.name # <<"Content-Length">>
                 /\ ~(h.name = <<"Transfer-Encoding">> /\ h.value = <<"chunked">>)
        BY <4>3 DEF Requests!MeasureBody
      <4> QED
        BY <4>1, <4>2, <4>3, <4>4, <4>5
    <3>2. Keeps(p, ofLength) /\ Keeps(p, inChunks)
      BY SetKeeps
    <3> QED
      BY <3>1, <3>2 DEF Keeps
  <2>2. Keeps(p, Requests!Move(v, "ExpectingNewline_2"))
    BY <1>0, <2>1 DEF Requests!HeaderStates, Keeps
  <2>3. Requests!HeaderStep(p, c, measured) = Requests!HeaderValue(p, c, measured)
    BY <1>5 DEF Requests!HeaderStep
  <2>4. \/ Requests!HeaderValue(p, c, measured) = Requests!Move(v, "ExpectingNewline_2")
        \/ Requests!HeaderValue(p, c, measured) = Requests!Error(p)
        \/ Requests!HeaderValue(p, c, measured) = Requests!PushValue(p, c)
    BY DEF Requests!HeaderValue, Requests!isControl, Requests!Controls
  <2> QED
    BY <2>2, <2>3, <2>4
<1>6. CASE p.state = "ExpectingNewline_2"
  BY <1>0, <1>6, ExpectKeeps DEF Requests!HeaderStep, Requests!HeaderStates
<1>7. CASE p.state = "ExpectingNewline_3"
  <2> DEFINE v == [p EXCEPT !.keepAlive = Requests!KeepAlive(p)]
  <2>1. Keeps(p, v)
    BY SetKeeps
  <2>2. Requests!HeaderStep(p, c, measured) = Requests!HeadEnds(p, c)
    BY <1>7 DEF Requests!HeaderStep
  <2>3. \/ Requests!HeadEnds(p, c) = Requests!Move(v, "ChunkSize")
        \/ Requests!HeadEnds(p, c) = Requests!Move(v, "Post")
        \/ Requests!HeadEnds(p, c) = Requests!Completed(v)
        \/ Requests!HeadEnds(p, c) = Requests!Error(v)
    BY DEF Requests!HeadEnds
  <2> HIDE DEF v
  <2>4. Late(v)
    BY <2>1 DEF Keeps
  <2>5. "ChunkSize" \in LateStates /\ "Post" \in LateStates
    BY <1>0 DEF Requests!BodyStates
  <2>6. /\ Keeps(v, Requests!Move(v, "ChunkSize")) /\ Keeps(v, Requests!Move(v, "Post"))
        /\ Keeps(v, Requests!Completed(v)) /\ Keeps(v, Requests!Error(v))
    BY <2>4, <2>5
  <2>7. /\ Keeps(p, Requests!Move(v, "ChunkSize")) /\ Keeps(p, Requests!Move(v, "Post"))
        /\ Keeps(p, Requests!Completed(v)) /\ Keeps(p, Requests!Error(v))
    BY <2>1, <2>6
  <2> QED
    BY <2>2, <2>3, <2>7
<1> QED
  BY <1>1, <1>2, <1>3, <1>4, <1>5, <1>6, <1>7 DEF Requests!HeaderStates

\* The body, of a length or in chunks.
LEMMA BodyKeeps ==
    ASSUME NEW p, Late(p), NEW c, p.state \in Requests!BodyStates
    PROVE  Keeps(p, Requests!BodyStep(p, c))
<1> USE KeepsTwice, ErrorKeeps, MoveKeeps, PushKeeps
<1>0. Requests!HeaderStates \subseteq LateStates /\ Requests!BodyStates \subseteq LateStates
  BY DEF LateStates
<1>1. \A s \in Requests!BodyStates : Keeps(p, Requests!Move(p, s))
  BY <1>0
<1>2. Keeps(p, p)
  BY DEF Keeps
<1>3. CASE p.state = "Post"
  <2> DEFINE v == Requests!PushContent(p, c)
             w == [v EXCEPT !.contentSize = @ - 1]
  <2>1. Keeps(p, w)
    <3>1. Keeps(p, v) /\ Late(v)
      BY DEF Keeps
    <3> HIDE DEF v
    <3>2. Keeps(v, w)
      BY <3>1, SetKeeps
    <3> QED
      BY <3>1, <3>2
  <2>2. Requests!BodyStep(p, c) = IF w.contentSize = 0 THEN Requests!Completed(w) ELSE w
    BY <1>3 DEF Requests!BodyStep, Requests!Post
  <2> HIDE DEF w
  <2> QED
    BY <2>1, <2>2 DEF Keeps
<1>4. CASE p.state = "ChunkSize"
  <2> DEFINE v == [p EXCEPT !.chunkSizeStr = Append(@, c)]
  <2>1. Keeps(p, v)
    BY SetKeeps
  <2>2. Requests!BodyStep(p, c) = Requests!ChunkSize(p, c)
    BY <1>4 DEF Requests!BodyStep
  <2>3. \/ Requests!ChunkSize(p, c) = v
        \/ Requests!ChunkSize(p, c) = Requests!Move(p, "ChunkExtensionName")
        \/ Requests!ChunkSize(p, c) = Requests!Move(p, "ChunkSizeNewLine")
        \/ Requests!ChunkSize(p, c) = Requests!Error(p)
    BY DEF Requests!ChunkSize
  <2>4. /\ Keeps(p, Requests!Move(p, "ChunkExtensionName"))
        /\ Keeps(p, Requests!Move(p, "ChunkSizeNewLine")) /\ Keeps(p, Requests!Error(p))
    BY <1>1 DEF Requests!BodyStates
  <2> HIDE DEF v
  <2> QED
    BY <2>1, <2>2, <2>3, <2>4
<1>5. CASE p.state \in {"ChunkExtensionName", "ChunkExtensionValue"}
  <2>1. Requests!BodyStep(p, c) = Requests!ChunkExtension(p, c)
    BY <1>5 DEF Requests!BodyStep
  <2>2. \/ Requests!ChunkExtension(p, c) = p
        \/ Requests!ChunkExtension(p, c) = Requests!Move(p, "ChunkExtensionValue")
        \/ Requests!ChunkExtension(p, c) = Requests!Move(p, "ChunkSizeNewLine")
        \/ Requests!ChunkExtension(p, c) = Requests!Error(p)
    BY DEF Requests!ChunkExtension
  <2> QED
    BY <1>1, <1>2, <2>1, <2>2 DEF Requests!BodyStates
<1>6. CASE p.state = "ChunkSizeNewLine"
  <2> DEFINE size == Requests!NumberOf(p.chunkSizeStr, 16)
             v == Requests!Move(p, IF size = 0 THEN "ChunkSizeNewLine_2" ELSE "ChunkData")
             w == [v EXCEPT !.chunkSize = size, !.chunkSizeStr = <<>>]
  <2>1. Keeps(p, w)
    <3>1. Keeps(p, v) /\ Late(v)
      BY <1>1 DEF Keeps, Requests!BodyStates
    <3> HIDE DEF v, size
    <3>2. Keeps(v, w)
      BY <3>1, SetKeeps
    <3> QED
      BY <3>1, <3>2
  <2>2. Requests!BodyStep(p, c) = Requests!ChunkBegins(p, c)
    BY <1>6 DEF Requests!BodyStep
  <2>3. Requests!ChunkBegins(p, c) \in {Requests!Error(p), Requests!Terminated(p), w}
    BY DEF Requests!ChunkBegins
  <2> HIDE DEF w
  <2> QED
    BY <2>1, <2>2, <2>3
<1>7. CASE p.state = "ChunkData"
  <2> DEFINE v == Requests!PushContent(p, c)
             w == [v EXCEPT !.chunkSize = @ - 1]
  <2>1. Keeps(p, w)
    <3>1. Keeps(p, v) /\ Late(v)
      BY DEF Keeps
    <3> HIDE DEF v
    <3>2. Keeps(v, w)
      BY <3>1, SetKeeps
    <3> QED
      BY <3>1, <3>2
  <2>2. Requests!BodyStep(p, c)
          = IF w.chunkSize = 0 THEN Requests!Move(w, "ChunkDataNewLine_1") ELSE w
    BY <1>7 DEF Requests!BodyStep, Requests!ChunkData
  <2> HIDE DEF w
  <2>3. Keeps(p, Requests!Move(w, "ChunkDataNewLine_1"))
    BY <1>0, <2>1 DEF Keeps, Requests!BodyStates
  <2> QED
    BY <2>1, <2>2, <2>3
<1>8. CASE p.state = "ChunkDataNewLine_1"
  BY <1>0, <1>8, ExpectKeeps DEF Requests!BodyStep, Requests!BodyStates
<1>9. CASE p.state = "ChunkDataNewLine_2"
  BY <1>0, <1>9, ExpectKeeps DEF Requests!BodyStep, Requests!BodyStates
<1>10. CASE p.state \in {"ChunkSizeNewLine_2", "ChunkSizeNewLine_3",
                         "ChunkTrailerName", "ChunkTrailerValue"}
  <2>1. Requests!BodyStep(p, c) = Requests!Trailer(p, c)
    BY <1>10 DEF Requests!BodyStep
  <2>2. \/ Requests!Trailer(p, c) \in {p, Requests!Error(p), Requests!Completed(p)}
        \/ \E s \in Requests!BodyStates : Requests!Trailer(p, c) = Requests!Move(p, s)
    BY <1>10 DEF Requests!Trailer, Requests!BodyStates, Requests!isalnum,
                Requests!isalpha, Requests!isDigit, Requests!AlphaWords, Requests!Digits
  <2> QED
    BY <1>1, <1>2, <2>1, <2>2
<1> QED
  BY <1>3, <1>4, <1>5, <1>6, <1>7, <1>8, <1>9, <1>10 DEF Requests!BodyStates

\* One byte behind the request line.
LEMMA StepLate ==
    ASSUME NEW p, Late(p), NEW c
    PROVE  Keeps(p, Requests!RequestStep(p, c))
<1>1. CASE p.state \in Requests!HeaderStates
  <2>1. Requests!RequestStep(p, c) = Requests!HeaderStep(p, c, Requests!HasBody(p))
    BY <1>1 DEF Requests!RequestStep, Requests!HttpNameStates, Requests!HeaderStates,
                Requests!BodyStates
  <2> QED
    BY <1>1, <2>1, HeaderKeeps
<1>2. CASE p.state \in Requests!BodyStates
  <2>1. Requests!RequestStep(p, c) = Requests!BodyStep(p, c)
    BY <1>2 DEF Requests!RequestStep, Requests!HttpNameStates, Requests!HeaderStates,
                Requests!BodyStates
  <2> QED
    BY <1>2, <2>1, BodyKeeps
<1> QED
  BY <1>1, <1>2 DEF Late, LateStates

-----------------------------------------------------------------------------
(* One byte more of the text has been read.                                *)

\* The URI and the next byte are the longer URI.
LEMMA SubSeqGrows ==
    ASSUME NEW S, NEW t \in Seq(S), NEW k \in 2..(Len(t) - 1)
    PROVE  Append(SubSeq(t, 3, k), t[k + 1]) = SubSeq(t, 3, k + 1)
<1> DEFINE a == SubSeq(t, 3, k)
           b == SubSeq(t, 3, k + 1)
<1>1. a \in Seq(S) /\ b \in Seq(S) /\ t[k + 1] \in S
  OBVIOUS
<1>2. Len(a) = k - 2 /\ Len(b) = k - 1
  OBVIOUS
<1>3. \A i \in 1..(k - 2) : a[i] = t[i + 2] /\ b[i] = t[i + 2]
  OBVIOUS
<1>4. b[k - 1] = t[k + 1]
  OBVIOUS
<1> HIDE DEF a, b
<1>5. Append(a, t[k + 1]) \in Seq(S) /\ Len(Append(a, t[k + 1])) = Len(b)
  BY <1>1, <1>2
<1>6. \A i \in 1..Len(b) : Append(a, t[k + 1])[i] = b[i]
  BY <1>1, <1>2, <1>3, <1>4
<1>7. Append(a, t[k + 1]) = b
  BY <1>1, <1>5, <1>6
<1> QED
  BY <1>7 DEF a, b

\* No URI of a GET reads like a version.
NotLikeVersion(t) ==
    ~(/\ Len(t) > 6 /\ t[1] = "GET" /\ t[2] = Space /\ t[3] = "H" /\ t[4] = "T"
      /\ t[5] = "T" /\ t[6] = "P" /\ t[7] = "/")

\* An error ends the parser's work; nothing more is to be said of it.
LEMMA RefusedReading ==
    ASSUME NEW t, NEW k \in Nat, NEW p, Reading(p, t, k), NEW q,
           Changes(p, q, {"keepAlive", "result"}), q.result = "ParsingError"
    PROVE  Reading(q, t, k + 1)
<1>1. /\ IsParser(q) /\ q.state = p.state /\ q.method = p.method /\ q.uri = p.uri
      /\ q.contentSize = p.contentSize /\ q.chunked = p.chunked
  BY DEF Changes, Fields
<1> QED
  BY <1>1 DEF Reading, Types, MethodRead, UriRead, NoBody, Trail, Whole, IsGet

\* What an appended byte makes of a text.
LEMMA AppendFacts ==
    ASSUME NEW S, NEW s \in Seq(S), NEW c \in S
    PROVE  /\ Append(s, c) \in Seq(S)
           /\ Append(s, c) # <<>>
           /\ s = <<>> => Append(s, c)[1] = c
           /\ s # <<>> => Append(s, c)[1] = s[1] /\ Len(Append(s, c)) > 1
<1>1. /\ Append(s, c) \in Seq(S) /\ Append(s, c) # <<>>
      /\ Len(Append(s, c)) = Len(s) + 1 /\ Append(s, c)[Len(s) + 1] = c
      /\ \A i \in 1..Len(s) : Append(s, c)[i] = s[i]
  OBVIOUS
<1>2. Len(s) \in Nat /\ (s = <<>> => Len(s) = 0) /\ (s # <<>> => Len(s) > 0)
  OBVIOUS
<1> QED
  BY <1>1, <1>2

\* A space is none of the other symbols the proof looks at.
LEMMA SpaceApart == Space \notin {"GET", "CR", "LF", "H", "T", "P", "/"}
  BY DEF Space

\* The method of a GET is one symbol.
LEMMA GetFacts ==
    ASSUME NEW p, IsGet(p)
    PROVE  p.method # <<>> /\ Len(p.method) = 1 /\ p.method[1] = "GET"
  BY DEF IsGet

\* The sets of states are disjoint.
LEMMA StatesApart ==
    /\ \A s \in {"RequestMethodStart", "RequestMethod", "RequestUriStart",
                  "RequestUri", "ResponseHttpVersion_newLine"} :
          s \notin VersionStates \cup Requests!HttpNameStates \cup LateStates
    /\ \A s \in VersionStates : s \notin Requests!HttpNameStates \cup LateStates
    /\ \A s \in Requests!HttpNameStates : s \notin LateStates
    /\ \A s \in Requests!HeaderStates : s \notin Requests!BodyStates
    /\ LateStates = Requests!HeaderStates \cup Requests!BodyStates
    /\ "ResponseHttpVersion_newLine" \notin
          {"RequestMethodStart", "RequestMethod", "RequestUriStart", "RequestUri"}
  BY DEF VersionStates, Requests!HttpNameStates, LateStates, Requests!HeaderStates,
         Requests!BodyStates

\* One byte keeps what is said of the parser: one case per state, and in it one
\* per outcome of the byte.
LEMMA NextReading ==
    ASSUME NEW t \in Seq(Requests!Symbols), NEW k \in 0..(Len(t) - 1), NEW p,
           Reading(p, t, k), p.result = "ParsingIncompleted", NotLikeVersion(t)
    PROVE  Reading(Requests!RequestStep(p, t[k + 1]), t, k + 1)
<1> DEFINE c == t[k + 1]
           q == Requests!RequestStep(p, c)
<1>0. c \in Requests!Symbols
  OBVIOUS
<1>1. /\ IsParser(p) /\ k \in Nat /\ Len(t) \in Nat /\ k < Len(t)
      /\ p.method \in Seq(Requests!Symbols) /\ p.uri \in Seq(Requests!Symbols)
      /\ p.state \in States
  BY DEF Reading, Types
<1>2. ASSUME Refuses(p, q) PROVE Reading(q, t, k + 1)
  BY <1>2, RefusedReading DEF Refuses, Changes
<1>3. MethodRead(p, t, k) /\ UriRead(p, t, k) /\ NoBody(p) /\ Trail(p, t, k)
  BY DEF Reading
<1>4. /\ c = t[k + 1] /\ (k = 0 => c = t[1]) /\ (k = 1 => c = t[2])
      /\ (k = 2 => c = t[3]) /\ (k = 3 => c = t[4]) /\ (k = 4 => c = t[5])
      /\ (k = 5 => c = t[6]) /\ (k = 6 => c = t[7])
  OBVIOUS
<1> SUFFICES Reading(q, t, k + 1)
  OBVIOUS
<1> HIDE DEF c, q
<1>5. CASE p.state = "RequestMethodStart"
  <2>1. CASE /\ Changes(p, q, {"state", "method"}) /\ q.state = "RequestMethod"
             /\ q.method = Append(p.method, c)
    <3>1. /\ IsParser(q) /\ q.uri = p.uri /\ q.result = p.result
          /\ q.contentSize = p.contentSize /\ q.chunked = p.chunked
      BY <2>1 DEF Changes, Fields
    <3>2. p.method = <<>> /\ p.uri = <<>>
      BY <1>3, <1>5 DEF MethodRead
    <3>3. q.method \in Seq(Requests!Symbols) /\ q.method # <<>> /\ q.method[1] = c
      BY <1>0, <1>1, <2>1, <3>2, AppendFacts
    <3>4. Types(q)
      BY <1>1, <2>1, <3>1, <3>3 DEF Types, States, Reading
    <3>5. MethodRead(q, t, k + 1)
      BY <1>3, <1>4, <1>5, <2>1, <3>3 DEF MethodRead
    <3>6. UriRead(q, t, k + 1)
      BY <1>3, <1>5, <2>1, <3>1, <3>2, StatesApart DEF UriRead, MethodRead
    <3>7. NoBody(q) /\ Trail(q, t, k + 1) /\ Whole(q, t, k + 1)
      BY <1>3, <1>5, <2>1, <3>1, StatesApart DEF NoBody, Trail, Whole
    <3> QED
      BY <3>4, <3>5, <3>6, <3>7 DEF Reading
  <2> QED
    BY <1>1, <1>2, <1>5, <2>1, StepMethodStart DEF q
<1>6. CASE p.state = "RequestMethod"
  <2>1. CASE c = Space /\ Moves(p, q, "RequestUriStart")
    <3>1. /\ IsParser(q) /\ q.uri = p.uri /\ q.result = p.result /\ q.method = p.method
          /\ q.contentSize = p.contentSize /\ q.chunked = p.chunked
          /\ q.state = "RequestUriStart"
      BY <2>1 DEF Moves, Changes, Fields
    <3>2. Types(q)
      BY <1>1, <3>1 DEF Types, States, Reading
    <3>3. MethodRead(q, t, k + 1)
      BY <1>3, <1>6, <3>1 DEF MethodRead
    <3>4. ASSUME IsGet(q) PROVE k = 1
      <4>1. IsGet(p) /\ t[1] = "GET"
        BY <1>3, <1>6, <3>1, <3>4, GetFacts DEF IsGet, MethodRead
      <4>2. k < 2
        BY <1>3, <1>6, <4>1 DEF UriRead, Reading
      <4>3. k # 0
        BY <1>4, <2>1, <4>1, SpaceApart
      <4> QED
        BY <1>1, <4>2, <4>3
    <3>5. ASSUME IsGet(q) PROVE q.uri = <<>> /\ k + 1 = 2 /\ Len(t) > 1 /\ t[2] = Space
      <4>1. k = 1 /\ t[2] = Space
        BY <1>4, <2>1, <3>4, <3>5
      <4>2. p.uri = <<>>
        BY <1>3, <1>6, <3>1, <3>5 DEF UriRead, IsGet
      <4> QED
        BY <1>1, <3>1, <4>1, <4>2
    <3>7. UriRead(q, t, k + 1)
      BY <3>1, <3>5, StatesApart DEF UriRead
    <3>6. NoBody(q) /\ Trail(q, t, k + 1) /\ Whole(q, t, k + 1)
      BY <1>3, <1>6, <3>1, StatesApart DEF NoBody, Trail, Whole
    <3> QED
      BY <3>2, <3>3, <3>6, <3>7 DEF Reading
  <2>2. CASE Changes(p, q, {"method"}) /\ q.method = Append(p.method, c)
    <3>1. /\ IsParser(q) /\ q.uri = p.uri /\ q.result = p.result /\ q.state = p.state
          /\ q.contentSize = p.contentSize /\ q.chunked = p.chunked
      BY <2>2 DEF Changes, Fields
    <3>2. /\ q.method \in Seq(Requests!Symbols) /\ q.method # <<>>
          /\ q.method[1] = p.method[1] /\ Len(q.method) > 1
      BY <1>0, <1>1, <1>3, <1>6, <2>2, AppendFacts DEF MethodRead
    <3>3. ASSUME IsGet(q) PROVE FALSE
      <4>1. Len(q.method) = 1
        BY <3>3, GetFacts
      <4> QED
        BY <3>2, <4>1
    <3>4. Types(q)
      BY <1>1, <3>1, <3>2 DEF Types, Reading
    <3>5. MethodRead(q, t, k + 1)
      BY <1>3, <1>6, <3>1, <3>2 DEF MethodRead
    <3>6. NoBody(q)
      BY <1>3, <1>6, <3>1 DEF NoBody
    <3> QED
      BY <3>3, <3>4, <3>5, <3>6 DEF Reading, UriRead, Trail, Whole
  <2> QED
    BY <1>1, <1>2, <1>6, <2>1, <2>2, StepMethod DEF q
<1>7. CASE p.state = "RequestUriStart"
  <2>1. CASE /\ c \notin Requests!Controls /\ Changes(p, q, {"state", "uri"})
             /\ q.state = "RequestUri" /\ q.uri = Append(p.uri, c)
    <3>1. /\ IsParser(q) /\ q.result = p.result /\ q.method = p.method
          /\ q.contentSize = p.contentSize /\ q.chunked = p.chunked
      BY <2>1 DEF Changes, Fields
    <3>2. q.uri \in Seq(Requests!Symbols)
      BY <1>0, <1>1, <2>1, AppendFacts
    <3>3. ASSUME IsGet(p), k = 2 PROVE q.uri = SubSeq(t, 3, k + 1)
      <4>1. p.uri = SubSeq(t, 3, k)
        <5>1. p.uri = <<>>
          BY <1>3, <1>7, <3>3 DEF UriRead
        <5>2. SubSeq(t, 3, k) = <<>>
          BY <3>3
        <5> QED
          BY <5>1, <5>2
      <4>2. k \in 2..(Len(t) - 1)
        BY <1>1, <3>3
      <4> QED
        BY <1>4, <2>1, <4>1, <4>2, SubSeqGrows
    <3>4. Types(q)
      BY <1>1, <2>1, <3>1, <3>2 DEF Types, States, Reading
    <3>5. MethodRead(q, t, k + 1)
      BY <1>3, <1>7, <2>1, <3>1 DEF MethodRead
    <3>6. ASSUME IsGet(q)
          PROVE  \/ k + 1 < 2
                 \/ /\ k + 1 > 2 /\ q.uri = SubSeq(t, 3, k + 1)
                    /\ \A i \in 3..(k + 1) : t[i] \notin Requests!Controls
                    /\ \A i \in 4..(k + 1) : t[i] # Space
      <4>1. IsGet(p) /\ k \in {0, 2}
        BY <1>3, <1>7, <3>1, <3>6 DEF UriRead, IsGet
      <4>2. CASE k = 2
        <5>1. q.uri = SubSeq(t, 3, k + 1)
          BY <3>3, <4>1, <4>2
        <5> QED
          BY <1>4, <2>1, <4>2, <5>1
      <4>3. CASE k = 0
        BY <4>3
      <4> QED
        BY <4>1, <4>2, <4>3
    <3>7. UriRead(q, t, k + 1)
      BY <1>3, <1>7, <2>1, <3>1, <3>6, StatesApart DEF UriRead, IsGet
    <3>8. NoBody(q) /\ Trail(q, t, k + 1) /\ Whole(q, t, k + 1)
      BY <1>3, <1>7, <2>1, <3>1, StatesApart DEF NoBody, Trail, Whole, IsGet
    <3> QED
      BY <3>4, <3>5, <3>7, <3>8 DEF Reading
  <2> QED
    BY <1>1, <1>2, <1>7, <2>1, StepUriStart DEF q
<1>8. CASE p.state = "RequestUri"
  <2>0. ASSUME IsGet(p)
        PROVE  /\ Len(t) > 1 /\ t[1] = "GET" /\ t[2] = Space
               /\ \/ k < 2
                  \/ /\ k > 2 /\ p.uri = SubSeq(t, 3, k)
                     /\ \A i \in 3..k : t[i] \notin Requests!Controls
                     /\ \A i \in 4..k : t[i] # Space
    BY <1>3, <1>8, <2>0, GetFacts DEF UriRead, MethodRead
  <2>1. CASE c = Space /\ Moves(p, q, "RequestHttpVersion_h")
    <3>1. /\ IsParser(q) /\ q.uri = p.uri /\ q.result = p.result /\ q.method = p.method
          /\ q.contentSize = p.contentSize /\ q.chunked = p.chunked
          /\ q.state = "RequestHttpVersion_h"
      BY <2>1 DEF Moves, Changes, Fields
    <3>2. Types(q)
      BY <1>1, <3>1 DEF Types, States, Requests!HttpNameStates, Reading
    <3>3. MethodRead(q, t, k + 1)
      BY <1>3, <1>8, <3>1 DEF MethodRead
    <3>4. ASSUME IsGet(p) PROVE UriKnown(q, t) \/ Spoiled(q, t, k + 1)
      <4>1. CASE k < 2
        BY <1>1, <1>4, <2>0, <2>1, <3>1, <3>4, <4>1, SpaceApart DEF Spoiled
      <4>2. CASE k > 2
        <5>1. UriEnds(t, k + 1)
          BY <1>1, <1>4, <2>0, <2>1, <3>4, <4>2 DEF UriEnds
        <5>2. k + 1 \in 4..Len(t)
          BY <5>1 DEF UriEnds
        <5>3. (k + 1) - 1 = k
          BY <1>1
        <5>4. q.uri = SubSeq(t, 3, (k + 1) - 1)
          BY <2>0, <3>1, <3>4, <4>2, <5>3
        <5> QED
          BY <5>1, <5>2, <5>4 DEF UriKnown
      <4> QED
        BY <2>0, <3>4, <4>1, <4>2
    <3>5. UriRead(q, t, k + 1)
      BY <2>0, <3>1, <3>4, StatesApart DEF UriRead, IsGet, Requests!HttpNameStates
    <3>6. NoBody(q) /\ Trail(q, t, k + 1) /\ Whole(q, t, k + 1)
      BY <1>3, <1>8, <3>1, StatesApart
         DEF NoBody, Trail, Whole, IsGet, Requests!HttpNameStates
    <3> QED
      BY <3>2, <3>3, <3>5, <3>6 DEF Reading
  <2>2. CASE /\ c = "CR" /\ Changes(p, q, {"versionMajor", "versionMinor", "result"})
             /\ q.result = "ParsingCompleted"
    <3>1. /\ IsParser(q) /\ q.uri = p.uri /\ q.method = p.method
          /\ q.contentSize = p.contentSize /\ q.chunked = p.chunked
          /\ q.state = p.state
      BY <2>2 DEF Changes, Fields
    <3>2. Types(q)
      BY <1>1, <2>2, <3>1 DEF Types, Reading
    <3>3. MethodRead(q, t, k + 1)
      BY <1>3, <1>8, <3>1 DEF MethodRead
    <3>4. ASSUME IsGet(p) PROVE UriEnds(t, k + 1) /\ q.uri = SubSeq(t, 3, k)
      <4>1. k > 2
        <5>1. k # 0 /\ k # 1
          BY <1>4, <2>0, <2>2, <3>4, SpaceApart
        <5> QED
          BY <1>1, <2>0, <3>4, <5>1
      <4> QED
        BY <1>1, <1>4, <2>0, <2>2, <3>1, <3>4, <4>1 DEF UriEnds
    <3>5. Whole(q, t, k + 1)
      <4> SUFFICES ASSUME IsGet(q)
                   PROVE  /\ Len(t) > 1 /\ t[1] = "GET" /\ t[2] = Space
                          /\ UriKnown(q, t)
                          /\ UriEnds(t, k + 1) /\ t[k + 1] = "CR"
        BY DEF Whole
      <4>1. IsGet(p)
        BY <3>1 DEF IsGet
      <4> QED
        <5>1. UriEnds(t, k + 1) /\ q.uri = SubSeq(t, 3, k) /\ k + 1 \in 4..Len(t)
          BY <3>4, <4>1 DEF UriEnds
        <5>2. (k + 1) - 1 = k
          BY <1>1
        <5>3. UriKnown(q, t)
          BY <5>1, <5>2 DEF UriKnown
        <5>4. Len(t) > 1 /\ t[1] = "GET" /\ t[2] = Space
          BY <2>0, <4>1
        <5>5. t[k + 1] = "CR"
          BY <1>4, <2>2
        <5> QED
          BY <5>1, <5>3, <5>4, <5>5
    <3>6. NoBody(q) /\ Trail(q, t, k + 1) /\ UriRead(q, t, k + 1)
      BY <1>3, <1>8, <2>2, <3>1, StatesApart DEF NoBody, Trail, UriRead, IsGet
    <3> QED
      BY <3>2, <3>3, <3>5, <3>6 DEF Reading
  <2>3. CASE /\ c \notin {Space} \cup Requests!Controls /\ Changes(p, q, {"uri"})
             /\ q.uri = Append(p.uri, c)
    <3>1. /\ IsParser(q) /\ q.result = p.result /\ q.method = p.method
          /\ q.contentSize = p.contentSize /\ q.chunked = p.chunked
          /\ q.state = p.state
      BY <2>3 DEF Changes, Fields
    <3>2. q.uri \in Seq(Requests!Symbols)
      BY <1>0, <1>1, <2>3, AppendFacts
    <3>3. Types(q)
      BY <1>1, <3>1, <3>2 DEF Types, Reading
    <3>4. MethodRead(q, t, k + 1)
      BY <1>3, <1>8, <3>1 DEF MethodRead
    <3>5. ASSUME IsGet(p)
          PROVE  \/ k + 1 < 2
                 \/ /\ k + 1 > 2 /\ q.uri = SubSeq(t, 3, k + 1)
                    /\ \A i \in 3..(k + 1) : t[i] \notin Requests!Controls
                    /\ \A i \in 4..(k + 1) : t[i] # Space
      <4>1. k # 1
        BY <1>4, <2>0, <2>3, <3>5
      <4>2. CASE k = 0
        BY <4>2
      <4>3. CASE k > 2
        <5>1. q.uri = SubSeq(t, 3, k + 1)
          <6>1. k \in 2..(Len(t) - 1)
            BY <1>1, <4>3
          <6> QED
            BY <1>4, <2>0, <2>3, <3>5, <4>3, <6>1, SubSeqGrows
        <5> QED
          BY <1>1, <1>4, <2>0, <2>3, <3>5, <4>3, <5>1
      <4> QED
        BY <1>1, <2>0, <3>5, <4>1, <4>2, <4>3
    <3>6. UriRead(q, t, k + 1)
      BY <1>8, <2>0, <3>1, <3>5, StatesApart DEF UriRead, IsGet
    <3>7. NoBody(q) /\ Trail(q, t, k + 1) /\ Whole(q, t, k + 1)
      BY <1>3, <1>8, <3>1, StatesApart DEF NoBody, Trail, Whole, IsGet
    <3> QED
      BY <3>3, <3>4, <3>6, <3>7 DEF Reading
  <2> QED
    BY <1>1, <1>2, <1>8, <2>1, <2>2, <2>3, StepUri DEF q
<1>9. CASE p.state \in Requests!HttpNameStates
  <2>1. ASSUME /\ Changes(p, q, {"state", "versionMajor", "versionMinor"})
               /\ q.state \in States
               /\ q.state \notin {"RequestMethodStart", "RequestMethod",
                                  "RequestUriStart", "RequestUri"} \cup LateStates
               /\ q.state \in Requests!HttpNameStates /\ IsGet(p)
                     => UriKnown(q, t) \/ Spoiled(q, t, k + 1)
               /\ q.state \notin Requests!HttpNameStates /\ IsGet(p) => UriKnown(q, t)
               /\ q.state # "ResponseHttpVersion_newLine"
        PROVE  Reading(q, t, k + 1)
    <3>1. /\ IsParser(q) /\ q.uri = p.uri /\ q.result = p.result /\ q.method = p.method
          /\ q.contentSize = p.contentSize /\ q.chunked = p.chunked
      BY <2>1 DEF Changes, Fields
    <3>2. Types(q)
      BY <1>1, <2>1, <3>1 DEF Types, Reading
    <3>3. MethodRead(q, t, k + 1)
      BY <1>3, <1>9, <2>1, <3>1, StatesApart DEF MethodRead
    <3>4. IsGet(p) => Len(t) > 1 /\ t[2] = Space
      BY <1>3, <1>9, StatesApart DEF UriRead
    <3>5. UriRead(q, t, k + 1)
      BY <2>1, <3>1, <3>4, StatesApart DEF UriRead, IsGet
    <3>6. NoBody(q) /\ Trail(q, t, k + 1) /\ Whole(q, t, k + 1)
      BY <1>3, <1>9, <2>1, <3>1, StatesApart
         DEF NoBody, Trail, Whole, IsGet, Requests!HeaderStates
    <3> QED
      BY <3>2, <3>3, <3>5, <3>6 DEF Reading
  <2>2. IsGet(p) => UriKnown(p, t) \/ Spoiled(p, t, k)
    BY <1>3, <1>9 DEF UriRead
  <2>3. IsGet(p) => Len(t) > 1 /\ t[1] = "GET" /\ t[2] = Space
    BY <1>3, <1>9, GetFacts, StatesApart DEF UriRead, MethodRead
  <2>4. ASSUME NEW s \in Requests!HttpNameStates, Moves(p, q, s),
               Spoiled(p, t, k) /\ t[1] = "GET" => Spoiled(q, t, k + 1)
        PROVE  Reading(q, t, k + 1)
    <3>1. Changes(p, q, {"state", "versionMajor", "versionMinor"}) /\ q.state = s
      BY <2>4 DEF Moves, Changes
    <3>2. q.uri = p.uri
      BY <3>1 DEF Changes, Fields
    <3>3. q.state \in States
      BY <3>1 DEF States
    <3>4. q.state \notin {"RequestMethodStart", "RequestMethod", "RequestUriStart",
                         "RequestUri", "ResponseHttpVersion_newLine"} \cup LateStates
      BY <3>1, StatesApart
    <3>5. IsGet(p) => UriKnown(q, t) \/ Spoiled(q, t, k + 1)
      BY <2>2, <2>3, <2>4, <3>2 DEF UriKnown
    <3> QED
      BY <2>1, <3>1, <3>3, <3>4, <3>5
  <2>5. CASE p.state = "RequestHttpVersion_h" /\ c = "H"
               /\ Moves(p, q, "RequestHttpVersion_ht")
    <3>1. ASSUME Spoiled(p, t, k), t[1] = "GET" PROVE Spoiled(q, t, k + 1)
      <4>1. k # 0
        BY <1>4, <2>5, <3>1
      <4>2. k = 2
        BY <2>5, <3>1, <4>1 DEF Spoiled
      <4>3. c = t[3] /\ q.state = "RequestHttpVersion_ht" /\ k + 1 = 3
        BY <1>4, <2>5, <4>2 DEF Moves
      <4> QED
        BY <2>5, <3>1, <4>1, <4>3 DEF Spoiled
    <3> QED
      BY <2>4, <2>5, <3>1 DEF Requests!HttpNameStates
  <2>6. CASE p.state = "RequestHttpVersion_ht" /\ c = "T"
               /\ Moves(p, q, "RequestHttpVersion_htt")
    <3>1. ASSUME Spoiled(p, t, k), t[1] = "GET" PROVE Spoiled(q, t, k + 1)
      <4>1. k # 0
        BY <1>4, <2>6, <3>1
      <4>2. k = 3
        BY <2>6, <3>1, <4>1 DEF Spoiled
      <4>3. c = t[4] /\ q.state = "RequestHttpVersion_htt" /\ k + 1 = 4
        BY <1>4, <2>6, <4>2 DEF Moves
      <4> QED
        BY <2>6, <3>1, <4>1, <4>3 DEF Spoiled
    <3> QED
      BY <2>4, <2>6, <3>1 DEF Requests!HttpNameStates
  <2>7. CASE p.state = "RequestHttpVersion_htt" /\ c = "T"
               /\ Moves(p, q, "RequestHttpVersion_http")
    <3>1. ASSUME Spoiled(p, t, k), t[1] = "GET" PROVE Spoiled(q, t, k + 1)
      <4>1. k # 0
        BY <1>4, <2>7, <3>1
      <4>2. k = 4
        BY <2>7, <3>1, <4>1 DEF Spoiled
      <4>3. c = t[5] /\ q.state = "RequestHttpVersion_http" /\ k + 1 = 5
        BY <1>4, <2>7, <4>2 DEF Moves
      <4> QED
        BY <2>7, <3>1, <4>1, <4>3 DEF Spoiled
    <3> QED
      BY <2>4, <2>7, <3>1 DEF Requests!HttpNameStates
  <2>8. CASE p.state = "RequestHttpVersion_http" /\ c = "P"
               /\ Moves(p, q, "RequestHttpVersion_slash")
    <3>1. ASSUME Spoiled(p, t, k), t[1] = "GET" PROVE Spoiled(q, t, k + 1)
      <4>1. k # 0
        BY <1>4, <2>8, <3>1
      <4>2. k = 5
        BY <2>8, <3>1, <4>1 DEF Spoiled
      <4>3. c = t[6] /\ q.state = "RequestHttpVersion_slash" /\ k + 1 = 6
        BY <1>4, <2>8, <4>2 DEF Moves
      <4> QED
        BY <2>8, <3>1, <4>1, <4>3 DEF Spoiled
    <3> QED
      BY <2>4, <2>8, <3>1 DEF Requests!HttpNameStates
  <2>9. CASE /\ p.state = "RequestHttpVersion_slash" /\ c = "/"
             /\ Changes(p, q, {"state", "versionMajor", "versionMinor"})
             /\ q.state = "RequestHttpVersion_majorStart"
    <3>1. ASSUME IsGet(p) PROVE ~Spoiled(p, t, k)
      <4> SUFFICES ASSUME Spoiled(p, t, k) PROVE FALSE
        OBVIOUS
      <4>1. k # 0
        BY <1>4, <2>3, <2>9, <3>1
      <4>2. k = 6 /\ t[3] = "H" /\ t[4] = "T" /\ t[5] = "T" /\ t[6] = "P"
        BY <2>9, <4>1 DEF Spoiled
      <4>3. t[7] = "/" /\ Len(t) > 6
        BY <1>1, <1>4, <2>9, <4>2
      <4> QED
        BY <2>3, <3>1, <4>2, <4>3 DEF NotLikeVersion
    <3>2. q.uri = p.uri
      BY <2>9 DEF Changes, Fields
    <3>3. IsGet(p) => UriKnown(q, t)
      BY <2>2, <3>1, <3>2 DEF UriKnown
    <3>4. q.state \in VersionStates
      BY <2>9 DEF VersionStates
    <3>5. q.state \in States
      BY <3>4 DEF States
    <3> QED
      BY <2>1, <2>9, <3>3, <3>4, <3>5, StatesApart
  <2> QED
    BY <1>1, <1>2, <1>9, <2>5, <2>6, <2>7, <2>8, <2>9, StepName DEF q
<1>10. CASE p.state \in VersionStates
  <2>1. IsGet(p) => UriKnown(p, t) /\ Len(t) > 1 /\ t[2] = Space
    BY <1>3, <1>10, StatesApart DEF UriRead
  <2>2. ASSUME Changes(p, q, {"state", "versionMajor", "versionMinor"}),
               q.state \in VersionStates
                 \/ (q.state = "ResponseHttpVersion_newLine" /\ c = "CR")
        PROVE  Reading(q, t, k + 1)
    <3>1. /\ IsParser(q) /\ q.uri = p.uri /\ q.result = p.result /\ q.method = p.method
          /\ q.contentSize = p.contentSize /\ q.chunked = p.chunked
      BY <2>2 DEF Changes, Fields
    <3>2. Types(q)
      BY <1>1, <2>2, <3>1 DEF Types, States, Reading
    <3>3. MethodRead(q, t, k + 1)
      BY <1>3, <1>10, <2>2, <3>1, StatesApart DEF MethodRead
    <3>4. UriRead(q, t, k + 1)
      BY <2>1, <2>2, <3>1, StatesApart DEF UriRead, IsGet, UriKnown
    <3>5. NoBody(q) /\ Whole(q, t, k + 1)
      BY <1>3, <1>10, <2>2, <3>1, StatesApart DEF NoBody, Whole, IsGet
    <3>6. Trail(q, t, k + 1)
      <4>1. q.state \notin {"ExpectingNewline_2", "HeaderLineStart", "ExpectingNewline_3"}
        BY <2>2, StatesApart DEF Requests!HeaderStates, LateStates
      <4>2. q.state = "ResponseHttpVersion_newLine" => t[k + 1] = "CR"
        BY <1>4, <2>2, StatesApart
      <4> QED
        BY <4>1, <4>2 DEF Trail
    <3> QED
      BY <3>2, <3>3, <3>4, <3>5, <3>6 DEF Reading
  <2>3. Moves(p, q, "ResponseHttpVersion_newLine") =>
            /\ Changes(p, q, {"state", "versionMajor", "versionMinor"})
            /\ q.state = "ResponseHttpVersion_newLine"
    BY DEF Moves, Changes
  <2> QED
    BY <1>1, <1>2, <1>10, <2>2, <2>3, StepVersion DEF q
<1>11. CASE p.state = "ResponseHttpVersion_newLine"
  <2>1. IsGet(p) => UriKnown(p, t) /\ Len(t) > 1 /\ t[1] = "GET" /\ t[2] = Space
    BY <1>3, <1>11, GetFacts, StatesApart DEF UriRead, MethodRead
  <2>2. CASE c = "LF" /\ Moves(p, q, "HeaderLineStart")
    <3>1. /\ IsParser(q) /\ q.uri = p.uri /\ q.result = p.result /\ q.method = p.method
          /\ q.contentSize = p.contentSize /\ q.chunked = p.chunked
          /\ q.state = "HeaderLineStart"
      BY <2>2 DEF Moves, Changes, Fields
    <3>2. q.state \in Requests!HeaderStates
      BY <3>1 DEF Requests!HeaderStates
    <3>3. Types(q)
      BY <1>1, <3>1, <3>2 DEF Types, States, Reading
    <3>4. MethodRead(q, t, k + 1)
      BY <1>3, <1>11, <3>1 DEF MethodRead
    <3>5. UriRead(q, t, k + 1)
      BY <2>1, <3>1, <3>2, StatesApart DEF UriRead, IsGet, UriKnown
    <3>6. NoBody(q) /\ Whole(q, t, k + 1)
      BY <1>3, <1>11, <3>1, <3>2, StatesApart DEF NoBody, Whole, IsGet
    <3>7. ASSUME IsGet(p) PROVE k > 0 /\ t[k] = "CR"
      BY <1>1, <1>3, <1>4, <1>11, <2>1, <2>2, <3>7 DEF Trail
    <3>8. Trail(q, t, k + 1)
      BY <1>1, <1>4, <2>2, <3>1, <3>7 DEF Trail, IsGet
    <3> QED
      BY <3>3, <3>4, <3>5, <3>6, <3>8 DEF Reading
  <2> QED
    BY <1>1, <1>2, <1>11, <2>2, StepNewLine DEF q
<1>12. CASE p.state \in Requests!HeaderStates
  <2>1. IsGet(p) => UriKnown(p, t) /\ Len(t) > 1 /\ t[1] = "GET" /\ t[2] = Space
    BY <1>3, <1>12, GetFacts, StatesApart DEF UriRead, MethodRead
  <2>2. Late(p)
    BY <1>1, <1>12 DEF Late, LateStates, Results
  <2>3. Keeps(p, q)
    BY <2>2, StepLate DEF q
  <2>4. Types(q)
    BY <1>1, <2>3 DEF Types, States, LateStates, Results, Keeps, Late
  <2>5. MethodRead(q, t, k + 1)
    BY <1>3, <1>12, <2>3, StatesApart DEF MethodRead, Keeps, Late
  <2>6. CASE ~IsGet(p)
    <3>1. ~IsGet(q) /\ q.state \notin {"RequestMethodStart", "RequestMethod"}
      BY <2>3, <2>6, StatesApart DEF IsGet, Keeps, Late
    <3> QED
      BY <2>4, <2>5, <3>1 DEF Reading, UriRead, NoBody, Trail, Whole
  <2>7. CASE IsGet(p)
    <3>0. UriKnown(q, t)
      BY <2>1, <2>3, <2>7 DEF UriKnown, Keeps
    <3>1. p.contentSize = 0 /\ p.chunked = FALSE /\ ~Requests!HasBody(p)
      BY <1>3, <2>7 DEF NoBody, IsGet, Requests!HasBody
    <3>2. ASSUME Moves(p, q, q.state) \/ Changes(p, q, {"state", "headers"}),
                 q.state \in Requests!HeaderStates,
                 q.state \in {"ExpectingNewline_2", "ResponseHttpVersion_newLine"}
                   => c = "CR",
                 q.state = "HeaderLineStart" => k > 0 /\ c = "LF" /\ t[k] = "CR",
                 q.state = "ExpectingNewline_3"
                   => k > 1 /\ c = "CR" /\ t[k] = "LF" /\ t[k - 1] = "CR"
          PROVE  Reading(q, t, k + 1)
      <4>1. /\ q.result = p.result /\ q.contentSize = p.contentSize
            /\ q.chunked = p.chunked
        BY <3>2 DEF Moves, Changes, Fields
      <4>2. UriRead(q, t, k + 1)
        BY <2>1, <2>7, <3>0, <3>2, StatesApart DEF UriRead
      <4>3. NoBody(q) /\ Whole(q, t, k + 1)
        BY <3>1, <3>2, <4>1, StatesApart DEF NoBody, Whole
      <4>4. Trail(q, t, k + 1)
        BY <1>1, <1>4, <3>2 DEF Trail
      <4> QED
        BY <2>4, <2>5, <4>2, <4>3, <4>4 DEF Reading
    <3>3. CASE Changes(p, q, {"keepAlive", "result"}) /\ q.result = "ParsingError"
      BY <3>3, RefusedReading, <1>1
    <3>4. CASE /\ p.state = "HeaderLineStart" /\ c = "CR"
               /\ Moves(p, q, "ExpectingNewline_3")
      <4>1. k > 1 /\ t[k] = "LF" /\ t[k - 1] = "CR"
        <5>1. k # 0
          BY <1>4, <2>1, <2>7, <3>4
        <5> QED
          BY <1>1, <1>3, <2>7, <3>4, <5>1 DEF Trail
      <4> QED
        BY <3>2, <3>4, <4>1 DEF Moves, Requests!HeaderStates
    <3>5. CASE /\ p.state \in {"HeaderLws", "HeaderValue"} /\ c = "CR"
               /\ Moves(p, q, "ExpectingNewline_2")
      BY <3>2, <3>5 DEF Moves, Requests!HeaderStates
    <3>6. CASE /\ p.state = "ExpectingNewline_2" /\ c = "LF"
               /\ Moves(p, q, "HeaderLineStart")
      <4>1. k > 0 /\ t[k] = "CR"
        <5>1. k # 0
          BY <1>4, <2>1, <2>7, <3>6
        <5> QED
          BY <1>1, <1>3, <2>7, <3>6, <5>1 DEF Trail
      <4> QED
        BY <3>2, <3>6, <4>1 DEF Moves, Requests!HeaderStates
    <3>7. CASE /\ p.state = "ExpectingNewline_3" /\ c = "LF"
               /\ Changes(p, q, {"keepAlive", "result"})
               /\ q.result = "ParsingCompleted"
      <4>1. k > 2 /\ t[k] = "CR" /\ t[k - 1] = "LF" /\ t[k - 2] = "CR"
        <5>1. k # 0
          BY <1>4, <2>1, <2>7, <3>7
        <5> QED
          BY <1>1, <1>3, <2>7, <3>7, <5>1 DEF Trail
      <4>2. EmptyLineEnds(t, k + 1)
        BY <1>1, <1>4, <3>7, <4>1 DEF EmptyLineEnds
      <4>3. Whole(q, t, k + 1)
        BY <2>1, <2>7, <3>0, <4>2 DEF Whole
      <4>4. UriRead(q, t, k + 1) /\ Trail(q, t, k + 1)
        BY <3>7 DEF UriRead, Trail
      <4>5. q.state = p.state /\ q.contentSize = p.contentSize /\ q.chunked = p.chunked
        BY <3>7 DEF Changes, Fields
      <4>6. NoBody(q)
        BY <1>12, <3>1, <4>5, StatesApart DEF NoBody
      <4> QED
        BY <2>4, <2>5, <4>3, <4>4, <4>6 DEF Reading
    <3>8. CASE /\ Changes(p, q, {"state", "headers"})
               /\ q.state \in {"HeaderLws", "HeaderName", "HeaderValue",
                               "SpaceBeforeHeaderValue"}
      BY <3>2, <3>8 DEF Requests!HeaderStates
    <3> QED
      BY <1>1, <1>12, <3>1, <3>3, <3>4, <3>5, <3>6, <3>7, <3>8, StepHeader DEF q
  <2> QED
    BY <2>6, <2>7
<1>13. CASE p.state \in Requests!BodyStates
  <2>1. ~IsGet(p)
    BY <1>3, <1>13 DEF NoBody
  <2>2. Late(p)
    BY <1>1, <1>13 DEF Late, LateStates, Results
  <2>3. Keeps(p, q)
    BY <2>2, StepLate DEF q
  <2>4. Types(q)
    BY <1>1, <2>3 DEF Types, States, LateStates, Results, Keeps, Late
  <2>5. MethodRead(q, t, k + 1)
    BY <1>3, <1>13, <2>3, StatesApart DEF MethodRead, Keeps, Late
  <2>6. ~IsGet(q) /\ q.state \notin {"RequestMethodStart", "RequestMethod"}
    BY <2>1, <2>3, StatesApart DEF IsGet, Keeps, Late
  <2> QED
    BY <2>4, <2>5, <2>6 DEF Reading, UriRead, NoBody, Trail, Whole
<1> QED
  BY <1>1, <1>5, <1>6, <1>7, <1>8, <1>9, <1>10, <1>11, <1>12, <1>13 DEF States

-----------------------------------------------------------------------------
(* The calls of recv and of parse.                                         *)

\* The data is parsed again from its first byte, by the same parser.
LEMMA ReadingAgain ==
    ASSUME NEW p, NEW t, NEW k, Reading(p, t, k), p.result = "ParsingIncompleted"
    PROVE  Reading(p, t, 0)
  BY DEF Reading, MethodRead, UriRead, Spoiled, Trail, Whole

\* A new parser has read nothing.
LEMMA FirstReading ==
    ASSUME NEW t
    PROVE  /\ Reading(Requests!NewRequestParser, t, 0)
           /\ Requests!NewRequestParser.result = "ParsingIncompleted"
<1> DEFINE p == Requests!NewRequestParser
<1>1. /\ p.state = "RequestMethodStart" /\ p.result = "ParsingIncompleted"
      /\ p.method = <<>> /\ p.uri = <<>> /\ p.contentSize = 0 /\ p.chunked = FALSE
  BY DEF Requests!NewRequestParser, Requests!NewParser
<1>2. IsParser(p)
  BY DEF IsParser, Fields, Requests!NewRequestParser, Requests!NewParser
<1> HIDE DEF p
<1>3. p.method \in Seq(Requests!Symbols) /\ p.uri \in Seq(Requests!Symbols)
  BY <1>1
<1>4. Types(p)
  BY <1>1, <1>2, <1>3 DEF Types, States
<1>5. ~IsGet(p)
  BY <1>1, GetFacts
<1> QED
  BY <1>1, <1>4, <1>5, StatesApart
     DEF Reading, MethodRead, UriRead, NoBody, Trail, Whole, LateStates, p

\* What the assumption says of every request.
LEMMA RequestText ==
    ASSUME NEW m \in Messages, m.kind = "request"
    PROVE  m.text \in Seq(Requests!Symbols) /\ NotLikeVersion(m.text)
  BY MessagesAssumption DEF WritesOneGet, NotLikeVersion

\* Nothing has been received.
LEMMA InitRequestInv == Init => RequestInv
<1> SUFFICES ASSUME Init, message.kind = "request" PROVE RequestInv
  BY DEF RequestInv
<1>1. parser = Requests!NewRequestParser /\ at = 0 /\ received = 0 /\ pc = "recv"
      /\ message \in Messages
  BY DEF Init
<1>2. Len(message.text) \in Nat
  BY <1>1, RequestText
<1>3. Bounds
  BY <1>1, <1>2 DEF Bounds, Length
<1> QED
  BY <1>1, <1>3, FirstReading DEF RequestInv

\* One call of recv, or one byte of a call of parse.
LEMMA NextRequestInv == RequestInv /\ [Next]_vars => RequestInv'
<1> SUFFICES ASSUME RequestInv, [Next]_vars, message'.kind = "request"
             PROVE  RequestInv'
  BY DEF RequestInv
<1> USE DEF Bounds, Length
<1>0. message' = message
  BY DEF Next, vars, ClientCloses, RecvRequest, PassText, SplitHost, ParseHttp,
         ParseEnds, ParseUrl
<1>1. /\ message.kind = "request" /\ Bounds /\ Reading(parser, message.text, at)
      /\ parser.result # "ParsingIncompleted" => pc = "done"
  BY <1>0 DEF RequestInv
<1>2. message.text \in Seq(Requests!Symbols) /\ NotLikeVersion(message.text)
        /\ Len(message.text) \in Nat
  BY <1>1, RequestText
<1>3. CASE ClientCloses
  BY <1>0, <1>1, <1>3 DEF ClientCloses, RequestInv
<1>4. CASE RecvRequest
  <2>1. /\ pc = "recv" /\ pc' = "parse" /\ at' = 0 /\ parser' = parser
        /\ received' \in received..Len(message.text)
    BY <1>4 DEF RecvRequest
  <2>2. Bounds'
    BY <1>0, <1>1, <1>2, <2>1
  <2>3. Reading(parser', message'.text, at')
    BY <1>0, <1>1, <2>1, ReadingAgain
  <2> QED
    BY <1>1, <2>1, <2>2, <2>3 DEF RequestInv
<1>5. CASE ParseHttp
  <2>1. /\ pc = "parse" /\ at < received /\ at' = at + 1
        /\ parser' = Requests!RequestStep(parser, message.text[at + 1])
        /\ pc' = IF parser'.result = "ParsingIncompleted" THEN "parse" ELSE "done"
        /\ received' = received
    BY <1>1, <1>5 DEF ParseHttp
  <2>2. Bounds'
    BY <1>0, <1>1, <1>2, <2>1
  <2>3. Reading(parser', message'.text, at')
    <3>1. at \in 0..(Len(message.text) - 1)
      BY <1>1, <1>2, <2>1
    <3> QED
      BY <1>0, <1>1, <1>2, <2>1, <3>1, NextReading
  <2> QED
    BY <2>1, <2>2, <2>3 DEF RequestInv
<1>6. CASE ParseEnds
  BY <1>0, <1>1, <1>6 DEF ParseEnds, RequestInv
<1>7. CASE PassText \/ SplitHost \/ ParseUrl
  BY <1>1, <1>7 DEF PassText, SplitHost, ParseUrl
<1>8. CASE UNCHANGED vars
  BY <1>0, <1>1, <1>8 DEF vars, RequestInv
<1> QED
  BY <1>3, <1>4, <1>5, <1>6, <1>7, <1>8 DEF Next

\* What the server takes for a GET has the request line and the headers to their
\* last byte (without a version: the line to its CR), and the client's URI,
\* however the network has cut it and however often it was parsed
\* (readClientRequest, HttpRequestParser::consume).
THEOREM GetsAreReadWhole == Spec => []GetIsReadWhole
<1>1. RequestInv => GetIsReadWhole
  <2> SUFFICES ASSUME RequestInv, message.kind = "request",
                      parser.result = "ParsingCompleted", parser.method = <<"GET">>
               PROVE  received >= message.extent /\ parser.uri = message.meaning.uri
    BY DEF GetIsReadWhole
  <2> DEFINE t == message.text
  <2>1. Bounds /\ Whole(parser, t, at)
    BY DEF RequestInv, Reading
  <2>2. /\ Len(t) > 1 /\ t[1] = "GET" /\ t[2] = Space /\ UriKnown(parser, t)
        /\ EmptyLineEnds(t, at) \/ (UriEnds(t, at) /\ t[at] = "CR")
    BY <2>1 DEF Whole, IsGet
  <2>3. WritesOneGet(message) /\ Len(t) \in Nat
    BY <2>1, <2>2, MessagesAssumption, RequestText DEF Bounds
  <2>4. at >= message.extent /\ message.extent \in 0..Len(t)
    <3>1. at \in 4..Len(t)
      BY <2>2 DEF EmptyLineEnds, UriEnds
    <3>2. /\ message.extent \in 0..Len(t)
          /\ EmptyLineEnds(t, at) => at >= message.extent
          /\ UriEnds(t, at) => (t[at] = "CR" => at = message.extent)
      BY <2>3, <3>1 DEF WritesOneGet
    <3>3. UriEnds(t, at) /\ t[at] = "CR" => at >= message.extent
      BY <3>1, <3>2
    <3> QED
      BY <2>2, <3>2, <3>3
  <2>5. received >= message.extent
    BY <2>1, <2>3, <2>4 DEF Bounds, Length
  <2>6. parser.uri = message.meaning.uri
    BY <2>2, <2>3 DEF WritesOneGet, UriKnown
  <2> QED
    BY <2>5, <2>6
<1> QED
  BY <1>1, InitRequestInv, NextRequestInv, PTL DEF Spec

-----------------------------------------------------------------------------
(* The URL parser, byte by byte.                                           *)

\* A parser that has refused nothing.
UrlRead(state, scheme, name, digits, username, password, hostname, port, number,
        path, query, fragment) ==
    [state |-> state, result |-> "valid", scheme |-> scheme, username |-> username,
     password |-> password, hostname |-> hostname, port |-> port, path |-> path,
     query |-> query, fragment |-> fragment, integerPort |-> number,
     usernameOrHostname |-> name, portOrPassword |-> digits]

Put(r, f, x) == [r EXCEPT ![f] = x]

\* The classes of the bytes, and the marks that end a part.
LEMMA UrlBytes ==
    /\ \A c \in Unreserved :
          (Urls!isalnum(c) \/ c \in {".", "-"}) /\ c \notin {":", "/", "@", "["}
    /\ \A c \in Alnum : Urls!isalnum(c) /\ c \notin {":", "/", "@"}
    /\ \A c \in Urls!Digits : Urls!isDigit(c) /\ c \notin {":", "/", "@"}
    /\ \A c \in Alnum \ Urls!Digits : ~Urls!isDigit(c)
    /\ \A c \in {":", "/", "@", "?", "#", "["} :
          ~Urls!isalnum(c) /\ ~Urls!isDigit(c) /\ c \notin {".", "-"}
    /\ Urls!Digits \subseteq Alnum /\ Alnum \subseteq Unreserved
  BY DEF Unreserved, Alnum, Urls!isalnum, Urls!isalpha, Urls!isDigit,
         Urls!AlphaWords, Urls!Digits

\* A change of state changes nothing else.
LEMMA UrlMoves ==
    ASSUME NEW s, NEW sch, NEW n, NEW d, NEW u, NEW w, NEW h, NEW p, NEW i, NEW pa,
           NEW q, NEW f, NEW to
    PROVE  Urls!Move(UrlRead(s, sch, n, d, u, w, h, p, i, pa, q, f), to)
             = UrlRead(to, sch, n, d, u, w, h, p, i, pa, q, f)
  BY DEF UrlRead, Urls!Move

\* What an assignment to one field does.
LEMMA UrlSets ==
    ASSUME NEW s, NEW sch, NEW n, NEW d, NEW u, NEW w, NEW h, NEW p, NEW i, NEW pa,
           NEW q, NEW f, NEW x
    PROVE  LET r == UrlRead(s, sch, n, d, u, w, h, p, i, pa, q, f)
           IN  /\ Put(r, "scheme", x) = UrlRead(s, x, n, d, u, w, h, p, i, pa, q, f)
               /\ Put(r, "username", x) = UrlRead(s, sch, n, d, x, w, h, p, i, pa, q, f)
               /\ Put(r, "password", x) = UrlRead(s, sch, n, d, u, x, h, p, i, pa, q, f)
               /\ Put(r, "hostname", x) = UrlRead(s, sch, n, d, u, w, x, p, i, pa, q, f)
               /\ Put(r, "port", x) = UrlRead(s, sch, n, d, u, w, h, x, i, pa, q, f)
               /\ Put(r, "path", x) = UrlRead(s, sch, n, d, u, w, h, p, i, x, q, f)
               /\ Put(r, "query", x) = UrlRead(s, sch, n, d, u, w, h, p, i, pa, x, f)
               /\ Put(r, "fragment", x) = UrlRead(s, sch, n, d, u, w, h, p, i, pa, q, x)
               /\ Put(r, "integerPort", x) = UrlRead(s, sch, n, d, u, w, h, p, x, pa, q, f)
               /\ Put(r, "usernameOrHostname", x)
                     = UrlRead(s, sch, x, d, u, w, h, p, i, pa, q, f)
               /\ Put(r, "portOrPassword", x) = UrlRead(s, sch, n, x, u, w, h, p, i, pa, q, f)
<1> DEFINE r == UrlRead(s, sch, n, d, u, w, h, p, i, pa, q, f)
<1>1. Put(r, "scheme", x) = UrlRead(s, x, n, d, u, w, h, p, i, pa, q, f)
  BY DEF UrlRead, Put
<1>2. Put(r, "username", x) = UrlRead(s, sch, n, d, x, w, h, p, i, pa, q, f)
  BY DEF UrlRead, Put
<1>3. Put(r, "password", x) = UrlRead(s, sch, n, d, u, x, h, p, i, pa, q, f)
  BY DEF UrlRead, Put
<1>4. Put(r, "hostname", x) = UrlRead(s, sch, n, d, u, w, x, p, i, pa, q, f)
  BY DEF UrlRead, Put
<1>5. Put(r, "port", x) = UrlRead(s, sch, n, d, u, w, h, x, i, pa, q, f)
  BY DEF UrlRead, Put
<1>6. Put(r, "path", x) = UrlRead(s, sch, n, d, u, w, h, p, i, x, q, f)
  BY DEF UrlRead, Put
<1>7. Put(r, "query", x) = UrlRead(s, sch, n, d, u, w, h, p, i, pa, x, f)
  BY DEF UrlRead, Put
<1>8. Put(r, "fragment", x) = UrlRead(s, sch, n, d, u, w, h, p, i, pa, q, x)
  BY DEF UrlRead, Put
<1>9. Put(r, "integerPort", x) = UrlRead(s, sch, n, d, u, w, h, p, x, pa, q, f)
  BY DEF UrlRead, Put
<1>10. Put(r, "usernameOrHostname", x) = UrlRead(s, sch, x, d, u, w, h, p, i, pa, q, f)
  BY DEF UrlRead, Put
<1>11. Put(r, "portOrPassword", x) = UrlRead(s, sch, n, x, u, w, h, p, i, pa, q, f)
  BY DEF UrlRead, Put
<1> QED
  BY <1>1, <1>2, <1>3, <1>4, <1>5, <1>6, <1>7, <1>8, <1>9, <1>10, <1>11

\* The scheme.
LEMMA UrlScheme ==
    ASSUME NEW sch, NEW n, NEW d, NEW u, NEW w, NEW h, NEW p, NEW i, NEW pa,
           NEW q, NEW f, NEW c
    PROVE  LET r == UrlRead("Scheme", sch, n, d, u, w, h, p, i, pa, q, f)
           IN  /\ c \in Unreserved => Urls!UrlStep(r, c)
                    = UrlRead("Scheme", Append(sch, c), n, d, u, w, h, p, i, pa, q, f)
               /\ c = ":" => Urls!UrlStep(r, c)
                    = UrlRead("SlashAfterScheme1", sch, n, d, u, w, h, p, i, pa, q, f)
<1> DEFINE r == UrlRead("Scheme", sch, n, d, u, w, h, p, i, pa, q, f)
<1>1. r.state = "Scheme"
  BY DEF UrlRead
<1>2. Urls!UrlStep(r, c) = Urls!Scheme(r, c)
  BY <1>1 DEF Urls!UrlStep
<1>3. r.scheme = sch
  BY DEF UrlRead
<1>4. Urls!Move(r, "SlashAfterScheme1")
        = UrlRead("SlashAfterScheme1", sch, n, d, u, w, h, p, i, pa, q, f)
  BY UrlMoves
<1>5. Put(r, "scheme", Append(sch, c))
        = UrlRead("Scheme", Append(sch, c), n, d, u, w, h, p, i, pa, q, f)
  BY UrlSets
<1> HIDE DEF r
<1>6. ASSUME c \in Unreserved
      PROVE  Urls!UrlStep(r, c) = Put(r, "scheme", Append(sch, c))
  BY <1>2, <1>3, <1>6, UrlBytes DEF Urls!Scheme, Put
<1>7. ASSUME c = ":" PROVE Urls!UrlStep(r, c) = Urls!Move(r, "SlashAfterScheme1")
  BY <1>2, <1>7, UrlBytes DEF Urls!Scheme, Put
<1> QED
  BY <1>4, <1>5, <1>6, <1>7 DEF r

\* The two slashes.
LEMMA UrlSlashes ==
    ASSUME NEW sch, NEW n, NEW d, NEW u, NEW w, NEW h, NEW p, NEW i, NEW pa,
           NEW q, NEW f
    PROVE  LET R(state) == UrlRead(state, sch, n, d, u, w, h, p, i, pa, q, f)
           IN  /\ Urls!UrlStep(R("SlashAfterScheme1"), "/") = R("SlashAfterScheme2")
               /\ Urls!UrlStep(R("SlashAfterScheme2"), "/") = R("UsernameOrHostname")
<1> DEFINE r1 == UrlRead("SlashAfterScheme1", sch, n, d, u, w, h, p, i, pa, q, f)
           r2 == UrlRead("SlashAfterScheme2", sch, n, d, u, w, h, p, i, pa, q, f)
<1>1. r1.state = "SlashAfterScheme1" /\ r2.state = "SlashAfterScheme2"
  BY DEF UrlRead
<1>2. Urls!UrlStep(r1, "/") = Urls!SlashAfterScheme(r1, "/")
        /\ Urls!UrlStep(r2, "/") = Urls!SlashAfterScheme(r2, "/")
  BY <1>1 DEF Urls!UrlStep
<1>3. /\ Urls!UrlStep(r1, "/") = Urls!Move(r1, "SlashAfterScheme2")
      /\ Urls!UrlStep(r2, "/") = Urls!Move(r2, "UsernameOrHostname")
  BY <1>1, <1>2, UrlBytes DEF Urls!SlashAfterScheme
<1> QED
  BY <1>3, UrlMoves

\* The name of the user or of the host: what follows it decides.
LEMMA UrlName ==
    ASSUME NEW sch, NEW n, NEW d, NEW u, NEW w, NEW h, NEW p, NEW i, NEW pa,
           NEW q, NEW f, NEW c
    PROVE  LET r == UrlRead("UsernameOrHostname", sch, n, d, u, w, h, p, i, pa, q, f)
           IN  /\ c \in Unreserved => Urls!UrlStep(r, c)
                    = UrlRead("UsernameOrHostname", sch, Append(n, c), d, u, w, h, p, i,
                              pa, q, f)
               /\ c = ":" => Urls!UrlStep(r, c)
                    = UrlRead("PortOrPassword", sch, n, d, u, w, h, p, i, pa, q, f)
               /\ c = "@" => Urls!UrlStep(r, c)
                    = UrlRead("Hostname", sch, u, d, n, w, h, p, i, pa, q, f)
               /\ c = "/" => Urls!UrlStep(r, c)
                    = UrlRead("Path", sch, h, d, u, w, n, p, i, pa, q, f)
<1> DEFINE R(state, name, user, host) ==
              UrlRead(state, sch, name, d, user, w, host, p, i, pa, q, f)
           r == R("UsernameOrHostname", n, u, h)
           v == R("Hostname", n, u, h)
           y == R("Path", n, u, h)
<1>1. /\ r.state = "UsernameOrHostname" /\ r.usernameOrHostname = n
      /\ r.username = u /\ r.hostname = h
  BY DEF UrlRead
<1>2. Urls!UrlStep(r, c) = Urls!UsernameOrHostname(r, c)
  BY <1>1 DEF Urls!UrlStep
<1>3. /\ Urls!Move(r, "PortOrPassword") = R("PortOrPassword", n, u, h)
      /\ Urls!Move(r, "Hostname") = v
      /\ Urls!Move(r, "Path") = y
  BY UrlMoves
<1>4. /\ Put(r, "usernameOrHostname", Append(n, c))
            = R("UsernameOrHostname", Append(n, c), u, h)
      /\ Put(v, "username", n) = R("Hostname", n, n, h)
      /\ Put(R("Hostname", n, n, h), "usernameOrHostname", u) = R("Hostname", u, n, h)
      /\ Put(y, "hostname", n) = R("Path", n, u, n)
      /\ Put(R("Path", n, u, n), "usernameOrHostname", h) = R("Path", h, u, n)
  BY UrlSets
<1> HIDE DEF R, r, v, y
<1>5. ASSUME c \in Unreserved
      PROVE  Urls!UrlStep(r, c) = Put(r, "usernameOrHostname", Append(n, c))
  BY <1>1, <1>2, <1>5, UrlBytes DEF Urls!UsernameOrHostname, Urls!isUnreserved, Put
<1>6. ASSUME c = ":" PROVE Urls!UrlStep(r, c) = Urls!Move(r, "PortOrPassword")
  BY <1>2, <1>6, UrlBytes DEF Urls!UsernameOrHostname, Urls!isUnreserved, Put
<1>7. ASSUME c = "@"
      PROVE  Urls!UrlStep(r, c) = Put(Put(v, "username", n), "usernameOrHostname", u)
  BY <1>1, <1>2, <1>3, <1>7, UrlBytes DEF Urls!UsernameOrHostname, Urls!isUnreserved, Put
<1>8. ASSUME c = "/"
      PROVE  Urls!UrlStep(r, c) = Put(Put(y, "hostname", n), "usernameOrHostname", h)
  BY <1>1, <1>2, <1>3, <1>8, UrlBytes DEF Urls!UsernameOrHostname, Urls!isUnreserved, Put
<1>9. ASSUME c = "@" PROVE Urls!UrlStep(r, c) = R("Hostname", u, n, h)
  BY <1>4, <1>7, <1>9, Zenon
<1>10. ASSUME c = "/" PROVE Urls!UrlStep(r, c) = R("Path", h, u, n)
  BY <1>4, <1>8, <1>10, Zenon
<1> QED
  BY <1>3, <1>4, <1>5, <1>6, <1>9, <1>10 DEF R, r

\* Digits may be a port or begin a password.
LEMMA UrlPortOrPassword ==
    ASSUME NEW sch, NEW n, NEW d, NEW u, NEW w, NEW h, NEW p, NEW i, NEW pa,
           NEW q, NEW f, NEW c
    PROVE  LET r == UrlRead("PortOrPassword", sch, n, d, u, w, h, p, i, pa, q, f)
           IN  /\ c \in Urls!Digits => Urls!UrlStep(r, c)
                    = UrlRead("PortOrPassword", sch, n, Append(d, c), u, w, h, p, i, pa, q, f)
               /\ c \in Alnum \ Urls!Digits => Urls!UrlStep(r, c)
                    = UrlRead("Password", sch, u, w, n, Append(d, c), h, p, i, pa, q, f)
               /\ c = "/" => Urls!UrlStep(r, c)
                    = UrlRead("Path", sch, h, p, u, w, n, d,
                              Urls!NumberOf(d, 10) % Urls!PortValues, pa, q, f)
<1> DEFINE R(state, name, digits, user, pass, host, prt, number) ==
              UrlRead(state, sch, name, digits, user, pass, host, prt, number, pa, q, f)
           r == R("PortOrPassword", n, d, u, w, h, p, i)
           v == R("Password", n, d, u, w, h, p, i)
           y == R("Path", n, d, u, w, h, p, i)
           z == Urls!NumberOf(d, 10) % Urls!PortValues
<1>1. /\ r.state = "PortOrPassword" /\ r.usernameOrHostname = n /\ r.portOrPassword = d
      /\ r.username = u /\ r.hostname = h /\ r.password = w /\ r.port = p
  BY DEF UrlRead
<1>2. Urls!UrlStep(r, c) = Urls!PortOrPassword(r, c)
  BY <1>1 DEF Urls!UrlStep
<1>3. Urls!Move(r, "Password") = v /\ Urls!Move(r, "Path") = y
  BY UrlMoves
<1> HIDE DEF z
<1>4. /\ Put(r, "portOrPassword", Append(d, c))
            = R("PortOrPassword", n, Append(d, c), u, w, h, p, i)
      /\ Put(v, "username", n) = R("Password", n, d, n, w, h, p, i)
      /\ Put(R("Password", n, d, n, w, h, p, i), "usernameOrHostname", u)
            = R("Password", u, d, n, w, h, p, i)
      /\ Put(R("Password", u, d, n, w, h, p, i), "password", Append(d, c))
            = R("Password", u, d, n, Append(d, c), h, p, i)
      /\ Put(R("Password", u, d, n, Append(d, c), h, p, i), "portOrPassword", w)
            = R("Password", u, w, n, Append(d, c), h, p, i)
  BY UrlSets
<1>5. /\ Put(y, "hostname", n) = R("Path", n, d, u, w, n, p, i)
      /\ Put(R("Path", n, d, u, w, n, p, i), "usernameOrHostname", h)
            = R("Path", h, d, u, w, n, p, i)
      /\ Put(R("Path", h, d, u, w, n, p, i), "port", d)
            = R("Path", h, d, u, w, n, d, i)
      /\ Put(R("Path", h, d, u, w, n, d, i), "portOrPassword", p)
            = R("Path", h, p, u, w, n, d, i)
      /\ Put(R("Path", h, p, u, w, n, d, i), "integerPort", z)
            = R("Path", h, p, u, w, n, d, z)
  BY UrlSets
<1> HIDE DEF R, r, v, y
<1>6. ASSUME c \in Urls!Digits
      PROVE  Urls!UrlStep(r, c) = Put(r, "portOrPassword", Append(d, c))
  BY <1>1, <1>2, <1>6, UrlBytes DEF Urls!PortOrPassword, Put
<1>7. ASSUME c \in Alnum \ Urls!Digits
      PROVE  Urls!UrlStep(r, c) =
               Put(Put(Put(Put(v, "username", n), "usernameOrHostname", u),
                       "password", Append(d, c)), "portOrPassword", w)
  BY <1>1, <1>2, <1>3, <1>7, UrlBytes DEF Urls!PortOrPassword, Put
<1>8. ASSUME c = "/"
      PROVE  Urls!UrlStep(r, c) =
               Put(Put(Put(Put(Put(y, "hostname", n), "usernameOrHostname", h),
                           "port", d), "portOrPassword", p), "integerPort", z)
  BY <1>1, <1>2, <1>3, <1>8, UrlBytes DEF Urls!PortOrPassword, z, Put
<1>9. ASSUME c \in Alnum \ Urls!Digits
      PROVE  Urls!UrlStep(r, c) = R("Password", u, w, n, Append(d, c), h, p, i)
  BY <1>4, <1>7, <1>9, Zenon
<1>10. ASSUME c = "/" PROVE Urls!UrlStep(r, c) = R("Path", h, p, u, w, n, d, z)
  BY <1>5, <1>8, <1>10, Zenon
<1> QED
  BY <1>4, <1>6, <1>9, <1>10 DEF R, r, z

\* The rest of the password.
LEMMA UrlPassword ==
    ASSUME NEW sch, NEW n, NEW d, NEW u, NEW w, NEW h, NEW p, NEW i, NEW pa,
           NEW q, NEW f, NEW c
    PROVE  LET r == UrlRead("Password", sch, n, d, u, w, h, p, i, pa, q, f)
           IN  /\ c \in Alnum => Urls!UrlStep(r, c)
                    = UrlRead("Password", sch, n, d, u, Append(w, c), h, p, i, pa, q, f)
               /\ c = "@" => Urls!UrlStep(r, c)
                    = UrlRead("Hostname", sch, n, d, u, w, h, p, i, pa, q, f)
<1> DEFINE r == UrlRead("Password", sch, n, d, u, w, h, p, i, pa, q, f)
<1>1. r.state = "Password"
  BY DEF UrlRead
<1>2. Urls!UrlStep(r, c) = Urls!Password(r, c)
  BY <1>1 DEF Urls!UrlStep
<1>3. r.password = w
  BY DEF UrlRead
<1>4. /\ Urls!Move(r, "Hostname") = UrlRead("Hostname", sch, n, d, u, w, h, p, i, pa, q, f)
      /\ Put(r, "password", Append(w, c))
            = UrlRead("Password", sch, n, d, u, Append(w, c), h, p, i, pa, q, f)
  BY UrlMoves, UrlSets
<1> HIDE DEF r
<1>5. ASSUME c \in Alnum PROVE Urls!UrlStep(r, c) = Put(r, "password", Append(w, c))
  BY <1>2, <1>3, <1>5, UrlBytes DEF Urls!Password, Put
<1>6. ASSUME c = "@" PROVE Urls!UrlStep(r, c) = Urls!Move(r, "Hostname")
  BY <1>2, <1>6, UrlBytes DEF Urls!Password, Put
<1> QED
  BY <1>4, <1>5, <1>6 DEF r

\* The name of the host behind a user.
LEMMA UrlHostname ==
    ASSUME NEW sch, NEW n, NEW d, NEW u, NEW w, NEW h, NEW p, NEW i, NEW pa,
           NEW q, NEW f, NEW c
    PROVE  LET r == UrlRead("Hostname", sch, n, d, u, w, h, p, i, pa, q, f)
           IN  /\ c = "[" /\ h = <<>> => Urls!UrlStep(r, c)
                    = UrlRead("IPV6Hostname", sch, n, d, u, w, h, p, i, pa, q, f)
               /\ c \in Unreserved => Urls!UrlStep(r, c)
                    = UrlRead("Hostname", sch, n, d, u, w, Append(h, c), p, i, pa, q, f)
               /\ c = ":" => Urls!UrlStep(r, c)
                    = UrlRead("Port", sch, n, d, u, w, h, p, i, pa, q, f)
               /\ c = "/" => Urls!UrlStep(r, c)
                    = UrlRead("Path", sch, n, d, u, w, h, p, i, pa, q, f)
<1> DEFINE r == UrlRead("Hostname", sch, n, d, u, w, h, p, i, pa, q, f)
<1>1. r.state = "Hostname"
  BY DEF UrlRead
<1>2. Urls!UrlStep(r, c) = Urls!Hostname(r, c)
  BY <1>1 DEF Urls!UrlStep
<1>3. r.hostname = h
  BY DEF UrlRead
<1>4. /\ Urls!Move(r, "IPV6Hostname")
            = UrlRead("IPV6Hostname", sch, n, d, u, w, h, p, i, pa, q, f)
      /\ Urls!Move(r, "Port") = UrlRead("Port", sch, n, d, u, w, h, p, i, pa, q, f)
      /\ Urls!Move(r, "Path") = UrlRead("Path", sch, n, d, u, w, h, p, i, pa, q, f)
      /\ Put(r, "hostname", Append(h, c))
            = UrlRead("Hostname", sch, n, d, u, w, Append(h, c), p, i, pa, q, f)
  BY UrlMoves, UrlSets
<1> HIDE DEF r
<1>5. ASSUME c \in Unreserved
      PROVE  Urls!UrlStep(r, c) = Put(r, "hostname", Append(h, c))
  BY <1>2, <1>3, <1>5, UrlBytes DEF Urls!Hostname, Urls!isUnreserved, Put
<1>6. ASSUME c = ":" PROVE Urls!UrlStep(r, c) = Urls!Move(r, "Port")
  BY <1>2, <1>6, UrlBytes DEF Urls!Hostname, Urls!isUnreserved, Put
<1>7. ASSUME c = "/" PROVE Urls!UrlStep(r, c) = Urls!Move(r, "Path")
  BY <1>2, <1>7, UrlBytes DEF Urls!Hostname, Urls!isUnreserved, Put
<1>8. ASSUME c = "[", h = <<>> PROVE Urls!UrlStep(r, c) = Urls!Move(r, "IPV6Hostname")
  BY <1>2, <1>3, <1>8, UrlBytes DEF Urls!Hostname, Urls!isUnreserved
<1> QED
  BY <1>4, <1>5, <1>6, <1>7, <1>8 DEF r

\* The port behind a user and a host.
LEMMA UrlPort ==
    ASSUME NEW sch, NEW n, NEW d, NEW u, NEW w, NEW h, NEW p, NEW i, NEW pa,
           NEW q, NEW f, NEW c
    PROVE  LET r == UrlRead("Port", sch, n, d, u, w, h, p, i, pa, q, f)
           IN  /\ c \in Urls!Digits => Urls!UrlStep(r, c)
                    = UrlRead("Port", sch, n, Append(d, c), u, w, h, p, i, pa, q, f)
               /\ c = "/" => Urls!UrlStep(r, c)
                    = UrlRead("Path", sch, n, p, u, w, h, d,
                              Urls!NumberOf(d, 10) % Urls!PortValues, pa, q, f)
<1> DEFINE R(state, digits, prt, number) ==
              UrlRead(state, sch, n, digits, u, w, h, prt, number, pa, q, f)
           r == R("Port", d, p, i)
           y == R("Path", d, p, i)
           z == Urls!NumberOf(d, 10) % Urls!PortValues
<1>1. r.state = "Port" /\ r.portOrPassword = d /\ r.port = p
  BY DEF UrlRead
<1>2. Urls!UrlStep(r, c) = Urls!Port(r, c)
  BY <1>1 DEF Urls!UrlStep
<1>3. Urls!Move(r, "Path") = y
  BY UrlMoves
<1> HIDE DEF z
<1>4. /\ Put(r, "portOrPassword", Append(d, c)) = R("Port", Append(d, c), p, i)
      /\ Put(y, "port", d) = R("Path", d, d, i)
      /\ Put(R("Path", d, d, i), "portOrPassword", p) = R("Path", p, d, i)
      /\ Put(R("Path", p, d, i), "integerPort", z) = R("Path", p, d, z)
  BY UrlSets
<1> HIDE DEF R, r, y
<1>5. ASSUME c \in Urls!Digits
      PROVE  Urls!UrlStep(r, c) = Put(r, "portOrPassword", Append(d, c))
  BY <1>1, <1>2, <1>5, UrlBytes DEF Urls!Port, Put
<1>6. ASSUME c = "/"
      PROVE  Urls!UrlStep(r, c) =
               Put(Put(Put(y, "port", d), "portOrPassword", p), "integerPort", z)
  BY <1>1, <1>2, <1>3, <1>6, UrlBytes DEF Urls!Port, z, Put
<1>7. ASSUME c = "/" PROVE Urls!UrlStep(r, c) = R("Path", p, d, z)
  BY <1>4, <1>6, <1>7, Zenon
<1> QED
  BY <1>4, <1>5, <1>7 DEF R, r, z

\* The path, the query and the fragment.
LEMMA UrlTail ==
    ASSUME NEW sch, NEW n, NEW d, NEW u, NEW w, NEW h, NEW p, NEW i, NEW pa,
           NEW q, NEW f, NEW c
    PROVE  LET R(state, x, y, z) ==
                  UrlRead(state, sch, n, d, u, w, h, p, i, x, y, z)
           IN  /\ c \notin {"?", "#"} =>
                    /\ Urls!UrlStep(R("Path", pa, q, f), c) = R("Path", Append(pa, c), q, f)
                    /\ Urls!UrlStep(R("Query", pa, q, f), c) = R("Query", pa, Append(q, c), f)
               /\ Urls!UrlStep(R("Fragment", pa, q, f), c)
                    = R("Fragment", pa, q, Append(f, c))
               /\ c = "?" => Urls!UrlStep(R("Path", pa, q, f), c) = R("Query", pa, q, f)
               /\ c = "#" => /\ Urls!UrlStep(R("Path", pa, q, f), c) = R("Fragment", pa, q, f)
                             /\ Urls!UrlStep(R("Query", pa, q, f), c) = R("Fragment", pa, q, f)
<1> DEFINE r1 == UrlRead("Path", sch, n, d, u, w, h, p, i, pa, q, f)
           r2 == UrlRead("Query", sch, n, d, u, w, h, p, i, pa, q, f)
           r3 == UrlRead("Fragment", sch, n, d, u, w, h, p, i, pa, q, f)
<1>1. r1.state = "Path" /\ r2.state = "Query" /\ r3.state = "Fragment"
  BY DEF UrlRead
<1>2. /\ Urls!UrlStep(r1, c) = Urls!PathQueryFragment(r1, c)
      /\ Urls!UrlStep(r2, c) = Urls!PathQueryFragment(r2, c)
      /\ Urls!UrlStep(r3, c) = Urls!PathQueryFragment(r3, c)
  BY <1>1 DEF Urls!UrlStep
<1>3. /\ r1.path = pa /\ r2.query = q /\ r3.fragment = f
  BY DEF UrlRead
<1>4. /\ Put(r1, "path", Append(pa, c))
           = UrlRead("Path", sch, n, d, u, w, h, p, i, Append(pa, c), q, f)
      /\ Put(r2, "query", Append(q, c))
           = UrlRead("Query", sch, n, d, u, w, h, p, i, pa, Append(q, c), f)
      /\ Put(r3, "fragment", Append(f, c))
           = UrlRead("Fragment", sch, n, d, u, w, h, p, i, pa, q, Append(f, c))
  BY UrlSets
<1>5. /\ Urls!Move(r1, "Query") = UrlRead("Query", sch, n, d, u, w, h, p, i, pa, q, f)
      /\ Urls!Move(r1, "Fragment") = r3 /\ Urls!Move(r2, "Fragment") = r3
  BY UrlMoves
<1> HIDE DEF r1, r2, r3
<1>6. ASSUME c \notin {"?", "#"}
      PROVE  /\ Urls!UrlStep(r1, c) = Put(r1, "path", Append(pa, c))
             /\ Urls!UrlStep(r2, c) = Put(r2, "query", Append(q, c))
  BY <1>1, <1>2, <1>3, <1>6 DEF Urls!PathQueryFragment, Put
<1>7. Urls!UrlStep(r3, c) = Put(r3, "fragment", Append(f, c))
  BY <1>1, <1>2, <1>3 DEF Urls!PathQueryFragment, Put
<1>8. c = "?" => Urls!UrlStep(r1, c) = Urls!Move(r1, "Query")
  BY <1>1, <1>2 DEF Urls!PathQueryFragment, Put
<1>9. c = "#" => /\ Urls!UrlStep(r1, c) = Urls!Move(r1, "Fragment")
                 /\ Urls!UrlStep(r2, c) = Urls!Move(r2, "Fragment")
  BY <1>1, <1>2 DEF Urls!PathQueryFragment, Put
<1> QED
  BY <1>4, <1>5, <1>6, <1>7, <1>8, <1>9 DEF r1, r2, r3

\* The bytes that a name, digits, a host and a port may not be followed by, and
\* a host in brackets.
LEMMA UrlRefusals ==
    ASSUME NEW r, NEW c
    PROVE  /\ r.state = "UsernameOrHostname" /\ c \in {"?", "#", "["}
                => Urls!UrlStep(r, c) = Urls!Refused(r)
           /\ r.state = "PortOrPassword" /\ c \in {"@", "?", "#"}
                => Urls!UrlStep(r, c) = Urls!Refused(r)
           /\ r.state = "Hostname" /\ c \in {"?", "#"}
                => Urls!UrlStep(r, c) = Urls!Refused(r)
           /\ r.state = "Port" /\ c \in {"?", "#"}
                => Urls!UrlStep(r, c) = Urls!Refused(r)
           /\ r.state = "IPV6Hostname" => Urls!UrlStep(r, c) = Urls!Aborted(r)
<1> DEFINE q == Urls!UrlStep(r, c)
<1>1. ASSUME r.state = "UsernameOrHostname", c \in {"?", "#", "["}
      PROVE  q = Urls!Refused(r)
<2>1. q = Urls!UsernameOrHostname(r, c)
  BY <1>1 DEF Urls!UrlStep
<2> QED
  BY <1>1, <2>1, UrlBytes DEF Urls!UsernameOrHostname, Urls!isUnreserved
<1>2. ASSUME r.state = "PortOrPassword", c \in {"@", "?", "#"}
      PROVE  q = Urls!Refused(r)
<2>1. q = Urls!PortOrPassword(r, c)
  BY <1>2 DEF Urls!UrlStep
<2> QED
  BY <1>2, <2>1, UrlBytes DEF Urls!PortOrPassword
<1>3. ASSUME r.state = "Hostname", c \in {"?", "#"} PROVE q = Urls!Refused(r)
<2>1. q = Urls!Hostname(r, c)
  BY <1>3 DEF Urls!UrlStep
<2> QED
  BY <1>3, <2>1, UrlBytes DEF Urls!Hostname, Urls!isUnreserved
<1>4. ASSUME r.state = "Port", c \in {"?", "#"} PROVE q = Urls!Refused(r)
<2>1. q = Urls!Port(r, c)
  BY <1>4 DEF Urls!UrlStep
<2> QED
  BY <1>4, <2>1, UrlBytes DEF Urls!Port
<1>5. ASSUME r.state = "IPV6Hostname" PROVE q = Urls!Aborted(r)
  BY <1>5 DEF Urls!UrlStep
<1> QED
  BY <1>1, <1>2, <1>3, <1>4, <1>5

-----------------------------------------------------------------------------
(* Where the parts of a URL stand in its text.                             *)

Bytes == Urls!Symbols \cup Unreserved \cup {":", "/", "@", "?", "#"}

\* x stands in t behind the o-th symbol.
Holds(t, x, o) ==
    /\ o + Len(x) <= Len(t)
    /\ \A i \in 1..Len(x) : t[o + i] = x[i]

\* The parts of a concatenation.
LEMMA HoldsBoth ==
    ASSUME NEW x \in Seq(Bytes), NEW y \in Seq(Bytes)
    PROVE  /\ x \o y \in Seq(Bytes)
           /\ Len(x \o y) = Len(x) + Len(y)
           /\ Holds(x \o y, x, 0)
           /\ Holds(x \o y, y, Len(x))
<1>1. /\ x \o y \in Seq(Bytes) /\ Len(x \o y) = Len(x) + Len(y)
      /\ \A i \in 1..(Len(x) + Len(y)) :
            (x \o y)[i] = IF i <= Len(x) THEN x[i] ELSE y[i - Len(x)]
  BY ConcatProperties
<1>2. Len(x) \in Nat /\ Len(y) \in Nat
  BY LenProperties
<1>3. ASSUME NEW i \in 1..Len(x) PROVE (x \o y)[0 + i] = x[i]
  BY <1>1, <1>2
<1>4. ASSUME NEW i \in 1..Len(y) PROVE (x \o y)[Len(x) + i] = y[i]
<2>1. Len(x) + i \in 1..(Len(x) + Len(y)) /\ ~(Len(x) + i <= Len(x))
        /\ (Len(x) + i) - Len(x) = i
  BY <1>2
<2> QED
  BY <1>1, <2>1
<1> QED
  BY <1>1, <1>2, <1>3, <1>4 DEF Holds

\* What stands in a part stands in the whole.
LEMMA HoldsWithin ==
    ASSUME NEW t \in Seq(Bytes), NEW y \in Seq(Bytes), NEW x \in Seq(Bytes),
           NEW o \in Nat, NEW p \in Nat, Holds(t, y, o), Holds(y, x, p)
    PROVE  Holds(t, x, o + p)
<1>1. Len(t) \in Nat /\ Len(y) \in Nat /\ Len(x) \in Nat
  BY LenProperties
<1>2. ASSUME NEW i \in 1..Len(x) PROVE t[o + p + i] = x[i]
<2>1. p + i \in 1..Len(y) /\ o + (p + i) = o + p + i
  BY <1>1 DEF Holds
<2>2. y[p + i] = x[i]
  BY DEF Holds
<2>3. t[o + (p + i)] = y[p + i]
  BY <2>1 DEF Holds
<2> QED
  BY <2>1, <2>2, <2>3
<1> QED
  BY <1>1, <1>2 DEF Holds

\* A part with its mark.
LEMMA HoldsMarked ==
    ASSUME NEW t \in Seq(Bytes), NEW x \in Seq(Bytes), NEW mark \in Bytes, NEW o \in Nat
    PROVE  /\ Marked(mark, x) \in Seq(Bytes)
           /\ Len(Marked(mark, x)) = IF x = <<>> THEN 0 ELSE Len(x) + 1
           /\ x # <<>> /\ Holds(t, Marked(mark, x), o)
                => t[o + 1] = mark /\ Holds(t, x, o + 1)
<1>1. CASE x = <<>>
  BY <1>1, EmptySeq DEF Marked
<1>2. CASE x # <<>>
<2>1. Marked(mark, x) = <<mark>> \o x /\ <<mark>> \in Seq(Bytes) /\ Len(<<mark>>) = 1
  BY <1>2 DEF Marked
<2>2. /\ <<mark>> \o x \in Seq(Bytes) /\ Len(<<mark>> \o x) = 1 + Len(x)
      /\ Holds(<<mark>> \o x, <<mark>>, 0) /\ Holds(<<mark>> \o x, x, 1)
  BY <2>1, HoldsBoth
<2>3. ASSUME Holds(t, <<mark>> \o x, o)
      PROVE  Holds(t, <<mark>>, o + 0) /\ Holds(t, x, o + 1)
  BY <2>1, <2>2, <2>3, HoldsWithin
<2>4. Holds(t, <<mark>>, o + 0) => t[o + 1] = mark
  BY <2>1 DEF Holds
<2>5. Len(x) \in Nat
  BY LenProperties
<2> QED
  BY <1>2, <2>1, <2>2, <2>3, <2>4, <2>5
<1> QED
  BY <1>1, <1>2

\* Every part is a sequence of bytes.
LEMMA PartsAreBytes ==
    ASSUME NEW u, UrlParts(u)
    PROVE  /\ u.scheme \in Seq(Bytes) /\ u.username \in Seq(Bytes)
           /\ u.password \in Seq(Bytes) /\ u.hostname \in Seq(Bytes)
           /\ u.port \in Seq(Bytes) /\ u.path \in Seq(Bytes)
           /\ u.query \in Seq(Bytes) /\ u.fragment \in Seq(Bytes)
           /\ Len(u.scheme) \in Nat /\ Len(u.username) \in Nat
           /\ Len(u.password) \in Nat /\ Len(u.hostname) \in Nat
           /\ Len(u.port) \in Nat /\ Len(u.path) \in Nat
           /\ Len(u.query) \in Nat /\ Len(u.fragment) \in Nat
<1>1. /\ u.scheme \in Seq(Unreserved) /\ u.username \in Seq(Unreserved)
      /\ u.password \in Seq(Alnum) /\ u.hostname \in Seq(Urls!Symbols)
      /\ u.port \in Seq(Urls!Digits) /\ u.path \in Seq(PathBytes)
      /\ u.query \in Seq(PathBytes) /\ u.fragment \in Seq(Urls!Symbols)
  BY DEF UrlParts
<1>2. /\ Unreserved \subseteq Bytes /\ Alnum \subseteq Bytes /\ Urls!Digits \subseteq Bytes
      /\ PathBytes \subseteq Bytes /\ Urls!Symbols \subseteq Bytes
  BY UrlBytes DEF Bytes, PathBytes
<1>3. /\ u.scheme \in Seq(Bytes) /\ u.username \in Seq(Bytes)
      /\ u.password \in Seq(Bytes) /\ u.hostname \in Seq(Bytes)
      /\ u.port \in Seq(Bytes) /\ u.path \in Seq(Bytes)
      /\ u.query \in Seq(Bytes) /\ u.fragment \in Seq(Bytes)
  BY <1>1, <1>2, SeqMonotonic
<1> QED
  BY <1>3, LenProperties

\* How many symbols are before the name, the password, the host, and so on.
NameAt(u)     == Len(u.scheme) + 3
PasswordAt(u) == NameAt(u) + Len(u.username) + 1
HostAt(u)     == IF u.username = <<>> THEN NameAt(u)
                 ELSE IF u.password = <<>> THEN PasswordAt(u)
                 ELSE PasswordAt(u) + Len(u.password) + 1
PortAt(u)     == HostAt(u) + Len(u.hostname) + 1
PathAt(u)     == IF u.port = <<>> THEN HostAt(u) + Len(u.hostname)
                 ELSE PortAt(u) + Len(u.port)
QueryAt(u)    == PathAt(u) + Len(u.path) + 1
FragmentAt(u) == IF u.query = <<>> THEN QueryAt(u) ELSE QueryAt(u) + Len(u.query) + 1
EndAt(u)      == IF u.fragment = <<>> THEN FragmentAt(u) - 1
                 ELSE FragmentAt(u) + Len(u.fragment)

\* The user and the password.
LEMMA UserLayout ==
    ASSUME NEW u, UrlParts(u), NEW t \in Seq(Bytes), NEW o \in Nat
    PROVE  /\ UserText(u) \in Seq(Bytes)
           /\ Len(UserText(u)) = HostAt(u) - NameAt(u)
           /\ u.username # <<>> /\ Holds(t, UserText(u), o) =>
                /\ Holds(t, u.username, o)
                /\ t[o + Len(UserText(u))] = "@"
                /\ u.password # <<>> =>
                      /\ t[o + Len(u.username) + 1] = ":"
                      /\ Holds(t, u.password, o + Len(u.username) + 1)
<1> DEFINE x == u.username
           y == Marked(":", u.password)
           z == <<"@">>
<1>1. x \in Seq(Bytes) /\ u.password \in Seq(Bytes) /\ Len(x) \in Nat
        /\ Len(u.password) \in Nat /\ Len(u.scheme) \in Nat
  BY PartsAreBytes
<1>2. ":" \in Bytes /\ "@" \in Bytes
  BY DEF Bytes
<1>3. y \in Seq(Bytes) /\ Len(y) = IF u.password = <<>> THEN 0 ELSE Len(u.password) + 1
  BY <1>1, <1>2, HoldsMarked
<1>4. z \in Seq(Bytes) /\ Len(z) = 1 /\ z[1] = "@"
  BY <1>2
<1>5. CASE x = <<>>
  BY <1>1, <1>5, EmptySeq DEF UserText, HostAt, NameAt
<1>6. CASE x # <<>>
<2> HIDE DEF x, y, z
<2>1. UserText(u) = (x \o y) \o z
  BY <1>6 DEF UserText, x, y, z
<2>2. /\ x \o y \in Seq(Bytes) /\ Len(x \o y) = Len(x) + Len(y)
      /\ Holds(x \o y, x, 0) /\ Holds(x \o y, y, Len(x))
  BY <1>1, <1>3, HoldsBoth
<2>3. /\ (x \o y) \o z \in Seq(Bytes) /\ Len((x \o y) \o z) = Len(x) + Len(y) + 1
      /\ Holds((x \o y) \o z, x \o y, 0) /\ Holds((x \o y) \o z, z, Len(x) + Len(y))
<3> DEFINE w == x \o y
<3>1. w \in Seq(Bytes) /\ Len(w) = Len(x) + Len(y)
  BY <2>2
<3> HIDE DEF w
<3>2. /\ w \o z \in Seq(Bytes) /\ Len(w \o z) = Len(w) + Len(z)
      /\ Holds(w \o z, w, 0) /\ Holds(w \o z, z, Len(w))
  BY <1>4, <3>1, HoldsBoth
<3> QED
  BY <1>4, <3>1, <3>2 DEF w
<2>4. Len(y) \in Nat
  BY <1>1, <1>3
<2>5. Len(UserText(u)) = HostAt(u) - NameAt(u)
<3>1. NameAt(u) \in Nat /\ PasswordAt(u) = NameAt(u) + Len(x) + 1
  BY <1>1 DEF NameAt, PasswordAt, x
<3>2. HostAt(u) = IF u.password = <<>> THEN PasswordAt(u)
                  ELSE PasswordAt(u) + Len(u.password) + 1
  BY <1>6 DEF HostAt, x
<3>3. Len(UserText(u)) = Len(x) + Len(y) + 1
  BY <2>1, <2>3
<3> QED
  BY <1>1, <1>3, <3>1, <3>2, <3>3
<2>6. ASSUME Holds(t, UserText(u), o)
      PROVE  Holds(t, x, o) /\ Holds(t, y, o + Len(x)) /\ Holds(t, z, o + (Len(x) + Len(y)))
<3>1. /\ Holds(t, (x \o y) \o z, o) /\ (x \o y) \o z \in Seq(Bytes)
      /\ 0 \in Nat /\ Len(x) + Len(y) \in Nat
  BY <1>1, <2>1, <2>3, <2>4, <2>6
<3>2. Holds(t, x \o y, o + 0)
  BY <2>2, <2>3, <3>1, HoldsWithin
<3>3. Holds(t, z, o + (Len(x) + Len(y)))
  BY <1>4, <2>3, <3>1, HoldsWithin
<3>4. Holds(t, x \o y, o)
  BY <3>2
<3>5. Holds(t, x, o + 0) /\ Holds(t, y, o + Len(x))
  BY <1>1, <1>3, <2>2, <3>1, <3>4, HoldsWithin
<3> QED
  BY <3>3, <3>5
<2>7. Holds(t, z, o + (Len(x) + Len(y))) => t[o + (Len(x) + Len(y)) + 1] = "@"
  BY <1>4 DEF Holds
<2>8. o + (Len(x) + Len(y)) + 1 = o + Len(UserText(u))
  BY <1>1, <2>1, <2>3, <2>4
<2>9. o + Len(x) \in Nat
  BY <1>1
<2>10. u.password # <<>> /\ Holds(t, y, o + Len(x))
         => t[o + Len(x) + 1] = ":" /\ Holds(t, u.password, o + Len(x) + 1)
  BY <1>1, <1>2, <2>9, HoldsMarked DEF y
<2> QED
  BY <2>1, <2>3, <2>5, <2>6, <2>7, <2>8, <2>10 DEF x
<1> QED
  BY <1>5, <1>6

\* One more piece on the right of what has been laid out.
LEMMA HoldsMore ==
    ASSUME NEW x \in Seq(Bytes), NEW y \in Seq(Bytes), NEW w \in Seq(Bytes),
           NEW o \in Nat, Holds(x, w, o)
    PROVE  Holds(x \o y, w, o)
<1>1. x \o y \in Seq(Bytes) /\ Holds(x \o y, x, 0)
  BY HoldsBoth
<1>2. Holds(x \o y, w, 0 + o)
  BY <1>1, HoldsWithin
<1> QED
  BY <1>2

\* What is written next, in the longer text.
LEMMA HoldsNext ==
    ASSUME NEW x \in Seq(Bytes), NEW y \in Seq(Bytes), NEW n, NEW m,
           Len(x) = n, m = n + Len(y)
    PROVE  /\ x \o y \in Seq(Bytes)
           /\ Len(x \o y) = m
           /\ Holds(x \o y, y, n)
  BY HoldsBoth

\* The offsets in terms of the lengths of the pieces.
LEMMA UrlOffsets ==
    ASSUME NEW u, UrlParts(u)
    PROVE  LET e == IF u.port = <<>> THEN 0 ELSE Len(u.port) + 1
               g == IF u.query = <<>> THEN 0 ELSE Len(u.query) + 1
               h == IF u.fragment = <<>> THEN 0 ELSE Len(u.fragment) + 1
           IN  /\ NameAt(u) = Len(u.scheme) + 3 /\ NameAt(u) \in Nat
               /\ PasswordAt(u) \in Nat /\ PasswordAt(u) = NameAt(u) + Len(u.username) + 1
               /\ HostAt(u) \in Nat
               /\ PortAt(u) = HostAt(u) + Len(u.hostname) + 1 /\ PortAt(u) \in Nat
               /\ PathAt(u) = HostAt(u) + Len(u.hostname) + e /\ PathAt(u) \in Nat
               /\ QueryAt(u) = PathAt(u) + Len(u.path) + 1 /\ QueryAt(u) \in Nat
               /\ FragmentAt(u) = PathAt(u) + Len(u.path) + g + 1 /\ FragmentAt(u) \in Nat
               /\ EndAt(u) = PathAt(u) + Len(u.path) + g + h
<1> DEFINE a == Len(u.scheme)
           b == Len(u.username)
           c == Len(u.password)
           d == Len(u.hostname)
           e == IF u.port = <<>> THEN 0 ELSE Len(u.port) + 1
           f == Len(u.path)
           g == IF u.query = <<>> THEN 0 ELSE Len(u.query) + 1
           h == IF u.fragment = <<>> THEN 0 ELSE Len(u.fragment) + 1
           p == Len(u.port)
           q == Len(u.query)
           r == Len(u.fragment)
<1>1. /\ a \in Nat /\ b \in Nat /\ c \in Nat /\ d \in Nat /\ f \in Nat
      /\ p \in Nat /\ q \in Nat /\ r \in Nat
  BY PartsAreBytes
<1>2. NameAt(u) = a + 3
  BY DEF NameAt
<1>3. PasswordAt(u) = NameAt(u) + b + 1
  BY DEF PasswordAt
<1>4. HostAt(u) = IF u.username = <<>> THEN NameAt(u)
                  ELSE IF u.password = <<>> THEN PasswordAt(u) ELSE PasswordAt(u) + c + 1
  BY DEF HostAt
<1>5. PortAt(u) = HostAt(u) + d + 1
  BY DEF PortAt
<1>6. /\ PathAt(u) = IF u.port = <<>> THEN HostAt(u) + d ELSE PortAt(u) + p
      /\ e = IF u.port = <<>> THEN 0 ELSE p + 1
  BY DEF PathAt
<1>7. QueryAt(u) = PathAt(u) + f + 1
  BY DEF QueryAt
<1>8. /\ FragmentAt(u) = IF u.query = <<>> THEN QueryAt(u) ELSE QueryAt(u) + q + 1
      /\ g = IF u.query = <<>> THEN 0 ELSE q + 1
  BY DEF FragmentAt
<1>9. /\ EndAt(u) = IF u.fragment = <<>> THEN FragmentAt(u) - 1 ELSE FragmentAt(u) + r
      /\ h = IF u.fragment = <<>> THEN 0 ELSE r + 1
  BY DEF EndAt
<1> HIDE DEF a, b, c, d, e, f, g, h, p, q, r
<1>10. NameAt(u) \in Nat /\ PasswordAt(u) \in Nat /\ HostAt(u) \in Nat
  BY <1>1, <1>2, <1>3, <1>4
<1>11. PortAt(u) \in Nat /\ PathAt(u) = HostAt(u) + d + e /\ PathAt(u) \in Nat
  BY <1>1, <1>5, <1>6, <1>10
<1>12. QueryAt(u) \in Nat /\ FragmentAt(u) = PathAt(u) + f + g + 1 /\ FragmentAt(u) \in Nat
  BY <1>1, <1>7, <1>8, <1>11
<1>13. EndAt(u) = PathAt(u) + f + g + h
  BY <1>1, <1>8, <1>9, <1>11, <1>12
<1> QED
  BY <1>2, <1>3, <1>5, <1>7, <1>10, <1>11, <1>12, <1>13 DEF a, b, d, e, f, g, h

\* The whole URL: every part and every mark is at its place.
LEMMA UrlLayout ==
    ASSUME NEW u, UrlParts(u)
    PROVE  LET t == UrlText(u)
           IN  /\ t \in Seq(Bytes) /\ Len(t) = EndAt(u)
               /\ Holds(t, u.scheme, 0)
               /\ Holds(t, <<":", "/", "/">>, Len(u.scheme))
               /\ Holds(t, UserText(u), NameAt(u))
               /\ Holds(t, u.hostname, HostAt(u))
               /\ Holds(t, Marked(":", u.port), PortAt(u) - 1)
               /\ Holds(t, u.path, PathAt(u))
               /\ Holds(t, Marked("?", u.query), QueryAt(u) - 1)
               /\ Holds(t, Marked("#", u.fragment), FragmentAt(u) - 1)
<1> DEFINE a == u.scheme
           b == <<":", "/", "/">>
           c == UserText(u)
           d == u.hostname
           e == Marked(":", u.port)
           f == u.path
           g == Marked("?", u.query)
           h == Marked("#", u.fragment)
           t1 == a \o b
           t2 == t1 \o c
           t3 == t2 \o d
           t4 == t3 \o e
           t5 == t4 \o f
           t6 == t5 \o g
           t7 == t6 \o h
<1>1. ":" \in Bytes /\ "/" \in Bytes /\ "?" \in Bytes /\ "#" \in Bytes
  BY DEF Bytes
<1>2. /\ a \in Seq(Bytes) /\ d \in Seq(Bytes) /\ f \in Seq(Bytes)
      /\ u.port \in Seq(Bytes) /\ u.query \in Seq(Bytes) /\ u.fragment \in Seq(Bytes)
  BY PartsAreBytes
<1>3. b \in Seq(Bytes) /\ Len(b) = 3
  BY <1>1
<1>4. c \in Seq(Bytes) /\ Len(c) = HostAt(u) - NameAt(u)
<2>1. a \in Seq(Bytes) /\ 0 \in Nat
  BY <1>2
<2> QED
  BY <2>1, UserLayout
<1>5. /\ e \in Seq(Bytes) /\ g \in Seq(Bytes) /\ h \in Seq(Bytes)
      /\ Len(e) = IF u.port = <<>> THEN 0 ELSE Len(u.port) + 1
      /\ Len(g) = IF u.query = <<>> THEN 0 ELSE Len(u.query) + 1
      /\ Len(h) = IF u.fragment = <<>> THEN 0 ELSE Len(u.fragment) + 1
<2>1. a \in Seq(Bytes) /\ 0 \in Nat
  BY <1>2
<2> QED
  BY <1>1, <1>2, <2>1, HoldsMarked
<1>6. UrlText(u) = t7
  BY DEF UrlText
<1>7. /\ NameAt(u) = Len(a) + 3 /\ NameAt(u) \in Nat /\ HostAt(u) \in Nat
      /\ PortAt(u) = HostAt(u) + Len(d) + 1 /\ PortAt(u) \in Nat
      /\ PathAt(u) = HostAt(u) + Len(d) + Len(e) /\ PathAt(u) \in Nat
      /\ QueryAt(u) = PathAt(u) + Len(f) + 1 /\ QueryAt(u) \in Nat
      /\ FragmentAt(u) = PathAt(u) + Len(f) + Len(g) + 1 /\ FragmentAt(u) \in Nat
      /\ EndAt(u) = PathAt(u) + Len(f) + Len(g) + Len(h)
  BY <1>5, UrlOffsets
<1> HIDE DEF a, b, c, d, e, f, g, h
<1>8. /\ Len(a) \in Nat /\ Len(c) \in Nat /\ Len(d) \in Nat
      /\ Len(e) \in Nat /\ Len(f) \in Nat /\ Len(g) \in Nat /\ Len(h) \in Nat
  BY <1>2, <1>4, <1>5, LenProperties
<1> DEFINE la == Len(a)
           lb == Len(b)
           lc == Len(c)
           ld == Len(d)
           le == Len(e)
           lf == Len(f)
           lg == Len(g)
           lh == Len(h)
           p  == PortAt(u) - 1
           q  == QueryAt(u) - 1
           r  == FragmentAt(u) - 1
<1>9. /\ p \in Nat /\ q \in Nat /\ r \in Nat /\ EndAt(u) \in Nat
       /\ NameAt(u) = la + lb /\ HostAt(u) = NameAt(u) + lc
       /\ p = HostAt(u) + ld /\ PathAt(u) = p + le /\ q = PathAt(u) + lf /\ r = q + lg
       /\ EndAt(u) = r + lh
<2> HIDE DEF la, lb, lc, ld, le, lf, lg, lh
<2>1. /\ la \in Nat /\ lb = 3 /\ lc \in Nat /\ ld \in Nat /\ le \in Nat /\ lf \in Nat
      /\ lg \in Nat /\ lh \in Nat /\ lc = HostAt(u) - NameAt(u)
  BY <1>3, <1>4, <1>8 DEF la, lb, lc, ld, le, lf, lg, lh
<2>2. /\ NameAt(u) = la + 3 /\ NameAt(u) \in Nat /\ HostAt(u) \in Nat
      /\ PortAt(u) = HostAt(u) + ld + 1 /\ PathAt(u) = HostAt(u) + ld + le
      /\ QueryAt(u) = PathAt(u) + lf + 1 /\ FragmentAt(u) = PathAt(u) + lf + lg + 1
      /\ EndAt(u) = PathAt(u) + lf + lg + lh
      /\ PathAt(u) \in Nat /\ QueryAt(u) \in Nat /\ FragmentAt(u) \in Nat /\ PortAt(u) \in Nat
  BY <1>7 DEF la, lb, lc, ld, le, lf, lg, lh
<2> QED
  BY <2>1, <2>2
<1> HIDE DEF p, q, r
<1>10. /\ a \in Seq(Bytes) /\ b \in Seq(Bytes) /\ c \in Seq(Bytes) /\ d \in Seq(Bytes)
       /\ e \in Seq(Bytes) /\ f \in Seq(Bytes) /\ g \in Seq(Bytes) /\ h \in Seq(Bytes)
  BY <1>2, <1>3, <1>4, <1>5
<1>11. /\ 0 \in Nat /\ Len(a) \in Nat /\ NameAt(u) \in Nat /\ HostAt(u) \in Nat
       /\ p \in Nat /\ PathAt(u) \in Nat /\ q \in Nat /\ r \in Nat
  BY <1>7, <1>8, <1>9
<1>12. t1 \in Seq(Bytes) /\ Len(t1) = NameAt(u) /\ Holds(t1, a, 0) /\ Holds(t1, b, Len(a))
  BY <1>2, <1>3, <1>9, HoldsBoth
<1> HIDE DEF t1
<1>13. t2 \in Seq(Bytes) /\ Len(t2) = HostAt(u) /\ Holds(t2, c, NameAt(u))
<2>1. HostAt(u) = NameAt(u) + Len(c)
  BY <1>9
<2> QED
  BY <1>10, <1>12, <2>1, HoldsNext
<1>14. /\ Holds(t2, a, 0) /\ Holds(t2, b, Len(a))
  BY <1>10, <1>11, <1>12, HoldsMore
<1> HIDE DEF t2
<1>15. t3 \in Seq(Bytes) /\ Len(t3) = p /\ Holds(t3, d, HostAt(u))
<2>1. p = HostAt(u) + Len(d)
  BY <1>9
<2> QED
  BY <1>10, <1>13, <2>1, HoldsNext
<1>16. /\ Holds(t3, a, 0) /\ Holds(t3, b, Len(a)) /\ Holds(t3, c, NameAt(u))
  BY <1>10, <1>11, <1>13, <1>14, HoldsMore
<1> HIDE DEF t3
<1>17. t4 \in Seq(Bytes) /\ Len(t4) = PathAt(u) /\ Holds(t4, e, p)
<2>1. PathAt(u) = p + Len(e)
  BY <1>9
<2> QED
  BY <1>10, <1>15, <2>1, HoldsNext
<1>18. /\ Holds(t4, a, 0) /\ Holds(t4, b, Len(a)) /\ Holds(t4, c, NameAt(u))
       /\ Holds(t4, d, HostAt(u))
  BY <1>10, <1>11, <1>15, <1>16, HoldsMore
<1> HIDE DEF t4
<1>19. t5 \in Seq(Bytes) /\ Len(t5) = q /\ Holds(t5, f, PathAt(u))
<2>1. q = PathAt(u) + Len(f)
  BY <1>9
<2> QED
  BY <1>10, <1>17, <2>1, HoldsNext
<1>20. /\ Holds(t5, a, 0) /\ Holds(t5, b, Len(a)) /\ Holds(t5, c, NameAt(u))
       /\ Holds(t5, d, HostAt(u)) /\ Holds(t5, e, p)
  BY <1>10, <1>11, <1>17, <1>18, HoldsMore
<1> HIDE DEF t5
<1>21. t6 \in Seq(Bytes) /\ Len(t6) = r /\ Holds(t6, g, q)
<2>1. r = q + Len(g)
  BY <1>9
<2> QED
  BY <1>10, <1>19, <2>1, HoldsNext
<1>22. /\ Holds(t6, a, 0) /\ Holds(t6, b, Len(a)) /\ Holds(t6, c, NameAt(u))
       /\ Holds(t6, d, HostAt(u)) /\ Holds(t6, e, p) /\ Holds(t6, f, PathAt(u))
  BY <1>10, <1>11, <1>19, <1>20, HoldsMore
<1> HIDE DEF t6
<1>23. t7 \in Seq(Bytes) /\ Len(t7) = EndAt(u) /\ Holds(t7, h, r)
<2>1. EndAt(u) = r + Len(h)
  BY <1>9
<2> QED
  BY <1>10, <1>21, <2>1, HoldsNext
<1>24. /\ Holds(t7, a, 0) /\ Holds(t7, b, Len(a)) /\ Holds(t7, c, NameAt(u))
       /\ Holds(t7, d, HostAt(u)) /\ Holds(t7, e, p) /\ Holds(t7, f, PathAt(u))
       /\ Holds(t7, g, q)
  BY <1>10, <1>11, <1>21, <1>22, HoldsMore
<1> HIDE DEF t7
<1> QED
  BY <1>6, <1>23, <1>24 DEF a, b, c, d, e, f, g, h, p, q, r

\* The same, symbol by symbol.
LEMMA UrlSymbols ==
    ASSUME NEW u, UrlParts(u)
    PROVE  LET t == UrlText(u)
           IN  /\ Holds(t, u.scheme, 0)
               /\ t[Len(u.scheme) + 1] = ":"
               /\ t[Len(u.scheme) + 2] = "/" /\ t[Len(u.scheme) + 3] = "/"
               /\ u.username # <<>> =>
                     /\ Holds(t, u.username, NameAt(u))
                     /\ t[HostAt(u)] = "@"
                     /\ u.password # <<>> => t[PasswordAt(u)] = ":"
                                               /\ Holds(t, u.password, PasswordAt(u))
               /\ Holds(t, u.hostname, HostAt(u))
               /\ u.port # <<>> => t[PortAt(u)] = ":" /\ Holds(t, u.port, PortAt(u))
               /\ Holds(t, u.path, PathAt(u))
               /\ u.query # <<>> => t[QueryAt(u)] = "?" /\ Holds(t, u.query, QueryAt(u))
               /\ u.fragment # <<>> =>
                     t[FragmentAt(u)] = "#" /\ Holds(t, u.fragment, FragmentAt(u))
<1> DEFINE t == UrlText(u)
           a == Len(u.scheme)
<1>1. /\ t \in Seq(Bytes)
      /\ Holds(t, u.scheme, 0) /\ Holds(t, <<":", "/", "/">>, a)
      /\ Holds(t, UserText(u), NameAt(u)) /\ Holds(t, u.hostname, HostAt(u))
      /\ Holds(t, Marked(":", u.port), PortAt(u) - 1)
      /\ Holds(t, u.path, PathAt(u))
      /\ Holds(t, Marked("?", u.query), QueryAt(u) - 1)
      /\ Holds(t, Marked("#", u.fragment), FragmentAt(u) - 1)
  BY UrlLayout
<1>2. /\ NameAt(u) \in Nat /\ HostAt(u) \in Nat
      /\ PasswordAt(u) = NameAt(u) + Len(u.username) + 1
      /\ PortAt(u) - 1 \in Nat /\ QueryAt(u) - 1 \in Nat /\ FragmentAt(u) - 1 \in Nat
      /\ (PortAt(u) - 1) + 1 = PortAt(u) /\ (QueryAt(u) - 1) + 1 = QueryAt(u)
      /\ (FragmentAt(u) - 1) + 1 = FragmentAt(u)
<2> DEFINE b == Len(u.username)
           d == Len(u.hostname)
           f == Len(u.path)
           g == IF u.query = <<>> THEN 0 ELSE Len(u.query) + 1
<2>1. d \in Nat /\ f \in Nat /\ g \in Nat
  BY PartsAreBytes
<2>2. /\ NameAt(u) \in Nat /\ HostAt(u) \in Nat /\ PathAt(u) \in Nat
      /\ PasswordAt(u) = NameAt(u) + b + 1
      /\ PortAt(u) = HostAt(u) + d + 1 /\ QueryAt(u) = PathAt(u) + f + 1
      /\ FragmentAt(u) = PathAt(u) + f + g + 1
  BY UrlOffsets
<2> HIDE DEF b, d, f, g
<2>3. PortAt(u) - 1 \in Nat /\ (PortAt(u) - 1) + 1 = PortAt(u)
  BY <2>1, <2>2
<2>4. QueryAt(u) - 1 \in Nat /\ (QueryAt(u) - 1) + 1 = QueryAt(u)
  BY <2>1, <2>2
<2>5. FragmentAt(u) - 1 \in Nat /\ (FragmentAt(u) - 1) + 1 = FragmentAt(u)
  BY <2>1, <2>2
<2> QED
  BY <2>2, <2>3, <2>4, <2>5 DEF b
<1>3. /\ u.port \in Seq(Bytes) /\ u.query \in Seq(Bytes) /\ u.fragment \in Seq(Bytes)
      /\ ":" \in Bytes /\ "?" \in Bytes /\ "#" \in Bytes
  BY PartsAreBytes DEF Bytes
<1> HIDE DEF t, a
<1>4. t[a + 1] = ":" /\ t[a + 2] = "/" /\ t[a + 3] = "/"
  BY <1>1 DEF Holds
<1>5. ASSUME u.username # <<>>
      PROVE  /\ Holds(t, u.username, NameAt(u)) /\ t[HostAt(u)] = "@"
             /\ u.password # <<>> => t[PasswordAt(u)] = ":"
                                       /\ Holds(t, u.password, PasswordAt(u))
<2>1. /\ Len(UserText(u)) = HostAt(u) - NameAt(u)
      /\ Holds(t, u.username, NameAt(u))
      /\ t[NameAt(u) + Len(UserText(u))] = "@"
      /\ u.password # <<>> => /\ t[NameAt(u) + Len(u.username) + 1] = ":"
                              /\ Holds(t, u.password, NameAt(u) + Len(u.username) + 1)
  BY <1>1, <1>2, <1>5, UserLayout
<2>2. NameAt(u) + Len(UserText(u)) = HostAt(u)
  BY <1>2, <2>1
<2> QED
  BY <1>2, <2>1, <2>2
<1>6. u.port # <<>> => t[PortAt(u)] = ":" /\ Holds(t, u.port, PortAt(u))
<2>1. u.port # <<>> => t[(PortAt(u) - 1) + 1] = ":" /\ Holds(t, u.port, (PortAt(u) - 1) + 1)
  BY <1>1, <1>2, <1>3, HoldsMarked
<2> QED
  BY <1>2, <2>1
<1>7. u.query # <<>> => t[QueryAt(u)] = "?" /\ Holds(t, u.query, QueryAt(u))
<2>1. u.query # <<>>
        => t[(QueryAt(u) - 1) + 1] = "?" /\ Holds(t, u.query, (QueryAt(u) - 1) + 1)
  BY <1>1, <1>2, <1>3, HoldsMarked
<2> QED
  BY <1>2, <2>1
<1>8. u.fragment # <<>> => t[FragmentAt(u)] = "#" /\ Holds(t, u.fragment, FragmentAt(u))
<2>1. u.fragment # <<>>
        => t[(FragmentAt(u) - 1) + 1] = "#" /\ Holds(t, u.fragment, (FragmentAt(u) - 1) + 1)
  BY <1>1, <1>2, <1>3, HoldsMarked
<2> QED
  BY <1>2, <2>1
<1> QED
  BY <1>1, <1>4, <1>5, <1>6, <1>7, <1>8 DEF t, a

\* What the (k + 1)-th symbol of t adds to the part x behind the o-th, of which
\* k - o symbols have been read.
ReadsOn(S, t, x, o, k) ==
    /\ k - o # Len(x) =>
          /\ t[k + 1] \in S
          /\ t[k + 1] = x[(k - o) + 1]
          /\ (k + 1) - o = (k - o) + 1
          /\ (k + 1) - o \in 1..Len(x)
          /\ Append(SubSeq(x, 1, k - o), t[k + 1]) = SubSeq(x, 1, (k + 1) - o)
    /\ k - o = Len(x) => SubSeq(x, 1, k - o) = x

\* A part is read symbol by symbol, until all of it has been read.
LEMMA PartGrows ==
    ASSUME NEW S, NEW t, NEW x \in Seq(S), NEW o \in Nat, NEW k \in Nat,
           Holds(t, x, o), k - o \in 0..Len(x)
    PROVE  ReadsOn(S, t, x, o, k)
<1>1. Len(x) \in Nat
  BY LenProperties
<1>2. ASSUME k - o # Len(x)
      PROVE  /\ t[k + 1] \in S
             /\ t[k + 1] = x[(k - o) + 1]
             /\ (k + 1) - o = (k - o) + 1
             /\ (k + 1) - o \in 1..Len(x)
             /\ Append(SubSeq(x, 1, k - o), t[k + 1]) = SubSeq(x, 1, (k + 1) - o)
<2> DEFINE j == k - o
<2>1. j + 1 \in 1..Len(x) /\ (k + 1) - o = j + 1 /\ o + (j + 1) = k + 1 /\ j \in Nat
  BY <1>1, <1>2
<2>2. t[k + 1] = x[j + 1]
  BY <2>1 DEF Holds
<2>3. x[j + 1] \in S
  BY <2>1, ElementOfSeq
<2>4. Append(SubSeq(x, 1, j), x[j + 1]) = SubSeq(x, 1, j + 1)
  BY <1>1, <2>1
<2> QED
  BY <2>1, <2>2, <2>3, <2>4
<1>3. SubSeq(x, 1, Len(x)) = x
  BY SubSeqFull
<1> QED
  BY <1>2, <1>3 DEF ReadsOn

\* At the first byte of a part nothing of it has been read.
LEMMA PartBegins ==
    ASSUME NEW S, NEW x \in Seq(S), NEW o \in Nat
    PROVE  o - o = 0 /\ o - o \in 0..Len(x) /\ SubSeq(x, 1, o - o) = <<>>
<1>1. Len(x) \in Nat
  BY LenProperties
<1> QED
  BY <1>1, SubSeqEmpty

\* Behind the path are the query and the fragment, if anything is there.
LEMMA PathEnds ==
    ASSUME NEW u, UrlParts(u), PathAt(u) + Len(u.path) < EndAt(u)
    PROVE  LET k == PathAt(u) + Len(u.path)
           IN  \/ /\ u.query # <<>> /\ k + 1 = QueryAt(u)
                  /\ UrlText(u)[k + 1] = "?"
               \/ /\ u.query = <<>> /\ u.fragment # <<>> /\ k + 1 = FragmentAt(u)
                  /\ UrlText(u)[k + 1] = "#"
<1> DEFINE k == PathAt(u) + Len(u.path)
           g == IF u.query = <<>> THEN 0 ELSE Len(u.query) + 1
           h == IF u.fragment = <<>> THEN 0 ELSE Len(u.fragment) + 1
<1>1. QueryAt(u) = k + 1 /\ FragmentAt(u) = k + g + 1 /\ EndAt(u) = k + g + h
  BY UrlOffsets
<1>2. k \in Nat
  BY PartsAreBytes, UrlOffsets
<1>3. u.query # <<>> => UrlText(u)[QueryAt(u)] = "?"
  BY UrlSymbols
<1>4. u.fragment # <<>> => UrlText(u)[FragmentAt(u)] = "#"
  BY UrlSymbols
<1>5. k < EndAt(u)
  OBVIOUS
<1> HIDE DEF k
<1>6. CASE u.query # <<>>
  BY <1>1, <1>3, <1>6 DEF k
<1>7. CASE u.query = <<>>
<2>1. g = 0
  BY <1>7
<2> HIDE DEF g, h
<2>2. FragmentAt(u) = k + 1 /\ EndAt(u) = k + h
  BY <1>1, <1>2, <2>1
<2>3. h # 0
  BY <1>2, <1>5, <2>2
<2>4. u.fragment # <<>>
  BY <2>3 DEF h
<2> QED
  BY <1>4, <1>7, <2>2, <2>4 DEF k
<1> QED
  BY <1>6, <1>7

\* Behind the host or the port the path begins, or without one the query or the
\* fragment, if anything is there.
LEMMA PathBegins ==
    ASSUME NEW u, UrlParts(u), PathAt(u) < EndAt(u)
    PROVE  \/ /\ u.path # <<>>
              /\ UrlText(u)[PathAt(u) + 1] = "/"
              /\ (PathAt(u) + 1) - PathAt(u) = 1
              /\ 1 \in 1..Len(u.path)
              /\ SubSeq(u.path, 1, 1) = <<"/">>
           \/ /\ u.path = <<>>
              /\ u.query # <<>> \/ u.fragment # <<>>
              /\ UrlText(u)[PathAt(u) + 1] \in {"?", "#"}
<1>1. Len(u.path) \in Nat /\ u.path \in Seq(Bytes) /\ PathAt(u) \in Nat
  BY PartsAreBytes, UrlOffsets
<1>2. ASSUME u.path = <<>>
      PROVE  /\ u.query # <<>> \/ u.fragment # <<>>
             /\ UrlText(u)[PathAt(u) + 1] \in {"?", "#"}
<2>1. PathAt(u) + Len(u.path) = PathAt(u)
  BY <1>1, <1>2, EmptySeq
<2> QED
  BY <2>1, PathEnds
<1>3. ASSUME u.path # <<>>
      PROVE  /\ UrlText(u)[PathAt(u) + 1] = "/"
             /\ (PathAt(u) + 1) - PathAt(u) = 1
             /\ 1 \in 1..Len(u.path)
             /\ SubSeq(u.path, 1, 1) = <<"/">>
<2>1. u.path[1] = "/"
  BY <1>3 DEF UrlParts
<2>2. Len(u.path) > 0
  BY <1>1, <1>3, EmptySeq
<2>3. UrlText(u)[PathAt(u) + 1] = "/"
<3>1. Holds(UrlText(u), u.path, PathAt(u))
  BY UrlSymbols
<3> QED
  BY <1>1, <2>1, <2>2, <3>1 DEF Holds
<2>4. SubSeq(u.path, 1, 1) = <<"/">>
<3>1. SubSeq(u.path, 1, 1) = SubSeq(u.path, 1, 1 - 1) \o <<u.path[1]>>
  BY <1>1, <2>2, SubSeqRecursiveSecond
<3>2. SubSeq(u.path, 1, 1 - 1) = <<>>
  BY SubSeqEmpty
<3>3. "/" \in Bytes /\ <<"/">> \in Seq(Bytes)
  BY DEF Bytes
<3> QED
  BY <2>1, <3>1, <3>2, <3>3, ConcatEmptySeq
<2> QED
  BY <1>1, <2>2, <2>3, <2>4
<1> QED
  BY <1>2, <1>3

\* Behind the query is the fragment, if anything is there.
LEMMA QueryEnds ==
    ASSUME NEW u, UrlParts(u), u.query # <<>>, QueryAt(u) + Len(u.query) < EndAt(u)
    PROVE  LET k == QueryAt(u) + Len(u.query)
           IN  /\ u.fragment # <<>> /\ k + 1 = FragmentAt(u)
               /\ UrlText(u)[k + 1] = "#"
<1> DEFINE p == PathAt(u) + Len(u.path)
           q == Len(u.query)
           h == IF u.fragment = <<>> THEN 0 ELSE Len(u.fragment) + 1
<1>1. QueryAt(u) = p + 1 /\ FragmentAt(u) = p + (q + 1) + 1 /\ EndAt(u) = p + (q + 1) + h
  BY UrlOffsets
<1>2. p \in Nat /\ q \in Nat
<2>1. Len(u.path) \in Nat /\ q \in Nat
  BY PartsAreBytes
<2>2. PathAt(u) \in Nat
  BY UrlOffsets
<2> QED
  BY <2>1, <2>2
<1>3. u.fragment # <<>> => UrlText(u)[FragmentAt(u)] = "#"
  BY UrlSymbols
<1>4. QueryAt(u) + q < EndAt(u)
  OBVIOUS
<1> HIDE DEF p, q, h
<1>5. QueryAt(u) + q + 1 = FragmentAt(u)
  BY <1>1, <1>2
<1>6. h # 0
  BY <1>1, <1>2, <1>4
<1>7. u.fragment # <<>>
  BY <1>6 DEF h
<1> QED
  BY <1>3, <1>5, <1>7 DEF q

-----------------------------------------------------------------------------
(* What the URL parser has after k symbols of the text, state by state.    *)

\* Nothing behind the host has been read.
Early(state, scheme, name, digits, username, password, hostname) ==
    UrlRead(state, scheme, name, digits, username, password, hostname, <<>>, 0,
            <<"/">>, <<>>, <<>>)

\* Everything before the path has been read.
Behind(u, state, path, query, fragment) ==
    UrlRead(state, u.scheme, <<>>, <<>>, u.username, u.password, u.hostname, u.port,
            PortNumber(u.port), path, query, fragment)

InScheme(u, k, r) ==
    /\ k \in 0..Len(u.scheme)
    /\ r = Early("Scheme", SubSeq(u.scheme, 1, k), <<>>, <<>>, <<>>, <<>>, <<>>)

InSlashes(u, k, r) ==
    \/ /\ k = Len(u.scheme) + 1
       /\ r = Early("SlashAfterScheme1", u.scheme, <<>>, <<>>, <<>>, <<>>, <<>>)
    \/ /\ k = Len(u.scheme) + 2
       /\ r = Early("SlashAfterScheme2", u.scheme, <<>>, <<>>, <<>>, <<>>, <<>>)

\* The name behind the slashes.
FirstName(u) == IF u.username = <<>> THEN u.hostname ELSE u.username

\* What the parser understands: a host without brackets, a password with a
\* letter.
Plain(u) == u.hostname \in Seq(Unreserved) /\ ~Numeric(u.password)

InName(u, k, r) ==
    /\ k - NameAt(u) \in 0..Len(FirstName(u))
    /\ FirstName(u) \in Seq(Unreserved) \/ k - NameAt(u) = 0
    /\ r = Early("UsernameOrHostname", u.scheme,
                 SubSeq(FirstName(u), 1, k - NameAt(u)), <<>>, <<>>, <<>>, <<>>)

\* The digits that a password begins with may still be a port.
InPasswordDigits(u, k, r) ==
    /\ u.username # <<>> /\ u.password # <<>>
    /\ k - PasswordAt(u) \in 0..Len(u.password)
    /\ \A i \in 1..(k - PasswordAt(u)) : u.password[i] \in Urls!Digits
    /\ r = Early("PortOrPassword", u.scheme, u.username,
                 SubSeq(u.password, 1, k - PasswordAt(u)), <<>>, <<>>, <<>>)

InPassword(u, k, r) ==
    /\ u.username # <<>> /\ u.password # <<>> /\ ~Numeric(u.password)
    /\ k - PasswordAt(u) \in 1..Len(u.password)
    /\ r = Early("Password", u.scheme, <<>>, <<>>, u.username,
                 SubSeq(u.password, 1, k - PasswordAt(u)), <<>>)

\* The digits of a port that may still begin a password.
InPortDigits(u, k, r) ==
    /\ u.username = <<>> /\ u.port # <<>> /\ Plain(u)
    /\ k - PortAt(u) \in 0..Len(u.port)
    /\ r = Early("PortOrPassword", u.scheme, u.hostname,
                 SubSeq(u.port, 1, k - PortAt(u)), <<>>, <<>>, <<>>)

InHostname(u, k, r) ==
    /\ u.username # <<>> /\ ~Numeric(u.password)
    /\ k - HostAt(u) \in 0..Len(u.hostname)
    /\ u.hostname \in Seq(Unreserved) \/ k - HostAt(u) = 0
    /\ r = Early("Hostname", u.scheme, <<>>, <<>>, u.username, u.password,
                 SubSeq(u.hostname, 1, k - HostAt(u)))

InBrackets(u, k, r) ==
    /\ u.username # <<>> /\ Bracketed(u.hostname) /\ Len(u.hostname) > 1
    /\ k = HostAt(u) + 1
    /\ r = Early("IPV6Hostname", u.scheme, <<>>, <<>>, u.username, u.password, <<>>)

InPort(u, k, r) ==
    /\ u.username # <<>> /\ u.port # <<>> /\ Plain(u)
    /\ k - PortAt(u) \in 0..Len(u.port)
    /\ r = Early("Port", u.scheme, <<>>, SubSeq(u.port, 1, k - PortAt(u)), u.username,
                 u.password, u.hostname)

InPath(u, k, r) ==
    /\ Plain(u)
    /\ k - PathAt(u) \in 1..Len(u.path)
    /\ r = Behind(u, "Path", SubSeq(u.path, 1, k - PathAt(u)), <<>>, <<>>)

InQuery(u, k, r) ==
    /\ Plain(u) /\ u.path # <<>> /\ u.query # <<>>
    /\ k - QueryAt(u) \in 0..Len(u.query)
    /\ r = Behind(u, "Query", u.path, SubSeq(u.query, 1, k - QueryAt(u)), <<>>)

InFragment(u, k, r) ==
    /\ Plain(u) /\ u.path # <<>> /\ u.fragment # <<>>
    /\ k - FragmentAt(u) \in 0..Len(u.fragment)
    /\ r = Behind(u, "Fragment", u.path, u.query,
                  SubSeq(u.fragment, 1, k - FragmentAt(u)))

UrlAt(u, k, r) ==
    \/ InScheme(u, k, r)   \/ InSlashes(u, k, r)  \/ InName(u, k, r)
    \/ InPasswordDigits(u, k, r) \/ InPassword(u, k, r)
    \/ InPortDigits(u, k, r) \/ InHostname(u, k, r) \/ InBrackets(u, k, r)
    \/ InPort(u, k, r)
    \/ InPath(u, k, r) \/ InQuery(u, k, r) \/ InFragment(u, k, r)

\* The parser has given up, with what is left in its variables.
GivesUp(u, r) ==
    /\ "result" \in DOMAIN r
    /\ \/ r.result = "aborted" /\ r.portOrPassword = <<>> /\ UrlAborts(u)
       \/ r.result = "invalid" /\ r.portOrPassword # <<>> /\ UrlAborts(u)
       \/ /\ r.result = "invalid" /\ r.portOrPassword = <<>>
          /\ ~UrlAborts(u) /\ UrlIsRefused(u)

ReadsTo(u, k, r) == UrlAt(u, k, r) \/ GivesUp(u, r)

\* A host of unreserved bytes has no brackets.
LEMMA Unbracketed ==
    ASSUME NEW x \in Seq(Unreserved) PROVE ~Bracketed(x)
<1>1. ASSUME x # <<>> PROVE x[1] \in Unreserved
<2>1. Len(x) \in Nat /\ Len(x) # 0
  BY <1>1, EmptySeq, LenProperties
<2> QED
  BY <2>1, ElementOfSeq
<1> QED
  BY <1>1, UrlBytes DEF Bracketed

\* What the parser gives up with: digits, or none.
LEMMA Refusal ==
    ASSUME NEW u, NEW state, NEW scheme, NEW name, NEW digits, NEW username,
           NEW password, NEW hostname,
           IF digits # <<>> THEN UrlAborts(u) ELSE ~UrlAborts(u) /\ UrlIsRefused(u)
    PROVE  GivesUp(u, Urls!Refused(Early(state, scheme, name, digits, username,
                                         password, hostname)))
<1> DEFINE r == Early(state, scheme, name, digits, username, password, hostname)
           q == Urls!Refused(r)
<1>1. "result" \in DOMAIN q /\ q.result = "invalid" /\ q.portOrPassword = digits
  BY DEF Urls!Refused, Early, UrlRead
<1> HIDE DEF q
<1>2. GivesUp(u, q)
  BY <1>1 DEF GivesUp
<1> QED
  BY <1>2 DEF q

\* The scheme and the slashes are read.
LEMMA SchemeIsRead ==
    ASSUME NEW u, UrlParts(u), NEW k \in Nat, NEW r, k < EndAt(u),
           InScheme(u, k, r) \/ InSlashes(u, k, r)
    PROVE  ReadsTo(u, k + 1, Urls!UrlStep(r, UrlText(u)[k + 1]))
<1> DEFINE x == u.scheme
           a == Len(x)
           c == UrlText(u)[k + 1]
           q == Urls!UrlStep(r, c)
<1>1. x \in Seq(Unreserved) /\ a \in Nat /\ NameAt(u) = a + 3
  BY PartsAreBytes, UrlOffsets DEF UrlParts
<1>2. /\ Holds(UrlText(u), x, 0) /\ UrlText(u)[a + 1] = ":"
      /\ UrlText(u)[a + 2] = "/" /\ UrlText(u)[a + 3] = "/"
  BY UrlSymbols
<1>3. CASE InScheme(u, k, r) /\ k # a
<2>1. k - 0 = k /\ (k + 1) - 0 = k + 1 /\ k - 0 \in 0..a /\ 0 \in Nat /\ k - 0 # a
  BY <1>1, <1>3 DEF InScheme
<2>2. /\ c \in Unreserved /\ (k + 1) - 0 \in 1..a
      /\ Append(SubSeq(x, 1, k - 0), c) = SubSeq(x, 1, (k + 1) - 0)
<3>1. ReadsOn(Unreserved, UrlText(u), x, 0, k)
  BY <1>1, <1>2, <2>1, PartGrows
<3> QED
  BY <2>1, <3>1 DEF ReadsOn
<2>3. k + 1 \in 0..a /\ Append(SubSeq(x, 1, k), c) = SubSeq(x, 1, k + 1)
  BY <1>1, <2>1, <2>2
<2>4. q = Early("Scheme", Append(SubSeq(x, 1, k), c), <<>>, <<>>, <<>>, <<>>, <<>>)
  BY <1>3, <2>2, UrlScheme DEF InScheme, Early
<2>5. InScheme(u, k + 1, q)
  BY <2>3, <2>4 DEF InScheme
<2> QED
  BY <2>5 DEF UrlAt, ReadsTo
<1>4. CASE InScheme(u, k, r) /\ k = a
<2>1. c = ":" /\ SubSeq(x, 1, k) = x
  BY <1>1, <1>2, <1>4, SubSeqFull
<2>2. r = Early("Scheme", x, <<>>, <<>>, <<>>, <<>>, <<>>)
  BY <1>4, <2>1 DEF InScheme
<2>3. q = Early("SlashAfterScheme1", x, <<>>, <<>>, <<>>, <<>>, <<>>)
  BY <2>1, <2>2, UrlScheme DEF Early
<2>4. InSlashes(u, k + 1, q)
  BY <1>4, <2>3 DEF InSlashes
<2> QED
  BY <2>4 DEF UrlAt, ReadsTo
<1>5. CASE InSlashes(u, k, r) /\ k = a + 1
<2>1. c = "/" /\ k + 1 = a + 2
  BY <1>1, <1>2, <1>5
<2>2. r = Early("SlashAfterScheme1", x, <<>>, <<>>, <<>>, <<>>, <<>>)
  BY <1>1, <1>5 DEF InSlashes
<2>3. q = Early("SlashAfterScheme2", x, <<>>, <<>>, <<>>, <<>>, <<>>)
  BY <2>1, <2>2, UrlSlashes DEF Early
<2>4. InSlashes(u, k + 1, q)
  BY <2>1, <2>3 DEF InSlashes
<2> QED
  BY <2>4 DEF UrlAt, ReadsTo
<1>6. CASE InSlashes(u, k, r) /\ k = a + 2
<2>1. c = "/" /\ k + 1 = NameAt(u) /\ NameAt(u) \in Nat
  BY <1>1, <1>2, <1>6
<2>2. r = Early("SlashAfterScheme2", x, <<>>, <<>>, <<>>, <<>>, <<>>)
  BY <1>1, <1>6 DEF InSlashes
<2>3. q = Early("UsernameOrHostname", x, <<>>, <<>>, <<>>, <<>>, <<>>)
  BY <2>1, <2>2, UrlSlashes DEF Early
<2>4. FirstName(u) \in Seq(Bytes)
  BY PartsAreBytes DEF FirstName
<2>5. /\ (k + 1) - NameAt(u) \in 0..Len(FirstName(u))
      /\ SubSeq(FirstName(u), 1, (k + 1) - NameAt(u)) = <<>>
      /\ (k + 1) - NameAt(u) = 0
  BY <2>1, <2>4, PartBegins
<2>6. InName(u, k + 1, q)
  BY <2>3, <2>5 DEF InName
<2> QED
  BY <2>6 DEF UrlAt, ReadsTo
<1> QED
  BY <1>3, <1>4, <1>5, <1>6 DEF InSlashes

\* The name of the user, or of the host if there is no user, is read.
LEMMA NameIsRead ==
    ASSUME NEW u, UrlParts(u), NEW k \in Nat, NEW r, k < EndAt(u), InName(u, k, r)
    PROVE  ReadsTo(u, k + 1, Urls!UrlStep(r, UrlText(u)[k + 1]))
<1> DEFINE x == FirstName(u)
           o == NameAt(u)
           c == UrlText(u)[k + 1]
           q == Urls!UrlStep(r, c)
<1>0. CASE x \notin Seq(Unreserved)
<2>1. u.username = <<>> /\ x = u.hostname /\ k = o /\ o \in Nat
<3>1. k - o = 0 /\ o \in Nat
  BY <1>0, UrlOffsets DEF InName
<3> QED
  BY <1>0, <3>1 DEF FirstName, UrlParts
<2>2. Bracketed(u.hostname) /\ Len(u.hostname) > 1 /\ HostAt(u) = o
  BY <1>0, <2>1 DEF UrlParts, HostAt
<2>3. c = "["
<3>1. Holds(UrlText(u), u.hostname, o)
  BY <2>2, UrlSymbols
<3>2. u.hostname[1] = "[" /\ Len(u.hostname) \in Nat
  BY <2>2, PartsAreBytes DEF Bracketed
<3> QED
  BY <2>1, <2>2, <3>1, <3>2 DEF Holds
<2>4. /\ r = Early("UsernameOrHostname", u.scheme, SubSeq(x, 1, k - o), <<>>, <<>>, <<>>, <<>>)
      /\ r.state = "UsernameOrHostname"
  BY DEF InName, Early, UrlRead
<2>5. q = Urls!Refused(r)
  BY <2>3, <2>4, UrlRefusals
<2>6. ~UrlAborts(u) /\ UrlIsRefused(u)
  BY <2>1, <2>2 DEF UrlAborts, UrlIsRefused, Numeric, UrlParts
<2>7. GivesUp(u, q)
  BY <2>4, <2>5, <2>6, Refusal
<2> QED
  BY <2>7 DEF ReadsTo
<1> SUFFICES ASSUME x \in Seq(Unreserved) PROVE ReadsTo(u, k + 1, q)
  BY <1>0
<1>1. x \in Seq(Unreserved) /\ Len(x) \in Nat /\ o \in Nat
  BY UrlOffsets, LenProperties
<1>2. Holds(UrlText(u), x, o)
<2>1. u.username = <<>> => HostAt(u) = o
  BY DEF HostAt
<2> QED
  BY <2>1, UrlSymbols DEF FirstName
<1>3. k - o \in 0..Len(x)
  BY DEF InName
<1>4. r = Early("UsernameOrHostname", u.scheme, SubSeq(x, 1, k - o), <<>>, <<>>, <<>>, <<>>)
  BY DEF InName
<1> HIDE DEF x
<1>5. CASE k - o # Len(x)
<2>1. /\ c \in Unreserved /\ (k + 1) - o \in 1..Len(x)
      /\ Append(SubSeq(x, 1, k - o), c) = SubSeq(x, 1, (k + 1) - o)
<3>1. x \in Seq(Unreserved) /\ o \in Nat
  BY <1>1
<3> HIDE DEF o
<3>2. ReadsOn(Unreserved, UrlText(u), x, o, k)
  BY <1>2, <1>3, <3>1, PartGrows
<3> QED
  BY <1>5, <3>2 DEF ReadsOn
<2>2. q = Early("UsernameOrHostname", u.scheme, Append(SubSeq(x, 1, k - o), c),
                <<>>, <<>>, <<>>, <<>>)
  BY <1>4, <2>1, UrlName DEF Early
<2>3. (k + 1) - o \in 0..Len(x)
  BY <1>1, <2>1
<2>4. InName(u, k + 1, q)
  BY <1>1, <2>1, <2>2, <2>3 DEF InName, x
<2> QED
  BY <2>4 DEF UrlAt, ReadsTo
<1>6. CASE k - o = Len(x)
<2>1. SubSeq(x, 1, k - o) = x
<3>1. ReadsOn(Unreserved, UrlText(u), x, o, k)
  BY <1>1, <1>2, <1>3, PartGrows
<3> QED
  BY <1>6, <3>1 DEF ReadsOn
<2>2. r = Early("UsernameOrHostname", u.scheme, x, <<>>, <<>>, <<>>, <<>>)
  BY <1>4, <2>1
<2>3. k = o + Len(x)
  BY <1>1, <1>6
<2>4. CASE u.username # <<>> /\ u.password = <<>>
<3>1. x = u.username /\ PasswordAt(u) = o + Len(x) + 1 /\ HostAt(u) = PasswordAt(u)
  BY <2>4, UrlOffsets DEF x, FirstName, HostAt
<3>2. k + 1 = HostAt(u) /\ c = "@"
<4>1. k + 1 = HostAt(u)
  BY <1>1, <2>3, <3>1
<4> QED
  BY <2>4, <4>1, UrlSymbols
<3>3. q = Early("Hostname", u.scheme, <<>>, <<>>, x, <<>>, <<>>)
  BY <2>2, <3>2, UrlName DEF Early
<3>4. (k + 1) - HostAt(u) \in 0..Len(u.hostname)
        /\ SubSeq(u.hostname, 1, (k + 1) - HostAt(u)) = <<>>
        /\ (k + 1) - HostAt(u) = 0
<4>1. u.hostname \in Seq(Bytes) /\ HostAt(u) \in Nat
  BY PartsAreBytes, UrlOffsets
<4> QED
  BY <3>2, <4>1, PartBegins
<3>5. InHostname(u, k + 1, q)
  BY <2>4, <3>1, <3>3, <3>4 DEF InHostname, Numeric
<3> QED
  BY <3>5 DEF UrlAt, ReadsTo
<2>5. CASE u.username # <<>> /\ u.password # <<>>
<3>1. x = u.username /\ PasswordAt(u) = o + Len(x) + 1
  BY <2>5, UrlOffsets DEF x, FirstName
<3>2. k + 1 = PasswordAt(u) /\ c = ":"
<4>1. k + 1 = PasswordAt(u)
  BY <1>1, <2>3, <3>1
<4> QED
  BY <2>5, <4>1, UrlSymbols
<3>3. q = Early("PortOrPassword", u.scheme, x, <<>>, <<>>, <<>>, <<>>)
  BY <2>2, <3>2, UrlName DEF Early
<3>4. /\ (k + 1) - PasswordAt(u) \in 0..Len(u.password) /\ (k + 1) - PasswordAt(u) = 0
      /\ SubSeq(u.password, 1, (k + 1) - PasswordAt(u)) = <<>>
<4>1. u.password \in Seq(Alnum) /\ PasswordAt(u) \in Nat
  BY UrlOffsets DEF UrlParts
<4> QED
  BY <3>2, <4>1, PartBegins
<3>5. \A i \in 1..((k + 1) - PasswordAt(u)) : u.password[i] \in Urls!Digits
  BY <3>4
<3>6. InPasswordDigits(u, k + 1, q)
  BY <2>5, <3>1, <3>3, <3>4, <3>5 DEF InPasswordDigits
<3> QED
  BY <3>6 DEF UrlAt, ReadsTo
<2>6. CASE u.username = <<>> /\ u.port # <<>>
<3>1. x = u.hostname /\ HostAt(u) = o /\ PortAt(u) = HostAt(u) + Len(u.hostname) + 1
  BY <2>6, UrlOffsets DEF x, FirstName, HostAt
<3>2. k + 1 = PortAt(u) /\ c = ":"
<4>1. k + 1 = PortAt(u)
  BY <1>1, <2>3, <3>1
<4> QED
  BY <2>6, <4>1, UrlSymbols
<3>3. q = Early("PortOrPassword", u.scheme, x, <<>>, <<>>, <<>>, <<>>)
  BY <2>2, <3>2, UrlName DEF Early
<3>4. /\ (k + 1) - PortAt(u) \in 0..Len(u.port)
      /\ SubSeq(u.port, 1, (k + 1) - PortAt(u)) = <<>>
<4>1. u.port \in Seq(Urls!Digits) /\ PortAt(u) \in Nat
  BY UrlOffsets DEF UrlParts
<4> QED
  BY <3>2, <4>1, PartBegins
<3>5. Plain(u)
  BY <1>1, <2>6, <3>1 DEF Plain, Numeric, UrlParts
<3>6. InPortDigits(u, k + 1, q)
  BY <2>6, <3>1, <3>3, <3>4, <3>5 DEF InPortDigits
<3> QED
  BY <3>6 DEF UrlAt, ReadsTo
<2>7. CASE u.username = <<>> /\ u.port = <<>>
<3>1. x = u.hostname /\ HostAt(u) = o /\ PathAt(u) = HostAt(u) + Len(u.hostname)
  BY <2>7 DEF x, FirstName, HostAt, PathAt
<3>2. k = PathAt(u)
  BY <2>3, <3>1
<3>3. u.password = <<>> /\ PortNumber(u.port) = 0 /\ Plain(u)
  BY <1>1, <2>7, <3>1 DEF UrlParts, PortNumber, Plain, Numeric
<3>4. CASE u.path # <<>>
<4>1. /\ c = "/" /\ (k + 1) - PathAt(u) \in 1..Len(u.path)
      /\ SubSeq(u.path, 1, (k + 1) - PathAt(u)) = <<"/">>
  BY <3>2, <3>4, PathBegins
<4>2. q = UrlRead("Path", u.scheme, <<>>, <<>>, <<>>, <<>>, x, <<>>, 0, <<"/">>, <<>>, <<>>)
  BY <2>2, <4>1, UrlName DEF Early
<4>3. InPath(u, k + 1, q)
  BY <2>7, <3>1, <3>3, <4>1, <4>2 DEF InPath, Behind
<4> QED
  BY <4>3 DEF UrlAt, ReadsTo
<3>5. CASE u.path = <<>>
<4>1. c \in {"?", "#"} /\ (u.query # <<>> \/ u.fragment # <<>>)
  BY <3>2, <3>5, PathBegins
<4>2. r.state = "UsernameOrHostname"
  BY <2>2 DEF Early, UrlRead
<4>3. q = Urls!Refused(r)
  BY <4>1, <4>2, UrlRefusals
<4>4. ~UrlAborts(u) /\ UrlIsRefused(u)
  BY <2>7, <3>3, <3>5, <4>1 DEF UrlAborts, UrlIsRefused, Plain
<4>5. GivesUp(u, q)
  BY <2>2, <4>3, <4>4, Refusal
<4> QED
  BY <4>5 DEF ReadsTo
<3> QED
  BY <3>4, <3>5
<2> QED
  BY <2>4, <2>5, <2>6, <2>7
<1> QED
  BY <1>5, <1>6

\* The password is read; without a byte that is no digit it is refused.
LEMMA PasswordIsRead ==
    ASSUME NEW u, UrlParts(u), NEW k \in Nat, NEW r, k < EndAt(u),
           InPasswordDigits(u, k, r) \/ InPassword(u, k, r)
    PROVE  ReadsTo(u, k + 1, Urls!UrlStep(r, UrlText(u)[k + 1]))
<1> DEFINE x == u.password
           o == PasswordAt(u)
           j == k - o
           c == UrlText(u)[k + 1]
           q == Urls!UrlStep(r, c)
<1>1. x \in Seq(Alnum) /\ Len(x) \in Nat /\ o \in Nat /\ DOMAIN x = 1..Len(x)
<2>1. x \in Seq(Alnum)
  BY DEF UrlParts
<2> QED
  BY <2>1, UrlOffsets, LenProperties
<1>2. u.username # <<>> /\ x # <<>> /\ j \in 0..Len(x)
  BY <1>1 DEF InPasswordDigits, InPassword
<1>3. Holds(UrlText(u), x, o)
  BY <1>2, UrlSymbols
<1>4. j # Len(x) =>
         /\ c \in Alnum /\ c = x[j + 1] /\ (k + 1) - o = j + 1
         /\ (k + 1) - o \in 1..Len(x)
         /\ Append(SubSeq(x, 1, j), c) = SubSeq(x, 1, (k + 1) - o)
<2>1. x \in Seq(Alnum) /\ o \in Nat /\ k - o \in 0..Len(x)
  BY <1>1, <1>2
<2> HIDE DEF x, o
<2>2. ReadsOn(Alnum, UrlText(u), x, o, k)
  BY <1>3, <2>1, PartGrows
<2> QED
  BY <2>2 DEF ReadsOn
<1>5. CASE InPasswordDigits(u, k, r)
<2>1. r = Early("PortOrPassword", u.scheme, u.username, SubSeq(x, 1, j), <<>>, <<>>, <<>>)
  BY <1>5 DEF InPasswordDigits
<2>2. \A i \in 1..j : x[i] \in Urls!Digits
  BY <1>5 DEF InPasswordDigits
<2>3. CASE j = Len(x)
<3>1. HostAt(u) = o + Len(x) + 1
  BY <1>2 DEF HostAt
<3>2. k + 1 = HostAt(u)
  BY <1>1, <2>3, <3>1
<3>3. c = "@"
  BY <1>2, <3>2, UrlSymbols
<3>4. SubSeq(x, 1, j) = x
  BY <1>1, <2>3, SubSeqFull
<3>5. r = Early("PortOrPassword", u.scheme, u.username, x, <<>>, <<>>, <<>>)
        /\ r.state = "PortOrPassword"
  BY <2>1, <3>4 DEF Early, UrlRead
<3>6. q = Urls!Refused(r)
  BY <3>3, <3>5, UrlRefusals
<3>7. UrlAborts(u)
<4>1. \A i \in DOMAIN x : x[i] \in Urls!Digits
  BY <1>1, <2>2, <2>3
<4> QED
  BY <1>2, <4>1 DEF UrlAborts, Numeric
<3>8. GivesUp(u, q)
  BY <1>2, <3>5, <3>6, <3>7, Refusal
<3> QED
  BY <3>8 DEF ReadsTo
<2> SUFFICES ASSUME j # Len(x) PROVE ReadsTo(u, k + 1, q)
  BY <2>3
<2>4. CASE c \in Urls!Digits
<3>1. q = Early("PortOrPassword", u.scheme, u.username, Append(SubSeq(x, 1, j), c),
                <<>>, <<>>, <<>>)
  BY <2>1, <2>4, UrlPortOrPassword DEF Early
<3>2. (k + 1) - o \in 0..Len(x)
  BY <1>1, <1>4
<3>3. \A i \in 1..((k + 1) - o) : x[i] \in Urls!Digits
<4>1. ASSUME NEW i \in 1..((k + 1) - o) PROVE i \in 1..j \/ i = j + 1
  BY <1>1, <1>2, <1>4
<4> QED
  BY <1>4, <2>2, <2>4, <4>1
<3>4. InPasswordDigits(u, k + 1, q)
  BY <1>2, <1>4, <3>1, <3>2, <3>3 DEF InPasswordDigits
<3> QED
  BY <3>4 DEF UrlAt, ReadsTo
<2>5. CASE c \notin Urls!Digits
<3>1. q = Early("Password", u.scheme, <<>>, <<>>, u.username, Append(SubSeq(x, 1, j), c), <<>>)
  BY <1>4, <2>1, <2>5, UrlPortOrPassword DEF Early
<3>2. ~Numeric(x)
<4>1. j + 1 \in DOMAIN x /\ x[j + 1] \notin Urls!Digits
  BY <1>1, <1>2, <1>4, <2>5
<4> QED
  BY <4>1 DEF Numeric
<3>3. InPassword(u, k + 1, q)
  BY <1>2, <1>4, <3>1, <3>2 DEF InPassword
<3> QED
  BY <3>3 DEF UrlAt, ReadsTo
<2> QED
  BY <2>4, <2>5
<1>6. CASE InPassword(u, k, r)
<2>1. /\ r = Early("Password", u.scheme, <<>>, <<>>, u.username, SubSeq(x, 1, j), <<>>)
      /\ ~Numeric(x)
  BY <1>6 DEF InPassword
<2>2. CASE j # Len(x)
<3>1. q = Early("Password", u.scheme, <<>>, <<>>, u.username, Append(SubSeq(x, 1, j), c), <<>>)
  BY <1>4, <2>1, <2>2, UrlPassword DEF Early
<3>2. InPassword(u, k + 1, q)
  BY <1>2, <1>4, <2>1, <2>2, <3>1 DEF InPassword
<3> QED
  BY <3>2 DEF UrlAt, ReadsTo
<2>3. CASE j = Len(x)
<3>1. SubSeq(x, 1, j) = x
  BY <1>1, <2>3, SubSeqFull
<3>2. HostAt(u) = o + Len(x) + 1
  BY <1>2 DEF HostAt
<3>3. k + 1 = HostAt(u)
  BY <1>1, <2>3, <3>2
<3>4. c = "@"
  BY <1>2, <3>3, UrlSymbols
<3>5. r = Early("Password", u.scheme, <<>>, <<>>, u.username, x, <<>>)
  BY <2>1, <3>1
<3>6. q = Early("Hostname", u.scheme, <<>>, <<>>, u.username, x, <<>>)
  BY <3>4, <3>5, UrlPassword DEF Early
<3>7. (k + 1) - HostAt(u) \in 0..Len(u.hostname)
        /\ SubSeq(u.hostname, 1, (k + 1) - HostAt(u)) = <<>>
        /\ (k + 1) - HostAt(u) = 0
<4>1. u.hostname \in Seq(Bytes) /\ HostAt(u) \in Nat
  BY PartsAreBytes, UrlOffsets
<4> QED
  BY <3>3, <4>1, PartBegins
<3>8. InHostname(u, k + 1, q)
  BY <1>2, <2>1, <3>6, <3>7 DEF InHostname
<3> QED
  BY <3>8 DEF UrlAt, ReadsTo
<2> QED
  BY <2>2, <2>3
<1> QED
  BY <1>5, <1>6

\* A port that is there is the number of its digits, in 16 bits too.
LEMMA PortFits ==
    ASSUME NEW u, UrlParts(u), u.port # <<>>
    PROVE  Urls!NumberOf(u.port, 10) % Urls!PortValues = PortNumber(u.port)
<1>1. PortNumber(u.port) = Urls!NumberOf(u.port, 10)
  BY DEF PortNumber
<1> DEFINE n == PortNumber(u.port)
<1>2. n \in 0..(Urls!PortValues - 1)
  BY Zenon DEF UrlParts
<1>3. Urls!PortValues \in Nat
  BY DEF Urls!PortValues
<1> HIDE DEF n
<1>4. n \in Nat /\ n < Urls!PortValues
  BY <1>2, <1>3
<1>5. n % Urls!PortValues = n
  BY <1>3, <1>4
<1> QED
  BY <1>1, <1>5 DEF n

\* The digits of the port are read, behind a host without a user.
LEMMA PortDigitsAreRead ==
    ASSUME NEW u, UrlParts(u), NEW k \in Nat, NEW r, k < EndAt(u), InPortDigits(u, k, r)
    PROVE  ReadsTo(u, k + 1, Urls!UrlStep(r, UrlText(u)[k + 1]))
<1> DEFINE x == u.port
           o == PortAt(u)
           j == k - o
           c == UrlText(u)[k + 1]
           q == Urls!UrlStep(r, c)
<1>1. x \in Seq(Urls!Digits) /\ Len(x) \in Nat /\ o \in Nat
<2>1. x \in Seq(Urls!Digits)
  BY DEF UrlParts
<2> QED
  BY <2>1, UrlOffsets, LenProperties
<1>2. /\ u.username = <<>> /\ x # <<>> /\ Plain(u) /\ k - o \in 0..Len(x)
      /\ r = Early("PortOrPassword", u.scheme, u.hostname, SubSeq(x, 1, j), <<>>, <<>>, <<>>)
  BY DEF InPortDigits
<1>3. Holds(UrlText(u), x, o)
  BY <1>2, UrlSymbols
<1>4. j # Len(x) =>
         /\ c \in Urls!Digits /\ (k + 1) - o \in 1..Len(x)
         /\ Append(SubSeq(x, 1, j), c) = SubSeq(x, 1, (k + 1) - o)
<2>1. x \in Seq(Urls!Digits) /\ o \in Nat /\ k - o \in 0..Len(x)
  BY <1>1, <1>2
<2> HIDE DEF x, o
<2>2. ReadsOn(Urls!Digits, UrlText(u), x, o, k)
  BY <1>3, <2>1, PartGrows
<2> QED
  BY <2>2 DEF ReadsOn
<1>5. CASE j # Len(x)
<2>1. q = Early("PortOrPassword", u.scheme, u.hostname, Append(SubSeq(x, 1, j), c),
                <<>>, <<>>, <<>>)
  BY <1>2, <1>4, <1>5, UrlPortOrPassword DEF Early
<2>2. (k + 1) - o \in 0..Len(x)
  BY <1>1, <1>4, <1>5
<2>3. InPortDigits(u, k + 1, q)
  BY <1>2, <1>4, <1>5, <2>1, <2>2 DEF InPortDigits
<2> QED
  BY <2>3 DEF UrlAt, ReadsTo
<1>6. CASE j = Len(x)
<2>1. SubSeq(x, 1, j) = x
  BY <1>1, <1>6, SubSeqFull
<2>2. PathAt(u) = o + Len(x)
  BY <1>2 DEF PathAt
<2>3. k = PathAt(u)
  BY <1>1, <1>6, <2>2
<2>4. r = Early("PortOrPassword", u.scheme, u.hostname, x, <<>>, <<>>, <<>>)
        /\ r.state = "PortOrPassword"
  BY <1>2, <2>1 DEF Early, UrlRead
<2>5. CASE u.path = <<>>
<3>1. c \in {"?", "#"}
  BY <2>3, <2>5, PathBegins
<3>2. q = Urls!Refused(r)
  BY <2>4, <3>1, UrlRefusals
<3>3. UrlAborts(u)
  BY <1>2, <2>5, Unbracketed DEF UrlAborts, Plain
<3>4. GivesUp(u, q)
  BY <1>2, <2>4, <3>2, <3>3, Refusal
<3> QED
  BY <3>4 DEF ReadsTo
<2> SUFFICES ASSUME u.path # <<>> PROVE ReadsTo(u, k + 1, q)
  BY <2>5
<2>6. /\ c = "/" /\ (k + 1) - PathAt(u) \in 1..Len(u.path)
       /\ SubSeq(u.path, 1, (k + 1) - PathAt(u)) = <<"/">>
  BY <2>3, PathBegins
<2>7. q = UrlRead("Path", u.scheme, <<>>, <<>>, <<>>, <<>>, u.hostname, x,
                  Urls!NumberOf(x, 10) % Urls!PortValues, <<"/">>, <<>>, <<>>)
  BY <2>4, <2>6, UrlPortOrPassword DEF Early
<2>8. u.password = <<>>
  BY <1>2 DEF UrlParts
<2>9. Urls!NumberOf(x, 10) % Urls!PortValues = PortNumber(x)
  BY <1>2, PortFits
<2>10. InPath(u, k + 1, q)
  BY <1>2, <2>6, <2>7, <2>8, <2>9 DEF InPath, Behind
<2> QED
  BY <2>10 DEF UrlAt, ReadsTo
<1> QED
  BY <1>5, <1>6

\* The host behind a user, and the port behind it, are read.
LEMMA HostIsRead ==
    ASSUME NEW u, UrlParts(u), NEW k \in Nat, NEW r, k < EndAt(u), InHostname(u, k, r)
    PROVE  ReadsTo(u, k + 1, Urls!UrlStep(r, UrlText(u)[k + 1]))
<1> DEFINE x == u.hostname
           o == HostAt(u)
           j == k - o
           c == UrlText(u)[k + 1]
           q == Urls!UrlStep(r, c)
<1>0. CASE x \notin Seq(Unreserved)
<2>1. /\ u.username # <<>> /\ k - o = 0
      /\ r = Early("Hostname", u.scheme, <<>>, <<>>, u.username, u.password,
                   SubSeq(x, 1, k - o))
  BY <1>0 DEF InHostname
<2>2. o \in Nat /\ k = o
  BY <2>1, UrlOffsets
<2>3. Bracketed(x) /\ Len(x) > 1 /\ Len(x) \in Nat /\ x[1] = "["
  BY <1>0, PartsAreBytes DEF UrlParts, Bracketed
<2>4. c = "["
<3>1. Holds(UrlText(u), x, o)
  BY UrlSymbols
<3> QED
  BY <2>2, <2>3, <3>1 DEF Holds
<2>5. r = Early("Hostname", u.scheme, <<>>, <<>>, u.username, u.password, <<>>)
<3>1. SubSeq(x, 1, 0) = <<>>
  BY SubSeqEmpty
<3> QED
  BY <2>1, <3>1
<2>6. q = Early("IPV6Hostname", u.scheme, <<>>, <<>>, u.username, u.password, <<>>)
  BY <2>4, <2>5, UrlHostname DEF Early
<2>7. InBrackets(u, k + 1, q)
  BY <2>1, <2>2, <2>3, <2>6 DEF InBrackets
<2> QED
  BY <2>7 DEF UrlAt, ReadsTo
<1> SUFFICES ASSUME x \in Seq(Unreserved) PROVE ReadsTo(u, k + 1, q)
  BY <1>0
<1>1. x \in Seq(Unreserved) /\ Len(x) \in Nat /\ o \in Nat
  BY UrlOffsets, LenProperties
<1>2. /\ u.username # <<>> /\ ~Numeric(u.password) /\ k - o \in 0..Len(x)
      /\ r = Early("Hostname", u.scheme, <<>>, <<>>, u.username, u.password,
                   SubSeq(x, 1, j))
  BY DEF InHostname
<1>3. Holds(UrlText(u), x, o)
  BY UrlSymbols
<1>4. j # Len(x) =>
         /\ c \in Unreserved /\ (k + 1) - o \in 1..Len(x)
         /\ Append(SubSeq(x, 1, j), c) = SubSeq(x, 1, (k + 1) - o)
<2>1. x \in Seq(Unreserved) /\ o \in Nat /\ k - o \in 0..Len(x)
  BY <1>1, <1>2
<2> HIDE DEF x, o
<2>2. ReadsOn(Unreserved, UrlText(u), x, o, k)
  BY <1>3, <2>1, PartGrows
<2> QED
  BY <2>2 DEF ReadsOn
<1>5. CASE j # Len(x)
<2>1. q = Early("Hostname", u.scheme, <<>>, <<>>, u.username, u.password,
                Append(SubSeq(x, 1, j), c))
  BY <1>2, <1>4, <1>5, UrlHostname DEF Early
<2>2. (k + 1) - o \in 0..Len(x)
  BY <1>1, <1>4, <1>5
<2>3. InHostname(u, k + 1, q)
  BY <1>1, <1>2, <1>4, <1>5, <2>1, <2>2 DEF InHostname
<2> QED
  BY <2>3 DEF UrlAt, ReadsTo
<1>6. CASE j = Len(x)
<2>1. SubSeq(x, 1, j) = x
  BY <1>1, <1>6, SubSeqFull
<2>2. r = Early("Hostname", u.scheme, <<>>, <<>>, u.username, u.password, x)
  BY <1>2, <2>1
<2>3. CASE u.port # <<>>
<3>1. PortAt(u) = o + Len(x) + 1
  BY UrlOffsets
<3>2. k + 1 = PortAt(u)
  BY <1>1, <1>6, <3>1
<3>3. c = ":"
  BY <2>3, <3>2, UrlSymbols
<3>4. q = Early("Port", u.scheme, <<>>, <<>>, u.username, u.password, x)
  BY <2>2, <3>3, UrlHostname DEF Early
<3>5. /\ (k + 1) - PortAt(u) \in 0..Len(u.port)
      /\ SubSeq(u.port, 1, (k + 1) - PortAt(u)) = <<>>
<4>1. u.port \in Seq(Urls!Digits) /\ PortAt(u) \in Nat
  BY UrlOffsets DEF UrlParts
<4> QED
  BY <3>2, <4>1, PartBegins
<3>6. InPort(u, k + 1, q)
  BY <1>1, <1>2, <2>3, <3>4, <3>5 DEF InPort, Plain
<3> QED
  BY <3>6 DEF UrlAt, ReadsTo
<2>4. CASE u.port = <<>>
<3>1. PathAt(u) = o + Len(x)
  BY <2>4 DEF PathAt
<3>2. k = PathAt(u)
  BY <1>1, <1>6, <3>1
<3>3. PortNumber(u.port) = 0 /\ Plain(u)
  BY <1>1, <1>2, <2>4 DEF PortNumber, Plain
<3>4. CASE u.path # <<>>
<4>1. /\ c = "/" /\ (k + 1) - PathAt(u) \in 1..Len(u.path)
      /\ SubSeq(u.path, 1, (k + 1) - PathAt(u)) = <<"/">>
  BY <3>2, <3>4, PathBegins
<4>2. q = Early("Path", u.scheme, <<>>, <<>>, u.username, u.password, x)
  BY <2>2, <4>1, UrlHostname DEF Early
<4>3. InPath(u, k + 1, q)
  BY <2>4, <3>3, <4>1, <4>2 DEF InPath, Behind, Early
<4> QED
  BY <4>3 DEF UrlAt, ReadsTo
<3>5. CASE u.path = <<>>
<4>1. c \in {"?", "#"} /\ (u.query # <<>> \/ u.fragment # <<>>)
  BY <3>2, <3>5, PathBegins
<4>2. r.state = "Hostname"
  BY <2>2 DEF Early, UrlRead
<4>3. q = Urls!Refused(r)
  BY <4>1, <4>2, UrlRefusals
<4>4. ~UrlAborts(u) /\ UrlIsRefused(u)
  BY <1>1, <2>4, <3>3, <3>5, <4>1, Unbracketed DEF UrlAborts, UrlIsRefused, Plain
<4>5. GivesUp(u, q)
  BY <2>2, <4>3, <4>4, Refusal
<4> QED
  BY <4>5 DEF ReadsTo
<3> QED
  BY <3>4, <3>5
<2> QED
  BY <2>3, <2>4
<1> QED
  BY <1>5, <1>6

\* The byte behind the bracket, whatever it is.
LEMMA BracketsAreRead ==
    ASSUME NEW u, UrlParts(u), NEW k \in Nat, NEW r, k < EndAt(u), InBrackets(u, k, r)
    PROVE  ReadsTo(u, k + 1, Urls!UrlStep(r, UrlText(u)[k + 1]))
<1> DEFINE q == Urls!UrlStep(r, UrlText(u)[k + 1])
<1>1. r.state = "IPV6Hostname" /\ r.portOrPassword = <<>> /\ "result" \in DOMAIN r
        /\ "portOrPassword" \in DOMAIN r
  BY DEF InBrackets, Early, UrlRead
<1>2. q = Urls!Aborted(r)
  BY <1>1, UrlRefusals
<1>3. q.result = "aborted" /\ q.portOrPassword = <<>> /\ "result" \in DOMAIN q
  BY <1>1, <1>2 DEF Urls!Aborted
<1>4. UrlAborts(u)
  BY DEF InBrackets, UrlAborts
<1> QED
  BY <1>3, <1>4 DEF GivesUp, ReadsTo

\* The port behind a user and a host is read.
LEMMA PortIsRead ==
    ASSUME NEW u, UrlParts(u), NEW k \in Nat, NEW r, k < EndAt(u), InPort(u, k, r)
    PROVE  ReadsTo(u, k + 1, Urls!UrlStep(r, UrlText(u)[k + 1]))
<1> DEFINE x == u.port
           o == PortAt(u)
           j == k - o
           c == UrlText(u)[k + 1]
           q == Urls!UrlStep(r, c)
<1>1. x \in Seq(Urls!Digits) /\ Len(x) \in Nat /\ o \in Nat
<2>1. x \in Seq(Urls!Digits)
  BY DEF UrlParts
<2> QED
  BY <2>1, UrlOffsets, LenProperties
<1>2. /\ u.username # <<>> /\ x # <<>> /\ Plain(u) /\ k - o \in 0..Len(x)
      /\ r = Early("Port", u.scheme, <<>>, SubSeq(x, 1, j), u.username, u.password,
                   u.hostname)
  BY DEF InPort
<1>3. Holds(UrlText(u), x, o)
  BY <1>2, UrlSymbols
<1>4. j # Len(x) =>
         /\ c \in Urls!Digits /\ (k + 1) - o \in 1..Len(x)
         /\ Append(SubSeq(x, 1, j), c) = SubSeq(x, 1, (k + 1) - o)
<2>1. x \in Seq(Urls!Digits) /\ o \in Nat /\ k - o \in 0..Len(x)
  BY <1>1, <1>2
<2> HIDE DEF x, o
<2>2. ReadsOn(Urls!Digits, UrlText(u), x, o, k)
  BY <1>3, <2>1, PartGrows
<2> QED
  BY <2>2 DEF ReadsOn
<1>5. CASE j # Len(x)
<2>1. q = Early("Port", u.scheme, <<>>, Append(SubSeq(x, 1, j), c), u.username,
                u.password, u.hostname)
  BY <1>2, <1>4, <1>5, UrlPort DEF Early
<2>2. (k + 1) - o \in 0..Len(x)
  BY <1>1, <1>4, <1>5
<2>3. InPort(u, k + 1, q)
  BY <1>2, <1>4, <1>5, <2>1, <2>2 DEF InPort
<2> QED
  BY <2>3 DEF UrlAt, ReadsTo
<1>6. CASE j = Len(x)
<2>1. SubSeq(x, 1, j) = x
  BY <1>1, <1>6, SubSeqFull
<2>2. PathAt(u) = o + Len(x)
  BY <1>2 DEF PathAt
<2>3. k = PathAt(u)
  BY <1>1, <1>6, <2>2
<2>4. r = Early("Port", u.scheme, <<>>, x, u.username, u.password, u.hostname)
        /\ r.state = "Port"
  BY <1>2, <2>1 DEF Early, UrlRead
<2>5. CASE u.path = <<>>
<3>1. c \in {"?", "#"}
  BY <2>3, <2>5, PathBegins
<3>2. q = Urls!Refused(r)
  BY <2>4, <3>1, UrlRefusals
<3>3. UrlAborts(u)
  BY <1>2, <2>5, Unbracketed DEF UrlAborts, Plain
<3>4. GivesUp(u, q)
  BY <1>2, <2>4, <3>2, <3>3, Refusal
<3> QED
  BY <3>4 DEF ReadsTo
<2> SUFFICES ASSUME u.path # <<>> PROVE ReadsTo(u, k + 1, q)
  BY <2>5
<2>6. /\ c = "/" /\ (k + 1) - PathAt(u) \in 1..Len(u.path)
       /\ SubSeq(u.path, 1, (k + 1) - PathAt(u)) = <<"/">>
  BY <2>3, PathBegins
<2>7. q = UrlRead("Path", u.scheme, <<>>, <<>>, u.username, u.password, u.hostname, x,
                  Urls!NumberOf(x, 10) % Urls!PortValues, <<"/">>, <<>>, <<>>)
  BY <2>4, <2>6, UrlPort DEF Early
<2>8. Urls!NumberOf(x, 10) % Urls!PortValues = PortNumber(x)
  BY <1>2, PortFits
<2>9. InPath(u, k + 1, q)
  BY <1>2, <2>6, <2>7, <2>8 DEF InPath, Behind
<2> QED
  BY <2>9 DEF UrlAt, ReadsTo
<1> QED
  BY <1>5, <1>6

\* The path, the query and the fragment are read.
LEMMA TailIsRead ==
    ASSUME NEW u, UrlParts(u), NEW k \in Nat, NEW r, k < EndAt(u),
           InPath(u, k, r) \/ InQuery(u, k, r) \/ InFragment(u, k, r)
    PROVE  ReadsTo(u, k + 1, Urls!UrlStep(r, UrlText(u)[k + 1]))
<1> DEFINE t == UrlText(u)
           c == t[k + 1]
           q == Urls!UrlStep(r, c)
<1>1. /\ u.path \in Seq(PathBytes) /\ u.query \in Seq(PathBytes)
      /\ u.fragment \in Seq(Urls!Symbols)
      /\ PathAt(u) \in Nat /\ QueryAt(u) \in Nat /\ FragmentAt(u) \in Nat
      /\ Len(u.path) \in Nat /\ Len(u.query) \in Nat /\ Len(u.fragment) \in Nat
<2>1. /\ u.path \in Seq(PathBytes) /\ u.query \in Seq(PathBytes)
      /\ u.fragment \in Seq(Urls!Symbols)
  BY DEF UrlParts
<2> QED
  BY <2>1, UrlOffsets, LenProperties
<1>2. \A b \in PathBytes : b \notin {"?", "#"}
  BY DEF PathBytes
<1>3. ASSUME u.fragment # <<>>, k + 1 = FragmentAt(u)
      PROVE  /\ (k + 1) - FragmentAt(u) \in 0..Len(u.fragment)
             /\ SubSeq(u.fragment, 1, (k + 1) - FragmentAt(u)) = <<>>
  BY <1>1, <1>3, PartBegins
<1>4. CASE InPath(u, k, r)
<2> DEFINE x == u.path
           o == PathAt(u)
<2>1. Plain(u) /\ k - o \in 1..Len(x) /\ r = Behind(u, "Path", SubSeq(x, 1, k - o), <<>>, <<>>)
  BY <1>4 DEF InPath
<2>2. CASE k - o # Len(x)
<3>1. /\ c \in PathBytes /\ (k + 1) - o \in 1..Len(x)
      /\ Append(SubSeq(x, 1, k - o), c) = SubSeq(x, 1, (k + 1) - o)
<4>1. x \in Seq(PathBytes) /\ o \in Nat /\ Holds(t, x, o)
  BY <1>1, UrlSymbols
<4>2. k - o \in 0..Len(x)
  BY <1>1, <2>1
<4> HIDE DEF x, o, t
<4>3. ReadsOn(PathBytes, t, x, o, k)
  BY <4>1, <4>2, PartGrows
<4> QED
  BY <2>2, <4>3 DEF ReadsOn
<3>2. q = Behind(u, "Path", Append(SubSeq(x, 1, k - o), c), <<>>, <<>>)
  BY <1>2, <2>1, <3>1, UrlTail DEF Behind
<3>3. InPath(u, k + 1, q)
  BY <2>1, <3>1, <3>2 DEF InPath
<3> QED
  BY <3>3 DEF UrlAt, ReadsTo
<2>3. CASE k - o = Len(x)
<3>1. SubSeq(x, 1, k - o) = x /\ k = o + Len(x)
  BY <1>1, <2>3, SubSeqFull
<3>2. r = Behind(u, "Path", x, <<>>, <<>>) /\ u.path # <<>>
<4>1. Len(x) # 0
  BY <1>1, <2>1
<4> QED
  BY <2>1, <3>1, <4>1, EmptySeq
<3>3. CASE u.query # <<>>
<4>1. k + 1 = QueryAt(u) /\ c = "?"
  BY <3>1, <3>3, PathEnds
<4>2. q = Behind(u, "Query", x, <<>>, <<>>)
  BY <3>2, <4>1, UrlTail DEF Behind
<4>3. /\ (k + 1) - QueryAt(u) \in 0..Len(u.query)
      /\ SubSeq(u.query, 1, (k + 1) - QueryAt(u)) = <<>>
  BY <1>1, <4>1, PartBegins
<4>4. InQuery(u, k + 1, q)
  BY <2>1, <3>2, <3>3, <4>2, <4>3 DEF InQuery
<4> QED
  BY <4>4 DEF UrlAt, ReadsTo
<3>4. CASE u.query = <<>>
<4>1. u.fragment # <<>> /\ k + 1 = FragmentAt(u) /\ c = "#"
  BY <3>1, <3>4, PathEnds
<4>2. q = Behind(u, "Fragment", x, <<>>, <<>>)
  BY <3>2, <4>1, UrlTail DEF Behind
<4>3. InFragment(u, k + 1, q)
  BY <1>3, <2>1, <3>2, <3>4, <4>1, <4>2 DEF InFragment
<4> QED
  BY <4>3 DEF UrlAt, ReadsTo
<3> QED
  BY <3>3, <3>4
<2> QED
  BY <2>2, <2>3
<1>5. CASE InQuery(u, k, r)
<2> DEFINE x == u.query
           o == QueryAt(u)
<2>1. /\ Plain(u) /\ u.path # <<>> /\ x # <<>> /\ k - o \in 0..Len(x)
      /\ r = Behind(u, "Query", u.path, SubSeq(x, 1, k - o), <<>>)
  BY <1>5 DEF InQuery
<2>2. CASE k - o # Len(x)
<3>1. /\ c \in PathBytes /\ (k + 1) - o \in 1..Len(x)
      /\ Append(SubSeq(x, 1, k - o), c) = SubSeq(x, 1, (k + 1) - o)
<4>1. x \in Seq(PathBytes) /\ o \in Nat /\ Holds(t, x, o)
  BY <1>1, <2>1, UrlSymbols
<4> HIDE DEF x, o, t
<4>2. ReadsOn(PathBytes, t, x, o, k)
  BY <2>1, <4>1, PartGrows
<4> QED
  BY <2>2, <4>2 DEF ReadsOn
<3>2. q = Behind(u, "Query", u.path, Append(SubSeq(x, 1, k - o), c), <<>>)
  BY <1>2, <2>1, <3>1, UrlTail DEF Behind
<3>3. (k + 1) - o \in 0..Len(x)
  BY <1>1, <3>1
<3>4. InQuery(u, k + 1, q)
  BY <2>1, <3>1, <3>2, <3>3 DEF InQuery
<3> QED
  BY <3>4 DEF UrlAt, ReadsTo
<2>3. CASE k - o = Len(x)
<3>1. SubSeq(x, 1, k - o) = x /\ k = o + Len(x)
  BY <1>1, <2>3, SubSeqFull
<3>2. r = Behind(u, "Query", u.path, x, <<>>)
  BY <2>1, <3>1
<3>3. u.fragment # <<>> /\ k + 1 = FragmentAt(u) /\ c = "#"
  BY <2>1, <3>1, QueryEnds
<3>4. q = Behind(u, "Fragment", u.path, x, <<>>)
  BY <3>2, <3>3, UrlTail DEF Behind
<3>5. InFragment(u, k + 1, q)
  BY <1>3, <2>1, <3>3, <3>4 DEF InFragment
<3> QED
  BY <3>5 DEF UrlAt, ReadsTo
<2> QED
  BY <2>2, <2>3
<1>6. CASE InFragment(u, k, r)
<2> DEFINE x == u.fragment
           o == FragmentAt(u)
<2>1. /\ Plain(u) /\ u.path # <<>> /\ x # <<>> /\ k - o \in 0..Len(x)
      /\ r = Behind(u, "Fragment", u.path, u.query, SubSeq(x, 1, k - o))
  BY <1>6 DEF InFragment
<2>2. k - o # Len(x)
<3>1. EndAt(u) = o + Len(x)
  BY <2>1 DEF EndAt
<3> QED
  BY <1>1, <3>1
<2>3. /\ c \in Urls!Symbols /\ (k + 1) - o \in 1..Len(x)
      /\ Append(SubSeq(x, 1, k - o), c) = SubSeq(x, 1, (k + 1) - o)
<3>1. x \in Seq(Urls!Symbols) /\ o \in Nat /\ Holds(t, x, o)
  BY <1>1, <2>1, UrlSymbols
<3> HIDE DEF x, o, t
<3>2. ReadsOn(Urls!Symbols, t, x, o, k)
  BY <2>1, <3>1, PartGrows
<3> QED
  BY <2>2, <3>2 DEF ReadsOn
<2>4. q = Behind(u, "Fragment", u.path, u.query, Append(SubSeq(x, 1, k - o), c))
  BY <2>1, UrlTail DEF Behind
<2>5. (k + 1) - o \in 0..Len(x)
  BY <1>1, <2>3
<2>6. InFragment(u, k + 1, q)
  BY <2>1, <2>3, <2>4, <2>5 DEF InFragment
<2> QED
  BY <2>6 DEF UrlAt, ReadsTo
<1> QED
  BY <1>4, <1>5, <1>6

\* Every symbol takes the parser where the text says.
LEMMA UrlIsRead ==
    ASSUME NEW u, UrlParts(u), NEW k \in Nat, NEW r, k < EndAt(u), UrlAt(u, k, r)
    PROVE  ReadsTo(u, k + 1, Urls!UrlStep(r, UrlText(u)[k + 1]))
  BY SchemeIsRead, NameIsRead, PasswordIsRead, PortDigitsAreRead, HostIsRead, PortIsRead,
     BracketsAreRead, TailIsRead DEF UrlAt

\* A sum of six parts, taken in two.
LEMMA Regroup ==
    ASSUME NEW k, NEW x \in Nat, NEW d \in Nat, NEW e \in Nat, NEW f \in Nat,
           NEW g \in Nat, NEW h \in Nat, k = x + d + e + f + g + h
    PROVE  e + f + g + h \in Nat /\ k = (x + d) + (e + f + g + h)
OBVIOUS

\* Nothing is behind what ends within the part.
LEMMA NothingBehind ==
    ASSUME NEW k \in Nat, NEW x \in Nat, NEW n \in Nat, NEW rest \in Nat,
           k = (x + n) + rest, k - x <= n
    PROVE  rest = 0 /\ k - x = n
OBVIOUS

\* Where the parser can be at the end of the text.
LEMMA UrlStops ==
    ASSUME NEW u, UrlParts(u), NEW r, UrlAt(u, EndAt(u), r)
    PROVE  \/ /\ u.username = <<>> /\ u.hostname \in Seq(Unreserved)
              /\ u.port = <<>> /\ u.path = <<>> /\ u.query = <<>> /\ u.fragment = <<>>
              /\ r = Early("UsernameOrHostname", u.scheme, u.hostname, <<>>, <<>>, <<>>, <<>>)
           \/ /\ u.username # <<>> /\ Plain(u)
              /\ u.port = <<>> /\ u.path = <<>> /\ u.query = <<>> /\ u.fragment = <<>>
              /\ r = Early("Hostname", u.scheme, <<>>, <<>>, u.username, u.password, u.hostname)
           \/ /\ u.port # <<>> /\ u.path = <<>> /\ Plain(u)
              /\ \/ r = Early("PortOrPassword", u.scheme, u.hostname, u.port, <<>>, <<>>, <<>>)
                 \/ r = Early("Port", u.scheme, <<>>, u.port, u.username, u.password, u.hostname)
           \/ /\ u.path # <<>> /\ Plain(u)
              /\ \E state \in {"Path", "Query", "Fragment"} :
                    r = Behind(u, state, u.path, u.query, u.fragment)
<1> DEFINE a == Len(u.scheme)
           b == Len(u.username)
           c == Len(u.password)
           d == Len(u.hostname)
           p == Len(u.port)
           f == Len(u.path)
           l == Len(u.query)
           m == Len(u.fragment)
           e == IF u.port = <<>> THEN 0 ELSE p + 1
           g == IF u.query = <<>> THEN 0 ELSE l + 1
           h == IF u.fragment = <<>> THEN 0 ELSE m + 1
           k == EndAt(u)
<1>1. /\ NameAt(u) = a + 3 /\ PasswordAt(u) = NameAt(u) + b + 1
      /\ PortAt(u) = HostAt(u) + d + 1
      /\ PathAt(u) = HostAt(u) + d + e
      /\ QueryAt(u) = PathAt(u) + f + 1
      /\ FragmentAt(u) = PathAt(u) + f + g + 1
      /\ k = PathAt(u) + f + g + h
      /\ HostAt(u) \in Nat
  BY UrlOffsets
<1>2. HostAt(u) = IF u.username = <<>> THEN NameAt(u)
                  ELSE IF u.password = <<>> THEN PasswordAt(u) ELSE PasswordAt(u) + c + 1
  BY DEF HostAt
<1>3. /\ a \in Nat /\ b \in Nat /\ c \in Nat /\ d \in Nat /\ p \in Nat /\ f \in Nat
      /\ l \in Nat /\ m \in Nat
  BY PartsAreBytes
<1>4. e = (IF u.port = <<>> THEN 0 ELSE p + 1) /\ g = (IF u.query = <<>> THEN 0 ELSE l + 1)
        /\ h = (IF u.fragment = <<>> THEN 0 ELSE m + 1)
  OBVIOUS
<1>5. /\ f = 0 => u.path = <<>>
      /\ d = 0 => u.hostname \in Seq(Unreserved)
<2>1. u.path \in Seq(Bytes) /\ u.hostname \in Seq(Bytes)
  BY PartsAreBytes
<2>2. u.hostname \in Seq(Unreserved) \/ Len(u.hostname) > 1
  BY DEF UrlParts
<2>3. f = 0 => u.path = <<>>
  BY <2>1, EmptySeq
<2> QED
  BY <2>2, <2>3
<1>6. /\ SubSeq(u.hostname, 1, d) = u.hostname /\ SubSeq(u.port, 1, p) = u.port
      /\ SubSeq(u.path, 1, f) = u.path /\ SubSeq(u.query, 1, l) = u.query
      /\ SubSeq(u.fragment, 1, m) = u.fragment
<2>1. /\ u.hostname \in Seq(Bytes) /\ u.port \in Seq(Bytes) /\ u.path \in Seq(Bytes)
      /\ u.query \in Seq(Bytes) /\ u.fragment \in Seq(Bytes)
  BY PartsAreBytes
<2> QED
  BY <2>1, SubSeqFull
<1>7. /\ e \in Nat /\ g \in Nat /\ h \in Nat
       /\ (u.port # <<>> => e = p + 1) /\ (u.query # <<>> => g = l + 1)
       /\ (u.fragment # <<>> => h = m + 1)
<2> HIDE DEF a, b, c, d, p, f, l, m, e, g, h, k
<2> QED
  BY <1>3, <1>4
<1>8. /\ HostAt(u) \in Nat /\ NameAt(u) \in Nat /\ PasswordAt(u) \in Nat
       /\ PortAt(u) \in Nat /\ PathAt(u) \in Nat
<2>1. e \in Nat
  BY <1>7
<2> HIDE DEF a, b, c, d, p, f, l, m, e, g, h, k
<2> QED
  BY <1>1, <1>3, <2>1
<1>9. QueryAt(u) \in Nat /\ FragmentAt(u) \in Nat /\ k \in Nat
<2>1. g \in Nat /\ h \in Nat
  BY <1>7
<2> HIDE DEF a, b, c, d, p, f, l, m, e, g, h, k
<2> QED
  BY <1>1, <1>3, <1>8, <2>1
<1>10. /\ k = HostAt(u) + d + e + f + g + h
       /\ k = PathAt(u) + f + g + h
       /\ e + f + g + h \in Nat
       /\ k = (HostAt(u) + d) + (e + f + g + h)
<2>1. e \in Nat /\ g \in Nat /\ h \in Nat
  BY <1>7
<2>2. d \in Nat /\ f \in Nat /\ HostAt(u) \in Nat
  BY <1>3, <1>8
<2> HIDE DEF a, b, c, d, p, f, l, m, e, g, h, k
<2>3. /\ k = HostAt(u) + d + e + f + g + h
      /\ k = PathAt(u) + f + g + h
  BY <1>1, <1>3, <1>8, <1>9, <2>1
<2>4. e + f + g + h \in Nat /\ k = (HostAt(u) + d) + (e + f + g + h)
  BY <2>1, <2>2, <2>3, Regroup
<2> QED
  BY <2>3, <2>4
<1>11. k >= HostAt(u)
<2>1. e \in Nat /\ g \in Nat /\ h \in Nat
  BY <1>7
<2> HIDE DEF a, b, c, d, p, f, l, m, e, g, h, k
<2> QED
  BY <1>3, <1>8, <1>9, <1>10, <2>1
<1>12. CASE InScheme(u, k, r) \/ InSlashes(u, k, r)
<2>1. k \in 0..a \/ k = a + 1 \/ k = a + 2
  BY <1>12 DEF InScheme, InSlashes
<2> HIDE DEF a, b, c, d, p, f, l, m, e, g, h, k
<2>2. HostAt(u) >= a + 3
  BY <1>1, <1>2, <1>3
<2> QED
  BY <1>3, <1>8, <1>11, <2>1, <2>2
<1>13. CASE InName(u, k, r)
<2> DEFINE x == FirstName(u)
<2>1. /\ k - NameAt(u) \in 0..Len(x)
      /\ r = Early("UsernameOrHostname", u.scheme, SubSeq(x, 1, k - NameAt(u)), <<>>, <<>>,
                   <<>>, <<>>)
  BY <1>13 DEF InName
<2>2. CASE u.username # <<>>
<3>1. k - NameAt(u) \in 0..b
  BY <2>1, <2>2 DEF FirstName
<3> HIDE DEF a, b, c, d, p, f, l, m, e, g, h, k
<3>2. HostAt(u) >= NameAt(u) + b + 1 /\ NameAt(u) \in Nat
  BY <1>1, <1>2, <1>3, <2>2
<3> QED
  BY <1>3, <1>8, <1>9, <1>11, <3>1, <3>2
<2>3. CASE u.username = <<>>
<3>1. k - NameAt(u) \in 0..d /\ x = u.hostname /\ HostAt(u) = NameAt(u)
  BY <1>2, <2>1, <2>3 DEF FirstName
<3>2. u.port = <<>> /\ f = 0 /\ u.query = <<>> /\ u.fragment = <<>> /\ k - NameAt(u) = d
<4> HIDE DEF a, b, c, d, p, f, l, m, e, g, h, k
<4>1. /\ e \in Nat /\ g \in Nat /\ h \in Nat /\ (u.port # <<>> => e > 0)
      /\ (u.query # <<>> => g > 0) /\ (u.fragment # <<>> => h > 0)
  BY <1>3, <1>7
<4>2. k - HostAt(u) <= d
  BY <1>3, <3>1
<4>3. e + f + g + h \in Nat
  BY <1>10
<4>4. k = (HostAt(u) + d) + (e + f + g + h)
  BY <1>10
<4>5. e + f + g + h = 0 /\ k - HostAt(u) = d
  BY <1>3, <1>8, <1>9, <4>2, <4>3, <4>4, NothingBehind
<4>6. e = 0 /\ f = 0 /\ g = 0 /\ h = 0
  BY <1>3, <4>1, <4>5
<4> QED
  BY <3>1, <4>1, <4>5, <4>6
<3>3. u.hostname \in Seq(Unreserved)
  BY <1>5, <1>13, <3>1, <3>2 DEF InName
<3> QED
  BY <1>5, <1>6, <2>1, <2>3, <3>1, <3>2, <3>3
<2> QED
  BY <2>2, <2>3
<1>14. CASE InPasswordDigits(u, k, r) \/ InPassword(u, k, r)
<2>1. u.username # <<>> /\ u.password # <<>> /\ k - PasswordAt(u) <= c
  BY <1>3, <1>14 DEF InPasswordDigits, InPassword
<2> HIDE DEF a, b, c, d, p, f, l, m, e, g, h, k
<2>2. HostAt(u) = PasswordAt(u) + c + 1 /\ PasswordAt(u) \in Nat
  BY <1>1, <1>2, <1>3, <2>1
<2>3. k - PasswordAt(u) >= c + 1
  BY <1>3, <1>8, <1>9, <1>11, <2>2
<2> QED
  BY <1>3, <1>8, <1>9, <2>1, <2>3
<1>15. ASSUME u.port # <<>>, k - PortAt(u) \in 0..p
       PROVE  u.path = <<>> /\ k - PortAt(u) = p
<2>1. f = 0 /\ k - PortAt(u) = p
<3> HIDE DEF a, b, c, d, p, f, l, m, e, g, h, k
<3>1. e = p + 1 /\ g \in Nat /\ h \in Nat
  BY <1>7, <1>15
<3>2. PortAt(u) = HostAt(u) + d + 1 /\ k - PortAt(u) <= p
  BY <1>1, <1>3, <1>15
<3>3. f + g + h \in Nat /\ k = (PortAt(u) + p) + (f + g + h)
  BY <1>3, <1>8, <1>10, <3>1, <3>2
<3>4. f + g + h = 0 /\ k - PortAt(u) = p
  BY <1>3, <1>8, <1>9, <3>2, <3>3, NothingBehind
<3>5. f = 0
  BY <1>3, <3>1, <3>4
<3> QED
  BY <3>4, <3>5
<2> QED
  BY <1>5, <2>1
<1>16. CASE InPortDigits(u, k, r) \/ InPort(u, k, r)
<2>1. u.port # <<>> /\ k - PortAt(u) \in 0..p
  BY <1>16 DEF InPortDigits, InPort
<2>2. u.path = <<>> /\ SubSeq(u.port, 1, k - PortAt(u)) = u.port
  BY <1>6, <1>15, <2>1
<2>3. Plain(u)
  BY <1>16 DEF InPortDigits, InPort
<2> QED
  BY <1>16, <2>1, <2>2, <2>3 DEF InPortDigits, InPort
<1>17. CASE InHostname(u, k, r)
<2>1. /\ k - HostAt(u) \in 0..d
      /\ r = Early("Hostname", u.scheme, <<>>, <<>>, u.username, u.password,
                   SubSeq(u.hostname, 1, k - HostAt(u)))
  BY <1>17 DEF InHostname
<2>2. u.port = <<>> /\ f = 0 /\ u.query = <<>> /\ u.fragment = <<>> /\ k - HostAt(u) = d
<3> HIDE DEF a, b, c, d, p, f, l, m, e, g, h, k
<3>1. /\ e \in Nat /\ g \in Nat /\ h \in Nat /\ (u.port # <<>> => e > 0)
      /\ (u.query # <<>> => g > 0) /\ (u.fragment # <<>> => h > 0)
  BY <1>3, <1>7
<3>2. k - HostAt(u) <= d
  BY <1>3, <2>1
<3>3. e + f + g + h \in Nat
  BY <1>10
<3>4. k = (HostAt(u) + d) + (e + f + g + h)
  BY <1>10
<3>5. e + f + g + h = 0 /\ k - HostAt(u) = d
  BY <1>3, <1>8, <1>9, <3>2, <3>3, <3>4, NothingBehind
<3>6. e = 0 /\ f = 0 /\ g = 0 /\ h = 0
  BY <1>3, <3>1, <3>5
<3> QED
  BY <3>1, <3>5, <3>6
<2>3. u.username # <<>> /\ Plain(u)
  BY <1>5, <1>17, <2>2 DEF InHostname, Plain
<2> QED
  BY <1>5, <1>6, <2>1, <2>2, <2>3
<1>18. CASE InPath(u, k, r)
<2>1. /\ k - PathAt(u) \in 1..f
      /\ r = Behind(u, "Path", SubSeq(u.path, 1, k - PathAt(u)), <<>>, <<>>)
  BY <1>18 DEF InPath
<2>2. u.query = <<>> /\ u.fragment = <<>> /\ k - PathAt(u) = f /\ f # 0
<3> HIDE DEF a, b, c, d, p, f, l, m, e, g, h, k
<3>1. /\ e \in Nat /\ g \in Nat /\ h \in Nat /\ (u.query # <<>> => g > 0)
      /\ (u.fragment # <<>> => h > 0)
  BY <1>3, <1>7
<3>2. k - PathAt(u) <= f /\ k - PathAt(u) >= 1
  BY <1>3, <2>1
<3>3. g + h \in Nat /\ k = (PathAt(u) + f) + (g + h)
  BY <1>3, <1>8, <1>10, <3>1
<3>4. g + h = 0 /\ k - PathAt(u) = f
  BY <1>3, <1>8, <1>9, <3>2, <3>3, NothingBehind
<3>5. g = 0 /\ h = 0 /\ f # 0
  BY <1>3, <3>1, <3>2, <3>4
<3> QED
  BY <3>1, <3>4, <3>5
<2>3. u.path # <<>> /\ Plain(u)
  BY <1>18, <2>2, EmptySeq DEF InPath
<2> QED
  BY <1>6, <2>1, <2>2, <2>3
<1>19. CASE InQuery(u, k, r)
<2>1. /\ u.path # <<>> /\ Plain(u) /\ u.query # <<>> /\ k - QueryAt(u) \in 0..l
      /\ r = Behind(u, "Query", u.path, SubSeq(u.query, 1, k - QueryAt(u)), <<>>)
  BY <1>19 DEF InQuery
<2>2. u.fragment = <<>> /\ k - QueryAt(u) = l
<3> HIDE DEF a, b, c, d, p, f, l, m, e, g, h, k
<3>1. g = l + 1 /\ h \in Nat /\ (u.fragment # <<>> => h > 0)
  BY <1>3, <1>7, <2>1
<3>2. k - QueryAt(u) <= l
  BY <1>3, <2>1
<3>3. QueryAt(u) = PathAt(u) + f + 1
  BY <1>1
<3>4. k = (QueryAt(u) + l) + h
  BY <1>3, <1>8, <1>10, <3>1, <3>3
<3>5. h = 0 /\ k - QueryAt(u) = l
  BY <1>3, <1>9, <3>1, <3>2, <3>4, NothingBehind
<3> QED
  BY <3>1, <3>5
<2> QED
  BY <1>6, <2>1, <2>2
<1>20. CASE InFragment(u, k, r)
<2>1. /\ u.path # <<>> /\ Plain(u) /\ u.fragment # <<>> /\ k - FragmentAt(u) \in 0..m
      /\ r = Behind(u, "Fragment", u.path, u.query,
                    SubSeq(u.fragment, 1, k - FragmentAt(u)))
  BY <1>20 DEF InFragment
<2>2. k - FragmentAt(u) = m
<3> HIDE DEF a, b, c, d, p, f, l, m, e, g, h, k
<3>1. g \in Nat /\ h = m + 1
  BY <1>7, <2>1
<3>2. FragmentAt(u) = PathAt(u) + f + g + 1
  BY <1>1
<3>3. 0 \in Nat /\ k = (FragmentAt(u) + m) + 0
  BY <1>3, <1>8, <1>10, <3>1, <3>2
<3>4. k - FragmentAt(u) <= m
  BY <1>3, <2>1
<3> QED
  BY <1>3, <1>9, <3>3, <3>4, NothingBehind
<2> QED
  BY <1>6, <2>1, <2>2
<1>21. CASE InBrackets(u, k, r)
<2>1. k = HostAt(u) + 1 /\ d > 1
  BY <1>21 DEF InBrackets
<2> HIDE DEF a, b, c, d, p, f, l, m, e, g, h, k
<2>2. e + f + g + h \in Nat /\ k = (HostAt(u) + d) + (e + f + g + h)
  BY <1>10
<2> QED
  BY <1>3, <1>8, <2>1, <2>2
<1> QED
  BY <1>12, <1>13, <1>14, <1>16, <1>17, <1>18, <1>19, <1>20, <1>21 DEF UrlAt

\* At the end the parser has what the parts mean.
LEMMA UrlIsUnderstood ==
    ASSUME NEW u, UrlParts(u), NEW r, UrlAt(u, EndAt(u), r)
    PROVE  LET q == Urls!UrlEnd(r)
           IN  IF UrlAborts(u) THEN q.result = "aborted"
               ELSE /\ ~UrlIsRefused(u) /\ q.result = "valid"
                    /\ q.scheme = u.scheme /\ q.username = u.username
                    /\ q.password = u.password /\ q.hostname = u.hostname
                    /\ q.port = u.port /\ q.integerPort = PortNumber(u.port)
                    /\ q.path = IF u.path = <<>> THEN <<"/">> ELSE u.path
                    /\ q.query = u.query /\ q.fragment = u.fragment
<1> DEFINE q == Urls!UrlEnd(r)
<1>1. /\ u.username = <<>> => u.password = <<>> /\ ~Numeric(u.password)
      /\ u.port = <<>> => PortNumber(u.port) = 0
  BY DEF UrlParts, PortNumber, Numeric
<1>2. ASSUME u.username = <<>>, u.port = <<>>, u.path = <<>>,
             r = Early("UsernameOrHostname", u.scheme, u.hostname, <<>>, <<>>, <<>>, <<>>)
      PROVE  /\ q = UrlRead("UsernameOrHostname", u.scheme, u.hostname, <<>>, <<>>, <<>>,
                            u.hostname, <<>>, 0, <<"/">>, <<>>, <<>>)
<2>1. r.usernameOrHostname = u.hostname /\ r.portOrPassword = <<>>
  BY <1>2 DEF Early, UrlRead
<2>2. CASE u.hostname = <<>>
<3>1. q = r
  BY <2>1, <2>2 DEF Urls!UrlEnd
<3> QED
  BY <1>2, <2>2, <3>1 DEF Early
<2>3. CASE u.hostname # <<>>
<3>1. q = Put(r, "hostname", u.hostname)
  BY <2>1, <2>3 DEF Urls!UrlEnd, Put
<3> QED
  BY <1>2, <3>1, UrlSets DEF Early
<2> QED
  BY <2>2, <2>3
<1>3. ASSUME u.port = <<>>, u.path = <<>>,
             r = Early("Hostname", u.scheme, <<>>, <<>>, u.username, u.password, u.hostname)
      PROVE  q = r
<2>1. r.usernameOrHostname = <<>> /\ r.portOrPassword = <<>>
  BY <1>3 DEF Early, UrlRead
<2> QED
  BY <2>1 DEF Urls!UrlEnd
<1>4. ASSUME u.port # <<>>, u.path = <<>>,
             \/ r = Early("PortOrPassword", u.scheme, u.hostname, u.port, <<>>, <<>>, <<>>)
             \/ r = Early("Port", u.scheme, <<>>, u.port, u.username, u.password, u.hostname)
      PROVE  q.result = "aborted"
<2>1. r.portOrPassword = u.port
  BY <1>4 DEF Early, UrlRead
<2>2. q = Urls!Aborted(r)
  BY <1>4, <2>1 DEF Urls!UrlEnd
<2>3. "result" \in DOMAIN r
  BY <1>4 DEF Early, UrlRead
<2> QED
  BY <2>2, <2>3 DEF Urls!Aborted
<1>5. ASSUME NEW state, r = Behind(u, state, u.path, u.query, u.fragment)
      PROVE  q = r
<2>1. r.usernameOrHostname = <<>> /\ r.portOrPassword = <<>>
  BY <1>5 DEF Behind, UrlRead
<2> QED
  BY <2>1 DEF Urls!UrlEnd
<1>6. CASE u.port # <<>> /\ u.path = <<>>
<2>1. q.result = "aborted" /\ Plain(u)
  BY <1>4, <1>6, UrlStops
<2>2. UrlAborts(u)
  BY <1>6, <2>1, Unbracketed DEF Plain, UrlAborts
<2> QED
  BY <2>1, <2>2
<1>7. CASE u.path # <<>>
<2>1. Plain(u) /\ \E state : r = Behind(u, state, u.path, u.query, u.fragment)
  BY <1>7, UrlStops
<2>2. PICK state : r = Behind(u, state, u.path, u.query, u.fragment)
  BY <2>1
<2>3. q = r
  BY <1>5, <2>2
<2>4. ~UrlAborts(u) /\ ~UrlIsRefused(u)
  BY <1>7, <2>1, Unbracketed DEF Plain, UrlAborts, UrlIsRefused
<2> QED
  BY <1>7, <2>2, <2>3, <2>4 DEF Behind, UrlRead
<1>8. CASE u.port = <<>> /\ u.path = <<>>
<2>1. /\ \/ /\ u.username = <<>>
            /\ r = Early("UsernameOrHostname", u.scheme, u.hostname, <<>>, <<>>, <<>>, <<>>)
         \/ r = Early("Hostname", u.scheme, <<>>, <<>>, u.username, u.password, u.hostname)
      /\ u.hostname \in Seq(Unreserved) /\ ~Numeric(u.password)
      /\ u.query = <<>> /\ u.fragment = <<>>
  BY <1>1, <1>8, UrlStops DEF Plain
<2>2. ~UrlAborts(u) /\ ~UrlIsRefused(u)
  BY <1>8, <2>1, Unbracketed DEF UrlAborts, UrlIsRefused
<2>3. CASE /\ u.username = <<>>
           /\ r = Early("UsernameOrHostname", u.scheme, u.hostname, <<>>, <<>>, <<>>, <<>>)
<3>1. q = UrlRead("UsernameOrHostname", u.scheme, u.hostname, <<>>, <<>>, <<>>,
                  u.hostname, <<>>, 0, <<"/">>, <<>>, <<>>)
  BY <1>2, <1>8, <2>3
<3> QED
  BY <1>1, <1>8, <2>1, <2>2, <2>3, <3>1 DEF UrlRead
<2>4. CASE r = Early("Hostname", u.scheme, <<>>, <<>>, u.username, u.password, u.hostname)
<3>1. q = UrlRead("Hostname", u.scheme, <<>>, <<>>, u.username, u.password,
                  u.hostname, <<>>, 0, <<"/">>, <<>>, <<>>)
  BY <1>3, <1>8, <2>4 DEF Early
<3> QED
  BY <1>1, <1>8, <2>1, <2>2, <3>1 DEF UrlRead
<2> QED
  BY <2>1, <2>3, <2>4
<1> QED
  BY <1>6, <1>7, <1>8

\* At the end of a text that it has given up the parser says so, or aborts.
LEMMA UrlIsGivenUp ==
    ASSUME NEW u, NEW r, GivesUp(u, r)
    PROVE  LET q == Urls!UrlEnd(r)
           IN  IF UrlAborts(u) THEN q.result = "aborted"
               ELSE UrlIsRefused(u) /\ q.result = "invalid"
<1> DEFINE q == Urls!UrlEnd(r)
<1>1. r.portOrPassword = <<>> => q.result = r.result
  BY DEF Urls!UrlEnd, GivesUp
<1>2. r.portOrPassword # <<>> => q.result = "aborted"
  BY DEF Urls!UrlEnd, Urls!Aborted, GivesUp
<1> HIDE DEF q
<1>3. IF UrlAborts(u) THEN q.result = "aborted"
      ELSE UrlIsRefused(u) /\ q.result = "invalid"
  BY <1>1, <1>2 DEF GivesUp
<1> QED
  BY <1>3 DEF q

-----------------------------------------------------------------------------
(* The value of a Host header.                                             *)

\* What Max is of numbers that x bounds.
LEMMA Greatest ==
    ASSUME NEW S, NEW x \in S, \A y \in S : y \in Nat /\ y <= x
    PROVE  Urls!Max(S) = x
<1>1. x \in S /\ \A y \in S : x >= y
  OBVIOUS
<1>2. ASSUME NEW z \in S, \A y \in S : z >= y PROVE z = x
<2>1. z >= x /\ z <= x /\ z \in Nat /\ x \in Nat
  BY <1>2
<2> QED
  BY <2>1
<1> QED
  BY <1>1, <1>2 DEF Urls!Max

\* What stands in a text is a piece of it.
LEMMA HeldPart ==
    ASSUME NEW t \in Seq(Bytes), NEW x \in Seq(Bytes), NEW o \in Nat, Holds(t, x, o)
    PROVE  SubSeq(t, o + 1, o + Len(x)) = x
<1> DEFINE s == SubSeq(t, o + 1, o + Len(x))
<1>1. Len(x) \in Nat /\ Len(t) \in Nat /\ o + Len(x) <= Len(t)
  BY LenProperties DEF Holds
<1>2. o + 1 \in Int /\ o + Len(x) \in Int /\ (o + Len(x)) - (o + 1) + 1 = Len(x)
  BY <1>1
<1>3. \A i \in (o + 1)..(o + Len(x)) : t[i] \in Bytes
<2>1. (o + 1)..(o + Len(x)) \subseteq 1..Len(t)
  BY <1>1
<2> QED
  BY <2>1, ElementOfSeq
<1>4. /\ s \in Seq(Bytes)
      /\ Len(s) = IF o + 1 <= o + Len(x) THEN (o + Len(x)) - (o + 1) + 1 ELSE 0
      /\ \A i \in 1..((o + Len(x)) - (o + 1) + 1) : s[i] = t[(o + 1) + i - 1]
  BY <1>2, <1>3, SubSeqProperties
<1>5. Len(s) = Len(x)
  BY <1>1, <1>4
<1>6. ASSUME NEW i \in 1..Len(s) PROVE s[i] = x[i]
<2>1. i \in 1..Len(x) /\ (o + 1) + i - 1 = o + i
  BY <1>1, <1>5
<2> QED
  BY <1>2, <1>4, <2>1 DEF Holds
<1>7. s = x
<2> HIDE DEF s
<2> QED
  BY <1>4, <1>5, <1>6, SeqEqual
<1> QED
  BY <1>7

\* A value is split at the ":" of its port, and only there.
LEMMA HostIsSplit ==
    ASSUME NEW m, WritesHost(m)
    PROVE  LET q == Urls!splitHostAndPort(m.text)
           IN  /\ DOMAIN m.meaning = {"host", "port"}
               /\ q.host = m.meaning.host /\ q.port = m.meaning.port
               /\ q.result = "split"
<1> DEFINE h == m.meaning.host
           d == m.digits
           t == m.text
           n == Len(t)
           others == {k \in 1..n : ~Urls!isDigit(t[k])}
           q == Urls!splitHostAndPort(t)
<1>1. /\ m.meaning = [host |-> h, port |-> PortNumber(d)]
      /\ h \in Seq(Urls!Symbols) /\ d \in Seq(Urls!Digits)
      /\ t = h \o Marked(":", d)
  BY DEF WritesHost
<1>2. h \in Seq(Bytes) /\ d \in Seq(Bytes)
<2>1. Urls!Symbols \subseteq Bytes /\ Urls!Digits \subseteq Bytes
  BY UrlBytes DEF Bytes
<2> QED
  BY <1>1, <2>1, SeqMonotonic
<1>3. /\ t \in Seq(Bytes) /\ n \in Nat /\ Len(h) \in Nat /\ Len(d) \in Nat
<2>1. Marked(":", d) \in Seq(Bytes)
<3>1. ":" \in Bytes /\ 0 \in Nat
  BY DEF Bytes
<3> QED
  BY <1>2, <3>1, HoldsMarked
<2> QED
  BY <1>1, <1>2, <2>1, HoldsBoth, LenProperties
<1>4. DOMAIN m.meaning = {"host", "port"} /\ m.meaning.port = PortNumber(d)
<2> HIDE DEF h
<2> QED
  BY <1>1
<1>5. \A c : Urls!isDigit(c) <=> c \in Urls!Digits
  BY DEF Urls!isDigit
<1>6. ASSUME NEW x \in others, \A i \in (x + 1)..n : t[i] \in Urls!Digits
      PROVE  Urls!Max(others \cup {0}) = x
<2>1. ASSUME NEW y \in others PROVE y \in Nat /\ y <= x
<3>1. x \in 1..n /\ y \in 1..n /\ t[y] \notin Urls!Digits
  BY <1>5
<3>2. y \notin (x + 1)..n
  BY <1>6, <3>1
<3> HIDE DEF n
<3> QED
  BY <1>3, <3>1, <3>2
<2>2. x \in Nat /\ 0 <= x
<3>1. x \in 1..n
  OBVIOUS
<3> HIDE DEF n
<3> QED
  BY <1>3, <3>1
<2> HIDE DEF others
<2>3. x \in others \cup {0} /\ \A y \in others \cup {0} : y \in Nat /\ y <= x
  BY <2>1, <2>2
<2> QED
  BY <2>3, Greatest
<1>7. CASE d # <<>>
<2> DEFINE p == Len(h) + 1
<2>1. /\ <<":">> \in Seq(Bytes) /\ Marked(":", d) = <<":">> \o d
      /\ ":" \in Bytes
  BY <1>7 DEF Marked, Bytes
<2>2. /\ Marked(":", d) \in Seq(Bytes) /\ Len(Marked(":", d)) = Len(d) + 1
  BY <1>2, <1>3, <1>7, <2>1, HoldsMarked
<2>3. /\ t \in Seq(Bytes) /\ n = Len(h) + (Len(d) + 1)
      /\ Holds(t, h, 0) /\ Holds(t, Marked(":", d), Len(h))
<3> DEFINE w == Marked(":", d)
<3>1. w \in Seq(Bytes) /\ Len(w) = Len(d) + 1 /\ t = h \o w
  BY <1>1, <2>2
<3> HIDE DEF h, w, d, t
<3>2. /\ h \o w \in Seq(Bytes) /\ Len(h \o w) = Len(h) + Len(w)
      /\ Holds(h \o w, h, 0) /\ Holds(h \o w, w, Len(h))
  BY <1>2, <3>1, HoldsBoth
<3> QED
  BY <3>1, <3>2 DEF w
<2>4. t[p] = ":" /\ Holds(t, d, p)
  BY <1>2, <1>3, <1>7, <2>1, <2>3, HoldsMarked
<2>5. p \in Nat /\ n = p + Len(d) /\ p - 1 = Len(h) /\ p - 1 = 0 + Len(h)
<3>1. n = Len(h) + (Len(d) + 1)
  BY <2>3
<3> HIDE DEF n, h, d
<3> QED
  BY <1>3, <3>1
<2>6. d = SubSeq(t, p + 1, n) /\ h = SubSeq(t, 1, p - 1)
<3>1. SubSeq(t, p + 1, p + Len(d)) = d
  BY <1>2, <1>3, <2>4, <2>5, HeldPart
<3>2. SubSeq(t, 0 + 1, 0 + Len(h)) = h
  BY <1>2, <1>3, <2>3, HeldPart
<3>3. 0 + 1 = 1
  OBVIOUS
<3> HIDE DEF n, p, h, d, t
<3> QED
  BY <2>5, <3>1, <3>2, <3>3
<2>7. Len(d) > 0
  BY <1>2, <1>7, EmptySeq
<2>8. ASSUME NEW i \in (p + 1)..n PROVE t[i] \in Urls!Digits
<3>1. i - p \in 1..Len(d) /\ p + (i - p) = i
<4> HIDE DEF n, p
<4> QED
  BY <1>3, <2>5
<3>2. t[p + (i - p)] = d[i - p]
  BY <2>4, <3>1 DEF Holds
<3>3. d[i - p] \in Urls!Digits
  BY <1>1, <3>1, ElementOfSeq
<3> QED
  BY <3>1, <3>2, <3>3
<2>9. p \in others
<3>1. p \in 1..n
<4>1. p >= 1
  BY <1>3
<4> HIDE DEF n, p
<4> QED
  BY <1>3, <2>5, <2>7, <4>1
<3> QED
  BY <2>4, <3>1, UrlBytes
<2>10. Urls!Max(others \cup {0}) = p /\ p < n
<3>1. Urls!Max(others \cup {0}) = p
  BY <1>6, <2>8, <2>9
<3> HIDE DEF n, p
<3> QED
  BY <1>3, <2>5, <2>7, <3>1
<2>11. q = [result |-> "split", host |-> SubSeq(t, 1, p - 1),
            port |-> Urls!NumberOf(SubSeq(t, p + 1, n), 10)]
<3> HIDE DEF p
<3> QED
  BY <2>4, <2>9, <2>10 DEF Urls!splitHostAndPort
<2> QED
  BY <1>4, <1>7, <2>6, <2>11 DEF PortNumber
<1>8. CASE d = <<>>
<2>1. t = h /\ PortNumber(d) = 0
  BY <1>1, <1>2, <1>8, ConcatEmptySeq DEF Marked, PortNumber
<2>2. PICK k \in 1..n : /\ t[k] \notin Urls!Digits
                        /\ \A i \in (k + 1)..n : t[i] \in Urls!Digits
                        /\ t[k] = ":" => k = n
  BY <1>8, <2>1 DEF WritesHost
<2>3. k \in others
  BY <1>5, <2>2
<2>4. Urls!Max(others \cup {0}) = k
  BY <1>6, <2>2, <2>3
<2>5. ~(t[k] = ":" /\ k < n)
<3>1. n \in Nat
  BY <1>2, <2>1, LenProperties
<3> QED
  BY <2>2, <3>1
<2>6. q = [result |-> "split", host |-> t, port |-> 0]
  BY <2>3, <2>4, <2>5 DEF Urls!splitHostAndPort
<2> QED
  BY <1>4, <2>1, <2>6
<1> QED
  BY <1>7, <1>8

-----------------------------------------------------------------------------
(* Addresses.                                                              *)

WrittenUrl == message.kind = "url" /\ "parts" \in DOMAIN message

\* The parser is where the text says, and ends with what its writer meant.
AddressInv ==
    /\ message \in Messages
    /\ WrittenUrl =>
          /\ pc \in {"recv", "parse", "done"}
          /\ pc = "recv" => at = 0
          /\ pc = "parse" => received = Length /\ at \in 0..Length
          /\ pc # "done" => ReadsTo(message.parts, at, parser)
          /\ pc = "done" => AddressUnderstood
    /\ message.kind = "host" =>
          /\ pc \in {"recv", "done"}
          /\ pc = "done" => AddressUnderstood

\* Nothing of the text has been read.
LEMMA InitAddressInv == Init => AddressInv
<1> SUFFICES ASSUME Init PROVE AddressInv
  OBVIOUS
<1>1. message \in Messages /\ pc = "recv" /\ at = 0
  BY DEF Init
<1>2. ASSUME WrittenUrl PROVE ReadsTo(message.parts, at, parser)
<2> DEFINE u == message.parts
<2>1. UrlParts(u)
  BY <1>1, <1>2, AddressesAssumption DEF WrittenUrl, WritesUrl
<2>2. parser = Urls!NewUrl
  BY <1>2 DEF Init, WrittenUrl
<2>3. Urls!NewUrl = Early("Scheme", <<>>, <<>>, <<>>, <<>>, <<>>, <<>>)
  BY DEF Urls!NewUrl, Early, UrlRead
<2>4. SubSeq(u.scheme, 1, 0) = <<>>
<3>1. 1 \in Int /\ 0 \in Int /\ 0 < 1
  OBVIOUS
<3> QED
  BY <3>1, SubSeqEmpty
<2>5. at \in 0..Len(u.scheme) /\ at = 0
<3>1. Len(u.scheme) \in Nat
  BY <2>1, PartsAreBytes
<3> QED
  BY <1>1, <3>1
<2>6. InScheme(u, at, parser)
  BY <2>2, <2>3, <2>4, <2>5 DEF InScheme
<2> QED
  BY <2>6 DEF UrlAt, ReadsTo
<1> QED
  BY <1>1, <1>2 DEF AddressInv

\* The end of the text.
LEMMA UrlEnds ==
    ASSUME NEW m, WritesUrl(m), NEW r,
           UrlAt(m.parts, EndAt(m.parts), r) \/ GivesUp(m.parts, r)
    PROVE  LET q == Urls!UrlEnd(r)
           IN  /\ \A f \in DOMAIN m.meaning : q[f] = m.meaning[f]
               /\ q.result = "valid" => Urls!httpPort(q) = m.httpPort
<1> DEFINE u == m.parts
           q == Urls!UrlEnd(r)
<1>1. /\ UrlParts(u) /\ m.meaning = UrlMeaning(u)
      /\ m.httpPort = CASE u.port # <<>> -> PortNumber(u.port)
                        [] u.port = <<>> /\ u.scheme = <<"https">> -> 443
                        [] OTHER -> 80
  BY DEF WritesUrl
<1>2. /\ UrlAborts(u) => q.result = "aborted"
      /\ ~UrlAborts(u) /\ UrlIsRefused(u) => q.result = "invalid"
      /\ ~UrlAborts(u) /\ ~UrlIsRefused(u) =>
           /\ q.result = "valid"
           /\ q.scheme = u.scheme /\ q.username = u.username
           /\ q.password = u.password /\ q.hostname = u.hostname
           /\ q.port = u.port /\ q.integerPort = PortNumber(u.port)
           /\ q.path = IF u.path = <<>> THEN <<"/">> ELSE u.path
           /\ q.query = u.query /\ q.fragment = u.fragment
<2>1. CASE UrlAt(u, EndAt(u), r)
  BY <1>1, <2>1, UrlIsUnderstood
<2>2. CASE GivesUp(u, r)
  BY <2>2, UrlIsGivenUp
<2> QED
  BY <2>1, <2>2
<1> HIDE DEF q, u
<1>3. CASE UrlAborts(u)
<2>1. m.meaning = [result |-> "aborted"] /\ q.result = "aborted"
  BY <1>1, <1>2, <1>3 DEF UrlMeaning
<2> QED
  BY <2>1 DEF q
<1>4. CASE ~UrlAborts(u) /\ UrlIsRefused(u)
<2>1. m.meaning = [result |-> "invalid"] /\ q.result = "invalid"
  BY <1>1, <1>2, <1>4 DEF UrlMeaning
<2> QED
  BY <2>1 DEF q
<1>5. CASE ~UrlAborts(u) /\ ~UrlIsRefused(u)
<2> DEFINE path == IF u.path = <<>> THEN <<"/">> ELSE u.path
           number == PortNumber(u.port)
<2>1. m.meaning = [result |-> "valid", scheme |-> u.scheme, username |-> u.username,
                   password |-> u.password, hostname |-> u.hostname, port |-> u.port,
                   path |-> path, query |-> u.query, fragment |-> u.fragment,
                   integerPort |-> number]
  BY <1>1, <1>5 DEF UrlMeaning
<2>2. /\ q.result = "valid"
      /\ q.scheme = u.scheme /\ q.username = u.username
      /\ q.password = u.password /\ q.hostname = u.hostname
      /\ q.port = u.port /\ q.integerPort = number /\ q.path = path
      /\ q.query = u.query /\ q.fragment = u.fragment
  BY <1>2, <1>5
<2>3. Urls!httpPort(q) = m.httpPort
  BY <1>1, <2>2 DEF Urls!httpPort
<2> HIDE DEF path, number
<2>4. \A f \in DOMAIN m.meaning : q[f] = m.meaning[f]
  BY <2>1, <2>2
<2> QED
  BY <2>3, <2>4 DEF q
<1> QED
  BY <1>3, <1>4, <1>5

\* Every step reads on in the text, or ends with what it means.
LEMMA NextAddressInv == AddressInv /\ [Next]_vars => AddressInv'
<1> SUFFICES ASSUME AddressInv, [Next]_vars PROVE AddressInv'
  OBVIOUS
<1>1. message \in Messages /\ message' = message
  BY DEF AddressInv, Next, ClientCloses, RecvRequest, PassText, SplitHost, ParseHttp,
         ParseEnds, ParseUrl, vars
<1>2. ASSUME WrittenUrl
      PROVE  /\ pc' \in {"recv", "parse", "done"}
             /\ pc' = "recv" => at' = 0
             /\ pc' = "parse" => received' = Length /\ at' \in 0..Length
             /\ pc' # "done" => ReadsTo(message.parts, at', parser')
             /\ pc' = "done" => AddressUnderstood'
<2> DEFINE u == message.parts
<2>1. WritesUrl(message) /\ message.kind = "url"
  BY <1>1, <1>2, AddressesAssumption DEF WrittenUrl
<2>2. UrlParts(u) /\ message.text = UrlText(u) /\ Length = EndAt(u) /\ Length \in Nat
<3>1. UrlParts(u) /\ message.text = UrlText(u)
  BY <2>1 DEF WritesUrl
<3> QED
  BY <3>1, UrlLayout, LenProperties DEF Length
<2>3. /\ pc \in {"recv", "parse", "done"}
      /\ pc = "recv" => at = 0
      /\ pc = "parse" => received = Length /\ at \in 0..Length
      /\ pc # "done" => ReadsTo(u, at, parser)
      /\ pc = "done" => AddressUnderstood
  BY <1>2 DEF AddressInv
<2>4. CASE PassText
<3>1. /\ pc = "recv" /\ pc' = "parse" /\ received' = Length /\ at' = at
      /\ parser' = parser
  BY <2>4 DEF PassText
<3> QED
  BY <2>2, <2>3, <3>1
<2>5. CASE ParseUrl
<3>1. pc = "parse" /\ received = Length /\ at \in 0..Length /\ ReadsTo(u, at, parser)
        /\ received' = received
  BY <2>3, <2>5 DEF ParseUrl
<3>2. CASE at < received /\ parser.result = "valid"
<4>1. /\ at' = at + 1 /\ pc' = pc
      /\ parser' = Urls!UrlStep(parser, message.text[at + 1])
  BY <2>5, <3>2 DEF ParseUrl
<4>2. at \in Nat /\ at < EndAt(u) /\ at + 1 \in 0..Length
  BY <2>2, <3>1, <3>2
<4>3. UrlAt(u, at, parser)
  BY <3>1, <3>2 DEF ReadsTo, GivesUp
<4>4. ReadsTo(u, at + 1, Urls!UrlStep(parser, UrlText(u)[at + 1]))
  BY <2>2, <4>2, <4>3, UrlIsRead
<4> QED
  BY <2>2, <3>1, <4>1, <4>2, <4>4
<3>3. CASE ~(at < received /\ parser.result = "valid")
<4>1. pc' = "done" /\ parser' = Urls!UrlEnd(parser)
  BY <2>5, <3>3 DEF ParseUrl
<4>2. UrlAt(u, at, parser) => parser.result = "valid"
  BY DEF UrlAt, InScheme, InSlashes, InName, InPasswordDigits, InPassword, InPortDigits,
         InHostname, InBrackets, InPort, InPath, InQuery, InFragment, Early, Behind,
         UrlRead
<4>3. UrlAt(u, EndAt(u), parser) \/ GivesUp(u, parser)
<5>1. UrlAt(u, at, parser) => at = EndAt(u)
  BY <2>2, <3>1, <3>3, <4>2
<5> QED
  BY <3>1, <5>1 DEF ReadsTo
<4>4. /\ \A f \in DOMAIN message.meaning : parser'[f] = message.meaning[f]
      /\ parser'.result = "valid" => Urls!httpPort(parser') = message.httpPort
  BY <2>1, <4>1, <4>3, UrlEnds
<4>5. AddressUnderstood'
  BY <1>1, <4>4 DEF AddressUnderstood
<4> QED
  BY <4>1, <4>5
<3> QED
  BY <3>2, <3>3
<2>6. CASE ClientCloses \/ RecvRequest \/ SplitHost \/ ParseHttp \/ ParseEnds
  BY <2>1, <2>6 DEF ClientCloses, RecvRequest, SplitHost, ParseHttp, ParseEnds
<2>7. CASE UNCHANGED vars
  BY <2>3, <2>7 DEF vars, AddressUnderstood
<2> QED
  BY <2>4, <2>5, <2>6, <2>7 DEF Next
<1>3. ASSUME message.kind = "host"
      PROVE  /\ pc' \in {"recv", "done"}
             /\ pc' = "done" => AddressUnderstood'
<2>1. WritesHost(message) /\ pc \in {"recv", "done"} /\ (pc = "done" => AddressUnderstood)
  BY <1>1, <1>3, AddressesAssumption DEF AddressInv
<2>2. CASE SplitHost
<3>1. pc' = "done" /\ parser' = Urls!splitHostAndPort(message.text)
  BY <2>2 DEF SplitHost
<3>2. /\ DOMAIN message.meaning = {"host", "port"}
      /\ parser'.host = message.meaning.host /\ parser'.port = message.meaning.port
      /\ parser'.result = "split"
  BY <2>1, <3>1, HostIsSplit
<3>3. AddressUnderstood'
  BY <1>1, <3>2 DEF AddressUnderstood
<3> QED
  BY <3>1, <3>3
<2>3. CASE ClientCloses \/ RecvRequest \/ PassText \/ ParseHttp \/ ParseEnds \/ ParseUrl
  BY <1>3, <2>3 DEF ClientCloses, RecvRequest, PassText, ParseHttp, ParseEnds, ParseUrl
<2>4. CASE UNCHANGED vars
  BY <2>1, <2>4 DEF vars, AddressUnderstood
<2> QED
  BY <2>2, <2>3, <2>4 DEF Next
<1> QED
  BY <1>1, <1>2, <1>3 DEF AddressInv, WrittenUrl, Length

\* Whatever the parts of a URL are, and whatever the host and the port of a Host
\* value, the parser finds them and the port to connect to, and it aborts the
\* program for the URLs of UrlAborts (a password of digits only, a host in
\* brackets behind a user, a port without a path) and refuses those of
\* UrlIsRefused and no others (UrlParser::parse_, httpPort, splitHostAndPort).
\* Of a string that has not the form of a URL nothing is said.
THEOREM AddressesAreUnderstood ==
    Spec => []((message.kind = "url" => "parts" \in DOMAIN message)
                  => AddressUnderstood)
<1>1. AddressInv => ((message.kind = "url" => "parts" \in DOMAIN message)
                        => AddressUnderstood)
  BY DEF AddressInv, WrittenUrl, AddressUnderstood
<1> QED
  BY <1>1, InitAddressInv, NextAddressInv, PTL DEF Spec
=============================================================================
