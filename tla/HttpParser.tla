------------------------------ MODULE HttpParser ------------------------------
(***************************************************************************)
(* What HttpRequestParser and HttpResponseParser have in common            *)
(* (http-proxy/httpparser/http{request,response}parser.h): the classes of  *)
(* bytes, the header lines and the body, as a function from the state of   *)
(* the parser and one byte to its next state.                              *)
(*                                                                         *)
(* A symbol stands for one byte, or for a run of bytes that the parser     *)
(* treats alike (a word): it is pushed to a field as a whole, and counts   *)
(* as one byte of a body.  A field is a sequence of symbols.               *)
(***************************************************************************)
EXTENDS Integers, Sequences, SequencesExt, FiniteSetsExt

Digits == {"0", "1", "2"}
DigitValue == [d \in Digits |-> CASE d = "0" -> 0 [] d = "1" -> 1 [] d = "2" -> 2]
Controls == {"CR", "LF", "HT", "NUL"}
Specials == {":", ";", "=", "/", " ", "HT", "@", "?", "["}
AlphaWords == {"H", "T", "P", "GET", "POST", "PUT", "OK", "Host", "Connection",
               "Close", "chunked", "http", "https", "word"}
OtherWords == {"Content-Length", "Transfer-Encoding", "Keep-Alive", ".", "-", "#",
               "high"}       \* a byte over 127
Symbols == Digits \cup Controls \cup Specials \cup AlphaWords \cup OtherWords

isChar(c)    == c # "high"
isControl(c) == c \in Controls
isSpecial(c) == c \in Specials
isDigit(c)   == c \in Digits
isalpha(c)   == c \in AlphaWords
isalnum(c)   == isalpha(c) \/ isDigit(c)

\* A byte of a method or of the name of a header.
isToken(c) == isChar(c) /\ ~isControl(c) /\ ~isSpecial(c)

\* How many of a field's first bytes are of a class.
Run(field, class) ==
    Max({k \in 0..Len(field) : \A i \in 1..k : field[i] \in class})

\* atoi and strtol: the number a field starts with, behind blanks and a sign,
\* and 0 if there is none.  The alphabet has no "+", the words no hexadecimal
\* digit where a size is read, and no number is too long for its type.
NumberOf(field, base) ==
    LET text   == SubSeq(field, Run(field, {" "}) + 1, Len(field))
        minus  == text # <<>> /\ text[1] = "-"
        number == IF minus THEN Tail(text) ELSE text
        value  == FoldLeft(LAMBDA n, d : base * n + DigitValue[d], 0,
                           SubSeq(number, 1, Run(number, Digits)))
    IN  IF minus THEN -value ELSE value

\* bound: what std::string::reserve takes, scaled down.
MaxSize == 1000

-----------------------------------------------------------------------------
\* The parser with the message it fills.  `result` is what the last call of
\* parse has returned, "ParsingIncompleted" while it is running, and
\* "terminated" if it has thrown an exception, which nobody catches.
NewParser(start) ==
    [state |-> start, contentSize |-> 0, chunkSizeStr |-> <<>>, chunkSize |-> 0,
     chunked |-> FALSE, result |-> "ParsingIncompleted",
     method |-> <<>>, uri |-> <<>>, versionMajor |-> 0, versionMinor |-> 0,
     statusCode |-> 0, status |-> <<>>, headers |-> <<>>, content |-> <<>>,
     keepAlive |-> FALSE]

Move(p, to)  == [p EXCEPT !.state = to]
Error(p)     == [p EXCEPT !.result = "ParsingError"]
Completed(p) == [p EXCEPT !.result = "ParsingCompleted"]
Terminated(p) == [p EXCEPT !.result = "terminated"]

\* A state that expects one certain byte.
Expect(p, c, byte, to) == IF c = byte THEN Move(p, to) ELSE Error(p)

\* The last header, and a byte more in its name or value.
LastHeader(p) == p.headers[Len(p.headers)]
PushName(p, c) ==
    [p EXCEPT !.headers[Len(p.headers)].name = Append(@, c)]
PushValue(p, c) ==
    [p EXCEPT !.headers[Len(p.headers)].value = Append(@, c)]

-----------------------------------------------------------------------------
(* Header lines.                                                           *)

\* Mutant: the CR of the empty line ends the head.
HeaderLineStartHasty(p, c) ==
    CASE c = "CR" -> Completed(p)
      [] p.headers # <<>> /\ c \in {" ", "HT"} -> Move(p, "HeaderLws")
      [] isToken(c) ->
            [Move(p, "HeaderName") EXCEPT
                !.headers = Append(@, [name |-> <<c>>, value |-> <<>>])]
      [] OTHER -> Error(p)

HeaderLineStart(p, c) ==
    CASE c = "CR" -> Move(p, "ExpectingNewline_3")
      [] p.headers # <<>> /\ c \in {" ", "HT"} -> Move(p, "HeaderLws")
      [] isToken(c) ->
            [Move(p, "HeaderName") EXCEPT
                !.headers = Append(@, [name |-> <<c>>, value |-> <<>>])]
      [] OTHER -> Error(p)

\* A line that starts with a space goes on with the value before it.
HeaderLws(p, c) ==
    CASE c = "CR" -> Move(p, "ExpectingNewline_2")
      [] c \in {" ", "HT"} -> p
      [] isControl(c) /\ c \notin {"CR", " ", "HT"} -> Error(p)
      [] OTHER -> PushValue(Move(p, "HeaderValue"), c)

HeaderName(p, c) ==
    CASE c = ":" -> Move(p, "SpaceBeforeHeaderValue")
      [] isToken(c) -> PushName(p, c)
      [] OTHER -> Error(p)

\* The header that has ended tells how long the body is.  (strcasecmp: the
\* symbols stand for these words in any case.)  A negative length is a huge
\* size_t, which content.reserve refuses with std::length_error.
MeasureBody(p) ==
    LET h == LastHeader(p)
        length == NumberOf(h.value, 10)
    IN  CASE h.name = <<"Content-Length">> /\ length >= 0 ->
                [p EXCEPT !.contentSize = length]
          [] h.name = <<"Content-Length">> /\ length < 0 -> Terminated(p)
          [] h.name = <<"Transfer-Encoding">> /\ h.value = <<"chunked">> ->
                [p EXCEPT !.chunked = TRUE]
          [] OTHER -> p

\* `measured`: whether this message may have a body at all.
HeaderValue(p, c, measured) ==
    CASE c = "CR" ->
            Move(IF measured THEN MeasureBody(p) ELSE p, "ExpectingNewline_2")
      [] isControl(c) /\ c # "CR" -> Error(p)
      [] OTHER -> PushValue(p, c)

\* std::find_if: the first Connection header decides.
KeepAlive(p) ==
    LET connection == SelectSeq(p.headers, LAMBDA h : h.name = <<"Connection">>)
    IN  IF connection # <<>> THEN connection[1].value = <<"Keep-Alive">>
        ELSE p.keepAlive \/ p.versionMajor > 1
                         \/ (p.versionMajor = 1 /\ p.versionMinor = 1)

\* The end of the head.  The byte itself is looked at only when there is no
\* body.
HeadEnds(p, c) ==
    LET q == [p EXCEPT !.keepAlive = KeepAlive(p)]
    IN  CASE p.chunked -> Move(q, "ChunkSize")
          [] ~p.chunked /\ p.contentSize # 0 -> Move(q, "Post")
          [] OTHER -> IF c = "LF" THEN Completed(q) ELSE Error(q)

HeaderStates == {"HeaderLineStart", "HeaderLws", "HeaderName",
                 "SpaceBeforeHeaderValue", "HeaderValue", "ExpectingNewline_2",
                 "ExpectingNewline_3"}

HeaderStep(p, c, measured) ==
    CASE p.state = "HeaderLineStart"        -> HeaderLineStart(p, c)
      [] p.state = "HeaderLws"              -> HeaderLws(p, c)
      [] p.state = "HeaderName"             -> HeaderName(p, c)
      [] p.state = "SpaceBeforeHeaderValue" -> Expect(p, c, " ", "HeaderValue")
      [] p.state = "HeaderValue"            -> HeaderValue(p, c, measured)
      [] p.state = "ExpectingNewline_2"     -> Expect(p, c, "LF", "HeaderLineStart")
      [] p.state = "ExpectingNewline_3"     -> HeadEnds(p, c)

-----------------------------------------------------------------------------
(* The body: contentSize bytes, or chunks.                                 *)

PushContent(p, c) == [p EXCEPT !.content = Append(@, c)]

\* Mutant: the body is one byte shorter than announced.
PostShort(p, c) ==
    LET q == [PushContent(p, c) EXCEPT !.contentSize = @ - 1]
    IN  IF q.contentSize <= 1 THEN Completed(q) ELSE q

Post(p, c) ==
    LET q == [PushContent(p, c) EXCEPT !.contentSize = @ - 1]
    IN  IF q.contentSize = 0 THEN Completed(q) ELSE q

\* The line with the size of a chunk, and what may follow the size.
ChunkSize(p, c) ==
    CASE isalnum(c) -> [p EXCEPT !.chunkSizeStr = Append(@, c)]
      [] c = ";"  -> Move(p, "ChunkExtensionName")
      [] c = "CR" -> Move(p, "ChunkSizeNewLine")
      [] OTHER -> Error(p)

ChunkExtension(p, c) ==
    CASE isalnum(c) \/ c = " " -> p
      [] c = "=" /\ p.state = "ChunkExtensionName" -> Move(p, "ChunkExtensionValue")
      [] c = "CR" -> Move(p, "ChunkSizeNewLine")
      [] OTHER -> Error(p)

\* The size is evaluated at the end of its line; the end of a trailer line
\* comes here too, with no digits, which is the size 0.  content.reserve throws
\* when the content would be too long.
ChunkBegins(p, c) ==
    LET size == NumberOf(p.chunkSizeStr, 16)
        q == [Move(p, IF size = 0 THEN "ChunkSizeNewLine_2" ELSE "ChunkData")
                EXCEPT !.chunkSize = size, !.chunkSizeStr = <<>>]
    IN  CASE c # "LF" -> Error(p)
          [] c = "LF" /\ Len(p.content) + size > MaxSize -> Terminated(p)
          [] OTHER -> q

ChunkData(p, c) ==
    LET q == [PushContent(p, c) EXCEPT !.chunkSize = @ - 1]
    IN  IF q.chunkSize = 0 THEN Move(q, "ChunkDataNewLine_1") ELSE q

\* After the last chunk: trailers, or an empty line.
Trailer(p, c) ==
    CASE p.state = "ChunkSizeNewLine_2" ->
            CASE c = "CR" -> Move(p, "ChunkSizeNewLine_3")
              [] isalpha(c) -> Move(p, "ChunkTrailerName")
              [] OTHER -> Error(p)
      [] p.state = "ChunkSizeNewLine_3" ->
            IF c = "LF" THEN Completed(p) ELSE Error(p)
      [] p.state = "ChunkTrailerName" ->
            CASE isalnum(c) -> p
              [] c = ":" -> Move(p, "ChunkTrailerValue")
              [] OTHER -> Error(p)
      [] p.state = "ChunkTrailerValue" ->
            CASE isalnum(c) \/ c = " " -> p
              [] c = "CR" -> Move(p, "ChunkSizeNewLine")
              [] OTHER -> Error(p)

BodyStates == {"Post", "ChunkSize", "ChunkExtensionName", "ChunkExtensionValue",
               "ChunkSizeNewLine", "ChunkSizeNewLine_2", "ChunkSizeNewLine_3",
               "ChunkTrailerName", "ChunkTrailerValue", "ChunkData",
               "ChunkDataNewLine_1", "ChunkDataNewLine_2"}

BodyStep(p, c) ==
    CASE p.state = "Post"               -> Post(p, c)
      [] p.state = "ChunkSize"          -> ChunkSize(p, c)
      [] p.state \in {"ChunkExtensionName", "ChunkExtensionValue"}
                                        -> ChunkExtension(p, c)
      [] p.state = "ChunkSizeNewLine"   -> ChunkBegins(p, c)
      [] p.state = "ChunkData"          -> ChunkData(p, c)
      [] p.state = "ChunkDataNewLine_1" -> Expect(p, c, "CR", "ChunkDataNewLine_2")
      [] p.state = "ChunkDataNewLine_2" -> Expect(p, c, "LF", "ChunkSize")
      [] OTHER                          -> Trailer(p, c)
=============================================================================
