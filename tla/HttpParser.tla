----------------------------- MODULE HttpParser ------------------------------
(***************************************************************************)
(* HttpRequestParser (server/src/http/HttpRequestParser.cpp): the bytes of *)
(* a connection are fed in pieces of any size, and next() takes requests   *)
(* off the front of what is buffered.  Each turn of next()'s loop is one   *)
(* step.                                                                   *)
(*                                                                         *)
(* A byte is a symbol.  The first symbol of a line says what the line is:  *)
(* "r" a well-formed request line, "h" a header, "t" Transfer-Encoding, a  *)
(* member of DOMAIN Lengths a Content-Length with that value, anything     *)
(* else malformed.  "CR" and "LF" end lines and may also occur in bodies.  *)
(* A Content-Length that is no number is refused where one above MaxBody   *)
(* is, at the blank line and if it is the last, so a symbol with such a    *)
(* value stands for both.                                                  *)
(***************************************************************************)
EXTENDS Integers, Sequences, FiniteSetsExt

CONSTANTS
    Streams,             \* the byte streams clients send
    Lengths,             \* symbol -> the Content-Length it stands for
    MaxRequestLine,      \* limits_.maxRequestLineLength
    MaxHeaderBytes,      \* limits_.maxHeaderBytes
    MaxHeaderCount,      \* limits_.maxHeaderCount
    MaxBody,             \* limits_.maxBodySize
    NoLength             \* there is no Content-Length header

\* With a limit of no header bytes, a blank line cut between CR and LF would be
\* refused, and one that comes whole would not.
ASSUME ParserAssumption ==
    /\ MaxRequestLine \in Nat /\ MaxHeaderBytes \in Nat \ {0}
    /\ MaxHeaderCount \in Nat /\ MaxBody \in Nat /\ NoLength \notin Nat
    /\ \A s \in Streams : s \in Seq({s[i] : i \in DOMAIN s})
    /\ \A c \in DOMAIN Lengths : Lengths[c] \in Nat

VARIABLES
    stream,     \* everything the client will send
    fed,        \* how much of it was fed
    buffer,     \* buffer_
    state,      \* "requestLine", "headers" or "body"
    cur,        \* inProgress_ and the counters
    result,     \* "running" inside next(), otherwise what it returned last
    accepted    \* the requests returned so far

parserVars == <<stream, fed, buffer, state, cur, result, accepted>>

\* resetForNextRequest().
Fresh == [line |-> <<>>, length |-> NoLength, chunked |-> FALSE,
          bytes |-> 0, count |-> 0, bodyLength |-> 0]

ParserInit == /\ stream \in Streams /\ fed = 0 /\ buffer = <<>>
              /\ state = "requestLine" /\ cur = Fresh
              /\ result = "needMoreData" /\ accepted = <<>>

-----------------------------------------------------------------------------

Ends(s) == {i \in 1..Len(s) - 1 : s[i] = "CR" /\ s[i + 1] = "LF"}

\* buffer_.find("\r\n"): whether there is one, and the bytes before the first.
found(s) == Ends(s) # {}
position(s) == (CHOOSE i \in Ends(s) : \A j \in Ends(s) : i <= j) - 1

lineOf(s) == SubSeq(s, 1, position(s))

\* buffer_.erase(0, n).
erase(s, n) == SubSeq(s, n + 1, Len(s))

firstOf(line) == IF line = <<>> THEN "none" ELSE line[1]

\* Method, target and version are as they must be and the path decodes.
requestLineOk(line) == firstOf(line) = "r"

\* There is a colon and a name before it.
headerOk(line) == firstOf(line) \in {"h", "t"} \cup DOMAIN Lengths

Return(r) == result' = r /\ UNCHANGED <<stream, fed, buffer, state, cur, accepted>>

\* feed(): between two calls of next().
feed(n) ==
    /\ result \in {"needMoreData", "complete"} /\ fed + n <= Len(stream)
    /\ fed' = fed + n
    /\ buffer' = buffer \o SubSeq(stream, fed + 1, fed + n)
    /\ UNCHANGED <<stream, state, cur, result, accepted>>

\* next() is called; it is not called again after an error.
next == /\ result \in {"needMoreData", "complete"}
        /\ Return("running")

\* Mutant: an unfinished line may be of any length.
tooLong_Never(max) == FALSE

\* A line that is not complete yet is already longer than a complete one may be.
tooLong(max) == Len(buffer) > max

\* There is no complete line: an error if it is too long, or more data.
NoLine(max) == ~found(buffer) /\ Return(IF tooLong(max) THEN "error" ELSE "needMoreData")

\* State::RequestLine.
RequestLine ==
    /\ result = "running" /\ state = "requestLine"
    /\ \/ NoLine(MaxRequestLine)
       \/ /\ found(buffer)
          /\ position(buffer) > MaxRequestLine \/ ~requestLineOk(lineOf(buffer))
          /\ Return("error")
       \/ /\ found(buffer)
          /\ position(buffer) <= MaxRequestLine /\ requestLineOk(lineOf(buffer))
          /\ state' = "headers" /\ cur' = [Fresh EXCEPT !.line = lineOf(buffer)]
          /\ buffer' = erase(buffer, position(buffer) + 2)
          /\ UNCHANGED <<stream, fed, result, accepted>>

\* A header line is refused before it is stored.
headerRefused(pos, line) ==
    \/ cur.bytes + pos + 2 > MaxHeaderBytes
    \/ cur.count + 1 > MaxHeaderCount
    \/ ~headerOk(line)

\* State::Headers, a line with a header; the last of several with one name counts.
HeaderLine ==
    /\ result = "running" /\ state = "headers"
    /\ \/ NoLine(MaxHeaderBytes)
       \/ /\ found(buffer) /\ position(buffer) > 0
          /\ headerRefused(position(buffer), lineOf(buffer)) /\ Return("error")
       \/ /\ found(buffer) /\ position(buffer) > 0
          /\ ~headerRefused(position(buffer), lineOf(buffer))
          /\ LET first == firstOf(lineOf(buffer))
             IN  cur' = [cur EXCEPT !.bytes = @ + position(buffer) + 2, !.count = @ + 1,
                            !.length = IF first \in DOMAIN Lengths THEN Lengths[first] ELSE @,
                            !.chunked = @ \/ first = "t"]
          /\ buffer' = erase(buffer, position(buffer) + 2)
          /\ UNCHANGED <<stream, fed, state, result, accepted>>

\* finishHeaders(): chunked, or the last Content-Length is no number or too large.
headersRefused == cur.chunked \/ (cur.length # NoLength /\ cur.length > MaxBody)

\* State::Headers, the blank line.
EndOfHeaders ==
    /\ result = "running" /\ state = "headers"
    /\ found(buffer) /\ position(buffer) = 0
    /\ buffer' = erase(buffer, 2)
    /\ IF headersRefused
       THEN result' = "error" /\ UNCHANGED <<state, cur>>
       ELSE /\ cur' = [cur EXCEPT !.bodyLength = IF cur.length = NoLength THEN 0 ELSE cur.length]
            /\ state' = "body" /\ UNCHANGED result
    /\ UNCHANGED <<stream, fed, accepted>>

\* Mutant: the body is all that is buffered.
bodyTaken_All == Len(buffer)

\* How much of the buffer is the body.
bodyTaken == cur.bodyLength

\* Mutant: finalize() clears the buffer as well.
Body_ClearsBuffer ==
    /\ result = "running" /\ state = "body"
    /\ IF Len(buffer) < cur.bodyLength
       THEN Return("needMoreData")
       ELSE /\ accepted' = Append(accepted,
                     [line |-> cur.line, body |-> SubSeq(buffer, 1, bodyTaken)])
            /\ buffer' = <<>>
            /\ state' = "requestLine" /\ cur' = Fresh /\ result' = "complete"
            /\ UNCHANGED <<stream, fed>>

\* State::Body and finalize(): what follows the body stays buffered.
Body ==
    /\ result = "running" /\ state = "body"
    /\ IF Len(buffer) < cur.bodyLength
       THEN Return("needMoreData")
       ELSE /\ accepted' = Append(accepted,
                     [line |-> cur.line, body |-> SubSeq(buffer, 1, bodyTaken)])
            /\ buffer' = erase(buffer, bodyTaken)
            /\ state' = "requestLine" /\ cur' = Fresh /\ result' = "complete"
            /\ UNCHANGED <<stream, fed>>

ParserNext == \/ \E n \in 1..Len(stream) : feed(n)
              \/ next \/ RequestLine \/ HeaderLine \/ EndOfHeaders \/ Body

ParserSpec == ParserInit /\ [][ParserNext]_parserVars

-----------------------------------------------------------------------------
(* The reference: a parser that has the whole stream s.  A turn of it takes *)
(* a line, or the blank line and the body; c is what it has got so far.     *)

WholeInit == [at |-> 0, part |-> "request", line |-> <<>>, from |-> 0, headers |-> <<>>,
              requests |-> <<>>, end |-> "none"]

Stop(c, end) == [c EXCEPT !.end = end]

\* A request line that cannot be within the limit any more is an error; a CR
\* that may be half of its end does not count.
takeRequestLine(s, c) ==
    LET rest == erase(s, c.at)
        unfinished == \/ Len(rest) <= MaxRequestLine
                      \/ Len(rest) = MaxRequestLine + 1 /\ rest[Len(rest)] = "CR"
        next_at == c.at + position(rest) + 2
    IN  IF ~found(rest) THEN Stop(c, IF unfinished THEN "more" ELSE "error")
        ELSE IF position(rest) > MaxRequestLine \/ ~requestLineOk(lineOf(rest))
        THEN Stop(c, "error")
        ELSE [c EXCEPT !.at = next_at, !.from = next_at, !.part = "headers",
                       !.line = lineOf(rest), !.headers = <<>>]

\* What the header lines say of the body: the last length counts.
lengthsIn(headers) == {i \in DOMAIN headers : firstOf(headers[i]) \in DOMAIN Lengths}
lengthIn(headers) == IF lengthsIn(headers) = {} THEN 0
                     ELSE Lengths[firstOf(headers[Max(lengthsIn(headers))])]
chunkedIn(headers) == \E i \in DOMAIN headers : firstOf(headers[i]) = "t"

takeBody(s, c) ==
    LET length == lengthIn(c.headers)
        body == SubSeq(s, c.at + 3, c.at + 2 + length)
    IN  IF length > MaxBody \/ chunkedIn(c.headers) THEN Stop(c, "error")
        ELSE IF c.at + 2 + length > Len(s) THEN Stop(c, "more")
        ELSE [c EXCEPT !.at = @ + 2 + length, !.part = "request",
                       !.requests = Append(@, [line |-> c.line, body |-> body])]

\* The header section, from its first line on, is within the limits.
takeHeader(s, c) ==
    LET rest == erase(s, c.at)
        next_at == c.at + position(rest) + 2
    IN  IF ~found(rest) THEN Stop(c, IF Len(rest) > MaxHeaderBytes THEN "error" ELSE "more")
        ELSE IF position(rest) = 0 THEN takeBody(s, c)
        ELSE IF \/ next_at - c.from > MaxHeaderBytes
                \/ Len(c.headers) = MaxHeaderCount
                \/ ~headerOk(lineOf(rest))
        THEN Stop(c, "error")
        ELSE [c EXCEPT !.at = next_at, !.headers = Append(@, lineOf(rest))]

turn(s, c) == IF c.end # "none" THEN c
              ELSE IF c.part = "request" THEN takeRequestLine(s, c) ELSE takeHeader(s, c)

\* A turn that goes on takes two symbols at least.
parseWhole(s) ==
    LET after[n \in 0..Len(s) + 1] == IF n = 0 THEN WholeInit ELSE turn(s, after[n - 1])
    IN  after[Len(s) + 1]

Reference == [s \in Streams |-> parseWhole(s)]

-----------------------------------------------------------------------------
(* Properties.                                                              *)

\* However the stream is cut (HttpRequestParser.hpp:31-36), the requests
\* returned are the ones in the stream, from the first on, and none is
\* returned that the whole stream would not give.
RequestsOfStream ==
    LET requests == Reference[stream].requests
    IN  /\ Len(accepted) <= Len(requests)
        /\ \A i \in 1..Len(accepted) : accepted[i] = requests[i]

\* When all is fed and next() asks for more, every request of the stream was
\* returned: nothing stays in the buffer unseen.
NothingMissed ==
    [][result = "running" /\ result' = "needMoreData" /\ fed = Len(stream) =>
          /\ accepted = Reference[stream].requests
          /\ Reference[stream].end = "more"]_parserVars

\* A request line as long as the limit allows, of whose end only the CR is there.
AtTheLimit ==
    state = "requestLine" /\ Len(buffer) = MaxRequestLine + 1 /\ buffer[Len(buffer)] = "CR"

\* An error is the whole stream's error, after the same requests, except for
\* a longest possible request line cut between CR and LF.
ErrorsOfStream ==
    result = "error" =>
        \/ Reference[stream].end = "error" /\ accepted = Reference[stream].requests
        \/ AtTheLimit

\* A stream means the same however recv() cuts it (HttpRequestParser.hpp:31).
ParsesLikeWhole == RequestsOfStream /\ ErrorsOfStream

\* Whoever feeds a parser that keeps asking for more cannot make it hold more
\* than the limit of the part it is in (HttpRequestParser.hpp:69: "Exceeding
\* any of these yields ParseStatus::Error(BadRequest) rather than growing the
\* internal buffer without bound").
BufferBounded ==
    [][result = "running" /\ result' = "needMoreData" =>
          Len(buffer) <= CASE state = "requestLine" -> MaxRequestLine
                           [] state = "headers" -> MaxHeaderBytes
                           [] state = "body" -> MaxBody]_parserVars
=============================================================================
