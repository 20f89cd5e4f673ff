---------------------------- MODULE TrackStream ----------------------------
(***************************************************************************)
(* GET /api/v1/tracks/{id}/stream: the handler (server/src/api/Api.cpp),   *)
(* parseRange() (server/src/http/Range.cpp) and the file window it serves  *)
(* (server/src/streaming/FileStreamSource.cpp).  The event loop pulls the  *)
(* body chunk by chunk, and the file may change between two pulls.         *)
(***************************************************************************)
EXTENDS Integers, Sequences

CONSTANTS
    Uint64Max,   \* the largest number parseUint64() accepts
    Chunk,       \* kReadChunkSize: how much one pull asks for
    Sizes,       \* the sizes a file can have
    Numbers      \* the numbers a client can write in a Range header

ASSUME BoundsAssumption ==
    /\ Uint64Max \in Nat /\ Chunk \in Nat \ {0}
    /\ Sizes \subseteq 0 .. Uint64Max
    /\ Numbers \subseteq Nat

\* A Range header as parseRange() takes it apart: absent; not "bytes=", no
\* dash, or several ranges; "-n"; "n-"; "n-m"; or one of these with a part
\* that is not a number.
Headers ==
    {[form |-> "absent"], [form |-> "malformed"]}
    \cup [form : {"suffix"}, length : Numbers]
    \cup [form : {"from"}, first : Numbers]
    \cup [form : {"fromTo"}, first : Numbers, last : Numbers]

NotSatisfiable == [outcome |-> "NotSatisfiable", start |-> 0, end |-> 0]

\* from_chars() fails on a number that does not fit 64 bits.
fits(n) == n <= Uint64Max

numbersFit(h) == CASE h.form = "suffix" -> fits(h.length)
                   [] h.form = "from"   -> fits(h.first)
                   [] h.form = "fromTo" -> fits(h.first) /\ fits(h.last)

\* The range a well-formed header asks for, before it is checked.
requested(h, size) ==
    CASE h.form = "suffix" ->
            [start |-> IF h.length > size THEN 0 ELSE size - h.length, end |-> size - 1]
      [] h.form = "from"   -> [start |-> h.first, end |-> size - 1]
      [] h.form = "fromTo" -> [start |-> h.first, end |-> h.last]

clampEnd(end, size) == IF end >= size THEN size - 1 ELSE end

\* Mutant: a range that starts just behind the last byte is accepted.
startsInside_OffByOne(r, size) == r.start <= r.end /\ r.start <= size

startsInside(r, size) == r.start <= r.end /\ r.start < size

parseRange(h, size) ==
    IF h.form = "absent" THEN [outcome |-> "NoRangeHeader", start |-> 0, end |-> 0]
    ELSE IF \/ h.form = "malformed" \/ size = 0 \/ ~numbersFit(h)
            \/ h.form = "suffix" /\ h.length = 0
            \/ ~startsInside(requested(h, size), size)
         THEN NotSatisfiable
         ELSE [outcome |-> "Satisfiable", start |-> requested(h, size).start,
               end |-> clampEnd(requested(h, size).end, size)]

\* ByteRange::length(), in 64-bit arithmetic.
length(r) == (r.end - r.start + 1) % (Uint64Max + 1)

-----------------------------------------------------------------------------

VARIABLES
    header,      \* the request's Range header
    disk,        \* the file's current size
    size,        \* FileStreamSource::size_, taken by fstat() when opened
    status,      \* "waiting" for the request, then the status sent
    declared,    \* the Content-Length sent
    start,       \* first byte of the window
    cursor,      \* FileRangeResponseBody::cursor_
    remaining,   \* FileRangeResponseBody::remaining_
    body,        \* history: the file offsets sent, in order
    finished     \* the body has reported its end

vars == <<header, disk, size, status, declared, start, cursor, remaining, body, finished>>

Init == /\ header \in Headers /\ disk \in Sizes
        /\ size = 0 /\ status = "waiting" /\ declared = 0 /\ start = 0
        /\ cursor = 0 /\ remaining = 0 /\ body = <<>> /\ finished = FALSE

\* Whether openRange() throws.
outsideFile(offset, len) == offset > size' \/ len > size' - offset

\* The id is not a number (400), the track is gone (404), or its file cannot be
\* opened (500).
Refuse == /\ status = "waiting"
          /\ \E code \in {"400", "404", "500"} : status' = code
          /\ finished' = TRUE
          /\ UNCHANGED <<header, disk, size, declared, start, cursor, remaining, body>>

\* The handler: open, size, parse the header, open the window, declare it.
Respond ==
    /\ status = "waiting"
    /\ size' = disk
    /\ LET r    == parseRange(header, disk)
           from == IF r.outcome = "Satisfiable" THEN r.start ELSE 0
           len  == IF r.outcome = "Satisfiable" THEN length(r) ELSE disk
       IN  IF r.outcome = "NotSatisfiable"
           THEN /\ status' = "416" /\ finished' = TRUE
                /\ UNCHANGED <<declared, start, cursor, remaining>>
           ELSE IF outsideFile(from, len)
           THEN /\ status' = "openRange failed" /\ finished' = TRUE
                /\ UNCHANGED <<declared, start, cursor, remaining>>
           ELSE /\ status' = IF r.outcome = "Satisfiable" THEN "206" ELSE "200"
                /\ declared' = len /\ start' = from
                /\ cursor' = from /\ remaining' = len
                /\ UNCHANGED finished
    /\ UNCHANGED <<header, disk, body>>

Min2(a, b) == IF a <= b THEN a ELSE b

\* Mutant: the last byte of the window is not asked for.
wanted_OffByOne(left) == IF Chunk > left THEN left - 1 ELSE Chunk

\* How much read() asks pread() for.
wanted(left) == IF Chunk > left THEN left ELSE Chunk

\* Mutant: read() asks again instead of reporting the end of the file.
endOfFile_Retry == UNCHANGED <<remaining, finished>>

\* pread() found the end of the file: remaining_ = 0, and read() returns 0.
endOfFile == remaining' = 0 /\ finished' = TRUE

\* What pread() can return at the cursor when asked for count bytes: nothing at
\* the end of the file, else as much as is there or, if interrupted, less.
pread(count) ==
    IF disk <= cursor \/ count = 0 THEN {0} ELSE 1 .. Min2(count, disk - cursor)

\* One pull: FileRangeResponseBody::read() with a whole chunk of room.
Pull ==
    /\ status \in {"200", "206"} /\ ~finished
    /\ IF remaining = 0
       THEN finished' = TRUE /\ UNCHANGED <<cursor, remaining, body>>
       ELSE \E n \in pread(wanted(remaining)) :
            IF n = 0
            THEN endOfFile /\ UNCHANGED <<cursor, body>>
            ELSE /\ cursor' = cursor + n
                 /\ remaining' = remaining - n
                 /\ body' = body \o [i \in 1 .. n |-> cursor + i - 1]
                 /\ UNCHANGED finished
    /\ UNCHANGED <<header, disk, size, status, declared, start>>

\* pread() fails: read() throws, nothing catches it and the process terminates.
PullFails ==
    /\ status \in {"200", "206"} /\ ~finished /\ remaining # 0
    /\ status' = "terminated" /\ finished' = TRUE
    /\ UNCHANGED <<header, disk, size, declared, start, cursor, remaining, body>>

\* Somebody truncates, extends or rewrites the file.
FileChanges == /\ disk' \in Sizes
               /\ UNCHANGED <<header, size, status, declared, start, cursor, remaining,
                              body, finished>>

Next == Refuse \/ Respond \/ Pull \/ PullFails \/ FileChanges

Spec == Init /\ [][Next]_vars

FairSpec == Spec /\ WF_vars(Refuse \/ Respond) /\ WF_vars(Pull)

-----------------------------------------------------------------------------

TypeOK ==
    /\ header \in Headers /\ disk \in Sizes /\ size \in Sizes \cup {0}
    /\ status \in {"waiting", "200", "206", "400", "404", "416", "500",
                   "openRange failed", "terminated"}
    /\ declared \in Nat /\ start \in Nat /\ cursor \in Nat /\ remaining \in Nat
    /\ body \in Seq(Nat) /\ finished \in BOOLEAN

\* RFC 7233's reading of a header: the set of bytes it selects of a resource.
Selected(h, n) ==
    CASE h.form = "absent" -> 0 .. n - 1
      [] h.form = "suffix" -> {i \in 0 .. n - 1 : i >= n - h.length}
      [] h.form = "from"   -> {i \in 0 .. n - 1 : i >= h.first}
      [] h.form = "fromTo" -> {i \in 0 .. n - 1 : h.first <= i /\ i <= h.last}
      [] OTHER             -> {}

\* The window the handler declares is the set of bytes the header selects of
\* the file it opened, never empty in a 206; 416 is sent only when the header
\* selects nothing or writes a number beyond 64 bits (Range.cpp:25-95).
WindowIsSelection ==
    /\ status \in {"200", "206"} =>
          {i \in 0 .. size : start <= i /\ i < start + declared} = Selected(header, size)
    /\ status = "206" => declared > 0
    /\ status = "416" => \/ Selected(header, size) = {}
                         \/ header.form # "malformed" /\ ~numbersFit(header)

\* The handler never asks openRange() for a window outside the file, so its
\* 500 answer for that case (Api.cpp:322-327) is never sent.
OpenRangeNeverFails == status # "openRange failed"

\* What is sent is the window from its first byte on, in order and without a
\* gap, and never goes beyond it: the Content-Length is never exceeded,
\* whatever happens to the file meanwhile.
BodyInsideWindow ==
    status \in {"200", "206"} =>
        /\ cursor = start + Len(body)
        /\ Len(body) <= declared /\ Len(body) + remaining <= declared
        /\ start + declared <= size
        /\ \A i \in DOMAIN body : body[i] = start + i - 1

\* Whatever Range was asked for and whatever happens to the file, the status,
\* the headers and the body agree on one window of it.
WindowSound == TypeOK /\ WindowIsSelection /\ OpenRangeNeverFails /\ BodyInsideWindow

\* A file that never shrinks is sent whole: unless the process terminates, the
\* body ends early only because the file got shorter than the window.
ShortOnlyIfTruncated ==
    [][finished' /\ ~finished /\ status' \in {"200", "206"} =>
          Len(body) = declared \/ disk <= cursor]_vars

\* Every response ends, even if the file is truncated under it ("stop rather
\* than spin", FileStreamSource.cpp:67).
ResponseEnds == <>finished
=============================================================================
