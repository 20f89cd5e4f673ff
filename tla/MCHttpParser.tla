---------------------------- MODULE MCHttpParser -----------------------------
(***************************************************************************)
(* HttpParser on all streams put together from a few lines and bodies,     *)
(* fed in all possible pieces.                                             *)
(***************************************************************************)
EXTENDS HttpParser, SequencesExt

MCLengths == [c \in {"1", "2", "3"} |-> CASE c = "1" -> 1 [] c = "2" -> 2 [] c = "3" -> 3]

CRLF == <<"CR", "LF">>

\* Request lines at and over the limit, with a stray CR, and malformed.
RequestLines == {<<"r">>, <<"r", "r">>, <<"r", "CR">>, <<"r", "r", "r">>, <<"x">>, <<>>}

HeaderLines == {<<"h">>, <<"1">>, <<"2">>, <<"3">>, <<"t">>, <<"x">>}

\* No header, one, two; too many; too many bytes; a line over the limit.
HeaderSections ==
    {<<>>, <<<<"h">>, <<"h">>, <<"h">>>>, <<<<"h">>, <<"h", "h", "h">>>>,
     <<<<"h", "h", "h", "h", "h", "h", "h">>>>}
    \cup {<<h>> : h \in HeaderLines}
    \cup {<<g, h>> : g \in {<<"h">>, <<"1">>, <<"2">>}, h \in {<<"h">>, <<"1">>, <<"2">>}}

\* What follows the headers: a body that looks like the end of a line, and
\* another request.
Rests == {<<>>, <<"r">>, CRLF, CRLF \o <<"r">> \o CRLF \o CRLF,
          <<"r", "r">> \o CRLF \o <<"1">> \o CRLF \o CRLF \o <<"x", "x">>}

Section(lines) == FlattenSeq([i \in 1..Len(lines) |-> lines[i] \o CRLF])

MCStreams == {r \o CRLF \o Section(hs) \o CRLF \o rest :
                 r \in RequestLines, hs \in HeaderSections, rest \in Rests}
=============================================================================
