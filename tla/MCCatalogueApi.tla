--------------------------- MODULE MCCatalogueApi ----------------------------
(***************************************************************************)
(* CatalogueApi, and with it Catalogue, with files whose artist, album and *)
(* title are texts of one or two characters, and whose tags name the same  *)
(* artists and albums in different ways.                                   *)
(***************************************************************************)
EXTENDS CatalogueApi, TLC

CONSTANTS p1, p2

A == <<"a">>
AB == <<"A", "b">>

MCStem == [p \in {p1, p2} |-> A]
MCFold == [c \in {"a", "A", "b", "B", "_", "%"} |-> CASE c = "A" -> "a" [] c = "B" -> "b" [] OTHER -> c]
MCRank == [t \in {A, AB} |-> IF t = A THEN 1 ELSE 2]

Tags(title, artist, album, albumArtist) ==
    [title |-> title, artist |-> artist, album |-> album, albumArtist |-> albumArtist]

\* An album of its track's artist by an empty album artist tag, one of no
\* artist, and one of another artist than the track's.
MCRawTags == {Tags(<<>>, AB, A, <<>>), Tags(AB, <<>>, A, NoTag), Tags(<<>>, AB, A, A)}

MCTerms == {NoTag, <<>>, <<"B">>, <<"a", "b">>, <<"_", "b">>}
MCRawId == {Unparsable, 0, 1, 2}
MCRawFilter == {NotGiven, 0, 1}
MCRawLimit == {NotGiven, Unparsable}

\* Scan processes are interchangeable.
Symmetry == Permutations(Scanner)
=============================================================================
