SPECIFICATION Spec
CONSTANTS
    Track = {t1, t2, t3}
    Name = {n1}
    Empty = empty
    NoRow = norow
    NotGiven = notgiven
    Unparsable = unparsable
    DefaultLimit = 2
    MaxLimit = 3
    RawLimit = {notgiven, unparsable, 1}
    MaxId = 2
    MaxPosition = 3
SYMMETRY Symmetry
INVARIANT PlaylistsSound
PROPERTIES NotFoundIsTrue ImplementsLists
