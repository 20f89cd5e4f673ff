----------------------------- MODULE MCPlaylists -----------------------------
EXTENDS Playlists, TLC

\* Tracks and names are interchangeable.
Symmetry == Permutations(Track) \cup Permutations(Name)
=============================================================================
