---------------------------- MODULE MCTrackStream ----------------------------
EXTENDS TrackStream

MCSizes   == 0 .. 5
MCNumbers == 0 .. 9
=============================================================================
