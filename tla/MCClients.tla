------------------------------ MODULE MCClients ------------------------------
(***************************************************************************)
(* The clients: one HTTP exchange of the sync client and its commands, and *)
(* playback and search of the iOS app.  The four share nothing and no      *)
(* property relates them, so a behaviour that exercises one leaves the     *)
(* others as they start.                                                   *)
(***************************************************************************)
EXTENDS HttpClient, SyncPush, Playback, SearchView

CONSTANTS a, b

VARIABLE part   \* the program this behaviour exercises

\* Two tracks, which may be queued more than once.
MCLists == {<<a>>, <<a, b>>}

Init ==
    /\ CallInit /\ SyncInit /\ PlaybackInit /\ SearchInit
    /\ part \in {"call", "sync", "playback", "search"}
    /\ part # "call" => file = 0

Next ==
    \/ part = "call" /\ CallNext /\ UNCHANGED <<syncVars, playbackVars, searchVars, part>>
    \/ part = "sync" /\ SyncNext /\ UNCHANGED <<callVars, playbackVars, searchVars, part>>
    \/ part = "playback" /\ PlaybackNext /\ UNCHANGED <<callVars, syncVars, searchVars, part>>
    \/ part = "search" /\ SearchNext /\ UNCHANGED <<callVars, syncVars, playbackVars, part>>

\* What is fair is not enabled in a program at its start, so that the fairness
\* of the others asks nothing of the one that runs.
Spec ==
    /\ Init /\ [][Next]_<<callVars, syncVars, playbackVars, searchVars, part>>
    /\ CallFairness /\ PlaybackFairness /\ SearchFairness
=============================================================================
