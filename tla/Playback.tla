------------------------------ MODULE Playback -------------------------------
(***************************************************************************)
(* PlaybackController (client-ios/MusicBox/Playback/                       *)
(* PlaybackController.swift): the queue of the iOS app, shuffle and        *)
(* repeat, and the AVPlayer underneath.                                    *)
(*                                                                         *)
(* Everything runs on the main actor, one method at a time.  The end of an *)
(* item does not: the notification starts a Task that runs                 *)
(* handlePlaybackEnded() some time later, and taps and lock-screen         *)
(* commands may come first.  An index is 1 more than in the code, and 0 is *)
(* nil.  Times, durations and the lock screen's texts are left out; what   *)
(* skipToPrevious() asks of currentTime may turn out either way.           *)
(***************************************************************************)
EXTENDS Integers, Sequences, FiniteSets

CONSTANTS
    Tracks,      \* ids of tracks
    NoTrack,     \* the player has no item
    Lists,       \* the lists of tracks that are played from the library's views
    MaxQueue,    \* bound: rows of the queue
    MaxEnds      \* bound: end-of-item Tasks that are waiting

ASSUME PlaybackAssumption ==
    NoTrack \notin Tracks /\ Lists \subseteq Seq(Tracks) /\ MaxQueue \in Nat /\ MaxEnds \in Nat

VARIABLES
    queue, currentIndex, isPlaying, shuffleEnabled, repeatMode, shuffleOrder,
    item,        \* the track of player.currentItem
    rate,        \* player.rate is not 0
    atEnd,       \* the item has played to its end
    ends         \* Tasks that will call handlePlaybackEnded()

settings == <<shuffleEnabled, repeatMode>>
player == <<item, rate, atEnd>>
playbackVars == <<queue, currentIndex, isPlaying, shuffleEnabled, repeatMode, shuffleOrder,
          item, rate, atEnd, ends>>

PlaybackInit ==
    /\ queue = <<>> /\ currentIndex = 0 /\ isPlaying = FALSE
    /\ shuffleEnabled = FALSE /\ repeatMode = "off" /\ shuffleOrder = <<>>
    /\ item = NoTrack /\ rate = FALSE /\ atEnd = FALSE /\ ends = 0

-----------------------------------------------------------------------------

Indices(n) == [i \in 1..n |-> i]

Orders(n) == {s \in [1..n -> 1..n] : \A i, j \in 1..n : s[i] = s[j] => i = j}

\* reindexShuffleOrder(), for a queue of n rows.
reindexShuffleOrder(n, shuffle) ==
    IF shuffle THEN shuffleOrder' \in Orders(n) ELSE shuffleOrder' = Indices(n)

\* loadCurrentItem(): a new item, at its start; the old one's observer goes.
loadCurrentItem(track, autoplay) ==
    /\ item' = track /\ atEnd' = FALSE
    /\ rate' = (rate \/ autoplay) /\ isPlaying' = (isPlaying \/ autoplay)

\* play(tracks:startIndex:).
play(tracks, start) ==
    /\ start \in DOMAIN tracks
    /\ queue' = tracks /\ reindexShuffleOrder(Len(tracks), shuffleEnabled)
    /\ currentIndex' = start /\ loadCurrentItem(tracks[start], TRUE)
    /\ UNCHANGED <<settings, ends>>

\* resume(): there is a current track; nothing sounds at the end of an item.
resume ==
    /\ currentIndex # 0
    /\ rate' = ~atEnd /\ isPlaying' = TRUE
    /\ UNCHANGED <<queue, currentIndex, settings, shuffleOrder, item, atEnd, ends>>

pause ==
    /\ rate' = FALSE /\ isPlaying' = FALSE
    /\ UNCHANGED <<queue, currentIndex, settings, shuffleOrder, item, atEnd, ends>>

\* seek(to:), back from the end of the item; the rate stays as it is.
seek ==
    /\ atEnd' = FALSE
    /\ UNCHANGED <<queue, currentIndex, isPlaying, settings, shuffleOrder, item, rate, ends>>

\* advance(by:wrapping:): where to go, or 0 if the queue is over.
target(position, delta, count, wrapping) ==
    IF position + delta < 1 THEN (IF wrapping THEN count ELSE 1)
    ELSE IF position + delta > count THEN (IF wrapping THEN 1 ELSE 0)
    ELSE position + delta

advance(delta) ==
    LET order == IF shuffleEnabled THEN shuffleOrder ELSE Indices(Len(queue))
        position == CHOOSE k \in DOMAIN order : order[k] = currentIndex
        to == target(position, delta, Len(order), repeatMode = "all")
    IN  IF currentIndex = 0 THEN UNCHANGED <<queue, currentIndex, isPlaying, settings,
                                             shuffleOrder, player>>
        ELSE IF to = 0
        THEN /\ rate' = FALSE /\ isPlaying' = FALSE
             /\ UNCHANGED <<queue, currentIndex, settings, shuffleOrder, item, atEnd>>
        ELSE /\ currentIndex' = order[to]
             /\ loadCurrentItem(queue[order[to]], isPlaying)
             /\ UNCHANGED <<queue, settings, shuffleOrder>>

skipToNext == advance(1) /\ UNCHANGED ends

\* Restarts the track when it is late in it, else goes back.
skipToPrevious == \/ seek
                  \/ advance(-1) /\ UNCHANGED ends

setShuffle(on) ==
    /\ shuffleEnabled' = on /\ reindexShuffleOrder(Len(queue), on)
    /\ UNCHANGED <<queue, currentIndex, isPlaying, repeatMode, player, ends>>

\* setRepeatMode() and cycleRepeatMode().
setRepeatMode(mode) ==
    /\ repeatMode' = mode
    /\ UNCHANGED <<queue, currentIndex, isPlaying, shuffleEnabled, shuffleOrder, player, ends>>

playQueueItem(i) ==
    /\ i \in DOMAIN queue
    /\ currentIndex' = i /\ loadCurrentItem(queue[i], TRUE)
    /\ UNCHANGED <<queue, settings, shuffleOrder, ends>>

-----------------------------------------------------------------------------
(* Editing the queue.                                                       *)

\* How many of the indices in I come no later than i.
placeOf(I, i) == Cardinality({j \in I : j <= i})

\* The rows of q at the indices in I, in their order.
At(q, I) == [k \in 1..Cardinality(I) |-> q[CHOOSE i \in I : placeOf(I, i) = k]]

\* A new queue under the item that is playing.
Edit(q, index) ==
    /\ queue' = q /\ currentIndex' = index
    /\ reindexShuffleOrder(Len(q), shuffleEnabled)
    /\ UNCHANGED <<isPlaying, settings, player, ends>>

playNext(t) ==
    \/ currentIndex = 0 /\ play(<<t>>, 1)
    \/ /\ currentIndex # 0 /\ Len(queue) < MaxQueue
       /\ Edit(SubSeq(queue, 1, currentIndex) \o <<t>>
                   \o SubSeq(queue, currentIndex + 1, Len(queue)), currentIndex)

addToQueue(t) ==
    \/ currentIndex = 0 /\ play(<<t>>, 1)
    \/ currentIndex # 0 /\ Len(queue) < MaxQueue /\ Edit(Append(queue, t), currentIndex)

\* queue.firstIndex(where: same id); 0 if there is none.
firstIndex(q, t) == IF \E i \in DOMAIN q : q[i] = t
                    THEN CHOOSE i \in DOMAIN q : q[i] = t /\ \A j \in 1..i - 1 : q[j] # t
                    ELSE 0

\* queue.move(fromOffsets:toOffset:).
moved(q, source, destination) ==
    LET others == (DOMAIN q) \ source
    IN  At(q, {i \in others : i < destination}) \o At(q, source)
            \o At(q, {i \in others : i >= destination})

\* Mutant: the slot, not the track, stays current.
moveQueueItems_Slot(source, destination) ==
    Edit(moved(queue, source, destination), currentIndex)

moveQueueItems(source, destination) ==
    Edit(moved(queue, source, destination),
         IF currentIndex = 0 THEN 0
         ELSE firstIndex(moved(queue, source, destination), queue[currentIndex]))

\* replaceCurrentItem(with: nil) and isPlaying = false; AVPlayer may keep its rate.
stopped == item' = NoTrack /\ atEnd' = FALSE /\ isPlaying' = FALSE /\ rate' \in {rate, FALSE}

removeQueueItems(offsets) ==
    LET q == At(queue, (DOMAIN queue) \ offsets)
        index == IF currentIndex = 0 THEN 0 ELSE firstIndex(q, queue[currentIndex])
    IN  \/ index # 0 /\ Edit(q, index)
        \/ /\ index = 0
           /\ queue' = q /\ currentIndex' = 0 /\ stopped
           /\ reindexShuffleOrder(Len(q), shuffleEnabled)
           /\ UNCHANGED <<settings, ends>>

-----------------------------------------------------------------------------

\* AVPlayer reaches the end of its item, stops, and posts the notification.
ItemEnds ==
    /\ item # NoTrack /\ rate /\ ~atEnd /\ ends < MaxEnds
    /\ atEnd' = TRUE /\ rate' = FALSE /\ ends' = ends + 1
    /\ UNCHANGED <<queue, currentIndex, isPlaying, settings, shuffleOrder, item>>

\* Mutant: with one track repeated, it goes back to the start and stays there.
restart_Silent == atEnd' = FALSE /\ rate' = rate

\* seek(to: 0) and player.play().
restart == atEnd' = FALSE /\ rate' = TRUE

handlePlaybackEnded ==
    /\ ends > 0 /\ ends' = ends - 1
    /\ \/ /\ repeatMode = "one" /\ restart
          /\ UNCHANGED <<queue, currentIndex, isPlaying, settings, shuffleOrder, item>>
       \/ repeatMode # "one" /\ advance(1)

User ==
    \/ \E l \in Lists : \E i \in DOMAIN l : play(l, i)
    \/ resume \/ pause \/ seek \/ skipToNext \/ skipToPrevious
    \/ \E on \in BOOLEAN : setShuffle(on)
    \/ \E mode \in {"off", "all", "one"} : setRepeatMode(mode)
    \/ \E i \in DOMAIN queue : playQueueItem(i)
    \/ \E t \in Tracks : playNext(t) \/ addToQueue(t)
    \/ \E source \in SUBSET (DOMAIN queue), d \in 1..Len(queue) + 1 : moveQueueItems(source, d)
    \/ \E offsets \in SUBSET (DOMAIN queue) : removeQueueItems(offsets)

PlaybackNext == User \/ ItemEnds \/ handlePlaybackEnded

\* The main actor runs its Tasks.
PlaybackFairness == WF_playbackVars(handlePlaybackEnded)

PlaybackSpec == PlaybackInit /\ [][PlaybackNext]_playbackVars /\ PlaybackFairness

-----------------------------------------------------------------------------

\* Types; the shuffle order is a permutation of the queue's rows whatever was
\* edited (PlaybackController.swift:219-224), so that advance() always finds
\* the current row in it.
PlaybackTypeOK ==
    /\ queue \in Seq(Tracks) /\ currentIndex \in 0..Len(queue)
    /\ shuffleOrder \in Orders(Len(queue))
    /\ isPlaying \in BOOLEAN /\ shuffleEnabled \in BOOLEAN
    /\ repeatMode \in {"off", "all", "one"}
    /\ item \in Tracks \cup {NoTrack} /\ rate \in BOOLEAN /\ atEnd \in BOOLEAN
    /\ ends \in 0..MaxEnds

\* What is in the player is the track that the app shows as current, through
\* every edit of the queue, skip and late end-of-item Task, and the app never
\* shows that it is playing without one
\* (PlaybackController.swift:191-217, 249-279).  Of two rows with one track an
\* edit may make the other one current.  Nor is this about sound that the app
\* does not show: with one track repeated, a late Task restarts a player that
\* was paused meanwhile.
PlayerHasCurrent ==
    /\ item = IF currentIndex = 0 THEN NoTrack ELSE queue[currentIndex]
    /\ isPlaying => currentIndex # 0

\* Queue, index, shuffle order and player agree after every user action and
\* every late Task.
PlaybackSafe == PlaybackTypeOK /\ PlayerHasCurrent

\* A track that ends while the app shows it playing is not the end: the next
\* one sounds, or the same one again, or the app shows that it has stopped
\* (PlaybackController.swift:256-267, 281-288).
EndIsHandled == (isPlaying /\ ends > 0) ~> ((rate /\ ~atEnd) \/ ~isPlaying)
=============================================================================
